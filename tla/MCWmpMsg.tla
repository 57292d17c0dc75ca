----------------------------- MODULE MCWmpMsg -----------------------------
(* WmpMsg with a header of two bytes, and numbers of two and four bytes as *)
(* in the code: the two-byte getter can fail and a later getter succeed.   *)
EXTENDS WmpMsg

MCPuts ==
  {[type |-> Rescode, of |-> 0], [type |-> Echo, of |-> 9],
   [type |-> SecKey, of |-> <<3, <<1, 2>>>>], [type |-> Board, of |-> <<1, 2, <<>>>>],
   [type |-> Board, of |-> <<3, 4, <<1>>>>], [type |-> 9, of |-> <<>>],
   [type |-> 9, of |-> [i \in 1 .. AttrCap + 1 |-> 1]]}

(* A WIFICFG cut short, and one with all lengths of name and key that do   *)
(* and do not fit what is there, the last too long for a BUFF.             *)
Cut == {[i \in 1 .. n |-> 1] : n \in 0 .. WifiHead}
Full == {[i \in 1 .. WifiHead + n |->
            CASE i = 5 -> keylen [] i = WifiHead -> ssidlen [] OTHER -> 2] :
           n \in 0 .. 4, keylen \in 0 .. 4, ssidlen \in 0 .. 4}
Attr(type, v) == ToBytes(type, 2) \o ToBytes(Len(v), 2) \o v
Codes == {<<>>} \cup {ToBytes(n, Word) : n \in {0, 1}}

(* Every short datagram of three of the bytes, and every WIFICFG, by itself *)
(* or with a RESCODE behind it, whose number may be missing.               *)
MCDatagrams ==
  UNION {[1 .. n -> {0, 1, 2}] : n \in 0 .. 9}
    \cup {d \in {<<0, 0>> \o Attr(WifiCfg, v) \o r :
                    v \in Cut \cup Full, r \in {<<>>} \cup {Attr(Rescode, c) : c \in Codes}} :
            Len(d) <= MsgCap}
=============================================================================
