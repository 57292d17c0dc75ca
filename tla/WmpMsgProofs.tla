--------------------------- MODULE WmpMsgProofs ---------------------------
(***************************************************************************)
(* WmpMsg, for every size of bytes, headers, buffers and numbers and every *)
(* datagram: reading a message stays within it and ends at its end.        *)
(***************************************************************************)
EXTENDS WmpMsg, WmpAttrProofs

(* The place of the reader never leaves the message, and nothing is read   *)
(* before a message has arrived.                                           *)
InMessage ==
  /\ data \in Seq(ByteValues)
  /\ offset \in Nat /\ offset <= totlen /\ paylen \in Nat
  /\ touched \in Nat /\ touched <= totlen
  /\ pc = "build" => offset = 0 /\ touched = 0 /\ totlen >= PayPos

ShortValues ==
  /\ got \in Seq([type : Nat, val : Seq(ByteValues)])
  /\ \A i \in DOMAIN got : Len(got[i].val) <= AttrCap

IInv == InMessage /\ ShortValues /\ Consumed

LEMMA GotBytes ==
  ASSUME ShortValues, NEW i \in DOMAIN got
  PROVE  got[i].val \in Seq(ByteValues)
<1>1. got \in Seq([type : Nat, val : Seq(ByteValues)])
  BY DEF ShortValues
<1>2. i \in 1 .. Len(got)
  BY <1>1
<1>3. got[i] \in [type : Nat, val : Seq(ByteValues)]
  BY <1>1, <1>2, ElementOfSeq
<1> QED
  BY <1>3

-----------------------------------------------------------------------------
(* Bytes and numbers                                                       *)

LEMMA NumberBytes ==
  ASSUME NEW n \in Nat
  PROVE  Number(n) \in Seq(ByteValues) /\ Len(Number(n)) = 2
<1>1. n % Base \in 0 .. Base - 1 /\ (n \div Base) % Base \in 0 .. Base - 1
  BY BaseAssumption
<1> QED
  BY <1>1 DEF Number, ByteValues

LEMMA FieldNat ==
  ASSUME data \in Seq(ByteValues), NEW i \in Nat
  PROVE  Field(i) \in Nat
<1>1. \A k \in Nat : Byte(k) \in Nat
  BY BaseAssumption DEF Byte, totlen, ByteValues
<1>2. \A x \in Nat : x * Base \in Nat
  BY BaseAssumption
<1>3. i + 1 \in Nat
  OBVIOUS
<1>4. Byte(i) * Base \in Nat /\ Byte(i + 1) \in Nat
  BY <1>1, <1>2, <1>3, Zenon
<1>5. \A x, y \in Nat : x + y \in Nat
  OBVIOUS
<1> QED
  BY <1>4, <1>5, Zenon DEF Field

(* What the sender may put: the value is one of bytes, and it is unpacked  *)
(* to what was packed.                                                     *)
LEMMA PutsUnpack ==
  ASSUME NEW a \in Puts
  PROVE  /\ a.type \in Nat /\ a.type < Base * Base /\ Packed(a) \in Seq(ByteValues)
         /\ \A got1 : got1.type = a.type /\ got1.val = Packed(a) => Unpacked(got1) = a.of
<1>1. a.type \in Nat /\ a.type < Base * Base
  <2> DEFINE bb == Base * Base
  <2>1. bb \in Int
    BY BaseAssumption
  <2>2. a.type \in 0 .. bb - 1
    BY PutsAssumption
  <2> HIDE DEF bb
  <2> QED
    BY <2>1, <2>2 DEF bb
<1>2. Holds(a.type, a.of) /\ Word <= AttrCap
  BY PutsAssumption
<1> SUFFICES /\ Packed(a) \in Seq(ByteValues)
             /\ \A g : g.type = a.type /\ g.val = Packed(a) => Unpacked(g) = a.of
  BY <1>1
<1>3. CASE a.type \in {Rescode, Echo}
  <2>0. a.type # SecKey /\ a.type # Board
    BY <1>3, TypesAssumption
  <2>1. Packed(a) = PackNumber(a.of) /\ a.of \in Numbers(Word)
    BY <1>2, <1>3, <2>0 DEF Packed, Holds
  <2>2. \A g : g.type = a.type => Unpacked(g) = FromBytes(Fields(NumberFormat, g.val)[1])
    BY <1>3, <2>0 DEF Unpacked
  <2> QED
    BY <1>2, <2>1, <2>2, NumberUnpacks
<1>4. CASE a.type = SecKey
  <2>1. a.type \notin {Rescode, Echo} /\ a.type # Board
    BY <1>4, TypesAssumption
  <2>2. a.of \in Numbers(Word) \X Texts(Word)
    BY <1>2, <1>4, <2>1 DEF Holds
  <2>3. PICK n \in Numbers(Word), key \in Texts(Word) : a.of = <<n, key>>
    BY <2>2
  <2>4. Packed(a) = PackSecKey(n, key)
    BY <1>4, <2>1, <2>3 DEF Packed
  <2>5. \A g : g.type = a.type =>
          Unpacked(g) = LET f == Fields(SecKeyFormat, g.val) IN <<FromBytes(f[1]), f[2]>>
    BY <1>4, <2>1 DEF Unpacked
  <2> QED
    BY <1>2, <2>3, <2>4, <2>5, SecKeyUnpacks
<1>5. CASE a.type = Board
  <2>1. a.type \notin {Rescode, Echo} /\ a.type # SecKey
    BY <1>5, TypesAssumption
  <2>2. a.of \in Numbers(Half) \X Numbers(Half) \X Texts(2 * Half)
    BY <1>2, <1>5, <2>1 DEF Holds
  <2>3. PICK major \in Numbers(Half), minor \in Numbers(Half), name \in Texts(2 * Half) :
          a.of = <<major, minor, name>>
    BY <2>2
  <2>4. Packed(a) = PackBoard(major, minor, name)
    BY <1>5, <2>1, <2>3 DEF Packed
  <2>5. \A g : g.type = a.type =>
          Unpacked(g) = LET f == Fields(BoardFormat, g.val)
                        IN  <<FromBytes(f[1]), FromBytes(f[2]), f[3]>>
    BY <1>5, <2>1 DEF Unpacked
  <2> QED
    <3> DEFINE val == PackBoard(major, minor, name)
               f == Fields(BoardFormat, val)
    <3>1. val \in Seq(ByteValues) /\ <<FromBytes(f[1]), FromBytes(f[2]), f[3]>> = a.of
      BY <1>2, <2>3, BoardUnpacks
    <3> HIDE DEF val, f
    <3>2. \A g : g.type = a.type /\ g.val = Packed(a) => Unpacked(g) = a.of
      BY <2>4, <2>5, <3>1 DEF val, f
    <3> QED
      BY <2>4, <3>1, <3>2 DEF val
<1>6. CASE a.type \notin {Rescode, Echo, SecKey, Board}
  <2>1. Packed(a) = a.of /\ a.of \in Seq(ByteValues)
    BY <1>2, <1>6 DEF Packed, Holds
  <2>2. \A g : g.type = a.type => Unpacked(g) = g.val
    BY <1>6 DEF Unpacked
  <2> QED
    BY <2>1, <2>2
<1> QED
  BY <1>3, <1>4, <1>5, <1>6

(* A value wmmGetAttr returns has the length its attribute says.           *)
LEMMA ValueLength ==
  ASSUME InMessage, ~RunsPast
  PROVE  /\ AttrType \in Nat /\ AttrLen \in Nat
         /\ AttrVal \in Seq(ByteValues) /\ Len(AttrVal) = AttrLen
<1>1. AttrType \in Nat /\ AttrLen \in Nat
  <2>1. data \in Seq(ByteValues) /\ offset \in Nat /\ offset + 2 \in Nat
    BY DEF InMessage
  <2>2. Field(offset) \in Nat /\ Field(offset + 2) \in Nat
    BY <2>1, FieldNat, Zenon
  <2> QED
    BY <2>2 DEF AttrType, AttrLen
<1>2. /\ offset + 4 + AttrLen <= Len(data)
      /\ offset + 4 + AttrLen \in Nat /\ offset + 5 \in Nat
  BY <1>1 DEF InMessage, RunsPast, totlen
<1>3. AttrVal \in Seq(ByteValues) /\ Len(AttrVal) = AttrLen
  <2> DEFINE m == offset + 5  n == offset + 4 + AttrLen
  <2>1. /\ data \in Seq(ByteValues) /\ m \in Nat /\ n \in Nat
        /\ 1 <= m /\ n <= Len(data) /\ m <= n + 1 /\ n - m + 1 = AttrLen
    BY <1>1, <1>2 DEF InMessage
  <2> HIDE DEF m, n
  <2>2. SubSeq(data, m, n) \in Seq(ByteValues) /\ Len(SubSeq(data, m, n)) = n - m + 1
    BY <2>1
  <2> QED
    BY <2>1, <2>2 DEF AttrVal, m, n
<1> QED
  BY <1>1, <1>3

-----------------------------------------------------------------------------
(* The steps                                                               *)

LEMMA InitIInv == Init => IInv
<1> SUFFICES ASSUME Init PROVE IInv
  OBVIOUS
<1>1. data \in Seq(ByteValues) /\ (pc = "build" => Len(data) = PayPos)
  <2>1. CASE InitBuild
    <3>1. /\ [i \in 1 .. PayPos |-> 0] \in Seq(ByteValues)
          /\ Len([i \in 1 .. PayPos |-> 0]) = PayPos
      BY HeaderAssumption, BaseAssumption DEF ByteValues
    <3> QED
      BY <2>1, <3>1 DEF InitBuild
  <2>2. CASE InitArrived
    BY <2>2, DatagramAssumption DEF InitArrived
  <2> QED
    BY <2>1, <2>2 DEF Init
<1>2. Len(data) \in Nat
  BY <1>1
<1>3. InMessage
  BY <1>1, <1>2, HeaderAssumption DEF Init, InMessage, totlen
<1>4. ShortValues
  BY DEF Init, ShortValues
<1>5. pc # "parsed"
  BY DEF Init, InitBuild, InitArrived
<1> QED
  BY <1>3, <1>4, <1>5 DEF IInv, Consumed

LEMMA StutterIInv == IInv /\ UNCHANGED vars => IInv'
  BY DEF IInv, InMessage, ShortValues, Consumed, totlen, vars

(* The sender only makes the message longer.                               *)
LEMMA SendIInv ==
  ASSUME IInv, Send \/ \E a \in Puts : PutAttr(a)
  PROVE  IInv'
<1>1. CASE Send
  BY <1>1 DEF Send, IInv, InMessage, ShortValues, Consumed, totlen
<1>2. ASSUME NEW a \in Puts, PutAttr(a)
      PROVE  IInv'
  <2> DEFINE val == Packed(a)
             old == data \o Number(a.type) \o Number(Len(val)) \o val
             new == [old EXCEPT ![PayLenPos + 1] = Number(paylen')[1],
                                ![PayLenPos + 2] = Number(paylen')[2]]
  <2>1. a.type \in Nat /\ val \in Seq(ByteValues)
    BY PutsUnpack
  <2> HIDE DEF val
  <2>2. /\ Number(a.type) \in Seq(ByteValues) /\ Len(Number(a.type)) = 2
        /\ Number(Len(val)) \in Seq(ByteValues)
        /\ Len(Number(Len(val))) = 2
        /\ data \in Seq(ByteValues)
    BY <2>1, NumberBytes DEF IInv, InMessage
  <2>3. /\ old \in Seq(ByteValues)
        /\ Len(old) \in Nat /\ Len(data) \in Nat /\ Len(old) >= Len(data)
    <3>1. \A s, t \in Seq(ByteValues) :
            /\ s \o t \in Seq(ByteValues) /\ Len(s \o t) >= Len(s)
            /\ Len(s) \in Nat
      BY ConcatProperties, LenProperties
    <3>2. /\ data \o Number(a.type) \in Seq(ByteValues)
          /\ Len(data \o Number(a.type)) >= Len(data)
      BY <2>2, <3>1
    <3>3. /\ (data \o Number(a.type)) \o Number(Len(val)) \in Seq(ByteValues)
          /\ Len((data \o Number(a.type)) \o Number(Len(val)))
               >= Len(data \o Number(a.type))
      BY <2>2, <3>1, <3>2
    <3>4. old \in Seq(ByteValues)
          /\ Len(old) >= Len((data \o Number(a.type)) \o Number(Len(val)))
      BY <2>1, <3>1, <3>3
    <3> HIDE DEF old
    <3> QED
      BY <2>2, <3>1, <3>2, <3>3, <3>4
  <2>4. /\ data' = new /\ UNCHANGED <<pc, offset, touched, got>>
        /\ pc = "build" /\ paylen' = PutLen(val)
    BY <1>2 DEF PutAttr, val
  <2>5. paylen' \in Nat
    BY <2>1, <2>4 DEF PutLen, IInv, InMessage
  <2>6. Number(paylen')[1] \in ByteValues /\ Number(paylen')[2] \in ByteValues
    BY <2>5, NumberBytes
  <2> HIDE DEF old
  <2>7. new \in Seq(ByteValues) /\ Len(new) = Len(old)
    <3> DEFINE mid == [old EXCEPT ![PayLenPos + 1] = Number(paylen')[1]]
    <3>1. /\ PayLenPos + 1 \in 1 .. Len(old)
          /\ PayLenPos + 2 \in 1 .. Len(old)
      BY <2>3, <2>4, HeaderAssumption DEF PayLenPos, IInv, InMessage, totlen
    <3>2. mid \in Seq(ByteValues) /\ Len(mid) = Len(old)
      BY <2>3, <2>6, <3>1, ExceptSeq
    <3>3. new = [mid EXCEPT ![PayLenPos + 2] = Number(paylen')[2]]
      OBVIOUS
    <3> HIDE DEF mid, new
    <3> QED
      BY <2>6, <3>1, <3>2, <3>3, ExceptSeq
  <2> QED
    BY <2>3, <2>4, <2>5, <2>7, HeaderAssumption
       DEF IInv, InMessage, ShortValues, Consumed, totlen
<1> QED
  BY <1>1, <1>2

(* wmmPrepRecvd, and the outcomes of wmmGetAttr without an attribute.      *)
LEMMA SkipIInv ==
  ASSUME IInv, PrepRecvd \/ GetNone \/ GetStub \/ GetMalformed
  PROVE  IInv'
<1>1. Len(data) \in Nat
  BY DEF IInv, InMessage
<1>2. CASE PrepRecvd
  <2>1. PayPos - 2 \in Nat /\ data \in Seq(ByteValues)
    BY HeaderAssumption DEF IInv, InMessage
  <2>2. Field(PayLenPos) \in Nat
    BY <2>1, FieldNat DEF PayLenPos
  <2> QED
    BY <1>1, <1>2, <2>2, HeaderAssumption
     DEF PrepRecvd, TooShort, IInv, InMessage, ShortValues, Consumed, totlen
<1>3. CASE GetNone
  BY <1>1, <1>3 DEF GetNone, AtEnd, IInv, InMessage, ShortValues, Consumed,
     totlen
<1>4. CASE GetStub
  BY <1>1, <1>4 DEF GetStub, IInv, InMessage, ShortValues, Consumed, totlen
<1>5. CASE GetMalformed
  BY <1>1, <1>5 DEF GetMalformed, AtEnd, Stub, IInv, InMessage, ShortValues,
     Consumed, totlen
<1> QED
  BY <1>2, <1>3, <1>4, <1>5

(* An attribute was there, whatever its reader makes of it.                *)
LEMMA AttrIInv ==
  ASSUME IInv, JoinAttr \/ FirstAttr
  PROVE  IInv'
<1>1. GetAttr /\ pc' # "parsed" /\ pc' # "build"
  BY DEF JoinAttr, FirstAttr
<1>2. InMessage /\ ~RunsPast /\ ~TooLong /\ pc = "loop"
  BY <1>1 DEF GetAttr, IInv
<1>3. /\ AttrType \in Nat /\ AttrLen \in Nat
      /\ AttrVal \in Seq(ByteValues) /\ Len(AttrVal) = AttrLen
  BY <1>2, ValueLength
<1>4. AttrEnd \in Nat /\ AttrEnd <= totlen
  BY <1>2, <1>3 DEF InMessage, RunsPast, AttrEnd, totlen
<1>5. AttrLen <= AttrCap
  BY <1>2, <1>3, AttrCapAssumption DEF TooLong
<1>6. InMessage'
  BY <1>1, <1>2, <1>4 DEF GetAttr, InMessage, totlen
<1>7. ShortValues'
  <2> DEFINE new == [type |-> AttrType, val |-> AttrVal]
  <2>1. got' = Append(got, new)
    BY <1>1 DEF GetAttr
  <2>2. new \in [type : Nat, val : Seq(ByteValues)] /\ Len(new.val) <= AttrCap
    BY <1>3, <1>5
  <2> HIDE DEF new
  <2> QED
    BY <2>1, <2>2 DEF IInv, ShortValues
<1> QED
  BY <1>1, <1>6, <1>7 DEF IInv, Consumed

LEMMA NextIInv == IInv /\ [Next]_vars => IInv'
  BY SendIInv, SkipIInv, AttrIInv, StutterIInv DEF Next

-----------------------------------------------------------------------------
(* What is built                                                           *)

Sound ==
  /\ BuiltIsSound
  /\ pc = "build" => built /\ paylen = totlen - PayPos

LEMMA DivMod ==
  ASSUME NEW b \in Nat, b > 0, NEW n \in Nat, NEW q \in Int, NEW r \in Int,
         q = n \div b, r = n % b
  PROVE  n = b * q + r
  OBVIOUS

LEMMA NumberField ==
  ASSUME NEW n \in Nat, n < Base * Base
  PROVE  Number(n)[1] * Base + Number(n)[2] = n
<1> DEFINE q == n \div Base
           r == n % Base
<1>1. q \in Nat /\ r \in Nat /\ q < Base
  BY BaseAssumption
<1>2. Number(n)[1] = q % Base /\ Number(n)[2] = r
  BY DEF Number
<1>3. n = Base * q + r
  BY <1>1, DivMod, BaseAssumption
<1> HIDE DEF q, r
<1>4. q % Base = q
  BY <1>1, BaseAssumption
<1>5. q * Base = Base * q
  BY <1>1, BaseAssumption
<1> QED
  BY <1>1, <1>2, <1>3, <1>4, <1>5

LEMMA InitSound == Init => Sound
<1> SUFFICES ASSUME Init PROVE Sound
  OBVIOUS
<1>1. CASE InitBuild
  <2>1. Len(data) = PayPos /\ \A i \in 1 .. PayPos : data[i] = 0
    BY <1>1, HeaderAssumption DEF InitBuild
  <2>2. Byte(PayLenPos) = 0 /\ Byte(PayLenPos + 1) = 0
    BY <2>1, HeaderAssumption DEF Byte, PayLenPos, totlen
  <2>3. Field(PayLenPos) = 0
    BY <2>2, BaseAssumption DEF Field
  <2> QED
    BY <1>1, <2>1, <2>3, HeaderAssumption, CapAssumption
    DEF Init, InitBuild, Sound, BuiltIsSound, totlen
<1>2. CASE InitArrived
  BY <1>2, DatagramAssumption
  DEF InitArrived, Sound, BuiltIsSound, totlen
<1> QED
  BY <1>1, <1>2 DEF Init

(* The data is only changed by putting an attribute into it.               *)
LEMMA KeepSound ==
  ASSUME Sound, UNCHANGED <<data, built>>, pc' # "build" \/ UNCHANGED <<pc, paylen>>
  PROVE  Sound'
  BY DEF Sound, BuiltIsSound, Field, Byte, totlen

LEMMA PutSound ==
  ASSUME IInv, Sound, NEW a \in Puts, PutAttr(a)
  PROVE  Sound'
<1> DEFINE val == Packed(a)
           old == data \o Number(a.type) \o Number(Len(val)) \o val
           num == Number(paylen')
<1>1. /\ a.type \in Nat /\ val \in Seq(ByteValues)
      /\ data \in Seq(ByteValues) /\ pc = "build" /\ totlen >= PayPos
  BY PutsUnpack DEF PutAttr, IInv, InMessage
<1>2. /\ paylen' = PutLen(val) /\ UNCHANGED <<pc, built>>
      /\ totlen + 4 + Len(val) <= MsgCap
      /\ data' = [old EXCEPT ![PayLenPos + 1] = num[1], ![PayLenPos + 2] = num[2]]
  BY DEF PutAttr, Fits
<1> HIDE DEF val
<1>3. Len(data) \in Nat /\ Len(val) \in Nat /\ totlen = Len(data)
  BY <1>1 DEF totlen
<1>4. old \in Seq(ByteValues) /\ Len(old) = totlen + 4 + Len(val)
  <2>1. /\ Number(a.type) \in Seq(ByteValues) /\ Len(Number(a.type)) = 2
        /\ Number(Len(val)) \in Seq(ByteValues) /\ Len(Number(Len(val))) = 2
    BY <1>1, <1>3, NumberBytes
  <2>2. \A s, t \in Seq(ByteValues) :
          s \o t \in Seq(ByteValues) /\ Len(s \o t) = Len(s) + Len(t)
    BY ConcatProperties
  <2> DEFINE one == data \o Number(a.type)
             len == Number(Len(val))
             two == one \o len
  <2>3. one \in Seq(ByteValues) /\ Len(one) = totlen + 2
    BY <1>1, <1>3, <2>1, <2>2
  <2>4. two \in Seq(ByteValues) /\ Len(two) = totlen + 4
    <3>1. len \in Seq(ByteValues) /\ Len(len) = 2
      BY <2>1
    <3> HIDE DEF one, len
    <3>2. two \in Seq(ByteValues) /\ Len(two) = Len(one) + Len(len)
      BY <2>2, <2>3, <3>1
    <3> QED
      BY <1>3, <2>3, <3>1, <3>2
  <2> HIDE DEF two
  <2>5. two \o val \in Seq(ByteValues) /\ Len(two \o val) = totlen + 4 + Len(val)
    BY <1>1, <1>3, <2>2, <2>4
  <2> QED
    BY <2>5 DEF two
<1>5. paylen = totlen - PayPos /\ built
  BY <1>1 DEF Sound
<1>6. paylen' \in Nat /\ paylen' = Len(old) - PayPos /\ paylen' < Base * Base
  <2> DEFINE p == paylen + Len(val) + 4
  <2>1. paylen' = p
    BY <1>2 DEF PutLen
  <2> HIDE DEF old
  <2>2. p \in Nat /\ p = Len(old) - PayPos /\ p < MsgCap
    BY <1>1, <1>2, <1>3, <1>4, <1>5, HeaderAssumption, CapAssumption
  <2>3. p < Base * Base
    <3> DEFINE bb == Base * Base
    <3>1. bb \in Nat /\ MsgCap < bb /\ MsgCap \in Nat
      BY BaseAssumption, CapAssumption
    <3> HIDE DEF bb, p
    <3> QED
      BY <2>2, <3>1 DEF bb
  <2> HIDE DEF p
  <2> QED
    BY <2>1, <2>2, <2>3
<1>7. num[1] * Base + num[2] = paylen'
  BY <1>6, NumberField
<1> HIDE DEF old, num
<1>8. /\ Len(data') = Len(old)
      /\ data'[PayLenPos + 1] = num[1] /\ data'[PayLenPos + 2] = num[2]
  BY <1>1, <1>2, <1>3, <1>4, HeaderAssumption DEF PayLenPos
<1>9. Field(PayLenPos)' = paylen'
  <2>1. totlen' = Len(old) /\ PayLenPos + 1 \in Nat /\ PayLenPos + 1 < Len(old)
    BY <1>1, <1>3, <1>4, <1>8, HeaderAssumption DEF totlen, PayLenPos
  <2>2. Byte(PayLenPos)' = num[1] /\ Byte(PayLenPos + 1)' = num[2]
    BY <1>8, <2>1, HeaderAssumption DEF Byte, PayLenPos
  <2> QED
    BY <1>7, <2>2 DEF Field
<1>10. totlen' = Len(old) /\ totlen' <= MsgCap
  BY <1>2, <1>4, <1>8 DEF totlen
<1> QED
  BY <1>2, <1>5, <1>6, <1>9, <1>10 DEF Sound, BuiltIsSound

LEMMA NextSound == IInv /\ Sound /\ [Next]_vars => Sound'
<1> SUFFICES ASSUME IInv, Sound, [Next]_vars PROVE Sound'
  OBVIOUS
<1>1. CASE \E a \in Puts : PutAttr(a)
  BY <1>1, PutSound
<1>2. CASE Send
  BY <1>2, KeepSound DEF Send
<1>3. CASE PrepRecvd
  BY <1>3, KeepSound DEF PrepRecvd
<1>4. CASE GetNone \/ GetStub \/ GetMalformed
  BY <1>4, KeepSound DEF GetNone, GetStub, GetMalformed
<1>5. CASE JoinAttr \/ FirstAttr
  BY <1>5, KeepSound DEF JoinAttr, FirstAttr, GetAttr
<1>6. CASE UNCHANGED vars
  BY <1>6, KeepSound DEF vars
<1> QED
  BY <1>1, <1>2, <1>3, <1>4, <1>5, <1>6 DEF Next

-----------------------------------------------------------------------------
(* What arrives is what was put                                            *)

(* An attribute as wmmPutRawAttr writes it, and bytes that stand in a      *)
(* message from a place on.                                                *)
Wire(a) == (Number(a.type) \o Number(Len(Packed(a)))) \o Packed(a)
At(d, place, s) ==
  place + Len(s) <= Len(d) /\ \A k \in 1 .. Len(s) : d[place + k] = s[k]

(* The attributes of a message lie one behind the other, the i-th of them  *)
(* at place[i], and fill it.                                               *)
Laid(d, attrs, place) ==
  /\ place[1] = PayPos /\ place[Len(attrs) + 1] = Len(d)
  /\ \A i \in 1 .. Len(attrs) + 1 : place[i] \in Nat /\ place[i] >= PayPos
  /\ \A i \in 1 .. Len(attrs) :
       /\ place[i + 1] = place[i] + Len(Wire(attrs[i]))
       /\ At(d, place[i], Wire(attrs[i]))

(* The receiver stands between two attributes, and has those before.       *)
Received(place) ==
  /\ Len(got) <= Len(put)
  /\ \A i \in 1 .. Len(got) :
       got[i].type = put[i].type /\ got[i].val = Packed(put[i])
  /\ pc \in {"build", "arrived"} => got = <<>>
  /\ pc = "loop" => offset = place[Len(got) + 1]
  /\ pc = "parsed" => Len(got) = Len(put)
  /\ pc # "refused"

Arrives ==
  built =>
    /\ put \in Seq(Puts) /\ totlen >= PayPos
    /\ \A i \in 1 .. Len(put) : Len(Packed(put[i])) <= AttrCap
    /\ \E place : Laid(data, put, place) /\ Received(place)

LEMMA WireBytes ==
  ASSUME NEW a \in Puts
  PROVE  /\ Wire(a) \in Seq(ByteValues) /\ Len(Wire(a)) = 4 + Len(Packed(a))
         /\ Wire(a)[1] = Number(a.type)[1] /\ Wire(a)[2] = Number(a.type)[2]
         /\ Wire(a)[3] = Number(Len(Packed(a)))[1] /\ Wire(a)[4] = Number(Len(Packed(a)))[2]
         /\ \A k \in 1 .. Len(Packed(a)) : Wire(a)[4 + k] = Packed(a)[k]
<1> DEFINE val == Packed(a)
           one == Number(a.type)
           two == Number(Len(val))
           head == one \o two
<1>1. val \in Seq(ByteValues) /\ Len(val) \in Nat /\ a.type \in Nat
  BY PutsUnpack
<1> HIDE DEF val
<1>2. /\ one \in Seq(ByteValues) /\ Len(one) = 2
      /\ two \in Seq(ByteValues) /\ Len(two) = 2
  BY <1>1, NumberBytes
<1> HIDE DEF one, two
<1>3. /\ head \in Seq(ByteValues) /\ Len(head) = 4
      /\ head[1] = one[1] /\ head[2] = one[2] /\ head[3] = two[1] /\ head[4] = two[2]
  <2>1. /\ head \in Seq(ByteValues) /\ Len(head) = Len(one) + Len(two)
        /\ \A k \in 1 .. Len(one) : head[k] = one[k]
        /\ \A k \in 1 .. Len(two) : head[Len(one) + k] = two[k]
    BY <1>2, Concat
  <2> HIDE DEF head
  <2>2. head[2 + 1] = two[1] /\ head[2 + 2] = two[2]
    BY <1>2, <2>1
  <2> QED
    BY <1>2, <2>1, <2>2
<1> HIDE DEF head
<1>4. /\ head \o val \in Seq(ByteValues) /\ Len(head \o val) = 4 + Len(val)
      /\ \A k \in 1 .. 4 : (head \o val)[k] = head[k]
      /\ \A k \in 1 .. Len(val) : (head \o val)[4 + k] = val[k]
  <2>1. head \in Seq(ByteValues) /\ val \in Seq(ByteValues)
    BY <1>1, <1>3
  <2>2. /\ head \o val \in Seq(ByteValues) /\ Len(head \o val) = Len(head) + Len(val)
        /\ \A k \in 1 .. Len(head) : (head \o val)[k] = head[k]
        /\ \A k \in 1 .. Len(val) : (head \o val)[Len(head) + k] = val[k]
    BY <2>1, Concat
  <2>3. Len(head) = 4
    BY <1>3
  <2> QED
    BY <2>2, <2>3
<1>5. Wire(a) = head \o val
  BY DEF Wire, head, one, two, val
<1>6. /\ (head \o val)[1] = one[1] /\ (head \o val)[2] = one[2]
      /\ (head \o val)[3] = two[1] /\ (head \o val)[4] = two[2]
  BY <1>3, <1>4
<1> QED
  BY <1>4, <1>5, <1>6 DEF one, two, val

(* An attribute that stands where the receiver is, is what it gets.        *)
LEMMA GetsWire ==
  ASSUME data \in Seq(ByteValues), offset \in Nat, NEW a \in Puts,
         At(data, offset, Wire(a)), Len(Packed(a)) < Base * Base
  PROVE  /\ ~AtEnd /\ ~Stub /\ ~RunsPast
         /\ AttrType = a.type /\ AttrLen = Len(Packed(a)) /\ AttrVal = Packed(a)
         /\ AttrEnd = offset + Len(Wire(a))
<1> DEFINE w == Wire(a)
           val == Packed(a)
<1>1. /\ val \in Seq(ByteValues) /\ Len(val) \in Nat
      /\ a.type \in Nat /\ a.type < Base * Base
  BY PutsUnpack
<1>2. /\ Len(w) = 4 + Len(val)
      /\ w[1] = Number(a.type)[1] /\ w[2] = Number(a.type)[2]
      /\ w[3] = Number(Len(val))[1] /\ w[4] = Number(Len(val))[2]
      /\ \A k \in 1 .. Len(val) : w[4 + k] = val[k]
  BY WireBytes
<1>3. /\ offset + 4 + Len(val) <= totlen /\ totlen \in Nat
      /\ \A k \in 1 .. 4 + Len(val) : data[offset + k] = w[k]
  BY <1>1, <1>2 DEF At, totlen
<1> HIDE DEF w, val
<1>4. /\ Byte(offset) = w[1] /\ Byte(offset + 1) = w[2]
      /\ Byte(offset + 2) = w[3] /\ Byte(offset + 2 + 1) = w[4]
  <2>1. ASSUME NEW k \in 1 .. 4 PROVE data[offset + k] = w[k]
    BY <1>1, <1>3
  <2>2. ASSUME NEW k \in 0 .. 3 PROVE Byte(offset + k) = w[k + 1]
    <3>1. offset + k < totlen /\ (offset + k) + 1 = offset + (k + 1) /\ k + 1 \in 1 .. 4
      BY <1>1, <1>3
    <3>2. Byte(offset + k) = data[(offset + k) + 1]
      BY <3>1 DEF Byte
    <3>3. data[offset + (k + 1)] = w[k + 1]
      BY <2>1, <3>1, Zenon
    <3> QED
      BY <3>1, <3>2, <3>3, Zenon
  <2>3. /\ offset + 0 = offset /\ offset + 2 + 1 = offset + 3
        /\ 0 + 1 = 1 /\ 1 + 1 = 2 /\ 2 + 1 = 3 /\ 3 + 1 = 4
    OBVIOUS
  <2>4. /\ Byte(offset + 0) = w[0 + 1] /\ Byte(offset + 1) = w[1 + 1]
        /\ Byte(offset + 2) = w[2 + 1] /\ Byte(offset + 3) = w[3 + 1]
    BY <2>2
  <2> QED
    BY <2>3, <2>4
<1>5. Field(offset) = a.type /\ Field(offset + 2) = Len(val)
  <2>1. /\ Number(a.type)[1] * Base + Number(a.type)[2] = a.type
        /\ Number(Len(val))[1] * Base + Number(Len(val))[2] = Len(val)
    BY <1>1, NumberField DEF val
  <2> QED
    BY <1>2, <1>4, <2>1 DEF Field
<1>6. AttrType = a.type /\ AttrLen = Len(val)
  BY <1>5 DEF AttrType, AttrLen
<1>7. AttrVal = val
  <2> DEFINE m == offset + 5
             n == offset + 4 + Len(val)
             piece == SubSeq(data, m, n)
  <2>1. \A k \in m .. n : data[k] \in ByteValues
    BY <1>1, <1>3 DEF totlen
  <2>2. m \in Int /\ n \in Int
    BY <1>1
  <2>3. /\ piece \in Seq(ByteValues)
        /\ Len(piece) = IF m <= n THEN n - m + 1 ELSE 0
        /\ \A k \in 1 .. n - m + 1 : piece[k] = data[m + k - 1]
    BY <2>1, <2>2, SubSeqProperties
  <2>4. Len(piece) = Len(val)
    BY <1>1, <2>3
  <2>5. ASSUME NEW k \in 1 .. Len(val) PROVE piece[k] = val[k]
    <3>1. k \in 1 .. n - m + 1 /\ m + k - 1 = offset + (4 + k) /\ 4 + k \in 1 .. 4 + Len(val)
      BY <1>1
    <3> QED
      BY <1>2, <1>3, <2>3, <3>1
  <2>6. piece = val
    BY <1>1, <2>3, <2>4, <2>5, SeqEqual
  <2> QED
    BY <1>6, <2>6 DEF AttrVal
<1>8. ~AtEnd /\ ~Stub /\ ~RunsPast /\ AttrEnd = offset + Len(w)
  BY <1>1, <1>2, <1>3, <1>6 DEF AtEnd, Stub, RunsPast, AttrEnd
<1> QED
  BY <1>6, <1>7, <1>8 DEF w, val

(* One more attribute behind the message, whatever happens to its header.  *)
LEMMA LaidAppend ==
  ASSUME NEW d \in Seq(ByteValues), Len(d) >= PayPos, NEW attrs \in Seq(Puts), NEW place,
         Laid(d, attrs, place), NEW a \in Puts, NEW e \in Seq(ByteValues),
         Len(e) = Len(d) + Len(Wire(a)),
         \A k \in PayPos + 1 .. Len(d) : e[k] = d[k],
         \A k \in 1 .. Len(Wire(a)) : e[Len(d) + k] = Wire(a)[k]
  PROVE  \E new : Laid(e, Append(attrs, a), new)
<1> DEFINE n == Len(attrs)
           more == Append(attrs, a)
           new == [i \in 1 .. n + 2 |-> IF i = n + 2 THEN Len(e) ELSE place[i]]
           w(i) == Wire(attrs[i])
<1>1. n \in Nat /\ Len(d) \in Nat /\ Len(e) \in Nat /\ PayPos \in Nat
  BY HeaderAssumption
<1>2. /\ Len(more) = n + 1 /\ more[n + 1] = a
      /\ \A i \in 1 .. n : more[i] = attrs[i]
  BY AppendProperties
<1>3. \A i \in 1 .. n + 1 : new[i] = place[i]
  BY <1>1
<1>4. new[n + 2] = Len(e)
  BY <1>1
<1>5. Wire(a) \in Seq(ByteValues) /\ Len(Wire(a)) \in Nat
  BY WireBytes
<1>6. ASSUME NEW i \in 1 .. n PROVE Len(w(i)) \in Nat
  <2>1. attrs[i] \in Puts
    OBVIOUS
  <2> QED
    BY <2>1, WireBytes
<1> HIDE DEF more, new, n, w
<1>7. new[1] = PayPos /\ new[n + 1] = Len(d)
  BY <1>1, <1>3 DEF Laid, n
<1>8. \A i \in 1 .. n + 2 : new[i] \in Nat /\ new[i] >= PayPos
  <2>1. \A i \in 1 .. n + 1 : new[i] \in Nat /\ new[i] >= PayPos
    BY <1>3 DEF Laid, n
  <2> QED
    BY <1>1, <1>4, <1>5, <2>1
<1>9. ASSUME NEW i \in 1 .. n
      PROVE  new[i + 1] = new[i] + Len(w(i)) /\ At(e, new[i], w(i))
  <2>1. /\ place[i + 1] = place[i] + Len(w(i)) /\ At(d, place[i], w(i))
        /\ place[i] \in Nat /\ place[i] >= PayPos
    BY <1>1 DEF Laid, n, w
  <2>2. new[i + 1] = place[i + 1] /\ new[i] = place[i]
    BY <1>1, <1>3
  <2>3. ASSUME NEW k \in 1 .. Len(w(i)) PROVE e[place[i] + k] = w(i)[k]
    <3>1. place[i] + k \in PayPos + 1 .. Len(d)
      <4>1. place[i] + Len(w(i)) <= Len(d) /\ Len(w(i)) \in Nat
        BY <1>6, <2>1 DEF At
      <4>2. \A x, y, m, z \in Nat : x >= z /\ x + m <= y =>
              \A j \in 1 .. m : x + j \in z + 1 .. y
        OBVIOUS
      <4> QED
        BY <1>1, <2>1, <4>1, <4>2
    <3>2. d[place[i] + k] = w(i)[k]
      BY <2>1 DEF At
    <3> QED
      BY <3>1, <3>2
  <2>4. place[i] + Len(w(i)) <= Len(e)
    BY <1>1, <1>5, <1>6, <2>1 DEF At
  <2> QED
    BY <2>1, <2>2, <2>3, <2>4 DEF At
<1>10. new[n + 2] = new[n + 1] + Len(Wire(a)) /\ At(e, new[n + 1], Wire(a))
  <2>1. new[n + 2] = new[n + 1] + Len(Wire(a))
    BY <1>4, <1>7
  <2>2. Len(d) + Len(Wire(a)) <= Len(e)
    BY <1>1, <1>5
  <2>3. \A k \in 1 .. Len(Wire(a)) : e[new[n + 1] + k] = Wire(a)[k]
    BY <1>7
  <2> QED
    BY <1>7, <2>1, <2>2, <2>3 DEF At
<1>11. ASSUME NEW i \in 1 .. n + 1
       PROVE  new[i + 1] = new[i] + Len(Wire(more[i])) /\ At(e, new[i], Wire(more[i]))
  <2>1. CASE i \in 1 .. n
    BY <1>2, <1>9, <2>1 DEF w
  <2>2. CASE i = n + 1
    <3>1. i + 1 = n + 2
      BY <1>1, <2>2
    <3> QED
      BY <1>2, <1>10, <2>2, <3>1
  <2> QED
    BY <1>1, <2>1, <2>2
<1>12. Laid(e, more, new)
  <2>1. Len(more) + 1 = n + 2
    BY <1>1, <1>2
  <2> QED
    BY <1>2, <1>4, <1>7, <1>8, <1>11, <2>1 DEF Laid
<1> QED
  BY <1>12 DEF more

LEMMA InitArrives == Init => Arrives
<1> SUFFICES ASSUME Init, built PROVE Arrives
  BY DEF Arrives
<1>1. InitBuild /\ put = <<>> /\ got = <<>>
  BY DEF Init, InitArrived
<1>2. Len(data) = PayPos /\ pc = "build"
  BY <1>1, HeaderAssumption DEF InitBuild
<1>3. Laid(data, put, [i \in 1 .. 1 |-> PayPos])
  BY <1>1, <1>2, HeaderAssumption DEF Laid
<1>4. Received([i \in 1 .. 1 |-> PayPos])
  BY <1>1, <1>2 DEF Received
<1>5. put \in Seq(Puts) /\ Len(put) = 0
  BY <1>1
<1> QED
  BY <1>2, <1>3, <1>4, <1>5, HeaderAssumption DEF Arrives, totlen

(* wmmPutRawAttr appends an attribute to the message.                      *)
LEMMA PutData ==
  ASSUME IInv, NEW a \in Puts, PutAttr(a)
  PROVE  /\ Len(data') = Len(data) + Len(Wire(a))
         /\ \A k \in PayPos + 1 .. Len(data) : data'[k] = data[k]
         /\ \A k \in 1 .. Len(Wire(a)) : data'[Len(data) + k] = Wire(a)[k]
<1> DEFINE val == Packed(a)
           one == Number(a.type)
           two == Number(Len(val))
           w == Wire(a)
           long == data \o w
           num == Number(paylen')
<1>1. /\ a.type \in Nat /\ val \in Seq(ByteValues) /\ Len(val) \in Nat
      /\ data \in Seq(ByteValues) /\ Len(data) \in Nat /\ Len(data) >= PayPos
  BY PutsUnpack DEF PutAttr, IInv, InMessage, totlen
<1>2. data' = [(((data \o one) \o two) \o val) EXCEPT ![PayLenPos + 1] = num[1],
                                                     ![PayLenPos + 2] = num[2]]
  BY DEF PutAttr
<1>3. one \in Seq(ByteValues) /\ two \in Seq(ByteValues) /\ one \o two \in Seq(ByteValues)
  BY <1>1, NumberBytes, Concat
<1>4. ((data \o one) \o two) \o val = long
  <2>1. w = (one \o two) \o val
    BY DEF Wire
  <2> HIDE DEF one, two, val, w
  <2>2. data \o (one \o two) = (data \o one) \o two
    BY <1>1, <1>3, ConcatThree, Zenon
  <2>3. \A p \in Seq(ByteValues) : data \o (p \o val) = (data \o p) \o val
    BY <1>1, ConcatThree, Zenon
  <2>4. data \o ((one \o two) \o val) = (data \o (one \o two)) \o val
    BY <1>3, <2>3, Zenon
  <2> QED
    BY <2>1, <2>2, <2>4, Zenon
<1>5. w \in Seq(ByteValues)
  BY WireBytes
<1> HIDE DEF w, num
<1>6. /\ long \in Seq(ByteValues) /\ Len(long) = Len(data) + Len(w)
      /\ \A k \in 1 .. Len(data) : long[k] = data[k]
      /\ \A k \in 1 .. Len(w) : long[Len(data) + k] = w[k]
  BY <1>1, <1>5, Concat
<1> HIDE DEF long
<1>7. data' = [long EXCEPT ![PayLenPos + 1] = num[1], ![PayLenPos + 2] = num[2]]
  BY <1>2, <1>4
<1>8. /\ Len(data') = Len(long)
      /\ \A k \in PayPos + 1 .. Len(long) : data'[k] = long[k]
  <2> DEFINE mid == [long EXCEPT ![PayLenPos + 1] = num[1]]
  <2>1. num[1] \in ByteValues /\ num[2] \in ByteValues
    <3>1. paylen' \in Nat
      BY <1>1 DEF PutAttr, PutLen, IInv, InMessage
    <3> QED
      BY <3>1, NumberBytes DEF num
  <2>2. PayLenPos + 1 \in 1 .. Len(long) /\ PayLenPos + 2 \in 1 .. Len(long)
    BY <1>1, <1>5, <1>6, HeaderAssumption DEF PayLenPos
  <2>3. /\ mid \in Seq(ByteValues) /\ Len(mid) = Len(long)
        /\ \A k \in 1 .. Len(long) : mid[k] = IF k = PayLenPos + 1 THEN num[1] ELSE long[k]
    BY <1>6, <2>1, <2>2, ExceptSeq
  <2>4. data' = [mid EXCEPT ![PayLenPos + 2] = num[2]]
    BY <1>7
  <2> HIDE DEF mid
  <2>5. /\ Len(data') = Len(mid)
        /\ \A k \in 1 .. Len(mid) : data'[k] = IF k = PayLenPos + 2 THEN num[2] ELSE mid[k]
    BY <2>1, <2>2, <2>3, <2>4, ExceptSeq
  <2>6. \A k \in PayPos + 1 .. Len(long) :
          k \in 1 .. Len(long) /\ k # PayLenPos + 1 /\ k # PayLenPos + 2
    BY <1>6, HeaderAssumption DEF PayLenPos
  <2> QED
    BY <2>3, <2>5, <2>6
<1>9. ASSUME NEW k \in PayPos + 1 .. Len(data) PROVE data'[k] = data[k]
  <2>1. k \in 1 .. Len(data) /\ k \in PayPos + 1 .. Len(long)
    BY <1>1, <1>5, <1>6, HeaderAssumption
  <2> QED
    BY <1>6, <1>8, <2>1
<1>10. ASSUME NEW k \in 1 .. Len(w) PROVE data'[Len(data) + k] = w[k]
  <2>1. Len(data) + k \in PayPos + 1 .. Len(long)
    BY <1>1, <1>5, <1>6, HeaderAssumption
  <2> QED
    BY <1>6, <1>8, <2>1
<1> QED
  BY <1>6, <1>8, <1>9, <1>10 DEF w

LEMMA PutArrives ==
  ASSUME IInv, IInv', Arrives, NEW a \in Puts, PutAttr(a)
  PROVE  Arrives'
<1> SUFFICES ASSUME built PROVE Arrives'
  BY DEF PutAttr, Arrives
<1>1. /\ pc = "build" /\ pc' = "build" /\ UNCHANGED <<got, offset, built>>
      /\ put' = Append(put, a) /\ Len(Packed(a)) <= AttrCap
  BY DEF PutAttr, Fits
<1>2. /\ data \in Seq(ByteValues) /\ Len(data) >= PayPos /\ data' \in Seq(ByteValues)
      /\ totlen' >= PayPos
  BY <1>1 DEF IInv, InMessage, totlen
<1>3. PICK place : Laid(data, put, place) /\ Received(place)
  BY DEF Arrives
<1>4. put \in Seq(Puts) /\ \A i \in 1 .. Len(put) : Len(Packed(put[i])) <= AttrCap
  BY DEF Arrives
<1>5. /\ put' \in Seq(Puts) /\ Len(put') = Len(put) + 1 /\ Len(put) \in Nat
      /\ put'[Len(put) + 1] = a /\ \A i \in 1 .. Len(put) : put'[i] = put[i]
  BY <1>1, <1>4, AppendProperties
<1>6. ASSUME NEW i \in 1 .. Len(put') PROVE Len(Packed(put'[i])) <= AttrCap
  <2>1. i \in 1 .. Len(put) \/ i = Len(put) + 1
    BY <1>5
  <2> QED
    BY <1>1, <1>4, <1>5, <2>1
<1>7. PICK new : Laid(data', put', new)
  <2>1. \E new : Laid(data', Append(put, a), new)
    BY <1>2, <1>3, <1>4, PutData, LaidAppend
  <2> QED
    BY <1>1, <2>1
<1>8. Received(new)'
  <2>1. got = <<>>
    BY <1>1, <1>3 DEF Received
  <2>2. got' = <<>> /\ Len(got') = 0
    BY <1>1, <2>1
  <2> QED
    BY <1>1, <1>5, <2>2 DEF Received
<1>9. \A i \in 1 .. Len(put') : Len(Packed(put'[i])) <= AttrCap
  BY <1>6
<1> QED
  BY <1>2, <1>5, <1>7, <1>8, <1>9 DEF Arrives

(* The steps that leave message and attributes alone.                      *)
LEMMA KeepArrives ==
  ASSUME Arrives, UNCHANGED <<data, put, built>>,
         \A place : built /\ Laid(data, put, place) /\ Received(place) => Received(place)'
  PROVE  Arrives'
<1> SUFFICES ASSUME built PROVE Arrives'
  BY DEF Arrives
<1>1. PICK place : Laid(data, put, place) /\ Received(place)
  BY DEF Arrives
<1>2. Laid(data', put', place) /\ Received(place)'
  BY <1>1
<1> QED
  BY <1>2 DEF Arrives, totlen

LEMMA PrepArrives ==
  ASSUME IInv, Sound, Arrives, PrepRecvd
  PROVE  Arrives'
<1> SUFFICES ASSUME built, NEW place, Laid(data, put, place), Received(place)
             PROVE  Received(place)'
  BY KeepArrives DEF PrepRecvd
<1>1. /\ pc = "arrived" /\ got = <<>> /\ UNCHANGED <<got, put>>
      /\ totlen >= PayPos /\ put \in Seq(Puts)
  BY DEF PrepRecvd, Received, Arrives
<1>2. totlen \in Nat /\ Field(PayLenPos) = totlen - PayPos
  BY DEF Sound, BuiltIsSound, IInv, InMessage, totlen
<1>3. ~TooShort /\ ~LessThanGiven
  BY <1>1, <1>2, HeaderAssumption DEF TooShort, LessThanGiven
<1>4. pc' = "loop" /\ offset' = PayPos
  BY <1>3 DEF PrepRecvd
<1>5. place[1] = PayPos /\ Len(got) = 0
  BY <1>1 DEF Laid
<1> QED
  BY <1>1, <1>4, <1>5 DEF Received

(* In the loop there is an attribute as long as not all of them were got,  *)
(* and it is the next one that was put.                                    *)
LEMMA LoopReceives ==
  ASSUME IInv, Sound, Arrives, built, pc = "loop",
         NEW place, Laid(data, put, place), Received(place)
  PROVE  \/ AtEnd /\ Len(got) = Len(put)
         \/ /\ Len(got) < Len(put) /\ ~AtEnd /\ ~Stub /\ ~RunsPast /\ ~TooLong
            /\ AttrType = put[Len(got) + 1].type /\ AttrVal = Packed(put[Len(got) + 1])
            /\ AttrEnd = place[Len(got) + 2]
<1> DEFINE g == Len(got)
           a == put[g + 1]
<1>1. /\ put \in Seq(Puts) /\ Len(put) \in Nat /\ g \in Nat /\ g <= Len(put)
      /\ data \in Seq(ByteValues) /\ offset \in Nat /\ totlen = Len(data)
  BY DEF Arrives, Received, IInv, InMessage, ShortValues, totlen
<1>2. offset = place[g + 1]
  BY DEF Received
<1>3. CASE g = Len(put)
  <2>1. offset = Len(data)
    BY <1>2, <1>3 DEF Laid
  <2> QED
    BY <1>1, <1>3, <2>1 DEF AtEnd
<1>4. CASE g < Len(put)
  <2>1. g + 1 \in 1 .. Len(put) /\ (g + 1) + 1 = g + 2
    BY <1>1, <1>4
  <2>2. a \in Puts /\ Len(Packed(a)) <= AttrCap
    BY <1>1, <2>1, ElementOfSeq DEF Arrives
  <2>3. At(data, offset, Wire(a)) /\ place[g + 2] = offset + Len(Wire(a))
    BY <1>2, <2>1 DEF Laid
  <2>4. Len(Packed(a)) \in Nat /\ Len(Packed(a)) < Base * Base
    <3> DEFINE bb == Base * Base
    <3>1. bb \in Int /\ MsgCap < bb /\ MsgCap \in Nat
      BY BaseAssumption, CapAssumption
    <3>2. Len(Packed(a)) \in Nat /\ Len(Wire(a)) = 4 + Len(Packed(a))
      BY <2>2, WireBytes, PutsUnpack
    <3>3. offset + Len(Wire(a)) <= Len(data) /\ Len(data) <= MsgCap
      BY <1>1, <2>3 DEF At, Sound, BuiltIsSound
    <3> HIDE DEF bb, a
    <3>4. Len(data) \in Nat
      BY <1>1
    <3>5. Len(Packed(a)) < bb
      BY <1>1, <3>1, <3>2, <3>3, <3>4
    <3> QED
      BY <3>2, <3>5 DEF bb
  <2> HIDE DEF a
  <2>5. /\ ~AtEnd /\ ~Stub /\ ~RunsPast
        /\ AttrType = a.type /\ AttrLen = Len(Packed(a)) /\ AttrVal = Packed(a)
        /\ AttrEnd = offset + Len(Wire(a))
    BY <1>1, <2>2, <2>3, <2>4, GetsWire
  <2>6. ~TooLong
    BY <2>2, <2>4, <2>5, AttrCapAssumption DEF TooLong
  <2> QED
    BY <1>4, <2>3, <2>5, <2>6 DEF a
<1> QED
  BY <1>1, <1>3, <1>4

LEMMA LoopArrives ==
  ASSUME IInv, Sound, Arrives, GetNone \/ GetStub \/ GetMalformed \/ JoinAttr \/ FirstAttr
  PROVE  Arrives'
<1> SUFFICES ASSUME built, NEW place, Laid(data, put, place), Received(place)
             PROVE  Received(place)'
  BY KeepArrives DEF GetNone, GetStub, GetMalformed, JoinAttr, FirstAttr, GetAttr
<1>1. pc = "loop" /\ put' = put
  BY DEF GetNone, GetStub, GetMalformed, JoinAttr, FirstAttr, GetAttr
<1>2. \/ AtEnd /\ Len(got) = Len(put)
      \/ /\ Len(got) < Len(put) /\ ~AtEnd /\ ~Stub /\ ~RunsPast /\ ~TooLong
         /\ AttrType = put[Len(got) + 1].type /\ AttrVal = Packed(put[Len(got) + 1])
         /\ AttrEnd = place[Len(got) + 2]
  BY <1>1, LoopReceives
<1>3. CASE GetNone
  <2>1. AtEnd /\ got' = got /\ pc' \in {"no", "parsed", "failed"}
    BY <1>3 DEF GetNone
  <2>2. Len(got) = Len(put)
    BY <1>2, <2>1
  <2> QED
    BY <1>1, <2>1, <2>2 DEF Received
<1>4. CASE GetStub \/ GetMalformed
  BY <1>2, <1>4 DEF GetStub, GetMalformed, Stub
<1>5. CASE JoinAttr \/ FirstAttr
  <2> DEFINE g == Len(got)
             new == [type |-> AttrType, val |-> AttrVal]
  <2>1. /\ GetAttr /\ ~AtEnd /\ pc' \in {"loop", "failed", "yes", "no"}
        /\ got' = Append(got, new) /\ offset' = AttrEnd
    BY <1>5 DEF JoinAttr, FirstAttr, GetAttr
  <2>2. /\ g < Len(put) /\ AttrEnd = place[g + 2]
        /\ new.type = put[g + 1].type /\ new.val = Packed(put[g + 1])
    BY <1>2, <2>1
  <2>3. /\ got \in Seq([type : Nat, val : Seq(ByteValues)]) /\ g \in Nat
        /\ Len(put) \in Nat
    BY DEF IInv, ShortValues, Arrives
  <2> HIDE DEF new
  <2>4. /\ Len(got') = g + 1 /\ got'[g + 1] = new
        /\ \A i \in 1 .. g : got'[i] = got[i]
    BY <2>1, <2>3
  <2>5. ASSUME NEW i \in 1 .. g + 1
        PROVE  got'[i].type = put[i].type /\ got'[i].val = Packed(put[i])
    <3>1. CASE i = g + 1
      BY <2>2, <2>4, <3>1
    <3>2. CASE i # g + 1
      <4>1. i \in 1 .. g
        BY <2>3, <3>2
      <4> QED
        BY <2>4, <4>1 DEF Received
    <3> QED
      BY <3>1, <3>2
  <2>6. offset' = place[Len(got') + 1]
    <3>1. (g + 1) + 1 = g + 2
      BY <2>3
    <3> QED
      BY <2>1, <2>2, <2>4, <3>1
  <2>7. Len(got') <= Len(put')
    BY <1>1, <2>2, <2>3, <2>4
  <2> QED
    BY <1>1, <2>1, <2>4, <2>5, <2>6, <2>7 DEF Received
<1> QED
  BY <1>3, <1>4, <1>5

LEMMA NextArrives == IInv /\ IInv' /\ Sound /\ Arrives /\ [Next]_vars => Arrives'
<1> SUFFICES ASSUME IInv, IInv', Sound, Arrives, [Next]_vars PROVE Arrives'
  OBVIOUS
<1>1. CASE \E a \in Puts : PutAttr(a)
  BY <1>1, PutArrives
<1>2. CASE Send
  BY <1>2, KeepArrives DEF Send, Received
<1>3. CASE PrepRecvd
  BY <1>3, PrepArrives
<1>4. CASE GetNone \/ GetStub \/ GetMalformed \/ JoinAttr \/ FirstAttr
  BY <1>4, LoopArrives
<1>5. CASE UNCHANGED vars
  BY <1>5, KeepArrives DEF vars, Received
<1> QED
  BY <1>1, <1>2, <1>3, <1>4, <1>5 DEF Next

LEMMA NextType == IInv /\ IInv' /\ TypeOK /\ [Next]_vars => TypeOK'
<1> SUFFICES ASSUME IInv, IInv', TypeOK, [Next]_vars PROVE TypeOK'
  OBVIOUS
<1>1. /\ (data \in Seq(ByteValues))' /\ (offset \in Nat)'
      /\ (paylen \in Nat)' /\ (touched \in Nat)'
  BY DEF IInv, InMessage
<1>2. built' = built /\ mode' = mode
  BY DEF Next, PutAttr, Send, PrepRecvd, GetNone, GetStub, GetMalformed, GetAttr,
     JoinAttr, FirstAttr, vars
<1>3. pc' \in Points
  BY DEF TypeOK, Points, Next, PutAttr, Send, PrepRecvd, GetNone, GetStub,
     GetMalformed, GetAttr, JoinAttr, FirstAttr, vars
<1>4. rescode' \in BOOLEAN
  BY DEF TypeOK, Next, PutAttr, Send, PrepRecvd, GetNone, GetStub,
     GetMalformed, GetAttr, JoinAttr, FirstAttr, IsZero, vars
<1> QED
  BY <1>1, <1>2, <1>3, <1>4 DEF TypeOK

-----------------------------------------------------------------------------
(* Reading out of step                                                     *)

(* The i-th getter asked for bytes and has none, the j-th has some.        *)
Skips(format, val, i, j) ==
  /\ Asked(format[i], val, Parse(format, val)) >= 1
  /\ Place(format, val, i) = Place(format, val, i - 1)
  /\ Place(format, val, j - 1) < Place(format, val, j)

LEMMA StepByPlaces ==
  ASSUME NEW format, WellFormed(format), NEW val \in Seq(ByteValues)
  PROVE  OutOfStep(format, val) <=>
           \E i, j \in 1 .. Len(format) : i < j /\ Skips(format, val, i, j)
<1>1. DOMAIN format = 1 .. Len(format) /\ Len(format) \in Nat
  BY DEF WellFormed
<1>2. ASSUME NEW i \in 1 .. Len(format)
      PROVE  /\ Place(format, val, i) \in Nat /\ Place(format, val, i - 1) \in Nat
             /\ Place(format, val, i - 1) <= Place(format, val, i)
             /\ Fields(format, val)[i] = <<>>
                  <=> Place(format, val, i) = Place(format, val, i - 1)
  <2> DEFINE m == Place(format, val, i - 1)
             n == Place(format, val, i)
  <2>1. i \in 0 .. Len(format) /\ i - 1 \in 0 .. Len(format)
    BY <1>1
  <2>2. m \in 0 .. Len(val) /\ n \in 0 .. Len(val)
    BY <2>1, Reading
  <2>3. m <= n /\ Fields(format, val)[i] = SubSeq(val, m + 1, n)
    BY Reading
  <2> HIDE DEF m, n
  <2>4. SubSeq(val, m + 1, n) = <<>> <=> n = m
    <3>1. /\ Len(val) \in Nat /\ m \in Nat /\ n \in Nat /\ n <= Len(val)
          /\ \A k \in 1 .. Len(val) : val[k] \in ByteValues
      BY <2>2, ElementOfSeq
    <3>2. /\ m + 1 \in Int /\ n \in Int /\ \A k \in m + 1 .. n : val[k] \in ByteValues
      BY <3>1
    <3>3. /\ SubSeq(val, m + 1, n) \in Seq(ByteValues)
          /\ Len(SubSeq(val, m + 1, n)) = IF m + 1 <= n THEN n - (m + 1) + 1 ELSE 0
      BY <3>2, SubSeqProperties
    <3>4. Len(SubSeq(val, m + 1, n)) = 0 <=> n = m
      BY <2>3, <3>1, <3>3
    <3> QED
      BY <3>3, <3>4, EmptySeq
  <2> QED
    BY <2>2, <2>3, <2>4 DEF m, n
<1>3. \A i, j \in 1 .. Len(format) :
        Skips(format, val, i, j) <=>
          /\ Asked(format[i], val, Parse(format, val)) >= 1
          /\ Fields(format, val)[i] = <<>> /\ Fields(format, val)[j] # <<>>
  BY <1>2 DEF Skips
<1> QED
  BY <1>1, <1>3 DEF OutOfStep, Fields

(* The place behind a getter of a fixed length.                            *)
LEMMA FixedPlace ==
  ASSUME NEW format, WellFormed(format), NEW val \in Seq(ByteValues),
         NEW i \in 1 .. Len(format), NEW n \in Nat, n >= 1, format[i] = Fixed(n)
  PROVE  /\ Asked(format[i], val, Parse(format, val)) = n
         /\ Place(format, val, i) = Place(format, val, i - 1)
              + (IF Place(format, val, i - 1) + n <= Len(val) THEN n ELSE 0)
<1>1. Asked(format[i], val, Parse(format, val)) = n
  BY DEF Asked, Fixed
<1>2. Place(format, val, i) = Place(format, val, i - 1)
        + Taken(val, Place(format, val, i - 1), Asked(format[i], val, Parse(format, val)))
  BY Reading
<1> QED
  BY <1>1, <1>2 DEF Taken

(* The formats in which the last getter takes what is left.                *)
LEMMA OthersStep ==
  ASSUME NEW format \in {NumberFormat, SecKeyFormat, BoardFormat},
         NEW val \in Seq(ByteValues)
  PROVE  ~OutOfStep(format, val)
<1> DEFINE at(i) == Place(format, val, i)
           L == Len(val)
<1>1. Half \in Nat /\ Half >= 1 /\ Word = 2 * Half /\ L \in Nat
  BY WordAssumption
<1>2. WellFormed(format)
  BY FormatsWellFormed
<1>3. CASE format = NumberFormat
  <2>1. Len(format) = 1
    BY <1>3, FormatsWellFormed
  <2>2. ~\E i, j \in 1 .. Len(format) : i < j
    BY <2>1
  <2> QED
    BY <1>2, <2>2, StepByPlaces
<1>4. CASE format = SecKeyFormat
  <2>1. Len(format) = 2 /\ 1 \in 1 .. Len(format) /\ 2 \in 1 .. Len(format)
    BY <1>4, FormatsWellFormed
  <2>2. format[1] = Fixed(Word) /\ format[2] = Behind(Word)
    BY <1>4 DEF SecKeyFormat, U32
  <2>3. at(0) = 0 /\ at(1) = at(0) + (IF at(0) + Word <= L THEN Word ELSE 0)
    <3>1. at(1) = at(1 - 1) + (IF at(1 - 1) + Word <= L THEN Word ELSE 0)
      BY <1>1, <1>2, <2>1, <2>2, FixedPlace
    <3> QED
      BY <1>2, <3>1, Reading
  <2>4. at(2) = at(1) + Taken(val, at(1), L - Word)
    <3>1. Asked(format[2], val, Parse(format, val)) = L - Word
      BY <2>2 DEF Asked, Behind
    <3>2. at(2) = at(2 - 1) + Taken(val, at(2 - 1), Asked(format[2], val, Parse(format, val)))
      BY <1>2, <2>1, Reading
    <3> QED
      BY <3>1, <3>2
  <2>5. ~Skips(format, val, 1, 2)
    <3>1. ~(at(1) = at(1 - 1) /\ at(2 - 1) < at(2))
      <4> HIDE DEF at, L
      <4> QED
        BY <1>1, <2>3, <2>4 DEF Taken, L
    <3> QED
      BY <3>1 DEF Skips
  <2>6. ASSUME NEW i \in 1 .. 2, NEW j \in 1 .. 2, i < j PROVE i = 1 /\ j = 2
    BY <2>6
  <2> QED
    BY <1>2, <2>1, <2>5, <2>6, StepByPlaces
<1>5. CASE format = BoardFormat
  <2>1. /\ Len(format) = 3
        /\ 1 \in 1 .. Len(format) /\ 2 \in 1 .. Len(format) /\ 3 \in 1 .. Len(format)
    BY <1>5, FormatsWellFormed
  <2>2. format[1] = Fixed(Half) /\ format[2] = Fixed(Half) /\ format[3] = Behind(Word)
    BY <1>5 DEF BoardFormat, U16
  <2>3. /\ at(0) = 0 /\ at(1) = at(0) + (IF at(0) + Half <= L THEN Half ELSE 0)
        /\ at(2) = at(1) + (IF at(1) + Half <= L THEN Half ELSE 0)
    <3>1. /\ at(1) = at(1 - 1) + (IF at(1 - 1) + Half <= L THEN Half ELSE 0)
          /\ at(2) = at(2 - 1) + (IF at(2 - 1) + Half <= L THEN Half ELSE 0)
      BY <1>1, <1>2, <2>1, <2>2, FixedPlace
    <3> QED
      BY <1>2, <3>1, Reading
  <2>4. at(3) = at(2) + Taken(val, at(2), L - Word)
    <3>1. Asked(format[3], val, Parse(format, val)) = L - Word
      BY <2>2 DEF Asked, Behind
    <3>2. at(3) = at(3 - 1) + Taken(val, at(3 - 1), Asked(format[3], val, Parse(format, val)))
      BY <1>2, <2>1, Reading
    <3> QED
      BY <3>1, <3>2
  <2>5. ~Skips(format, val, 1, 2) /\ ~Skips(format, val, 1, 3) /\ ~Skips(format, val, 2, 3)
    <3>1. /\ ~(at(1) = at(1 - 1) /\ at(2 - 1) < at(2))
          /\ ~(at(1) = at(1 - 1) /\ at(3 - 1) < at(3))
          /\ ~(at(2) = at(2 - 1) /\ at(3 - 1) < at(3))
      <4> HIDE DEF at, L
      <4> QED
        BY <1>1, <2>3, <2>4 DEF Taken, L
    <3> QED
      BY <3>1 DEF Skips
  <2>6. ASSUME NEW i \in 1 .. 3, NEW j \in 1 .. 3, i < j
        PROVE  (i = 1 /\ j = 2) \/ (i = 1 /\ j = 3) \/ (i = 2 /\ j = 3)
    BY <2>6
  <2>7. ~\E i, j \in 1 .. 3 : i < j /\ Skips(format, val, i, j)
    BY <2>5, <2>6
  <2> QED
    BY <1>2, <2>1, <2>7, StepByPlaces
<1> QED
  BY <1>3, <1>4, <1>5

(* The places of a WIFICFG's numbers: while something is left, a getter of *)
(* one byte has it.                                                        *)
LEMMA WifiPlaces ==
  ASSUME NEW val \in Seq(ByteValues)
  PROVE  LET at(i) == Place(WifiFormat, val, i)
             asked(i) == Asked(WifiFormat[i], val, Parse(WifiFormat, val))
             L == Len(val)
         IN  /\ at(0) = 0 /\ \A i \in 0 .. 12 : at(i) \in Nat /\ at(i) <= L
             /\ \A i \in 1 .. 12 : at(i - 1) <= at(i)
             /\ \A i \in {1, 2, 3, 4, 5, 6, 9, 10} :
                  at(i) = at(i - 1) + (IF at(i - 1) + 1 <= L THEN 1 ELSE 0)
             /\ \A i \in {7, 8} :
                  /\ asked(i) = Half
                  /\ at(i) = at(i - 1) + (IF at(i - 1) + Half <= L THEN Half ELSE 0)
             /\ asked(11) \in Nat /\ at(11) = at(10) + Taken(val, at(10), asked(11))
             /\ asked(11) = FromBytes(Fields(WifiFormat, val)[10])
<1> DEFINE at(i) == Place(WifiFormat, val, i)
           asked(i) == Asked(WifiFormat[i], val, Parse(WifiFormat, val))
           L == Len(val)
<1>1. WellFormed(WifiFormat) /\ Len(WifiFormat) = 12
  BY FormatsWellFormed
<1>2. /\ \A i \in {1, 2, 3, 4, 5, 6, 9, 10} : WifiFormat[i] = Fixed(1)
      /\ \A i \in {7, 8} : WifiFormat[i] = Fixed(Half)
      /\ WifiFormat[11] = SaidBy(10)
  BY DEF WifiFormat, U8, U16
<1>3. at(0) = 0 /\ \A i \in 0 .. 12 : at(i) \in Nat /\ at(i) <= L
  <2>1. at(0) = 0 /\ \A i \in 0 .. 12 : at(i) \in 0 .. Len(val)
    BY <1>1, Reading
  <2>2. \A x : x \in 0 .. Len(val) => x \in Nat /\ x <= Len(val)
    OBVIOUS
  <2> QED
    BY <2>1, <2>2
<1>4. \A i \in 1 .. 12 : at(i - 1) <= at(i)
  BY <1>1, Reading
<1>5. ASSUME NEW i \in {1, 2, 3, 4, 5, 6, 9, 10}
      PROVE  at(i) = at(i - 1) + (IF at(i - 1) + 1 <= L THEN 1 ELSE 0)
  <2>1. i \in 1 .. Len(WifiFormat) /\ WifiFormat[i] = Fixed(1) /\ 1 \in Nat /\ 1 >= 1
    BY <1>1, <1>2
  <2> QED
    BY <1>1, <2>1, FixedPlace
<1>6. ASSUME NEW i \in {7, 8}
      PROVE  /\ asked(i) = Half
             /\ at(i) = at(i - 1) + (IF at(i - 1) + Half <= L THEN Half ELSE 0)
  <2>1. /\ i \in 1 .. Len(WifiFormat) /\ WifiFormat[i] = Fixed(Half)
        /\ Half \in Nat /\ Half >= 1
    BY <1>1, <1>2, WordAssumption
  <2> QED
    BY <1>1, <2>1, FixedPlace
<1>7. asked(11) = FromBytes(Fields(WifiFormat, val)[10])
  BY <1>2 DEF Asked, SaidBy, Fields
<1>8. asked(11) \in Nat
  <2>1. /\ Fields(WifiFormat, val) \in Seq(Seq(ByteValues))
        /\ 10 \in 1 .. Len(Fields(WifiFormat, val))
    <3>1. /\ Fields(WifiFormat, val) \in Seq(Seq(ByteValues))
          /\ Len(Fields(WifiFormat, val)) = 12
      BY <1>1, Reading
    <3> QED
      BY <3>1
  <2>2. Fields(WifiFormat, val)[10] \in Seq(ByteValues)
    BY <2>1, ElementOfSeq
  <2> QED
    BY <1>7, <2>2, NumberNat
<1>9. at(11) = at(10) + Taken(val, at(10), asked(11))
  <2>1. 11 \in 1 .. Len(WifiFormat) /\ 11 - 1 = 10
    BY <1>1
  <2>2. at(11) = at(11 - 1) + Taken(val, at(11 - 1), asked(11))
    BY <1>1, <2>1, Reading
  <2> QED
    BY <2>1, <2>2
<1> QED
  BY <1>3, <1>4, <1>5, <1>6, <1>7, <1>8, <1>9

(* Where the getters of a WIFICFG of L bytes stand, and whether one of     *)
(* them is left behind that a later one overtakes.                         *)
LEMMA WifiOvertaken ==
  ASSUME NEW L \in Nat, NEW at \in [0 .. 12 -> 0 .. L], NEW asked, asked[11] \in Nat,
         Half \in Nat, Half >= 1, at[0] = 0, at[12] = L,
         \A i \in 1 .. 12 : at[i - 1] <= at[i],
         \A i \in {1, 2, 3, 4, 5, 6, 9, 10} :
           at[i] = at[i - 1] + (IF at[i - 1] + 1 <= L THEN 1 ELSE 0),
         \A i \in {7, 8} :
           /\ asked[i] = Half
           /\ at[i] = at[i - 1] + (IF at[i - 1] + Half <= L THEN Half ELSE 0),
         at[11] = at[10]
                   + (IF asked[11] >= 1 /\ at[10] + asked[11] <= L THEN asked[11] ELSE 0)
  PROVE  (\E i, j \in 1 .. 12 :
            i < j /\ asked[i] >= 1 /\ at[i] = at[i - 1] /\ at[j - 1] < at[j])
         <=> \/ L \in 7 .. 5 + Half \/ L \in 7 + Half .. 5 + 2 * Half
             \/ L > 8 + 2 * Half /\ asked[11] > L - (8 + 2 * Half)
<1> DEFINE skips(i, j) == asked[i] >= 1 /\ at[i] = at[i - 1] /\ at[j - 1] < at[j]
           cut == L \in 7 .. 5 + Half \/ L \in 7 + Half .. 5 + 2 * Half
           long == L > 8 + 2 * Half /\ asked[11] > L - (8 + 2 * Half)
<1>1. \A i \in 0 .. 12 : at[i] \in Nat /\ at[i] <= L
  OBVIOUS
<1>2. at[6] = IF L <= 6 THEN L ELSE 6
  <2>1. at[1] = IF L <= 1 THEN L ELSE 1
    OBVIOUS
  <2>2. at[2] = IF L <= 2 THEN L ELSE 2
    BY <2>1
  <2>3. at[3] = IF L <= 3 THEN L ELSE 3
    BY <2>2
  <2>4. at[4] = IF L <= 4 THEN L ELSE 4
    BY <2>3
  <2>5. at[5] = IF L <= 5 THEN L ELSE 5
    BY <2>4
  <2> QED
    BY <2>5
<1>3. /\ at[7] = at[6] + (IF at[6] + Half <= L THEN Half ELSE 0)
      /\ at[8] = at[7] + (IF at[7] + Half <= L THEN Half ELSE 0)
      /\ at[9] = at[8] + (IF at[8] + 1 <= L THEN 1 ELSE 0)
      /\ at[10] = at[9] + (IF at[9] + 1 <= L THEN 1 ELSE 0)
      /\ asked[7] = Half /\ asked[8] = Half
  OBVIOUS
<1>4. \A i, k \in 0 .. 12 : i <= k => at[i] <= at[k]
  <2> TAKE i \in 0 .. 12
  <2> DEFINE T == {k \in 0 .. 12 : i <= k => at[i] <= at[k]}
  <2>1. 0 \in T
    OBVIOUS
  <2>2. ASSUME NEW k \in 1 .. 12, k - 1 \in T PROVE k \in T
    <3>1. at[k - 1] <= at[k] /\ at[i] \in Nat /\ at[k] \in Nat /\ at[k - 1] \in Nat
      BY <1>1
    <3>2. i <= k - 1 \/ i = k \/ i > k
      OBVIOUS
    <3> QED
      BY <2>2, <3>1, <3>2
  <2> HIDE DEF T
  <2>3. \A k \in 0 .. 12 : k \in T
    BY <2>1, <2>2, Induction
  <2> QED
    BY <2>3 DEF T
<1>5. ASSUME NEW i \in 1 .. 12, NEW j \in 1 .. 12, i < j, skips(i, j)
      PROVE  cut \/ long
  <2>1. at[i] = at[i - 1] /\ at[i] < L /\ asked[i] >= 1
    <3>1. i \in 0 .. 12 /\ j - 1 \in 0 .. 12 /\ j \in 0 .. 12 /\ i <= j - 1
      BY <1>5
    <3>2. at[i] <= at[j - 1] /\ at[j - 1] < at[j] /\ at[j] <= L
      BY <1>1, <1>4, <1>5, <3>1
    <3>3. at[i] \in Nat /\ at[j] \in Nat /\ at[j - 1] \in Nat
      BY <1>1, <3>1
    <3> QED
      BY <1>5, <3>2, <3>3
  <2>2. CASE i \in {1, 2, 3, 4, 5, 6, 9, 10}
    <3>1. at[i] = at[i - 1] + (IF at[i - 1] + 1 <= L THEN 1 ELSE 0) /\ at[i] \in Nat
      BY <1>1, <2>2
    <3> QED
      BY <2>1, <3>1
  <2>3. CASE i = 7
    <3>1. at[7] = at[6] /\ at[7] < L
      BY <2>1, <2>3
    <3>2. cut
      BY <1>2, <1>3, <3>1
    <3> QED
      BY <3>2
  <2>4. CASE i = 8
    <3>1. at[8] = at[7] /\ at[8] < L
      BY <2>1, <2>4
    <3>2. cut
      BY <1>2, <1>3, <3>1
    <3> QED
      BY <3>2
  <2>5. CASE i = 11
    <3>1. at[11] = at[10] /\ at[11] < L /\ asked[11] >= 1
      BY <2>1, <2>5
    <3>2. at[10] + asked[11] > L
      BY <1>1, <3>1
    <3>3. at[10] = 8 + 2 * Half \/ cut
      <4>1. at[8] < L /\ at[9] = at[8] + 1 /\ at[10] = at[8] + 2
        BY <1>1, <1>3, <3>1
      <4> QED
        BY <1>1, <1>2, <1>3, <4>1
    <3> QED
      BY <1>1, <3>1, <3>2, <3>3
  <2>6. i # 12
    BY <1>5
  <2> QED
    BY <2>2, <2>3, <2>4, <2>5, <2>6
<1>6. ASSUME cut PROVE skips(7, 9) \/ skips(8, 9)
  <2>1. CASE L \in 7 .. 5 + Half
    BY <1>2, <1>3, <2>1
  <2>2. CASE L \in 7 + Half .. 5 + 2 * Half
    BY <1>2, <1>3, <2>2
  <2> QED
    BY <1>6, <2>1, <2>2
<1>7. ASSUME long PROVE skips(11, 12)
  <2>1. at[10] = 8 + 2 * Half
    BY <1>2, <1>3, <1>7
  <2>2. at[11] = at[10]
    BY <1>1, <1>7, <2>1
  <2> QED
    BY <1>7, <2>1, <2>2
<1> HIDE DEF cut, long
<1>8. (\E i, j \in 1 .. 12 : i < j /\ skips(i, j)) <=> cut \/ long
  <2> HIDE DEF skips
  <2>1. /\ 7 \in 1 .. 12 /\ 8 \in 1 .. 12 /\ 9 \in 1 .. 12 /\ 11 \in 1 .. 12
        /\ 12 \in 1 .. 12 /\ 7 < 9 /\ 8 < 9 /\ 11 < 12
    OBVIOUS
  <2> QED
    BY <1>5, <1>6, <1>7, <2>1, Zenon
<1> QED
  BY <1>8 DEF cut, long

(* Of a WIFICFG that is accepted.                                          *)
LEMMA WifiStep ==
  ASSUME NEW val \in Seq(ByteValues), Accepts(WifiFormat, val)
  PROVE  OutOfStep(WifiFormat, val) <=> CutInNumber(val) \/ NameTooLong(val)
<1> DEFINE place(i) == Place(WifiFormat, val, i)
           asks(i) == Asked(WifiFormat[i], val, Parse(WifiFormat, val))
           at == [i \in 0 .. 12 |-> place(i)]
           asked == [i \in 1 .. 12 |-> asks(i)]
           L == Len(val)
<1>1. Half \in Nat /\ Half >= 1 /\ L \in Nat /\ WifiHead = 8 + 2 * Half
  BY WordAssumption DEF WifiHead
<1>2. OutOfStep(WifiFormat, val)
        <=> \E i, j \in 1 .. 12 :
              i < j /\ asks(i) >= 1 /\ place(i) = place(i - 1) /\ place(j - 1) < place(j)
  BY FormatsWellFormed, StepByPlaces DEF Skips
<1>3. /\ place(0) = 0 /\ \A i \in 0 .. 12 : place(i) \in Nat /\ place(i) <= L
      /\ \A i \in 1 .. 12 : place(i - 1) <= place(i)
      /\ \A i \in {1, 2, 3, 4, 5, 6, 9, 10} :
           place(i) = place(i - 1) + (IF place(i - 1) + 1 <= L THEN 1 ELSE 0)
      /\ \A i \in {7, 8} :
           /\ asks(i) = Half
           /\ place(i) = place(i - 1) + (IF place(i - 1) + Half <= L THEN Half ELSE 0)
      /\ asks(11) \in Nat
      /\ place(11) = place(10)
           + (IF asks(11) >= 1 /\ place(10) + asks(11) <= L THEN asks(11) ELSE 0)
  BY WifiPlaces DEF Taken
<1>4. place(12) = L
  BY FormatsWellFormed, Reading DEF Accepts
<1>5. L >= WifiHead => asks(11) = val[WifiHead]
  BY WifiNumbers, WifiPlaces
<1>6. NameTooLong(val) <=> L > WifiHead /\ asks(11) > L - WifiHead
  BY <1>1, <1>5 DEF NameTooLong
<1>7. CutInNumber(val) <=> L \in 7 .. 5 + Half \/ L \in 7 + Half .. 5 + 2 * Half
  BY DEF CutInNumber
<1>8. /\ \A i \in 0 .. 12 : at[i] = place(i)
      /\ \A i \in 1 .. 12 : asked[i] = asks(i) /\ at[i - 1] = place(i - 1)
  OBVIOUS
<1>9. at \in [0 .. 12 -> 0 .. L]
  <2>1. ASSUME NEW i \in 0 .. 12 PROVE place(i) \in 0 .. L
    <3>1. place(i) \in Nat /\ place(i) <= L
      BY <1>3
    <3> HIDE DEF place, L
    <3> QED
      BY <1>1, <3>1
  <2> HIDE DEF place
  <2> QED
    BY <2>1
<1> HIDE DEF at, asked, place, asks, L
<1>10. /\ asked[11] \in Nat /\ at[0] = 0 /\ at[12] = L
       /\ \A i \in 1 .. 12 : at[i - 1] <= at[i]
       /\ \A i \in {1, 2, 3, 4, 5, 6, 9, 10} :
            at[i] = at[i - 1] + (IF at[i - 1] + 1 <= L THEN 1 ELSE 0)
       /\ \A i \in {7, 8} :
            /\ asked[i] = Half
            /\ at[i] = at[i - 1] + (IF at[i - 1] + Half <= L THEN Half ELSE 0)
       /\ at[11] = at[10]
            + (IF asked[11] >= 1 /\ at[10] + asked[11] <= L THEN asked[11] ELSE 0)
  <2>1. ASSUME NEW i \in 1 .. 12
        PROVE  at[i] = place(i) /\ at[i - 1] = place(i - 1) /\ asked[i] = asks(i)
    <3>1. i \in 0 .. 12
      OBVIOUS
    <3> QED
      BY <1>8, <3>1
  <2>2. ASSUME NEW i \in 1 .. 12 PROVE at[i - 1] <= at[i]
    BY <1>3, <2>1
  <2>3. ASSUME NEW i \in {1, 2, 3, 4, 5, 6, 9, 10}
        PROVE  at[i] = at[i - 1] + (IF at[i - 1] + 1 <= L THEN 1 ELSE 0)
    <3>1. i \in 1 .. 12
      OBVIOUS
    <3>2. place(i) = place(i - 1) + (IF place(i - 1) + 1 <= L THEN 1 ELSE 0)
      BY <1>3
    <3> QED
      BY <2>1, <3>1, <3>2
  <2>4. ASSUME NEW i \in {7, 8}
        PROVE  /\ asked[i] = Half
               /\ at[i] = at[i - 1] + (IF at[i - 1] + Half <= L THEN Half ELSE 0)
    <3>1. i \in 1 .. 12
      OBVIOUS
    <3>2. /\ asks(i) = Half
          /\ place(i) = place(i - 1) + (IF place(i - 1) + Half <= L THEN Half ELSE 0)
      BY <1>3
    <3> QED
      BY <2>1, <3>1, <3>2
  <2>5. /\ at[0] = place(0) /\ at[10] = place(10) /\ at[11] = place(11)
        /\ at[12] = place(12) /\ asked[11] = asks(11)
    BY <1>8
  <2>6. /\ asks(11) \in Nat /\ place(0) = 0
        /\ place(11) = place(10)
             + (IF asks(11) >= 1 /\ place(10) + asks(11) <= L THEN asks(11) ELSE 0)
    BY <1>3
  <2> QED
    BY <1>4, <2>2, <2>3, <2>4, <2>5, <2>6
<1>11. (\E i, j \in 1 .. 12 :
          i < j /\ asked[i] >= 1 /\ at[i] = at[i - 1] /\ at[j - 1] < at[j])
       <=> \/ L \in 7 .. 5 + Half \/ L \in 7 + Half .. 5 + 2 * Half
           \/ L > 8 + 2 * Half /\ asked[11] > L - (8 + 2 * Half)
  BY <1>1, <1>9, <1>10, WifiOvertaken
<1>12. OutOfStep(WifiFormat, val)
         <=> \E i, j \in 1 .. 12 :
               i < j /\ asked[i] >= 1 /\ at[i] = at[i - 1] /\ at[j - 1] < at[j]
  <2>1. ASSUME NEW i \in 1 .. 12
        PROVE  at[i] = place(i) /\ at[i - 1] = place(i - 1) /\ asked[i] = asks(i)
    <3>1. i \in 0 .. 12
      OBVIOUS
    <3> QED
      BY <1>8, <3>1
  <2> QED
    BY <1>2, <2>1, Zenon
<1> QED
  BY <1>1, <1>6, <1>7, <1>8, <1>11, <1>12

-----------------------------------------------------------------------------
(* The theorems                                                            *)

(* No datagram makes wmmPrepRecvd or wmmGetAttr read behind its end, or    *)
(* copy more than a BUFF holds (wmp.c).                                    *)
THEOREM ReadsInBoundsTheorem == Spec => []ReadsInBounds
<1>1. IInv => ReadsInBounds
  BY DEF IInv, InMessage, ShortValues, ReadsInBounds
<1> QED
  BY <1>1, InitIInv, NextIInv, PTL DEF Spec

(* joinParseRep succeeds only with the message used up (join.c).           *)
THEOREM ConsumedTheorem == Spec => []Consumed
<1>1. IInv => Consumed
  BY DEF IInv
<1> QED
  BY <1>1, InitIInv, NextIInv, PTL DEF Spec

(* wmmPutRawAttr keeps the message in its buffer and the length in the     *)
(* header right, the carry between its two bytes included (wmp.c).         *)
THEOREM BuiltIsSoundTheorem == Spec => []BuiltIsSound
<1>1. Init => IInv /\ Sound
  BY InitIInv, InitSound
<1>2. IInv /\ Sound /\ [Next]_vars => (IInv /\ Sound)'
  BY NextIInv, NextSound
<1>3. Sound => BuiltIsSound
  BY DEF Sound
<1> QED
  BY <1>1, <1>2, <1>3, PTL DEF Spec

(* Building and reading stay within their types (wmp.c, join.c).           *)
THEOREM TypeTheorem == Spec => []TypeOK
<1>1. Init => IInv /\ TypeOK
  <2>1. Init => TypeOK
    <3> SUFFICES ASSUME Init PROVE TypeOK
      OBVIOUS
    <3>1. data \in Seq(ByteValues)
      BY InitIInv DEF IInv, InMessage
    <3> QED
      BY <3>1 DEF Init, InitBuild, InitArrived, TypeOK, Points
  <2> QED
    BY <2>1, InitIInv
<1>2. IInv /\ TypeOK /\ [Next]_vars => (IInv /\ TypeOK)'
  BY NextIInv, NextType
<1> QED
  BY <1>1, <1>2, PTL DEF Spec

(* Of what a Parse function accepts, exactly the WIFICFGs cut inside a     *)
(* two-byte number and those with too long a name are read out of step,    *)
(* and no value of another type (wmpctrl.c).                               *)
THEOREM ReadInStepTheorem == Spec => []ReadInStep
<1>1. IInv => ReadInStep
  <2> SUFFICES ASSUME IInv, NEW i \in DOMAIN got, NEW f \in FormatsOf(got[i].type),
                      Accepts(f[2], got[i].val)
               PROVE  OutOfStep(f[2], got[i].val) <=>
                        /\ got[i].type = WifiCfg
                        /\ CutInNumber(got[i].val) \/ NameTooLong(got[i].val)
    BY DEF ReadInStep
  <2>1. got[i].val \in Seq(ByteValues)
    BY GotBytes DEF IInv
  <2>2. \/ got[i].type = WifiCfg /\ f[2] = WifiFormat
        \/ got[i].type # WifiCfg /\ f[2] \in {NumberFormat, SecKeyFormat, BoardFormat}
    <3>1. WifiCfg # Rescode /\ WifiCfg # Echo /\ WifiCfg # SecKey /\ WifiCfg # Board
      BY TypesAssumption
    <3>2. /\ f \in {<<Rescode, NumberFormat>>, <<Echo, NumberFormat>>,
                    <<WifiCfg, WifiFormat>>, <<SecKey, SecKeyFormat>>,
                    <<Board, BoardFormat>>}
          /\ f[1] = got[i].type
      BY DEF FormatsOf
    <3> QED
      BY <3>1, <3>2
  <2>3. CASE got[i].type = WifiCfg /\ f[2] = WifiFormat
    BY <2>1, <2>3, WifiStep
  <2>4. CASE got[i].type # WifiCfg /\ f[2] \in {NumberFormat, SecKeyFormat, BoardFormat}
    BY <2>1, <2>4, OthersStep
  <2> QED
    BY <2>2, <2>3, <2>4
<1> QED
  BY <1>1, InitIInv, NextIInv, PTL DEF Spec

(* The name and the key of a WIFICFG split what is behind its numbers, or  *)
(* wmmParseWIFI refuses it (wmpctrl.c).                                    *)
THEOREM SplitsRestTheorem == Spec => []SplitsRest
<1>1. IInv => SplitsRest
  <2> SUFFICES ASSUME IInv, NEW i \in DOMAIN got, Len(got[i].val) - WifiHead >= 0
               PROVE  LET val == got[i].val
                          f == Fields(WifiFormat, val)
                          rest == Len(val) - WifiHead
                          ssidlen == IF FromBytes(f[10]) <= rest
                                     THEN FromBytes(f[10]) ELSE 0
                          keylen == IF FromBytes(f[5]) <= rest - ssidlen
                                    THEN FromBytes(f[5]) ELSE 0
                      IN  Accepts(WifiFormat, val) <=> ssidlen + keylen = rest
    BY DEF SplitsRest
  <2> DEFINE v == got[i].val
  <2>1. v \in Seq(ByteValues)
    BY GotBytes DEF IInv
  <2>2. Len(v) >= WifiHead
    BY <2>1, WordAssumption DEF WifiHead
  <2> HIDE DEF v
  <2> QED
    BY <2>1, <2>2, WifiRest, Zenon DEF v
<1> QED
  BY <1>1, InitIInv, NextIInv, PTL DEF Spec

(* What the sender packs and puts is what the receiver gets and unpacks,   *)
(* in order and whole (wmp.c, wmpctrl.c, join.c).                          *)
THEOREM RoundTripTheorem == Spec => []RoundTrip
<1> DEFINE Inv == IInv /\ Sound /\ Arrives
<1>1. Init => Inv
  BY InitIInv, InitSound, InitArrives
<1>2. Inv /\ [Next]_vars => Inv'
  BY NextIInv, NextSound, NextArrives
<1>3. Inv => RoundTrip
  <2> SUFFICES ASSUME IInv, Arrives, built
               PROVE  /\ pc # "refused" /\ Len(got) <= Len(put)
                      /\ \A i \in DOMAIN got : got[i].type = put[i].type
                                              /\ Unpacked(got[i]) = put[i].of
                      /\ pc = "parsed" => Len(got) = Len(put)
    BY DEF RoundTrip
  <2>1. PICK place : Received(place)
    BY DEF Arrives
  <2>2. ASSUME NEW i \in DOMAIN got
        PROVE  got[i].type = put[i].type /\ Unpacked(got[i]) = put[i].of
    <3>1. /\ i \in 1 .. Len(got) /\ Len(got) \in Nat
      BY DEF IInv, ShortValues
    <3>2. got[i].type = put[i].type /\ got[i].val = Packed(put[i])
      BY <2>1, <3>1 DEF Received
    <3>3. put \in Seq(Puts) /\ i \in 1 .. Len(put)
      BY <2>1, <3>1 DEF Received, Arrives
    <3>4. put[i] \in Puts
      BY <3>3, ElementOfSeq
    <3> QED
      BY <3>2, <3>4, PutsUnpack
  <2> QED
    BY <2>1, <2>2 DEF Received
<1> HIDE DEF Inv
<1> QED
  BY <1>1, <1>2, <1>3, PTL DEF Spec
=============================================================================
