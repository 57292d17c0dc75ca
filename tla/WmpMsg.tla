------------------------------ MODULE WmpMsg ------------------------------
(***************************************************************************)
(* The wire format of wmp.c: a message is built attribute by attribute and *)
(* sent, or any datagram at all arrives; its header is checked and the     *)
(* attribute loop of joinParseRep ("join"), or the single look of          *)
(* wmpWaitRecvAC and wmpRecovRcvAC ("first"), reads it.  One step is one   *)
(* call of wmmPutRawAttr, wmmPrepRecvd or wmmGetAttr with what its caller  *)
(* does with the result.                                                   *)
(*                                                                         *)
(* The sizes are parameters, so that small ones can be checked: bytes are  *)
(* 0..Base-1, and a 16-bit number is two of them, most significant first.  *)
(***************************************************************************)
EXTENDS WmpAttr

CONSTANTS
  PayPos,     \* WMM_POS_PAYLOAD, the length of the header (24)
  MsgCap,     \* WMM_BUFF_SIZE, the longest message (4096)
  Rescode,    \* WMM_ATTR_RESCODE
  Echo,       \* WMM_ATTR_ECHO
  WifiCfg,    \* WMM_ATTR_WIFICFG
  SecKey,     \* WMM_ATTR_SECKEY
  Board,      \* WMM_ATTR_BOARD
  Puts,       \* what the sender may put, [type, of] records
  Datagrams   \* what else may arrive: sequences of bytes

(* The value of an attribute of a type, made by its Pack function.         *)
Packed(a) ==
  CASE a.type \in {Rescode, Echo} -> PackNumber(a.of)
    [] a.type = SecKey -> PackSecKey(a.of[1], a.of[2])
    [] a.type = Board -> PackBoard(a.of[1], a.of[2], a.of[3])
    [] OTHER -> a.of

ASSUME HeaderAssumption == PayPos \in Nat /\ PayPos >= 2
ASSUME CapAssumption ==
  MsgCap \in Nat /\ PayPos <= MsgCap /\ MsgCap < Base * Base
ASSUME TypesAssumption ==
  /\ WifiCfg \notin {Rescode, Echo}
  /\ SecKey # Board /\ {SecKey, Board} \cap {Rescode, Echo, WifiCfg} = {}
(* What the struct of an attribute holds: unsigned integers and a text.    *)
Holds(type, of) ==
  /\ type \in {Rescode, Echo} => of \in Numbers(Word)
  /\ type = SecKey => of \in Numbers(Word) \X Texts(Word)
  /\ type = Board => of \in Numbers(Half) \X Numbers(Half) \X Texts(2 * Half)
  /\ type \notin {Rescode, Echo, SecKey, Board} => of \in Seq(ByteValues)

ASSUME PutsAssumption ==
  /\ Word <= AttrCap
  /\ \A a \in Puts : a.type \in 0 .. Base * Base - 1 /\ Holds(a.type, a.of)
ASSUME DatagramAssumption ==
  \A d \in Datagrams : d \in Seq(ByteValues) /\ Len(d) <= MsgCap

VARIABLES
  data,     \* the bytes of the message; totlen is their number
  put,      \* the attributes put into it, in this order
  built,    \* whether the message comes from wmmPutRawAttr
  mode,     \* which caller reads it: "join" or "first"
  pc,       \* build, arrived, loop or the result
  offset,   \* w->offset of the receiver
  paylen,   \* w->payloadlen
  got,      \* the attributes wmmGetAttr returned, in this order
  rescode,  \* rep->rescode or rescode: is it still 0, the code of success
  touched   \* history: the number of leading bytes read so far

vars == <<data, put, built, mode, pc, offset, paylen, got, rescode, touched>>

(* refused  by wmmPrepRecvd;  parsed, failed  joinParseRep returned 0, -1; *)
(* yes, no  wmpWaitRecvAC or wmpRecovRcvAC returned 0, -1.                 *)
Points == {"build", "arrived", "loop", "refused", "parsed", "failed", "yes",
           "no"}

totlen == Len(data)

(* Behind the end of the datagram lies what the buffer held before: 0 here.*)
Byte(i) == IF i < totlen THEN data[i + 1] ELSE 0
Field(i) == Byte(i) * Base + Byte(i + 1)
PayLenPos == PayPos - 2

Number_Wide(n) == <<n \div Base, n>>
Number(n) == <<(n \div Base) % Base, n % Base>>

TypeOK ==
  /\ data \in Seq(ByteValues)
  /\ built \in BOOLEAN /\ mode \in {"join", "first"}
  /\ pc \in Points
  /\ offset \in Nat /\ paylen \in Nat /\ touched \in Nat
  /\ rescode \in BOOLEAN

InitBuild ==
  /\ data = [i \in 1 .. PayPos |-> 0]
  /\ built = TRUE /\ pc = "build"

InitArrived ==
  /\ data \in Datagrams
  /\ built = FALSE /\ pc = "arrived"

Init ==
  /\ InitBuild \/ InitArrived
  /\ mode \in {"join", "first"}
  /\ put = <<>> /\ got = <<>>
  /\ offset = 0 /\ paylen = 0 /\ rescode = TRUE /\ touched = 0

-----------------------------------------------------------------------------
(* The sender                                                              *)

Fits_NoHeader(v) == Len(v) <= AttrCap /\ totlen + Len(v) <= MsgCap
Fits(v) == Len(v) <= AttrCap /\ totlen + 4 + Len(v) <= MsgCap

(* wmmPutRawAttr: the attribute goes to the end of the message, and the    *)
(* length of the payload into the header.  What does not fit is refused.   *)
PutLen_NoHeader(v) == paylen + Len(v)
PutLen(v) == paylen + Len(v) + 4
PutAttr(a) ==
  /\ pc = "build" /\ Fits(Packed(a))
  /\ paylen' = PutLen(Packed(a))
  /\ data' = [(data \o Number(a.type) \o Number(Len(Packed(a))) \o Packed(a))
                EXCEPT ![PayLenPos + 1] = Number(paylen')[1],
                       ![PayLenPos + 2] = Number(paylen')[2]]
  /\ put' = Append(put, a)
  /\ UNCHANGED <<built, mode, pc, offset, got, rescode, touched>>

(* The message reaches a receiver, whose struct is another one.            *)
Send ==
  /\ pc = "build"
  /\ pc' = "arrived" /\ paylen' = 0
  /\ UNCHANGED <<data, put, built, mode, offset, got, rescode, touched>>

-----------------------------------------------------------------------------
(* The receiver                                                            *)

TooShort == totlen < PayPos

(* The length in the header, which does not count the header, is compared  *)
(* with the length of the whole datagram.                                  *)
LessThanGiven == totlen < Field(PayLenPos)

(* wmmPrepRecvd                                                            *)
PrepRecvd ==
  /\ pc = "arrived"
  /\ \/ /\ TooShort
        /\ pc' = "refused"
        /\ UNCHANGED <<offset, paylen, touched>>
     \/ /\ ~TooShort /\ LessThanGiven
        /\ pc' = "refused" /\ touched' = PayPos
        /\ UNCHANGED <<offset, paylen>>
     \/ /\ ~TooShort /\ ~LessThanGiven
        /\ pc' = "loop" /\ touched' = PayPos
        /\ offset' = PayPos /\ paylen' = Field(PayLenPos)
  /\ UNCHANGED <<data, put, built, mode, got, rescode>>

(* wmmGetAttr: the end of the message, fewer than four bytes left, a value *)
(* that runs past the end or is longer than a BUFF, an attribute.          *)
AtEnd_OffByOne == offset + 1 >= totlen
AtEnd == offset >= totlen
Stub_OffByOne == ~AtEnd /\ offset + 3 > totlen
Stub == ~AtEnd /\ offset + 4 > totlen
AttrType == Field(offset)
AttrLen == Field(offset + 2)
RunsPast == offset + 4 + AttrLen > totlen
TooLong == AttrLen > AttrCap
AttrVal == SubSeq(data, offset + 5, offset + 4 + AttrLen)
AttrEnd_Short == offset + 3 + AttrLen
AttrEnd == offset + 4 + AttrLen

(* wmmParseResCode and wmmParseEcho: a number that is missing is 0.        *)
Parses == Accepts(NumberFormat, AttrVal)
Given == Fields(NumberFormat, AttrVal)[1]
IsZero == FromBytes(Given) = 0

(* No attribute left: joinParseRep looks at the result code, the other two *)
(* give up.                                                                *)
GetNone ==
  /\ pc = "loop" /\ AtEnd
  /\ pc' = IF mode = "first" THEN "no"
           ELSE IF rescode THEN "parsed" ELSE "failed"
  /\ UNCHANGED <<data, put, built, mode, offset, paylen, got, rescode, touched>>

(* wmmGetAttr returns -1 and leaves the message as it is: the loop of      *)
(* joinParseRep logs that and calls it again.                              *)
GetStub ==
  /\ pc = "loop" /\ Stub
  /\ pc' = IF mode = "first" THEN "no" ELSE "loop"
  /\ UNCHANGED <<data, put, built, mode, offset, paylen, got, rescode, touched>>

GetMalformed_Stays ==
  /\ pc = "loop" /\ ~AtEnd /\ ~Stub /\ (RunsPast \/ TooLong)
  /\ pc' = IF mode = "first" THEN "no" ELSE "loop"
  /\ touched' = offset + 4
  /\ UNCHANGED <<data, put, built, mode, offset, paylen, got, rescode>>

(* wmmGetAttr returns -1 with the type and the length read: joinParseRep   *)
(* goes on behind them.                                                    *)
GetMalformed ==
  /\ pc = "loop" /\ ~AtEnd /\ ~Stub /\ (RunsPast \/ TooLong)
  /\ pc' = IF mode = "first" THEN "no" ELSE "loop"
  /\ offset' = offset + 4 /\ touched' = offset + 4
  /\ UNCHANGED <<data, put, built, mode, paylen, got, rescode>>

GetAttr ==
  /\ pc = "loop" /\ ~AtEnd /\ ~Stub /\ ~RunsPast /\ ~TooLong
  /\ offset' = AttrEnd /\ touched' = AttrEnd
  /\ got' = Append(got, [type |-> AttrType, val |-> AttrVal])
  /\ UNCHANGED <<data, put, built, mode, paylen>>

(* The cases of joinParseRep: a number is taken, a WIFICFG is handled or   *)
(* not (wtpHandleWiFi writes a file), other types are passed over.         *)
JoinAttr ==
  /\ mode = "join" /\ GetAttr
  /\ \/ /\ AttrType = Rescode /\ Parses
        /\ rescode' = IF Given = <<>> THEN rescode ELSE IsZero
        /\ pc' = "loop"
     \/ /\ AttrType = Echo /\ Parses
        /\ pc' = "loop" /\ UNCHANGED rescode
     \/ /\ AttrType \in {Rescode, Echo} /\ ~Parses
        /\ pc' = "failed" /\ UNCHANGED rescode
     \/ /\ AttrType = WifiCfg /\ Accepts(WifiFormat, AttrVal)
        /\ pc' \in {"loop", "failed"} /\ UNCHANGED rescode
     \/ /\ AttrType = WifiCfg /\ ~Accepts(WifiFormat, AttrVal)
        /\ pc' = "failed" /\ UNCHANGED rescode
     \/ /\ AttrType \notin {Rescode, Echo, WifiCfg}
        /\ pc' = "loop" /\ UNCHANGED rescode

(* wmpWaitRecvAC and wmpRecovRcvAC                                         *)
FirstAttr ==
  /\ mode = "first" /\ GetAttr
  /\ pc' = IF AttrType = Rescode /\ Parses /\ IsZero THEN "yes" ELSE "no"
  /\ UNCHANGED rescode

Next ==
  \/ \E a \in Puts : PutAttr(a)
  \/ Send
  \/ PrepRecvd
  \/ GetNone \/ GetStub \/ GetMalformed
  \/ JoinAttr \/ FirstAttr

Spec == Init /\ [][Next]_vars

(* The receiver runs on: a function that was called is executed.           *)
Reads == PrepRecvd \/ GetNone \/ GetStub \/ GetMalformed \/ JoinAttr \/ FirstAttr
FairSpec == Spec /\ WF_vars(Reads)

-----------------------------------------------------------------------------

(* wmmPutRawAttr keeps the message within its buffer and the header true:  *)
(* the length written there is that of the payload.                        *)
BuiltIsSound ==
  /\ totlen <= MsgCap
  /\ built => Field(PayLenPos) = totlen - PayPos

(* Nothing behind the end of the datagram is ever read, where wmpJoin has  *)
(* an uninitialised buffer, and no value is longer than a BUFF.            *)
ReadsInBounds ==
  /\ touched <= totlen
  /\ \A i \in DOMAIN got : Len(got[i].val) <= AttrCap

(* The loop ends exactly at the end of the message: no datagram makes      *)
(* joinParseRep succeed on part of its bytes.                              *)
Consumed == pc = "parsed" => offset = totlen

(* What the Parse function of its type makes of a value.                   *)
Unpacked(a) ==
  CASE a.type \in {Rescode, Echo} -> FromBytes(Fields(NumberFormat, a.val)[1])
    [] a.type = SecKey ->
         LET f == Fields(SecKeyFormat, a.val) IN <<FromBytes(f[1]), f[2]>>
    [] a.type = Board ->
         LET f == Fields(BoardFormat, a.val)
         IN  <<FromBytes(f[1]), FromBytes(f[2]), f[3]>>
    [] OTHER -> a.val

(* What the Pack functions and wmmPutRawAttr write, wmmPrepRecvd accepts   *)
(* and wmmGetAttr and the Parse functions give back, in order and whole.   *)
RoundTrip ==
  built =>
    /\ pc # "refused" /\ Len(got) <= Len(put)
    /\ \A i \in DOMAIN got :
         got[i].type = put[i].type /\ Unpacked(got[i]) = put[i].of
    /\ pc = "parsed" => Len(got) = Len(put)

(* The formats that a value of a type is read with.                        *)
FormatsOf(t) ==
  {f \in {<<Rescode, NumberFormat>>, <<Echo, NumberFormat>>,
          <<WifiCfg, WifiFormat>>, <<SecKey, SecKeyFormat>>,
          <<Board, BoardFormat>>} : f[1] = t}

(* A getter that asked for bytes got none, and a later one got some: the   *)
(* later field holds bytes that are those of the earlier one.              *)
OutOfStep(format, val) ==
  LET read == Parse(format, val)
  IN  \E i, j \in DOMAIN format :
        /\ i < j /\ Asked(format[i], val, read) >= 1
        /\ read.fields[i] = <<>> /\ read.fields[j] # <<>>

(* A WIFICFG cut inside power or wlanindex (7 or 9 bytes in the code): the *)
(* byte left over is taken for ssidsupp.  And one whose name is longer than *)
(* what is left, with something left: the key takes bytes of the name.     *)
CutInNumber(val) ==
  Len(val) \in 7 .. 5 + Half \/ Len(val) \in 7 + Half .. 5 + 2 * Half
NameTooLong(val) ==
  /\ Len(val) > WifiHead
  /\ val[WifiHead] > Len(val) - WifiHead

(* No getter's result is looked at, only the place where the last one left *)
(* the value.  Of what is accepted so, exactly these WIFICFGs are read out *)
(* of step (wmpctrl.c:132-145); every other value of every type has its    *)
(* fields where its format says, or ends before them.                      *)
ReadInStep ==
  \A i \in DOMAIN got : \A f \in FormatsOf(got[i].type) :
    LET val == got[i].val
    IN  Accepts(f[2], val) =>
          (OutOfStep(f[2], val) <=>
             got[i].type = WifiCfg /\ (CutInNumber(val) \/ NameTooLong(val)))

(* Of a WIFICFG that is not cut short, name and key are as long as their   *)
(* length fields say, or missing where that is more than is left for them; *)
(* it is accepted exactly when these two then fill the rest of the value.  *)
SplitsRest ==
  \A i \in DOMAIN got :
    LET val == got[i].val
        f == Fields(WifiFormat, val)
        rest == Len(val) - WifiHead
        ssidlen == IF FromBytes(f[10]) <= rest THEN FromBytes(f[10]) ELSE 0
        keylen == IF FromBytes(f[5]) <= rest - ssidlen THEN FromBytes(f[5]) ELSE 0
    IN  got[i].type = WifiCfg /\ rest >= 0
          => (Accepts(WifiFormat, val) <=> ssidlen + keylen = rest)

(* Only a rest of one to three bytes keeps the loop of joinParseRep.       *)
EndsOrStub == (pc = "loop") ~> (pc # "loop" \/ Stub)

(* What the code says of itself and does not keep.                         *)

(* wmmGetAttr says that it returns -1 when it fails, and joinParseRep and  *)
(* wmpJoin have an error return for it: the loop should end.               *)
ParseEnds == (pc = "loop") ~> (pc # "loop")

(* wmmPrepRecvd refuses a message when "the actual length is less than the *)
(* given length".                                                          *)
CutIsRefused == pc = "loop" => totlen >= PayPos + paylen
=============================================================================
