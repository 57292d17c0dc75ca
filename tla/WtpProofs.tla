----------------------------- MODULE WtpProofs -----------------------------
(***************************************************************************)
(* The safety invariants of Wtp hold for every value of its constants, and *)
(* Wtp implements WtpSession.                                              *)
(*                                                                         *)
(* IInv is the inductive invariant.  The bounds on quiet are not inductive *)
(* by themselves: RunTimed and RetryTimed relate quiet to the counter of   *)
(* the loop, to the time select() has left and to what is left of a sleep; *)
(* Linked carries the facts that hold between two visits of a loop.        *)
(***************************************************************************)
EXTENDS Wtp, TLAPS, FiniteSetTheorems

Linked ==
  /\ state = "JOIN" /\ pc = "recv" => sock = "join"
  /\ state \notin Service => quiet = 0
  /\ state \notin {"WAIT", "RECOV"} => tries = 0
  /\ pc = "sleep" => state \in Service

RunTimed ==
  state = "RUN" =>
    /\ pc = "ready" => /\ quiet <= echonum * echo
                       /\ echonum * echo <= quiet + echo
    /\ pc \in {"recv", "sleep"} => /\ tv <= echo
                                   /\ quiet + tv <= (echonum + 1) * echo
                                   /\ echonum * echo <= quiet + tv

RetryTimed(st, max, time, pause) ==
  state = st =>
    /\ pc = "ready" => tries <= max /\ quiet <= tries * time
    /\ pc = "recv" => tries < max /\ quiet + tv <= (tries + 1) * time
    /\ pc = "sleep" => quiet + nap <= max * time + pause

Timed ==
  /\ RunTimed
  /\ RetryTimed("WAIT", WaitTries, WaitTime, WaitPause)
  /\ RetryTimed("RECOV", RecovTries, RecovTime, RecovPause)

IInv ==
  /\ TypeOK
  /\ EchoBudget
  /\ OneSocket
  /\ ServiceOnAir
  /\ ContactBound
  /\ Linked
  /\ Timed

-----------------------------------------------------------------------------
(* Lemmas                                                                  *)

(* Multiplication by a natural number, as the bounds on quiet need it.     *)
LEMMA Products ==
  ASSUME NEW a \in Nat, NEW b \in Nat, NEW c \in Nat
  PROVE  /\ a * c \in Nat
         /\ (a + 1) * c = a * c + c
         /\ a <= b => a * c <= b * c
<1>1. a * c \in Nat /\ (a + 1) * c = a * c + c
  BY SMT
<1>2. ASSUME a <= b PROVE a * c <= b * c
  <2>1. PICK d \in Nat : b = a + d
    BY <1>2, SMT
  <2>2. b * c = a * c + d * c /\ d * c >= 0
    BY <2>1, SMT
  <2> QED
    BY <2>2, <1>1, SMT
<1> QED
  BY <1>1, <1>2

(* The time that no ECHO times take, and that EchoMax + 1 of them take.    *)
LEMMA EchoSpan ==
  ASSUME NEW e \in Nat
  PROVE  0 <= 0 * e /\ 0 * e <= 0 + e /\ (EchoMax + 1) * e \in Nat
<1>1. 0 <= 0 * e /\ 0 * e <= 0 + e
  BY SMT
<1>2. EchoMax + 1 \in Nat
  BY SizeAssumption
<1> QED
  BY <1>1, <1>2, Products

(* The time that no retries take, and that all of them and a pause take.   *)
LEMMA RetrySpan ==
  ASSUME NEW max \in Nat, NEW time \in Nat, NEW pause \in Nat
  PROVE  /\ 0 <= 0 * time
         /\ max * time \in Nat /\ max * time + pause \in Nat
         /\ 0 <= max * time + pause
  BY Products, SMT

(* What the attribute loop may have read of a body is an attribute.        *)
LEMMA BodyElement ==
  ASSUME NEW m \in Msg, NEW n \in 1 .. Len(m.body) + 1, NEW i \in 1 .. n - 1
  PROVE  m.body[i] \in Attr
<1>1. m.body \in Seq(Attr)
  BY BodyAssumption DEF Msg
<1> QED
  BY <1>1

(* The ECHO time taken from a JOIN-REP is a natural number.                *)
LEMMA ParsedEcho ==
  ASSUME NEW m \in Msg, NEW n \in 1 .. Len(m.body) + 1, NEW v,
         Parsed(m.body, n, "ECHO", v)
  PROVE  v \in Nat
<1>1. CASE v = 0
  BY <1>1
<1>2. ASSUME NEW i \in 1 .. n - 1, m.body[i].type = "ECHO", v = m.body[i].val
      PROVE  v \in Nat
  <2>1. m.body[i] \in Attr
    BY BodyElement
  <2> QED
    BY <1>2, <2>1, EchoAssumption DEF Attr
<1> QED
  BY <1>1, <1>2 DEF Parsed

(* wtpWiFiWirteFile only ever adds to the table, and nothing but indexes.  *)
LEMMA Configured ==
  ASSUME TypeOK, NEW m \in Msg, NEW n \in 1 .. Len(m.body) + 1,
         Configure(m.body, n)
  PROVE  /\ wifinum' \in Nat
         /\ wlans' \subseteq Wlans
         /\ wlans \subseteq wlans'
<1> DEFINE cs == Configs(m.body, n)
<1>1. Cardinality(cs) \in Nat
  <2>1. m.body \in Seq(Attr) /\ n \in Nat
    BY BodyAssumption DEF Msg
  <2>2. IsFiniteSet(1 .. n - 1)
    BY <2>1, FS_Interval
  <2>3. cs \subseteq 1 .. n - 1
    BY DEF Configs
  <2>4. IsFiniteSet(cs)
    BY <2>2, <2>3, FS_Subset
  <2> QED
    BY <2>4, FS_CardinalityType
<1>2. wifinum' \in Nat
  BY <1>1 DEF Configure, TypeOK
<1>3. ASSUME NEW i \in cs PROVE m.body[i].val \in Wlans
  <2>1. i \in 1 .. n - 1 /\ m.body[i].type = "WIFICFG"
    BY <1>3 DEF Configs
  <2>2. m.body[i] \in Attr
    BY <2>1, BodyElement
  <2> QED
    BY <2>1, <2>2 DEF Attr
<1> QED
  BY <1>2, <1>3 DEF Configure, TypeOK

(* A step may send nothing.                                                *)
LEMMA NoOutput == <<>> \in Outputs
  BY DEF Outputs

(* A request carries a sequence number, and the next one is one again.     *)
LEMMA Numbered ==
  ASSUME TypeOK, NEW c \in ReqCodes, NEW ok \in BOOLEAN, SendRequest(c, ok)
  PROVE  seq' \in SeqNums /\ sent' \in Outputs
<1>1. seq' \in SeqNums
  BY SeqAssumption DEF TypeOK, SendRequest, NextSeqs, SeqNums
<1>2. Request(c, seq') \in Requests
  BY <1>1 DEF Request, Requests
<1> QED
  BY <1>1, <1>2 DEF SendRequest, Outputs

(* Closing the old socket and opening a new one leaves one open, or none.  *)
LEMMA Reopened ==
  ASSUME TypeOK, OneSocket, NEW kind \in {"dscv", "join"}, NEW ok \in BOOLEAN,
         NewSocket(kind, ok)
  PROVE  /\ sock' = IF ok THEN kind ELSE "none"
         /\ fds' = IF ok THEN 1 ELSE 0
<1> QED
  BY DEF TypeOK, OneSocket, NewSocket, OldClosed

(* A reboot command leaves a reason behind, or the one there was.          *)
LEMMA Asked ==
  ASSUME TypeOK, NEW why \in {"sulk", "run", "wait", "recov"}, DoReboot(why)
  PROVE  reboot' \in {"no", "sulk", "run", "wait", "recov"}
<1> QED
  BY DEF TypeOK, DoReboot

-----------------------------------------------------------------------------
(* The invariant                                                           *)

LEMMA InitIInv == Init => IInv
<1> SUFFICES ASSUME Init PROVE IInv
  OBVIOUS
<1>1. TypeOK
  BY SeqAssumption DEF Init, TypeOK, States, Points, SeqNums, Outputs
<1>2. EchoBudget /\ OneSocket /\ ServiceOnAir /\ Linked
  BY SizeAssumption DEF Init, EchoBudget, OneSocket, ServiceOnAir, Linked,
     Service
<1>3. ContactBound /\ Timed
  BY DEF Init, ContactBound, Timed, RunTimed, RetryTimed
<1> QED
  BY <1>1, <1>2, <1>3 DEF IInv

LEMMA StutterIInv == IInv /\ UNCHANGED vars => IInv'
  BY DEF IInv, vars, TypeOK, EchoBudget, OneSocket, ServiceOnAir, ContactBound,
     Linked, Timed, RunTimed, RetryTimed, Stopped, LostContact

(* INIT, DSCV and SULK: no service and no retries, only the socket moves.  *)
LEMMA SearchIInv ==
  ASSUME IInv,
         \/ InitDone \/ InitFails \/ DscvSend \/ DscvTimeout
         \/ SulkStart \/ SulkTimeout \/ SulkError
         \/ \E m \in Msg : DscvRecv(m) \/ SulkRecv(m)
  PROVE  IInv'
<1> USE NoOutput DEF IInv
<1>1. CASE InitDone \/ InitFails
  BY <1>1 DEF InitDone, InitFails, Ready, Goto, TypeOK, EchoBudget, OneSocket,
     ServiceOnAir, ContactBound, Linked, Timed, RunTimed, RetryTimed,
     sessionVars, wifiVars, history, Service, States, Points
<1>2. CASE DscvSend
  <2>1. /\ state = "DSCV" /\ pc = "ready" /\ state' \in {"DSCV", "SULK"}
        /\ pc' \in {"ready", "recv"} /\ tv' \in Nat
        /\ UNCHANGED <<echo, echonum, tries, nap, wifinum, wlans, air, reboot,
                       joined, quiet>>
    BY <1>2, TimeAssumption DEF DscvSend, NewSocket, SendRequest, Ready, Goto,
       WaitFor, sessionVars, wifiVars, history
  <2>2. seq' \in SeqNums /\ sent' \in Outputs
    <3>1. CASE UNCHANGED seq /\ sent' = <<>>
      BY <3>1 DEF TypeOK
    <3>2. ASSUME NEW ok \in BOOLEAN, SendRequest("DSCV_REQ", ok)
          PROVE  seq' \in SeqNums /\ sent' \in Outputs
      BY <3>2, Numbered DEF ReqCodes
    <3> QED
      BY <1>2, <3>1, <3>2 DEF DscvSend
  <2>3. \/ sock' = "dscv" /\ fds' = 1
        \/ sock' = "none" /\ fds' = 0
    BY <1>2, Reopened DEF DscvSend
  <2> QED
    <3>1. TypeOK'
      BY <2>1, <2>2, <2>3 DEF TypeOK, States, Points
    <3>2. EchoBudget' /\ OneSocket' /\ ServiceOnAir'
      BY <2>1, <2>3 DEF EchoBudget, OneSocket, ServiceOnAir, Service
    <3>3. ContactBound' /\ Linked' /\ Timed'
      BY <2>1 DEF ContactBound, Linked, Timed, RunTimed, RetryTimed, Service
    <3> QED
      BY <3>1, <3>2, <3>3
<1>3. CASE DscvTimeout \/ SulkTimeout
  BY <1>3 DEF DscvTimeout, SulkTimeout, TimedOut, Goto, TypeOK, EchoBudget,
     OneSocket, ServiceOnAir, ContactBound, Linked, Timed, RunTimed,
     RetryTimed, sessionVars, wifiVars, history, Service, States, Points
<1>4. CASE SulkStart
  BY <1>4, TimeAssumption DEF SulkStart, Ready, WaitFor, TypeOK, EchoBudget,
     OneSocket, ServiceOnAir, ContactBound, Linked, Timed, RunTimed,
     RetryTimed, sessionVars, wifiVars, history, Service, States, Points
<1>5. CASE SulkError
  <2>1. reboot' \in {"no", "sulk", "run", "wait", "recov"}
    BY <1>5, Asked DEF SulkError
  <2> QED
    BY <1>5, <2>1 DEF SulkError, Goto, TypeOK, EchoBudget, OneSocket,
       ServiceOnAir, ContactBound, Linked, Timed, RunTimed, RetryTimed,
       sessionVars, wifiVars, history, Service, States, Points
<1>6. ASSUME NEW m \in Msg, DscvRecv(m) \/ SulkRecv(m) PROVE IInv'
  BY <1>6 DEF DscvRecv, SulkRecv, Receiving, Goto, TimeLeft, TypeOK,
     EchoBudget, OneSocket, ServiceOnAir, ContactBound, Linked, Timed,
     RunTimed, RetryTimed, sessionVars, wifiVars, history, Service, States,
     Points
<1> QED
  BY <1>1, <1>2, <1>3, <1>4, <1>5, <1>6

(* JOIN: the table grows, the interfaces go on the air and RUN begins with *)
(* nothing missed and nothing heard.                                       *)
LEMMA JoinIInv ==
  ASSUME IInv,
         \/ JoinSend \/ JoinTimeout
         \/ \E m \in Msg : JoinRecvOther(m) \/ JoinRecvRep(m)
  PROVE  IInv'
<1> USE NoOutput DEF IInv
<1>1. CASE JoinSend
  <2>1. /\ state = "JOIN" /\ pc = "ready" /\ state' \in {"JOIN", "SULK"}
        /\ pc' \in {"ready", "recv"} /\ tv' \in Nat
        /\ UNCHANGED <<echo, echonum, tries, nap, wifinum, wlans, air, reboot,
                       joined, quiet>>
    BY <1>1, TimeAssumption DEF JoinSend, NewSocket, SendRequest, Ready, Goto,
       WaitFor, sessionVars, wifiVars, history
  <2>2. seq' \in SeqNums /\ sent' \in Outputs
    <3>1. CASE UNCHANGED seq /\ sent' = <<>>
      BY <3>1 DEF TypeOK
    <3>2. ASSUME NEW ok \in BOOLEAN, SendRequest("JOIN_REQ", ok)
          PROVE  seq' \in SeqNums /\ sent' \in Outputs
      BY <3>2, Numbered DEF ReqCodes
    <3> QED
      BY <1>1, <3>1, <3>2 DEF JoinSend
  <2>3. \/ sock' = "join" /\ fds' = 1
        \/ sock' = "none" /\ fds' = 0
    BY <1>1, Reopened DEF JoinSend
  <2>4. pc' = "recv" => sock' = "join"
    BY <1>1 DEF JoinSend, NewSocket, Goto
  <2> QED
    <3>1. TypeOK'
      BY <2>1, <2>2, <2>3 DEF TypeOK, States, Points
    <3>2. EchoBudget' /\ OneSocket' /\ ServiceOnAir'
      BY <2>1, <2>3 DEF EchoBudget, OneSocket, ServiceOnAir, Service
    <3>3. ContactBound' /\ Linked' /\ Timed'
      BY <2>1, <2>4 DEF ContactBound, Linked, Timed, RunTimed, RetryTimed,
         Service
    <3> QED
      BY <3>1, <3>2, <3>3
<1>2. CASE JoinTimeout
  BY <1>2 DEF JoinTimeout, TimedOut, Goto, TypeOK, EchoBudget, OneSocket,
     ServiceOnAir, ContactBound, Linked, Timed, RunTimed, RetryTimed,
     sessionVars, wifiVars, history, Service, States, Points
<1>3. ASSUME NEW m \in Msg, JoinRecvOther(m) PROVE IInv'
  BY <1>3 DEF JoinRecvOther, Receiving, Goto, TypeOK, EchoBudget, OneSocket,
     ServiceOnAir, ContactBound, Linked, Timed, RunTimed, RetryTimed,
     sessionVars, wifiVars, history, Service, States, Points
<1>4. ASSUME NEW m \in Msg, JoinRecvRep(m) PROVE IInv'
  <2>1. /\ state = "JOIN" /\ pc = "recv" /\ sock = "join" /\ fds = 1
        /\ quiet = 0 /\ tries = 0 /\ echonum = 0 /\ air \subseteq wlans
        /\ UNCHANGED <<sock, fds, seq, echonum, tries, nap, reboot>>
        /\ sent' = <<>>
    BY <1>4 DEF JoinRecvRep, Receiving, Linked, OneSocket, EchoBudget,
       ServiceOnAir, Service
  <2>2. PICK n \in 1 .. Len(m.body) + 1 :
          /\ Configure(m.body, n)
          /\ \/ /\ pc' = "undef" /\ UNCHANGED <<state, echo, tv, air, history>>
             \/ /\ \/ pc' = "hung" /\ UNCHANGED <<state, tv>>
                   \/ Goto("SULK")
                /\ UNCHANGED <<echo, air, history>>
             \/ JoinHandle(m, n)
    BY <1>4 DEF JoinRecvRep
  <2>3. wifinum' \in Nat /\ wlans' \subseteq Wlans /\ wlans \subseteq wlans'
    BY <2>2, Configured
  <2>4. ASSUME state' \in {"JOIN", "SULK"}, pc' \in {"ready", "hung", "undef"},
               state' = "JOIN" => pc' # "ready", tv' \in Nat, echo' \in Nat,
               air' \subseteq wlans', UNCHANGED history
        PROVE  IInv'
    <3>1. TypeOK'
      BY <2>1, <2>3, <2>4 DEF TypeOK, States, Points, history
    <3>2. EchoBudget' /\ OneSocket' /\ ServiceOnAir'
      BY <2>1, <2>4 DEF EchoBudget, OneSocket, ServiceOnAir, Service
    <3>3. ContactBound' /\ Linked' /\ Timed'
      BY <2>1, <2>4 DEF ContactBound, Linked, Timed, RunTimed, RetryTimed,
         Service, history
    <3> QED
      BY <3>1, <3>2, <3>3
  <2>5. CASE \/ pc' = "undef" /\ UNCHANGED <<state, echo, tv, air, history>>
             \/ /\ \/ pc' = "hung" /\ UNCHANGED <<state, tv>>
                   \/ Goto("SULK")
                /\ UNCHANGED <<echo, air, history>>
    BY <2>1, <2>3, <2>4, <2>5 DEF Goto, TypeOK
  <2>6. CASE JoinHandle(m, n)
    <3>1. echo' \in Nat
      BY <2>6, ParsedEcho DEF OpensAll, OpensSome, JoinHandle
    <3>2. CASE \E started \in SUBSET wlans' :
                 /\ air' = air \cup started
                 /\ Goto("SULK") /\ UNCHANGED history
      <4>1. air' \subseteq wlans'
        BY <2>1, <2>3, <3>2
      <4> QED
        BY <2>4, <3>1, <3>2, <4>1 DEF Goto
    <3>3. CASE air' = air \cup wlans' /\ Goto("RUN") /\ joined' = m.from
                 /\ UNCHANGED quiet
      <4>1. air' = wlans'
        BY <2>1, <2>3, <3>3
      <4>2. m.from \in Peers
        BY DEF Msg
      <4>3. TypeOK'
        BY <2>1, <2>3, <3>1, <3>3, <4>1, <4>2 DEF TypeOK, States, Points, Goto
      <4>4. EchoBudget' /\ OneSocket' /\ ServiceOnAir'
        BY <2>1, <3>3, <4>1, SizeAssumption
           DEF EchoBudget, OneSocket, ServiceOnAir, Service, Goto
      <4>5. /\ 0 <= 0 * echo' /\ 0 * echo' <= 0 + echo'
            /\ (EchoMax + 1) * echo' \in Nat
        BY <3>1, EchoSpan
      <4>6. /\ state' = "RUN" /\ pc' = "ready" /\ quiet' = 0
            /\ echonum' = 0 /\ tries' = 0
        BY <2>1, <3>3 DEF Goto
      <4>7. ContactBound'
        BY <4>5, <4>6 DEF ContactBound
      <4>8. Linked'
        BY <4>6 DEF Linked, Service
      <4>9. Timed'
        <5>1. quiet' <= echonum' * echo' /\ echonum' * echo' <= quiet' + echo'
          BY <4>5, <4>6, Zenon
        <5> QED
          BY <4>6, <5>1 DEF Timed, RunTimed, RetryTimed
      <4> QED
        BY <4>3, <4>4, <4>7, <4>8, <4>9
    <3> QED
      BY <2>6, <3>2, <3>3 DEF OpensAll, OpensSome, JoinHandle, history
  <2> QED
    BY <2>2, <2>5, <2>6
<1> QED
  BY <1>1, <1>2, <1>3, <1>4

(* RUN: the count and the time left bound the silence from both sides, and *)
(* every way out clears what the next handler relies on.                   *)
LEMMA RunIInv ==
  ASSUME IInv,
         \/ RunStart \/ RunTimeout \/ RunReboot \/ RunError
         \/ \E m \in Msg : RunRecv(m)
  PROVE  IInv'
<1> USE NoOutput DEF IInv
<1>1. echonum \in Nat /\ echo \in Nat /\ quiet \in Nat /\ tv \in Nat
  BY DEF TypeOK
<1>2. /\ echonum * echo \in Nat
      /\ (echonum + 1) * echo = echonum * echo + echo
  BY <1>1, Products
<1>3. 0 <= 0 * echo /\ 0 * echo <= 0 + echo /\ (EchoMax + 1) * echo \in Nat
  BY <1>1, EchoSpan
<1>4. 0 <= 0 * WaitTime /\ 0 <= WaitTries * WaitTime + WaitPause
  BY TimeAssumption, TriesAssumption, PauseAssumption, RetrySpan
<1>5. CASE RunStart
  <2>1. /\ state = "RUN" /\ pc = "ready" /\ pc' = "recv" /\ tv' = echo
        /\ sent' = <<>>
        /\ UNCHANGED <<state, sock, fds, seq, echo, echonum, tries, nap, wifinum,
                       wlans, air, reboot, joined, quiet>>
    BY <1>5 DEF RunStart, Ready, WaitFor, sessionVars, wifiVars, history
  <2>2. quiet + echo <= (echonum + 1) * echo /\ echonum * echo <= quiet + echo
    BY <1>1, <1>2, <2>1 DEF Timed, RunTimed
  <2>3. Timed'
    BY <1>1, <2>1, <2>2 DEF Timed, RunTimed, RetryTimed
  <2> QED
    BY <2>1, <2>3 DEF TypeOK, EchoBudget, OneSocket, ServiceOnAir,
       ContactBound, Linked, Service, States, Points
<1>6. ASSUME state = "RUN", pc \in {"ready", "recv"}, state' = "WAIT",
             pc' = "ready", tv' = 0, echonum' = 0, quiet' = 0,
             seq' \in SeqNums, sent' \in Outputs,
             UNCHANGED <<sock, fds, echo, tries, nap, wifinum, wlans, air,
                         reboot, joined>>
      PROVE  IInv'
  <2>1. TypeOK'
    BY <1>6 DEF TypeOK, States, Points
  <2>2. EchoBudget' /\ OneSocket' /\ ServiceOnAir' /\ Linked'
    BY <1>6, SizeAssumption
       DEF EchoBudget, OneSocket, ServiceOnAir, Linked, Service
  <2>3. tries' = 0
    BY <1>6 DEF Linked
  <2>4. quiet' <= tries' * WaitTime /\ quiet' <= WaitTries * WaitTime + WaitPause
    BY <1>4, <1>6, <2>3, Zenon
  <2>5. ContactBound'
    BY <1>6, <2>4 DEF ContactBound
  <2>6. Timed'
    BY <1>6, <2>3, <2>4, TriesAssumption DEF Timed, RunTimed, RetryTimed
  <2> QED
    BY <2>1, <2>2, <2>5, <2>6
<1>7. CASE RunError
  BY <1>6, <1>7 DEF RunError, Goto, wifiVars, TypeOK
<1>8. CASE RunTimeout
  <2>1. /\ state = "RUN" /\ pc = "recv" /\ tv = 0
        /\ UNCHANGED <<sock, fds, echo, tries, nap, wifinum, wlans, air,
                       reboot, joined>>
    BY <1>8 DEF RunTimeout, TimedOut, wifiVars
  <2>2. CASE Goto("WAIT") /\ echonum' = 0 /\ quiet' = 0 /\ sent' = <<>>
               /\ UNCHANGED seq
    BY <1>6, <2>1, <2>2 DEF Goto, TypeOK
  <2>3. ASSUME SendRequest("ECHO_REQ", FALSE), Goto("WAIT"), echonum' = 0,
               quiet' = 0
        PROVE  IInv'
    <3>1. seq' \in SeqNums /\ sent' \in Outputs
      BY <2>3, Numbered DEF ReqCodes
    <3> QED
      BY <1>6, <2>1, <2>3, <3>1 DEF Goto
  <2>4. ASSUME ~LostContact, SendRequest("ECHO_REQ", TRUE), Goto("RUN"),
               echonum' = echonum + 1, UNCHANGED quiet
        PROVE  IInv'
    <3>1. seq' \in SeqNums /\ sent' \in Outputs
      BY <2>4, Numbered DEF ReqCodes
    <3>2. TypeOK'
      BY <1>1, <2>1, <2>4, <3>1 DEF TypeOK, States, Points, Goto
    <3>3. EchoBudget'
      BY <1>1, <2>1, <2>4, SizeAssumption DEF EchoBudget, LostContact, Goto
    <3>4. OneSocket' /\ ServiceOnAir' /\ ContactBound' /\ Linked'
      BY <2>1, <2>4
         DEF OneSocket, ServiceOnAir, ContactBound, Linked, Service, Goto
    <3>5. /\ quiet <= (echonum + 1) * echo
          /\ (echonum + 1) * echo <= quiet + echo
      BY <1>1, <1>2, <2>1 DEF Timed, RunTimed
    <3>6. quiet' <= echonum' * echo' /\ echonum' * echo' <= quiet' + echo'
      BY <2>1, <2>4, <3>5, Zenon
    <3>7. Timed'
      BY <2>4, <3>6 DEF Timed, RunTimed, RetryTimed, Goto
    <3> QED
      BY <3>2, <3>3, <3>4, <3>7
  <2> QED
    BY <1>8, <2>2, <2>3, <2>4 DEF RunTimeout
<1>9. ASSUME NEW m \in Msg, RunRecv(m) PROVE IInv'
  <2>1. /\ state = "RUN" /\ pc = "recv" /\ tv' = tv
        /\ UNCHANGED <<state, sock, fds, echo, tries, wifinum, wlans, air,
                       reboot, joined>>
    BY <1>9 DEF RunRecv, Receiving, TimeLeft, wifiVars
  <2>2. /\ seq' \in SeqNums /\ sent' \in Outputs
        /\ pc' \in {"recv", "sleep"} /\ nap' \in Nat
    <3>1. CASE sent' = <<>> /\ UNCHANGED <<seq, pc, nap>>
      BY <2>1, <3>1 DEF TypeOK
    <3>2. CASE HandleRebootReq
      <4>1. ASSUME NEW ok \in BOOLEAN, SendRequest("REBOOT_REP", ok)
            PROVE  seq' \in SeqNums /\ sent' \in Outputs
        BY <4>1, Numbered DEF ReqCodes
      <4>2. pc' \in {"recv", "sleep"} /\ nap' \in Nat
        BY <2>1, <3>2, PauseAssumption DEF HandleRebootReq, Sleep, TypeOK
      <4> QED
        BY <3>2, <4>1, <4>2 DEF HandleRebootReq
    <3> QED
      BY <1>9, <3>1, <3>2 DEF RunRecv
  <2>3. CASE UNCHANGED <<echonum, quiet>>
    <3>1. TypeOK'
      BY <2>1, <2>2, <2>3 DEF TypeOK, Points
    <3>2. /\ EchoBudget' /\ OneSocket' /\ ServiceOnAir' /\ ContactBound'
          /\ Linked' /\ Timed'
      BY <2>1, <2>2, <2>3 DEF EchoBudget, OneSocket, ServiceOnAir, ContactBound,
         Linked, Timed, RunTimed, RetryTimed, Service
    <3> QED
      BY <3>1, <3>2
  <2>4. CASE echonum' = 0 /\ quiet' = 0
    <3>1. TypeOK'
      BY <2>1, <2>2, <2>4 DEF TypeOK, Points
    <3>2. EchoBudget' /\ OneSocket' /\ ServiceOnAir' /\ Linked'
      BY <2>1, <2>2, <2>4, SizeAssumption
         DEF EchoBudget, OneSocket, ServiceOnAir, Linked, Service
    <3>3. ContactBound'
      BY <1>3, <2>1, <2>2, <2>4 DEF ContactBound
    <3>4. tv <= echo /\ 0 + tv <= (0 + 1) * echo /\ 0 * echo <= 0 + tv
      BY <1>1, <2>1 DEF Timed, RunTimed
    <3>5. /\ quiet' + tv' <= (echonum' + 1) * echo'
          /\ echonum' * echo' <= quiet' + tv' /\ tv' <= echo'
      BY <2>1, <2>4, <3>4, Zenon
    <3>6. Timed'
      BY <2>1, <2>2, <3>5 DEF Timed, RunTimed, RetryTimed
    <3> QED
      BY <3>1, <3>2, <3>3, <3>6
  <2> QED
    BY <1>9, <2>3, <2>4 DEF RunRecv, HandleEchoRep
<1>10. CASE RunReboot
  <2>1. /\ state = "RUN" /\ pc = "sleep" /\ pc' = "recv" /\ sent' = <<>>
        /\ UNCHANGED <<state, sock, fds, seq, echo, echonum, tries, nap, tv,
                       wifinum, wlans, air, joined, quiet>>
    BY <1>10 DEF RunReboot, Woken, sessionVars, wifiVars, history
  <2>2. reboot' \in {"no", "sulk", "run", "wait", "recov"}
    BY <1>10, Asked DEF RunReboot
  <2>3. TypeOK'
    BY <2>1, <2>2 DEF TypeOK, Points
  <2>4. /\ EchoBudget' /\ OneSocket' /\ ServiceOnAir' /\ ContactBound'
        /\ Linked' /\ Timed'
    BY <2>1 DEF EchoBudget, OneSocket, ServiceOnAir, ContactBound, Linked,
       Timed, RunTimed, RetryTimed, Service
  <2> QED
    BY <2>3, <2>4
<1> QED
  BY <1>5, <1>7, <1>8, <1>9, <1>10

(* WAIT and RECOV are one loop: its counter and the time left bound how    *)
(* long it goes on, and it leaves with the counter cleared.                *)
LEMMA RetryIInv ==
  ASSUME IInv,
         NEW st, NEW code \in ReqCodes, NEW rep, NEW next, NEW max \in Nat,
         NEW time \in Nat, NEW pause \in Nat, NEW why \in {"wait", "recov"},
         \/ /\ st = "WAIT" /\ next = "RECOV"
            /\ max = WaitTries /\ time = WaitTime /\ pause = WaitPause
         \/ /\ st = "RECOV" /\ next = "RUN"
            /\ max = RecovTries /\ time = RecovTime /\ pause = RecovPause,
         \/ RetrySend(st, code, max, time)
         \/ \E m \in Msg : RetryRecv(st, rep, next, m)
         \/ state = st /\ pc = "recv" /\ RetryAgain(st)
         \/ RetryGiveUp(st, max, pause)
         \/ RetryReboot(st, why)
  PROVE  IInv'
<1> USE NoOutput DEF IInv
<1>1. /\ tries \in Nat /\ quiet \in Nat /\ tv \in Nat /\ echo \in Nat
      /\ echonum \in Nat
  BY DEF TypeOK
<1>2. tries * time \in Nat /\ (tries + 1) * time = tries * time + time
  BY <1>1, Products
<1>3. /\ state = st /\ state \in {"WAIT", "RECOV"} /\ echonum = 0
      /\ pc \in {"ready", "recv", "sleep"}
  BY DEF RetrySend, RetryRecv, RetryGiveUp, RetryReboot, Ready, Receiving,
     Woken, EchoBudget
<1>4. RetryTimed(st, max, time, pause)
  BY DEF Timed
<1>5. ASSUME state' = st, RetryTimed(st, max, time, pause)', ContactBound',
             pc' \in {"ready", "recv", "sleep"}, tv' \in Nat, nap' \in Nat,
             tries' \in Nat, quiet' \in Nat, seq' \in SeqNums, sent' \in Outputs,
             reboot' \in {"no", "sulk", "run", "wait", "recov"},
             UNCHANGED <<sock, fds, echo, echonum, wifinum, wlans, air, joined>>
      PROVE  IInv'
  <2>1. TypeOK'
    BY <1>3, <1>5 DEF TypeOK, States, Points
  <2>2. EchoBudget' /\ OneSocket' /\ ServiceOnAir' /\ Linked'
    BY <1>3, <1>5 DEF EchoBudget, OneSocket, ServiceOnAir, Linked, Service
  <2>3. Timed'
    BY <1>3, <1>5 DEF Timed, RunTimed, RetryTimed
  <2> QED
    BY <1>5, <2>1, <2>2, <2>3
<1>6. CASE RetrySend(st, code, max, time)
  <2>1. /\ state = st /\ pc = "ready" /\ tries < max /\ pc' = "recv"
        /\ tv' = time
        /\ UNCHANGED <<state, sock, fds, echo, echonum, tries, nap, wifinum, wlans,
                       air, reboot, joined, quiet>>
    BY <1>6 DEF RetrySend, Ready, WaitFor, sessionVars, wifiVars, history
  <2>2. seq' \in SeqNums /\ sent' \in Outputs
    BY <1>6, Numbered DEF RetrySend
  <2>3. quiet + time <= (tries + 1) * time
    BY <1>1, <1>2, <1>4, <2>1 DEF RetryTimed
  <2>4. RetryTimed(st, max, time, pause)'
    BY <2>1, <2>3 DEF RetryTimed
  <2>5. ContactBound'
    BY <2>1 DEF ContactBound
  <2> QED
    BY <1>1, <1>3, <1>5, <2>1, <2>2, <2>4, <2>5 DEF TypeOK
<1>7. CASE state = st /\ pc = "recv" /\ RetryAgain(st)
  <2>1. /\ pc' = "ready" /\ tv' = 0 /\ tries' = tries + 1 /\ sent' = <<>>
        /\ UNCHANGED <<state, sock, fds, seq, echo, echonum, nap, wifinum,
                       wlans, air, reboot, joined, quiet>>
    BY <1>7 DEF RetryAgain, Goto, wifiVars, history
  <2>2. tries < max /\ quiet <= (tries + 1) * time
    BY <1>1, <1>2, <1>4, <1>7 DEF RetryTimed
  <2>3. RetryTimed(st, max, time, pause)'
    BY <1>1, <2>1, <2>2 DEF RetryTimed
  <2>4. ContactBound'
    BY <2>1 DEF ContactBound
  <2> QED
    BY <1>1, <1>3, <1>5, <2>1, <2>3, <2>4 DEF TypeOK
<1>8. CASE RetryGiveUp(st, max, pause)
  <2>1. /\ state = st /\ pc = "ready" /\ tries >= max /\ pc' = "sleep"
        /\ nap' = pause /\ sent' = <<>>
        /\ UNCHANGED <<state, sock, fds, seq, echo, echonum, tries, tv,
                       wifinum, wlans, air, reboot, joined, quiet>>
    BY <1>8 DEF RetryGiveUp, Ready, Sleep, wifiVars, history
  <2>2. tries = max /\ quiet <= tries * time
    BY <1>1, <1>4, <2>1 DEF RetryTimed
  <2>3. quiet <= max * time
    BY <2>2, Zenon
  <2>4. quiet' + nap' <= max * time + pause
    <3>1. max * time \in Nat
      BY RetrySpan
    <3> QED
      BY <1>1, <2>1, <2>3, <3>1
  <2>5. RetryTimed(st, max, time, pause)'
    BY <2>1, <2>4 DEF RetryTimed
  <2>6. ContactBound'
    BY <2>1 DEF ContactBound
  <2> QED
    BY <1>1, <1>3, <1>5, <2>1, <2>5, <2>6 DEF TypeOK
<1>9. CASE RetryReboot(st, why)
  <2>1. /\ state = st /\ pc' = "ready" /\ tries' = 0 /\ quiet' = 0
        /\ sent' = <<>>
        /\ UNCHANGED <<state, sock, fds, seq, echo, echonum, tv, nap, wifinum,
                       wlans, air, joined>>
    BY <1>9 DEF RetryReboot, Woken, wifiVars
  <2>2. reboot' \in {"no", "sulk", "run", "wait", "recov"}
    BY <1>9, Asked DEF RetryReboot
  <2>3. 0 <= 0 * time /\ 0 <= max * time + pause
    BY RetrySpan
  <2>4. quiet' <= tries' * time /\ quiet' <= max * time + pause
    BY <2>1, <2>3, Zenon
  <2>5. RetryTimed(st, max, time, pause)'
    BY <2>1, <2>4 DEF RetryTimed
  <2>6. ContactBound'
    BY <1>3, <2>1, <2>4 DEF ContactBound
  <2> QED
    BY <1>3, <1>5, <2>1, <2>2, <2>5, <2>6 DEF TypeOK
<1>10. ASSUME NEW m \in Msg, RetryRecv(st, rep, next, m) PROVE IInv'
  <2>1. /\ state = st /\ pc = "recv" /\ sent' = <<>>
        /\ UNCHANGED <<sock, fds, seq, echo, echonum, nap, wifinum, wlans,
                       air, reboot, joined>>
    BY <1>10 DEF RetryRecv, Receiving, wifiVars
  <2>2. CASE tv' = tv /\ UNCHANGED <<state, pc, tries, quiet>>
    <3>1. RetryTimed(st, max, time, pause)' /\ ContactBound'
      BY <1>4, <2>1, <2>2 DEF RetryTimed, ContactBound
    <3> QED
      BY <1>1, <1>3, <1>5, <2>1, <2>2, <3>1 DEF TypeOK
  <2>3. CASE Goto(next) /\ tries' = 0 /\ quiet' = 0
    <3>1. state' \in {"RECOV", "RUN"} /\ pc' = "ready" /\ tv' = 0
      BY <2>3 DEF Goto
    <3>2. TypeOK'
      BY <2>1, <2>3, <3>1 DEF TypeOK, States, Points
    <3>3. EchoBudget' /\ OneSocket' /\ ServiceOnAir' /\ Linked'
      BY <1>3, <2>1, <2>3, <3>1
         DEF EchoBudget, OneSocket, ServiceOnAir, Linked, Service
    <3>4. /\ 0 <= 0 * RecovTime /\ 0 <= RecovTries * RecovTime + RecovPause
          /\ 0 <= 0 * echo /\ 0 * echo <= 0 + echo
          /\ (EchoMax + 1) * echo \in Nat
      BY <1>1, TimeAssumption, TriesAssumption, PauseAssumption, RetrySpan,
         EchoSpan
    <3>5. /\ quiet' <= tries' * RecovTime
          /\ quiet' <= RecovTries * RecovTime + RecovPause
      BY <2>3, <3>4, Zenon
    <3>6. echonum' * echo' = 0 * echo /\ quiet' = 0
      BY <1>3, <2>1, <2>3
    <3>7. quiet' <= echonum' * echo' /\ echonum' * echo' <= quiet' + echo'
      BY <2>1, <3>4, <3>6, Zenon
    <3>8. ContactBound'
      BY <2>1, <3>1, <3>4, <3>5, <3>6 DEF ContactBound
    <3>9. Timed'
      BY <2>3, <3>1, <3>5, <3>7, TriesAssumption DEF Timed, RunTimed, RetryTimed
    <3> QED
      BY <3>2, <3>3, <3>8, <3>9
  <2> QED
    BY <1>10, <2>2, <2>3 DEF RetryRecv, TimeLeft
<1> QED
  BY <1>6, <1>7, <1>8, <1>9, <1>10

(* The handlers of WAIT and RECOV are instances of that loop.              *)
LEMMA LostIInv ==
  ASSUME IInv,
         \/ WaitSend \/ WaitTimeout \/ WaitError \/ WaitGiveUp \/ WaitReboot
         \/ RecovSend \/ RecovTimeout \/ RecovError \/ RecovGiveUp
         \/ RecovReboot
         \/ \E m \in Msg : WaitRecv(m) \/ RecovRecv(m)
  PROVE  IInv'
<1>1. /\ WaitTries \in Nat /\ WaitTime \in Nat /\ RecovTries \in Nat
      /\ RecovTime \in Nat /\ WaitPause \in Nat /\ RecovPause \in Nat
      /\ "RECONN_REQ" \in ReqCodes /\ "RECOV_REQ" \in ReqCodes
  BY TimeAssumption, TriesAssumption, PauseAssumption DEF ReqCodes
<1>2. CASE \/ WaitSend \/ WaitTimeout \/ WaitError \/ WaitGiveUp \/ WaitReboot
           \/ \E m \in Msg : WaitRecv(m)
  BY <1>1, <1>2, RetryIInv
     DEF WaitSend, WaitTimeout, WaitError, WaitGiveUp, WaitReboot, WaitRecv,
         TimedOut
<1>3. CASE \/ RecovSend \/ RecovTimeout \/ RecovError \/ RecovGiveUp
           \/ RecovReboot
           \/ \E m \in Msg : RecovRecv(m)
  BY <1>1, <1>3, RetryIInv
     DEF RecovSend, RecovTimeout, RecovError, RecovGiveUp, RecovReboot,
         RecovRecv, TimedOut
<1> QED
  BY <1>2, <1>3

(* The clock, SIGINT and the reboot.                                       *)
LEMMA EnvironmentIInv ==
  ASSUME IInv, Tick \/ Interrupt \/ Restart
  PROVE  IInv'
<1> USE NoOutput DEF IInv
<1>1. CASE Tick /\ Waiting
  <2>1. /\ pc = "recv" /\ tv > 0 /\ tv' = tv - 1 /\ sent' = <<>>
        /\ quiet' = IF state \in Service THEN quiet + 1 ELSE quiet
        /\ UNCHANGED <<state, pc, sock, fds, seq, echo, echonum, tries, nap,
                       wifinum, wlans, air, reboot, joined>>
    BY <1>1 DEF Tick, Waiting, Sleeping, wifiVars
  <2>2. /\ tries \in Nat /\ quiet \in Nat /\ tv \in Nat /\ echo \in Nat
        /\ echonum \in Nat /\ tv' \in Nat /\ quiet' \in Nat
    BY <2>1 DEF TypeOK
  <2>3. TypeOK'
    BY <2>1, <2>2 DEF TypeOK
  <2>4. EchoBudget' /\ OneSocket' /\ ServiceOnAir' /\ Linked'
    BY <2>1 DEF EchoBudget, OneSocket, ServiceOnAir, Linked, Service
  <2>5. state \in Service => quiet' + tv' = quiet + tv /\ tv' <= tv
    BY <2>1, <2>2
  <2>6. CASE state = "RUN"
    <3>1. /\ tv <= echo /\ quiet + tv <= (echonum + 1) * echo
          /\ echonum * echo <= quiet + tv
      BY <2>1, <2>6 DEF Timed, RunTimed
    <3>2. (echonum + 1) * echo <= (EchoMax + 1) * echo
      <4>1. /\ echonum + 1 \in Nat /\ EchoMax + 1 \in Nat
            /\ echonum + 1 <= EchoMax + 1
        BY <2>2, SizeAssumption DEF EchoBudget
      <4> QED
        BY <2>2, <4>1, Products
    <3>3. /\ (echonum + 1) * echo \in Nat /\ (EchoMax + 1) * echo \in Nat
          /\ echonum * echo \in Nat
      <4>1. echonum + 1 \in Nat
        BY <2>2
      <4> QED
        BY <2>2, <4>1, Products, EchoSpan, Zenon
    <3>4. quiet' <= (EchoMax + 1) * echo
      BY <2>1, <2>2, <2>6, <3>1, <3>2, <3>3 DEF Service
    <3>5. tv' <= echo
      BY <2>1, <2>2, <3>1
    <3>6. /\ quiet' + tv' <= (echonum + 1) * echo
          /\ echonum * echo <= quiet' + tv'
      BY <2>5, <2>6, <3>1, Zenon DEF Service
    <3>7. ContactBound'
      BY <2>1, <2>6, <3>4 DEF ContactBound
    <3>8. Timed'
      BY <2>1, <2>6, <3>5, <3>6 DEF Timed, RunTimed, RetryTimed
    <3> QED
      BY <2>3, <2>4, <3>7, <3>8
  <2>7. ASSUME NEW st, NEW max \in Nat, NEW time \in Nat, NEW pause \in Nat,
               state = st, state \in Service, RetryTimed(st, max, time, pause)
        PROVE  /\ quiet' <= max * time + pause
               /\ RetryTimed(st, max, time, pause)'
    <3>1. tries < max /\ quiet + tv <= (tries + 1) * time
      BY <2>1, <2>7 DEF RetryTimed
    <3>2. (tries + 1) * time <= max * time
      <4>1. tries + 1 \in Nat /\ tries + 1 <= max
        BY <2>2, <2>7, <3>1
      <4> QED
        BY <2>7, <4>1, Products
    <3>3. (tries + 1) * time \in Nat /\ max * time \in Nat
      BY <2>2, <2>7, Products
    <3>4. quiet' <= max * time + pause
      BY <2>1, <2>2, <2>7, <3>1, <3>2, <3>3
    <3>5. quiet' + tv' <= (tries + 1) * time
      BY <2>5, <2>7, <3>1
    <3> QED
      BY <2>1, <3>1, <3>4, <3>5 DEF RetryTimed
  <2>8. CASE state = "WAIT"
    <3>1. RetryTimed("WAIT", WaitTries, WaitTime, WaitPause)
      BY DEF Timed
    <3>2. /\ quiet' <= WaitTries * WaitTime + WaitPause
          /\ RetryTimed("WAIT", WaitTries, WaitTime, WaitPause)'
      BY <2>7, <2>8, <3>1, TimeAssumption, TriesAssumption, PauseAssumption
         DEF Service
    <3> QED
      BY <2>1, <2>3, <2>4, <2>8, <3>2
         DEF Timed, RunTimed, RetryTimed, ContactBound
  <2>9. CASE state = "RECOV"
    <3>1. RetryTimed("RECOV", RecovTries, RecovTime, RecovPause)
      BY DEF Timed
    <3>2. /\ quiet' <= RecovTries * RecovTime + RecovPause
          /\ RetryTimed("RECOV", RecovTries, RecovTime, RecovPause)'
      BY <2>7, <2>9, <3>1, TimeAssumption, TriesAssumption, PauseAssumption
         DEF Service
    <3> QED
      BY <2>1, <2>3, <2>4, <2>9, <3>2
         DEF Timed, RunTimed, RetryTimed, ContactBound
  <2>10. CASE state \notin Service
    BY <2>1, <2>3, <2>4, <2>10
       DEF Timed, RunTimed, RetryTimed, ContactBound, Service
  <2> QED
    BY <2>6, <2>8, <2>9, <2>10 DEF Service
<1>2. CASE Tick /\ Sleeping
  <2>1. /\ pc = "sleep" /\ nap > 0 /\ nap' = nap - 1 /\ sent' = <<>>
        /\ quiet' = IF state = "RUN" THEN quiet ELSE quiet + 1
        /\ UNCHANGED <<state, pc, tv, sock, fds, seq, echo, echonum, tries,
                       wifinum, wlans, air, reboot, joined>>
    BY <1>2 DEF Tick, Waiting, Sleeping, wifiVars
  <2>2. /\ quiet \in Nat /\ nap \in Nat /\ nap' \in Nat /\ quiet' \in Nat
        /\ state \in Service
    BY <2>1 DEF TypeOK, Linked
  <2>3. TypeOK'
    BY <2>1, <2>2 DEF TypeOK
  <2>4. EchoBudget' /\ OneSocket' /\ ServiceOnAir' /\ Linked'
    BY <2>1, <2>2 DEF EchoBudget, OneSocket, ServiceOnAir, Linked, Service
  <2>5. CASE state = "RUN"
    BY <2>1, <2>3, <2>4, <2>5 DEF Timed, RunTimed, RetryTimed, ContactBound
  <2>6. ASSUME state # "RUN", NEW b \in Nat, quiet + nap <= b
        PROVE  quiet' + nap' <= b /\ quiet' <= b
    BY <2>1, <2>2, <2>6
  <2>7. CASE state = "WAIT"
    <3>1. quiet + nap <= WaitTries * WaitTime + WaitPause
      BY <2>1, <2>7 DEF Timed, RetryTimed
    <3>2. WaitTries * WaitTime + WaitPause \in Nat
      BY TimeAssumption, TriesAssumption, PauseAssumption, RetrySpan
    <3>3. /\ quiet' + nap' <= WaitTries * WaitTime + WaitPause
          /\ quiet' <= WaitTries * WaitTime + WaitPause
      BY <2>6, <2>7, <3>1, <3>2
    <3> QED
      BY <2>1, <2>3, <2>4, <2>7, <3>3
         DEF Timed, RunTimed, RetryTimed, ContactBound
  <2>8. CASE state = "RECOV"
    <3>1. quiet + nap <= RecovTries * RecovTime + RecovPause
      BY <2>1, <2>8 DEF Timed, RetryTimed
    <3>2. RecovTries * RecovTime + RecovPause \in Nat
      BY TimeAssumption, TriesAssumption, PauseAssumption, RetrySpan
    <3>3. /\ quiet' + nap' <= RecovTries * RecovTime + RecovPause
          /\ quiet' <= RecovTries * RecovTime + RecovPause
      BY <2>6, <2>8, <3>1, <3>2
    <3> QED
      BY <2>1, <2>3, <2>4, <2>8, <3>3
         DEF Timed, RunTimed, RetryTimed, ContactBound
  <2> QED
    BY <2>2, <2>5, <2>7, <2>8 DEF Service
<1>3. CASE Interrupt
  <2>1. PICK stopped \in SUBSET wlans : air' = air \ stopped
    BY <1>3 DEF Interrupt, CloseWiFi
  <2>2. /\ pc \notin {"undef", "exit"} /\ pc' = "exit"
        /\ sock' = "none" /\ fds' = 0 /\ sent' = <<>>
        /\ UNCHANGED <<state, seq, echo, echonum, tries, nap, tv, wifinum,
                       wlans, reboot, joined, quiet>>
    BY <1>3 DEF Interrupt, CloseWiFi, OldClosed, OneSocket, sessionVars, history
  <2>3. TypeOK'
    BY <2>1, <2>2 DEF TypeOK, Points
  <2>4. EchoBudget' /\ OneSocket' /\ ServiceOnAir' /\ Linked'
    BY <2>1, <2>2 DEF EchoBudget, OneSocket, ServiceOnAir, Linked
  <2>5. ContactBound' /\ Timed'
    BY <2>2 DEF ContactBound, Timed, RunTimed, RetryTimed
  <2> QED
    BY <2>3, <2>4, <2>5
<1>4. CASE Restart
  <2>1. TypeOK'
    BY <1>4, SeqAssumption DEF Restart, TypeOK, States, Points, SeqNums
  <2>2. EchoBudget' /\ OneSocket' /\ ServiceOnAir' /\ Linked'
    BY <1>4, SizeAssumption
       DEF Restart, EchoBudget, OneSocket, ServiceOnAir, Linked, Service
  <2>3. ContactBound' /\ Timed'
    BY <1>4 DEF Restart, ContactBound, Timed, RunTimed, RetryTimed
  <2> QED
    BY <2>1, <2>2, <2>3
<1> QED
  BY <1>1, <1>2, <1>3, <1>4 DEF Tick

LEMMA NextIInv == IInv /\ [Next]_vars => IInv'
<1> SUFFICES ASSUME IInv, [Next]_vars PROVE IInv'
  OBVIOUS
<1>1. CASE Proceed
  BY <1>1, SearchIInv, JoinIInv, RunIInv, LostIInv, EnvironmentIInv
     DEF Proceed
<1>2. ASSUME NEW m \in Msg, Receive(m) PROVE IInv'
  BY <1>2, SearchIInv, JoinIInv, RunIInv, LostIInv DEF Receive
<1>3. CASE SelectFails
  BY <1>3, SearchIInv, RunIInv, LostIInv DEF SelectFails
<1>4. CASE Interrupt \/ Restart
  BY <1>4, EnvironmentIInv
<1>5. CASE UNCHANGED vars
  BY <1>5, StutterIInv
<1> QED
  BY <1>1, <1>2, <1>3, <1>4, <1>5 DEF Next

(* The inductive invariant holds in every reachable state.                 *)
THEOREM InvariantTheorem == Spec => []IInv
  BY InitIInv, NextIInv, PTL DEF Spec

-----------------------------------------------------------------------------
(* The theorems                                                            *)

(* Every variable keeps its type: in particular the sequence number stays  *)
(* one of 16 bits and the number of sockets is never negative.             *)
THEOREM TypeTheorem == Spec => []TypeOK
<1>1. IInv => TypeOK
  BY DEF IInv
<1> QED
  BY <1>1, InvariantTheorem, PTL

(* S_echonum stays within WTP_ECHO_MAX and is zero outside RUN (run.c).    *)
THEOREM EchoBudgetTheorem == Spec => []EchoBudget
<1>1. IInv => EchoBudget
  BY DEF IInv
<1> QED
  BY <1>1, InvariantTheorem, PTL

(* The process never holds a socket but the one in G_wmpsock, and every    *)
(* handler after JOIN has one (dscv.c, join.c).                            *)
THEOREM OneSocketTheorem == Spec => []OneSocket
<1>1. IInv => OneSocket
  BY DEF IInv
<1> QED
  BY <1>1, InvariantTheorem, PTL

(* What is on the air can be stopped from the table, and once joined all   *)
(* of the table is on the air (wifi.c).                                    *)
THEOREM ServiceOnAirTheorem == Spec => []ServiceOnAir
<1>1. IInv => ServiceOnAir
  BY DEF IInv
<1> QED
  BY <1>1, InvariantTheorem, PTL

(* Silence in RUN, WAIT and RECOV is bounded whatever arrives (run.c,      *)
(* wait.c, recov.c).                                                       *)
THEOREM ContactBoundTheorem == Spec => []ContactBound
<1>1. IInv => ContactBound
  BY DEF IInv
<1> QED
  BY <1>1, InvariantTheorem, PTL

(* The count of unanswered ECHO-REQs never gives up the AC too early       *)
(* (run.c).                                                                *)
THEOREM NoHastyLossTheorem == Spec => []NoHastyLoss
<1>1. IInv => NoHastyLoss
  <2> SUFFICES ASSUME IInv, state = "RUN", pc = "recv", tv = 0, LostContact
               PROVE  quiet >= EchoMax * echo
    BY DEF NoHastyLoss
  <2>1. echonum = EchoMax
    BY DEF LostContact
  <2>2. echonum * echo <= quiet + tv /\ quiet + tv = quiet
    BY DEF IInv, TypeOK, Timed, RunTimed
  <2> QED
    BY <2>1, <2>2
<1> QED
  BY <1>1, InvariantTheorem, PTL
=============================================================================
