-------------------------------- MODULE Wtp --------------------------------
(***************************************************************************)
(* The wireless termination point (AP) of NSWMP: the loop of main() over   *)
(* the states INIT, DSCV, SULK, JOIN, RUN, WAIT and RECOV, with everything *)
(* each handler changes: its socket, the 16-bit sequence number, the ECHO  *)
(* counter, the remaining select() time, the table of WiFi interfaces, the *)
(* interfaces hostapd has on the air, and the reboot command.              *)
(*                                                                         *)
(* The environment is arbitrary: whenever the AP waits for a datagram it   *)
(* may receive any element of Msg, from the AC or from another peer.  One  *)
(* step is the code between two points where a handler blocks.             *)
(***************************************************************************)
EXTENDS Integers, Sequences, FiniteSets

CONSTANTS
  Peers,          \* the addresses a datagram may come from
  AC,             \* G_wmpaddr, the address of the access controller
  SeqMod,         \* sequence numbers are 0..SeqMod-1 (65536 in the code)
  Wlans,          \* the wlanindex values a WIFICFG attribute may carry
  EchoTimes,      \* the values an ECHO attribute may carry
  Bodies,         \* the payloads a datagram may carry, sequences of Attr
  NWifi,          \* the size of the table wifi[] (8 in the code)
  EchoMax,        \* WTP_ECHO_MAX (1 in the code)
  DscvTime,       \* how long each handler waits, in ticks
  JoinTime,
  SulkTime,
  WaitTime,
  RecovTime,
  WaitTries,      \* RECONN-REQs before giving up (60 in the code)
  RecovTries,     \* RECOV-REQs before giving up (2 in the code)
  RunPause,       \* the sleep() in front of each reboot command, in ticks:
  WaitPause,      \* of wmpRunHandleACMsg (2 s in the code), wmpWait (5 s)
  RecovPause,     \* and wmpRecov (10 s)
  RebootResults   \* whether the reboot command may succeed, fail, or both

States == {"INIT", "DSCV", "SULK", "JOIN", "RUN", "WAIT", "RECOV"}
Service == {"RUN", "WAIT", "RECOV"}
SeqNums == 0 .. SeqMod - 1

ResultOK == 0
ResultFailed == 1

(* A payload as the attribute loop sees it, one element per turn:          *)
(*   RESCODE, ECHO, WIFICFG   an attribute its parser accepts, val is what *)
(*           it carries (the wlanindex of a WIFICFG);                      *)
(*   empty   a RESCODE of length 0, which wmmParseResCode accepts without  *)
(*           assigning the result code;                                    *)
(*   skip    an attribute of another type, or four bytes whose length      *)
(*           field runs past the datagram: the loop goes on behind them;   *)
(*   bad     an attribute whose parser or handler reports an error;        *)
(*   stub    one to three bytes left at the end of the datagram.           *)
Attr == [type : {"RESCODE"}, val : {ResultOK, ResultFailed}]
          \cup [type : {"ECHO"}, val : EchoTimes]
          \cup [type : {"WIFICFG"}, val : Wlans]
          \cup [type : {"empty", "skip", "bad", "stub"}, val : {0}]

Codes == {"DSCV_REP", "JOIN_REP", "ECHO_REP", "REBOOT_REQ", "RECONN_REP",
          "RECOV_REP", "unknown"}

(* What recvfrom returns; head is FALSE when it fails, when the datagram   *)
(* is empty and when wmmPrepRecvd refuses it.                              *)
Msg == [from : Peers, head : BOOLEAN, code : Codes, seq : SeqNums,
        body : Bodies]

ReqCodes == {"DSCV_REQ", "JOIN_REQ", "ECHO_REQ", "REBOOT_REP", "RECONN_REQ",
             "RECOV_REQ"}
Request(c, s) == [code |-> c, seq |-> s]
Requests == [code : ReqCodes, seq : SeqNums]
Outputs == {<<>>} \cup {<<r>> : r \in Requests}

ASSUME PeerAssumption == AC \in Peers
ASSUME SeqAssumption == SeqMod \in Nat /\ SeqMod >= 2
ASSUME WlanAssumption == Wlans \subseteq Nat /\ IsFiniteSet(Wlans)
ASSUME EchoAssumption == EchoTimes \subseteq Nat
ASSUME BodyAssumption == \A b \in Bodies : b \in Seq(Attr)
ASSUME SizeAssumption == NWifi \in Nat /\ EchoMax \in Nat
ASSUME TimeAssumption ==
  /\ DscvTime \in Nat /\ JoinTime \in Nat /\ SulkTime \in Nat
  /\ WaitTime \in Nat /\ RecovTime \in Nat
ASSUME PauseAssumption ==
  RunPause \in Nat /\ WaitPause \in Nat /\ RecovPause \in Nat
ASSUME TriesAssumption == WaitTries \in Nat /\ RecovTries \in Nat
ASSUME RebootAssumption == RebootResults \subseteq BOOLEAN

VARIABLES
  state,    \* S_state
  pc,       \* where the process is: see Points
  sock,     \* G_wmpsock: no socket, the one of wmpDscv or the one of wmpJoin
  fds,      \* the number of sockets the process holds open
  seq,      \* seq_num, the last sequence number handed out
  echo,     \* S_echo
  echonum,  \* S_echonum
  tries,    \* the loop counter i of wmpWait and wmpRecov
  tv,       \* what is left of the time the process waits for a datagram
  nap,      \* what is left of the sleep() the process is in
  wifinum,  \* S_WiFi_num
  wlans,    \* the wlanindexes in wifi[0 .. S_WiFi_num-1]
  air,      \* the interfaces hostapd was told to serve
  reboot,   \* the handler whose reboot command was accepted, or "no"
  sent,     \* the datagrams (at most one) handed to sendto by the last step
  joined,   \* history: who sent the JOIN-REP that started the service
  quiet     \* history: ticks waited in select() since RUN was entered or heard
            \* an ECHO-REP, and all ticks since WAIT or RECOV was entered

sessionVars == <<echo, echonum, tries, nap>>
wifiVars == <<wifinum, wlans, air>>
history == <<joined, quiet>>
vars == <<state, pc, sock, fds, seq, echo, echonum, tries, tv, nap, wifinum,
          wlans, air, reboot, sent, joined, quiet>>

(* ready  about to run the code of the handler of state, up to where it    *)
(*        blocks;  recv  blocked in select or recvfrom;  sleep  in the     *)
(* sleep() in front of a reboot command;  hung  in the loop of             *)
(* joinParseRep for ever;  undef  after an access the C standard leaves    *)
(* undefined, or the abort a checked build turns it into;  exit  ended.    *)
Points == {"ready", "recv", "sleep", "hung", "undef", "exit"}
Stopped == pc \in {"hung", "undef", "exit"}

TypeOK ==
  /\ state \in States
  /\ pc \in Points
  /\ sock \in {"none", "dscv", "join"}
  /\ fds \in Nat
  /\ seq \in SeqNums
  /\ echo \in Nat
  /\ echonum \in Nat
  /\ tries \in Nat
  /\ tv \in Nat
  /\ nap \in Nat
  /\ wifinum \in Nat
  /\ wlans \subseteq Wlans
  /\ air \subseteq Wlans
  /\ reboot \in {"no", "sulk", "run", "wait", "recov"}
  /\ sent \in Outputs
  /\ joined \in Peers \cup {"nobody"}
  /\ quiet \in Nat

(* A process start: the statics of the program and nothing on the air.     *)
Init ==
  /\ state = "INIT" /\ pc = "ready"
  /\ sock = "none" /\ fds = 0
  /\ seq = SeqMod - 1
  /\ echo = 0 /\ echonum = 0 /\ tries = 0 /\ tv = 0 /\ nap = 0
  /\ wifinum = 0 /\ wlans = {} /\ air = {}
  /\ reboot = "no" /\ sent = <<>> /\ joined = "nobody" /\ quiet = 0

-----------------------------------------------------------------------------
(* Helpers                                                                 *)

(* wtpInfoGetSEQNUM: after the largest number, any number at all.          *)
NextSeqs_NoWrap(s) == {s + 1}
NextSeqs(s) == IF s = SeqMod - 1 THEN SeqNums ELSE {s + 1}

SendRequest_OldNumber(c, ok) ==
  /\ seq' \in NextSeqs(seq)
  /\ sent' = IF ok THEN <<Request(c, seq)>> ELSE <<>>
(* A fresh number is handed out and the datagram built with it is sent, or *)
(* sendto fails.  SendRequest keeps sent' = <<>> when nothing left.        *)
SendRequest(c, ok) ==
  /\ seq' \in NextSeqs(seq)
  /\ sent' = IF ok THEN <<Request(c, seq')>> ELSE <<>>

Goto(st) == state' = st /\ pc' = "ready" /\ tv' = 0

WaitFor(time) == pc' = "recv" /\ tv' = time

(* select() leaves in tv what is left of the time, and a handler that goes *)
(* back to it after a datagram passes tv on: no datagram renews the time.  *)
TimeLeft_Renewed ==
  CASE state = "SULK" -> SulkTime [] state = "RUN" -> echo
    [] state = "WAIT" -> WaitTime [] state = "RECOV" -> RecovTime
TimeLeft == tv

Ready(st) == state = st /\ pc = "ready"

(* Blocked for a datagram with a socket to receive it on.                  *)
Receiving(st) == state = st /\ pc = "recv" /\ sock # "none"

TimedOut(st) == state = st /\ pc = "recv" /\ tv = 0

(* sleep(), in which no datagram is read and the time left stands still.   *)
Sleep(time) == pc' = "sleep" /\ nap' = time
Woken(st) == state = st /\ pc = "sleep" /\ nap = 0

(* utilDoCMD("reboot"): the command only asks for the reboot, the handler  *)
(* goes on until the system goes down.  Its result is ignored.             *)
DoReboot(why) ==
  \E ok \in RebootResults : reboot' = IF ok THEN why ELSE reboot

(* The message of this wait: readable header and the number of the request.*)
Matches(m) == m.head /\ m.seq = seq

(* wmpWaitRecvAC and wmpRecovRcvAC look at the first attribute only; an    *)
(* empty RESCODE leaves their rescode at its initial value 0, the OK code. *)
SaysOK(m) ==
  /\ m.body # <<>>
  /\ \/ m.body[1].type = "RESCODE" /\ m.body[1].val = ResultOK
     \/ m.body[1].type = "empty"

(* The head of wmpDscv and of wmpJoin: the old socket is closed and a new  *)
(* one opened, which may fail.                                             *)
OldClosed_Leaks == fds
OldClosed == IF sock = "none" THEN fds ELSE fds - 1
NewSocket(kind, ok) ==
  /\ sock' = IF ok THEN kind ELSE "none"
  /\ fds' = IF ok THEN OldClosed + 1 ELSE OldClosed

-----------------------------------------------------------------------------
(* INIT                                                                    *)

(* wmpInit: identity, AC address and board name are read, then a random    *)
(* sleep leads to DSCV.                                                    *)
InitDone ==
  /\ Ready("INIT")
  /\ Goto("DSCV")
  /\ sent' = <<>>
  /\ UNCHANGED <<sock, fds, seq, sessionVars, wifiVars, reboot, history>>

(* One of the three cannot be had: exit(1).                                *)
InitFails ==
  /\ Ready("INIT")
  /\ pc' = "exit"
  /\ sent' = <<>>
  /\ UNCHANGED <<state, sock, fds, seq, sessionVars, tv, wifiVars, reboot,
                 history>>

-----------------------------------------------------------------------------
(* DSCV                                                                    *)

DscvSend ==
  /\ Ready("DSCV")
  /\ \/ /\ NewSocket("dscv", FALSE)
        /\ Goto("SULK")
        /\ sent' = <<>> /\ UNCHANGED seq
     \/ /\ NewSocket("dscv", TRUE)
        /\ SendRequest("DSCV_REQ", FALSE)
        /\ Goto("SULK")
     \/ /\ NewSocket("dscv", TRUE)
        /\ SendRequest("DSCV_REQ", TRUE)
        /\ WaitFor(DscvTime) /\ UNCHANGED state
  /\ UNCHANGED <<sessionVars, wifiVars, reboot, history>>

(* One datagram decides.                                                   *)
DscvRecv(m) ==
  /\ Receiving("DSCV")
  /\ Goto(IF m.from = AC /\ Matches(m) /\ m.code = "DSCV_REP"
          THEN "JOIN" ELSE "SULK")
  /\ sent' = <<>>
  /\ UNCHANGED <<sock, fds, seq, sessionVars, wifiVars, reboot, history>>

DscvTimeout ==
  /\ TimedOut("DSCV")
  /\ Goto("SULK")
  /\ sent' = <<>>
  /\ UNCHANGED <<sock, fds, seq, sessionVars, wifiVars, reboot, history>>

-----------------------------------------------------------------------------
(* SULK                                                                    *)

(* wmpSulk waits out its time.  Without a socket FD_SET(-1) is undefined:  *)
(* it sets a bit select() never looks at, or the build aborts on it.       *)
SulkStart ==
  /\ Ready("SULK")
  /\ \/ WaitFor(SulkTime)
     \/ sock = "none" /\ pc' = "undef" /\ UNCHANGED tv
  /\ sent' = <<>>
  /\ UNCHANGED <<state, sock, fds, seq, sessionVars, wifiVars, reboot, history>>

(* What arrives is read and thrown away.                                   *)
SulkRecv(m) ==
  /\ Receiving("SULK")
  /\ tv' = TimeLeft
  /\ sent' = <<>>
  /\ UNCHANGED <<state, pc, sock, fds, seq, sessionVars, wifiVars, reboot,
                 history>>

SulkTimeout ==
  /\ TimedOut("SULK")
  /\ Goto("DSCV")
  /\ sent' = <<>>
  /\ UNCHANGED <<sock, fds, seq, sessionVars, wifiVars, reboot, history>>

SulkError ==
  /\ state = "SULK" /\ pc = "recv"
  /\ DoReboot("sulk")
  /\ Goto("SULK")
  /\ sent' = <<>>
  /\ UNCHANGED <<sock, fds, seq, sessionVars, wifiVars, history>>

-----------------------------------------------------------------------------
(* JOIN                                                                    *)

JoinSend ==
  /\ Ready("JOIN")
  /\ \/ /\ NewSocket("join", FALSE)
        /\ Goto("SULK")
        /\ sent' = <<>> /\ UNCHANGED seq
     \/ /\ NewSocket("join", TRUE)
        /\ SendRequest("JOIN_REQ", FALSE)
        /\ Goto("SULK")
     \/ /\ NewSocket("join", TRUE)
        /\ SendRequest("JOIN_REQ", TRUE)
        /\ WaitFor(JoinTime) /\ UNCHANGED state
  /\ UNCHANGED <<sessionVars, wifiVars, reboot, history>>

JoinTimeout ==
  /\ TimedOut("JOIN")
  /\ Goto("SULK")
  /\ sent' = <<>>
  /\ UNCHANGED <<sock, fds, seq, sessionVars, wifiVars, reboot, history>>

(* A datagram that is not a JOIN-REP to this request.  A wrong source only *)
(* assigns the state SULK, the function goes on; a wrong code leaves the   *)
(* state as it is, so that main() calls wmpJoin again.                     *)
JoinRecvOther(m) ==
  /\ Receiving("JOIN")
  /\ \/ ~Matches(m) /\ Goto("SULK")
     \/ /\ Matches(m) /\ m.code # "JOIN_REP"
        /\ Goto(IF m.from = AC THEN "JOIN" ELSE "SULK")
  /\ sent' = <<>>
  /\ UNCHANGED <<sock, fds, seq, sessionVars, wifiVars, reboot, history>>

(* joinParseRep handles the elements of b before n.  It stops at n: n is   *)
(* behind the last element, or it is the first the loop cannot pass, or it *)
(* is a WIFICFG whose configuration file could not be written.             *)
StopsAt(b, n) ==
  /\ \A i \in 1 .. n - 1 : b[i].type \notin {"bad", "stub"}
  /\ n <= Len(b) => b[n].type \in {"bad", "stub", "WIFICFG"}

Configs(b, n) == {i \in 1 .. n - 1 : b[i].type = "WIFICFG"}

(* v is the value the last attribute of type t before n left in a variable *)
(* that was zero at first.                                                 *)
Parsed(b, n, t, v) ==
  LET at == {i \in 1 .. n - 1 : b[i].type = t}
  IN  \/ at = {} /\ v = 0
      \/ \E i \in at : (\A k \in at : k <= i) /\ v = b[i].val

Configure_Afresh(b, n) ==
  /\ wifinum' = Cardinality(Configs(b, n))
  /\ wlans' = {b[i].val : i \in Configs(b, n)}

(* wtpWiFiWirteFile appends every interface it writes a file for, whatever *)
(* becomes of the reply it came in.                                        *)
Configure(b, n) ==
  /\ wifinum' = wifinum + Cardinality(Configs(b, n))
  /\ wlans' = wlans \cup {b[i].val : i \in Configs(b, n)}

(* wtpWiFiOpen starts hostapd for the whole table, up to the first start   *)
(* that fails.                                                             *)
OpensAll == air' = air \cup wlans'
OpensSome ==
  wlans' # {} /\ \E started \in SUBSET wlans' : air' = air \cup started

JoinHandle_IgnoresOpen(m, n) ==
  /\ Parsed(m.body, n, "ECHO", echo')
  /\ OpensAll \/ OpensSome
  /\ Goto("RUN")
  /\ joined' = m.from
  /\ UNCHANGED quiet

(* joinHandleRep: S_echo is set, then the interfaces are opened.           *)
JoinHandle(m, n) ==
  /\ Parsed(m.body, n, "ECHO", echo')
  /\ \/ /\ OpensAll
        /\ Goto("RUN")
        /\ joined' = m.from
     \/ /\ OpensSome
        /\ Goto("SULK")
        /\ UNCHANGED joined
  /\ UNCHANGED quiet

(* The reply to the request.  A table that spills over its NWifi places is *)
(* written out of bounds: nothing is known of the program from there on.   *)
JoinRecvRep(m) ==
  /\ Receiving("JOIN")
  /\ Matches(m) /\ m.code = "JOIN_REP"
  /\ \E n \in 1 .. Len(m.body) + 1 :
       /\ StopsAt(m.body, n)
       /\ Configure(m.body, n)
       /\ \/ /\ wifinum' > NWifi
             /\ pc' = "undef"
             /\ UNCHANGED <<state, echo, tv, air, history>>
          \/ /\ wifinum' <= NWifi
             /\ n <= Len(m.body)
             /\ IF m.body[n].type = "stub"
                THEN pc' = "hung" /\ UNCHANGED <<state, tv>>
                ELSE Goto("SULK")
             /\ UNCHANGED <<echo, air, history>>
          \/ /\ wifinum' <= NWifi
             /\ n = Len(m.body) + 1
             /\ Parsed(m.body, n, "RESCODE", ResultFailed)
             /\ Goto("SULK")
             /\ UNCHANGED <<echo, air, history>>
          \/ /\ wifinum' <= NWifi
             /\ n = Len(m.body) + 1
             /\ Parsed(m.body, n, "RESCODE", ResultOK)
             /\ JoinHandle(m, n)
  /\ sent' = <<>>
  /\ UNCHANGED <<sock, fds, seq, echonum, tries, nap, reboot>>

-----------------------------------------------------------------------------
(* RUN                                                                     *)

RunStart ==
  /\ Ready("RUN")
  /\ WaitFor(echo)
  /\ sent' = <<>>
  /\ UNCHANGED <<state, sock, fds, seq, sessionVars, wifiVars, reboot, history>>

(* wmmEchoRep *)
HandleEchoRep_KeepsCount == quiet' = 0 /\ UNCHANGED echonum
HandleEchoRep == quiet' = 0 /\ echonum' = 0

(* wmmRebootReq and, when its answer left, the sleep before the reboot.    *)
HandleRebootReq ==
  \/ SendRequest("REBOOT_REP", TRUE) /\ Sleep(RunPause)
  \/ SendRequest("REBOOT_REP", FALSE) /\ UNCHANGED <<pc, nap>>

(* wmpRunHandleACMsg, which looks neither at the source nor at the number. *)
RunRecv(m) ==
  /\ Receiving("RUN")
  /\ \/ /\ m.head /\ m.code = "ECHO_REP"
        /\ HandleEchoRep
        /\ sent' = <<>> /\ UNCHANGED <<seq, pc, nap>>
     \/ /\ m.head /\ m.code = "REBOOT_REQ"
        /\ HandleRebootReq
        /\ UNCHANGED <<echonum, quiet>>
     \/ /\ m.head => m.code \notin {"ECHO_REP", "REBOOT_REQ"}
        /\ sent' = <<>>
        /\ UNCHANGED <<seq, echonum, pc, nap, quiet>>
  /\ tv' = TimeLeft
  /\ UNCHANGED <<state, sock, fds, echo, tries, wifiVars, reboot, joined>>

(* The reboot command of wmpRunHandleACMsg; wmpRun waits on.               *)
RunReboot ==
  /\ Woken("RUN")
  /\ DoReboot("run")
  /\ pc' = "recv"
  /\ sent' = <<>>
  /\ UNCHANGED <<state, sock, fds, seq, sessionVars, tv, wifiVars, history>>

(* EchoMax ECHO-REQs were left unanswered.                                 *)
LostContact_OffByOne == echonum > EchoMax
LostContact == echonum = EchoMax

RunTimeout_Stays ==
  /\ TimedOut("RUN")
  /\ \/ /\ LostContact
        /\ sent' = <<>> /\ UNCHANGED <<seq, echonum>>
     \/ /\ ~LostContact
        /\ SendRequest("ECHO_REQ", TRUE)
        /\ echonum' = echonum + 1
  /\ Goto("RUN")
  /\ UNCHANGED <<sock, fds, echo, tries, nap, wifiVars, reboot, history>>

(* The ECHO time is over: contact is lost, or one more ECHO-REQ is sent.   *)
RunTimeout ==
  /\ TimedOut("RUN")
  /\ \/ /\ LostContact
        /\ Goto("WAIT")
        /\ echonum' = 0 /\ quiet' = 0
        /\ sent' = <<>> /\ UNCHANGED seq
     \/ /\ ~LostContact
        /\ SendRequest("ECHO_REQ", TRUE)
        /\ Goto("RUN")
        /\ echonum' = echonum + 1 /\ UNCHANGED quiet
     \/ /\ ~LostContact
        /\ SendRequest("ECHO_REQ", FALSE)
        /\ Goto("WAIT")
        /\ echonum' = 0 /\ quiet' = 0
  /\ UNCHANGED <<sock, fds, echo, tries, nap, wifiVars, reboot, joined>>

RunError_KeepsCount ==
  /\ state = "RUN" /\ pc = "recv"
  /\ Goto("WAIT")
  /\ sent' = <<>> /\ quiet' = 0
  /\ UNCHANGED <<sock, fds, seq, sessionVars, wifiVars, reboot, joined>>

(* select() fails: the contact counts as lost at once.                     *)
RunError ==
  /\ state = "RUN" /\ pc = "recv"
  /\ Goto("WAIT")
  /\ echonum' = 0 /\ quiet' = 0
  /\ sent' = <<>>
  /\ UNCHANGED <<sock, fds, seq, echo, tries, nap, wifiVars, reboot, joined>>

-----------------------------------------------------------------------------
(* WAIT and RECOV: the same loop with other messages, times and counts     *)

(* The next request of the loop goes out; whether sendto took it or not,   *)
(* the handler waits for an answer.                                        *)
RetrySend(st, code, max, time) ==
  /\ Ready(st) /\ tries < max
  /\ \E ok \in BOOLEAN : SendRequest(code, ok)
  /\ WaitFor(time)
  /\ UNCHANGED <<state, sock, fds, sessionVars, wifiVars, reboot, history>>

(* The reply that ends the loop; anything else is read and forgotten.      *)
RetryRecv(st, code, next, m) ==
  /\ Receiving(st)
  /\ \/ /\ m.head /\ m.code = code /\ m.from = AC /\ SaysOK(m)
        /\ Goto(next)
        /\ tries' = 0 /\ quiet' = 0
     \/ /\ ~(m.head /\ m.code = code /\ m.from = AC /\ SaysOK(m))
        /\ tv' = TimeLeft
        /\ UNCHANGED <<state, pc, tries, quiet>>
  /\ sent' = <<>>
  /\ UNCHANGED <<sock, fds, seq, echo, echonum, nap, wifiVars, reboot, joined>>

RetryAgain_NoCount(st) ==
  /\ Goto(st)
  /\ sent' = <<>>
  /\ UNCHANGED <<sock, fds, seq, sessionVars, wifiVars, reboot, history>>

(* No answer in time, or select() fails: on to the next request.           *)
RetryAgain(st) ==
  /\ Goto(st)
  /\ tries' = tries + 1
  /\ sent' = <<>>
  /\ UNCHANGED <<sock, fds, seq, echo, echonum, nap, wifiVars, reboot, history>>

(* All requests were in vain: the handler sleeps.                          *)
RetryGiveUp(st, max, pause) ==
  /\ Ready(st) /\ tries >= max
  /\ Sleep(pause)
  /\ sent' = <<>>
  /\ UNCHANGED <<state, sock, fds, seq, echo, echonum, tries, tv, wifiVars,
                 reboot, history>>

(* Then it asks for the reboot, and as the state is left alone main()      *)
(* enters the same handler again until the system ends.                    *)
RetryReboot(st, why) ==
  /\ Woken(st)
  /\ DoReboot(why)
  /\ pc' = "ready" /\ tries' = 0 /\ quiet' = 0
  /\ sent' = <<>>
  /\ UNCHANGED <<state, sock, fds, seq, echo, echonum, tv, nap, wifiVars,
                 joined>>

WaitSend == RetrySend("WAIT", "RECONN_REQ", WaitTries, WaitTime)
WaitRecv_SkipsRecov(m) == RetryRecv("WAIT", "RECONN_REP", "RUN", m)
WaitRecv(m) == RetryRecv("WAIT", "RECONN_REP", "RECOV", m)
WaitTimeout == TimedOut("WAIT") /\ RetryAgain("WAIT")
WaitError == state = "WAIT" /\ pc = "recv" /\ RetryAgain("WAIT")
WaitGiveUp == RetryGiveUp("WAIT", WaitTries, WaitPause)
WaitReboot == RetryReboot("WAIT", "wait")

RecovSend == RetrySend("RECOV", "RECOV_REQ", RecovTries, RecovTime)
RecovRecv(m) == RetryRecv("RECOV", "RECOV_REP", "RUN", m)
RecovTimeout == TimedOut("RECOV") /\ RetryAgain("RECOV")
RecovError == state = "RECOV" /\ pc = "recv" /\ RetryAgain("RECOV")
RecovGiveUp == RetryGiveUp("RECOV", RecovTries, RecovPause)
RecovReboot == RetryReboot("RECOV", "recov")

-----------------------------------------------------------------------------
(* Time, signals and the system                                            *)

(* The process is blocked and nothing but time can change that by itself.  *)
Waiting == pc = "recv" /\ tv > 0
Sleeping == pc = "sleep" /\ nap > 0

(* A tick of the clock while the process is blocked.                       *)
Tick ==
  /\ \/ /\ Waiting
        /\ tv' = tv - 1 /\ UNCHANGED nap
        /\ quiet' = IF state \in Service THEN quiet + 1 ELSE quiet
     \/ /\ Sleeping
        /\ nap' = nap - 1 /\ UNCHANGED tv
        /\ quiet' = IF state = "RUN" THEN quiet ELSE quiet + 1
  /\ sent' = <<>>
  /\ UNCHANGED <<state, pc, sock, fds, seq, echo, echonum, tries, wifiVars,
                 reboot, joined>>

(* wtpWiFiClose stops hostapd for the table, up to the first stop that     *)
(* fails.                                                                  *)
CloseWiFi == \E stopped \in SUBSET wlans : air' = air \ stopped

(* SIGINT: exitSignalHandle takes the interfaces off the air, closes the   *)
(* socket and exits.                                                       *)
Interrupt ==
  /\ pc \notin {"undef", "exit"}
  /\ CloseWiFi
  /\ pc' = "exit"
  /\ sock' = "none" /\ fds' = OldClosed
  /\ sent' = <<>>
  /\ UNCHANGED <<state, seq, sessionVars, tv, wifinum, wlans, reboot, history>>

(* The reboot that was asked for takes place; the program starts afresh.   *)
Restart ==
  /\ reboot # "no"
  /\ state' = "INIT" /\ pc' = "ready"
  /\ sock' = "none" /\ fds' = 0
  /\ seq' = SeqMod - 1
  /\ echo' = 0 /\ echonum' = 0 /\ tries' = 0 /\ tv' = 0 /\ nap' = 0
  /\ wifinum' = 0 /\ wlans' = {} /\ air' = {}
  /\ reboot' = "no" /\ sent' = <<>> /\ joined' = "nobody" /\ quiet' = 0

-----------------------------------------------------------------------------

Receive(m) ==
  \/ DscvRecv(m) \/ SulkRecv(m) \/ JoinRecvOther(m) \/ JoinRecvRep(m)
  \/ RunRecv(m) \/ WaitRecv(m) \/ RecovRecv(m)

(* What the process does by itself, without a datagram and without a fault *)
(* of select().                                                            *)
Proceed ==
  \/ InitDone \/ InitFails
  \/ DscvSend \/ DscvTimeout
  \/ SulkStart \/ SulkTimeout
  \/ JoinSend \/ JoinTimeout
  \/ RunStart \/ RunTimeout \/ RunReboot
  \/ WaitSend \/ WaitTimeout \/ WaitGiveUp \/ WaitReboot
  \/ RecovSend \/ RecovTimeout \/ RecovGiveUp \/ RecovReboot
  \/ Tick

SelectFails == SulkError \/ RunError \/ WaitError \/ RecovError

Next ==
  \/ Proceed
  \/ \E m \in Msg : Receive(m)
  \/ SelectFails
  \/ Interrupt
  \/ Restart

Spec == Init /\ [][Next]_vars

(* The process is scheduled, the clock runs and a reboot asked for comes.  *)
Fairness == WF_vars(Proceed) /\ WF_vars(Restart)
FairSpec == Spec /\ Fairness
-----------------------------------------------------------------------------
(* Safety                                                                  *)

(* S_echonum outlives every visit of wmpRun: it never passes the number    *)
(* the handler compares it with by ==, and every way out of RUN clears it, *)
(* so that no session starts with the misses of the one before.            *)
EchoBudget ==
  /\ echonum <= EchoMax
  /\ state # "RUN" => echonum = 0

(* However often discovery and join are repeated, and whichever step of    *)
(* them fails, the process holds open the one socket G_wmpsock names; and  *)
(* the handlers after JOIN, which open none, find the one of wmpJoin.      *)
OneSocket ==
  /\ fds = IF sock = "none" THEN 0 ELSE 1
  /\ state \in Service /\ pc # "exit" => sock = "join"

(* An interface on the air is in the table, the only place from which the  *)
(* program can stop it when it exits; and once joined the AP serves every  *)
(* interface of the table, those of replies it refused included.           *)
ServiceOnAir ==
  /\ pc # "undef" => air \subseteq wlans
  /\ state \in Service /\ pc # "exit" => air = wlans

(* When the count alone makes the AP give up the AC, it has not heard an   *)
(* ECHO-REP for EchoMax whole ECHO times, the pauses before reboots not    *)
(* counted: datagrams that arrive while it waits shorten none of them.     *)
NoHastyLoss ==
  (state = "RUN" /\ pc = "recv" /\ tv = 0 /\ LostContact)
    => quiet >= EchoMax * echo

(* Without an ECHO-REP the AP waits in RUN for no more than EchoMax + 1    *)
(* ECHO times, whatever other datagrams keep arriving; the pause that each *)
(* REBOOT-REQ costs comes on top, as the time left stands still meanwhile. *)
(* Without the right reply a call of wmpWait or wmpRecov comes to its      *)
(* reboot command within its tries and the pause in front of the command.  *)
ContactBound ==
  /\ state = "RUN" => quiet <= (EchoMax + 1) * echo
  /\ state = "WAIT" => quiet <= WaitTries * WaitTime + WaitPause
  /\ state = "RECOV" => quiet <= RecovTries * RecovTime + RecovPause

(* The phase of the session a program state stands for.                    *)
Phase ==
  CASE Stopped -> "stopped"
    [] ~Stopped /\ state \in {"INIT", "DSCV", "SULK", "JOIN"} -> "joining"
    [] ~Stopped /\ state = "RUN" -> "serving"
    [] ~Stopped /\ state = "WAIT" -> "lost"
    [] ~Stopped /\ state = "RECOV" -> "resuming"

Session == INSTANCE WtpSession WITH
             Interfaces <- Wlans, MaxMissed <- EchoMax,
             phase <- Phase, missed <- echonum, on <- air,
             asked <- reboot # "no"

(* Every step of the AP is a step of the session or invisible to it: the   *)
(* interfaces stay on the air while the controller is lost and recovered,  *)
(* a lost session goes through RECOV, and only a reboot leads to a new one.*)
KeepsSession == Session!Spec

RadioPhase ==
  CASE pc = "exit" -> "down"
    [] pc # "exit" /\ state \in Service -> "serving"
    [] pc # "exit" /\ state \notin Service -> "joining"

Radio == INSTANCE WtpRadio WITH
           Interfaces <- Wlans, phase <- RadioPhase, table <- wlans, told <- air

(* The table and the interfaces follow the plan that the commands of       *)
(* wifi.c, one by one, follow too.                                         *)
KeepsRadio == Radio!Spec

(* What the code says of itself and does not keep.                         *)

(* join.c calls a reply from an address other than the AC's an error and   *)
(* sets the state SULK: the service should rest on a reply of the AC.      *)
JoinFromAC == state \in Service => joined = AC

(* wifi.c declares NWifi places for the interfaces it is told to configure.*)
WifiTableFits == wifinum <= NWifi

(* wait.c: a reply within the 60 tries leads to RECOV, "otherwise" the AP  *)
(* reboots: having asked for that reboot it should not go back to service. *)
GivesUpForGood == state \in {"RECOV", "RUN"} => reboot # "wait"

-----------------------------------------------------------------------------
(* Liveness                                                                *)

(* Outstanding ECHO-REQs are answered or end the session, though other     *)
(* datagrams never stop arriving; only REBOOT-REQs without end, of which   *)
(* each stops the time, and reboots that never come could prevent it.      *)
EchoResolves ==
  <>[][~RunReboot]_vars =>
    ((state = "RUN" /\ echonum = EchoMax) ~> (echonum = 0 \/ Stopped))

(* An AP that lost the AC serves it again or starts afresh, or it has made *)
(* all requests of the handler it is in and tries to reboot.               *)
LostResolves ==
  (state \in {"WAIT", "RECOV"}) ~>
    \/ state \in {"RUN", "INIT"} \/ Stopped
    \/ state = "WAIT" /\ tries = WaitTries
    \/ state = "RECOV" /\ tries = RecovTries

(* The silence of SULK ends in a new discovery, however noisy the network  *)
(* and whatever became of the reboot, unless select() never stops failing. *)
SulkEnds ==
  <>[][~SulkError]_vars =>
    ((state = "SULK") ~> (state \in {"DSCV", "INIT"} \/ Stopped))
=============================================================================
