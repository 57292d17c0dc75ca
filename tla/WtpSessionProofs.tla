------------------------- MODULE WtpSessionProofs -------------------------
(***************************************************************************)
(* Wtp implements WtpSession, for every value of its constants: Phase,     *)
(* echonum, air and reboot # "no" form a refinement mapping.               *)
(***************************************************************************)
EXTENDS WtpProofs

(* The four cases of the mapping, before and after a step.                 *)
LEMMA PhaseCases ==
  /\ Stopped => Phase = "stopped"
  /\ ~Stopped /\ state \in {"INIT", "DSCV", "SULK", "JOIN"} => Phase = "joining"
  /\ ~Stopped /\ state = "RUN" => Phase = "serving"
  /\ ~Stopped /\ state = "WAIT" => Phase = "lost"
  /\ ~Stopped /\ state = "RECOV" => Phase = "resuming"
  BY DEF Phase

LEMMA PhaseCasesNext ==
  /\ Stopped' => Phase' = "stopped"
  /\ ~Stopped' /\ state' \in {"INIT", "DSCV", "SULK", "JOIN"}
       => Phase' = "joining"
  /\ ~Stopped' /\ state' = "RUN" => Phase' = "serving"
  /\ ~Stopped' /\ state' = "WAIT" => Phase' = "lost"
  /\ ~Stopped' /\ state' = "RECOV" => Phase' = "resuming"
  BY DEF Phase, Stopped

(* A step that leaves phase, count, interfaces and reboot alone, asks for  *)
(* a reboot, or stops the process is one of the session.                   *)
LEMMA CommonSteps ==
  ASSUME TypeOK,
         \/ UNCHANGED <<Phase, echonum, air, reboot>>
         \/ ~Stopped /\ Phase' = Phase /\ UNCHANGED <<echonum, air>>
              /\ reboot' # "no"
         \/ Stopped' /\ air' \subseteq air /\ UNCHANGED <<echonum, reboot>>
  PROVE  [Session!Next]_(Session!vars)
<1>1. CASE UNCHANGED <<Phase, echonum, air, reboot>>
  BY <1>1 DEF Session!vars
<1>2. CASE ~Stopped /\ Phase' = Phase /\ UNCHANGED <<echonum, air>>
             /\ reboot' # "no"
  <2>1. Phase # "stopped"
    BY <1>2, PhaseCases DEF TypeOK, States
  <2> QED
    BY <1>2, <2>1 DEF Session!Next, Session!AskReboot
<1>3. CASE Stopped' /\ air' \subseteq air /\ UNCHANGED <<echonum, reboot>>
  BY <1>3, PhaseCasesNext DEF Session!Next, Session!Stop
<1> QED
  BY <1>1, <1>2, <1>3

(* INIT, DSCV and SULK stay in joining, stop or ask for a reboot.          *)
LEMMA SearchSteps ==
  ASSUME IInv,
         \/ InitDone \/ InitFails \/ DscvSend \/ DscvTimeout
         \/ SulkStart \/ SulkTimeout \/ SulkError
         \/ \E m \in Msg : DscvRecv(m) \/ SulkRecv(m)
  PROVE  [Session!Next]_(Session!vars)
<1>1. TypeOK
  BY DEF IInv
<1>2. ~Stopped /\ state \in {"INIT", "DSCV", "SULK"} /\ UNCHANGED <<echonum, air>>
  BY DEF InitDone, InitFails, DscvSend, DscvTimeout, DscvRecv, SulkStart,
     SulkTimeout, SulkError, SulkRecv, Ready, Receiving, TimedOut, Stopped,
     sessionVars, wifiVars
<1>3. Phase = "joining"
  BY <1>2, PhaseCases
<1>4. CASE InitDone \/ DscvSend \/ DscvTimeout \/ SulkTimeout
             \/ \E m \in Msg : DscvRecv(m) \/ SulkRecv(m)
  <2>1. /\ state' \in {"DSCV", "SULK", "JOIN"} /\ pc' \in {"ready", "recv"}
        /\ UNCHANGED reboot
    BY <1>4 DEF InitDone, DscvSend, DscvTimeout, DscvRecv, SulkTimeout,
       SulkRecv, Receiving, Goto, WaitFor, NewSocket, SendRequest, Ready
  <2> QED
    BY <1>1, <1>2, <1>3, <2>1, PhaseCasesNext, CommonSteps DEF Stopped
<1>5. CASE InitFails
  BY <1>1, <1>2, <1>5, CommonSteps DEF InitFails, Stopped
<1>6. CASE SulkStart
  <2>1. state' = "SULK" /\ pc' \in {"recv", "undef"} /\ UNCHANGED reboot
    BY <1>6 DEF SulkStart, Ready, WaitFor
  <2> QED
    BY <1>1, <1>2, <1>3, <2>1, PhaseCasesNext, CommonSteps DEF Stopped
<1>7. CASE SulkError
  <2>1. /\ state' = "SULK" /\ pc' = "ready"
        /\ reboot' = "sulk" \/ UNCHANGED reboot
    BY <1>7 DEF SulkError, Goto, DoReboot
  <2> QED
    BY <1>1, <1>2, <1>3, <2>1, PhaseCasesNext, CommonSteps DEF Stopped
<1> QED
  BY <1>4, <1>5, <1>6, <1>7

(* JOIN stays in joining, perhaps with more on the air, stops or serves.   *)
LEMMA JoinSteps ==
  ASSUME IInv, IInv',
         \/ JoinSend \/ JoinTimeout
         \/ \E m \in Msg : JoinRecvOther(m) \/ JoinRecvRep(m)
  PROVE  [Session!Next]_(Session!vars)
<1>1. TypeOK /\ TypeOK'
  BY DEF IInv
<1>2. /\ ~Stopped /\ state = "JOIN" /\ UNCHANGED <<echonum, reboot>>
  BY DEF JoinSend, JoinTimeout, JoinRecvOther, JoinRecvRep, Ready, Receiving,
     TimedOut, Stopped, sessionVars
<1>3. Phase = "joining"
  BY <1>2, PhaseCases
<1>4. CASE \/ JoinSend \/ JoinTimeout
           \/ \E m \in Msg : JoinRecvOther(m)
  <2>1. /\ state' \in {"JOIN", "SULK"} /\ pc' \in {"ready", "recv"}
        /\ UNCHANGED air
    BY <1>4 DEF JoinSend, JoinTimeout, JoinRecvOther, Goto, WaitFor, Ready,
       Receiving, NewSocket, SendRequest, wifiVars
  <2> QED
    BY <1>1, <1>2, <1>3, <2>1, PhaseCasesNext, CommonSteps DEF Stopped
<1>5. ASSUME NEW m \in Msg, JoinRecvRep(m)
      PROVE  [Session!Next]_(Session!vars)
  <2>1. PICK n \in 1 .. Len(m.body) + 1 :
          \/ pc' = "undef" /\ UNCHANGED air
          \/ pc' = "hung" /\ UNCHANGED air
          \/ Goto("SULK") /\ UNCHANGED air
          \/ JoinHandle(m, n)
    BY <1>5 DEF JoinRecvRep
  <2>2. CASE pc' \in {"undef", "hung"} /\ UNCHANGED air
    BY <1>1, <1>2, <2>2, CommonSteps DEF Stopped
  <2>3. CASE Goto("SULK") /\ air \subseteq air'
    <3>1. Phase' = "joining"
      BY <2>3, PhaseCasesNext DEF Goto, Stopped
    <3>2. Session!TryJoin
      BY <1>1, <1>2, <1>3, <2>3, <3>1 DEF Session!TryJoin, Session!Grow, TypeOK
    <3> QED
      BY <3>2 DEF Session!Next
  <2>4. CASE Goto("RUN") /\ air \subseteq air'
    <3>1. Phase' = "serving"
      BY <2>4, PhaseCasesNext DEF Goto, Stopped
    <3>2. Session!Serve
      BY <1>1, <1>2, <1>3, <2>4, <3>1 DEF Session!Serve, Session!Grow, TypeOK
    <3> QED
      BY <3>2 DEF Session!Next
  <2>5. CASE JoinHandle(m, n)
    <3>1. \/ Goto("RUN") /\ air \subseteq air'
          \/ Goto("SULK") /\ air \subseteq air'
      BY <2>5 DEF OpensAll, OpensSome, JoinHandle
    <3> QED
      BY <2>3, <2>4, <3>1
  <2> QED
    BY <2>1, <2>2, <2>3, <2>5
<1> QED
  BY <1>4, <1>5

(* RUN misses, hears, loses or is asked to reboot.                         *)
LEMMA RunSteps ==
  ASSUME IInv,
         \/ RunStart \/ RunTimeout \/ RunReboot \/ RunError
         \/ \E m \in Msg : RunRecv(m)
  PROVE  [Session!Next]_(Session!vars)
<1>1. TypeOK
  BY DEF IInv
<1>2. ~Stopped /\ state = "RUN" /\ UNCHANGED air
  BY DEF RunStart, RunTimeout, RunReboot, RunError, RunRecv, Ready, Receiving,
     TimedOut, Woken, Stopped, wifiVars
<1>3. Phase = "serving"
  BY <1>2, PhaseCases
<1>4. CASE RunStart
  <2>1. /\ state' = "RUN" /\ pc' = "recv" /\ UNCHANGED <<echonum, reboot>>
    BY <1>4 DEF RunStart, Ready, WaitFor, sessionVars
  <2> QED
    BY <1>1, <1>2, <1>3, <2>1, PhaseCasesNext, CommonSteps DEF Stopped
<1>5. CASE Goto("WAIT") /\ echonum' = 0 /\ UNCHANGED reboot
  <2>1. Phase' = "lost"
    BY <1>5, PhaseCasesNext DEF Goto, Stopped
  <2> QED
    BY <1>2, <1>3, <1>5, <2>1 DEF Session!Next, Session!Lose
<1>6. CASE RunError
  BY <1>5, <1>6 DEF RunError
<1>7. CASE RunTimeout
  <2>1. CASE ~LostContact /\ Goto("RUN") /\ echonum' = echonum + 1
               /\ UNCHANGED reboot
    <3>1. Phase' = "serving"
      BY <2>1, PhaseCasesNext DEF Goto, Stopped
    <3>2. echonum < EchoMax
      BY <2>1, SizeAssumption DEF IInv, EchoBudget, TypeOK, LostContact
    <3> QED
      BY <1>2, <1>3, <2>1, <3>1, <3>2 DEF Session!Next, Session!Miss
  <2> QED
    BY <1>5, <1>7, <2>1 DEF RunTimeout
<1>8. ASSUME NEW m \in Msg, RunRecv(m)
      PROVE  [Session!Next]_(Session!vars)
  <2>1. state' = "RUN" /\ pc' \in {"recv", "sleep"} /\ UNCHANGED reboot
    BY <1>8 DEF RunRecv, HandleRebootReq, Sleep, Receiving
  <2>2. Phase' = "serving"
    BY <2>1, PhaseCasesNext DEF Stopped
  <2>3. CASE echonum' = 0
    BY <1>2, <1>3, <2>1, <2>2, <2>3 DEF Session!Next, Session!Hear
  <2>4. CASE UNCHANGED echonum
    BY <1>1, <1>2, <1>3, <2>1, <2>2, <2>4, CommonSteps
  <2> QED
    BY <1>8, <2>3, <2>4 DEF RunRecv, HandleEchoRep
<1>9. CASE RunReboot
  <2>1. /\ state' = "RUN" /\ pc' = "recv" /\ UNCHANGED echonum
        /\ reboot' = "run" \/ UNCHANGED reboot
    BY <1>9 DEF RunReboot, Woken, DoReboot, sessionVars
  <2> QED
    BY <1>1, <1>2, <1>3, <2>1, PhaseCasesNext, CommonSteps DEF Stopped
<1> QED
  BY <1>4, <1>6, <1>7, <1>8, <1>9

(* The loop of WAIT and RECOV goes on, asks for a reboot or gets through.  *)
LEMMA RetrySteps ==
  ASSUME IInv,
         NEW st, NEW code, NEW rep, NEW next, NEW max, NEW time, NEW pause,
         NEW why \in {"wait", "recov"},
         \/ st = "WAIT" /\ next = "RECOV"
         \/ st = "RECOV" /\ next = "RUN",
         \/ RetrySend(st, code, max, time)
         \/ \E m \in Msg : RetryRecv(st, rep, next, m)
         \/ state = st /\ pc = "recv" /\ RetryAgain(st)
         \/ RetryGiveUp(st, max, pause)
         \/ RetryReboot(st, why)
  PROVE  [Session!Next]_(Session!vars)
<1>1. TypeOK
  BY DEF IInv
<1>2. /\ ~Stopped /\ state = st /\ state \in {"WAIT", "RECOV"}
      /\ UNCHANGED <<echonum, air>>
  BY DEF RetrySend, RetryRecv, RetryGiveUp, RetryReboot, RetryAgain, Ready,
     Receiving, Woken, Stopped, sessionVars, wifiVars
<1>3. CASE state' = st /\ pc' \in {"ready", "recv", "sleep"}
             /\ (UNCHANGED reboot \/ reboot' = why)
  <2>1. Phase' = Phase
    BY <1>2, <1>3, PhaseCases, PhaseCasesNext DEF Stopped
  <2> QED
    BY <1>1, <1>2, <1>3, <2>1, CommonSteps
<1>4. CASE RetrySend(st, code, max, time)
  BY <1>3, <1>4 DEF RetrySend, Ready, WaitFor
<1>5. CASE state = st /\ pc = "recv" /\ RetryAgain(st)
  BY <1>3, <1>5 DEF RetryAgain, Goto
<1>6. CASE RetryGiveUp(st, max, pause) \/ RetryReboot(st, why)
  BY <1>3, <1>6 DEF RetryGiveUp, RetryReboot, Ready, Woken, Sleep, DoReboot
<1>7. ASSUME NEW m \in Msg, RetryRecv(st, rep, next, m)
      PROVE  [Session!Next]_(Session!vars)
  <2>1. CASE UNCHANGED <<state, pc>>
    BY <1>2, <1>3, <1>7, <2>1 DEF RetryRecv, Receiving
  <2>2. CASE Goto(next) /\ st = "WAIT" /\ UNCHANGED reboot
    <3>1. Phase = "lost" /\ Phase' = "resuming"
      BY <1>2, <2>2, PhaseCases, PhaseCasesNext DEF Goto, Stopped
    <3> QED
      BY <1>2, <2>2, <3>1 DEF Session!Next, Session!Reconnect
  <2>3. CASE Goto(next) /\ st = "RECOV" /\ UNCHANGED reboot
    <3>1. Phase = "resuming" /\ Phase' = "serving"
      BY <1>2, <2>3, PhaseCases, PhaseCasesNext DEF Goto, Stopped
    <3> QED
      BY <1>2, <2>3, <3>1 DEF Session!Next, Session!Resume
  <2> QED
    BY <1>7, <2>1, <2>2, <2>3 DEF RetryRecv
<1> QED
  BY <1>4, <1>5, <1>6, <1>7

LEMMA LostSteps ==
  ASSUME IInv,
         \/ WaitSend \/ WaitTimeout \/ WaitError \/ WaitGiveUp \/ WaitReboot
         \/ RecovSend \/ RecovTimeout \/ RecovError \/ RecovGiveUp
         \/ RecovReboot
         \/ \E m \in Msg : WaitRecv(m) \/ RecovRecv(m)
  PROVE  [Session!Next]_(Session!vars)
<1>1. CASE \/ WaitSend \/ WaitTimeout \/ WaitError \/ WaitGiveUp \/ WaitReboot
           \/ \E m \in Msg : WaitRecv(m)
  BY <1>1, RetrySteps
     DEF WaitSend, WaitTimeout, WaitError, WaitGiveUp, WaitReboot, WaitRecv,
         TimedOut
<1>2. CASE \/ RecovSend \/ RecovTimeout \/ RecovError \/ RecovGiveUp
           \/ RecovReboot
           \/ \E m \in Msg : RecovRecv(m)
  BY <1>2, RetrySteps
     DEF RecovSend, RecovTimeout, RecovError, RecovGiveUp, RecovReboot,
         RecovRecv, TimedOut
<1> QED
  BY <1>1, <1>2

(* A tick is invisible, SIGINT stops the session, a reboot begins another. *)
LEMMA EnvironmentSteps ==
  ASSUME IInv, Tick \/ Interrupt \/ Restart
  PROVE  [Session!Next]_(Session!vars)
<1>1. TypeOK
  BY DEF IInv
<1>2. CASE Tick
  <2>1. UNCHANGED <<Phase, echonum, air, reboot>>
    BY <1>2 DEF Tick, Phase, Stopped, sessionVars, wifiVars
  <2> QED
    BY <1>1, <2>1, CommonSteps
<1>3. CASE Interrupt
  BY <1>1, <1>3, CommonSteps DEF Interrupt, CloseWiFi, Stopped, sessionVars
<1>4. CASE Restart
  <2>1. Phase' = "joining"
    BY <1>4, PhaseCasesNext DEF Restart, Stopped
  <2>2. Session!Reboot
    BY <1>4, <2>1 DEF Restart, Session!Reboot
  <2> QED
    BY <2>2 DEF Session!Next
<1> QED
  BY <1>2, <1>3, <1>4

LEMMA NextSteps ==
  IInv /\ IInv' /\ [Next]_vars => [Session!Next]_(Session!vars)
<1> SUFFICES ASSUME IInv, IInv', [Next]_vars
             PROVE  [Session!Next]_(Session!vars)
  OBVIOUS
<1>1. CASE Proceed
  BY <1>1, SearchSteps, JoinSteps, RunSteps, LostSteps, EnvironmentSteps
     DEF Proceed
<1>2. ASSUME NEW m \in Msg, Receive(m) PROVE [Session!Next]_(Session!vars)
  BY <1>2, SearchSteps, JoinSteps, RunSteps, LostSteps DEF Receive
<1>3. CASE SelectFails
  BY <1>3, SearchSteps, RunSteps, LostSteps DEF SelectFails
<1>4. CASE Interrupt \/ Restart
  BY <1>4, EnvironmentSteps
<1>5. CASE UNCHANGED vars
  BY <1>5 DEF vars, Session!vars, Phase, Stopped
<1> QED
  BY <1>1, <1>2, <1>3, <1>4, <1>5 DEF Next

(* The AP keeps the session it promises: interfaces stay up while the AC   *)
(* is lost and recovered, a lost AC is served again only through RECOV,    *)
(* and only a reboot starts over.                                          *)
THEOREM SessionTheorem == Spec => KeepsSession
<1>1. Init => Session!Init
  BY PhaseCases DEF Init, Session!Init, Stopped
<1> QED
  BY <1>1, NextSteps, InvariantTheorem, PTL
     DEF Spec, KeepsSession, Session!Spec

-----------------------------------------------------------------------------
(* The plan of WtpRadio                                                    *)

LEMMA RadioPhases ==
  /\ pc = "exit" => RadioPhase = "down"
  /\ pc # "exit" /\ state \in Service => RadioPhase = "serving"
  /\ pc # "exit" /\ state \notin Service => RadioPhase = "joining"
  BY DEF RadioPhase

LEMMA RadioPhasesNext ==
  /\ pc' = "exit" => RadioPhase' = "down"
  /\ pc' # "exit" /\ state' \in Service => RadioPhase' = "serving"
  /\ pc' # "exit" /\ state' \notin Service => RadioPhase' = "joining"
  BY DEF RadioPhase, Service

(* A step that neither touches the interfaces nor joins, leaves nor ends.  *)
LEMMA RadioStutters ==
  ASSUME UNCHANGED <<wlans, air>>, pc # "exit", pc' # "exit",
         state \in Service <=> state' \in Service
  PROVE  [Radio!Next]_(Radio!vars)
  BY RadioPhases, RadioPhasesNext DEF Radio!vars, Service

(* All the table is opened, or part of it, or what a reply brought joins   *)
(* the table only.                                                         *)
LEMMA RadioJoins ==
  ASSUME IInv, IInv', NEW m \in Msg, JoinRecvRep(m)
  PROVE  [Radio!Next]_(Radio!vars)
<1>1. PICK n \in 1 .. Len(m.body) + 1 :
        /\ Configure(m.body, n)
        /\ \/ pc' = "undef" /\ UNCHANGED <<state, air>>
           \/ pc' = "hung" /\ UNCHANGED <<state, air>>
           \/ Goto("SULK") /\ UNCHANGED air
           \/ JoinHandle(m, n)
  BY DEF JoinRecvRep
<1>2. pc = "recv" /\ state = "JOIN"
  BY DEF JoinRecvRep, Receiving
<1>3. wlans \subseteq wlans' /\ wlans' \subseteq Wlans /\ air \subseteq wlans
  BY <1>1, <1>2 DEF Configure, IInv, TypeOK, ServiceOnAir
<1>4. RadioPhase = "joining"
  BY <1>2, RadioPhases DEF Service
<1>5. CASE pc' # "exit" /\ state' \in {"JOIN", "SULK"} /\ air \subseteq air'
             /\ air' \subseteq wlans'
  <2>1. RadioPhase' = "joining"
    BY <1>5, RadioPhasesNext DEF Service
  <2>2. Radio!Collect
    BY <1>3, <1>4, <1>5, <2>1 DEF Radio!Collect
  <2> QED
    BY <2>2 DEF Radio!Next
<1>6. CASE Goto("RUN") /\ OpensAll
  <2>1. RadioPhase' = "serving"
    BY <1>6, RadioPhasesNext DEF Service, Goto
  <2>2. air' = wlans'
    BY <1>3, <1>6 DEF OpensAll
  <2>3. Radio!Serve
    BY <1>3, <1>4, <2>1, <2>2 DEF Radio!Serve
  <2> QED
    BY <2>3 DEF Radio!Next
<1>7. CASE Goto("SULK") /\ OpensSome
  <2>1. air \subseteq air' /\ air' \subseteq wlans'
    BY <1>3, <1>7 DEF OpensSome
  <2> QED
    BY <1>5, <1>7, <2>1 DEF Goto
<1>8. CASE JoinHandle(m, n)
  BY <1>6, <1>7, <1>8 DEF JoinHandle
<1>9. CASE pc' \in {"undef", "hung"} /\ UNCHANGED <<state, air>>
  BY <1>2, <1>3, <1>5, <1>9
<1>10. CASE Goto("SULK") /\ UNCHANGED air
  BY <1>3, <1>5, <1>10 DEF Goto
<1> QED
  BY <1>1, <1>8, <1>9, <1>10

LEMMA RadioSteps ==
  IInv /\ IInv' /\ [Next]_vars => [Radio!Next]_(Radio!vars)
<1> SUFFICES ASSUME IInv, IInv', [Next]_vars PROVE [Radio!Next]_(Radio!vars)
  OBVIOUS
<1>1. CASE \/ InitDone \/ DscvSend \/ DscvTimeout \/ SulkStart \/ SulkTimeout
           \/ SulkError \/ JoinSend \/ JoinTimeout
           \/ \E m \in Msg : DscvRecv(m) \/ SulkRecv(m) \/ JoinRecvOther(m)
  <2>1. /\ UNCHANGED <<wlans, air>> /\ pc # "exit" /\ pc' # "exit"
        /\ state \notin Service /\ state' \notin Service
    BY <1>1 DEF InitDone, DscvSend, DscvTimeout, SulkStart, SulkTimeout,
       SulkError, JoinSend, JoinTimeout, DscvRecv, SulkRecv, JoinRecvOther,
       Ready, Receiving, TimedOut, Goto, WaitFor, wifiVars, Service
  <2> QED
    BY <2>1, RadioStutters
<1>2. CASE \/ RunStart \/ RunTimeout \/ RunReboot \/ RunError
           \/ \E m \in Msg : RunRecv(m)
  <2>1. /\ UNCHANGED <<wlans, air>> /\ pc # "exit" /\ pc' # "exit"
        /\ state \in Service /\ state' \in Service
    BY <1>2 DEF RunStart, RunTimeout, RunReboot, RunError, RunRecv,
       HandleRebootReq, Ready, Receiving, TimedOut, Woken, Goto, WaitFor, Sleep,
       wifiVars, Service
  <2> QED
    BY <2>1, RadioStutters
<1>3. CASE \/ WaitSend \/ WaitTimeout \/ WaitError \/ WaitGiveUp \/ WaitReboot
           \/ \E m \in Msg : WaitRecv(m)
  <2>1. /\ UNCHANGED <<wlans, air>> /\ pc # "exit" /\ pc' # "exit"
        /\ state \in Service /\ state' \in Service
    BY <1>3 DEF WaitSend, WaitTimeout, WaitError, WaitGiveUp, WaitReboot,
       WaitRecv, RetrySend, RetryRecv, RetryAgain, RetryGiveUp, RetryReboot,
       Ready, Receiving, TimedOut, Woken, Goto, WaitFor, Sleep, wifiVars, Service
  <2> QED
    BY <2>1, RadioStutters
<1>4. CASE \/ RecovSend \/ RecovTimeout \/ RecovError \/ RecovGiveUp
           \/ RecovReboot
           \/ \E m \in Msg : RecovRecv(m)
  <2>1. /\ UNCHANGED <<wlans, air>> /\ pc # "exit" /\ pc' # "exit"
        /\ state \in Service /\ state' \in Service
    BY <1>4 DEF RecovSend, RecovTimeout, RecovError, RecovGiveUp, RecovReboot,
       RecovRecv, RetrySend, RetryRecv, RetryAgain, RetryGiveUp, RetryReboot,
       Ready, Receiving, TimedOut, Woken, Goto, WaitFor, Sleep, wifiVars, Service
  <2> QED
    BY <2>1, RadioStutters
<1>5. ASSUME NEW m \in Msg, JoinRecvRep(m) PROVE [Radio!Next]_(Radio!vars)
  BY <1>5, RadioJoins
<1>6. CASE Tick
  BY <1>6, RadioStutters DEF Tick, Waiting, Sleeping, wifiVars
<1>7. CASE InitFails \/ Interrupt
  <2>1. pc' = "exit" /\ wlans' = wlans /\ air' \subseteq air
    BY <1>7 DEF InitFails, Interrupt, CloseWiFi, wifiVars
  <2>2. Radio!TakeDown
    BY <2>1, RadioPhasesNext DEF Radio!TakeDown
  <2> QED
    BY <2>2 DEF Radio!Next
<1>8. CASE Restart
  <2>1. Radio!Restart
    BY <1>8, RadioPhasesNext DEF Restart, Radio!Restart, Service
  <2> QED
    BY <2>1 DEF Radio!Next
<1>9. CASE UNCHANGED vars
  BY <1>9 DEF vars, Radio!vars, RadioPhase
<1> QED
  BY <1>1, <1>2, <1>3, <1>4, <1>5, <1>6, <1>7, <1>8, <1>9
     DEF Next, Proceed, Receive, SelectFails

(* The handlers of the AP implement the plan that the commands of wifi.c,  *)
(* one by one, implement in WtpWifi: nothing serves that is not in the     *)
(* table, and nothing changes between joining and the end.                 *)
THEOREM RadioTheorem == Spec => KeepsRadio
<1>1. Init => Radio!Init
  BY RadioPhases DEF Init, Radio!Init, Service
<1> QED
  BY <1>1, RadioSteps, InvariantTheorem, PTL
     DEF Spec, KeepsRadio, Radio!Spec
=============================================================================
