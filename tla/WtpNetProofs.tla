---------------------------- MODULE WtpNetProofs ----------------------------
(***************************************************************************)
(* With the controller and the network of WtpNet the AP is still Wtp, and  *)
(* notices a dead controller in time, for all delays, times and counts.    *)
(*                                                                         *)
(* What makes it inductive: a datagram of a controller that is down is at  *)
(* least as old as the time it has been down, but for what it lay in the   *)
(* socket of a sleeping AP (Fresh), so that hearing anything means the     *)
(* controller is down for no more than Delay ticks and what the AP slept;  *)
(* from there on the time it is down and the silence of the AP, or what it *)
(* slept, grow together (CountedRun, CountedRetry).  CountedPause carries  *)
(* the bound over the sleep at the end of wmpWait and wmpRecov.            *)
(*                                                                         *)
(* With a controller that works: what the AP waits for is on its way, with *)
(* time left for the ways it still has to go (InTime).  In DSCV and JOIN   *)
(* nothing else is (Exchange); in RUN anything may be but a REBOOT-REQ     *)
(* (InContact).                                                            *)
(***************************************************************************)
EXTENDS WtpNet, WtpProofs

Fresh == \A p \in wire : p.to = "ap" /\ ~acUp => down <= p.age + slept

Up == acUp => down = 0

CountedRun == state = "RUN" => down <= Delay + slept + quiet

(* How long the AP waits in RUN without an ECHO-REP.                       *)
Patience == (EchoMax + 1) * echo

CountedRetry ==
  ~tried =>
    /\ state = "WAIT" => down <= Delay + Patience + slept + quiet
    /\ state = "RECOV" => down <= Delay + slept + quiet

CountedPause == pc \notin {"ready", "recv"} => DeadAcEscalates

NetInv ==
  /\ IInv /\ NetTypeOK
  /\ Fresh /\ Up
  /\ CountedRun /\ CountedRetry /\ CountedPause

-----------------------------------------------------------------------------
(* Lemmas                                                                  *)

(* Sums of ticks, as the bounds on down need them: what was added stays    *)
(* below, and both sides of a bound grow together.                         *)
LEMMA SumAbove ==
  ASSUME NEW d \in Nat, NEW b \in Nat, NEW s \in Nat, d <= b + s,
         NEW a \in Nat, NEW c \in Nat
  PROVE  /\ d <= b + s + c /\ d <= b + a + s
         /\ d <= b + a + s + c /\ d <= b + a + c + s
  OBVIOUS

LEMMA SumReplaces ==
  ASSUME NEW d \in Nat, NEW b \in Nat, NEW s \in Nat, NEW q \in Nat,
         d <= b + s + q, NEW a \in Nat, q <= a, NEW c \in Nat
  PROVE  d <= b + a + s + c
  OBVIOUS

LEMMA SumGrows ==
  ASSUME NEW d \in Nat, NEW b \in Nat, NEW s \in Nat, NEW q \in Nat
  PROVE  /\ d <= b + s => d + 1 <= b + (s + 1)
         /\ d <= b + s + q => /\ d <= b + s + (q + 1)
                             /\ d + 1 <= b + s + (q + 1)
                             /\ d + 1 <= b + (s + 1) + q
                             /\ d + 1 <= b + (s + 1) + (q + 1)
  OBVIOUS

(* Every datagram that reaches the AP is one Wtp admits: a step of the     *)
(* network is a step of the AP or leaves it alone.                         *)
LEMMA NetStep == NetTypeOK /\ [NetNext]_allVars => [Next]_vars
<1> SUFFICES ASSUME NetTypeOK, [NetNext]_allVars PROVE [Next]_vars
  OBVIOUS
<1>1. CASE ApProceeds
  BY <1>1 DEF ApProceeds, Next
<1>2. CASE ApFails
  BY <1>2 DEF ApFails, Next
<1>3. CASE ApRestarts
  BY <1>3 DEF ApRestarts, Next
<1>4. ASSUME NEW p \in wire, ApReceives(p) PROVE Next
  <2>1. p \in Packets /\ p.to = "ap"
    BY <1>4 DEF NetTypeOK, ApReceives
  <2>2. p.msg \in Msg
    BY <2>1 DEF Packets
  <2> QED
    BY <1>4, <2>2 DEF ApReceives, Next
<1>5. ASSUME NEW p \in wire, AcAnswers(p) PROVE UNCHANGED vars
  BY <1>5 DEF AcAnswers
<1>6. CASE Lose \/ AcAsksReboot \/ AcStops \/ AcStarts \/ BecomesCalm
  BY <1>6 DEF Lose, AcAsksReboot, AcStops, AcStarts, BecomesCalm
<1>7. CASE Clock
  BY <1>7 DEF Clock, Next, Proceed
<1>8. CASE UNCHANGED allVars
  BY <1>8 DEF allVars
<1> QED
  BY <1>1, <1>2, <1>3, <1>4, <1>5, <1>6, <1>7, <1>8 DEF NetNext

(* What the AP sent is a request, and goes to the controller.              *)
LEMMA SentPackets ==
  ASSUME NEW out \in Outputs, NEW q \in Requested(out)
  PROVE  q \in Packets /\ q.to = "ac"
<1>1. PICK r \in Awaiting : q = Packet("ac", r)
  BY DEF Requested
<1>2. 0 \in Ages
  BY DelayAssumption DEF Ages
<1> QED
  BY <1>1, <1>2 DEF Packet, Packets

(* What the controller answers is a datagram for the AP.                   *)
LEMMA AnsweredPackets ==
  ASSUME NEW c \in Codes, NEW n \in SeqNums,
         NEW b \in JoinBodies \cup {<<>>, Answer(ResultOK), Answer(ResultFailed)}
  PROVE  Packet("ap", Reply(c, n, b)) \in Packets
<1>1. b \in Bodies
  BY AnswerAssumption
<1>2. Reply(c, n, b) \in Msg
  BY <1>1, PeerAssumption DEF Reply, Msg
<1>3. 0 \in Ages
  BY DelayAssumption DEF Ages
<1> QED
  BY <1>2, <1>3 DEF Packet, Packets

(* A datagram a tick older is still one that travels, or lies in the       *)
(* socket of an AP that sleeps.                                            *)
LEMMA OlderPackets ==
  ASSUME NEW w, w \subseteq Packets, NEW q \in Older(w)
  PROVE  /\ q \in Packets
         /\ \E p \in w : /\ q.to = p.to /\ q.msg = p.msg /\ p.age \in Nat
                         /\ \/ q.age = p.age + 1
                            \/ q.age = p.age /\ pc = "sleep"
<1>1. CASE q \in Queued(w)
  <2>1. q \in w /\ pc = "sleep"
    BY <1>1 DEF Queued
  <2>2. q \in Packets /\ q.age \in Nat
    BY <2>1, DelayAssumption DEF Packets, Ages
  <2> QED
    BY <2>1, <2>2
<1>2. ASSUME NEW p \in w, p.age < Delay, q = [p EXCEPT !.age = p.age + 1]
      PROVE  /\ q \in Packets
             /\ q.to = p.to /\ q.msg = p.msg /\ q.age = p.age + 1
             /\ p.age \in Nat
  <2>1. p.age \in Nat /\ p.age + 1 \in Ages
    BY <1>2, DelayAssumption DEF Packets, Ages
  <2>2. q.to = p.to /\ q.age = p.age + 1 /\ q.msg = p.msg
    BY <1>2 DEF Packets
  <2>3. CASE p \in [to : {"ac"}, msg : Awaiting, age : Ages]
    BY <1>2, <2>1, <2>2, <2>3 DEF Packets
  <2>4. CASE p \in [to : {"ap"}, msg : Msg, age : Ages]
    BY <1>2, <2>1, <2>2, <2>4 DEF Packets
  <2> QED
    BY <2>1, <2>2, <2>3, <2>4 DEF Packets
<1>3. \/ q \in Queued(w)
      \/ \E p \in w : p.age < Delay /\ q = [p EXCEPT !.age = p.age + 1]
  BY DEF Older
<1> QED
  BY <1>1, <1>2, <1>3, Zenon

(* What joins those on their way, and what stays, travels for Delay ticks. *)
LEMMA PutPackets ==
  ASSUME NEW w, w \subseteq Packets, NEW new, new \subseteq Packets,
         Put(w, new)
  PROVE  wire' \subseteq Packets /\ wire' \subseteq w \cup new
  BY DEF Put

(* Without a datagram and without a tick the silence in RUN, WAIT and      *)
(* RECOV is only ended by leaving or by the reboot command, WAIT is        *)
(* entered from nowhere but RUN, and who stops waiting there stays.        *)
LEMMA SilentStep ==
  ASSUME \/ Proceed /\ ~Waiting /\ ~Sleeping
         \/ SelectFails \/ Interrupt \/ Restart
  PROVE  /\ state' = "RUN" => state = "RUN" /\ UNCHANGED quiet
         /\ state' = "WAIT" =>
              /\ UNCHANGED echo
              /\ \/ state = "RUN" /\ pc' = "ready"
                 \/ state = "WAIT" /\ UNCHANGED quiet
                 \/ WaitReboot
         /\ state' = "RECOV" => \/ state = "RECOV" /\ UNCHANGED quiet
                               \/ RecovReboot
         /\ state' \in {"WAIT", "RECOV"} /\ pc' \notin {"ready", "recv"} =>
              UNCHANGED <<state, echo>>
<1>1. CASE \/ InitDone \/ InitFails \/ DscvSend \/ DscvTimeout
           \/ SulkStart \/ SulkTimeout \/ SulkError
           \/ JoinSend \/ JoinTimeout \/ Restart
  BY <1>1 DEF InitDone, InitFails, DscvSend, DscvTimeout, SulkStart,
     SulkTimeout, SulkError, JoinSend, JoinTimeout, Restart, Ready, TimedOut,
     Goto
<1>2. CASE RunStart \/ RunTimeout \/ RunReboot \/ RunError
  BY <1>2 DEF RunStart, RunTimeout, RunReboot, RunError, Ready, TimedOut, Woken,
     Goto, history
<1>3. CASE WaitSend \/ RecovSend
  BY <1>3 DEF WaitSend, RecovSend, RetrySend, Ready, WaitFor, sessionVars,
     history
<1>4. CASE \/ WaitTimeout \/ WaitError \/ RecovTimeout \/ RecovError
  BY <1>4 DEF WaitTimeout, WaitError, RecovTimeout, RecovError, RetryAgain,
     TimedOut, Goto, history
<1>5. CASE WaitGiveUp \/ RecovGiveUp
  BY <1>5 DEF WaitGiveUp, RecovGiveUp, RetryGiveUp, Ready, history
<1>6. CASE WaitReboot
  BY <1>6 DEF WaitReboot, RetryReboot, Woken
<1>7. CASE RecovReboot
  BY <1>7 DEF RecovReboot, RetryReboot, Woken
<1>8. CASE Interrupt
  BY <1>8 DEF Interrupt, sessionVars, history
<1> QED
  BY <1>1, <1>2, <1>3, <1>4, <1>5, <1>6, <1>7, <1>8
     DEF Proceed, SelectFails, Tick

-----------------------------------------------------------------------------
(* The invariant                                                           *)

LEMMA InitNetInv == NetInit => NetInv
<1> SUFFICES ASSUME NetInit PROVE NetInv
  OBVIOUS
<1>1. IInv
  BY InitIInv DEF NetInit
<1>2. NetTypeOK /\ Fresh /\ Up
  BY DEF NetInit, NetTypeOK, Fresh, Up
<1>3. CountedRun /\ CountedRetry /\ CountedPause
  BY DEF NetInit, Init, CountedRun, CountedRetry, CountedPause
<1> QED
  BY <1>1, <1>2, <1>3 DEF NetInv

(* The wire and the controller: types, and the age of what a controller    *)
(* that is down has left on its way.                                       *)
LEMMA NextFresh ==
  ASSUME IInv, IInv', NetTypeOK, Fresh, Up, [NetNext]_allVars
  PROVE  NetTypeOK' /\ Fresh' /\ Up'
<1> USE DEF NetTypeOK, Fresh, Up
<1>1. sent' \in Outputs
  BY DEF IInv, TypeOK
<1>2. CASE ApProceeds
  <2>1. Requested(sent') \subseteq Packets
    BY <1>1, SentPackets
  <2>2. Reachable \subseteq wire
    BY DEF Reachable
  <2>3. /\ Put(Reachable, Requested(sent')) /\ tried' \in BOOLEAN
        /\ UNCHANGED <<acUp, calm, down, slept>>
    BY <1>2 DEF ApProceeds
  <2>4. wire' \subseteq Packets /\ wire' \subseteq wire \cup Requested(sent')
    BY <2>1, <2>2, <2>3, PutPackets
  <2>5. \A q \in Requested(sent') : q.to = "ac"
    BY <1>1, SentPackets
  <2> QED
    BY <2>3, <2>4, <2>5
<1>3. ASSUME NEW p \in wire, ApReceives(p) PROVE NetTypeOK' /\ Fresh' /\ Up'
  BY <1>3 DEF ApReceives, outage
<1>4. CASE ApFails
  BY <1>4 DEF ApFails, netVars, outage
<1>5. CASE ApRestarts
  BY <1>5 DEF ApRestarts
<1>6. ASSUME NEW p \in wire, AcAnswers(p) PROVE NetTypeOK' /\ Fresh' /\ Up'
  <2>1. PICK b \in Accepting(p.msg.code) \cup Refusing(p.msg.code) :
          Put(wire \ {p},
              {Packet("ap", Reply(RepCode(p.msg.code), p.msg.seq, b))})
    BY <1>6 DEF AcAnswers
  <2>2. p.msg \in Awaiting /\ p.to = "ac"
    BY <1>6 DEF AcAnswers, Packets
  <2>3. /\ p.msg.seq \in SeqNums /\ RepCode(p.msg.code) \in Codes
        /\ b \in JoinBodies \cup {<<>>, Answer(ResultOK), Answer(ResultFailed)}
    BY <2>1, <2>2
       DEF Awaiting, Requests, ReqCodes, Codes, RepCode, Accepting, Refusing
  <2>4. {Packet("ap", Reply(RepCode(p.msg.code), p.msg.seq, b))} \subseteq Packets
    BY <2>3, AnsweredPackets
  <2>5. wire' \subseteq Packets
    BY <2>1, <2>4, PutPackets
  <2> QED
    BY <1>6, <2>5 DEF AcAnswers, outage
<1>7. CASE AcAsksReboot
  <2>1. {Packet("ap", Reply("REBOOT_REQ", 0, <<>>))} \subseteq Packets
    BY AnsweredPackets, SeqAssumption DEF Codes, SeqNums
  <2>2. Put(wire, {Packet("ap", Reply("REBOOT_REQ", 0, <<>>))})
    BY <1>7 DEF AcAsksReboot
  <2>3. wire' \subseteq Packets
    BY <2>1, <2>2, PutPackets
  <2> QED
    BY <1>7, <2>3 DEF AcAsksReboot, outage
<1>8. CASE Lose \/ AcStops \/ AcStarts \/ BecomesCalm
  <2>1. ASSUME NEW p \in wire PROVE p.age \in Nat
    BY DelayAssumption DEF Packets, Ages
  <2>2. CASE Lose
    <3>1. wire' \subseteq wire /\ UNCHANGED <<acUp, calm, down, slept, tried>>
      BY <2>2 DEF Lose, outage
    <3> QED
      BY <3>1
  <2>3. CASE AcStops
    <3>1. UNCHANGED <<wire, calm, down, slept, tried>>
      BY <2>3 DEF AcStops, outage
    <3>2. acUp /\ acUp' = FALSE
      BY <2>3 DEF AcStops
    <3>3. down' = 0
      BY <3>1, <3>2, Zenon
    <3>4. \A p \in wire : 0 <= p.age + slept
      BY <2>1
    <3>5. \A p \in wire' : down' <= p.age + slept'
      BY <3>1, <3>3, <3>4
    <3> QED
      BY <3>1, <3>2, <3>3, <3>5, Zenon
  <2>4. CASE AcStarts
    <3>1. /\ acUp' = TRUE /\ down' = 0 /\ slept' = 0 /\ tried' = FALSE
          /\ wire' = wire /\ calm' = calm
      BY <2>4 DEF AcStarts
    <3>2. down' \in Nat /\ slept' \in Nat
      BY <3>1
    <3> QED
      BY <3>1, <3>2, Zenon
  <2>5. CASE BecomesCalm
    <3>1. calm' = TRUE /\ UNCHANGED <<wire, acUp, down, slept, tried>>
      BY <2>5 DEF BecomesCalm, outage
    <3> QED
      BY <3>1
  <2> QED
    BY <1>8, <2>2, <2>3, <2>4, <2>5
<1>9. CASE Clock
  <2>1. /\ wire' = Older(wire) /\ UNCHANGED <<acUp, calm, tried>>
        /\ \/ /\ ~acUp /\ down' = down + 1
              /\ slept' = IF Sleeping THEN slept + 1 ELSE slept
           \/ UNCHANGED <<down, slept>>
        /\ Sleeping \/ pc = "recv"
    BY <1>9 DEF Clock, Tick, Waiting
  <2>2. wire' \subseteq Packets
    BY <2>1, OlderPackets
  <2>3. down' \in Nat /\ slept' \in Nat /\ (acUp' => down' = 0)
    BY <2>1
  <2>4. ASSUME NEW q \in wire', q.to = "ap", ~acUp'
        PROVE  down' <= q.age + slept'
    <3>1. PICK p \in wire : /\ q.to = p.to /\ p.age \in Nat
                            /\ \/ q.age = p.age + 1
                               \/ q.age = p.age /\ pc = "sleep"
      BY <2>1, <2>4, OlderPackets
    <3>2. down <= p.age + slept
      BY <2>1, <2>4, <3>1
    <3>3. CASE q.age = p.age + 1
      BY <2>1, <3>1, <3>2, <3>3
    <3>4. CASE q.age = p.age /\ pc = "sleep"
      BY <2>1, <3>1, <3>2, <3>4
    <3> QED
      BY <3>1, <3>3, <3>4
  <2> QED
    BY <2>1, <2>2, <2>3, <2>4
<1>10. CASE UNCHANGED allVars
  BY <1>10 DEF allVars, netVars, outage
<1> QED
  BY <1>2, <1>3, <1>4, <1>5, <1>6, <1>7, <1>8, <1>9, <1>10 DEF NetNext

(* The bound of a controller that is down, from the silence of the AP.     *)
LEMMA Escalates ==
  ASSUME NetInv
  PROVE  DeadAcEscalates
<1> USE DEF NetInv
<1>1. /\ down \in Nat /\ slept \in Nat /\ quiet \in Nat /\ tv \in Nat
      /\ tries \in Nat /\ echo \in Nat /\ Delay \in Nat
  BY DelayAssumption DEF NetTypeOK, IInv, TypeOK
<1>2. Patience \in Nat
  BY <1>1, EchoSpan DEF Patience
<1>3. ASSUME NEW st, NEW max \in Nat, NEW time \in Nat, NEW pause, state = st,
             RetryTimed(st, max, time, pause), pc \in {"ready", "recv"},
             NEW b \in Nat, down <= b + slept + quiet
      PROVE  down <= b + max * time + slept
  <2>1. max * time \in Nat /\ tries * time \in Nat /\ (tries + 1) * time \in Nat
    BY <1>1, <1>3, Products
  <2>2. CASE pc = "ready"
    <3>1. tries <= max /\ quiet <= tries * time
      BY <1>3, <2>2 DEF RetryTimed
    <3>2. tries * time <= max * time
      BY <1>1, <1>3, <3>1, Products
    <3> QED
      BY <1>1, <1>3, <2>1, <3>1, <3>2
  <2>3. CASE pc = "recv"
    <3>1. tries < max /\ quiet + tv <= (tries + 1) * time
      BY <1>3, <2>3 DEF RetryTimed
    <3>2. (tries + 1) * time <= max * time
      <4>1. tries + 1 \in Nat /\ tries + 1 <= max
        BY <1>1, <1>3, <3>1
      <4> QED
        BY <1>3, <4>1, Products
    <3> QED
      BY <1>1, <1>3, <2>1, <3>1, <3>2
  <2> QED
    BY <1>3, <2>2, <2>3
<1>4. /\ WaitTries \in Nat /\ WaitTime \in Nat
      /\ RecovTries \in Nat /\ RecovTime \in Nat
      /\ Delay + Patience \in Nat
  BY <1>1, <1>2, TriesAssumption, TimeAssumption
<1>5. CASE pc \in {"ready", "recv"}
  <2>1. ASSUME ~tried, state = "WAIT"
        PROVE  down <= Delay + Patience + WaitTries * WaitTime + slept
    <3>1. /\ down <= Delay + Patience + slept + quiet
          /\ RetryTimed("WAIT", WaitTries, WaitTime, WaitPause)
      BY <2>1 DEF CountedRetry, IInv, Timed
    <3> QED
      BY <1>3, <1>4, <1>5, <2>1, <3>1
  <2>2. ASSUME ~tried, state = "RECOV"
        PROVE  down <= Delay + RecovTries * RecovTime + slept
    <3>1. /\ down <= Delay + slept + quiet
          /\ RetryTimed("RECOV", RecovTries, RecovTime, RecovPause)
      BY <2>2 DEF CountedRetry, IInv, Timed
    <3> QED
      BY <1>1, <1>3, <1>4, <1>5, <2>2, <3>1
  <2> QED
    BY <2>1, <2>2 DEF DeadAcEscalates, Patience
<1> QED
  BY <1>5 DEF CountedPause

(* The time the controller is down and the silence of the AP.              *)
LEMMA NextCounted ==
  ASSUME NetInv, IInv', NetTypeOK', [NetNext]_allVars
  PROVE  CountedRun' /\ CountedRetry' /\ CountedPause'
<1> USE DEF NetInv
<1> DEFINE WaitSpan == WaitTries * WaitTime
           RecovSpan == RecovTries * RecovTime
<1>1. /\ down \in Nat /\ down' \in Nat /\ slept \in Nat /\ slept' \in Nat
      /\ quiet \in Nat /\ quiet' \in Nat /\ Delay \in Nat
  BY DelayAssumption DEF IInv, TypeOK, NetTypeOK
<1>9. /\ Patience \in Nat /\ Patience' \in Nat
      /\ Delay + Patience \in Nat /\ Delay + Patience' \in Nat
      /\ Delay + Patience' + WaitSpan \in Nat /\ Delay + RecovSpan \in Nat
  <2>1. echo \in Nat /\ echo' \in Nat
    BY DEF IInv, TypeOK
  <2>2. Patience \in Nat /\ Patience' \in Nat
    BY <2>1, EchoSpan DEF Patience
  <2>3. WaitSpan \in Nat /\ RecovSpan \in Nat
    BY TriesAssumption, TimeAssumption, Products
  <2>4. ASSUME NEW a \in Nat, NEW b \in Nat, NEW c \in Nat
        PROVE  a + b \in Nat /\ a + b + c \in Nat
    OBVIOUS
  <2> QED
    BY <1>1, <2>2, <2>3, <2>4, Zenon
<1> HIDE DEF WaitSpan, RecovSpan
<1>2. /\ (/\ state' = "WAIT" => down' <= Delay + Patience' + WaitSpan + slept'
          /\ state' = "RECOV" => down' <= Delay + RecovSpan + slept')
            => DeadAcEscalates'
      /\ DeadAcEscalates /\ ~tried =>
           /\ state = "WAIT" => down <= Delay + Patience + WaitSpan + slept
           /\ state = "RECOV" => down <= Delay + RecovSpan + slept
  BY DEF DeadAcEscalates, Patience, WaitSpan, RecovSpan
<1>10. DeadAcEscalates
  BY Escalates
<1>3. ASSUME down' <= Delay + slept'
      PROVE  CountedRun' /\ CountedRetry' /\ CountedPause'
  <2>1. ASSUME NEW a \in Nat, NEW c \in Nat
        PROVE  /\ down' <= Delay + slept' + c
               /\ down' <= Delay + a + slept' + c
               /\ down' <= Delay + a + c + slept'
               /\ down' <= Delay + a + slept'
    BY <1>1, <1>3, <2>1, SumAbove, Zenon
  <2>2. WaitSpan \in Nat /\ RecovSpan \in Nat
    BY TriesAssumption, TimeAssumption, Products DEF WaitSpan, RecovSpan
  <2>3. /\ down' <= Delay + slept' + quiet'
        /\ down' <= Delay + Patience' + slept' + quiet'
        /\ down' <= Delay + Patience' + WaitSpan + slept'
        /\ down' <= Delay + RecovSpan + slept'
    BY <1>1, <1>9, <2>1, <2>2, Zenon
  <2> QED
    BY <1>2, <2>3 DEF CountedRun, CountedRetry, CountedPause
<1>4. ASSUME NEW p \in wire, ApReceives(p) PROVE down' <= Delay + slept'
  <2>1. p.to = "ap" /\ UNCHANGED <<down, slept>>
    BY <1>4 DEF ApReceives, outage
  <2>2. p.age \in Nat /\ p.age <= Delay
    BY DEF NetTypeOK, Packets, Ages
  <2>3. CASE acUp
    BY <2>1, <2>3, <1>1 DEF Up
  <2>4. CASE ~acUp
    BY <2>1, <2>2, <2>4, <1>1 DEF Fresh
  <2> QED
    BY <2>3, <2>4
<1>5. CASE ApProceeds \/ ApFails \/ ApRestarts
  <2>1. /\ UNCHANGED <<acUp, down, slept>>
        /\ state' # "INIT" /\ tried => tried'
    <3>1. UNCHANGED <<acUp, down, slept>>
      BY <1>5 DEF ApProceeds, ApFails, ApRestarts, netVars, outage
    <3>2. ApFails => tried' = tried
      BY DEF ApFails, netVars, outage
    <3>3. state' # "INIT" /\ tried => tried'
      BY <1>5, <3>2, Zenon DEF ApProceeds, ApRestarts, Restart
    <3> QED
      BY <3>1, <3>3
  <2>2. /\ state' = "RUN" => state = "RUN" /\ UNCHANGED quiet
        /\ state' = "WAIT" =>
             /\ UNCHANGED echo
             /\ \/ state = "RUN" /\ pc' = "ready"
                \/ state = "WAIT" /\ UNCHANGED quiet
                \/ WaitReboot
        /\ state' = "RECOV" => \/ state = "RECOV" /\ UNCHANGED quiet
                              \/ RecovReboot
        /\ state' \in {"WAIT", "RECOV"} /\ pc' \notin {"ready", "recv"} =>
             UNCHANGED <<state, echo>>
    BY <1>5, SilentStep DEF ApProceeds, ApFails, ApRestarts
  <2>3. CASE acUp
    <3>1. down' = 0
      BY <2>1, <2>3 DEF Up
    <3>2. ASSUME NEW s \in Nat PROVE 0 <= Delay + s
      BY <1>1, <3>2
    <3> QED
      BY <1>1, <1>3, <3>1, <3>2, Zenon
  <2>4. CASE ~acUp
    <3>1. WaitReboot \/ RecovReboot => tried'
      BY <1>5, <2>4 DEF ApProceeds, ApFails, ApRestarts, WaitReboot, RecovReboot,
         RetryReboot, Woken, SelectFails, SulkError, RunError, WaitError,
         RecovError, Interrupt, Restart
    <3>2. CountedRun'
      BY <2>1, <2>2 DEF CountedRun
    <3>3. ASSUME ~tried', state' = "WAIT"
          PROVE  down' <= Delay + Patience' + slept' + quiet'
      <4>1. Patience' = Patience
        BY <2>2, <3>3 DEF Patience
      <4>2. CASE state = "RUN"
        <5>1. down <= Delay + slept + quiet /\ quiet <= Patience
          BY <4>2 DEF CountedRun, IInv, ContactBound, Patience
        <5>2. ASSUME NEW a \in Nat, quiet <= a
              PROVE  down' <= Delay + a + slept' + quiet'
          BY <1>1, <2>1, <5>1, <5>2, SumReplaces, Zenon
        <5> QED
          BY <1>9, <4>1, <5>1, <5>2, Zenon
      <4>3. CASE state = "WAIT" /\ UNCHANGED quiet
        BY <2>1, <3>3, <4>1, <4>3 DEF CountedRetry
      <4> QED
        BY <2>2, <3>1, <3>3, <4>2, <4>3
    <3>4. ASSUME ~tried', state' = "RECOV"
          PROVE  down' <= Delay + slept' + quiet'
      BY <2>1, <2>2, <3>1, <3>4 DEF CountedRetry
    <3>5. CountedPause'
      <4> SUFFICES ASSUME pc' \notin {"ready", "recv"}, ~tried',
                          state' \in {"WAIT", "RECOV"}
                   PROVE  DeadAcEscalates'
        BY DEF CountedPause, DeadAcEscalates
      <4>1. UNCHANGED <<state, echo, down, slept>> /\ ~tried
        BY <2>1, <2>2
      <4> QED
        BY <4>1, Escalates DEF DeadAcEscalates
    <3> QED
      BY <3>2, <3>3, <3>4, <3>5 DEF CountedRetry
  <2> QED
    BY <2>3, <2>4
<1>6. CASE Clock
  <2>1. /\ UNCHANGED <<state, pc, echo, tried>>
        /\ \/ Waiting /\ quiet' = IF state \in Service THEN quiet + 1 ELSE quiet
           \/ Sleeping /\ quiet' = IF state = "RUN" THEN quiet ELSE quiet + 1
        /\ \/ /\ down' = down + 1
              /\ slept' = IF Sleeping THEN slept + 1 ELSE slept
           \/ UNCHANGED <<down, slept>>
    BY <1>6 DEF Clock, Tick
  <2>2. Patience' = Patience
    BY <2>1 DEF Patience
  <2>3. ASSUME NEW b \in Nat, down <= b + slept + quiet, state \in Service
        PROVE  down' <= b + slept' + quiet'
    <3>1. /\ quiet' = quiet \/ quiet' = quiet + 1
          /\ \/ UNCHANGED <<down, slept>>
             \/ down' = down + 1 /\ slept' = slept + 1
             \/ down' = down + 1 /\ slept' = slept /\ quiet' = quiet + 1
      BY <2>1, <2>3
    <3>2. /\ down <= b + slept + (quiet + 1)
          /\ down + 1 <= b + slept + (quiet + 1)
          /\ down + 1 <= b + (slept + 1) + quiet
          /\ down + 1 <= b + (slept + 1) + (quiet + 1)
      BY <1>1, <2>3, SumGrows, Zenon
    <3>3. CASE quiet' = quiet
      BY <2>3, <3>1, <3>2, <3>3
    <3>4. CASE quiet' = quiet + 1
      BY <2>3, <3>1, <3>2, <3>4
    <3> QED
      BY <3>1, <3>3, <3>4
  <2>4. Delay + Patience \in Nat
    BY <1>9
  <2>5. CountedRun'
    BY <1>1, <2>1, <2>3 DEF CountedRun, Service
  <2>6. CountedRetry'
    BY <1>1, <2>1, <2>2, <2>3, <2>4 DEF CountedRetry, Service
  <2>7. CountedPause'
    <3> SUFFICES ASSUME pc \notin {"ready", "recv"}, ~tried
                 PROVE  DeadAcEscalates'
      BY <2>1 DEF CountedPause, DeadAcEscalates
    <3>1. Sleeping
      BY <2>1 DEF Waiting
    <3>2. ASSUME NEW b \in Nat, down <= b + slept PROVE down' <= b + slept'
      BY <1>1, <2>1, <3>1, <3>2, SumGrows, Zenon
    <3>3. Delay + Patience + WaitSpan \in Nat /\ Delay + RecovSpan \in Nat
      BY <1>9, <2>2, Zenon
    <3>4. /\ state = "WAIT" => down <= Delay + Patience + WaitSpan + slept
          /\ state = "RECOV" => down <= Delay + RecovSpan + slept
      BY <1>2, <1>10, Zenon
    <3>5. state' = state
      BY <2>1
    <3>6. state' = "WAIT" => down' <= Delay + Patience' + WaitSpan + slept'
      BY <2>2, <3>2, <3>3, <3>4, <3>5, Zenon
    <3>7. state' = "RECOV" => down' <= Delay + RecovSpan + slept'
      BY <3>2, <3>3, <3>4, <3>5, Zenon
    <3> QED
      BY <1>2, <3>6, <3>7, Zenon
  <2> QED
    BY <2>5, <2>6, <2>7
<1>7. CASE /\ UNCHANGED <<state, pc, echo, quiet>>
           /\ UNCHANGED outage \/ down' = 0
  <2>1. CASE UNCHANGED outage
    BY <1>7, <2>1 DEF outage, CountedRun, CountedRetry, CountedPause,
       DeadAcEscalates, Patience
  <2>2. CASE down' = 0
    <3>1. ASSUME NEW s \in Nat PROVE 0 <= Delay + s
      BY <1>1, <3>1
    <3> QED
      BY <1>1, <1>3, <2>2, <3>1, Zenon
  <2> QED
    BY <1>7, <2>1, <2>2
<1>8. CASE \/ Lose \/ AcAsksReboot \/ AcStops \/ AcStarts \/ BecomesCalm
           \/ \E p \in wire : AcAnswers(p)
           \/ UNCHANGED allVars
  BY <1>7, <1>8 DEF Lose, AcAsksReboot, AcStops, AcStarts, BecomesCalm,
     AcAnswers, allVars, netVars, vars
<1> QED
  BY <1>3, <1>4, <1>5, <1>6, <1>8 DEF NetNext

LEMMA NextNetInv == NetInv /\ [NetNext]_allVars => NetInv'
<1> SUFFICES ASSUME NetInv, [NetNext]_allVars PROVE NetInv'
  OBVIOUS
<1>1. IInv'
  BY NetStep, NextIInv DEF NetInv
<1>2. NetTypeOK' /\ Fresh' /\ Up'
  BY <1>1, NextFresh DEF NetInv
<1>3. CountedRun' /\ CountedRetry' /\ CountedPause'
  BY <1>1, <1>2, NextCounted
<1> QED
  BY <1>1, <1>2, <1>3 DEF NetInv

-----------------------------------------------------------------------------
(* The theorems                                                            *)

LEMMA NetInvariant == NetSpec => []NetInv
  BY InitNetInv, NextNetInv, PTL DEF NetSpec

(* Whatever the controller and the network do, the AP does what Wtp says:  *)
(* the theorems about Wtp hold here as well.                               *)
THEOREM NetImplementsTheorem == NetSpec => Spec
<1>1. NetInit => Init
  BY DEF NetInit
<1>2. NetInv /\ [NetNext]_allVars => [Next]_vars
  BY NetStep DEF NetInv
<1> QED
  BY <1>1, <1>2, NetInvariant, PTL DEF NetSpec, Spec

(* What travels is a request for the controller or a message Wtp admits,   *)
(* no older than Delay.                                                    *)
THEOREM NetTypeTheorem == NetSpec => []NetTypeOK
<1>1. NetInv => NetTypeOK
  BY DEF NetInv
<1> QED
  BY <1>1, NetInvariant, PTL

(* For every delay, ECHO time and WTP_ECHO_MAX, and however the last       *)
(* replies are lost, doubled or overtaken, wmpRun gives a dead controller  *)
(* up in time, but for its sleeps before reboots (run.c).                  *)
THEOREM DeadAcNoticedTheorem == NetSpec => []DeadAcNoticed
<1>1. NetInv => DeadAcNoticed
  <2> SUFFICES ASSUME NetInv, state = "RUN"
               PROVE  down <= Delay + (EchoMax + 1) * echo + slept
    BY DEF DeadAcNoticed
  <2>1. down <= Delay + slept + quiet /\ quiet <= Patience
    BY DEF NetInv, CountedRun, IInv, ContactBound, Patience
  <2>2. down \in Nat /\ slept \in Nat /\ quiet \in Nat /\ echo \in Nat
    BY DEF NetInv, NetTypeOK, IInv, TypeOK
  <2>3. Patience \in Nat
    BY <2>2, EchoSpan DEF Patience
  <2>4. down <= Delay + Patience + slept
    BY <2>1, <2>2, <2>3, DelayAssumption
  <2> QED
    BY <2>4 DEF Patience
<1> QED
  BY <1>1, NetInvariant, PTL

(* And wmpWait and wmpRecov do not take it for recoverable: they come to   *)
(* the reboot command in time, whether it works or not (wait.c, recov.c).  *)
THEOREM DeadAcEscalatesTheorem == NetSpec => []DeadAcEscalates
  BY Escalates, NetInvariant, PTL

-----------------------------------------------------------------------------
(* The AP and a controller that works                                      *)

(* A request, or the reply to it, that the network and the controller must *)
(* deal with while some time is left.                                      *)
InTime(p, req, left) ==
  \/ p.to = "ac" /\ p.msg.code = req /\ left > 2 * Delay - p.age
  \/ /\ p.to = "ap" /\ p.msg.head /\ p.msg.code = RepCode(req)
     /\ left > Delay - p.age

(* A datagram of the exchange the AP is in, on a socket of its own.        *)
Own(p, req) ==
  \/ p.to = "ac" /\ p.msg = Request(req, seq)
  \/ /\ p.to = "ap"
     /\ \E b \in Accepting(req) : p.msg = Reply(RepCode(req), seq, b)

(* DSCV or JOIN: nothing else is on its way to the socket, and the reply   *)
(* comes before the time is over.                                          *)
Exchange(st, req) ==
  /\ Receiving(st)
  /\ \A p \in wire : Own(p, req)
  /\ \E p \in wire : InTime(p, req, tv)

(* RUN: no reboot is asked for, and what is counted as missed is answered  *)
(* before the time is over.                                                *)
InContact ==
  /\ state = "RUN" /\ EchoMax > 0 /\ echo > 2 * Delay
  /\ \A p \in wire : p.msg.code # "REBOOT_REQ"
  /\ \/ /\ pc = "ready"
        /\ echonum # 0 => \E p \in wire : InTime(p, "ECHO_REQ", echo)
     \/ /\ Receiving("RUN")
        /\ echonum # 0 => \E p \in wire : InTime(p, "ECHO_REQ", tv)

Settled == calm /\ reboot = "no" /\ InContact

OnCourse ==
  /\ calm /\ reboot = "no" /\ Paced
  /\ \/ Stopped
     \/ state \in {"INIT", "DSCV", "JOIN"} /\ pc = "ready"
     \/ Exchange("DSCV", "DSCV_REQ")
     \/ Exchange("JOIN", "JOIN_REQ")
     \/ InContact

Exchanged == {"DSCV_REQ", "JOIN_REQ", "ECHO_REQ"}

(* What a calm environment leaves to happen.                               *)
LEMMA CalmSteps ==
  ASSUME calm, reboot = "no", [NetNext]_allVars
  PROVE  /\ calm'
         /\ \/ ApProceeds \/ Clock
            \/ \E p \in wire : ApReceives(p) \/ AcAnswers(p)
            \/ UNCHANGED <<vars, wire>>
<1>1. calm'
  BY DEF NetNext, ApProceeds, ApFails, ApRestarts, ApReceives, AcAnswers, Lose,
     AcAsksReboot, AcStops, AcStarts, Clock, BecomesCalm, allVars, netVars
<1>2. ~(ApFails \/ ApRestarts \/ Lose \/ AcAsksReboot \/ AcStops \/ BecomesCalm)
  BY DEF ApFails, ApRestarts, Restart, Lose, AcAsksReboot, AcStops, BecomesCalm
<1>3. AcStarts => UNCHANGED <<vars, wire>>
  BY DEF AcStarts
<1>4. UNCHANGED allVars => UNCHANGED <<vars, wire>>
  BY DEF allVars, netVars
<1> QED
  BY <1>1, <1>2, <1>3, <1>4, Zenon DEF NetNext

LEMMA PacketAges ==
  ASSUME NetTypeOK, NEW p \in wire
  PROVE  p.age \in Nat /\ p.age <= Delay /\ Delay \in Nat
  BY DelayAssumption DEF NetTypeOK, Packets, Ages

(* Its time is not over while an answer is on its way.                     *)
LEMMA InTimeLeft ==
  ASSUME NetTypeOK, NEW p \in wire, NEW req, NEW left \in Nat,
         InTime(p, req, left)
  PROVE  left # 0
  BY PacketAges DEF InTime

(* A tick brings every datagram on its way closer, and what is overdue     *)
(* stops the clock.                                                        *)
LEMMA ClockInTime ==
  ASSUME NetTypeOK, TypeOK, calm, Clock, NEW st, Receiving(st),
         NEW p \in wire, NEW req, InTime(p, req, tv)
  PROVE  \E q \in wire' : InTime(q, req, tv')
<1>1. /\ p.age \in Nat /\ p.age <= Delay /\ Delay \in Nat
      /\ tv \in Nat /\ tv' = tv - 1
  BY PacketAges DEF TypeOK, Clock, Tick, Waiting, Sleeping, Receiving
<1>2. p.age # Delay
  BY DEF Clock, Overdue, InTime, Receiving
<1> DEFINE q == [p EXCEPT !.age = p.age + 1]
<1>3. q \in wire'
  <2>1. p.age < Delay
    BY <1>1, <1>2
  <2>2. wire' = Older(wire)
    BY DEF Clock
  <2> QED
    BY <2>1, <2>2 DEF Older
<1>4. q.to = p.to /\ q.msg = p.msg /\ q.age = p.age + 1
  BY DEF NetTypeOK, Packets
<1> HIDE DEF q
<1>5. InTime(q, req, tv')
  BY <1>1, <1>4 DEF InTime
<1> QED
  BY <1>3, <1>5

LEMMA OlderSame ==
  ASSUME NetTypeOK, NEW q \in Older(wire)
  PROVE  \E p \in wire : q.to = p.to /\ q.msg = p.msg
  BY OlderPackets DEF NetTypeOK

(* Once calm, the answer takes the place of the request.                   *)
LEMMA CalmAnswer ==
  ASSUME calm, NEW r \in wire, AcAnswers(r)
  PROVE  /\ UNCHANGED vars /\ r.to = "ac"
         /\ \E b \in Accepting(r.msg.code) :
              wire' = (wire \ {r})
                \cup {Packet("ap", Reply(RepCode(r.msg.code), r.msg.seq, b))}
  BY DEF AcAnswers, Put, Refusing

LEMMA AnswerInTime ==
  ASSUME NetTypeOK, calm, NEW r \in wire, AcAnswers(r), NEW p \in wire,
         NEW req, NEW left \in Nat, InTime(p, req, left)
  PROVE  \E q \in wire' : InTime(q, req, left)
<1>1. PICK b \in Accepting(r.msg.code) :
        wire' = (wire \ {r})
          \cup {Packet("ap", Reply(RepCode(r.msg.code), r.msg.seq, b))}
  BY CalmAnswer
<1>2. CASE p # r
  BY <1>1, <1>2
<1>3. CASE p = r
  <2> DEFINE q == Packet("ap", Reply(RepCode(req), r.msg.seq, b))
  <2>1. p.to = "ac" /\ p.msg.code = req /\ left > 2 * Delay - p.age
    BY <1>3, CalmAnswer DEF InTime
  <2>2. left > Delay - 0
    BY <2>1, PacketAges
  <2>3. q.to = "ap" /\ q.msg.head /\ q.msg.code = RepCode(req) /\ q.age = 0
    BY DEF Packet, Reply
  <2>4. q \in wire'
    BY <1>1, <1>3, <2>1
  <2> QED
    BY <2>2, <2>3, <2>4 DEF InTime
<1> QED
  BY <1>2, <1>3

(* What the AP sends is answered within a round trip.                      *)
LEMMA SendInTime ==
  ASSUME NEW req \in Exchanged, NEW s \in SeqNums, NEW left \in Nat,
         left > 2 * Delay
  PROVE  /\ Requested(<<Request(req, s)>>) = {Packet("ac", Request(req, s))}
         /\ InTime(Packet("ac", Request(req, s)), req, left)
<1>1. Request(req, s) \in Awaiting
  BY DEF Request, Awaiting, Requests, ReqCodes, Exchanged
<1>2. DOMAIN <<Request(req, s)>> = {1}
  OBVIOUS
<1>3. Requested(<<Request(req, s)>>) = {Packet("ac", Request(req, s))}
  BY <1>1, <1>2 DEF Requested
<1>4. InTime(Packet("ac", Request(req, s)), req, left)
  BY DelayAssumption DEF InTime, Packet, Request
<1> QED
  BY <1>3, <1>4

LEMMA NothingRequested == Requested(<<>>) = {}
  BY DEF Requested

LEMMA CalmPut ==
  ASSUME calm, NEW w, NEW new, Put(w, new)
  PROVE  wire' = w \cup new
  BY DEF Put

-----------------------------------------------------------------------------
(* RUN                                                                     *)

LEMMA ContactProceeds ==
  ASSUME NetInv, calm, InContact, ApProceeds
  PROVE  InContact' /\ UNCHANGED reboot
<1>1. Succeeds /\ calm' /\ Put(Reachable, Requested(sent'))
  BY DEF ApProceeds
<1>2. wire' = wire \cup Requested(sent')
  BY <1>1, CalmPut DEF Reachable, InContact
<1>3. RunStart \/ RunTimeout
  BY DEF ApProceeds, Proceed, InContact, Tick, InitDone, InitFails, DscvSend,
     DscvTimeout, SulkStart, SulkTimeout, JoinSend, JoinTimeout, RunReboot,
     WaitSend, WaitTimeout, WaitGiveUp, WaitReboot, RecovSend, RecovTimeout,
     RecovGiveUp, RecovReboot, RetrySend, RetryGiveUp, RetryReboot, Ready,
     Receiving, TimedOut, Woken
<1>4. echo \in Nat /\ tv \in Nat /\ NetTypeOK
  BY DEF NetInv, IInv, TypeOK
<1>5. CASE RunStart
  <2>1. /\ pc = "ready" /\ pc' = "recv" /\ tv' = echo /\ sent' = <<>>
        /\ UNCHANGED <<state, sock, echo, echonum, reboot>>
    BY <1>5 DEF RunStart, Ready, WaitFor, sessionVars
  <2>2. sock = "join"
    BY <2>1 DEF InContact, NetInv, IInv, OneSocket, Service
  <2>3. wire' = wire
    BY <1>2, <2>1, NothingRequested
  <2>4. echonum # 0 => \E p \in wire : InTime(p, "ECHO_REQ", echo)
    BY <2>1 DEF InContact, Receiving
  <2> QED
    BY <2>1, <2>2, <2>3, <2>4 DEF InContact, Receiving
<1>6. CASE RunTimeout
  <2>1. pc = "recv" /\ tv = 0
    BY <1>6 DEF RunTimeout, TimedOut
  <2>2. echonum = 0
    BY <1>4, <2>1, InTimeLeft DEF InContact, Receiving
  <2>3. ~LostContact
    BY <2>2, SizeAssumption DEF LostContact, InContact
  <2>4. /\ SendRequest("ECHO_REQ", TRUE) /\ Goto("RUN")
        /\ UNCHANGED <<echo, reboot>>
    BY <1>1, <1>6, <2>3 DEF RunTimeout, Succeeds, Goto, InContact
  <2>5. seq' \in SeqNums
    <3>1. IInv'
      BY NetStep, NextIInv DEF NetInv, NetNext
    <3> QED
      BY <3>1 DEF IInv, TypeOK
  <2> DEFINE p == Packet("ac", Request("ECHO_REQ", seq'))
  <2>6. wire' = wire \cup {p} /\ InTime(p, "ECHO_REQ", echo)
    BY <1>2, <1>4, <2>4, <2>5, SendInTime DEF SendRequest, InContact, Exchanged
  <2>7. p.msg.code # "REBOOT_REQ"
    BY DEF Packet, Request
  <2> HIDE DEF p
  <2> QED
    BY <2>4, <2>6, <2>7 DEF InContact, Goto
<1> QED
  BY <1>3, <1>5, <1>6

LEMMA ContactReceives ==
  ASSUME NetInv, calm, InContact, NEW p \in wire, ApReceives(p)
  PROVE  InContact' /\ UNCHANGED reboot
<1>1. RunRecv(p.msg)
  BY DEF ApReceives, Receive, InContact, DscvRecv, SulkRecv, JoinRecvOther,
     JoinRecvRep, WaitRecv, RecovRecv, RetryRecv, Receiving
<1>2. wire' = wire \ {p}
  BY DEF ApReceives
<1>3. /\ Receiving("RUN") /\ tv' = tv
      /\ UNCHANGED <<state, pc, sock, echo, reboot>>
      /\ IF p.msg.head /\ p.msg.code = "ECHO_REP" THEN echonum' = 0
         ELSE echonum' = echonum
  BY <1>1 DEF RunRecv, HandleEchoRep, TimeLeft, InContact
<1>4. \A q \in wire : q.msg.code # "REBOOT_REQ"
  BY DEF InContact
<1>5. ASSUME echonum' # 0
      PROVE  \E q \in wire' : InTime(q, "ECHO_REQ", tv)
  <2>1. ~(p.msg.head /\ p.msg.code = "ECHO_REP") /\ echonum # 0
    BY <1>3, <1>5
  <2>2. PICK q \in wire : InTime(q, "ECHO_REQ", tv)
    BY <1>3, <2>1 DEF InContact, Receiving
  <2>3. q # p
    BY <2>1, <2>2 DEF InTime, RepCode, ApReceives
  <2> QED
    BY <1>2, <2>2, <2>3
<1> QED
  BY <1>2, <1>3, <1>4, <1>5 DEF InContact, Receiving

LEMMA ContactAnswered ==
  ASSUME NetInv, calm, InContact, NEW r \in wire, AcAnswers(r)
  PROVE  InContact' /\ UNCHANGED reboot
<1>1. PICK b \in Accepting(r.msg.code) :
        wire' = (wire \ {r})
          \cup {Packet("ap", Reply(RepCode(r.msg.code), r.msg.seq, b))}
  BY CalmAnswer
<1>2. UNCHANGED vars
  BY CalmAnswer
<1>3. r.msg.code \in ReqCodes \ {"REBOOT_REP"}
  BY CalmAnswer DEF NetInv, NetTypeOK, Packets, Awaiting, Requests
<1>4. RepCode(r.msg.code) # "REBOOT_REQ"
  BY <1>3 DEF ReqCodes, RepCode
<1>5. \A q \in wire' : q.msg.code # "REBOOT_REQ"
  BY <1>1, <1>4 DEF InContact, Packet, Reply
<1>6. \A left \in Nat : (\E p \in wire : InTime(p, "ECHO_REQ", left))
                         => \E q \in wire' : InTime(q, "ECHO_REQ", left)
  BY AnswerInTime DEF NetInv
<1>7. echo \in Nat /\ tv \in Nat
  BY DEF NetInv, IInv, TypeOK
<1> QED
  BY <1>2, <1>5, <1>6, <1>7 DEF InContact, Receiving, vars

LEMMA ContactTicks ==
  ASSUME NetInv, calm, InContact, Clock
  PROVE  InContact' /\ UNCHANGED reboot
<1>1. pc = "recv" /\ UNCHANGED <<state, pc, sock, echo, echonum, reboot>>
  BY DEF Clock, Tick, Waiting, Sleeping, InContact, Receiving
<1>2. Receiving("RUN")
  BY <1>1 DEF InContact
<1>3. (\E p \in wire : InTime(p, "ECHO_REQ", tv))
        => \E q \in wire' : InTime(q, "ECHO_REQ", tv')
  BY <1>2, ClockInTime DEF NetInv, IInv
<1>4. \A q \in wire' : q.msg.code # "REBOOT_REQ"
  BY OlderSame DEF Clock, InContact, NetInv
<1> QED
  BY <1>1, <1>2, <1>3, <1>4 DEF InContact, Receiving

LEMMA ContactKept ==
  ASSUME NetInv, calm, reboot = "no", InContact, [NetNext]_allVars
  PROVE  Settled'
<1>1. UNCHANGED <<vars, wire>> => InContact' /\ UNCHANGED reboot
  BY DEF InContact, Receiving, InTime, vars
<1> QED
  BY <1>1, CalmSteps, ContactProceeds, ContactReceives, ContactAnswered,
     ContactTicks DEF Settled

-----------------------------------------------------------------------------
(* DSCV and JOIN                                                           *)

(* A request on a new socket has the wire to itself.                       *)
LEMMA FirstOwn ==
  ASSUME NEW req \in {"DSCV_REQ", "JOIN_REQ"}, NEW st, NEW left \in Nat,
         left > 2 * Delay, seq' \in SeqNums, sent' = <<Request(req, seq')>>,
         wire' = Requested(sent'), Receiving(st)', tv' = left
  PROVE  Exchange(st, req)'
<1> DEFINE p == Packet("ac", Request(req, seq'))
<1>1. wire' = {p} /\ InTime(p, req, left)
  BY SendInTime DEF Exchanged
<1>2. p.to = "ac" /\ p.msg = Request(req, seq')
  BY DEF Packet
<1> HIDE DEF p
<1> QED
  BY <1>1, <1>2 DEF Exchange, Own

(* INIT, and the heads of wmpDscv and wmpJoin.                             *)
LEMMA StartProceeds ==
  ASSUME NetInv, OnCourse, ApProceeds, seq' \in SeqNums,
         state \in {"INIT", "DSCV", "JOIN"}, pc = "ready"
  PROVE  /\ \/ state' = "DSCV" /\ pc' = "ready"
            \/ Exchange("DSCV", "DSCV_REQ")'
            \/ Exchange("JOIN", "JOIN_REQ")'
         /\ UNCHANGED reboot
<1>1. /\ Succeeds /\ calm /\ Put(Reachable, Requested(sent'))
      /\ Paced /\ TimeAssumption
  BY TimeAssumption DEF ApProceeds, OnCourse
<1>2. InitDone \/ InitFails \/ DscvSend \/ JoinSend
  BY DEF ApProceeds, Proceed, Tick, DscvTimeout, SulkStart, SulkTimeout,
     JoinTimeout, RunStart, RunTimeout, RunReboot, WaitSend, WaitTimeout,
     WaitGiveUp, WaitReboot, RecovSend, RecovTimeout, RecovGiveUp, RecovReboot,
     RetrySend, RetryGiveUp, RetryReboot, Ready, TimedOut, Woken
<1>3. CASE InitDone
  BY <1>3 DEF InitDone, Goto
<1>4. ~InitFails
  BY <1>1 DEF InitFails, Succeeds
<1>5. CASE DscvSend
  <2>1. state = "DSCV"
    BY <1>5 DEF DscvSend, Ready
  <2>2. pc' = "recv"
    BY <1>1, <2>1 DEF Succeeds
  <2>3. /\ sock' = "dscv" /\ sent' = <<Request("DSCV_REQ", seq')>>
        /\ tv' = DscvTime /\ UNCHANGED <<state, reboot>>
    BY <1>5, <2>2 DEF DscvSend, NewSocket, SendRequest, Goto, WaitFor
  <2>4. wire' = Requested(sent')
    BY <1>1, <2>1, CalmPut DEF Reachable
  <2>5. Receiving("DSCV")'
    BY <2>1, <2>2, <2>3 DEF Receiving
  <2> QED
    BY <1>1, <2>3, <2>4, <2>5, FirstOwn, TimeAssumption DEF Paced
<1>6. CASE JoinSend
  <2>1. state = "JOIN"
    BY <1>6 DEF JoinSend, Ready
  <2>2. pc' = "recv"
    BY <1>1, <2>1 DEF Succeeds
  <2>3. /\ sock' = "join" /\ sent' = <<Request("JOIN_REQ", seq')>>
        /\ tv' = JoinTime /\ UNCHANGED <<state, reboot>>
    BY <1>6, <2>2 DEF JoinSend, NewSocket, SendRequest, Goto, WaitFor
  <2>4. wire' = Requested(sent')
    BY <1>1, <2>1, CalmPut DEF Reachable
  <2>5. Receiving("JOIN")'
    BY <2>1, <2>2, <2>3 DEF Receiving
  <2> QED
    BY <1>1, <2>3, <2>4, <2>5, FirstOwn, TimeAssumption DEF Paced
<1> QED
  BY <1>2, <1>3, <1>4, <1>5, <1>6

(* A wait of DSCV or JOIN does not run out.                                *)
LEMMA ExchangeWaits ==
  ASSUME NetInv, NEW st \in {"DSCV", "JOIN"}, NEW req, Exchange(st, req)
  PROVE  ~ApProceeds
<1>1. tv \in Nat /\ tv # 0
  BY InTimeLeft DEF Exchange, NetInv, IInv, TypeOK
<1>2. state = st /\ pc = "recv" /\ tv > 0
  BY <1>1 DEF Exchange, Receiving
<1> QED
  BY <1>2 DEF ApProceeds, Waiting

(* The reply to DSCV-REQ leads to JOIN.                                    *)
LEMMA DscvReceives ==
  ASSUME NetInv, calm, Exchange("DSCV", "DSCV_REQ"), NEW p \in wire,
         ApReceives(p)
  PROVE  state' = "JOIN" /\ pc' = "ready" /\ UNCHANGED reboot
<1>1. PICK b \in Accepting("DSCV_REQ") : p.msg = Reply("DSCV_REP", seq, b)
  BY DEF ApReceives, Exchange, Own, RepCode
<1>2. DscvRecv(p.msg)
  BY DEF ApReceives, Receive, Exchange, Receiving, SulkRecv, JoinRecvOther,
     JoinRecvRep, RunRecv, WaitRecv, RecovRecv, RetryRecv
<1> QED
  BY <1>1, <1>2 DEF DscvRecv, Reply, Matches, Goto

(* The ECHO time of a JOIN-REP is one of those the datagrams may carry, or *)
(* 0 where it carries none.                                                *)
LEMMA ParsedTime ==
  ASSUME NEW m \in Msg, NEW v, Parsed(m.body, Len(m.body) + 1, "ECHO", v)
  PROVE  v \in EchoTimes \cup {0}
<1>1. m.body \in Seq(Attr)
  BY BodyAssumption DEF Msg
<1>2. Len(m.body) \in Nat
  BY <1>1
<1>3. CASE v = 0
  BY <1>3
<1>4. ASSUME NEW i \in 1 .. (Len(m.body) + 1) - 1,
             m.body[i].type = "ECHO", v = m.body[i].val
      PROVE  v \in EchoTimes
  <2>1. m.body[i] \in Attr
    BY <1>1, <1>2
  <2> QED
    BY <1>4, <2>1 DEF Attr
<1> QED
  BY <1>3, <1>4 DEF Parsed

(* The reply to JOIN-REQ leads to RUN, with the count at 0 and nothing on  *)
(* the wire that asks for a reboot.                                        *)
LEMMA JoinReceives ==
  ASSUME NetInv, calm, Paced, Exchange("JOIN", "JOIN_REQ"), NEW p \in wire,
         ApReceives(p)
  PROVE  (Stopped' \/ InContact') /\ UNCHANGED reboot
<1>1. PICK b \in JoinBodies : p.msg = Reply("JOIN_REP", seq, b)
  BY DEF ApReceives, Exchange, Own, RepCode, Accepting
<1>2. /\ Matches(p.msg) /\ p.msg.code = "JOIN_REP" /\ p.msg.body = b
      /\ state = "JOIN"
  BY <1>1 DEF Reply, Matches, Exchange, Receiving
<1>3. JoinRecvRep(p.msg)
  BY <1>2 DEF ApReceives, Receive, Receiving, DscvRecv, SulkRecv,
     JoinRecvOther, RunRecv, WaitRecv, RecovRecv, RetryRecv
<1>4. UNCHANGED <<echonum, reboot>>
  BY <1>3 DEF JoinRecvRep
<1>5. CASE pc' = "undef"
  BY <1>4, <1>5 DEF Stopped
<1>6. CASE pc' # "undef"
  <2>1. state' = "RUN"
    BY <1>2, <1>6 DEF ApReceives
  <2>2. /\ Parsed(b, Len(b) + 1, "ECHO", echo')
        /\ pc' = "ready"
    BY <1>2, <1>3, <1>6, <2>1 DEF JoinRecvRep, JoinHandle, Goto
  <2>3. p.msg \in Msg
    BY DEF NetInv, NetTypeOK, Packets, ApReceives
  <2>4. echo' > 2 * Delay
    BY <1>2, <2>2, <2>3, ParsedTime DEF Paced
  <2>5. echonum' = 0
    BY <1>2, <1>4 DEF NetInv, IInv, EchoBudget
  <2>6. ASSUME NEW q \in wire' PROVE q.msg.code # "REBOOT_REQ"
    <3>1. q \in wire
      BY DEF ApReceives
    <3>2. \/ q.msg = Request("JOIN_REQ", seq)
          \/ \E c \in Accepting("JOIN_REQ") : q.msg = Reply("JOIN_REP", seq, c)
      BY <3>1 DEF Exchange, Own, RepCode
    <3>3. /\ Request("JOIN_REQ", seq).code = "JOIN_REQ"
          /\ \A c : Reply("JOIN_REP", seq, c).code = "JOIN_REP"
      BY DEF Reply, Request
    <3>4. q.msg.code \in {"JOIN_REQ", "JOIN_REP"}
      BY <3>2, <3>3, Zenon
    <3> QED
      BY <3>4
  <2> QED
    BY <1>4, <2>1, <2>2, <2>4, <2>5, <2>6 DEF InContact, Paced
<1> QED
  BY <1>5, <1>6

(* The controller and the clock leave the exchange what it is.             *)
LEMMA ExchangeAnswered ==
  ASSUME NetInv, calm, NEW st \in {"DSCV", "JOIN"},
         NEW req \in {"DSCV_REQ", "JOIN_REQ"}, Exchange(st, req),
         NEW r \in wire, AcAnswers(r)
  PROVE  Exchange(st, req)' /\ UNCHANGED <<vars, reboot>>
<1>1. PICK b \in Accepting(r.msg.code) :
        wire' = (wire \ {r})
          \cup {Packet("ap", Reply(RepCode(r.msg.code), r.msg.seq, b))}
  BY CalmAnswer
<1>2. UNCHANGED vars /\ r.to = "ac"
  BY CalmAnswer
<1>3. r.msg = Request(req, seq)
  BY <1>2 DEF Exchange, Own
<1>4. Own(Packet("ap", Reply(RepCode(r.msg.code), r.msg.seq, b)), req)
  BY <1>1, <1>3 DEF Own, Packet, Request
<1>5. \A q \in wire' : Own(q, req)
  BY <1>1, <1>4 DEF Exchange
<1>6. tv \in Nat
  BY DEF NetInv, IInv, TypeOK
<1>7. \E q \in wire' : InTime(q, req, tv)
  BY <1>6, AnswerInTime DEF Exchange, NetInv
<1> QED
  BY <1>2, <1>5, <1>7 DEF Exchange, Own, Receiving, vars

LEMMA ExchangeTicks ==
  ASSUME NetInv, calm, NEW st \in {"DSCV", "JOIN"},
         NEW req \in {"DSCV_REQ", "JOIN_REQ"}, Exchange(st, req), Clock
  PROVE  Exchange(st, req)' /\ UNCHANGED reboot
<1>1. UNCHANGED <<state, pc, sock, seq, reboot>>
  BY DEF Clock, Tick
<1>2. \E q \in wire' : InTime(q, req, tv')
  BY ClockInTime DEF Exchange, NetInv, IInv
<1>3. ASSUME NEW q \in wire' PROVE Own(q, req)
  <2>1. PICK p \in wire : q.to = p.to /\ q.msg = p.msg
    BY OlderSame DEF Clock, NetInv
  <2> QED
    BY <2>1 DEF Exchange, Own
<1> QED
  BY <1>1, <1>2, <1>3 DEF Exchange, Own, Receiving

LEMMA ExchangeKept ==
  ASSUME NetInv, OnCourse, [NetNext]_allVars, NEW st, NEW req,
         <<st, req>> \in {<<"DSCV", "DSCV_REQ">>, <<"JOIN", "JOIN_REQ">>},
         Exchange(st, req)
  PROVE  OnCourse'
<1>1. calm /\ reboot = "no" /\ Paced /\ calm' /\ Paced'
  BY CalmSteps DEF OnCourse, Paced
<1>2. st \in {"DSCV", "JOIN"} /\ req \in {"DSCV_REQ", "JOIN_REQ"}
  OBVIOUS
<1>3. CASE UNCHANGED <<vars, wire>>
  BY <1>1, <1>3 DEF OnCourse, Exchange, Own, Receiving, vars
<1>4. CASE Clock
  BY <1>1, <1>2, <1>4, ExchangeTicks DEF OnCourse
<1>5. ASSUME NEW p \in wire, AcAnswers(p) PROVE OnCourse'
  BY <1>1, <1>2, <1>5, ExchangeAnswered DEF OnCourse
<1>6. ASSUME NEW p \in wire, ApReceives(p) PROVE OnCourse'
  <2>1. CASE st = "DSCV"
    BY <1>1, <1>6, <2>1, DscvReceives DEF OnCourse
  <2>2. CASE st = "JOIN"
    BY <1>1, <1>6, <2>2, JoinReceives DEF OnCourse
  <2> QED
    BY <1>2, <2>1, <2>2
<1> QED
  BY <1>1, <1>2, <1>3, <1>4, <1>5, <1>6, CalmSteps, ExchangeWaits

(* A stopped process stays stopped, with no reboot to come.                *)
LEMMA StoppedKept ==
  ASSUME OnCourse, [NetNext]_allVars, Stopped
  PROVE  OnCourse'
<1>1. ~ApProceeds /\ ~Clock /\ \A p \in wire : ~ApReceives(p)
  BY DEF Stopped, ApProceeds, Clock, ApReceives, Receive, Proceed, Tick,
     InitDone, InitFails, DscvSend, DscvTimeout, SulkStart, SulkTimeout,
     JoinSend, JoinTimeout, RunStart, RunTimeout, RunReboot, WaitSend,
     WaitTimeout, WaitGiveUp, WaitReboot, RecovSend, RecovTimeout, RecovGiveUp,
     RecovReboot, RetrySend, RetryGiveUp, RetryReboot, DscvRecv, SulkRecv,
     JoinRecvOther, JoinRecvRep, RunRecv, WaitRecv, RecovRecv, RetryRecv, Ready,
     Receiving, TimedOut, Woken, Waiting, Sleeping
<1>2. calm' /\ UNCHANGED vars
  BY <1>1, CalmSteps, CalmAnswer DEF OnCourse
<1> QED
  BY <1>2 DEF OnCourse, Stopped, Paced, vars

LEMMA CourseKept == NetInv /\ OnCourse /\ [NetNext]_allVars => OnCourse'
<1> SUFFICES ASSUME NetInv, OnCourse, [NetNext]_allVars
             PROVE  OnCourse'
  OBVIOUS
<1>1. calm /\ reboot = "no" /\ Paced /\ calm' /\ Paced'
  BY CalmSteps DEF OnCourse, Paced
<1>2. seq' \in SeqNums
  BY NextNetInv DEF NetInv, IInv, TypeOK
<1>3. CASE Stopped
  BY <1>3, StoppedKept
<1>4. CASE state \in {"INIT", "DSCV", "JOIN"} /\ pc = "ready"
  <2>1. CASE ApProceeds
    BY <1>1, <1>2, <1>4, <2>1, StartProceeds DEF OnCourse
  <2>2. ~Clock /\ \A p \in wire : ~ApReceives(p)
    BY <1>4 DEF Clock, Tick, Waiting, Sleeping, ApReceives, Receive, DscvRecv, SulkRecv,
       JoinRecvOther, JoinRecvRep, RunRecv, WaitRecv, RecovRecv, RetryRecv,
       Receiving
  <2>3. CASE UNCHANGED vars
    BY <1>1, <1>4, <2>3 DEF OnCourse, vars
  <2> QED
    BY <1>1, <2>1, <2>2, <2>3, CalmSteps, CalmAnswer
<1>5. CASE Exchange("DSCV", "DSCV_REQ")
  BY <1>5, ExchangeKept
<1>6. CASE Exchange("JOIN", "JOIN_REQ")
  BY <1>6, ExchangeKept
<1>7. CASE InContact
  BY <1>1, <1>7, ContactKept DEF Settled, OnCourse
<1> QED
  BY <1>3, <1>4, <1>5, <1>6, <1>7 DEF OnCourse

(* For every delay and every timing with waits longer than a round trip:   *)
(* once nothing is lost, an attempt to join succeeds at once and the       *)
(* service it leads to lasts (dscv.c, join.c, run.c).                      *)
THEOREM JoinsAtOnceTheorem == NetSpec => JoinsAtOnce
<1>1. Attempt => OnCourse
  BY DEF Attempt, OnCourse
<1>2. OnCourse => state \in {"INIT", "DSCV", "JOIN", "RUN"} \/ Stopped
  BY DEF OnCourse, Exchange, Receiving, InContact
<1>3. NetInv /\ OnCourse /\ [NetNext]_allVars => OnCourse'
  BY CourseKept
<1> QED
  BY <1>1, <1>2, <1>3, NetInvariant, PTL DEF NetSpec, JoinsAtOnce

(* And in RUN, however it was reached, answers in time keep the count from *)
(* ever ending the contact (run.c).                                        *)
THEOREM KeepsContactTheorem == NetSpec => KeepsContact
<1>1. NetInv /\ Answered => Settled
  BY DEF Answered, Settled, InContact, Stopped, Receiving, NetInv, IInv, TypeOK,
     Points, OneSocket, Service
<1>2. Settled => state = "RUN"
  BY DEF Settled, InContact
<1>3. NetInv /\ Settled /\ [NetNext]_allVars => Settled'
  BY ContactKept DEF Settled
<1> QED
  BY <1>1, <1>2, <1>3, NetInvariant, PTL DEF NetSpec, KeepsContact
=============================================================================
