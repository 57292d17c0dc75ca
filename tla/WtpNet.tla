------------------------------- MODULE WtpNet -------------------------------
(***************************************************************************)
(* The AP of Wtp with a controller and a network instead of an arbitrary   *)
(* environment.  A datagram travels for at most Delay ticks; it may be     *)
(* lost, overtaken or delivered again, and lies longer in the socket of an *)
(* AP that sleeps.  The controller is known from what the AP expects of    *)
(* it: it answers a request with the reply of the same number, refuses     *)
(* where a reply can refuse, may ask for a reboot, may be down, and        *)
(* forgets nothing that is on its way.                                     *)
(*                                                                         *)
(* At some point the environment may become calm: from there on nothing is *)
(* lost or sent twice, the controller is up and willing, and no call of    *)
(* the AP fails.                                                           *)
(***************************************************************************)
EXTENDS Wtp

CONSTANTS
  Delay,       \* ticks a datagram travels at most, each way
  MaxWire,     \* bound: what is sent while so many datagrams travel is lost
  JoinBodies,  \* what an accepting JOIN-REP of the controller carries
  Horizon      \* bound: where the count down stops

ASSUME DelayAssumption == Delay \in Nat /\ MaxWire \in Nat /\ Horizon \in Nat

Answer(val) == <<[type |-> "RESCODE", val |-> val]>>
ASSUME AnswerAssumption ==
  JoinBodies \cup {<<>>, Answer(ResultOK), Answer(ResultFailed)} \subseteq Bodies

VARIABLES
  wire,   \* the datagrams on their way, with their age
  acUp,   \* whether the controller is up
  calm,   \* whether the environment has become calm
  down,   \* history: ticks since the controller went down, 0 while it is up
  slept,  \* history: how many of these the AP slept in front of a reboot
  tried   \* history: whether since then WAIT or RECOV came to their reboot

outage == <<down, slept, tried>>
netVars == <<wire, acUp, calm, outage>>
allVars == <<vars, netVars>>

Ages == 0 .. Delay
(* Requests the controller answers.  To a REBOOT-REP it says nothing.      *)
Awaiting == {r \in Requests : r.code # "REBOOT_REP"}
Packets == [to : {"ac"}, msg : Awaiting, age : Ages]
             \cup [to : {"ap"}, msg : Msg, age : Ages]
Packet(to, m) == [to |-> to, msg |-> m, age |-> 0]

NetTypeOK ==
  /\ wire \subseteq Packets
  /\ acUp \in BOOLEAN /\ calm \in BOOLEAN
  /\ down \in Nat /\ slept \in Nat /\ tried \in BOOLEAN

NetInit ==
  /\ Init
  /\ wire = {} /\ acUp = TRUE /\ calm = FALSE
  /\ down = 0 /\ slept = 0 /\ tried = FALSE

-----------------------------------------------------------------------------
(* The network                                                             *)

(* The datagrams of new join those of w.  Until it is calm they may be lost*)
(* instead, and are when too many travel.                                  *)
Put(w, new) ==
  \/ wire' = w \cup new /\ (calm \/ Cardinality(w \cup new) <= MaxWire)
  \/ wire' = w /\ ~calm

(* A tick passes for those on their way; who travelled for Delay is lost,  *)
(* or lies in the socket of an AP that sleeps until it looks there again.  *)
Queued(w) == {q \in w : q.to = "ap" /\ q.age = Delay /\ pc = "sleep"}
Older_Late(w) == {[p EXCEPT !.age = @ + 1] : p \in w}
Older(w) ==
  {[p EXCEPT !.age = @ + 1] : p \in {q \in w : q.age < Delay}} \cup Queued(w)

(* Once calm, a datagram that has someone to take it arrives in time.      *)
Overdue(p) == p.age = Delay /\ (p.to = "ac" \/ Receiving(state))

Lose ==
  /\ ~calm
  /\ \E p \in wire : wire' = wire \ {p}
  /\ UNCHANGED <<vars, acUp, calm, outage>>

-----------------------------------------------------------------------------
(* The AP                                                                  *)

(* What a failing call of the AP would do does not happen.                 *)
Succeeds ==
  /\ pc' # "exit"
  /\ pc = "ready" /\ state \in {"DSCV", "JOIN"} => pc' = "recv"
  /\ pc = "ready" /\ pc' = "recv" /\ state \in {"WAIT", "RECOV"} => sent' # <<>>
  /\ state = "RUN" /\ state' = "WAIT" => LostContact

(* A new socket has a new port: answers to what the old one sent, and what *)
(* is still to be answered, reach nobody.                                  *)
Reachable == IF pc = "ready" /\ state \in {"DSCV", "JOIN"} THEN {} ELSE wire

Requested(out) ==
  {Packet("ac", out[i]) : i \in {j \in DOMAIN out : out[j] \in Awaiting}}

(* The AP goes on by itself; what it sends is on its way to the AC.        *)
ApProceeds ==
  /\ Proceed /\ ~Waiting /\ ~Sleeping
  /\ calm => Succeeds
  /\ Put(Reachable, Requested(sent'))
  /\ tried' = (tried \/ (~acUp /\ pc = "sleep" /\ state # "RUN"))
  /\ UNCHANGED <<acUp, calm, down, slept>>

(* The AP receives a datagram, which may arrive once more later.           *)
ApReceives(p) ==
  /\ p.to = "ap"
  /\ Receive(p.msg)
  /\ calm /\ state = "JOIN" /\ Matches(p.msg) /\ p.msg.code = "JOIN_REP"
       /\ p.msg.body \in JoinBodies
       => state' = "RUN" \/ pc' = "undef"
  /\ \/ wire' = wire \ {p}
     \/ ~calm /\ UNCHANGED wire
  /\ UNCHANGED <<acUp, calm, outage>>

ApFails ==
  /\ ~calm
  /\ SelectFails \/ Interrupt
  /\ UNCHANGED netVars

(* The reboot the AP asked for; its socket is gone.                        *)
ApRestarts ==
  /\ Restart
  /\ wire' = {} /\ tried' = FALSE
  /\ UNCHANGED <<acUp, calm, down, slept>>

-----------------------------------------------------------------------------
(* The controller                                                          *)

RepCode(c) ==
  CASE c = "DSCV_REQ" -> "DSCV_REP" [] c = "JOIN_REQ" -> "JOIN_REP"
    [] c = "ECHO_REQ" -> "ECHO_REP" [] c = "RECONN_REQ" -> "RECONN_REP"
    [] c = "RECOV_REQ" -> "RECOV_REP"

Accepting(c) ==
  CASE c = "JOIN_REQ" -> JoinBodies
    [] c \in {"RECONN_REQ", "RECOV_REQ"} -> {Answer(ResultOK)}
    [] c \in {"DSCV_REQ", "ECHO_REQ"} -> {<<>>}

Reply(c, n, b) ==
  [from |-> AC, head |-> TRUE, code |-> c, seq |-> n, body |-> b]

Refusing(c) ==
  IF calm \/ c \in {"DSCV_REQ", "ECHO_REQ"} THEN {} ELSE {Answer(ResultFailed)}

AcAnswers(p) ==
  /\ acUp /\ p.to = "ac"
  /\ \E b \in Accepting(p.msg.code) \cup Refusing(p.msg.code) :
       Put(wire \ {p},
         {Packet("ap", Reply(RepCode(p.msg.code), p.msg.seq, b))})
  /\ UNCHANGED <<vars, acUp, calm, outage>>

(* The AP looks at the code of a REBOOT-REQ only.                          *)
AcAsksReboot ==
  /\ acUp /\ ~calm
  /\ Put(wire, {Packet("ap", Reply("REBOOT_REQ", 0, <<>>))})
  /\ UNCHANGED <<vars, acUp, calm, outage>>

AcStops ==
  /\ acUp /\ ~calm
  /\ acUp' = FALSE
  /\ UNCHANGED <<vars, wire, calm, outage>>

AcStarts ==
  /\ ~acUp
  /\ acUp' = TRUE /\ down' = 0 /\ slept' = 0 /\ tried' = FALSE
  /\ UNCHANGED <<vars, wire, calm>>

-----------------------------------------------------------------------------

(* A tick for everyone: what has travelled for Delay ticks is lost.        *)
Clock ==
  /\ Tick
  /\ calm => \A p \in wire : ~Overdue(p)
  /\ wire' = Older(wire)
  /\ \/ /\ ~acUp /\ down < Horizon
        /\ down' = down + 1
        /\ slept' = IF Sleeping THEN slept + 1 ELSE slept
     \/ (acUp \/ down >= Horizon) /\ UNCHANGED <<down, slept>>
  /\ UNCHANGED <<acUp, calm, tried>>

BecomesCalm ==
  /\ acUp /\ ~calm
  /\ calm' = TRUE
  /\ UNCHANGED <<vars, wire, acUp, outage>>

NetNext ==
  \/ ApProceeds \/ ApFails \/ ApRestarts
  \/ \E p \in wire : ApReceives(p) \/ AcAnswers(p)
  \/ Lose
  \/ AcAsksReboot \/ AcStops \/ AcStarts
  \/ Clock \/ BecomesCalm

NetSpec == NetInit /\ [][NetNext]_allVars

(* The AP is scheduled, the clock runs, a reboot asked for comes; once     *)
(* calm, datagrams arrive and are answered.                                *)
NetFairness ==
  /\ WF_allVars(ApProceeds \/ Clock)
  /\ WF_allVars(ApRestarts)
  /\ WF_allVars(calm /\ \E p \in wire : ApReceives(p))
  /\ WF_allVars(calm /\ \E p \in wire : AcAnswers(p))
FairNetSpec == NetSpec /\ NetFairness

-----------------------------------------------------------------------------

(* A controller that is gone is noticed: however late or often its last    *)
(* replies arrive, the AP is out of RUN after the time they travel and     *)
(* EchoMax + 1 ECHO times, not counting what it slept: its REBOOT-REQs and *)
(* their copies cost a sleep each, in which the time left stands still.    *)
DeadAcNoticed ==
  state = "RUN" => down <= Delay + (EchoMax + 1) * echo + slept

(* And it is not taken for recoverable for ever: stale RECONN-REPs and     *)
(* RECOV-REPs keep the AP from the reboot command of WAIT or RECOV no      *)
(* longer than they travel or lay in the socket while it slept.  The sleep *)
(* in front of that command (see ContactBound) is counted in slept.        *)
DeadAcEscalates ==
  ~tried =>
    /\ state = "WAIT" =>
         down <= Delay + (EchoMax + 1) * echo + WaitTries * WaitTime + slept
    /\ state = "RECOV" => down <= Delay + RecovTries * RecovTime + slept

(* Whatever went wrong before, with a calm environment the AP ends up in   *)
(* RUN and stays there: answers in time never let the count lose contact,  *)
(* and leftovers of earlier exchanges do not keep it from joining.         *)
Stabilises == calm ~> [](state = "RUN" \/ Stopped)

(* An answer comes before the wait for it ends: each wait takes longer     *)
(* than a round trip, and RUN sends an ECHO-REQ before it gives up.        *)
Paced ==
  /\ EchoMax > 0 /\ DscvTime > 2 * Delay /\ JoinTime > 2 * Delay
  /\ \A b \in JoinBodies : \A time \in EchoTimes \cup {0} :
       Parsed(b, Len(b) + 1, "ECHO", time) => time > 2 * Delay

(* An AP that starts or begins a discovery, with no reboot to come.        *)
Attempt ==
  /\ calm /\ Paced /\ reboot = "no"
  /\ state \in {"INIT", "DSCV"} /\ pc = "ready"

(* With a calm environment each attempt is the last one: whatever is left  *)
(* of earlier exchanges, the AP neither sulks nor loses contact again.     *)
JoinsAtOnce ==
  [](Attempt => [](state \in {"INIT", "DSCV", "JOIN", "RUN"} \/ Stopped))

(* An AP in RUN with no answer missing, no reboot to come and none being   *)
(* handled, however it got there.                                          *)
Answered ==
  /\ calm /\ EchoMax > 0 /\ echo > 2 * Delay /\ reboot = "no"
  /\ state = "RUN" /\ ~Stopped /\ pc # "sleep" /\ echonum = 0
  /\ \A p \in wire : p.msg.code # "REBOOT_REQ"

(* From there on the count, which any ECHO-REP with any number clears and  *)
(* the timer ends by ==, never loses contact with a controller that works. *)
KeepsContact == [](Answered => [](state = "RUN"))
=============================================================================
