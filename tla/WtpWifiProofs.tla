---------------------------- MODULE WtpWifiProofs ----------------------------
(***************************************************************************)
(* WtpWifi, for every number of interfaces and configurations, every table *)
(* and every choice of what fails.                                         *)
(***************************************************************************)
EXTENDS WtpWifi, TLAPS, SequenceTheorems

-----------------------------------------------------------------------------
(* Sequences                                                               *)

LEMMA Shortened ==
  ASSUME NEW S, NEW s \in Seq(S), NEW i \in 1 .. Len(s)
  PROVE  /\ RemoveAt(s, i) \in Seq(S)
         /\ Len(RemoveAt(s, i)) = Len(s) - 1
         /\ \A k \in 1 .. Len(s) - 1 :
              RemoveAt(s, i)[k] = IF k < i THEN s[k] ELSE s[k + 1]
<1> DEFINE a == SubSeq(s, 1, i - 1)
           b == SubSeq(s, i + 1, Len(s))
<1>1. Len(s) \in Nat /\ i \in Nat /\ i >= 1 /\ i <= Len(s)
  BY LenProperties
<1>2. /\ a \in Seq(S) /\ Len(a) = i - 1
      /\ \A k \in 1 .. i - 1 : a[k] = s[k]
  <2>1. \A k \in 1 .. i - 1 : s[k] \in S
    BY <1>1, ElementOfSeq
  <2> QED
    BY <1>1, <2>1, SubSeqProperties
<1>3. /\ b \in Seq(S) /\ Len(b) = Len(s) - i
      /\ \A k \in 1 .. Len(s) - i : b[k] = s[i + k]
  <2>1. \A k \in i + 1 .. Len(s) : s[k] \in S
    BY <1>1, ElementOfSeq
  <2>2. /\ b \in Seq(S)
        /\ Len(b) = IF i + 1 <= Len(s) THEN Len(s) - (i + 1) + 1 ELSE 0
        /\ \A k \in 1 .. Len(s) - (i + 1) + 1 : b[k] = s[(i + 1) + k - 1]
    BY <1>1, <2>1, SubSeqProperties
  <2> QED
    BY <1>1, <2>2
<1> HIDE DEF a, b
<1>4. /\ a \o b \in Seq(S) /\ Len(a \o b) = Len(a) + Len(b)
      /\ \A k \in 1 .. Len(a) + Len(b) :
           (a \o b)[k] = IF k <= Len(a) THEN a[k] ELSE b[k - Len(a)]
  BY <1>2, <1>3, ConcatProperties
<1>5. ASSUME NEW k \in 1 .. Len(s) - 1
      PROVE  (a \o b)[k] = IF k < i THEN s[k] ELSE s[k + 1]
  <2>1. CASE k < i
    BY <1>1, <1>2, <1>3, <1>4, <2>1
  <2>2. CASE ~(k < i)
    <3>1. (a \o b)[k] = b[k - (i - 1)]
      BY <1>1, <1>2, <1>3, <1>4, <2>2
    <3>2. k - (i - 1) \in 1 .. Len(s) - i /\ i + (k - (i - 1)) = k + 1
      BY <1>1, <2>2
    <3>3. b[k - (i - 1)] = s[k + 1]
      BY <1>3, <3>2
    <3> QED
      BY <2>2, <3>1, <3>3
  <2> QED
    BY <2>1, <2>2
<1>6. RemoveAt(s, i) = a \o b
  BY DEF RemoveAt, a, b
<1>7. Len(a \o b) = Len(s) - 1
  BY <1>1, <1>2, <1>3, <1>4
<1> QED
  BY <1>4, <1>5, <1>6, <1>7, Zenon

LEMMA Appended ==
  ASSUME NEW S, NEW s \in Seq(S), NEW e \in S
  PROVE  /\ Append(s, e) \in Seq(S) /\ Len(Append(s, e)) = Len(s) + 1
         /\ \A k \in 1 .. Len(s) + 1 :
              Append(s, e)[k] = IF k <= Len(s) THEN s[k] ELSE e
<1>1. /\ Append(s, e) \in Seq(S) /\ Len(Append(s, e)) = Len(s) + 1
      /\ \A k \in 1 .. Len(s) : Append(s, e)[k] = s[k]
      /\ Append(s, e)[Len(s) + 1] = e
      /\ Len(s) \in Nat
  BY AppendProperties, LenProperties
<1> QED
  BY <1>1

-----------------------------------------------------------------------------
(* Types                                                                   *)

(* The entry that is written has a place in the table.                     *)
Writing == act = "write" => cur \in Entry /\ Len(table) < MaxTable
TInv == TypeOK /\ Writing

LEMMA InitT == Init => TInv
<1> SUFFICES ASSUME Init PROVE TInv
  OBVIOUS
<1>1. table \in Seq(Entry) /\ Len(table) = 0 /\ scripts \in Seq(Script)
  BY EmptySeq DEF Init
<1>2. pos \in 1 .. MaxTable + 1 /\ Len(table) <= MaxTable
  BY <1>1, BoundAssumption DEF Init
<1> QED
  BY <1>1, <1>2 DEF Init, TInv, TypeOK, Writing, Main, Handler

LEMMA CmdT ==
  ASSUME TypeOK, NEW do \in {"start", "stop"}, NEW w \in Wlans, NEW ok \in BOOLEAN,
         DoCMD(do, w, ok)
  PROVE  (scripts \in Seq(Script) /\ told \subseteq Wlans)'
         /\ faults' \subseteq {"refused", "print", "flush", "start", "stop",
                               "killed", "script", "overtaken"}
<1>1. [do |-> do, wlan |-> w] \in Script
  BY DEF Script
<1>2. Append(scripts, [do |-> do, wlan |-> w]) \in Seq(Script)
  BY <1>1, AppendProperties DEF TypeOK
<1> QED
  BY <1>2 DEF DoCMD, Launch, Failed, TypeOK

(* A loop that has not come to the end of the table is at an entry of it.  *)
LEMMA PlaceT ==
  ASSUME TypeOK, pos <= Len(table)
  PROVE  /\ pos \in 1 .. Len(table) /\ table[pos] \in Entry
         /\ table[pos].wlan \in Wlans
         /\ pos + 1 \in 1 .. MaxTable + 1 /\ Len(table) + 1 \in 1 .. MaxTable + 1
<1>1. /\ pos \in Nat /\ pos >= 1 /\ Len(table) \in Nat /\ Len(table) <= MaxTable
      /\ MaxTable \in Nat
  BY BoundAssumption, LenProperties DEF TypeOK
<1>2. pos \in 1 .. Len(table)
  BY <1>1
<1>3. table[pos] \in Entry
  BY <1>2, ElementOfSeq DEF TypeOK
<1> QED
  BY <1>1, <1>2, <1>3 DEF Entry

LEMMA NextT == TInv /\ [Next]_vars => TInv'
<1> SUFFICES ASSUME TInv, [Next]_vars PROVE TInv'
  OBVIOUS
<1> USE DEF Main, Handler
<1>0. Len(table) \in Nat /\ pos \in Nat /\ MaxTable \in Nat
  BY BoundAssumption, LenProperties DEF TInv, TypeOK
<1>1. ASSUME NEW e \in Entry, WriteOpen(e) PROVE TInv'
  BY <1>1 DEF TInv, TypeOK, Writing, WriteOpen, At, Entry
<1>2. CASE WriteDone
  <2>1. cur \in Entry /\ Len(table) < MaxTable
    BY <1>2 DEF TInv, Writing, WriteDone, At
  <2>2. Append(table, cur) \in Seq(Entry) /\ Len(Append(table, cur)) <= MaxTable
    BY <1>0, <2>1, AppendProperties DEF TInv, TypeOK
  <2> QED
    BY <1>2, <2>1, <2>2 DEF TInv, TypeOK, Writing, WriteDone, At, Failed
<1>3. CASE WriteFails
  BY <1>3 DEF TInv, TypeOK, Writing, WriteFails, At, Failed
<1>4. CASE OpenStart \/ OpenEnd \/ Interrupt \/ Warn \/ LogBegin \/ LogEnd
  <2>1. pos' \in 1 .. MaxTable + 1
    <3>1. 1 \in 1 .. MaxTable + 1
      BY <1>0
    <3> QED
      BY <1>4, <3>1 DEF TInv, TypeOK, OpenStart, OpenEnd, Interrupt, Warn, LogBegin,
         LogEnd
  <2>2. /\ act' \in Main \cup Handler /\ held' \in BOOLEAN
        /\ act' = "write" => act = "write"
    BY <1>4 DEF TInv, TypeOK, OpenStart, OpenEnd, Interrupt, Warn, LogBegin, LogEnd
  <2>3. UNCHANGED <<table, cur, file, told, scripts, air, faults>>
    BY <1>4 DEF OpenStart, OpenEnd, Interrupt, Warn, LogBegin, LogEnd
  <2> QED
    BY <2>1, <2>2, <2>3 DEF TInv, TypeOK, Writing
<1>5. CASE OpenStep
  <2>1. table[pos].wlan \in Wlans /\ pos + 1 \in 1 .. MaxTable + 1
    BY <1>5, PlaceT DEF OpenStep, TInv
  <2>2. (scripts \in Seq(Script) /\ told \subseteq Wlans)'
        /\ faults' \subseteq {"refused", "print", "flush", "start", "stop",
                              "killed", "script", "overtaken"}
    BY <1>5, <2>1, CmdT DEF OpenStep, TInv
  <2>3. pos' \in 1 .. MaxTable + 1 /\ act' \in {"open", "join"}
    BY <1>5, <2>1 DEF OpenStep, At, TInv, TypeOK
  <2> QED
    BY <1>5, <2>2, <2>3 DEF OpenStep, TInv, TypeOK, Writing
<1>6. CASE CloseStep
  <2>1. table[pos].wlan \in Wlans /\ pos + 1 \in 1 .. MaxTable + 1
        /\ Len(table) + 1 \in 1 .. MaxTable + 1
    BY <1>6, PlaceT DEF CloseStep, TInv
  <2>2. (scripts \in Seq(Script) /\ told \subseteq Wlans)'
        /\ faults' \subseteq {"refused", "print", "flush", "start", "stop",
                              "killed", "script", "overtaken"}
    BY <1>6, <2>1, CmdT DEF CloseStep, TInv
  <2>3. pos' \in 1 .. MaxTable + 1
    BY <1>6, <2>1 DEF CloseStep
  <2> QED
    BY <1>6, <2>2, <2>3 DEF CloseStep, TInv, TypeOK, Writing
<1>7. CASE CloseEnd
  BY <1>7 DEF CloseEnd, TInv, TypeOK, Writing
<1>8. CASE RunScript
  <2>1. PICK i \in DOMAIN scripts :
          /\ scripts' = RemoveAt(scripts, i)
          /\ \/ air' = [air EXCEPT ![scripts[i].wlan] =
                          IF scripts[i].do = "start" THEN Served(scripts[i].wlan)
                          ELSE "off"]
             \/ UNCHANGED air
          /\ faults' \subseteq faults \cup {"script", "overtaken"}
    BY <1>8 DEF RunScript, Failed
  <2>2. i \in 1 .. Len(scripts) /\ scripts[i] \in Script
    BY <2>1, ElementOfSeq DEF TInv, TypeOK
  <2>3. scripts' \in Seq(Script)
    BY <2>1, <2>2, Shortened DEF TInv, TypeOK
  <2>4. Served(scripts[i].wlan) \in Cfgs \cup {"off"}
    BY DEF Served
  <2>5. air' \in [Wlans -> Cfgs \cup {"off"}]
    BY <2>1, <2>4 DEF TInv, TypeOK
  <2> QED
    BY <1>8, <2>1, <2>3, <2>5 DEF RunScript, TInv, TypeOK, Writing
<1>9. CASE UNCHANGED vars
  BY <1>9 DEF vars, TInv, TypeOK, Writing
<1> QED
  BY <1>1, <1>2, <1>3, <1>4, <1>5, <1>6, <1>7, <1>8, <1>9 DEF Next

-----------------------------------------------------------------------------
(* The plan of WtpRadio                                                    *)

(* What was told to serve is in the table, and so far as wtpWiFiOpen has   *)
(* come, and then all of it, was told.                                     *)
RInv ==
  /\ told \subseteq Indexes
  /\ act = "open" => \A i \in 1 .. pos - 1 : i <= Len(table) /\ table[i].wlan \in told
  /\ act = "run" => told = Indexes

LEMMA IndexesT ==
  ASSUME TypeOK
  PROVE  /\ Indexes \subseteq Wlans
         /\ Indexes = {table[i].wlan : i \in 1 .. Len(table)}
<1>1. DOMAIN table = 1 .. Len(table) /\ \A i \in 1 .. Len(table) : table[i] \in Entry
  BY ElementOfSeq, LenProperties DEF TypeOK
<1> QED
  BY <1>1 DEF Indexes, Entry

LEMMA IndexesGrow ==
  ASSUME TypeOK, NEW e \in Entry, table' = Append(table, e)
  PROVE  Indexes' = Indexes \cup {e.wlan}
<1>1. /\ table \in Seq(Entry) /\ Len(table) \in Nat
      /\ table' \in Seq(Entry) /\ Len(table') = Len(table) + 1
      /\ \A k \in 1 .. Len(table) + 1 :
           table'[k] = IF k <= Len(table) THEN table[k] ELSE e
  BY Appended, LenProperties DEF TypeOK
<1>2. DOMAIN table = 1 .. Len(table) /\ DOMAIN table' = 1 .. Len(table) + 1
  BY <1>1, LenProperties
<1>3. ASSUME NEW k \in 1 .. Len(table) + 1 PROVE table'[k].wlan \in Indexes \cup {e.wlan}
  <2>1. CASE k <= Len(table)
    BY <1>1, <1>2, <1>3, <2>1 DEF Indexes
  <2>2. CASE ~(k <= Len(table))
    BY <1>1, <1>3, <2>2
  <2> QED
    BY <2>1, <2>2
<1>4. ASSUME NEW k \in 1 .. Len(table) PROVE table[k].wlan \in Indexes'
  <2>1. k \in 1 .. Len(table) + 1 /\ table'[k] = table[k]
    BY <1>1, <1>4
  <2> QED
    BY <1>2, <2>1 DEF Indexes
<1>5. e.wlan \in Indexes'
  <2>1. Len(table) + 1 \in 1 .. Len(table) + 1 /\ table'[Len(table) + 1] = e
    BY <1>1
  <2> QED
    BY <1>2, <2>1 DEF Indexes
<1>6. \A x \in Indexes' : x \in Indexes \cup {e.wlan}
  BY <1>2, <1>3 DEF Indexes
<1>7. \A x \in Indexes : x \in Indexes'
  BY <1>2, <1>4 DEF Indexes
<1> QED
  BY <1>5, <1>6, <1>7

LEMMA InitRadio == Init => RInv /\ Radio!Init
<1> SUFFICES ASSUME Init PROVE RInv /\ Radio!Init
  OBVIOUS
<1>1. Indexes = {} /\ told = {} /\ act = "join"
  BY DEF Init, Indexes
<1>2. Phase = "joining"
  BY <1>1 DEF Phase, Handler
<1>3. Radio!Init
  BY <1>1, <1>2 DEF Radio!Init
<1>4. RInv
  BY <1>1 DEF RInv
<1> QED
  BY <1>3, <1>4

LEMMA NextRadio ==
  TInv /\ RInv /\ [Next]_vars => RInv' /\ [Radio!Next]_(Radio!vars)
<1> SUFFICES ASSUME TInv, RInv, [Next]_vars
             PROVE  RInv' /\ [Radio!Next]_(Radio!vars)
  OBVIOUS
<1> USE DEF Main, Handler
<1>t. /\ TypeOK /\ Indexes \subseteq Wlans /\ Len(table) \in Nat /\ pos \in Nat
      /\ pos >= 1 /\ Indexes = {table[i].wlan : i \in 1 .. Len(table)}
  BY IndexesT, LenProperties DEF TInv, TypeOK
(* Steps that neither touch the table nor give a command.                  *)
<1>q. ASSUME UNCHANGED <<table, told>>, act' = act, act # "open" \/ UNCHANGED pos
      PROVE  RInv' /\ [Radio!Next]_(Radio!vars)
  <2>1. Indexes' = Indexes /\ Phase' = Phase
    BY <1>q DEF Indexes, Phase
  <2> QED
    BY <1>q, <2>1 DEF RInv, Radio!vars
<1>1. ASSUME NEW e \in Entry, WriteOpen(e) PROVE RInv' /\ [Radio!Next]_(Radio!vars)
  BY <1>1 DEF WriteOpen, At, RInv, Indexes, Phase, Radio!vars
<1>2. CASE WriteDone
  <2>1. Indexes' = Indexes \cup {cur.wlan} /\ cur.wlan \in Wlans
    <3>1. cur \in Entry /\ table' = Append(table, cur)
      BY <1>2 DEF WriteDone, At, TInv, Writing
    <3> QED
      BY <1>t, <3>1, IndexesGrow DEF Entry
  <2>2. act = "write" /\ act' = "join" /\ told' = told
    BY <1>2 DEF WriteDone, At
  <2>3. RInv'
    BY <2>1, <2>2 DEF RInv
  <2>4. Radio!Collect
    BY <1>t, <2>1, <2>2 DEF Radio!Collect, Phase, RInv
  <2> QED
    BY <2>3, <2>4 DEF Radio!Next
<1>3. CASE WriteFails \/ OpenStart
  <2>1. /\ act \in {"join", "write"} /\ act' \in {"join", "open"}
        /\ UNCHANGED <<table, told>> /\ (act' = "open" => pos' = 1)
    BY <1>3 DEF WriteFails, OpenStart, At
  <2>2. Indexes' = Indexes /\ Phase' = Phase
    BY <2>1 DEF Indexes, Phase
  <2> QED
    BY <2>1, <2>2 DEF RInv, Radio!vars
<1>4. CASE OpenStep
  <2> DEFINE w == table[pos].wlan
  <2>1. /\ act = "open" /\ pos \in 1 .. Len(table) /\ w \in Indexes
    BY <1>4, <1>t DEF OpenStep, At
  <2>2. /\ told' = told \cup {w} /\ table' = table
        /\ act' \in {"open", "join"} /\ (act' = "open" => pos' = pos + 1)
    BY <1>4, <2>1 DEF OpenStep, DoCMD
  <2>3. Indexes' = Indexes
    BY <2>2 DEF Indexes
  <2>4. act' = "open" =>
          \A i \in 1 .. pos' - 1 : i <= Len(table') /\ table'[i].wlan \in told'
    <3> SUFFICES ASSUME act' = "open", NEW i \in 1 .. pos' - 1
                 PROVE  i <= Len(table) /\ table[i].wlan \in told \cup {w}
      BY <2>2
    <3>0. pos' = pos + 1
      BY <2>2
    <3>1. i \in 1 .. pos
      BY <1>t, <3>0
    <3>2. CASE i = pos
      BY <2>1, <3>2
    <3>3. CASE i # pos
      <4>1. i \in 1 .. pos - 1
        BY <1>t, <3>1, <3>3
      <4> QED
        BY <2>1, <4>1 DEF RInv
    <3> QED
      BY <3>2, <3>3
  <2>5. told' \subseteq Indexes
    BY <2>1, <2>2 DEF RInv
  <2> HIDE DEF w
  <2>6. RInv'
    BY <2>2, <2>3, <2>4, <2>5 DEF RInv
  <2>7. Radio!Collect
    BY <1>t, <2>1, <2>2, <2>3, <2>5 DEF Radio!Collect, Phase
  <2> QED
    BY <2>6, <2>7 DEF Radio!Next
<1>5. CASE OpenEnd
  <2>1. /\ act = "open" /\ pos > Len(table) /\ act' = "run"
        /\ UNCHANGED <<table, told>>
    BY <1>5 DEF OpenEnd, At
  <2>2. told = Indexes
    <3>1. \A i \in 1 .. Len(table) : i \in 1 .. pos - 1
      BY <1>t, <2>1
    <3>2. \A i \in 1 .. Len(table) : table[i].wlan \in told
      BY <2>1, <3>1 DEF RInv
    <3> QED
      BY <1>t, <3>2 DEF RInv
  <2>3. Indexes' = Indexes
    BY <2>1 DEF Indexes
  <2>4. RInv'
    BY <2>1, <2>2, <2>3 DEF RInv
  <2>5. Radio!Serve
    BY <1>t, <2>1, <2>2, <2>3 DEF Radio!Serve, Phase
  <2> QED
    BY <2>4, <2>5 DEF Radio!Next
<1>6. CASE Interrupt \/ Warn \/ CloseEnd
  <2>1. act' \in Handler /\ UNCHANGED <<table, told>>
    BY <1>6 DEF Interrupt, Warn, CloseEnd
  <2>2. Indexes' = Indexes
    BY <2>1 DEF Indexes
  <2>3. RInv'
    BY <2>1, <2>2 DEF RInv
  <2>4. Radio!TakeDown
    BY <2>1, <2>2 DEF Radio!TakeDown, Phase
  <2> QED
    BY <2>3, <2>4 DEF Radio!Next
<1>7. CASE CloseStep
  <2>1. act = "close" /\ act' = act /\ table' = table /\ told' \subseteq told
    BY <1>7 DEF CloseStep, DoCMD
  <2>2. Indexes' = Indexes
    BY <2>1 DEF Indexes
  <2>3. RInv'
    BY <2>1, <2>2 DEF RInv
  <2>4. Radio!TakeDown
    BY <2>1, <2>2 DEF Radio!TakeDown, Phase
  <2> QED
    BY <2>3, <2>4 DEF Radio!Next
<1>8. CASE LogBegin \/ LogEnd \/ RunScript
  BY <1>8, <1>q DEF LogBegin, LogEnd, RunScript
<1>9. CASE UNCHANGED vars
  BY <1>9, <1>q DEF vars
<1> QED
  BY <1>1, <1>2, <1>3, <1>4, <1>5, <1>6, <1>7, <1>8, <1>9 DEF Next

-----------------------------------------------------------------------------
(* The theorems                                                            *)

(* The indexes of the loops stay in the table, and what is on the air, in  *)
(* files and under way is what it can be (wifi.c).                         *)
THEOREM TypeTheorem == Spec => []TypeOK
<1>1. TInv => TypeOK
  BY DEF TInv
<1> QED
  BY <1>1, InitT, NextT, PTL DEF Spec

(* The handler of SIGINT is past its first record, and about to take the   *)
(* interfaces down, only when it will not wait at logClose (main.c, log.c).*)
THEOREM BlocksEarlyTheorem == Spec => []BlocksEarly
<1>1. Init => BlocksEarly
  BY DEF Init, BlocksEarly
<1>2. BlocksEarly /\ [Next]_vars => BlocksEarly'
  BY DEF BlocksEarly, Main, Handler, Next, vars, At, WriteOpen, WriteDone,
     WriteFails, OpenStart, OpenStep, OpenEnd, LogBegin, LogEnd, Interrupt, Warn, FirstRecords,
     CloseStep, CloseEnd, RunScript
<1> QED
  BY <1>1, <1>2, PTL DEF Spec

(* The commands of wifi.c, one by one, with every way for them to fail and *)
(* a SIGINT between any two, implement the plan of WtpRadio.               *)
THEOREM RadioTheorem == Spec => KeepsRadio
<1>1. Init => TInv /\ RInv /\ Radio!Init
  BY InitT, InitRadio
<1>2. TInv /\ RInv /\ [Next]_vars =>
        TInv' /\ RInv' /\ [Radio!Next]_(Radio!vars)
  BY NextT, NextRadio
<1> QED
  BY <1>1, <1>2, PTL DEF Spec, KeepsRadio, Radio!Spec
=============================================================================
