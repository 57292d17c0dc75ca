--------------------------- MODULE WtpWifiAirProofs ---------------------------
(***************************************************************************)
(* What WtpWifi leaves in the files and on the air, for every number of    *)
(* interfaces, configurations, entries of the table and scripts under way. *)
(***************************************************************************)
EXTENDS WtpWifiProofs

-----------------------------------------------------------------------------
(* The last entry for an interface                                         *)

LastOf(t, w) ==
  LET at == {i \in DOMAIN t : t[i].wlan = w}
  IN  t[CHOOSE i \in at : \A k \in at : k <= i].cfg

IsLast(t, w, i) ==
  i \in 1 .. Len(t) /\ t[i].wlan = w
    /\ \A k \in 1 .. Len(t) : t[k].wlan = w => k <= i

LEMMA LastIs ==
  ASSUME NEW t \in Seq(Entry), NEW w, NEW i, IsLast(t, w, i)
  PROVE  LastOf(t, w) = t[i].cfg
<1> DEFINE at == {k \in DOMAIN t : t[k].wlan = w}
           last == CHOOSE k \in at : \A j \in at : j <= k
<1>1. DOMAIN t = 1 .. Len(t) /\ Len(t) \in Nat
  BY LenProperties
<1>2. i \in at /\ \A j \in at : j <= i
  BY <1>1 DEF IsLast
<1>3. last \in at /\ \A j \in at : j <= last
  BY <1>2
<1>4. last = i
  BY <1>1, <1>2, <1>3
<1> QED
  BY <1>4 DEF LastOf

LEMMA LastAppended ==
  ASSUME NEW t \in Seq(Entry), NEW e \in Entry
  PROVE  /\ IsLast(Append(t, e), e.wlan, Len(t) + 1)
         /\ LastOf(Append(t, e), e.wlan) = e.cfg
         /\ \A w, i : IsLast(t, w, i) /\ w # e.wlan =>
              /\ IsLast(Append(t, e), w, i)
              /\ LastOf(Append(t, e), w) = LastOf(t, w)
<1>1. /\ Append(t, e) \in Seq(Entry) /\ Len(Append(t, e)) = Len(t) + 1
      /\ \A k \in 1 .. Len(t) + 1 :
           Append(t, e)[k] = IF k <= Len(t) THEN t[k] ELSE e
      /\ Len(t) \in Nat
  BY Appended, LenProperties
<1>2. IsLast(Append(t, e), e.wlan, Len(t) + 1)
  BY <1>1 DEF IsLast
<1>3. Append(t, e)[Len(t) + 1] = e
  BY <1>1
<1>4. ASSUME NEW w, NEW i, IsLast(t, w, i), w # e.wlan
      PROVE  /\ IsLast(Append(t, e), w, i)
             /\ LastOf(Append(t, e), w) = LastOf(t, w)
  <2>1. IsLast(Append(t, e), w, i) /\ Append(t, e)[i] = t[i]
    BY <1>1, <1>4 DEF IsLast
  <2>2. LastOf(Append(t, e), w) = Append(t, e)[i].cfg /\ LastOf(t, w) = t[i].cfg
    BY <1>1, <1>4, <2>1, LastIs
  <2> QED
    BY <2>1, <2>2
<1>5. LastOf(Append(t, e), e.wlan) = e.cfg
  <2>1. LastOf(Append(t, e), e.wlan) = Append(t, e)[Len(t) + 1].cfg
    BY <1>1, <1>2, LastIs
  <2> QED
    BY <1>3, <2>1
<1>6. \A w, i : IsLast(t, w, i) /\ w # e.wlan =>
        /\ IsLast(Append(t, e), w, i)
        /\ LastOf(Append(t, e), w) = LastOf(t, w)
  BY <1>4
<1> QED
  BY <1>2, <1>5, <1>6

-----------------------------------------------------------------------------
(* The files                                                               *)

WriteFaults == {"refused", "print", "flush"}

(* Every interface of the table has a last entry, with a configuration     *)
(* there is a template for, and its file holds it, but for the one that is *)
(* being written.                                                          *)
FilesInv ==
  /\ \A w \in Indexes : \E i : IsLast(table, w, i)
  /\ \A i \in 1 .. Len(table) : table[i].cfg \in Cfgs
  /\ act \in Main /\ faults \cap WriteFaults = {} =>
       \A w \in Indexes :
         (act = "write" /\ cur.wlan = w) \/ file[w] = LastOf(table, w)

LEMMA FilesAppend ==
  ASSUME TypeOK, FilesInv, NEW e \in Entry, e.cfg \in Cfgs,
         table' = Append(table, e)
  PROVE  /\ \A w \in Indexes' : \E i : IsLast(table', w, i)
         /\ \A i \in 1 .. Len(table') : table'[i].cfg \in Cfgs
         /\ LastOf(table', e.wlan) = e.cfg
         /\ \A w \in Indexes' : w = e.wlan \/ w \in Indexes
         /\ \A w \in Indexes : w # e.wlan => LastOf(table', w) = LastOf(table, w)
<1>1. table \in Seq(Entry) /\ Indexes' = Indexes \cup {e.wlan}
  BY IndexesGrow DEF TypeOK
<1>2. /\ IsLast(table', e.wlan, Len(table) + 1)
      /\ LastOf(table', e.wlan) = e.cfg
      /\ \A w, i : IsLast(table, w, i) /\ w # e.wlan =>
           IsLast(table', w, i) /\ LastOf(table', w) = LastOf(table, w)
  BY <1>1, LastAppended
<1>3. \A i \in 1 .. Len(table') : table'[i].cfg \in Cfgs
  <2>1. /\ Len(table') = Len(table) + 1 /\ Len(table) \in Nat
        /\ \A k \in 1 .. Len(table) + 1 :
             table'[k] = IF k <= Len(table) THEN table[k] ELSE e
    BY <1>1, Appended, LenProperties
  <2> QED
    BY <2>1 DEF FilesInv
<1>4. \A w \in Indexes : \E i : IsLast(table, w, i)
  BY DEF FilesInv
<1> QED
  BY <1>1, <1>2, <1>3, <1>4

LEMMA InitFiles == Init => FilesInv
<1> SUFFICES ASSUME Init PROVE FilesInv
  OBVIOUS
<1>1. Indexes = {} /\ Len(table) = 0
  BY DEF Init, Indexes
<1> QED
  BY <1>1 DEF FilesInv

LEMMA NextFiles == TInv /\ FilesInv /\ [Next]_vars => FilesInv'
<1> SUFFICES ASSUME TInv, FilesInv, [Next]_vars PROVE FilesInv'
  OBVIOUS
<1> USE DEF Main, Handler, WriteFaults
<1>q. ASSUME table' = table, faults \subseteq faults',
             act' \in Main => /\ act \in Main /\ file' = file
                              /\ act = "write" => act' = "write" /\ cur' = cur
      PROVE  FilesInv'
  <2>1. Indexes' = Indexes
    BY <1>q DEF Indexes
  <2>2. ASSUME act' \in Main, faults' \cap WriteFaults = {}, NEW w \in Indexes
        PROVE  (act' = "write" /\ cur'.wlan = w) \/ file'[w] = LastOf(table, w)
    <3>1. faults \cap WriteFaults = {} /\ act \in Main
      BY <1>q, <2>2
    <3> QED
      BY <1>q, <2>2, <3>1 DEF FilesInv
  <2> QED
    BY <1>q, <2>1, <2>2 DEF FilesInv
<1>1. ASSUME NEW e \in Entry, WriteOpen(e) PROVE FilesInv'
  <2>1. /\ act = "join" /\ act' = "write" /\ cur' = e /\ table' = table
        /\ faults' = faults /\ file' = [file EXCEPT ![e.wlan] = "empty"]
    BY <1>1 DEF WriteOpen, At
  <2>2. Indexes' = Indexes /\ Indexes \subseteq Wlans
    BY <2>1, IndexesT DEF Indexes, TInv
  <2>3. \A w \in Indexes : w # e.wlan => file'[w] = file[w]
    BY <2>1, <2>2 DEF TInv, TypeOK
  <2> QED
    BY <2>1, <2>2, <2>3 DEF FilesInv
<1>2. CASE WriteDone
  <2>1. /\ act = "write" /\ act' = "join" /\ cur \in Entry /\ cur.cfg \in Cfgs
        /\ table' = Append(table, cur) /\ faults \subseteq faults'
    BY <1>2 DEF WriteDone, At, TInv, Writing, Failed
  <2>2. /\ \A w \in Indexes' : \E i : IsLast(table', w, i)
        /\ \A i \in 1 .. Len(table') : table'[i].cfg \in Cfgs
        /\ LastOf(table', cur.wlan) = cur.cfg
        /\ \A w \in Indexes' : w = cur.wlan \/ w \in Indexes
        /\ \A w \in Indexes : w # cur.wlan => LastOf(table', w) = LastOf(table, w)
    BY <2>1, FilesAppend DEF TInv
  <2>3. ASSUME faults' \cap WriteFaults = {}, NEW w \in Indexes'
        PROVE  file'[w] = LastOf(table', w)
    <3>1. file' = [file EXCEPT ![cur.wlan] = cur.cfg] /\ faults \cap WriteFaults = {}
      BY <1>2, <2>1, <2>3 DEF WriteDone, Failed
    <3>2. cur.wlan \in Wlans /\ file \in [Wlans -> Cfgs \cup {"none", "empty"}]
      BY <2>1 DEF Entry, TInv, TypeOK
    <3>3. CASE w = cur.wlan
      BY <2>2, <3>1, <3>2, <3>3
    <3>4. CASE w # cur.wlan
      <4>1. w \in Indexes /\ w \in Wlans
        BY <2>2, <2>3, <3>4, IndexesT DEF TInv
      <4>2. file[w] = LastOf(table, w)
        BY <2>1, <3>1, <3>4, <4>1 DEF FilesInv
      <4> QED
        BY <2>2, <3>1, <3>2, <3>4, <4>1, <4>2
    <3> QED
      BY <3>3, <3>4
  <2> QED
    BY <2>1, <2>2, <2>3 DEF FilesInv
<1>3. CASE WriteFails
  <2>1. table' = table /\ faults' \cap WriteFaults # {}
    BY <1>3 DEF WriteFails, Failed
  <2>2. Indexes' = Indexes
    BY <2>1 DEF Indexes
  <2> QED
    BY <2>1, <2>2 DEF FilesInv
<1>4. CASE OpenStart \/ OpenEnd \/ Interrupt \/ Warn \/ LogBegin \/ LogEnd
  BY <1>4, <1>q DEF OpenStart, OpenEnd, Interrupt, Warn, LogBegin, LogEnd, At
<1>5. CASE OpenStep
  BY <1>5, <1>q DEF OpenStep, DoCMD, Failed, At
<1>6. CASE CloseStep
  BY <1>6, <1>q DEF CloseStep, DoCMD, Failed
<1>7. CASE CloseEnd
  BY <1>7, <1>q DEF CloseEnd
<1>8. CASE RunScript
  BY <1>8, <1>q DEF RunScript
<1>9. CASE UNCHANGED vars
  BY <1>9, <1>q DEF vars
<1> QED
  BY <1>1, <1>2, <1>3, <1>4, <1>5, <1>6, <1>7, <1>8, <1>9 DEF Next

(* Unless writing failed, an interface that is opened has the file of its  *)
(* last configuration, however often it was configured (wtpWiFiWirteFile). *)
THEOREM TableHasFilesTheorem == Spec => []TableHasFiles
<1>1. FilesInv => TableHasFiles
  BY DEF FilesInv, TableHasFiles, Main, WriteFaults, LastCfg, LastOf
<1>2. Init => TInv /\ FilesInv
  BY InitT, InitFiles
<1>3. TInv /\ FilesInv /\ [Next]_vars => TInv' /\ FilesInv'
  BY NextT, NextFiles
<1> QED
  BY <1>1, <1>2, <1>3, PTL DEF Spec

-----------------------------------------------------------------------------
(* What the AP serves                                                      *)

Start(w) == [do |-> "start", wlan |-> w]
Stop(w) == [do |-> "stop", wlan |-> w]
Pending(sc, s) == \E k \in 1 .. Len(sc) : sc[k] = s

(* The interfaces wtpWiFiOpen has started in the call under way, or all.   *)
Begun ==
  CASE act = "open" -> {table[i].wlan : i \in {k \in 1 .. Len(table) : k < pos}}
    [] act = "run" -> Indexes
    [] act \notin {"open", "run"} -> {}

(* While the program is up there are only scripts that start, and for what *)
(* was begun the last start is still to run, or what it found is on air.   *)
ServeInv ==
  act \in Main =>
    /\ \A k \in 1 .. Len(scripts) : scripts[k].do = "start"
    /\ faults \subseteq {"start", "overtaken"} =>
         \A w \in Begun : Pending(scripts, Start(w)) \/ air[w] = file[w]

LEMMA PendingAppend ==
  ASSUME TypeOK, NEW s \in Script, scripts' = Append(scripts, s)
  PROVE  /\ Pending(scripts', s)
         /\ \A r : Pending(scripts, r) => Pending(scripts', r)
         /\ (\A k \in 1 .. Len(scripts) : scripts[k].do = "start") /\ s.do = "start"
              => \A k \in 1 .. Len(scripts') : scripts'[k].do = "start"
<1>1. /\ Len(scripts') = Len(scripts) + 1 /\ Len(scripts) \in Nat
      /\ \A k \in 1 .. Len(scripts) + 1 :
           scripts'[k] = IF k <= Len(scripts) THEN scripts[k] ELSE s
  BY Appended, LenProperties DEF TypeOK
<1>2. Pending(scripts', s)
  <2>1. Len(scripts) + 1 \in 1 .. Len(scripts') /\ scripts'[Len(scripts) + 1] = s
    BY <1>1
  <2> QED
    BY <2>1 DEF Pending
<1>3. ASSUME NEW r, Pending(scripts, r) PROVE Pending(scripts', r)
  <2>1. PICK k \in 1 .. Len(scripts) : scripts[k] = r
    BY <1>3 DEF Pending
  <2>2. k \in 1 .. Len(scripts') /\ scripts'[k] = r
    BY <1>1, <2>1
  <2> QED
    BY <2>2 DEF Pending
<1>4. ASSUME \A k \in 1 .. Len(scripts) : scripts[k].do = "start", s.do = "start"
      PROVE  \A k \in 1 .. Len(scripts') : scripts'[k].do = "start"
  BY <1>1, <1>4
<1> QED
  BY <1>2, <1>3, <1>4

LEMMA PendingRemove ==
  ASSUME TypeOK, NEW i \in 1 .. Len(scripts), scripts' = RemoveAt(scripts, i)
  PROVE  /\ \A r : Pending(scripts, r) /\ r # scripts[i] => Pending(scripts', r)
         /\ (\A k \in 1 .. Len(scripts) : scripts[k].do = "start")
              => \A k \in 1 .. Len(scripts') : scripts'[k].do = "start"
<1>1. /\ Len(scripts') = Len(scripts) - 1 /\ Len(scripts) \in Nat
      /\ \A k \in 1 .. Len(scripts) - 1 :
           scripts'[k] = IF k < i THEN scripts[k] ELSE scripts[k + 1]
  <2>1. scripts \in Seq(Script)
    BY DEF TypeOK
  <2> QED
    BY <2>1, Shortened, LenProperties
<1>2. ASSUME NEW r, Pending(scripts, r), r # scripts[i] PROVE Pending(scripts', r)
  <2>1. PICK k \in 1 .. Len(scripts) : scripts[k] = r
    BY <1>2 DEF Pending
  <2>2. CASE k < i
    <3>1. k \in 1 .. Len(scripts') /\ scripts'[k] = r
      BY <1>1, <2>1, <2>2
    <3> QED
      BY <3>1 DEF Pending
  <2>3. CASE k > i
    <3>1. k - 1 \in 1 .. Len(scripts') /\ scripts'[k - 1] = r
      <4>1. k - 1 \in 1 .. Len(scripts) - 1 /\ ~(k - 1 < i) /\ (k - 1) + 1 = k
        BY <1>1, <2>1, <2>3
      <4> QED
        BY <1>1, <2>1, <4>1
    <3> QED
      BY <3>1 DEF Pending
  <2> QED
    BY <1>2, <2>1, <2>2, <2>3
<1>3. ASSUME \A k \in 1 .. Len(scripts) : scripts[k].do = "start"
      PROVE  \A k \in 1 .. Len(scripts') : scripts'[k].do = "start"
  BY <1>1, <1>3
<1> QED
  BY <1>2, <1>3

LEMMA InitServe == Init => ServeInv
  BY LenProperties, EmptySeq DEF Init, ServeInv, Begun

LEMMA NextServe == TInv /\ FilesInv /\ ServeInv /\ [Next]_vars => ServeInv'
<1> SUFFICES ASSUME TInv, FilesInv, ServeInv, [Next]_vars PROVE ServeInv'
  OBVIOUS
<1> USE DEF Main, Handler
<1>t. /\ TypeOK /\ Indexes \subseteq Wlans /\ Len(table) \in Nat /\ pos \in Nat
      /\ Indexes = {table[i].wlan : i \in 1 .. Len(table)}
  BY IndexesT, LenProperties DEF TInv, TypeOK
(* Steps that begin nothing and leave the background alone.                *)
<1>q. ASSUME UNCHANGED <<scripts, air, file>>, faults \subseteq faults',
             act \in Main, act' \in Main => Begun' \subseteq Begun
      PROVE  ServeInv'
  <2>1. \A r : Pending(scripts', r) <=> Pending(scripts, r)
    BY <1>q DEF Pending
  <2> QED
    BY <1>q, <2>1 DEF ServeInv
<1>h. ASSUME act' \notin Main PROVE ServeInv'
  BY <1>h DEF ServeInv
<1>n. ASSUME UNCHANGED scripts, act \in Main, act' \in {"join", "write"}
      PROVE  ServeInv'
  BY <1>n DEF ServeInv, Begun
<1>1. CASE (\E e \in Entry : WriteOpen(e)) \/ WriteDone \/ WriteFails
  BY <1>1, <1>n DEF WriteOpen, WriteDone, WriteFails, At
<1>2. CASE OpenStart
  <2>1. /\ act = "join" /\ act' = "open" /\ pos' = 1 /\ table' = table
        /\ UNCHANGED <<scripts, air, file, faults>>
    BY <1>2 DEF OpenStart, At
  <2>2. Begun' = {}
    BY <1>t, <2>1 DEF Begun
  <2> QED
    BY <1>q, <2>1, <2>2
<1>3. CASE OpenStep
  <2> DEFINE w == table[pos].wlan
  <2>1. /\ act = "open" /\ pos \in 1 .. Len(table) /\ w \in Wlans
        /\ UNCHANGED <<table, file, air>>
    BY <1>3, <1>t, PlaceT DEF OpenStep, At
  <2>2. Start(w) \in Script /\ Start(w).do = "start"
    BY <2>1 DEF Script, Start
  <2>3. /\ scripts' = Append(scripts, Start(w)) \/ UNCHANGED scripts
        /\ faults \subseteq faults'
        /\ \/ act' = "join"
           \/ /\ act' = "open" /\ pos' = pos + 1
              /\ scripts' = Append(scripts, Start(w)) \/ "killed" \in faults'
    BY <1>3, <2>1 DEF OpenStep, DoCMD, Launch, Failed, Start
  <2> HIDE DEF w
  <2>4. \A k \in 1 .. Len(scripts) : scripts[k].do = "start"
    BY <2>1 DEF ServeInv
  <2>5. \A k \in 1 .. Len(scripts') : scripts'[k].do = "start"
    BY <1>t, <2>2, <2>3, <2>4, PendingAppend
  <2>6. CASE act' = "join"
    BY <2>5, <2>6 DEF ServeInv, Begun
  <2>7. CASE /\ act' = "open" /\ pos' = pos + 1
             /\ scripts' = Append(scripts, Start(w)) \/ "killed" \in faults'
    <3>1. ASSUME faults' \subseteq {"start", "overtaken"}, NEW v \in Begun'
          PROVE  Pending(scripts', Start(v)) \/ air'[v] = file'[v]
      <4>1. scripts' = Append(scripts, Start(w)) /\ faults \subseteq {"start", "overtaken"}
        BY <2>3, <2>7, <3>1
      <4>2. /\ Pending(scripts', Start(w))
            /\ \A r : Pending(scripts, r) => Pending(scripts', r)
        BY <1>t, <2>2, <4>1, PendingAppend
      <4>3. PICK i \in 1 .. Len(table) : i < pos + 1 /\ v = table[i].wlan
        BY <2>1, <2>7, <3>1 DEF Begun
      <4>4. CASE i = pos
        BY <4>2, <4>3, <4>4 DEF w
      <4>5. CASE i # pos
        <5>1. i < pos
          BY <1>t, <4>3, <4>5
        <5>2. v \in Begun
          BY <2>1, <4>3, <5>1 DEF Begun
        <5>3. Pending(scripts, Start(v)) \/ air[v] = file[v]
          BY <2>1, <4>1, <5>2 DEF ServeInv
        <5> QED
          BY <2>1, <4>2, <5>3
      <4> QED
        BY <4>4, <4>5
    <3> QED
      BY <2>5, <2>7, <3>1 DEF ServeInv
  <2> QED
    BY <2>3, <2>6, <2>7
<1>4. CASE OpenEnd
  <2>1. /\ act = "open" /\ act' = "run" /\ pos > Len(table) /\ table' = table
        /\ UNCHANGED <<scripts, air, file, faults>>
    BY <1>4 DEF OpenEnd, At
  <2>2. Begun' = Indexes
    BY <2>1 DEF Begun, Indexes
  <2>3. \A i \in 1 .. Len(table) : i < pos
    BY <1>t, <2>1
  <2>4. Indexes \subseteq Begun
    BY <1>t, <2>1, <2>3 DEF Begun
  <2> QED
    BY <1>q, <2>1, <2>2, <2>4
<1>5. CASE Interrupt \/ Warn \/ CloseStep \/ CloseEnd
  BY <1>5, <1>h DEF Interrupt, Warn, CloseStep, CloseEnd
<1>6. CASE LogBegin \/ LogEnd
  <2>1. /\ act \in Main /\ UNCHANGED <<act, table, pos, scripts, air, file, faults>>
    BY <1>6 DEF LogBegin, LogEnd
  <2>2. Begun' = Begun
    BY <2>1 DEF Begun, Indexes
  <2> QED
    BY <1>q, <2>1, <2>2
<1>7. CASE RunScript
  <2>1. PICK i \in DOMAIN scripts :
          /\ scripts' = RemoveAt(scripts, i)
          /\ faults \subseteq faults'
          /\ \/ air' = [air EXCEPT ![scripts[i].wlan] =
                          IF scripts[i].do = "start" THEN Served(scripts[i].wlan)
                          ELSE "off"]
             \/ "script" \in faults'
    BY <1>7 DEF RunScript
  <2>2. i \in 1 .. Len(scripts) /\ scripts[i] \in Script
    BY <2>1, ElementOfSeq DEF TInv, TypeOK
  <2>3. UNCHANGED <<act, table, pos, file>>
    BY <1>7 DEF RunScript
  <2>4. Begun' = Begun /\ Begun \subseteq Indexes
    BY <1>t, <2>3 DEF Begun, Indexes
  <2>5. CASE act \in Main
    <3>1. \A k \in 1 .. Len(scripts) : scripts[k].do = "start"
      BY <2>5 DEF ServeInv
    <3>2. /\ \A r : Pending(scripts, r) /\ r # scripts[i] => Pending(scripts', r)
          /\ \A k \in 1 .. Len(scripts') : scripts'[k].do = "start"
      BY <1>t, <2>1, <2>2, <3>1, PendingRemove
    <3>3. ASSUME faults' \subseteq {"start", "overtaken"}, NEW w \in Begun
          PROVE  Pending(scripts', Start(w)) \/ air'[w] = file'[w]
      <4>1. /\ air' = [air EXCEPT ![scripts[i].wlan] = Served(scripts[i].wlan)]
            /\ faults \subseteq {"start", "overtaken"}
        BY <2>1, <2>2, <3>1, <3>3
      <4>2. w \in Wlans /\ air \in [Wlans -> Cfgs \cup {"off"}]
        BY <1>t, <2>4, <3>3 DEF TypeOK
      <4>3. CASE scripts[i].wlan = w
        <5>1. act \in {"open", "run"} /\ w \in Indexes
          BY <2>4, <3>3 DEF Begun
        <5>2. file[w] = LastOf(table, w)
          BY <4>1, <5>1 DEF FilesInv, WriteFaults
        <5>3. PICK k : IsLast(table, w, k)
          BY <5>1 DEF FilesInv
        <5>4. LastOf(table, w) = table[k].cfg /\ table[k].cfg \in Cfgs
          BY <1>t, <5>3, LastIs DEF FilesInv, IsLast, TypeOK
        <5>5. Served(w) = file[w]
          BY <5>2, <5>4 DEF Served
        <5> QED
          BY <2>3, <4>1, <4>2, <4>3, <5>5
      <4>4. CASE scripts[i].wlan # w
        <5>1. Start(w) # scripts[i]
          BY <4>4 DEF Start
        <5>2. Pending(scripts, Start(w)) \/ air[w] = file[w]
          BY <2>5, <3>3, <4>1 DEF ServeInv
        <5> QED
          BY <2>3, <3>2, <4>1, <4>2, <4>4, <5>1, <5>2
      <4> QED
        BY <4>3, <4>4
    <3> QED
      BY <2>3, <2>4, <2>5, <3>2, <3>3 DEF ServeInv
  <2>6. CASE act \notin Main
    BY <1>h, <2>3, <2>6
  <2> QED
    BY <2>5, <2>6
<1>8. CASE UNCHANGED vars
  <2>1. UNCHANGED <<act, table, pos, scripts, air, file, faults>>
    BY <1>8 DEF vars
  <2>2. Begun' = Begun
    BY <2>1 DEF Begun, Indexes
  <2>3. CASE act \in Main
    BY <1>q, <2>1, <2>2, <2>3
  <2> QED
    BY <1>h, <2>1, <2>3
<1> QED
  BY <1>1, <1>2, <1>3, <1>4, <1>5, <1>6, <1>7, <1>8 DEF Next

(* When all scripts have run, in whatever order, the AP in RUN serves the  *)
(* whole table, each interface as last configured (wtpWiFiOpen).           *)
THEOREM ServesLastTheorem == Spec => []ServesLast
<1>1. FilesInv /\ ServeInv => ServesLast
  <2> SUFFICES ASSUME FilesInv, ServeInv, act = "run", scripts = <<>>,
                      faults \subseteq {"start", "overtaken"}, NEW w \in Indexes
               PROVE  air[w] = LastCfg(w)
    BY DEF ServesLast
  <2>1. w \in Begun /\ act \in Main
    BY DEF Begun, Main
  <2>2. ~Pending(scripts, Start(w))
    BY EmptySeq DEF Pending
  <2>3. air[w] = file[w]
    BY <2>1, <2>2 DEF ServeInv
  <2>4. file[w] = LastOf(table, w)
    BY <2>1 DEF FilesInv, WriteFaults
  <2> QED
    BY <2>3, <2>4 DEF LastCfg, LastOf
<1>2. Init => TInv /\ FilesInv /\ ServeInv
  BY InitT, InitFiles, InitServe
<1>3. TInv /\ FilesInv /\ ServeInv /\ [Next]_vars => TInv' /\ FilesInv' /\ ServeInv'
  BY NextT, NextFiles, NextServe
<1> QED
  BY <1>1, <1>2, <1>3, PTL DEF Spec

-----------------------------------------------------------------------------
(* What is on the air after the end                                        *)

(* The interfaces the handler of SIGINT has still to stop.                 *)
Left ==
  IF act \in {"close", "exit"}
  THEN {table[i].wlan : i \in {k \in 1 .. Len(table) : k >= pos}}
  ELSE Indexes

(* Once the scripts sc have run in their order, w is off: the last of them *)
(* stops it, or there is none for it and it is off already.                *)
Silent(sc, a, w) ==
  \E k \in 0 .. Len(sc) :
    /\ IF k = 0 THEN a[w] = "off" ELSE sc[k] = Stop(w)
    /\ \A j \in 1 .. Len(sc) : j > k => sc[j].wlan # w

MildFaults == {"refused", "print", "flush", "start"}

ExitInv ==
  /\ act = "exit" => pos > Len(table)
  /\ faults \subseteq MildFaults =>
       \A w \in Wlans : w \in Left \/ Silent(scripts, air, w)

LEMMA SilentAppend ==
  ASSUME NEW sc \in Seq(Script), NEW s \in Script, NEW a, NEW w
  PROVE  /\ s = Stop(w) => Silent(Append(sc, s), a, w)
         /\ s.wlan # w /\ Silent(sc, a, w) => Silent(Append(sc, s), a, w)
<1>1. /\ Len(Append(sc, s)) = Len(sc) + 1 /\ Len(sc) \in Nat
      /\ \A k \in 1 .. Len(sc) + 1 :
           Append(sc, s)[k] = IF k <= Len(sc) THEN sc[k] ELSE s
  BY Appended, LenProperties
<1>2. ASSUME s = Stop(w) PROVE Silent(Append(sc, s), a, w)
  <2>1. /\ Len(sc) + 1 \in 0 .. Len(Append(sc, s)) /\ Len(sc) + 1 # 0
        /\ Append(sc, s)[Len(sc) + 1] = Stop(w)
        /\ \A j \in 1 .. Len(Append(sc, s)) : ~(j > Len(sc) + 1)
    BY <1>1, <1>2
  <2> QED
    BY <2>1 DEF Silent
<1>3. ASSUME s.wlan # w, Silent(sc, a, w) PROVE Silent(Append(sc, s), a, w)
  <2>1. PICK k \in 0 .. Len(sc) :
          /\ IF k = 0 THEN a[w] = "off" ELSE sc[k] = Stop(w)
          /\ \A j \in 1 .. Len(sc) : j > k => sc[j].wlan # w
    BY <1>3 DEF Silent
  <2>2. /\ k \in 0 .. Len(Append(sc, s))
        /\ k # 0 => Append(sc, s)[k] = sc[k]
    BY <1>1, <2>1
  <2>3. \A j \in 1 .. Len(Append(sc, s)) : j > k => Append(sc, s)[j].wlan # w
    BY <1>1, <1>3, <2>1
  <2> QED
    BY <2>1, <2>2, <2>3 DEF Silent
<1> QED
  BY <1>2, <1>3

LEMMA SilentRun ==
  ASSUME NEW sc \in Seq(Script), 1 \in 1 .. Len(sc), NEW a, NEW b, NEW w,
         sc[1] = Stop(w) => b[w] = "off",
         sc[1].wlan # w => b[w] = a[w],
         Silent(sc, a, w)
  PROVE  Silent(RemoveAt(sc, 1), b, w)
<1>1. /\ Len(RemoveAt(sc, 1)) = Len(sc) - 1 /\ Len(sc) \in Nat /\ Len(sc) >= 1
      /\ \A k \in 1 .. Len(sc) - 1 : RemoveAt(sc, 1)[k] = sc[k + 1]
  BY Shortened, LenProperties
<1>2. PICK k \in 0 .. Len(sc) :
        /\ IF k = 0 THEN a[w] = "off" ELSE sc[k] = Stop(w)
        /\ \A j \in 1 .. Len(sc) : j > k => sc[j].wlan # w
  BY DEF Silent
<1>3. CASE k <= 1
  <2>1. b[w] = "off"
    <3>1. CASE k = 0
      BY <1>1, <1>2, <3>1
    <3>2. CASE k = 1
      BY <1>2, <3>2
    <3> QED
      BY <1>2, <1>3, <3>1, <3>2
  <2>2. \A j \in 1 .. Len(sc) - 1 : j > 0 => RemoveAt(sc, 1)[j].wlan # w
    <3>1. \A j \in 1 .. Len(sc) - 1 : j + 1 \in 1 .. Len(sc) /\ j + 1 > k
      BY <1>1, <1>2, <1>3
    <3> QED
      BY <1>1, <1>2, <3>1
  <2> QED
    BY <1>1, <2>1, <2>2 DEF Silent
<1>4. CASE k > 1
  <2>1. /\ k - 1 \in 0 .. Len(sc) - 1 /\ k - 1 # 0 /\ k # 0
        /\ k - 1 \in 1 .. Len(sc) - 1 /\ (k - 1) + 1 = k
    BY <1>1, <1>2, <1>4
  <2>2. RemoveAt(sc, 1)[k - 1] = Stop(w)
    BY <1>1, <1>2, <2>1
  <2>3. \A j \in 1 .. Len(sc) - 1 : j > k - 1 => RemoveAt(sc, 1)[j].wlan # w
    <3>1. \A j \in 1 .. Len(sc) - 1 :
            j + 1 \in 1 .. Len(sc) /\ (j > k - 1 => j + 1 > k)
      BY <1>1, <1>2
    <3> QED
      BY <1>1, <1>2, <3>1
  <2> QED
    BY <1>1, <2>1, <2>2, <2>3 DEF Silent
<1> QED
  BY <1>2, <1>3, <1>4

LEMMA InitExit == Init => ExitInv
<1> SUFFICES ASSUME Init PROVE ExitInv
  OBVIOUS
<1>1. Len(scripts) = 0 /\ \A w \in Wlans : air[w] = "off"
  BY DEF Init
<1>2. \A w \in Wlans : Silent(scripts, air, w)
  BY <1>1 DEF Silent
<1> QED
  BY <1>2 DEF Init, ExitInv

LEMMA NextExit == TInv /\ ExitInv /\ [Next]_vars => ExitInv'
<1> SUFFICES ASSUME TInv, ExitInv, [Next]_vars PROVE ExitInv'
  OBVIOUS
<1> USE DEF Main, Handler
<1>t. /\ TypeOK /\ Indexes \subseteq Wlans /\ Len(table) \in Nat /\ pos \in Nat
      /\ Indexes = {table[i].wlan : i \in 1 .. Len(table)}
  BY IndexesT, LenProperties DEF TInv, TypeOK
(* Steps that leave the background alone and leave no interface out.       *)
<1>q. ASSUME UNCHANGED <<scripts, air>>, faults \subseteq faults',
             act' = "exit" => pos' > Len(table'), Left \subseteq Left'
      PROVE  ExitInv'
  BY <1>q DEF ExitInv
<1>1. CASE (\E e \in Entry : WriteOpen(e)) \/ WriteFails \/ OpenStart \/ OpenEnd
           \/ Interrupt
  <2>1. /\ act \in Main /\ act' \in Main \cup {"warn"}
        /\ UNCHANGED <<scripts, air, table>> /\ faults \subseteq faults'
    BY <1>1 DEF WriteOpen, WriteFails, OpenStart, OpenEnd, Interrupt, At, Failed
  <2>2. Left' = Left
    BY <2>1 DEF Left, Indexes
  <2> QED
    BY <1>q, <2>1, <2>2
<1>2. CASE WriteDone
  <2>1. /\ act = "write" /\ act' = "join" /\ cur \in Entry
        /\ table' = Append(table, cur) /\ faults \subseteq faults'
        /\ UNCHANGED <<scripts, air>>
    BY <1>2 DEF WriteDone, At, TInv, Writing, Failed
  <2>2. Indexes \subseteq Indexes'
    BY <1>t, <2>1, IndexesGrow
  <2>3. Left \subseteq Left'
    BY <2>1, <2>2 DEF Left
  <2> QED
    BY <1>q, <2>1, <2>3
<1>3. CASE Warn
  <2>1. /\ act = "warn" /\ act' = "close" /\ pos' = 1
        /\ UNCHANGED <<scripts, air, table, faults>>
    BY <1>3 DEF Warn
  <2>2. Left' = Left
    BY <1>t, <2>1 DEF Left
  <2> QED
    BY <1>q, <2>1, <2>2
<1>4. CASE CloseEnd
  <2>1. /\ act = "close" /\ act' = "exit" /\ pos > Len(table)
        /\ UNCHANGED <<scripts, air, table, pos, faults>>
    BY <1>4 DEF CloseEnd
  <2>2. Left' = Left
    BY <2>1 DEF Left
  <2> QED
    BY <1>q, <2>1, <2>2
<1>5. CASE LogBegin \/ LogEnd \/ UNCHANGED vars
  <2>1. UNCHANGED <<act, pos, table, scripts, air, faults>>
    BY <1>5 DEF LogBegin, LogEnd, vars
  <2>2. Left' = Left
    BY <2>1 DEF Left, Indexes
  <2> QED
    BY <1>q, <2>1, <2>2 DEF ExitInv
<1>6. CASE OpenStep
  <2> DEFINE w == table[pos].wlan
  <2>1. /\ act = "open" /\ act' \in {"open", "join"}
        /\ pos \in 1 .. Len(table) /\ w \in Wlans
        /\ UNCHANGED <<table, air>>
    BY <1>6, <1>t, PlaceT DEF OpenStep, At
  <2>2. /\ Start(w) \in Script /\ Start(w).wlan = w /\ w \in Indexes
    BY <1>t, <2>1 DEF Script, Start
  <2>3. /\ scripts' = Append(scripts, Start(w)) \/ UNCHANGED scripts
        /\ faults \subseteq faults'
    BY <1>6 DEF OpenStep, DoCMD, Launch, Failed, Start
  <2> HIDE DEF w
  <2>4. Left = Indexes /\ Left' = Indexes
    BY <2>1 DEF Left, Indexes
  <2>5. ASSUME faults' \subseteq MildFaults, NEW v \in Wlans, v \notin Indexes
        PROVE  Silent(scripts', air, v)
    <3>1. Silent(scripts, air, v) /\ v # w
      BY <2>2, <2>3, <2>4, <2>5 DEF ExitInv
    <3>2. Silent(Append(scripts, Start(w)), air, v)
      BY <1>t, <2>2, <3>1, SilentAppend DEF TypeOK
    <3> QED
      BY <2>3, <3>1, <3>2
  <2> QED
    BY <2>1, <2>4, <2>5 DEF ExitInv
<1>7. CASE CloseStep
  <2> DEFINE w == table[pos].wlan
  <2>1. /\ act = "close" /\ act' = "close"
        /\ pos \in 1 .. Len(table) /\ w \in Wlans
        /\ UNCHANGED <<table, air>>
    BY <1>7, <1>t, PlaceT DEF CloseStep
  <2>2. Stop(w) \in Script /\ Stop(w).wlan = w
    BY <2>1 DEF Script, Stop
  <2>3. ASSUME faults' \subseteq MildFaults
        PROVE  /\ scripts' = Append(scripts, Stop(w)) /\ pos' = pos + 1
               /\ faults \subseteq MildFaults
    <3>1. faults \subseteq faults' /\ "stop" \notin faults' /\ "killed" \notin faults'
      BY <1>7, <2>3 DEF CloseStep, DoCMD, Failed, MildFaults
    <3>2. DoCMD("stop", w, TRUE) /\ pos' = pos + 1
      BY <1>7, <3>1 DEF CloseStep, DoCMD, Failed
    <3>3. scripts' = Append(scripts, Stop(w))
      BY <3>1, <3>2 DEF DoCMD, Launch, Failed, Stop
    <3> QED
      BY <2>3, <3>1, <3>2, <3>3
  <2>4. ASSUME faults' \subseteq MildFaults, NEW v \in Wlans, v \notin Left'
        PROVE  Silent(scripts', air, v)
    <3>1. CASE v = w
      <4>1. Silent(Append(scripts, Stop(w)), air, w)
        BY <1>t, <2>2, SilentAppend DEF TypeOK
      <4> QED
        BY <2>3, <2>4, <3>1, <4>1
    <3>2. CASE v # w
      <4>1. v \notin Left
        <5>1. ASSUME NEW i \in 1 .. Len(table), i >= pos, v = table[i].wlan
              PROVE  FALSE
          <6>1. i >= pos + 1
            BY <1>t, <3>2, <5>1
          <6>2. i \in {k \in 1 .. Len(table') : k >= pos'} /\ v = table'[i].wlan
            BY <2>1, <2>3, <2>4, <5>1, <6>1
          <6>3. v \in Left'
            BY <2>1, <6>2 DEF Left
          <6> QED
            BY <2>4, <6>3
        <5> QED
          BY <2>1, <5>1 DEF Left
      <4>2. Silent(scripts, air, v)
        BY <2>3, <2>4, <4>1 DEF ExitInv
      <4> HIDE DEF w
      <4>3. Silent(Append(scripts, Stop(w)), air, v)
        BY <1>t, <2>2, <3>2, <4>2, SilentAppend DEF TypeOK
      <4> QED
        BY <2>3, <2>4, <4>3
    <3> QED
      BY <3>1, <3>2
  <2> QED
    BY <2>1, <2>4 DEF ExitInv
<1>8. CASE RunScript
  <2>1. PICK i \in DOMAIN scripts :
          /\ scripts' = RemoveAt(scripts, i)
          /\ faults \subseteq faults'
          /\ i = 1 \/ "overtaken" \in faults'
          /\ \/ air' = [air EXCEPT ![scripts[i].wlan] =
                          IF scripts[i].do = "start" THEN Served(scripts[i].wlan)
                          ELSE "off"]
             \/ "script" \in faults'
    BY <1>8 DEF RunScript
  <2>2. i \in 1 .. Len(scripts) /\ scripts[i] \in Script
    BY <2>1, ElementOfSeq DEF TInv, TypeOK
  <2>3. UNCHANGED <<act, table, pos>>
    BY <1>8 DEF RunScript
  <2>4. Left' = Left
    BY <2>3 DEF Left, Indexes
  <2>5. ASSUME faults' \subseteq MildFaults, NEW v \in Wlans, v \notin Left
        PROVE  Silent(scripts', air', v)
    <3>1. /\ i = 1 /\ faults \subseteq MildFaults
          /\ air' = [air EXCEPT ![scripts[1].wlan] =
                       IF scripts[1].do = "start" THEN Served(scripts[1].wlan)
                       ELSE "off"]
      BY <2>1, <2>5 DEF MildFaults
    <3>2. Silent(scripts, air, v)
      BY <2>5, <3>1 DEF ExitInv
    <3>3. /\ scripts[1] = Stop(v) => air'[v] = "off"
          /\ scripts[1].wlan # v => air'[v] = air[v]
      BY <1>t, <2>5, <3>1 DEF TypeOK, Stop
    <3> QED
      BY <1>t, <2>1, <2>2, <3>1, <3>2, <3>3, SilentRun DEF TypeOK
  <2> QED
    BY <2>3, <2>4, <2>5 DEF ExitInv
<1> QED
  BY <1>1, <1>2, <1>3, <1>4, <1>5, <1>6, <1>7, <1>8 DEF Next

(* When no script and no stop failed and none was overtaken, no interface  *)
(* is on the air once the program has ended and its scripts have run,      *)
(* wherever SIGINT met it (exitSignalHandle, wtpWiFiClose).                *)
THEOREM ExitTurnsOffTheorem == Spec => []ExitTurnsOff
<1>1. TInv /\ ExitInv => ExitTurnsOff
  <2> SUFFICES ASSUME TInv, ExitInv, act = "exit", scripts = <<>>,
                      faults \subseteq MildFaults, NEW w \in Wlans
               PROVE  air[w] = "off"
    BY DEF ExitTurnsOff, MildFaults
  <2>1. Left = {}
    <3>1. pos > Len(table) /\ pos \in Nat /\ Len(table) \in Nat
      BY LenProperties DEF ExitInv, TInv, TypeOK
    <3>2. \A k \in 1 .. Len(table) : ~(k >= pos)
      BY <3>1
    <3> QED
      BY <3>2 DEF Left
  <2>2. Silent(scripts, air, w) /\ Len(scripts) = 0
    BY <2>1 DEF ExitInv
  <2> QED
    BY <2>2 DEF Silent
<1>2. Init => TInv /\ ExitInv
  BY InitT, InitExit
<1>3. TInv /\ ExitInv /\ [Next]_vars => TInv' /\ ExitInv'
  BY NextT, NextExit
<1> QED
  BY <1>1, <1>2, <1>3, PTL DEF Spec
=============================================================================
