---------------------------- MODULE WtpIdProofs ----------------------------
(***************************************************************************)
(* WtpId, for every set of UUIDs: the identity in use is the one on file,  *)
(* consists of the bytes of one generated UUID, and is kept over restarts, *)
(* failed starts and torn writes.                                          *)
(***************************************************************************)
EXTENDS WtpId, TLAPS, FiniteSetTheorems

-----------------------------------------------------------------------------
(* The layout of the file.  wtpidCreate and wtpidRead count the places     *)
(* they pass; both counts run through 0 .. 15, each number once.           *)

LEMMA BeforeOrders ==
  /\ \A p \in Cells : ~Before(p, p)
  /\ \A p, q \in Cells : p # q => Before(p, q) \/ Before(q, p)
  /\ \A p, q, r \in Cells : Before(p, q) /\ Before(q, r) => Before(p, r)
  BY DEF Before, Cells

(* The rank of a place of S in the order of the file numbers S from 0.     *)
LEMMA RankCounts ==
  ASSUME NEW S \in SUBSET Cells, IsFiniteSet(S), NEW p \in S
  PROVE  Rank(S, p) \in 0 .. Cardinality(S) - 1
<1> DEFINE T == {q \in S : Before(q, p)}
<1>1. T \in SUBSET S /\ T # S
  BY BeforeOrders
<1>2. /\ IsFiniteSet(T) /\ Cardinality(T) <= Cardinality(S)
      /\ Cardinality(T) # Cardinality(S)
  BY <1>1, FS_Subset, Zenon
<1>3. Cardinality(T) \in Nat /\ Cardinality(S) \in Nat
  BY <1>2, FS_CardinalityType
<1>4. Rank(S, p) = Cardinality(T)
  BY DEF Rank
<1> QED
  BY <1>2, <1>3, <1>4

LEMMA RankGrows ==
  ASSUME NEW S \in SUBSET Cells, IsFiniteSet(S), NEW p \in S, NEW q \in S,
         Before(p, q)
  PROVE  Rank(S, p) # Rank(S, q)
<1> DEFINE T == {r \in S : Before(r, p)}
           U == {r \in S : Before(r, q)}
<1>1. T \in SUBSET U /\ T # U
  BY BeforeOrders
<1>2. IsFiniteSet(U)
  BY FS_Subset, U \in SUBSET S, Zenon
<1>3. Cardinality(T) # Cardinality(U)
  BY <1>1, <1>2, FS_Subset, Zenon
<1> QED
  BY <1>3 DEF Rank

LEMMA RankNumbers ==
  ASSUME NEW S \in SUBSET Cells, IsFiniteSet(S)
  PROVE  /\ \A p, q \in S : Rank(S, p) = Rank(S, q) => p = q
         /\ \A n \in 0 .. Cardinality(S) - 1 : \E p \in S : Rank(S, p) = n
<1> DEFINE N == 0 .. Cardinality(S) - 1
           rank == [p \in S |-> Rank(S, p)]
<1>1. \A p, q \in S : Rank(S, p) = Rank(S, q) => p = q
  BY BeforeOrders, RankGrows
<1>2. rank \in Injection(S, N)
  BY <1>1, RankCounts DEF Injection, IsInjective
<1>3. Cardinality(S) \in Nat
  BY FS_CardinalityType
<1>4. IsFiniteSet(N) /\ Cardinality(N) = Cardinality(S)
  <2> DEFINE c == Cardinality(S)
  <2>1. c \in Nat
    BY <1>3
  <2> HIDE DEF c
  <2>2. IsFiniteSet(0 .. c - 1) /\ Cardinality(0 .. c - 1) = c
    BY <2>1, FS_Interval, SMTT(30)
  <2> QED
    BY <2>2 DEF c
<1>5. rank \in Surjection(S, N)
  BY <1>2, <1>4, FS_Injection, Zenon
<1> QED
  BY <1>1, <1>5 DEF Surjection

(* The table uuid_enable in its order.                                     *)
Listed ==
  <<<<0, 1>>, <<0, 6>>, <<1, 2>>, <<1, 4>>, <<2, 1>>, <<2, 3>>, <<2, 7>>,
    <<3, 4>>, <<3, 5>>, <<4, 2>>, <<5, 1>>, <<5, 6>>, <<6, 2>>, <<6, 5>>,
    <<7, 3>>, <<7, 6>>>>

LEMMA UuidEnableSixteen ==
  /\ uuid_enable \subseteq Cells /\ IsFiniteSet(uuid_enable)
  /\ Cardinality(uuid_enable) = 16
<1>1. uuid_enable \subseteq Cells
  BY DEF uuid_enable, Cells
<1>2. Listed \in [1 .. 16 -> uuid_enable]
  BY DEF Listed, uuid_enable
<1>3. \A p \in uuid_enable : \E i \in 1 .. 16 : Listed[i] = p
  BY DEF Listed, uuid_enable
<1>4. \A i, j \in 1 .. 16 : i < j => Before(Listed[i], Listed[j])
  BY SMTT(60) DEF Listed, Before
<1>5. \A i, j \in 1 .. 16 : Listed[i] = Listed[j] => i = j
  <2>1. \A i \in 1 .. 16 : Listed[i] \in Cells
    BY <1>1, <1>2
  <2>2. \A i, j \in 1 .. 16 : i # j => i < j \/ j < i
    OBVIOUS
  <2> QED
    BY <1>4, <2>1, <2>2, BeforeOrders, Zenon
<1>6. ExistsBijection(1 .. 16, uuid_enable)
  BY <1>2, <1>3, <1>5 DEF ExistsBijection, Bijection, Injection, Surjection,
                          IsInjective
<1>7. \A n \in Nat : IsFiniteSet(1 .. n) /\ Cardinality(1 .. n) = n
  BY FS_Interval
<1>8. IsFiniteSet(1 .. 16) /\ Cardinality(1 .. 16) = 16
  BY <1>7, 16 \in Nat, Zenon
<1> QED
  BY <1>1, <1>6, <1>8, FS_Bijection

LEMMA PlacesSixteen ==
  ASSUME NEW row \in BOOLEAN
  PROVE  /\ Places(row) \in SUBSET Cells /\ IsFiniteSet(Places(row))
         /\ Cardinality(Places(row)) = 16
<1>1. CASE row
  BY <1>1, UuidEnableSixteen DEF Places
<1>2. CASE ~row
  <2> DEFINE T == {Flip(p) : p \in uuid_enable}
             flip == [p \in uuid_enable |-> Flip(p)]
  <2>1. \A p, q \in Cells : Flip(p) \in Cells /\ (Flip(p) = Flip(q) => p = q)
    BY DEF Flip, Cells
  <2>2. flip \in Bijection(uuid_enable, T)
    BY <2>1, UuidEnableSixteen
       DEF Bijection, Injection, Surjection, IsInjective
  <2>3. ExistsBijection(uuid_enable, T)
    BY <2>2 DEF ExistsBijection
  <2>4. IsFiniteSet(T) /\ Cardinality(T) = 16
    BY <2>3, UuidEnableSixteen, FS_Bijection
  <2>5. Places(row) = T
    BY <1>2 DEF Places
  <2> QED
    BY <2>1, <2>4, <2>5, UuidEnableSixteen
<1> QED
  BY <1>1, <1>2

(* What both functions count: every place of a UUID has a number of its    *)
(* own, and every number a place.                                          *)
LEMMA PlacesNumbered ==
  ASSUME NEW row \in BOOLEAN
  PROVE  /\ \A p \in Places(row) : Rank(Places(row), p) \in Index
         /\ \A p, q \in Places(row) :
              Rank(Places(row), p) = Rank(Places(row), q) => p = q
         /\ \A n \in Index : \E p \in Places(row) : Rank(Places(row), p) = n
  BY PlacesSixteen, RankCounts, RankNumbers DEF Index

(* wtpidRead looks where wtpidCreate wrote.                                *)
LEMMA CellsMeet ==
  ASSUME NEW row \in BOOLEAN
  PROVE  /\ \A p \in uuid_enable : CellRead(row, p) \in Places(row)
         /\ \A c \in Places(row) : \E p \in uuid_enable : CellRead(row, p) = c
  BY DEF CellRead, Places

(* The place wtpidRead takes the byte n from, and the number wtpidCreate   *)
(* gave that place.                                                        *)
Place(n) == CHOOSE p \in uuid_enable : Rank(uuid_enable, p) = n
Number(row, n) == Rank(Places(row), CellRead(row, Place(n)))

LEMMA PlaceOf ==
  /\ \A n \in Index : Place(n) \in uuid_enable /\ Rank(uuid_enable, Place(n)) = n
  /\ \A p \in uuid_enable : /\ Rank(uuid_enable, p) \in Index
                            /\ Place(Rank(uuid_enable, p)) = p
<1>1. uuid_enable = Places(TRUE)
  BY DEF Places
<1>2. ASSUME NEW n \in Index
      PROVE  Place(n) \in uuid_enable /\ Rank(uuid_enable, Place(n)) = n
  BY <1>1, PlacesNumbered DEF Place
<1>3. ASSUME NEW p \in uuid_enable
      PROVE  /\ Rank(uuid_enable, p) \in Index
             /\ Place(Rank(uuid_enable, p)) = p
  BY <1>1, <1>2, PlacesNumbered
<1> QED
  BY <1>2, <1>3

LEMMA NumberPermutes ==
  ASSUME NEW row \in BOOLEAN
  PROVE  /\ \A n \in Index : Number(row, n) \in Index
         /\ \A m \in Index : \E n \in Index : Number(row, n) = m
<1>1. \A n \in Index : Number(row, n) \in Index
  BY PlaceOf, CellsMeet, PlacesNumbered DEF Number
<1>2. ASSUME NEW m \in Index
      PROVE  \E n \in Index : Number(row, n) = m
  <2>1. PICK c \in Places(row) : Rank(Places(row), c) = m
    BY PlacesNumbered
  <2>2. PICK p \in uuid_enable : CellRead(row, p) = c
    BY CellsMeet
  <2>3. Number(row, Rank(uuid_enable, p)) = m
    BY <2>1, <2>2, PlaceOf DEF Number
  <2> QED
    BY <2>3, PlaceOf
<1> QED
  BY <1>1, <1>2

(* What wtpidRead gets of a file of wtpidCreate: the bytes of the UUID, in *)
(* the order of their numbers.                                             *)
LEMMA DecodedBytes ==
  ASSUME NEW u, NEW row \in BOOLEAN
  PROVE  Decoded(Written(u, row)) = [n \in Index |-> u[Number(row, n)]]
<1>1. ASSUME NEW n \in Index
      PROVE  Written(u, row).cells[CellRead(row, Place(n))]
             = u[Number(row, n)]
  <2> DEFINE c == CellRead(row, Place(n))
  <2>1. c \in Places(row) /\ c \in Cells
    BY PlaceOf, CellsMeet, PlacesSixteen
  <2> HIDE DEF c
  <2>2. Written(u, row).cells[c] = u[Rank(Places(row), c)]
    BY <2>1 DEF Written
  <2> QED
    BY <2>2 DEF Number, c
<1>2. Written(u, row).row = row
  BY DEF Written
<1> QED
  BY <1>1, <1>2, Zenon DEF Decoded, Place

(* A row-first file, that of an odd offset, is read as it was written; the *)
(* other one, in general, is not: see StoresGenerated.                     *)
THEOREM RowFirstTheorem ==
  ASSUME NEW u \in [Index -> Bytes]
  PROVE  Decoded(Written(u, TRUE)) = u
<1>1. \A n \in Index : Number(TRUE, n) = n
  BY PlaceOf DEF Number, Places, CellRead
<1>2. Decoded(Written(u, TRUE)) = [n \in Index |-> u[Number(TRUE, n)]]
  BY DecodedBytes
<1> QED
  BY <1>1, <1>2

-----------------------------------------------------------------------------
(* What is on file and in memory                                           *)

(* An identity that was generated, or read of a file of one.               *)
Whole(v) ==
  /\ v \in [Index -> Bytes]
  /\ \E u \in Uuids : {v[n] : n \in Index} = {u[n] : n \in Index}

LEMMA DecodedWhole ==
  ASSUME NEW f \in Files, f # Refused
  PROVE  Whole(Decoded(f))
<1>1. PICK u \in Uuids, row \in BOOLEAN : f = Written(u, row)
  BY DEF Files
<1>2. u \in [Index -> Bytes]
  BY UuidAssumption
<1> DEFINE v == [n \in Index |-> u[Number(row, n)]]
<1>3. v \in [Index -> Bytes]
  BY <1>2, NumberPermutes
<1>4. {v[n] : n \in Index} = {u[n] : n \in Index}
  BY NumberPermutes
<1>5. Decoded(f) = v
  BY <1>1, DecodedBytes
<1> HIDE DEF v
<1> QED
  BY <1>3, <1>4, <1>5 DEF Whole

(* The types, and what the process holds while it creates the file.        *)
Typed ==
  /\ TypeOK
  /\ pc = "write" => S_wtpid \in Uuids
  /\ pc = "up" => Whole(S_wtpid)

LEMMA InitTyped == Init => Typed
<1>1. Refused \in Files
  BY DEF Files
<1> QED
  BY <1>1 DEF Init, Typed, TypeOK

LEMMA StutterTyped == Typed /\ UNCHANGED vars => Typed'
  BY DEF Typed, TypeOK, Whole, vars

(* A read brings up the identity on file.                                  *)
LEMMA ReadTyped ==
  ASSUME Typed, ReadFile \/ ReadFails \/ Reread \/ RereadFails
  PROVE  Typed'
<1>1. CASE ReadFile \/ Reread
  <2>1. /\ file' = file /\ may' = may /\ made' = made
        /\ Readable(file) /\ ComesUp(Decoded(file))
    BY <1>1 DEF ReadFile, Reread
  <2>2. Whole(Decoded(file))
    BY <2>1, DecodedWhole DEF Readable, Typed, TypeOK
  <2>3. Decoded(file) \in [Index -> Bytes \cup {Noise}]
    BY <2>2 DEF Whole
  <2>4. TypeOK'
    BY <2>1, <2>3 DEF ComesUp, Typed, TypeOK
  <2>5. Whole(S_wtpid)'
    BY <2>1, <2>2 DEF ComesUp, Whole
  <2> QED
    BY <2>1, <2>4, <2>5 DEF ComesUp, Typed
<1>2. CASE ReadFails \/ RereadFails
  BY <1>2 DEF ReadFails, RereadFails, Readable, Typed, TypeOK
<1> QED
  BY <1>1, <1>2

LEMMA WrittenIsFile ==
  \A u \in Uuids, row \in BOOLEAN : Written(u, row) \in Files
  BY DEF Files

(* wtpidCreate writes the UUID it generated, whole or not at all.          *)
LEMMA CreateTyped ==
  ASSUME Typed, CreateOpen \/ CreateFails \/ CreateWrite \/ WriteFails
  PROVE  Typed'
<1>1. CASE CreateOpen
  <2>1. S_wtpid' \in [Index -> Bytes \cup {Noise}]
    BY <1>1, UuidAssumption DEF CreateOpen
  <2> QED
    BY <1>1, <2>1 DEF CreateOpen, Typed, TypeOK, Files
<1>2. CASE CreateFails
  BY <1>2 DEF CreateFails, Typed, TypeOK, Files
<1>3. CASE CreateWrite
  BY <1>3, WrittenIsFile DEF CreateWrite, Typed, TypeOK
<1>4. CASE WriteFails
  BY <1>4 DEF WriteFails, Typed, TypeOK
<1> QED
  BY <1>1, <1>2, <1>3, <1>4

LEMMA SystemTyped ==
  ASSUME Typed, Start \/ Interrupted \/ WriteBack \/ PowerCut
  PROVE  Typed'
<1>1. CASE Start
  BY <1>1 DEF Start, Typed, TypeOK
<1>2. CASE Interrupted
  BY <1>2, WrittenIsFile DEF Interrupted, Typed, TypeOK
<1>3. CASE WriteBack
  BY <1>3 DEF WriteBack, Typed, TypeOK, Whole
<1>4. CASE PowerCut
  BY <1>4 DEF PowerCut, Typed, TypeOK
<1> QED
  BY <1>1, <1>2, <1>3, <1>4

LEMMA NextTyped == Typed /\ [Next]_vars => Typed'
  BY ReadTyped, CreateTyped, SystemTyped, StutterTyped DEF Next

(* Type correctness: whatever fails or is cut off, the file is one that    *)
(* wtpidCreate wrote or one that wtpidRead rejects.                        *)
THEOREM TypeTheorem == Spec => []TypeOK
<1>1. Typed => TypeOK
  BY DEF Typed
<1> QED
  BY <1>1, InitTyped, NextTyped, PTL DEF Spec

(* An AP that is up has all bytes of one generated UUID and no byte of the *)
(* noise between them, for both ways the matrix may lie (wtpidCreate,      *)
(* wtpidRead).                                                             *)
THEOREM OwnBytesTheorem == Spec => []OwnBytes
<1>1. Typed => OwnBytes
  BY DEF Typed, Whole, OwnBytes
<1> QED
  BY <1>1, InitTyped, NextTyped, PTL DEF Spec

-----------------------------------------------------------------------------
(* The identity over restarts                                              *)

(* As long as nothing excuses the loss of an identity that was in use, it  *)
(* is on file, and wtpidInit has no reason to create another one.          *)
Kept ==
  last # NoUuid /\ ~excused =>
    /\ file # Refused /\ Decoded(file) = last
    /\ pc \notin {"create", "write", "reread"}

(* An AP that is up has just been excused, and a power cut, the only thing *)
(* that changes the file under it, takes it down.                          *)
IInv == InUseIsOnFile /\ Kept

LEMMA InitIInv == Init => IInv
  BY DEF Init, IInv, InUseIsOnFile, Kept

LEMMA StutterIInv == IInv /\ UNCHANGED vars => IInv'
  BY DEF IInv, InUseIsOnFile, Kept, vars

(* The steps of wtpidInit that read the file.                              *)
LEMMA ReadIInv ==
  ASSUME IInv, ReadFile \/ ReadFails \/ Reread \/ RereadFails
  PROVE  IInv'
<1>1. CASE ReadFile \/ Reread
  <2>1. /\ file' = file /\ Readable(file)
        /\ ComesUp(Decoded(file))
    BY <1>1 DEF ReadFile, Reread
  <2> QED
    BY <2>1 DEF ComesUp, Readable, IInv, InUseIsOnFile, Kept
<1>2. CASE ReadFails
  BY <1>2 DEF ReadFails, Readable, IInv, InUseIsOnFile, Kept
<1>3. CASE RereadFails
  BY <1>3 DEF RereadFails, Readable, IInv, InUseIsOnFile, Kept
<1> QED
  BY <1>1, <1>2, <1>3

(* The steps of wtpidCreate, which runs only where there is nothing to     *)
(* keep.                                                                   *)
LEMMA CreateIInv ==
  ASSUME IInv, CreateOpen \/ CreateFails \/ CreateWrite \/ WriteFails
  PROVE  IInv'
<1>1. /\ pc \in {"create", "write"}
      /\ pc' # "up" /\ UNCHANGED <<last, excused>>
  BY DEF CreateOpen, CreateFails, CreateWrite, WriteFails
<1>2. last = NoUuid \/ excused
  BY <1>1 DEF IInv, Kept
<1> QED
  BY <1>1, <1>2 DEF IInv, InUseIsOnFile, Kept

(* The system around wtpidInit.                                            *)
LEMMA SystemIInv ==
  ASSUME IInv, Start \/ Interrupted \/ WriteBack \/ PowerCut
  PROVE  IInv'
<1>1. CASE Start
  BY <1>1 DEF Start, IInv, InUseIsOnFile, Kept
<1>2. CASE Interrupted
  <2>1. CASE UNCHANGED file
    BY <1>2, <2>1 DEF Interrupted, IInv, InUseIsOnFile, Kept
  <2>2. CASE pc = "write"
    BY <1>2, <2>2 DEF Interrupted, IInv, InUseIsOnFile, Kept
  <2> QED
    BY <1>2, <2>1, <2>2 DEF Interrupted
<1>3. CASE WriteBack
  BY <1>3 DEF WriteBack, IInv, InUseIsOnFile, Kept
<1>4. CASE PowerCut
  BY <1>4 DEF PowerCut, IInv, InUseIsOnFile, Kept
<1> QED
  BY <1>1, <1>2, <1>3, <1>4

LEMMA NextIInv == IInv /\ [Next]_vars => IInv'
  BY ReadIInv, CreateIInv, SystemIInv, StutterIInv DEF Next

(* The identity in use is the one the next process reads (wtpidInit).      *)
THEOREM InUseTheorem == Spec => []InUseIsOnFile
<1>1. IInv => InUseIsOnFile
  BY DEF IInv
<1> QED
  BY <1>1, InitIInv, NextIInv, PTL DEF Spec

(* Coming up, an AP has the identity it had before, unless a read of its   *)
(* good file failed or a power cut took that back (wtpidInit, wtpidCreate).*)
THEOREM KeepsIdentityTheorem == Spec => KeepsIdentity
<1> DEFINE Keeps == pc' = "up" /\ last # NoUuid /\ ~excused => S_wtpid' = last
<1>1. ASSUME IInv, [Next]_vars
      PROVE  [Keeps]_vars
  <2> SUFFICES ASSUME Next, pc' = "up", last # NoUuid, ~excused
               PROVE  S_wtpid' = last
    BY <1>1
  <2>1. Decoded(file) = last /\ pc # "reread"
    BY <1>1 DEF IInv, Kept
  <2>2. CASE ReadFile
    BY <2>1, <2>2 DEF ReadFile, ComesUp
  <2>3. CASE WriteBack
    BY <1>1, <2>1, <2>3 DEF WriteBack, IInv, InUseIsOnFile
  <2>4. ~(Reread \/ RereadFails)
    BY <2>1 DEF Reread, RereadFails
  <2>5. ~(\/ ReadFails \/ CreateOpen \/ CreateFails \/ CreateWrite
          \/ WriteFails \/ Start \/ Interrupted \/ PowerCut)
    BY DEF ReadFails, CreateOpen, CreateFails, CreateWrite, WriteFails, Start,
           Interrupted, PowerCut
  <2> QED
    BY <2>2, <2>3, <2>4, <2>5 DEF Next
<1> QED
  BY <1>1, InitIInv, NextIInv, PTL DEF Spec, KeepsIdentity
=============================================================================
