------------------------------- MODULE WtpId -------------------------------
(***************************************************************************)
(* The identity of the AP (wtpid.c), the UUID every request carries, and   *)
(* the file that keeps it over restarts.  wtpidInit reads the file; when   *)
(* that fails, for whatever reason, it truncates the file, writes a new    *)
(* UUID and reads it back.                                                 *)
(*                                                                         *)
(* The file is a header with a random offset, that many random bytes and a *)
(* matrix of 8 by 8 bytes, of which those at uuid_enable hold the UUID and *)
(* the others are random.  An odd offset means the matrix as it is, an     *)
(* even one its transpose.  Of the offset only this parity is kept.        *)
(*                                                                         *)
(* The bytes reach the file when the stream is closed, and the disk when   *)
(* the system writes them back: a power cut may leave any contents the     *)
(* file had since.                                                         *)
(***************************************************************************)
EXTENDS Integers, FiniteSets

CONSTANTS
  Bytes,   \* the values of a byte
  Noise,   \* a byte that is not part of a UUID
  Uuids,   \* what uuid_generate may return
  Refused, \* a file wtpidRead rejects: absent, cut short, another header
  NoUuid   \* S_wtpid as the process starts

Index == 0 .. 15

ASSUME UuidAssumption == Uuids \subseteq [Index -> Bytes]

uuid_enable ==
  {<<0, 1>>, <<0, 6>>, <<1, 2>>, <<1, 4>>, <<2, 1>>, <<2, 3>>, <<2, 7>>,
   <<3, 4>>, <<3, 5>>, <<4, 2>>, <<5, 1>>, <<5, 6>>, <<6, 2>>, <<6, 5>>,
   <<7, 3>>, <<7, 6>>}

Cells == (0 .. 7) \X (0 .. 7)

VARIABLES
  pc,      \* start, create, write, reread, up, exit or off
  file,    \* what a reader of WTPID_PATH finds now
  may,     \* what a power cut may leave there
  S_wtpid, \* the UUID in memory
  made,    \* history: the UUID generated by this process, or NoUuid
  last,    \* history: the UUID of the last process that came up, or NoUuid
  excused  \* history: since then a read of a good file failed, or a power
           \* cut changed the file

vars == <<pc, file, may, S_wtpid, made, last, excused>>

-----------------------------------------------------------------------------
(* The layout of the file                                                  *)

Before(p, q) == p[1] < q[1] \/ (p[1] = q[1] /\ p[2] < q[2])
Rank(S, p) == Cardinality({q \in S : Before(q, p)})
Flip(p) == <<p[2], p[1]>>

(* wtpidCreate goes through the matrix in the order of the file and puts   *)
(* the next byte of the UUID wherever the matrix, or its transpose, has 1. *)
Places(row) == IF row THEN uuid_enable ELSE {Flip(p) : p \in uuid_enable}

Written(u, row) ==
  [row |-> row,
   cells |-> [p \in Cells |->
                IF p \in Places(row) THEN u[Rank(Places(row), p)] ELSE Noise]]

(* wtpidRead goes through uuid_enable in the order of its rows, whichever  *)
(* the offset, and takes the byte there, or at the transposed place.       *)
CellRead_NoFlip(row, p) == p
CellRead(row, p) == IF row THEN p ELSE Flip(p)

Decoded_Short(f) ==
  [n \in 0 .. 14 |->
     f.cells[CellRead(f.row, CHOOSE p \in uuid_enable :
                               Rank(uuid_enable, p) = n)]]
Decoded(f) ==
  [n \in Index |->
     f.cells[CellRead(f.row, CHOOSE p \in uuid_enable :
                               Rank(uuid_enable, p) = n)]]

Files == {Refused} \cup {Written(u, row) : u \in Uuids, row \in BOOLEAN}

ASSUME RefusedAssumption ==
  \A u \in Uuids, row \in BOOLEAN : Written(u, row) # Refused
ASSUME NoUuidAssumption ==
  \A u \in Uuids, row \in BOOLEAN : Decoded(Written(u, row)) # NoUuid

TypeOK ==
  /\ pc \in {"start", "create", "write", "reread", "up", "exit", "off"}
  /\ file \in Files
  /\ may \subseteq Files
  /\ S_wtpid \in [Index -> Bytes \cup {Noise}] \cup {NoUuid}
  /\ made \in Uuids \cup {NoUuid}
  /\ last \in [Index -> Bytes \cup {Noise}] \cup {NoUuid}
  /\ excused \in BOOLEAN

(* The first start of the AP, which has no file.                           *)
Init ==
  /\ pc = "start" /\ file = Refused /\ may = {Refused}
  /\ S_wtpid = NoUuid /\ made = NoUuid /\ last = NoUuid /\ excused = FALSE

-----------------------------------------------------------------------------
(* wtpidInit                                                               *)

Readable(f) == f # Refused

ComesUp(u) ==
  pc' = "up" /\ S_wtpid' = u /\ last' = u /\ excused' = FALSE

ReadFile_Inverted ==
  /\ pc = "start" /\ Readable(file)
  /\ pc' = "create"
  /\ UNCHANGED <<file, may, S_wtpid, made, last, excused>>

(* The first wtpidRead.                                                    *)
ReadFile ==
  /\ pc = "start" /\ Readable(file)
  /\ ComesUp(Decoded(file))
  /\ UNCHANGED <<file, may, made>>

(* It finds no good file, or cannot open or read the one there is.         *)
ReadFails ==
  /\ pc = "start"
  /\ pc' = "create"
  /\ excused' = (excused \/ Readable(file))
  /\ UNCHANGED <<file, may, S_wtpid, made, last>>

(* wtpidCreate opens the file twice and with that empties it; in between   *)
(* the UUID is generated.                                                  *)
CreateOpen ==
  /\ pc = "create"
  /\ file' = Refused /\ may' = may \cup {Refused}
  /\ S_wtpid' \in Uuids /\ made' = S_wtpid'
  /\ pc' = "write"
  /\ UNCHANGED <<last, excused>>

(* The first open fails, or one of the steps behind it: exit(1).           *)
CreateFails ==
  /\ pc = "create"
  /\ \/ UNCHANGED <<file, may>>
     \/ file' = Refused /\ may' = may \cup {Refused}
  /\ pc' = "exit"
  /\ UNCHANGED <<S_wtpid, made, last, excused>>

(* The header, the random bytes and the matrix, out of the buffer of the   *)
(* stream and into the file when it is closed.                             *)
CreateWrite ==
  /\ pc = "write"
  /\ \E row \in BOOLEAN : file' = Written(S_wtpid, row)
  /\ may' = may \cup {file'}
  /\ pc' = "reread"
  /\ UNCHANGED <<S_wtpid, made, last, excused>>

(* fwrite fails, and wtpidInit with it; or fclose fails, which nobody sees.*)
WriteFails ==
  /\ pc = "write"
  /\ pc' \in {"exit", "reread"}
  /\ UNCHANGED <<file, may, S_wtpid, made, last, excused>>

Reread_Skipped ==
  /\ pc = "reread" /\ Readable(file)
  /\ ComesUp(S_wtpid)
  /\ UNCHANGED <<file, may, made>>

(* The second wtpidRead.                                                   *)
Reread ==
  /\ pc = "reread" /\ Readable(file)
  /\ ComesUp(Decoded(file))
  /\ UNCHANGED <<file, may, made>>

RereadFails ==
  /\ pc = "reread"
  /\ pc' = "exit"
  /\ excused' = (excused \/ Readable(file))
  /\ UNCHANGED <<file, may, S_wtpid, made, last>>

-----------------------------------------------------------------------------
(* The system                                                              *)

(* The program, or the system in good order, is started again.             *)
Start ==
  /\ pc \in {"up", "exit", "off"}
  /\ pc' = "start"
  /\ S_wtpid' = NoUuid /\ made' = NoUuid
  /\ UNCHANGED <<file, may, last, excused>>

(* A signal in wtpidInit: exit flushes what the stream of wtpidCreate has, *)
(* at best the whole file.                                                 *)
Interrupted ==
  /\ pc \in {"start", "create", "write", "reread"}
  /\ \/ UNCHANGED <<file, may>>
     \/ /\ pc = "write"
        /\ \E row \in BOOLEAN : file' = Written(S_wtpid, row)
        /\ may' = may \cup {file'}
  /\ pc' = "exit"
  /\ UNCHANGED <<S_wtpid, made, last, excused>>

WriteBack ==
  /\ may' = {file}
  /\ UNCHANGED <<pc, file, S_wtpid, made, last, excused>>

PowerCut ==
  /\ pc' = "off"
  /\ file' \in may /\ may' = {file'}
  /\ excused' = (excused \/ file' # file)
  /\ S_wtpid' = NoUuid /\ made' = NoUuid
  /\ UNCHANGED last

Next ==
  \/ ReadFile \/ ReadFails
  \/ CreateOpen \/ CreateFails \/ CreateWrite \/ WriteFails
  \/ Reread \/ RereadFails
  \/ Start \/ Interrupted \/ WriteBack \/ PowerCut

Spec == Init /\ [][Next]_vars

-----------------------------------------------------------------------------

(* The identity in use is the one the next process will read, not the one  *)
(* that was generated: wtpidInit reads the new file back.                  *)
InUseIsOnFile ==
  pc = "up" => file # Refused /\ S_wtpid = Decoded(file)

(* Whichever way the matrix lies, an identity consists of the bytes of one *)
(* generated UUID, of all of them, and of no byte put in between.          *)
OwnBytes ==
  pc = "up" =>
    \E u \in Uuids : {S_wtpid[n] : n \in Index} = {u[n] : n \in Index}

(* The AP changes its identity only when a good file could not be read, or *)
(* a power cut took the file back: no torn write, failed start or restart  *)
(* by itself does it.                                                      *)
KeepsIdentity ==
  [][pc' = "up" /\ last # NoUuid /\ ~excused => S_wtpid' = last]_vars

(* wtpid.c says that the matrix is row-first for an odd offset and         *)
(* column-first for an even one: what is read is what was generated.       *)
StoresGenerated == pc = "up" /\ made # NoUuid => S_wtpid = made
=============================================================================
