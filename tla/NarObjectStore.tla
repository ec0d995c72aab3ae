--------------------------- MODULE NarObjectStore ---------------------------
(***************************************************************************)
(* arca-core/src/object_store.rs: the store of compressed NARs.  Contents  *)
(* live in a content-addressed FileBlobStore, and a persistent index maps  *)
(* a NAR key to the hash of its content, so that two keys with the same    *)
(* content share one blob.  Every operation takes several steps on the two *)
(* and holds no lock across them; the calls of different tasks interleave. *)
(*                                                                         *)
(* A content stands for its hash (the hash is injective), so that an index *)
(* entry and a blob name are both elements of Data.  FileBlobStore and     *)
(* CrdtStore are libraries: each of their calls is one atomic, durable     *)
(* step.                                                                   *)
(***************************************************************************)
CONSTANTS Keys,     \* the NAR keys, "nar/{filename}"
          Data,     \* the NAR contents, each standing for its hash
          Tasks,    \* the callers, one operation at a time each
          None      \* no index record; no key or hash in a task

ASSUME NarAssumption == /\ None \notin Data
                        /\ None \notin Keys

VARIABLES index,    \* index[k]: the hash recorded for key k, or None
          blobs,    \* the hashes whose blob is on disk
          task,     \* task[t]: the operation of caller t and its locals
          seen,     \* history: the values the key of an open get has had
          raced     \* history: the contents whose put met the end of a delete

vars == <<index, blobs, task, seen, raced>>

Value == Data \cup {None}

-----------------------------------------------------------------------------
(* Task states.  pc names the step the operation takes next. *)

PutPCs == {"put_index"}
DeletePCs == {"del_index", "del_scan", "del_blob"}
WorkPCs == PutPCs \cup DeletePCs \cup {"get_blob"}

Idle == [pc |-> "idle", key |-> None, hash |-> None]
At(p, k, h) == [pc |-> p, key |-> k, hash |-> h]

TaskState == {Idle}
             \cup [pc : WorkPCs, key : Keys, hash : Data]
             \cup [pc : {"got"}, key : {None}, hash : Value]

Goto(t, s) == task' = [task EXCEPT ![t] = s]

(* Replaces the record of key k; the open gets of k observe the new value. *)
SetIndex(k, v) ==
  /\ index' = [index EXCEPT ![k] = v]
  /\ seen' = [t \in Tasks |-> IF task[t].pc = "get_blob" /\ task[t].key = k
                                THEN seen[t] \cup {v} ELSE seen[t]]

(* Some task is before the given step with the content h. *)
SomeAt(pc, h) == \E t \in Tasks : task[t].pc = pc /\ task[t].hash = h

(* A put writes its record of h while a delete of h is past its scan, or a  *)
(* delete removes the blob h while a put of h is between its steps.        *)
RaceAt(pc, h) == raced' = IF SomeAt(pc, h) THEN raced \cup {h} ELSE raced

(* has_nar *)
HasNar(k) == index[k] # None

(* Mutant: `all` for `any`. *)
HashReferencedByAll(h) == \A k \in Keys : index[k] = h

(* The scan of the index in delete_nar. *)
HashStillReferenced(h) == \E k \in Keys : index[k] = h

-----------------------------------------------------------------------------
Init == /\ index = [k \in Keys |-> None]
        /\ blobs = {}
        /\ task = [t \in Tasks |-> Idle]
        /\ seen = [t \in Tasks |-> {}]
        /\ raced = {}

(***************************************************************************)
(* put_nar_typed: the blob first (a no-op when its content is there), then *)
(* the index record, replacing the one the key had.                        *)
(***************************************************************************)
PutBlob(t, k, d) ==
  /\ task[t] = Idle
  /\ blobs' = blobs \cup {d}
  /\ Goto(t, At("put_index", k, d))
  /\ raced' = IF SomeAt("del_blob", d) THEN raced ELSE raced \ {d}
  /\ UNCHANGED <<index, seen>>

PutIndex(t) ==
  /\ task[t].pc = "put_index"
  /\ SetIndex(task[t].key, task[t].hash)
  /\ RaceAt("del_blob", task[t].hash)
  /\ Goto(t, Idle)
  /\ UNCHANGED blobs

(***************************************************************************)
(* get_nar: the record, then the blob it names.  Both errors, "NAR not     *)
(* found" and "blob missing for NAR", reach the HTTP handler as None.      *)
(***************************************************************************)
(* Mutant: no check that there is a record. *)
GetIndexUnchecked(t, k) ==
  /\ task[t] = Idle
  /\ Goto(t, At("get_blob", k, index[k]))
  /\ seen' = [seen EXCEPT ![t] = {index[k]}]
  /\ UNCHANGED <<index, blobs, raced>>

GetIndex(t, k) ==
  /\ task[t] = Idle
  /\ IF HasNar(k)
       THEN /\ Goto(t, At("get_blob", k, index[k]))
            /\ seen' = [seen EXCEPT ![t] = {index[k]}]
       ELSE /\ Goto(t, At("got", None, None))
            /\ UNCHANGED seen
  /\ UNCHANGED <<index, blobs, raced>>

GetBlob(t) ==
  /\ task[t].pc = "get_blob"
  /\ LET h == task[t].hash
     IN  Goto(t, At("got", None, IF h \in blobs THEN h ELSE None))
  /\ seen' = [seen EXCEPT ![t] = {}]
  /\ UNCHANGED <<index, blobs, raced>>

GetReturn(t) ==
  /\ task[t].pc = "got"
  /\ Goto(t, Idle)
  /\ UNCHANGED <<index, blobs, seen, raced>>

(***************************************************************************)
(* delete_nar: read the record, delete it, scan the index for another key  *)
(* with the same hash, and delete the blob when there is none.  Deleting a *)
(* key that has no record does nothing.                                    *)
(***************************************************************************)
DeleteRead(t, k) ==
  /\ task[t] = Idle
  /\ HasNar(k)
  /\ Goto(t, At("del_index", k, index[k]))
  /\ UNCHANGED <<index, blobs, seen, raced>>

(* Mutant: the scan before the record is deleted, which finds the record. *)
DeleteIndexAfterScan(t) ==
  /\ task[t].pc = "del_index"
  /\ SetIndex(task[t].key, None)
  /\ Goto(t, IF HashStillReferenced(task[t].hash)
               THEN Idle
               ELSE At("del_blob", task[t].key, task[t].hash))
  /\ UNCHANGED <<blobs, raced>>

DeleteIndex(t) ==
  /\ task[t].pc = "del_index"
  /\ SetIndex(task[t].key, None)
  /\ Goto(t, At("del_scan", task[t].key, task[t].hash))
  /\ UNCHANGED <<blobs, raced>>

(* Mutant: no scan, the blob goes with the record. *)
DeleteWithoutScan(t) ==
  /\ task[t].pc = "del_scan"
  /\ Goto(t, At("del_blob", task[t].key, task[t].hash))
  /\ UNCHANGED <<index, blobs, seen, raced>>

DeleteScan(t) ==
  /\ task[t].pc = "del_scan"
  /\ Goto(t, IF HashStillReferenced(task[t].hash)
               THEN Idle
               ELSE At("del_blob", task[t].key, task[t].hash))
  /\ UNCHANGED <<index, blobs, seen, raced>>

DeleteBlob(t) ==
  /\ task[t].pc = "del_blob"
  /\ blobs' = blobs \ {task[t].hash}
  /\ RaceAt("put_index", task[t].hash)
  /\ Goto(t, Idle)
  /\ UNCHANGED <<index, seen>>

(* blob_store.delete fails: the error is returned, the record is gone. *)
DeleteBlobFails(t) ==
  /\ task[t].pc = "del_blob"
  /\ Goto(t, Idle)
  /\ UNCHANGED <<index, blobs, seen, raced>>

(* The process dies: files stay, the operations in flight are forgotten. *)
Crash ==
  /\ task' = [t \in Tasks |-> Idle]
  /\ seen' = [t \in Tasks |-> {}]
  /\ UNCHANGED <<index, blobs, raced>>

Put(t) == PutIndex(t) \/ \E k \in Keys, d \in Data : PutBlob(t, k, d)
Get(t) == GetBlob(t) \/ GetReturn(t) \/ \E k \in Keys : GetIndex(t, k)
Delete(t) == \/ \E k \in Keys : DeleteRead(t, k)
             \/ DeleteIndex(t) \/ DeleteScan(t)
             \/ DeleteBlob(t) \/ DeleteBlobFails(t)

Next == Crash \/ \E t \in Tasks : Put(t) \/ Get(t) \/ Delete(t)

Spec == Init /\ [][Next]_vars

-----------------------------------------------------------------------------
(* Properties. *)

(* Types.  An operation past its first step knows its key and a hash, and  *)
(* only an open get collects the values of its key.                        *)
TypeOK ==
  /\ index \in [Keys -> Value]
  /\ blobs \in SUBSET Data
  /\ task \in [Tasks -> TaskState]
  /\ seen \in [Tasks -> SUBSET Value]
  /\ raced \in SUBSET Data
  /\ \A t \in Tasks : task[t].pc # "get_blob" => seen[t] = {}

(* A key that has_nar reports is a key get_nar can serve, whatever puts,   *)
(* gets and deletes of keys with the same content interleave, and across   *)
(* crashes.  The one exception: a put of the content wrote its record      *)
(* after the scan and before the end of a delete of the content, or that   *)
(* end fell between the put's two steps; and the content was not put again *)
(* after that delete.                                                      *)
HasImpliesServable ==
  \A k \in Keys : HasNar(k) /\ index[k] \notin raced => index[k] \in blobs

(* "Only delete the blob if no other key references it" (the comment over  *)
(* the scan in delete_nar): at the instant a blob goes, no record names it,*)
(* but one that a put wrote after the scan.                                *)
FreesOnlyUnreferenced ==
  [][\A h \in blobs \ blobs' : HashStillReferenced(h) => h \in raced]_vars

(* A blob no record names and no operation in flight still carries. *)
Orphan(h) == /\ h \in blobs
             /\ ~HashStillReferenced(h)
             /\ \A t \in Tasks : task[t].hash = h
                                   => task[t].pc \notin PutPCs \cup DeletePCs

Overwritten(h) == \E k \in Keys : index[k] = h /\ index'[k] \notin {h, None}

(* The delete takes a record that was put after it had read the key: it    *)
(* scans for and frees the content it has read, not the one of the record. *)
DeletesOther(t, h) ==
  DeleteIndex(t) /\ index[task[t].key] = h /\ task[t].hash # h

(* A blob becomes unreachable garbage only by a crash between two steps, a *)
(* failed blob deletion, a put that gives its key another content, or a    *)
(* delete whose key was put after it was read: two deletes that share a    *)
(* blob never both leave it to the other.                                  *)
OrphansExplained ==
  [][\A h \in Data : ~Orphan(h) /\ Orphan(h)' =>
        \/ Crash
        \/ \E t \in Tasks : DeleteBlobFails(t) \/ DeletesOther(t, h)
        \/ Overwritten(h)]_vars

(***************************************************************************)
(* Why HasImpliesServable holds: a put that has written its blob still has *)
(* it, and a delete about to remove a blob still finds it unreferenced,    *)
(* unless they met.  A get holds a hash its key has had.                   *)
(***************************************************************************)
PutHasBlob ==
  \A t \in Tasks : task[t].pc \in PutPCs /\ task[t].hash \notin raced
                     => task[t].hash \in blobs

DeleteUnreferenced ==
  \A t \in Tasks : task[t].pc = "del_blob" /\ task[t].hash \notin raced
                     => ~HashStillReferenced(task[t].hash)

GetSees ==
  \A t \in Tasks : task[t].pc = "get_blob"
                     => {task[t].hash, index[task[t].key]} \subseteq seen[t]

Inv == /\ TypeOK
       /\ HasImpliesServable
       /\ PutHasBlob
       /\ DeleteUnreferenced
       /\ GetSees

(***************************************************************************)
(* The commands of the program keep puts and deletes apart: import only    *)
(* puts, gc only deletes.  Then nothing is raced, every record has its     *)
(* blob, and a delete's record is the one it read.                         *)
(***************************************************************************)
NoneAt(pcs) == \A t \in Tasks : task[t].pc \notin pcs
PhasesApart == NoneAt(PutPCs) \/ NoneAt(DeletePCs)

DeleteOwnsRecord ==
  \A t \in Tasks : task[t].pc = "del_index"
                     => index[task[t].key] \in {task[t].hash, None}

NeverRaced == raced = {} /\ DeleteOwnsRecord

AllServable == \A k \in Keys : HasNar(k) => index[k] \in blobs

(***************************************************************************)
(* The store implements NarMap: the map is the index, a put takes effect   *)
(* with its index write and a delete with its index delete.  Every get     *)
(* answers with a value its key had during the call, or misses; it misses  *)
(* only if its key was absent or written during the call, or its content   *)
(* is raced, however many steps of other operations on other keys with the *)
(* same content fall between its two.                                      *)
(***************************************************************************)
ReadOf(t) ==
  CASE task[t].pc = "get_blob" ->
         [state |-> "pending", key |-> task[t].key, seen |-> seen[t]]
    [] task[t].pc = "got" ->
         [state |-> "answered", key |-> None, seen |-> {task[t].hash}]
    [] OTHER -> [state |-> "none", key |-> None, seen |-> {}]

Abstract == INSTANCE NarMap WITH map <- index,
                                 reads <- [t \in Tasks |-> ReadOf(t)],
                                 lost <- raced

ImplementsNarMap == Abstract!Spec
=============================================================================
