------------------------ MODULE NarObjectStoreProofs ------------------------
(***************************************************************************)
(* Theorems about NarObjectStore, for any sets of keys, contents and       *)
(* tasks.                                                                  *)
(***************************************************************************)
EXTENDS NarObjectStore, TLAPS

-----------------------------------------------------------------------------
(* Lemmas about the task states and the two ways a step writes.            *)

(* The fields of the two constructors of task states. *)
LEMMA Fields ==
  /\ Idle.pc = "idle" /\ Idle.key = None /\ Idle.hash = None
  /\ \A p, k, h : /\ At(p, k, h).pc = p
                  /\ At(p, k, h).key = k
                  /\ At(p, k, h).hash = h
BY DEF Idle, At

(* The states a task can be in. *)
LEMMA TaskStates ==
  /\ Idle \in TaskState
  /\ \A p \in WorkPCs, k \in Keys, d \in Data : At(p, k, d) \in TaskState
  /\ \A v \in Value : At("got", None, v) \in TaskState
BY DEF TaskState, Idle, At

(* What a task state says of its key and its hash. *)
LEMMA TaskFields ==
  ASSUME NEW s \in TaskState
  PROVE  /\ s.pc \in WorkPCs => s.key \in Keys /\ s.hash \in Data
         /\ s.pc = "got" => s.hash \in Value
         /\ s.pc \in WorkPCs \cup {"got", "idle"}
BY DEF TaskState, Idle, WorkPCs, PutPCs, DeletePCs

(* Goto changes the state of one task. *)
LEMMA GotoSets ==
  ASSUME task \in [Tasks -> TaskState], NEW t \in Tasks,
         NEW s \in TaskState, Goto(t, s)
  PROVE  /\ task' \in [Tasks -> TaskState]
         /\ task'[t] = s
         /\ \A u \in Tasks : u # t => task'[u] = task[u]
BY DEF Goto

(* SetIndex changes one record, and only open gets of its key see more. *)
LEMMA SetIndexSets ==
  ASSUME index \in [Keys -> Value], seen \in [Tasks -> SUBSET Value],
         NEW k \in Keys, NEW v \in Value, SetIndex(k, v)
  PROVE  /\ index' \in [Keys -> Value]
         /\ index'[k] = v
         /\ \A j \in Keys : j # k => index'[j] = index[j]
         /\ seen' \in [Tasks -> SUBSET Value]
         /\ \A t \in Tasks :
              IF task[t].pc = "get_blob" /\ task[t].key = k
                THEN seen'[t] = seen[t] \cup {v}
                ELSE seen'[t] = seen[t]
BY DEF SetIndex

-----------------------------------------------------------------------------
(* No operation loses the key or the hash it works on. *)
LEMMA TypeStep == TypeOK /\ [Next]_vars => TypeOK'
<1> SUFFICES ASSUME TypeOK, [Next]_vars PROVE TypeOK'
  OBVIOUS
<1> USE DEF TypeOK
<1>a. {"put_index", "get_blob", "del_index", "del_scan", "del_blob"} = WorkPCs
  BY DEF WorkPCs, PutPCs, DeletePCs
<1>b. Data \subseteq Value /\ None \in Value
  BY DEF Value
<1>1. CASE Crash
  BY <1>1, TaskStates, Fields DEF Crash
<1>2. ASSUME NEW t \in Tasks, NEW k \in Keys, NEW d \in Data, PutBlob(t, k, d)
      PROVE  TypeOK'
  <2>1. At("put_index", k, d) \in TaskState
    BY <1>a, TaskStates
  <2> QED
    BY <1>2, <2>1, GotoSets, Fields DEF PutBlob
<1>3. ASSUME NEW t \in Tasks, PutIndex(t)
      PROVE  TypeOK'
  <2>1. task[t].key \in Keys /\ task[t].hash \in Data /\ task[t].hash \in Value
    BY <1>3, <1>a, <1>b, TaskFields DEF PutIndex
  <2>2. raced' \in SUBSET Data
    BY <1>3, <2>1 DEF PutIndex, RaceAt
  <2> QED
    BY <1>3, <2>1, <2>2, GotoSets, SetIndexSets, TaskStates, Fields DEF PutIndex
<1>4. ASSUME NEW t \in Tasks, NEW k \in Keys, GetIndex(t, k)
      PROVE  TypeOK'
  <2>1. CASE HasNar(k)
    <3>1. index[k] \in Data
      BY <2>1 DEF HasNar, Value
    <3>2. At("get_blob", k, index[k]) \in TaskState
      BY <3>1, <1>a, TaskStates
    <3> QED
      BY <1>4, <2>1, <3>1, <3>2, <1>b, GotoSets, Fields DEF GetIndex
  <2>2. CASE ~HasNar(k)
    <3>1. At("got", None, None) \in TaskState
      BY <1>b, TaskStates
    <3> QED
      BY <1>4, <2>2, <3>1, GotoSets, Fields DEF GetIndex
  <2> QED
    BY <2>1, <2>2
<1>5. ASSUME NEW t \in Tasks, GetBlob(t)
      PROVE  TypeOK'
  <2> DEFINE v == IF task[t].hash \in blobs THEN task[t].hash ELSE None
  <2>1. At("got", None, v) \in TaskState
    BY <1>b, TaskStates
  <2>2. Goto(t, At("got", None, v))
    BY <1>5 DEF GetBlob
  <2> QED
    BY <1>5, <2>1, <2>2, GotoSets, Fields DEF GetBlob
<1>6. ASSUME NEW t \in Tasks, GetReturn(t)
      PROVE  TypeOK'
  BY <1>6, GotoSets, TaskStates, Fields DEF GetReturn
<1>7. ASSUME NEW t \in Tasks, NEW k \in Keys, DeleteRead(t, k)
      PROVE  TypeOK'
  <2>1. index[k] \in Data
    BY <1>7 DEF DeleteRead, HasNar, Value
  <2>2. At("del_index", k, index[k]) \in TaskState
    BY <2>1, <1>a, TaskStates
  <2> QED
    BY <1>7, <2>2, GotoSets, Fields DEF DeleteRead
<1>8. ASSUME NEW t \in Tasks, DeleteIndex(t)
      PROVE  TypeOK'
  <2>1. task[t].key \in Keys /\ task[t].hash \in Data
    BY <1>8, <1>a, TaskFields DEF DeleteIndex
  <2>2. At("del_scan", task[t].key, task[t].hash) \in TaskState
    BY <2>1, <1>a, TaskStates
  <2> QED
    BY <1>8, <2>1, <2>2, <1>b, GotoSets, SetIndexSets, Fields DEF DeleteIndex
<1>9. ASSUME NEW t \in Tasks, DeleteScan(t)
      PROVE  TypeOK'
  <2>1. task[t].key \in Keys /\ task[t].hash \in Data
    BY <1>9, <1>a, TaskFields DEF DeleteScan
  <2>2. At("del_blob", task[t].key, task[t].hash) \in TaskState
    BY <2>1, <1>a, TaskStates
  <2> QED
    BY <1>9, <2>2, GotoSets, TaskStates, Fields DEF DeleteScan
<1>10. ASSUME NEW t \in Tasks, DeleteBlob(t) \/ DeleteBlobFails(t)
       PROVE  TypeOK'
  <2>1. task[t].hash \in Data
    BY <1>10, <1>a, TaskFields DEF DeleteBlob, DeleteBlobFails
  <2>2. raced' \in SUBSET Data
    BY <1>10, <2>1 DEF DeleteBlob, DeleteBlobFails, RaceAt
  <2> QED
    BY <1>10, <2>2, GotoSets, TaskStates, Fields DEF DeleteBlob, DeleteBlobFails
<1>11. CASE UNCHANGED vars
  BY <1>11 DEF vars
<1> QED
  BY <1>1, <1>2, <1>3, <1>4, <1>5, <1>6, <1>7, <1>8, <1>9, <1>10, <1>11
  DEF Next, Put, Get, Delete

LEMMA TypeInit == Init => TypeOK
BY TaskStates, Fields DEF Init, TypeOK, Value

(* Every variable keeps its type: an operation past its first step has its *)
(* key and a hash.                                                         *)
THEOREM TypeCorrect == Spec => []TypeOK
BY TypeInit, TypeStep, PTL DEF Spec

-----------------------------------------------------------------------------
(* The inductive invariant. *)

(* A get holds a hash its key has had since the call: an index write to    *)
(* its key reaches what it has seen, and no other step changes either.     *)
LEMMA GetSeesStep ==
  ASSUME TypeOK, GetSees, [Next]_vars
  PROVE  GetSees'
<1>1. SUFFICES ASSUME NEW u \in Tasks, task'[u].pc = "get_blob"
               PROVE  {task'[u].hash, index'[task'[u].key]} \subseteq seen'[u]
  BY DEF GetSees
<1> DEFINE Sees == {task'[u].hash, index'[task'[u].key]} \subseteq seen'[u]
           Other(t) == u # t /\ task'[u] = task[u]
<1>2. /\ index \in [Keys -> Value] /\ task \in [Tasks -> TaskState]
      /\ seen \in [Tasks -> SUBSET Value]
  BY DEF TypeOK
<1>3. /\ {"put_index", "get_blob", "del_index", "del_scan", "del_blob"} = WorkPCs
      /\ Data \subseteq Value /\ None \in Value
  BY DEF WorkPCs, PutPCs, DeletePCs, Value
<1>4. CASE Crash
  BY <1>1, <1>4, Fields DEF Crash
<1>5. ASSUME NEW t \in Tasks, NEW k \in Keys, NEW v \in Value,
             SetIndex(k, v), Other(t)
      PROVE  Sees
  <2>1. task[u].key \in Keys
    BY <1>1, <1>2, <1>3, <1>5, TaskFields
  <2>2. {task[u].hash, index[task[u].key]} \subseteq seen[u]
    BY <1>1, <1>5 DEF GetSees
  <2> QED
    BY <1>1, <1>2, <1>5, <2>1, <2>2, SetIndexSets
<1>6. ASSUME NEW t \in Tasks, PutIndex(t)
      PROVE  Sees
  <2>1. task[t].key \in Keys /\ task[t].hash \in Value
    BY <1>2, <1>3, <1>6, TaskFields DEF PutIndex
  <2>2. Other(t)
    BY <1>1, <1>2, <1>6, GotoSets, TaskStates, Fields DEF PutIndex
  <2> QED
    BY <1>5, <1>6, <2>1, <2>2 DEF PutIndex
<1>7. ASSUME NEW t \in Tasks, DeleteIndex(t)
      PROVE  Sees
  <2>1. task[t].key \in Keys /\ task[t].hash \in Data
    BY <1>2, <1>3, <1>7, TaskFields DEF DeleteIndex
  <2>2. task' = [task EXCEPT ![t] = At("del_scan", task[t].key, task[t].hash)]
    BY <1>7 DEF DeleteIndex, Goto
  <2>3. Other(t)
    BY <1>1, <1>2, <2>2, Fields
  <2> QED
    BY <1>3, <1>5, <1>7, <2>1, <2>3 DEF DeleteIndex
<1>8. ASSUME NEW t \in Tasks, NEW k \in Keys, GetIndex(t, k)
      PROVE  Sees
  <2>1. index' = index
    BY <1>8 DEF GetIndex
  <2>2. CASE u = t /\ HasNar(k)
    <3>1. task'[u] = At("get_blob", k, index[k]) /\ seen'[u] = {index[k]}
      BY <1>2, <1>8, <2>2 DEF GetIndex, Goto
    <3> QED
      BY <2>1, <3>1, Fields
  <2>3. CASE u = t /\ ~HasNar(k)
    BY <1>1, <1>2, <1>8, <2>3, Fields DEF GetIndex, Goto
  <2>4. CASE u # t
    <3>1. task'[u] = task[u] /\ seen'[u] = seen[u]
      BY <1>2, <1>8, <2>4 DEF GetIndex, Goto
    <3> QED
      BY <1>1, <2>1, <3>1 DEF GetSees
  <2> QED
    BY <2>2, <2>3, <2>4
<1>9. ASSUME NEW t \in Tasks,
             \/ \E k \in Keys, d \in Data : PutBlob(t, k, d)
             \/ \E k \in Keys : DeleteRead(t, k)
             \/ GetBlob(t) \/ GetReturn(t)
             \/ DeleteScan(t) \/ DeleteBlob(t) \/ DeleteBlobFails(t)
      PROVE  Sees
  <2>1. task'[t].pc # "get_blob"
    BY <1>2, <1>9, Fields
    DEF Goto, PutBlob, GetBlob, GetReturn, DeleteRead, DeleteScan, DeleteBlob,
        DeleteBlobFails
  <2>2. /\ index' = index
        /\ Other(t)
        /\ seen'[u] = seen[u]
    BY <1>1, <1>2, <1>9, <2>1
    DEF Goto, PutBlob, GetBlob, GetReturn, DeleteRead, DeleteScan, DeleteBlob,
        DeleteBlobFails
  <2> QED
    BY <1>1, <2>2 DEF GetSees
<1>10. CASE UNCHANGED vars
  BY <1>1, <1>10 DEF vars, GetSees
<1> QED
  BY <1>4, <1>6, <1>7, <1>8, <1>9, <1>10 DEF Next, Put, Get, Delete

LEMMA InvInit == Init => Inv
<1> SUFFICES ASSUME Init PROVE Inv
  OBVIOUS
<1>1. \A t \in Tasks : task[t].pc = "idle"
  BY Fields DEF Init
<1>2. \A k \in Keys : ~HasNar(k)
  BY DEF Init, HasNar
<1> QED
  BY <1>1, <1>2, TypeInit
  DEF Inv, HasImpliesServable, PutHasBlob, DeleteUnreferenced, GetSees, PutPCs

LEMMA InvStep ==
  ASSUME Inv, [Next]_vars
  PROVE  Inv'
<1> USE DEF HasNar, HashStillReferenced, PutPCs
<1>a. TypeOK /\ TypeOK'
  BY TypeStep DEF Inv
<1> DEFINE Parts == /\ HasImpliesServable
                    /\ PutHasBlob
                    /\ DeleteUnreferenced
<1>b. Parts
  BY DEF Inv
<1>c. SUFFICES Parts'
  BY <1>a, GetSeesStep DEF Inv
<1>d. /\ index \in [Keys -> Value] /\ blobs \in SUBSET Data /\ raced \in SUBSET Data
      /\ task \in [Tasks -> TaskState] /\ seen \in [Tasks -> SUBSET Value]
      /\ index' \in [Keys -> Value]
  BY <1>a DEF TypeOK
<1>e. /\ {"put_index", "get_blob", "del_index", "del_scan", "del_blob"} = WorkPCs
      /\ Data \subseteq Value /\ None \in Value
  BY DEF WorkPCs, DeletePCs, Value
<1> USE DEF HasImpliesServable, PutHasBlob, DeleteUnreferenced
<1>1. CASE Crash
  BY <1>1, <1>b, Fields DEF Crash
<1>2. ASSUME NEW t \in Tasks, NEW k \in Keys, NEW d \in Data, PutBlob(t, k, d)
      PROVE  Parts'
  <2>1. At("put_index", k, d) \in TaskState
    BY <1>e, TaskStates
  <2>2. /\ task'[t] = At("put_index", k, d)
        /\ \A u \in Tasks : u # t => task'[u] = task[u]
    BY <1>2, <1>d, <2>1, GotoSets DEF PutBlob
  <2>3. blobs' = blobs \cup {d} /\ index' = index
    BY <1>2 DEF PutBlob
  <2>4. raced' \subseteq raced /\ raced \subseteq raced' \cup {d}
    BY <1>2 DEF PutBlob
  <2>5. \A u \in Tasks : task[u].pc = "del_blob" /\ task[u].hash = d => raced' = raced
    BY <1>2 DEF PutBlob, SomeAt
  <2>6. HasImpliesServable' /\ PutHasBlob'
    BY <1>b, <2>2, <2>3, <2>4, Fields
  <2>7. DeleteUnreferenced'
    BY <1>b, <2>2, <2>3, <2>4, <2>5, Fields
  <2> QED
    BY <2>6, <2>7
<1>3. ASSUME NEW t \in Tasks, PutIndex(t)
      PROVE  Parts'
  <2>1. task[t].key \in Keys /\ task[t].hash \in Data
    BY <1>3, <1>d, <1>e, TaskFields DEF PutIndex
  <2>2. /\ task'[t] = Idle
        /\ \A u \in Tasks : u # t => task'[u] = task[u]
    BY <1>3, <1>d, GotoSets, TaskStates DEF PutIndex
  <2>3. /\ index'[task[t].key] = task[t].hash
        /\ \A j \in Keys : j # task[t].key => index'[j] = index[j]
    BY <1>3, <1>d, <1>e, <2>1, SetIndexSets DEF PutIndex
  <2>4. /\ raced \subseteq raced' /\ blobs' = blobs
        /\ SomeAt("del_blob", task[t].hash) => task[t].hash \in raced'
    BY <1>3 DEF PutIndex, RaceAt
  <2>5. HasImpliesServable' /\ PutHasBlob'
    BY <1>3, <1>b, <2>2, <2>3, <2>4, Fields DEF PutIndex
  <2>6. DeleteUnreferenced'
    <3> SUFFICES ASSUME NEW u \in Tasks, task'[u].pc = "del_blob", task'[u].hash \notin raced',
                        NEW k \in Keys
                 PROVE  index'[k] # task'[u].hash
      OBVIOUS
    <3>1. u # t /\ task'[u] = task[u]
      BY <2>2, Fields
    <3>2. task[u].hash # task[t].hash
      BY <2>4, <3>1 DEF SomeAt
    <3> QED
      BY <1>b, <2>3, <2>4, <3>1, <3>2
  <2> QED
    BY <2>5, <2>6
<1>4. ASSUME NEW t \in Tasks, Get(t) \/ \E k \in Keys : DeleteRead(t, k)
      PROVE  Parts'
  <2>1. UNCHANGED <<index, blobs, raced>>
    BY <1>4 DEF Get, GetIndex, GetBlob, GetReturn, DeleteRead
  <2>2. \A u \in Tasks : u # t => task'[u] = task[u]
    BY <1>4, <1>d DEF Get, GetIndex, GetBlob, GetReturn, DeleteRead, Goto
  <2>3. task'[t].pc \in {"idle", "got", "get_blob", "del_index"}
    BY <1>4, <1>d, Fields DEF Get, GetIndex, GetBlob, GetReturn, DeleteRead, Goto
  <2> QED
    BY <1>b, <2>1, <2>2, <2>3
<1>5. ASSUME NEW t \in Tasks, DeleteIndex(t)
      PROVE  Parts'
  <2>1. task[t].key \in Keys /\ task[t].hash \in Data
    BY <1>5, <1>d, <1>e, TaskFields DEF DeleteIndex
  <2>2. /\ task'[t] = At("del_scan", task[t].key, task[t].hash)
        /\ \A u \in Tasks : u # t => task'[u] = task[u]
    BY <1>5, <1>d, <1>e, <2>1, GotoSets, TaskStates DEF DeleteIndex
  <2>3. /\ index'[task[t].key] = None
        /\ \A j \in Keys : j # task[t].key => index'[j] = index[j]
    BY <1>5, <1>d, <1>e, <2>1, SetIndexSets DEF DeleteIndex
  <2>4. UNCHANGED <<blobs, raced>>
    BY <1>5 DEF DeleteIndex
  <2>5. HasImpliesServable' /\ PutHasBlob'
    BY <1>b, <2>2, <2>3, <2>4, Fields
  <2>6. DeleteUnreferenced'
    <3> SUFFICES ASSUME NEW u \in Tasks, task'[u].pc = "del_blob", task'[u].hash \notin raced',
                        NEW k \in Keys
                 PROVE  index'[k] # task'[u].hash
      OBVIOUS
    <3>1. u # t /\ task'[u] = task[u]
      BY <2>2, Fields
    <3>2. task[u].hash \in Data
      BY <3>1, <1>d, <1>e, TaskFields
    <3> QED
      BY <1>b, <2>3, <2>4, <3>1, <3>2, NarAssumption
  <2> QED
    BY <2>5, <2>6
<1>6. ASSUME NEW t \in Tasks, DeleteScan(t)
      PROVE  Parts'
  <2>1. task[t].key \in Keys /\ task[t].hash \in Data
    BY <1>6, <1>d, <1>e, TaskFields DEF DeleteScan
  <2> DEFINE s == IF HashStillReferenced(task[t].hash)
                    THEN Idle ELSE At("del_blob", task[t].key, task[t].hash)
  <2>2. s \in TaskState /\ Goto(t, s)
    BY <1>6, <1>e, <2>1, TaskStates DEF DeleteScan
  <2>3. task'[t] = s /\ \A u \in Tasks : u # t => task'[u] = task[u]
    BY <1>d, <2>2, GotoSets
  <2>4. UNCHANGED <<index, blobs, raced>>
    BY <1>6 DEF DeleteScan
  <2> QED
    BY <1>b, <2>3, <2>4, Fields
<1>7. ASSUME NEW t \in Tasks, DeleteBlob(t)
      PROVE  Parts'
  <2>1. /\ task'[t] = Idle
        /\ \A u \in Tasks : u # t => task'[u] = task[u]
    BY <1>7, <1>d, GotoSets, TaskStates DEF DeleteBlob
  <2>2. /\ blobs' = blobs \ {task[t].hash} /\ index' = index /\ raced \subseteq raced'
        /\ SomeAt("put_index", task[t].hash) => task[t].hash \in raced'
    BY <1>7 DEF DeleteBlob, RaceAt
  <2>3. HasImpliesServable'
    BY <1>7, <1>b, <2>2 DEF DeleteBlob
  <2>4. PutHasBlob'
    <3> SUFFICES ASSUME NEW u \in Tasks, task'[u].pc = "put_index", task'[u].hash \notin raced'
                 PROVE  task'[u].hash \in blobs'
      OBVIOUS
    <3>1. u # t /\ task'[u] = task[u]
      BY <2>1, Fields
    <3>2. task[u].hash # task[t].hash
      BY <2>2, <3>1 DEF SomeAt
    <3> QED
      BY <1>b, <2>2, <3>1, <3>2
  <2>5. DeleteUnreferenced'
    BY <1>b, <2>1, <2>2, Fields
  <2> QED
    BY <2>3, <2>4, <2>5
<1>8. ASSUME NEW t \in Tasks, DeleteBlobFails(t)
      PROVE  Parts'
  <2>1. /\ task'[t] = Idle
        /\ \A u \in Tasks : u # t => task'[u] = task[u]
    BY <1>8, <1>d, GotoSets, TaskStates DEF DeleteBlobFails
  <2> QED
    BY <1>8, <1>b, <2>1, Fields DEF DeleteBlobFails
<1>9. CASE UNCHANGED vars
  BY <1>9, <1>b DEF vars
<1> QED
  BY <1>1, <1>2, <1>3, <1>4, <1>5, <1>6, <1>7, <1>8, <1>9 DEF Next, Put, Delete

LEMMA Invariance == Spec => []Inv
BY InvInit, InvStep, PTL DEF Spec

(* A key has_nar reports can be served, unless a put of its content met    *)
(* the end of a delete of that content.                                    *)
THEOREM Servable == Spec => []HasImpliesServable
<1>1. Inv => HasImpliesServable
  BY DEF Inv
<1> QED
  BY <1>1, Invariance, PTL

-----------------------------------------------------------------------------
(* Only DeleteBlob removes a blob. *)
LEMMA BlobRemoved ==
  ASSUME Next, NEW h \in blobs \ blobs'
  PROVE  \E t \in Tasks : DeleteBlob(t) /\ task[t].hash = h
<1>1. PICK t \in Tasks : DeleteBlob(t)
  BY DEF Next, Crash, Put, PutBlob, PutIndex, Get, GetIndex, GetBlob, GetReturn,
         Delete, DeleteRead, DeleteIndex, DeleteScan, DeleteBlobFails
<1> QED
  BY <1>1 DEF DeleteBlob

(* The comment over delete_nar's scan: a delete removes a blob that a      *)
(* record names only if a put of that content wrote its record meanwhile.  *)
THEOREM FreesUnreferenced == Spec => FreesOnlyUnreferenced
<1>1. Inv /\ [Next]_vars =>
        [\A h \in blobs \ blobs' : HashStillReferenced(h) => h \in raced]_vars
  <2> SUFFICES ASSUME Inv, Next, NEW h \in blobs \ blobs', HashStillReferenced(h)
               PROVE  h \in raced
    BY DEF vars
  <2>1. PICK t \in Tasks : DeleteBlob(t) /\ task[t].hash = h
    BY BlobRemoved
  <2> QED
    BY <2>1 DEF DeleteBlob, Inv, DeleteUnreferenced
<1> QED
  BY <1>1, Invariance, PTL DEF Spec, FreesOnlyUnreferenced

-----------------------------------------------------------------------------
(* What makes a blob garbage. *)
LEMMA OrphanStep ==
  ASSUME TypeOK, Next, NEW h \in Data, ~Orphan(h), Orphan(h)'
  PROVE  \/ Crash
         \/ \E t \in Tasks : DeleteBlobFails(t) \/ DeletesOther(t, h)
         \/ Overwritten(h)
<1> DEFINE Explained == \/ Crash
                        \/ \E t \in Tasks : DeleteBlobFails(t) \/ DeletesOther(t, h)
                        \/ Overwritten(h)
<1>1. ASSUME ~Explained
      PROVE  FALSE
  <2> USE DEF HashStillReferenced, PutPCs, DeletePCs
  <2>1. TypeOK
    BY <1>1
  <2>2. /\ index \in [Keys -> Value] /\ blobs \in SUBSET Data
        /\ task \in [Tasks -> TaskState] /\ seen \in [Tasks -> SUBSET Value]
        /\ h # None
    BY <2>1, NarAssumption DEF TypeOK
  <2>3. /\ {"put_index", "get_blob", "del_index", "del_scan", "del_blob"} = WorkPCs
        /\ Data \subseteq Value /\ None \in Value
    BY DEF WorkPCs, Value
  <2>4. /\ h \in blobs'
        /\ \A k \in Keys : index'[k] # h
        /\ \A u \in Tasks : task'[u].hash = h
                             => task'[u].pc \notin PutPCs \cup DeletePCs
    BY <1>1 DEF Orphan
  <2>5. \/ h \notin blobs
        \/ \E k \in Keys : index[k] = h
        \/ \E u \in Tasks : task[u].hash = h /\ task[u].pc \in PutPCs \cup DeletePCs
    BY <1>1 DEF Orphan
  <2>6. ASSUME NEW t \in Tasks, NEW k \in Keys, NEW d \in Data, PutBlob(t, k, d)
        PROVE  FALSE
    <3>1. At("put_index", k, d) \in TaskState
      BY <2>3, TaskStates
    <3>2. /\ task'[t] = At("put_index", k, d)
          /\ \A u \in Tasks : u # t => task'[u] = task[u]
      BY <2>6, <2>2, <3>1, GotoSets DEF PutBlob
    <3> QED
      BY <2>6, <2>4, <2>5, <3>2, Fields DEF PutBlob
  <2>7. ASSUME NEW t \in Tasks, PutIndex(t)
        PROVE  FALSE
    <3>1. task[t].key \in Keys /\ task[t].hash \in Data
      BY <2>7, <2>2, <2>3, TaskFields DEF PutIndex
    <3>2. \A u \in Tasks : u # t => task'[u] = task[u]
      BY <2>7, <2>2, GotoSets, TaskStates DEF PutIndex
    <3>3. /\ index'[task[t].key] = task[t].hash
          /\ \A j \in Keys : j # task[t].key => index'[j] = index[j]
      BY <2>7, <2>2, <2>3, <3>1, SetIndexSets DEF PutIndex
    <3>4. task[t].hash # h
      BY <2>4, <3>1, <3>3
    <3>5. PICK k \in Keys : index[k] = h
      BY <2>7, <2>4, <2>5, <3>2, <3>4 DEF PutIndex
    <3>6. Overwritten(h)
      BY <2>4, <3>1, <3>3, <3>4, <3>5, NarAssumption DEF Overwritten
    <3> QED
      BY <1>1, <3>6
  <2>8. ASSUME NEW t \in Tasks, DeleteIndex(t)
        PROVE  FALSE
    <3>1. task[t].key \in Keys /\ task[t].hash \in Data
      BY <2>8, <2>2, <2>3, TaskFields DEF DeleteIndex
    <3>2. /\ task'[t] = At("del_scan", task[t].key, task[t].hash)
          /\ \A u \in Tasks : u # t => task'[u] = task[u]
      BY <2>8, <2>2, <2>3, <3>1, GotoSets, TaskStates DEF DeleteIndex
    <3>3. \A j \in Keys : j # task[t].key => index'[j] = index[j]
      BY <2>8, <2>2, <2>3, <3>1, SetIndexSets DEF DeleteIndex
    <3>4. task[t].hash # h
      BY <2>4, <3>2, Fields
    <3>5. index[task[t].key] # h
      BY <1>1, <2>8, <3>4 DEF DeletesOther
    <3>6. \A k \in Keys : index[k] # h
      BY <2>2, <2>4, <3>3, <3>5
    <3> QED
      BY <2>8, <2>4, <2>5, <3>2, <3>4, <3>6 DEF DeleteIndex
  <2>9. ASSUME NEW t \in Tasks, DeleteScan(t)
        PROVE  FALSE
    <3>1. task[t].key \in Keys /\ task[t].hash \in Data
      BY <2>9, <2>2, <2>3, TaskFields DEF DeleteScan
    <3> DEFINE s == IF HashStillReferenced(task[t].hash)
                      THEN Idle ELSE At("del_blob", task[t].key, task[t].hash)
    <3>2. s \in TaskState /\ Goto(t, s)
      BY <2>9, <2>3, <3>1, TaskStates DEF DeleteScan
    <3>3. task'[t] = s /\ \A u \in Tasks : u # t => task'[u] = task[u]
      BY <2>2, <3>2, GotoSets
    <3> QED
      BY <2>9, <2>4, <2>5, <3>3, Fields DEF DeleteScan
  <2>10. ASSUME NEW t \in Tasks, DeleteBlob(t)
         PROVE  FALSE
    <3>1. \A u \in Tasks : u # t => task'[u] = task[u]
      BY <2>10, <2>2, GotoSets, TaskStates DEF DeleteBlob
    <3> QED
      BY <2>10, <2>4, <2>5, <3>1 DEF DeleteBlob
  <2>11. ASSUME NEW t \in Tasks, Get(t) \/ \E k \in Keys : DeleteRead(t, k)
         PROVE  FALSE
    <3>1. task[t].pc \notin PutPCs \cup DeletePCs
      BY <2>11, Fields DEF Get, GetIndex, GetBlob, GetReturn, DeleteRead
    <3>2. \A u \in Tasks : u # t => task'[u] = task[u]
      BY <2>11, <2>2 DEF Get, GetIndex, GetBlob, GetReturn, DeleteRead, Goto
    <3>3. UNCHANGED <<index, blobs>>
      BY <2>11 DEF Get, GetIndex, GetBlob, GetReturn, DeleteRead
    <3> QED
      BY <2>4, <2>5, <3>1, <3>2, <3>3
  <2> QED
    BY <1>1, <2>6, <2>7, <2>8, <2>9, <2>10, <2>11 DEF Next, Put, Delete
<1> QED
  BY <1>1

(* Garbage has only the causes OrphansExplained names: no delete leaves a  *)
(* blob it shares with another delete to that other one.                   *)
THEOREM OrphanCauses == Spec => OrphansExplained
<1>1. TypeOK /\ [Next]_vars =>
        [\A h \in Data : ~Orphan(h) /\ Orphan(h)' =>
            \/ Crash
            \/ \E t \in Tasks : DeleteBlobFails(t) \/ DeletesOther(t, h)
            \/ Overwritten(h)]_vars
  BY OrphanStep
<1> QED
  BY <1>1, TypeCorrect, PTL DEF Spec, OrphansExplained

-----------------------------------------------------------------------------
(* What follows where puts and deletes keep apart, as the program's        *)
(* commands keep them.                                                     *)

LEMMA ApartInit == Init => NeverRaced
BY Fields DEF Init, NeverRaced, DeleteOwnsRecord

LEMMA ApartStep ==
  ASSUME TypeOK, PhasesApart, NeverRaced, [Next]_vars
  PROVE  NeverRaced'
<1> USE DEF NeverRaced, DeleteOwnsRecord
<1>1. /\ index \in [Keys -> Value] /\ seen \in [Tasks -> SUBSET Value]
      /\ task \in [Tasks -> TaskState]
  BY DEF TypeOK
<1>2. /\ {"put_index", "get_blob", "del_index", "del_scan", "del_blob"} = WorkPCs
      /\ Data \subseteq Value /\ None \in Value
  BY DEF WorkPCs, PutPCs, DeletePCs, Value
<1>3. CASE Crash
  BY <1>3, Fields DEF Crash
<1>4. ASSUME NEW t \in Tasks, PutIndex(t)
      PROVE  NeverRaced'
  <2>1. \A u \in Tasks : task[u].pc \notin DeletePCs
    BY <1>4 DEF PutIndex, PhasesApart, NoneAt, PutPCs
  <2>2. \A u \in Tasks : task'[u].pc # "del_index"
    BY <1>1, <1>4, <2>1, Fields DEF PutIndex, Goto, DeletePCs
  <2>3. raced' = raced
    BY <1>4, <2>1 DEF PutIndex, RaceAt, SomeAt, DeletePCs
  <2> QED
    BY <2>2, <2>3
<1>5. ASSUME NEW t \in Tasks, DeleteIndex(t)
      PROVE  NeverRaced'
  <2>1. task[t].key \in Keys /\ task[t].hash \in Data
    BY <1>1, <1>2, <1>5, TaskFields DEF DeleteIndex
  <2>2. /\ task'[t] = At("del_scan", task[t].key, task[t].hash)
        /\ \A u \in Tasks : u # t => task'[u] = task[u]
    BY <1>1, <1>2, <1>5, <2>1, GotoSets, TaskStates DEF DeleteIndex
  <2>3. /\ index'[task[t].key] = None
        /\ \A j \in Keys : j # task[t].key => index'[j] = index[j]
    BY <1>1, <1>2, <1>5, <2>1, SetIndexSets DEF DeleteIndex
  <2>4. ASSUME NEW u \in Tasks, task'[u].pc = "del_index"
        PROVE  index'[task'[u].key] \in {task'[u].hash, None}
    <3>1. u # t /\ task'[u] = task[u]
      BY <2>2, <2>4, Fields
    <3>2. task[u].key \in Keys
      BY <1>1, <1>2, <2>4, <3>1, TaskFields
    <3> QED
      BY <2>3, <2>4, <3>1, <3>2
  <2> QED
    BY <1>5, <2>4 DEF DeleteIndex
<1>6. ASSUME NEW t \in Tasks, DeleteBlob(t)
      PROVE  NeverRaced'
  <2>1. \A u \in Tasks : task[u].pc \notin PutPCs
    BY <1>6 DEF DeleteBlob, PhasesApart, NoneAt, DeletePCs
  <2>2. raced' = raced
    BY <1>6, <2>1 DEF DeleteBlob, RaceAt, SomeAt, PutPCs
  <2>3. index' = index /\ Goto(t, Idle)
    BY <1>6 DEF DeleteBlob
  <2> QED
    BY <1>1, <2>2, <2>3, Fields DEF Goto
<1>7. ASSUME NEW t \in Tasks, NEW k \in Keys, DeleteRead(t, k)
      PROVE  NeverRaced'
  <2>1. task' = [task EXCEPT ![t] = At("del_index", k, index[k])]
    BY <1>7 DEF DeleteRead, Goto
  <2>2. UNCHANGED <<index, raced>>
    BY <1>7 DEF DeleteRead
  <2> QED
    BY <1>1, <2>1, <2>2, Fields
<1>8. ASSUME NEW t \in Tasks,
             \/ \E k \in Keys, d \in Data : PutBlob(t, k, d)
             \/ Get(t) \/ DeleteScan(t) \/ DeleteBlobFails(t)
      PROVE  NeverRaced'
  <2>1. UNCHANGED index /\ raced' \subseteq raced
    BY <1>8
    DEF PutBlob, Get, GetIndex, GetBlob, GetReturn, DeleteScan, DeleteBlobFails
  <2>2. /\ task'[t].pc # "del_index"
        /\ \A u \in Tasks : u # t => task'[u] = task[u]
    BY <1>1, <1>8, Fields
    DEF Goto, PutBlob, Get, GetIndex, GetBlob, GetReturn, DeleteScan,
        DeleteBlobFails
  <2> QED
    BY <2>1, <2>2
<1>9. CASE UNCHANGED vars
  BY <1>9 DEF vars
<1> QED
  BY <1>3, <1>4, <1>5, <1>6, <1>7, <1>8, <1>9 DEF Next, Put, Delete

(* Puts and deletes that keep apart never race, and a delete removes the   *)
(* record it has read.                                                     *)
THEOREM ApartNeverRaced == Spec /\ []PhasesApart => []NeverRaced
BY ApartInit, ApartStep, TypeCorrect, PTL DEF Spec

(* Then every key has_nar reports can be served, with no exception. *)
THEOREM ApartServable == Spec /\ []PhasesApart => []AllServable
<1>1. Inv /\ NeverRaced => AllServable
  BY DEF Inv, NeverRaced, HasImpliesServable, AllServable
<1> QED
  BY <1>1, Invariance, ApartNeverRaced, PTL

(* And a delete takes no record but of the content it has read, and no     *)
(* blob that a record names.                                               *)
THEOREM ApartDeletes ==
  Spec /\ []PhasesApart =>
    [][/\ \A h \in blobs \ blobs' : ~HashStillReferenced(h)
       /\ \A t \in Tasks, h \in Data : ~DeletesOther(t, h)]_vars
<1>1. Inv /\ NeverRaced /\ [Next]_vars =>
        [/\ \A h \in blobs \ blobs' : ~HashStillReferenced(h)
         /\ \A t \in Tasks, h \in Data : ~DeletesOther(t, h)]_vars
  <2> SUFFICES ASSUME Inv, NeverRaced, Next
               PROVE  /\ \A h \in blobs \ blobs' : ~HashStillReferenced(h)
                      /\ \A t \in Tasks, h \in Data : ~DeletesOther(t, h)
    BY DEF vars
  <2>1. ASSUME NEW h \in blobs \ blobs'
        PROVE  ~HashStillReferenced(h)
    <3>1. PICK t \in Tasks : DeleteBlob(t) /\ task[t].hash = h
      BY <2>1, BlobRemoved
    <3> QED
      BY <3>1 DEF DeleteBlob, Inv, DeleteUnreferenced, NeverRaced
  <2>2. ASSUME NEW t \in Tasks, NEW h \in Data
        PROVE  ~DeletesOther(t, h)
    BY NarAssumption
    DEF DeletesOther, DeleteIndex, NeverRaced, DeleteOwnsRecord
  <2> QED
    BY <2>1, <2>2
<1> QED
  BY <1>1, Invariance, ApartNeverRaced, PTL DEF Spec

-----------------------------------------------------------------------------
(* The refinement: what the abstract reads look like, by task state. *)

LEMMA ReadOfIdle == \A t \in Tasks :
  task[t].pc \notin {"get_blob", "got"} => ReadOf(t) = Abstract!NoRead
BY DEF ReadOf, Abstract!NoRead

LEMMA ReadOfOpen == \A t \in Tasks :
  task[t].pc = "get_blob" => ReadOf(t) = Abstract!Pending(task[t].key, seen[t])
BY DEF ReadOf, Abstract!Pending

LEMMA ReadOfGot == \A t \in Tasks :
  task[t].pc = "got" => ReadOf(t) = Abstract!Answered(task[t].hash)
BY DEF ReadOf, Abstract!Answered

(* A step that moves no task into, within or out of a get keeps the reads. *)
LEMMA ReadsKept ==
  ASSUME NEW t \in Tasks, seen' = seen,
         task[t].pc \notin {"get_blob", "got"},
         task'[t].pc \notin {"get_blob", "got"},
         \A u \in Tasks : u # t => task'[u] = task[u]
  PROVE  [u \in Tasks |-> ReadOf(u)]' = [u \in Tasks |-> ReadOf(u)]
<1>1. ASSUME NEW u \in Tasks PROVE ReadOf(u)' = ReadOf(u)
  <2>1. CASE u = t
    BY <2>1 DEF ReadOf
  <2>2. CASE u # t
    BY <2>2 DEF ReadOf
  <2> QED
    BY <2>1, <2>2
<1> QED
  BY <1>1

(* An index write by a task that is in no get is a write of the map: the   *)
(* open gets of the key observe it.                                        *)
LEMMA WriteRefined ==
  ASSUME TypeOK, NEW t \in Tasks, NEW k \in Keys, NEW v \in Value,
         SetIndex(k, v),
         task[t].pc \notin {"get_blob", "got"},
         task'[t].pc \notin {"get_blob", "got"},
         \A u \in Tasks : u # t => task'[u] = task[u],
         raced' \in {raced, raced \cup ({v} \cap Data)}
  PROVE  Abstract!Write(k, v)
<1> DEFINE R == [u \in Tasks |-> ReadOf(u)]
<1>1. ASSUME NEW u \in Tasks
      PROVE  ReadOf(u)' = IF R[u].state = "pending" /\ R[u].key = k
                            THEN Abstract!Pending(k, R[u].seen \cup {v})
                            ELSE R[u]
  <2>1. CASE task[u].pc = "get_blob"
    <3>1. u # t /\ task'[u] = task[u]
      BY <2>1
    <3>2. IF task[u].key = k THEN seen'[u] = seen[u] \cup {v} ELSE seen'[u] = seen[u]
      BY <2>1, SetIndexSets DEF TypeOK
    <3>3. /\ R[u].state = "pending" /\ R[u].key = task[u].key
          /\ R[u].seen = seen[u]
      BY <2>1 DEF ReadOf
    <3>4. ReadOf(u)' = [state |-> "pending", key |-> task[u].key, seen |-> seen'[u]]
      BY <2>1, <3>1 DEF ReadOf
    <3>5. R[u] = [state |-> "pending", key |-> task[u].key, seen |-> seen[u]]
      BY <2>1 DEF ReadOf
    <3> QED
      BY <3>2, <3>3, <3>4, <3>5 DEF Abstract!Pending
  <2>2. CASE task[u].pc # "get_blob"
    <3>1. R[u].state # "pending"
      BY <2>2 DEF ReadOf
    <3>2. ReadOf(u)' = ReadOf(u)
      <4>1. CASE u = t
        BY <4>1 DEF ReadOf
      <4>2. CASE u # t
        BY <2>2, <4>2 DEF ReadOf
      <4> QED
        BY <4>1, <4>2
    <3> QED
      BY <3>1, <3>2
  <2> QED
    BY <2>1, <2>2
<1>2. index' = [index EXCEPT ![k] = v]
  BY DEF SetIndex
<1> QED
  BY <1>1, <1>2 DEF Abstract!Write, Abstract!Observe

(* A step of a get that leaves the index alone changes one read. *)
LEMMA OneRead ==
  ASSUME NEW t \in Tasks,
         \A u \in Tasks : u # t => task'[u] = task[u] /\ seen'[u] = seen[u]
  PROVE  [u \in Tasks |-> ReadOf(u)]'
           = [[u \in Tasks |-> ReadOf(u)] EXCEPT ![t] = ReadOf(t)']
<1>1. \A u \in Tasks : u # t => ReadOf(u)' = ReadOf(u)
  BY DEF ReadOf
<1> QED
  BY <1>1

LEMMA RefinementStep ==
  ASSUME Inv, Inv', [Next]_vars
  PROVE  [Abstract!Next]_(Abstract!vars)
<1> DEFINE R == [u \in Tasks |-> ReadOf(u)]
<1>a. /\ TypeOK /\ HasImpliesServable /\ GetSees
  BY DEF Inv
<1>b. /\ index \in [Keys -> Value] /\ blobs \in SUBSET Data
      /\ task \in [Tasks -> TaskState] /\ seen \in [Tasks -> SUBSET Value]
  BY <1>a DEF TypeOK
<1>c. /\ {"put_index", "get_blob", "del_index", "del_scan", "del_blob"} = WorkPCs
      /\ Data \subseteq Value /\ None \in Value
  BY DEF WorkPCs, PutPCs, DeletePCs, Value
<1>1. CASE Crash
  <2>1. \A u \in Tasks : task'[u].pc = "idle"
    BY <1>1, Fields DEF Crash
  <2>2. R' = [u \in Tasks |-> Abstract!NoRead]
    BY <2>1 DEF ReadOf, Abstract!NoRead
  <2> QED
    BY <1>1, <2>2 DEF Crash, Abstract!Next, Abstract!Crash
<1>2. ASSUME NEW t \in Tasks, NEW k \in Keys, NEW d \in Data, PutBlob(t, k, d)
      PROVE  Abstract!Next \/ UNCHANGED Abstract!vars
  <2>1. At("put_index", k, d) \in TaskState
    BY <1>c, TaskStates
  <2>2. /\ task'[t] = At("put_index", k, d)
        /\ \A u \in Tasks : u # t => task'[u] = task[u]
    BY <1>2, <1>b, <2>1, GotoSets DEF PutBlob
  <2>3. R' = R /\ index' = index
    BY <1>2, <2>2, ReadsKept, Fields DEF PutBlob
  <2>4. raced' = raced \/ raced' = raced \ {d}
    BY <1>2 DEF PutBlob
  <2>5. CASE raced' = raced
    BY <2>3, <2>5 DEF Abstract!vars
  <2>6. CASE raced' = raced \ {d}
    <3>1. Abstract!Restore(d)
      BY <2>3, <2>6 DEF Abstract!Restore
    <3> QED
      BY <3>1 DEF Abstract!Next
  <2> QED
    BY <2>4, <2>5, <2>6
<1>3. ASSUME NEW t \in Tasks, PutIndex(t)
      PROVE  Abstract!Next
  <2>1. task[t].key \in Keys /\ task[t].hash \in Value /\ task[t].hash \in Data
    BY <1>3, <1>b, <1>c, TaskFields DEF PutIndex
  <2>2. /\ task'[t] = Idle
        /\ \A u \in Tasks : u # t => task'[u] = task[u]
    BY <1>3, <1>b, GotoSets, TaskStates DEF PutIndex
  <2>3. raced' \in {raced, raced \cup ({task[t].hash} \cap Data)}
    BY <1>3, <2>1 DEF PutIndex, RaceAt
  <2>4. Abstract!Write(task[t].key, task[t].hash)
    BY <1>3, <1>a, <2>1, <2>2, <2>3, WriteRefined, Fields DEF PutIndex
  <2> QED
    BY <2>1, <2>4 DEF Abstract!Next, Abstract!Value, Value
<1>4. ASSUME NEW t \in Tasks, DeleteIndex(t)
      PROVE  Abstract!Next
  <2>1. task[t].key \in Keys /\ task[t].hash \in Data
    BY <1>4, <1>b, <1>c, TaskFields DEF DeleteIndex
  <2>2. /\ task'[t] = At("del_scan", task[t].key, task[t].hash)
        /\ \A u \in Tasks : u # t => task'[u] = task[u]
    BY <1>4, <1>b, <1>c, <2>1, GotoSets, TaskStates DEF DeleteIndex
  <2>3. Abstract!Write(task[t].key, None)
    BY <1>4, <1>a, <1>c, <2>1, <2>2, WriteRefined, Fields DEF DeleteIndex
  <2> QED
    BY <2>1, <2>3 DEF Abstract!Next, Abstract!Value
<1>5. ASSUME NEW t \in Tasks, NEW k \in Keys, GetIndex(t, k)
      PROVE  Abstract!Next
  <2>1. R[t] = Abstract!NoRead
    BY <1>5, ReadOfIdle, Fields DEF GetIndex
  <2>2. CASE HasNar(k)
    <3>1. index[k] \in Data
      BY <2>2, <1>b DEF HasNar, Value
    <3>2. /\ task'[t] = At("get_blob", k, index[k])
          /\ \A u \in Tasks : u # t => task'[u] = task[u]
      BY <1>5, <1>b, <1>c, <2>2, <3>1, GotoSets, TaskStates DEF GetIndex
    <3>3. /\ seen'[t] = {index[k]}
          /\ \A u \in Tasks : u # t => seen'[u] = seen[u]
      BY <1>5, <1>b, <2>2 DEF GetIndex
    <3>4. R' = [R EXCEPT ![t] = ReadOf(t)']
      BY <3>2, <3>3, OneRead
    <3>5. ReadOf(t)' = Abstract!Pending(k, {index[k]})
      <4>1. task'[t].pc = "get_blob" /\ task'[t].key = k
        BY <3>2, Fields
      <4> QED
        BY <3>3, <4>1 DEF ReadOf, Abstract!Pending
    <3>6. Abstract!BeginGet(t, k)
      BY <1>5, <2>1, <3>4, <3>5 DEF GetIndex, Abstract!BeginGet
    <3> QED
      BY <3>6 DEF Abstract!Next
  <2>3. CASE ~HasNar(k)
    <3>1. /\ task'[t] = At("got", None, None)
          /\ \A u \in Tasks : u # t => task'[u] = task[u]
      BY <1>5, <1>b, <1>c, <2>3, GotoSets, TaskStates DEF GetIndex
    <3>2. R' = [R EXCEPT ![t] = ReadOf(t)']
      BY <1>5, <2>3, <3>1, OneRead DEF GetIndex
    <3>3. ReadOf(t)' = Abstract!Answered(None)
      BY <3>1, Fields DEF ReadOf, Abstract!Answered
    <3>4. Abstract!GetMiss(t, k)
      BY <1>5, <2>1, <2>3, <3>2, <3>3 DEF GetIndex, HasNar, Abstract!GetMiss
    <3> QED
      BY <3>4 DEF Abstract!Next
  <2> QED
    BY <2>2, <2>3
<1>6. ASSUME NEW t \in Tasks, GetBlob(t)
      PROVE  Abstract!Next
  <2> DEFINE h == task[t].hash
             v == IF h \in blobs THEN h ELSE None
  <2>1. task[t].pc = "get_blob" /\ task[t].key \in Keys /\ h \in Data
    BY <1>6, <1>b, <1>c, TaskFields DEF GetBlob
  <2>2. At("got", None, v) \in TaskState /\ Goto(t, At("got", None, v))
    BY <1>6, <1>b, <1>c, TaskStates DEF GetBlob
  <2>3. /\ task'[t] = At("got", None, v)
        /\ \A u \in Tasks : u # t => task'[u] = task[u]
    BY <1>b, <2>2, GotoSets
  <2>4. \A u \in Tasks : u # t => seen'[u] = seen[u]
    BY <1>6, <1>b DEF GetBlob
  <2>5. R' = [R EXCEPT ![t] = ReadOf(t)']
    BY <2>3, <2>4, OneRead
  <2>6. ReadOf(t)' = Abstract!Answered(v)
    <3>1. task'[t].pc = "got" /\ task'[t].hash = v
      BY <2>3, Fields
    <3> QED
      BY <3>1 DEF ReadOf, Abstract!Answered
  <2>7. R[t].state = "pending" /\ R[t].key = task[t].key /\ R[t].seen = seen[t]
    BY <2>1 DEF ReadOf
  <2>8. v \in Abstract!Answers(task[t].key, seen[t])
    <3>1. h \in seen[t] /\ index[task[t].key] \in seen[t]
      BY <1>a, <2>1 DEF GetSees
    <3>2. CASE h \in blobs
      BY <3>1, <3>2 DEF Abstract!Answers
    <3>3. CASE h \notin blobs
      <4>1. index[task[t].key] # h \/ index[task[t].key] \in raced
        BY <3>3, <1>a, <2>1, NarAssumption DEF HasImpliesServable, HasNar
      <4> QED
        BY <3>1, <3>3, <4>1 DEF Abstract!Answers
    <3> QED
      BY <3>2, <3>3
  <2>9. Abstract!EndGet(t)
    BY <1>6, <2>5, <2>6, <2>7, <2>8 DEF GetBlob, Abstract!EndGet
  <2> QED
    BY <2>9 DEF Abstract!Next
<1>7. ASSUME NEW t \in Tasks, GetReturn(t)
      PROVE  Abstract!Next
  <2>1. /\ task'[t] = Idle
        /\ \A u \in Tasks : u # t => task'[u] = task[u]
    BY <1>7, <1>b, GotoSets, TaskStates DEF GetReturn
  <2>2. R[t].state = "answered"
    BY <1>7 DEF GetReturn, ReadOf
  <2>3. R' = [R EXCEPT ![t] = ReadOf(t)']
    BY <1>7, <2>1, OneRead DEF GetReturn
  <2>4. ReadOf(t)' = Abstract!NoRead
    BY <2>1, Fields DEF ReadOf, Abstract!NoRead
  <2>5. Abstract!Return(t)
    BY <1>7, <2>2, <2>3, <2>4 DEF GetReturn, Abstract!Return
  <2> QED
    BY <2>5 DEF Abstract!Next
<1>8. ASSUME NEW t \in Tasks,
             \/ \E k \in Keys : DeleteRead(t, k)
             \/ DeleteScan(t) \/ DeleteBlob(t) \/ DeleteBlobFails(t)
      PROVE  Abstract!Next \/ UNCHANGED Abstract!vars
  <2>1. task[t].pc \notin {"get_blob", "got"} /\ UNCHANGED <<index, seen>>
    BY <1>8, Fields DEF DeleteRead, DeleteScan, DeleteBlob, DeleteBlobFails
  <2>2. /\ task'[t].pc \notin {"get_blob", "got"}
        /\ \A u \in Tasks : u # t => task'[u] = task[u]
    BY <1>8, <1>b, Fields
    DEF DeleteRead, DeleteScan, DeleteBlob, DeleteBlobFails, Goto
  <2>3. R' = R
    BY <2>1, <2>2, ReadsKept
  <2>4. CASE raced' = raced
    BY <2>1, <2>3, <2>4 DEF Abstract!vars
  <2>5. CASE raced' # raced
    <3>1. DeleteBlob(t)
      BY <1>8, <2>5 DEF DeleteRead, DeleteScan, DeleteBlobFails
    <3>2. task[t].hash \in Data
      BY <1>b, <1>c, <3>1, TaskFields DEF DeleteBlob
    <3>3. Abstract!Lose(task[t].hash)
      BY <2>1, <2>3, <2>5, <3>1 DEF DeleteBlob, RaceAt, Abstract!Lose
    <3> QED
      BY <3>2, <3>3 DEF Abstract!Next
  <2> QED
    BY <2>4, <2>5
<1>9. CASE UNCHANGED vars
  BY <1>9 DEF vars, Abstract!vars, ReadOf
<1> QED
  BY <1>1, <1>2, <1>3, <1>4, <1>5, <1>6, <1>7, <1>8, <1>9
  DEF Next, Put, Get, Delete, Crash

(* The store implements the map: no interleaving of its steps shows a      *)
(* caller anything the map could not.                                      *)
THEOREM Refinement == Spec => ImplementsNarMap
<1>1. Init => Abstract!Init
  BY Fields DEF Init, Abstract!Init, ReadOf, Abstract!NoRead
<1>2. Inv /\ Inv' /\ [Next]_vars => [Abstract!Next]_(Abstract!vars)
  BY RefinementStep
<1> QED
  BY <1>1, <1>2, Invariance, PTL DEF Spec, ImplementsNarMap, Abstract!Spec
=============================================================================
