--------------------------- MODULE IndexRecovery ---------------------------
(***************************************************************************)
(* NarObjectStore::new and open_crdt_store_with_recovery, with the command *)
(* line's use of them: each process opens one or two NarObjectStores on    *)
(* the same cache directory, and an open that fails repairs the index      *)
(* directory by force.                                                     *)
(*                                                                         *)
(* A store is one incarnation of the sled database: removing the directory *)
(* unlinks the incarnation at the path, which lives on for the processes   *)
(* that have it open, and the next open creates another.  Sled takes a     *)
(* file lock for the life of a handle, also against the same process; the  *)
(* system releases it when the process ends.  `db/lock`, which attempt 2   *)
(* removes, is not the file that carries it.                               *)
(***************************************************************************)
EXTENDS Naturals, Sequences

CONSTANTS Procs,        \* the processes that may run
          Keys,         \* the NAR keys they put
          HandleCounts, \* how many NarObjectStores a command opens:
                        \* 1 (list, sign, serve) or 2 (import, gc, status,
                        \* cache-stats, serve with sync)
          MaxOpens,     \* bound: the NarObjectStores opened in a behaviour
          Overlap,      \* may a process start while another runs?
          NoStore       \* no database at the index path

ASSUME RecoveryAssumption ==
  /\ HandleCounts \subseteq 1..2
  /\ MaxOpens \in Nat
  /\ Overlap \in BOOLEAN
  /\ NoStore \notin Nat

VARIABLES dir,      \* the store at objects/index, or NoStore
          fresh,    \* the number of stores made so far
          recs,     \* recs[s]: the keys with a record in store s
          broken,   \* the stores whose files are damaged
          temps,    \* the stores in a temporary directory
          proc,     \* proc[p]: program counter, handles wanted, stores held
          opens,    \* the opens promised so far, at most MaxOpens
          acked,    \* history: the keys put into the store at the path,
                    \* since it was damaged or removed by mistake
          mistaken  \* history: the processes about to remove an index that
                    \* was locked at their last attempt, or that another
                    \* process has removed meanwhile

vars == <<dir, fresh, recs, broken, temps, proc, opens, acked, mistaken>>

Stores == 1..MaxOpens
OpenPCs == {"open1", "open2", "wipe", "open3", "open4"}

Off == [pc |-> "off", want |-> 0, held |-> <<>>]

HeldStores(p) == {proc[p].held[i] : i \in DOMAIN proc[p].held}
Locked(s) == \E p \in Procs : s \in HeldStores(p)

(* SledStorage::open succeeds on the index path. *)
CanOpen == dir = NoStore \/ (dir \notin broken /\ ~Locked(dir))

(* The store such an open yields: an empty path gets a new database. *)
Opened == IF dir = NoStore THEN fresh + 1 ELSE dir

Goto(p, pc) == proc' = [proc EXCEPT ![p].pc = pc]

(* Process p holds store s, and goes on to its next handle or its work. *)
Acquire(p, s) ==
  LET held == Append(proc[p].held, s)
  IN  proc' = [proc EXCEPT ![p] =
                 [pc |-> IF Len(held) = proc[p].want THEN "ready" ELSE "open1",
                  want |-> proc[p].want,
                  held |-> held]]

-----------------------------------------------------------------------------
Init == /\ dir = NoStore
        /\ fresh = 0
        /\ recs = [s \in Stores |-> {}]
        /\ broken = {}
        /\ temps = {}
        /\ proc = [p \in Procs |-> Off]
        /\ opens = 0
        /\ acked = {}
        /\ mistaken = {}

(* main: a command that opens n stores, one after the other. *)
Start(p, n) ==
  /\ proc[p] = Off
  /\ Overlap \/ \A q \in Procs : proc[q] = Off
  /\ opens + n <= MaxOpens
  /\ opens' = opens + n
  /\ proc' = [proc EXCEPT ![p] = [pc |-> "open1", want |-> n, held |-> <<>>]]
  /\ UNCHANGED <<dir, fresh, recs, broken, temps, acked, mistaken>>

(* Mutant: the open creates the database anew. *)
OpenIndexAnew(p) ==
  /\ proc[p].pc \in {"open1", "open2", "open3"}
  /\ CanOpen
  /\ Acquire(p, fresh + 1)
  /\ dir' = fresh + 1
  /\ fresh' = fresh + 1
  /\ UNCHANGED <<recs, broken, temps, opens, acked, mistaken>>

(* Attempts 1, 2 and 3 at the index path. *)
OpenIndex(p) ==
  /\ proc[p].pc \in {"open1", "open2", "open3"}
  /\ CanOpen
  /\ Acquire(p, Opened)
  /\ dir' = Opened
  /\ fresh' = IF dir = NoStore THEN fresh + 1 ELSE fresh
  /\ UNCHANGED <<recs, broken, temps, opens, acked, mistaken>>

(* The second attempt of p has failed: because of the lock, not of damage? *)
NoteLock(p) ==
  mistaken' = IF proc[p].pc = "open2" /\ Locked(dir) THEN mistaken \cup {p} ELSE mistaken

(* Mutant: attempt 3 is repeated until it succeeds. *)
OpenFailsForever(p) ==
  /\ proc[p].pc \in {"open1", "open2", "open3"}
  /\ ~CanOpen
  /\ Goto(p, IF proc[p].pc = "open1" THEN "open2" ELSE "wipe")
  /\ NoteLock(p)
  /\ UNCHANGED <<dir, fresh, recs, broken, temps, opens, acked>>

(* Mutant: the second attempt removes the lock file and does not open. *)
OpenFailsUntried(p) ==
  /\ proc[p].pc \in {"open1", "open2", "open3"}
  /\ ~CanOpen \/ proc[p].pc = "open2"
  /\ Goto(p, CASE proc[p].pc = "open1" -> "open2"
               [] proc[p].pc = "open2" -> "wipe"
               [] proc[p].pc = "open3" -> "open4")
  /\ NoteLock(p)
  /\ UNCHANGED <<dir, fresh, recs, broken, temps, opens, acked>>

OpenFails(p) ==
  /\ proc[p].pc \in {"open1", "open2", "open3"}
  /\ ~CanOpen
  /\ Goto(p, CASE proc[p].pc = "open1" -> "open2"
               [] proc[p].pc = "open2" -> "wipe"
               [] proc[p].pc = "open3" -> "open4")
  /\ NoteLock(p)
  /\ UNCHANGED <<dir, fresh, recs, broken, temps, opens, acked>>

(* Attempt 3 removes the directory first; a failure to is only logged. *)
Wipe(p) ==
  /\ proc[p].pc = "wipe"
  /\ dir' \in {NoStore, dir}
  /\ Goto(p, "open3")
  /\ acked' = IF dir' # dir /\ p \in mistaken THEN {} ELSE acked
  /\ mistaken' = (mistaken \ {p}) \cup
                   {q \in Procs : q # p /\ proc[q].pc = "wipe" /\ dir' # dir}
  /\ UNCHANGED <<fresh, recs, broken, temps, opens>>

(* Mutant: attempt 4 goes on without a store. *)
OpenTempForgotten(p) ==
  /\ proc[p].pc = "open4"
  /\ Goto(p, "ready")
  /\ UNCHANGED <<dir, fresh, recs, broken, temps, opens, acked, mistaken>>

(* Attempt 4: a temporary directory named by the process id and a counter, *)
(* so perhaps one that a dead process left, with its records; if that one  *)
(* is locked, a store in memory.                                           *)
OpenTemp(p) ==
  /\ proc[p].pc = "open4"
  /\ \E s \in {fresh + 1} \cup {t \in temps : ~Locked(t)} :
       /\ Acquire(p, s)
       /\ fresh' = IF s \in temps THEN fresh ELSE fresh + 1
       /\ temps' = temps \cup {s}
  /\ UNCHANGED <<dir, recs, broken, opens, acked, mistaken>>

(* put_nar_typed's index.put: import writes through its last handle, the   *)
(* sync task of serve through its first.                                   *)
PutRecord(p, k) ==
  /\ proc[p].pc = "ready"
  /\ \E s \in HeldStores(p) :
       /\ recs' = [recs EXCEPT ![s] = @ \cup {k}]
       /\ acked' = IF s = dir THEN acked \cup {k} ELSE acked
  /\ UNCHANGED <<dir, fresh, broken, temps, proc, opens, mistaken>>

(* The process ends or is killed, at any point. *)
Stop(p) ==
  /\ proc[p] # Off
  /\ proc' = [proc EXCEPT ![p] = Off]
  /\ mistaken' = mistaken \ {p}
  /\ UNCHANGED <<dir, fresh, recs, broken, temps, opens, acked>>

(* The files at the path are damaged while nobody has them open. *)
Damage ==
  /\ dir # NoStore
  /\ ~Locked(dir)
  /\ dir \notin broken
  /\ broken' = broken \cup {dir}
  /\ acked' = {}
  /\ UNCHANGED <<dir, fresh, recs, temps, proc, opens, mistaken>>

OpenStep(p) == OpenIndex(p) \/ OpenFails(p) \/ Wipe(p) \/ OpenTemp(p)

Next == \/ \E p \in Procs, n \in HandleCounts : Start(p, n)
        \/ \E p \in Procs : OpenStep(p) \/ Stop(p)
        \/ \E p \in Procs, k \in Keys : PutRecord(p, k)
        \/ Damage

Spec == Init /\ [][Next]_vars

(* A process that has started to open a store is scheduled. *)
FairSpec == Spec /\ \A p \in Procs : WF_vars(OpenStep(p))

-----------------------------------------------------------------------------
(* Properties. *)

(* Types; a process holds no more stores than it wants. *)
TypeOK ==
  /\ dir \in Stores \cup {NoStore}
  /\ fresh \in 0..MaxOpens
  /\ recs \in [Stores -> SUBSET Keys]
  /\ broken \subseteq Stores /\ temps \subseteq Stores
  /\ \A p \in Procs :
       /\ proc[p].pc \in OpenPCs \cup {"off", "ready"}
       /\ proc[p].want \in 0..2
       /\ proc[p].held \in Seq(Stores)
       /\ Len(proc[p].held) <= proc[p].want
       /\ proc[p].pc \in OpenPCs <=> Len(proc[p].held) < proc[p].want
  /\ opens \in 0..MaxOpens
  /\ acked \subseteq Keys /\ mistaken \subseteq Procs

(* "The cache server always starts": every open ends with a store, however *)
(* other processes wipe and lock the index meanwhile.                      *)
OpenFinishes ==
  \A p \in Procs : proc[p].pc \in OpenPCs ~> proc[p].pc \in {"ready", "off"}

(* A record put into the index at the path is there for the next process,  *)
(* across overlapping opens and kills at any step of an open or a recovery,*)
(* until the index is damaged or a recovery removes it by mistake; "index  *)
(* will be empty until next clean restart" is for temporary ones.          *)
RecordsSurvive == acked \subseteq (IF dir = NoStore THEN {} ELSE recs[dir])

(* A recovery removes an index that is not damaged in two cases only: the  *)
(* index was in use at its second attempt, or another recovery has put it  *)
(* in the place of the one that failed, between that attempt and the       *)
(* removal.                                                                *)
WipesExplained ==
  [][\A p \in Procs :
       Wipe(p) /\ dir' # dir /\ dir \notin broken => p \in mistaken]_vars

(* No process removes the index it has open itself: "eliminate double sled *)
(* open - single NarObjectStore per process".                              *)
KeepsOwnStore ==
  [][\A p \in Procs : Wipe(p) /\ dir' # dir => dir \notin HeldStores(p)]_vars
=============================================================================
