--------------------------- MODULE ArcaProcesses ---------------------------
(***************************************************************************)
(* The commands of arca-cli as processes on one cache directory, with the  *)
(* filesystem backend: each opens its NarObjectStores as IndexRecovery     *)
(* says, then works on the narinfo files, the blobs and the index that are *)
(* there.  The narinfo files and the blobs are shared by all processes, an *)
(* index belongs to the handle that has it open.                           *)
(*                                                                         *)
(* A path has one NAR and one blob.  put_nar is its two writes; delete_nar *)
(* and the narinfo that goes with it are one step (NarObjectStore and      *)
(* CacheStore have theirs).  gc stands also for the other commands that    *)
(* open two stores, status and cache-stats, which then remove nothing.     *)
(***************************************************************************)
EXTENDS IndexRecovery

VARIABLES narinfo,  \* the paths with a narinfo file
          blobs,    \* the paths whose NAR is in objects/blobs
          job,      \* job[p]: the command of process p and its locals
          last      \* history: the path of the last import and whether it
                    \* put the NAR, if nothing has overlapped it and only
                    \* `serve` has been started since

cacheVars == <<narinfo, blobs, job, last>>
procVars == <<vars, cacheVars>>

Commands == {"import", "gc", "serve", "serve_sync"}
NoJob == [cmd |-> "none", step |-> "none", todo |-> {}, solo |-> FALSE]

(* How many NarObjectStores a command opens: a backend of type CacheStore   *)
(* has one, and import, gc and serve make another; serve has a backend      *)
(* without one, but with topics it makes one for the replication.  (The    *)
(* other commands, topics, sign, list, have the one of their backend and   *)
(* leave it alone, as serve does with its own.)                            *)
Handles(cmd) == IF cmd = "serve" THEN 1 ELSE 2

ASSUME ProcessesAssumption == {Handles(cmd) : cmd \in Commands} \subseteq HandleCounts

(* The store of its last handle is what a command works with; the one that *)
(* a server replicates is its first.                                       *)
Own(p) == proc[p].held[Len(proc[p].held)]

(* Mutant: the store that is replicated is the one that answers requests. *)
ReplicaShared(p) == Own(p)

Replica(p) == proc[p].held[1]

Ready(p, cmd, step) ==
  proc[p].pc = "ready" /\ job[p].cmd = cmd /\ job[p].step = step

Serving(p) == proc[p].pc = "ready" /\ job[p].cmd \in {"serve", "serve_sync"}

GoOn(p, step, todo) == job' = [job EXCEPT ![p].step = step, ![p].todo = todo]

(* Process p has imported its path; a temporary index goes with it. *)
Imported(p, put) ==
  last' = IF job[p].solo /\ Own(p) \notin temps
            THEN {[key |-> k, put |-> put] : k \in job[p].todo}
            ELSE last

-----------------------------------------------------------------------------
ProcInit == Init /\ narinfo = {} /\ blobs = {} /\ last = {}
                 /\ job = [p \in Procs |-> NoJob]

(* main: with P the path to import, if any. *)
Command(p, cmd, P) ==
  /\ Start(p, Handles(cmd))
  /\ LET solo == \A q \in Procs : proc[q] = Off
     IN  /\ job' = [q \in Procs |->
                      IF q = p THEN [cmd |-> cmd, step |-> "begin", todo |-> P, solo |-> solo]
                      ELSE [job[q] EXCEPT !.solo = FALSE]]
         /\ last' = IF solo /\ cmd = "serve" THEN last ELSE {}
  /\ UNCHANGED <<narinfo, blobs>>

Opening(p) == OpenStep(p) /\ UNCHANGED cacheVars

(* import_store_path_compressed: a path that has a narinfo is left alone;   *)
(* put_nar writes the blob first.                                          *)
ImportBlob(p) ==
  /\ Ready(p, "import", "begin")
  /\ IF job[p].todo \subseteq narinfo
       THEN /\ GoOn(p, "end", {})
            /\ Imported(p, FALSE)
            /\ UNCHANGED blobs
       ELSE /\ GoOn(p, "index", job[p].todo)
            /\ blobs' = blobs \cup job[p].todo
            /\ UNCHANGED last
  /\ UNCHANGED <<vars, narinfo>>

(* Mutant: the record goes through the handle of the backend. *)
ImportIndexFirst(p) ==
  /\ Ready(p, "import", "index")
  /\ \E k \in job[p].todo :
       /\ PutRecord(p, k)
       /\ recs' = [recs EXCEPT ![Replica(p)] = @ \cup {k}]
  /\ GoOn(p, "narinfo", job[p].todo)
  /\ UNCHANGED <<narinfo, blobs, last>>

ImportIndex(p) ==
  /\ Ready(p, "import", "index")
  /\ \E k \in job[p].todo :
       /\ PutRecord(p, k)
       /\ recs' = [recs EXCEPT ![Own(p)] = @ \cup {k}]
  /\ GoOn(p, "narinfo", job[p].todo)
  /\ UNCHANGED <<narinfo, blobs, last>>

ImportNarinfo(p) ==
  /\ Ready(p, "import", "narinfo")
  /\ narinfo' = narinfo \cup job[p].todo
  /\ Imported(p, TRUE)
  /\ GoOn(p, "end", {})
  /\ UNCHANGED <<vars, blobs>>

GcCollect(p) ==
  /\ Ready(p, "gc", "begin")
  /\ \E victims \in SUBSET narinfo : GoOn(p, "loop", victims)
  /\ UNCHANGED <<vars, narinfo, blobs, last>>

(* remove_entry; delete_nar returns early when its index has no record. *)
GcEntry(p, k) ==
  /\ Ready(p, "gc", "loop") /\ k \in job[p].todo
  /\ recs' = [recs EXCEPT ![Own(p)] = @ \ {k}]
  /\ blobs' = IF k \in recs[Own(p)] THEN blobs \ {k} ELSE blobs
  /\ narinfo' = narinfo \ {k}
  /\ GoOn(p, "loop", job[p].todo \ {k})
  /\ acked' = IF Own(p) = dir THEN acked \ {k} ELSE acked
  /\ UNCHANGED <<dir, fresh, broken, temps, proc, opens, mistaken, last>>

(* handle_sync_connection puts a record that a peer has sent. *)
Receive(p, k) ==
  /\ Ready(p, "serve_sync", "begin")
  /\ PutRecord(p, k)
  /\ recs' = [recs EXCEPT ![Replica(p)] = @ \cup {k}]
  /\ UNCHANGED cacheVars

(* The command returns, or is killed anywhere. *)
Exit(p) ==
  /\ Stop(p)
  /\ job' = [job EXCEPT ![p] = NoJob]
  /\ UNCHANGED <<narinfo, blobs, last>>

Damaged == Damage /\ last' = {} /\ UNCHANGED <<narinfo, blobs, job>>

Work(p) == \/ ImportBlob(p) \/ ImportIndex(p) \/ ImportNarinfo(p) \/ GcCollect(p)
           \/ \E k \in Keys : GcEntry(p, k) \/ Receive(p, k)

ProcNext ==
  \/ \E p \in Procs, k \in Keys : Command(p, "import", {k})
  \/ \E p \in Procs, cmd \in Commands \ {"import"} : Command(p, cmd, {})
  \/ \E p \in Procs : Opening(p) \/ Work(p) \/ Exit(p)
  \/ Damaged

(* A process that has started to open a store is scheduled. *)
ProcSpec == ProcInit /\ [][ProcNext]_procVars
                     /\ \A p \in Procs : WF_procVars(Opening(p))

-----------------------------------------------------------------------------
(* Properties.  OpenFinishes is that of IndexRecovery. *)

(* What the post-build hook and a server started afterwards rely on, and   *)
(* what they get.  After an import that no other command overlapped,       *)
(* damage aside and unless its index had to be in a temporary directory,   *)
(* the path has its narinfo; it has a blob and a record in the index at    *)
(* the path, and every server started since can serve it, exactly if the   *)
(* import put the NAR.  An import of a path that is already there puts     *)
(* nothing, but has removed the index with the path's record.              *)
ServedIffPut ==
  \A l \in last :
    /\ l.key \in narinfo
    /\ l.put => l.key \in blobs
    /\ dir # NoStore /\ (l.put <=> l.key \in recs[dir])
    /\ \A p \in Procs : Serving(p) => (l.put <=> l.key \in recs[Own(p)])

(* A server whose index names only NARs that it has keeps it so, whatever   *)
(* its peers replicate to it and other processes import, wipe and collect, *)
(* except for a gc that found the path in an index of its own: left by a   *)
(* process that came and went while the gc was recovering, or in the       *)
(* temporary directory of a dead one.                                      *)
ServedHaveBlobs ==
  [][\A p \in Procs :
       Serving(p) /\ recs[Own(p)] \subseteq blobs /\ Serving(p)' =>
         \/ recs'[Own(p)] \subseteq blobs'
         \/ \E q \in Procs, k \in Keys : GcEntry(q, k) /\ k \in recs[Own(q)]]_procVars
=============================================================================
