------------------------------- MODULE GcRun -------------------------------
(***************************************************************************)
(* One `gc` command over a cache that others use meanwhile: which entries  *)
(* gc_by_age and gc_by_size pick, by age, by size and by the limit that    *)
(* parse_size reads, what they report, and what goes to the audit log      *)
(* (arca-core/src/gc.rs, audit.rs, the Gc command of arca-cli).            *)
(*                                                                         *)
(* The narinfo of an entry is a file, or with the sled backend a record of *)
(* the database (sled_store.rs), which only the library puts there; time   *)
(* of use is always that of the file.  What gc lists, counts and reports   *)
(* are narinfos: what becomes of the NARs is in CacheStore, and in         *)
(* ArcaProcesses when the object store's index was lost.                   *)
(***************************************************************************)
EXTENDS Integers, Sequences, FiniteSets, FiniteSetsExt

CONSTANTS Paths,     \* the store paths
          Size,      \* Size[p]: the FileSize of the narinfo of p
          Backends,  \* "filesystem", "sled"
          Ages,      \* arguments of --max-age
          SizeArgs,  \* arguments of --max-size
          MaxU64,    \* 2^64 - 1
          MaxClock,  \* bound: the last time
          None       \* no argument, no file

(* What parse_size can be given: the number before the suffix, in halves, *)
(* and the unit that the suffix stands for.                                *)
SizeArg == [num : {"finite", "nan", "inf"}, half : Int, unit : Nat]

ASSUME GcAssumption == /\ IsFiniteSet(Paths)
                       /\ Size \in [Paths -> Nat]
                       /\ Ages \subseteq Nat /\ SizeArgs \subseteq SizeArg
                       /\ MaxU64 \in Nat /\ MaxClock \in Nat
                       /\ None \notin Nat \cup SizeArgs

VARIABLES backend,  \* the backend of the commands
          clock,    \* the time
          mtime,    \* mtime[p]: when the narinfo file of p was written, or None
          db,       \* the paths with a record in the sled backend
          gc,       \* the gc command
          log,      \* the paths with a GarbageCollect event of this gc
          since     \* history: the paths put, imported or signed since gc collected

vars == <<backend, clock, mtime, db, gc, log, since>>

Bytes(P) == MapThenSumSet(LAMBDA p : Size[p], P)

(* Mutant: rounded to the next byte. *)
RoundedSize(arg) ==
  CASE arg.num = "nan" -> 0
    [] arg.num = "inf" -> MaxU64
    [] OTHER -> Min({MaxU64, Max({0, (arg.half * arg.unit + 1) \div 2})})

(***************************************************************************)
(* parse_size: a number, here of halves, times the unit of its suffix, in  *)
(* floating point.  The conversion to u64 drops the fraction, takes NaN    *)
(* and negative numbers to 0, and what is too large to the largest.        *)
(***************************************************************************)
ParseSize(arg) ==
  CASE arg.num = "nan" -> 0
    [] arg.num = "inf" -> MaxU64
    [] OTHER -> Min({MaxU64, Max({0, (arg.half * arg.unit) \div 2})})

-----------------------------------------------------------------------------
Off == [pc |-> "off", age |-> None, max |-> None, audit |-> FALSE, cutoff |-> 0,
        todo |-> << >>, current |-> 0, removed |-> {}, freed |-> 0,
        gone |-> 0,                        \* history: the bytes that went
        missed |-> [age |-> {}, size |-> {}],  \* history: the paths whose file could
                                           \* not be removed, in either pass
        unlogged |-> {}]                   \* history: the paths with a record that failed

HasFile(p) == mtime[p] # None

(* CacheBackend::list_hashes, FsNarinfoStore's or SledStore's. *)
Listed == IF backend = "sled" THEN db ELSE {p \in Paths : HasFile(p)}

(* The epoch when there is no file. *)
Mtime(p) == IF HasFile(p) THEN mtime[p] ELSE 0

Entry(p) == [path |-> p, size |-> Size[p], mtime |-> Mtime(p)]

(* The listings of the paths in P, in any order the backend may give. *)
Orders(P) == {s \in [1..Cardinality(P) -> P] : {s[i] : i \in DOMAIN s} = P}
Collected(P) == {[i \in DOMAIN s |-> Entry(s[i])] : s \in Orders(P)}
Sorted(entries) == \A i, j \in DOMAIN entries : i < j => entries[i].mtime <= entries[j].mtime

Init == /\ backend \in Backends
        /\ clock = 1
        /\ mtime = [p \in Paths |-> None]
        /\ db = {}
        /\ gc = Off
        /\ log = {}
        /\ since = {}

Tick == /\ clock < MaxClock
        /\ clock' = clock + 1
        /\ UNCHANGED <<backend, mtime, db, gc, log, since>>

Use(p) == since' = IF gc.pc = "off" THEN since ELSE since \cup {p}

(* import writes the narinfo as a file, with either backend. *)
Import(p) ==
  /\ ~HasFile(p)
  /\ mtime' = [mtime EXCEPT ![p] = clock]
  /\ Use(p)
  /\ UNCHANGED <<backend, clock, db, gc, log>>

(* A signed import of a cached path, and sign, write the file again. *)
Sign(p) ==
  /\ HasFile(p)
  /\ mtime' = [mtime EXCEPT ![p] = clock]
  /\ Use(p)
  /\ UNCHANGED <<backend, clock, db, gc, log>>

(* A program on the library caches p: SledStore::put_narinfo. *)
PutNarinfo(p) ==
  /\ backend = "sled"
  /\ db' = db \cup {p}
  /\ Use(p)
  /\ UNCHANGED <<backend, clock, mtime, gc, log>>

-----------------------------------------------------------------------------
(***************************************************************************)
(* The Gc command.  It opens the audit log in the database at db_path,     *)
(* which fails for any error of sled's, and always with the sled backend,  *)
(* which has that database open; without the log nothing is recorded.      *)
(***************************************************************************)
GcStart(age, max) ==
  /\ gc.pc \in {"off", "done"}
  /\ age # None \/ max # None
  /\ \E audit \in IF backend = "sled" THEN {FALSE} ELSE BOOLEAN :
       gc' = [Off EXCEPT !.pc = IF age # None THEN "collect_age" ELSE "collect_size",
                         !.age = age, !.max = max, !.audit = audit]
  /\ log' = {}
  /\ since' = {}
  /\ UNCHANGED <<backend, clock, mtime, db>>

(* Mutant: an entry that is as old as the duration goes too. *)
CollectAgeInclusive ==
  /\ gc.pc = "collect_age"
  /\ LET cutoff == clock - gc.age
     IN  \E entries \in Collected({p \in Listed : Mtime(p) <= cutoff}) :
           gc' = [gc EXCEPT !.pc = "age", !.cutoff = cutoff, !.todo = entries]
  /\ since' = {}
  /\ UNCHANGED <<backend, clock, mtime, db, log>>

(* gc_by_age, up to its loop, which passes over the entries not so old. *)
CollectAge ==
  /\ gc.pc = "collect_age"
  /\ LET cutoff == clock - gc.age
     IN  \E entries \in Collected({p \in Listed : Mtime(p) < cutoff}) :
           gc' = [gc EXCEPT !.pc = "age", !.cutoff = cutoff, !.todo = entries]
  /\ since' = {}
  /\ UNCHANGED <<backend, clock, mtime, db, log>>

(* Mutant: the entries are left in the order of the listing. *)
CollectSizeUnsorted ==
  /\ gc.pc = "collect_size"
  /\ LET total == Bytes(Listed)
     IN  \E entries \in Collected(Listed) :
           gc' = IF total <= ParseSize(gc.max) THEN [gc EXCEPT !.pc = "done"]
                 ELSE [gc EXCEPT !.pc = "size", !.todo = entries, !.current = total]
  /\ since' = {}
  /\ UNCHANGED <<backend, clock, mtime, db, log>>

(* gc_by_size, up to its loop: the entries by time, in either order if equal. *)
CollectSize ==
  /\ gc.pc = "collect_size"
  /\ LET total == Bytes(Listed)
     IN  \E entries \in {s \in Collected(Listed) : Sorted(s)} :
           gc' = IF total <= ParseSize(gc.max) THEN [gc EXCEPT !.pc = "done"]
                 ELSE [gc EXCEPT !.pc = "size", !.todo = entries, !.current = total]
  /\ since' = {}
  /\ UNCHANGED <<backend, clock, mtime, db, log>>

(* The limits are met, or there is nothing left to remove. *)
LoopEnds ==
  \/ gc.pc = "age" /\ gc.todo = << >>
  \/ gc.pc = "size" /\ (gc.todo = << >> \/ gc.current <= ParseSize(gc.max))

Left(size) == IF gc.pc = "size" THEN Max({0, gc.current - size}) ELSE gc.current

Miss(P) == IF gc.pc = "age" THEN [gc.missed EXCEPT !.age = @ \cup P]
                            ELSE [gc.missed EXCEPT !.size = @ \cup P]

(* The loops count an entry when remove_entry returns, which never fails. *)
CountEntry(gone, P) ==
  LET e == Head(gc.todo)
  IN  gc' = [gc EXCEPT !.pc = IF gc.pc = "age" THEN "audit_age" ELSE "audit_size",
                       !.current = Left(e.size),
                       !.removed = @ \cup {e.path},
                       !.freed = @ + e.size,
                       !.gone = @ + gone,
                       !.missed = Miss(P)]

(* remove_entry: the narinfo file goes; the record of a sled backend stays. *)
RemoveEntry ==
  /\ gc.pc \in {"age", "size"} /\ ~LoopEnds
  /\ LET p == Head(gc.todo).path
     IN  /\ mtime' = [mtime EXCEPT ![p] = None]
         /\ CountEntry(IF HasFile(p) THEN Size[p] ELSE 0, {})
  /\ UNCHANGED <<backend, clock, db, log, since>>

(* The file could not be removed: the error is dropped.                    *)
RemoveEntryFails ==
  /\ gc.pc \in {"age", "size"} /\ ~LoopEnds
  /\ HasFile(Head(gc.todo).path)
  /\ CountEntry(0, {Head(gc.todo).path})
  /\ UNCHANGED <<backend, clock, mtime, db, log, since>>

(* Mutant: an entry that freed nothing is not recorded. *)
RecordIfNotEmpty ==
  /\ gc.pc \in {"audit_age", "audit_size"}
  /\ LET e == Head(gc.todo)
     IN  log' = IF gc.audit /\ e.size > 1 THEN log \cup {e.path} ELSE log
  /\ gc' = [gc EXCEPT !.pc = IF gc.pc = "audit_age" THEN "age" ELSE "size", !.todo = Tail(@)]
  /\ UNCHANGED <<backend, clock, mtime, db, since>>

(* Mutant: the removal waits for the audit log to be there. *)
RecordWaiting ==
  /\ gc.pc \in {"audit_age", "audit_size"}
  /\ gc.audit
  /\ log' = log \cup {Head(gc.todo).path}
  /\ gc' = [gc EXCEPT !.pc = IF gc.pc = "audit_age" THEN "age" ELSE "size", !.todo = Tail(@)]
  /\ UNCHANGED <<backend, clock, mtime, db, since>>

(* AuditLog::record, the end of remove_entry. *)
Record ==
  /\ gc.pc \in {"audit_age", "audit_size"}
  /\ log' = IF gc.audit THEN log \cup {Head(gc.todo).path} ELSE log
  /\ gc' = [gc EXCEPT !.pc = IF gc.pc = "audit_age" THEN "age" ELSE "size", !.todo = Tail(@)]
  /\ UNCHANGED <<backend, clock, mtime, db, since>>

(* An error of the log is dropped too, whether or not it has the event.    *)
RecordFails ==
  /\ gc.pc \in {"audit_age", "audit_size"} /\ gc.audit
  /\ log' \in {log, log \cup {Head(gc.todo).path}}
  /\ gc' = [gc EXCEPT !.pc = IF gc.pc = "audit_age" THEN "age" ELSE "size", !.todo = Tail(@),
                      !.unlogged = @ \cup {Head(gc.todo).path}]
  /\ UNCHANGED <<backend, clock, mtime, db, since>>

(* Mutant: --max-size goes on with the entries --max-age has collected. *)
NextPhaseOldList ==
  /\ LoopEnds
  /\ gc' = IF gc.pc = "age" /\ gc.max # None
             THEN [gc EXCEPT !.pc = "size", !.current = Bytes(gc.removed),
                             !.todo = [i \in 1..Cardinality(gc.removed) |->
                                        Entry(CHOOSE p \in gc.removed : TRUE)]]
             ELSE [gc EXCEPT !.pc = "done", !.todo = << >>]
  /\ UNCHANGED <<backend, clock, mtime, db, log, since>>

(* --max-size after --max-age, with entries collected anew, and the report. *)
NextPhase ==
  /\ LoopEnds
  /\ gc' = IF gc.pc = "age" /\ gc.max # None THEN [gc EXCEPT !.pc = "collect_size"]
           ELSE [gc EXCEPT !.pc = "done", !.todo = << >>]
  /\ UNCHANGED <<backend, clock, mtime, db, log, since>>

Crash ==
  /\ gc.pc \notin {"off", "done"}
  /\ gc' = Off /\ log' = {} /\ since' = {}
  /\ UNCHANGED <<backend, clock, mtime, db>>

RemoveStep == RemoveEntry \/ RemoveEntryFails
RecordStep == Record \/ RecordFails
GcStep == CollectAge \/ CollectSize \/ RemoveStep \/ RecordStep \/ NextPhase
Others == Tick \/ \E p \in Paths : Import(p) \/ Sign(p) \/ PutNarinfo(p)

Next == \/ Others \/ GcStep \/ Crash
        \/ \E age \in Ages \cup {None}, max \in SizeArgs \cup {None} : GcStart(age, max)

(* The gc command is scheduled, whatever else goes on. *)
Spec == Init /\ [][Next]_vars /\ WF_vars(GcStep)

-----------------------------------------------------------------------------
(* Properties. *)

(* What --max-size asks for, in half bytes: 0 when it is no number.          *)
Asked2(arg) == CASE arg.num = "nan" -> 0
                 [] arg.num = "inf" -> 2 * MaxU64
                 [] OTHER           -> Max({0, arg.half * arg.unit})

(* "Remove LRU entries to fit under size limit": when gc --max-size ends,   *)
(* what it has collected, not counted as removed, and nobody has used since *)
(* is no larger than was asked, to the fraction of a byte, with either      *)
(* backend.  Counted is not gone: a file that could not be removed stays    *)
(* over the limit.                                                          *)
BoundMet ==
  gc.pc = "done" /\ gc.max # None =>
    2 * Bytes(Listed \ (gc.removed \cup since)) <= Asked2(gc.max)

(* "Remove LRU entries": gc --max-size goes for an entry only while the     *)
(* cache is larger than was asked, never for one entry more, and for none   *)
(* before another that was used less recently, but for what was used since  *)
(* it collected and what it has tried to remove in vain: that stays while   *)
(* more recent entries go (filesystem backend).                             *)
EvictsLruOverLimit ==
  [][gc.pc = "size" /\ RemoveStep /\ backend = "filesystem" =>
       LET p == Head(gc.todo).path
       IN  /\ \/ 2 * Bytes(Listed) > Asked2(gc.max)
              \/ Asked2(gc.max) > 2 * MaxU64
              \/ since # {}
           /\ p \in since \/ \A q \in Listed \ (since \cup gc.missed.size) :
                                Mtime(p) <= Mtime(q)]_vars

(* "Remove entries older than duration": gc --max-age goes for no entry     *)
(* that was imported or signed within the duration, except one that was     *)
(* used after the gc had listed it (filesystem backend: with the other one  *)
(* the time of an entry is that of a file which may not exist).             *)
AgeRespected ==
  [][gc.pc = "age" /\ RemoveStep /\ backend = "filesystem" =>
       LET p == Head(gc.todo).path
       IN  Mtime(p) < gc.cutoff \/ p \in since]_vars

(* What gc reports, with the filesystem backend.  The bytes are those of    *)
(* the narinfos that went, none of them counted twice, and of those that    *)
(* could not be removed, once by each limit that came to them: an entry     *)
(* that stays is reported as freed, with both limits as freed twice.  When  *)
(* gc --max-age ends, no other entry is as old as that any more.            *)
ReportTrue ==
  backend = "filesystem" =>
    /\ gc.freed = gc.gone + Bytes(gc.missed.age) + Bytes(gc.missed.size)
    /\ gc.pc = "done" /\ gc.age # None =>
         \A p \in Listed \ (since \cup gc.missed.age) : Mtime(p) >= gc.cutoff

(* Every entry counted as removed has its event, once the audit log is      *)
(* open, whichever limit it was for, unless that very record failed; at     *)
(* most the entry being removed has none yet.                               *)
RemovalsAudited ==
  gc.audit => gc.removed \ (log \cup gc.unlogged) \subseteq
                IF gc.pc \in {"audit_age", "audit_size"} THEN {Head(gc.todo).path} ELSE {}

(* "sled - narinfo metadata in an embedded sled database": what import has  *)
(* cached is what the backend lists, whichever backend it is.              *)
ImportedIsListed == \A p \in Paths : HasFile(p) => p \in Listed

(* gc ends, also when paths are imported and signed all the time.           *)
GcEnds == gc.pc \notin {"off", "done"} ~> gc.pc \in {"off", "done"}
=============================================================================
