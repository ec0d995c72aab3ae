----------------------------- MODULE CacheStore -----------------------------
(***************************************************************************)
(* The cache directory under the filesystem backend: a narinfo file per    *)
(* store path (arca-core/src/store.rs) and a NAR per narinfo in the NAR    *)
(* object store, with the three commands that write both: `import`, `sign` *)
(* (arca-cli/src/main.rs) and `gc` (arca-core/src/gc.rs).                  *)
(*                                                                         *)
(* The object store is the atomic map NarMap, as its refinement by         *)
(* NarObjectStore allows where no process both puts and deletes; a NAR is  *)
(* known by its key, path and extension.                                   *)
(* It keeps its records from one command to the next, as for a process     *)
(* that opens it once: ArcaProcesses has commands that open it twice.      *)
(* std::fs::write is not atomic: it truncates the file, then fills it.     *)
(* A cache from before the object store has its NARs as files under nar/,  *)
(* which the server still serves and only gc ever removes.                 *)
(***************************************************************************)
CONSTANTS Paths,    \* the store paths, each with its hash
          Exts,     \* the compressions, by extension: nar.zst, nar.xz
          Workers,  \* the commands that may be running
          Overlap,  \* may a command start while another runs?
          PreMigration,  \* the paths cached before the object store was
          None      \* no path, no content

ASSUME CacheAssumption == /\ Overlap \in BOOLEAN
                          /\ None \notin Paths \cup Exts
                          /\ PreMigration \subseteq Paths

VARIABLES narinfo,    \* narinfo[p]: the file <hash>.narinfo
          nar,        \* the keys <<p, e>> of the object store
          legacy,     \* the keys of the files under nar/
          op,         \* op[w]: the command of worker w and its locals
          stale,      \* history: stale[w], the paths that another worker has
                      \* changed since w read them
          signedOnce, \* history: paths signed since their narinfo appeared,
                      \* and not written since by a worker they were stale for
          cut         \* history: the paths whose narinfo a write left cut off

vars == <<narinfo, nar, legacy, op, stale, signedOnce, cut>>

-----------------------------------------------------------------------------
(* Narinfo files.  A file is absent, too short for parse_narinfo, complete, *)
(* or a part of a narinfo: parse_narinfo only asks for the StorePath line,  *)
(* the first, and takes a default for what is missing, the URL included.    *)
(* A file that parses names a NAR by its extension and has a Sig line or    *)
(* none; one that was cut in its Sig line has it too.                       *)

Absent == [state |-> "absent", ext |-> None, signed |-> FALSE]
Truncated == [state |-> "truncated", ext |-> None, signed |-> FALSE]
Content(e, s) == [state |-> "complete", ext |-> e, signed |-> s]
Part(e, s) == [state |-> "part", ext |-> e, signed |-> s]

Contents == {Content(e, s) : e \in Exts, s \in BOOLEAN}
            \cup {Part(e, s) : e \in Exts \cup {None}, s \in BOOLEAN}
Files == {Absent, Truncated} \cup Contents

(* What a write of content c that is cut off can leave in an empty file. *)
CutOff(c) == {Truncated, Part(None, FALSE), Part(c.ext, FALSE), Part(c.ext, c.signed)}

NarKeys == Paths \X Exts
GcKeys == Paths \X (Exts \cup {None})  \* what a narinfo that parses may name

Has(p) == narinfo[p] # Absent
Parses(p) == narinfo[p] \in Contents
Complete(p) == narinfo[p].state = "complete"
Url(p) == <<p, narinfo[p].ext>>
Advertised(k) == Parses(k[1]) /\ Url(k[1]) = k

-----------------------------------------------------------------------------
(* Commands.  pc is the step to come, path and content what it works on,   *)
(* sign whether an import signs afterwards, todo the entries a loop has    *)
(* left: NAR keys for `gc`, paths for `sign`.  A worker is detached when   *)
(* the file it has open was unlinked: it fills a file that has no name.    *)

Idle == [cmd |-> "none", pc |-> "idle", path |-> None, content |-> Absent,
         sign |-> FALSE, detached |-> FALSE, todo |-> {}]

Set(w, o) == op' = [op EXCEPT ![w] = o]

(* What is stale for whom when w changes the paths in P, or reads them. *)
StaleAfter(w, P) ==
  [v \in Workers |-> IF op'[v] = Idle THEN {} ELSE IF v = w THEN stale[v] ELSE stale[v] \cup P]
Changes(w, P) == stale' = StaleAfter(w, P)
Reads(w, P) == stale' = [StaleAfter(w, {}) EXCEPT ![w] = @ \ P]

MayStart(w) == /\ op[w] = Idle
               /\ Overlap \/ \A v \in Workers : op[v] = Idle

(* Mutant: a loop that does not see its end. *)
LoopForever(o) == [o EXCEPT !.pc = "loop", !.path = None, !.content = Absent,
                            !.detached = FALSE]

(* A worker that dies or returns is idle; a loop goes on with its entries. *)
Loop(o) == IF o.todo = {} THEN Idle
           ELSE [o EXCEPT !.pc = "loop", !.path = None, !.content = Absent,
                          !.detached = FALSE]

Init == /\ \E ext \in [PreMigration -> Exts] :
             /\ legacy = {<<p, ext[p]>> : p \in PreMigration}
             /\ narinfo = [p \in Paths |-> IF p \in PreMigration
                                           THEN Content(ext[p], FALSE)
                                           ELSE Absent]
        /\ nar = {}
        /\ op = [w \in Workers |-> Idle]
        /\ stale = [w \in Workers |-> {}]
        /\ signedOnce = {}
        /\ cut = {}

(* Mutant: a narinfo that does not parse counts as none. *)
ImportOverUnparsed(w, p, e, s) ==
  /\ MayStart(w)
  /\ \/ /\ ~Parses(p)
        /\ Set(w, [Idle EXCEPT !.cmd = "import", !.pc = "put", !.path = p,
                               !.content = Content(e, FALSE), !.sign = s])
     \/ /\ Parses(p)
        /\ s
        /\ Set(w, [Idle EXCEPT !.cmd = "import", !.pc = "truncate", !.path = p,
                               !.content = [narinfo[p] EXCEPT !.signed = TRUE]])
  /\ Reads(w, {p})
  /\ UNCHANGED <<narinfo, nar, legacy, signedOnce, cut>>

(* Mutant: the narinfo file is made when the import begins, as a claim.    *)
ImportClaims(w, p, e, s) ==
  /\ MayStart(w)
  /\ \/ /\ ~Has(p)
        /\ narinfo' = [narinfo EXCEPT ![p] = Truncated]
        /\ Set(w, [Idle EXCEPT !.cmd = "import", !.pc = "put", !.path = p,
                               !.content = Content(e, FALSE), !.sign = s])
     \/ /\ Parses(p)
        /\ s
        /\ UNCHANGED narinfo
        /\ Set(w, [Idle EXCEPT !.cmd = "import", !.pc = "truncate", !.path = p,
                               !.content = [narinfo[p] EXCEPT !.signed = TRUE]])
  /\ Reads(w, {p})
  /\ UNCHANGED <<nar, legacy, signedOnce, cut>>

(* Mutant: a path cached with another compression is imported again. *)
ImportOtherExt(w, p, e, s) ==
  /\ MayStart(w)
  /\ \/ /\ ~Has(p) \/ (Parses(p) /\ Url(p) # <<p, e>>)
        /\ Set(w, [Idle EXCEPT !.cmd = "import", !.pc = "put", !.path = p,
                               !.content = Content(e, FALSE), !.sign = s])
     \/ /\ Parses(p)
        /\ s
        /\ Set(w, [Idle EXCEPT !.cmd = "import", !.pc = "truncate", !.path = p,
                               !.content = [narinfo[p] EXCEPT !.signed = TRUE]])
  /\ Reads(w, {p})
  /\ UNCHANGED <<narinfo, nar, legacy, signedOnce, cut>>

(***************************************************************************)
(* import_store_path_compressed, from import_store_path_signed_compressed  *)
(* when s.  A path that has a narinfo is not imported again: its narinfo   *)
(* is read, and rewritten with a signature when s.  One that does not      *)
(* parse is an error, which like a failed dump changes nothing.            *)
(***************************************************************************)
Import(w, p, e, s) ==
  /\ MayStart(w)
  /\ \/ /\ ~Has(p)
        /\ Set(w, [Idle EXCEPT !.cmd = "import", !.pc = "put", !.path = p,
                               !.content = Content(e, FALSE), !.sign = s])
     \/ /\ Parses(p)
        /\ s
        /\ Set(w, [Idle EXCEPT !.cmd = "import", !.pc = "truncate", !.path = p,
                               !.content = [narinfo[p] EXCEPT !.signed = TRUE]])
  /\ Reads(w, {p})
  /\ UNCHANGED <<narinfo, nar, legacy, signedOnce, cut>>

(* Mutant: the error of a put is dropped. *)
PutNarUnchecked(w) ==
  /\ op[w].pc = "put"
  /\ nar' \in {nar, nar \cup {<<op[w].path, op[w].content.ext>>}}
  /\ Set(w, [op[w] EXCEPT !.pc = "truncate"])
  /\ Changes(w, {})
  /\ UNCHANGED <<narinfo, legacy, signedOnce, cut>>

PutNar(w) ==
  /\ op[w].pc = "put"
  /\ nar' = nar \cup {<<op[w].path, op[w].content.ext>>}
  /\ Set(w, [op[w] EXCEPT !.pc = "truncate"])
  /\ Changes(w, {})
  /\ UNCHANGED <<narinfo, legacy, signedOnce, cut>>

(***************************************************************************)
(* std::fs::write of a narinfo, by import and by sign.  A signed import    *)
(* writes twice: the unsigned narinfo, then the signed one.                *)
(***************************************************************************)
Truncate(w) ==
  /\ op[w].pc = "truncate"
  /\ narinfo' = [narinfo EXCEPT ![op[w].path] = Truncated]
  /\ cut' = cut \ {op[w].path}
  /\ Set(w, [op[w] EXCEPT !.pc = "fill"])
  /\ Changes(w, {op[w].path})
  /\ UNCHANGED <<nar, legacy, signedOnce>>

(* What is in the file once w has written its content from the start: when *)
(* another worker has filled it since the truncation, the end of a longer  *)
(* content remains, which parses as more lines, its Sig line among them or *)
(* spoilt.                                                                 *)
Filled(w) ==
  LET old == narinfo[op[w].path]
  IN  {op[w].content} \cup IF old.signed THEN {[op[w].content EXCEPT !.signed = TRUE]} ELSE {}

Fill(w) ==
  /\ op[w].pc = "fill"
  /\ LET p == op[w].path
     IN  /\ IF op[w].detached
              THEN UNCHANGED <<narinfo, signedOnce, cut>>
              ELSE /\ \E c \in Filled(w) : narinfo' = [narinfo EXCEPT ![p] = c]
                   /\ signedOnce' = IF op[w].content.signed
                                      THEN signedOnce \cup {p}
                                      ELSE signedOnce \ (stale[w] \cap {p})
                   /\ cut' = IF op[w].content.state = "part" THEN cut \cup {p} ELSE cut \ {p}
         /\ Set(w, IF op[w].sign
                     THEN [op[w] EXCEPT !.pc = "truncate", !.sign = FALSE, !.detached = FALSE,
                                        !.content.signed = TRUE]
                     ELSE Loop(op[w]))
         /\ Changes(w, IF op[w].detached THEN {} ELSE {p})
  /\ UNCHANGED <<nar, legacy>>

(* A write that leaves a part: nothing is known of what it was to replace. *)
LeavesPart(w) ==
  LET p == op[w].path
  IN  IF op[w].detached
        THEN UNCHANGED <<narinfo, cut>>
        ELSE /\ \E c \in IF narinfo[p] = Truncated THEN CutOff(op[w].content) ELSE {narinfo[p]} :
                  narinfo' = [narinfo EXCEPT ![p] = c]
             /\ cut' = cut \cup {p}

(* The disk is full: import returns the error, sign counts it and goes on. *)
FillFails(w) ==
  /\ op[w].pc = "fill"
  /\ LeavesPart(w)
  /\ Set(w, Loop(op[w]))
  /\ Changes(w, {op[w].path})
  /\ UNCHANGED <<nar, legacy, signedOnce>>

(***************************************************************************)
(* sign: lists the narinfo files, then reads, signs and rewrites each.     *)
(* One that is gone or does not parse is counted as an error; one that is  *)
(* signed is left alone, unless --force.                                   *)
(***************************************************************************)
SignStart(w) ==
  /\ MayStart(w)
  /\ \E p \in Paths : Has(p)
  /\ Set(w, [Idle EXCEPT !.cmd = "sign", !.pc = "loop",
                         !.todo = {p \in Paths : Has(p)}])
  /\ Reads(w, {})
  /\ UNCHANGED <<narinfo, nar, legacy, signedOnce, cut>>

SignEntry(w, p) ==
  /\ op[w].cmd = "sign" /\ op[w].pc = "loop" /\ p \in op[w].todo
  /\ LET rest == [op[w] EXCEPT !.todo = @ \ {p}]
     IN  \/ /\ Parses(p)
            /\ Set(w, [rest EXCEPT !.pc = "truncate", !.path = p,
                                   !.content = [narinfo[p] EXCEPT !.signed = TRUE]])
         \/ /\ ~Parses(p) \/ narinfo[p].signed
            /\ Set(w, Loop(rest))
  /\ Reads(w, {p})
  /\ UNCHANGED <<narinfo, nar, legacy, signedOnce, cut>>

(***************************************************************************)
(* gc_by_age, gc_by_size: collect_entries reads the narinfos that parse;   *)
(* age and size select any of them; remove_entry deletes the NAR, goes on  *)
(* when that fails, then removes the narinfo file.  delete_nar succeeds    *)
(* also for a key the object store does not have.                          *)
(***************************************************************************)
GcCollect(w) ==
  /\ MayStart(w)
  /\ \E victims \in SUBSET {Url(p) : p \in {q \in Paths : Parses(q)}} :
       /\ victims # {}
       /\ Set(w, [Idle EXCEPT !.cmd = "gc", !.pc = "loop", !.todo = victims])
  /\ Reads(w, {})
  /\ UNCHANGED <<narinfo, nar, legacy, signedOnce, cut>>

GcNar(w, k) ==
  /\ op[w].cmd = "gc" /\ op[w].pc = "loop" /\ k \in op[w].todo
  /\ nar' = nar \ {k}
  /\ Set(w, [op[w] EXCEPT !.pc = "unlink", !.path = k[1], !.todo = @ \ {k}])
  /\ Changes(w, {k[1]})
  /\ UNCHANGED <<narinfo, legacy, signedOnce, cut>>

(***************************************************************************)
(* A deletion that fails.  delete_nar ignores that the index could not     *)
(* delete the record, and then finds the blob still referenced; when the   *)
(* blob could not be deleted it returns the error, and gc tries the legacy *)
(* file, whether or not that works.                                        *)
(***************************************************************************)
GcNarFails(w, k) ==
  /\ op[w].cmd = "gc" /\ op[w].pc = "loop" /\ k \in op[w].todo
  /\ k \in nar
  /\ \/ UNCHANGED <<nar, legacy>>
     \/ nar' = nar \ {k} /\ legacy' \in {legacy, legacy \ {k}}
  /\ Set(w, [op[w] EXCEPT !.pc = "unlink", !.path = k[1], !.todo = @ \ {k}])
  /\ Changes(w, {k[1]})
  /\ UNCHANGED <<narinfo, signedOnce, cut>>

GcNarinfo(w) ==
  /\ op[w].pc = "unlink"
  /\ LET p == op[w].path
     IN  /\ narinfo' = [narinfo EXCEPT ![p] = Absent]
         /\ signedOnce' = signedOnce \ {p}
         /\ cut' = cut \ {p}
         /\ op' = [v \in Workers |->
                     IF v = w THEN Loop(op[v])
                     ELSE IF op[v].pc = "fill" /\ op[v].path = p
                            THEN [op[v] EXCEPT !.detached = TRUE]
                            ELSE op[v]]
         /\ Changes(w, {p})
  /\ UNCHANGED <<nar, legacy>>

(* The error of the last removal is dropped: gc goes on, and reports the   *)
(* entry as removed, while its narinfo is still there.                     *)
GcNarinfoFails(w) ==
  /\ op[w].pc = "unlink"
  /\ Set(w, Loop(op[w]))
  /\ Changes(w, {})
  /\ UNCHANGED <<narinfo, nar, legacy, signedOnce, cut>>

(* A command is killed, or the machine stops: the files stay, and one that *)
(* was being written may be a part.                                        *)
Crash(w) ==
  /\ op[w] # Idle
  /\ IF op[w].pc = "fill" THEN LeavesPart(w) ELSE UNCHANGED <<narinfo, cut>>
  /\ Set(w, Idle)
  /\ Changes(w, IF op[w].pc = "fill" THEN {op[w].path} ELSE {})
  /\ UNCHANGED <<nar, legacy, signedOnce>>

ImportStep(w) ==
  \/ \E p \in Paths, e \in Exts, s \in BOOLEAN : Import(w, p, e, s)
  \/ PutNar(w)
WriteStep(w) == Truncate(w) \/ Fill(w) \/ FillFails(w)
SignStep(w) == SignStart(w) \/ \E p \in Paths : SignEntry(w, p)
GcStep(w) == \/ GcCollect(w) \/ GcNarinfo(w) \/ GcNarinfoFails(w)
             \/ \E k \in GcKeys : GcNar(w, k) \/ GcNarFails(w, k)

Next == \E w \in Workers :
          ImportStep(w) \/ WriteStep(w) \/ SignStep(w) \/ GcStep(w) \/ Crash(w)

Spec == Init /\ [][Next]_vars

-----------------------------------------------------------------------------
(* Properties. *)

(* Types; only a running command has work, and a write has its content.    *)
TypeOK ==
  /\ narinfo \in [Paths -> Files]
  /\ nar \subseteq NarKeys
  /\ legacy \subseteq NarKeys
  /\ stale \in [Workers -> SUBSET Paths]
  /\ signedOnce \subseteq Paths /\ cut \subseteq Paths
  /\ \A w \in Workers :
       /\ op[w].pc \in {"put", "truncate", "fill"}
            => op[w].path \in Paths /\ op[w].content \in Contents
       /\ op[w].pc = "unlink" => op[w].path \in Paths
       /\ op[w].pc = "loop" => op[w].todo # {}
       /\ op[w].detached => op[w].pc = "fill"
       /\ op[w].cmd = "sign" => op[w].todo \subseteq Paths
       /\ op[w].cmd = "gc" => op[w].todo \subseteq GcKeys
       /\ op[w].pc = "idle" <=> op[w] = Idle

(* A gc has dealt with the NAR of p and is to remove its narinfo next.      *)
Unlinking(p) == \E w \in Workers : op[w].pc = "unlink" /\ op[w].path = p

(* A worker is writing a narinfo that names k to the file of that path.     *)
Filling(k) == \E w \in Workers : /\ op[w].pc = "fill" /\ ~op[w].detached
                                 /\ <<op[w].path, op[w].content.ext>> = k

(* Worker w takes a step on path p after another has changed p behind it,   *)
(* or while another is at work on p itself.                                 *)
RaceStep(w, p) ==
  /\ \/ p \in stale[w]
     \/ \E v \in Workers \ {w} : op[v].path = p
  /\ \/ op[w].path = p /\ (Truncate(w) \/ Fill(w) \/ GcNarinfo(w))
     \/ \E k \in GcKeys : k[1] = p /\ (GcNar(w, k) \/ GcNarFails(w, k))

(* Path p is offered, or a command is rewriting its narinfo, but the NAR is *)
(* gone and no gc is about to remove the narinfo: the substituter announces *)
(* a path that it then answers with 404.                                    *)
Broken(p) == \E e \in Exts : /\ Advertised(<<p, e>>) \/ Filling(<<p, e>>)
                             /\ <<p, e>> \notin nar \cup legacy
                             /\ ~Unlinking(p)

(* The order of import (NAR, then narinfo) and of gc (NAR, then narinfo)    *)
(* leaves three ways to break a path: a gc that dies between its two        *)
(* deletions; one whose second deletion fails, which no one is told; and a  *)
(* worker that writes back what it read before another one removed it (sign *)
(* undoing a gc, an import whose NAR a gc took).  Nothing else does: not a  *)
(* kill at any other step, nor a write that failed or was cut off, nor a    *)
(* failed deletion of the NAR.                                              *)
BrokenOnlyByFailureOrRace ==
  [][\A p \in Paths : ~Broken(p) /\ Broken(p)' =>
        \E w \in Workers : \/ /\ op[w].pc = "unlink" /\ op[w].path = p
                              /\ Crash(w) \/ GcNarinfoFails(w)
                           \/ RaceStep(w, p)]_vars

(* A NAR that nothing leads to: no narinfo names it, or only one that gc    *)
(* is about to remove, and no running command is still to publish it.       *)
(* Neither the substituter nor a later gc finds it.                         *)
Publishing(k) == \/ Filling(k)
                 \/ \E w \in Workers : /\ op[w].pc = "truncate"
                                        /\ <<op[w].path, op[w].content.ext>> = k

Stranded(k) == /\ k \in nar \cup legacy
               /\ Advertised(k) => Unlinking(k[1])
               /\ ~Publishing(k)

(* NARs are stranded only by a failure (an interrupted command, a failed    *)
(* write or a failed deletion) or by a worker that acts on what another has *)
(* changed behind it.  A gc that completes leaves none, nor does an import, *)
(* also of a path that is cached with the other compression.                *)
StrandedOnlyByFailureOrRace ==
  [][\A k \in NarKeys : ~Stranded(k) /\ Stranded(k)' =>
        \E w \in Workers : \/ Crash(w) \/ FillFails(w) \/ GcNarFails(w, k)
                           \/ RaceStep(w, k[1])]_vars

(* A path that has been signed is never again offered unsigned, by imports  *)
(* with or without a key, sign passes and retries after crashes, as long as *)
(* no gc has removed it and no worker has written over it what it read      *)
(* before (two imports of one path that both found it absent).              *)
SignatureKept ==
  \A p \in signedOnce \ cut : Complete(p) => narinfo[p].signed

(* "Check if a store path is already cached" (has): a narinfo file that     *)
(* exists while no command runs is complete, so that an import may skip the *)
(* path, unless its last write was cut off or copied one that was.          *)
HasMeansCached ==
  (\A w \in Workers : op[w] = Idle) =>
    \A p \in Paths : Has(p) => Complete(p) \/ p \in cut
=============================================================================
