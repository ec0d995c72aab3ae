-------------------------- MODULE CacheStoreProofs --------------------------
(***************************************************************************)
(* Theorems about CacheStore, for any paths, compressions and workers,     *)
(* with or without overlapping commands.                                   *)
(***************************************************************************)
EXTENDS CacheStore, TLAPS

PCs == {"idle", "put", "truncate", "fill", "loop", "unlink"}

OpType == [cmd : {"none", "import", "sign", "gc"}, pc : PCs,
           path : Paths \cup {None}, content : Contents \cup {Absent},
           sign : BOOLEAN, detached : BOOLEAN, todo : SUBSET (Paths \cup GcKeys)]

(* What TypeOK says of one command, that only a gc unlinks and that a put  *)
(* knows its compression.                                                  *)
OpOK(o) ==
  /\ o.pc \in {"put", "truncate", "fill"} => o.path \in Paths /\ o.content \in Contents
  /\ o.pc = "unlink" => o.path \in Paths
  /\ o.pc = "loop" => o.todo # {}
  /\ o.detached => o.pc = "fill"
  /\ o.cmd = "sign" => o.todo \subseteq Paths
  /\ o.cmd = "gc" => o.todo \subseteq GcKeys
  /\ o.pc = "idle" <=> o = Idle
  /\ o.cmd = "gc" => o.pc \in {"loop", "unlink"}
  /\ o.pc = "unlink" => o.cmd = "gc"
  /\ o.pc = "put" => o.content.ext \in Exts

Typed ==
  /\ narinfo \in [Paths -> Files]
  /\ nar \subseteq NarKeys
  /\ legacy \subseteq NarKeys
  /\ stale \in [Workers -> SUBSET Paths]
  /\ signedOnce \subseteq Paths /\ cut \subseteq Paths
  /\ op \in [Workers -> OpType]
  /\ \A w \in Workers : OpOK(op[w])

-----------------------------------------------------------------------------
(* Contents as records. *)

LEMMA ContentsAre ==
  ASSUME NEW c
  PROVE  c \in Contents <=> /\ c \in [state : {"complete", "part"}, ext : Exts \cup {None},
                                      signed : BOOLEAN]
                            /\ c.state = "complete" => c.ext \in Exts
<1>1. c \in Contents => /\ c \in [state : {"complete", "part"}, ext : Exts \cup {None},
                                  signed : BOOLEAN]
                        /\ c.state = "complete" => c.ext \in Exts
  BY DEF Contents, Content, Part
<1>2. ASSUME c \in [state : {"complete", "part"}, ext : Exts \cup {None}, signed : BOOLEAN],
             c.state = "complete" => c.ext \in Exts
      PROVE  c \in Contents
  <2>1. CASE c.state = "complete"
    <3>1. c = Content(c.ext, c.signed)
      BY <1>2, <2>1 DEF Content
    <3> QED
      BY <1>2, <2>1, <3>1 DEF Contents
  <2>2. CASE c.state = "part"
    <3>1. c = Part(c.ext, c.signed)
      BY <1>2, <2>2 DEF Part
    <3> QED
      BY <1>2, <3>1 DEF Contents
  <2> QED
    BY <1>2, <2>1, <2>2
<1> QED
  BY <1>1, <1>2

LEMMA NoContent ==
  /\ Absent \notin Contents /\ Truncated \notin Contents /\ Absent # Truncated
  /\ \A c \in Contents : c.ext \in Exts \cup {None} /\ c.signed \in BOOLEAN
                         /\ c.state \in {"complete", "part"}
<1>1. \A c \in Contents : c.state \in {"complete", "part"} /\ c.ext \in Exts \cup {None}
                          /\ c.signed \in BOOLEAN
  BY ContentsAre
<1>2. Absent.state = "absent" /\ Truncated.state = "truncated"
  BY DEF Absent, Truncated
<1> QED
  BY <1>1, <1>2

(* Adding a signature leaves the state and the extension. *)
LEMMA SigningKeeps ==
  ASSUME NEW c \in Contents
  PROVE  /\ [c EXCEPT !.signed = TRUE] \in Contents
         /\ [c EXCEPT !.signed = TRUE].ext = c.ext
         /\ [c EXCEPT !.signed = TRUE].state = c.state
         /\ [c EXCEPT !.signed = TRUE].signed
<1>1. /\ c \in [state : {"complete", "part"}, ext : Exts \cup {None}, signed : BOOLEAN]
      /\ c.state = "complete" => c.ext \in Exts
  BY ContentsAre
<1> DEFINE d == [c EXCEPT !.signed = TRUE]
<1>2. d \in [state : {"complete", "part"}, ext : Exts \cup {None}, signed : BOOLEAN]
      /\ d.ext = c.ext /\ d.state = c.state /\ d.signed
  BY <1>1
<1>3. d \in Contents
  BY <1>1, <1>2, ContentsAre
<1> QED
  BY <1>2, <1>3

LEMMA NewContent ==
  ASSUME NEW e \in Exts
  PROVE  /\ Content(e, FALSE) \in Contents
         /\ ~Content(e, FALSE).signed /\ Content(e, FALSE).ext = e
         /\ Content(e, FALSE).state = "complete"
<1> DEFINE c == [state |-> "complete", ext |-> e, signed |-> FALSE]
<1>1. c \in [state : {"complete", "part"}, ext : Exts \cup {None}, signed : BOOLEAN]
  OBVIOUS
<1>2. c \in Contents
  BY <1>1, ContentsAre
<1> QED
  BY <1>2 DEF Content

(* What a write of c can leave, whole or cut off. *)
LEMMA CutOffParts ==
  ASSUME NEW c \in Contents, NEW d \in CutOff(c)
  PROVE  d \in Files /\ d # Absent
         /\ (d \in Contents => d.state = "part" /\ d.ext \in {c.ext, None})
<1>1. c.ext \in Exts \cup {None} /\ c.signed \in BOOLEAN
  BY NoContent
<1>2. \A e \in Exts \cup {None}, s \in BOOLEAN :
        Part(e, s) \in Contents /\ Part(e, s).state = "part" /\ Part(e, s).ext = e
  BY DEF Contents, Part
<1>3. d = Truncated \/ \E e \in {c.ext, None}, s \in BOOLEAN : d = Part(e, s)
  BY <1>1 DEF CutOff
<1>4. CASE d = Truncated
  BY <1>4, NoContent DEF Files
<1>5. ASSUME NEW e \in {c.ext, None}, NEW s \in BOOLEAN, d = Part(e, s)
      PROVE  d \in Contents /\ d.state = "part" /\ d.ext = e
  BY <1>1, <1>2, <1>5
<1> QED
  BY <1>3, <1>4, <1>5, NoContent DEF Files

LEMMA FilledContents ==
  ASSUME Typed, NEW w \in Workers, op[w].pc = "fill", NEW d \in Filled(w)
  PROVE  /\ d \in Contents /\ d.ext = op[w].content.ext
         /\ d.state = op[w].content.state
         /\ op[w].content.signed => d.signed
<1>1. op[w].content \in Contents
  BY DEF Typed, OpOK
<1>2. d = op[w].content \/ d = [op[w].content EXCEPT !.signed = TRUE]
  BY DEF Filled
<1> QED
  BY <1>1, <1>2, SigningKeeps

-----------------------------------------------------------------------------
(* Commands. *)

LEMMA IdleOK == Idle \in OpType /\ OpOK(Idle)
BY DEF Idle, OpType, PCs, OpOK

LEMMA LoopOK ==
  ASSUME NEW o \in OpType,
         o.cmd = "sign" => o.todo \subseteq Paths,
         o.cmd = "gc" => o.todo \subseteq GcKeys
  PROVE  /\ Loop(o) \in OpType /\ OpOK(Loop(o))
         /\ Loop(o).pc \in {"idle", "loop"}
         /\ Loop(o).path = None /\ ~Loop(o).detached
         /\ Loop(o).todo = o.todo
         /\ Loop(o).cmd \in {o.cmd, "none"}
<1>1. CASE o.todo = {}
  <2>1. Loop(o) = Idle
    BY <1>1 DEF Loop
  <2>2. Idle.pc = "idle" /\ Idle.path = None /\ ~Idle.detached /\ Idle.todo = {}
        /\ Idle.cmd = "none"
    BY DEF Idle
  <2> QED
    BY <1>1, <2>1, <2>2, IdleOK
<1>2. CASE o.todo # {}
  <2> DEFINE d == [o EXCEPT !.pc = "loop", !.path = None, !.content = Absent,
                            !.detached = FALSE]
  <2>1. Loop(o) = d
    BY <1>2 DEF Loop
  <2>2. d \in OpType /\ d.pc = "loop" /\ d.path = None /\ ~d.detached /\ d.todo = o.todo
        /\ d.cmd = o.cmd
    BY DEF OpType, PCs
  <2>3. d # Idle
    BY <2>2 DEF Idle
  <2>4. OpOK(d)
    BY <1>2, <2>2, <2>3 DEF OpOK
  <2> HIDE DEF d
  <2> QED
    BY <2>1, <2>2, <2>4
<1> QED
  BY <1>1, <1>2

(* A command that starts, and one that goes on to another step. *)
LEMMA WriteOK ==
  ASSUME NEW o \in OpType, NEW p \in Paths, NEW c \in Contents,
         NEW pc \in {"put", "truncate"}, o.cmd \in {"none", "import", "sign"},
         o.cmd = "sign" => o.todo \subseteq Paths,
         o.path = p, o.content = c, o.pc = pc, ~o.detached,
         o.pc = "put" => c.ext \in Exts
  PROVE  OpOK(o)
BY DEF OpOK, Idle

LEMMA SetOp ==
  ASSUME Typed, NEW w \in Workers, NEW o \in OpType, OpOK(o), Set(w, o)
  PROVE  /\ op' \in [Workers -> OpType]
         /\ \A v \in Workers : OpOK(op'[v])
         /\ op'[w] = o
         /\ \A v \in Workers \ {w} : op'[v] = op[v]
BY DEF Typed, Set

LEMMA ChangesStale ==
  ASSUME Typed, NEW w \in Workers, NEW P \in SUBSET Paths, Changes(w, P)
  PROVE  /\ stale' \in [Workers -> SUBSET Paths]
         /\ \A v \in Workers \ {w} : stale'[v] = stale[v] \cup P \/ op'[v] = Idle
         /\ stale'[w] = stale[w] \/ op'[w] = Idle
BY DEF Typed, Changes, StaleAfter

LEMMA ReadsStale ==
  ASSUME Typed, NEW w \in Workers, NEW P \in SUBSET Paths, Reads(w, P)
  PROVE  /\ stale' \in [Workers -> SUBSET Paths]
         /\ \A v \in Workers \ {w} : stale'[v] = stale[v] \/ op'[v] = Idle
         /\ stale'[w] = stale[w] \ P \/ op'[w] = Idle
<1>1. StaleAfter(w, {}) \in [Workers -> SUBSET Paths]
  BY DEF Typed, StaleAfter
<1>2. /\ \A v \in Workers \ {w} : StaleAfter(w, {})[v] = stale[v] \/ op'[v] = Idle
      /\ StaleAfter(w, {})[w] = stale[w] \/ op'[w] = Idle
  BY DEF Typed, StaleAfter
<1>3. stale' = [StaleAfter(w, {}) EXCEPT ![w] = @ \ P]
  BY DEF Reads
<1> HIDE DEF StaleAfter
<1> QED
  BY <1>1, <1>2, <1>3

-----------------------------------------------------------------------------
(* Types. *)

LEMMA TypedInit == Init => Typed
<1> SUFFICES ASSUME Init PROVE Typed
  OBVIOUS
<1>1. PICK ext \in [PreMigration -> Exts] :
        /\ legacy = {<<p, ext[p]>> : p \in PreMigration}
        /\ narinfo = [p \in Paths |-> IF p \in PreMigration
                                      THEN Content(ext[p], FALSE)
                                      ELSE Absent]
  BY DEF Init
<1>2. \A p \in PreMigration : Content(ext[p], FALSE) \in Files
  BY NewContent DEF Files
<1>3. narinfo \in [Paths -> Files]
  BY <1>1, <1>2 DEF Files
<1>4. legacy \subseteq NarKeys
  BY <1>1, CacheAssumption DEF NarKeys
<1> QED
  BY <1>3, <1>4, IdleOK DEF Init, Typed

LEMMA StartsOK ==
  ASSUME Typed, NEW w \in Workers, NEW p \in Paths, NEW c \in Contents,
         NEW s \in BOOLEAN, NEW pc \in {"put", "truncate"},
         pc = "put" => c.ext \in Exts
  PROVE  LET o == [Idle EXCEPT !.cmd = "import", !.pc = pc, !.path = p, !.content = c,
                               !.sign = s]
         IN  o \in OpType /\ OpOK(o)
<1> DEFINE o == [Idle EXCEPT !.cmd = "import", !.pc = pc, !.path = p, !.content = c,
                             !.sign = s]
<1>1. /\ o \in OpType /\ o.cmd = "import" /\ o.pc = pc /\ o.path = p /\ o.content = c
      /\ ~o.detached
  BY DEF Idle, OpType, PCs
<1> HIDE DEF o
<1>2. OpOK(o)
  BY <1>1, WriteOK
<1> QED
  BY <1>1, <1>2 DEF o

(* What Import does to its worker. *)
LEMMA ImportSets ==
  ASSUME Typed, NEW w \in Workers, NEW p \in Paths, NEW e \in Exts, NEW s \in BOOLEAN,
         Import(w, p, e, s)
  PROVE  \E o \in OpType :
           /\ Set(w, o) /\ OpOK(o) /\ o.cmd = "import" /\ o.path = p /\ ~o.detached
           /\ \/ ~Has(p) /\ o.pc = "put" /\ ~o.content.signed
              \/ Parses(p) /\ o.pc = "truncate" /\ o.content.ext = narinfo[p].ext
                           /\ o.content.signed
<1>1. Content(e, FALSE) \in Contents /\ ~Content(e, FALSE).signed
      /\ Content(e, FALSE).ext = e
  BY NewContent
<1>2. CASE /\ ~Has(p)
           /\ Set(w, [Idle EXCEPT !.cmd = "import", !.pc = "put", !.path = p,
                                  !.content = Content(e, FALSE), !.sign = s])
  <2> DEFINE o == [Idle EXCEPT !.cmd = "import", !.pc = "put", !.path = p,
                               !.content = Content(e, FALSE), !.sign = s]
  <2>1. o \in OpType /\ OpOK(o)
    BY <1>1, StartsOK
  <2>2. o.cmd = "import" /\ o.path = p /\ ~o.detached /\ o.pc = "put"
        /\ o.content = Content(e, FALSE)
    BY DEF Idle
  <2> HIDE DEF o
  <2>3. Set(w, o)
    BY <1>2 DEF o
  <2> QED
    BY <1>1, <1>2, <2>1, <2>2, <2>3
<1>3. CASE /\ Parses(p)
           /\ Set(w, [Idle EXCEPT !.cmd = "import", !.pc = "truncate", !.path = p,
                                  !.content = [narinfo[p] EXCEPT !.signed = TRUE]])
  <2> DEFINE c == [narinfo[p] EXCEPT !.signed = TRUE]
             o == [Idle EXCEPT !.cmd = "import", !.pc = "truncate", !.path = p,
                               !.content = c]
  <2>1. c \in Contents /\ c.ext = narinfo[p].ext /\ c.signed
    BY <1>3, SigningKeeps DEF Parses
  <2> HIDE DEF c
  <2>2. o \in OpType /\ o.cmd = "import" /\ o.path = p /\ ~o.detached /\ o.pc = "truncate"
        /\ o.content = c
    BY <2>1 DEF Idle, OpType, PCs
  <2> HIDE DEF o
  <2>3. Set(w, o)
    BY <1>3 DEF o, c
  <2>4. OpOK(o)
    BY <2>1, <2>2, WriteOK
  <2> QED
    BY <1>3, <2>1, <2>2, <2>3, <2>4
<1> QED
  BY <1>2, <1>3 DEF Import

(* What SignEntry does to its worker. *)
LEMMA SignEntrySets ==
  ASSUME Typed, NEW w \in Workers, NEW p \in Paths, SignEntry(w, p)
  PROVE  \E o \in OpType :
           /\ Set(w, o) /\ OpOK(o) /\ o.cmd \in {"sign", "none"} /\ ~o.detached
           /\ o.todo \subseteq Paths
           /\ \/ Parses(p) /\ o.pc = "truncate" /\ o.path = p
                           /\ o.content.ext = narinfo[p].ext /\ o.content.signed
              \/ o.pc \in {"idle", "loop"} /\ o.path = None
<1> DEFINE rest == [op[w] EXCEPT !.todo = @ \ {p}]
           c == [narinfo[p] EXCEPT !.signed = TRUE]
           o == [rest EXCEPT !.pc = "truncate", !.path = p, !.content = c]
<1>1. op[w] \in OpType /\ op[w].cmd = "sign" /\ op[w].pc = "loop" /\ op[w].todo \subseteq Paths
      /\ ~op[w].detached
  BY DEF Typed, OpOK, SignEntry
<1>2. rest \in OpType /\ rest.cmd = "sign" /\ rest.todo \subseteq Paths /\ ~rest.detached
  BY <1>1 DEF OpType
<1>3. CASE Parses(p) /\ Set(w, o)
  <2>1. c \in Contents /\ c.ext = narinfo[p].ext /\ c.signed
    BY <1>3, SigningKeeps DEF Parses
  <2> HIDE DEF c, rest
  <2>2. o \in OpType /\ o.cmd = "sign" /\ o.path = p /\ ~o.detached /\ o.pc = "truncate"
        /\ o.content = c /\ o.todo \subseteq Paths
    BY <1>2, <2>1 DEF OpType, PCs
  <2> HIDE DEF o
  <2>3. OpOK(o)
    BY <2>1, <2>2, WriteOK
  <2> QED
    BY <1>3, <2>1, <2>2, <2>3
<1>4. CASE Set(w, Loop(rest))
  <2> HIDE DEF rest
  <2> QED
    BY <1>2, <1>4, LoopOK
<1> QED
  BY <1>3, <1>4 DEF SignEntry

(* What the steps of a write do to their worker. *)
LEMMA PutSets ==
  ASSUME Typed, NEW w \in Workers, PutNar(w)
  PROVE  \E o \in OpType :
           /\ Set(w, o) /\ OpOK(o) /\ o.cmd = op[w].cmd /\ o.pc = "truncate"
           /\ o.path = op[w].path /\ o.content = op[w].content /\ ~o.detached
<1> DEFINE o == [op[w] EXCEPT !.pc = "truncate"]
<1>1. op[w] \in OpType /\ op[w].pc = "put" /\ op[w].path \in Paths /\ op[w].content \in Contents
      /\ ~op[w].detached /\ op[w].cmd \in {"none", "import", "sign"}
      /\ (op[w].cmd = "sign" => op[w].todo \subseteq Paths)
  BY DEF Typed, OpOK, PutNar, OpType
<1>2. o \in OpType /\ o.cmd = op[w].cmd /\ o.pc = "truncate" /\ o.path = op[w].path
      /\ o.content = op[w].content /\ ~o.detached /\ o.todo = op[w].todo
  BY <1>1 DEF OpType, PCs
<1>3. Set(w, o)
  BY DEF PutNar
<1> HIDE DEF o
<1>4. OpOK(o)
  BY <1>1, <1>2, WriteOK
<1> QED
  BY <1>2, <1>3, <1>4

LEMMA TruncateSets ==
  ASSUME Typed, NEW w \in Workers, Truncate(w)
  PROVE  \E o \in OpType :
           /\ Set(w, o) /\ OpOK(o) /\ o.cmd # "gc" /\ o.pc = "fill"
           /\ o.path = op[w].path /\ o.content = op[w].content /\ ~o.detached
<1> DEFINE o == [op[w] EXCEPT !.pc = "fill"]
<1>1. op[w] \in OpType /\ op[w].pc = "truncate" /\ op[w].path \in Paths
      /\ op[w].content \in Contents
      /\ ~op[w].detached /\ op[w].cmd # "gc"
      /\ (op[w].cmd = "sign" => op[w].todo \subseteq Paths)
  BY DEF Typed, OpOK, Truncate
<1>2. o \in OpType /\ o.cmd = op[w].cmd /\ o.pc = "fill" /\ o.path = op[w].path
      /\ o.content = op[w].content /\ ~o.detached /\ o.todo = op[w].todo
  BY <1>1 DEF OpType, PCs
<1>3. Set(w, o)
  BY DEF Truncate
<1> HIDE DEF o
<1>4. OpOK(o)
  BY <1>1, <1>2 DEF OpOK, Idle
<1> QED
  BY <1>1, <1>2, <1>3, <1>4

(* A worker at a step of a write has something to write, and is no gc. *)
LEMMA Writes ==
  ASSUME Typed, NEW w \in Workers, op[w].pc \in {"put", "truncate", "fill"}
  PROVE  /\ op[w] \in OpType /\ op[w].path \in Paths /\ op[w].content \in Contents
         /\ op[w].cmd \in {"none", "import", "sign"}
         /\ op[w].cmd = "sign" => op[w].todo \subseteq Paths
BY DEF Typed, OpOK, OpType

LEMMA FillSets ==
  ASSUME Typed, NEW w \in Workers, Fill(w)
  PROVE  \E o \in OpType :
           /\ Set(w, o) /\ OpOK(o) /\ o.cmd # "gc" /\ ~o.detached
           /\ \/ /\ o.pc = "truncate" /\ o.path = op[w].path
                 /\ o.content.ext = op[w].content.ext /\ o.content.signed
              \/ /\ o.pc \in {"idle", "loop"} /\ o.path = None
<1>1. op[w] \in OpType /\ op[w].pc = "fill" /\ op[w].path \in Paths /\ op[w].content \in Contents
      /\ op[w].cmd \in {"none", "import", "sign"}
      /\ (op[w].cmd = "sign" => op[w].todo \subseteq Paths)
  BY Writes DEF Fill
<1>2. CASE op[w].sign
  <2> DEFINE c == [op[w].content EXCEPT !.signed = TRUE]
             o == [op[w] EXCEPT !.pc = "truncate", !.sign = FALSE, !.detached = FALSE,
                                !.content = c]
  <2>1. c \in Contents /\ c.ext = op[w].content.ext /\ c.signed
    BY <1>1, SigningKeeps
  <2>2. [op[w] EXCEPT !.pc = "truncate", !.sign = FALSE, !.detached = FALSE,
                      !.content.signed = TRUE] = o
    BY <1>1 DEF OpType
  <2>3. Set(w, o)
    BY <1>2, <2>2 DEF Fill
  <2> HIDE DEF c
  <2>4. o \in OpType /\ o.cmd = op[w].cmd /\ ~o.detached /\ o.pc = "truncate"
        /\ o.path = op[w].path /\ o.content = c /\ o.todo = op[w].todo
    BY <1>1, <2>1 DEF OpType, PCs
  <2> HIDE DEF o
  <2>5. OpOK(o)
    BY <1>1, <2>1, <2>4, WriteOK
  <2> QED
    BY <1>1, <2>1, <2>3, <2>4, <2>5
<1>3. CASE ~op[w].sign
  <2>1. Set(w, Loop(op[w]))
    BY <1>3 DEF Fill
  <2> QED
    BY <1>1, <2>1, LoopOK
<1> QED
  BY <1>2, <1>3

LEMMA FillFailsSets ==
  ASSUME Typed, NEW w \in Workers, FillFails(w)
  PROVE  \E o \in OpType :
           /\ Set(w, o) /\ OpOK(o) /\ o.cmd # "gc" /\ ~o.detached
           /\ o.pc \in {"idle", "loop"} /\ o.path = None
<1>1. op[w] \in OpType /\ op[w].cmd \in {"none", "import", "sign"}
      /\ (op[w].cmd = "sign" => op[w].todo \subseteq Paths)
  BY Writes DEF FillFails
<1>2. Set(w, Loop(op[w]))
  BY DEF FillFails
<1> QED
  BY <1>1, <1>2, LoopOK

(* What the steps of a gc do to their worker. *)
LEMMA GcSets ==
  ASSUME Typed, NEW w \in Workers, NEW k \in GcKeys, GcNar(w, k) \/ GcNarFails(w, k)
  PROVE  \E o \in OpType :
           /\ Set(w, o) /\ OpOK(o) /\ o.cmd = "gc" /\ o.pc = "unlink"
           /\ o.path = k[1] /\ o.todo = op[w].todo \ {k} /\ ~o.detached
<1> DEFINE o == [op[w] EXCEPT !.pc = "unlink", !.path = k[1], !.todo = @ \ {k}]
<1>1. op[w] \in OpType /\ op[w].cmd = "gc" /\ op[w].pc = "loop" /\ ~op[w].detached
      /\ op[w].todo \subseteq GcKeys
  BY DEF Typed, OpOK, GcNar, GcNarFails
<1>2. k[1] \in Paths
  BY DEF GcKeys
<1>3. o \in OpType /\ o.cmd = "gc" /\ o.pc = "unlink" /\ o.path = k[1]
      /\ o.todo = op[w].todo \ {k} /\ ~o.detached
  BY <1>1, <1>2 DEF OpType, PCs
<1>4. Set(w, o)
  BY DEF GcNar, GcNarFails
<1> HIDE DEF o
<1>5. OpOK(o)
  BY <1>1, <1>2, <1>3 DEF OpOK, Idle
<1> QED
  BY <1>3, <1>4, <1>5

LEMMA UnlinkFailsSets ==
  ASSUME Typed, NEW w \in Workers, GcNarinfoFails(w)
  PROVE  /\ op[w].pc = "unlink" /\ op[w].cmd = "gc" /\ op[w].todo \subseteq GcKeys
         /\ \E o \in OpType :
              /\ Set(w, o) /\ OpOK(o) /\ o.pc \in {"idle", "loop"}
              /\ o.cmd \in {"gc", "none"} /\ o.path = None /\ o.todo = op[w].todo
<1>1. op[w] \in OpType /\ op[w].pc = "unlink" /\ op[w].cmd = "gc" /\ op[w].todo \subseteq GcKeys
  BY DEF Typed, OpOK, GcNarinfoFails
<1>2. Set(w, Loop(op[w]))
  BY DEF GcNarinfoFails
<1> QED
  BY <1>1, <1>2, LoopOK

LEMMA StartSets ==
  ASSUME Typed, NEW w \in Workers, SignStart(w) \/ GcCollect(w)
  PROVE  \E o \in OpType :
           /\ Set(w, o) /\ OpOK(o) /\ o.pc = "loop" /\ ~o.detached /\ o.path = None
           /\ \/ o.cmd = "sign"
              \/ o.cmd = "gc" /\ o.todo \subseteq {Url(p) : p \in {q \in Paths : Parses(q)}}
<1>1. CASE SignStart(w)
  <2> DEFINE o == [Idle EXCEPT !.cmd = "sign", !.pc = "loop",
                               !.todo = {p \in Paths : Has(p)}]
  <2>1. o \in OpType /\ o.cmd = "sign" /\ o.pc = "loop" /\ ~o.detached /\ o.path = None
        /\ o.todo = {p \in Paths : Has(p)}
    BY DEF Idle, OpType, PCs
  <2>2. Set(w, o) /\ \E p \in Paths : Has(p)
    BY <1>1 DEF SignStart
  <2> HIDE DEF o
  <2>3. OpOK(o)
    BY <2>1, <2>2 DEF OpOK, Idle
  <2> QED
    BY <2>1, <2>2, <2>3
<1>2. CASE GcCollect(w)
  <2> DEFINE urls == {Url(p) : p \in {q \in Paths : Parses(q)}}
  <2>1. PICK victims \in SUBSET urls :
          victims # {} /\ Set(w, [Idle EXCEPT !.cmd = "gc", !.pc = "loop", !.todo = victims])
    BY <1>2 DEF GcCollect
  <2> DEFINE o == [Idle EXCEPT !.cmd = "gc", !.pc = "loop", !.todo = victims]
  <2>2. urls \subseteq GcKeys
    BY NoContent DEF Url, GcKeys, Parses
  <2>3. o \in OpType /\ o.cmd = "gc" /\ o.pc = "loop" /\ ~o.detached /\ o.path = None
        /\ o.todo = victims
    BY <2>2 DEF Idle, OpType, PCs
  <2>4. Set(w, o)
    BY <2>1
  <2> HIDE DEF o
  <2>5. OpOK(o)
    BY <2>1, <2>2, <2>3 DEF OpOK, Idle
  <2> QED
    BY <2>1, <2>3, <2>4, <2>5
<1> QED
  BY <1>1, <1>2

(* What a step leaves in the narinfo file of its path, and nowhere else. *)
LEMMA FillLeaves ==
  ASSUME Typed, NEW w \in Workers, Fill(w)
  PROVE  /\ narinfo' \in [Paths -> Files] /\ signedOnce' \subseteq Paths /\ cut' \subseteq Paths
         /\ \A q \in Paths \ {op[w].path} :
              narinfo'[q] = narinfo[q] /\ (q \in signedOnce' <=> q \in signedOnce)
                /\ (q \in cut' <=> q \in cut)
         /\ op[w].detached => UNCHANGED <<narinfo, signedOnce, cut>>
         /\ ~op[w].detached =>
              /\ narinfo'[op[w].path] \in Filled(w)
              /\ op[w].path \in signedOnce' =>
                   op[w].content.signed
                     \/ (op[w].path \notin stale[w] /\ op[w].path \in signedOnce)
              /\ op[w].path \in cut' <=> op[w].content.state = "part"
<1>1. op[w].path \in Paths
  BY Writes DEF Fill
<1>2. CASE op[w].detached
  BY <1>2 DEF Fill, Typed
<1>3. CASE ~op[w].detached
  <2>1. PICK c \in Filled(w) : narinfo' = [narinfo EXCEPT ![op[w].path] = c]
    BY <1>3 DEF Fill
  <2>2. c \in Files
    BY <2>1, FilledContents DEF Fill, Files
  <2>3. /\ narinfo' \in [Paths -> Files] /\ narinfo'[op[w].path] \in Filled(w)
        /\ \A q \in Paths \ {op[w].path} : narinfo'[q] = narinfo[q]
    BY <1>1, <2>1, <2>2 DEF Typed
  <2>4. signedOnce' = IF op[w].content.signed
                        THEN signedOnce \cup {op[w].path}
                        ELSE signedOnce \ (stale[w] \cap {op[w].path})
    BY <1>3 DEF Fill
  <2>5. /\ signedOnce' \subseteq Paths
        /\ \A q \in Paths \ {op[w].path} : q \in signedOnce' <=> q \in signedOnce
        /\ op[w].path \in signedOnce' =>
                   op[w].content.signed
                     \/ (op[w].path \notin stale[w] /\ op[w].path \in signedOnce)
    BY <1>1, <2>4 DEF Typed
  <2>6. cut' = IF op[w].content.state = "part" THEN cut \cup {op[w].path}
                                              ELSE cut \ {op[w].path}
    BY <1>3 DEF Fill
  <2> QED
    BY <1>1, <1>3, <2>3, <2>5, <2>6 DEF Typed
<1> QED
  BY <1>2, <1>3

LEMMA PartLeaves ==
  ASSUME Typed, NEW w \in Workers, op[w].pc = "fill", LeavesPart(w)
  PROVE  /\ narinfo' \in [Paths -> Files] /\ cut' \subseteq Paths
         /\ \A q \in Paths \ {op[w].path} :
              narinfo'[q] = narinfo[q] /\ (q \in cut' <=> q \in cut)
         /\ op[w].detached => UNCHANGED <<narinfo, cut>>
         /\ ~op[w].detached =>
              /\ op[w].path \in cut'
              /\ \/ narinfo'[op[w].path] = narinfo[op[w].path]
                 \/ /\ narinfo[op[w].path] = Truncated
                    /\ narinfo'[op[w].path] \in CutOff(op[w].content)
<1>1. op[w].path \in Paths /\ op[w].content \in Contents
  BY Writes
<1>2. CASE op[w].detached
  BY <1>2 DEF LeavesPart, Typed
<1>3. CASE ~op[w].detached
  <2> DEFINE p == op[w].path
  <2>1. PICK c \in IF narinfo[p] = Truncated THEN CutOff(op[w].content) ELSE {narinfo[p]} :
          narinfo' = [narinfo EXCEPT ![p] = c]
    BY <1>3 DEF LeavesPart
  <2>2. c \in Files
    BY <1>1, <2>1, CutOffParts DEF Typed
  <2>3. cut' = cut \cup {p}
    BY <1>3 DEF LeavesPart
  <2>4. /\ narinfo' \in [Paths -> Files] /\ narinfo'[p] = c
        /\ \A q \in Paths \ {p} : narinfo'[q] = narinfo[q]
    BY <1>1, <2>1, <2>2 DEF Typed
  <2> QED
    BY <1>1, <1>3, <2>1, <2>3, <2>4 DEF Typed
<1> QED
  BY <1>2, <1>3

(* The removal of a narinfo detaches the workers that have it open. *)
LEMMA GcNarinfoSets ==
  ASSUME Typed, NEW w \in Workers, GcNarinfo(w)
  PROVE  /\ op' \in [Workers -> OpType]
         /\ \A v \in Workers : OpOK(op'[v])
         /\ op'[w].pc \in {"idle", "loop"} /\ op'[w].path = None
         /\ op'[w].todo = op[w].todo /\ op'[w].cmd \in {"gc", "none"} /\ ~op'[w].detached
         /\ \A v \in Workers \ {w} :
              /\ op'[v].pc = op[v].pc /\ op'[v].path = op[v].path /\ op'[v].cmd = op[v].cmd
              /\ op'[v].content = op[v].content /\ op'[v].todo = op[v].todo
              /\ IF op[v].pc = "fill" /\ op[v].path = op[w].path
                   THEN op'[v].detached
                   ELSE op'[v] = op[v]
<1>1. op' = [v \in Workers |->
               IF v = w THEN Loop(op[v])
               ELSE IF op[v].pc = "fill" /\ op[v].path = op[w].path
                      THEN [op[v] EXCEPT !.detached = TRUE]
                      ELSE op[v]]
  BY DEF GcNarinfo
<1>2. op[w] \in OpType /\ op[w].cmd = "gc" /\ op[w].todo \subseteq GcKeys
  BY DEF Typed, OpOK, GcNarinfo
<1>3. /\ op'[w] \in OpType /\ OpOK(op'[w])
      /\ op'[w].pc \in {"idle", "loop"} /\ op'[w].path = None
      /\ op'[w].todo = op[w].todo /\ op'[w].cmd \in {"gc", "none"} /\ ~op'[w].detached
  BY <1>1, <1>2, LoopOK
<1>4. ASSUME NEW v \in Workers \ {w}
      PROVE  /\ op'[v] \in OpType /\ OpOK(op'[v])
             /\ op'[v].pc = op[v].pc /\ op'[v].path = op[v].path /\ op'[v].cmd = op[v].cmd
             /\ op'[v].content = op[v].content /\ op'[v].todo = op[v].todo
             /\ IF op[v].pc = "fill" /\ op[v].path = op[w].path
                  THEN op'[v].detached
                  ELSE op'[v] = op[v]
  <2>1. op[v] \in OpType /\ OpOK(op[v])
    BY DEF Typed
  <2>2. CASE op[v].pc = "fill" /\ op[v].path = op[w].path
    <3> DEFINE o == [op[v] EXCEPT !.detached = TRUE]
    <3>1. op'[v] = o
      BY <1>1, <2>2
    <3>2. o \in OpType /\ o.pc = "fill" /\ o.path = op[v].path /\ o.cmd = op[v].cmd
          /\ o.content = op[v].content /\ o.todo = op[v].todo /\ o.detached
      BY <2>1, <2>2 DEF OpType, PCs
    <3> HIDE DEF o
    <3>3. OpOK(o)
      BY <2>1, <2>2, <3>2 DEF OpOK, Idle
    <3> QED
      BY <2>2, <3>1, <3>2, <3>3
  <2>3. CASE ~(op[v].pc = "fill" /\ op[v].path = op[w].path)
    <3>1. op'[v] = op[v]
      BY <1>1, <2>3
    <3> QED
      BY <2>1, <2>3, <3>1
  <2> QED
    BY <2>2, <2>3
<1>5. op' \in [Workers -> OpType]
  <2>1. \A v \in Workers : op'[v] \in OpType
    BY <1>3, <1>4
  <2>2. op' = [v \in Workers |-> op'[v]]
    BY <1>1
  <2> QED
    BY <2>1, <2>2
<1> QED
  BY <1>3, <1>4, <1>5

LEMMA TypedStep == Typed /\ [Next]_vars => Typed'
<1> SUFFICES ASSUME Typed, [Next]_vars PROVE Typed'
  OBVIOUS
<1> USE DEF NarKeys, GcKeys
<1>0. /\ narinfo \in [Paths -> Files]
      /\ nar \subseteq NarKeys /\ legacy \subseteq NarKeys
      /\ signedOnce \subseteq Paths /\ cut \subseteq Paths
  BY DEF Typed
<1>s. ASSUME NEW w \in Workers, NEW P \in SUBSET Paths, Changes(w, P) \/ Reads(w, P)
      PROVE  stale' \in [Workers -> SUBSET Paths]
  BY <1>s, ChangesStale, ReadsStale
<1>t. ASSUME op' \in [Workers -> OpType], \A v \in Workers : OpOK(op'[v]),
             stale' \in [Workers -> SUBSET Paths],
             narinfo' \in [Paths -> Files], nar' \subseteq NarKeys, legacy' \subseteq NarKeys,
             signedOnce' \subseteq Paths, cut' \subseteq Paths
      PROVE  Typed'
  <2>1. \A v \in Workers : OpOK(op[v])'
    BY <1>t DEF OpOK
  <2> QED
    BY <1>t, <2>1 DEF Typed
<1>1. ASSUME NEW w \in Workers, NEW p \in Paths, NEW e \in Exts, NEW s \in BOOLEAN,
             Import(w, p, e, s)
      PROVE  Typed'
  <2>1. op' \in [Workers -> OpType] /\ \A v \in Workers : OpOK(op'[v])
    BY <1>1, ImportSets, SetOp
  <2> QED
    BY <1>0, <1>1, <1>s, <1>t, <2>1 DEF Import
<1>2. ASSUME NEW w \in Workers, PutNar(w)
      PROVE  Typed'
  <2>1. op' \in [Workers -> OpType] /\ \A v \in Workers : OpOK(op'[v])
    BY <1>2, PutSets, SetOp
  <2>2. op[w].path \in Paths /\ op[w].content.ext \in Exts
    BY <1>2 DEF PutNar, Typed, OpOK
  <2> QED
    BY <1>0, <1>2, <1>s, <1>t, <2>1, <2>2 DEF PutNar
<1>3. ASSUME NEW w \in Workers, Truncate(w)
      PROVE  Typed'
  <2>1. op' \in [Workers -> OpType] /\ \A v \in Workers : OpOK(op'[v])
    BY <1>3, TruncateSets, SetOp
  <2>2. op[w].path \in Paths
    BY <1>3, Writes DEF Truncate
  <2>3. narinfo' \in [Paths -> Files]
    BY <1>0, <1>3 DEF Truncate, Files
  <2> QED
    BY <1>0, <1>3, <1>s, <1>t, <2>1, <2>2, <2>3 DEF Truncate
<1>4. ASSUME NEW w \in Workers, Fill(w)
      PROVE  Typed'
  <2>1. op' \in [Workers -> OpType] /\ \A v \in Workers : OpOK(op'[v])
    BY <1>4, FillSets, SetOp
  <2>2. stale' \in [Workers -> SUBSET Paths]
    BY <1>4, <1>s, Writes DEF Fill
  <2>3. nar' = nar /\ legacy' = legacy
    BY <1>4 DEF Fill
  <2> QED
    BY <1>0, <1>4, <1>t, <2>1, <2>2, <2>3, FillLeaves
<1>5. ASSUME NEW w \in Workers, FillFails(w)
      PROVE  Typed'
  <2>1. op' \in [Workers -> OpType] /\ \A v \in Workers : OpOK(op'[v])
    BY <1>5, FillFailsSets, SetOp
  <2>2. stale' \in [Workers -> SUBSET Paths]
    BY <1>5, <1>s, Writes DEF FillFails
  <2> QED
    BY <1>0, <1>5, <1>t, <2>1, <2>2, PartLeaves DEF FillFails
<1>6. ASSUME NEW w \in Workers, SignStart(w) \/ GcCollect(w)
      PROVE  Typed'
  <2>1. op' \in [Workers -> OpType] /\ \A v \in Workers : OpOK(op'[v])
    BY <1>6, StartSets, SetOp
  <2>2. Reads(w, {}) /\ UNCHANGED <<narinfo, nar, legacy, signedOnce, cut>>
    BY <1>6 DEF SignStart, GcCollect
  <2> QED
    BY <1>0, <1>s, <1>t, <2>1, <2>2
<1>7. ASSUME NEW w \in Workers, NEW p \in Paths, SignEntry(w, p)
      PROVE  Typed'
  <2>1. op' \in [Workers -> OpType] /\ \A v \in Workers : OpOK(op'[v])
    BY <1>7, SignEntrySets, SetOp
  <2> QED
    BY <1>0, <1>7, <1>s, <1>t, <2>1 DEF SignEntry
<1>8. ASSUME NEW w \in Workers, NEW k \in GcKeys, GcNar(w, k) \/ GcNarFails(w, k)
      PROVE  Typed'
  <2>1. op' \in [Workers -> OpType] /\ \A v \in Workers : OpOK(op'[v])
    BY <1>8, GcSets, SetOp
  <2>2. stale' \in [Workers -> SUBSET Paths]
    BY <1>8, <1>s DEF GcNar, GcNarFails
  <2>3. nar' \subseteq nar /\ legacy' \subseteq legacy
    BY <1>8 DEF GcNar, GcNarFails
  <2> QED
    BY <1>0, <1>8, <1>t, <2>1, <2>2, <2>3 DEF GcNar, GcNarFails
<1>9. ASSUME NEW w \in Workers, GcNarinfo(w)
      PROVE  Typed'
  <2>1. op' \in [Workers -> OpType] /\ \A v \in Workers : OpOK(op'[v])
    BY <1>9, GcNarinfoSets
  <2>2. op[w].path \in Paths
    BY <1>9 DEF GcNarinfo, Typed, OpOK
  <2>3. narinfo' \in [Paths -> Files]
    BY <1>0, <1>9 DEF GcNarinfo, Files
  <2> QED
    BY <1>0, <1>9, <1>s, <1>t, <2>1, <2>2, <2>3 DEF GcNarinfo
<1>10. ASSUME NEW w \in Workers, Crash(w)
       PROVE  Typed'
  <2>1. op' \in [Workers -> OpType] /\ \A v \in Workers : OpOK(op'[v])
    BY <1>10, IdleOK, SetOp DEF Crash
  <2>2. narinfo' \in [Paths -> Files] /\ cut' \subseteq Paths
    BY <1>0, <1>10, PartLeaves DEF Crash
  <2>3. stale' \in [Workers -> SUBSET Paths]
    BY <1>10, <1>s, Writes DEF Crash
  <2> QED
    BY <1>0, <1>10, <1>t, <2>1, <2>2, <2>3 DEF Crash
<1>11. CASE UNCHANGED vars
  BY <1>11 DEF Typed, OpOK, vars
<1>12. ASSUME NEW w \in Workers, GcNarinfoFails(w)
       PROVE  Typed'
  <2>1. op' \in [Workers -> OpType] /\ \A v \in Workers : OpOK(op'[v])
    BY <1>12, UnlinkFailsSets, SetOp
  <2> QED
    BY <1>0, <1>12, <1>s, <1>t, <2>1 DEF GcNarinfoFails
<1> QED
  BY <1>1, <1>2, <1>3, <1>4, <1>5, <1>6, <1>7, <1>8, <1>9, <1>10, <1>11, <1>12
  DEF Next, ImportStep, WriteStep, SignStep, GcStep

(* Every file is a narinfo, whole or cut off, or empty, and every command  *)
(* has what its next step works on.                                        *)
THEOREM TypeCorrect == Spec => []TypeOK
<1>1. Typed => TypeOK
  BY DEF Typed, OpOK, TypeOK
<1> QED
  BY <1>1, TypedInit, TypedStep, PTL DEF Spec

-----------------------------------------------------------------------------
(***************************************************************************)
(* What a worker may rely on as long as nobody has changed a path since it *)
(* read it: of a file it is to write, that the file is absent or names the *)
(* NAR it is to name, and of an absent one that it has put this NAR; of a  *)
(* file it has truncated, that it is empty and still the file of the path; *)
(* of a NAR it is to delete, that the narinfo still names it.              *)
(***************************************************************************)
KnowsFile(o, fresh) ==
  o.pc \in {"put", "truncate"} /\ o.path \in fresh =>
    narinfo[o.path] = Absent \/ (Parses(o.path) /\ narinfo[o.path].ext = o.content.ext)

KnowsNar(o, fresh) ==
  o.pc = "truncate" /\ o.path \in fresh /\ narinfo[o.path] = Absent =>
    <<o.path, o.content.ext>> \in nar

KnowsOpen(o, fresh) ==
  o.pc = "fill" /\ o.path \in fresh => ~o.detached /\ narinfo[o.path] = Truncated

KnowsVictims(o, fresh) ==
  o.cmd = "gc" => /\ \A k \in o.todo : k[1] \in fresh => Advertised(k)
                  /\ \A k, l \in o.todo : k[1] = l[1] => k = l
                  /\ o.pc = "unlink" => \A k \in o.todo : k[1] # o.path

(* An unsigned narinfo is for a path that is not signed. *)
KnowsSigned(o, fresh) ==
  o.pc \in {"put", "truncate", "fill"} /\ o.path \in fresh /\ o.path \in signedOnce =>
    o.content.signed

Knows(o, fresh) ==
  KnowsFile(o, fresh) /\ KnowsNar(o, fresh) /\ KnowsOpen(o, fresh)
    /\ KnowsVictims(o, fresh) /\ KnowsSigned(o, fresh)

Known == \A w \in Workers : Knows(op[w], Paths \ stale[w])

(* A step that changes only the paths in P leaves the others what they     *)
(* know: P is stale for them.                                              *)
LEMMA OthersKnow ==
  ASSUME Typed, NEW v \in Workers, Knows(op[v], Paths \ stale[v]), NEW P \in SUBSET Paths,
         op'[v] = op[v], stale'[v] = stale[v] \cup P \/ op'[v] = Idle,
         \A q \in Paths \ P : /\ narinfo'[q] = narinfo[q]
                              /\ q \in signedOnce' => q \in signedOnce,
         \A k \in nar : k[1] \notin P => k \in nar'
  PROVE  Knows(op[v], Paths \ stale[v])'
<1>1. CASE op'[v] = Idle
  BY <1>1 DEF Idle, Knows, KnowsFile, KnowsNar, KnowsOpen, KnowsVictims, KnowsSigned
<1>2. CASE stale'[v] = stale[v] \cup P
  <2> DEFINE o == op[v]
             fresh == Paths \ stale[v]
  <2>0. OpOK(o) /\ o \in OpType
    BY DEF Typed
  <2>1. fresh' \subseteq fresh /\ \A q \in fresh' : q \in Paths \ P
    BY <1>2
  <2>2. KnowsFile(o, fresh)'
    BY <1>2, <2>0 DEF Knows, KnowsFile, Parses, OpOK
  <2>3. KnowsNar(o, fresh)'
    BY <1>2, <2>0 DEF Knows, KnowsNar, OpOK
  <2>4. KnowsOpen(o, fresh)'
    BY <1>2, <2>0 DEF Knows, KnowsOpen, OpOK
  <2>5. KnowsVictims(o, fresh)'
    BY <1>2, <2>0 DEF Knows, KnowsVictims, OpOK, Advertised, Parses, Url, GcKeys
  <2>6. KnowsSigned(o, fresh)'
    BY <1>2, <2>0 DEF Knows, KnowsSigned, OpOK
  <2> QED
    BY <2>2, <2>3, <2>4, <2>5, <2>6 DEF Knows
<1> QED
  BY <1>1, <1>2

(* A signed path has a narinfo, which has the signature unless it was cut  *)
(* off.                                                                    *)
SignedFiles ==
  \A p \in signedOnce : Has(p) /\ (p \notin cut /\ Complete(p) => narinfo[p].signed)

(* A narinfo is complete, or cut off, or being written.                    *)
Open(p) == \E w \in Workers : op[w].pc = "fill" /\ op[w].path = p /\ ~op[w].detached

OpenFiles == \A p \in Paths : Has(p) => Complete(p) \/ p \in cut \/ Open(p)

CInv == Typed /\ Known /\ SignedFiles /\ OpenFiles

LEMMA CInvInit == Init => CInv
<1> SUFFICES ASSUME Init PROVE CInv
  OBVIOUS
<1>1. Typed
  BY TypedInit
<1>2. Known
  BY DEF Init, Known, Knows, KnowsFile, KnowsNar, KnowsOpen, KnowsVictims, KnowsSigned, Idle
<1>3. SignedFiles
  BY DEF Init, SignedFiles
<1>4. OpenFiles
  <2>1. PICK ext \in [PreMigration -> Exts] :
          narinfo = [p \in Paths |-> IF p \in PreMigration
                                        THEN Content(ext[p], FALSE)
                                        ELSE Absent]
    BY DEF Init
  <2>2. \A p \in PreMigration : Content(ext[p], FALSE).state = "complete"
    BY NewContent
  <2> QED
    BY <2>1, <2>2 DEF OpenFiles, Has, Complete
<1> QED
  BY <1>1, <1>2, <1>3, <1>4 DEF CInv

(* One lemma per conjunct: first what the workers know. *)
LEMMA KnownStep == CInv /\ [Next]_vars => Known'
<1> SUFFICES ASSUME CInv, [Next]_vars PROVE Known'
  OBVIOUS
<1>0. Typed /\ Known /\ SignedFiles
  BY DEF CInv
<1>k. ASSUME NEW w \in Workers, NEW P \in SUBSET Paths,
             \A v \in Workers \ {w} : op'[v] = op[v],
             \A v \in Workers \ {w} : stale'[v] = stale[v] \cup P \/ op'[v] = Idle,
             \A q \in Paths \ P : /\ narinfo'[q] = narinfo[q]
                                  /\ q \in signedOnce' => q \in signedOnce,
             \A k \in nar : k[1] \notin P => k \in nar',
             Knows(op[w], Paths \ stale[w])'
      PROVE  Known'
  <2>1. ASSUME NEW v \in Workers \ {w}
        PROVE  Knows(op[v], Paths \ stale[v])'
    <3>1. Knows(op[v], Paths \ stale[v])
      BY <1>0 DEF Known
    <3> QED
      BY <1>0, <1>k, <3>1, OthersKnow
  <2> QED
    BY <1>k, <2>1 DEF Known
<1> USE DEF Knows, KnowsFile, KnowsNar, KnowsOpen, KnowsVictims, KnowsSigned
<1>1. ASSUME NEW w \in Workers, NEW p \in Paths, NEW e \in Exts, NEW s \in BOOLEAN,
             Import(w, p, e, s)
      PROVE  Known'
  <2>1. PICK o \in OpType :
           /\ Set(w, o) /\ OpOK(o) /\ o.cmd = "import" /\ o.path = p /\ ~o.detached
           /\ \/ ~Has(p) /\ o.pc = "put" /\ ~o.content.signed
              \/ Parses(p) /\ o.pc = "truncate" /\ o.content.ext = narinfo[p].ext
                           /\ o.content.signed
    BY <1>0, <1>1, ImportSets
  <2>2. op'[w] = o /\ \A v \in Workers \ {w} : op'[v] = op[v]
    BY <1>0, <2>1, SetOp
  <2>3. UNCHANGED <<narinfo, nar, legacy, signedOnce, cut>> /\ Reads(w, {p})
    BY <1>1 DEF Import
  <2>4. Knows(op[w], Paths \ stale[w])'
    <3>1. CASE ~Has(p) /\ o.pc = "put" /\ ~o.content.signed
      <4>1. narinfo[p] = Absent /\ p \notin signedOnce
        BY <1>0, <3>1 DEF Has, SignedFiles
      <4> QED
        BY <2>1, <2>2, <2>3, <3>1, <4>1
    <3>2. CASE Parses(p) /\ o.pc = "truncate" /\ o.content.ext = narinfo[p].ext
                        /\ o.content.signed
      <4>1. narinfo[p] # Absent
        BY <3>2, NoContent DEF Parses
      <4> QED
        BY <2>1, <2>2, <2>3, <3>2, <4>1 DEF Parses
    <3> QED
      BY <2>1, <3>1, <3>2
  <2> DEFINE P == {}
  <2>5. \A v \in Workers \ {w} : stale'[v] = stale[v] \cup P \/ op'[v] = Idle
    BY <1>0, <2>3, ReadsStale
  <2>6. P \in SUBSET Paths
    OBVIOUS
  <2> HIDE DEF P, Knows
  <2> QED
    BY <1>k, <2>2, <2>3, <2>4, <2>5, <2>6
<1>2. ASSUME NEW w \in Workers, PutNar(w)
      PROVE  Known'
  <2>1. PICK o \in OpType :
           /\ Set(w, o) /\ OpOK(o) /\ o.cmd = op[w].cmd /\ o.pc = "truncate"
           /\ o.path = op[w].path /\ o.content = op[w].content /\ ~o.detached
    BY <1>0, <1>2, PutSets
  <2>2. op'[w] = o /\ \A v \in Workers \ {w} : op'[v] = op[v]
    BY <1>0, <2>1, SetOp
  <2>3. /\ UNCHANGED <<narinfo, legacy, signedOnce, cut>> /\ Changes(w, {})
        /\ op[w].pc = "put" /\ nar' = nar \cup {<<op[w].path, op[w].content.ext>>}
    BY <1>2 DEF PutNar
  <2>4. stale'[w] = stale[w] \/ op'[w] = Idle
    BY <1>0, <2>3, ChangesStale
  <2>5. Knows(op[w], Paths \ stale[w])
    BY <1>0 DEF Known
  <2>6. Knows(op[w], Paths \ stale[w])'
    <3>1. op'[w] # Idle /\ op'[w].cmd # "gc"
      BY <2>1, <2>2 DEF Idle, OpOK
    <3> QED
      BY <2>1, <2>2, <2>3, <2>4, <2>5, <3>1 DEF Parses
  <2>7. \A v \in Workers \ {w} : stale'[v] = stale[v] \cup {} \/ op'[v] = Idle
    BY <1>0, <2>3, ChangesStale
  <2> QED
    BY <1>k, <2>2, <2>3, <2>6, <2>7
<1>3. ASSUME NEW w \in Workers, Truncate(w)
      PROVE  Known'
  <2>1. PICK o \in OpType :
           /\ Set(w, o) /\ OpOK(o) /\ o.cmd # "gc" /\ o.pc = "fill"
           /\ o.path = op[w].path /\ o.content = op[w].content /\ ~o.detached
    BY <1>0, <1>3, TruncateSets
  <2>2. op'[w] = o /\ \A v \in Workers \ {w} : op'[v] = op[v]
    BY <1>0, <2>1, SetOp
  <2>3. op[w].path \in Paths
    BY <1>0, <1>3, Writes DEF Truncate
  <2>4. /\ UNCHANGED <<nar, legacy, signedOnce>> /\ Changes(w, {op[w].path})
        /\ op[w].pc = "truncate" /\ narinfo'[op[w].path] = Truncated
        /\ \A q \in Paths \ {op[w].path} : narinfo'[q] = narinfo[q]
    BY <1>0, <1>3, <2>3 DEF Truncate, Typed
  <2>5. stale'[w] = stale[w] \/ op'[w] = Idle
    BY <1>0, <2>3, <2>4, ChangesStale
  <2>6. Knows(op[w], Paths \ stale[w])
    BY <1>0 DEF Known
  <2>7. Knows(op[w], Paths \ stale[w])'
    <3>1. op'[w] # Idle
      BY <2>1, <2>2 DEF Idle
    <3> QED
      BY <2>1, <2>2, <2>4, <2>5, <2>6, <3>1
  <2>8. \A v \in Workers \ {w} : stale'[v] = stale[v] \cup {op[w].path} \/ op'[v] = Idle
    BY <1>0, <2>3, <2>4, ChangesStale
  <2> QED
    BY <1>k, <2>2, <2>3, <2>4, <2>7, <2>8
<1>4. ASSUME NEW w \in Workers, Fill(w)
      PROVE  Known'
  <2> DEFINE p == op[w].path
             P == IF op[w].detached THEN {} ELSE {p}
  <2>1. PICK o \in OpType :
           /\ Set(w, o) /\ OpOK(o) /\ o.cmd # "gc" /\ ~o.detached
           /\ \/ /\ o.pc = "truncate" /\ o.path = op[w].path
                 /\ o.content.ext = op[w].content.ext /\ o.content.signed
              \/ /\ o.pc \in {"idle", "loop"} /\ o.path = None
    BY <1>0, <1>4, FillSets
  <2>2. op'[w] = o /\ \A v \in Workers \ {w} : op'[v] = op[v]
    BY <1>0, <2>1, SetOp
  <2>3. p \in Paths /\ op[w].pc = "fill"
    BY <1>0, <1>4, Writes DEF Fill
  <2>4. nar' = nar /\ Changes(w, P)
    BY <1>4 DEF Fill
  <2>5. stale'[w] = stale[w] \/ op'[w] = Idle
    BY <1>0, <2>3, <2>4, ChangesStale
  <2>6. Knows(op[w], Paths \ stale[w])
    BY <1>0 DEF Known
  <2>7. \A q \in Paths \ P : /\ narinfo'[q] = narinfo[q]
                             /\ q \in signedOnce' => q \in signedOnce
    BY <1>0, <1>4, <2>3, FillLeaves
  <2>8. Knows(op[w], Paths \ stale[w])'
    <3>1. CASE o.pc = "truncate" /\ p \notin stale[w]
      <4>1. ~op[w].detached
        BY <2>3, <2>6, <3>1
      <4>2. narinfo'[p] \in Contents /\ narinfo'[p].ext = op[w].content.ext
        BY <1>0, <1>4, <2>3, <4>1, FillLeaves, FilledContents
      <4>3. narinfo'[p] # Absent /\ o # Idle
        BY <2>1, <3>1, <4>2, NoContent DEF Idle
      <4> QED
        BY <2>1, <2>2, <2>5, <3>1, <4>2, <4>3 DEF Parses, Idle
    <3>2. CASE o.pc = "truncate" /\ p \in stale[w]
      <4>1. o # Idle
        BY <3>2 DEF Idle
      <4> QED
        BY <2>1, <2>2, <2>5, <3>2, <4>1 DEF Idle
    <3>3. CASE o.pc \in {"idle", "loop"}
      BY <2>1, <2>2, <3>3
    <3> QED
      BY <2>1, <3>1, <3>2, <3>3
  <2>9. \A v \in Workers \ {w} : stale'[v] = stale[v] \cup P \/ op'[v] = Idle
    BY <1>0, <2>3, <2>4, ChangesStale
  <2> QED
    BY <1>k, <2>2, <2>3, <2>4, <2>7, <2>8, <2>9
<1>5. ASSUME NEW w \in Workers, FillFails(w)
      PROVE  Known'
  <2>1. PICK o \in OpType :
           /\ Set(w, o) /\ OpOK(o) /\ o.cmd # "gc" /\ ~o.detached
           /\ o.pc \in {"idle", "loop"} /\ o.path = None
    BY <1>0, <1>5, FillFailsSets
  <2>2. op'[w] = o /\ \A v \in Workers \ {w} : op'[v] = op[v]
    BY <1>0, <2>1, SetOp
  <2>3. op[w].path \in Paths /\ op[w].pc = "fill"
    BY <1>0, <1>5, Writes DEF FillFails
  <2>4. UNCHANGED <<nar, signedOnce>> /\ Changes(w, {op[w].path}) /\ LeavesPart(w)
    BY <1>5 DEF FillFails
  <2>5. \A q \in Paths \ {op[w].path} : narinfo'[q] = narinfo[q]
    BY <1>0, <2>3, <2>4, PartLeaves
  <2>6. Knows(op[w], Paths \ stale[w])'
    BY <2>1, <2>2
  <2>7. \A v \in Workers \ {w} : stale'[v] = stale[v] \cup {op[w].path} \/ op'[v] = Idle
    BY <1>0, <2>3, <2>4, ChangesStale
  <2> QED
    BY <1>k, <2>2, <2>3, <2>4, <2>5, <2>6, <2>7
<1>6. ASSUME NEW w \in Workers, SignStart(w) \/ GcCollect(w)
      PROVE  Known'
  <2>1. PICK o \in OpType :
           /\ Set(w, o) /\ OpOK(o) /\ o.pc = "loop" /\ ~o.detached /\ o.path = None
           /\ \/ o.cmd = "sign"
              \/ o.cmd = "gc" /\ o.todo \subseteq {Url(p) : p \in {q \in Paths : Parses(q)}}
    BY <1>0, <1>6, StartSets
  <2>2. op'[w] = o /\ \A v \in Workers \ {w} : op'[v] = op[v]
    BY <1>0, <2>1, SetOp
  <2>3. UNCHANGED <<narinfo, nar, legacy, signedOnce, cut>> /\ Reads(w, {})
    BY <1>6 DEF SignStart, GcCollect
  <2>4. Knows(op[w], Paths \ stale[w])'
    <3>1. CASE o.cmd = "sign"
      BY <2>1, <2>2, <3>1
    <3>2. CASE o.cmd = "gc" /\ o.todo \subseteq {Url(p) : p \in {q \in Paths : Parses(q)}}
      <4>1. \A k \in o.todo : Parses(k[1]) /\ Url(k[1]) = k
        BY <3>2 DEF Url
      <4> QED
        BY <2>1, <2>2, <2>3, <4>1 DEF Advertised, Parses, Url
    <3> QED
      BY <2>1, <3>1, <3>2
  <2> DEFINE P == {}
  <2>5. \A v \in Workers \ {w} : stale'[v] = stale[v] \cup P \/ op'[v] = Idle
    BY <1>0, <2>3, ReadsStale
  <2>6. P \in SUBSET Paths
    OBVIOUS
  <2> HIDE DEF P, Knows
  <2> QED
    BY <1>k, <2>2, <2>3, <2>4, <2>5, <2>6
<1>7. ASSUME NEW w \in Workers, NEW p \in Paths, SignEntry(w, p)
      PROVE  Known'
  <2>1. PICK o \in OpType :
           /\ Set(w, o) /\ OpOK(o) /\ o.cmd \in {"sign", "none"} /\ ~o.detached
           /\ o.todo \subseteq Paths
           /\ \/ Parses(p) /\ o.pc = "truncate" /\ o.path = p
                           /\ o.content.ext = narinfo[p].ext /\ o.content.signed
              \/ o.pc \in {"idle", "loop"} /\ o.path = None
    BY <1>0, <1>7, SignEntrySets
  <2>2. op'[w] = o /\ \A v \in Workers \ {w} : op'[v] = op[v]
    BY <1>0, <2>1, SetOp
  <2>3. UNCHANGED <<narinfo, nar, legacy, signedOnce, cut>> /\ Reads(w, {p})
    BY <1>7 DEF SignEntry
  <2>4. Knows(op[w], Paths \ stale[w])'
    <3>1. CASE Parses(p) /\ o.pc = "truncate" /\ o.path = p
                         /\ o.content.ext = narinfo[p].ext /\ o.content.signed
      <4>1. narinfo[p] # Absent
        BY <3>1, NoContent DEF Parses
      <4> QED
        BY <2>1, <2>2, <2>3, <3>1, <4>1 DEF Parses
    <3>2. CASE o.pc \in {"idle", "loop"}
      BY <2>1, <2>2, <3>2
    <3> QED
      BY <2>1, <3>1, <3>2
  <2> DEFINE P == {}
  <2>5. \A v \in Workers \ {w} : stale'[v] = stale[v] \cup P \/ op'[v] = Idle
    BY <1>0, <2>3, ReadsStale
  <2>6. P \in SUBSET Paths
    OBVIOUS
  <2> HIDE DEF P, Knows
  <2> QED
    BY <1>k, <2>2, <2>3, <2>4, <2>5, <2>6
<1>8. ASSUME NEW w \in Workers, NEW k \in GcKeys, GcNar(w, k) \/ GcNarFails(w, k)
      PROVE  Known'
  <2>1. PICK o \in OpType :
           /\ Set(w, o) /\ OpOK(o) /\ o.cmd = "gc" /\ o.pc = "unlink"
           /\ o.path = k[1] /\ o.todo = op[w].todo \ {k} /\ ~o.detached
    BY <1>0, <1>8, GcSets
  <2>2. op'[w] = o /\ \A v \in Workers \ {w} : op'[v] = op[v]
    BY <1>0, <2>1, SetOp
  <2>3. /\ UNCHANGED <<narinfo, signedOnce, cut>> /\ Changes(w, {k[1]})
        /\ nar \ {k} \subseteq nar' /\ op[w].cmd = "gc" /\ k \in op[w].todo
    BY <1>8 DEF GcNar, GcNarFails
  <2>4. k[1] \in Paths
    BY DEF GcKeys
  <2>5. stale'[w] = stale[w] \/ op'[w] = Idle
    BY <1>0, <2>3, <2>4, ChangesStale
  <2>6. Knows(op[w], Paths \ stale[w])
    BY <1>0 DEF Known
  <2>7. Knows(op[w], Paths \ stale[w])'
    <3>1. op'[w] # Idle
      BY <2>1, <2>2 DEF Idle
    <3> QED
      BY <2>1, <2>2, <2>3, <2>5, <2>6, <3>1 DEF Advertised, Parses, Url
  <2>8. \A v \in Workers \ {w} : stale'[v] = stale[v] \cup {k[1]} \/ op'[v] = Idle
    BY <1>0, <2>3, <2>4, ChangesStale
  <2>9. \A l \in nar : l[1] \notin {k[1]} => l \in nar'
    BY <2>3
  <2> QED
    BY <1>k, <2>2, <2>3, <2>4, <2>7, <2>8, <2>9
<1>9. ASSUME NEW w \in Workers, GcNarinfo(w)
      PROVE  Known'
  <2> DEFINE p == op[w].path
  <2>1. p \in Paths /\ op[w].pc = "unlink" /\ op[w].cmd = "gc" /\ op[w].todo \subseteq GcKeys
    BY <1>0, <1>9 DEF GcNarinfo, Typed, OpOK
  <2>2. /\ nar' = nar /\ signedOnce' = signedOnce \ {p} /\ Changes(w, {p})
        /\ \A q \in Paths \ {p} : narinfo'[q] = narinfo[q]
    BY <1>0, <1>9 DEF GcNarinfo, Typed
  <2>3. Knows(op[w], Paths \ stale[w])'
    <3>1. op'[w].todo = op[w].todo /\ op'[w].pc \in {"idle", "loop"}
      BY <1>0, <1>9, GcNarinfoSets
    <3>2. stale'[w] = stale[w] \/ op'[w] = Idle
      BY <1>0, <2>1, <2>2, ChangesStale
    <3>3. Knows(op[w], Paths \ stale[w])
      BY <1>0 DEF Known
    <3>4. CASE op'[w] = Idle
      BY <3>4 DEF Idle
    <3>5. CASE stale'[w] = stale[w]
      <4>1. \A k \in op[w].todo : k[1] \in Paths \ {p}
        BY <2>1, <3>3 DEF GcKeys
      <4> QED
        BY <2>1, <2>2, <3>1, <3>3, <3>5, <4>1 DEF Advertised, Parses, Url
    <3> QED
      BY <3>2, <3>4, <3>5
  <2>4. ASSUME NEW v \in Workers \ {w}
        PROVE  Knows(op[v], Paths \ stale[v])'
    <3>1. Knows(op[v], Paths \ stale[v])
      BY <1>0 DEF Known
    <3>2. stale'[v] = stale[v] \cup {p} \/ op'[v] = Idle
      BY <1>0, <2>1, <2>2, ChangesStale
    <3>3. CASE op'[v] = op[v]
      BY <1>0, <2>1, <2>2, <3>1, <3>2, <3>3, OthersKnow
    <3>4. CASE op'[v] # op[v]
      <4>1. op'[v].pc = "fill" /\ op'[v].path = p /\ op'[v].cmd = op[v].cmd
        BY <1>0, <1>9, <3>4, GcNarinfoSets
      <4>2. op[v].cmd # "gc"
        BY <1>0, <1>9, <4>1, GcNarinfoSets DEF Typed, OpOK
      <4> QED
        BY <3>2, <4>1, <4>2 DEF Idle
    <3> QED
      BY <3>3, <3>4
  <2> QED
    BY <2>3, <2>4 DEF Known
<1>10. ASSUME NEW w \in Workers, Crash(w)
       PROVE  Known'
  <2> DEFINE P == IF op[w].pc = "fill" THEN {op[w].path} ELSE {}
  <2>1. op'[w] = Idle /\ \A v \in Workers \ {w} : op'[v] = op[v]
    BY <1>0, <1>10, IdleOK, SetOp DEF Crash
  <2>2. UNCHANGED <<nar, legacy, signedOnce>> /\ Changes(w, P) /\ P \in SUBSET Paths
    BY <1>0, <1>10, Writes DEF Crash
  <2>3. \A q \in Paths \ P : narinfo'[q] = narinfo[q]
    BY <1>0, <1>10, PartLeaves DEF Crash
  <2>4. Knows(op[w], Paths \ stale[w])'
    BY <2>1 DEF Idle
  <2>5. \A v \in Workers \ {w} : stale'[v] = stale[v] \cup P \/ op'[v] = Idle
    BY <1>0, <2>2, ChangesStale
  <2>6. \A k \in nar : k[1] \notin P => k \in nar'
    BY <2>2
  <2>7. \A q \in Paths \ P : narinfo'[q] = narinfo[q] /\ (q \in signedOnce' => q \in signedOnce)
    BY <2>2, <2>3
  <2> HIDE DEF P, Knows
  <2> QED
    BY <1>k, <2>1, <2>2, <2>4, <2>5, <2>6, <2>7
<1>11. CASE UNCHANGED vars
  BY <1>0, <1>11 DEF Known, vars, Advertised, Parses, Url
<1>12. ASSUME NEW w \in Workers, GcNarinfoFails(w)
       PROVE  Known'
  <2>1. op[w].pc = "unlink" /\ op[w].cmd = "gc" /\ op[w].todo \subseteq GcKeys
    BY <1>0, <1>12, UnlinkFailsSets
  <2>2. PICK o \in OpType :
           /\ Set(w, o) /\ OpOK(o) /\ o.pc \in {"idle", "loop"}
           /\ o.cmd \in {"gc", "none"} /\ o.path = None /\ o.todo = op[w].todo
    BY <1>0, <1>12, UnlinkFailsSets
  <2>3. op'[w] = o /\ \A v \in Workers \ {w} : op'[v] = op[v]
    BY <1>0, <2>2, SetOp
  <2>4. UNCHANGED <<narinfo, nar, signedOnce>> /\ Changes(w, {})
    BY <1>12 DEF GcNarinfoFails
  <2>5. stale'[w] = stale[w] \/ op'[w] = Idle
    BY <1>0, <2>4, ChangesStale
  <2>6. \A v \in Workers \ {w} : stale'[v] = stale[v] \cup {} \/ op'[v] = Idle
    BY <1>0, <2>4, ChangesStale
  <2>7. Knows(op[w], Paths \ stale[w])
    BY <1>0 DEF Known
  <2>8. Knows(op[w], Paths \ stale[w])'
    <3>1. CASE op'[w] = Idle
      BY <3>1 DEF Idle
    <3>2. CASE stale'[w] = stale[w]
      BY <2>1, <2>2, <2>3, <2>4, <2>7, <3>2 DEF Advertised, Parses, Url
    <3> QED
      BY <2>5, <3>1, <3>2
  <2> HIDE DEF Knows
  <2> QED
    BY <1>k, <2>3, <2>4, <2>6, <2>8
<1> QED
  BY <1>1, <1>2, <1>3, <1>4, <1>5, <1>6, <1>7, <1>8, <1>9, <1>10, <1>11, <1>12
  DEF Next, ImportStep, WriteStep, SignStep, GcStep

LEMMA SignedFilesStep == CInv /\ [Next]_vars => SignedFiles'
<1> SUFFICES ASSUME CInv, [Next]_vars PROVE SignedFiles'
  OBVIOUS
<1>0. Typed /\ Known /\ SignedFiles
  BY DEF CInv
<1>p. ASSUME NEW w \in Workers, op[w].pc = "fill", LeavesPart(w), UNCHANGED signedOnce
      PROVE  SignedFiles'
  <2>1. op[w].path \in Paths /\ op[w].content \in Contents
    BY <1>0, <1>p, Writes
  <2>2. CASE op[w].detached
    <3>1. UNCHANGED <<narinfo, cut>>
      BY <1>0, <1>p, <2>2, PartLeaves
    <3> QED
      BY <1>0, <1>p, <3>1 DEF SignedFiles, Has, Complete
  <2>3. CASE ~op[w].detached
    <3>1. /\ op[w].path \in cut'
          /\ narinfo[op[w].path] # Absent => narinfo'[op[w].path] # Absent
          /\ \A q \in Paths \ {op[w].path} :
               narinfo'[q] = narinfo[q] /\ (q \in cut' <=> q \in cut)
      BY <1>0, <1>p, <2>1, <2>3, PartLeaves, CutOffParts
    <3> QED
      BY <1>0, <1>p, <3>1 DEF SignedFiles, Has, Complete, Typed
  <2> QED
    BY <2>2, <2>3
<1>1. ASSUME NEW w \in Workers, Truncate(w)
      PROVE  SignedFiles'
  <2>1. op[w].path \in Paths
    BY <1>0, <1>1, Writes DEF Truncate
  <2>2. Truncated # Absent /\ Truncated.state # "complete"
    BY DEF Truncated, Absent
  <2>3. /\ signedOnce' = signedOnce /\ narinfo'[op[w].path] = Truncated
        /\ \A q \in Paths \ {op[w].path} :
             narinfo'[q] = narinfo[q] /\ (q \in cut' <=> q \in cut)
    BY <1>0, <1>1, <2>1 DEF Truncate, Typed
  <2> QED
    BY <1>0, <2>2, <2>3 DEF SignedFiles, Has, Complete, Typed
<1>2. ASSUME NEW w \in Workers, Fill(w)
      PROVE  SignedFiles'
  <2> DEFINE p == op[w].path
  <2>1. CASE op[w].detached
    <3>1. UNCHANGED <<narinfo, signedOnce, cut>>
      BY <1>0, <1>2, <2>1, FillLeaves
    <3> QED
      BY <1>0, <3>1 DEF SignedFiles, Has, Complete
  <2>2. CASE ~op[w].detached
    <3>1. /\ narinfo'[p] \in Filled(w)
          /\ p \in signedOnce' =>
               op[w].content.signed \/ (p \notin stale[w] /\ p \in signedOnce)
          /\ \A q \in Paths \ {p} :
               narinfo'[q] = narinfo[q] /\ (q \in signedOnce' <=> q \in signedOnce)
                 /\ (q \in cut' <=> q \in cut)
          /\ signedOnce' \subseteq Paths
      BY <1>0, <1>2, <2>2, FillLeaves
    <3>2. p \in signedOnce' => op[w].content.signed
      <4>1. op[w].pc = "fill" /\ p \in Paths
        BY <1>0, <1>2, Writes DEF Fill
      <4> QED
        BY <1>0, <3>1, <4>1 DEF Known, Knows, KnowsSigned
    <3>3. narinfo'[p] \in Contents /\ (op[w].content.signed => narinfo'[p].signed)
      BY <1>0, <1>2, <3>1, FilledContents DEF Fill
    <3>4. narinfo'[p] # Absent
      BY <3>3, NoContent
    <3> QED
      BY <1>0, <3>1, <3>2, <3>3, <3>4 DEF SignedFiles, Has, Complete
  <2> QED
    BY <2>1, <2>2
<1>3. ASSUME NEW w \in Workers, FillFails(w)
      PROVE  SignedFiles'
  BY <1>3, <1>p DEF FillFails
<1>4. ASSUME NEW w \in Workers, GcNarinfo(w)
      PROVE  SignedFiles'
  <2>1. op[w].path \in Paths
    BY <1>0, <1>4 DEF GcNarinfo, Typed, OpOK
  <2>2. /\ signedOnce' = signedOnce \ {op[w].path}
        /\ \A q \in Paths \ {op[w].path} :
             narinfo'[q] = narinfo[q] /\ (q \in cut' <=> q \in cut)
    BY <1>0, <1>4, <2>1 DEF GcNarinfo, Typed
  <2> QED
    BY <1>0, <2>2 DEF SignedFiles, Has, Complete, Typed
<1>5. ASSUME NEW w \in Workers, Crash(w)
      PROVE  SignedFiles'
  <2>1. CASE op[w].pc = "fill"
    BY <1>5, <1>p, <2>1 DEF Crash
  <2>2. CASE op[w].pc # "fill"
    BY <1>0, <1>5, <2>2 DEF Crash, SignedFiles, Has, Complete
  <2> QED
    BY <2>1, <2>2
<1>6. ASSUME UNCHANGED <<narinfo, signedOnce, cut>>
      PROVE  SignedFiles'
  BY <1>0, <1>6 DEF SignedFiles, Has, Complete
<1>7. ASSUME NEW w \in Workers, ImportStep(w) \/ SignStep(w)
      PROVE  SignedFiles'
  BY <1>6, <1>7 DEF ImportStep, Import, PutNar, SignStep, SignStart, SignEntry
<1>8. ASSUME NEW w \in Workers,
             \/ GcCollect(w) \/ GcNarinfoFails(w)
             \/ \E k \in GcKeys : GcNar(w, k) \/ GcNarFails(w, k)
      PROVE  SignedFiles'
  BY <1>6, <1>8 DEF GcCollect, GcNarinfoFails, GcNar, GcNarFails
<1>9. CASE UNCHANGED vars
  BY <1>6, <1>9 DEF vars
<1> QED
  BY <1>1, <1>2, <1>3, <1>4, <1>5, <1>7, <1>8, <1>9 DEF Next, WriteStep, GcStep

LEMMA OpenFilesStep == CInv /\ [Next]_vars => OpenFiles'
<1> SUFFICES ASSUME CInv, [Next]_vars PROVE OpenFiles'
  OBVIOUS
<1>0. Typed /\ OpenFiles
  BY DEF CInv
<1>k. ASSUME NEW P \in SUBSET Paths,
             \A q \in Paths \ P : narinfo'[q] = narinfo[q] /\ (q \in cut' <=> q \in cut),
             \A q \in Paths \ P : Open(q) => Open(q)',
             \A q \in P : Has(q)' => Complete(q)' \/ q \in cut' \/ Open(q)'
      PROVE  OpenFiles'
  BY <1>0, <1>k DEF OpenFiles, Has, Complete
<1>o. ASSUME NEW w \in Workers, \A v \in Workers \ {w} : op'[v] = op[v],
             NEW q, op[w].pc # "fill" \/ op[w].path # q \/ op[w].detached, Open(q)
      PROVE  Open(q)'
  BY <1>o DEF Open
<1>p. ASSUME NEW w \in Workers, op[w].pc = "fill", LeavesPart(w),
             \A v \in Workers \ {w} : op'[v] = op[v]
      PROVE  OpenFiles'
  <2> DEFINE P == IF op[w].detached THEN {} ELSE {op[w].path}
  <2>1. P \in SUBSET Paths
    BY <1>0, <1>p, Writes
  <2>2. \A q \in Paths \ P : narinfo'[q] = narinfo[q] /\ (q \in cut' <=> q \in cut)
    BY <1>0, <1>p, PartLeaves
  <2>3. \A q \in P : q \in cut'
    BY <1>0, <1>p, PartLeaves
  <2>4. \A q \in Paths \ P : Open(q) => Open(q)'
    BY <1>o, <1>p
  <2> HIDE DEF P
  <2> QED
    BY <1>k, <2>1, <2>2, <2>3, <2>4
<1>1. ASSUME NEW w \in Workers, Truncate(w)
      PROVE  OpenFiles'
  <2> DEFINE P == {op[w].path}
  <2>1. PICK o \in OpType :
           /\ Set(w, o) /\ OpOK(o) /\ o.cmd # "gc" /\ o.pc = "fill"
           /\ o.path = op[w].path /\ o.content = op[w].content /\ ~o.detached
    BY <1>0, <1>1, TruncateSets
  <2>2. op'[w] = o /\ \A v \in Workers \ {w} : op'[v] = op[v]
    BY <1>0, <2>1, SetOp
  <2>3. P \in SUBSET Paths /\ op[w].pc = "truncate"
    BY <1>0, <1>1, Writes DEF Truncate
  <2>4. \A q \in Paths \ P : narinfo'[q] = narinfo[q] /\ (q \in cut' <=> q \in cut)
    BY <1>0, <1>1, <2>3 DEF Truncate, Typed
  <2>5. \A q \in P : Open(q)'
    BY <2>1, <2>2 DEF Open
  <2>6. \A q \in Paths \ P : Open(q) => Open(q)'
    BY <1>o, <2>2, <2>3
  <2> HIDE DEF P
  <2> QED
    BY <1>k, <2>3, <2>4, <2>5, <2>6
<1>2. ASSUME NEW w \in Workers, Fill(w)
      PROVE  OpenFiles'
  <2> DEFINE P == IF op[w].detached THEN {} ELSE {op[w].path}
  <2>1. op[w].path \in Paths /\ op[w].pc = "fill" /\ op[w].content \in Contents
    BY <1>0, <1>2, Writes DEF Fill
  <2>2. \A v \in Workers \ {w} : op'[v] = op[v]
    <3>1. PICK o \in OpType : Set(w, o) /\ OpOK(o)
      BY <1>0, <1>2, FillSets
    <3> QED
      BY <1>0, <3>1, SetOp
  <2>3. P \in SUBSET Paths
    BY <2>1
  <2>4. \A q \in Paths \ P : narinfo'[q] = narinfo[q] /\ (q \in cut' <=> q \in cut)
    BY <1>0, <1>2, FillLeaves
  <2>5. \A q \in P : Complete(q)' \/ q \in cut'
    <3>1. op[w].content.state \in {"complete", "part"}
      BY <2>1, NoContent
    <3> QED
      BY <1>0, <1>2, <2>1, <3>1, FillLeaves, FilledContents DEF Complete
  <2>6. \A q \in Paths \ P : Open(q) => Open(q)'
    BY <1>o, <2>2
  <2> HIDE DEF P
  <2> QED
    BY <1>k, <2>3, <2>4, <2>5, <2>6
<1>3. ASSUME NEW w \in Workers, FillFails(w)
      PROVE  OpenFiles'
  <2>1. \A v \in Workers \ {w} : op'[v] = op[v]
    <3>1. PICK o \in OpType : Set(w, o) /\ OpOK(o)
      BY <1>0, <1>3, FillFailsSets
    <3> QED
      BY <1>0, <3>1, SetOp
  <2> QED
    BY <1>3, <1>p, <2>1 DEF FillFails
<1>4. ASSUME NEW w \in Workers, GcNarinfo(w)
      PROVE  OpenFiles'
  <2> DEFINE P == {op[w].path}
  <2>1. P \in SUBSET Paths /\ op[w].pc = "unlink"
    BY <1>0, <1>4 DEF GcNarinfo, Typed, OpOK
  <2>2. /\ \A q \in P : ~Has(q)'
        /\ \A q \in Paths \ P : narinfo'[q] = narinfo[q] /\ (q \in cut' <=> q \in cut)
    BY <1>0, <1>4, <2>1 DEF GcNarinfo, Typed, Has
  <2>3. \A v \in Workers \ {w} : op[v].path # op[w].path => op'[v] = op[v]
    BY <1>0, <1>4, GcNarinfoSets
  <2>4. \A q \in Paths \ P : Open(q) => Open(q)'
    BY <2>1, <2>3 DEF Open
  <2> HIDE DEF P
  <2> QED
    BY <1>k, <2>1, <2>2, <2>4
<1>q. ASSUME NEW w \in Workers, \A v \in Workers \ {w} : op'[v] = op[v],
             op[w].pc # "fill", UNCHANGED <<narinfo, cut>>
      PROVE  OpenFiles'
  <2>1. \A q \in Paths : Open(q) => Open(q)'
    BY <1>o, <1>q
  <2> QED
    BY <1>0, <1>q, <2>1 DEF OpenFiles, Has, Complete
<1>5. ASSUME NEW w \in Workers, Crash(w)
      PROVE  OpenFiles'
  <2>1. op'[w] = Idle /\ \A v \in Workers \ {w} : op'[v] = op[v]
    BY <1>0, <1>5, IdleOK, SetOp DEF Crash
  <2>2. CASE op[w].pc = "fill"
    BY <1>5, <1>p, <2>1, <2>2 DEF Crash
  <2>3. CASE op[w].pc # "fill"
    BY <1>5, <1>q, <2>1, <2>3 DEF Crash
  <2> QED
    BY <2>2, <2>3
<1>6. ASSUME NEW w \in Workers, NEW o \in OpType, Set(w, o), OpOK(o), op[w].pc # "fill",
             UNCHANGED <<narinfo, cut>>
      PROVE  OpenFiles'
  BY <1>0, <1>6, <1>q, SetOp
<1>i. Idle.pc # "fill"
  BY DEF Idle
<1>7. ASSUME NEW w \in Workers, ImportStep(w)
      PROVE  OpenFiles'
  <2>1. op[w].pc # "fill" /\ UNCHANGED <<narinfo, cut>>
    BY <1>7, <1>i DEF ImportStep, Import, PutNar, MayStart
  <2> QED
    BY <1>0, <1>6, <1>7, <2>1, ImportSets, PutSets DEF ImportStep
<1>8. ASSUME NEW w \in Workers, SignStep(w) \/ GcCollect(w)
      PROVE  OpenFiles'
  <2>1. op[w].pc # "fill" /\ UNCHANGED <<narinfo, cut>>
    BY <1>8, <1>i DEF SignStep, SignStart, SignEntry, GcCollect, MayStart
  <2> QED
    BY <1>0, <1>6, <1>8, <2>1, StartSets, SignEntrySets DEF SignStep
<1>9. ASSUME NEW w \in Workers, NEW k \in GcKeys, GcNar(w, k) \/ GcNarFails(w, k)
      PROVE  OpenFiles'
  <2>1. op[w].pc # "fill" /\ UNCHANGED <<narinfo, cut>>
    BY <1>9 DEF GcNar, GcNarFails
  <2> QED
    BY <1>0, <1>6, <1>9, <2>1, GcSets
<1>11. ASSUME NEW w \in Workers, GcNarinfoFails(w)
       PROVE  OpenFiles'
  <2>1. op[w].pc # "fill" /\ UNCHANGED <<narinfo, cut>>
    BY <1>11 DEF GcNarinfoFails
  <2> QED
    BY <1>0, <1>6, <1>11, <2>1, UnlinkFailsSets
<1>10. CASE UNCHANGED vars
  BY <1>0, <1>10 DEF OpenFiles, Open, Has, Complete, vars
<1> QED
  BY <1>1, <1>2, <1>3, <1>4, <1>5, <1>7, <1>8, <1>9, <1>10, <1>11 DEF Next, WriteStep, GcStep

LEMMA CInvStep == CInv /\ [Next]_vars => CInv'
BY TypedStep, KnownStep, SignedFilesStep, OpenFilesStep DEF CInv

LEMMA CInvAlways == Spec => []CInv
BY CInvInit, CInvStep, PTL DEF Spec

(* A signed path is not offered unsigned again, however imports, sign      *)
(* passes and crashes interleave, on any number of paths.                  *)
THEOREM SignaturesStay == Spec => []SignatureKept
<1>1. CInv => SignatureKept
  BY DEF CInv, SignedFiles, SignatureKept
<1> QED
  BY <1>1, CInvAlways, PTL

(* While no command runs, a narinfo file is a complete narinfo unless its  *)
(* last write was cut off.                                                 *)
THEOREM HasIsCached == Spec => []HasMeansCached
<1>1. CInv => HasMeansCached
  BY DEF CInv, OpenFiles, Open, HasMeansCached, Idle
<1> QED
  BY <1>1, CInvAlways, PTL

-----------------------------------------------------------------------------
(* Paths that are offered without their NAR. *)

Offered(k) == Advertised(k) \/ Filling(k)

(* A worker that neither opens, fills nor unlinks a narinfo. *)
LEMMA ElsewhereOffers ==
  ASSUME NEW w \in Workers, \A v \in Workers \ {w} : op'[v] = op[v],
         op'[w].pc \notin {"fill", "unlink"}, UNCHANGED narinfo,
         NEW k
  PROVE  Offered(k)' => Offered(k)
BY DEF Offered, Advertised, Parses, Url, Filling

LEMMA ElsewhereUnlinks ==
  ASSUME NEW w \in Workers, \A v \in Workers \ {w} : op'[v] = op[v], NEW p,
         op[w].pc # "unlink" \/ op[w].path # p
  PROVE  Unlinking(p) => Unlinking(p)'
BY DEF Unlinking

(* A write that ends, whole or not, offers what it was filling in. *)
LEMMA FillOffers ==
  ASSUME CInv, NEW w \in Workers, op[w].pc = "fill",
         Fill(w) \/ LeavesPart(w), \A v \in Workers \ {w} : op'[v] = op[v],
         op'[w].pc # "fill",
         NEW p \in Paths, NEW e \in Exts, Offered(<<p, e>>)'
  PROVE  Offered(<<p, e>>)
<1> DEFINE k == <<p, e>>
<1>0. Typed
  BY DEF CInv
<1>1. op[w].path \in Paths /\ op[w].content \in Contents
  BY <1>0, Writes
<1>2. CASE Filling(k)'
  BY <1>2 DEF Filling, Offered
<1>3. CASE Advertised(k)' /\ (p # op[w].path \/ op[w].detached)
  <2>1. narinfo'[p] = narinfo[p]
    BY <1>0, <1>3, FillLeaves, PartLeaves
  <2> QED
    BY <1>3, <2>1 DEF Advertised, Parses, Url, Offered
<1>4. CASE Advertised(k)' /\ p = op[w].path /\ ~op[w].detached
  <2>1. narinfo'[p] \in Contents /\ narinfo'[p].ext = e
    BY <1>4 DEF Advertised, Parses, Url
  <2>2. e # None
    BY CacheAssumption
  <2>3. CASE narinfo'[p].ext = op[w].content.ext
    <3>1. Filling(k)
      BY <1>4, <2>1, <2>3 DEF Filling
    <3> QED
      BY <3>1 DEF Offered
  <2>4. CASE narinfo'[p].ext # op[w].content.ext
    <3>1. ~Fill(w)
      BY <1>0, <1>4, <2>4, FillLeaves, FilledContents
    <3>2. narinfo'[p] = narinfo[p] \/ narinfo'[p] \in CutOff(op[w].content)
      BY <1>0, <1>4, <3>1, PartLeaves
    <3>3. narinfo'[p] = narinfo[p]
      BY <1>1, <2>1, <2>2, <2>4, <3>2, CutOffParts
    <3> QED
      BY <1>4, <3>3 DEF Advertised, Parses, Url, Offered
  <2> QED
    BY <2>3, <2>4
<1> QED
  BY <1>2, <1>3, <1>4 DEF Offered

LEMMA BrokenStep ==
  ASSUME CInv, [Next]_vars, NEW p \in Paths, ~Broken(p), Broken(p)'
  PROVE  \E w \in Workers : \/ /\ op[w].pc = "unlink" /\ op[w].path = p
                               /\ Crash(w) \/ GcNarinfoFails(w)
                            \/ RaceStep(w, p)
<1> DEFINE Excuse == \E w \in Workers : \/ /\ op[w].pc = "unlink" /\ op[w].path = p
                                           /\ Crash(w) \/ GcNarinfoFails(w)
                                        \/ RaceStep(w, p)
<1>0. Typed /\ Known
  BY DEF CInv
<1>a. PICK e \in Exts : /\ Offered(<<p, e>>)' /\ ~Unlinking(p)'
                        /\ <<p, e>> \notin nar' \cup legacy'
  BY DEF Broken, Offered
<1> DEFINE k == <<p, e>>
<1>b. Offered(k) => Unlinking(p) \/ k \in nar \cup legacy
  BY DEF Broken, Offered
<1>k. ASSUME Offered(k), Unlinking(p) => Unlinking(p)',
             k \in nar \cup legacy => k \in nar' \cup legacy'
      PROVE  Excuse
  BY <1>a, <1>b, <1>k
<1> HIDE DEF Excuse
<1>q. ASSUME NEW w \in Workers, NEW o \in OpType, Set(w, o), OpOK(o),
             op[w].pc # "unlink", o.pc \notin {"fill", "unlink"},
             UNCHANGED narinfo, nar \subseteq nar', legacy \subseteq legacy'
      PROVE  Excuse
  <2>1. op'[w] = o /\ \A v \in Workers \ {w} : op'[v] = op[v]
    BY <1>0, <1>q, SetOp
  <2>2. Offered(k)
    BY <1>a, <1>q, <2>1, ElsewhereOffers
  <2>3. Unlinking(p) => Unlinking(p)'
    BY <1>q, <2>1, ElsewhereUnlinks
  <2> QED
    BY <1>k, <1>q, <2>2, <2>3
<1>i. Idle.pc = "idle"
  BY DEF Idle
<1>1. ASSUME NEW w \in Workers, ImportStep(w)
      PROVE  Excuse
  <2>1. op[w].pc # "unlink" /\ UNCHANGED narinfo /\ nar \subseteq nar' /\ legacy \subseteq legacy'
    BY <1>1, <1>i DEF ImportStep, Import, PutNar, MayStart
  <2>2. \E o \in OpType : Set(w, o) /\ OpOK(o) /\ o.pc \notin {"fill", "unlink"}
    <3>1. CASE PutNar(w)
      BY <1>0, <3>1, PutSets
    <3>2. ASSUME NEW q \in Paths, NEW x \in Exts, NEW s \in BOOLEAN, Import(w, q, x, s)
          PROVE  \E o \in OpType : Set(w, o) /\ OpOK(o) /\ o.pc \notin {"fill", "unlink"}
      BY <1>0, <3>2, ImportSets
    <3> QED
      BY <1>1, <3>1, <3>2 DEF ImportStep
  <2> QED
    BY <1>q, <2>1, <2>2
<1>2. ASSUME NEW w \in Workers, SignStep(w) \/ GcCollect(w)
      PROVE  Excuse
  <2>1. op[w].pc # "unlink" /\ UNCHANGED narinfo /\ nar \subseteq nar' /\ legacy \subseteq legacy'
    BY <1>2, <1>i DEF SignStep, SignStart, SignEntry, GcCollect, MayStart
  <2>2. \E o \in OpType : Set(w, o) /\ OpOK(o) /\ o.pc \notin {"fill", "unlink"}
    <3>1. CASE SignStart(w) \/ GcCollect(w)
      BY <1>0, <3>1, StartSets
    <3>2. ASSUME NEW q \in Paths, SignEntry(w, q)
          PROVE  \E o \in OpType : Set(w, o) /\ OpOK(o) /\ o.pc \notin {"fill", "unlink"}
      BY <1>0, <3>2, SignEntrySets
    <3> QED
      BY <1>2, <3>1, <3>2 DEF SignStep
  <2> QED
    BY <1>q, <2>1, <2>2
<1>3. ASSUME NEW w \in Workers, Truncate(w)
      PROVE  Excuse
  <2>1. PICK o \in OpType :
           /\ Set(w, o) /\ OpOK(o) /\ o.cmd # "gc" /\ o.pc = "fill"
           /\ o.path = op[w].path /\ o.content = op[w].content /\ ~o.detached
    BY <1>0, <1>3, TruncateSets
  <2>2. op'[w] = o /\ \A v \in Workers \ {w} : op'[v] = op[v]
    BY <1>0, <2>1, SetOp
  <2>3. op[w].path \in Paths /\ op[w].pc = "truncate"
    BY <1>0, <1>3, Writes DEF Truncate
  <2>4. /\ nar' = nar /\ legacy' = legacy /\ narinfo'[op[w].path] = Truncated
        /\ \A q \in Paths \ {op[w].path} : narinfo'[q] = narinfo[q]
    BY <1>0, <1>3, <2>3 DEF Truncate, Typed
  <2>5. Unlinking(p) => Unlinking(p)'
    BY <2>2, <2>3, ElsewhereUnlinks
  <2>6. CASE p # op[w].path
    <3>1. Offered(k)
      BY <1>a, <2>1, <2>2, <2>4, <2>6 DEF Offered, Advertised, Parses, Url, Filling
    <3> QED
      BY <1>k, <2>4, <2>5, <3>1
  <2>7. CASE p = op[w].path /\ (p \in stale[w] \/ \E v \in Workers \ {w} : op[v].path = p)
    BY <1>3, <2>7 DEF Excuse, RaceStep
  <2>8. CASE p = op[w].path /\ p \notin stale[w] /\ \A v \in Workers \ {w} : op[v].path # p
    <3>1. ~Unlinking(p)
      BY <2>3, <2>8 DEF Unlinking
    <3>2. ~Advertised(k)'
      BY <2>4, <2>8, NoContent DEF Advertised, Parses
    <3>3. e = op[w].content.ext
      BY <1>a, <2>1, <2>2, <2>8, <3>2 DEF Offered, Filling
    <3>4. Knows(op[w], Paths \ stale[w])
      BY <1>0 DEF Known
    <3>5. k \in nar \/ Advertised(k)
      BY <2>3, <2>8, <3>3, <3>4 DEF Knows, KnowsFile, KnowsNar, Advertised, Url
    <3> QED
      BY <1>a, <1>b, <2>4, <3>1, <3>5 DEF Offered
  <2> QED
    BY <2>6, <2>7, <2>8
<1>4. ASSUME NEW w \in Workers, Fill(w) \/ FillFails(w)
      PROVE  Excuse
  <2>1. PICK o \in OpType : Set(w, o) /\ OpOK(o) /\ o.pc \in {"truncate", "idle", "loop"}
    BY <1>0, <1>4, FillSets, FillFailsSets
  <2>2. op'[w] = o /\ \A v \in Workers \ {w} : op'[v] = op[v]
    BY <1>0, <2>1, SetOp
  <2>3. op[w].pc = "fill" /\ nar' = nar /\ legacy' = legacy /\ (Fill(w) \/ LeavesPart(w))
    BY <1>4 DEF Fill, FillFails
  <2>4. Offered(k)
    BY <1>a, <2>1, <2>2, <2>3, FillOffers
  <2>5. Unlinking(p) => Unlinking(p)'
    BY <2>2, <2>3, ElsewhereUnlinks
  <2> QED
    BY <1>k, <2>3, <2>4, <2>5
<1>5. ASSUME NEW w \in Workers, NEW l \in GcKeys, GcNar(w, l) \/ GcNarFails(w, l)
      PROVE  Excuse
  <2>1. PICK o \in OpType : Set(w, o) /\ OpOK(o) /\ o.pc = "unlink" /\ o.path = l[1]
    BY <1>0, <1>5, GcSets
  <2>2. op'[w] = o /\ \A v \in Workers \ {w} : op'[v] = op[v]
    BY <1>0, <2>1, SetOp
  <2>3. /\ op[w].pc = "loop" /\ UNCHANGED narinfo
        /\ nar \ {l} \subseteq nar' /\ legacy \ {l} \subseteq legacy'
    BY <1>5 DEF GcNar, GcNarFails
  <2>4. p # l[1]
    BY <1>a, <2>1, <2>2 DEF Unlinking
  <2>5. Offered(k)
    BY <1>a, <2>1, <2>2, <2>3 DEF Offered, Advertised, Parses, Url, Filling
  <2>6. Unlinking(p) => Unlinking(p)'
    BY <2>2, <2>3, ElsewhereUnlinks
  <2>7. k \in nar \cup legacy => k \in nar' \cup legacy'
    BY <2>3, <2>4
  <2> QED
    BY <1>k, <2>5, <2>6, <2>7
<1>6. ASSUME NEW w \in Workers, GcNarinfo(w)
      PROVE  Excuse
  <2> DEFINE q == op[w].path
  <2>1. q \in Paths /\ op[w].pc = "unlink"
    BY <1>0, <1>6 DEF GcNarinfo, Typed, OpOK
  <2>2. /\ nar' = nar /\ legacy' = legacy /\ narinfo'[q] = Absent
        /\ \A r \in Paths \ {q} : narinfo'[r] = narinfo[r]
    BY <1>0, <1>6, <2>1 DEF GcNarinfo, Typed
  <2>3. /\ op'[w].pc \in {"idle", "loop"}
        /\ \A v \in Workers \ {w} :
             /\ op'[v].pc = op[v].pc /\ op'[v].path = op[v].path
             /\ op'[v].content = op[v].content
             /\ IF op[v].pc = "fill" /\ op[v].path = q THEN op'[v].detached ELSE op'[v] = op[v]
    BY <1>0, <1>6, GcNarinfoSets
  <2>4. p # q
    <3> SUFFICES ASSUME p = q PROVE FALSE
      OBVIOUS
    <3>1. ~Advertised(k)'
      BY <2>2, NoContent DEF Advertised, Parses
    <3>2. ~Filling(k)'
      BY <2>3 DEF Filling
    <3> QED
      BY <1>a, <3>1, <3>2 DEF Offered
  <2>5. Offered(k)
    BY <1>a, <2>2, <2>3, <2>4 DEF Offered, Advertised, Parses, Url, Filling
  <2>6. Unlinking(p) => Unlinking(p)'
    BY <2>3, <2>4 DEF Unlinking
  <2> QED
    BY <1>k, <2>2, <2>5, <2>6
<1>7. ASSUME NEW w \in Workers, Crash(w)
      PROVE  Excuse
  <2>1. op'[w] = Idle /\ \A v \in Workers \ {w} : op'[v] = op[v]
    BY <1>0, <1>7, IdleOK, SetOp DEF Crash
  <2>2. nar' = nar /\ legacy' = legacy
    BY <1>7 DEF Crash
  <2>3. CASE op[w].pc = "unlink" /\ op[w].path = p
    BY <1>7, <2>3 DEF Excuse
  <2>4. CASE op[w].pc # "unlink" \/ op[w].path # p
    <3>1. Unlinking(p) => Unlinking(p)'
      BY <2>1, <2>4, ElsewhereUnlinks
    <3>2. Offered(k)
      <4>1. CASE op[w].pc = "fill"
        BY <1>7, <1>a, <1>i, <2>1, <4>1, FillOffers DEF Crash
      <4>2. CASE op[w].pc # "fill"
        BY <1>7, <1>a, <1>i, <2>1, <4>2, ElsewhereOffers DEF Crash
      <4> QED
        BY <4>1, <4>2
    <3> QED
      BY <1>k, <2>2, <3>1, <3>2
  <2> QED
    BY <2>3, <2>4
<1>8. ASSUME UNCHANGED vars
      PROVE  Excuse
  <2>0. narinfo' = narinfo /\ nar' = nar /\ legacy' = legacy /\ op' = op
    BY <1>8 DEF vars
  <2>1. Offered(k)
    BY <2>0, <1>a DEF Offered, Advertised, Parses, Url, Filling
  <2>2. Unlinking(p) => Unlinking(p)'
    BY <2>0 DEF Unlinking
  <2> QED
    BY <2>0, <1>k, <2>1, <2>2
<1>10. ASSUME NEW w \in Workers, GcNarinfoFails(w)
       PROVE  Excuse
  <2>1. PICK o \in OpType : Set(w, o) /\ OpOK(o) /\ o.pc \in {"idle", "loop"}
    BY <1>0, <1>10, UnlinkFailsSets
  <2>2. op'[w] = o /\ \A v \in Workers \ {w} : op'[v] = op[v]
    BY <1>0, <2>1, SetOp
  <2>3. op[w].pc = "unlink" /\ UNCHANGED <<narinfo, nar, legacy>>
    BY <1>10 DEF GcNarinfoFails
  <2>4. CASE op[w].path = p
    BY <1>10, <2>3, <2>4 DEF Excuse
  <2>5. CASE op[w].path # p
    <3>1. Unlinking(p) => Unlinking(p)'
      BY <2>2, <2>5, ElsewhereUnlinks
    <3>2. Offered(k)
      BY <1>a, <2>1, <2>2, <2>3, ElsewhereOffers
    <3> QED
      BY <1>k, <2>3, <3>1, <3>2
  <2> QED
    BY <2>4, <2>5
<1>9. Excuse
  BY <1>1, <1>2, <1>3, <1>4, <1>5, <1>6, <1>7, <1>8, <1>10 DEF Next, WriteStep, GcStep
<1> QED
  BY <1>9 DEF Excuse

(* A path is offered without its NAR only after a gc died between its two  *)
(* deletions, or could not make the second and went on, or after a worker  *)
(* acted on what another has changed or is changing.                       *)
THEOREM BrokenCauses == Spec => BrokenOnlyByFailureOrRace
<1> DEFINE A == \A p \in Paths : ~Broken(p) /\ Broken(p)' =>
                  \E w \in Workers : \/ /\ op[w].pc = "unlink" /\ op[w].path = p
                                        /\ Crash(w) \/ GcNarinfoFails(w)
                                     \/ RaceStep(w, p)
<1>1. CInv /\ [Next]_vars => A
  BY BrokenStep
<1>2. Spec => [][A]_vars
  BY <1>1, CInvAlways, PTL DEF Spec
<1> QED
  BY <1>2 DEF BrokenOnlyByFailureOrRace

-----------------------------------------------------------------------------
(* NARs that nothing leads to. *)

(* A worker that was not publishing k, or is not unlinking its path.       *)
LEMMA ElsewherePublishes ==
  ASSUME NEW w \in Workers, \A v \in Workers \ {w} : op'[v] = op[v], NEW k,
         op[w].pc \in {"truncate", "fill"} => op[w].path # k[1],
         Publishing(k)
  PROVE  Publishing(k)'
BY DEF Publishing, Filling

LEMMA ElsewhereUnlinking ==
  ASSUME NEW w \in Workers, \A v \in Workers \ {w} : op'[v] = op[v], NEW p,
         op'[w].pc # "unlink" \/ op'[w].path # p, Unlinking(p)'
  PROVE  Unlinking(p)
BY DEF Unlinking

(* A step after which nothing leads to k any more either failed, or was    *)
(* taken on what another worker has changed or is changing: otherwise the  *)
(* worker knows that the file it writes or removes names no other NAR.     *)
LEMMA StrandedStep ==
  ASSUME CInv, [Next]_vars, legacy = {}, NEW k \in NarKeys, ~Stranded(k), Stranded(k)'
  PROVE  \E w \in Workers : \/ Crash(w) \/ FillFails(w) \/ GcNarFails(w, k)
                            \/ RaceStep(w, k[1])
<1> DEFINE Excuse == \E w \in Workers : \/ Crash(w) \/ FillFails(w) \/ GcNarFails(w, k)
                                        \/ RaceStep(w, k[1])
           p == k[1]
           Led == Publishing(k) \/ (Advertised(k) /\ ~Unlinking(p))
<1>0. Typed /\ Known
  BY DEF CInv
<1>a. p \in Paths /\ k[2] \in Exts /\ k = <<p, k[2]>>
  BY DEF NarKeys
<1>b. k \in nar' \cup legacy' /\ ~Led'
  BY DEF Stranded
<1>c. k \in nar => Led
  BY DEF Stranded
<1>r. ASSUME NEW w \in Workers, p \in stale[w] \/ \E v \in Workers \ {w} : op[v].path = p,
             \/ op[w].path = p /\ (Truncate(w) \/ Fill(w) \/ GcNarinfo(w))
             \/ \E l \in GcKeys : l[1] = p /\ (GcNar(w, l) \/ GcNarFails(w, l))
      PROVE  Excuse
  BY <1>r DEF RaceStep
<1>k. ASSUME nar' \subseteq nar, legacy' \subseteq legacy, Led => Led'
      PROVE  Excuse
  BY <1>b, <1>c, <1>k
<1> HIDE DEF Excuse
<1>i. Idle.pc = "idle"
  BY DEF Idle
<1>q. ASSUME NEW w \in Workers, NEW o \in OpType, Set(w, o), OpOK(o),
             op[w].pc \notin {"truncate", "fill"}, o.pc # "unlink",
             UNCHANGED <<narinfo, nar, legacy>>
      PROVE  Excuse
  <2>1. op'[w] = o /\ \A v \in Workers \ {w} : op'[v] = op[v]
    BY <1>0, <1>q, SetOp
  <2>2. Publishing(k) => Publishing(k)'
    BY <1>q, <2>1, ElsewherePublishes
  <2>3. Unlinking(p)' => Unlinking(p)
    BY <1>q, <2>1, ElsewhereUnlinking
  <2>4. Advertised(k)' <=> Advertised(k)
    BY <1>q DEF Advertised, Parses, Url
  <2> QED
    BY <1>k, <1>q, <2>2, <2>3, <2>4
<1>1. ASSUME NEW w \in Workers, NEW q \in Paths, NEW e \in Exts, NEW s \in BOOLEAN,
             Import(w, q, e, s)
      PROVE  Excuse
  <2>1. op[w].pc \notin {"truncate", "fill"} /\ UNCHANGED <<narinfo, nar, legacy>>
    BY <1>1, <1>i DEF Import, MayStart
  <2>2. \E o \in OpType : Set(w, o) /\ OpOK(o) /\ o.pc # "unlink"
    BY <1>0, <1>1, ImportSets
  <2> QED
    BY <1>q, <2>1, <2>2
<1>2. ASSUME NEW w \in Workers, SignStep(w) \/ GcCollect(w)
      PROVE  Excuse
  <2>1. op[w].pc \notin {"truncate", "fill"} /\ UNCHANGED <<narinfo, nar, legacy>>
    BY <1>2, <1>i DEF SignStep, SignStart, SignEntry, GcCollect, MayStart
  <2>2. \E o \in OpType : Set(w, o) /\ OpOK(o) /\ o.pc # "unlink"
    <3>1. CASE SignStart(w) \/ GcCollect(w)
      BY <1>0, <3>1, StartSets
    <3>2. ASSUME NEW q \in Paths, SignEntry(w, q)
          PROVE  \E o \in OpType : Set(w, o) /\ OpOK(o) /\ o.pc # "unlink"
      BY <1>0, <3>2, SignEntrySets
    <3> QED
      BY <1>2, <3>1, <3>2 DEF SignStep
  <2> QED
    BY <1>q, <2>1, <2>2
<1>3. ASSUME NEW w \in Workers, PutNar(w)
      PROVE  Excuse
  <2>1. PICK o \in OpType :
           /\ Set(w, o) /\ OpOK(o) /\ o.pc = "truncate"
           /\ o.path = op[w].path /\ o.content = op[w].content
    BY <1>0, <1>3, PutSets
  <2>2. op'[w] = o /\ \A v \in Workers \ {w} : op'[v] = op[v]
    BY <1>0, <2>1, SetOp
  <2>3. /\ op[w].pc = "put" /\ narinfo' = narinfo /\ legacy' = legacy
        /\ nar' = nar \cup {<<op[w].path, op[w].content.ext>>}
    BY <1>3 DEF PutNar
  <2>4. k # <<op[w].path, op[w].content.ext>>
    BY <1>b, <2>1, <2>2 DEF Publishing
  <2>5. k \in nar
    BY <1>b, <2>3, <2>4
  <2>6. Publishing(k) => Publishing(k)'
    BY <2>2, <2>3, ElsewherePublishes
  <2>7. Unlinking(p)' => Unlinking(p)
    BY <2>1, <2>2, ElsewhereUnlinking
  <2>8. Advertised(k)' <=> Advertised(k)
    BY <2>3 DEF Advertised, Parses, Url
  <2> QED
    BY <1>b, <1>c, <2>5, <2>6, <2>7, <2>8
<1>4. ASSUME NEW w \in Workers, Truncate(w)
      PROVE  Excuse
  <2>1. PICK o \in OpType :
           /\ Set(w, o) /\ OpOK(o) /\ o.cmd # "gc" /\ o.pc = "fill"
           /\ o.path = op[w].path /\ o.content = op[w].content /\ ~o.detached
    BY <1>0, <1>4, TruncateSets
  <2>2. op'[w] = o /\ \A v \in Workers \ {w} : op'[v] = op[v]
    BY <1>0, <2>1, SetOp
  <2>3. op[w].path \in Paths /\ op[w].pc = "truncate"
    BY <1>0, <1>4, Writes DEF Truncate
  <2>4. /\ nar' = nar /\ legacy' = legacy
        /\ \A q \in Paths \ {op[w].path} : narinfo'[q] = narinfo[q]
    BY <1>0, <1>4, <2>3 DEF Truncate, Typed
  <2>5. Unlinking(p)' => Unlinking(p)
    BY <2>1, <2>2, ElsewhereUnlinking
  <2>6. Publishing(k) => Publishing(k)'
    BY <2>1, <2>2, <2>3 DEF Publishing, Filling
  <2>7. CASE p # op[w].path
    <3>1. Advertised(k)' <=> Advertised(k)
      BY <1>a, <2>4, <2>7 DEF Advertised, Parses, Url
    <3> QED
      BY <1>k, <2>4, <2>5, <2>6, <3>1
  <2>8. CASE p = op[w].path /\ (p \in stale[w] \/ \E v \in Workers \ {w} : op[v].path = p)
    BY <1>4, <1>r, <2>8
  <2>9. CASE p = op[w].path /\ p \notin stale[w]
    <3>1. Knows(op[w], Paths \ stale[w])
      BY <1>0 DEF Known
    <3>2. Advertised(k) => narinfo[p] # Absent /\ narinfo[p].ext = k[2]
      BY <1>a, NoContent DEF Advertised, Parses, Url
    <3>3. Advertised(k) => k = <<op[w].path, op[w].content.ext>>
      BY <1>a, <2>3, <2>9, <3>1, <3>2 DEF Knows, KnowsFile
    <3>4. Advertised(k) => Publishing(k)
      BY <2>3, <3>3 DEF Publishing
    <3> QED
      BY <1>k, <2>4, <2>6, <3>4
  <2> QED
    BY <2>7, <2>8, <2>9
<1>5. ASSUME NEW w \in Workers, Fill(w)
      PROVE  Excuse
  <2>1. PICK o \in OpType : Set(w, o) /\ OpOK(o) /\ o.pc \in {"truncate", "idle", "loop"}
    BY <1>0, <1>5, FillSets
  <2>2. op'[w] = o /\ \A v \in Workers \ {w} : op'[v] = op[v]
    BY <1>0, <2>1, SetOp
  <2>3. op[w].path \in Paths /\ op[w].pc = "fill" /\ nar' = nar /\ legacy' = legacy
    BY <1>0, <1>5, Writes DEF Fill
  <2>4. Unlinking(p)' => Unlinking(p)
    BY <2>1, <2>2, ElsewhereUnlinking
  <2>5. CASE p # op[w].path \/ op[w].detached
    <3>1. narinfo'[p] = narinfo[p]
      BY <1>0, <1>5, <1>a, <2>5, FillLeaves
    <3>2. Advertised(k)' <=> Advertised(k)
      BY <3>1 DEF Advertised, Parses, Url
    <3>3. Publishing(k) => Publishing(k)'
      BY <1>a, <2>2, <2>3, <2>5 DEF Publishing, Filling
    <3> QED
      BY <1>k, <2>3, <2>4, <3>2, <3>3
  <2>6. CASE p = op[w].path /\ (p \in stale[w] \/ \E v \in Workers \ {w} : op[v].path = p)
    BY <1>5, <1>r, <2>6
  <2>7. CASE /\ p = op[w].path /\ ~op[w].detached
             /\ p \notin stale[w] /\ \A v \in Workers \ {w} : op[v].path # p
    <3>1. Knows(op[w], Paths \ stale[w])
      BY <1>0 DEF Known
    <3>2. ~Advertised(k)
      BY <2>3, <2>7, <3>1, NoContent DEF Knows, KnowsOpen, Advertised, Parses
    <3>3. ASSUME Publishing(k) PROVE Led'
      <4>1. k = <<op[w].path, op[w].content.ext>>
        BY <1>a, <2>3, <2>7, <3>3 DEF Publishing, Filling
      <4>2. narinfo'[p] \in Contents /\ narinfo'[p].ext = op[w].content.ext
        BY <1>0, <1>5, <2>3, <2>7, FillLeaves, FilledContents
      <4>3. Advertised(k)'
        BY <1>a, <4>1, <4>2 DEF Advertised, Parses, Url
      <4>4. ~Unlinking(p)'
        BY <2>3, <2>4, <2>7 DEF Unlinking
      <4> QED
        BY <4>3, <4>4
    <3> QED
      BY <1>k, <2>3, <3>2, <3>3
  <2> QED
    BY <2>5, <2>6, <2>7
<1>6. ASSUME NEW w \in Workers, NEW l \in GcKeys, GcNar(w, l) \/ GcNarFails(w, l)
      PROVE  Excuse
  <2>1. PICK o \in OpType : Set(w, o) /\ OpOK(o) /\ o.pc = "unlink" /\ o.path = l[1]
    BY <1>0, <1>6, GcSets
  <2>2. op'[w] = o /\ \A v \in Workers \ {w} : op'[v] = op[v]
    BY <1>0, <2>1, SetOp
  <2>3. /\ op[w].pc = "loop" /\ op[w].cmd = "gc" /\ l \in op[w].todo
        /\ narinfo' = narinfo /\ nar' \subseteq nar /\ legacy' \subseteq legacy
        /\ GcNar(w, l) => l \notin nar'
    BY <1>6 DEF GcNar, GcNarFails
  <2>4. Publishing(k) => Publishing(k)'
    BY <2>2, <2>3, ElsewherePublishes
  <2>5. Advertised(k)' <=> Advertised(k)
    BY <2>3 DEF Advertised, Parses, Url
  <2>6. CASE p # l[1]
    <3>1. Unlinking(p)' => Unlinking(p)
      BY <2>1, <2>2, <2>6, ElsewhereUnlinking
    <3> QED
      BY <1>k, <2>3, <2>4, <2>5, <3>1
  <2>7. CASE p = l[1] /\ (p \in stale[w] \/ \E v \in Workers \ {w} : op[v].path = p)
    BY <1>6, <1>r, <2>7
  <2>8. CASE k = l
    <3>1. ~GcNar(w, l)
      BY <1>b, <2>3, <2>8
    <3> QED
      BY <1>6, <2>8, <3>1 DEF Excuse
  <2>9. CASE p = l[1] /\ p \notin stale[w] /\ k # l
    <3>1. Knows(op[w], Paths \ stale[w])
      BY <1>0 DEF Known
    <3>2. Advertised(l)
      BY <1>a, <2>3, <2>9, <3>1 DEF Knows, KnowsVictims
    <3>3. ~Advertised(k)
      BY <2>9, <3>2 DEF Advertised, Url
    <3> QED
      BY <1>k, <2>3, <2>4, <3>3
  <2> QED
    BY <2>6, <2>7, <2>8, <2>9
<1>7. ASSUME NEW w \in Workers, GcNarinfo(w)
      PROVE  Excuse
  <2>1. op[w].path \in Paths /\ op[w].pc = "unlink"
    BY <1>0, <1>7 DEF GcNarinfo, Typed, OpOK
  <2>2. /\ nar' = nar /\ legacy' = legacy
        /\ \A r \in Paths \ {op[w].path} : narinfo'[r] = narinfo[r]
    BY <1>0, <1>7, <2>1 DEF GcNarinfo, Typed
  <2>3. /\ op'[w].pc \in {"idle", "loop"}
        /\ \A v \in Workers \ {w} :
             /\ op'[v].pc = op[v].pc /\ op'[v].path = op[v].path
             /\ op'[v].content = op[v].content
             /\ IF op[v].pc = "fill" /\ op[v].path = op[w].path
                  THEN op'[v].detached ELSE op'[v] = op[v]
    BY <1>0, <1>7, GcNarinfoSets
  <2>4. CASE p # op[w].path
    <3>1. Publishing(k) => Publishing(k)'
      BY <1>a, <2>1, <2>3, <2>4 DEF Publishing, Filling
    <3>2. Unlinking(p)' => Unlinking(p)
      BY <2>3 DEF Unlinking
    <3>3. Advertised(k)' <=> Advertised(k)
      BY <1>a, <2>2, <2>4 DEF Advertised, Parses, Url
    <3> QED
      BY <1>k, <2>2, <3>1, <3>2, <3>3
  <2>5. CASE p = op[w].path /\ (p \in stale[w] \/ \E v \in Workers \ {w} : op[v].path = p)
    BY <1>7, <1>r, <2>5
  <2>6. CASE p = op[w].path /\ \A v \in Workers \ {w} : op[v].path # p
    <3>1. Unlinking(p)
      BY <2>1, <2>6 DEF Unlinking
    <3>2. ~Publishing(k)
      BY <1>a, <2>1, <2>6 DEF Publishing, Filling
    <3> QED
      BY <1>k, <2>2, <3>1, <3>2
  <2> QED
    BY <2>4, <2>5, <2>6
<1>8. ASSUME NEW w \in Workers, Crash(w) \/ FillFails(w)
      PROVE  Excuse
  BY <1>8 DEF Excuse
<1>9. ASSUME UNCHANGED vars
      PROVE  Excuse
  <2>0. narinfo' = narinfo /\ nar' = nar /\ legacy' = legacy /\ op' = op
    BY <1>9 DEF vars
  <2>1. Led => Led'
    BY <2>0 DEF Publishing, Filling, Advertised, Parses, Url, Unlinking
  <2> QED
    BY <1>k, <2>0, <2>1
<1>11. ASSUME NEW w \in Workers, GcNarinfoFails(w)
       PROVE  Excuse
  <2>1. op[w].pc \notin {"truncate", "fill"} /\ UNCHANGED <<narinfo, nar, legacy>>
    BY <1>11 DEF GcNarinfoFails
  <2>2. \E o \in OpType : Set(w, o) /\ OpOK(o) /\ o.pc # "unlink"
    BY <1>0, <1>11, UnlinkFailsSets
  <2> QED
    BY <1>q, <2>1, <2>2
<1>10. Excuse
  BY <1>1, <1>2, <1>3, <1>4, <1>5, <1>6, <1>7, <1>8, <1>9, <1>11
  DEF Next, ImportStep, WriteStep, GcStep
<1> QED
  BY <1>10 DEF Excuse

NoLegacy == legacy = {}

LEMMA StaysMigrated ==
  ASSUME PreMigration = {}
  PROVE  Spec => []NoLegacy
<1>1. Init => NoLegacy
  BY DEF Init, NoLegacy
<1>2. NoLegacy /\ [Next]_vars => NoLegacy'
  <2> SUFFICES ASSUME legacy = {}, [Next]_vars PROVE legacy' \subseteq legacy
    BY DEF NoLegacy
  <2>1. ASSUME NEW w \in Workers, ImportStep(w) \/ SignStep(w) \/ Crash(w)
        PROVE  legacy' \subseteq legacy
    BY <2>1 DEF ImportStep, Import, PutNar, SignStep, SignStart, SignEntry, Crash
  <2>2. ASSUME NEW w \in Workers, WriteStep(w)
        PROVE  legacy' \subseteq legacy
    BY <2>2 DEF WriteStep, Truncate, Fill, FillFails
  <2>3. ASSUME NEW w \in Workers, GcStep(w)
        PROVE  legacy' \subseteq legacy
    BY <2>3 DEF GcStep, GcCollect, GcNar, GcNarFails, GcNarinfo, GcNarinfoFails
  <2>4. ASSUME UNCHANGED vars
        PROVE  legacy' \subseteq legacy
    BY <2>4 DEF vars
  <2> QED
    BY <2>1, <2>2, <2>3, <2>4 DEF Next
<1> QED
  BY <1>1, <1>2, PTL DEF Spec

(* In a cache that has never had its NARs outside the object store, a NAR  *)
(* is left without a narinfo only by a failure or a race.                  *)
THEOREM StrandedCauses ==
  ASSUME PreMigration = {}
  PROVE  Spec => StrandedOnlyByFailureOrRace
<1> DEFINE A == \A k \in NarKeys : ~Stranded(k) /\ Stranded(k)' =>
                  \E w \in Workers : \/ Crash(w) \/ FillFails(w) \/ GcNarFails(w, k)
                                     \/ RaceStep(w, k[1])
<1>1. CInv /\ NoLegacy /\ [Next]_vars => A
  BY StrandedStep DEF NoLegacy
<1>2. Spec => []NoLegacy
  BY StaysMigrated
<1>3. Spec => [][A]_vars
  BY <1>1, <1>2, CInvAlways, PTL DEF Spec
<1> QED
  BY <1>3 DEF StrandedOnlyByFailureOrRace
=============================================================================
