--------------------------- MODULE SegmentConfig ---------------------------
(***************************************************************************)
(* arca-core/src/config.rs and the `topics` commands of arca-cli: the file *)
(* of cache segments.  Every command loads it, or writes the default when  *)
(* there is none; `topics create`, `join` and `remove` then change the     *)
(* loaded copy and write it back, `import` looks for the segment of its    *)
(* path in it.  Nothing locks the file, and fs::write truncates before it  *)
(* writes.                                                                 *)
(*                                                                         *)
(* A segment is its name and its filter: the topic key and the description *)
(* of a segment that add_segment accepts are its payload.  A path is from  *)
(* nixpkgs or not, as is_nixpkgs_path guesses by its name.                 *)
(***************************************************************************)
EXTENDS Naturals, FiniteSets, Sequences, FiniteSetsExt, Functions

CONSTANTS Names,      \* segment names
          Filters,    \* the filters of segments to create
          Universal,  \* the name of the default segment
          NoName,     \* no segment
          Procs,      \* processes, one command at a time each
          MaxSegments \* bound: segments of a list that two writes have mixed

ASSUME ConfigAssumption == /\ Universal \in Names /\ NoName \notin Names
                           /\ Filters \subseteq {"nixpkgs", "custom", "all"}
                           /\ MaxSegments \in Nat

VARIABLES file,    \* the config file: absent, unreadable or a list of segments
          proc,    \* proc[p]: the command of p, its next step and its loaded copy
          stale,   \* history: the processes whose copy another has since written over
          raced,   \* history: a stale copy has been written
          cut,     \* history: a write was cut off
          mixed,   \* history: a write went over the bytes of another
          made,    \* history: the names created and not removed since
          sent     \* history: sent[b], the segment that paths from nixpkgs or not
                   \* (b) were sent to last, unless removed since

vars == <<file, proc, stale, raced, cut, mixed, made, sent>>

(* What the file holds: `is` tells how it reads, `segs` what it parses to. *)
Absent == [is |-> "absent", segs |-> << >>]
Empty == [is |-> "empty", segs |-> << >>]  \* truncated: toml finds no `segments` in it
Parsed(segs) == [is |-> "parsed", segs |-> segs]

(* A text that toml does not parse, and the whole segments it ends with. *)
Garbled(segs) == [is |-> "garbled", segs |-> segs]

Readable(f) == f.is \notin {"empty", "garbled"}

torn == cut \/ mixed

Commands == [kind : {"create"}, seg : [name : Names, filter : Filters]]
            \cup [kind : {"remove"}, name : Names]
            \cup [kind : {"import"}, nixpkgs : BOOLEAN]

UniversalSegment == [name |-> Universal, filter |-> "nixpkgs"]
Idle == [pc |-> "idle"]
Doing(pc, c, conf) == [pc |-> pc, cmd |-> c, conf |-> conf]

Goto(p, s) == proc' = [proc EXCEPT ![p] = s]
GotoPc(p, pc) == proc' = [proc EXCEPT ![p].pc = pc]

(* The other processes that hold a copy, which p's write makes stale. *)
Others(p) == {q \in Procs \ {p} : proc[q] # Idle}

SegmentNames(conf) == {conf[i].name : i \in DOMAIN conf}

(* CacheConfig::segment_by_name finds one. *)
HasSegment(conf, n) == n \in SegmentNames(conf)

(* Mutant: no test for the name. *)
AddAnySegment(conf, seg) == <<Append(conf, seg)>>

(* Mutant: the new segment goes first. *)
AddSegmentFirst(conf, seg) == IF HasSegment(conf, seg.name) THEN << >> ELSE <<<<seg>> \o conf>>

(* CacheConfig::add_segment; << >> is the error. *)
AddSegment(conf, seg) == IF HasSegment(conf, seg.name) THEN << >> ELSE <<Append(conf, seg)>>

(* The segments of conf that have another name than n, in their order. *)
Retained(conf, n) ==
  LET kept[i \in 0..Len(conf)] ==
        IF i = 0 THEN << >>
        ELSE IF conf[i].name = n THEN kept[i - 1] ELSE Append(kept[i - 1], conf[i])
  IN  kept[Len(conf)]

(* Mutant: the segment is the one that is kept. *)
KeepSegment(conf, n) ==
  IF HasSegment(conf, n) THEN <<<<conf[CHOOSE i \in DOMAIN conf : conf[i].name = n]>>>>
  ELSE << >>

(* CacheConfig::remove_segment; << >> is the error `topics remove` prints. *)
RemoveSegment(conf, n) == IF HasSegment(conf, n) THEN <<Retained(conf, n)>> ELSE << >>

Matches(filter, nixpkgs) == CASE filter = "nixpkgs" -> nixpkgs
                              [] filter = "custom"  -> ~nixpkgs
                              [] filter = "all"     -> TRUE

(* CacheConfig::segment_for_path: the first that matches, or NoName, which  *)
(* import reports as an error.                                             *)
SegmentForPath(conf, nixpkgs) ==
  LET found == {i \in DOMAIN conf : Matches(conf[i].filter, nixpkgs)}
  IN  IF found = {} THEN NoName ELSE conf[Min(found)].name

Changed(c, conf) ==
  CASE c.kind = "create" -> AddSegment(conf, c.seg)
    [] c.kind = "remove" -> RemoveSegment(conf, c.name)
    [] c.kind = "import" -> << >>

-----------------------------------------------------------------------------
Init == /\ file = Absent
        /\ proc = [p \in Procs |-> Idle]
        /\ stale = {}
        /\ raced = FALSE
        /\ cut = FALSE
        /\ mixed = FALSE
        /\ made = {}
        /\ sent = [b \in BOOLEAN |-> NoName]

(* load_or_create: whether the file exists decides what is done next. *)
Load(p, c) ==
  /\ proc[p] = Idle
  /\ Goto(p, IF file = Absent THEN Doing("def_open", c, <<UniversalSegment>>)
                              ELSE Doing("read", c, << >>))
  /\ stale' = stale \ {p}
  /\ UNCHANGED <<file, raced, cut, mixed, made, sent>>

(* A file that does not parse is an error that ends the command. *)
Read(p) ==
  /\ proc[p].pc = "read"
  /\ Goto(p, IF ~Readable(file) THEN Idle ELSE Doing("apply", proc[p].cmd, file.segs))
  /\ stale' = stale \ {p}
  /\ UNCHANGED <<file, raced, cut, mixed, made, sent>>

Apply(p) ==
  /\ proc[p].pc = "apply"
  /\ LET conf == Changed(proc[p].cmd, proc[p].conf)
     IN  Goto(p, IF conf = << >> THEN Idle ELSE Doing("open", proc[p].cmd, conf[1]))
  /\ LET c == proc[p].cmd
     IN  sent' = IF c.kind = "import" /\ p \notin stale
                   THEN [sent EXCEPT ![c.nixpkgs] = SegmentForPath(proc[p].conf, c.nixpkgs)]
                   ELSE sent
  /\ UNCHANGED <<file, stale, raced, cut, mixed, made>>

(* Mutant: the segments are serialised after the file is opened, and fail to. *)
OpenThenFail(p) ==
  /\ proc[p].pc \in {"def_open", "open"}
  /\ file' = Empty
  /\ Goto(p, Idle)
  /\ stale' = stale \cup Others(p)
  /\ raced' = (raced \/ p \in stale)
  /\ UNCHANGED <<cut, mixed, made, sent>>

(* write_to, first half: the file is opened and truncated. *)
Open(p) ==
  /\ proc[p].pc \in {"def_open", "open"}
  /\ file' = Empty
  /\ GotoPc(p, IF proc[p].pc = "open" THEN "write" ELSE "def_write")
  /\ stale' = stale \cup Others(p)
  /\ raced' = (raced \/ p \in stale)
  /\ UNCHANGED <<cut, mixed, made, sent>>

(* What can be left of the segments of the file when a text that holds      *)
(* segs is written over its start.                                         *)
Tails(segs) ==
  {<< >>} \cup {SubSeq(file.segs, i, Len(file.segs)) :
                  i \in (IF segs = << >> THEN 1 ELSE 2)..Len(file.segs)}

(* The file after a text that holds segs was written over its start and did *)
(* not cover it.  What remains can end a line of the new text or begin with *)
(* a segment, and validate does not compare the names.                     *)
Mixtures(segs) ==
  {Garbled(t) : t \in Tails(segs)} \cup
  {Parsed(segs \o t) : t \in {t \in Tails(segs) : segs # << >> /\ Len(segs \o t) <= MaxSegments}}

(***************************************************************************)
(* write_to, second half: the bytes go to the start of the file.  When     *)
(* another process has written since the truncation, and more bytes than   *)
(* these, the end of them remains.  After the default the command goes on; *)
(* after the change it is done.                                            *)
(***************************************************************************)
Write(p) ==
  /\ proc[p].pc \in {"def_write", "write"}
  /\ file' \in {Parsed(proc[p].conf)} \cup IF file = Empty THEN {} ELSE Mixtures(proc[p].conf)
  /\ mixed' = (mixed \/ file # Empty)
  /\ IF proc[p].pc = "def_write"
       THEN GotoPc(p, "apply") /\ UNCHANGED <<made, sent>>
       ELSE /\ Goto(p, Idle)
            /\ LET c == proc[p].cmd
               IN  \/ /\ c.kind = "create"
                      /\ made' = made \cup {c.seg.name}
                      /\ UNCHANGED sent
                   \/ /\ c.kind = "remove"
                      /\ made' = made \ {c.name}
                      /\ sent' = [b \in BOOLEAN |-> IF sent[b] = c.name THEN NoName ELSE sent[b]]
  /\ stale' = stale \cup Others(p)
  /\ raced' = (raced \/ p \in stale)
  /\ UNCHANGED cut

(* A part of the bytes goes to the file and the command ends: the process   *)
(* is killed in its write, or the disk is full.  A text that is cut between *)
(* two segments parses.                                                    *)
WriteCut(p) ==
  /\ proc[p].pc \in {"def_write", "write"}
  /\ \E i \in 0..Len(proc[p].conf) :
       LET segs == SubSeq(proc[p].conf, 1, i)
       IN  file' \in {Garbled(<< >>)}
                     \cup (IF i = 0 THEN {} ELSE {Parsed(segs)})
                     \cup (IF file = Empty THEN {} ELSE Mixtures(segs))
  /\ Goto(p, Idle)
  /\ cut' = TRUE
  /\ mixed' = (mixed \/ file # Empty)
  /\ stale' = stale \cup Others(p)
  /\ raced' = (raced \/ p \in stale)
  /\ UNCHANGED <<made, sent>>

(* The process of p is killed. *)
Crash(p) ==
  /\ proc[p] # Idle
  /\ Goto(p, Idle)
  /\ cut' = (cut \/ proc[p].pc \in {"def_write", "write"})
  /\ UNCHANGED <<file, stale, raced, mixed, made, sent>>

Step(p) == Read(p) \/ Apply(p) \/ Open(p) \/ Write(p) \/ WriteCut(p) \/ Crash(p)
Next == \E p \in Procs : Step(p) \/ \E c \in Commands : Load(p, c)

Spec == Init /\ [][Next]_vars

-----------------------------------------------------------------------------
(***************************************************************************)
(* No two segments of the file have one name until a write has gone over   *)
(* the bytes of another one: validate does not test for it, and            *)
(* segment_by_name takes names to be unique (CacheConfig::add_segment,     *)
(* write_to).                                                              *)
(***************************************************************************)
NamesUnique == mixed \/ IsInjective([i \in DOMAIN file.segs |-> file.segs[i].name])

Writing == \E p \in Procs : proc[p].pc \in {"def_write", "write"}

(***************************************************************************)
(* A segment that was created, and not removed since, is in the file when  *)
(* no command is writing it, unless a write was cut off or mixed with      *)
(* another, or a command has written a copy that another had written over: *)
(* commands that do not overlap lose nothing when one is killed anywhere   *)
(* but between the truncation of the file and the end of its write, where  *)
(* every segment is lost (`topics create`, `topics join`).                 *)
(***************************************************************************)
KeptUnlessRaced == ~raced /\ ~torn /\ ~Writing => made \subseteq SegmentNames(file.segs)

(***************************************************************************)
(* The file is unreadable only while a command writes it, or after a write *)
(* was cut off by a crash or mixed with another one's.  (It then stays so: *)
(* every command fails at its load.)                                       *)
(***************************************************************************)
UnreadableOnlyIfTorn ==
  ~Readable(file) =>
    torn \/ Writing

(***************************************************************************)
(* Paths of one kind go on to be sent to the segment they were sent to     *)
(* until that is removed: a segment that is created later, or the removal  *)
(* of another one, does not take them away, as long as no command has      *)
(* written a copy that another had written over and no write was cut off   *)
(* or mixed with another (segment_for_path).                               *)
(***************************************************************************)
RouteKept ==
  [][\A p \in Procs, b \in BOOLEAN :
       /\ Apply(p) /\ proc[p].cmd = [kind |-> "import", nixpkgs |-> b]
       /\ sent[b] # NoName /\ ~raced /\ ~torn /\ p \notin stale
       => sent'[b] = sent[b]]_vars
=============================================================================
