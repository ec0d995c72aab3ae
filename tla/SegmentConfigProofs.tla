------------------------- MODULE SegmentConfigProofs ------------------------
(***************************************************************************)
(* Theorems about SegmentConfig, for any number of overlapping processes,  *)
(* any names and any filters.                                              *)
(***************************************************************************)
EXTENDS SegmentConfig, SequenceTheorems, WellFoundedInduction, TLAPS

Segments == [name : Names, filter : {"nixpkgs", "custom", "all"}]
Unique(conf) == \A i, j \in DOMAIN conf : conf[i].name = conf[j].name => i = j

-----------------------------------------------------------------------------
(* Lists of segments. *)
LEMMA LeastNumber ==
  ASSUME NEW T \in SUBSET Nat, T # {}
  PROVE  \E n \in T : \A m \in T : n <= m
<1> DEFINE R == OpToRel(<, Nat)
<1>1. IsWellFoundedOn(R, Nat)
  BY NatLessThanWellFounded
<1>2. \A m, n \in Nat : <<m, n>> \in R <=> m < n
  BY DEF OpToRel
<1> HIDE DEF R
<1>3. PICK n \in T : \A m \in T : ~ (<<m, n>> \in R)
  BY <1>1, WFMin
<1>4. n \in Nat /\ \A m \in T : m \in Nat
  OBVIOUS
<1>5. \A m \in T : ~ (m < n)
  BY <1>2, <1>3, <1>4
<1> QED
  BY <1>4, <1>5

(* The function that retains one segment after the other, up to m. *)
Kept(conf, n, f, i) ==
  IF i = 0 THEN << >>
  ELSE IF conf[i].name = n THEN f[i - 1] ELSE Append(f[i - 1], conf[i])
Keeps(conf, n, f, m) == f = [i \in 0..m |-> Kept(conf, n, f, i)]

LEMMA RetainedIs ==
  ASSUME NEW conf, NEW n
  PROVE  Retained(conf, n) = (CHOOSE f : Keeps(conf, n, f, Len(conf)))[Len(conf)]
BY Zenon DEF Retained, Keeps, Kept

LEMMA KeepsExists ==
  ASSUME NEW conf \in Seq(Segments), NEW n
  PROVE  \E f : Keeps(conf, n, f, Len(conf))
<1> DEFINE Bad == {m \in Nat : ~\E f : Keeps(conf, n, f, m)}
<1>0. Len(conf) \in Nat
  OBVIOUS
<1> SUFFICES ASSUME Bad # {} PROVE FALSE
  BY <1>0
<1>1. PICK m \in Bad : \A k \in Bad : m <= k
  <2>1. Bad \in SUBSET Nat
    OBVIOUS
  <2> HIDE DEF Bad
  <2> QED
    BY <2>1, LeastNumber
<1>2. m \in Nat /\ ~\E f : Keeps(conf, n, f, m)
  OBVIOUS
<1>3. CASE m = 0
  <2> DEFINE f == [i \in 0..0 |-> << >>]
  <2>1. f = [i \in 0..0 |-> Kept(conf, n, f, i)]
    BY DEF Kept
  <2> HIDE DEF f
  <2> QED
    BY <1>2, <1>3, <2>1 DEF Keeps
<1>4. CASE m # 0
  <2>1. m - 1 \in Nat /\ ~ (m <= m - 1)
    BY <1>2, <1>4
  <2>2. m - 1 \notin Bad
    <3> HIDE DEF Bad
    <3> QED
      BY <1>1, <2>1
  <2>3. PICK g : Keeps(conf, n, g, m - 1)
    BY <2>1, <2>2
  <2>4. g = [i \in 0..(m - 1) |-> Kept(conf, n, g, i)]
    BY <2>3 DEF Keeps
  <2> DEFINE f == [i \in 0..m |-> Kept(conf, n, g, i)]
  <2>5. ASSUME NEW i \in 0..m
        PROVE  Kept(conf, n, g, i) = Kept(conf, n, f, i)
    <3>1. CASE i = 0
      BY <3>1 DEF Kept
    <3>2. CASE i # 0
      <4>1. i - 1 \in 0..(m - 1) /\ i - 1 \in 0..m
        BY <1>2, <3>2
      <4>2. g[i - 1] = Kept(conf, n, g, i - 1)
        BY <2>4, <4>1
      <4>3. f[i - 1] = Kept(conf, n, g, i - 1)
        BY <4>1
      <4> HIDE DEF f
      <4> QED
        BY <3>2, <4>2, <4>3 DEF Kept
    <3> QED
      BY <3>1, <3>2
  <2>6. f = [i \in 0..m |-> Kept(conf, n, f, i)]
    BY <2>5
  <2> HIDE DEF f
  <2> QED
    BY <1>2, <2>6 DEF Keeps
<1> QED
  BY <1>3, <1>4

(* w is what is left of the first m segments: e[j] is where its j-th was. *)
Leaves(conf, n, w, e, m) ==
  /\ w \in Seq(Segments)
  /\ e \in [1..Len(w) -> 1..m]
  /\ \A i, j \in 1..Len(w) : i < j => e[i] < e[j]
  /\ \A j \in 1..Len(w) : w[j] = conf[e[j]] /\ w[j].name # n
  /\ \A i \in 1..m : conf[i].name # n => \E j \in 1..Len(w) : e[j] = i

LEMMA LeavesMore ==
  ASSUME NEW conf \in Seq(Segments), NEW n, NEW m \in 1..Len(conf),
         NEW w, NEW e, Leaves(conf, n, w, e, m - 1)
  PROVE  IF conf[m].name = n THEN Leaves(conf, n, w, e, m)
         ELSE \E d : Leaves(conf, n, Append(w, conf[m]), d, m)
<1>1. /\ w \in Seq(Segments) /\ e \in [1..Len(w) -> 1..(m - 1)]
      /\ \A i, j \in 1..Len(w) : i < j => e[i] < e[j]
      /\ \A j \in 1..Len(w) : w[j] = conf[e[j]] /\ w[j].name # n
      /\ \A i \in 1..(m - 1) : conf[i].name # n => \E j \in 1..Len(w) : e[j] = i
  BY DEF Leaves
<1>2. /\ m \in Nat /\ m >= 1 /\ m - 1 \in Nat /\ Len(w) \in Nat
      /\ \A i \in 1..m : i \in 1..(m - 1) \/ i = m
      /\ \A i \in 1..(m - 1) : i \in 1..m /\ i < m
  BY <1>1
<1>3. CASE conf[m].name = n
  <2>1. e \in [1..Len(w) -> 1..m]
    BY <1>1, <1>2
  <2>2. \A i \in 1..m : conf[i].name # n => \E j \in 1..Len(w) : e[j] = i
    BY <1>1, <1>2, <1>3
  <2> QED
    BY <1>1, <1>3, <2>1, <2>2 DEF Leaves
<1>4. CASE conf[m].name # n
  <2> DEFINE v == Append(w, conf[m])
             d == [j \in 1..Len(v) |-> IF j = Len(w) + 1 THEN m ELSE e[j]]
  <2>1. conf[m] \in Segments
    OBVIOUS
  <2>2. /\ v \in Seq(Segments) /\ Len(v) = Len(w) + 1 /\ v[Len(w) + 1] = conf[m]
        /\ \A j \in 1..Len(w) : v[j] = w[j]
    BY <1>1, <2>1
  <2>3. /\ \A j \in 1..Len(v) : j \in 1..Len(w) \/ j = Len(w) + 1
        /\ \A j \in 1..Len(w) : j \in 1..Len(v) /\ j # Len(w) + 1
        /\ Len(w) + 1 \in 1..Len(v)
    BY <1>2, <2>2
  <2> HIDE DEF v
  <2>4. /\ d[Len(w) + 1] = m
        /\ \A j \in 1..Len(w) : d[j] = e[j]
    BY <2>3
  <2>5. d \in [1..Len(v) -> 1..m]
    <3>1. \A j \in 1..Len(v) : (IF j = Len(w) + 1 THEN m ELSE e[j]) \in 1..m
      BY <1>1, <1>2, <2>3
    <3> QED
      BY <3>1
  <2> HIDE DEF d
  <2>6. ASSUME NEW i \in 1..Len(v), NEW j \in 1..Len(v), i < j
        PROVE  d[i] < d[j]
    <3>1. i \in 1..Len(w)
      BY <1>2, <2>2, <2>6
    <3>2. e[i] \in 1..(m - 1) /\ e[i] < m
      BY <1>1, <1>2, <3>1
    <3> QED
      BY <1>1, <2>3, <2>4, <2>6, <3>1, <3>2
  <2>7. \A j \in 1..Len(v) : v[j] = conf[d[j]] /\ v[j].name # n
    BY <1>1, <1>4, <2>2, <2>3, <2>4
  <2>8. ASSUME NEW i \in 1..m, conf[i].name # n
        PROVE  \E j \in 1..Len(v) : d[j] = i
    <3>1. CASE i = m
      BY <2>3, <2>4, <3>1
    <3>2. CASE i \in 1..(m - 1)
      <4>1. PICK j \in 1..Len(w) : e[j] = i
        BY <1>1, <2>8, <3>2
      <4> QED
        BY <2>3, <2>4, <4>1
    <3> QED
      BY <1>2, <3>1, <3>2
  <2>9. Leaves(conf, n, v, d, m)
    BY <2>2, <2>5, <2>6, <2>7, <2>8 DEF Leaves
  <2> QED
    BY <1>4, <2>9 DEF v
<1> QED
  BY <1>3, <1>4

(* What retain leaves: the segments with another name, in their order. *)
LEMMA RetainedLeaves ==
  ASSUME NEW conf \in Seq(Segments), NEW n
  PROVE  \E e : Leaves(conf, n, Retained(conf, n), e, Len(conf))
<1> DEFINE f == CHOOSE f : Keeps(conf, n, f, Len(conf))
<1>1. Keeps(conf, n, f, Len(conf))
  BY KeepsExists
<1>2. Retained(conf, n) = f[Len(conf)]
  BY RetainedIs
<1> HIDE DEF f
<1>3. Len(conf) \in Nat /\ \A i \in 0..Len(conf) : f[i] = Kept(conf, n, f, i)
  BY <1>1 DEF Keeps
<1> DEFINE Bad == {m \in 0..Len(conf) : ~\E e : Leaves(conf, n, f[m], e, m)}
<1>4. Bad = {}
  <2> SUFFICES ASSUME Bad # {} PROVE FALSE
    OBVIOUS
  <2>1. PICK m \in Bad : \A k \in Bad : m <= k
    <3>1. Bad \in SUBSET Nat
      BY <1>3
    <3> HIDE DEF Bad
    <3> QED
      BY <3>1, LeastNumber
  <2>2. m \in 0..Len(conf) /\ ~\E e : Leaves(conf, n, f[m], e, m)
    OBVIOUS
  <2>3. CASE m = 0
    <3>1. f[0] = << >>
      BY <1>3, <2>2, <2>3 DEF Kept
    <3>2. /\ << >> \in Seq(Segments) /\ Len(<< >>) = 0 /\ 1..0 = {}
          /\ [j \in 1..0 |-> 0] \in [1..0 -> 1..0]
      OBVIOUS
    <3>3. Leaves(conf, n, << >>, [j \in 1..0 |-> 0], 0)
      BY <3>2 DEF Leaves
    <3> QED
      BY <2>2, <2>3, <3>1, <3>3
  <2>4. CASE m # 0
    <3>1. m \in 1..Len(conf) /\ m - 1 \in 0..Len(conf) /\ ~ (m <= m - 1)
      BY <1>3, <2>2, <2>4
    <3>2. m - 1 \notin Bad
      <4> HIDE DEF Bad
      <4> QED
        BY <2>1, <3>1
    <3>3. PICK e : Leaves(conf, n, f[m - 1], e, m - 1)
      BY <3>1, <3>2
    <3>4. f[m] = IF conf[m].name = n THEN f[m - 1] ELSE Append(f[m - 1], conf[m])
      BY <1>3, <2>2, <2>4 DEF Kept
    <3>5. IF conf[m].name = n THEN Leaves(conf, n, f[m - 1], e, m)
          ELSE \E d : Leaves(conf, n, Append(f[m - 1], conf[m]), d, m)
      BY <3>1, <3>3, LeavesMore
    <3> QED
      BY <2>2, <3>4, <3>5
  <2> QED
    BY <2>3, <2>4
<1>5. Len(conf) \in 0..Len(conf)
  BY <1>3
<1> QED
  BY <1>2, <1>4, <1>5

-----------------------------------------------------------------------------
(* The segment for a path is the first that matches. *)
First(conf, b, i) ==
  /\ i \in DOMAIN conf /\ Matches(conf[i].filter, b)
  /\ \A j \in DOMAIN conf : Matches(conf[j].filter, b) => i <= j

LEMMA FirstRoutes ==
  ASSUME NEW conf \in Seq(Segments), NEW b \in BOOLEAN
  PROVE  /\ \A i : First(conf, b, i) => SegmentForPath(conf, b) = conf[i].name
         /\ SegmentForPath(conf, b) # NoName => \E i : First(conf, b, i)
<1> DEFINE found == {i \in DOMAIN conf : Matches(conf[i].filter, b)}
<1>1. SegmentForPath(conf, b) = IF found = {} THEN NoName ELSE conf[Min(found)].name
  BY DEF SegmentForPath
<1>2. found \in SUBSET Nat
  OBVIOUS
<1>3. ASSUME NEW i, First(conf, b, i)
      PROVE  SegmentForPath(conf, b) = conf[i].name
  <2>1. i \in found /\ \A j \in found : i <= j
    BY <1>3 DEF First
  <2> HIDE DEF found
  <2>2. \A k \in found : (\A j \in found : k <= j) => k = i
    BY <1>2, <2>1
  <2>3. Min(found) = i
    BY <2>1, <2>2 DEF Min
  <2> QED
    BY <1>1, <2>1, <2>3
<1>4. ASSUME found # {}
      PROVE  \E i : First(conf, b, i)
  <2>1. PICK i \in found : \A j \in found : i <= j
    <3> HIDE DEF found
    <3> QED
      BY <1>2, <1>4, LeastNumber
  <2> QED
    BY <2>1 DEF First
<1> QED
  BY <1>1, <1>3, <1>4

(* add_segment takes no path away from a segment, nor a name. *)
LEMMA AppendServes ==
  ASSUME NEW conf \in Seq(Segments), NEW seg \in Segments
  PROVE  /\ Append(conf, seg) \in Seq(Segments)
         /\ SegmentNames(Append(conf, seg)) = SegmentNames(conf) \cup {seg.name}
         /\ \A b \in BOOLEAN : SegmentForPath(conf, b) # NoName =>
              SegmentForPath(Append(conf, seg), b) = SegmentForPath(conf, b)
         /\ Unique(conf) /\ ~HasSegment(conf, seg.name) => Unique(Append(conf, seg))
<1> DEFINE v == Append(conf, seg)
<1>1. /\ v \in Seq(Segments) /\ Len(conf) \in Nat /\ Len(v) = Len(conf) + 1
      /\ v[Len(conf) + 1] = seg
      /\ \A i \in 1..Len(conf) : v[i] = conf[i]
  OBVIOUS
<1>2. /\ DOMAIN v = 1..Len(v) /\ DOMAIN conf = 1..Len(conf)
      /\ \A i \in 1..Len(v) : i \in 1..Len(conf) \/ i = Len(conf) + 1
      /\ \A i \in 1..Len(conf) : i \in 1..Len(v) /\ i <= Len(conf) + 1
      /\ Len(conf) + 1 \in 1..Len(v)
  BY <1>1
<1> HIDE DEF v
<1>3. SegmentNames(v) = SegmentNames(conf) \cup {seg.name}
  <2>1. ASSUME NEW x
        PROVE  x \in SegmentNames(v) <=> x \in SegmentNames(conf) \cup {seg.name}
    <3>1. x \in SegmentNames(v) <=> \E i \in 1..Len(v) : x = v[i].name
      BY <1>2 DEF SegmentNames
    <3>2. x \in SegmentNames(conf) <=> \E i \in 1..Len(conf) : x = conf[i].name
      BY <1>2 DEF SegmentNames
    <3> QED
      BY <1>1, <1>2, <3>1, <3>2
  <2> QED
    BY <2>1
<1>4. ASSUME NEW b \in BOOLEAN, SegmentForPath(conf, b) # NoName
      PROVE  SegmentForPath(v, b) = SegmentForPath(conf, b)
  <2>1. PICK i : First(conf, b, i)
    BY <1>4, FirstRoutes
  <2>2. i \in 1..Len(conf) /\ i \in 1..Len(v) /\ v[i] = conf[i] /\ Matches(v[i].filter, b)
    BY <1>1, <1>2, <2>1 DEF First
  <2>3. ASSUME NEW j \in 1..Len(v), Matches(v[j].filter, b)
        PROVE  i <= j
    <3>1. CASE j \in 1..Len(conf)
      BY <1>1, <1>2, <2>1, <2>3, <3>1 DEF First
    <3>2. CASE j = Len(conf) + 1
      BY <1>2, <2>2, <3>2
    <3> QED
      BY <1>2, <3>1, <3>2
  <2>4. First(v, b, i)
    BY <1>2, <2>2, <2>3 DEF First
  <2> QED
    BY <1>1, <2>1, <2>2, <2>4, FirstRoutes
<1>5. ASSUME Unique(conf), ~HasSegment(conf, seg.name)
      PROVE  Unique(v)
  <2>1. \A i \in 1..Len(conf) : conf[i].name # seg.name
    BY <1>2, <1>5 DEF HasSegment, SegmentNames
  <2> QED
    BY <1>1, <1>2, <1>5, <2>1 DEF Unique
<1> QED
  BY <1>1, <1>3, <1>4, <1>5 DEF v

(* remove_segment takes no path away from another segment, nor another name. *)
LEMMA RetainedServes ==
  ASSUME NEW conf \in Seq(Segments), NEW n
  PROVE  /\ Retained(conf, n) \in Seq(Segments)
         /\ SegmentNames(Retained(conf, n)) = SegmentNames(conf) \ {n}
         /\ \A b \in BOOLEAN : SegmentForPath(conf, b) \notin {NoName, n} =>
              SegmentForPath(Retained(conf, n), b) = SegmentForPath(conf, b)
         /\ Unique(conf) => Unique(Retained(conf, n))
<1> DEFINE w == Retained(conf, n)
<1>1. PICK e : Leaves(conf, n, w, e, Len(conf))
  BY RetainedLeaves
<1> HIDE DEF w
<1>2. /\ w \in Seq(Segments) /\ e \in [1..Len(w) -> 1..Len(conf)]
      /\ \A i, j \in 1..Len(w) : i < j => e[i] < e[j]
      /\ \A j \in 1..Len(w) : w[j] = conf[e[j]] /\ w[j].name # n
      /\ \A i \in 1..Len(conf) : conf[i].name # n => \E j \in 1..Len(w) : e[j] = i
  BY <1>1 DEF Leaves
<1>3. /\ DOMAIN w = 1..Len(w) /\ DOMAIN conf = 1..Len(conf)
      /\ Len(w) \in Nat /\ Len(conf) \in Nat
      /\ \A j \in 1..Len(w) : e[j] \in 1..Len(conf)
  <2>1. DOMAIN w = 1..Len(w) /\ Len(w) \in Nat
    BY <1>2
  <2>2. DOMAIN conf = 1..Len(conf) /\ Len(conf) \in Nat
    OBVIOUS
  <2>3. \A j \in 1..Len(w) : e[j] \in 1..Len(conf)
    BY <1>2
  <2> QED
    BY <2>1, <2>2, <2>3
<1>4. SegmentNames(w) = SegmentNames(conf) \ {n}
  <2>1. ASSUME NEW x
        PROVE  x \in SegmentNames(w) <=> x \in SegmentNames(conf) \ {n}
    <3>1. x \in SegmentNames(w) <=> \E j \in 1..Len(w) : x = w[j].name
      BY <1>3 DEF SegmentNames
    <3>2. x \in SegmentNames(conf) <=> \E i \in 1..Len(conf) : x = conf[i].name
      BY <1>3 DEF SegmentNames
    <3> QED
      BY <1>2, <1>3, <3>1, <3>2
  <2> QED
    BY <2>1
<1>5. ASSUME NEW b \in BOOLEAN, SegmentForPath(conf, b) \notin {NoName, n}
      PROVE  SegmentForPath(w, b) = SegmentForPath(conf, b)
  <2>1. PICK i : First(conf, b, i)
    BY <1>5, FirstRoutes
  <2>2. i \in 1..Len(conf) /\ SegmentForPath(conf, b) = conf[i].name
    BY <1>3, <2>1, FirstRoutes DEF First
  <2>3. PICK j \in 1..Len(w) : e[j] = i
    BY <1>2, <1>5, <2>2
  <2>4. w[j] = conf[i] /\ Matches(w[j].filter, b)
    BY <1>2, <2>1, <2>3 DEF First
  <2>5. ASSUME NEW k \in 1..Len(w), Matches(w[k].filter, b)
        PROVE  j <= k
    <3>1. Matches(conf[e[k]].filter, b) /\ e[k] \in 1..Len(conf)
      BY <1>2, <1>3, <2>5
    <3>2. i <= e[k]
      BY <1>3, <2>1, <3>1 DEF First
    <3>3. ~ (e[k] < e[j])
      BY <1>3, <2>3, <3>1, <3>2
    <3>4. ~ (k < j)
      BY <1>2, <3>3
    <3> QED
      BY <1>3, <3>4
  <2>6. First(w, b, j)
    BY <1>3, <2>4, <2>5 DEF First
  <2> QED
    BY <1>2, <2>2, <2>4, <2>6, FirstRoutes
<1>6. ASSUME Unique(conf)
      PROVE  Unique(w)
  <2>1. ASSUME NEW i \in 1..Len(w), NEW j \in 1..Len(w), w[i].name = w[j].name
        PROVE  i = j
    <3>1. e[i] = e[j]
      BY <1>2, <1>3, <1>6, <2>1 DEF Unique
    <3>2. e[i] \in Nat /\ e[j] \in Nat
      BY <1>3
    <3>3. ~ (i < j) /\ ~ (j < i)
      BY <1>2, <3>1, <3>2
    <3> QED
      BY <1>3, <3>3
  <2> QED
    BY <1>3, <2>1 DEF Unique
<1> QED
  BY <1>2, <1>4, <1>5, <1>6 DEF w

-----------------------------------------------------------------------------
PCs == {"def_open", "def_write", "read", "apply", "open", "write"}
Running == [pc : PCs, cmd : Commands, conf : Seq(Segments)]

Typed ==
  /\ \/ file \in {Absent, Empty}
     \/ \E segs \in Seq(Segments) : file = Parsed(segs) \/ file = Garbled(segs)
  /\ proc \in [Procs -> {Idle} \cup Running]
  /\ stale \subseteq Procs
  /\ raced \in BOOLEAN /\ cut \in BOOLEAN /\ mixed \in BOOLEAN
  /\ made \subseteq Names
  /\ sent \in [BOOLEAN -> Names \cup {NoName}]

(* Also the copies have each name once. *)
AllUnique == ~mixed =>
  /\ Unique(file.segs)
  /\ \A p \in Procs : proc[p] # Idle => Unique(proc[p].conf)

(* Before there is a file nothing was created, or sent, or read. *)
NothingYet == made = {} /\ \A b \in BOOLEAN : sent[b] = NoName
NewIsEmpty == file = Absent =>
  NothingYet /\ \A p \in Procs : proc[p].pc \in {"idle", "def_open"}

(* The names ns are in segs, and paths go on to the segments they were sent *)
(* to, but for those in gone.                                              *)
Serves(segs, ns, gone) ==
  /\ ns \subseteq SegmentNames(segs)
  /\ \A b \in BOOLEAN : sent[b] \notin gone => SegmentForPath(segs, b) = sent[b]

FileServes == file.is = "parsed" /\ ~raced /\ ~torn => Serves(file.segs, made, {NoName})

(* What the copy of a process is, that nobody has written over: what the    *)
(* file holds, then what the command makes of it.                          *)
FreshCopy(r) ==
  /\ r.pc = "def_open" => file = Absent
  /\ r.pc = "def_write" => file = Empty /\ NothingYet
  /\ r.pc = "apply" => file = Parsed(r.conf)
  /\ r.pc = "open" => file.is = "parsed" /\ Changed(r.cmd, file.segs) = <<r.conf>>
  /\ r.pc = "write" =>
       /\ file = Empty
       /\ ~raced /\ ~torn /\ r.cmd.kind = "create" =>
            Serves(r.conf, made \cup {r.cmd.seg.name}, {NoName})
       /\ ~raced /\ ~torn /\ r.cmd.kind = "remove" =>
            Serves(r.conf, made \ {r.cmd.name}, {NoName, r.cmd.name})
Fresh == \A p \in Procs \ stale : FreshCopy(proc[p])

CInv == Typed /\ AllUnique /\ UnreadableOnlyIfTorn /\ NewIsEmpty /\ FileServes /\ Fresh

LEMMA CInvInit == Init => CInv
<1> SUFFICES ASSUME Init PROVE CInv
  OBVIOUS
<1>1. /\ file = Absent /\ proc = [p \in Procs |-> Idle] /\ stale = {}
      /\ raced = FALSE /\ cut = FALSE /\ mixed = FALSE
      /\ made = {} /\ sent = [b \in BOOLEAN |-> NoName]
  BY DEF Init
<1>2. Typed
  BY <1>1 DEF Typed
<1>3. file.segs = << >> /\ DOMAIN file.segs = {} /\ file.is = "absent"
  <2>1. file.segs = << >> /\ file.is = "absent"
    BY <1>1 DEF Absent
  <2>2. DOMAIN << >> = {}
    OBVIOUS
  <2> QED
    BY Zenon, <2>1, <2>2
<1>4. \A p \in Procs : proc[p] = Idle /\ proc[p].pc = "idle"
  BY <1>1 DEF Idle
<1>5. AllUnique
  BY <1>3, <1>4 DEF AllUnique, Unique
<1>6. UnreadableOnlyIfTorn
  BY <1>3 DEF UnreadableOnlyIfTorn, Readable
<1>7. NewIsEmpty
  BY <1>1, <1>4 DEF NewIsEmpty, NothingYet
<1>8. FileServes
  BY <1>3 DEF FileServes
<1>9. Fresh
  BY <1>4 DEF Fresh, FreshCopy
<1> QED
  BY <1>2, <1>5, <1>6, <1>7, <1>8, <1>9 DEF CInv

(* A change to a list of segments keeps what the list serves, but for the    *)
(* segment it removes.                                                      *)
LEMMA ChangeServes ==
  ASSUME Typed, NEW cmd \in Commands, NEW segs \in Seq(Segments), NEW conf,
         Changed(cmd, segs) = <<conf>>
  PROVE  /\ conf \in Seq(Segments)
         /\ Unique(segs) => Unique(conf)
         /\ cmd.kind \in {"create", "remove"}
         /\ Serves(segs, made, {NoName}) =>
              /\ cmd.kind = "create" => Serves(conf, made \cup {cmd.seg.name}, {NoName})
              /\ cmd.kind = "remove" => Serves(conf, made \ {cmd.name}, {NoName, cmd.name})
<1>1. << >> # <<conf>> /\ \A x : <<x>> = <<conf>> => x = conf
  <2>1. \A x : <<x>>[1] = x
    OBVIOUS
  <2>2. \A x : <<x>> = <<conf>> => x = conf
    BY Zenon, <2>1
  <2> QED
    BY <2>2
<1>2. CASE cmd.kind = "create"
  <2>1. cmd.seg \in Segments
    BY <1>2, ConfigAssumption DEF Commands, Segments
  <2>2. Changed(cmd, segs) = AddSegment(segs, cmd.seg)
    BY <1>2 DEF Changed
  <2>3. ~HasSegment(segs, cmd.seg.name) /\ conf = Append(segs, cmd.seg)
    <3>1. ~HasSegment(segs, cmd.seg.name)
      BY <1>1, <2>2 DEF AddSegment
    <3>2. <<Append(segs, cmd.seg)>> = <<conf>>
      BY <2>2, <3>1 DEF AddSegment
    <3> QED
      BY Zenon, <1>1, <3>1, <3>2
  <2>4. /\ conf \in Seq(Segments) /\ (Unique(segs) => Unique(conf))
        /\ SegmentNames(conf) = SegmentNames(segs) \cup {cmd.seg.name}
        /\ \A b \in BOOLEAN : SegmentForPath(segs, b) # NoName =>
             SegmentForPath(conf, b) = SegmentForPath(segs, b)
    BY <2>1, <2>3, AppendServes
  <2>5. ASSUME Serves(segs, made, {NoName})
        PROVE  Serves(conf, made \cup {cmd.seg.name}, {NoName})
    BY <2>4, <2>5 DEF Serves
  <2> QED
    BY <1>2, <2>4, <2>5
<1>3. CASE cmd.kind = "remove"
  <2>1. Changed(cmd, segs) = RemoveSegment(segs, cmd.name)
    BY <1>3 DEF Changed
  <2>2. conf = Retained(segs, cmd.name)
    <3>1. HasSegment(segs, cmd.name)
      BY <1>1, <2>1 DEF RemoveSegment
    <3>2. <<Retained(segs, cmd.name)>> = <<conf>>
      BY <2>1, <3>1 DEF RemoveSegment
    <3> QED
      BY Zenon, <1>1, <3>2
  <2>3. /\ conf \in Seq(Segments) /\ (Unique(segs) => Unique(conf))
        /\ SegmentNames(conf) = SegmentNames(segs) \ {cmd.name}
        /\ \A b \in BOOLEAN : SegmentForPath(segs, b) \notin {NoName, cmd.name} =>
             SegmentForPath(conf, b) = SegmentForPath(segs, b)
    BY <2>2, RetainedServes
  <2>4. ASSUME Serves(segs, made, {NoName})
        PROVE  Serves(conf, made \ {cmd.name}, {NoName, cmd.name})
    BY <2>3, <2>4 DEF Serves
  <2> QED
    BY <1>3, <2>3, <2>4
<1>4. CASE cmd.kind = "import"
  BY <1>1, <1>4 DEF Changed
<1>5. cmd.kind \in {"create", "remove", "import"}
  BY DEF Commands
<1> QED
  BY <1>2, <1>3, <1>4, <1>5

(* A change is an error or a list. *)
LEMMA ChangeIs ==
  ASSUME NEW cmd \in Commands, NEW segs, Changed(cmd, segs) # << >>
  PROVE  Changed(cmd, segs) = <<Changed(cmd, segs)[1]>>
<1>1. \/ Changed(cmd, segs) = << >>
      \/ \E conf : Changed(cmd, segs) = <<conf>>
  <2>1. cmd.kind \in {"create", "remove", "import"}
    BY DEF Commands
  <2>2. CASE cmd.kind = "create"
    BY <2>2 DEF Changed, AddSegment
  <2>3. CASE cmd.kind = "remove"
    BY <2>3 DEF Changed, RemoveSegment
  <2>4. CASE cmd.kind = "import"
    BY <2>4 DEF Changed
  <2> QED
    BY <2>1, <2>2, <2>3, <2>4
<1>2. PICK conf : Changed(cmd, segs) = <<conf>>
  BY <1>1
<1> QED
  BY <1>2

(* What a file can be, and what a process. *)
LEMMA Kinds ==
  ASSUME Typed
  PROVE  /\ file = Absent \/ ~Readable(file) \/ file = Parsed(file.segs)
         /\ file.is = "parsed" => file = Parsed(file.segs)
         /\ file.segs \in Seq(Segments)
         /\ \A segs : /\ Parsed(segs).is = "parsed" /\ Parsed(segs).segs = segs
                      /\ Garbled(segs).is = "garbled" /\ Garbled(segs).segs = segs
                      /\ Parsed(segs) # Absent /\ Garbled(segs) # Absent
                      /\ Parsed(segs) # Empty
         /\ Empty # Absent /\ Empty.is = "empty" /\ Empty.segs = << >>
         /\ \A p \in Procs : \/ proc[p] = Idle
                             \/ /\ proc[p].pc \in PCs /\ proc[p].cmd \in Commands
                                /\ proc[p].conf \in Seq(Segments) /\ proc[p] \in Running
         /\ Idle.pc = "idle" /\ Idle \notin Running
<1>1. /\ Empty.is = "empty" /\ Absent.is = "absent"
      /\ Absent.segs = << >> /\ Empty.segs = << >> /\ Empty # Absent
  BY DEF Empty, Absent
<1>2. \A segs : /\ Parsed(segs).is = "parsed" /\ Parsed(segs).segs = segs
                /\ Garbled(segs).is = "garbled" /\ Garbled(segs).segs = segs
  BY DEF Parsed, Garbled
<1>3. \A segs : Parsed(segs) # Absent /\ Garbled(segs) # Absent /\ Parsed(segs) # Empty
  BY <1>1, <1>2
<1>4. << >> \in Seq(Segments)
  OBVIOUS
<1>5. \A p \in Procs : proc[p] = Idle \/ proc[p] \in Running
  BY DEF Typed
<1>6. Idle.pc = "idle" /\ Idle \notin Running
  BY DEF Idle, Running, PCs
<1>7. /\ file.segs \in Seq(Segments)
      /\ file = Absent \/ ~Readable(file) \/ file = Parsed(file.segs)
      /\ file.is = "parsed" => file = Parsed(file.segs)
  <2>1. CASE file \in {Absent, Empty}
    BY <1>1, <1>4, <2>1 DEF Readable
  <2>2. ASSUME NEW segs \in Seq(Segments), file = Parsed(segs) \/ file = Garbled(segs)
        PROVE  /\ file.segs \in Seq(Segments)
               /\ file = Absent \/ ~Readable(file) \/ file = Parsed(file.segs)
               /\ file.is = "parsed" => file = Parsed(file.segs)
    BY <1>2, <2>2 DEF Readable
  <2> QED
    BY <2>1, <2>2 DEF Typed
<1> QED
  BY <1>1, <1>2, <1>3, <1>5, <1>6, <1>7 DEF Running

LEMMA IdleIsFresh == FreshCopy(Idle) /\ FreshCopy(Idle)'
BY DEF FreshCopy, Idle

(* Steps that write nothing: the file is read, or the process goes.         *)
LEMMA LoadKeeps ==
  ASSUME CInv, NEW p \in Procs, NEW c \in Commands, Load(p, c)
  PROVE  CInv'
<1> DEFINE r == IF file = Absent THEN Doing("def_open", c, <<UniversalSegment>>)
                ELSE Doing("read", c, << >>)
<1>1. /\ proc[p] = Idle /\ proc' = [proc EXCEPT ![p] = r] /\ stale' = stale \ {p}
      /\ file' = file /\ raced' = raced /\ cut' = cut /\ mixed' = mixed /\ made' = made /\ sent' = sent
  BY DEF Load, Goto
<1>2. Typed /\ proc \in [Procs -> {Idle} \cup Running]
  BY DEF CInv, Typed
<1>3. proc'[p] = r /\ \A q \in Procs : q # p => proc'[q] = proc[q]
  BY <1>1, <1>2
<1>4. <<UniversalSegment>> \in Seq(Segments) /\ << >> \in Seq(Segments)
      /\ Unique(<<UniversalSegment>>) /\ Unique(<< >>)
  <2>1. UniversalSegment \in Segments
    BY ConfigAssumption DEF UniversalSegment, Segments
  <2>2. DOMAIN <<UniversalSegment>> = {1} /\ DOMAIN << >> = {}
    OBVIOUS
  <2> QED
    BY <2>1, <2>2 DEF Unique
<1>5. /\ r \in Running /\ Unique(r.conf)
      /\ r.pc = IF file = Absent THEN "def_open" ELSE "read"
  BY <1>4 DEF Doing, Running, PCs
<1> HIDE DEF r
<1>6. Typed'
  BY <1>1, <1>2, <1>5 DEF Typed
<1>7. AllUnique'
  BY <1>1, <1>3, <1>5 DEF CInv, AllUnique
<1>8. UnreadableOnlyIfTorn'
  <2>1. \A q \in Procs : proc[q].pc \in {"def_write", "write"} =>
                           proc'[q].pc \in {"def_write", "write"}
    BY <1>1, <1>3 DEF Idle
  <2> QED
    BY <1>1, <2>1 DEF CInv, UnreadableOnlyIfTorn, Writing, torn
<1>9. NewIsEmpty'
  <2>1. file = Absent => \A q \in Procs : proc'[q].pc \in {"idle", "def_open"}
    BY <1>3, <1>5 DEF CInv, NewIsEmpty
  <2> QED
    BY <1>1, <2>1 DEF CInv, NewIsEmpty, NothingYet
<1>10. FileServes'
  BY <1>1 DEF CInv, FileServes, Serves, torn
<1>11. Fresh'
  <2> SUFFICES ASSUME NEW q \in Procs, q \notin stale' PROVE FreshCopy(proc[q])'
    BY DEF Fresh
  <2>1. CASE q = p
    BY <1>1, <1>3, <1>5, <2>1 DEF FreshCopy
  <2>2. CASE q # p
    <3>1. FreshCopy(proc[q]) /\ proc'[q] = proc[q]
      BY <1>1, <1>3, <2>2 DEF CInv, Fresh
    <3> QED
      BY <1>1, <3>1 DEF FreshCopy, NothingYet, Serves, torn
  <2> QED
    BY <2>1, <2>2
<1> QED
  BY <1>6, <1>7, <1>8, <1>9, <1>10, <1>11 DEF CInv

LEMMA ReadKeeps ==
  ASSUME CInv, NEW p \in Procs, Read(p)
  PROVE  CInv'
<1> DEFINE r == IF ~Readable(file) THEN Idle ELSE Doing("apply", proc[p].cmd, file.segs)
<1>1. /\ proc[p].pc = "read" /\ proc' = [proc EXCEPT ![p] = r] /\ stale' = stale \ {p}
      /\ file' = file /\ raced' = raced /\ cut' = cut /\ mixed' = mixed /\ made' = made /\ sent' = sent
  BY DEF Read, Goto
<1>2. Typed /\ proc \in [Procs -> {Idle} \cup Running]
  BY DEF CInv, Typed
<1>3. proc'[p] = r /\ \A q \in Procs : q # p => proc'[q] = proc[q]
  BY <1>1, <1>2
<1>4. proc[p] \in Running /\ file.segs \in Seq(Segments) /\ file # Absent
      /\ (Readable(file) => file = Parsed(file.segs))
  <2>1. file # Absent
    BY <1>1 DEF CInv, NewIsEmpty
  <2> QED
    BY <1>1, <1>2, <2>1, Kinds
<1>5. \/ r = Idle
      \/ /\ r \in Running /\ r.pc = "apply" /\ r.conf = file.segs
         /\ file = Parsed(file.segs)
  BY <1>4 DEF Doing, Running, PCs
<1> HIDE DEF r
<1>6. Typed'
  BY <1>1, <1>2, <1>5 DEF Typed
<1>7. AllUnique'
  BY <1>1, <1>3, <1>5 DEF CInv, AllUnique
<1>8. UnreadableOnlyIfTorn'
  <2>1. \A q \in Procs : proc[q].pc \in {"def_write", "write"} =>
                           proc'[q].pc \in {"def_write", "write"}
    BY <1>1, <1>3
  <2> QED
    BY <1>1, <2>1 DEF CInv, UnreadableOnlyIfTorn, Writing, torn
<1>9. NewIsEmpty'
  BY <1>1, <1>4 DEF NewIsEmpty
<1>10. FileServes'
  BY <1>1 DEF CInv, FileServes, Serves, torn
<1>11. Fresh'
  <2> SUFFICES ASSUME NEW q \in Procs, q \notin stale' PROVE FreshCopy(proc[q])'
    BY DEF Fresh
  <2>1. CASE q = p
    BY <1>1, <1>3, <1>5, <2>1 DEF FreshCopy, Idle
  <2>2. CASE q # p
    <3>1. FreshCopy(proc[q]) /\ proc'[q] = proc[q]
      BY <1>1, <1>3, <2>2 DEF CInv, Fresh
    <3> QED
      BY <1>1, <3>1 DEF FreshCopy, NothingYet, Serves, torn
  <2> QED
    BY <2>1, <2>2
<1> QED
  BY <1>6, <1>7, <1>8, <1>9, <1>10, <1>11 DEF CInv

LEMMA CrashKeeps ==
  ASSUME CInv, NEW p \in Procs, Crash(p)
  PROVE  CInv'
<1>1. /\ proc' = [proc EXCEPT ![p] = Idle]
      /\ cut' = (cut \/ proc[p].pc \in {"def_write", "write"}) /\ mixed' = mixed
      /\ file' = file /\ raced' = raced /\ stale' = stale /\ made' = made /\ sent' = sent
  BY DEF Crash, Goto
<1>2. Typed /\ proc \in [Procs -> {Idle} \cup Running]
  BY DEF CInv, Typed
<1>3. proc'[p] = Idle /\ \A q \in Procs : q # p => proc'[q] = proc[q]
  BY <1>1, <1>2
<1>4. Typed'
  BY <1>1, <1>2 DEF Typed
<1>5. AllUnique'
  BY <1>1, <1>3 DEF CInv, AllUnique
<1>6. UnreadableOnlyIfTorn'
  <2> SUFFICES ASSUME ~Readable(file), ~torn'
               PROVE  \E q \in Procs : proc'[q].pc \in {"def_write", "write"}
    BY <1>1 DEF UnreadableOnlyIfTorn, Writing
  <2>1. PICK q \in Procs : proc[q].pc \in {"def_write", "write"}
    BY <1>1 DEF CInv, UnreadableOnlyIfTorn, Writing, torn
  <2>2. q # p
    BY <1>1, <2>1 DEF torn
  <2> QED
    BY <1>3, <2>1, <2>2
<1>7. NewIsEmpty'
  BY <1>1, <1>3 DEF CInv, NewIsEmpty, NothingYet, Idle
<1>8. FileServes'
  BY <1>1 DEF CInv, FileServes, Serves, torn
<1>9. Fresh'
  <2> SUFFICES ASSUME NEW q \in Procs, q \notin stale PROVE FreshCopy(proc[q])'
    BY <1>1 DEF Fresh
  <2>1. CASE q = p
    BY <1>3, <2>1 DEF FreshCopy, Idle
  <2>2. CASE q # p
    <3>1. FreshCopy(proc[q]) /\ proc'[q] = proc[q]
      BY <1>3, <2>2 DEF CInv, Fresh
    <3> QED
      BY <1>1, <3>1 DEF FreshCopy, NothingYet, Serves, torn
  <2> QED
    BY <2>1, <2>2
<1> QED
  BY <1>4, <1>5, <1>6, <1>7, <1>8, <1>9 DEF CInv

LEMMA ApplyKeeps ==
  ASSUME CInv, NEW p \in Procs, Apply(p)
  PROVE  CInv'
<1> DEFINE c == proc[p].cmd
           conf == Changed(c, proc[p].conf)
           r == IF conf = << >> THEN Idle ELSE Doing("open", c, conf[1])
<1>1. /\ proc[p].pc = "apply" /\ proc' = [proc EXCEPT ![p] = r]
      /\ sent' = IF c.kind = "import" /\ p \notin stale
                   THEN [sent EXCEPT ![c.nixpkgs] = SegmentForPath(proc[p].conf, c.nixpkgs)]
                   ELSE sent
      /\ file' = file /\ raced' = raced /\ cut' = cut /\ mixed' = mixed /\ made' = made /\ stale' = stale
  BY DEF Apply, Goto
<1>2. Typed /\ proc \in [Procs -> {Idle} \cup Running] /\ sent \in [BOOLEAN -> Names \cup {NoName}]
  BY DEF CInv, Typed
<1>3. proc'[p] = r /\ \A q \in Procs : q # p => proc'[q] = proc[q]
  BY <1>1, <1>2
<1>4. /\ proc[p] \in Running /\ c \in Commands /\ proc[p].conf \in Seq(Segments)
      /\ proc[p] # Idle /\ file # Absent
  <2>1. file # Absent
    BY <1>1 DEF CInv, NewIsEmpty
  <2> QED
    BY <1>1, <1>2, <2>1, Kinds
<1>5. conf # << >> =>
        /\ conf = <<conf[1]>> /\ conf[1] \in Seq(Segments) /\ (~mixed => Unique(conf[1]))
        /\ c.kind \in {"create", "remove"}
  <2> SUFFICES ASSUME conf # << >>
               PROVE  /\ conf = <<conf[1]>> /\ conf[1] \in Seq(Segments)
                      /\ (~mixed => Unique(conf[1]))
                      /\ c.kind \in {"create", "remove"}
    OBVIOUS
  <2>1. conf = <<conf[1]>>
    BY <1>4, ChangeIs
  <2>2. ~mixed => Unique(proc[p].conf)
    BY <1>4 DEF CInv, AllUnique
  <2>3. \E new : new = conf[1] /\ Changed(c, proc[p].conf) = <<new>>
    BY <2>1
  <2> QED
    BY <1>2, <1>4, <2>1, <2>2, <2>3, ChangeServes
<1>6. \/ r = Idle
      \/ /\ r \in Running /\ r.pc = "open" /\ (~mixed => Unique(r.conf)) /\ r.cmd = c
         /\ Changed(c, proc[p].conf) = <<r.conf>> /\ c.kind \in {"create", "remove"}
  <2>1. CASE conf = << >>
    BY <2>1
  <2>2. CASE conf # << >>
    <3>1. r = Doing("open", c, conf[1])
      BY <2>2
    <3>2. r.pc = "open" /\ r.conf = conf[1] /\ r.cmd = c
      BY <3>1 DEF Doing
    <3>3. r \in Running
      <4> HIDE DEF conf, c, r
      <4> QED
        BY <1>4, <1>5, <2>2, <3>1 DEF Doing, Running, PCs
    <3> QED
      BY <1>5, <2>2, <3>2, <3>3
  <2> QED
    BY <2>1, <2>2
<1>7. ASSUME NEW q \in Procs \ stale, proc[q].pc = "apply"
      PROVE  file = Parsed(proc[q].conf) /\ file.segs = proc[q].conf
  BY <1>2, <1>7, Kinds DEF CInv, Fresh, FreshCopy
<1> HIDE DEF r, conf
<1>8. /\ sent' \in [BOOLEAN -> Names \cup {NoName}]
      /\ \A b \in BOOLEAN : sent'[b] = sent[b] \/ (p \notin stale /\ sent'[b] = SegmentForPath(file.segs, b))
  <2>1. CASE c.kind = "import" /\ p \notin stale
    <3>1. c.nixpkgs \in BOOLEAN
      BY <1>4, <2>1 DEF Commands
    <3>2. sent' = [sent EXCEPT ![c.nixpkgs] = SegmentForPath(file.segs, c.nixpkgs)]
      BY <1>1, <1>7, <2>1
    <3>3. SegmentForPath(file.segs, c.nixpkgs) \in Names \cup {NoName}
      <4>1. file.segs \in Seq(Segments)
        BY <1>2, Kinds
      <4>2. CASE SegmentForPath(file.segs, c.nixpkgs) # NoName
        <5>1. PICK i : First(file.segs, c.nixpkgs, i)
          BY <3>1, <4>1, <4>2, FirstRoutes
        <5>2. SegmentForPath(file.segs, c.nixpkgs) = file.segs[i].name /\ i \in DOMAIN file.segs
          BY <3>1, <4>1, <5>1, FirstRoutes DEF First
        <5>3. file.segs[i] \in Segments
          BY <4>1, <5>2
        <5> QED
          BY <5>2, <5>3 DEF Segments
      <4> QED
        BY <4>2
    <3> HIDE DEF c
    <3> QED
      BY <1>2, <2>1, <3>1, <3>2, <3>3
  <2>2. CASE ~ (c.kind = "import" /\ p \notin stale)
    BY <1>1, <1>2, <2>2
  <2> QED
    BY <2>1, <2>2
<1>9. Typed'
  <2>1. proc' \in [Procs -> {Idle} \cup Running]
    BY <1>1, <1>2, <1>6
  <2> QED
    BY <1>1, <1>2, <1>8, <2>1 DEF Typed
<1>10. AllUnique'
  BY <1>1, <1>3, <1>6 DEF CInv, AllUnique
<1>11. UnreadableOnlyIfTorn'
  <2>1. \A q \in Procs : proc[q].pc \in {"def_write", "write"} =>
                           proc'[q].pc \in {"def_write", "write"}
    BY <1>1, <1>3
  <2> QED
    BY <1>1, <2>1 DEF CInv, UnreadableOnlyIfTorn, Writing, torn
<1>12. NewIsEmpty'
  BY <1>1, <1>4 DEF NewIsEmpty
<1>13. FileServes'
  <2> SUFFICES ASSUME file.is = "parsed", ~raced, ~torn
               PROVE  Serves(file.segs, made, {NoName})'
    BY <1>1 DEF FileServes, torn
  <2>1. Serves(file.segs, made, {NoName})
    BY DEF CInv, FileServes
  <2> QED
    BY <1>1, <1>8, <2>1 DEF Serves
<1>14. Fresh'
  <2> SUFFICES ASSUME NEW q \in Procs, q \notin stale PROVE FreshCopy(proc[q])'
    BY <1>1 DEF Fresh
  <2>1. CASE q = p
    <3>1. file = Parsed(proc[p].conf) /\ file.segs = proc[p].conf /\ file.is = "parsed"
      BY <1>1, <1>2, <1>7, <2>1, Kinds
    <3>2. \/ r = Idle
          \/ r.pc = "open" /\ Changed(r.cmd, file.segs) = <<r.conf>>
      BY <1>6, <3>1
    <3> QED
      BY <1>1, <1>3, <2>1, <3>1, <3>2 DEF FreshCopy, Idle
  <2>2. CASE q # p
    <3>1. FreshCopy(proc[q]) /\ proc'[q] = proc[q]
      BY <1>3, <2>2 DEF CInv, Fresh
    <3>2. CASE p \in stale
      <4>1. sent' = sent
        BY <1>1, <3>2
      <4> QED
        BY <1>1, <3>1, <4>1 DEF FreshCopy, NothingYet, Serves, torn
    <3>3. CASE p \notin stale
      <4>1. file # Empty
        BY <1>1, <1>2, <1>7, <3>3, Kinds
      <4>2. proc[q].pc \notin {"def_write", "write"}
        BY <3>1, <4>1 DEF FreshCopy
      <4> QED
        BY <1>1, <3>1, <4>2 DEF FreshCopy
    <3> QED
      BY <3>2, <3>3
  <2> QED
    BY <2>1, <2>2
<1> QED
  BY <1>9, <1>10, <1>11, <1>12, <1>13, <1>14 DEF CInv

(* Whoever else holds a copy, holds a stale one after a write.              *)
LEMMA OthersStale ==
  ASSUME Typed, NEW p \in Procs, NEW r, proc' = [proc EXCEPT ![p] = r],
         stale' = stale \cup Others(p)
  PROVE  /\ proc'[p] = r /\ \A q \in Procs : q # p => proc'[q] = proc[q]
         /\ \A q \in Procs : q \notin stale' => q = p \/ proc'[q] = Idle
         /\ stale' \subseteq Procs
         /\ p \in stale' <=> p \in stale
BY DEF Others, Typed

LEMMA OpenKeeps ==
  ASSUME CInv, NEW p \in Procs, Open(p)
  PROVE  CInv'
<1> PICK to : to = IF proc[p].pc = "open" THEN "write" ELSE "def_write"
  OBVIOUS
<1> PICK r : r = [proc[p] EXCEPT !.pc = to]
  OBVIOUS
<1>1. /\ proc[p].pc \in {"def_open", "open"} /\ file' = Empty
      /\ stale' = stale \cup Others(p) /\ raced' = (raced \/ p \in stale)
      /\ cut' = cut /\ mixed' = mixed /\ made' = made /\ sent' = sent
  BY DEF Open
<1>2. proc' = [proc EXCEPT ![p] = r]
  BY <1>1 DEF Open, GotoPc
<1>3. Typed /\ proc \in [Procs -> {Idle} \cup Running]
  BY DEF CInv, Typed
<1>4. /\ proc[p] \in Running /\ proc[p] # Idle /\ Empty # Absent
      /\ Empty.segs = << >> /\ Empty.is = "empty" /\ Idle.pc = "idle"
      /\ file.segs \in Seq(Segments)
      /\ proc[p].cmd \in Commands
  BY <1>1, <1>3, Kinds
<1>5. /\ r \in Running /\ r.pc = to /\ r.cmd = proc[p].cmd /\ r.conf = proc[p].conf
  BY <1>4 DEF Running, PCs
<1>6. /\ proc'[p] = r /\ \A q \in Procs : q # p => proc'[q] = proc[q]
      /\ \A q \in Procs : q \notin stale' => q = p \/ proc'[q] = Idle
      /\ stale' \subseteq Procs /\ (p \in stale' <=> p \in stale)
  BY <1>1, <1>2, <1>3, OthersStale
<1>7. Typed'
  <2>1. proc' \in [Procs -> {Idle} \cup Running] /\ raced' \in BOOLEAN
    BY <1>1, <1>2, <1>3, <1>5 DEF Typed
  <2> QED
    BY <1>1, <1>3, <1>6, <2>1 DEF Typed
<1>8. AllUnique'
  <2>1. DOMAIN << >> = {}
    OBVIOUS
  <2>2. DOMAIN file'.segs = {}
    BY Zenon, <1>1, <1>4, <2>1
  <2>3. Unique(file.segs)'
    BY <2>2 DEF Unique
  <2>4. ~mixed => \A q \in Procs : proc'[q] # Idle => Unique(proc'[q].conf)
    BY <1>4, <1>5, <1>6 DEF CInv, AllUnique
  <2> QED
    BY <1>1, <2>3, <2>4 DEF AllUnique, Unique
<1>9. UnreadableOnlyIfTorn'
  <2>1. proc'[p].pc \in {"def_write", "write"}
    BY <1>5, <1>6
  <2> QED
    BY <2>1 DEF UnreadableOnlyIfTorn, Writing
<1>10. NewIsEmpty' /\ FileServes'
  BY <1>1, <1>4 DEF NewIsEmpty, FileServes
<1>11. ASSUME p \notin stale
       PROVE  FreshCopy(r)'
  <2>1. FreshCopy(proc[p]) /\ ~raced' = ~raced /\ (torn' <=> torn)
    BY <1>1, <1>11 DEF CInv, Fresh, Typed, torn
  <2>2. CASE proc[p].pc = "def_open"
    <3>1. NothingYet
      BY <2>1, <2>2 DEF FreshCopy, CInv, NewIsEmpty
    <3>2. NothingYet' /\ r.pc = "def_write"
      BY <1>1, <1>5, <2>2, <3>1 DEF NothingYet
    <3> QED
      BY <1>1, <3>2 DEF FreshCopy, Empty
  <2>3. CASE proc[p].pc = "open"
    <3>1. file.is = "parsed" /\ Changed(r.cmd, file.segs) = <<r.conf>>
      BY <1>5, <2>1, <2>3 DEF FreshCopy
    <3>2. ~raced /\ ~torn => Serves(file.segs, made, {NoName})
      BY <3>1 DEF CInv, FileServes
    <3>3. ~raced /\ ~torn =>
            /\ r.cmd.kind = "create" => Serves(r.conf, made \cup {r.cmd.seg.name}, {NoName})
            /\ r.cmd.kind = "remove" => Serves(r.conf, made \ {r.cmd.name}, {NoName, r.cmd.name})
      BY <1>3, <1>4, <1>5, <3>1, <3>2, ChangeServes
    <3>4. r.pc = "write"
      BY <1>5, <2>3
    <3>5. ~raced' /\ ~torn' =>
            /\ r.cmd.kind = "create" => Serves(r.conf, made \cup {r.cmd.seg.name}, {NoName})'
            /\ r.cmd.kind = "remove" => Serves(r.conf, made \ {r.cmd.name}, {NoName, r.cmd.name})'
      BY <1>1, <2>1, <3>3 DEF Serves
    <3>6. (file = Empty)'
      BY <1>1 DEF Empty
    <3> QED
      BY <3>4, <3>5, <3>6 DEF FreshCopy
  <2> QED
    BY <1>1, <2>2, <2>3
<1>12. Fresh'
  <2> SUFFICES ASSUME NEW q \in Procs, q \notin stale' PROVE FreshCopy(proc[q])'
    BY DEF Fresh
  <2>1. CASE q = p
    <3>1. FreshCopy(r)' /\ proc'[q] = r
      BY <1>6, <1>11, <2>1
    <3> QED
      BY <3>1 DEF FreshCopy, NothingYet, Serves
  <2>2. CASE q # p
    BY <1>6, <2>2, IdleIsFresh DEF FreshCopy
  <2> QED
    BY <2>1, <2>2
<1> QED
  BY <1>7, <1>8, <1>9, <1>10, <1>12 DEF CInv

(* What a part of a list, and a mixture of two, can be. *)
LEMMA PartIs ==
  ASSUME NEW segs \in Seq(Segments), NEW i \in Nat \ {0}, NEW j \in 0..Len(segs)
  PROVE  /\ SubSeq(segs, i, j) \in Seq(Segments)
         /\ Unique(segs) /\ i = 1 => Unique(SubSeq(segs, i, j))
<1>1. SubSeq(segs, i, j) \in Seq(Segments)
  <2>1. i \in Int /\ j \in Int /\ \A k \in i..j : segs[k] \in Segments
    OBVIOUS
  <2> QED
    BY <2>1, SubSeqProperties
<1>2. ASSUME Unique(segs), i = 1
      PROVE  Unique(SubSeq(segs, 1, j))
  <2>1. /\ DOMAIN SubSeq(segs, 1, j) = 1..j /\ DOMAIN segs = 1..Len(segs)
        /\ \A k \in 1..j : k \in 1..Len(segs) /\ SubSeq(segs, 1, j)[k] = segs[k]
    OBVIOUS
  <2> QED
    BY <1>2, <2>1 DEF Unique
<1> QED
  BY <1>1, <1>2

LEMMA MixtureIs ==
  ASSUME Typed, NEW segs \in Seq(Segments), NEW f \in Mixtures(segs)
  PROVE  \E s \in Seq(Segments) : f = Parsed(s) \/ f = Garbled(s)
<1>1. file.segs \in Seq(Segments) /\ Len(file.segs) \in 0..Len(file.segs)
  BY Kinds
<1>2. ASSUME NEW t \in Tails(segs)
      PROVE  t \in Seq(Segments)
  <2>1. << >> \in Seq(Segments)
    OBVIOUS
  <2>2. t = << >> \/ \E i \in Nat \ {0} : t = SubSeq(file.segs, i, Len(file.segs))
    BY <1>1 DEF Tails
  <2> QED
    BY <1>1, <2>1, <2>2, PartIs
<1>3. \E t \in Tails(segs) : f = Garbled(t) \/ f = Parsed(segs \o t)
  BY DEF Mixtures
<1>4. \A t \in Seq(Segments) : segs \o t \in Seq(Segments)
  OBVIOUS
<1> QED
  BY <1>2, <1>3, <1>4

LEMMA WriteKeeps ==
  ASSUME CInv, NEW p \in Procs, Write(p)
  PROVE  CInv'
<1> PICK conf : conf = proc[p].conf
  OBVIOUS
<1> PICK c : c = proc[p].cmd
  OBVIOUS
<1> PICK r : r = IF proc[p].pc = "write" THEN Idle ELSE [proc[p] EXCEPT !.pc = "apply"]
  OBVIOUS
<1>1. /\ proc[p].pc \in {"def_write", "write"}
      /\ file' \in {Parsed(conf)} \cup IF file = Empty THEN {} ELSE Mixtures(conf)
      /\ mixed' = (mixed \/ file # Empty) /\ cut' = cut
      /\ stale' = stale \cup Others(p) /\ raced' = (raced \/ p \in stale)
  BY DEF Write
<1>2. proc' = [proc EXCEPT ![p] = r]
  BY <1>1 DEF Write, Goto, GotoPc
<1>3. Typed /\ proc \in [Procs -> {Idle} \cup Running]
  BY DEF CInv, Typed
<1>4. /\ proc[p] \in Running /\ proc[p] # Idle /\ conf \in Seq(Segments) /\ c \in Commands
      /\ Idle.pc = "idle"
  BY <1>1, <1>3, Kinds
<1>5. /\ proc[p].pc = "write" => r = Idle
      /\ proc[p].pc = "def_write" =>
           r \in Running /\ r.pc = "apply" /\ r.cmd = c /\ r.conf = conf
  BY <1>4 DEF Running, PCs
<1>6. /\ proc'[p] = r /\ \A q \in Procs : q # p => proc'[q] = proc[q]
      /\ \A q \in Procs : q \notin stale' => q = p \/ proc'[q] = Idle
      /\ stale' \subseteq Procs /\ (p \in stale' <=> p \in stale)
  BY <1>1, <1>2, <1>3, OthersStale
<1>7. \/ file' = Parsed(conf) /\ file'.segs = conf /\ file'.is = "parsed"
      \/ /\ file # Empty
         /\ \E t \in Seq(Segments) : file' = Parsed(t) \/ file' = Garbled(t)
  <2>1. CASE file' = Parsed(conf)
    BY <1>3, <2>1, Kinds
  <2>2. CASE file' \in Mixtures(conf) /\ file # Empty
    BY <1>3, <1>4, <2>2, MixtureIs
  <2> QED
    BY <1>1, <2>1, <2>2
<1>8. /\ proc[p].pc = "def_write" => made' = made /\ sent' = sent
      /\ proc[p].pc = "write" =>
           \/ /\ c.kind = "create" /\ made' = made \cup {c.seg.name} /\ sent' = sent
           \/ /\ c.kind = "remove" /\ made' = made \ {c.name}
              /\ sent' = [b \in BOOLEAN |-> IF sent[b] = c.name THEN NoName ELSE sent[b]]
  <2>1. proc[p].pc = "def_write" => made' = made /\ sent' = sent
    BY DEF Write
  <2>2. CASE proc[p].pc = "write"
    BY <2>2 DEF Write
  <2> QED
    BY <1>1, <2>1, <2>2
<1>9. Typed'
  <2>1. proc' \in [Procs -> {Idle} \cup Running] /\ raced' \in BOOLEAN
        /\ cut' \in BOOLEAN /\ mixed' \in BOOLEAN
    BY <1>1, <1>2, <1>3, <1>5 DEF Typed
  <2>2. (\E segs \in Seq(Segments) : file = Parsed(segs) \/ file = Garbled(segs))'
    BY <1>4, <1>7 DEF Garbled, Parsed
  <2>3. made' \subseteq Names /\ sent' \in [BOOLEAN -> Names \cup {NoName}]
    <3>1. c.kind = "create" => c.seg.name \in Names
      BY <1>4 DEF Commands
    <3>2. made \subseteq Names /\ sent \in [BOOLEAN -> Names \cup {NoName}]
      BY <1>3 DEF Typed
    <3> QED
      BY <1>1, <1>8, <3>1, <3>2
  <2> QED
    BY <1>6, <2>1, <2>2, <2>3 DEF Typed
<1>10. AllUnique'
  <2> SUFFICES ASSUME ~mixed' PROVE AllUnique'
    BY DEF AllUnique
  <2>1. ~mixed /\ file' = Parsed(conf) /\ file'.segs = conf
    BY <1>1, <1>7
  <2>2. Unique(conf)
    BY <1>4, <2>1 DEF CInv, AllUnique
  <2>3. Unique(file.segs)'
    BY <2>1, <2>2 DEF Unique
  <2>4. \A q \in Procs : proc'[q] # Idle => Unique(proc'[q].conf)
    BY <1>1, <1>5, <1>6, <2>1, <2>2 DEF CInv, AllUnique
  <2> QED
    BY <2>3, <2>4 DEF AllUnique, Unique, Idle
<1>11. UnreadableOnlyIfTorn'
  <2>1. CASE file' = Parsed(conf)
    <3>1. Readable(file)'
      BY <2>1 DEF Readable, Parsed
    <3> QED
      BY <3>1 DEF UnreadableOnlyIfTorn
  <2>2. CASE file # Empty
    BY <1>1, <2>2 DEF UnreadableOnlyIfTorn, torn
  <2> QED
    BY <1>7, <2>1, <2>2
<1>12. NewIsEmpty'
  <2>1. (file # Absent)'
    BY <1>7 DEF Parsed, Garbled, Absent
  <2> QED
    BY <2>1 DEF NewIsEmpty
<1>13. p \notin stale => FreshCopy(proc[p])
  BY DEF CInv, Fresh
<1>14. FileServes'
  <2> SUFFICES ASSUME file'.is = "parsed", ~raced', ~torn'
               PROVE  Serves(file.segs, made, {NoName})'
    BY DEF FileServes
  <2>1. p \notin stale /\ ~raced /\ ~torn /\ file'.segs = conf
    BY <1>1, <1>7 DEF torn
  <2>2. CASE proc[p].pc = "def_write"
    BY <1>8, <1>13, <2>1, <2>2 DEF FreshCopy, NothingYet, Serves
  <2>3. CASE proc[p].pc = "write" /\ c.kind = "create"
    <3>1. Serves(conf, made \cup {c.seg.name}, {NoName})
      BY <1>13, <2>1, <2>3 DEF FreshCopy
    <3> QED
      BY <1>8, <2>1, <2>3, <3>1 DEF Serves
  <2>4. CASE proc[p].pc = "write" /\ c.kind = "remove"
    <3>1. Serves(conf, made \ {c.name}, {NoName, c.name})
      BY <1>13, <2>1, <2>4 DEF FreshCopy
    <3>2. made' = made \ {c.name}
          /\ \A b \in BOOLEAN : sent'[b] # NoName => sent'[b] = sent[b] /\ sent[b] # c.name
      BY <1>8, <2>4
    <3> QED
      BY <2>1, <3>1, <3>2 DEF Serves
  <2> QED
    BY <1>1, <1>8, <2>2, <2>3, <2>4
<1>15. Fresh'
  <2> SUFFICES ASSUME NEW q \in Procs, q \notin stale' PROVE FreshCopy(proc[q])'
    BY DEF Fresh
  <2>1. CASE q = p /\ proc[p].pc = "def_write"
    <3>1. file = Empty
      BY <1>6, <1>13, <2>1 DEF FreshCopy
    <3>2. file' = Parsed(conf)
      BY <1>7, <3>1
    <3>3. proc'[q].pc = "apply" /\ proc'[q].conf = conf
      BY <1>5, <1>6, <2>1
    <3> QED
      BY <3>2, <3>3 DEF FreshCopy, Parsed
  <2>2. CASE q # p \/ proc[p].pc = "write"
    <3>1. proc'[q] = Idle
      BY <1>5, <1>6, <2>2
    <3> QED
      BY <3>1 DEF FreshCopy, Idle
  <2> QED
    BY <1>1, <2>1, <2>2
<1> QED
  BY <1>9, <1>10, <1>11, <1>12, <1>14, <1>15 DEF CInv

(* A write that is cut off ends its command, and there is no promise left.  *)
LEMMA WriteCutKeeps ==
  ASSUME CInv, NEW p \in Procs, WriteCut(p)
  PROVE  CInv'
<1> PICK conf : conf = proc[p].conf
  OBVIOUS
<1>1. /\ proc[p].pc \in {"def_write", "write"}
      /\ proc' = [proc EXCEPT ![p] = Idle] /\ cut' = TRUE
      /\ mixed' = (mixed \/ file # Empty)
      /\ stale' = stale \cup Others(p) /\ raced' = (raced \/ p \in stale)
      /\ made' = made /\ sent' = sent
  BY DEF WriteCut, Goto
<1>2. Typed /\ proc \in [Procs -> {Idle} \cup Running]
  BY DEF CInv, Typed
<1>3. proc[p] # Idle /\ conf \in Seq(Segments)
  BY <1>1, <1>2, Kinds
<1>4. /\ proc'[p] = Idle /\ \A q \in Procs : q # p => proc'[q] = proc[q]
      /\ \A q \in Procs : q \notin stale' => q = p \/ proc'[q] = Idle
      /\ stale' \subseteq Procs
  BY <1>1, <1>2, OthersStale
<1>5. \E left \in Seq(Segments) :
        /\ file' \in {Parsed(left), Garbled(left)}
        /\ file = Empty /\ Unique(conf) => Unique(left)
  <2>1. PICK i \in 0..Len(conf) :
          file' \in {Garbled(<< >>)}
                     \cup (IF i = 0 THEN {} ELSE {Parsed(SubSeq(conf, 1, i))})
                     \cup (IF file = Empty THEN {} ELSE Mixtures(SubSeq(conf, 1, i)))
    BY DEF WriteCut
  <2> DEFINE part == SubSeq(conf, 1, i)
  <2>2. part \in Seq(Segments) /\ (Unique(conf) => Unique(part))
    BY <1>3, PartIs
  <2>3. << >> \in Seq(Segments) /\ Unique(<< >>)
    BY DEF Unique
  <2>4. file' = Garbled(<< >>) \/ file' = Parsed(part) \/ (file # Empty /\ file' \in Mixtures(part))
    BY <2>1
  <2> HIDE DEF part
  <2>5. CASE file' = Garbled(<< >>)
    BY <2>3, <2>5
  <2>6. CASE file' = Parsed(part)
    BY <2>2, <2>6
  <2>7. CASE file # Empty /\ file' \in Mixtures(part)
    BY <1>2, <2>2, <2>7, MixtureIs
  <2> QED
    BY <2>4, <2>5, <2>6, <2>7
<1>6. PICK left \in Seq(Segments) : /\ file' \in {Parsed(left), Garbled(left)}
                                    /\ file = Empty /\ Unique(conf) => Unique(left)
  BY <1>5
<1>7. file'.segs = left /\ file' # Absent
  BY <1>2, <1>6, Kinds
<1>8. Typed'
  <2>1. (\E segs \in Seq(Segments) : file = Parsed(segs) \/ file = Garbled(segs))'
    BY <1>6 DEF Parsed, Garbled
  <2>2. /\ proc' \in [Procs -> {Idle} \cup Running] /\ raced' \in BOOLEAN
        /\ cut' \in BOOLEAN /\ mixed' \in BOOLEAN
    BY <1>1, <1>2 DEF Typed
  <2> QED
    BY <1>1, <1>2, <1>4, <2>1, <2>2 DEF Typed
<1>9. AllUnique'
  <2> SUFFICES ASSUME ~mixed' PROVE AllUnique'
    BY DEF AllUnique
  <2>1. ~mixed /\ file = Empty
    BY <1>1
  <2>2. Unique(left)
    BY <1>3, <1>6, <2>1 DEF CInv, AllUnique
  <2>3. Unique(file.segs)'
    BY <1>7, <2>2 DEF Unique
  <2>4. \A q \in Procs : proc'[q] # Idle => Unique(proc'[q].conf)
    BY <1>4, <2>1 DEF CInv, AllUnique
  <2> QED
    BY <2>3, <2>4 DEF AllUnique, Unique, Idle
<1>10. UnreadableOnlyIfTorn' /\ FileServes'
  BY <1>1 DEF UnreadableOnlyIfTorn, FileServes, torn
<1>11. NewIsEmpty'
  <2>1. (file # Absent)'
    BY <1>7 DEF Absent
  <2> QED
    BY <2>1 DEF NewIsEmpty
<1>12. Fresh'
  <2> SUFFICES ASSUME NEW q \in Procs, q \notin stale' PROVE FreshCopy(proc[q])'
    BY DEF Fresh
  <2>1. proc'[q] = Idle
    BY <1>4
  <2> QED
    BY <2>1 DEF FreshCopy, Idle
<1> QED
  BY <1>8, <1>9, <1>10, <1>11, <1>12 DEF CInv

LEMMA StutterKeeps ==
  ASSUME CInv, UNCHANGED vars
  PROVE  CInv'
BY DEF CInv, Typed, AllUnique, UnreadableOnlyIfTorn, NewIsEmpty, NothingYet, FileServes, Serves,
       Fresh, FreshCopy, Writing, torn, vars

LEMMA Inductive == CInv /\ [Next]_vars => CInv'
<1> SUFFICES ASSUME CInv, [Next]_vars PROVE CInv'
  OBVIOUS
<1>1. CASE UNCHANGED vars
  BY <1>1, StutterKeeps
<1>2. ASSUME NEW p \in Procs, NEW c \in Commands, Load(p, c)
      PROVE  CInv'
  BY <1>2, LoadKeeps
<1>3. ASSUME NEW p \in Procs, Step(p)
      PROVE  CInv'
  BY <1>3, ReadKeeps, ApplyKeeps, OpenKeeps, WriteKeeps, WriteCutKeeps, CrashKeeps DEF Step
<1> QED
  BY <1>1, <1>2, <1>3 DEF Next

LEMMA AlwaysCInv == Spec => []CInv
BY CInvInit, Inductive, PTL DEF Spec

-----------------------------------------------------------------------------
(***************************************************************************)
(* Until a write goes over the bytes of another, the file never holds two  *)
(* segments of one name, wherever processes overlap and are killed: every  *)
(* list that is written was unique when it was changed, and so is a part   *)
(* of it (CacheConfig::add_segment, write_to).                             *)
(***************************************************************************)
THEOREM NamesStayUnique == Spec => []NamesUnique
<1>1. CInv => NamesUnique
  <2> SUFFICES ASSUME CInv, ~mixed PROVE NamesUnique
    BY DEF NamesUnique
  <2>1. Unique(file.segs)
    BY DEF CInv, AllUnique
  <2> QED
    BY <2>1 DEF NamesUnique, IsInjective, Unique
<1> QED
  BY <1>1, AlwaysCInv, PTL

(***************************************************************************)
(* Whenever no command is writing it, the file parses and has every        *)
(* segment that was created and not removed, for any number of processes,  *)
(* as long as no write was cut off or mixed with another and no command    *)
(* wrote a copy that another had written over (`topics create`, `topics    *)
(* join`).                                                                 *)
(***************************************************************************)
THEOREM CreatedStay == Spec => []KeptUnlessRaced
<1>1. CInv => KeptUnlessRaced
  <2> SUFFICES ASSUME CInv, ~raced, ~torn, ~Writing
               PROVE  made \subseteq SegmentNames(file.segs)
    BY DEF KeptUnlessRaced
  <2>1. Readable(file) /\ Typed
    BY DEF CInv, UnreadableOnlyIfTorn
  <2>2. CASE file = Absent
    BY <2>2 DEF CInv, NewIsEmpty, NothingYet
  <2>3. CASE file = Parsed(file.segs)
    <3>1. file.is = "parsed"
      BY <2>1, <2>3, Kinds
    <3> QED
      BY <3>1 DEF CInv, FileServes, Serves
  <2> QED
    BY <2>1, <2>2, <2>3, Kinds
<1> QED
  BY <1>1, AlwaysCInv, PTL

(***************************************************************************)
(* An unreadable file is being written, or a write of it was cut off by a  *)
(* crash or mixed with another one's (write_to).                           *)
(***************************************************************************)
THEOREM UnreadableCauses == Spec => []UnreadableOnlyIfTorn
<1>1. CInv => UnreadableOnlyIfTorn
  BY DEF CInv
<1> QED
  BY <1>1, AlwaysCInv, PTL

(***************************************************************************)
(* Paths go on to be sent to the segment they were sent to until that is   *)
(* removed, as long as no command writes, or imports by, a copy that       *)
(* another had written over, and no write was cut off or mixed             *)
(* (segment_for_path, add_segment, remove_segment).                        *)
(***************************************************************************)
THEOREM RoutesStay == Spec => RouteKept
<1> DEFINE RouteStays ==
                   \A p \in Procs, b \in BOOLEAN :
                     /\ Apply(p) /\ proc[p].cmd = [kind |-> "import", nixpkgs |-> b]
                     /\ sent[b] # NoName /\ ~raced /\ ~torn /\ p \notin stale
                     => sent'[b] = sent[b]
<1>1. CInv => RouteStays
  <2> SUFFICES ASSUME CInv, NEW p \in Procs, NEW b \in BOOLEAN, Apply(p),
                      proc[p].cmd = [kind |-> "import", nixpkgs |-> b],
                      sent[b] # NoName, ~raced, ~torn, p \notin stale
               PROVE  sent'[b] = sent[b]
    BY Zenon DEF RouteStays
  <2>1. Typed /\ sent \in [BOOLEAN -> Names \cup {NoName}]
    BY DEF CInv, Typed
  <2>2. proc[p].cmd.kind = "import" /\ proc[p].cmd.nixpkgs = b
    OBVIOUS
  <2>3. sent' = [sent EXCEPT ![b] = SegmentForPath(proc[p].conf, b)]
    BY <2>2 DEF Apply
  <2>4. file = Parsed(proc[p].conf)
    BY DEF CInv, Fresh, FreshCopy, Apply
  <2>5. file.is = "parsed" /\ file.segs = proc[p].conf
    BY <2>4 DEF Parsed
  <2>6. SegmentForPath(proc[p].conf, b) = sent[b]
    BY <2>5 DEF CInv, FileServes, Serves
  <2> QED
    BY <2>1, <2>3, <2>6
<1>2. Spec => [][RouteStays]_vars
  BY <1>1, AlwaysCInv, PTL DEF Spec
<1> QED
  BY <1>2 DEF RouteKept, RouteStays
=============================================================================
