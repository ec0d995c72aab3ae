----------------------------- MODULE GcRunProofs ----------------------------
(***************************************************************************)
(* Theorems about GcRun, for any finite set of paths, any sizes, limits    *)
(* and times, with either backend.                                         *)
(***************************************************************************)
EXTENDS GcRun, FiniteSetTheorems, WellFoundedInduction, TLAPS

-----------------------------------------------------------------------------
(***************************************************************************)
(* Sums.  What holds of the sizes of all sets of paths is shown by taking  *)
(* a least set of which it does not hold.                                  *)
(***************************************************************************)
LEMMA LeastNumber ==
  ASSUME NEW T \in SUBSET Nat, T # {}
  PROVE  \E n \in T : \A m \in T : n <= m
<1> DEFINE R == OpToRel(<, Nat)
<1>1. IsWellFoundedOn(R, Nat)
  BY NatLessThanWellFounded
<1>2. \A m, n \in Nat : <<m, n>> \in R <=> m < n
  BY DEF OpToRel
<1> HIDE DEF R
<1>3. PICK n \in T : \A m \in T : ~ (<<m, n>> \in R)
  BY <1>1, WFMin
<1>4. n \in Nat /\ \A m \in T : m \in Nat
  OBVIOUS
<1>5. \A m \in T : ~ (m < n)
  BY <1>2, <1>3, <1>4
<1> QED
  BY <1>4, <1>5

LEMMA LeastSet ==
  ASSUME NEW T \in SUBSET SUBSET Paths, T # {}
  PROVE  \E S \in T : /\ IsFiniteSet(S)
                      /\ \A x \in S : S \ {x} \notin T
<1>1. \A S \in T : S \subseteq Paths /\ IsFiniteSet(S) /\ Cardinality(S) \in Nat
  BY GcAssumption, FS_Subset, FS_CardinalityType
<1> DEFINE C == {Cardinality(S) : S \in T}
<1>2. C \in SUBSET Nat /\ C # {}
  BY <1>1
<1>3. PICK n \in C : \A m \in C : n <= m
  <2> HIDE DEF C
  <2> QED
    BY <1>2, LeastNumber
<1>4. PICK S \in T : Cardinality(S) = n
  BY <1>3
<1>5. ASSUME NEW x \in S, S \ {x} \in T
      PROVE  FALSE
  <2>1. Cardinality(S \ {x}) = n - 1
    BY <1>1, <1>4, FS_RemoveElement
  <2>2. n <= n - 1 /\ n \in Nat
    BY <1>1, <1>3, <1>4, <1>5, <2>1
  <2> QED
    BY <2>2
<1> QED
  BY <1>1, <1>4, <1>5

(* The function that MapThenSumSet sums with, over the subsets of P. *)
Pick(S) == CHOOSE p \in S : TRUE
Summed(S, f) == IF S = {} THEN 0 ELSE Size[Pick(S)] + f[S \ {Pick(S)}]
Sums(P) == CHOOSE f : f = [S \in SUBSET P |-> Summed(S, f)]

LEMMA BytesIsSum == ASSUME NEW P PROVE Bytes(P) = Sums(P)[P]
BY Zenon DEF Bytes, MapThenSumSet, MapThenFoldSet, Sums, Summed, Pick

(* There is such a function: it is built up from the smaller subsets. *)
LEMMA SumsExist ==
  ASSUME NEW P \in SUBSET Paths
  PROVE  Sums(P) = [S \in SUBSET P |-> Summed(S, Sums(P))]
<1> DEFINE Small(n) == {S \in SUBSET P : Cardinality(S) <= n}
           Is(f, n) == f = [S \in Small(n) |-> Summed(S, f)]
           Bad == {n \in Nat : ~\E f : Is(f, n)}
<1>1. \A S \in SUBSET P : IsFiniteSet(S) /\ Cardinality(S) \in Nat
  BY GcAssumption, FS_Subset, FS_CardinalityType
<1>2. Bad = {}
  <2> SUFFICES ASSUME Bad # {} PROVE FALSE
    OBVIOUS
  <2>1. PICK n \in Bad : \A m \in Bad : n <= m
    <3>1. Bad \in SUBSET Nat
      OBVIOUS
    <3> HIDE DEF Bad
    <3> QED
      BY <3>1, LeastNumber
  <2>2. n \in Nat /\ ~\E f : Is(f, n)
    BY <2>1
  <2>3. CASE n = 0
    <3> DEFINE f == [S \in Small(0) |-> 0]
    <3>1. ASSUME NEW S \in Small(0)
          PROVE  S = {}
      BY <1>1, FS_EmptySet
    <3>2. f = [S \in Small(0) |-> Summed(S, f)]
      BY <3>1 DEF Summed
    <3> QED
      BY <2>2, <2>3, <3>2
  <2>4. CASE n # 0
    <3>0. n - 1 \in Nat /\ ~ (n <= n - 1)
      BY <2>2, <2>4
    <3>1. n - 1 \in Nat /\ n - 1 \notin Bad
      <4> HIDE DEF Bad
      <4> QED
        BY <2>1, <3>0
    <3>2. PICK g : Is(g, n - 1)
      BY <3>1
    <3> DEFINE f == [S \in Small(n) |-> Summed(S, g)]
    <3>3. ASSUME NEW S \in Small(n)
          PROVE  Summed(S, g) = Summed(S, f)
      <4>1. CASE S = {}
        BY <4>1 DEF Summed
      <4>2. CASE S # {}
        <5> DEFINE R == S \ {Pick(S)}
        <5>1. Pick(S) \in S
          BY <4>2 DEF Pick
        <5>2. IsFiniteSet(S) /\ Cardinality(S) \in Nat /\ Cardinality(S) <= n
          BY <1>1
        <5>3. R \in SUBSET P /\ Cardinality(R) = Cardinality(S) - 1
          BY <5>1, <5>2, FS_RemoveElement
        <5>4. R \in Small(n - 1) /\ R \in Small(n)
          BY <2>2, <5>2, <5>3
        <5>5. g[R] = Summed(R, g)
          <6> HIDE DEF Small, R
          <6> QED
            BY <3>2, <5>4
        <5>6. f[R] = Summed(R, g)
          <6> HIDE DEF Small, R
          <6> QED
            BY <5>4
        <5> QED
          BY <4>2, <5>5, <5>6 DEF Summed
      <4> QED
        BY <4>1, <4>2
    <3>4. f = [S \in Small(n) |-> Summed(S, f)]
      BY <3>3
    <3> QED
      BY <2>2, <3>4
  <2> QED
    BY <2>3, <2>4
<1>3. PICK f : Is(f, Cardinality(P))
  BY <1>1, <1>2
<1>4. Small(Cardinality(P)) = SUBSET P
  <2>1. \A S \in SUBSET P : Cardinality(S) <= Cardinality(P)
    BY <1>1, FS_Subset
  <2> QED
    BY <2>1
<1>5. f = [S \in SUBSET P |-> Summed(S, f)]
  BY <1>3, <1>4
<1> QED
  BY <1>5 DEF Sums

LEMMA SumStep ==
  ASSUME NEW P \in SUBSET Paths, NEW S \in SUBSET P
  PROVE  Sums(P)[S] = Summed(S, Sums(P))
<1> DEFINE g == Sums(P)
<1>1. g = [T \in SUBSET P |-> Summed(T, g)]
  BY SumsExist
<1> HIDE DEF g
<1>2. g[S] = Summed(S, g)
  BY <1>1
<1> QED
  BY <1>2 DEF g

(* The sum of a set does not depend on what it is a subset of. *)
LEMMA SumsAgree ==
  ASSUME NEW P \in SUBSET Paths
  PROVE  \A S \in SUBSET P : Sums(P)[S] = Bytes(S)
<1> DEFINE Wrong == {S \in SUBSET Paths : \E Q \in SUBSET Paths :
                       S \subseteq Q /\ Sums(Q)[S] # Sums(S)[S]}
<1>1. Wrong = {}
  <2> SUFFICES ASSUME Wrong # {} PROVE FALSE
    OBVIOUS
  <2>1. Wrong \in SUBSET SUBSET Paths
    OBVIOUS
  <2>2. PICK S \in Wrong : \A x \in S : S \ {x} \notin Wrong
    <3> HIDE DEF Wrong
    <3> QED
      BY <2>1, LeastSet
  <2>3. S \in SUBSET Paths
    OBVIOUS
  <2>4. PICK Q \in SUBSET Paths : S \subseteq Q /\ Sums(Q)[S] # Sums(S)[S]
    OBVIOUS
  <2>5. Sums(Q)[S] = Summed(S, Sums(Q)) /\ Sums(S)[S] = Summed(S, Sums(S))
    BY <2>3, <2>4, SumStep
  <2>6. CASE S = {}
    BY <2>4, <2>5, <2>6 DEF Summed
  <2>7. CASE S # {}
    <3> DEFINE x == Pick(S)
               R == S \ {x}
    <3>1. x \in S
      BY <2>7 DEF Pick
    <3>2. R \in SUBSET Paths /\ R \subseteq S /\ R \subseteq Q /\ R \notin Wrong
      <4> HIDE DEF Wrong
      <4> QED
        BY <2>2, <2>3, <2>4, <3>1
    <3> HIDE DEF R, x
    <3>3. Sums(Q)[R] = Sums(R)[R] /\ Sums(S)[R] = Sums(R)[R]
      BY <2>3, <3>2
    <3>4. Sums(Q)[S] = Size[x] + Sums(Q)[R] /\ Sums(S)[S] = Size[x] + Sums(S)[R]
      BY <2>5, <2>7 DEF Summed, R, x
    <3> QED
      BY <2>4, <3>3, <3>4
  <2> QED
    BY <2>6, <2>7
<1>2. \A S \in SUBSET P : Sums(P)[S] = Sums(S)[S]
  BY <1>1
<1> QED
  BY <1>2, BytesIsSum

LEMMA BytesNone == Bytes({}) = 0
BY SumStep, SumsAgree DEF Summed

LEMMA BytesPick ==
  ASSUME NEW S \in SUBSET Paths, S # {}
  PROVE  Pick(S) \in S /\ Bytes(S) = Size[Pick(S)] + Bytes(S \ {Pick(S)})
<1>1. Pick(S) \in S
  BY DEF Pick
<1>2. Sums(S)[S] = Size[Pick(S)] + Sums(S)[S \ {Pick(S)}]
  BY SumStep DEF Summed
<1>3. Sums(S)[S] = Bytes(S) /\ Sums(S)[S \ {Pick(S)}] = Bytes(S \ {Pick(S)})
  BY SumsAgree
<1> QED
  BY <1>1, <1>2, <1>3

LEMMA BytesNat ==
  ASSUME NEW P \in SUBSET Paths
  PROVE  Bytes(P) \in Nat
<1> DEFINE Wrong == {S \in SUBSET Paths : Bytes(S) \notin Nat}
<1> SUFFICES ASSUME Wrong # {} PROVE FALSE
  OBVIOUS
<1>1. PICK S \in Wrong : \A x \in S : S \ {x} \notin Wrong
  <2>1. Wrong \in SUBSET SUBSET Paths
    OBVIOUS
  <2> HIDE DEF Wrong
  <2> QED
    BY <2>1, LeastSet
<1>2. S # {}
  BY BytesNone
<1>3. Pick(S) \in S /\ Bytes(S) = Size[Pick(S)] + Bytes(S \ {Pick(S)})
  BY <1>2, BytesPick
<1>4. Bytes(S \ {Pick(S)}) \in Nat
  BY <1>1, <1>3
<1>5. Size[Pick(S)] \in Nat
  BY <1>3, GcAssumption
<1> QED
  BY <1>3, <1>4, <1>5

(* Whichever path is taken out of the sum, the rest is the same. *)
LEMMA BytesRemove ==
  ASSUME NEW P \in SUBSET Paths, NEW x \in P
  PROVE  Bytes(P) = Size[x] + Bytes(P \ {x})
<1> DEFINE Wrong == {S \in SUBSET Paths :
                       \E y \in S : Bytes(S) # Size[y] + Bytes(S \ {y})}
<1> SUFFICES ASSUME Wrong # {} PROVE FALSE
  OBVIOUS
<1>1. PICK S \in Wrong : \A y \in S : S \ {y} \notin Wrong
  <2>1. Wrong \in SUBSET SUBSET Paths
    OBVIOUS
  <2> HIDE DEF Wrong
  <2> QED
    BY <2>1, LeastSet
<1>2. PICK y \in S : Bytes(S) # Size[y] + Bytes(S \ {y})
  OBVIOUS
<1>3. S \in SUBSET Paths /\ S # {}
  BY <1>2
<1> DEFINE z == Pick(S)
<1>4. z \in S /\ Bytes(S) = Size[z] + Bytes(S \ {z})
  BY <1>3, BytesPick
<1> HIDE DEF z
<1>5. y # z
  BY <1>2, <1>4
<1>6. S \ {y} \notin Wrong /\ S \ {z} \notin Wrong
  BY <1>1, <1>2, <1>4
<1>7. z \in S \ {y} /\ y \in S \ {z} /\ S \ {y} \in SUBSET Paths /\ S \ {z} \in SUBSET Paths
  BY <1>2, <1>3, <1>4, <1>5
<1>8. /\ Bytes(S \ {y}) = Size[z] + Bytes((S \ {y}) \ {z})
      /\ Bytes(S \ {z}) = Size[y] + Bytes((S \ {z}) \ {y})
  BY <1>6, <1>7
<1> DEFINE R == (S \ {y}) \ {z}
<1>9. (S \ {z}) \ {y} = R /\ R \in SUBSET Paths
  BY <1>3
<1>10. Bytes(R) \in Nat /\ Size[y] \in Nat /\ Size[z] \in Nat
  BY <1>2, <1>3, <1>4, <1>9, BytesNat, GcAssumption
<1> HIDE DEF R
<1>11. Bytes(S \ {y}) = Size[z] + Bytes(R) /\ Bytes(S \ {z}) = Size[y] + Bytes(R)
  BY <1>8, <1>9 DEF R
<1> QED
  BY <1>2, <1>4, <1>10, <1>11

LEMMA BytesMonotone ==
  ASSUME NEW P \in SUBSET Paths, NEW Q \in SUBSET P
  PROVE  Bytes(Q) <= Bytes(P)
<1> DEFINE Wrong == {S \in SUBSET Paths : Q \subseteq S /\ ~ (Bytes(Q) <= Bytes(S))}
<1> SUFFICES ASSUME Wrong # {} PROVE FALSE
  OBVIOUS
<1>1. PICK S \in Wrong : \A y \in S : S \ {y} \notin Wrong
  <2>1. Wrong \in SUBSET SUBSET Paths
    OBVIOUS
  <2> HIDE DEF Wrong
  <2> QED
    BY <2>1, LeastSet
<1>2. S \in SUBSET Paths /\ Q \subseteq S /\ ~ (Bytes(Q) <= Bytes(S))
  OBVIOUS
<1>3. Bytes(Q) \in Nat /\ Bytes(S) \in Nat
  BY <1>2, BytesNat
<1>4. PICK y \in S : y \notin Q
  <2>1. Q # S
    BY <1>2, <1>3
  <2> QED
    BY <1>2, <2>1
<1>5. S \ {y} \notin Wrong /\ S \ {y} \in SUBSET Paths /\ Q \subseteq S \ {y}
  BY <1>1, <1>2, <1>4
<1>6. Bytes(Q) <= Bytes(S \ {y})
  BY <1>5
<1>7. Bytes(S) = Size[y] + Bytes(S \ {y}) /\ Size[y] \in Nat /\ Bytes(S \ {y}) \in Nat
  BY <1>2, <1>4, <1>5, BytesRemove, BytesNat, GcAssumption
<1> QED
  BY <1>2, <1>3, <1>6, <1>7

LEMMA BytesAdd ==
  ASSUME NEW P \in SUBSET Paths, NEW x \in Paths \ P
  PROVE  Bytes(P \cup {x}) = Size[x] + Bytes(P)
<1> DEFINE Q == P \cup {x}
<1>1. Q \in SUBSET Paths /\ x \in Q /\ Q \ {x} = P
  OBVIOUS
<1> HIDE DEF Q
<1>2. Bytes(Q) = Size[x] + Bytes(P)
  BY <1>1, BytesRemove
<1> QED
  BY <1>2 DEF Q

-----------------------------------------------------------------------------
EntryType == [path : Paths, size : Nat, mtime : Nat]

PCs == {"off", "collect_age", "age", "audit_age",
        "collect_size", "size", "audit_size", "done"}

GcType == [pc : PCs, age : Ages \cup {None}, max : SizeArgs \cup {None},
           audit : BOOLEAN, cutoff : Int, todo : Seq(EntryType), current : Int,
           removed : SUBSET Paths, freed : Int, gone : Int,
           missed : [age : SUBSET Paths, size : SUBSET Paths], unlogged : SUBSET Paths]

Typed ==
  /\ clock \in Nat
  /\ mtime \in [Paths -> Nat \cup {None}]
  /\ db \subseteq Paths
  /\ gc \in GcType
  /\ log \subseteq Paths /\ since \subseteq Paths

Auditing == gc.pc \in {"audit_age", "audit_size"}

(* The entries still to be looked at, and their paths. *)
Queue == IF Auditing THEN Tail(gc.todo) ELSE gc.todo
Waiting == {Queue[i].path : i \in DOMAIN Queue}

(* What the loops work on: each path once, with its size. *)
Queued ==
  /\ Auditing => gc.todo # << >>
  /\ gc.pc \in {"off", "collect_age", "collect_size", "done"} => gc.todo = << >>
  /\ gc.pc \in {"collect_age", "age", "audit_age"} => gc.age # None
  /\ gc.pc \in {"collect_size", "size", "audit_size"} => gc.max # None
  /\ \A i \in DOMAIN Queue : Queue[i].size = Size[Queue[i].path]
  /\ \A i, j \in DOMAIN Queue : Queue[i].path = Queue[j].path => i = j

(* A file is there until this gc removes it, so that each is counted once. *)
Counted ==
  backend = "filesystem" =>
    /\ \A p \in Waiting : HasFile(p)
    /\ gc.freed = gc.gone + Bytes(gc.missed.age) + Bytes(gc.missed.size)

(* What could not be removed does not wait any more in that pass. *)
Missed ==
  /\ gc.pc = "collect_age" => gc.missed.age = {}
  /\ gc.pc \in {"age", "audit_age"} => gc.missed.age \cap Waiting = {}
  /\ gc.pc \in {"collect_age", "age", "audit_age", "collect_size"} => gc.missed.size = {}
  /\ gc.pc \in {"size", "audit_size"} => gc.missed.size \cap Waiting = {}

(* --max-age: the entries that are as old as that wait for their removal;   *)
(* what else is there has been written since, or was not so old, or could   *)
(* not be removed.                                                         *)
OldGo ==
  gc.age # None =>
    /\ gc.cutoff <= clock \/ gc.pc \in {"collect_age", "off"}
    /\ backend = "filesystem" /\ gc.pc \notin {"off", "collect_age"} =>
         \A p \in Listed : \/ Mtime(p) >= gc.cutoff
                           \/ gc.pc \in {"age", "audit_age"} /\ p \in Waiting
                           \/ p \in gc.missed.age
    /\ backend = "filesystem" /\ gc.pc \in {"age", "audit_age"} =>
         \A p \in Waiting : p \in since \/ Mtime(p) < gc.cutoff

(* --max-size: what gc has collected, not removed, and nobody has used      *)
(* since is waiting, and current is the size of what is waiting.           *)
Measured ==
  gc.pc \in {"size", "audit_size"} =>
    /\ gc.current = Bytes(Waiting)
    /\ Listed \ (gc.removed \cup since) \subseteq Waiting
    /\ Sorted(Queue)
    /\ backend = "filesystem" =>
         /\ Listed \ (since \cup gc.missed.size) \subseteq Waiting
         /\ \A i \in DOMAIN Queue : \/ Queue[i].path \in since
                                    \/ Queue[i].mtime = Mtime(Queue[i].path)

GInv == /\ Typed /\ Queued /\ Counted /\ Missed /\ OldGo /\ Measured
        /\ BoundMet /\ RemovalsAudited

-----------------------------------------------------------------------------
(* Limits. *)
LEMMA MaxOfZero == ASSUME NEW n \in Int PROVE Max({0, n}) = IF n > 0 THEN n ELSE 0
BY DEF Max

LEMMA MinOfTwo ==
  ASSUME NEW m \in Int, NEW n \in Int
  PROVE  Min({m, n}) = IF m <= n THEN m ELSE n
BY DEF Min

(* What parse_size reads is, in halves, no more than was asked, and less by *)
(* no whole byte unless it is cut to a u64.                                 *)
LEMMA ParseRounds ==
  ASSUME NEW arg \in SizeArgs
  PROVE  /\ ParseSize(arg) \in Nat /\ Asked2(arg) \in Nat
         /\ 2 * ParseSize(arg) <= Asked2(arg)
         /\ \A n \in Nat : n > ParseSize(arg) =>
              2 * n > Asked2(arg) \/ Asked2(arg) > 2 * MaxU64
<1>1. /\ arg.num \in {"finite", "nan", "inf"} /\ arg.half \in Int /\ arg.unit \in Nat
      /\ MaxU64 \in Nat
  BY GcAssumption DEF SizeArg
<1>2. CASE arg.num = "nan"
  BY <1>1, <1>2 DEF ParseSize, Asked2
<1>3. CASE arg.num = "inf"
  BY <1>1, <1>3 DEF ParseSize, Asked2
<1>4. CASE arg.num = "finite"
  <2> DEFINE h == arg.half * arg.unit
             d == h \div 2
             m == IF d > 0 THEN d ELSE 0
  <2>1. h \in Int
    BY <1>1
  <2> HIDE DEF h
  <2>2. d \in Int /\ 2 * d <= h /\ h < 2 * d + 2
    BY <2>1
  <2> HIDE DEF d
  <2>3. ParseSize(arg) = Min({MaxU64, Max({0, d})}) /\ Asked2(arg) = Max({0, h})
    BY <1>4 DEF ParseSize, Asked2, d, h
  <2>4. Max({0, d}) = m /\ Asked2(arg) = IF h > 0 THEN h ELSE 0
    BY <2>1, <2>2, <2>3, MaxOfZero
  <2>5. m \in Int
    BY <2>2
  <2>6. ParseSize(arg) = IF MaxU64 <= m THEN MaxU64 ELSE m
    <3>1. ParseSize(arg) = Min({MaxU64, m})
      BY <2>3, <2>4
    <3> HIDE DEF m
    <3>2. Min({MaxU64, m}) = IF MaxU64 <= m THEN MaxU64 ELSE m
      BY <1>1, <2>5, MinOfTwo
    <3> QED
      BY <3>1, <3>2
  <2> QED
    BY <1>1, <2>1, <2>2, <2>4, <2>6
<1> QED
  BY <1>1, <1>2, <1>3, <1>4

-----------------------------------------------------------------------------
(* Listings. *)
LEMMA ListedPaths ==
  ASSUME Typed
  PROVE  Listed \subseteq Paths /\ \A p \in Paths : Mtime(p) \in Nat
<1>1. \A p \in Paths : mtime[p] \in Nat \cup {None}
  BY DEF Typed
<1> QED
  BY <1>1 DEF Typed, Listed, Mtime, HasFile

(* A listing has each path once, with its size and its time. *)
LEMMA Listing ==
  ASSUME Typed, NEW P \in SUBSET Paths, NEW entries \in Collected(P)
  PROVE  /\ entries \in Seq(EntryType)
         /\ {entries[i].path : i \in DOMAIN entries} = P
         /\ \A i \in DOMAIN entries : /\ entries[i].size = Size[entries[i].path]
                                      /\ entries[i].mtime = Mtime(entries[i].path)
         /\ \A i, j \in DOMAIN entries : entries[i].path = entries[j].path => i = j
<1>1. PICK s \in Orders(P) : entries = [i \in DOMAIN s |-> Entry(s[i])]
  BY DEF Collected
<1> DEFINE n == Cardinality(P)
<1>2. IsFiniteSet(P) /\ n \in Nat
  BY GcAssumption, FS_Subset, FS_CardinalityType
<1>3. s \in [1..n -> P] /\ {s[i] : i \in DOMAIN s} = P
  BY DEF Orders
<1>4. IsFiniteSet(1..n) /\ Cardinality(1..n) = n
  <2> HIDE DEF n
  <2>1. IsFiniteSet(1..n) /\ Cardinality(1..n) = IF 1 > n THEN 0 ELSE n - 1 + 1
    BY <1>2, FS_Interval
  <2> QED
    BY <1>2, <2>1
<1>5. s \in Surjection(1..n, P)
  <2>1. DOMAIN s = 1..n
    BY <1>3
  <2>2. \A t \in P : \E i \in 1..n : s[i] = t
    BY <1>3, <2>1
  <2> HIDE DEF n
  <2> QED
    BY <1>3, <2>2 DEF Surjection
<1>6. \A i, j \in 1..n : s[i] = s[j] => i = j
  <2>1. s \in Injection(1..n, P)
    BY <1>4, <1>5, FS_SurjSameCardinalityImpliesInj
  <2> QED
    BY <2>1 DEF Injection, IsInjective
<1>7. /\ DOMAIN entries = 1..n /\ DOMAIN s = 1..n
      /\ \A i \in 1..n : entries[i] = Entry(s[i]) /\ s[i] \in P
  BY <1>1, <1>3
<1> HIDE DEF n
<1>8. \A i \in 1..n : Entry(s[i]) \in EntryType
  BY <1>7, ListedPaths, GcAssumption DEF Entry, EntryType
<1>9. entries \in Seq(EntryType)
  BY <1>1, <1>2, <1>7, <1>8
<1>10. \A i \in 1..n : /\ entries[i].path = s[i] /\ entries[i].size = Size[s[i]]
                       /\ entries[i].mtime = Mtime(s[i])
  BY <1>7 DEF Entry
<1>11. {entries[i].path : i \in DOMAIN entries} = P
  BY <1>3, <1>7, <1>10
<1> QED
  BY <1>6, <1>7, <1>9, <1>10, <1>11

(* The queue, once its head is taken. *)
LEMMA TakeHead ==
  ASSUME NEW q \in Seq(EntryType), q # << >>,
         \A i, j \in DOMAIN q : q[i].path = q[j].path => i = j
  PROVE  /\ Head(q) = q[1] /\ 1 \in DOMAIN q /\ Head(q) \in EntryType
         /\ Tail(q) \in Seq(EntryType)
         /\ \A i \in DOMAIN Tail(q) : i + 1 \in DOMAIN q /\ i + 1 # 1 /\ Tail(q)[i] = q[i + 1]
         /\ {Tail(q)[i].path : i \in DOMAIN Tail(q)} =
              {q[i].path : i \in DOMAIN q} \ {Head(q).path}
<1>1. Len(q) \in Nat /\ Len(q) >= 1 /\ DOMAIN q = 1..Len(q)
  OBVIOUS
<1>2. Head(q) = q[1] /\ 1 \in DOMAIN q /\ Head(q) \in EntryType
  BY <1>1
<1>3. Tail(q) \in Seq(EntryType) /\ DOMAIN Tail(q) = 1..(Len(q) - 1)
  BY <1>1
<1>4. \A i \in 1..(Len(q) - 1) : i + 1 \in DOMAIN q /\ i + 1 # 1 /\ Tail(q)[i] = q[i + 1]
  BY <1>1
<1>5. \A j \in DOMAIN q : j # 1 => \E i \in DOMAIN Tail(q) : Tail(q)[i] = q[j]
  <2> SUFFICES ASSUME NEW j \in DOMAIN q, j # 1
               PROVE  \E i \in DOMAIN Tail(q) : Tail(q)[i] = q[j]
    OBVIOUS
  <2>1. j - 1 \in DOMAIN Tail(q) /\ (j - 1) + 1 = j
    BY <1>1, <1>3
  <2>2. Tail(q)[j - 1] = q[j]
    BY <1>3, <1>4, <2>1
  <2> QED
    BY <2>1, <2>2
<1>6. ASSUME NEW x
      PROVE  x \in {Tail(q)[i].path : i \in DOMAIN Tail(q)}
             <=> x \in {q[i].path : i \in DOMAIN q} \ {Head(q).path}
  <2>1. ASSUME NEW i \in DOMAIN Tail(q), x = Tail(q)[i].path
        PROVE  x \in {q[k].path : k \in DOMAIN q} \ {Head(q).path}
    <3>1. i + 1 \in DOMAIN q /\ i + 1 # 1 /\ Tail(q)[i] = q[i + 1]
      BY <1>3, <1>4
    <3>2. q[i + 1].path # q[1].path
      BY <1>2, <3>1
    <3> QED
      BY <1>2, <2>1, <3>1, <3>2
  <2>2. ASSUME NEW j \in DOMAIN q, x = q[j].path, x # Head(q).path
        PROVE  x \in {Tail(q)[i].path : i \in DOMAIN Tail(q)}
    BY <1>2, <1>5, <2>2
  <2> QED
    BY <2>1, <2>2
<1> QED
  BY <1>2, <1>3, <1>4, <1>6

LEMMA QueueFacts ==
  ASSUME Typed, Queued
  PROVE  /\ Queue \in Seq(EntryType) /\ gc.todo \in Seq(EntryType)
         /\ Waiting \subseteq Paths
<1>1. gc.todo \in Seq(EntryType)
  BY DEF Typed, GcType
<1>2. Queue \in Seq(EntryType)
  BY <1>1 DEF Queue, Queued
<1>3. \A i \in DOMAIN Queue : Queue[i].path \in Paths
  <2>1. \A i \in DOMAIN Queue : Queue[i] \in EntryType
    BY <1>2
  <2> QED
    BY <2>1 DEF EntryType
<1> QED
  BY <1>1, <1>2, <1>3 DEF Waiting

-----------------------------------------------------------------------------
(* The invariant. *)
LEMMA Starts == Init => GInv
<1> SUFFICES ASSUME Init PROVE GInv
  OBVIOUS
<1>1. Off \in GcType
  BY DEF Off, GcType, PCs
<1>2. Typed
  BY <1>1 DEF Init, Typed
<1>3. /\ gc.pc = "off" /\ gc.todo = << >> /\ gc.age = None /\ gc.max = None
      /\ gc.removed = {} /\ gc.freed = 0 /\ gc.gone = 0
      /\ gc.missed = [age |-> {}, size |-> {}]
  BY DEF Init, Off
<1>7. gc.freed = gc.gone + Bytes(gc.missed.age) + Bytes(gc.missed.size)
  <2>1. Bytes(gc.missed.age) = 0 /\ Bytes(gc.missed.size) = 0
    BY <1>3, BytesNone
  <2> QED
    BY <1>3, <2>1
<1>4. Queue = << >> /\ Waiting = {}
  <2>1. Queue = << >>
    BY <1>3 DEF Queue, Auditing
  <2>2. DOMAIN << >> = {}
    OBVIOUS
  <2> QED
    BY Zenon, <2>1, <2>2 DEF Waiting
<1>5. DOMAIN Queue = {}
  BY <1>4
<1>6. Queued
  BY <1>3, <1>5 DEF Queued, Auditing
<1> QED
  BY <1>2, <1>3, <1>4, <1>6, <1>7
  DEF GInv, Counted, Missed, OldGo, Measured, BoundMet, RemovalsAudited

LEMMA SameQueue ==
  ASSUME gc' = gc
  PROVE  Auditing' = Auditing /\ Queue' = Queue /\ Waiting' = Waiting
<1>1. Auditing' = Auditing
  BY DEF Auditing
<1>2. Queue' = Queue
  BY <1>1 DEF Queue
<1> QED
  BY <1>1, <1>2 DEF Waiting

LEMMA TickKeeps == ASSUME GInv, Tick PROVE GInv'
<1>1. /\ gc' = gc /\ mtime' = mtime /\ db' = db /\ backend' = backend
      /\ log' = log /\ since' = since /\ clock' = clock + 1
  BY DEF Tick
<1>2. Queue' = Queue /\ Waiting' = Waiting /\ (Auditing <=> Auditing')
  BY <1>1, SameQueue
<1>3. Listed' = Listed /\ \A p : Mtime(p)' = Mtime(p) /\ (HasFile(p) <=> HasFile(p)')
  BY <1>1 DEF Listed, Mtime, HasFile
<1>4. Typed' /\ clock \in Nat /\ gc \in GcType
  BY <1>1 DEF GInv, Typed
<1>5. Queued'
  BY <1>1, <1>2 DEF GInv, Queued
<1>6. Counted' /\ Missed'
  BY <1>1, <1>2, <1>3 DEF GInv, Counted, Missed
<1>7. OldGo'
  <2>1. gc.cutoff \in Int
    BY <1>4 DEF GcType
  <2> QED
    BY <1>1, <1>2, <1>3, <1>4, <2>1 DEF GInv, OldGo
<1>8. Measured'
  BY <1>1, <1>2, <1>3 DEF GInv, Measured
<1>9. BoundMet' /\ RemovalsAudited'
  BY <1>1, <1>3 DEF GInv, BoundMet, RemovalsAudited
<1> QED
  BY <1>4, <1>5, <1>6, <1>7, <1>8, <1>9 DEF GInv

(* A path that is cached, signed or put while gc runs. *)
LEMMA UseKeeps ==
  ASSUME GInv, NEW p \in Paths, Import(p) \/ Sign(p) \/ PutNarinfo(p)
  PROVE  GInv'
<1>1. gc' = gc /\ backend' = backend /\ log' = log /\ clock' = clock /\ Use(p)
  BY DEF Import, Sign, PutNarinfo
<1>2. /\ since \subseteq since' /\ since' \subseteq since \cup {p}
      /\ gc.pc # "off" => p \in since'
  BY <1>1 DEF Use
<1>3. Queue' = Queue /\ Waiting' = Waiting /\ (Auditing <=> Auditing')
  BY <1>1, SameQueue
<1>4. /\ Typed /\ mtime \in [Paths -> Nat \cup {None}] /\ clock \in Nat /\ gc \in GcType
      /\ None \notin Nat /\ db \subseteq Paths
  BY GcAssumption DEF GInv, Typed
<1>5. /\ mtime' \in [Paths -> Nat \cup {None}] /\ db' \subseteq Paths
      /\ \A q : q # p => (Mtime(q)' = Mtime(q) /\ (HasFile(q) <=> HasFile(q)'))
      /\ HasFile(p) => HasFile(p)'
      /\ backend = "filesystem" => Mtime(p)' = clock
      /\ Listed' \subseteq Listed \cup {p}
  <2>1. CASE Import(p) \/ Sign(p)
    <3>1. mtime' = [mtime EXCEPT ![p] = clock] /\ db' = db
      BY <2>1 DEF Import, Sign
    <3>2. \A q : q # p => mtime'[q] = mtime[q]
      BY <1>4, <3>1
    <3>3. mtime'[p] = clock
      BY <1>4, <3>1
    <3> QED
      BY <1>1, <1>4, <3>1, <3>2, <3>3 DEF Mtime, HasFile, Listed
  <2>2. CASE PutNarinfo(p)
    <3>1. mtime' = mtime /\ db' = db \cup {p} /\ backend = "sled"
      BY <2>2 DEF PutNarinfo
    <3> QED
      BY <1>1, <1>4, <3>1 DEF Mtime, HasFile, Listed
  <2> QED
    BY <2>1, <2>2
<1>6. Typed'
  BY <1>1, <1>2, <1>4, <1>5 DEF Typed
<1>7. Queued'
  BY <1>1, <1>3 DEF GInv, Queued
<1>8. Counted' /\ Missed'
  BY <1>1, <1>3, <1>5 DEF GInv, Counted, Missed
<1>9. OldGo'
  <2>1. gc.cutoff \in Int /\ \A q \in Paths : Mtime(q) \in Nat
    BY <1>4, ListedPaths DEF GcType
  <2>2. ASSUME gc.age # None, backend = "filesystem",
               gc.pc \notin {"off", "collect_age"}, NEW q \in Listed'
        PROVE  \/ Mtime(q)' >= gc.cutoff
               \/ gc.pc \in {"age", "audit_age"} /\ q \in Waiting
               \/ q \in gc.missed.age
    <3>1. CASE q = p
      BY <1>4, <1>5, <2>1, <2>2, <3>1 DEF GInv, OldGo
    <3>2. CASE q # p
      BY <1>5, <2>2, <3>2 DEF GInv, OldGo
    <3> QED
      BY <3>1, <3>2
  <2>3. ASSUME gc.age # None, backend = "filesystem",
               gc.pc \in {"age", "audit_age"}, NEW q \in Waiting
        PROVE  q \in since' \/ Mtime(q)' < gc.cutoff
    <3>1. CASE q = p
      BY <1>2, <2>3, <3>1
    <3>2. CASE q # p
      BY <1>2, <1>5, <2>3, <3>2 DEF GInv, OldGo
    <3> QED
      BY <3>1, <3>2
  <2>4. gc.age # None => gc.cutoff <= clock \/ gc.pc \in {"collect_age", "off"}
    BY DEF GInv, OldGo
  <2> QED
    BY <1>1, <1>3, <2>2, <2>3, <2>4 DEF OldGo
<1>10. Measured'
  <2> SUFFICES ASSUME gc.pc \in {"size", "audit_size"}
               PROVE  Measured'
    BY <1>1 DEF Measured
  <2>1. /\ gc.current = Bytes(Waiting) /\ Sorted(Queue)
        /\ Listed \ (gc.removed \cup since) \subseteq Waiting
        /\ backend = "filesystem" =>
             /\ Listed \ (since \cup gc.missed.size) \subseteq Waiting
             /\ \A i \in DOMAIN Queue : \/ Queue[i].path \in since
                                        \/ Queue[i].mtime = Mtime(Queue[i].path)
    BY DEF GInv, Measured
  <2>2. p \in since'
    BY <1>2
  <2>3. gc.current = Bytes(Waiting') /\ Sorted(Queue')
    BY <1>3, <2>1
  <2>4. Listed' \ (gc.removed \cup since') \subseteq Waiting'
    BY <1>2, <1>3, <1>5, <2>1, <2>2
  <2>5. ASSUME backend = "filesystem"
        PROVE  Listed' \ (since' \cup gc.missed.size) \subseteq Waiting'
    BY <1>2, <1>3, <1>5, <2>1, <2>2, <2>5
  <2>6. ASSUME backend = "filesystem", NEW i \in DOMAIN Queue, NEW q, q = Queue[i].path
        PROVE  q \in since' \/ Queue[i].mtime = Mtime(q)'
    <3>1. CASE q = p
      BY <2>2, <3>1
    <3>2. CASE q # p
      <4>1. q \in since \/ Queue[i].mtime = Mtime(q)
        BY <2>1, <2>6
      <4> QED
        BY <1>2, <1>5, <3>2, <4>1
    <3> QED
      BY <3>1, <3>2
  <2>7. ASSUME backend = "filesystem", NEW i \in DOMAIN Queue'
        PROVE  Queue'[i].path \in since' \/ Queue'[i].mtime = Mtime(Queue[i].path)'
    BY <1>3, <2>6, <2>7
  <2> QED
    BY <1>1, <1>3, <2>3, <2>4, <2>5, <2>7 DEF Measured
<1>11. BoundMet'
  <2> SUFFICES ASSUME gc.pc = "done", gc.max # None
               PROVE  2 * Bytes(Listed \ (gc.removed \cup since))' <= Asked2(gc.max)
    BY <1>1 DEF BoundMet
  <2> DEFINE P == Listed \ (gc.removed \cup since)
             Q == Listed' \ (gc.removed \cup since')
  <2>1. P \in SUBSET Paths /\ Q \in SUBSET P
    BY <1>2, <1>4, <1>5, ListedPaths
  <2>2. 2 * Bytes(P) <= Asked2(gc.max)
    BY DEF GInv, BoundMet
  <2>3. Asked2(gc.max) \in Nat
    BY <1>4, ParseRounds DEF GcType
  <2> HIDE DEF P, Q
  <2>4. Bytes(Q) <= Bytes(P) /\ Bytes(Q) \in Nat /\ Bytes(P) \in Nat
    BY <2>1, BytesMonotone, BytesNat
  <2>5. 2 * Bytes(Q) <= Asked2(gc.max)
    BY <2>2, <2>3, <2>4
  <2>6. (Listed \ (gc.removed \cup since))' = Q
    BY <1>1 DEF Q
  <2> QED
    BY <2>5, <2>6
<1>12. RemovalsAudited'
  BY <1>1 DEF GInv, RemovalsAudited
<1> QED
  BY <1>6, <1>7, <1>8, <1>9, <1>10, <1>11, <1>12 DEF GInv

(* Before a gc, and after a crash of one, nothing waits. *)
LEMMA StartKeeps ==
  ASSUME GInv, NEW age \in Ages \cup {None}, NEW max \in SizeArgs \cup {None},
         GcStart(age, max) \/ Crash
  PROVE  GInv'
<1>1. /\ clock' = clock /\ mtime' = mtime /\ db' = db /\ backend' = backend
      /\ log' = {} /\ since' = {}
  BY DEF GcStart, Crash
<1>2. /\ gc' \in GcType
      /\ gc'.pc \in {"off", "collect_age", "collect_size"}
      /\ gc'.pc = "collect_age" => gc'.age # None
      /\ gc'.pc = "collect_size" => gc'.max # None /\ gc'.age = None
      /\ gc'.pc = "off" => gc'.age = None
      /\ gc'.todo = << >> /\ gc'.removed = {} /\ gc'.freed = 0 /\ gc'.gone = 0
      /\ gc'.missed = [age |-> {}, size |-> {}]
  <2>1. CASE GcStart(age, max)
    <3>1. PICK audit \in BOOLEAN :
            gc' = [Off EXCEPT !.pc = IF age # None THEN "collect_age" ELSE "collect_size",
                              !.age = age, !.max = max, !.audit = audit]
      BY <2>1 DEF GcStart
    <3>2. age # None \/ max # None
      BY <2>1 DEF GcStart
    <3>3. /\ gc'.pc = IF age # None THEN "collect_age" ELSE "collect_size"
          /\ gc'.age = age /\ gc'.max = max
          /\ gc'.todo = << >> /\ gc'.removed = {} /\ gc'.freed = 0 /\ gc'.gone = 0
          /\ gc'.missed = [age |-> {}, size |-> {}]
      BY <3>1 DEF Off
    <3>4. gc' = [pc |-> IF age # None THEN "collect_age" ELSE "collect_size",
                 age |-> age, max |-> max, audit |-> audit, cutoff |-> 0, todo |-> << >>,
                 current |-> 0, removed |-> {}, freed |-> 0, gone |-> 0,
                 missed |-> [age |-> {}, size |-> {}], unlogged |-> {}]
      BY <3>1 DEF Off
    <3>5. << >> \in Seq(EntryType)
      OBVIOUS
    <3>6. gc' \in GcType
      BY <3>4, <3>5 DEF GcType, PCs
    <3> QED
      BY <3>2, <3>3, <3>6
  <2>2. CASE Crash
    BY <2>2 DEF Crash, Off, GcType, PCs
  <2> QED
    BY <2>1, <2>2
<1>3. Queue' = << >> /\ Waiting' = {} /\ DOMAIN Queue' = {}
  <2>1. Queue' = << >>
    BY <1>2 DEF Queue, Auditing
  <2>2. DOMAIN << >> = {}
    OBVIOUS
  <2> QED
    BY Zenon, <2>1, <2>2 DEF Waiting
<1>4. Typed'
  BY <1>1, <1>2 DEF GInv, Typed
<1>5. Queued'
  BY <1>2, <1>3 DEF Queued, Auditing
<1>6. Counted' /\ Missed'
  <2>1. Bytes(gc'.missed.age) = 0 /\ Bytes(gc'.missed.size) = 0
    BY <1>2, BytesNone
  <2> QED
    BY <1>2, <1>3, <2>1 DEF Counted, Missed
<1>7. OldGo'
  BY <1>2 DEF OldGo
<1>8. Measured' /\ BoundMet' /\ RemovalsAudited'
  BY <1>2 DEF Measured, BoundMet, RemovalsAudited
<1> QED
  BY <1>4, <1>5, <1>6, <1>7, <1>8 DEF GInv

(* What stays when gc collects: the listing, the time, and what is not gc's. *)
LEMMA SameListing ==
  ASSUME mtime' = mtime, db' = db, backend' = backend
  PROVE  Listed' = Listed /\ \A p : Mtime(p)' = Mtime(p) /\ (HasFile(p) <=> HasFile(p)')
BY DEF Listed, Mtime, HasFile

(* gc collects the paths in P, which then wait. *)
LEMMA CollectedWaits ==
  ASSUME Typed, NEW P \in SUBSET Paths, NEW entries \in Collected(P),
         gc'.pc \in {"age", "size"}, gc'.todo = entries
  PROVE  /\ Queue' = entries /\ Waiting' = P /\ ~Auditing'
         /\ entries \in Seq(EntryType)
         /\ \A i \in DOMAIN entries : /\ entries[i].size = Size[entries[i].path]
                                      /\ entries[i].mtime = Mtime(entries[i].path)
         /\ \A i, j \in DOMAIN entries : entries[i].path = entries[j].path => i = j
<1>1. Queue' = entries /\ ~Auditing'
  BY DEF Queue, Auditing
<1>2. Waiting' = {entries[i].path : i \in DOMAIN entries}
  BY <1>1 DEF Waiting
<1> QED
  BY <1>1, <1>2, Listing

LEMMA CollectAgeKeeps == ASSUME GInv, CollectAge PROVE GInv'
<1> DEFINE cutoff == clock - gc.age
           P == {p \in Listed : Mtime(p) < cutoff}
<1>1. /\ gc.pc = "collect_age" /\ since' = {} /\ log' = log /\ clock' = clock
      /\ mtime' = mtime /\ db' = db /\ backend' = backend
  BY DEF CollectAge
<1>2. PICK entries \in Collected(P) :
        gc' = [gc EXCEPT !.pc = "age", !.cutoff = cutoff, !.todo = entries]
  BY DEF CollectAge
<1>3. Typed /\ gc \in GcType /\ clock \in Nat /\ gc.age \in Nat /\ cutoff \in Int
  <2>1. gc.age # None /\ gc.age \in Ages \cup {None} /\ Typed /\ gc \in GcType /\ clock \in Nat
    BY <1>1 DEF GInv, Queued, Typed, GcType
  <2>2. gc.age \in Nat
    BY <2>1, GcAssumption
  <2>3. cutoff \in Int
    BY <2>1, <2>2
  <2> QED
    BY <2>1, <2>2, <2>3
<1>4. P \in SUBSET Paths /\ Listed' = Listed /\ (\A p : Mtime(p)' = Mtime(p))
      /\ (\A p : HasFile(p) <=> HasFile(p)') /\ (\A p \in Paths : Mtime(p) \in Nat)
  BY <1>1, <1>3, ListedPaths, SameListing
<1>5. /\ gc'.pc = "age" /\ gc'.cutoff = cutoff /\ gc'.todo = entries /\ gc'.age = gc.age
      /\ gc'.max = gc.max /\ gc'.audit = gc.audit /\ gc'.removed = gc.removed
      /\ gc'.freed = gc.freed /\ gc'.gone = gc.gone
      /\ gc'.missed = gc.missed /\ gc'.unlogged = gc.unlogged
  BY <1>2, <1>3 DEF GcType
<1>6. /\ Queue' = entries /\ Waiting' = P /\ ~Auditing'
      /\ entries \in Seq(EntryType)
      /\ \A i \in DOMAIN entries : entries[i].size = Size[entries[i].path]
      /\ \A i, j \in DOMAIN entries : entries[i].path = entries[j].path => i = j
  <2> HIDE DEF P
  <2> QED
    BY <1>3, <1>4, <1>5, CollectedWaits
<1>7. Typed'
  <2>1. gc' \in GcType
    BY <1>2, <1>3, <1>6 DEF GcType, PCs
  <2> QED
    BY <1>1, <1>3, <2>1 DEF Typed
<1>8. Queued'
  BY <1>1, <1>3, <1>5, <1>6 DEF Queued, GInv
<1>9. Counted'
  <2>1. backend = "filesystem" => \A p \in P : HasFile(p)
    BY DEF Listed
  <2> QED
    BY <1>1, <1>4, <1>5, <1>6, <2>1 DEF GInv, Counted
<1>13. Missed'
  BY <1>1, <1>5 DEF GInv, Missed
<1>10. OldGo'
  <2>1. cutoff <= clock
    BY <1>3
  <2>2. \A p \in Listed : Mtime(p) >= cutoff \/ p \in P
    BY <1>3, <1>4, ListedPaths
  <2> QED
    BY <1>1, <1>4, <1>5, <1>6, <2>1, <2>2 DEF OldGo
<1>11. Measured' /\ BoundMet'
  BY <1>5 DEF Measured, BoundMet
<1>12. RemovalsAudited'
  BY <1>1, <1>5 DEF GInv, RemovalsAudited
<1> QED
  BY <1>7, <1>8, <1>9, <1>10, <1>11, <1>12, <1>13 DEF GInv

LEMMA CollectSizeKeeps == ASSUME GInv, CollectSize PROVE GInv'
<1> DEFINE total == Bytes(Listed)
<1>1. /\ gc.pc = "collect_size" /\ since' = {} /\ log' = log /\ clock' = clock
      /\ mtime' = mtime /\ db' = db /\ backend' = backend
  BY DEF CollectSize
<1>2. PICK entries \in Collected(Listed) :
        /\ Sorted(entries)
        /\ gc' = IF total <= ParseSize(gc.max) THEN [gc EXCEPT !.pc = "done"]
                 ELSE [gc EXCEPT !.pc = "size", !.todo = entries, !.current = total]
  BY DEF CollectSize
<1>3. /\ Typed /\ gc \in GcType /\ clock \in Nat /\ gc.max \in SizeArgs /\ gc.todo = << >>
      /\ gc.max # None
  BY <1>1 DEF GInv, Queued, Typed, GcType
<1>4. Listed \in SUBSET Paths /\ Listed' = Listed /\ (\A p : Mtime(p)' = Mtime(p))
      /\ (\A p : HasFile(p) <=> HasFile(p)') /\ (\A p \in Paths : Mtime(p) \in Nat)
  BY <1>1, <1>3, ListedPaths, SameListing
<1>5. total \in Nat
  BY <1>4, BytesNat
<1>6. gc.age # None =>
        /\ gc.cutoff <= clock
        /\ backend = "filesystem" => \A p \in Listed : \/ Mtime(p) >= gc.cutoff
                                                       \/ p \in gc.missed.age
  BY <1>1 DEF GInv, OldGo
<1>7. CASE total <= ParseSize(gc.max)
  <2>1. gc' = [gc EXCEPT !.pc = "done"]
    BY <1>2, <1>7
  <2>2. /\ gc'.pc = "done" /\ gc'.cutoff = gc.cutoff /\ gc'.todo = << >> /\ gc'.age = gc.age
        /\ gc'.max = gc.max /\ gc'.audit = gc.audit /\ gc'.removed = gc.removed
        /\ gc'.freed = gc.freed /\ gc'.gone = gc.gone
        /\ gc'.missed = gc.missed /\ gc'.unlogged = gc.unlogged
    BY <1>3, <2>1 DEF GcType
  <2>3. Queue' = << >> /\ Waiting' = {} /\ DOMAIN Queue' = {} /\ ~Auditing'
    <3>1. Queue' = << >> /\ ~Auditing'
      BY <2>2 DEF Queue, Auditing
    <3>2. DOMAIN << >> = {}
      OBVIOUS
    <3> QED
      BY Zenon, <3>1, <3>2 DEF Waiting
  <2>4. Typed'
    <3>1. gc' \in GcType
      BY <1>3, <2>1 DEF GcType, PCs
    <3> QED
      BY <1>1, <1>3, <3>1 DEF Typed
  <2>5. Queued'
    BY <2>2, <2>3 DEF Queued
  <2>6. Counted'
    BY <1>1, <2>2, <2>3 DEF GInv, Counted
  <2>11. Missed'
    BY <1>1, <2>2 DEF GInv, Missed
  <2>7. OldGo'
    BY <1>1, <1>4, <1>6, <2>2 DEF OldGo
  <2>8. Measured'
    BY <2>2 DEF Measured
  <2>9. BoundMet'
    <3> DEFINE Q == Listed \ gc.removed
    <3>1. Q \in SUBSET Listed
      OBVIOUS
    <3>2. (Listed \ (gc.removed \cup since))' = Q
      BY <1>1, <1>4, <2>2
    <3> HIDE DEF Q
    <3>3. Bytes(Q) <= total /\ Bytes(Q) \in Nat
      BY <1>4, <3>1, BytesMonotone, BytesNat
    <3>4. /\ ParseSize(gc.max) \in Nat /\ Asked2(gc.max) \in Nat
          /\ 2 * ParseSize(gc.max) <= Asked2(gc.max)
      BY <1>3, ParseRounds
    <3> HIDE DEF total
    <3>5. 2 * Bytes(Q) <= Asked2(gc.max)
      BY <1>5, <1>7, <3>3, <3>4
    <3> QED
      BY <2>2, <3>2, <3>5 DEF BoundMet
  <2>10. RemovalsAudited'
    BY <1>1, <2>2 DEF GInv, RemovalsAudited
  <2> QED
    BY <2>4, <2>5, <2>6, <2>7, <2>8, <2>9, <2>10, <2>11 DEF GInv
<1>8. CASE ~ (total <= ParseSize(gc.max))
  <2>1. gc' = [gc EXCEPT !.pc = "size", !.todo = entries, !.current = total]
    BY <1>2, <1>8
  <2>2. /\ gc'.pc = "size" /\ gc'.cutoff = gc.cutoff /\ gc'.todo = entries /\ gc'.age = gc.age
        /\ gc'.max = gc.max /\ gc'.audit = gc.audit /\ gc'.removed = gc.removed
        /\ gc'.freed = gc.freed /\ gc'.gone = gc.gone /\ gc'.current = total
        /\ gc'.missed = gc.missed /\ gc'.unlogged = gc.unlogged
    BY <1>3, <2>1 DEF GcType
  <2>3. /\ Queue' = entries /\ Waiting' = Listed /\ ~Auditing'
        /\ entries \in Seq(EntryType)
        /\ \A i \in DOMAIN entries : /\ entries[i].size = Size[entries[i].path]
                                     /\ entries[i].mtime = Mtime(entries[i].path)
        /\ \A i, j \in DOMAIN entries : entries[i].path = entries[j].path => i = j
    BY <1>3, <1>4, <2>2, CollectedWaits
  <2>4. Typed'
    <3>1. gc' \in GcType
      <4> HIDE DEF total
      <4>1. total \in Int /\ entries \in Seq(EntryType)
        BY <1>5, <2>3
      <4> QED
        BY <1>3, <2>1, <4>1 DEF GcType, PCs
    <3> QED
      BY <1>1, <1>3, <3>1 DEF Typed
  <2>5. Queued'
    BY <1>3, <2>2, <2>3 DEF Queued
  <2>6. Counted'
    <3>1. backend = "filesystem" => \A p \in Listed : HasFile(p)
      BY DEF Listed
    <3> QED
      BY <1>1, <1>4, <2>2, <2>3, <3>1 DEF GInv, Counted
  <2>11. Missed'
    BY <1>1, <2>2 DEF GInv, Missed
  <2>7. OldGo'
    BY <1>1, <1>4, <1>6, <2>2 DEF OldGo
  <2>8. Measured'
    <3>1. \A i \in DOMAIN Queue' : Queue'[i].mtime = Mtime(Queue[i].path)'
      BY <1>4, <2>3
    <3>2. gc'.current = Bytes(Waiting') /\ Sorted(Queue')
      BY <1>2, <2>2, <2>3
    <3>3. Listed' \subseteq Waiting'
      BY <1>4, <2>3
    <3> QED
      BY <2>2, <3>1, <3>2, <3>3 DEF Measured
  <2>9. BoundMet'
    BY <2>2 DEF BoundMet
  <2>10. RemovalsAudited'
    BY <1>1, <2>2 DEF GInv, RemovalsAudited
  <2> QED
    BY <2>4, <2>5, <2>6, <2>7, <2>8, <2>9, <2>10, <2>11 DEF GInv
<1> QED
  BY <1>7, <1>8

(* What remove_entry takes is the head of the queue, and waits no more. *)
LEMMA Removal ==
  ASSUME GInv, RemoveStep, NEW e, e = Head(gc.todo)
  PROVE  /\ gc.todo # << >> /\ e = gc.todo[1] /\ 1 \in DOMAIN gc.todo
         /\ Queue = gc.todo /\ Queue' = Tail(gc.todo)
         /\ e.path \in Waiting /\ Waiting \subseteq Paths /\ Waiting' = Waiting \ {e.path}
         /\ e.size = Size[e.path] /\ e.size \in Nat
         /\ \A i \in DOMAIN Queue' : /\ i + 1 \in DOMAIN Queue /\ Queue'[i] = Queue[i + 1]
                                     /\ Queue'[i].path # e.path
<1>1. gc.pc \in {"age", "size"} /\ ~LoopEnds /\ gc'.todo = gc.todo /\ gc \in GcType
      /\ gc'.pc \in {"audit_age", "audit_size"}
  BY DEF GInv, Typed, GcType, RemoveStep, RemoveEntry, RemoveEntryFails,
         CountEntry
<1>2. gc.todo # << >> /\ ~Auditing /\ Auditing'
  BY <1>1 DEF LoopEnds, Auditing
<1>3. Queue = gc.todo /\ Queue' = Tail(gc.todo)
  BY <1>1, <1>2 DEF Queue
<1>4. /\ gc.todo \in Seq(EntryType) /\ Waiting \subseteq Paths
      /\ \A i \in DOMAIN gc.todo : gc.todo[i].size = Size[gc.todo[i].path]
      /\ \A i, j \in DOMAIN gc.todo : gc.todo[i].path = gc.todo[j].path => i = j
  BY <1>3, QueueFacts DEF GInv, Queued
<1>5. /\ e = gc.todo[1] /\ 1 \in DOMAIN gc.todo
      /\ \A i \in DOMAIN Tail(gc.todo) : /\ i + 1 \in DOMAIN gc.todo /\ i + 1 # 1
                                         /\ Tail(gc.todo)[i] = gc.todo[i + 1]
      /\ {Tail(gc.todo)[i].path : i \in DOMAIN Tail(gc.todo)} =
           {gc.todo[i].path : i \in DOMAIN gc.todo} \ {e.path}
  BY <1>2, <1>4, TakeHead
<1>6. Waiting = {gc.todo[i].path : i \in DOMAIN gc.todo}
  BY <1>3 DEF Waiting
<1>7. Waiting' = {Tail(gc.todo)[i].path : i \in DOMAIN Tail(gc.todo)}
  BY <1>3 DEF Waiting
<1>8. e.path \in Waiting /\ e.size = Size[e.path]
  BY <1>4, <1>5, <1>6
<1>9. e.size \in Nat
  BY <1>4, <1>8, GcAssumption
<1>10. \A i \in DOMAIN Tail(gc.todo) : Tail(gc.todo)[i].path # e.path
  BY <1>4, <1>5
<1> QED
  BY <1>2, <1>3, <1>4, <1>5, <1>6, <1>7, <1>8, <1>9, <1>10

(* Its file goes, or it is missed. *)
LEMMA RemovalSets ==
  ASSUME GInv, RemoveStep, NEW e, e = Head(gc.todo)
  PROVE  \E gone \in Int, missed \in SUBSET {e.path} :
           /\ clock' = clock /\ db' = db /\ backend' = backend /\ log' = log /\ since' = since
           /\ CountEntry(gone, missed)
           /\ \/ /\ missed = {} /\ mtime' = [mtime EXCEPT ![e.path] = None]
                 /\ gone = IF HasFile(e.path) THEN Size[e.path] ELSE 0
              \/ missed = {e.path} /\ mtime' = mtime /\ gone = 0
<1>1. CASE RemoveEntry
  <2> DEFINE gone == IF HasFile(e.path) THEN Size[e.path] ELSE 0
  <2>1. gone \in Int
    BY Removal
  <2>2. /\ mtime' = [mtime EXCEPT ![e.path] = None] /\ CountEntry(gone, {})
        /\ clock' = clock /\ db' = db /\ backend' = backend /\ log' = log /\ since' = since
    BY <1>1 DEF RemoveEntry
  <2> HIDE DEF gone
  <2>3. gone = IF HasFile(e.path) THEN Size[e.path] ELSE 0
    BY DEF gone
  <2> QED
    BY <2>1, <2>2, <2>3
<1>2. CASE RemoveEntryFails
  BY <1>2 DEF RemoveEntryFails
<1> QED
  BY <1>1, <1>2 DEF RemoveStep

LEMMA RemoveKeeps == ASSUME GInv, RemoveStep PROVE GInv'
<1>1. PICK e : e = Head(gc.todo)
  OBVIOUS
<1>2. /\ gc.todo # << >> /\ Queue = gc.todo /\ Queue' = Tail(gc.todo)
      /\ e.path \in Waiting /\ Waiting \subseteq Paths /\ Waiting' = Waiting \ {e.path}
      /\ e.size = Size[e.path] /\ e.size \in Nat
      /\ \A i \in DOMAIN Queue' : /\ i + 1 \in DOMAIN Queue /\ Queue'[i] = Queue[i + 1]
                                  /\ Queue'[i].path # e.path
  BY <1>1, Removal
<1>3. PICK gone \in Int, missed \in SUBSET {e.path} :
        /\ clock' = clock /\ db' = db /\ backend' = backend /\ log' = log /\ since' = since
        /\ CountEntry(gone, missed)
        /\ \/ /\ missed = {} /\ mtime' = [mtime EXCEPT ![e.path] = None]
              /\ gone = IF HasFile(e.path) THEN Size[e.path] ELSE 0
           \/ missed = {e.path} /\ mtime' = mtime /\ gone = 0
  BY <1>1, RemovalSets
<1>4. /\ Typed /\ gc \in GcType /\ mtime \in [Paths -> Nat \cup {None}] /\ None \notin Nat
      /\ gc.pc \in {"age", "size"} /\ gc.current \in Int /\ gc.freed \in Int /\ gc.gone \in Int
      /\ gc.missed.age \in SUBSET Paths /\ gc.missed.size \in SUBSET Paths
  BY GcAssumption DEF GInv, Typed, GcType, RemoveStep, RemoveEntry, RemoveEntryFails
<1> DEFINE current == Left(e.size)
           all == Miss(missed)
<1>c. gc' = [gc EXCEPT !.pc = IF gc.pc = "age" THEN "audit_age" ELSE "audit_size",
                       !.current = current, !.removed = @ \cup {e.path},
                       !.freed = @ + e.size, !.gone = @ + gone, !.missed = all]
  BY <1>1, <1>3 DEF CountEntry
<1>m. /\ all \in [age : SUBSET Paths, size : SUBSET Paths]
      /\ all.age = IF gc.pc = "age" THEN gc.missed.age \cup missed ELSE gc.missed.age
      /\ all.size = IF gc.pc = "size" THEN gc.missed.size \cup missed ELSE gc.missed.size
  <2>1. gc.missed \in [age : SUBSET Paths, size : SUBSET Paths] /\ missed \in SUBSET Paths
    BY <1>2, <1>4 DEF GcType
  <2> QED
    BY <1>4, <2>1 DEF Miss
<1>7. current \in Int
  <2>1. gc.current - e.size \in Int
    BY <1>2, <1>4
  <2>2. Max({0, gc.current - e.size}) \in Int
    BY <2>1, MaxOfZero
  <2> QED
    BY <1>4, <2>2 DEF Left
<1>n. gc.pc = "size" => current = Max({0, gc.current - e.size})
  BY DEF Left
<1> HIDE DEF current, all
<1>5. /\ gc'.pc = IF gc.pc = "age" THEN "audit_age" ELSE "audit_size"
      /\ gc'.age = gc.age /\ gc'.max = gc.max /\ gc'.audit = gc.audit
      /\ gc'.cutoff = gc.cutoff /\ gc'.todo = gc.todo /\ gc'.current = current
      /\ gc'.removed = gc.removed \cup {e.path}
      /\ gc'.freed = gc.freed + e.size /\ gc'.gone = gc.gone + gone
      /\ gc'.missed = all /\ gc'.unlogged = gc.unlogged
  BY <1>c, <1>4 DEF GcType
<1>6. /\ \A p : p # e.path => (Mtime(p)' = Mtime(p) /\ (HasFile(p) <=> HasFile(p)'))
      /\ Listed' \subseteq Listed
      /\ backend = "filesystem" /\ missed = {} => e.path \notin Listed'
  <2>1. /\ \A p : p # e.path => mtime'[p] = mtime[p]
        /\ missed = {} => mtime'[e.path] = None
    <3>1. CASE mtime' = [mtime EXCEPT ![e.path] = None]
      BY <1>2, <1>4, <3>1
    <3>2. CASE missed = {e.path} /\ mtime' = mtime
      BY <3>2
    <3> QED
      BY <1>3, <3>1, <3>2
  <2>2. backend = "filesystem" => e.path \in Listed
    BY <1>2 DEF GInv, Counted, Listed
  <2> QED
    BY <1>3, <1>4, <2>1, <2>2 DEF Mtime, HasFile, Listed
<1>8. Typed'
  <2>1. gc' \in GcType
    <3>1. e.path \in Paths /\ gc.freed + e.size \in Int /\ gc.gone + gone \in Int
      BY <1>2, <1>3, <1>4
    <3> QED
      BY <1>c, <1>m, <1>4, <1>7, <3>1 DEF GcType, PCs
  <2>2. mtime' \in [Paths -> Nat \cup {None}]
    BY <1>3, <1>4
  <2> QED
    BY <1>3, <1>4, <2>1, <2>2 DEF Typed
<1>9. Auditing' /\ ~Auditing
  BY <1>4, <1>5 DEF Auditing
<1>10. Queued'
  <2>1. /\ \A i \in DOMAIN Queue : Queue[i].size = Size[Queue[i].path]
        /\ \A i, j \in DOMAIN Queue : Queue[i].path = Queue[j].path => i = j
        /\ gc.pc = "age" => gc.age # None
        /\ gc.pc = "size" => gc.max # None
    BY DEF GInv, Queued
  <2>2. \A i \in DOMAIN Queue' : Queue'[i].size = Size[Queue'[i].path]
    BY <1>2, <2>1
  <2>3. \A i, j \in DOMAIN Queue' : Queue'[i].path = Queue'[j].path => i = j
    <3>1. \A i \in DOMAIN Queue' : i \in Nat
      <4>1. Queue' \in Seq(EntryType)
        BY <1>2, <1>4 DEF GcType
      <4> QED
        BY <4>1
    <3>2. \A i, j \in DOMAIN Queue' : Queue'[i].path = Queue'[j].path => i + 1 = j + 1
      BY <1>2, <2>1
    <3> QED
      BY <3>1, <3>2
  <2> QED
    BY <1>2, <1>4, <1>5, <2>1, <2>2, <2>3 DEF Queued
<1>11. Counted'
  <2> SUFFICES ASSUME backend = "filesystem" PROVE Counted'
    BY <1>3 DEF Counted
  <2> DEFINE ma == Bytes(gc.missed.age)
             ms == Bytes(gc.missed.size)
  <2>1. (\A p \in Waiting : HasFile(p)) /\ gc.freed = gc.gone + ma + ms
    BY DEF GInv, Counted
  <2>2. ma \in Nat /\ ms \in Nat
    BY <1>4, BytesNat
  <2>3. gc'.freed = gc'.gone + Bytes(all.age) + Bytes(all.size)
    <3>1. CASE missed = {}
      <4>1. all.age = gc.missed.age /\ all.size = gc.missed.size
        BY <1>m, <3>1
      <4>2. gone = e.size
        BY <1>2, <1>3, <2>1, <3>1
      <4>3. Bytes(all.age) = ma /\ Bytes(all.size) = ms
        BY <4>1
      <4> HIDE DEF ma, ms
      <4> QED
        BY <1>2, <1>4, <1>5, <2>1, <2>2, <4>2, <4>3
    <3>2. CASE missed = {e.path}
      <4>1. gone = 0
        BY <1>3, <3>2
      <4>2. CASE gc.pc = "age"
        <5>1. all.age = gc.missed.age \cup {e.path} /\ all.size = gc.missed.size
          BY <1>m, <3>2, <4>2
        <5>2. e.path \in Paths \ gc.missed.age
          BY <1>2, <4>2 DEF GInv, Missed
        <5>3. Bytes(gc.missed.age \cup {e.path}) = Size[e.path] + ma
          BY <1>4, <5>2, BytesAdd
        <5>4. Bytes(all.age) = e.size + ma /\ Bytes(all.size) = ms
          BY <1>2, <5>1, <5>3
        <5> HIDE DEF ma, ms
        <5> QED
          BY <1>2, <1>4, <1>5, <2>1, <2>2, <4>1, <5>4
      <4>3. CASE gc.pc = "size"
        <5>1. all.age = gc.missed.age /\ all.size = gc.missed.size \cup {e.path}
          BY <1>m, <3>2, <4>3
        <5>2. e.path \in Paths \ gc.missed.size
          BY <1>2, <4>3 DEF GInv, Missed
        <5>3. Bytes(gc.missed.size \cup {e.path}) = Size[e.path] + ms
          BY <1>4, <5>2, BytesAdd
        <5>4. Bytes(all.size) = e.size + ms /\ Bytes(all.age) = ma
          BY <1>2, <5>1, <5>3
        <5> HIDE DEF ma, ms
        <5> QED
          BY <1>2, <1>4, <1>5, <2>1, <2>2, <4>1, <5>4
      <4> QED
        BY <1>4, <4>2, <4>3
    <3> QED
      BY <3>1, <3>2
  <2>4. \A p \in Waiting' : HasFile(p)'
    BY <1>2, <1>6, <2>1
  <2> QED
    BY <1>5, <2>3, <2>4 DEF Counted
<1>16. Missed'
  <2>1. missed \cap Waiting' = {}
    BY <1>2
  <2>2. CASE gc.pc = "age"
    <3>1. gc.missed.age \cap Waiting = {} /\ gc.missed.size = {}
      BY <2>2 DEF GInv, Missed
    <3>2. gc'.missed.age = gc.missed.age \cup missed /\ gc'.missed.size = gc.missed.size
      BY <1>m, <1>5, <2>2
    <3> QED
      BY <1>2, <1>5, <2>1, <2>2, <3>1, <3>2 DEF Missed
  <2>3. CASE gc.pc = "size"
    <3>1. gc.missed.size \cap Waiting = {}
      BY <2>3 DEF GInv, Missed
    <3>2. gc'.missed.size = gc.missed.size \cup missed
      BY <1>m, <1>5, <2>3
    <3> QED
      BY <1>2, <1>5, <2>1, <2>3, <3>1, <3>2 DEF Missed
  <2> QED
    BY <1>4, <2>2, <2>3
<1>12. OldGo'
  <2> SUFFICES ASSUME gc.age # None PROVE OldGo'
    BY <1>5 DEF OldGo
  <2>1. gc.cutoff <= clock
    BY <1>4 DEF GInv, OldGo
  <2>2. ASSUME backend = "filesystem", NEW p \in Listed'
        PROVE  \/ Mtime(p)' >= gc.cutoff \/ (gc.pc = "age" /\ p \in Waiting')
               \/ p \in gc'.missed.age
    <3>1. p \in Listed
      BY <1>6, <2>2
    <3>2. Mtime(p) >= gc.cutoff \/ (gc.pc = "age" /\ p \in Waiting) \/ p \in gc.missed.age
      <4>1. OldGo /\ gc.pc \notin {"off", "collect_age"} /\ gc.pc # "audit_age"
        BY <1>4 DEF GInv
      <4> QED
        BY <2>2, <3>1, <4>1 DEF OldGo
    <3>3. gc.missed.age \subseteq gc'.missed.age
      BY <1>m, <1>5
    <3>4. CASE p # e.path
      BY <1>2, <1>6, <3>2, <3>3, <3>4
    <3>5. CASE p = e.path
      <4>1. missed = {e.path} /\ mtime' = mtime
        BY <1>3, <1>6, <2>2, <3>5
      <4>2. Mtime(p)' = Mtime(p)
        BY <4>1 DEF Mtime, HasFile
      <4>3. gc.pc = "age" => p \in gc'.missed.age
        BY <1>m, <1>5, <3>5, <4>1
      <4> QED
        BY <3>2, <3>3, <4>2, <4>3
    <3> QED
      BY <3>4, <3>5
  <2>3. ASSUME backend = "filesystem", gc.pc = "age", NEW p \in Waiting'
        PROVE  p \in since \/ Mtime(p)' < gc.cutoff
    BY <1>2, <1>6, <2>3 DEF GInv, OldGo
  <2> QED
    BY <1>3, <1>4, <1>5, <2>1, <2>2, <2>3 DEF OldGo
<1>13. Measured'
  <2> SUFFICES ASSUME gc.pc = "size" PROVE Measured'
    BY <1>4, <1>5 DEF Measured
  <2>1. /\ gc.current = Bytes(Waiting) /\ Sorted(Queue)
        /\ Listed \ (gc.removed \cup since) \subseteq Waiting
        /\ backend = "filesystem" =>
             /\ Listed \ (since \cup gc.missed.size) \subseteq Waiting
             /\ \A i \in DOMAIN Queue : \/ Queue[i].path \in since
                                        \/ Queue[i].mtime = Mtime(Queue[i].path)
    BY DEF GInv, Measured
  <2>2. gc'.current = Bytes(Waiting')
    <3>1. Bytes(Waiting) = Size[e.path] + Bytes(Waiting \ {e.path})
      BY <1>2, BytesRemove
    <3>2. Bytes(Waiting \ {e.path}) \in Nat
      BY <1>2, BytesNat
    <3>3. gc.current - e.size = Bytes(Waiting \ {e.path})
      BY <1>2, <2>1, <3>1, <3>2
    <3>4. gc'.current = Max({0, Bytes(Waiting \ {e.path})})
      BY <1>n, <1>5, <3>3
    <3>5. gc'.current = Bytes(Waiting \ {e.path})
      <4> DEFINE b == Bytes(Waiting \ {e.path})
      <4>1. b \in Nat /\ gc'.current = Max({0, b})
        BY <3>2, <3>4
      <4> HIDE DEF b
      <4>2. gc'.current = b
        BY <4>1, MaxOfZero
      <4> QED
        BY <4>2 DEF b
    <3> QED
      BY <1>2, <3>5
  <2>3. Sorted(Queue')
    <3>1. ASSUME NEW i \in DOMAIN Queue', NEW j \in DOMAIN Queue', i < j
          PROVE  Queue'[i].mtime <= Queue'[j].mtime
      <4>1. Queue' \in Seq(EntryType)
        BY <1>2, <1>4 DEF GcType
      <4>2. i + 1 \in DOMAIN Queue /\ j + 1 \in DOMAIN Queue /\ i + 1 < j + 1
        BY <1>2, <3>1, <4>1
      <4>3. Queue'[i] = Queue[i + 1] /\ Queue'[j] = Queue[j + 1]
        BY <1>2
      <4> QED
        BY <2>1, <4>2, <4>3 DEF Sorted
    <3> QED
      BY <3>1 DEF Sorted
  <2>4. Listed' \ (gc'.removed \cup since') \subseteq Waiting'
    BY <1>2, <1>3, <1>5, <1>6, <2>1
  <2>5. backend = "filesystem" => Listed' \ (since' \cup gc'.missed.size) \subseteq Waiting'
    <3>1. gc'.missed.size = gc.missed.size \cup missed
      BY <1>m, <1>5
    <3> QED
      BY <1>2, <1>3, <1>6, <2>1, <3>1
  <2>6. ASSUME backend = "filesystem", NEW i \in DOMAIN Queue', NEW p, p = Queue'[i].path
        PROVE  p \in since \/ Queue'[i].mtime = Mtime(p)'
    <3>1. p # e.path /\ p = Queue[i + 1].path /\ i + 1 \in DOMAIN Queue
          /\ Queue'[i].mtime = Queue[i + 1].mtime
      BY <1>2, <2>6
    <3>2. p \in since \/ Queue[i + 1].mtime = Mtime(p)
      BY <2>1, <2>6, <3>1
    <3> QED
      BY <1>6, <3>1, <3>2
  <2>7. ASSUME backend = "filesystem", NEW i \in DOMAIN Queue'
        PROVE  Queue'[i].path \in since \/ Queue'[i].mtime = Mtime(Queue[i].path)'
    BY <2>6, <2>7
  <2> QED
    BY <1>3, <1>5, <2>2, <2>3, <2>4, <2>5, <2>7 DEF Measured
<1>14. BoundMet'
  BY <1>4, <1>5 DEF BoundMet
<1>15. RemovalsAudited'
  <2>1. gc.audit => gc.removed \subseteq log \cup gc.unlogged
    BY <1>4 DEF GInv, RemovalsAudited
  <2>2. gc'.removed = gc.removed \cup {Head(gc'.todo).path} /\ gc'.audit = gc.audit
    BY <1>1, <1>5
  <2> QED
    BY <1>3, <1>5, <1>9, <2>1, <2>2 DEF RemovalsAudited, Auditing
<1> QED
  BY <1>8, <1>10, <1>11, <1>12, <1>13, <1>14, <1>15, <1>16 DEF GInv

LEMMA SameUnlogged ==
  ASSUME NEW g \in GcType, NEW pc, NEW todo
  PROVE  [g EXCEPT !.pc = pc, !.todo = todo] =
           [g EXCEPT !.pc = pc, !.todo = todo, !.unlogged = g.unlogged]
BY DEF GcType

LEMMA RecordKeeps == ASSUME GInv, RecordStep PROVE GInv'
<1>1. /\ gc.pc \in {"audit_age", "audit_size"}
      /\ log \subseteq log' /\ log' \subseteq log \cup {Head(gc.todo).path}
      /\ clock' = clock /\ mtime' = mtime /\ db' = db /\ backend' = backend /\ since' = since
  BY DEF RecordStep, Record, RecordFails
<1>u. PICK u \in SUBSET {Head(gc.todo).path} :
        /\ gc' = [gc EXCEPT !.pc = IF gc.pc = "audit_age" THEN "age" ELSE "size",
                            !.todo = Tail(gc.todo), !.unlogged = gc.unlogged \cup u]
        /\ gc.audit => Head(gc.todo).path \in log' \cup u
  <2>1. CASE Record
    <3>1. gc \in GcType /\ gc.unlogged \cup {} = gc.unlogged
      BY DEF GInv, Typed
    <3>2. gc' = [gc EXCEPT !.pc = IF gc.pc = "audit_age" THEN "age" ELSE "size",
                           !.todo = Tail(gc.todo), !.unlogged = gc.unlogged \cup {}]
      BY <2>1, <3>1, SameUnlogged DEF Record
    <3>3. gc.audit => Head(gc.todo).path \in log' \cup {}
      BY <2>1 DEF Record
    <3> WITNESS {} \in SUBSET {Head(gc.todo).path}
    <3> QED
      BY <3>2, <3>3
  <2>2. CASE RecordFails
    <3> WITNESS {Head(gc.todo).path} \in SUBSET {Head(gc.todo).path}
    <3> QED
      BY <2>2 DEF RecordFails
  <2> QED
    BY <2>1, <2>2 DEF RecordStep
<1>2. Typed /\ Queued /\ gc \in GcType /\ log \subseteq Paths
  BY DEF GInv, Typed
<1>3. gc.todo # << >> /\ gc.todo \in Seq(EntryType) /\ Auditing
  BY <1>1, <1>2 DEF Queued, Auditing, GcType
<1>4. Tail(gc.todo) \in Seq(EntryType) /\ Head(gc.todo).path \in Paths
  <2>1. Head(gc.todo) \in EntryType /\ Tail(gc.todo) \in Seq(EntryType)
    BY <1>3
  <2> QED
    BY <2>1 DEF EntryType
<1>5. /\ gc'.pc = IF gc.pc = "audit_age" THEN "age" ELSE "size"
      /\ gc'.age = gc.age /\ gc'.max = gc.max /\ gc'.audit = gc.audit
      /\ gc'.cutoff = gc.cutoff /\ gc'.todo = Tail(gc.todo) /\ gc'.current = gc.current
      /\ gc'.removed = gc.removed /\ gc'.freed = gc.freed /\ gc'.gone = gc.gone
      /\ gc'.missed = gc.missed /\ gc'.unlogged = gc.unlogged \cup u
  BY <1>u, <1>2 DEF GcType
<1>6. ~Auditing' /\ Queue = Tail(gc.todo) /\ Queue' = Tail(gc.todo)
  BY <1>3, <1>5 DEF Auditing, Queue
<1>7. Queue' = Queue /\ Waiting' = Waiting
  BY <1>6 DEF Waiting
<1>8. Listed' = Listed /\ \A p : Mtime(p)' = Mtime(p) /\ (HasFile(p) <=> HasFile(p)')
  BY <1>1, SameListing
<1>9. Typed'
  <2>1. gc' \in GcType
    <3>1. gc.unlogged \cup u \in SUBSET Paths
      BY <1>u, <1>2, <1>4 DEF GcType
    <3> QED
      BY <1>u, <1>2, <1>4, <3>1 DEF GcType, PCs
  <2>2. log' \subseteq Paths
    BY <1>1, <1>2, <1>4
  <2> QED
    BY <1>1, <1>2, <2>1, <2>2 DEF Typed
<1>10. Queued'
  BY <1>1, <1>2, <1>5, <1>6, <1>7 DEF Queued
<1>11. Counted' /\ Missed'
  BY <1>1, <1>5, <1>7, <1>8 DEF GInv, Counted, Missed
<1>12. OldGo'
  <2>1. /\ gc'.pc \notin {"off", "collect_age"} /\ gc.pc \notin {"off", "collect_age"}
        /\ gc'.pc = "age" <=> gc.pc = "audit_age"
        /\ gc'.pc # "audit_age" /\ gc.pc # "age"
    BY <1>1, <1>5
  <2>2. OldGo
    BY DEF GInv
  <2> QED
    BY <1>1, <1>5, <1>7, <1>8, <2>1, <2>2 DEF OldGo
<1>13. Measured'
  <2>1. gc'.pc \in {"size", "audit_size"} => gc.pc \in {"size", "audit_size"}
    BY <1>1, <1>5
  <2>2. Measured
    BY DEF GInv
  <2> QED
    BY <1>1, <1>5, <1>7, <1>8, <2>1, <2>2 DEF Measured
<1>14. BoundMet'
  BY <1>1, <1>5 DEF BoundMet
<1>15. RemovalsAudited'
  <2>1. gc.audit => gc.removed \ (log \cup gc.unlogged) \subseteq {Head(gc.todo).path}
    BY <1>1 DEF GInv, RemovalsAudited
  <2>2. gc'.audit => gc'.removed \ (log' \cup gc'.unlogged) \subseteq {}
    BY <1>u, <1>1, <1>5, <2>1
  <2>3. gc'.pc \notin {"audit_age", "audit_size"}
    BY <1>1, <1>5
  <2> QED
    BY <2>2, <2>3 DEF RemovalsAudited
<1> QED
  BY <1>9, <1>10, <1>11, <1>12, <1>13, <1>14, <1>15 DEF GInv

(* The end of a loop: the limit is met, or nothing that gc collected is left. *)
LEMMA PhaseKeeps == ASSUME GInv, NextPhase PROVE GInv'
<1>1. /\ LoopEnds
      /\ gc' = IF gc.pc = "age" /\ gc.max # None THEN [gc EXCEPT !.pc = "collect_size"]
               ELSE [gc EXCEPT !.pc = "done", !.todo = << >>]
      /\ clock' = clock /\ mtime' = mtime /\ db' = db /\ backend' = backend
      /\ log' = log /\ since' = since
  BY DEF NextPhase
<1>2. Typed /\ Queued /\ gc \in GcType /\ clock \in Nat
  BY DEF GInv, Typed
<1>3. gc.pc \in {"age", "size"} /\ ~Auditing
  BY <1>1 DEF LoopEnds, Auditing
<1>4. gc.pc = "age" => gc.todo = << >>
  BY <1>1 DEF LoopEnds
<1>5. /\ gc'.pc = IF gc.pc = "age" /\ gc.max # None THEN "collect_size" ELSE "done"
      /\ gc'.age = gc.age /\ gc'.max = gc.max /\ gc'.audit = gc.audit
      /\ gc'.cutoff = gc.cutoff /\ gc'.todo = << >> /\ gc'.current = gc.current
      /\ gc'.removed = gc.removed /\ gc'.freed = gc.freed /\ gc'.gone = gc.gone
      /\ gc'.missed = gc.missed /\ gc'.unlogged = gc.unlogged
  BY <1>1, <1>2, <1>4 DEF GcType
<1>6. gc.todo = << >> => Waiting = {}
  <2>1. gc.todo = << >> => Queue = << >>
    BY <1>3 DEF Queue
  <2>2. DOMAIN << >> = {}
    OBVIOUS
  <2> QED
    BY Zenon, <2>1, <2>2 DEF Waiting
<1>7. ~Auditing' /\ Queue' = << >> /\ DOMAIN Queue' = {} /\ Waiting' = {}
  <2>1. ~Auditing' /\ Queue' = << >>
    BY <1>5 DEF Auditing, Queue
  <2>2. DOMAIN << >> = {}
    OBVIOUS
  <2> QED
    BY Zenon, <2>1, <2>2 DEF Waiting
<1>8. Listed' = Listed /\ \A p : Mtime(p)' = Mtime(p) /\ (HasFile(p) <=> HasFile(p)')
  BY <1>1, SameListing
<1>9. Typed'
  <2>1. << >> \in Seq(EntryType)
    OBVIOUS
  <2>2. gc' \in GcType
    BY <1>1, <1>2, <2>1 DEF GcType, PCs
  <2> QED
    BY <1>1, <1>2, <2>2 DEF Typed
<1>10. Queued'
  BY <1>2, <1>5, <1>7 DEF Queued
<1>11. Counted' /\ Missed'
  BY <1>1, <1>3, <1>5, <1>7 DEF GInv, Counted, Missed
<1>12. OldGo'
  <2>1. OldGo
    BY DEF GInv
  <2>2. gc.age # None => gc.cutoff <= clock
    BY <1>3, <2>1 DEF OldGo
  <2>3. gc.age # None /\ backend = "filesystem" =>
          \A p \in Listed : Mtime(p) >= gc.cutoff \/ p \in gc.missed.age
    BY <1>3, <1>4, <1>6, <2>1 DEF OldGo
  <2>4. gc'.pc \notin {"age", "audit_age"}
    BY <1>5
  <2> QED
    BY <1>1, <1>5, <1>8, <2>2, <2>3, <2>4 DEF OldGo
<1>13. Measured'
  BY <1>5 DEF Measured
<1>14. BoundMet'
  <2> SUFFICES ASSUME gc'.pc = "done", gc.max # None
               PROVE  2 * Bytes(Listed \ (gc.removed \cup since))' <= Asked2(gc.max)
    BY <1>5 DEF BoundMet
  <2>1. gc.pc = "size"
    BY <1>3, <1>5
  <2>2. /\ gc.current = Bytes(Waiting) /\ Waiting \subseteq Paths
        /\ Listed \ (gc.removed \cup since) \subseteq Waiting
    BY <1>2, <2>1, QueueFacts DEF GInv, Measured
  <2>3. gc.max \in SizeArgs
    BY <1>2 DEF GcType
  <2>4. /\ ParseSize(gc.max) \in Nat /\ Asked2(gc.max) \in Nat
        /\ 2 * ParseSize(gc.max) <= Asked2(gc.max)
    BY <2>3, ParseRounds
  <2>5. Bytes(Waiting) \in Nat /\ Bytes(Waiting) <= ParseSize(gc.max)
    <3>1. CASE gc.todo = << >>
      <4>1. Waiting = {}
        BY <1>6, <3>1
      <4>2. Bytes(Waiting) = 0
        BY Zenon, <4>1, BytesNone
      <4> QED
        BY <2>4, <4>2
    <3>2. CASE gc.current <= ParseSize(gc.max)
      BY <2>2, <3>2, BytesNat
    <3> QED
      BY <1>1, <2>1, <3>1, <3>2 DEF LoopEnds
  <2> DEFINE Q == Listed \ (gc.removed \cup since)
  <2>6. Q \in SUBSET Waiting /\ (Listed \ (gc.removed \cup since))' = Q
    BY <1>1, <1>5, <1>8, <2>2
  <2> HIDE DEF Q
  <2>7. Bytes(Q) <= Bytes(Waiting) /\ Bytes(Q) \in Nat
    BY <2>2, <2>6, BytesMonotone, BytesNat
  <2>8. 2 * Bytes(Q) <= Asked2(gc.max)
    BY <2>4, <2>5, <2>7
  <2> QED
    BY <2>6, <2>8
<1>15. RemovalsAudited'
  BY <1>1, <1>3, <1>5 DEF GInv, RemovalsAudited
<1> QED
  BY <1>9, <1>10, <1>11, <1>12, <1>13, <1>14, <1>15 DEF GInv

LEMMA StaysPut == ASSUME GInv, UNCHANGED vars PROVE GInv'
<1>1. /\ gc' = gc /\ clock' = clock /\ mtime' = mtime /\ db' = db /\ backend' = backend
      /\ log' = log /\ since' = since
  BY DEF vars
<1>2. Queue' = Queue /\ Waiting' = Waiting /\ (Auditing <=> Auditing')
  BY <1>1, SameQueue
<1>3. Listed' = Listed /\ \A p : Mtime(p)' = Mtime(p) /\ (HasFile(p) <=> HasFile(p)')
  BY <1>1, SameListing
<1> QED
  BY <1>1, <1>2, <1>3 DEF GInv, Typed, Queued, Counted, Missed, OldGo, Measured,
                          BoundMet, RemovalsAudited

LEMMA Inductive == GInv /\ [Next]_vars => GInv'
<1> SUFFICES ASSUME GInv, [Next]_vars PROVE GInv'
  OBVIOUS
<1>1. CASE Tick
  BY <1>1, TickKeeps
<1>2. ASSUME NEW p \in Paths, Import(p) \/ Sign(p) \/ PutNarinfo(p)
      PROVE  GInv'
  BY <1>2, UseKeeps
<1>3. CASE GcStep
  BY <1>3, CollectAgeKeeps, CollectSizeKeeps, RemoveKeeps, RecordKeeps, PhaseKeeps DEF GcStep
<1>4. ASSUME NEW age \in Ages \cup {None}, NEW max \in SizeArgs \cup {None},
             GcStart(age, max) \/ Crash
      PROVE  GInv'
  BY <1>4, StartKeeps
<1>5. CASE UNCHANGED vars
  BY <1>5, StaysPut
<1> QED
  BY <1>1, <1>2, <1>3, <1>4, <1>5 DEF Next, Others

LEMMA AlwaysGInv == Spec => []GInv
BY Starts, Inductive, PTL DEF Spec

-----------------------------------------------------------------------------
(* When gc --max-size ends, what it has collected, not counted as removed,   *)
(* and nobody has used since fits in the size that was asked for: for any   *)
(* sizes, any limit, with either backend and whatever else goes on.         *)
THEOREM SizeBoundMet == Spec => []BoundMet
<1>1. GInv => BoundMet
  BY DEF GInv
<1> QED
  BY <1>1, AlwaysGInv, PTL

(* The bytes that gc reports are those of the narinfos that went and, once   *)
(* for each limit, of those it could not remove; --max-age leaves nothing   *)
(* else that is as old as that (filesystem backend).                        *)
THEOREM ReportsTrue == Spec => []ReportTrue
<1>1. GInv => ReportTrue
  BY DEF GInv, Counted, OldGo, ReportTrue
<1> QED
  BY <1>1, AlwaysGInv, PTL

(* Every removal but the one being made has its event in the audit log,      *)
(* once that is open, whichever limit the removal was for, unless that      *)
(* record failed.                                                           *)
THEOREM AuditComplete == Spec => []RemovalsAudited
<1>1. GInv => RemovalsAudited
  BY DEF GInv
<1> QED
  BY <1>1, AlwaysGInv, PTL

(* gc --max-age goes for no entry that was imported or signed within the      *)
(* duration and that it had not listed before (filesystem backend).         *)
YoungKept ==
  gc.pc = "age" /\ RemoveStep /\ backend = "filesystem" =>
    LET p == Head(gc.todo).path
    IN  Mtime(p) < gc.cutoff \/ p \in since

THEOREM AgesRespected == Spec => AgeRespected
<1>1. GInv /\ [Next]_vars => [YoungKept]_vars
  <2> SUFFICES ASSUME GInv, gc.pc = "age", RemoveStep, backend = "filesystem"
               PROVE  Mtime(Head(gc.todo).path) < gc.cutoff \/ Head(gc.todo).path \in since
    BY DEF YoungKept
  <2>1. gc.age # None
    BY DEF GInv, Queued
  <2>2. Head(gc.todo).path \in Waiting
    BY Removal
  <2> QED
    BY <2>1, <2>2 DEF GInv, OldGo
<1>2. AgeRespected <=> [][YoungKept]_vars
  BY DEF AgeRespected, YoungKept
<1> QED
  BY <1>1, <1>2, AlwaysGInv, PTL DEF Spec

(* gc --max-size goes for an entry only while the cache is larger than was   *)
(* asked, and for none before another that was used less recently, but for  *)
(* what was used since it collected and what it could not remove.           *)
OldestOverLimit ==
  gc.pc = "size" /\ RemoveStep /\ backend = "filesystem" =>
    LET p == Head(gc.todo).path
    IN  /\ \/ 2 * Bytes(Listed) > Asked2(gc.max)
           \/ Asked2(gc.max) > 2 * MaxU64
           \/ since # {}
        /\ p \in since \/ \A q \in Listed \ (since \cup gc.missed.size) :
                             Mtime(p) <= Mtime(q)

THEOREM EvictsOldest == Spec => EvictsLruOverLimit
<1>1. GInv /\ [Next]_vars => [OldestOverLimit]_vars
  <2> SUFFICES ASSUME GInv, gc.pc = "size", RemoveStep, backend = "filesystem"
               PROVE  /\ \/ 2 * Bytes(Listed) > Asked2(gc.max)
                         \/ Asked2(gc.max) > 2 * MaxU64
                         \/ since # {}
                      /\ \/ Head(gc.todo).path \in since
                         \/ \A q \in Listed \ (since \cup gc.missed.size) :
                              Mtime(Head(gc.todo).path) <= Mtime(q)
    BY DEF OldestOverLimit
  <2>1. PICK e : e = Head(gc.todo)
    OBVIOUS
  <2>2. /\ gc.todo # << >> /\ e = gc.todo[1] /\ 1 \in DOMAIN gc.todo /\ Queue = gc.todo
        /\ e.path \in Waiting /\ Waiting \subseteq Paths
    BY <2>1, Removal
  <2>3. /\ gc.current = Bytes(Waiting) /\ Sorted(Queue)
        /\ Listed \ (since \cup gc.missed.size) \subseteq Waiting
        /\ \A i \in DOMAIN Queue : \/ Queue[i].path \in since
                                   \/ Queue[i].mtime = Mtime(Queue[i].path)
    BY DEF GInv, Measured
  <2>4. gc.max \in SizeArgs /\ gc.todo \in Seq(EntryType)
    BY DEF GInv, Typed, GcType, Queued
  <2>5. ~ (gc.current <= ParseSize(gc.max))
    BY <2>2 DEF RemoveStep, RemoveEntry, RemoveEntryFails, LoopEnds
  <2>6. \/ 2 * Bytes(Listed) > Asked2(gc.max)
        \/ Asked2(gc.max) > 2 * MaxU64
        \/ since # {}
    <3> SUFFICES ASSUME since = {}
                 PROVE  2 * Bytes(Listed) > Asked2(gc.max) \/ Asked2(gc.max) > 2 * MaxU64
      OBVIOUS
    <3>1. Waiting \subseteq Listed /\ Listed \in SUBSET Paths
      BY <2>2, ListedPaths DEF GInv, Counted, Listed
    <3>2. Bytes(Waiting) <= Bytes(Listed)
      BY <3>1, BytesMonotone
    <3>3. Bytes(Listed) \in Nat /\ Bytes(Waiting) \in Nat /\ ParseSize(gc.max) \in Nat
      BY <2>2, <2>4, <3>1, BytesNat, ParseRounds
    <3>4. Bytes(Listed) > ParseSize(gc.max)
      BY <2>3, <2>5, <3>2, <3>3
    <3> QED
      BY <2>4, <3>3, <3>4, ParseRounds
  <2>7. ASSUME e.path \notin since, NEW q \in Listed \ (since \cup gc.missed.size)
        PROVE  Mtime(e.path) <= Mtime(q)
    <3>1. PICK i \in DOMAIN Queue : q = Queue[i].path
      BY <2>3 DEF Waiting
    <3>2. Queue[i].mtime = Mtime(q) /\ Queue[1].mtime = Mtime(e.path)
      BY <2>2, <2>3, <2>7, <3>1
    <3>3. i \in Nat /\ i >= 1 /\ Queue[i].mtime \in Nat
      <4>1. Queue \in Seq(EntryType) /\ i \in 1..Len(Queue)
        BY <2>2, <2>4, <3>1
      <4>2. Queue[i] \in EntryType
        BY <4>1
      <4> QED
        BY <4>1, <4>2 DEF EntryType
    <3>4. CASE i = 1
      BY <3>2, <3>3, <3>4
    <3>5. CASE i # 1
      BY <2>2, <2>3, <3>2, <3>3, <3>5 DEF Sorted
    <3> QED
      BY <3>4, <3>5
  <2> QED
    BY <2>1, <2>6, <2>7
<1>2. EvictsLruOverLimit <=> [][OldestOverLimit]_vars
  BY DEF EvictsLruOverLimit, OldestOverLimit
<1> QED
  BY <1>1, <1>2, AlwaysGInv, PTL DEF Spec
=============================================================================
