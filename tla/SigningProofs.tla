--------------------------- MODULE SigningProofs ---------------------------
(***************************************************************************)
(* Theorems about Signing and the modules below it, for digests, inputs    *)
(* and reference lists of any length, any bytes and any number of keys.    *)
(***************************************************************************)
EXTENDS Signing, FiniteSetTheorems, WellFoundedInduction, TLAPS

-----------------------------------------------------------------------------
(* Lines of a text.  What counts of a key is its last line. *)
LEMMA LeastNumber ==
  ASSUME NEW T \in SUBSET Nat, T # {}
  PROVE  \E n \in T : \A m \in T : n <= m
<1> DEFINE R == OpToRel(<, Nat)
<1>1. IsWellFoundedOn(R, Nat)
  BY NatLessThanWellFounded
<1>2. \A m, n \in Nat : <<m, n>> \in R <=> m < n
  BY DEF OpToRel
<1> HIDE DEF R
<1>3. PICK n \in T : \A m \in T : ~ (<<m, n>> \in R)
  BY <1>1, WFMin
<1>4. n \in Nat /\ \A m \in T : m \in Nat
  OBVIOUS
<1>5. \A m \in T : ~ (m < n)
  BY <1>2, <1>3, <1>4
<1> QED
  BY <1>4, <1>5

Last(text, key, i) ==
  /\ i \in DOMAIN text /\ text[i][1] = key
  /\ \A j \in DOMAIN text : text[j][1] = key => j <= i

LEMMA LastExists ==
  ASSUME NEW S, NEW text \in Seq(S), NEW key, HasLine(text, key)
  PROVE  \E i : Last(text, key, i)
<1> DEFINE T == {Len(text) - i : i \in {j \in DOMAIN text : text[j][1] = key}}
<1>1. Len(text) \in Nat /\ DOMAIN text = 1..Len(text)
  OBVIOUS
<1>2. T \in SUBSET Nat /\ T # {}
  BY <1>1 DEF HasLine
<1>3. PICK n \in T : \A m \in T : n <= m
  <2> HIDE DEF T
  <2> QED
    BY <1>2, LeastNumber
<1>4. PICK i \in DOMAIN text : text[i][1] = key /\ n = Len(text) - i
  OBVIOUS
<1>5. ASSUME NEW j \in DOMAIN text, text[j][1] = key
      PROVE  j <= i
  <2>1. n <= Len(text) - j
    BY <1>3, <1>5
  <2> QED
    BY <1>1, <1>4, <2>1
<1> QED
  BY <1>4, <1>5 DEF Last

LEMMA FieldIs ==
  ASSUME NEW S, NEW text \in Seq(S), NEW key, NEW i, Last(text, key, i), NEW default
  PROVE  HasLine(text, key) /\ Field(text, key, default) = text[i][2]
<1>1. HasLine(text, key)
  BY DEF HasLine, Last
<1> DEFINE Is(k) == /\ text[k][1] = key
                    /\ \A j \in DOMAIN text : text[j][1] = key => j <= k
           l == CHOOSE k \in DOMAIN text : Is(k)
<1>2. i \in DOMAIN text /\ Is(i)
  BY DEF Last
<1>3. l \in DOMAIN text /\ Is(l)
  <2> HIDE DEF Is
  <2> QED
    BY <1>2
<1>4. l <= i /\ i <= l /\ l \in Nat /\ i \in Nat
  BY <1>2, <1>3
<1>5. l = i
  <2> HIDE DEF l
  <2> QED
    BY <1>4
<1>6. Field(text, key, default) = text[l][2]
  BY <1>1 DEF Field
<1> QED
  BY <1>1, <1>5, <1>6

(* A text that has the lines of another at e, in their order, and among     *)
(* them all those of a key, has that field as the other has it.            *)
Through(part, text, e, key) ==
  /\ e \in [1..Len(part) -> 1..Len(text)]
  /\ \A i, j \in 1..Len(part) : i < j => e[i] < e[j]
  /\ \A j \in 1..Len(part) : part[j] = text[e[j]]
  /\ \A i \in 1..Len(text) : text[i][1] = key => \E j \in 1..Len(part) : e[j] = i

LEMMA FieldThrough ==
  ASSUME NEW S, NEW text \in Seq(S), NEW part \in Seq(S), NEW key,
         NEW e, Through(part, text, e, key)
  PROVE  /\ HasLine(part, key) <=> HasLine(text, key)
         /\ \A default : Field(part, key, default) = Field(text, key, default)
<1>0. /\ e \in [1..Len(part) -> 1..Len(text)]
      /\ \A i, j \in 1..Len(part) : i < j => e[i] < e[j]
      /\ \A j \in 1..Len(part) : part[j] = text[e[j]]
      /\ \A i \in 1..Len(text) : text[i][1] = key => \E j \in 1..Len(part) : e[j] = i
  BY DEF Through
<1>1. /\ DOMAIN text = 1..Len(text) /\ DOMAIN part = 1..Len(part)
      /\ \A j \in 1..Len(part) : e[j] \in 1..Len(text) /\ j \in Nat /\ e[j] \in Nat
  BY <1>0
<1>2. CASE HasLine(part, key)
  <2>1. PICK j : Last(part, key, j)
    BY <1>2, LastExists
  <2>2. j \in 1..Len(part) /\ part[j] = text[e[j]] /\ e[j] \in 1..Len(text)
    BY <1>0, <1>1, <2>1 DEF Last
  <2>3. ASSUME NEW k \in DOMAIN text, text[k][1] = key
        PROVE  k <= e[j]
    <3>1. PICK l \in 1..Len(part) : e[l] = k
      BY <1>0, <1>1, <2>3
    <3>2. l <= j
      BY <1>0, <1>1, <2>1, <2>3, <3>1 DEF Last
    <3>3. l = j \/ l < j
      BY <1>1, <2>2, <3>2
    <3> QED
      BY <1>0, <1>1, <2>2, <3>1, <3>3
  <2>4. Last(text, key, e[j])
    BY <1>1, <2>1, <2>2, <2>3 DEF Last
  <2>5. ASSUME NEW default
        PROVE  /\ HasLine(part, key) /\ Field(part, key, default) = part[j][2]
               /\ HasLine(text, key) /\ Field(text, key, default) = text[e[j]][2]
    <3>1. HasLine(part, key) /\ Field(part, key, default) = part[j][2]
      BY <2>1, FieldIs
    <3>2. HasLine(text, key) /\ Field(text, key, default) = text[e[j]][2]
      BY <2>4, FieldIs
    <3> QED
      BY <3>1, <3>2
  <2>6. HasLine(part, key) /\ HasLine(text, key)
    BY <2>5
  <2>7. ASSUME NEW default
        PROVE  Field(part, key, default) = Field(text, key, default)
    BY <2>2, <2>5
  <2> QED
    BY <2>6, <2>7
<1>3. CASE ~HasLine(part, key)
  <2>1. ASSUME HasLine(text, key)
        PROVE  FALSE
    <3>1. PICK i \in 1..Len(text) : text[i][1] = key
      BY <1>1, <2>1 DEF HasLine
    <3>2. PICK j \in 1..Len(part) : e[j] = i
      BY <1>0, <3>1
    <3>3. part[j][1] = key
      BY <1>0, <3>1, <3>2
    <3> QED
      BY <1>1, <1>3, <3>3 DEF HasLine
  <2>2. ASSUME NEW default
        PROVE  Field(part, key, default) = default /\ Field(text, key, default) = default
    BY <1>3, <2>1 DEF Field
  <2>3. ASSUME NEW default
        PROVE  Field(part, key, default) = Field(text, key, default)
    BY <2>2
  <2> QED
    BY <1>3, <2>1, <2>3
<1> QED
  BY <1>2, <1>3

(* A line that is added counts for its key and leaves the other fields.    *)
LEMMA FieldOfAppend ==
  ASSUME NEW S, NEW text \in Seq(S), NEW line \in S, NEW key, line[1] # key
  PROVE  /\ HasLine(Append(text, line), key) <=> HasLine(text, key)
         /\ \A default : Field(Append(text, line), key, default) = Field(text, key, default)
<1>0. PICK u : u = Append(text, line)
  OBVIOUS
<1>1. u \in Seq(S) /\ Len(u) = Len(text) + 1 /\ Len(text) \in Nat
  BY <1>0
<1>2. (\A j \in 1..Len(text) : u[j] = text[j]) /\ u[Len(text) + 1] = line
  BY <1>0
<1>3. DOMAIN u = 1..(Len(text) + 1)
  BY <1>1
<1>4. /\ HasLine(u, key) <=> HasLine(text, key)
      /\ \A default : Field(u, key, default) = Field(text, key, default)
  <2>1. PICK e : e = [j \in 1..Len(text) |-> j]
    OBVIOUS
  <2>2. e \in [1..Len(text) -> 1..Len(u)]
    BY <1>1, <2>1
  <2>3. \A i, j \in 1..Len(text) : i < j => e[i] < e[j]
    BY <1>1, <2>1
  <2>4. \A j \in 1..Len(text) : text[j] = u[e[j]]
    BY <1>2, <2>1
  <2>5. ASSUME NEW i \in 1..Len(u), u[i][1] = key
        PROVE  \E j \in 1..Len(text) : e[j] = i
    <3>1. i # Len(text) + 1
      BY <1>2, <2>5
    <3>2. i \in 1..Len(text)
      BY <1>1, <3>1
    <3> QED
      BY <2>1, <3>2
  <2>0. u \in Seq(S)
    BY <1>1
  <2>6. \A i \in 1..Len(u) : u[i][1] = key => \E j \in 1..Len(text) : e[j] = i
    BY <2>5
  <2>7. Through(text, u, e, key)
    BY <2>2, <2>3, <2>4, <2>6 DEF Through
  <2>8. /\ HasLine(text, key) <=> HasLine(u, key)
        /\ \A default : Field(text, key, default) = Field(u, key, default)
    BY <2>0, <2>7, FieldThrough
  <2>9. ASSUME NEW default
        PROVE  Field(u, key, default) = Field(text, key, default)
    BY <2>8
  <2> QED
    BY <2>8, <2>9
<1> QED
  BY <1>0, <1>4

LEMMA FieldAppended ==
  ASSUME NEW S, NEW text \in Seq(S), NEW line \in S
  PROVE  /\ HasLine(Append(text, line), line[1])
         /\ \A default : Field(Append(text, line), line[1], default) = line[2]
<1>0. PICK u : u = Append(text, line)
  OBVIOUS
<1>1. u \in Seq(S) /\ Len(u) = Len(text) + 1 /\ Len(text) \in Nat
  BY <1>0
<1>2. (\A j \in 1..Len(text) : u[j] = text[j]) /\ u[Len(text) + 1] = line
  BY <1>0
<1>3. DOMAIN u = 1..(Len(text) + 1)
  BY <1>1
<1>4. Last(u, line[1], Len(text) + 1)
  BY <1>1, <1>2, <1>3 DEF Last
<1>5. ASSUME NEW default
      PROVE  HasLine(u, line[1]) /\ Field(u, line[1], default) = u[Len(text) + 1][2]
  BY <1>1, <1>4, FieldIs
<1> QED
  BY <1>0, <1>2, <1>5

-----------------------------------------------------------------------------
(* The signatures of a text, and its other lines. *)
Wanted(line, sign) == (line[1] = "Sig") = sign

(* The function that keeps one line after the other, up to m. *)
Kept(text, sign, f, i) ==
  IF i = 0 THEN << >>
  ELSE IF Wanted(text[i], sign) THEN Append(f[i - 1], text[i]) ELSE f[i - 1]
Keeps(text, sign, f, m) == f = [i \in 0..m |-> Kept(text, sign, f, i)]

LEMMA LinesThatIs ==
  ASSUME NEW text, NEW sign
  PROVE  LinesThat(text, sign) = (CHOOSE f : Keeps(text, sign, f, Len(text)))[Len(text)]
BY Zenon DEF LinesThat, Keeps, Kept, Wanted

LEMMA KeepsExists ==
  ASSUME NEW S, NEW text \in Seq(S), NEW sign
  PROVE  \E f : Keeps(text, sign, f, Len(text))
<1> DEFINE Bad == {m \in Nat : ~\E f : Keeps(text, sign, f, m)}
<1>0. Len(text) \in Nat
  OBVIOUS
<1> SUFFICES ASSUME Bad # {} PROVE FALSE
  BY <1>0
<1>1. PICK m \in Bad : \A k \in Bad : m <= k
  <2>1. Bad \in SUBSET Nat
    OBVIOUS
  <2> HIDE DEF Bad
  <2> QED
    BY <2>1, LeastNumber
<1>2. m \in Nat /\ ~\E f : Keeps(text, sign, f, m)
  OBVIOUS
<1>3. CASE m = 0
  <2> DEFINE f == [i \in 0..0 |-> << >>]
  <2>1. f = [i \in 0..0 |-> Kept(text, sign, f, i)]
    BY DEF Kept
  <2> HIDE DEF f
  <2> QED
    BY <1>2, <1>3, <2>1 DEF Keeps
<1>4. CASE m # 0
  <2>1. m - 1 \in Nat /\ ~ (m <= m - 1)
    BY <1>2, <1>4
  <2>2. m - 1 \notin Bad
    <3> HIDE DEF Bad
    <3> QED
      BY <1>1, <2>1
  <2>3. PICK g : Keeps(text, sign, g, m - 1)
    BY <2>1, <2>2
  <2>4. g = [i \in 0..(m - 1) |-> Kept(text, sign, g, i)]
    BY <2>3 DEF Keeps
  <2> DEFINE f == [i \in 0..m |-> Kept(text, sign, g, i)]
  <2>5. ASSUME NEW i \in 0..m
        PROVE  Kept(text, sign, g, i) = Kept(text, sign, f, i)
    <3>1. CASE i = 0
      BY <3>1 DEF Kept
    <3>2. CASE i # 0
      <4>1. i - 1 \in 0..(m - 1) /\ i - 1 \in 0..m
        BY <1>2, <3>2
      <4>2. g[i - 1] = Kept(text, sign, g, i - 1)
        BY <2>4, <4>1
      <4>3. f[i - 1] = Kept(text, sign, g, i - 1)
        BY <4>1
      <4> HIDE DEF f
      <4> QED
        BY <3>2, <4>2, <4>3 DEF Kept
    <3> QED
      BY <3>1, <3>2
  <2>6. f = [i \in 0..m |-> Kept(text, sign, f, i)]
    BY <2>5
  <2> HIDE DEF f
  <2> QED
    BY <1>2, <2>6 DEF Keeps
<1> QED
  BY <1>3, <1>4

(* w is what is kept of the first m lines: e[j] is where its j-th was.   *)
Leaves(S, text, sign, w, e, m) ==
  /\ w \in Seq(S)
  /\ e \in [1..Len(w) -> 1..m]
  /\ \A i, j \in 1..Len(w) : i < j => e[i] < e[j]
  /\ \A j \in 1..Len(w) : w[j] = text[e[j]] /\ Wanted(w[j], sign)
  /\ \A i \in 1..m : Wanted(text[i], sign) => \E j \in 1..Len(w) : e[j] = i

LEMMA LeavesMore ==
  ASSUME NEW S, NEW text \in Seq(S), NEW sign, NEW m \in 1..Len(text),
         NEW w, NEW e, Leaves(S, text, sign, w, e, m - 1)
  PROVE  IF ~Wanted(text[m], sign) THEN Leaves(S, text, sign, w, e, m)
         ELSE \E d : Leaves(S, text, sign, Append(w, text[m]), d, m)
<1>1. /\ w \in Seq(S) /\ e \in [1..Len(w) -> 1..(m - 1)]
      /\ \A i, j \in 1..Len(w) : i < j => e[i] < e[j]
      /\ \A j \in 1..Len(w) : w[j] = text[e[j]] /\ Wanted(w[j], sign)
      /\ \A i \in 1..(m - 1) : Wanted(text[i], sign) => \E j \in 1..Len(w) : e[j] = i
  BY DEF Leaves
<1>2. /\ m \in Nat /\ m >= 1 /\ m - 1 \in Nat /\ Len(w) \in Nat
      /\ \A i \in 1..m : i \in 1..(m - 1) \/ i = m
      /\ \A i \in 1..(m - 1) : i \in 1..m /\ i < m
  BY <1>1
<1>3. CASE ~Wanted(text[m], sign)
  <2>1. e \in [1..Len(w) -> 1..m]
    BY <1>1, <1>2
  <2>2. \A i \in 1..m : Wanted(text[i], sign) => \E j \in 1..Len(w) : e[j] = i
    BY <1>1, <1>2, <1>3
  <2> QED
    BY <1>1, <1>3, <2>1, <2>2 DEF Leaves
<1>4. CASE Wanted(text[m], sign)
  <2> DEFINE v == Append(w, text[m])
             d == [j \in 1..Len(v) |-> IF j = Len(w) + 1 THEN m ELSE e[j]]
  <2>1. text[m] \in S
    OBVIOUS
  <2>2. /\ v \in Seq(S) /\ Len(v) = Len(w) + 1 /\ v[Len(w) + 1] = text[m]
        /\ \A j \in 1..Len(w) : v[j] = w[j]
    BY <1>1, <2>1
  <2>3. /\ \A j \in 1..Len(v) : j \in 1..Len(w) \/ j = Len(w) + 1
        /\ \A j \in 1..Len(w) : j \in 1..Len(v) /\ j # Len(w) + 1
        /\ Len(w) + 1 \in 1..Len(v)
    BY <1>2, <2>2
  <2> HIDE DEF v
  <2>4. /\ d[Len(w) + 1] = m
        /\ \A j \in 1..Len(w) : d[j] = e[j]
    BY <2>3
  <2>5. d \in [1..Len(v) -> 1..m]
    <3>0. m \in 1..m /\ \A j \in 1..Len(w) : e[j] \in 1..m
      <4>1. m \in 1..m /\ \A i \in 1..(m - 1) : i \in 1..m
        BY <1>2
      <4>2. \A j \in 1..Len(w) : e[j] \in 1..(m - 1)
        BY <1>1
      <4> QED
        BY <4>1, <4>2
    <3>1. \A j \in 1..Len(v) : (IF j = Len(w) + 1 THEN m ELSE e[j]) \in 1..m
      BY <2>3, <3>0
    <3> QED
      BY <3>1
  <2> HIDE DEF d
  <2>6. ASSUME NEW i \in 1..Len(v), NEW j \in 1..Len(v), i < j
        PROVE  d[i] < d[j]
    <3>1. i \in 1..Len(w)
      BY <1>2, <2>2, <2>6
    <3>2. e[i] \in 1..(m - 1) /\ e[i] < m
      BY <1>1, <1>2, <3>1
    <3> QED
      BY <1>1, <2>3, <2>4, <2>6, <3>1, <3>2
  <2>7. \A j \in 1..Len(v) : v[j] = text[d[j]] /\ Wanted(v[j], sign)
    BY <1>1, <1>4, <2>2, <2>3, <2>4
  <2>8. ASSUME NEW i \in 1..m, Wanted(text[i], sign)
        PROVE  \E j \in 1..Len(v) : d[j] = i
    <3>1. CASE i = m
      BY <2>3, <2>4, <3>1
    <3>2. CASE i \in 1..(m - 1)
      <4>1. PICK j \in 1..Len(w) : e[j] = i
        BY <1>1, <2>8, <3>2
      <4> QED
        BY <2>3, <2>4, <4>1
    <3> QED
      BY <1>2, <3>1, <3>2
  <2>9. Leaves(S, text, sign, v, d, m)
    BY <2>2, <2>5, <2>6, <2>7, <2>8 DEF Leaves
  <2> QED
    BY <1>4, <2>9 DEF v
<1> QED
  BY <1>3, <1>4

(* The lines of a kind, all of them and in their order. *)
LEMMA LinesThatLeaves ==
  ASSUME NEW S, NEW text \in Seq(S), NEW sign
  PROVE  \E e : Leaves(S, text, sign, LinesThat(text, sign), e, Len(text))
<1> DEFINE f == CHOOSE f : Keeps(text, sign, f, Len(text))
<1>1. Keeps(text, sign, f, Len(text))
  BY KeepsExists
<1>2. LinesThat(text, sign) = f[Len(text)]
  BY LinesThatIs
<1> HIDE DEF f
<1>3. Len(text) \in Nat /\ \A i \in 0..Len(text) : f[i] = Kept(text, sign, f, i)
  BY <1>1 DEF Keeps
<1> DEFINE Bad == {m \in 0..Len(text) : ~\E e : Leaves(S, text, sign, f[m], e, m)}
<1>4. Bad = {}
  <2> SUFFICES ASSUME Bad # {} PROVE FALSE
    OBVIOUS
  <2>1. PICK m \in Bad : \A k \in Bad : m <= k
    <3>1. Bad \in SUBSET Nat
      BY <1>3
    <3> HIDE DEF Bad
    <3> QED
      BY <3>1, LeastNumber
  <2>2. m \in 0..Len(text) /\ ~\E e : Leaves(S, text, sign, f[m], e, m)
    OBVIOUS
  <2>3. CASE m = 0
    <3>1. f[0] = << >>
      BY <1>3, <2>2, <2>3 DEF Kept
    <3>2. /\ << >> \in Seq(S) /\ Len(<< >>) = 0 /\ 1..0 = {}
          /\ [j \in 1..0 |-> 0] \in [1..0 -> 1..0]
      OBVIOUS
    <3>3. Leaves(S, text, sign, << >>, [j \in 1..0 |-> 0], 0)
      BY <3>2 DEF Leaves
    <3> QED
      BY <2>2, <2>3, <3>1, <3>3
  <2>4. CASE m # 0
    <3>1. m \in 1..Len(text) /\ m - 1 \in 0..Len(text) /\ ~ (m <= m - 1)
      BY <1>3, <2>2, <2>4
    <3>2. m - 1 \notin Bad
      <4> HIDE DEF Bad
      <4> QED
        BY <2>1, <3>1
    <3>3. PICK e : Leaves(S, text, sign, f[m - 1], e, m - 1)
      BY <3>1, <3>2
    <3>4. f[m] = IF ~Wanted(text[m], sign) THEN f[m - 1] ELSE Append(f[m - 1], text[m])
      BY <1>3, <2>2, <2>4 DEF Kept
    <3>5. IF ~Wanted(text[m], sign) THEN Leaves(S, text, sign, f[m - 1], e, m)
          ELSE \E d : Leaves(S, text, sign, Append(f[m - 1], text[m]), d, m)
      BY <3>1, <3>3, LeavesMore
    <3> QED
      BY <2>2, <3>4, <3>5
  <2> QED
    BY <2>3, <2>4
<1>5. Len(text) \in 0..Len(text)
  BY <1>3
<1> QED
  BY <1>2, <1>4, <1>5

(* Without its signatures a text has the fields it had. *)
LEMMA NonSigField ==
  ASSUME NEW S, NEW text \in Seq(S), NEW key, key # "Sig"
  PROVE  /\ NonSigLines(text) \in Seq(S)
         /\ HasLine(NonSigLines(text), key) <=> HasLine(text, key)
         /\ \A default : Field(NonSigLines(text), key, default) = Field(text, key, default)
<1>1. PICK w : w = NonSigLines(text)
  OBVIOUS
<1>2. PICK e : Leaves(S, text, FALSE, w, e, Len(text))
  BY <1>1, LinesThatLeaves DEF NonSigLines
<1>3. w \in Seq(S) /\ e \in [1..Len(w) -> 1..Len(text)]
  BY <1>2 DEF Leaves
<1>4. \A i, j \in 1..Len(w) : i < j => e[i] < e[j]
  BY <1>2 DEF Leaves
<1>5. \A j \in 1..Len(w) : w[j] = text[e[j]]
  BY <1>2 DEF Leaves
<1>6. \A i \in 1..Len(text) : text[i][1] = key => \E j \in 1..Len(w) : e[j] = i
  BY <1>2 DEF Leaves, Wanted
<1>7. Through(w, text, e, key)
  BY <1>3, <1>4, <1>5, <1>6 DEF Through
<1>8. /\ HasLine(w, key) <=> HasLine(text, key)
      /\ \A default : Field(w, key, default) = Field(text, key, default)
  BY <1>3, <1>7, FieldThrough
<1> QED
  BY <1>1, <1>3, <1>8

LEMMA NonSigHasNone ==
  ASSUME NEW S, NEW text \in Seq(S)
  PROVE  \A i \in DOMAIN NonSigLines(text) :
           /\ NonSigLines(text)[i][1] # "Sig"
           /\ \E j \in DOMAIN text : NonSigLines(text)[i] = text[j]
<1>1. PICK w : w = NonSigLines(text)
  OBVIOUS
<1>2. PICK e : Leaves(S, text, FALSE, w, e, Len(text))
  BY <1>1, LinesThatLeaves DEF NonSigLines
<1>3. /\ w \in Seq(S) /\ e \in [1..Len(w) -> 1..Len(text)]
      /\ \A j \in 1..Len(w) : w[j] = text[e[j]] /\ w[j][1] # "Sig"
  BY <1>2 DEF Leaves, Wanted
<1>4. DOMAIN w = 1..Len(w) /\ DOMAIN text = 1..Len(text)
  BY <1>3
<1> QED
  BY <1>1, <1>3, <1>4

(* Where only the last line may be a signature, it is all there is. *)
SigLast(text) == \A i \in DOMAIN text : text[i][1] = "Sig" => i = Len(text)

LEMMA SigLinesLast ==
  ASSUME NEW S, NEW text \in Seq(S), SigLast(text)
  PROVE  /\ Len(SigLines(text)) \in {0, 1}
         /\ \A i \in DOMAIN SigLines(text) :
              /\ Len(text) \in DOMAIN text
              /\ SigLines(text)[i] = text[Len(text)] /\ text[Len(text)][1] = "Sig"
<1>1. PICK w : w = SigLines(text)
  OBVIOUS
<1>2. PICK e : Leaves(S, text, TRUE, w, e, Len(text))
  BY <1>1, LinesThatLeaves DEF SigLines
<1>3. /\ w \in Seq(S) /\ e \in [1..Len(w) -> 1..Len(text)]
      /\ \A i, j \in 1..Len(w) : i < j => e[i] < e[j]
  BY <1>2 DEF Leaves
<1>4. \A j \in 1..Len(w) : w[j] = text[e[j]] /\ w[j][1] = "Sig"
  BY <1>2 DEF Leaves, Wanted
<1>5. DOMAIN w = 1..Len(w) /\ DOMAIN text = 1..Len(text) /\ Len(w) \in Nat /\ Len(text) \in Nat
  BY <1>3
<1>6. \A j \in 1..Len(w) : e[j] = Len(text) /\ e[j] \in DOMAIN text
  BY <1>3, <1>4, <1>5 DEF SigLast
<1>7. Len(w) \in {0, 1}
  <2>1. ASSUME Len(w) > 1
        PROVE  FALSE
    <3>1. 1 \in 1..Len(w) /\ 2 \in 1..Len(w) /\ 1 < 2
      BY <1>5, <2>1
    <3>2. e[1] < e[2]
      BY <1>3, <3>1
    <3> QED
      BY <1>5, <1>6, <3>1, <3>2
  <2> QED
    BY <1>5, <2>1
<1>8. \A i \in DOMAIN w : /\ Len(text) \in DOMAIN text
                         /\ w[i] = text[Len(text)] /\ text[Len(text)][1] = "Sig"
  BY <1>4, <1>5, <1>6
<1> QED
  BY <1>1, <1>7, <1>8
-----------------------------------------------------------------------------
(* Texts, of whatever lines. *)
IsText(text) == \E S : text \in Seq(S)

(* u is text with a line more: what it counts for, and what it leaves. *)
Added(text, line, u) ==
  /\ IsText(u)
  /\ DOMAIN text = 1..Len(text) /\ Len(text) \in Nat
  /\ DOMAIN u = 1..(Len(text) + 1) /\ Len(u) = Len(text) + 1
  /\ \A i \in DOMAIN text : u[i] = text[i]
  /\ u[Len(text) + 1] = line
  /\ \A key : IF line[1] = key
              THEN /\ HasLine(u, key)
                   /\ \A default : Field(u, key, default) = line[2]
              ELSE /\ HasLine(u, key) <=> HasLine(text, key)
                   /\ \A default : Field(u, key, default) = Field(text, key, default)

LEMMA LineAdded ==
  ASSUME NEW text, IsText(text), NEW line
  PROVE  Added(text, line, Append(text, line))
<1>1. PICK S0 : text \in Seq(S0)
  BY DEF IsText
<1>2. PICK S : S = S0 \cup {line}
  OBVIOUS
<1>3. text \in Seq(S) /\ line \in S
  BY <1>1, <1>2
<1>4. PICK u : u = Append(text, line)
  OBVIOUS
<1>5. u \in Seq(S) /\ Len(u) = Len(text) + 1 /\ Len(text) \in Nat
  BY <1>3, <1>4
<1>6. (\A j \in 1..Len(text) : u[j] = text[j]) /\ u[Len(text) + 1] = line
  BY <1>3, <1>4
<1>7. DOMAIN u = 1..(Len(text) + 1) /\ DOMAIN text = 1..Len(text)
  BY <1>3, <1>5
<1>8. ASSUME NEW key
      PROVE  IF line[1] = key
             THEN /\ HasLine(u, key)
                  /\ \A default : Field(u, key, default) = line[2]
             ELSE /\ HasLine(u, key) <=> HasLine(text, key)
                  /\ \A default : Field(u, key, default) = Field(text, key, default)
  <2>1. CASE line[1] = key
    <3>1. HasLine(u, key) /\ \A default : Field(u, key, default) = line[2]
      BY <1>3, <1>4, <2>1, FieldAppended
    <3> QED
      BY <2>1, <3>1
  <2>2. CASE line[1] # key
    <3>1. /\ HasLine(u, key) <=> HasLine(text, key)
          /\ \A default : Field(u, key, default) = Field(text, key, default)
      <4>1. /\ HasLine(Append(text, line), key) <=> HasLine(text, key)
            /\ \A default : Field(Append(text, line), key, default)
                               = Field(text, key, default)
        BY <1>3, <2>2, FieldOfAppend
      <4> QED
        BY <1>4, <4>1
    <3> QED
      BY <2>2, <3>1
  <2> QED
    BY <2>1, <2>2
<1>9. IsText(u)
  BY <1>5 DEF IsText
<1> QED
  BY <1>4, <1>5, <1>6, <1>7, <1>8, <1>9 DEF Added

(* A narinfo, and what a text reads as but for its signatures. *)
Nar(storePath, url, narHash, narSize, references, deriver, sig) ==
  [storePath |-> storePath, url |-> url, narHash |-> narHash, narSize |-> narSize,
   references |-> references, deriver |-> deriver, sig |-> sig]

Fields(text) == [Parsed(text) EXCEPT !.sig = << >>]

LEMMA FieldsAre ==
  ASSUME NEW text
  PROVE  /\ Fields(text) =
              Nar(Field(text, "StorePath", None), Field(text, "URL", None),
                  Field(text, "NarHash", NoHash), Field(text, "NarSize", None),
                  Field(text, "References", << >>),
                  IF HasLine(text, "Deriver") THEN <<Field(text, "Deriver", None)>> ELSE << >>,
                  << >>)
         /\ \A sig : [Parsed(text) EXCEPT !.sig = sig] = [Fields(text) EXCEPT !.sig = sig]
         /\ Fingerprint(Parsed(text)) = Fingerprint(Fields(text))
<1>1. PICK f1, f2, f3, f4, f5, f6 :
        /\ f1 = Field(text, "StorePath", None) /\ f2 = Field(text, "URL", None)
        /\ f3 = Field(text, "NarHash", NoHash) /\ f4 = Field(text, "NarSize", None)
        /\ f5 = Field(text, "References", << >>)
        /\ f6 = IF HasLine(text, "Deriver") THEN <<Field(text, "Deriver", None)>> ELSE << >>
  OBVIOUS
<1>2. PICK s : Parsed(text) = Nar(f1, f2, f3, f4, f5, f6, s)
  BY <1>1 DEF Parsed, Nar
<1>3. Fields(text) = Nar(f1, f2, f3, f4, f5, f6, << >>)
  BY <1>2 DEF Fields, Nar
<1>4. \A sig : [Parsed(text) EXCEPT !.sig = sig] = [Fields(text) EXCEPT !.sig = sig]
  BY <1>2, <1>3 DEF Nar
<1>5. Fingerprint(Parsed(text)) = Fingerprint(Fields(text))
  BY <1>2, <1>3 DEF Nar, Fingerprint
<1> QED
  BY <1>1, <1>3, <1>4, <1>5

LEMMA SameFields ==
  ASSUME NEW text, NEW u,
         \A key : key # "Sig" =>
           /\ HasLine(u, key) <=> HasLine(text, key)
           /\ \A default : Field(u, key, default) = Field(text, key, default)
  PROVE  Fields(u) = Fields(text)
<1>1. /\ Field(u, "StorePath", None) = Field(text, "StorePath", None)
      /\ Field(u, "URL", None) = Field(text, "URL", None)
      /\ Field(u, "NarHash", NoHash) = Field(text, "NarHash", NoHash)
      /\ Field(u, "NarSize", None) = Field(text, "NarSize", None)
  OBVIOUS
<1>2. Field(u, "References", << >>) = Field(text, "References", << >>)
  OBVIOUS
<1>3. /\ HasLine(u, "Deriver") <=> HasLine(text, "Deriver")
      /\ Field(u, "Deriver", None) = Field(text, "Deriver", None)
  OBVIOUS
<1> QED
  BY <1>1, <1>2, <1>3, FieldsAre

-----------------------------------------------------------------------------
(* What fmt writes is read back: references and deriver by base names. *)
Refs == [base : Bases \cup Drvs \cup {Piece}, full : BOOLEAN]
LineOK(line) == /\ line[1] = "References" => line[2] \in Seq(Refs)
                /\ line[1] = "Deriver" => line[2] \in Refs

LEMMA Concatenated ==
  ASSUME NEW S, NEW s \in Seq(S), NEW x
  PROVE  s \o << >> = s /\ s \o <<x>> = Append(s, x)
<1>1. Len(s) \in Nat /\ DOMAIN s = 1..Len(s) /\ s \in Seq(S \cup {x}) /\ x \in S \cup {x}
  OBVIOUS
<1> QED
  BY <1>1

(* A text without signatures, of lines that are in order, and its fields. *)
Reads(text, p, u, h, n, r, d) ==
  /\ IsText(text)
  /\ \A i \in DOMAIN text : LineOK(text[i]) /\ text[i][1] # "Sig"
  /\ Fields(text) = Nar(p, u, h, n, r, d, << >>)

LEMMA HeadReads ==
  ASSUME NEW p, NEW u, NEW h, NEW n
  PROVE  LET head == << <<"StorePath", p>>, <<"URL", u>>, <<"NarHash", h>>, <<"NarSize", n>> >>
         IN  /\ Reads(head, p, u, h, n, << >>, << >>)
             /\ ~HasLine(head, "References") /\ ~HasLine(head, "Deriver")
<1>1. PICK l1, l2, l3, l4 : /\ l1 = <<"StorePath", p>> /\ l2 = <<"URL", u>>
                            /\ l3 = <<"NarHash", h>> /\ l4 = <<"NarSize", n>>
  OBVIOUS
<1>2. PICK t : t = <<l1, l2, l3, l4>>
  OBVIOUS
<1>3. /\ t \in Seq({l1, l2, l3, l4}) /\ Len(t) = 4 /\ DOMAIN t = 1..4
      /\ t[1] = l1 /\ t[2] = l2 /\ t[3] = l3 /\ t[4] = l4
  BY <1>2
<1>4. /\ l1[1] = "StorePath" /\ l1[2] = p /\ l2[1] = "URL" /\ l2[2] = u
      /\ l3[1] = "NarHash" /\ l3[2] = h /\ l4[1] = "NarSize" /\ l4[2] = n
  BY <1>1
<1>5. \A i \in DOMAIN t : i = 1 \/ i = 2 \/ i = 3 \/ i = 4
  BY <1>3
<1>6. /\ Last(t, "StorePath", 1) /\ Last(t, "URL", 2)
      /\ Last(t, "NarHash", 3) /\ Last(t, "NarSize", 4)
  BY <1>3, <1>4, <1>5 DEF Last
<1>7. /\ ~HasLine(t, "References") /\ ~HasLine(t, "Deriver")
      /\ \A i \in DOMAIN t : LineOK(t[i]) /\ t[i][1] # "Sig"
  BY <1>3, <1>4, <1>5 DEF HasLine, LineOK
<1>8. /\ Field(t, "StorePath", None) = p /\ Field(t, "URL", None) = u
      /\ Field(t, "NarHash", NoHash) = h /\ Field(t, "NarSize", None) = n
  <2>1. Field(t, "StorePath", None) = p
    BY <1>3, <1>4, <1>6, FieldIs
  <2>2. Field(t, "URL", None) = u
    BY <1>3, <1>4, <1>6, FieldIs
  <2>3. Field(t, "NarHash", NoHash) = h
    BY <1>3, <1>4, <1>6, FieldIs
  <2>4. Field(t, "NarSize", None) = n
    BY <1>3, <1>4, <1>6, FieldIs
  <2> QED
    BY <2>1, <2>2, <2>3, <2>4
<1>9. Field(t, "References", << >>) = << >>
  BY <1>7 DEF Field
<1>10. Fields(t) = Nar(p, u, h, n, << >>, << >>, << >>)
  BY <1>7, <1>8, <1>9, FieldsAre
<1>11. IsText(t)
  BY <1>3 DEF IsText
<1>12. Reads(t, p, u, h, n, << >>, << >>)
  BY <1>7, <1>10, <1>11 DEF Reads
<1> QED
  BY <1>1, <1>2, <1>7, <1>12

LEMMA WithReferences ==
  ASSUME NEW text, NEW p, NEW u, NEW h, NEW n, NEW r \in Seq(Refs),
         Reads(text, p, u, h, n, << >>, << >>), ~HasLine(text, "Deriver")
  PROVE  LET t == Append(text, <<"References", r>>)
         IN  Reads(t, p, u, h, n, r, << >>) /\ ~HasLine(t, "Deriver")
<1>1. PICK line : line = <<"References", r>>
  OBVIOUS
<1>2. PICK t : t = Append(text, line)
  OBVIOUS
<1>3. IsText(text) /\ line[1] = "References" /\ line[2] = r
  BY <1>1 DEF Reads
<1>0. Added(text, line, t)
  BY <1>2, <1>3, LineAdded
<1>4. /\ IsText(t)
      /\ DOMAIN text = 1..Len(text) /\ Len(text) \in Nat
      /\ DOMAIN t = 1..(Len(text) + 1)
      /\ \A i \in DOMAIN text : t[i] = text[i]
      /\ t[Len(text) + 1] = line
  BY <1>0 DEF Added
<1>5. \A key : IF line[1] = key
               THEN HasLine(t, key) /\ \A default : Field(t, key, default) = line[2]
               ELSE /\ HasLine(t, key) <=> HasLine(text, key)
                    /\ \A default : Field(t, key, default) = Field(text, key, default)
  BY <1>0 DEF Added
<1>6. /\ Field(t, "StorePath", None) = Field(text, "StorePath", None)
      /\ Field(t, "URL", None) = Field(text, "URL", None)
      /\ Field(t, "NarHash", NoHash) = Field(text, "NarHash", NoHash)
      /\ Field(t, "NarSize", None) = Field(text, "NarSize", None)
      /\ Field(t, "References", << >>) = r
      /\ ~HasLine(t, "Deriver")
  BY <1>3, <1>5
<1>7. /\ Field(text, "StorePath", None) = p /\ Field(text, "URL", None) = u
      /\ Field(text, "NarHash", NoHash) = h /\ Field(text, "NarSize", None) = n
  BY FieldsAre DEF Reads, Nar
<1>8. Fields(t) = Nar(p, u, h, n, r, << >>, << >>)
  BY <1>6, <1>7, FieldsAre
<1>9. \A i \in DOMAIN t : LineOK(t[i]) /\ t[i][1] # "Sig"
  <2>1. LineOK(line) /\ line[1] # "Sig"
    BY <1>3 DEF LineOK
  <2>2. \A i \in DOMAIN text : LineOK(text[i]) /\ text[i][1] # "Sig"
    BY DEF Reads
  <2>3. \A i \in DOMAIN t : i \in DOMAIN text \/ i = Len(text) + 1
    BY <1>4
  <2> QED
    BY <1>4, <2>1, <2>2, <2>3
<1> QED
  BY <1>1, <1>2, <1>4, <1>6, <1>8, <1>9 DEF Reads

LEMMA WithDeriver ==
  ASSUME NEW text, NEW p, NEW u, NEW h, NEW n, NEW r, NEW d \in Refs,
         Reads(text, p, u, h, n, r, << >>)
  PROVE  Reads(Append(text, <<"Deriver", d>>), p, u, h, n, r, <<d>>)
<1>1. PICK line : line = <<"Deriver", d>>
  OBVIOUS
<1>2. PICK t : t = Append(text, line)
  OBVIOUS
<1>3. IsText(text) /\ line[1] = "Deriver" /\ line[2] = d
  BY <1>1 DEF Reads
<1>0. Added(text, line, t)
  BY <1>2, <1>3, LineAdded
<1>4. /\ IsText(t)
      /\ DOMAIN text = 1..Len(text) /\ Len(text) \in Nat
      /\ DOMAIN t = 1..(Len(text) + 1)
      /\ \A i \in DOMAIN text : t[i] = text[i]
      /\ t[Len(text) + 1] = line
  BY <1>0 DEF Added
<1>5. \A key : IF line[1] = key
               THEN HasLine(t, key) /\ \A default : Field(t, key, default) = line[2]
               ELSE /\ HasLine(t, key) <=> HasLine(text, key)
                    /\ \A default : Field(t, key, default) = Field(text, key, default)
  BY <1>0 DEF Added
<1>6. /\ Field(t, "StorePath", None) = Field(text, "StorePath", None)
      /\ Field(t, "URL", None) = Field(text, "URL", None)
      /\ Field(t, "NarHash", NoHash) = Field(text, "NarHash", NoHash)
      /\ Field(t, "NarSize", None) = Field(text, "NarSize", None)
      /\ Field(t, "References", << >>) = Field(text, "References", << >>)
      /\ HasLine(t, "Deriver") /\ Field(t, "Deriver", None) = d
  BY <1>3, <1>5
<1>7. /\ Field(text, "StorePath", None) = p /\ Field(text, "URL", None) = u
      /\ Field(text, "NarHash", NoHash) = h /\ Field(text, "NarSize", None) = n
      /\ Field(text, "References", << >>) = r
  BY FieldsAre DEF Reads, Nar
<1>8. Fields(t) = Nar(p, u, h, n, r, <<d>>, << >>)
  BY <1>6, <1>7, FieldsAre
<1>9. \A i \in DOMAIN t : LineOK(t[i]) /\ t[i][1] # "Sig"
  <2>1. LineOK(line) /\ line[1] # "Sig"
    BY <1>3 DEF LineOK
  <2>2. \A i \in DOMAIN text : LineOK(text[i]) /\ text[i][1] # "Sig"
    BY DEF Reads
  <2>3. \A i \in DOMAIN t : i \in DOMAIN text \/ i = Len(text) + 1
    BY <1>4
  <2> QED
    BY <1>4, <2>1, <2>2, <2>3
<1> QED
  BY <1>1, <1>2, <1>4, <1>6, <1>8, <1>9 DEF Reads

LEMMA EachBasename ==
  /\ Each(Basename, << >>) = << >> /\ Each(FullPath, << >>) = << >>
  /\ \A x : Each(Basename, <<x>>) = <<Basename(x)>>
  /\ \A x \in Refs : Basename(x) \in Refs
  /\ \A r \in Seq(Refs) :
       /\ Each(Basename, r) \in Seq(Refs)
       /\ Each(Basename, Each(Basename, r)) = Each(Basename, r)
       /\ Each(FullPath, Each(Basename, r)) = Each(FullPath, r)
<1>1. DOMAIN << >> = {}
  OBVIOUS
<1>2. Each(Basename, << >>) = << >> /\ Each(FullPath, << >>) = << >>
  <2>1. << >> = [i \in {} |-> Basename(<< >>[i])]
    BY <1>1
  <2>2. << >> = [i \in {} |-> FullPath(<< >>[i])]
    BY <1>1
  <2> QED
    BY <1>1, <2>1, <2>2, Zenon DEF Each
<1>3. ASSUME NEW x
      PROVE  Each(Basename, <<x>>) = <<Basename(x)>>
  <2>1. DOMAIN <<x>> = 1..1 /\ <<x>>[1] = x
    OBVIOUS
  <2> QED
    BY <2>1 DEF Each
<1>4. ASSUME NEW x \in Refs
      PROVE  /\ Basename(x) \in Refs
             /\ Basename(Basename(x)) = Basename(x) /\ FullPath(Basename(x)) = FullPath(x)
  BY DEF Refs, Basename, FullPath
<1>5. ASSUME NEW r \in Seq(Refs)
      PROVE  /\ Each(Basename, r) \in Seq(Refs)
             /\ Each(Basename, Each(Basename, r)) = Each(Basename, r)
             /\ Each(FullPath, Each(Basename, r)) = Each(FullPath, r)
  <2>1. PICK b : b = [i \in DOMAIN r |-> Basename(r[i])]
    OBVIOUS
  <2>2. DOMAIN r = 1..Len(r) /\ \A i \in DOMAIN r : r[i] \in Refs
    OBVIOUS
  <2>3. DOMAIN b = DOMAIN r /\ \A i \in DOMAIN r : b[i] = Basename(r[i])
    BY <2>1
  <2>4. b \in Seq(Refs)
    BY <1>4, <2>1, <2>2
  <2>5. [i \in DOMAIN b |-> Basename(b[i])] = b
    BY <1>4, <2>1, <2>2, <2>3
  <2>6. [i \in DOMAIN b |-> FullPath(b[i])] = [i \in DOMAIN r |-> FullPath(r[i])]
    BY <1>4, <2>2, <2>3
  <2> QED
    BY <2>1, <2>4, <2>5, <2>6 DEF Each
<1> QED
  BY <1>2, <1>3, <1>4, <1>5

(* What deriver and sig may hold. *)
MayRefer(d) == d = << >> \/ \E x \in Refs : d = <<x>>
MaySign(s) == s = << >> \/ \E x : s = <<x>>

WrittenAs(text, p, u, h, n, r, d, s) ==
  /\ Reads(text, p, u, h, n, Each(Basename, r), Each(Basename, d))
  /\ Lines(Nar(p, u, h, n, r, d, s)) =
       IF s = << >> THEN text ELSE Append(text, <<"Sig", s[1]>>)

(* The lines of a narinfo: what has no signature, and its signature. *)
LEMMA LinesRead ==
  ASSUME NEW p, NEW u, NEW h, NEW n, NEW r \in Seq(Refs),
         NEW d, MayRefer(d),
         NEW s, MaySign(s)
  PROVE  \E text : WrittenAs(text, p, u, h, n, r, d, s)
<1>1. PICK head : head = << <<"StorePath", p>>, <<"URL", u>>, <<"NarHash", h>>, <<"NarSize", n>> >>
  OBVIOUS
<1>2. /\ Reads(head, p, u, h, n, << >>, << >>)
      /\ ~HasLine(head, "Deriver")
  BY <1>1, HeadReads
<1>3. PICK t1 : t1 = IF r = << >> THEN head ELSE Append(head, <<"References", Each(Basename, r)>>)
  OBVIOUS
<1>4. Reads(t1, p, u, h, n, Each(Basename, r), << >>)
  <2>1. CASE r = << >>
    <3>1. Each(Basename, r) = << >> /\ t1 = head
      BY <1>3, <2>1, EachBasename
    <3> QED
      BY <1>2, <3>1
  <2>2. CASE r # << >>
    <3>1. Each(Basename, r) \in Seq(Refs)
      BY EachBasename
    <3>2. t1 = Append(head, <<"References", Each(Basename, r)>>)
      BY <1>3, <2>2
    <3>3. PICK b \in Seq(Refs) : b = Each(Basename, r)
      BY <3>1
    <3>4. Reads(Append(head, <<"References", b>>), p, u, h, n, b, << >>)
      BY <1>2, WithReferences
    <3> QED
      BY <3>2, <3>3, <3>4
  <2> QED
    BY <2>1, <2>2
<1>5. PICK t2 : t2 = IF d = << >> THEN t1 ELSE Append(t1, <<"Deriver", Basename(d[1])>>)
  OBVIOUS
<1>6. Reads(t2, p, u, h, n, Each(Basename, r), Each(Basename, d))
  <2>1. CASE d = << >>
    <3>1. Each(Basename, d) = << >> /\ t2 = t1
      BY <1>5, <2>1, EachBasename
    <3> QED
      BY <1>4, <3>1
  <2>2. CASE d # << >>
    <3>1. PICK x \in Refs : d = <<x>>
      BY <2>2 DEF MayRefer
    <3>2. PICK y \in Refs : y = Basename(x)
      BY EachBasename
    <3>3. Each(Basename, d) = <<y>>
      BY <3>1, <3>2, EachBasename
    <3>4. t2 = Append(t1, <<"Deriver", y>>)
      BY <1>5, <2>2, <3>1, <3>2
    <3>5. Reads(Append(t1, <<"Deriver", y>>), p, u, h, n, Each(Basename, r), <<y>>)
      BY <1>4, WithDeriver
    <3> QED
      BY <3>3, <3>4, <3>5
  <2> QED
    BY <2>1, <2>2
<1>7. /\ \E S : head \in Seq(S)
      /\ \E S : t1 \in Seq(S)
      /\ \E S : t2 \in Seq(S)
  BY <1>2, <1>4, <1>6 DEF Reads, IsText
<1>8. PICK v1 : v1 = IF r = << >> THEN << >> ELSE << <<"References", Each(Basename, r)>> >>
  OBVIOUS
<1>9. head \o v1 = t1
  <2>1. \A x : head \o << >> = head /\ head \o <<x>> = Append(head, x)
    BY <1>7, Concatenated
  <2> QED
    BY <1>3, <1>8, <2>1
<1>10. PICK v2 : v2 = IF d = << >> THEN << >> ELSE << <<"Deriver", Basename(d[1])>> >>
  OBVIOUS
<1>11. t1 \o v2 = t2
  <2>1. \A x : t1 \o << >> = t1 /\ t1 \o <<x>> = Append(t1, x)
    BY <1>7, Concatenated
  <2> QED
    BY <1>5, <1>10, <2>1
<1>12. PICK v3 : v3 = [i \in DOMAIN s |-> <<"Sig", s[i]>>]
  OBVIOUS
<1>13. v3 = IF s = << >> THEN << >> ELSE << <<"Sig", s[1]>> >>
  <2>1. CASE s = << >>
    <3>1. DOMAIN << >> = {}
      OBVIOUS
    <3>2. << >> = [i \in {} |-> <<"Sig", << >>[i]>>]
      BY <3>1
    <3> QED
      BY <1>12, <2>1, <3>1, <3>2, Zenon
  <2>2. CASE s # << >>
    <3>1. PICK x : s = <<x>>
      BY <2>2 DEF MaySign
    <3>2. DOMAIN s = 1..1 /\ s[1] = x
      BY <3>1
    <3> QED
      BY <1>12, <2>2, <3>2
  <2> QED
    BY <2>1, <2>2
<1>14. t2 \o v3 = IF s = << >> THEN t2 ELSE Append(t2, <<"Sig", s[1]>>)
  <2>1. \A x : t2 \o << >> = t2 /\ t2 \o <<x>> = Append(t2, x)
    BY <1>7, Concatenated
  <2> QED
    BY <1>13, <2>1
<1>15. Lines(Nar(p, u, h, n, r, d, s)) = ((head \o v1) \o v2) \o v3
  BY <1>1, <1>8, <1>10, <1>12 DEF Lines, Nar
<1> QED
  BY <1>6, <1>9, <1>11, <1>14, <1>15 DEF WrittenAs

-----------------------------------------------------------------------------
(* Files: lines in order, and at most a signature, in the last, which is   *)
(* cut off or over what the file parses to.                                *)
SigsOf(text, keys) ==
  {Piece} \cup {[key |-> key, over |-> Fingerprint(Parsed(text))] : key \in keys}

FileOK(text, keys) ==
  /\ IsText(text)
  /\ \A i \in DOMAIN text : LineOK(text[i])
  /\ \A i \in DOMAIN text : text[i][1] = "Sig" => i = Len(text) /\ text[i][2] \in SigsOf(text, keys)

Plain(text) == IsText(text) /\ \A i \in DOMAIN text : LineOK(text[i]) /\ text[i][1] # "Sig"

LEMMA PlainIsOK ==
  ASSUME NEW text, Plain(text), NEW keys
  PROVE  FileOK(text, keys)
BY DEF Plain, FileOK

LEMMA MoreKeys ==
  ASSUME NEW text, NEW keys, NEW more, keys \subseteq more, FileOK(text, keys)
  PROVE  FileOK(text, more)
BY DEF FileOK, SigsOf

LEMMA FieldsTyped ==
  ASSUME NEW text, IsText(text), \A i \in DOMAIN text : LineOK(text[i])
  PROVE  \E p, u, h, n, r, d :
           /\ Fields(text) = Nar(p, u, h, n, r, d, << >>)
           /\ r \in Seq(Refs) /\ MayRefer(d)
<1>0. PICK S : text \in Seq(S)
  BY DEF IsText
<1>1. Field(text, "References", << >>) \in Seq(Refs)
  <2>1. CASE HasLine(text, "References")
    <3>1. PICK i : Last(text, "References", i)
      BY <1>0, <2>1, LastExists
    <3>2. Field(text, "References", << >>) = text[i][2]
      BY <1>0, <3>1, FieldIs
    <3> QED
      BY <3>1, <3>2 DEF Last, LineOK
  <2>2. CASE ~HasLine(text, "References")
    <3>1. Field(text, "References", << >>) = << >>
      BY <2>2 DEF Field
    <3>2. << >> \in Seq(Refs)
      OBVIOUS
    <3> QED
      BY <3>1, <3>2, Zenon
  <2> QED
    BY <2>1, <2>2
<1>2. ASSUME HasLine(text, "Deriver")
      PROVE  Field(text, "Deriver", None) \in Refs
  <2>1. PICK i : Last(text, "Deriver", i)
    BY <1>0, <1>2, LastExists
  <2>2. Field(text, "Deriver", None) = text[i][2]
    BY <1>0, <2>1, FieldIs
  <2> QED
    BY <2>1, <2>2 DEF Last, LineOK
<1>3. PICK d : d = IF HasLine(text, "Deriver") THEN <<Field(text, "Deriver", None)>> ELSE << >>
  OBVIOUS
<1>4. MayRefer(d)
  BY <1>2, <1>3 DEF MayRefer
<1>5. Fields(text) = Nar(Field(text, "StorePath", None), Field(text, "URL", None),
                         Field(text, "NarHash", NoHash), Field(text, "NarSize", None),
                         Field(text, "References", << >>), d, << >>)
  BY <1>3, FieldsAre
<1> QED
  BY <1>1, <1>4, <1>5

LEMMA FingerprintOfNar ==
  ASSUME NEW p, NEW u, NEW h, NEW n, NEW r, NEW d, NEW s
  PROVE  Fingerprint(Nar(p, u, h, n, r, d, s)) = <<p, Normalize(h), n, Each(FullPath, r)>>
BY DEF Fingerprint, Nar

LEMMA FingerprintOfBased ==
  ASSUME NEW p, NEW u, NEW h, NEW n, NEW r \in Seq(Refs), NEW d, NEW s
  PROVE  Fingerprint(Nar(p, u, h, n, Each(Basename, r), d, s))
           = <<p, Normalize(h), n, Each(FullPath, r)>>
<1>1. Each(FullPath, Each(Basename, r)) = Each(FullPath, r)
  BY EachBasename
<1> QED
  BY <1>1 DEF Fingerprint, Nar

(* A signature after lines without one, over what they parse to. *)
LEMMA SignedOnce ==
  ASSUME NEW text, Plain(text), NEW keys, NEW key \in keys,
         NEW print, print = Fingerprint(Fields(text))
  PROVE  LET t == Append(text, <<"Sig", [key |-> key, over |-> print]>>)
         IN  FileOK(t, keys) /\ Fields(t) = Fields(text)
<1>1. PICK line : line = <<"Sig", [key |-> key, over |-> print]>>
  OBVIOUS
<1>2. PICK t : t = Append(text, line)
  OBVIOUS
<1>3. Added(text, line, t)
  BY <1>2, LineAdded DEF Plain
<1>4. line[1] = "Sig" /\ line[2] = [key |-> key, over |-> print]
  BY <1>1
<1>5. /\ IsText(t) /\ DOMAIN text = 1..Len(text) /\ Len(text) \in Nat
      /\ DOMAIN t = 1..(Len(text) + 1) /\ Len(t) = Len(text) + 1
      /\ \A i \in DOMAIN text : t[i] = text[i]
      /\ t[Len(text) + 1] = line
  BY <1>3 DEF Added
<1>6. \A k : k # "Sig" => /\ HasLine(t, k) <=> HasLine(text, k)
                          /\ \A default : Field(t, k, default) = Field(text, k, default)
  BY <1>3, <1>4 DEF Added
<1>7. Fields(t) = Fields(text)
  BY <1>6, SameFields
<1>8. Fingerprint(Parsed(t)) = print
  BY <1>7, FieldsAre
<1>9. line[2] \in SigsOf(t, keys)
  BY <1>4, <1>8 DEF SigsOf
<1>10. \A i \in DOMAIN t : i \in DOMAIN text \/ i = Len(text) + 1
  BY <1>5
<1>11. LineOK(line)
  BY <1>4 DEF LineOK
<1>12. \A i \in DOMAIN t : LineOK(t[i])
  BY <1>5, <1>10, <1>11 DEF Plain
<1>13. \A i \in DOMAIN t : t[i][1] = "Sig" => i = Len(t) /\ t[i][2] \in SigsOf(t, keys)
  BY <1>5, <1>9, <1>10 DEF Plain
<1> QED
  BY <1>1, <1>2, <1>5, <1>7, <1>12, <1>13 DEF FileOK

(* What a cut leaves of a file. *)
LEMMA CutOK ==
  ASSUME NEW text, NEW keys, FileOK(text, keys), NEW u \in Cuts(text)
  PROVE  FileOK(u, keys)
<1>0. PICK S : text \in Seq(S)
  BY DEF FileOK, IsText
<1>1. /\ Len(text) \in Nat /\ DOMAIN text = 1..Len(text)
      /\ \A i \in DOMAIN text : LineOK(text[i])
      /\ \A i \in DOMAIN text : text[i][1] = "Sig" => i = Len(text)
  BY <1>0 DEF FileOK
<1>2. PICK n \in 0..(Len(text) - 1) :
        \/ u = SubSeq(text, 1, n)
        \/ u = Append(SubSeq(text, 1, n), CutLine(text[n + 1]))
  BY DEF Cuts
<1>3. PICK part : part = SubSeq(text, 1, n)
  OBVIOUS
<1>4. /\ n \in Nat /\ n < Len(text) /\ n + 1 \in DOMAIN text
      /\ \A i \in 1..n : i \in DOMAIN text /\ i < Len(text)
  BY <1>1
<1>5. part \in Seq(S) /\ Len(part) = n
  BY <1>0, <1>3, <1>4
<1>6. DOMAIN part = 1..n /\ \A i \in 1..n : part[i] = text[i]
  BY <1>0, <1>3, <1>4, <1>5
<1>7. Plain(part)
  <2>1. \A i \in DOMAIN part : LineOK(part[i]) /\ part[i][1] # "Sig"
    BY <1>1, <1>4, <1>6
  <2> QED
    BY <1>5, <2>1 DEF Plain, IsText
<1>8. PICK line : line = CutLine(text[n + 1])
  OBVIOUS
<1>9. /\ line[1] = text[n + 1][1]
      /\ line[1] = "References" => line[2] = <<[base |-> Piece, full |-> FALSE]>>
      /\ line[1] = "Deriver" => line[2] = [base |-> Piece, full |-> FALSE]
      /\ line[1] = "Sig" => line[2] = Piece
  BY <1>8 DEF CutLine
<1>10. LineOK(line)
  <2>1. [base |-> Piece, full |-> FALSE] \in Refs
    BY DEF Refs
  <2>2. <<[base |-> Piece, full |-> FALSE]>> \in Seq(Refs)
    BY <2>1
  <2> QED
    BY <1>9, <2>1, <2>2 DEF LineOK
<1>11. CASE u = part
  BY <1>7, <1>11, PlainIsOK
<1>12. CASE u = Append(part, line)
  <2>1. Added(part, line, u)
    BY <1>7, <1>12, LineAdded DEF Plain
  <2>2. /\ IsText(u) /\ DOMAIN u = 1..(n + 1) /\ Len(u) = n + 1
        /\ \A i \in 1..n : u[i] = part[i]
        /\ u[n + 1] = line
    BY <1>5, <1>6, <2>1 DEF Added
  <2>3. \A i \in DOMAIN u : i \in DOMAIN part \/ i = n + 1
    BY <1>4, <1>6, <2>2
  <2>4. \A i \in DOMAIN u : LineOK(u[i])
    BY <1>6, <1>7, <1>10, <2>2, <2>3 DEF Plain
  <2>5. \A i \in DOMAIN u : u[i][1] = "Sig" => i = Len(u) /\ u[i][2] = Piece
    BY <1>6, <1>7, <1>9, <2>2, <2>3 DEF Plain
  <2> QED
    BY <2>2, <2>4, <2>5 DEF FileOK, SigsOf
<1> QED
  BY <1>2, <1>3, <1>8, <1>11, <1>12

-----------------------------------------------------------------------------
(* The two texts of a hash. *)
LEMMA NormalizedHash ==
  ASSUME NEW d \in Seq(Byte), Len(d) = DigestLen
  PROVE  /\ Normalize(HexHash(d)) = Base32Hash(d)
         /\ Normalize(Base32Hash(d)) = Base32Hash(d)
<1>1. PICK c : c = HexHash(d).chars
  OBVIOUS
<1>2. /\ c = [i \in 1..2 * Len(d) |-> IF i % 2 = 1 THEN d[(i + 1) \div 2] \div 16
                                                   ELSE d[i \div 2] % 16]
      /\ HexHash(d).hex
  BY <1>1 DEF HexHash
<1>3. Len(d) \in Nat /\ DOMAIN d = 1..Len(d) /\ \A i \in 1..Len(d) : d[i] \in Byte
  OBVIOUS
<1>4. 2 * Len(d) \in Nat /\ Len(c) = 2 * Len(d)
  BY <1>2, <1>3
<1>5. HexDecode(c) = [i \in 1..((2 * Len(d)) \div 2) |-> 16 * c[2 * i - 1] + c[2 * i]]
  BY <1>4 DEF HexDecode
<1>6. (2 * Len(d)) \div 2 = Len(d)
  BY <1>3
<1>7. ASSUME NEW i \in 1..Len(d)
      PROVE  16 * c[2 * i - 1] + c[2 * i] = d[i]
  <2>1. 2 * i - 1 \in 1..2 * Len(d) /\ 2 * i \in 1..2 * Len(d) /\ i \in Nat
    BY <1>3
  <2>2. (2 * i - 1) % 2 = 1 /\ (2 * i) % 2 = 0
    BY <2>1
  <2>3. ((2 * i - 1) + 1) \div 2 = i /\ (2 * i) \div 2 = i
    BY <2>1
  <2>4. c[2 * i - 1] = d[i] \div 16
    BY <1>2, <2>1, <2>2, <2>3
  <2>5. c[2 * i] = d[i] % 16
    BY <1>2, <2>1, <2>2, <2>3
  <2>6. d[i] \in 0..255
    BY <1>3 DEF Byte
  <2>7. \A x \in 0..255 : 16 * (x \div 16) + (x % 16) = x
    OBVIOUS
  <2>8. 16 * (d[i] \div 16) + (d[i] % 16) = d[i]
    BY <2>6, <2>7
  <2> QED
    BY <2>4, <2>5, <2>8, Zenon
<1>8. HexDecode(c) = d
  <2>1. HexDecode(c) = [i \in 1..Len(d) |-> d[i]]
    BY <1>5, <1>6, <1>7
  <2> QED
    BY <1>3, <2>1
<1>9. Normalize(HexHash(d)) = Base32Hash(d)
  BY <1>1, <1>2, <1>4, <1>8 DEF Normalize
<1>10. Normalize(Base32Hash(d)) = Base32Hash(d)
  BY DEF Normalize, Base32Hash
<1> QED
  BY <1>9, <1>10

-----------------------------------------------------------------------------
(* The invariant. *)
Based(info) ==
  Nar(info.storePath, info.url, info.narHash, info.narSize,
      Each(Basename, info.references), Each(Basename, info.deriver), << >>)

FilesOK == file # << >> => \E t : file = <<t>> /\ FileOK(t, 1..made)
KeptOK == file # << >> => truth # << >> /\ (~cut => Fields(file[1]) = Based(truth[1]))
TruthOK ==
  truth # << >> =>
    \E h \in {HexHash(digest), Base32Hash(digest)}, refs \in RefLists, d \in Derivers :
      Known /\ truth = <<Info(h, refs, d)>>
KeysOK ==
  /\ made \in Nat /\ keygen \in {0, made}
  /\ secret \in {None, EmptyFile} \cup {SecretText(k) : k \in 1..made}
  /\ public \in {None, EmptyFile} \cup {PublicText(k) : k \in 1..made}
  /\ keygen = 0 /\ ~torn /\ made # 0 => public = PublicText(made)
DigestOK == digest \in Seq(Byte)
SInv == FilesOK /\ KeptOK /\ TruthOK /\ KeysOK /\ DigestOK

LEMMA ListsTyped ==
  /\ RefLists \subseteq Seq(Refs)
  /\ \A d \in Derivers : MayRefer(d)
<1>1. \A b \in Bases \cup Drvs : [base |-> b, full |-> TRUE] \in Refs
  BY DEF Refs
<1>2. ASSUME NEW r \in RefLists
      PROVE  r \in Seq(Refs)
  <2>1. CASE r = << >>
    <3>1. << >> \in Seq(Refs)
      OBVIOUS
    <3> QED
      BY <2>1, <3>1, Zenon
  <2>2. CASE \E b \in Bases : r = <<[base |-> b, full |-> TRUE]>>
    BY <1>1, <2>2
  <2>3. CASE \E b, c \in Bases : r = <<[base |-> b, full |-> TRUE], [base |-> c, full |-> TRUE]>>
    BY <1>1, <2>3
  <2> QED
    BY <2>1, <2>2, <2>3 DEF RefLists
<1>3. ASSUME NEW d \in Derivers
      PROVE  MayRefer(d)
  BY <1>1 DEF Derivers, MayRefer
<1> QED
  BY <1>2, <1>3

LEMMA Written ==
  ASSUME NEW text, FileOK(text, 1..made), made' = made, WriteFile(text),
         truth' # << >>, cut \/ Fields(text) = Based(truth'[1])
  PROVE  FilesOK' /\ KeptOK'
<1>1. PICK t : /\ file' = <<t>> /\ FileOK(t, 1..made)
               /\ (t = text /\ cut' = cut) \/ cut' = TRUE
  <2>1. CASE file' = <<text>> /\ UNCHANGED cut
    BY <2>1
  <2>2. CASE file' \in {<<t>> : t \in Cuts(text)} /\ cut' = TRUE
    <3>1. PICK t \in Cuts(text) : file' = <<t>>
      BY <2>2
    <3>2. FileOK(t, 1..made)
      BY CutOK
    <3> QED
      BY <2>2, <3>1, <3>2
  <2> QED
    BY <2>1, <2>2 DEF WriteFile
<1>2. FileOK(t, 1..made')
  BY <1>1
<1>3. FilesOK'
  BY <1>1, <1>2 DEF FilesOK
<1>4. file'[1] = t
  BY <1>1
<1>5. ~cut' => Fields(file'[1]) = Based(truth'[1])
  BY <1>1, <1>4
<1> QED
  BY <1>3, <1>5 DEF KeptOK

(* What a file parses to, for a command that reads it and writes it back. *)
LEMMA InfoRead ==
  ASSUME NEW text, NEW keys, FileOK(text, keys)
  PROVE  \E p, u, h, n, r, d :
           /\ Fields(text) = Nar(p, u, h, n, r, d, << >>)
           /\ r \in Seq(Refs) /\ MayRefer(d)
           /\ \A sig : [Parsed(text) EXCEPT !.sig = sig] = Nar(p, u, h, n, r, d, sig)
           /\ Fingerprint(Parsed(text)) = <<p, Normalize(h), n, Each(FullPath, r)>>
<1>1. PICK p, u, h, n, r, d :
        /\ Fields(text) = Nar(p, u, h, n, r, d, << >>)
        /\ r \in Seq(Refs) /\ MayRefer(d)
  BY FieldsTyped DEF FileOK
<1>2. \A sig : [Parsed(text) EXCEPT !.sig = sig] = [Fields(text) EXCEPT !.sig = sig]
  BY FieldsAre
<1>3. \A sig : [Parsed(text) EXCEPT !.sig = sig] = Nar(p, u, h, n, r, d, sig)
  BY <1>1, <1>2 DEF Nar
<1>4. Fingerprint(Parsed(text)) = Fingerprint(Nar(p, u, h, n, r, d, << >>))
  BY <1>1, FieldsAre
<1>5. Fingerprint(Parsed(text)) = <<p, Normalize(h), n, Each(FullPath, r)>>
  BY <1>4, FingerprintOfNar
<1> QED
  BY <1>1, <1>3, <1>5

(* Writing a narinfo without a signature, or with one over it. *)
Writes(t, p, u, h, n, r, d, keys) ==
  /\ FileOK(t, keys)
  /\ Fields(t) = Nar(p, u, h, n, Each(Basename, r), Each(Basename, d), << >>)

LEMMA PlainLines ==
  ASSUME NEW p, NEW u, NEW h, NEW n, NEW r \in Seq(Refs),
         NEW d, MayRefer(d), NEW keys
  PROVE  Writes(Lines(Nar(p, u, h, n, r, d, << >>)), p, u, h, n, r, d, keys)
<1>1. PICK s : s = << >>
  OBVIOUS
<1>0. MaySign(s)
  BY <1>1 DEF MaySign
<1>2. PICK text : WrittenAs(text, p, u, h, n, r, d, s)
  BY <1>0, LinesRead
<1>3. Lines(Nar(p, u, h, n, r, d, << >>)) = text
  BY <1>1, <1>2 DEF WrittenAs
<1>4. Plain(text) /\ Fields(text) = Nar(p, u, h, n, Each(Basename, r), Each(Basename, d), << >>)
  BY <1>2 DEF WrittenAs, Reads, Plain
<1>5. FileOK(text, keys)
  BY <1>4, PlainIsOK
<1> QED
  BY <1>3, <1>4, <1>5 DEF Writes

LEMMA SignedLines ==
  ASSUME NEW p, NEW u, NEW h, NEW n, NEW r \in Seq(Refs),
         NEW d, MayRefer(d), NEW keys, NEW key \in keys,
         NEW print, print = <<p, Normalize(h), n, Each(FullPath, r)>>
  PROVE  Writes(Lines(Nar(p, u, h, n, r, d, <<[key |-> key, over |-> print]>>)),
                p, u, h, n, r, d, keys)
<1>1. PICK x, s : x = [key |-> key, over |-> print] /\ s = <<x>>
  OBVIOUS
<1>2. s # << >> /\ s[1] = x
  BY <1>1
<1>0. MaySign(s)
  BY <1>1 DEF MaySign
<1>3. PICK text : WrittenAs(text, p, u, h, n, r, d, s)
  BY <1>0, LinesRead
<1>4. Plain(text) /\ Fields(text) = Nar(p, u, h, n, Each(Basename, r), Each(Basename, d), << >>)
  BY <1>3 DEF WrittenAs, Reads, Plain
<1>5. Fingerprint(Fields(text)) = print
  BY <1>4, FingerprintOfBased
<1>6. PICK t : t = Append(text, <<"Sig", [key |-> key, over |-> print]>>)
  OBVIOUS
<1>7. FileOK(t, keys) /\ Fields(t) = Fields(text)
  <2>1. Plain(text) /\ print = Fingerprint(Fields(text))
    BY <1>4, <1>5
  <2> QED
    BY <1>6, <2>1, SignedOnce
<1>8. Lines(Nar(p, u, h, n, r, d, <<[key |-> key, over |-> print]>>)) = t
  BY <1>1, <1>2, <1>3, <1>6 DEF WrittenAs
<1> QED
  BY <1>4, <1>7, <1>8 DEF Writes

LEMMA KeysLoaded ==
  ASSUME KeysOK
  PROVE  Loaded \subseteq 1..made
<1>1. ASSUME NEW text \in {secret, public} \ {None}, NEW i \in DOMAIN FromNixFormat(text)
      PROVE  FromNixFormat(text)[i] \in 1..made
  <2>1. \/ text = EmptyFile
        \/ \E k \in 1..made : text = SecretText(k)
        \/ \E k \in 1..made : text = PublicText(k)
    BY DEF KeysOK
  <2>2. CASE text = EmptyFile
    <3>1. Len(text) = 0 /\ DOMAIN << >> = {}
      BY <2>2 DEF EmptyFile
    <3>2. FromNixFormat(text) = << >>
      BY <3>1 DEF FromNixFormat
    <3> QED
      BY <3>1, <3>2, Zenon
  <2>3. CASE \E k \in 1..made : text = SecretText(k)
    <3>1. PICK k \in 1..made : text = SecretText(k)
      BY <2>3
    <3>2. FromNixFormat(text) = <<k>>
      BY <3>1 DEF FromNixFormat, SecretText
    <3>3. DOMAIN <<k>> = 1..1 /\ <<k>>[1] = k
      OBVIOUS
    <3> QED
      BY <3>1, <3>2, <3>3
  <2>4. CASE \E k \in 1..made : text = PublicText(k)
    <3>1. Len(text) = 1 /\ DOMAIN << >> = {}
      BY <2>4 DEF PublicText
    <3>2. FromNixFormat(text) = << >>
      BY <3>1 DEF FromNixFormat
    <3> QED
      BY <3>1, <3>2, Zenon
  <2> QED
    BY <2>1, <2>2, <2>3, <2>4
<1>2. Loaded = UNION {{FromNixFormat(text)[i] : i \in DOMAIN FromNixFormat(text)} :
                        text \in {secret, public} \ {None}}
  BY DEF Loaded
<1> QED
  BY <1>1, <1>2

(* The texts the actions write. *)
LEMMA FirstText ==
  ASSUME NEW h, NEW refs \in RefLists, NEW d \in Derivers, NEW keys
  PROVE  /\ FileOK(Lines(Info(h, refs, d)), keys)
         /\ Fields(Lines(Info(h, refs, d))) = Based(Info(h, refs, d))
<1>1. refs \in Seq(Refs) /\ MayRefer(d)
  BY ListsTyped
<1>2. Info(h, refs, d) = Nar(Path, "url", h, "nar size", refs, d, << >>)
  BY DEF Info, Nar
<1>3. Writes(Lines(Nar(Path, "url", h, "nar size", refs, d, << >>)),
             Path, "url", h, "nar size", refs, d, keys)
  BY <1>1, PlainLines
<1>4. Based(Info(h, refs, d)) =
        Nar(Path, "url", h, "nar size", Each(Basename, refs), Each(Basename, d), << >>)
  BY DEF Based, Info
<1> QED
  BY <1>2, <1>3, <1>4 DEF Writes

LEMMA ResignedText ==
  ASSUME NEW text, NEW keys, FileOK(text, keys), NEW key \in keys,
         NEW t, t = Lines([Parsed(text) EXCEPT !.sig = <<SignNarInfo(key, Parsed(text))>>])
  PROVE  /\ FileOK(t, keys)
         /\ \A info : Fields(text) = Based(info) => Fields(t) = Fields(text)
<1>1. PICK p, u, h, n, r, d :
        /\ Fields(text) = Nar(p, u, h, n, r, d, << >>)
        /\ r \in Seq(Refs) /\ MayRefer(d)
        /\ \A sig : [Parsed(text) EXCEPT !.sig = sig] = Nar(p, u, h, n, r, d, sig)
        /\ Fingerprint(Parsed(text)) = <<p, Normalize(h), n, Each(FullPath, r)>>
  BY InfoRead
<1>2. PICK print : print = Fingerprint(Parsed(text))
  OBVIOUS
<1>3. SignNarInfo(key, Parsed(text)) = [key |-> key, over |-> print]
  BY <1>2 DEF SignNarInfo
<1>4. t = Lines(Nar(p, u, h, n, r, d, <<[key |-> key, over |-> print]>>))
  BY <1>1, <1>3
<1>5. r \in Seq(Refs)
  BY <1>1
<1>6. MayRefer(d)
  BY <1>1
<1>7. print = <<p, Normalize(h), n, Each(FullPath, r)>>
  BY <1>1, <1>2
<1>8. Writes(Lines(Nar(p, u, h, n, r, d, <<[key |-> key, over |-> print]>>)),
             p, u, h, n, r, d, keys)
  BY <1>5, <1>6, <1>7, SignedLines
<1>9. ASSUME NEW info, Fields(text) = Based(info)
      PROVE  Fields(t) = Fields(text)
  <2>1. r = Each(Basename, info.references) /\ d = Each(Basename, info.deriver)
    BY <1>1, <1>9 DEF Based, Nar
  <2>2. Each(Basename, r) = r
    BY <2>1 DEF Each, Basename
  <2>3. Each(Basename, d) = d
    BY <2>1 DEF Each, Basename
  <2> QED
    BY <1>1, <1>4, <1>8, <2>2, <2>3 DEF Writes
<1>10. FileOK(t, keys)
  BY <1>4, <1>8 DEF Writes
<1> QED
  BY <1>9, <1>10

LEMMA SignText ==
  ASSUME NEW text, NEW keys, FileOK(text, keys), NEW key \in keys, NEW force \in BOOLEAN,
         force \/ ~HasLine(text, "Sig"),
         NEW t, t = SignedText(text, SignNarInfo(key, Parsed(text)), force)
  PROVE  FileOK(t, keys) /\ Fields(t) = Fields(text)
<1>0. PICK S : text \in Seq(S)
  BY DEF FileOK, IsText
<1>1. PICK b : b = IF force THEN NonSigLines(text) ELSE text
  OBVIOUS
<1>2. Plain(b) /\ Fields(b) = Fields(text)
  <2>1. CASE force
    <3>1. b = NonSigLines(text)
      BY <1>1, <2>1
    <3>2. \A key_ : key_ # "Sig" =>
            /\ HasLine(b, key_) <=> HasLine(text, key_)
            /\ \A default : Field(b, key_, default) = Field(text, key_, default)
      BY <1>0, <3>1, NonSigField
    <3>3. Fields(b) = Fields(text)
      BY <3>2, SameFields
    <3>4. b \in Seq(S)
      <4>1. "x" # "Sig"
        OBVIOUS
      <4> QED
        BY <1>0, <3>1, <4>1, NonSigField
    <3>5. \A i \in DOMAIN b : b[i][1] # "Sig" /\ \E j \in DOMAIN text : b[i] = text[j]
      BY <1>0, <3>1, NonSigHasNone
    <3>6. \A i \in DOMAIN b : LineOK(b[i]) /\ b[i][1] # "Sig"
      BY <3>5 DEF FileOK
    <3> QED
      BY <3>3, <3>4, <3>6 DEF Plain, IsText
  <2>2. CASE ~force
    <3>1. b = text /\ ~HasLine(text, "Sig")
      BY <1>1, <2>2
    <3> QED
      BY <3>1 DEF Plain, FileOK, HasLine
  <2> QED
    BY <2>1, <2>2
<1>3. PICK print : print = Fingerprint(Fields(b))
  OBVIOUS
<1>4. SignNarInfo(key, Parsed(text)) = [key |-> key, over |-> print]
  BY <1>2, <1>3, FieldsAre DEF SignNarInfo
<1>5. t = Append(b, <<"Sig", [key |-> key, over |-> print]>>)
  BY <1>1, <1>4 DEF SignedText
<1>6. Plain(b)
  BY <1>2
<1>7. FileOK(t, keys) /\ Fields(t) = Fields(b)
  BY <1>3, <1>5, <1>6, SignedOnce
<1> QED
  BY <1>2, <1>7

-----------------------------------------------------------------------------
LEMMA InitSInv == Init => SInv
<1> SUFFICES ASSUME Init PROVE SInv
  OBVIOUS
<1>1. KeysOK
  BY DEF Init, KeysOK
<1>2. CASE digest = << >> /\ file = << >> /\ truth = << >>
  <2>1. << >> \in Seq(Byte)
    OBVIOUS
  <2>2. DigestOK
    BY <1>2, <2>1, Zenon DEF DigestOK
  <2> QED
    BY <1>1, <1>2, <2>2 DEF SInv, FilesOK, KeptOK, TruthOK
<1>3. CASE \E d \in [1..DigestLen -> ByteValues], refs \in RefLists :
             /\ digest = d
             /\ truth = <<Info(HexHash(d), refs, << >>)>>
             /\ file = <<Lines(truth[1])>>
  <2>1. PICK refs \in RefLists : /\ digest \in [1..DigestLen -> ByteValues]
                                 /\ truth = <<Info(HexHash(digest), refs, << >>)>>
                                 /\ file = <<Lines(truth[1])>>
    BY <1>3
  <2>2. DigestOK /\ Known
    <3>1. DigestLen \in Nat /\ ByteValues \subseteq Byte
      BY DigestAssumption, SigningAssumption
    <3>2. digest \in [1..DigestLen -> Byte]
      BY <2>1, <3>1
    <3> QED
      BY <3>1, <3>2 DEF DigestOK, Known
  <2>3. << >> \in Derivers
    BY DEF Derivers
  <2>4. PICK t : t = Lines(truth[1])
    OBVIOUS
  <2>5. PICK h : h = HexHash(digest)
    OBVIOUS
  <2>6. PICK none \in Derivers : none = << >>
    BY <2>3
  <2>7. truth = <<Info(h, refs, none)>> /\ truth[1] = Info(h, refs, none)
    BY <2>1, <2>5, <2>6
  <2>8. FileOK(t, 1..made) /\ Fields(t) = Based(truth[1])
    BY <2>4, <2>7, FirstText
  <2>9. file = <<t>> /\ file[1] = t
    BY <2>1, <2>4
  <2>10. TruthOK
    BY <2>2, <2>5, <2>6, <2>7 DEF TruthOK
  <2>11. FilesOK
    BY <2>8, <2>9 DEF FilesOK
  <2>12. KeptOK
    BY <2>7, <2>8, <2>9 DEF KeptOK
  <2> QED
    BY <1>1, <2>2, <2>10, <2>11, <2>12 DEF SInv
<1> QED
  BY <1>2, <1>3 DEF Init

(* Steps that leave the files of the cache, or the keys, as they are. *)
LEMMA SInvNextByte == SInv /\ NextByte => SInv'
<1> SUFFICES ASSUME SInv, NextByte PROVE SInv'
  OBVIOUS
<1>1. UNCHANGED keyVars /\ file' = file /\ truth' = truth /\ cut' = cut /\ truth = << >>
  BY DEF NextByte
<1>2. file = << >>
  BY <1>1 DEF SInv, KeptOK
<1>3. DigestOK'
  <2>1. PICK b \in ByteValues : digest' = Append(digest, b)
    BY DEF NextByte
  <2>2. b \in Byte
    BY SigningAssumption
  <2> QED
    BY <2>1, <2>2 DEF SInv, DigestOK
<1>4. KeysOK'
  BY <1>1 DEF SInv, KeysOK, keyVars
<1> QED
  BY <1>1, <1>2, <1>3, <1>4 DEF SInv, FilesOK, KeptOK, TruthOK

LEMMA SInvRemove == SInv /\ Remove => SInv'
<1> SUFFICES ASSUME SInv, Remove PROVE SInv'
  OBVIOUS
<1>1. UNCHANGED keyVars /\ digest' = digest /\ truth' = truth /\ file' = << >>
  BY DEF Remove
<1>2. KeysOK'
  BY <1>1 DEF SInv, KeysOK, keyVars
<1>3. TruthOK'
  BY <1>1 DEF SInv, TruthOK, Known
<1> QED
  BY <1>1, <1>2, <1>3 DEF SInv, FilesOK, KeptOK, DigestOK

LEMMA SInvKeys ==
  ASSUME SInv, UNCHANGED cacheVars, made' \in Nat, made <= made'
  PROVE  FilesOK' /\ KeptOK' /\ TruthOK' /\ DigestOK'
<1>1. digest' = digest /\ file' = file /\ truth' = truth /\ cut' = cut
  BY DEF cacheVars
<1>2. made \in Nat
  BY DEF SInv, KeysOK
<1>3. FilesOK'
  <2>1. ASSUME file # << >>
        PROVE  \E t : file = <<t>> /\ FileOK(t, 1..made')
    <3>1. PICK t : file = <<t>> /\ FileOK(t, 1..made)
      BY <2>1 DEF SInv, FilesOK
    <3>2. 1..made \subseteq 1..made'
      BY <1>2
    <3>3. FileOK(t, 1..made')
      BY <3>1, <3>2, MoreKeys
    <3> QED
      BY <3>1, <3>3
  <2> QED
    BY <1>1, <2>1 DEF FilesOK
<1>4. KeptOK'
  BY <1>1 DEF SInv, KeptOK
<1>5. TruthOK'
  BY <1>1 DEF SInv, TruthOK, Known
<1>6. DigestOK'
  BY <1>1 DEF SInv, DigestOK
<1> QED
  BY <1>3, <1>4, <1>5, <1>6

LEMMA SInvKeygen == SInv /\ (KeygenSecret \/ KeygenPublic \/ KeygenDies) => SInv'
<1> SUFFICES ASSUME SInv, KeygenSecret \/ KeygenPublic \/ KeygenDies PROVE SInv'
  OBVIOUS
<1>1. /\ made \in Nat /\ keygen \in {0, made}
      /\ secret \in {None, EmptyFile} \cup {SecretText(k) : k \in 1..made}
      /\ public \in {None, EmptyFile} \cup {PublicText(k) : k \in 1..made}
      /\ keygen = 0 /\ ~torn /\ made # 0 => public = PublicText(made)
  BY DEF SInv, KeysOK
<1>2. made + 1 \in Nat /\ made <= made /\ made <= made + 1 /\ 1..made \subseteq 1..(made + 1)
  BY <1>1
<1>3. CASE KeygenSecret
  <2>1. made' = made + 1 /\ keygen' = made + 1 /\ secret' = SecretText(made + 1)
        /\ public' = public /\ torn' = torn /\ UNCHANGED cacheVars
    BY <1>3 DEF KeygenSecret
  <2>2. made + 1 # 0 /\ made + 1 \in 1..(made + 1)
    BY <1>1
  <2>3. KeysOK'
    BY <1>1, <1>2, <2>1, <2>2 DEF KeysOK
  <2> QED
    BY <1>2, <2>1, <2>3, SInvKeys DEF SInv
<1>4. CASE KeygenPublic
  <2>1. keygen # 0 /\ made' = made /\ keygen' = 0 /\ secret' = secret
        /\ public' = PublicText(keygen) /\ UNCHANGED cacheVars
    BY <1>4 DEF KeygenPublic
  <2>2. keygen = made /\ made \in 1..made
    BY <1>1, <2>1
  <2>3. KeysOK'
    BY <1>1, <2>1, <2>2 DEF KeysOK
  <2> QED
    BY <1>1, <1>2, <2>1, <2>3, SInvKeys DEF SInv
<1>5. CASE KeygenDies
  <2>1. keygen' = 0 /\ torn' = TRUE /\ UNCHANGED cacheVars
    BY <1>5 DEF KeygenDies
  <2>2. CASE keygen = 0 /\ made' = made + 1 /\ secret' = EmptyFile /\ public' = public
    <3>1. KeysOK'
      BY <1>1, <1>2, <2>1, <2>2 DEF KeysOK
    <3> QED
      BY <1>2, <2>1, <2>2, <3>1, SInvKeys DEF SInv
  <2>3. CASE public' \in {public, EmptyFile} /\ secret' = secret /\ made' = made
    <3>1. KeysOK'
      BY <1>1, <2>1, <2>3 DEF KeysOK
    <3> QED
      BY <1>1, <1>2, <2>1, <2>3, <3>1, SInvKeys DEF SInv
  <2> QED
    BY <1>5, <2>2, <2>3 DEF KeygenDies
<1> QED
  BY <1>3, <1>4, <1>5

(* Steps that write a file. *)
LEMMA SInvImportNew ==
  ASSUME SInv, NEW refs \in RefLists, NEW deriver \in Derivers, ImportNew(refs, deriver)
  PROVE  SInv'
<1>1. /\ Known /\ truth' = <<Info(Base32Hash(digest), refs, deriver)>>
      /\ WriteFile(Lines(truth'[1])) /\ digest' = digest /\ UNCHANGED keyVars
  BY DEF ImportNew
<1>2. PICK info : info = Info(Base32Hash(digest), refs, deriver)
  OBVIOUS
<1>3. truth' = <<info>> /\ truth'[1] = info /\ truth' # << >>
  BY <1>1, <1>2
<1>4. FileOK(Lines(info), 1..made) /\ Fields(Lines(info)) = Based(truth'[1])
  BY <1>2, <1>3, FirstText
<1>5. made' = made
  BY <1>1 DEF keyVars
<1>6. WriteFile(Lines(info))
  BY <1>1, <1>3
<1>7. FilesOK' /\ KeptOK'
  BY <1>3, <1>4, <1>5, <1>6, Written
<1>8. TruthOK'
  BY <1>1 DEF TruthOK, Known
<1>9. KeysOK'
  BY <1>1 DEF SInv, KeysOK, keyVars
<1>10. DigestOK'
  BY <1>1 DEF SInv, DigestOK
<1> QED
  BY <1>7, <1>8, <1>9, <1>10 DEF SInv

LEMMA SInvRewritten ==
  ASSUME SInv, UNCHANGED <<digest, truth, keyVars>>, file # << >>,
         NEW text, FileOK(text, 1..made), WriteFile(text),
         cut \/ Fields(text) = Fields(file[1])
  PROVE  SInv'
<1>1. made' = made /\ truth' = truth /\ digest' = digest
  BY DEF keyVars
<1>2. truth' # << >> /\ (cut \/ Fields(text) = Based(truth'[1]))
  BY <1>1 DEF SInv, KeptOK
<1>3. FilesOK' /\ KeptOK'
  BY <1>1, <1>2, Written
<1>4. TruthOK'
  BY <1>1 DEF SInv, TruthOK, Known
<1>5. KeysOK'
  BY DEF SInv, KeysOK, keyVars
<1>6. DigestOK'
  BY <1>1 DEF SInv, DigestOK
<1> QED
  BY <1>3, <1>4, <1>5, <1>6 DEF SInv

LEMMA SInvImportSigned ==
  ASSUME SInv, NEW key \in Loaded, ImportSigned(key)
  PROVE  SInv'
<1>1. file # << >> /\ UNCHANGED <<digest, truth, keyVars>>
  BY DEF ImportSigned
<1>2. PICK text : file = <<text>> /\ FileOK(text, 1..made)
  BY <1>1 DEF SInv, FilesOK
<1>3. file[1] = text
  BY <1>2
<1>4. PICK t : t = Lines([Parsed(text) EXCEPT !.sig = <<SignNarInfo(key, Parsed(text))>>])
  OBVIOUS
<1>5. WriteFile(t)
  BY <1>3, <1>4 DEF ImportSigned
<1>6. key \in 1..made
  BY KeysLoaded DEF SInv
<1>7. /\ FileOK(t, 1..made)
      /\ \A info : Fields(text) = Based(info) => Fields(t) = Fields(text)
  <2>1. PICK keys : keys = 1..made
    OBVIOUS
  <2>2. FileOK(text, keys)
    BY <1>2, <2>1
  <2>3. key \in keys
    BY <1>6, <2>1
  <2>4. /\ FileOK(t, keys)
        /\ \A info : Fields(text) = Based(info) => Fields(t) = Fields(text)
    BY <1>4, <2>2, <2>3, ResignedText
  <2> QED
    BY <2>1, <2>4
<1>8. cut \/ Fields(t) = Fields(file[1])
  BY <1>1, <1>3, <1>7 DEF SInv, KeptOK
<1> QED
  BY <1>1, <1>5, <1>7, <1>8, SInvRewritten

LEMMA SInvSign ==
  ASSUME SInv, NEW key \in Loaded, NEW force \in BOOLEAN, Sign(key, force)
  PROVE  SInv'
<1>1. file # << >> /\ UNCHANGED <<digest, truth, keyVars>>
  BY DEF Sign
<1>2. PICK text : file = <<text>> /\ FileOK(text, 1..made)
  BY <1>1 DEF SInv, FilesOK
<1>3. file[1] = text
  BY <1>2
<1>4. PICK t : t = SignedText(text, SignNarInfo(key, Parsed(text)), force)
  OBVIOUS
<1>5. WriteFile(t) /\ (force \/ ~HasLine(text, "Sig"))
  BY <1>3, <1>4 DEF Sign
<1>6. key \in 1..made
  BY KeysLoaded DEF SInv
<1>7. FileOK(t, 1..made) /\ Fields(t) = Fields(text)
  <2>1. PICK keys : keys = 1..made
    OBVIOUS
  <2>2. FileOK(text, keys)
    BY <1>2, <2>1
  <2>3. key \in keys
    BY <1>6, <2>1
  <2>4. force \/ ~HasLine(text, "Sig")
    BY <1>5
  <2>5. FileOK(t, keys) /\ Fields(t) = Fields(text)
    BY <1>4, <2>2, <2>3, <2>4, SignText
  <2> QED
    BY <2>1, <2>5
<1> QED
  BY <1>1, <1>3, <1>5, <1>7, SInvRewritten

LEMMA NextSInv == SInv /\ [Next]_vars => SInv'
<1> SUFFICES ASSUME SInv, [Next]_vars PROVE SInv'
  OBVIOUS
<1>1. CASE UNCHANGED vars
  <2>1. /\ digest' = digest /\ file' = file /\ truth' = truth /\ cut' = cut
        /\ secret' = secret /\ public' = public /\ keygen' = keygen /\ made' = made
        /\ torn' = torn
    BY <1>1 DEF vars
  <2>2. TruthOK'
    BY <2>1 DEF SInv, TruthOK, Known
  <2> QED
    BY <2>1, <2>2 DEF SInv, FilesOK, KeptOK, KeysOK, DigestOK
<1>2. CASE \E refs \in RefLists, deriver \in Derivers : ImportNew(refs, deriver)
  BY <1>2, SInvImportNew
<1>3. CASE \E key \in Loaded : ImportSigned(key) \/ \E force \in BOOLEAN : Sign(key, force)
  <2>1. PICK key \in Loaded : ImportSigned(key) \/ \E force \in BOOLEAN : Sign(key, force)
    BY <1>3
  <2>2. CASE ImportSigned(key)
    BY <2>2, SInvImportSigned
  <2>3. CASE \E force \in BOOLEAN : Sign(key, force)
    BY <2>3, SInvSign
  <2> QED
    BY <2>1, <2>2, <2>3
<1>4. CASE NextByte \/ Remove \/ KeygenSecret \/ KeygenPublic \/ KeygenDies
  BY <1>4, SInvNextByte, SInvRemove, SInvKeygen
<1> QED
  BY <1>1, <1>2, <1>3, <1>4 DEF Next

LEMMA SInvAlways == Spec => []SInv
BY InitSInv, NextSInv, PTL DEF Spec

-----------------------------------------------------------------------------
BaseNames(info) ==
  [info EXCEPT !.references = Each(Basename, @), !.deriver = Each(Basename, @)]

LEMMA NarExcept ==
  ASSUME NEW p, NEW u, NEW h, NEW n, NEW r, NEW d, NEW s
  PROVE  BaseNames(Nar(p, u, h, n, r, d, s))
           = Nar(p, u, h, n, Each(Basename, r), Each(Basename, d), s)
<1>1. PICK x, y : x = Each(Basename, r) /\ y = Each(Basename, d)
  OBVIOUS
<1>2. [Nar(p, u, h, n, r, d, s) EXCEPT !.references = x] = Nar(p, u, h, n, x, d, s)
  BY DEF Nar
<1>3. [Nar(p, u, h, n, x, d, s) EXCEPT !.deriver = y] = Nar(p, u, h, n, x, y, s)
  BY DEF Nar
<1>4. [Nar(p, u, h, n, r, d, s) EXCEPT !.references = x, !.deriver = y]
        = Nar(p, u, h, n, x, y, s)
  BY <1>2, <1>3 DEF Nar
<1> QED
  BY <1>1, <1>4 DEF BaseNames, Nar

(* What the invariant says of the signatures of a file. *)
LEMMA SignaturesAre ==
  ASSUME NEW text, NEW keys, FileOK(text, keys)
  PROVE  /\ Len(SigLines(text)) \in {0, 1}
         /\ \A s \in Signatures(text) :
              \E key \in keys : /\ s = [key |-> key, over |-> Fingerprint(Parsed(text))]
                                /\ s # Piece
<1>0. PICK S : text \in Seq(S)
  BY DEF FileOK, IsText
<1>1. SigLast(text)
  BY DEF FileOK, SigLast
<1>2. /\ Len(SigLines(text)) \in {0, 1}
      /\ \A i \in DOMAIN SigLines(text) :
           /\ Len(text) \in DOMAIN text
           /\ SigLines(text)[i] = text[Len(text)] /\ text[Len(text)][1] = "Sig"
  BY <1>0, <1>1, SigLinesLast
<1>3. Parsed(text).sig = [i \in DOMAIN SigLines(text) |-> SigLines(text)[i][2]]
  BY DEF Parsed
<1>4. ASSUME NEW s \in Signatures(text)
      PROVE  \E key \in keys : /\ s = [key |-> key, over |-> Fingerprint(Parsed(text))]
                               /\ s # Piece
  <2>1. PICK i \in DOMAIN Parsed(text).sig : s = Parsed(text).sig[i] /\ s # Piece
    BY DEF Signatures
  <2>2. i \in DOMAIN SigLines(text) /\ s = SigLines(text)[i][2]
    BY <1>3, <2>1
  <2>3. Len(text) \in DOMAIN text /\ s = text[Len(text)][2] /\ text[Len(text)][1] = "Sig"
    BY <1>2, <2>2
  <2>4. s \in SigsOf(text, keys)
    BY <2>3 DEF FileOK
  <2> QED
    BY <2>1, <2>4 DEF SigsOf
<1> QED
  BY <1>2, <1>4

(* A file has one signature at most, however import, signed import, sign    *)
(* and sign --force follow each other and wherever a write is cut off:     *)
(* sign leaves a signed file alone, or takes its signature lines out.      *)
THEOREM OneSignatureHolds == Spec => []OneSignature
<1>1. SInv => OneSignature
  <2> SUFFICES ASSUME SInv, file # << >> PROVE Len(SigLines(file[1])) <= 1
    BY DEF OneSignature
  <2>1. PICK t : file = <<t>> /\ FileOK(t, 1..made)
    BY DEF SInv, FilesOK
  <2>2. PICK keys : FileOK(t, keys)
    BY <2>1
  <2>3. Len(SigLines(t)) \in {0, 1}
    BY <2>2, SignaturesAre
  <2>4. Len(SigLines(t)) <= 1
    BY <2>3
  <2>5. file[1] = t
    BY <2>1
  <2> QED
    BY <2>4, <2>5, Zenon
<1> QED
  BY <1>1, SInvAlways, PTL

(* What the first import wrote, but for signatures and with references and  *)
(* deriver by base names, is what every later reader parses, however often *)
(* the file was parsed and written again, if no write was cut off.         *)
THEOREM ContentKeptHolds == Spec => []ContentKept
<1>1. SInv => ContentKept
  <2> SUFFICES ASSUME SInv, file # << >>, ~cut
               PROVE  [Parsed(file[1]) EXCEPT !.sig = << >>] =
                        BaseNames(truth[1])
    BY DEF ContentKept, BaseNames
  <2>1. truth # << >> /\ Fields(file[1]) = Based(truth[1])
    BY DEF SInv, KeptOK
  <2>2. PICK h, refs, d : truth = <<Info(h, refs, d)>>
    BY <2>1 DEF SInv, TruthOK
  <2>3. truth[1] = Info(h, refs, d)
    BY <2>2
  <2>4. PICK info : info = Info(h, refs, d)
    OBVIOUS
  <2>5. BaseNames(info) = Based(info)
    <3>1. PICK u, n, none : /\ u = "url" /\ n = "nar size" /\ none = << >>
                            /\ info = Nar(Path, u, h, n, refs, d, none)
      BY <2>4 DEF Info, Nar
    <3>2. /\ info.storePath = Path /\ info.url = u /\ info.narHash = h /\ info.narSize = n
          /\ info.references = refs /\ info.deriver = d
      BY <3>1 DEF Nar
    <3>3. info = Nar(Path, u, h, n, refs, d, none)
      BY <3>1
    <3>4. BaseNames(Nar(Path, u, h, n, refs, d, none))
            = Nar(Path, u, h, n, Each(Basename, refs), Each(Basename, d), none)
      BY NarExcept
    <3>5. Based(info) = Nar(Path, u, h, n, Each(Basename, refs), Each(Basename, d), none)
      BY <3>1, <3>2, Zenon DEF Based
    <3> QED
      BY <3>3, <3>4, <3>5, Zenon
  <2> QED
    BY <2>1, <2>3, <2>4, <2>5 DEF Fields
<1> QED
  BY <1>1, SInvAlways, PTL

(* References in full are those of the list, in its order. *)
LEMMA FullRefs ==
  ASSUME NEW refs \in Seq(Refs), NEW full, full = Each(FullPath, refs)
  PROVE  /\ {full[i] : i \in DOMAIN full} = {FullPath(refs[i]) : i \in DOMAIN refs}
         /\ Ascending(full) <=> Ascending(refs)
<1>1. /\ DOMAIN full = DOMAIN refs
      /\ \A i \in DOMAIN refs : full[i] = FullPath(refs[i])
  BY DEF Each
<1>2. \A i \in DOMAIN refs : refs[i] \in Refs
  OBVIOUS
<1>3. \A r \in Refs : FullPath(r).base = r.base
  BY DEF Refs, FullPath
<1>4. \A i \in DOMAIN refs : full[i].base = refs[i].base
  BY <1>1, <1>2, <1>3
<1> QED
  BY <1>1, <1>4 DEF Ascending

LEMMA FourPlaces ==
  ASSUME NEW a, NEW b, NEW c, NEW d, NEW over, over = <<a, b, c, d>>
  PROVE  over[4] = d /\ over = <<a, b, c, over[4]>>
OBVIOUS

(* What the code signs, the client's hash and the references in full and in *)
(* the order of their list, is the client's text if that order is the      *)
(* client's.                                                               *)
LEMMA ClientText ==
  ASSUME NEW refs \in Seq(Refs), NEW over, truth[1].references = refs,
         over = <<Path, Base32Hash(digest), "nar size", Each(FullPath, refs)>>
  PROVE  IsNixFingerprint(over) <=> Ascending(refs)
<1>1. /\ over[4] = Each(FullPath, refs)
      /\ over = <<Path, Base32Hash(digest), "nar size", over[4]>>
  BY FourPlaces, Zenon
<1>2. /\ {over[4][i] : i \in DOMAIN over[4]} = {FullPath(refs[i]) : i \in DOMAIN refs}
      /\ Ascending(over[4]) <=> Ascending(refs)
  BY <1>1, FullRefs, Zenon
<1> QED
  BY <1>1, <1>2, Zenon DEF IsNixFingerprint

(* Every signature of a file that no write cut off is over what a Nix       *)
(* client builds for the path, references in full though the file has base *)
(* names, and the hash in base-32 though the file may have it in hex, if   *)
(* the references were listed in ascending order, each once, and only then.*)
THEOREM SignaturesFitClientHolds == Spec => []SignaturesFitClient
<1>1. SInv => SignaturesFitClient
  <2> SUFFICES ASSUME SInv, file # << >>, ~cut, NEW s \in Signatures(file[1])
               PROVE  IsNixFingerprint(s.over) <=> Ascending(truth[1].references)
    BY DEF SignaturesFitClient
  <2>1. PICK t : file = <<t>> /\ FileOK(t, 1..made)
    BY DEF SInv, FilesOK
  <2>2. PICK keys : keys = 1..made /\ FileOK(t, keys)
    BY <2>1
  <2>3. file[1] = t
    BY <2>1
  <2>4. s.over = Fingerprint(Parsed(t))
    <3>1. FileOK(t, keys)
      BY <2>2
    <3>2. s \in Signatures(t)
      BY <2>3
    <3>3. PICK key \in keys : s = [key |-> key, over |-> Fingerprint(Parsed(t))]
      BY <3>1, <3>2, SignaturesAre
    <3> QED
      BY <3>3
  <2>5. truth # << >> /\ Fields(t) = Based(truth[1])
    BY <2>3 DEF SInv, KeptOK
  <2>6. PICK h \in {HexHash(digest), Base32Hash(digest)}, refs \in RefLists, d \in Derivers :
          Known /\ truth = <<Info(h, refs, d)>>
    BY <2>5 DEF SInv, TruthOK
  <2>7. truth[1] = Info(h, refs, d)
    BY <2>6
  <2>8. PICK info : info = Info(h, refs, d)
    OBVIOUS
  <2>9. /\ info.storePath = Path /\ info.url = "url" /\ info.narHash = h
        /\ info.narSize = "nar size" /\ info.references = refs /\ info.deriver = d
    BY <2>8 DEF Info
  <2>10. Fingerprint(Fields(t)) = <<Path, Normalize(h), "nar size", Each(FullPath, refs)>>
    <3>1. PICK u, n : u = "url" /\ n = "nar size"
      OBVIOUS
    <3>2. Fields(t) = Nar(Path, u, h, n, Each(Basename, refs), Each(Basename, d), << >>)
      BY <2>5, <2>7, <2>8, <2>9, <3>1, Zenon DEF Based
    <3>3. refs \in Seq(Refs)
      BY ListsTyped
    <3>4. PICK y, none : y = Each(Basename, d) /\ none = << >>
      OBVIOUS
    <3>5. Fingerprint(Nar(Path, u, h, n, Each(Basename, refs), y, none))
            = <<Path, Normalize(h), n, Each(FullPath, refs)>>
      BY <3>3, FingerprintOfBased
    <3> QED
      BY <3>1, <3>2, <3>4, <3>5, Zenon
  <2>11. Normalize(h) = Base32Hash(digest)
    <3>1. digest \in Seq(Byte) /\ Len(digest) = DigestLen
      BY <2>6 DEF Known, SInv, DigestOK
    <3>2. Normalize(HexHash(digest)) = Base32Hash(digest)
          /\ Normalize(Base32Hash(digest)) = Base32Hash(digest)
      BY <3>1, NormalizedHash
    <3> QED
      BY <3>2
  <2>12. truth[1].references = refs
    BY <2>7, <2>8, <2>9, Zenon
  <2>13. s.over = <<Path, Base32Hash(digest), "nar size", Each(FullPath, refs)>>
    BY <2>4, <2>10, <2>11, FieldsAre
  <2>14. refs \in Seq(Refs)
    BY ListsTyped
  <2> QED
    BY <2>12, <2>13, <2>14, ClientText
<1> QED
  BY <1>1, SInvAlways, PTL

(* The public key that is published verifies every signature its secret     *)
(* key made, against the file as it now reads: also when the file was cut  *)
(* off before it was signed, or after, and however many pairs were made.   *)
THEOREM PublishedKeyVerifiesHolds == Spec => []PublishedKeyVerifies
<1>1. SInv => PublishedKeyVerifies
  <2> SUFFICES ASSUME SInv, file # << >>, keygen = 0, ~torn,
                      NEW s \in Signatures(file[1]), s.key = made
               PROVE  Verified(public, s, Fingerprint(Parsed(file[1])))
    BY DEF PublishedKeyVerifies
  <2>1. PICK t : file = <<t>> /\ FileOK(t, 1..made)
    BY DEF SInv, FilesOK
  <2>2. PICK keys : keys = 1..made /\ FileOK(t, keys)
    BY <2>1
  <2>3. file[1] = t
    BY <2>1
  <2>4. PICK key \in keys : s = [key |-> key, over |-> Fingerprint(Parsed(t))] /\ s # Piece
    <3>1. FileOK(t, keys)
      BY <2>2
    <3>2. s \in Signatures(t)
      BY <2>3
    <3> QED
      BY <3>1, <3>2, SignaturesAre
  <2>5. made \in 1..made /\ made \in Nat
    BY <2>2, <2>4 DEF SInv, KeysOK
  <2>6. public = PublicText(made)
    BY <2>5 DEF SInv, KeysOK
  <2>7. Len(public) = 1 /\ public[1][2] = made
    BY <2>6 DEF PublicText
  <2> QED
    BY <2>3, <2>4, <2>7 DEF Verified
<1> QED
  BY <1>1, SInvAlways, PTL

-----------------------------------------------------------------------------
(* The encoding.  A character of x that begins at bit b: where b > 3, its   *)
(* high bits are the low bits of the next byte y, or 0 after the last.     *)
Char(x, y, b) == IF b > 3 THEN ((Shr(x, b) % 32) + Shl(y, 8 - b)) % 32 ELSE Shr(x, b) % 32

LEMMA Powers ==
  /\ 2^0 = 1 /\ 2^1 = 2 /\ 2^2 = 4 /\ 2^3 = 8 /\ 2^4 = 16
  /\ 2^5 = 32 /\ 2^6 = 64 /\ 2^7 = 128
OBVIOUS

LEMMA Shifts ==
  ASSUME NEW x \in Nat
  PROVE  /\ Shr(x, 0) = x /\ Shr(x, 1) = x \div 2 /\ Shr(x, 2) = x \div 4
         /\ Shr(x, 3) = x \div 8 /\ Shr(x, 4) = x \div 16 /\ Shr(x, 5) = x \div 32
         /\ Shr(x, 6) = x \div 64 /\ Shr(x, 7) = x \div 128
         /\ Shl(x, 0) = x % 256 /\ Shl(x, 1) = (2 * x) % 256 /\ Shl(x, 2) = (4 * x) % 256
         /\ Shl(x, 3) = (8 * x) % 256 /\ Shl(x, 4) = (16 * x) % 256
         /\ Shl(x, 5) = (32 * x) % 256 /\ Shl(x, 6) = (64 * x) % 256
         /\ Shl(x, 7) = (128 * x) % 256
BY Powers DEF Shr, Shl

LEMMA CharIs ==
  ASSUME NEW x \in Byte, NEW y \in Byte
  PROVE  /\ Char(x, y, 0) = x % 32
         /\ Char(x, y, 1) = (x \div 2) % 32
         /\ Char(x, y, 2) = (x \div 4) % 32
         /\ Char(x, y, 3) = (x \div 8) % 32
         /\ Char(x, y, 4) = (x \div 16) + 16 * (y % 2)
         /\ Char(x, y, 5) = (x \div 32) + 8 * (y % 4)
         /\ Char(x, y, 6) = (x \div 64) + 4 * (y % 8)
         /\ Char(x, y, 7) = (x \div 128) + 2 * (y % 16)
<1>1. x \in 0..255 /\ y \in 0..255 /\ x \in Nat /\ y \in Nat
  BY DEF Byte
<1>2. /\ Char(x, y, 0) = Shr(x, 0) % 32 /\ Char(x, y, 1) = Shr(x, 1) % 32
      /\ Char(x, y, 2) = Shr(x, 2) % 32 /\ Char(x, y, 3) = Shr(x, 3) % 32
      /\ Char(x, y, 4) = ((Shr(x, 4) % 32) + Shl(y, 4)) % 32
      /\ Char(x, y, 5) = ((Shr(x, 5) % 32) + Shl(y, 3)) % 32
      /\ Char(x, y, 6) = ((Shr(x, 6) % 32) + Shl(y, 2)) % 32
      /\ Char(x, y, 7) = ((Shr(x, 7) % 32) + Shl(y, 1)) % 32
  BY DEF Char
<1>3. Char(x, y, 0) = x % 32
  <2>1. Shr(x, 0) = x
    BY <1>1, Shifts
  <2> QED
    BY <1>2, <2>1, Zenon
<1>4. Char(x, y, 1) = (x \div 2) % 32
  <2>1. Shr(x, 1) = x \div 2
    BY <1>1, Shifts
  <2> QED
    BY <1>2, <2>1, Zenon
<1>5. Char(x, y, 2) = (x \div 4) % 32
  <2>1. Shr(x, 2) = x \div 4
    BY <1>1, Shifts
  <2> QED
    BY <1>2, <2>1, Zenon
<1>6. Char(x, y, 3) = (x \div 8) % 32
  <2>1. Shr(x, 3) = x \div 8
    BY <1>1, Shifts
  <2> QED
    BY <1>2, <2>1, Zenon
<1>7. Char(x, y, 4) = (x \div 16) + 16 * (y % 2)
  <2>1. Char(x, y, 4) = (((x \div 16) % 32) + ((16 * y) % 256)) % 32
    <3>1. Shr(x, 4) = x \div 16
      BY <1>1, Shifts
    <3>2. Shl(y, 4) = (16 * y) % 256
      BY <1>1, Shifts
    <3> QED
      BY <1>2, <3>1, <3>2, Zenon
  <2>2. (((x \div 16) % 32) + ((16 * y) % 256)) % 32 = (x \div 16) + 16 * (y % 2)
    BY <1>1, SMTT(60)
  <2> QED
    BY <2>1, <2>2, Zenon
<1>8. Char(x, y, 5) = (x \div 32) + 8 * (y % 4)
  <2>1. Char(x, y, 5) = (((x \div 32) % 32) + ((8 * y) % 256)) % 32
    <3>1. Shr(x, 5) = x \div 32
      BY <1>1, Shifts
    <3>2. Shl(y, 3) = (8 * y) % 256
      BY <1>1, Shifts
    <3> QED
      BY <1>2, <3>1, <3>2, Zenon
  <2>2. (((x \div 32) % 32) + ((8 * y) % 256)) % 32 = (x \div 32) + 8 * (y % 4)
    BY <1>1, SMTT(60)
  <2> QED
    BY <2>1, <2>2, Zenon
<1>9. Char(x, y, 6) = (x \div 64) + 4 * (y % 8)
  <2>1. Char(x, y, 6) = (((x \div 64) % 32) + ((4 * y) % 256)) % 32
    <3>1. Shr(x, 6) = x \div 64
      BY <1>1, Shifts
    <3>2. Shl(y, 2) = (4 * y) % 256
      BY <1>1, Shifts
    <3> QED
      BY <1>2, <3>1, <3>2, Zenon
  <2>2. (((x \div 64) % 32) + ((4 * y) % 256)) % 32 = (x \div 64) + 4 * (y % 8)
    BY <1>1, SMTT(60)
  <2> QED
    BY <2>1, <2>2, Zenon
<1>10. Char(x, y, 7) = (x \div 128) + 2 * (y % 16)
  <2>1. Char(x, y, 7) = (((x \div 128) % 32) + ((2 * y) % 256)) % 32
    <3>1. Shr(x, 7) = x \div 128
      BY <1>1, Shifts
    <3>2. Shl(y, 1) = (2 * y) % 256
      BY <1>1, Shifts
    <3> QED
      BY <1>2, <3>1, <3>2, Zenon
  <2>2. (((x \div 128) % 32) + ((2 * y) % 256)) % 32 = (x \div 128) + 2 * (y % 16)
    BY <1>1, SMTT(60)
  <2> QED
    BY <2>1, <2>2, Zenon
<1> QED
  BY <1>3, <1>4, <1>5, <1>6, <1>7, <1>8, <1>9, <1>10

(* The bits of the character are those of the input from bit b of x on. *)
LEMMA Bits ==
  ASSUME NEW x \in Nat
  PROVE  /\ Bit(x, 0) = x % 2 /\ Bit(x, 1) = (x \div 2) % 2 /\ Bit(x, 2) = (x \div 4) % 2
         /\ Bit(x, 3) = (x \div 8) % 2 /\ Bit(x, 4) = (x \div 16) % 2
         /\ Bit(x, 5) = (x \div 32) % 2 /\ Bit(x, 6) = (x \div 64) % 2
         /\ Bit(x, 7) = (x \div 128) % 2
BY Powers DEF Bit, Shr

LEMMA CharBits ==
  ASSUME NEW x \in Byte, NEW y \in Byte, NEW b \in 0..7, NEW j \in 0..4
  PROVE  Bit(Char(x, y, b), j) = IF b + j < 8 THEN Bit(x, b + j) ELSE Bit(y, b + j - 8)
<1>1. x \in 0..255 /\ y \in 0..255 /\ x \in Nat /\ y \in Nat
  BY DEF Byte
<1>2. PICK c : c = Char(x, y, b)
  OBVIOUS
<1>3. CASE b = 0
  <2>1. c = x % 32 /\ c \in Nat
    BY <1>1, <1>2, <1>3, CharIs
  <2>2. Bit(c, 0) = Bit(x, 0)
    <3>1. Bit(c, 0) = c % 2 /\ Bit(x, 0) = x % 2
      BY <1>1, <2>1, Bits
    <3> QED
      BY <1>1, <2>1, <3>1, SMTT(60)
  <2>3. Bit(c, 1) = Bit(x, 1)
    <3>1. Bit(c, 1) = (c \div 2) % 2 /\ Bit(x, 1) = (x \div 2) % 2
      BY <1>1, <2>1, Bits
    <3> QED
      BY <1>1, <2>1, <3>1, SMTT(60)
  <2>4. Bit(c, 2) = Bit(x, 2)
    <3>1. Bit(c, 2) = (c \div 4) % 2 /\ Bit(x, 2) = (x \div 4) % 2
      BY <1>1, <2>1, Bits
    <3> QED
      BY <1>1, <2>1, <3>1, SMTT(60)
  <2>5. Bit(c, 3) = Bit(x, 3)
    <3>1. Bit(c, 3) = (c \div 8) % 2 /\ Bit(x, 3) = (x \div 8) % 2
      BY <1>1, <2>1, Bits
    <3> QED
      BY <1>1, <2>1, <3>1, SMTT(60)
  <2>6. Bit(c, 4) = Bit(x, 4)
    <3>1. Bit(c, 4) = (c \div 16) % 2 /\ Bit(x, 4) = (x \div 16) % 2
      BY <1>1, <2>1, Bits
    <3> QED
      BY <1>1, <2>1, <3>1, SMTT(60)
  <2> QED
    BY <1>2, <1>3, <2>2, <2>3, <2>4, <2>5, <2>6
<1>4. CASE b = 1
  <2>1. c = (x \div 2) % 32 /\ c \in Nat
    BY <1>1, <1>2, <1>4, CharIs
  <2>2. Bit(c, 0) = Bit(x, 1)
    <3>1. Bit(c, 0) = c % 2 /\ Bit(x, 1) = (x \div 2) % 2
      BY <1>1, <2>1, Bits
    <3> QED
      BY <1>1, <2>1, <3>1, SMTT(60)
  <2>3. Bit(c, 1) = Bit(x, 2)
    <3>1. Bit(c, 1) = (c \div 2) % 2 /\ Bit(x, 2) = (x \div 4) % 2
      BY <1>1, <2>1, Bits
    <3> QED
      BY <1>1, <2>1, <3>1, SMTT(60)
  <2>4. Bit(c, 2) = Bit(x, 3)
    <3>1. Bit(c, 2) = (c \div 4) % 2 /\ Bit(x, 3) = (x \div 8) % 2
      BY <1>1, <2>1, Bits
    <3> QED
      BY <1>1, <2>1, <3>1, SMTT(60)
  <2>5. Bit(c, 3) = Bit(x, 4)
    <3>1. Bit(c, 3) = (c \div 8) % 2 /\ Bit(x, 4) = (x \div 16) % 2
      BY <1>1, <2>1, Bits
    <3> QED
      BY <1>1, <2>1, <3>1, SMTT(60)
  <2>6. Bit(c, 4) = Bit(x, 5)
    <3>1. Bit(c, 4) = (c \div 16) % 2 /\ Bit(x, 5) = (x \div 32) % 2
      BY <1>1, <2>1, Bits
    <3> QED
      BY <1>1, <2>1, <3>1, SMTT(60)
  <2> QED
    BY <1>2, <1>4, <2>2, <2>3, <2>4, <2>5, <2>6
<1>5. CASE b = 2
  <2>1. c = (x \div 4) % 32 /\ c \in Nat
    BY <1>1, <1>2, <1>5, CharIs
  <2>2. Bit(c, 0) = Bit(x, 2)
    <3>1. Bit(c, 0) = c % 2 /\ Bit(x, 2) = (x \div 4) % 2
      BY <1>1, <2>1, Bits
    <3> QED
      BY <1>1, <2>1, <3>1, SMTT(60)
  <2>3. Bit(c, 1) = Bit(x, 3)
    <3>1. Bit(c, 1) = (c \div 2) % 2 /\ Bit(x, 3) = (x \div 8) % 2
      BY <1>1, <2>1, Bits
    <3> QED
      BY <1>1, <2>1, <3>1, SMTT(60)
  <2>4. Bit(c, 2) = Bit(x, 4)
    <3>1. Bit(c, 2) = (c \div 4) % 2 /\ Bit(x, 4) = (x \div 16) % 2
      BY <1>1, <2>1, Bits
    <3> QED
      BY <1>1, <2>1, <3>1, SMTT(60)
  <2>5. Bit(c, 3) = Bit(x, 5)
    <3>1. Bit(c, 3) = (c \div 8) % 2 /\ Bit(x, 5) = (x \div 32) % 2
      BY <1>1, <2>1, Bits
    <3> QED
      BY <1>1, <2>1, <3>1, SMTT(60)
  <2>6. Bit(c, 4) = Bit(x, 6)
    <3>1. Bit(c, 4) = (c \div 16) % 2 /\ Bit(x, 6) = (x \div 64) % 2
      BY <1>1, <2>1, Bits
    <3> QED
      BY <1>1, <2>1, <3>1, SMTT(60)
  <2> QED
    BY <1>2, <1>5, <2>2, <2>3, <2>4, <2>5, <2>6
<1>6. CASE b = 3
  <2>1. c = (x \div 8) % 32 /\ c \in Nat
    BY <1>1, <1>2, <1>6, CharIs
  <2>2. Bit(c, 0) = Bit(x, 3)
    <3>1. Bit(c, 0) = c % 2 /\ Bit(x, 3) = (x \div 8) % 2
      BY <1>1, <2>1, Bits
    <3> QED
      BY <1>1, <2>1, <3>1, SMTT(60)
  <2>3. Bit(c, 1) = Bit(x, 4)
    <3>1. Bit(c, 1) = (c \div 2) % 2 /\ Bit(x, 4) = (x \div 16) % 2
      BY <1>1, <2>1, Bits
    <3> QED
      BY <1>1, <2>1, <3>1, SMTT(60)
  <2>4. Bit(c, 2) = Bit(x, 5)
    <3>1. Bit(c, 2) = (c \div 4) % 2 /\ Bit(x, 5) = (x \div 32) % 2
      BY <1>1, <2>1, Bits
    <3> QED
      BY <1>1, <2>1, <3>1, SMTT(60)
  <2>5. Bit(c, 3) = Bit(x, 6)
    <3>1. Bit(c, 3) = (c \div 8) % 2 /\ Bit(x, 6) = (x \div 64) % 2
      BY <1>1, <2>1, Bits
    <3> QED
      BY <1>1, <2>1, <3>1, SMTT(60)
  <2>6. Bit(c, 4) = Bit(x, 7)
    <3>1. Bit(c, 4) = (c \div 16) % 2 /\ Bit(x, 7) = (x \div 128) % 2
      BY <1>1, <2>1, Bits
    <3> QED
      BY <1>1, <2>1, <3>1, SMTT(60)
  <2> QED
    BY <1>2, <1>6, <2>2, <2>3, <2>4, <2>5, <2>6
<1>7. CASE b = 4
  <2>1. c = (x \div 16) + 16 * (y % 2) /\ c \in Nat
    BY <1>1, <1>2, <1>7, CharIs
  <2>2. Bit(c, 0) = Bit(x, 4)
    <3>1. Bit(c, 0) = c % 2 /\ Bit(x, 4) = (x \div 16) % 2
      BY <1>1, <2>1, Bits
    <3> QED
      BY <1>1, <2>1, <3>1, SMTT(60)
  <2>3. Bit(c, 1) = Bit(x, 5)
    <3>1. Bit(c, 1) = (c \div 2) % 2 /\ Bit(x, 5) = (x \div 32) % 2
      BY <1>1, <2>1, Bits
    <3> QED
      BY <1>1, <2>1, <3>1, SMTT(60)
  <2>4. Bit(c, 2) = Bit(x, 6)
    <3>1. Bit(c, 2) = (c \div 4) % 2 /\ Bit(x, 6) = (x \div 64) % 2
      BY <1>1, <2>1, Bits
    <3> QED
      BY <1>1, <2>1, <3>1, SMTT(60)
  <2>5. Bit(c, 3) = Bit(x, 7)
    <3>1. Bit(c, 3) = (c \div 8) % 2 /\ Bit(x, 7) = (x \div 128) % 2
      BY <1>1, <2>1, Bits
    <3> QED
      BY <1>1, <2>1, <3>1, SMTT(60)
  <2>6. Bit(c, 4) = Bit(y, 0)
    <3>1. Bit(c, 4) = (c \div 16) % 2 /\ Bit(y, 0) = y % 2
      BY <1>1, <2>1, Bits
    <3> QED
      BY <1>1, <2>1, <3>1, SMTT(60)
  <2> QED
    BY <1>2, <1>7, <2>2, <2>3, <2>4, <2>5, <2>6
<1>8. CASE b = 5
  <2>1. c = (x \div 32) + 8 * (y % 4) /\ c \in Nat
    BY <1>1, <1>2, <1>8, CharIs
  <2>2. Bit(c, 0) = Bit(x, 5)
    <3>1. Bit(c, 0) = c % 2 /\ Bit(x, 5) = (x \div 32) % 2
      BY <1>1, <2>1, Bits
    <3> QED
      BY <1>1, <2>1, <3>1, SMTT(60)
  <2>3. Bit(c, 1) = Bit(x, 6)
    <3>1. Bit(c, 1) = (c \div 2) % 2 /\ Bit(x, 6) = (x \div 64) % 2
      BY <1>1, <2>1, Bits
    <3> QED
      BY <1>1, <2>1, <3>1, SMTT(60)
  <2>4. Bit(c, 2) = Bit(x, 7)
    <3>1. Bit(c, 2) = (c \div 4) % 2 /\ Bit(x, 7) = (x \div 128) % 2
      BY <1>1, <2>1, Bits
    <3> QED
      BY <1>1, <2>1, <3>1, SMTT(60)
  <2>5. Bit(c, 3) = Bit(y, 0)
    <3>1. Bit(c, 3) = (c \div 8) % 2 /\ Bit(y, 0) = y % 2
      BY <1>1, <2>1, Bits
    <3> QED
      BY <1>1, <2>1, <3>1, SMTT(60)
  <2>6. Bit(c, 4) = Bit(y, 1)
    <3>1. Bit(c, 4) = (c \div 16) % 2 /\ Bit(y, 1) = (y \div 2) % 2
      BY <1>1, <2>1, Bits
    <3> QED
      BY <1>1, <2>1, <3>1, SMTT(60)
  <2> QED
    BY <1>2, <1>8, <2>2, <2>3, <2>4, <2>5, <2>6
<1>9. CASE b = 6
  <2>1. c = (x \div 64) + 4 * (y % 8) /\ c \in Nat
    BY <1>1, <1>2, <1>9, CharIs
  <2>2. Bit(c, 0) = Bit(x, 6)
    <3>1. Bit(c, 0) = c % 2 /\ Bit(x, 6) = (x \div 64) % 2
      BY <1>1, <2>1, Bits
    <3> QED
      BY <1>1, <2>1, <3>1, SMTT(60)
  <2>3. Bit(c, 1) = Bit(x, 7)
    <3>1. Bit(c, 1) = (c \div 2) % 2 /\ Bit(x, 7) = (x \div 128) % 2
      BY <1>1, <2>1, Bits
    <3> QED
      BY <1>1, <2>1, <3>1, SMTT(60)
  <2>4. Bit(c, 2) = Bit(y, 0)
    <3>1. Bit(c, 2) = (c \div 4) % 2 /\ Bit(y, 0) = y % 2
      BY <1>1, <2>1, Bits
    <3> QED
      BY <1>1, <2>1, <3>1, SMTT(60)
  <2>5. Bit(c, 3) = Bit(y, 1)
    <3>1. Bit(c, 3) = (c \div 8) % 2 /\ Bit(y, 1) = (y \div 2) % 2
      BY <1>1, <2>1, Bits
    <3> QED
      BY <1>1, <2>1, <3>1, SMTT(60)
  <2>6. Bit(c, 4) = Bit(y, 2)
    <3>1. Bit(c, 4) = (c \div 16) % 2 /\ Bit(y, 2) = (y \div 4) % 2
      BY <1>1, <2>1, Bits
    <3> QED
      BY <1>1, <2>1, <3>1, SMTT(60)
  <2> QED
    BY <1>2, <1>9, <2>2, <2>3, <2>4, <2>5, <2>6
<1>10. CASE b = 7
  <2>1. c = (x \div 128) + 2 * (y % 16) /\ c \in Nat
    BY <1>1, <1>2, <1>10, CharIs
  <2>2. Bit(c, 0) = Bit(x, 7)
    <3>1. Bit(c, 0) = c % 2 /\ Bit(x, 7) = (x \div 128) % 2
      BY <1>1, <2>1, Bits
    <3> QED
      BY <1>1, <2>1, <3>1, SMTT(60)
  <2>3. Bit(c, 1) = Bit(y, 0)
    <3>1. Bit(c, 1) = (c \div 2) % 2 /\ Bit(y, 0) = y % 2
      BY <1>1, <2>1, Bits
    <3> QED
      BY <1>1, <2>1, <3>1, SMTT(60)
  <2>4. Bit(c, 2) = Bit(y, 1)
    <3>1. Bit(c, 2) = (c \div 4) % 2 /\ Bit(y, 1) = (y \div 2) % 2
      BY <1>1, <2>1, Bits
    <3> QED
      BY <1>1, <2>1, <3>1, SMTT(60)
  <2>5. Bit(c, 3) = Bit(y, 2)
    <3>1. Bit(c, 3) = (c \div 8) % 2 /\ Bit(y, 2) = (y \div 4) % 2
      BY <1>1, <2>1, Bits
    <3> QED
      BY <1>1, <2>1, <3>1, SMTT(60)
  <2>6. Bit(c, 4) = Bit(y, 3)
    <3>1. Bit(c, 4) = (c \div 16) % 2 /\ Bit(y, 3) = (y \div 8) % 2
      BY <1>1, <2>1, Bits
    <3> QED
      BY <1>1, <2>1, <3>1, SMTT(60)
  <2> QED
    BY <1>2, <1>10, <2>2, <2>3, <2>4, <2>5, <2>6
<1> QED
  BY <1>3, <1>4, <1>5, <1>6, <1>7, <1>8, <1>9, <1>10

(* What the character adds to x, and to y. *)
LEMMA CharAdds ==
  ASSUME NEW x \in Byte, NEW y \in Byte
  PROVE  /\ Shl(Char(x, y, 0), 0) = x % 32
         /\ Shl(Char(x, y, 1), 1) = 2 * ((x \div 2) % 32)
         /\ Shl(Char(x, y, 2), 2) = 4 * ((x \div 4) % 32)
         /\ Shl(Char(x, y, 3), 3) = 8 * ((x \div 8) % 32)
         /\ Shl(Char(x, y, 4), 4) = 16 * (x \div 16)
         /\ Shl(Char(x, y, 5), 5) = 32 * (x \div 32)
         /\ Shl(Char(x, y, 6), 6) = 64 * (x \div 64)
         /\ Shl(Char(x, y, 7), 7) = 128 * (x \div 128)
         /\ Shr(Char(x, y, 4), 4) = y % 2
         /\ Shr(Char(x, y, 5), 3) = y % 4
         /\ Shr(Char(x, y, 6), 2) = y % 8
         /\ Shr(Char(x, y, 7), 1) = y % 16
<1>1. x \in 0..255 /\ y \in 0..255 /\ x \in Nat /\ y \in Nat
  BY DEF Byte
<1>2. Shl(Char(x, y, 0), 0) = x % 32
  <2>1. PICK c : c = Char(x, y, 0)
    OBVIOUS
  <2>2. c = x % 32 /\ c \in Nat
    <3>1. c = x % 32
      BY <2>1, CharIs, Zenon
    <3> QED
      BY <1>1, <3>1
  <2>3. c % 256 = x % 32
    BY <1>1, <2>2, SMTT(60)
  <2>5. Shl(c, 0) = c % 256
    BY <2>2, Shifts
  <2> QED
    BY <2>1, <2>3, <2>5, Zenon
<1>3. Shl(Char(x, y, 1), 1) = 2 * ((x \div 2) % 32)
  <2>1. PICK c : c = Char(x, y, 1)
    OBVIOUS
  <2>2. c = (x \div 2) % 32 /\ c \in Nat
    <3>1. c = (x \div 2) % 32
      BY <2>1, CharIs, Zenon
    <3> QED
      BY <1>1, <3>1
  <2>3. (2 * c) % 256 = 2 * ((x \div 2) % 32)
    BY <1>1, <2>2, SMTT(60)
  <2>5. Shl(c, 1) = (2 * c) % 256
    BY <2>2, Shifts
  <2> QED
    BY <2>1, <2>3, <2>5, Zenon
<1>4. Shl(Char(x, y, 2), 2) = 4 * ((x \div 4) % 32)
  <2>1. PICK c : c = Char(x, y, 2)
    OBVIOUS
  <2>2. c = (x \div 4) % 32 /\ c \in Nat
    <3>1. c = (x \div 4) % 32
      BY <2>1, CharIs, Zenon
    <3> QED
      BY <1>1, <3>1
  <2>3. (4 * c) % 256 = 4 * ((x \div 4) % 32)
    BY <1>1, <2>2, SMTT(60)
  <2>5. Shl(c, 2) = (4 * c) % 256
    BY <2>2, Shifts
  <2> QED
    BY <2>1, <2>3, <2>5, Zenon
<1>5. Shl(Char(x, y, 3), 3) = 8 * ((x \div 8) % 32)
  <2>1. PICK c : c = Char(x, y, 3)
    OBVIOUS
  <2>2. c = (x \div 8) % 32 /\ c \in Nat
    <3>1. c = (x \div 8) % 32
      BY <2>1, CharIs, Zenon
    <3> QED
      BY <1>1, <3>1
  <2>3. (8 * c) % 256 = 8 * ((x \div 8) % 32)
    BY <1>1, <2>2, SMTT(60)
  <2>5. Shl(c, 3) = (8 * c) % 256
    BY <2>2, Shifts
  <2> QED
    BY <2>1, <2>3, <2>5, Zenon
<1>6. Shl(Char(x, y, 4), 4) = 16 * (x \div 16) /\ Shr(Char(x, y, 4), 4) = y % 2
  <2>1. PICK c : c = Char(x, y, 4)
    OBVIOUS
  <2>2. c = (x \div 16) + 16 * (y % 2) /\ c \in Nat
    <3>1. c = (x \div 16) + 16 * (y % 2)
      BY <2>1, CharIs, Zenon
    <3> QED
      BY <1>1, <3>1
  <2>3. (16 * c) % 256 = 16 * (x \div 16)
    BY <1>1, <2>2, SMTT(60)
  <2>4. c \div 16 = y % 2
    BY <1>1, <2>2, SMTT(60)
  <2>5. Shl(c, 4) = (16 * c) % 256
    BY <2>2, Shifts
  <2>6. Shr(c, 4) = c \div 16
    BY <2>2, Shifts
  <2> QED
    BY <2>1, <2>3, <2>5, <2>4, <2>6, Zenon
<1>7. Shl(Char(x, y, 5), 5) = 32 * (x \div 32) /\ Shr(Char(x, y, 5), 3) = y % 4
  <2>1. PICK c : c = Char(x, y, 5)
    OBVIOUS
  <2>2. c = (x \div 32) + 8 * (y % 4) /\ c \in Nat
    <3>1. c = (x \div 32) + 8 * (y % 4)
      BY <2>1, CharIs, Zenon
    <3> QED
      BY <1>1, <3>1
  <2>3. (32 * c) % 256 = 32 * (x \div 32)
    BY <1>1, <2>2, SMTT(60)
  <2>4. c \div 8 = y % 4
    BY <1>1, <2>2, SMTT(60)
  <2>5. Shl(c, 5) = (32 * c) % 256
    BY <2>2, Shifts
  <2>6. Shr(c, 3) = c \div 8
    BY <2>2, Shifts
  <2> QED
    BY <2>1, <2>3, <2>5, <2>4, <2>6, Zenon
<1>8. Shl(Char(x, y, 6), 6) = 64 * (x \div 64) /\ Shr(Char(x, y, 6), 2) = y % 8
  <2>1. PICK c : c = Char(x, y, 6)
    OBVIOUS
  <2>2. c = (x \div 64) + 4 * (y % 8) /\ c \in Nat
    <3>1. c = (x \div 64) + 4 * (y % 8)
      BY <2>1, CharIs, Zenon
    <3> QED
      BY <1>1, <3>1
  <2>3. (64 * c) % 256 = 64 * (x \div 64)
    BY <1>1, <2>2, SMTT(60)
  <2>4. c \div 4 = y % 8
    BY <1>1, <2>2, SMTT(60)
  <2>5. Shl(c, 6) = (64 * c) % 256
    BY <2>2, Shifts
  <2>6. Shr(c, 2) = c \div 4
    BY <2>2, Shifts
  <2> QED
    BY <2>1, <2>3, <2>5, <2>4, <2>6, Zenon
<1>9. Shl(Char(x, y, 7), 7) = 128 * (x \div 128) /\ Shr(Char(x, y, 7), 1) = y % 16
  <2>1. PICK c : c = Char(x, y, 7)
    OBVIOUS
  <2>2. c = (x \div 128) + 2 * (y % 16) /\ c \in Nat
    <3>1. c = (x \div 128) + 2 * (y % 16)
      BY <2>1, CharIs, Zenon
    <3> QED
      BY <1>1, <3>1
  <2>3. (128 * c) % 256 = 128 * (x \div 128)
    BY <1>1, <2>2, SMTT(60)
  <2>4. c \div 2 = y % 16
    BY <1>1, <2>2, SMTT(60)
  <2>5. Shl(c, 7) = (128 * c) % 256
    BY <2>2, Shifts
  <2>6. Shr(c, 1) = c \div 2
    BY <2>2, Shifts
  <2> QED
    BY <2>1, <2>3, <2>5, <2>4, <2>6, Zenon
<1> QED
  BY <1>2, <1>3, <1>4, <1>5, <1>6, <1>7, <1>8, <1>9

(* Where the characters of a text begin. *)
Next8(d, i) == IF i + 1 < Len(d) THEN d[i + 2] ELSE 0

LEMMA Places ==
  ASSUME NEW len \in Nat, NEW n \in 0..(Chars(len) - 1)
  PROVE  /\ ByteOf(n) \in 0..(len - 1) /\ BitOf(n) \in 0..7
         /\ 5 * n = 8 * ByteOf(n) + BitOf(n)
<1>1. n \in Nat /\ n <= ((len * 8 + 4) \div 5) - 1
  BY DEF Chars
<1>2. 5 * n < 8 * len
  BY <1>1
<1>3. /\ (n * 5) \div 8 \in Nat /\ (n * 5) % 8 \in 0..7
      /\ 5 * n = 8 * ((n * 5) \div 8) + ((n * 5) % 8)
  BY <1>1
<1>4. (n * 5) \div 8 < len
  BY <1>2, <1>3
<1> QED
  BY <1>3, <1>4 DEF ByteOf, BitOf

LEMMA Lengths ==
  ASSUME NEW len \in Nat
  PROVE  Chars(len) \in Nat /\ ByteCount(Chars(len)) = len
BY DEF Chars, ByteCount

LEMMA ShiftTypes ==
  ASSUME NEW x \in Nat, NEW k \in {0, 1, 2, 3, 4, 5, 6, 7}
  PROVE  Shr(x, k) \in Nat /\ Shl(x, k) \in Nat
<1>1. PICK q : q = 2^k
  OBVIOUS
<1>2. q \in {1, 2, 4, 8, 16, 32, 64, 128}
  <2>1. /\ (k = 0 => q = 1)
        /\ (k = 1 => q = 2)
        /\ (k = 2 => q = 4)
        /\ (k = 3 => q = 8)
        /\ (k = 4 => q = 16)
        /\ (k = 5 => q = 32)
        /\ (k = 6 => q = 64)
        /\ (k = 7 => q = 128)
    BY <1>1, Powers
  <2> QED
    BY <2>1
<1>3. Shr(x, k) = x \div q /\ Shl(x, k) = (x * q) % 256
  BY <1>1 DEF Shr, Shl
<1>4. x \div q \in Nat /\ (x * q) % 256 \in Nat
  BY <1>2
<1> QED
  BY <1>3, <1>4

LEMMA DigitIs ==
  ASSUME NEW d \in Seq(Byte), NEW n \in 0..(Chars(Len(d)) - 1)
  PROVE  /\ d[ByteOf(n) + 1] \in Byte /\ Next8(d, ByteOf(n)) \in Byte
         /\ DigitAt(d, n) = Char(d[ByteOf(n) + 1], Next8(d, ByteOf(n)), BitOf(n))
         /\ DigitAt(d, n) \in Nat
<1>1. PICK i, b : i = ByteOf(n) /\ b = BitOf(n)
  OBVIOUS
<1>2. Len(d) \in Nat /\ i \in 0..(Len(d) - 1) /\ b \in 0..7
  <2>1. Len(d) \in Nat
    OBVIOUS
  <2> QED
    BY <1>1, <2>1, Places
<1>3. PICK x, y : x = d[i + 1] /\ y = Next8(d, i)
  OBVIOUS
<1>4. x \in Byte
  <2>1. i + 1 \in 1..Len(d)
    BY <1>2
  <2> QED
    BY <1>3, <2>1
<1>5. 0 \in Byte /\ 0 \in Nat
  BY DEF Byte
<1>6. y \in Byte
  <2>1. CASE i + 1 < Len(d)
    <3>1. i + 2 \in 1..Len(d)
      BY <1>2, <2>1
    <3> QED
      BY <1>3, <2>1, <3>1 DEF Next8
  <2>2. CASE ~ (i + 1 < Len(d))
    BY <1>3, <1>5, <2>2 DEF Next8
  <2> QED
    BY <2>1, <2>2
<1>7. PICK low : low = Shr(x, b) % 32
  OBVIOUS
<1>8. DigitAt(d, n) = IF b > 3 /\ i + 1 < Len(d)
                        THEN (low + Shl(d[i + 2], 8 - b)) % 32 ELSE low
  BY <1>1, <1>3, <1>7 DEF DigitAt
<1>9. Char(x, y, b) = IF b > 3 THEN (low + Shl(y, 8 - b)) % 32 ELSE low
  BY <1>7 DEF Char
<1>10. x \in Nat /\ b \in {0, 1, 2, 3, 4, 5, 6, 7}
  BY <1>2, <1>4 DEF Byte
<1>11. low \in 0..31
  <2>1. Shr(x, b) \in Nat
    BY <1>10, ShiftTypes
  <2>2. PICK s : s = Shr(x, b)
    OBVIOUS
  <2>3. s \in Nat /\ low = s % 32
    BY <1>7, <2>1, <2>2
  <2>4. s % 32 \in 0..31
    BY <2>3
  <2> QED
    BY <2>3, <2>4
<1>12. DigitAt(d, n) = Char(x, y, b)
  <2>1. CASE b > 3 /\ i + 1 < Len(d)
    BY <1>3, <1>8, <1>9, <2>1 DEF Next8
  <2>2. CASE b > 3 /\ ~ (i + 1 < Len(d))
    <3>1. y = 0
      BY <1>3, <2>2 DEF Next8
    <3>2. Shl(0, 1) = 0 /\ Shl(0, 2) = 0 /\ Shl(0, 3) = 0 /\ Shl(0, 4) = 0
      BY <1>5, Shifts
    <3>3. 8 - b \in {1, 2, 3, 4}
      BY <1>10, <2>2
    <3>4. Shl(0, 8 - b) = 0
      BY <3>2, <3>3
    <3>5. (low + 0) % 32 = low
      BY <1>11
    <3> QED
      BY <1>8, <1>9, <2>2, <3>1, <3>4, <3>5
  <2>3. CASE ~ (b > 3)
    BY <1>8, <1>9, <2>3
  <2> QED
    BY <2>1, <2>2, <2>3
<1>13. Char(x, y, b) \in Nat
  <2>1. CASE b > 3
    <3>1. y \in Nat /\ 8 - b \in {0, 1, 2, 3, 4, 5, 6, 7}
      BY <1>6, <1>10, <2>1 DEF Byte
    <3>2. Shl(y, 8 - b) \in Nat
      BY <3>1, ShiftTypes
    <3> QED
      BY <1>9, <1>11, <2>1, <3>2
  <2>2. CASE ~ (b > 3)
    BY <1>9, <1>11, <2>2
  <2> QED
    BY <2>1, <2>2
<1> QED
  BY <1>1, <1>3, <1>4, <1>6, <1>12, <1>13

LEMMA EncodeIs ==
  ASSUME NEW d \in Seq(Byte)
  PROVE  /\ Len(d) \in Nat /\ Chars(Len(d)) \in Nat
         /\ Len(Encode(d)) = Chars(Len(d)) /\ DOMAIN Encode(d) = 1..Chars(Len(d))
         /\ \A n \in 0..(Chars(Len(d)) - 1) :
              Encode(d)[Chars(Len(d)) - n] = DigitAt(d, n)
         /\ \A k \in DOMAIN Encode(d) : Encode(d)[k] \in Nat
<1>1. Len(d) \in Nat
  OBVIOUS
<1>2. PICK len : len = Chars(Len(d))
  OBVIOUS
<1>3. len \in Nat
  BY <1>1, <1>2, Lengths
<1>4. PICK t : t = Encode(d)
  OBVIOUS
<1>5. t = [k \in 1..len |-> DigitAt(d, len - k)]
  BY <1>2, <1>4 DEF Encode
<1>6. Len(t) = len /\ DOMAIN t = 1..len
  BY <1>3, <1>5
<1>7. ASSUME NEW n \in 0..(len - 1)
      PROVE  t[len - n] = DigitAt(d, n)
  <2>1. len - n \in 1..len /\ len - (len - n) = n
    BY <1>3
  <2> QED
    BY <1>5, <2>1
<1>8. ASSUME NEW k \in 1..len
      PROVE  t[k] \in Nat
  <2>1. len - k \in 0..(len - 1)
    BY <1>3
  <2> QED
    BY <1>2, <1>5, <2>1, DigitIs
<1> QED
  BY <1>1, <1>2, <1>3, <1>4, <1>6, <1>7, <1>8

(* The text has the bits of the input, five a character from its end. *)
LEMMA EncodesBits ==
  ASSUME NEW d \in Seq(Byte)
  PROVE  IsEncoding(Encode(d), d)
<1>1. PICK len : len = Chars(Len(d))
  OBVIOUS
<1>2. Len(d) \in Nat /\ len \in Nat /\ Len(Encode(d)) = len
  BY <1>1, EncodeIs
<1>3. ASSUME NEW n \in 0..(len - 1), NEW j \in 0..4
      PROVE  Bit(Encode(d)[len - n], j) = InputBit(d, 5 * n + j)
  <2>1. PICK i, b : i = ByteOf(n) /\ b = BitOf(n)
    OBVIOUS
  <2>2. i \in 0..(Len(d) - 1) /\ b \in 0..7 /\ 5 * n = 8 * i + b /\ n \in Nat
    BY <1>1, <1>2, <2>1, Places
  <2>3. PICK x, y : x = d[i + 1] /\ y = Next8(d, i)
    OBVIOUS
  <2>4. x \in Byte /\ y \in Byte /\ Encode(d)[len - n] = Char(x, y, b)
    BY <1>1, <2>1, <2>3, DigitIs, EncodeIs
  <2>5. PICK k : k = 5 * n + j
    OBVIOUS
  <2>6. k = 8 * i + (b + j) /\ b + j \in 0..11
    BY <2>2, <2>5
  <2>7. CASE b + j < 8
    <3>1. k \div 8 = i /\ k % 8 = b + j /\ k < 8 * Len(d)
      BY <1>2, <2>2, <2>6, <2>7
    <3>2. InputBit(d, k) = Bit(x, b + j)
      BY <2>3, <3>1 DEF InputBit
    <3>3. Bit(Char(x, y, b), j) = Bit(x, b + j)
      BY <2>2, <2>4, <2>7, CharBits
    <3> QED
      BY <2>4, <2>5, <3>2, <3>3
  <2>8. CASE ~ (b + j < 8)
    <3>1. k \div 8 = i + 1 /\ k % 8 = b + j - 8 /\ b + j - 8 \in {0, 1, 2, 3}
      BY <1>2, <2>2, <2>6, <2>8
    <3>2. Bit(Char(x, y, b), j) = Bit(y, b + j - 8)
      BY <2>2, <2>4, <2>8, CharBits
    <3>3. CASE i + 1 < Len(d)
      <4>1. k < 8 * Len(d) /\ (i + 1) + 1 = i + 2
        BY <1>2, <2>2, <2>6, <3>3
      <4>2. InputBit(d, k) = Bit(d[i + 2], b + j - 8)
        BY <3>1, <4>1 DEF InputBit
      <4>3. y = d[i + 2]
        BY <2>3, <3>3 DEF Next8
      <4> QED
        BY <2>4, <2>5, <3>2, <4>2, <4>3
    <3>4. CASE ~ (i + 1 < Len(d))
      <4>1. ~ (k < 8 * Len(d))
        BY <1>2, <2>2, <2>6, <2>8, <3>4
      <4>2. InputBit(d, k) = 0
        BY <4>1 DEF InputBit
      <4>3. y = 0 /\ 0 \in Nat
        BY <2>3, <3>4 DEF Next8
      <4>4. Bit(0, 0) = 0 /\ Bit(0, 1) = 0 /\ Bit(0, 2) = 0 /\ Bit(0, 3) = 0
        BY <4>3, Bits
      <4>5. Bit(y, b + j - 8) = 0
        BY <3>1, <4>3, <4>4
      <4> QED
        BY <2>4, <2>5, <3>2, <4>2, <4>5
    <3> QED
      BY <3>3, <3>4
  <2> QED
    BY <2>7, <2>8
<1> QED
  BY <1>1, <1>2, <1>3 DEF IsEncoding

-----------------------------------------------------------------------------
(* The decoding.  What character n of text t adds to byte i, and the sum of *)
(* it over sets of characters, as MapThenSumSet takes it.                  *)
CharsOf(t) == 0..(Len(t) - 1)
Weight(t, i, n) == Contribution(n, t[Len(t) - n], i, ByteCount(Len(t)))
Pick(S) == CHOOSE n \in S : TRUE
Summed(t, i, S, f) == IF S = {} THEN 0 ELSE Weight(t, i, Pick(S)) + f[S \ {Pick(S)}]
Sums(t, i) == CHOOSE f : f = [S \in SUBSET CharsOf(t) |-> Summed(t, i, S, f)]

LEMMA DecodeIsSum ==
  ASSUME NEW t, ~ \E j \in DOMAIN t : t[j] = BadChar
  PROVE  Decode(t) = <<[i \in 1..ByteCount(Len(t)) |-> Sums(t, i - 1)[CharsOf(t)]]>>
BY Zenon DEF Decode, MapThenSumSet, MapThenFoldSet, Sums, Summed, Pick, Weight, CharsOf

LEMMA LeastPlaces ==
  ASSUME NEW k \in Nat, NEW T \in SUBSET SUBSET (0..(k - 1)), T # {}
  PROVE  \E S \in T : \A x \in S : S \ {x} \notin T
<1>1. \A S \in T : IsFiniteSet(S) /\ Cardinality(S) \in Nat
  <2>1. IsFiniteSet(0..(k - 1))
    BY FS_Interval
  <2> QED
    BY <2>1, FS_Subset, FS_CardinalityType
<1> DEFINE C == {Cardinality(S) : S \in T}
<1>2. C \in SUBSET Nat /\ C # {}
  BY <1>1
<1>3. PICK n \in C : \A m \in C : n <= m
  <2> HIDE DEF C
  <2> QED
    BY <1>2, LeastNumber
<1>4. PICK S \in T : Cardinality(S) = n
  BY <1>3
<1>5. ASSUME NEW x \in S, S \ {x} \in T
      PROVE  FALSE
  <2>1. Cardinality(S \ {x}) = n - 1
    BY <1>1, <1>4, FS_RemoveElement
  <2>2. n <= n - 1 /\ n \in Nat
    BY <1>1, <1>3, <1>4, <1>5, <2>1
  <2> QED
    BY <2>2
<1> QED
  BY <1>4, <1>5

(* There is such a function: it is built up from the smaller sets. *)
LEMMA SumsExist ==
  ASSUME NEW t, NEW i, Len(t) \in Nat
  PROVE  Sums(t, i) = [S \in SUBSET CharsOf(t) |-> Summed(t, i, S, Sums(t, i))]
<1> DEFINE P == CharsOf(t)
           Small(n) == {S \in SUBSET P : Cardinality(S) <= n}
           Is(f, n) == f = [S \in Small(n) |-> Summed(t, i, S, f)]
           Bad == {n \in Nat : ~\E f : Is(f, n)}
<1>0. IsFiniteSet(P)
  BY FS_Interval DEF CharsOf
<1>1. \A S \in SUBSET P : IsFiniteSet(S) /\ Cardinality(S) \in Nat
  BY <1>0, FS_Subset, FS_CardinalityType
<1>2. Bad = {}
  <2> SUFFICES ASSUME Bad # {} PROVE FALSE
    OBVIOUS
  <2>1. PICK n \in Bad : \A m \in Bad : n <= m
    <3>1. Bad \in SUBSET Nat
      OBVIOUS
    <3> HIDE DEF Bad
    <3> QED
      BY <3>1, LeastNumber
  <2>2. n \in Nat /\ ~\E f : Is(f, n)
    BY <2>1
  <2>3. CASE n = 0
    <3> DEFINE f == [S \in Small(0) |-> 0]
    <3>1. ASSUME NEW S \in Small(0)
          PROVE  S = {}
      BY <1>1, FS_EmptySet
    <3>2. f = [S \in Small(0) |-> Summed(t, i, S, f)]
      BY <3>1 DEF Summed
    <3> QED
      BY <2>2, <2>3, <3>2
  <2>4. CASE n # 0
    <3>0. n - 1 \in Nat /\ ~ (n <= n - 1)
      BY <2>2, <2>4
    <3>1. n - 1 \in Nat /\ n - 1 \notin Bad
      <4> HIDE DEF Bad
      <4> QED
        BY <2>1, <3>0
    <3>2. PICK g : Is(g, n - 1)
      BY <3>1
    <3> DEFINE f == [S \in Small(n) |-> Summed(t, i, S, g)]
    <3>3. ASSUME NEW S \in Small(n)
          PROVE  Summed(t, i, S, g) = Summed(t, i, S, f)
      <4>1. CASE S = {}
        BY <4>1 DEF Summed
      <4>2. CASE S # {}
        <5> DEFINE R == S \ {Pick(S)}
        <5>1. Pick(S) \in S
          BY <4>2 DEF Pick
        <5>2. IsFiniteSet(S) /\ Cardinality(S) \in Nat /\ Cardinality(S) <= n
          BY <1>1
        <5>3. R \in SUBSET P /\ Cardinality(R) = Cardinality(S) - 1
          BY <5>1, <5>2, FS_RemoveElement
        <5>4. R \in Small(n - 1) /\ R \in Small(n)
          BY <2>2, <5>2, <5>3
        <5>5. g[R] = Summed(t, i, R, g)
          <6> HIDE DEF Small, R
          <6> QED
            BY <3>2, <5>4
        <5>6. f[R] = Summed(t, i, R, g)
          <6> HIDE DEF Small, R
          <6> QED
            BY <5>4
        <5> QED
          BY <4>2, <5>5, <5>6 DEF Summed
      <4> QED
        BY <4>1, <4>2
    <3>4. f = [S \in Small(n) |-> Summed(t, i, S, f)]
      BY <3>3
    <3> QED
      BY <2>2, <3>4
  <2> QED
    BY <2>3, <2>4
<1>3. PICK f : Is(f, Cardinality(P))
  BY <1>1, <1>2
<1>4. Small(Cardinality(P)) = SUBSET P
  <2>1. \A S \in SUBSET P : Cardinality(S) <= Cardinality(P)
    BY <1>0, FS_Subset
  <2> QED
    BY <2>1
<1>5. f = [S \in SUBSET P |-> Summed(t, i, S, f)]
  BY <1>3, <1>4
<1> QED
  BY <1>5 DEF Sums

LEMMA SumStep ==
  ASSUME NEW t, NEW i, Len(t) \in Nat, NEW S \in SUBSET CharsOf(t)
  PROVE  Sums(t, i)[S] = Summed(t, i, S, Sums(t, i))
<1> DEFINE g == Sums(t, i)
<1>1. g = [T \in SUBSET CharsOf(t) |-> Summed(t, i, T, g)]
  BY SumsExist
<1> HIDE DEF g
<1>2. g[S] = Summed(t, i, S, g)
  BY <1>1
<1> QED
  BY <1>2 DEF g

(* A sum to which three places at most add. *)
Term(t, i, S, n) == IF n \in S THEN Weight(t, i, n) ELSE 0
Three(t, i, S, m) == Term(t, i, S, m) + Term(t, i, S, m + 1) + Term(t, i, S, m + 2)

LEMMA SumOfThree ==
  ASSUME NEW t, NEW i, Len(t) \in Nat, NEW m \in Nat,
         \A n \in CharsOf(t) : Weight(t, i, n) \in Nat,
         \A n \in CharsOf(t) : n \notin {m, m + 1, m + 2} => Weight(t, i, n) = 0
  PROVE  Sums(t, i)[CharsOf(t)] = Three(t, i, CharsOf(t), m)
<1> DEFINE T == {S \in SUBSET CharsOf(t) : Sums(t, i)[S] # Three(t, i, S, m)}
<1> SUFFICES ASSUME T # {} PROVE FALSE
  OBVIOUS
<1>1. PICK S \in T : \A x \in S : S \ {x} \notin T
  <2>1. T \in SUBSET SUBSET (0..(Len(t) - 1))
    BY DEF CharsOf
  <2> HIDE DEF T
  <2> QED
    BY <2>1, LeastPlaces
<1>2. S \in SUBSET CharsOf(t) /\ Sums(t, i)[S] # Three(t, i, S, m)
  OBVIOUS
<1>3. Sums(t, i)[S] = Summed(t, i, S, Sums(t, i))
  BY <1>2, SumStep
<1>4. CASE S = {}
  <2>1. Three(t, i, S, m) = 0
    BY <1>4 DEF Three, Term
  <2> QED
    BY <1>2, <1>3, <1>4, <2>1 DEF Summed
<1>5. CASE S # {}
  <2>1. PICK x : x = Pick(S)
    OBVIOUS
  <2>2. PICK R : R = S \ {x}
    OBVIOUS
  <2>3. x \in S /\ x \in CharsOf(t) /\ x \in Nat
    <3>1. x \in S
      BY <1>5, <2>1 DEF Pick
    <3> QED
      BY <1>2, <3>1 DEF CharsOf
  <2>4. R \in SUBSET CharsOf(t) /\ R \notin T
    <3> HIDE DEF T
    <3> QED
      BY <1>1, <1>2, <2>2, <2>3
  <2>5. Sums(t, i)[R] = Three(t, i, R, m)
    BY <2>4
  <2>6. Sums(t, i)[S] = Weight(t, i, x) + Three(t, i, R, m)
    BY <1>3, <1>5, <2>1, <2>2, <2>5 DEF Summed
  <2>7. \A n : Term(t, i, S, n) \in Nat /\ Term(t, i, R, n) \in Nat
    BY <1>2, <2>4 DEF Term
  <2>8. \A n : n # x => Term(t, i, R, n) = Term(t, i, S, n)
    BY <2>2 DEF Term
  <2>9. Term(t, i, R, x) = 0 /\ Term(t, i, S, x) = Weight(t, i, x)
    BY <2>2, <2>3 DEF Term
  <2>10. Weight(t, i, x) \in Nat /\ (x \notin {m, m + 1, m + 2} => Weight(t, i, x) = 0)
    BY <2>3
  <2>11. Three(t, i, S, m) = Weight(t, i, x) + Three(t, i, R, m)
    <3>1. PICK s0, s1, s2 : /\ s0 = Term(t, i, S, m) /\ s1 = Term(t, i, S, m + 1)
                            /\ s2 = Term(t, i, S, m + 2)
      OBVIOUS
    <3>2. PICK r0, r1, r2 : /\ r0 = Term(t, i, R, m) /\ r1 = Term(t, i, R, m + 1)
                            /\ r2 = Term(t, i, R, m + 2)
      OBVIOUS
    <3>3. PICK w : w = Weight(t, i, x)
      OBVIOUS
    <3>4. /\ s0 \in Nat /\ s1 \in Nat /\ s2 \in Nat /\ w \in Nat
          /\ r0 \in Nat /\ r1 \in Nat /\ r2 \in Nat
      BY <2>7, <2>10, <3>1, <3>2, <3>3
    <3>5. /\ IF x = m THEN r0 = 0 /\ s0 = w ELSE r0 = s0
          /\ IF x = m + 1 THEN r1 = 0 /\ s1 = w ELSE r1 = s1
          /\ IF x = m + 2 THEN r2 = 0 /\ s2 = w ELSE r2 = s2
      BY <2>8, <2>9, <3>1, <3>2, <3>3
    <3>6. x \notin {m, m + 1, m + 2} => w = 0
      BY <2>10, <3>3
    <3>7. s0 + s1 + s2 = w + (r0 + r1 + r2)
      BY <2>3, <3>4, <3>5, <3>6
    <3> QED
      BY <3>1, <3>2, <3>3, <3>7 DEF Three
  <2> QED
    BY <1>2, <2>6, <2>11
<1> QED
  BY <1>4, <1>5

(* Where the characters about byte 5q begin. *)
LEMMA Starts ==
  ASSUME NEW q \in Nat
  PROVE  /\ ByteOf(8 * q) = 5 * q /\ BitOf(8 * q) = 0
         /\ ByteOf(8 * q + 1) = 5 * q /\ BitOf(8 * q + 1) = 5
         /\ ByteOf(8 * q + 2) = 5 * q + 1 /\ BitOf(8 * q + 2) = 2
         /\ ByteOf(8 * q + 3) = 5 * q + 1 /\ BitOf(8 * q + 3) = 7
         /\ ByteOf(8 * q + 4) = 5 * q + 2 /\ BitOf(8 * q + 4) = 4
         /\ ByteOf(8 * q + 5) = 5 * q + 3 /\ BitOf(8 * q + 5) = 1
         /\ ByteOf(8 * q + 6) = 5 * q + 3 /\ BitOf(8 * q + 6) = 6
         /\ ByteOf(8 * q + 7) = 5 * q + 4 /\ BitOf(8 * q + 7) = 3
         /\ ByteOf(8 * q + 8) = 5 * q + 5 /\ BitOf(8 * q + 8) = 0
BY DEF ByteOf, BitOf

(* What the characters of an encoded text add to byte i. *)
LEMMA EncodedWeight ==
  ASSUME NEW d \in Seq(Byte), NEW i \in 0..(Len(d) - 1), NEW n \in CharsOf(Encode(d))
  PROVE  /\ ByteOf(n) = i =>
              Weight(Encode(d), i, n) = Shl(Char(d[i + 1], Next8(d, i), BitOf(n)), BitOf(n))
         /\ (ByteOf(n) + 1 = i /\ BitOf(n) > 3) =>
              Weight(Encode(d), i, n) = Shr(Char(d[i], d[i + 1], BitOf(n)), 8 - BitOf(n))
         /\ (ByteOf(n) # i /\ ~ (ByteOf(n) + 1 = i /\ BitOf(n) > 3)) =>
              Weight(Encode(d), i, n) = 0
         /\ Weight(Encode(d), i, n) \in Nat
<1>1. PICK t, len, j, b : /\ t = Encode(d) /\ len = Len(d)
                          /\ j = ByteOf(n) /\ b = BitOf(n)
  OBVIOUS
<1>2. /\ len \in Nat /\ Len(t) = Chars(len) /\ Chars(len) \in Nat
      /\ ByteCount(Len(t)) = len
  BY <1>1, EncodeIs, Lengths
<1>3. n \in 0..(Chars(len) - 1)
  BY <1>1, <1>2 DEF CharsOf
<1>4. j \in 0..(len - 1) /\ b \in 0..7
  BY <1>1, <1>2, <1>3, Places
<1>5. PICK c : c = Char(d[j + 1], Next8(d, j), b)
  OBVIOUS
<1>6. t[Len(t) - n] = c /\ c \in Nat
  BY <1>1, <1>2, <1>3, <1>5, DigitIs, EncodeIs
<1>7. PICK low, high : low = Shl(c, b) /\ high = Shr(c, 8 - b)
  OBVIOUS
<1>8. low \in Nat
  <2>1. b \in {0, 1, 2, 3, 4, 5, 6, 7}
    BY <1>4
  <2> QED
    BY <1>6, <1>7, <2>1, ShiftTypes
<1>9. b > 3 => high \in Nat
  <2>1. b > 3 => 8 - b \in {0, 1, 2, 3, 4, 5, 6, 7}
    BY <1>4
  <2> QED
    BY <1>6, <1>7, <2>1, ShiftTypes
<1>10. i < len /\ i \in Nat
  BY <1>1, <1>2
<1>11. PICK w : w = Weight(t, i, n)
  OBVIOUS
<1>12. w = (IF j = i THEN low ELSE 0) + (IF b > 3 /\ j + 1 = i THEN high ELSE 0)
  BY <1>1, <1>2, <1>6, <1>7, <1>10, <1>11 DEF Weight, Contribution
<1>13. j = i => w = low
  BY <1>4, <1>8, <1>10, <1>12
<1>14. (j + 1 = i /\ b > 3) => w = high
  BY <1>4, <1>9, <1>10, <1>12
<1>15. (j # i /\ ~ (j + 1 = i /\ b > 3)) => w = 0
  BY <1>12
<1>16. w \in Nat
  BY <1>8, <1>9, <1>12, <1>13, <1>14, <1>15
<1>17. j + 1 = i => Next8(d, j) = d[i + 1] /\ j + 1 = i
  BY <1>1, <1>4, <1>10 DEF Next8
<1>18. j = i => low = Shl(Char(d[i + 1], Next8(d, i), b), b)
  BY <1>5, <1>7
<1>19. j + 1 = i => high = Shr(Char(d[i], d[i + 1], b), 8 - b)
  BY <1>5, <1>7, <1>17
<1> QED
  BY <1>1, <1>11, <1>13, <1>14, <1>15, <1>16, <1>18, <1>19

(* The three characters that can hold bits of byte i, and no other. *)
LEMMA ThreeHold ==
  ASSUME NEW d \in Seq(Byte), NEW i \in 0..(Len(d) - 1), NEW n \in CharsOf(Encode(d)),
         NEW m \in Nat, 5 * m <= 8 * i, 8 * i < 5 * m + 5, n \notin {m, m + 1, m + 2}
  PROVE  Weight(Encode(d), i, n) = 0
<1>1. PICK j, b, len : j = ByteOf(n) /\ b = BitOf(n) /\ len = Len(d)
  OBVIOUS
<1>2. len \in Nat /\ n \in 0..(Chars(len) - 1)
  BY <1>1, EncodeIs DEF CharsOf
<1>3. j \in Nat /\ b \in 0..7 /\ 5 * n = 8 * j + b /\ n \in Nat
  <2>1. Chars(len) \in Nat
    BY <1>2, Lengths
  <2>2. j \in 0..(len - 1) /\ b \in 0..7 /\ 5 * n = 8 * j + b
    BY <1>1, <1>2, Places
  <2> QED
    BY <1>2, <2>1, <2>2
<1>4. i \in Nat
  OBVIOUS
<1>5. n < m \/ n > m + 2
  BY <1>3
<1>6. j # i /\ ~ (j + 1 = i /\ b > 3)
  BY <1>3, <1>4, <1>5
<1> QED
  BY <1>1, <1>6, EncodedWeight

(* The text has a character for every five bits that begin in the input. *)
LEMMA CharHeld ==
  ASSUME NEW d \in Seq(Byte), NEW n \in Nat
  PROVE  n \in CharsOf(Encode(d)) <=> 5 * n < 8 * Len(d)
<1>1. PICK len : len = Len(d)
  OBVIOUS
<1>2. len \in Nat /\ Len(Encode(d)) = Chars(len)
  BY <1>1, EncodeIs
<1>3. n \in 0..(Chars(len) - 1) <=> 5 * n < 8 * len
  BY <1>2 DEF Chars
<1> QED
  BY <1>1, <1>2, <1>3 DEF CharsOf

(* The halves of a byte, at any bit. *)
LEMMA Halves ==
  ASSUME NEW x \in Byte
  PROVE  /\ (x % 32) + 32 * (x \div 32) = x
         /\ (x % 4) + 4 * ((x \div 4) % 32) + 128 * (x \div 128) = x
         /\ (x % 16) + 16 * (x \div 16) = x
         /\ (x % 2) + 2 * ((x \div 2) % 32) + 64 * (x \div 64) = x
         /\ (x % 8) + 8 * ((x \div 8) % 32) = x
<1>1. x \in 0..255
  BY DEF Byte
<1>2. (x % 32) + 32 * (x \div 32) = x
  BY <1>1
<1>3. (x % 4) + 4 * ((x \div 4) % 32) + 128 * (x \div 128) = x
  BY <1>1, SMTT(60)
<1>4. (x % 16) + 16 * (x \div 16) = x
  BY <1>1
<1>5. (x % 2) + 2 * ((x \div 2) % 32) + 64 * (x \div 64) = x
  BY <1>1, SMTT(60)
<1>6. (x % 8) + 8 * ((x \div 8) % 32) = x
  BY <1>1, SMTT(60)
<1> QED
  BY <1>2, <1>3, <1>4, <1>5, <1>6

LEMMA DecodedByte ==
  ASSUME NEW d \in Seq(Byte), NEW i \in 0..(Len(d) - 1)
  PROVE  Sums(Encode(d), i)[CharsOf(Encode(d))] = d[i + 1]
<1> DEFINE t == Encode(d)
           C == CharsOf(t)
           W(n) == Weight(t, i, n)
<1>1. PICK x, y, p : x = d[i + 1] /\ y = Next8(d, i) /\ p = d[i]
  OBVIOUS
<1>2. Len(d) \in Nat /\ i \in Nat /\ i < Len(d) /\ Len(t) \in Nat
  BY EncodeIs
<1>3. x \in Byte /\ y \in Byte
  <2>1. i + 1 \in 1..Len(d)
    BY <1>2
  <2>2. x \in Byte
    BY <1>1, <2>1
  <2>3. CASE i + 1 < Len(d)
    <3>1. i + 2 \in 1..Len(d)
      BY <1>2, <2>3
    <3> QED
      BY <1>1, <2>2, <2>3, <3>1 DEF Next8
  <2>4. CASE ~ (i + 1 < Len(d))
    BY <1>1, <2>2, <2>4 DEF Next8, Byte
  <2> QED
    BY <2>3, <2>4
<1>4. i # 0 => p \in Byte
  <2>1. i # 0 => i \in 1..Len(d)
    BY <1>2
  <2> QED
    BY <1>1, <2>1
<1>5. PICK q \in Nat, r \in {0, 1, 2, 3, 4} : i = 5 * q + r
  <2>1. PICK q, r : q = i \div 5 /\ r = i % 5
    OBVIOUS
  <2>2. q \in Nat
    BY <1>2, <2>1
  <2>3. r \in {0, 1, 2, 3, 4}
    BY <1>2, <2>1
  <2>4. i = 5 * q + r
    BY <1>2, <2>1
  <2> QED
    BY <2>2, <2>3, <2>4
<1>6. ASSUME NEW n \in Nat
      PROVE  n \in C <=> 5 * n < 8 * Len(d)
  BY CharHeld
<1>7. \A n \in C : W(n) \in Nat
  BY EncodedWeight
<1>8. ASSUME NEW m \in Nat, 5 * m <= 8 * i, 8 * i < 5 * m + 5
      PROVE  Sums(t, i)[C] = Three(t, i, C, m)
  <2>1. \A n \in C : n \notin {m, m + 1, m + 2} => W(n) = 0
    BY <1>8, ThreeHold
  <2> HIDE DEF t
  <2> QED
    BY <1>2, <1>7, <2>1, SumOfThree
<1>9. ASSUME NEW n \in Nat, n \in C, ByteOf(n) = i
      PROVE  Term(t, i, C, n) = Shl(Char(x, y, BitOf(n)), BitOf(n))
  BY <1>1, <1>9, EncodedWeight DEF Term
<1>10. ASSUME NEW n \in Nat, n \in C, ByteOf(n) + 1 = i, BitOf(n) > 3
       PROVE  Term(t, i, C, n) = Shr(Char(p, x, BitOf(n)), 8 - BitOf(n))
  BY <1>1, <1>10, EncodedWeight DEF Term
<1>11. ASSUME NEW n \in Nat, ByteOf(n) = i + 1
       PROVE  Term(t, i, C, n) = 0
  BY <1>2, <1>11, EncodedWeight DEF Term
<1>12. x \in Nat
  BY <1>3 DEF Byte
<1> HIDE DEF t, C, W
<1>13. ASSUME r = 0
       PROVE  Sums(t, i)[C] = x
  <2>1. PICK m : m = 8 * q
    OBVIOUS
  <2>2. m \in Nat /\ i = 5 * q + 0
    BY <1>5, <1>13, <2>1
  <2>3. Sums(t, i)[C] = Three(t, i, C, m)
    <3>1. 5 * m <= 8 * i /\ 8 * i < 5 * m + 5
      BY <2>1, <2>2
    <3> QED
      BY <1>8, <2>2, <3>1
  <2>4. Term(t, i, C, m) = (x % 32)
    <3>1. PICK n \in Nat : n = 8 * q
      OBVIOUS
    <3>2. ByteOf(n) = 5 * q /\ BitOf(n) = 0
      BY <3>1, Starts
    <3>3. ByteOf(n) = i /\ n = m /\ 5 * n < 8 * Len(d)
      BY <1>2, <2>1, <2>2, <3>1, <3>2
    <3>4. n \in C
      BY <1>6, <3>3
    <3>5. Term(t, i, C, n) = Shl(Char(x, y, 0), 0)
      BY <1>9, <3>2, <3>3, <3>4
    <3>6. Shl(Char(x, y, 0), 0) = (x % 32)
      BY <1>3, CharAdds
    <3> QED
      BY <3>3, <3>5, <3>6, Zenon
  <2>5. Term(t, i, C, m + 1) = 32 * (x \div 32)
    <3>1. PICK n \in Nat : n = 8 * q + 1
      OBVIOUS
    <3>2. ByteOf(n) = 5 * q /\ BitOf(n) = 5
      BY <3>1, Starts
    <3>3. ByteOf(n) = i /\ n = m + 1 /\ 5 * n < 8 * Len(d)
      BY <1>2, <2>1, <2>2, <3>1, <3>2
    <3>4. n \in C
      BY <1>6, <3>3
    <3>5. Term(t, i, C, n) = Shl(Char(x, y, 5), 5)
      BY <1>9, <3>2, <3>3, <3>4
    <3>6. Shl(Char(x, y, 5), 5) = 32 * (x \div 32)
      BY <1>3, CharAdds
    <3> QED
      BY <3>3, <3>5, <3>6, Zenon
  <2>6. Term(t, i, C, m + 2) = 0
    <3>1. PICK n \in Nat : n = 8 * q + 2
      OBVIOUS
    <3>2. ByteOf(n) = 5 * q + 1
      BY <3>1, Starts
    <3>3. ByteOf(n) = i + 1 /\ n = m + 2
      BY <2>1, <2>2, <3>1, <3>2
    <3> QED
      BY <1>11, <3>3
  <2>7. Three(t, i, C, m) = (x % 32) + 32 * (x \div 32) + 0
    BY <2>4, <2>5, <2>6, Zenon DEF Three
  <2>8. (x % 32) + 32 * (x \div 32) + 0 = x
    BY <1>12, <1>3, Halves
  <2> QED
    BY <2>3, <2>7, <2>8, Zenon
<1>14. ASSUME r = 1
       PROVE  Sums(t, i)[C] = x
  <2>1. PICK m : m = 8 * q + 1
    OBVIOUS
  <2>2. m \in Nat /\ i = 5 * q + 1
    BY <1>5, <1>14, <2>1
  <2>3. Sums(t, i)[C] = Three(t, i, C, m)
    <3>1. 5 * m <= 8 * i /\ 8 * i < 5 * m + 5
      BY <2>1, <2>2
    <3> QED
      BY <1>8, <2>2, <3>1
  <2>4. Term(t, i, C, m) = (x % 4)
    <3>1. PICK n \in Nat : n = 8 * q + 1
      OBVIOUS
    <3>2. ByteOf(n) = 5 * q /\ BitOf(n) = 5
      BY <3>1, Starts
    <3>3. ByteOf(n) + 1 = i /\ n = m /\ 5 * n < 8 * Len(d)
      BY <1>2, <2>1, <2>2, <3>1, <3>2
    <3>4. n \in C
      BY <1>6, <3>3
    <3>5. Term(t, i, C, n) = Shr(Char(p, x, 5), 3)
      <4>1. BitOf(n) > 3 /\ 8 - BitOf(n) = 3
        BY <3>2
      <4> QED
        BY <1>10, <3>2, <3>3, <3>4, <4>1
    <3>6. p \in Byte
      BY <1>4, <2>2
    <3>7. Shr(Char(p, x, 5), 3) = (x % 4)
      BY <1>3, <3>6, CharAdds
    <3> QED
      BY <3>3, <3>5, <3>7, Zenon
  <2>5. Term(t, i, C, m + 1) = 4 * ((x \div 4) % 32)
    <3>1. PICK n \in Nat : n = 8 * q + 2
      OBVIOUS
    <3>2. ByteOf(n) = 5 * q + 1 /\ BitOf(n) = 2
      BY <3>1, Starts
    <3>3. ByteOf(n) = i /\ n = m + 1 /\ 5 * n < 8 * Len(d)
      BY <1>2, <2>1, <2>2, <3>1, <3>2
    <3>4. n \in C
      BY <1>6, <3>3
    <3>5. Term(t, i, C, n) = Shl(Char(x, y, 2), 2)
      BY <1>9, <3>2, <3>3, <3>4
    <3>6. Shl(Char(x, y, 2), 2) = 4 * ((x \div 4) % 32)
      BY <1>3, CharAdds
    <3> QED
      BY <3>3, <3>5, <3>6, Zenon
  <2>6. Term(t, i, C, m + 2) = 128 * (x \div 128)
    <3>1. PICK n \in Nat : n = 8 * q + 3
      OBVIOUS
    <3>2. ByteOf(n) = 5 * q + 1 /\ BitOf(n) = 7
      BY <3>1, Starts
    <3>3. ByteOf(n) = i /\ n = m + 2 /\ 5 * n < 8 * Len(d)
      BY <1>2, <2>1, <2>2, <3>1, <3>2
    <3>4. n \in C
      BY <1>6, <3>3
    <3>5. Term(t, i, C, n) = Shl(Char(x, y, 7), 7)
      BY <1>9, <3>2, <3>3, <3>4
    <3>6. Shl(Char(x, y, 7), 7) = 128 * (x \div 128)
      BY <1>3, CharAdds
    <3> QED
      BY <3>3, <3>5, <3>6, Zenon
  <2>7. Three(t, i, C, m) = (x % 4) + 4 * ((x \div 4) % 32) + 128 * (x \div 128)
    BY <2>4, <2>5, <2>6, Zenon DEF Three
  <2>8. (x % 4) + 4 * ((x \div 4) % 32) + 128 * (x \div 128) = x
    BY <1>12, <1>3, Halves
  <2> QED
    BY <2>3, <2>7, <2>8, Zenon
<1>15. ASSUME r = 2
       PROVE  Sums(t, i)[C] = x
  <2>1. PICK m : m = 8 * q + 3
    OBVIOUS
  <2>2. m \in Nat /\ i = 5 * q + 2
    BY <1>5, <1>15, <2>1
  <2>3. Sums(t, i)[C] = Three(t, i, C, m)
    <3>1. 5 * m <= 8 * i /\ 8 * i < 5 * m + 5
      BY <2>1, <2>2
    <3> QED
      BY <1>8, <2>2, <3>1
  <2>4. Term(t, i, C, m) = (x % 16)
    <3>1. PICK n \in Nat : n = 8 * q + 3
      OBVIOUS
    <3>2. ByteOf(n) = 5 * q + 1 /\ BitOf(n) = 7
      BY <3>1, Starts
    <3>3. ByteOf(n) + 1 = i /\ n = m /\ 5 * n < 8 * Len(d)
      BY <1>2, <2>1, <2>2, <3>1, <3>2
    <3>4. n \in C
      BY <1>6, <3>3
    <3>5. Term(t, i, C, n) = Shr(Char(p, x, 7), 1)
      <4>1. BitOf(n) > 3 /\ 8 - BitOf(n) = 1
        BY <3>2
      <4> QED
        BY <1>10, <3>2, <3>3, <3>4, <4>1
    <3>6. p \in Byte
      BY <1>4, <2>2
    <3>7. Shr(Char(p, x, 7), 1) = (x % 16)
      BY <1>3, <3>6, CharAdds
    <3> QED
      BY <3>3, <3>5, <3>7, Zenon
  <2>5. Term(t, i, C, m + 1) = 16 * (x \div 16)
    <3>1. PICK n \in Nat : n = 8 * q + 4
      OBVIOUS
    <3>2. ByteOf(n) = 5 * q + 2 /\ BitOf(n) = 4
      BY <3>1, Starts
    <3>3. ByteOf(n) = i /\ n = m + 1 /\ 5 * n < 8 * Len(d)
      BY <1>2, <2>1, <2>2, <3>1, <3>2
    <3>4. n \in C
      BY <1>6, <3>3
    <3>5. Term(t, i, C, n) = Shl(Char(x, y, 4), 4)
      BY <1>9, <3>2, <3>3, <3>4
    <3>6. Shl(Char(x, y, 4), 4) = 16 * (x \div 16)
      BY <1>3, CharAdds
    <3> QED
      BY <3>3, <3>5, <3>6, Zenon
  <2>6. Term(t, i, C, m + 2) = 0
    <3>1. PICK n \in Nat : n = 8 * q + 5
      OBVIOUS
    <3>2. ByteOf(n) = 5 * q + 3
      BY <3>1, Starts
    <3>3. ByteOf(n) = i + 1 /\ n = m + 2
      BY <2>1, <2>2, <3>1, <3>2
    <3> QED
      BY <1>11, <3>3
  <2>7. Three(t, i, C, m) = (x % 16) + 16 * (x \div 16) + 0
    BY <2>4, <2>5, <2>6, Zenon DEF Three
  <2>8. (x % 16) + 16 * (x \div 16) + 0 = x
    BY <1>12, <1>3, Halves
  <2> QED
    BY <2>3, <2>7, <2>8, Zenon
<1>16. ASSUME r = 3
       PROVE  Sums(t, i)[C] = x
  <2>1. PICK m : m = 8 * q + 4
    OBVIOUS
  <2>2. m \in Nat /\ i = 5 * q + 3
    BY <1>5, <1>16, <2>1
  <2>3. Sums(t, i)[C] = Three(t, i, C, m)
    <3>1. 5 * m <= 8 * i /\ 8 * i < 5 * m + 5
      BY <2>1, <2>2
    <3> QED
      BY <1>8, <2>2, <3>1
  <2>4. Term(t, i, C, m) = (x % 2)
    <3>1. PICK n \in Nat : n = 8 * q + 4
      OBVIOUS
    <3>2. ByteOf(n) = 5 * q + 2 /\ BitOf(n) = 4
      BY <3>1, Starts
    <3>3. ByteOf(n) + 1 = i /\ n = m /\ 5 * n < 8 * Len(d)
      BY <1>2, <2>1, <2>2, <3>1, <3>2
    <3>4. n \in C
      BY <1>6, <3>3
    <3>5. Term(t, i, C, n) = Shr(Char(p, x, 4), 4)
      <4>1. BitOf(n) > 3 /\ 8 - BitOf(n) = 4
        BY <3>2
      <4> QED
        BY <1>10, <3>2, <3>3, <3>4, <4>1
    <3>6. p \in Byte
      BY <1>4, <2>2
    <3>7. Shr(Char(p, x, 4), 4) = (x % 2)
      BY <1>3, <3>6, CharAdds
    <3> QED
      BY <3>3, <3>5, <3>7, Zenon
  <2>5. Term(t, i, C, m + 1) = 2 * ((x \div 2) % 32)
    <3>1. PICK n \in Nat : n = 8 * q + 5
      OBVIOUS
    <3>2. ByteOf(n) = 5 * q + 3 /\ BitOf(n) = 1
      BY <3>1, Starts
    <3>3. ByteOf(n) = i /\ n = m + 1 /\ 5 * n < 8 * Len(d)
      BY <1>2, <2>1, <2>2, <3>1, <3>2
    <3>4. n \in C
      BY <1>6, <3>3
    <3>5. Term(t, i, C, n) = Shl(Char(x, y, 1), 1)
      BY <1>9, <3>2, <3>3, <3>4
    <3>6. Shl(Char(x, y, 1), 1) = 2 * ((x \div 2) % 32)
      BY <1>3, CharAdds
    <3> QED
      BY <3>3, <3>5, <3>6, Zenon
  <2>6. Term(t, i, C, m + 2) = 64 * (x \div 64)
    <3>1. PICK n \in Nat : n = 8 * q + 6
      OBVIOUS
    <3>2. ByteOf(n) = 5 * q + 3 /\ BitOf(n) = 6
      BY <3>1, Starts
    <3>3. ByteOf(n) = i /\ n = m + 2 /\ 5 * n < 8 * Len(d)
      BY <1>2, <2>1, <2>2, <3>1, <3>2
    <3>4. n \in C
      BY <1>6, <3>3
    <3>5. Term(t, i, C, n) = Shl(Char(x, y, 6), 6)
      BY <1>9, <3>2, <3>3, <3>4
    <3>6. Shl(Char(x, y, 6), 6) = 64 * (x \div 64)
      BY <1>3, CharAdds
    <3> QED
      BY <3>3, <3>5, <3>6, Zenon
  <2>7. Three(t, i, C, m) = (x % 2) + 2 * ((x \div 2) % 32) + 64 * (x \div 64)
    BY <2>4, <2>5, <2>6, Zenon DEF Three
  <2>8. (x % 2) + 2 * ((x \div 2) % 32) + 64 * (x \div 64) = x
    BY <1>12, <1>3, Halves
  <2> QED
    BY <2>3, <2>7, <2>8, Zenon
<1>17. ASSUME r = 4
       PROVE  Sums(t, i)[C] = x
  <2>1. PICK m : m = 8 * q + 6
    OBVIOUS
  <2>2. m \in Nat /\ i = 5 * q + 4
    BY <1>5, <1>17, <2>1
  <2>3. Sums(t, i)[C] = Three(t, i, C, m)
    <3>1. 5 * m <= 8 * i /\ 8 * i < 5 * m + 5
      BY <2>1, <2>2
    <3> QED
      BY <1>8, <2>2, <3>1
  <2>4. Term(t, i, C, m) = (x % 8)
    <3>1. PICK n \in Nat : n = 8 * q + 6
      OBVIOUS
    <3>2. ByteOf(n) = 5 * q + 3 /\ BitOf(n) = 6
      BY <3>1, Starts
    <3>3. ByteOf(n) + 1 = i /\ n = m /\ 5 * n < 8 * Len(d)
      BY <1>2, <2>1, <2>2, <3>1, <3>2
    <3>4. n \in C
      BY <1>6, <3>3
    <3>5. Term(t, i, C, n) = Shr(Char(p, x, 6), 2)
      <4>1. BitOf(n) > 3 /\ 8 - BitOf(n) = 2
        BY <3>2
      <4> QED
        BY <1>10, <3>2, <3>3, <3>4, <4>1
    <3>6. p \in Byte
      BY <1>4, <2>2
    <3>7. Shr(Char(p, x, 6), 2) = (x % 8)
      BY <1>3, <3>6, CharAdds
    <3> QED
      BY <3>3, <3>5, <3>7, Zenon
  <2>5. Term(t, i, C, m + 1) = 8 * ((x \div 8) % 32)
    <3>1. PICK n \in Nat : n = 8 * q + 7
      OBVIOUS
    <3>2. ByteOf(n) = 5 * q + 4 /\ BitOf(n) = 3
      BY <3>1, Starts
    <3>3. ByteOf(n) = i /\ n = m + 1 /\ 5 * n < 8 * Len(d)
      BY <1>2, <2>1, <2>2, <3>1, <3>2
    <3>4. n \in C
      BY <1>6, <3>3
    <3>5. Term(t, i, C, n) = Shl(Char(x, y, 3), 3)
      BY <1>9, <3>2, <3>3, <3>4
    <3>6. Shl(Char(x, y, 3), 3) = 8 * ((x \div 8) % 32)
      BY <1>3, CharAdds
    <3> QED
      BY <3>3, <3>5, <3>6, Zenon
  <2>6. Term(t, i, C, m + 2) = 0
    <3>1. PICK n \in Nat : n = 8 * q + 8
      OBVIOUS
    <3>2. ByteOf(n) = 5 * q + 5
      BY <3>1, Starts
    <3>3. ByteOf(n) = i + 1 /\ n = m + 2
      BY <2>1, <2>2, <3>1, <3>2
    <3> QED
      BY <1>11, <3>3
  <2>7. Three(t, i, C, m) = (x % 8) + 8 * ((x \div 8) % 32) + 0
    BY <2>4, <2>5, <2>6, Zenon DEF Three
  <2>8. (x % 8) + 8 * ((x \div 8) % 32) + 0 = x
    BY <1>12, <1>3, Halves
  <2> QED
    BY <2>3, <2>7, <2>8, Zenon
<1>18. Sums(t, i)[C] = x
  BY <1>5, <1>13, <1>14, <1>15, <1>16, <1>17
<1> QED
  BY <1>1, <1>18 DEF C, t

(* The text of any bytes decodes to them. *)
LEMMA Decodes ==
  ASSUME NEW d \in Seq(Byte)
  PROVE  Decode(Encode(d)) = <<d>>
<1>1. PICK t, len : t = Encode(d) /\ len = Len(d)
  OBVIOUS
<1>2. ByteCount(Len(t)) = len /\ len \in Nat
  BY <1>1, EncodeIs, Lengths
<1>3. ~ \E j \in DOMAIN t : t[j] = BadChar
  BY <1>1, EncodeIs, BadCharAssumption
<1>4. Decode(t) = <<[i \in 1..len |-> Sums(t, i - 1)[CharsOf(t)]]>>
  BY <1>2, <1>3, DecodeIsSum
<1>5. ASSUME NEW i \in 1..len
      PROVE  Sums(t, i - 1)[CharsOf(t)] = d[i]
  <2>1. i - 1 \in 0..(len - 1) /\ (i - 1) + 1 = i
    BY <1>2
  <2> QED
    BY <1>1, <2>1, DecodedByte
<1>6. d = [i \in 1..len |-> d[i]]
  BY <1>1
<1>7. [i \in 1..len |-> Sums(t, i - 1)[CharsOf(t)]] = d
  BY <1>5, <1>6
<1> QED
  BY <1>1, <1>4, <1>7

(* The text of a digest of any length has its bits, five a character from   *)
(* the end, and decodes to the digest (nix_base32::encode, decode).        *)
THEOREM EncodingInvertsHolds == Spec => []EncodingInverts
<1>1. SInv => EncodingInverts
  BY EncodesBits, Decodes DEF SInv, DigestOK, EncodingInverts
<1> QED
  BY <1>1, SInvAlways, PTL
=============================================================================
