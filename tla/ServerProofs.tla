---------------------------- MODULE ServerProofs ----------------------------
(***************************************************************************)
(* Theorems about Server, for any connections, paths and bounds: that no   *)
(* lookup and no NAR is lost, and which bytes may be.                      *)
(***************************************************************************)
EXTENDS Server, Integers, FiniteSetTheorems, TLAPS

(* While the stats task sleeps it has nothing left to swap.                *)
SleepsIdle == ~beat.on => beat = Sleeping

(* What is not yet swapped has not been taken: a swap overwrites nothing.  *)
LeftUntaken == \A k \in beat.left : beat.taken[k] = 0

SInv == TypeOK /\ SleepsIdle /\ LeftUntaken /\ CountsConserved

(* The initial states satisfy the invariant. *)
LEMMA SInvInit == Init => SInv
BY ServerAssumption
DEF Init, SInv, TypeOK, SleepsIdle, LeftUntaken, CountsConserved, Sleeping,
    Zero, Counters, Totals, Handlers, Handler, Idle, Steps

(* An answer that adds to the counters ks, or to none, is a handler. *)
LEMMA RespondTypes ==
  ASSUME TypeOK, NEW c \in Conns, NEW ks \in SUBSET Counters, Respond(c, ks)
  PROVE  /\ req' \in [Conns -> Handlers]
         /\ \A d \in Conns : req'[d].pc = "count" <=> req'[d].add # {}
<1> DEFINE r == IF ks = {} THEN Idle
                ELSE Handler("count", req[c].path, ks, None)
<1>1. /\ r \in Handlers
      /\ r.pc = "count" <=> r.add # {}
  <2>1. CASE ks = {}
    BY <2>1 DEF Handlers, Handler, Idle, Steps
  <2>2. CASE ks # {}
    BY <2>2 DEF TypeOK, Handlers, Handler, Steps
  <2> QED BY <2>1, <2>2
<1>2. req' = [req EXCEPT ![c] = r]
  BY DEF Respond, SetReq
<1> QED BY <1>1, <1>2 DEF TypeOK

(* Steps of a handler that touch no counter. *)
Quiet(c) == \/ \E p \in Paths : Ask(c, p)
            \/ NarInfo(c) \/ NarFile(c) \/ NarFileLegacy(c) \/ Disconnect(c)

(* They keep the types of the handlers, and everything else. *)
LEMMA QuietStep ==
  ASSUME TypeOK, NEW c \in Conns, Quiet(c)
  PROVE  /\ req' \in [Conns -> Handlers]
         /\ \A d \in Conns : req'[d].pc = "count" <=> req'[d].add # {}
         /\ asked' \in Nat
         /\ UNCHANGED <<stores, counter, beat, reported, counted, beats, split>>
<1> USE DEF Counters, Totals
<1>1. CASE \E p \in Paths : Ask(c, p)
  <2>1. PICK p \in Paths, first \in {"narinfo", "object"} :
          SetReq(c, Handler(first, p, {}, None))
    BY <1>1 DEF Ask
  <2>2. Handler(first, p, {}, None) \in Handlers
    BY DEF Handlers, Handler, Steps
  <2>3. /\ req' \in [Conns -> Handlers]
        /\ \A d \in Conns : req'[d].pc = "count" <=> req'[d].add # {}
    BY <2>1, <2>2 DEF SetReq, TypeOK, Handler
  <2>4. /\ asked' \in Nat
        /\ UNCHANGED <<stores, counter, beat, reported, counted, beats, split>>
    BY <1>1 DEF Ask, TypeOK
  <2> QED BY <2>3, <2>4
<1>2. CASE NarInfo(c)
  <2>1. Respond(c, {"hits"}) \/ Respond(c, {"misses"})
    BY <1>2 DEF NarInfo
  <2> QED BY <1>2, <2>1, RespondTypes DEF NarInfo, TypeOK
<1>3. CASE NarFile(c)
  <2>1. /\ req' \in [Conns -> Handlers]
        /\ \A d \in Conns : req'[d].pc = "count" <=> req'[d].add # {}
    <3>1. CASE Respond(c, {"nars", "bytes"})
      BY <3>1, RespondTypes
    <3>2. CASE SetReq(c, Handler("legacy", req[c].path, {}, None))
      BY <3>2 DEF SetReq, TypeOK, Handlers, Handler, Steps
    <3> QED BY <1>3, <3>1, <3>2 DEF NarFile
  <2> QED BY <1>3, <2>1 DEF NarFile, TypeOK
<1>4. CASE NarFileLegacy(c)
  <2>1. Respond(c, {"nars"}) \/ Respond(c, {})
    BY <1>4 DEF NarFileLegacy
  <2> QED BY <1>4, <2>1, RespondTypes DEF NarFileLegacy, TypeOK
<1>5. CASE Disconnect(c)
  BY <1>5, RespondTypes DEF Disconnect, TypeOK
<1> QED BY <1>1, <1>2, <1>3, <1>4, <1>5 DEF Quiet

(* Every step keeps the invariant. *)
LEMMA SInvStep == SInv /\ [Next]_vars => SInv'
<1> SUFFICES ASSUME SInv, [Next]_vars PROVE SInv'
  OBVIOUS
<1> USE DEF SInv, SleepsIdle, LeftUntaken, CountsConserved
<1>1. ASSUME NEW c \in Conns, Quiet(c) PROVE SInv'
  BY <1>1, QuietStep DEF TypeOK, stores
<1>2. ASSUME NEW c \in Conns, NEW k \in Counters, Count(c, k) PROVE SInv'
  <2>1. /\ counter' \in [Counters -> Nat]
        /\ counted' \in [Counters -> Nat]
    BY <1>2 DEF Count, TypeOK
  <2>2. Hour(k) \in Nat
    BY DEF Hour, TypeOK
  <2>3. /\ req' \in [Conns -> Handlers]
        /\ \A d \in Conns : req'[d].pc = "count" <=> req'[d].add # {}
        /\ split' \in Nat
    <3>1. CASE req[c].add = {k}
      BY <1>2, <3>1 DEF Count, SetReq, TypeOK, Handlers, Handler, Idle, Steps
    <3>2. CASE req[c].add # {k}
      BY <1>2, <2>2, <3>2 DEF Count, SetReq, TypeOK, Handlers, Handler, Steps
    <3> QED BY <3>1, <3>2
  <2>4. TypeOK'
    BY <1>2, <2>1, <2>3 DEF Count, TypeOK, stores
  <2>5. CountsConserved'
    BY <1>2 DEF Count, TypeOK, Counters
  <2> QED BY <1>2, <2>4, <2>5 DEF Count
<1>3. CASE Tick
  BY <1>3 DEF Tick, TypeOK, stores, Sleeping, Zero, Counters
<1>4. ASSUME NEW k \in Counters, Take(k) PROVE SInv'
  <2>1. TypeOK'
    BY <1>4 DEF Take, TypeOK, stores
  <2>2. SleepsIdle' /\ LeftUntaken'
    BY <1>4 DEF Take, TypeOK, Sleeping
  <2>3. CountsConserved'
    BY <1>4 DEF Take, TypeOK, Counters
  <2> QED BY <2>1, <2>2, <2>3
<1>5. CASE Report
  <2>1. TypeOK'
    BY <1>5 DEF Report, TypeOK, stores, Sleeping, Zero
  <2>2. ASSUME NEW k \in Totals
        PROVE  reported'[k] = reported[k] + beat.taken[k]
    BY <1>5 DEF Report, TypeOK, Totals, Counters
  <2>3. CountsConserved'
    BY <1>5, <2>2 DEF Report, TypeOK, Totals, Counters, Sleeping, Zero
  <2> QED BY <1>5, <2>1, <2>3 DEF Report, Sleeping
<1>6. ASSUME NEW p \in Paths, Publish(p) \/ Withdraw(p) PROVE SInv'
  BY <1>6 DEF Publish, Withdraw, TypeOK
<1>7. CASE UNCHANGED vars
  BY <1>7 DEF vars, stores, TypeOK
<1> QED
  BY <1>1, <1>2, <1>3, <1>4, <1>5, <1>6, <1>7 DEF Next, Handle, Stats, Quiet

(* Every variable of the server keeps its type, and a handler counts        *)
(* exactly when it has decided its answer.                                  *)
THEOREM TypeCorrect == Spec => []TypeOK
<1>1. SInv => TypeOK
  BY DEF SInv
<1> QED BY SInvInit, SInvStep, <1>1, PTL DEF Spec

(* Whatever the number of connections and however their additions and the   *)
(* swaps of the stats task interleave, no lookup and no served NAR is lost  *)
(* or counted twice: Take empties a counter into a place that holds         *)
(* nothing, and an idle hour forgets only zeros.                            *)
THEOREM Conserved == Spec => []CountsConserved
<1>1. SInv => CountsConserved
  BY DEF SInv
<1> QED BY SInvInit, SInvStep, <1>1, PTL DEF Spec

-----------------------------------------------------------------------------
(***************************************************************************)
(* The hours.  Two of them are open: the one that is reported next, and    *)
(* while the task reports it, the one after.  Added(k, h) is what has been *)
(* added to k in open hour h.  A NAR has one of its two additions made if  *)
(* its bytes went first, or its count did.                                 *)
(***************************************************************************)
Open == {0, 1}
Swapped(k) == beat.on /\ k \notin beat.left
Added(k, h) == IF h = 0 THEN IF Swapped(k) THEN beat.taken[k] ELSE counter[k]
               ELSE IF Swapped(k) THEN counter[k] ELSE 0

FirstBytes(r, h) == r.hour = beats + h /\ r.add = {"nars"}
FirstCount(r, h) == r.hour = beats + h /\ r.add = {"bytes"}
Before(r) == r.hour \in Nat /\ r.hour < beats /\ r.add = {"nars"}
BytesFirst(h) == {c \in Conns : FirstBytes(req[c], h)}
CountFirst(h) == {c \in Conns : FirstCount(req[c], h)}
BytesBefore == {c \in Conns : Before(req[c])}

Answers == {{}, {"hits"}, {"misses"}, {"nars"}, {"nars", "bytes"}}

(* What a handler may have yet to add, before and after its first addition; *)
(* an addition to the later hour was to a counter that is swapped already.  *)
Additions ==
  \A c \in Conns :
    /\ req[c].hour = None => req[c].add \in Answers
    /\ req[c].hour # None =>
         /\ req[c].add \in {{"nars"}, {"bytes"}}
         /\ \/ req[c].hour <= beats
            \/ /\ req[c].hour = beats + 1
               /\ \A k \in {"nars", "bytes"} : k \notin req[c].add => Swapped(k)

(* s[h] NARs were split that had their bytes in open hour h: only they, and *)
(* those whose bytes went first, are there more bytes in h than NARs.       *)
(* Bytes that no report will show, and those by which the reports exceed    *)
(* the NARs, are of NARs split before.                                     *)
Balanced(s) ==
  /\ \A h \in Open : Added("bytes", h) + Cardinality(CountFirst(h))
                       <= Added("nars", h) + Cardinality(BytesFirst(h)) + s[h]
  /\ counted["bytes"] + s[0] + s[1]
       <= reported["bytes"] + beat.taken["bytes"] + counter["bytes"]
            + split + Cardinality(BytesBefore)
  /\ reported["bytes"] + s[0] + s[1]
       <= reported["nars"] + split + Cardinality(BytesBefore)

HInv == SInv /\ Additions /\ \E s \in [Open -> Nat] : Balanced(s)

LEMMA HInvInit == Init => HInv
<1> SUFFICES ASSUME Init PROVE HInv
  OBVIOUS
<1>1. SInv
  BY SInvInit
<1>2. /\ \A c \in Conns : req[c].hour = None /\ req[c].add = {}
      /\ beats = 0 /\ split = 0 /\ counter = Zero /\ reported = Zero /\ counted = Zero
      /\ beat = Sleeping
  BY DEF Init, Idle, Handler
<1>3. None \notin Nat
  BY ServerAssumption
<1>4. Additions
  BY <1>2 DEF Additions, Answers
<1>5. \A h \in Open : BytesFirst(h) = {} /\ CountFirst(h) = {}
  BY <1>2, <1>3 DEF Open, BytesFirst, CountFirst, FirstBytes, FirstCount
<1>6. BytesBefore = {}
  BY <1>2, <1>3 DEF BytesBefore, Before
<1>7. Cardinality({}) = 0
  BY FS_EmptySet
<1>8. \A h \in Open : Added("bytes", h) = 0 /\ Added("nars", h) = 0
  BY <1>2 DEF Open, Added, Swapped, Sleeping, Zero, Counters, Totals
<1> DEFINE s == [h \in Open |-> 0]
<1>9. Balanced(s)
  <2>1. /\ s[0] = 0 /\ s[1] = 0 /\ \A h \in Open : s[h] = 0
    BY DEF Open
  <2>2. /\ counted["bytes"] = 0 /\ reported["bytes"] = 0 /\ reported["nars"] = 0
        /\ counter["bytes"] = 0 /\ beat.taken["bytes"] = 0
    BY <1>2 DEF Sleeping, Zero, Counters, Totals
  <2> HIDE DEF s
  <2> QED
    <3>1. \A h \in Open : Cardinality(BytesFirst(h)) = 0 /\ Cardinality(CountFirst(h)) = 0
      BY Zenon, <1>5, <1>7
    <3>2. Cardinality(BytesBefore) = 0
      BY Zenon, <1>6, <1>7
    <3>3. split = 0
      BY <1>2
    <3> QED
      BY <1>8, <2>1, <2>2, <3>1, <3>2, <3>3 DEF Balanced
<1> QED
  BY <1>1, <1>4, <1>9 DEF HInv

Bit(holds) == IF holds THEN 1 ELSE 0

LEMMA CountOne ==
  ASSUME NEW S \in SUBSET Conns, NEW T \in SUBSET Conns, NEW c, S \ {c} = T \ {c}
  PROVE  /\ Cardinality(S) \in Nat /\ Cardinality(T) \in Nat
         /\ Cardinality(T) = Cardinality(S) + Bit(c \in T) - Bit(c \in S)
<1>1. ASSUME NEW Q \in SUBSET Conns
      PROVE  /\ IsFiniteSet(Q) /\ Cardinality(Q) \in Nat /\ Cardinality(Q \ {c}) \in Nat
             /\ Cardinality(Q) = Cardinality(Q \ {c}) + Bit(c \in Q)
  <2>1. IsFiniteSet(Q) /\ IsFiniteSet(Q \ {c})
    BY ServerAssumption, FS_Subset
  <2>2. Cardinality(Q) \in Nat /\ Cardinality(Q \ {c}) \in Nat
    BY <2>1, FS_CardinalityType
  <2>3. CASE c \in Q
    <3>1. Cardinality(Q \ {c}) = Cardinality(Q) - 1
      BY <2>1, <2>3, FS_RemoveElement
    <3> QED
      BY <2>1, <2>2, <2>3, <3>1 DEF Bit
  <2>4. CASE c \notin Q
    <3>1. Q \ {c} = Q
      BY <2>4
    <3> QED
      BY <2>1, <2>2, <2>4, <3>1 DEF Bit
  <2> QED
    BY <2>3, <2>4
<1>2. /\ Cardinality(S) = Cardinality(S \ {c}) + Bit(c \in S)
      /\ Cardinality(T) = Cardinality(S \ {c}) + Bit(c \in T)
      /\ Cardinality(S) \in Nat /\ Cardinality(T) \in Nat /\ Cardinality(S \ {c}) \in Nat
  BY <1>1
<1>3. Bit(c \in S) \in {0, 1} /\ Bit(c \in T) \in {0, 1}
  BY DEF Bit
<1> QED
  BY <1>2, <1>3

(* How the three counts change with the handler of one connection. *)
LEMMA Moved ==
  ASSUME TypeOK, NEW c \in Conns, NEW r, req' = [req EXCEPT ![c] = r], beats' = beats
  PROVE  /\ \A h \in Open :
              /\ Cardinality(BytesFirst(h)) \in Nat /\ Cardinality(CountFirst(h)) \in Nat
              /\ Cardinality(BytesFirst(h))' = Cardinality(BytesFirst(h))
                   + Bit(FirstBytes(r, h)) - Bit(FirstBytes(req[c], h))
              /\ Cardinality(CountFirst(h))' = Cardinality(CountFirst(h))
                   + Bit(FirstCount(r, h)) - Bit(FirstCount(req[c], h))
         /\ Cardinality(BytesBefore) \in Nat
         /\ Cardinality(BytesBefore)' = Cardinality(BytesBefore)
              + Bit(Before(r)) - Bit(Before(req[c]))
<1>1. req \in [Conns -> Handlers] /\ req'[c] = r /\ \A d \in Conns : d # c => req'[d] = req[d]
  BY DEF TypeOK
<1>2. ASSUME NEW h \in Open
      PROVE  /\ Cardinality(BytesFirst(h)) \in Nat
             /\ Cardinality(BytesFirst(h))' = Cardinality(BytesFirst(h))
                  + Bit(FirstBytes(r, h)) - Bit(FirstBytes(req[c], h))
  <2> DEFINE S == {d \in Conns : FirstBytes(req[d], h)}
             T == {d \in Conns : FirstBytes(req'[d], h)}
  <2>1. S \in SUBSET Conns /\ T \in SUBSET Conns /\ S \ {c} = T \ {c}
    BY <1>1
  <2>2. (c \in S <=> FirstBytes(req[c], h)) /\ (c \in T <=> FirstBytes(r, h))
    BY <1>1
  <2>3. BytesFirst(h) = S /\ BytesFirst(h)' = T
    BY DEF BytesFirst, FirstBytes
  <2> HIDE DEF S, T
  <2>4. /\ Cardinality(S) \in Nat
        /\ Cardinality(T) = Cardinality(S) + Bit(c \in T) - Bit(c \in S)
    BY <2>1, CountOne
  <2>5. Bit(c \in T) = Bit(FirstBytes(r, h)) /\ Bit(c \in S) = Bit(FirstBytes(req[c], h))
    BY <2>2 DEF Bit
  <2> QED
    BY <2>3, <2>4, <2>5
<1>3. ASSUME NEW h \in Open
      PROVE  /\ Cardinality(CountFirst(h)) \in Nat
             /\ Cardinality(CountFirst(h))' = Cardinality(CountFirst(h))
                  + Bit(FirstCount(r, h)) - Bit(FirstCount(req[c], h))
  <2> DEFINE S == {d \in Conns : FirstCount(req[d], h)}
             T == {d \in Conns : FirstCount(req'[d], h)}
  <2>1. S \in SUBSET Conns /\ T \in SUBSET Conns /\ S \ {c} = T \ {c}
    BY <1>1
  <2>2. (c \in S <=> FirstCount(req[c], h)) /\ (c \in T <=> FirstCount(r, h))
    BY <1>1
  <2>3. CountFirst(h) = S /\ CountFirst(h)' = T
    BY DEF CountFirst, FirstCount
  <2> HIDE DEF S, T
  <2>4. /\ Cardinality(S) \in Nat
        /\ Cardinality(T) = Cardinality(S) + Bit(c \in T) - Bit(c \in S)
    BY <2>1, CountOne
  <2>5. Bit(c \in T) = Bit(FirstCount(r, h)) /\ Bit(c \in S) = Bit(FirstCount(req[c], h))
    BY <2>2 DEF Bit
  <2> QED
    BY <2>3, <2>4, <2>5
<1>4. /\ Cardinality(BytesBefore) \in Nat
      /\ Cardinality(BytesBefore)' = Cardinality(BytesBefore)
           + Bit(Before(r)) - Bit(Before(req[c]))
  <2> DEFINE S == {d \in Conns : Before(req[d])}
             T == {d \in Conns : Before(req'[d])}
  <2>1. S \in SUBSET Conns /\ T \in SUBSET Conns /\ S \ {c} = T \ {c}
    BY <1>1
  <2>2. (c \in S <=> Before(req[c])) /\ (c \in T <=> Before(r))
    BY <1>1
  <2>3. BytesBefore = S /\ BytesBefore' = T
    BY DEF BytesBefore, Before
  <2> HIDE DEF S, T
  <2>4. /\ Cardinality(S) \in Nat
        /\ Cardinality(T) = Cardinality(S) + Bit(c \in T) - Bit(c \in S)
    BY <2>1, CountOne
  <2>5. Bit(c \in T) = Bit(Before(r)) /\ Bit(c \in S) = Bit(Before(req[c]))
    BY <2>2 DEF Bit
  <2> QED
    BY <2>3, <2>4, <2>5
<1> QED
  BY <1>2, <1>3, <1>4

(* Steps of a handler that touch no counter, in one form. *)
LEMMA QuietMoves ==
  ASSUME TypeOK, Additions, NEW c \in Conns, Quiet(c)
  PROVE  /\ req[c].hour = None
         /\ \E r : req' = [req EXCEPT ![c] = r] /\ r.hour = None /\ r.add \in Answers
<1>1. req[c].pc # "count"
  <2>1. CASE \E p \in Paths : Ask(c, p)
    <3>1. req[c] = Idle
      BY <2>1 DEF Ask
    <3> QED
      BY <3>1 DEF Idle, Handler
  <2>2. CASE NarInfo(c) \/ NarFile(c) \/ NarFileLegacy(c) \/ Disconnect(c)
    BY <2>2 DEF NarInfo, NarFile, NarFileLegacy, Disconnect
  <2> QED
    BY <2>1, <2>2 DEF Quiet
<1>2. req[c].add = {}
  BY <1>1 DEF TypeOK
<1>3. req[c].hour = None
  BY <1>2 DEF Additions
<1>4. ASSUME NEW ks \in Answers, Respond(c, ks)
      PROVE  \E r : req' = [req EXCEPT ![c] = r] /\ r.hour = None /\ r.add \in Answers
  <2> DEFINE r == IF ks = {} THEN Idle ELSE Handler("count", req[c].path, ks, None)
  <2>1. req' = [req EXCEPT ![c] = r]
    BY <1>4 DEF Respond, SetReq
  <2>2. r.hour = None /\ r.add \in Answers
    BY DEF Idle, Handler, Answers
  <2> HIDE DEF r
  <2> QED
    BY <2>1, <2>2
<1>5. ASSUME NEW p, NEW pc, SetReq(c, Handler(pc, p, {}, None))
      PROVE  \E r : req' = [req EXCEPT ![c] = r] /\ r.hour = None /\ r.add \in Answers
  <2> DEFINE r == Handler(pc, p, {}, None)
  <2>1. req' = [req EXCEPT ![c] = r]
    BY <1>5 DEF SetReq
  <2>2. r.hour = None /\ r.add \in Answers
    BY DEF Handler, Answers
  <2> HIDE DEF r
  <2> QED
    BY <2>1, <2>2
<1>6. \/ \E ks \in Answers : Respond(c, ks)
      \/ \E p, pc : SetReq(c, Handler(pc, p, {}, None))
  <2>1. {} \in Answers /\ {"hits"} \in Answers /\ {"misses"} \in Answers
        /\ {"nars"} \in Answers /\ {"nars", "bytes"} \in Answers
    BY DEF Answers
  <2> QED
    BY <2>1 DEF Quiet, Ask, NarInfo, NarFile, NarFileLegacy, Disconnect
<1> QED
  BY <1>3, <1>4, <1>5, <1>6

LEMMA QuietKeeps ==
  ASSUME HInv, NEW c \in Conns, Quiet(c)
  PROVE  Additions' /\ \E s \in [Open -> Nat] : Balanced(s)'
<1>1. TypeOK /\ Additions
  BY DEF HInv, SInv
<1>2. PICK r : req' = [req EXCEPT ![c] = r] /\ r.hour = None /\ r.add \in Answers
  BY <1>1, QuietMoves
<1>3. /\ req[c].hour = None /\ None \notin Nat /\ beats \in Nat
      /\ counter' = counter /\ beat' = beat /\ reported' = reported /\ counted' = counted
      /\ beats' = beats /\ split' = split
  BY <1>1, QuietMoves, QuietStep, ServerAssumption DEF TypeOK
<1>4. req \in [Conns -> Handlers] /\ req'[c] = r /\ \A d \in Conns : d # c => req'[d] = req[d]
  BY <1>1, <1>2 DEF TypeOK
<1>5. Additions'
  <2>1. \A k : Swapped(k) <=> Swapped(k)'
    BY <1>3 DEF Swapped
  <2> SUFFICES ASSUME NEW d \in Conns
               PROVE  (/\ req[d].hour = None => req[d].add \in Answers
                       /\ req[d].hour # None =>
                            /\ req[d].add \in {{"nars"}, {"bytes"}}
                            /\ \/ req[d].hour <= beats
                               \/ /\ req[d].hour = beats + 1
                                  /\ \A k \in {"nars", "bytes"} : k \notin req[d].add => Swapped(k))'
    BY DEF Additions
  <2>2. CASE d = c
    BY <1>2, <1>4, <2>2
  <2>3. CASE d # c
    BY <1>1, <1>3, <1>4, <2>1, <2>3 DEF Additions
  <2> QED
    BY <2>2, <2>3
<1>6. PICK s \in [Open -> Nat] : Balanced(s)
  BY DEF HInv
<1>7. Balanced(s)'
  <2>1. \A h \in Open : /\ ~FirstBytes(r, h) /\ ~FirstBytes(req[c], h)
                        /\ ~FirstCount(r, h) /\ ~FirstCount(req[c], h)
    BY <1>2, <1>3 DEF FirstBytes, FirstCount, Open
  <2>2. ~Before(r) /\ ~Before(req[c])
    BY <1>2, <1>3 DEF Before
  <2>3. /\ \A h \in Open : Cardinality(BytesFirst(h))' = Cardinality(BytesFirst(h))
                           /\ Cardinality(CountFirst(h))' = Cardinality(CountFirst(h))
        /\ Cardinality(BytesBefore)' = Cardinality(BytesBefore)
    <3>1. /\ \A h \in Open : /\ Bit(FirstBytes(r, h)) = 0 /\ Bit(FirstBytes(req[c], h)) = 0
                            /\ Bit(FirstCount(r, h)) = 0 /\ Bit(FirstCount(req[c], h)) = 0
          /\ Bit(Before(r)) = 0 /\ Bit(Before(req[c])) = 0
      BY <2>1, <2>2 DEF Bit
    <3>2. /\ \A h \in Open :
               /\ Cardinality(BytesFirst(h)) \in Nat /\ Cardinality(CountFirst(h)) \in Nat
               /\ Cardinality(BytesFirst(h))' = Cardinality(BytesFirst(h))
                    + Bit(FirstBytes(r, h)) - Bit(FirstBytes(req[c], h))
               /\ Cardinality(CountFirst(h))' = Cardinality(CountFirst(h))
                    + Bit(FirstCount(r, h)) - Bit(FirstCount(req[c], h))
          /\ Cardinality(BytesBefore) \in Nat
          /\ Cardinality(BytesBefore)' = Cardinality(BytesBefore)
               + Bit(Before(r)) - Bit(Before(req[c]))
      BY <1>1, <1>2, <1>3, Moved
    <3> QED
      BY <3>1, <3>2
  <2>4. \A k, h : Added(k, h)' = Added(k, h)
    BY <1>3 DEF Added, Swapped
  <2> QED
    BY <1>3, <1>6, <2>3, <2>4 DEF Balanced
<1> QED
  BY <1>5, <1>6, <1>7

(* What an addition to k changes: one more in the hour it belongs to. *)
LEMMA AddedOne ==
  ASSUME TypeOK, NEW c \in Conns, NEW k \in Counters, Count(c, k)
  PROVE  /\ \A h \in Open : /\ Added(k, h)' = Added(k, h) + Bit(Hour(k) = beats + h)
                            /\ \A j \in Counters : /\ Added(j, h) \in Nat
                                                   /\ j # k => Added(j, h)' = Added(j, h)
         /\ Hour(k) = beats + (IF Swapped(k) THEN 1 ELSE 0)
         /\ \A j : Swapped(j)' <=> Swapped(j)
         /\ counted' = [counted EXCEPT ![k] = @ + 1] /\ counter' = [counter EXCEPT ![k] = @ + 1]
         /\ beat' = beat /\ reported' = reported /\ beats' = beats
<1>1. /\ counted' = [counted EXCEPT ![k] = @ + 1] /\ counter' = [counter EXCEPT ![k] = @ + 1]
      /\ beat' = beat /\ reported' = reported /\ beats' = beats
  BY DEF Count
<1>2. /\ counter \in [Counters -> Nat] /\ beat.taken \in [Counters -> Nat] /\ beats \in Nat
      /\ counter'[k] = counter[k] + 1
      /\ \A j \in Counters : j # k => counter'[j] = counter[j]
  BY <1>1 DEF TypeOK
<1>3. \A j : Swapped(j)' <=> Swapped(j)
  BY <1>1 DEF Swapped
<1>4. Hour(k) = beats + (IF Swapped(k) THEN 1 ELSE 0)
  BY DEF Hour, Swapped
<1>5. ASSUME NEW h \in Open, NEW j \in Counters
      PROVE  Added(j, h) \in Nat /\ (j # k => Added(j, h)' = Added(j, h))
  BY <1>1, <1>2, <1>3 DEF Added, Open
<1>6. Added(k, 0)' = Added(k, 0) + Bit(Hour(k) = beats + 0)
  <2>1. CASE Swapped(k)
    BY <1>1, <1>2, <1>3, <1>4, <2>1 DEF Added, Bit
  <2>2. CASE ~Swapped(k)
    BY <1>1, <1>2, <1>3, <1>4, <2>2 DEF Added, Bit
  <2> QED
    BY <2>1, <2>2
<1>7. Added(k, 1)' = Added(k, 1) + Bit(Hour(k) = beats + 1)
  <2>1. CASE Swapped(k)
    BY <1>1, <1>2, <1>3, <1>4, <2>1 DEF Added, Bit
  <2>2. CASE ~Swapped(k)
    BY <1>1, <1>2, <1>3, <1>4, <2>2 DEF Added, Bit
  <2> QED
    BY <2>1, <2>2
<1> QED
  BY <1>1, <1>3, <1>4, <1>5, <1>6, <1>7 DEF Open

(* The balance is kept when the handler's own changes balance: r is what    *)
(* becomes of it, d[h] the NARs that this addition splits.                 *)
LEMMA CountBalances ==
  ASSUME TypeOK, NEW c \in Conns, NEW k \in Counters, Count(c, k),
         NEW r, req' = [req EXCEPT ![c] = r],
         NEW d \in [Open -> Nat],
         NEW s \in [Open -> Nat], Balanced(s),
         split' \in Nat,
         \A h \in Open :
           Bit(k = "bytes" /\ Hour(k) = beats + h)
             + Bit(FirstCount(r, h)) - Bit(FirstCount(req[c], h))
             <= Bit(k = "nars" /\ Hour(k) = beats + h)
                  + Bit(FirstBytes(r, h)) - Bit(FirstBytes(req[c], h)) + d[h],
         d[0] + d[1] <= split' - split + Bit(Before(r)) - Bit(Before(req[c]))
  PROVE  \E t \in [Open -> Nat] : Balanced(t)'
<1> DEFINE t == [h \in Open |-> s[h] + d[h]]
<1>1. t \in [Open -> Nat]
  OBVIOUS
<1>2. /\ counted' = [counted EXCEPT ![k] = @ + 1] /\ counter' = [counter EXCEPT ![k] = @ + 1]
      /\ beat' = beat /\ reported' = reported /\ beats' = beats
  BY AddedOne
<1>3. /\ "bytes" \in Counters /\ "nars" \in Counters
      /\ counted \in [Counters -> Nat] /\ counter \in [Counters -> Nat]
      /\ reported \in [Counters -> Nat] /\ beat.taken \in [Counters -> Nat] /\ split \in Nat
  BY DEF TypeOK, Counters, Totals
<1>4. /\ counted'["bytes"] = counted["bytes"] + Bit(k = "bytes")
      /\ counter'["bytes"] = counter["bytes"] + Bit(k = "bytes")
  BY <1>2, <1>3 DEF Bit
<1>5. /\ \A h \in Open :
           /\ Cardinality(BytesFirst(h)) \in Nat /\ Cardinality(CountFirst(h)) \in Nat
           /\ Cardinality(BytesFirst(h))' = Cardinality(BytesFirst(h))
                + Bit(FirstBytes(r, h)) - Bit(FirstBytes(req[c], h))
           /\ Cardinality(CountFirst(h))' = Cardinality(CountFirst(h))
                + Bit(FirstCount(r, h)) - Bit(FirstCount(req[c], h))
      /\ Cardinality(BytesBefore) \in Nat
      /\ Cardinality(BytesBefore)' = Cardinality(BytesBefore)
           + Bit(Before(r)) - Bit(Before(req[c]))
  BY <1>2, Moved
<1>6. \A h \in Open :
        /\ Bit(FirstBytes(r, h)) \in Nat /\ Bit(FirstBytes(req[c], h)) \in Nat
        /\ Bit(FirstCount(r, h)) \in Nat /\ Bit(FirstCount(req[c], h)) \in Nat
        /\ Bit(k = "bytes" /\ Hour(k) = beats + h) \in Nat
        /\ Bit(k = "nars" /\ Hour(k) = beats + h) \in Nat
  BY DEF Bit
<1>7. Bit(Before(r)) \in Nat /\ Bit(Before(req[c])) \in Nat /\ Bit(k = "bytes") \in Nat
  BY DEF Bit
<1>8. \A h \in Open :
        /\ Added("bytes", h) \in Nat /\ Added("nars", h) \in Nat
        /\ Added("bytes", h)' = Added("bytes", h) + Bit(k = "bytes" /\ Hour(k) = beats + h)
        /\ Added("nars", h)' = Added("nars", h) + Bit(k = "nars" /\ Hour(k) = beats + h)
  BY <1>3, AddedOne DEF Bit
<1>9. ASSUME NEW h \in Open
      PROVE  Added("bytes", h)' + Cardinality(CountFirst(h))'
               <= Added("nars", h)' + Cardinality(BytesFirst(h))' + t[h]
  <2>1. Added("bytes", h) + Cardinality(CountFirst(h))
          <= Added("nars", h) + Cardinality(BytesFirst(h)) + s[h]
    BY DEF Balanced
  <2>2. t[h] = s[h] + d[h] /\ s[h] \in Nat /\ d[h] \in Nat
    OBVIOUS
  <2> HIDE DEF t
  <2> QED
    BY <1>5, <1>6, <1>8, <2>1, <2>2
<1>10. /\ t[0] = s[0] + d[0] /\ t[1] = s[1] + d[1]
       /\ s[0] \in Nat /\ s[1] \in Nat /\ d[0] \in Nat /\ d[1] \in Nat
  BY DEF Open
<1> HIDE DEF t
<1>11. counted'["bytes"] + t[0] + t[1]
         <= reported'["bytes"] + beat'.taken["bytes"] + counter'["bytes"]
              + split' + Cardinality(BytesBefore)'
  <2>1. counted["bytes"] + s[0] + s[1]
          <= reported["bytes"] + beat.taken["bytes"] + counter["bytes"]
               + split + Cardinality(BytesBefore)
    BY DEF Balanced
  <2> QED
    BY <1>2, <1>3, <1>4, <1>5, <1>7, <1>10, <2>1
<1>12. reported'["bytes"] + t[0] + t[1]
         <= reported'["nars"] + split' + Cardinality(BytesBefore)'
  <2>1. reported["bytes"] + s[0] + s[1]
          <= reported["nars"] + split + Cardinality(BytesBefore)
    BY DEF Balanced
  <2> QED
    BY <1>2, <1>3, <1>5, <1>7, <1>10, <2>1
<1> QED
  BY <1>1, <1>9, <1>11, <1>12 DEF Balanced

LEMMA CountKeeps ==
  ASSUME HInv, NEW c \in Conns, NEW k \in Counters, Count(c, k)
  PROVE  Additions' /\ \E s \in [Open -> Nat] : Balanced(s)'
<1>1. TypeOK /\ Additions /\ beats \in Nat /\ None \notin Nat /\ split \in Nat
  BY ServerAssumption DEF HInv, SInv, TypeOK
<1>2. PICK s \in [Open -> Nat] : Balanced(s)
  BY DEF HInv
<1>3. /\ Hour(k) = beats + (IF Swapped(k) THEN 1 ELSE 0)
      /\ (\A j : Swapped(j)' <=> Swapped(j)) /\ beats' = beats
  BY <1>1, AddedOne
<1>4. /\ k \in req[c].add /\ req[c] \in Handlers
      /\ req[c].hour \in Nat \cup {None}
      /\ req[c].hour = None => req[c].add \in Answers
      /\ req[c].hour # None => req[c].add \in {{"nars"}, {"bytes"}}
  BY <1>1 DEF Count, TypeOK, Handlers, Additions
<1>5. Hour(k) \in Nat /\ Hour(k) >= beats /\ Hour(k) <= beats + 1 /\ Hour(k) # None
  BY <1>1, <1>3
(* What becomes of the handler, in one form. *)
<1>6. ASSUME NEW r, req' = [req EXCEPT ![c] = r],
             \/ r.hour = None /\ r.add = {}
             \/ /\ req[c].add = {"nars", "bytes"} /\ r.add = {"nars", "bytes"} \ {k}
                /\ r.hour = Hour(k)
      PROVE  Additions'
  <2>1. req \in [Conns -> Handlers] /\ req'[c] = r
        /\ \A d \in Conns : d # c => req'[d] = req[d]
    BY <1>1, <1>6 DEF TypeOK
  <2> SUFFICES ASSUME NEW d \in Conns
               PROVE  (/\ req[d].hour = None => req[d].add \in Answers
                       /\ req[d].hour # None =>
                            /\ req[d].add \in {{"nars"}, {"bytes"}}
                            /\ \/ req[d].hour <= beats
                               \/ /\ req[d].hour = beats + 1
                                  /\ \A j \in {"nars", "bytes"} : j \notin req[d].add => Swapped(j))'
    BY DEF Additions
  <2>2. CASE d # c
    BY <1>1, <1>3, <2>1, <2>2 DEF Additions
  <2>3. CASE d = c /\ r.hour = None /\ r.add = {}
    BY <2>1, <2>3 DEF Answers
  <2>4. CASE d = c /\ r.hour = Hour(k) /\ r.add = {"nars", "bytes"} \ {k}
             /\ req[c].add = {"nars", "bytes"}
    <3>1. req'[d] = r /\ r.hour # None /\ k \in {"nars", "bytes"}
      BY <1>4, <1>5, <2>1, <2>4
    <3>2. r.add \in {{"nars"}, {"bytes"}}
      BY <2>4, <3>1
    <3>3. r.hour <= beats \/ (r.hour = beats + 1 /\ Swapped(k)')
      BY <1>1, <1>3, <2>4
    <3>4. \A j \in {"nars", "bytes"} : j \notin r.add => j = k
      BY <2>4
    <3> QED
      BY <1>3, <3>1, <3>2, <3>3, <3>4
  <2> QED
    BY <1>6, <2>2, <2>3, <2>4
<1>7. CASE req[c].hour = None /\ req[c].add = {k}
  <2> DEFINE z == [h \in Open |-> 0]
  <2>1. req' = [req EXCEPT ![c] = Idle] /\ split' = split
    BY <1>7 DEF Count, SetReq
  <2>2. Idle.hour = None /\ Idle.add = {}
    BY DEF Idle, Handler
  <2>3. Additions'
    BY <1>6, <2>1, <2>2
  <2>4. k # "bytes"
    BY <1>4, <1>7 DEF Answers
  <2>5. \A h \in Open : /\ Bit(k = "bytes" /\ Hour(k) = beats + h) = 0
                        /\ Bit(k = "nars" /\ Hour(k) = beats + h) \in Nat
                        /\ Bit(FirstBytes(Idle, h)) = 0 /\ Bit(FirstBytes(req[c], h)) = 0
                        /\ Bit(FirstCount(Idle, h)) = 0 /\ Bit(FirstCount(req[c], h)) = 0
    BY <1>1, <1>7, <2>2, <2>4 DEF Bit, FirstBytes, FirstCount, Open
  <2>6. Bit(Before(Idle)) = 0 /\ Bit(Before(req[c])) = 0
    BY <1>1, <1>7, <2>2 DEF Bit, Before
  <2>7. z \in [Open -> Nat] /\ z[0] = 0 /\ z[1] = 0 /\ \A h \in Open : z[h] = 0
    BY DEF Open
  <2> HIDE DEF z
  <2>8. \E t \in [Open -> Nat] : Balanced(t)'
    <3>1. \A h \in Open :
            Bit(k = "bytes" /\ Hour(k) = beats + h)
              + Bit(FirstCount(Idle, h)) - Bit(FirstCount(req[c], h))
              <= Bit(k = "nars" /\ Hour(k) = beats + h)
                   + Bit(FirstBytes(Idle, h)) - Bit(FirstBytes(req[c], h)) + z[h]
      BY <2>5, <2>7
    <3>2. z[0] + z[1] <= split' - split + Bit(Before(Idle)) - Bit(Before(req[c]))
      BY <1>1, <2>1, <2>6, <2>7
    <3>3. split' \in Nat
      BY <1>1, <2>1
    <3> QED
      <4>1. z \in [Open -> Nat]
        BY <2>7
      <4>2. req' = [req EXCEPT ![c] = Idle]
        BY <2>1
      <4>3. TypeOK
        BY <1>1
      <4> QED
        BY <1>2, <3>1, <3>2, <3>3, <4>1, <4>2, <4>3, CountBalances
  <2> QED
    BY <2>3, <2>8
<1>8. CASE req[c].hour = None /\ req[c].add # {k}
  <2> DEFINE z == [h \in Open |-> 0]
             r == Handler("count", req[c].path, req[c].add \ {k}, Hour(k))
  <2>1. req' = [req EXCEPT ![c] = r] /\ split' = split
    BY <1>8 DEF Count, SetReq
  <2>2. req[c].add = {"nars", "bytes"} /\ k \in {"nars", "bytes"}
    BY <1>4, <1>8 DEF Answers
  <2>3. r.hour = Hour(k) /\ r.add = {"nars", "bytes"} \ {k}
    BY <2>2 DEF Handler
  <2> HIDE DEF r
  <2>4. Additions'
    BY <1>6, <2>1, <2>2, <2>3
  <2>5. \A h \in Open : Bit(FirstBytes(req[c], h)) = 0 /\ Bit(FirstCount(req[c], h)) = 0
    BY <1>1, <1>8 DEF Bit, FirstBytes, FirstCount, Open
  <2>6. Bit(Before(r)) = 0 /\ Bit(Before(req[c])) = 0
    BY <1>1, <1>5, <1>8, <2>3 DEF Bit, Before
  <2>7. ASSUME NEW h \in Open
        PROVE  /\ Bit(FirstBytes(r, h)) = Bit(k = "bytes" /\ Hour(k) = beats + h)
               /\ Bit(FirstCount(r, h)) = Bit(k = "nars" /\ Hour(k) = beats + h)
    <3>1. CASE k = "bytes"
      <4>1. r.add = {"nars"} /\ r.add # {"bytes"}
        BY <2>3, <3>1
      <4> QED
        BY <2>3, <3>1, <4>1 DEF Bit, FirstBytes, FirstCount
    <3>2. CASE k = "nars"
      <4>1. r.add = {"bytes"} /\ r.add # {"nars"}
        BY <2>3, <3>2
      <4> QED
        BY <2>3, <3>2, <4>1 DEF Bit, FirstBytes, FirstCount
    <3> QED
      BY <2>2, <3>1, <3>2
  <2>8. z \in [Open -> Nat] /\ z[0] = 0 /\ z[1] = 0 /\ \A h \in Open : z[h] = 0
    BY DEF Open
  <2> HIDE DEF z
  <2>9. \E t \in [Open -> Nat] : Balanced(t)'
    <3>1. \A h \in Open :
            Bit(k = "bytes" /\ Hour(k) = beats + h)
              + Bit(FirstCount(r, h)) - Bit(FirstCount(req[c], h))
              <= Bit(k = "nars" /\ Hour(k) = beats + h)
                   + Bit(FirstBytes(r, h)) - Bit(FirstBytes(req[c], h)) + z[h]
      <4>1. \A h \in Open : /\ Bit(k = "bytes" /\ Hour(k) = beats + h) \in Nat
                            /\ Bit(k = "nars" /\ Hour(k) = beats + h) \in Nat
        BY DEF Bit
      <4> QED
        BY <2>5, <2>7, <2>8, <4>1
    <3>2. z[0] + z[1] <= split' - split + Bit(Before(r)) - Bit(Before(req[c]))
      BY <1>1, <2>1, <2>6, <2>8
    <3>3. split' \in Nat
      BY <1>1, <2>1
    <3> QED
      <4>1. z \in [Open -> Nat]
        BY <2>8
      <4>2. req' = [req EXCEPT ![c] = r]
        BY <2>1
      <4>3. TypeOK
        BY <1>1
      <4> QED
        BY <1>2, <3>1, <3>2, <3>3, <4>1, <4>2, <4>3, CountBalances
  <2> QED
    BY <2>4, <2>9
<1>9. CASE req[c].hour # None
  <2> DEFINE g == req[c].hour
             late == g # Hour(k)
             d == [h \in Open |-> IF k = "nars" THEN Bit(late /\ g = beats + h)
                                                ELSE Bit(late /\ Hour(k) = beats + h)]
  <2>1. req[c].add = {k} /\ k \in {"nars", "bytes"} /\ g \in Nat
    BY <1>4, <1>9
  <2>2. req' = [req EXCEPT ![c] = Idle] /\ split' = split + Bit(late)
    BY <1>1, <1>9, <2>1 DEF Count, SetReq, Bit
  <2>3. Idle.hour = None /\ Idle.add = {}
    BY DEF Idle, Handler
  <2>4. Additions'
    BY <1>6, <2>2, <2>3
  <2>5. \A h \in Open : Bit(FirstBytes(Idle, h)) = 0 /\ Bit(FirstCount(Idle, h)) = 0
    BY <1>1, <2>3 DEF Bit, FirstBytes, FirstCount, Open
  <2>6. Bit(Before(Idle)) = 0 /\ Bit(Before(req[c])) = Bit(k = "nars" /\ g < beats)
    BY <1>1, <2>1, <2>3 DEF Bit, Before
  <2>7. \A h \in Open : /\ Bit(FirstBytes(req[c], h)) = Bit(k = "nars" /\ g = beats + h)
                        /\ Bit(FirstCount(req[c], h)) = Bit(k = "bytes" /\ g = beats + h)
    BY <2>1 DEF Bit, FirstBytes, FirstCount
  <2>8. d \in [Open -> Nat]
    BY DEF Bit
  <2>9. ASSUME NEW h \in Open
        PROVE  Bit(k = "bytes" /\ Hour(k) = beats + h)
                 + Bit(FirstCount(Idle, h)) - Bit(FirstCount(req[c], h))
                 <= Bit(k = "nars" /\ Hour(k) = beats + h)
                      + Bit(FirstBytes(Idle, h)) - Bit(FirstBytes(req[c], h)) + d[h]
    <3>1. d[h] = IF k = "nars" THEN Bit(late /\ g = beats + h)
                 ELSE Bit(late /\ Hour(k) = beats + h)
      OBVIOUS
    <3> HIDE DEF d
    <3>2. CASE k = "nars"
      BY <1>1, <1>5, <2>1, <2>5, <2>7, <3>1, <3>2 DEF Bit
    <3>3. CASE k = "bytes"
      BY <1>1, <1>5, <2>1, <2>5, <2>7, <3>1, <3>3 DEF Bit
    <3> QED
      BY <2>1, <3>2, <3>3
  <2>10. d[0] + d[1] <= split' - split + Bit(Before(Idle)) - Bit(Before(req[c]))
    <3>1. /\ d[0] = IF k = "nars" THEN Bit(late /\ g = beats + 0)
                    ELSE Bit(late /\ Hour(k) = beats + 0)
          /\ d[1] = IF k = "nars" THEN Bit(late /\ g = beats + 1)
                    ELSE Bit(late /\ Hour(k) = beats + 1)
      BY DEF Open
    <3> HIDE DEF d
    <3>2. CASE k = "nars"
      BY <1>1, <1>5, <2>1, <2>2, <2>6, <3>1, <3>2 DEF Bit
    <3>3. CASE k = "bytes"
      BY <1>1, <1>5, <2>1, <2>2, <2>6, <3>1, <3>3 DEF Bit
    <3> QED
      BY <2>1, <3>2, <3>3
  <2>11. split' \in Nat
    BY <1>1, <2>2 DEF Bit
  <2> HIDE DEF d
  <2>12. \E t \in [Open -> Nat] : Balanced(t)'
    BY <1>1, <1>2, <2>2, <2>8, <2>9, <2>10, <2>11, CountBalances
  <2> QED
    BY <2>4, <2>12
<1> QED
  BY <1>7, <1>8, <1>9

(* When the handlers, and the additions by hour, are as before, so is the   *)
(* balance.                                                                 *)
LEMMA SameBalance ==
  ASSUME HInv,
         req' = req, beats' = beats, split' = split, counted' = counted, reported' = reported,
         \A k \in Counters : Swapped(k) => Swapped(k)',
         \A h \in Open : /\ Added("bytes", h)' = Added("bytes", h)
                         /\ Added("nars", h)' = Added("nars", h),
         beat'.taken["bytes"] + counter'["bytes"] = beat.taken["bytes"] + counter["bytes"],
         beat'.taken["bytes"] \in Nat, counter'["bytes"] \in Nat
  PROVE  Additions' /\ \E s \in [Open -> Nat] : Balanced(s)'
<1>1. "nars" \in Counters /\ "bytes" \in Counters
  BY DEF Counters, Totals
<1>2. Additions'
  BY <1>1 DEF HInv, Additions
<1>3. PICK s \in [Open -> Nat] : Balanced(s)
  BY DEF HInv
<1>4. /\ \A h \in Open : BytesFirst(h)' = BytesFirst(h) /\ CountFirst(h)' = CountFirst(h)
      /\ BytesBefore' = BytesBefore
  BY DEF BytesFirst, CountFirst, BytesBefore, FirstBytes, FirstCount, Before
<1>5. /\ reported["bytes"] \in Nat /\ split \in Nat /\ counted["bytes"] \in Nat
      /\ beat.taken["bytes"] \in Nat /\ counter["bytes"] \in Nat
      /\ Cardinality(BytesBefore) \in Nat /\ s[0] \in Nat /\ s[1] \in Nat
  <2>1. BytesBefore \in SUBSET Conns
    BY DEF BytesBefore
  <2>2. Cardinality(BytesBefore) \in Nat
    BY <2>1, CountOne
  <2> QED
    BY <1>1, <2>2 DEF HInv, SInv, TypeOK, Open
<1>6. Balanced(s)'
  <2>1. \A h \in Open : Added("bytes", h)' + Cardinality(CountFirst(h))'
                          <= Added("nars", h)' + Cardinality(BytesFirst(h))' + s[h]
    BY <1>3, <1>4 DEF Balanced
  <2>2. counted'["bytes"] + s[0] + s[1]
          <= reported'["bytes"] + beat'.taken["bytes"] + counter'["bytes"]
               + split' + Cardinality(BytesBefore)'
    <3>1. counted["bytes"] + s[0] + s[1]
            <= reported["bytes"] + beat.taken["bytes"] + counter["bytes"]
                 + split + Cardinality(BytesBefore)
      BY <1>3 DEF Balanced
    <3> QED
      BY <1>4, <1>5, <3>1
  <2>3. reported'["bytes"] + s[0] + s[1]
          <= reported'["nars"] + split' + Cardinality(BytesBefore)'
    BY <1>3, <1>4 DEF Balanced
  <2> QED
    BY <2>1, <2>2, <2>3 DEF Balanced
<1> QED
  BY <1>2, <1>3, <1>6

LEMMA TickKeeps ==
  ASSUME HInv, Tick
  PROVE  Additions' /\ \E s \in [Open -> Nat] : Balanced(s)'
<1>1. /\ ~beat.on /\ beat' = [on |-> TRUE, left |-> Counters, taken |-> Zero]
      /\ req' = req /\ beats' = beats /\ split' = split /\ counted' = counted
      /\ reported' = reported /\ counter' = counter
  BY DEF Tick
<1>2. beat = Sleeping /\ counter \in [Counters -> Nat]
  BY <1>1 DEF HInv, SInv, SleepsIdle, TypeOK
<1>3. /\ \A k \in Counters : ~Swapped(k) /\ ~Swapped(k)'
      /\ beat.taken = Zero /\ beat'.taken = Zero
  BY <1>1, <1>2 DEF Swapped, Sleeping
<1>4. "nars" \in Counters /\ "bytes" \in Counters
  BY DEF Counters, Totals
<1>5. \A h \in Open : /\ Added("bytes", h)' = Added("bytes", h)
                      /\ Added("nars", h)' = Added("nars", h)
  BY <1>1, <1>3, <1>4 DEF Added
<1>6. beat'.taken["bytes"] = 0 /\ beat.taken["bytes"] = 0 /\ counter["bytes"] \in Nat
  BY <1>2, <1>3, <1>4 DEF Zero
<1> QED
  BY <1>1, <1>3, <1>5, <1>6, SameBalance

LEMMA TakeKeeps ==
  ASSUME HInv, NEW k \in Counters, Take(k)
  PROVE  Additions' /\ \E s \in [Open -> Nat] : Balanced(s)'
<1>1. /\ k \in beat.left
      /\ beat' = [beat EXCEPT !.left = @ \ {k}, !.taken[k] = counter[k]]
      /\ counter' = [counter EXCEPT ![k] = 0]
      /\ req' = req /\ beats' = beats /\ split' = split /\ counted' = counted
      /\ reported' = reported
  BY DEF Take
<1>2. /\ beat \in [on : BOOLEAN, left : SUBSET Counters, taken : [Counters -> Nat]]
      /\ counter \in [Counters -> Nat]
      /\ beat.taken[k] = 0
  BY <1>1 DEF HInv, SInv, TypeOK, LeftUntaken
<1>3. beat.on
  BY <1>1 DEF HInv, SInv, SleepsIdle, Sleeping
<1>4. /\ beat'.on = beat.on /\ beat'.left = beat.left \ {k}
      /\ beat'.taken[k] = counter[k] /\ counter'[k] = 0
      /\ \A j \in Counters : j # k => (beat'.taken[j] = beat.taken[j] /\ counter'[j] = counter[j])
  BY <1>1, <1>2
<1>5. \A j \in Counters : Swapped(j)' <=> Swapped(j) \/ j = k
  BY <1>3, <1>4 DEF Swapped
<1>6. ~Swapped(k)
  BY <1>1 DEF Swapped
<1>7. ASSUME NEW j \in Counters, NEW h \in Open
      PROVE  Added(j, h)' = Added(j, h)
  <2>1. CASE j = k
    BY <1>4, <1>5, <1>6, <2>1 DEF Added
  <2>2. CASE j # k
    BY <1>4, <1>5, <2>2 DEF Added
  <2> QED
    BY <2>1, <2>2
<1>8. "nars" \in Counters /\ "bytes" \in Counters
  BY DEF Counters, Totals
<1>9. /\ beat'.taken["bytes"] + counter'["bytes"] = beat.taken["bytes"] + counter["bytes"]
      /\ beat'.taken["bytes"] \in Nat /\ counter'["bytes"] \in Nat
  BY <1>2, <1>4, <1>8
<1>10. \A j \in Counters : Swapped(j) => Swapped(j)'
  BY <1>5
<1> QED
  BY <1>1, <1>7, <1>8, <1>9, <1>10, SameBalance

(* A report closes its hour: the NARs of it that have their bytes counted   *)
(* and not yet themselves are of an hour before.                            *)
LEMMA ReportKeeps ==
  ASSUME HInv, Report
  PROVE  Additions' /\ \E s \in [Open -> Nat] : Balanced(s)'
<1> DEFINE idle == ~ (beat.taken["hits"] + beat.taken["misses"] + beat.taken["nars"] > 0)
<1>1. /\ beat.on /\ beat.left = {} /\ beat' = Sleeping /\ beats' = beats + 1
      /\ req' = req /\ split' = split /\ counted' = counted /\ counter' = counter
      /\ reported' = IF idle THEN reported
                     ELSE [k \in Counters |-> reported[k] + beat.taken[k]]
  BY DEF Report
<1>2. /\ beat.taken \in [Counters -> Nat] /\ counter \in [Counters -> Nat]
      /\ reported \in [Counters -> Nat] /\ counted \in [Counters -> Nat]
      /\ beats \in Nat /\ split \in Nat /\ req \in [Conns -> Handlers] /\ Additions
      /\ None \notin Nat
  BY ServerAssumption DEF HInv, SInv, TypeOK
<1>3. "nars" \in Counters /\ "bytes" \in Counters /\ "hits" \in Counters /\ "misses" \in Counters
  BY DEF Counters, Totals
<1>4. \A c \in Conns : req[c].hour = None \/ (req[c].hour \in Nat /\ req[c].hour <= beats + 1)
  <2> SUFFICES ASSUME NEW c \in Conns, req[c].hour # None
               PROVE  req[c].hour \in Nat /\ req[c].hour <= beats + 1
    OBVIOUS
  <2>1. req[c].hour \in Nat
    BY <1>2 DEF Handlers
  <2>2. req[c].hour <= beats \/ req[c].hour = beats + 1
    BY <1>2 DEF Additions
  <2> QED
    BY <1>2, <2>1, <2>2
<1>5. Additions'
  BY <1>1, <1>2, <1>4 DEF Additions
<1>6. \A k \in Counters : Swapped(k) /\ ~Swapped(k)'
  BY <1>1 DEF Swapped, Sleeping
<1>7. \A k \in Counters : /\ Added(k, 0) = beat.taken[k] /\ Added(k, 1) = counter[k]
                          /\ Added(k, 0)' = counter[k] /\ Added(k, 1)' = 0
  BY <1>1, <1>6 DEF Added
<1>8. /\ BytesFirst(0)' = BytesFirst(1) /\ CountFirst(0)' = CountFirst(1)
      /\ BytesFirst(1)' = {} /\ CountFirst(1)' = {}
  <2>1. \A c \in Conns : /\ FirstBytes(req[c], 0)' <=> FirstBytes(req[c], 1)
                         /\ FirstCount(req[c], 0)' <=> FirstCount(req[c], 1)
                         /\ ~FirstBytes(req[c], 1)' /\ ~FirstCount(req[c], 1)'
    BY <1>1, <1>2, <1>4 DEF FirstBytes, FirstCount
  <2> QED
    BY <2>1 DEF BytesFirst, CountFirst
<1>9. BytesBefore' = BytesBefore \cup BytesFirst(0) /\ BytesBefore \cap BytesFirst(0) = {}
  <2>1. \A c \in Conns : /\ Before(req[c])' <=> Before(req[c]) \/ FirstBytes(req[c], 0)
                         /\ ~ (Before(req[c]) /\ FirstBytes(req[c], 0))
    BY <1>1, <1>2, <1>4 DEF Before, FirstBytes
  <2> QED
    BY <2>1 DEF BytesBefore, BytesFirst
<1>10. /\ Cardinality(BytesBefore)' = Cardinality(BytesBefore) + Cardinality(BytesFirst(0))
       /\ Cardinality(BytesBefore) \in Nat /\ Cardinality(BytesFirst(0)) \in Nat
       /\ Cardinality(CountFirst(0)) \in Nat
       /\ Cardinality(BytesFirst(0))' = Cardinality(BytesFirst(1))
       /\ Cardinality(CountFirst(0))' = Cardinality(CountFirst(1))
       /\ Cardinality(BytesFirst(1))' = 0 /\ Cardinality(CountFirst(1))' = 0
  <2>1. /\ BytesBefore \in SUBSET Conns /\ BytesFirst(0) \in SUBSET Conns
        /\ CountFirst(0) \in SUBSET Conns
    BY DEF BytesBefore, BytesFirst, CountFirst
  <2>2. IsFiniteSet(BytesBefore) /\ IsFiniteSet(BytesFirst(0)) /\ IsFiniteSet(CountFirst(0))
    BY <2>1, ServerAssumption, FS_Subset
  <2>3. /\ Cardinality(BytesBefore) \in Nat /\ Cardinality(BytesFirst(0)) \in Nat
        /\ Cardinality(CountFirst(0)) \in Nat
    BY <2>2, FS_CardinalityType
  <2>4. Cardinality(BytesBefore \cup BytesFirst(0)) =
          Cardinality(BytesBefore) + Cardinality(BytesFirst(0)) - Cardinality({})
    BY <1>9, <2>2, FS_Union
  <2>5. Cardinality({}) = 0
    BY FS_EmptySet
  <2>6. /\ Cardinality(BytesFirst(0))' = Cardinality(BytesFirst(1))
        /\ Cardinality(CountFirst(0))' = Cardinality(CountFirst(1))
        /\ Cardinality(BytesFirst(1))' = 0 /\ Cardinality(CountFirst(1))' = 0
    BY Zenon, <1>8, <2>5
  <2>7. Cardinality(BytesBefore)' = Cardinality(BytesBefore \cup BytesFirst(0))
    BY Zenon, <1>9
  <2> QED
    BY <2>3, <2>4, <2>5, <2>6, <2>7
<1>11. PICK s \in [Open -> Nat] : Balanced(s)
  BY DEF HInv
<1> DEFINE t == [h \in Open |-> IF h = 0 THEN s[1] ELSE 0]
<1>12. t \in [Open -> Nat] /\ t[0] = s[1] /\ t[1] = 0 /\ s[0] \in Nat /\ s[1] \in Nat
  BY DEF Open
<1> HIDE DEF t
<1>13. /\ Added("bytes", 0) + Cardinality(CountFirst(0))
            <= Added("nars", 0) + Cardinality(BytesFirst(0)) + s[0]
       /\ Added("bytes", 1) + Cardinality(CountFirst(1))
            <= Added("nars", 1) + Cardinality(BytesFirst(1)) + s[1]
       /\ counted["bytes"] + s[0] + s[1]
            <= reported["bytes"] + beat.taken["bytes"] + counter["bytes"]
                 + split + Cardinality(BytesBefore)
       /\ reported["bytes"] + s[0] + s[1]
            <= reported["nars"] + split + Cardinality(BytesBefore)
  BY <1>11 DEF Balanced, Open
<1>14. beat'.taken["bytes"] = 0
  BY <1>1, <1>3 DEF Sleeping, Zero
<1>15. /\ reported["bytes"] \in Nat /\ reported["nars"] \in Nat /\ counted["bytes"] \in Nat
       /\ beat.taken["bytes"] \in Nat /\ beat.taken["nars"] \in Nat /\ counter["bytes"] \in Nat
       /\ beat.taken["hits"] \in Nat /\ beat.taken["misses"] \in Nat
  BY <1>2, <1>3
<1>16. beat.taken["bytes"] + Cardinality(CountFirst(0))
         <= beat.taken["nars"] + Cardinality(BytesFirst(0)) + s[0]
  BY <1>3, <1>7, <1>13
<1>17. idle => beat.taken["nars"] = 0
  BY <1>15
<1>18. /\ ~idle => /\ reported'["bytes"] = reported["bytes"] + beat.taken["bytes"]
                   /\ reported'["nars"] = reported["nars"] + beat.taken["nars"]
       /\ idle => reported' = reported
  BY <1>1, <1>3
<1> HIDE DEF idle
<1>19. \A h \in Open : Added("bytes", h)' + Cardinality(CountFirst(h))'
                         <= Added("nars", h)' + Cardinality(BytesFirst(h))' + t[h]
  <2>1. Added("bytes", 0)' + Cardinality(CountFirst(0))'
          <= Added("nars", 0)' + Cardinality(BytesFirst(0))' + t[0]
    BY <1>3, <1>7, <1>10, <1>12, <1>13
  <2>2. Added("bytes", 1)' + Cardinality(CountFirst(1))'
          <= Added("nars", 1)' + Cardinality(BytesFirst(1))' + t[1]
    BY <1>3, <1>7, <1>10, <1>12
  <2> QED
    BY <2>1, <2>2 DEF Open
<1>20. counted'["bytes"] + t[0] + t[1]
         <= reported'["bytes"] + beat'.taken["bytes"] + counter'["bytes"]
              + split' + Cardinality(BytesBefore)'
  <2>1. CASE idle
    BY <1>1, <1>2, <1>10, <1>12, <1>13, <1>14, <1>15, <1>16, <1>17, <1>18, <2>1
  <2>2. CASE ~idle
    BY <1>1, <1>2, <1>10, <1>12, <1>13, <1>14, <1>15, <1>18, <2>2
  <2> QED
    BY <2>1, <2>2
<1>21. reported'["bytes"] + t[0] + t[1]
         <= reported'["nars"] + split' + Cardinality(BytesBefore)'
  <2>1. CASE idle
    BY <1>1, <1>2, <1>10, <1>12, <1>13, <1>15, <1>18, <2>1
  <2>2. CASE ~idle
    BY <1>1, <1>2, <1>10, <1>12, <1>13, <1>15, <1>16, <1>18, <2>2
  <2> QED
    BY <2>1, <2>2
<1>22. Balanced(t)'
  BY <1>19, <1>20, <1>21 DEF Balanced
<1> QED
  BY <1>5, <1>12, <1>22

LEMMA HInvStep == HInv /\ [Next]_vars => HInv'
<1> SUFFICES ASSUME HInv, [Next]_vars PROVE HInv'
  OBVIOUS
<1>1. SInv'
  BY SInvStep DEF HInv
<1> SUFFICES Additions' /\ \E s \in [Open -> Nat] : Balanced(s)'
  BY <1>1 DEF HInv
<1>2. ASSUME NEW c \in Conns, Handle(c)
      PROVE  Additions' /\ \E s \in [Open -> Nat] : Balanced(s)'
  BY <1>2, QuietKeeps, CountKeeps DEF Handle, Quiet
<1>3. CASE Stats
  BY <1>3, TickKeeps, TakeKeeps, ReportKeeps DEF Stats
<1>4. CASE UNCHANGED <<req, counter, beat, reported, counted, beats, split>>
  <2>1. /\ \A k : Swapped(k)' <=> Swapped(k)
        /\ \A k, h : Added(k, h)' = Added(k, h)
    BY <1>4 DEF Swapped, Added
  <2>2. beat.taken["bytes"] \in Nat /\ counter["bytes"] \in Nat
    BY DEF HInv, SInv, TypeOK, Counters
  <2> QED
    BY <1>4, <2>1, <2>2, SameBalance
<1>5. \/ \E c \in Conns : Handle(c)
      \/ Stats
      \/ UNCHANGED <<req, counter, beat, reported, counted, beats, split>>
  BY DEF Next, Publish, Withdraw, vars
<1> QED
  BY <1>2, <1>3, <1>4, <1>5

LEMMA SplitBounds ==
  ASSUME HInv
  PROVE  BytesLostOnlyIfSplit /\ ReportsAgree
<1> DEFINE S == {c \in Conns : req[c].hour # None}
<1>1. PICK s \in [Open -> Nat] : Balanced(s)
  BY DEF HInv
<1>2. /\ counted["bytes"] + s[0] + s[1]
           <= reported["bytes"] + beat.taken["bytes"] + counter["bytes"]
                + split + Cardinality(BytesBefore)
      /\ reported["bytes"] + s[0] + s[1]
           <= reported["nars"] + split + Cardinality(BytesBefore)
  BY <1>1 DEF Balanced
<1>3. /\ Cardinality(BytesBefore) <= Cardinality(S)
      /\ Cardinality(BytesBefore) \in Nat /\ Cardinality(S) \in Nat
  <2>1. BytesBefore \subseteq S /\ S \subseteq Conns
    BY ServerAssumption DEF BytesBefore, Before
  <2>2. IsFiniteSet(S)
    BY <2>1, ServerAssumption, FS_Subset
  <2> HIDE DEF S
  <2> QED
    BY <2>1, <2>2, FS_Subset, FS_CardinalityType
<1>4. /\ reported["bytes"] \in Nat /\ reported["nars"] \in Nat /\ counted["bytes"] \in Nat
      /\ beat.taken["bytes"] \in Nat /\ counter["bytes"] \in Nat /\ split \in Nat
      /\ s[0] \in Nat /\ s[1] \in Nat
  BY DEF HInv, SInv, TypeOK, Counters, Totals, Open
<1>5. MaybeSplit = split + Cardinality(S)
  BY DEF MaybeSplit
<1> HIDE DEF S
<1>6. counted["bytes"] <= reported["bytes"] + beat.taken["bytes"] + counter["bytes"] + MaybeSplit
  BY <1>2, <1>3, <1>4, <1>5
<1>7. reported["bytes"] <= reported["nars"] + MaybeSplit
  BY <1>2, <1>3, <1>4, <1>5
<1> QED
  BY <1>6, <1>7 DEF BytesLostOnlyIfSplit, ReportsAgree

LEMMA AlwaysHInv == Spec => []HInv
BY HInvInit, HInvStep, PTL DEF Spec

(* An idle hour forgets bytes only of NARs that a report split, or still may *)
(* be splitting: at most one NAR's bytes for each.                          *)
THEOREM LossBounded == Spec => []BytesLostOnlyIfSplit
<1>1. HInv => BytesLostOnlyIfSplit
  BY SplitBounds
<1> QED
  BY <1>1, AlwaysHInv, PTL

(* Over all reports, the bytes exceed the NARs by no more than the NARs that *)
(* the reports split, whatever the order of additions and swaps.  Nothing   *)
(* bounds the other difference: legacy files are NARs without bytes.        *)
THEOREM FiguresAgree == Spec => []ReportsAgree
<1>1. HInv => ReportsAgree
  BY SplitBounds
<1> QED
  BY <1>1, AlwaysHInv, PTL
=============================================================================
