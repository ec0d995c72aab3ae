------------------------ MODULE ArcaProcessesProofs ------------------------
(***************************************************************************)
(* Theorems about IndexRecovery, for any processes, keys and bounds, with  *)
(* or without overlapping processes, and then about ArcaProcesses, which   *)
(* gives those processes their commands.                                   *)
(***************************************************************************)
EXTENDS ArcaProcesses, FiniteSets, FiniteSetTheorems, TLAPS

-----------------------------------------------------------------------------
(* The recovery of the index. *)

ProcType == [pc : OpenPCs \cup {"off", "ready"}, want : Nat, held : Seq(Nat)]

(* Every store that has been made has a number up to fresh. *)
Numbered ==
  /\ fresh \in Nat
  /\ dir \in 1..fresh \cup {NoStore} /\ temps \subseteq 1..fresh
  /\ proc \in [Procs -> ProcType]
  /\ \A p \in Procs : \A i \in DOMAIN proc[p].held : proc[p].held[i] \in 1..fresh

(* The lock, the new incarnation after a removal and the numbered temporary *)
(* directories keep every store to one handle.                             *)
StoresUnshared ==
  \A p, q \in Procs :
    \A i \in DOMAIN proc[p].held, j \in DOMAIN proc[q].held :
      proc[p].held[i] = proc[q].held[j] => p = q /\ i = j

HInv == Numbered /\ StoresUnshared

LEMMA OffType == Off \in ProcType /\ Off.held = <<>>
BY DEF Off, ProcType, OpenPCs

(* A step that changes only the program counter keeps what processes hold. *)
LEMMA GotoKeeps ==
  ASSUME proc \in [Procs -> ProcType], NEW p \in Procs,
         NEW pc \in OpenPCs \cup {"off", "ready"}, Goto(p, pc)
  PROVE  /\ proc' \in [Procs -> ProcType]
         /\ \A q \in Procs : proc'[q].held = proc[q].held
BY DEF Goto, ProcType

LEMMA AcquireAppends ==
  ASSUME proc \in [Procs -> ProcType], NEW p \in Procs, NEW s \in Nat,
         Acquire(p, s)
  PROVE  /\ proc' \in [Procs -> ProcType]
         /\ proc'[p].held = Append(proc[p].held, s)
         /\ \A q \in Procs : q # p => proc'[q].held = proc[q].held
<1> DEFINE held == Append(proc[p].held, s)
           r == [pc |-> IF Len(held) = proc[p].want THEN "ready" ELSE "open1",
                 want |-> proc[p].want,
                 held |-> held]
<1>1. proc[p].held \in Seq(Nat) /\ proc[p].want \in Nat
  BY DEF ProcType
<1>2. held \in Seq(Nat)
  BY <1>1
<1>3. r \in ProcType
  BY <1>1, <1>2 DEF ProcType, OpenPCs
<1>4. proc' = [proc EXCEPT ![p] = r]
  BY DEF Acquire
<1> QED
  BY <1>3, <1>4

LEMMA AppendIndices ==
  ASSUME NEW h \in Seq(Nat), NEW s \in Nat
  PROVE  /\ DOMAIN Append(h, s) = DOMAIN h \cup {Len(h) + 1}
         /\ Len(h) + 1 \notin DOMAIN h
         /\ Append(h, s)[Len(h) + 1] = s
         /\ \A i \in DOMAIN h : Append(h, s)[i] = h[i]
<1>1. Len(h) \in Nat /\ DOMAIN h = 1..Len(h)
  OBVIOUS
<1>2. DOMAIN Append(h, s) = 1..(Len(h) + 1)
  OBVIOUS
<1> QED
  BY <1>1, <1>2

(* Handing a process a store that nobody holds keeps stores unshared. *)
LEMMA AcquireUnshared ==
  ASSUME HInv, NEW p \in Procs, NEW s \in Nat, ~Locked(s),
         Acquire(p, s), fresh' \in Nat, fresh <= fresh', s \in 1..fresh',
         dir' \in 1..fresh' \cup {NoStore}, temps' \subseteq 1..fresh'
  PROVE  HInv'
<1>a. proc \in [Procs -> ProcType]
  BY DEF HInv, Numbered
<1>1. /\ proc' \in [Procs -> ProcType]
      /\ proc'[p].held = Append(proc[p].held, s)
      /\ \A q \in Procs : q # p => proc'[q].held = proc[q].held
  BY <1>a, AcquireAppends
<1>2. proc[p].held \in Seq(Nat)
  BY <1>a DEF ProcType
<1> DEFINE n == Len(proc[p].held) + 1
<1>3. /\ DOMAIN proc'[p].held = DOMAIN proc[p].held \cup {n}
      /\ n \notin DOMAIN proc[p].held
      /\ proc'[p].held[n] = s
      /\ \A i \in DOMAIN proc[p].held : proc'[p].held[i] = proc[p].held[i]
  <2>1. /\ DOMAIN Append(proc[p].held, s) = DOMAIN proc[p].held \cup {n}
        /\ n \notin DOMAIN proc[p].held
        /\ Append(proc[p].held, s)[n] = s
        /\ \A i \in DOMAIN proc[p].held : Append(proc[p].held, s)[i] = proc[p].held[i]
    BY <1>2, AppendIndices
  <2> HIDE DEF n
  <2> QED
    BY <1>1, <2>1
<1>4. \A q \in Procs : \A i \in DOMAIN proc[q].held : proc[q].held[i] # s
  BY DEF Locked, HeldStores
<1>5. Numbered'
  <2>1. ASSUME NEW q \in Procs, NEW i \in DOMAIN proc'[q].held
        PROVE  proc'[q].held[i] \in 1..fresh'
    <3>1. CASE q = p /\ i = n
      BY <3>1, <1>3
    <3>2. CASE ~(q = p /\ i = n)
      <4>1. i \in DOMAIN proc[q].held /\ proc'[q].held[i] = proc[q].held[i]
        BY <3>2, <1>1, <1>3, <2>1
      <4> QED
        BY <4>1 DEF HInv, Numbered
    <3> QED
      BY <3>1, <3>2
  <2> QED
    BY <1>1, <2>1 DEF Numbered
<1>6. StoresUnshared'
  <2> SUFFICES ASSUME NEW q \in Procs, NEW r \in Procs,
                      NEW i \in DOMAIN proc'[q].held, NEW j \in DOMAIN proc'[r].held,
                      proc'[q].held[i] = proc'[r].held[j]
               PROVE  q = r /\ i = j
    BY DEF StoresUnshared
  <2>1. \A u \in Procs : \A m \in DOMAIN proc'[u].held :
          IF u = p /\ m = n
            THEN proc'[u].held[m] = s
            ELSE m \in DOMAIN proc[u].held /\ proc'[u].held[m] = proc[u].held[m]
    BY <1>1, <1>3
  <2> QED
    BY <1>4, <2>1 DEF HInv, StoresUnshared
<1> QED
  BY <1>5, <1>6 DEF HInv

LEMMA HInvInit == Init => HInv
BY OffType DEF Init, HInv, Numbered, StoresUnshared

LEMMA HInvStep == HInv /\ [Next]_vars => HInv'
<1> SUFFICES ASSUME HInv, [Next]_vars PROVE HInv'
  OBVIOUS
<1>a. /\ fresh \in Nat /\ dir \in 1..fresh \cup {NoStore} /\ temps \subseteq 1..fresh
      /\ proc \in [Procs -> ProcType]
      /\ \A p \in Procs : \A i \in DOMAIN proc[p].held : proc[p].held[i] \in 1..fresh
  BY DEF HInv, Numbered
<1>b. ~Locked(fresh + 1)
  BY <1>a DEF Locked, HeldStores
<1>1. ASSUME NEW p \in Procs, NEW n \in HandleCounts, Start(p, n)
      PROVE  HInv'
  <2>1. n \in Nat
    BY RecoveryAssumption
  <2>2. [pc |-> "open1", want |-> n, held |-> <<>>] \in ProcType
    BY <2>1 DEF ProcType, OpenPCs
  <2>3. /\ proc' \in [Procs -> ProcType]
        /\ proc'[p].held = <<>>
        /\ \A q \in Procs : q # p => proc'[q] = proc[q]
    BY <1>1, <1>a, <2>2 DEF Start
  <2> QED
    BY <1>1, <2>3 DEF HInv, Numbered, StoresUnshared, Start
<1>2. ASSUME NEW p \in Procs, OpenIndex(p)
      PROVE  HInv'
  <2>1. CASE dir = NoStore
    BY <1>2, <1>a, <1>b, <2>1, AcquireUnshared DEF OpenIndex, Opened
  <2>2. CASE dir # NoStore
    BY <1>2, <1>a, <2>2, AcquireUnshared DEF OpenIndex, Opened, CanOpen
  <2> QED
    BY <2>1, <2>2
<1>3. ASSUME NEW p \in Procs, OpenFails(p) \/ Wipe(p)
      PROVE  HInv'
  <2>1. PICK pc \in OpenPCs : Goto(p, pc)
    BY <1>3 DEF OpenFails, Wipe, OpenPCs
  <2>2. /\ proc' \in [Procs -> ProcType]
        /\ \A q \in Procs : proc'[q].held = proc[q].held
    BY <1>a, <2>1, GotoKeeps
  <2>3. dir' \in {NoStore, dir} /\ fresh' = fresh /\ temps' = temps
    BY <1>3 DEF OpenFails, Wipe
  <2> QED
    BY <2>2, <2>3 DEF HInv, Numbered, StoresUnshared
<1>4. ASSUME NEW p \in Procs, OpenTemp(p)
      PROVE  HInv'
  <2>1. PICK s \in {fresh + 1} \cup {u \in temps : ~Locked(u)} :
               /\ Acquire(p, s) /\ temps' = temps \cup {s}
               /\ fresh' = IF s \in temps THEN fresh ELSE fresh + 1
    BY <1>4 DEF OpenTemp
  <2>2. s \in 1..fresh' /\ ~Locked(s)
    BY <1>a, <1>b, <2>1 DEF HInv, Numbered
  <2> QED
    BY <1>4, <1>a, <2>1, <2>2, AcquireUnshared DEF OpenTemp
<1>5. ASSUME NEW p \in Procs, Stop(p)
      PROVE  HInv'
  <2>1. /\ proc' \in [Procs -> ProcType]
        /\ proc'[p].held = <<>>
        /\ \A q \in Procs : q # p => proc'[q] = proc[q]
    BY <1>5, <1>a, OffType DEF Stop
  <2> QED
    BY <1>5, <2>1 DEF HInv, Numbered, StoresUnshared, Stop
<1>6. ASSUME UNCHANGED <<dir, fresh, temps, proc>>
      PROVE  HInv'
  BY <1>6 DEF HInv, Numbered, StoresUnshared
<1>7. ASSUME NEW p \in Procs, NEW k \in Keys, PutRecord(p, k)
      PROVE  HInv'
  BY <1>6, <1>7 DEF PutRecord
<1>8. CASE Damage \/ UNCHANGED vars
  BY <1>6, <1>8 DEF Damage, vars
<1> QED
  BY <1>1, <1>2, <1>3, <1>4, <1>5, <1>7, <1>8 DEF Next, OpenStep

-----------------------------------------------------------------------------
(***************************************************************************)
(* Types.  A process that has started was promised its opens: the opens    *)
(* still to come, as pairs of a process and the number of its handle, and  *)
(* the stores made so far are together no more than the opens promised.    *)
(***************************************************************************)
ToCome == {s \in Procs \X (1..2) : /\ Len(proc[s[1]].held) < s[2]
                                  /\ s[2] <= proc[s[1]].want}

Wanting(o) == /\ o.want \in 0..2
              /\ Len(o.held) <= o.want
              /\ o.pc \in OpenPCs <=> Len(o.held) < o.want

Promised ==
  /\ opens \in 0..MaxOpens
  /\ IsFiniteSet(ToCome)
  /\ fresh + Cardinality(ToCome) <= opens
  /\ \A p \in Procs : Wanting(proc[p])

Recorded ==
  /\ recs \in [Stores -> SUBSET Keys]
  /\ broken \subseteq 1..fresh
  /\ acked \subseteq Keys /\ mistaken \subseteq Procs
  /\ \A s \in Stores \ 1..fresh : recs[s] = {}

TInv == HInv /\ Promised /\ Recorded

LEMMA FreshBounded == HInv /\ Promised => fresh \in 0..MaxOpens /\ MaxOpens \in Nat
<1> SUFFICES ASSUME HInv, Promised PROVE fresh \in 0..MaxOpens /\ MaxOpens \in Nat
  OBVIOUS
<1>1. Cardinality(ToCome) \in Nat
  BY FS_CardinalityType DEF Promised
<1>2. fresh \in Nat /\ fresh + Cardinality(ToCome) <= opens /\ opens \in 0..MaxOpens
  BY DEF HInv, Numbered, Promised
<1> QED
  BY <1>1, <1>2, RecoveryAssumption

LEMMA ToComeIs ==
  /\ \A t : t \in ToCome <=> \E q \in Procs, i \in 1..2 :
                               /\ t = <<q, i>>
                               /\ Len(proc[q].held) < i /\ i <= proc[q].want
  /\ \A t : t \in ToCome' <=> \E q \in Procs, i \in 1..2 :
                                /\ t = <<q, i>>
                                /\ Len(proc'[q].held) < i /\ i <= proc'[q].want
BY DEF ToCome

LEMMA AddsOne ==
  ASSUME NEW S, NEW x, IsFiniteSet(S)
  PROVE  /\ IsFiniteSet(S \cup {x})
         /\ Cardinality(S) \in Nat /\ Cardinality(S \cup {x}) \in Nat
         /\ Cardinality(S \cup {x}) <= Cardinality(S) + 1
<1> DEFINE T == S \cup {x}
<1>1. IsFiniteSet(T) /\ (Cardinality(T) = Cardinality(S) \/ Cardinality(T) = Cardinality(S) + 1)
  BY FS_AddElement
<1>2. Cardinality(S) \in Nat
  BY FS_CardinalityType
<1> HIDE DEF T
<1>3. Cardinality(T) \in Nat /\ Cardinality(T) <= Cardinality(S) + 1
  BY <1>1, <1>2
<1> QED
  BY <1>1, <1>2, <1>3 DEF T

LEMMA TInvInit == Init => TInv
<1> SUFFICES ASSUME Init PROVE TInv
  OBVIOUS
<1>1. \A p \in Procs : proc[p].want = 0 /\ proc[p].held = <<>> /\ proc[p].pc = "off"
  BY DEF Init, Off
<1>2. ToCome = {}
  BY <1>1 DEF ToCome
<1>3. IsFiniteSet(ToCome) /\ Cardinality(ToCome) = 0
  BY <1>2, FS_EmptySet
<1>4. \A p \in Procs : Wanting(proc[p])
  <2>1. Wanting(Off)
    BY DEF Wanting, Off, OpenPCs
  <2>2. \A p \in Procs : proc[p] = Off
    BY DEF Init
  <2> QED
    BY <2>1, <2>2
<1>5. Promised
  BY <1>3, <1>4, RecoveryAssumption DEF Init, Promised
<1>6. Recorded
  BY DEF Init, Recorded
<1> QED
  BY <1>5, <1>6, HInvInit DEF TInv

(* What Acquire makes of its process. *)
LEMMA AcquireSets ==
  ASSUME TInv, NEW p \in Procs, NEW s \in Nat, Acquire(p, s), proc[p].pc \in OpenPCs
  PROVE  /\ proc'[p].held = Append(proc[p].held, s)
         /\ Len(proc'[p].held) = Len(proc[p].held) + 1
         /\ proc'[p].want = proc[p].want
         /\ Wanting(proc'[p])
         /\ \A q \in Procs \ {p} : proc'[q] = proc[q]
<1> DEFINE h == Append(proc[p].held, s)
           o == [pc |-> IF Len(h) = proc[p].want THEN "ready" ELSE "open1",
                 want |-> proc[p].want, held |-> h]
<1>1. proc[p].held \in Seq(Nat) /\ proc \in [Procs -> ProcType]
  BY DEF TInv, HInv, Numbered, ProcType
<1>2. Len(h) = Len(proc[p].held) + 1 /\ Len(proc[p].held) \in Nat
  BY <1>1
<1>3. Wanting(proc[p])
  BY DEF TInv, Promised
<1>4. proc' = [proc EXCEPT ![p] = o]
  BY DEF Acquire
<1>5. proc'[p] = o /\ \A q \in Procs \ {p} : proc'[q] = proc[q]
  BY <1>1, <1>4
<1> HIDE DEF h
<1>6. Wanting(o)
  BY <1>2, <1>3 DEF Wanting, OpenPCs
<1> QED
  BY <1>2, <1>5, <1>6 DEF h

LEMMA AcquirePromised ==
  ASSUME TInv, NEW p \in Procs, NEW s \in Nat, Acquire(p, s), proc[p].pc \in OpenPCs,
         fresh' \in Nat, fresh' <= fresh + 1, opens' = opens
  PROVE  Promised'
<1> DEFINE x == <<p, Len(proc[p].held) + 1>>
<1>1. /\ Len(proc'[p].held) = Len(proc[p].held) + 1
      /\ proc'[p].want = proc[p].want
      /\ Wanting(proc'[p])
      /\ \A q \in Procs \ {p} : proc'[q] = proc[q]
  BY AcquireSets
<1>2. /\ \A q \in Procs : Wanting(proc[q]) /\ Len(proc[q].held) \in Nat
      /\ IsFiniteSet(ToCome) /\ fresh \in Nat /\ opens \in Nat
      /\ fresh + Cardinality(ToCome) <= opens
  BY DEF TInv, HInv, Numbered, Promised, ProcType
<1>3. x \in ToCome
  BY <1>2 DEF ToCome, Wanting
<1>4. ToCome' = ToCome \ {x}
  <2>1. ASSUME NEW q \in Procs, NEW i \in 1..2
        PROVE  (Len(proc'[q].held) < i /\ i <= proc'[q].want)
                 <=> (Len(proc[q].held) < i /\ i <= proc[q].want /\ <<q, i>> # x)
    <3>1. CASE q = p
      <4>1. <<q, i>> # x <=> i # Len(proc[p].held) + 1
        BY <3>1
      <4> HIDE DEF x
      <4> QED
        BY <1>1, <1>2, <3>1, <4>1
    <3>2. CASE q # p
      BY <1>1, <3>2
    <3> QED
      BY <3>1, <3>2
  <2> HIDE DEF x
  <2> QED
    BY <2>1, ToComeIs
<1>5. IsFiniteSet(ToCome') /\ Cardinality(ToCome') = Cardinality(ToCome) - 1
  BY <1>2, <1>3, <1>4, FS_RemoveElement
<1>6. Cardinality(ToCome) \in Nat
  BY <1>2, FS_CardinalityType
<1>7. fresh' + Cardinality(ToCome') <= opens'
  BY <1>2, <1>5, <1>6
<1>8. \A q \in Procs : Wanting(proc'[q])
  BY <1>1, <1>2
<1> QED
  BY <1>5, <1>7, <1>8 DEF Promised, TInv, Wanting

LEMMA TInvStep == TInv /\ [Next]_vars => TInv'
<1> SUFFICES ASSUME TInv, [Next]_vars PROVE TInv'
  OBVIOUS
<1>0. HInv'
  BY HInvStep DEF TInv
<1>a. /\ fresh \in Nat /\ dir \in 1..fresh \cup {NoStore} /\ proc \in [Procs -> ProcType]
      /\ \A p \in Procs : proc[p].held \in Seq(Nat) /\ Len(proc[p].held) \in Nat
      /\ \A p \in Procs : \A i \in DOMAIN proc[p].held : proc[p].held[i] \in 1..fresh
  BY DEF TInv, HInv, Numbered, ProcType
<1>b. /\ opens \in 0..MaxOpens /\ IsFiniteSet(ToCome) /\ Cardinality(ToCome) \in Nat
      /\ fresh + Cardinality(ToCome) <= opens
      /\ \A p \in Procs : Wanting(proc[p])
  BY FS_CardinalityType DEF TInv, Promised
<1>c. /\ recs \in [Stores -> SUBSET Keys] /\ acked \subseteq Keys
      /\ broken \subseteq 1..fresh /\ temps \subseteq 1..fresh
      /\ mistaken \subseteq Procs /\ \A s \in Stores \ 1..fresh : recs[s] = {}
  BY DEF TInv, HInv, Numbered, Recorded
<1>d. fresh \in 0..MaxOpens /\ MaxOpens \in Nat
  BY FreshBounded DEF TInv
<1>p. ASSUME ToCome' \subseteq ToCome, fresh' = fresh, opens' = opens,
             \A p \in Procs : Wanting(proc'[p])
      PROVE  Promised'
  <2>1. IsFiniteSet(ToCome') /\ Cardinality(ToCome') <= Cardinality(ToCome)
    BY <1>b, <1>p, FS_Subset
  <2>2. Cardinality(ToCome') \in Nat
    BY <2>1, FS_CardinalityType
  <2>3. fresh' + Cardinality(ToCome') <= opens'
    BY <1>a, <1>b, <1>p, <2>1, <2>2
  <2> QED
    BY <1>b, <1>p, <2>1, <2>3 DEF Promised, Wanting
<1>1. ASSUME NEW p \in Procs, NEW n \in HandleCounts, Start(p, n)
      PROVE  TInv'
  <2> DEFINE o == [pc |-> "open1", want |-> n, held |-> <<>>]
  <2>1. n \in 1..2
    BY RecoveryAssumption
  <2>2. /\ proc' = [proc EXCEPT ![p] = o] /\ proc[p] = Off /\ opens' = opens + n
        /\ opens' <= MaxOpens /\ UNCHANGED <<fresh, recs, broken, acked, mistaken>>
    BY <1>1 DEF Start
  <2>3. proc'[p] = o /\ \A q \in Procs \ {p} : proc'[q] = proc[q]
    BY <1>a, <2>2
  <2>4. Wanting(o)
    <3>1. Len(<<>>) = 0
      OBVIOUS
    <3> QED
      BY <2>1, <3>1 DEF Wanting, OpenPCs
  <2> DEFINE one == ToCome \cup {<<p, 1>>}
             two == one \cup {<<p, 2>>}
  <2>5. /\ IsFiniteSet(one) /\ IsFiniteSet(two)
        /\ Cardinality(one) <= Cardinality(ToCome) + 1
        /\ Cardinality(two) <= Cardinality(ToCome) + 2
    <3>1. IsFiniteSet(one) /\ Cardinality(one) \in Nat /\ Cardinality(one) <= Cardinality(ToCome) + 1
      BY <1>b, AddsOne
    <3> HIDE DEF one
    <3>2. IsFiniteSet(two) /\ Cardinality(two) \in Nat /\ Cardinality(two) <= Cardinality(one) + 1
      BY <3>1, AddsOne
    <3> HIDE DEF two
    <3> QED
      BY <1>b, <3>1, <3>2
  <2>6. ToCome' \subseteq IF n = 1 THEN one ELSE two
    <3> SUFFICES ASSUME NEW t \in ToCome' PROVE t \in IF n = 1 THEN one ELSE two
      OBVIOUS
    <3>1. PICK q \in Procs, i \in 1..2 : /\ t = <<q, i>>
                                        /\ Len(proc'[q].held) < i /\ i <= proc'[q].want
      BY ToComeIs
    <3>2. CASE q = p
      <4>1. i <= n
        BY <2>3, <3>1, <3>2
      <4> QED
        BY <2>1, <3>1, <3>2, <4>1
    <3>3. CASE q # p
      <4>1. t \in ToCome
        BY <2>3, <3>1, <3>3, ToComeIs
      <4> QED
        BY <4>1
    <3> QED
      BY <3>2, <3>3
  <2>7. IsFiniteSet(ToCome') /\ Cardinality(ToCome') <= Cardinality(ToCome) + n
    <3> HIDE DEF one, two
    <3>1. CASE n = 1
      <4>1. IsFiniteSet(ToCome') /\ Cardinality(ToCome') <= Cardinality(one)
        BY <2>5, <2>6, <3>1, FS_Subset
      <4>2. Cardinality(ToCome') \in Nat /\ Cardinality(one) \in Nat
        BY <2>5, <4>1, FS_CardinalityType
      <4> QED
        BY <1>b, <2>5, <3>1, <4>1, <4>2
    <3>2. CASE n = 2
      <4>1. IsFiniteSet(ToCome') /\ Cardinality(ToCome') <= Cardinality(two)
        BY <2>5, <2>6, <3>2, FS_Subset
      <4>2. Cardinality(ToCome') \in Nat /\ Cardinality(two) \in Nat
        BY <2>5, <4>1, FS_CardinalityType
      <4> QED
        BY <1>b, <2>5, <3>2, <4>1, <4>2
    <3> QED
      BY <2>1, <3>1, <3>2
  <2>8. Cardinality(ToCome') \in Nat
    BY <2>7, FS_CardinalityType
  <2>9. fresh' + Cardinality(ToCome') <= opens' /\ opens' \in 0..MaxOpens
    BY <1>a, <1>b, <1>d, <2>1, <2>2, <2>7, <2>8
  <2>10. Promised'
    BY <1>b, <2>3, <2>4, <2>7, <2>9 DEF Promised, Wanting
  <2>11. Recorded'
    BY <1>c, <2>2 DEF Recorded
  <2> QED
    BY <1>0, <2>10, <2>11 DEF TInv
<1>2. ASSUME NEW p \in Procs, OpenIndex(p) \/ OpenTemp(p)
      PROVE  TInv'
  <2>1. /\ proc[p].pc \in OpenPCs /\ opens' = opens
        /\ UNCHANGED <<recs, broken, acked, mistaken>>
        /\ fresh' \in {fresh, fresh + 1}
    BY <1>2 DEF OpenIndex, OpenTemp, OpenPCs
  <2>2. \E s \in Nat : Acquire(p, s)
    BY <1>2, <1>a, <1>c DEF OpenIndex, OpenTemp, Opened, CanOpen
  <2>3. Promised'
    BY <1>a, <2>1, <2>2, AcquirePromised
  <2>4. 1..fresh \subseteq 1..fresh'
    BY <1>a, <2>1
  <2>5. Recorded'
    BY <1>c, <2>1, <2>4 DEF Recorded
  <2> QED
    BY <1>0, <2>3, <2>5 DEF TInv
<1>3. ASSUME NEW p \in Procs, OpenFails(p) \/ Wipe(p)
      PROVE  TInv'
  <2>1. PICK pc \in OpenPCs : Goto(p, pc)
    BY <1>3 DEF OpenFails, Wipe, OpenPCs
  <2>2. /\ proc[p].pc \in OpenPCs /\ UNCHANGED <<fresh, recs, broken, opens>>
        /\ acked' \subseteq acked /\ mistaken' \subseteq Procs
    BY <1>3, <1>c DEF OpenFails, NoteLock, Wipe, OpenPCs
  <2>3. /\ proc'[p].held = proc[p].held /\ proc'[p].want = proc[p].want /\ proc'[p].pc = pc
        /\ \A q \in Procs \ {p} : proc'[q] = proc[q]
    BY <1>a, <2>1 DEF Goto, ProcType
  <2>4. \A q \in Procs : Wanting(proc'[q])
    BY <1>b, <2>1, <2>2, <2>3 DEF Wanting
  <2>5. ToCome' \subseteq ToCome
    BY <2>3 DEF ToCome
  <2> QED
    BY <1>0, <1>c, <1>p, <2>2, <2>4, <2>5 DEF TInv, Recorded
<1>4. ASSUME NEW p \in Procs, Stop(p)
      PROVE  TInv'
  <2>1. /\ proc'[p] = Off /\ \A q \in Procs \ {p} : proc'[q] = proc[q]
        /\ UNCHANGED <<fresh, recs, broken, opens, acked>> /\ mistaken' \subseteq Procs
    BY <1>4, <1>a, <1>c DEF Stop
  <2>2. Off.want = 0 /\ Len(Off.held) = 0 /\ Off.pc = "off"
    BY DEF Off
  <2>3. \A q \in Procs : Wanting(proc'[q])
    BY <1>b, <2>1, <2>2 DEF Wanting, OpenPCs
  <2>4. ToCome' \subseteq ToCome
    BY <2>1, <2>2 DEF ToCome
  <2> QED
    BY <1>0, <1>c, <1>p, <2>1, <2>3, <2>4 DEF TInv, Recorded
<1>5. ASSUME NEW p \in Procs, NEW k \in Keys, PutRecord(p, k)
      PROVE  TInv'
  <2>1. UNCHANGED <<fresh, opens, proc, broken, mistaken>>
    BY <1>5 DEF PutRecord
  <2>2. ToCome' = ToCome
    BY <2>1 DEF ToCome
  <2>3. /\ recs' \in [Stores -> SUBSET Keys] /\ acked' \subseteq Keys
        /\ \A s \in Stores \ 1..fresh : recs'[s] = {}
    <3>1. PICK s \in HeldStores(p) : /\ recs' = [recs EXCEPT ![s] = @ \cup {k}]
                                     /\ acked' = IF s = dir THEN acked \cup {k} ELSE acked
      BY <1>5 DEF PutRecord
    <3>2. s \in 1..fresh
      BY <1>a DEF HeldStores
    <3> QED
      BY <1>c, <3>1, <3>2
  <2> QED
    BY <1>0, <1>b, <1>c, <1>p, <2>1, <2>2, <2>3 DEF TInv, Recorded
<1>6. CASE Damage
  <2>1. UNCHANGED <<fresh, opens, proc, recs, mistaken>> /\ acked' = {}
        /\ broken' = broken \cup {dir} /\ dir # NoStore
    BY <1>6 DEF Damage
  <2>2. ToCome' = ToCome
    BY <2>1 DEF ToCome
  <2> QED
    BY <1>0, <1>a, <1>b, <1>c, <1>p, <2>1, <2>2 DEF TInv, Recorded
<1>7. CASE UNCHANGED vars
  <2>1. UNCHANGED <<fresh, opens, proc, recs, acked, broken, mistaken>>
    BY <1>7 DEF vars
  <2>2. ToCome' = ToCome
    BY <2>1 DEF ToCome
  <2> QED
    BY <1>0, <1>b, <1>c, <1>p, <2>1, <2>2 DEF TInv, Recorded
<1> QED
  BY <1>1, <1>2, <1>3, <1>4, <1>5, <1>6, <1>7 DEF Next, OpenStep

LEMMA TInvAlways == Spec => []TInv
BY TInvInit, TInvStep, PTL DEF Spec

(* No recovery makes more stores than opens were promised, and a process   *)
(* holds what it has opened.                                               *)
THEOREM TypeCorrect == Spec => []TypeOK
<1>1. TInv => TypeOK
  <2> SUFFICES ASSUME TInv PROVE TypeOK
    OBVIOUS
  <2>1. fresh \in 0..MaxOpens /\ MaxOpens \in Nat
    BY FreshBounded DEF TInv
  <2>2. 1..fresh \subseteq Stores
    BY <2>1 DEF Stores
  <2>3. ASSUME NEW p \in Procs
        PROVE  proc[p].held \in Seq(Stores)
    <3>1. proc[p].held \in Seq(Nat) /\ \A i \in DOMAIN proc[p].held : proc[p].held[i] \in Stores
      BY <2>2 DEF TInv, HInv, Numbered, ProcType
    <3> QED
      BY <3>1
  <2> QED
    BY <2>1, <2>2, <2>3
    DEF TInv, HInv, Numbered, Promised, Recorded, TypeOK, ProcType, Wanting
<1> QED
  BY <1>1, TInvAlways, PTL

-----------------------------------------------------------------------------
(***************************************************************************)
(* What the recovery does to the index at the path.  Damage needs a store  *)
(* that nobody has open, so one that is open is whole; and a process about *)
(* to remove the index has seen damage there that is still there, or is    *)
(* noted as mistaken.                                                      *)
(***************************************************************************)
OpenOnesWhole == \A p \in Procs : dir \in HeldStores(p) => dir \notin broken

WipersSawDamage ==
  \A p \in Procs : proc[p].pc = "wipe" /\ p \notin mistaken => dir \in broken

DirKept == /\ dir \notin temps
           /\ dir \in broken => acked = {}
           /\ RecordsSurvive

EInv == TInv /\ OpenOnesWhole /\ WipersSawDamage /\ DirKept

LEMMA EInvInit == Init => EInv
<1> SUFFICES ASSUME Init PROVE EInv
  OBVIOUS
<1>1. \A p \in Procs : proc[p].pc = "off" /\ proc[p].held = <<>>
  BY DEF Init, Off
<1>2. OpenOnesWhole /\ WipersSawDamage
  BY <1>1 DEF Init, OpenOnesWhole, WipersSawDamage
<1>3. DirKept
  BY DEF Init, DirKept, RecordsSurvive
<1> QED
  BY <1>2, <1>3, TInvInit DEF EInv

(* A process that gets a handle holds one store more, and wipes nothing.   *)
LEMMA AcquireHolds ==
  ASSUME TInv, NEW p \in Procs, NEW s \in Nat, Acquire(p, s)
  PROVE  /\ HeldStores(p)' = HeldStores(p) \cup {s}
         /\ proc'[p].pc \in {"ready", "open1"}
         /\ \A q \in Procs \ {p} : proc'[q] = proc[q] /\ HeldStores(q)' = HeldStores(q)
<1>1. proc \in [Procs -> ProcType] /\ proc[p].held \in Seq(Nat)
  BY DEF TInv, HInv, Numbered, ProcType
<1>2. proc'[p].held = Append(proc[p].held, s)
  BY <1>1, AcquireAppends
<1>3. /\ proc'[p].pc \in {"ready", "open1"}
      /\ \A q \in Procs \ {p} : proc'[q] = proc[q]
  BY <1>1 DEF Acquire
<1>4. HeldStores(p)' = HeldStores(p) \cup {s}
  BY <1>1, <1>2, AppendIndices DEF HeldStores
<1> QED
  BY <1>3, <1>4 DEF HeldStores

LEMMA OpenKeepsIndex ==
  ASSUME EInv, NEW p \in Procs, OpenIndex(p) \/ OpenTemp(p)
  PROVE  OpenOnesWhole' /\ WipersSawDamage' /\ DirKept'
<1>a. /\ fresh \in Nat /\ dir \in 1..fresh \cup {NoStore} /\ NoStore \notin Nat
      /\ temps \subseteq 1..fresh /\ broken \subseteq 1..fresh
  BY RecoveryAssumption DEF EInv, TInv, HInv, Numbered, Recorded
<1>b. OpenOnesWhole /\ WipersSawDamage /\ DirKept
  BY DEF EInv
<1>h. \A q \in Procs : \A s \in HeldStores(q) : s \in 1..fresh
  BY DEF EInv, TInv, HInv, Numbered, HeldStores
<1>1. UNCHANGED <<recs, broken, acked, mistaken>>
  BY DEF OpenIndex, OpenTemp
<1>2. CASE OpenIndex(p)
  <2>0. /\ Acquire(p, Opened) /\ dir' = Opened /\ temps' = temps
        /\ dir = NoStore \/ dir \notin broken
    BY <1>2 DEF OpenIndex, CanOpen
  <2>a. \/ Opened = dir /\ dir # NoStore
        \/ Opened = fresh + 1 /\ dir = NoStore
    BY DEF Opened
  <2> HIDE DEF Opened
  <2>1. /\ Acquire(p, Opened) /\ dir' = Opened /\ temps' = temps
        /\ Opened \in Nat /\ Opened \notin broken /\ dir \notin broken
        /\ \/ Opened = dir
           \/ Opened = fresh + 1 /\ dir = NoStore
    BY <1>a, <2>0, <2>a
  <2> HIDE DEF Opened
  <2>2. \A q \in Procs : proc'[q].pc = "wipe" => proc[q].pc = "wipe"
    BY <2>1, AcquireHolds DEF EInv
  <2>3. OpenOnesWhole'
    BY <1>1, <2>1 DEF OpenOnesWhole
  <2>4. WipersSawDamage'
    BY <1>1, <1>b, <2>1, <2>2 DEF WipersSawDamage
  <2>5. DirKept'
    BY <1>1, <1>a, <1>b, <2>1 DEF DirKept, RecordsSurvive
  <2> QED
    BY <2>3, <2>4, <2>5
<1>3. CASE OpenTemp(p)
  <2>1. PICK s \in {fresh + 1} \cup {u \in temps : ~Locked(u)} :
               Acquire(p, s) /\ temps' = temps \cup {s}
    BY <1>3 DEF OpenTemp
  <2>2. dir' = dir /\ s \in Nat /\ s # dir
    BY <1>3, <1>a, <1>b, <2>1 DEF OpenTemp, DirKept
  <2>3. /\ \A q \in Procs : proc'[q].pc = "wipe" => proc[q].pc = "wipe"
        /\ \A q \in Procs : dir \in HeldStores(q)' => dir \in HeldStores(q)
    BY <2>1, <2>2, AcquireHolds DEF EInv
  <2>4. OpenOnesWhole'
    BY <1>1, <1>b, <2>2, <2>3 DEF OpenOnesWhole
  <2>5. WipersSawDamage'
    BY <1>1, <1>b, <2>2, <2>3 DEF WipersSawDamage
  <2>6. DirKept'
    BY <1>1, <1>b, <2>1, <2>2 DEF DirKept, RecordsSurvive
  <2> QED
    BY <2>4, <2>5, <2>6
<1> QED
  BY <1>2, <1>3

LEMMA EInvStep == EInv /\ [Next]_vars => EInv'
<1> SUFFICES ASSUME EInv, [Next]_vars PROVE EInv'
  OBVIOUS
<1>0. TInv'
  BY TInvStep DEF EInv
<1>a. /\ dir \in 1..fresh \cup {NoStore} /\ proc \in [Procs -> ProcType]
      /\ NoStore \notin Nat /\ broken \subseteq 1..fresh
      /\ recs \in [Stores -> SUBSET Keys] /\ fresh \in 0..MaxOpens /\ MaxOpens \in Nat
  BY RecoveryAssumption, FreshBounded DEF EInv, TInv, HInv, Numbered, Recorded
<1>b. OpenOnesWhole /\ WipersSawDamage /\ DirKept
  BY DEF EInv
<1>1. ASSUME NEW p \in Procs, NEW n \in HandleCounts, Start(p, n)
      PROVE  EInv'
  <2> DEFINE o == [pc |-> "open1", want |-> n, held |-> <<>>]
  <2>1. /\ proc' = [proc EXCEPT ![p] = o]
        /\ UNCHANGED <<dir, recs, broken, temps, acked, mistaken>>
    BY <1>1 DEF Start
  <2>2. /\ proc'[p].pc = "open1" /\ proc'[p].held = <<>>
        /\ \A q \in Procs \ {p} : proc'[q] = proc[q]
    BY <1>a, <2>1
  <2>3. OpenOnesWhole' /\ WipersSawDamage'
    BY <1>b, <2>1, <2>2 DEF OpenOnesWhole, HeldStores, WipersSawDamage
  <2>4. DirKept'
    BY <1>b, <2>1 DEF DirKept, RecordsSurvive
  <2> QED
    BY <1>0, <2>3, <2>4 DEF EInv
<1>2. ASSUME NEW p \in Procs, OpenIndex(p) \/ OpenTemp(p)
      PROVE  EInv'
  BY <1>0, <1>2, OpenKeepsIndex DEF EInv
<1>3. ASSUME NEW p \in Procs, OpenFails(p)
      PROVE  EInv'
  <2>1. PICK pc : /\ Goto(p, pc) /\ (pc = "wipe" <=> proc[p].pc = "open2")
    BY <1>3 DEF OpenFails
  <2>2. /\ proc'[p].pc = pc /\ proc'[p].held = proc[p].held
        /\ \A q \in Procs \ {p} : proc'[q] = proc[q]
        /\ UNCHANGED <<dir, recs, broken, temps, acked>>
        /\ mistaken' = IF proc[p].pc = "open2" /\ Locked(dir) THEN mistaken \cup {p} ELSE mistaken
    BY <1>3, <1>a, <2>1 DEF Goto, ProcType, OpenFails, NoteLock
  <2>3. dir \in broken \/ Locked(dir)
    BY <1>3 DEF OpenFails, CanOpen
  <2>4. WipersSawDamage'
    BY <1>b, <2>1, <2>2, <2>3 DEF WipersSawDamage
  <2>5. OpenOnesWhole'
    BY <1>b, <2>2 DEF OpenOnesWhole, HeldStores
  <2>6. DirKept'
    BY <1>b, <2>2 DEF DirKept, RecordsSurvive
  <2> QED
    BY <1>0, <2>4, <2>5, <2>6 DEF EInv
<1>4. ASSUME NEW p \in Procs, Wipe(p)
      PROVE  EInv'
  <2>1. /\ Goto(p, "open3") /\ proc[p].pc = "wipe" /\ dir' \in {NoStore, dir}
        /\ UNCHANGED <<recs, broken, temps>>
        /\ acked' = IF dir' # dir /\ p \in mistaken THEN {} ELSE acked
        /\ mistaken' = (mistaken \ {p}) \cup
                         {q \in Procs : q # p /\ proc[q].pc = "wipe" /\ dir' # dir}
    BY <1>4 DEF Wipe
  <2>2. /\ proc'[p].pc = "open3" /\ proc'[p].held = proc[p].held
        /\ \A q \in Procs \ {p} : proc'[q] = proc[q]
    BY <1>a, <2>1 DEF Goto, ProcType
  <2>3. WipersSawDamage'
    BY <1>b, <2>1, <2>2 DEF WipersSawDamage
  <2>4. OpenOnesWhole'
    <3>1. \A q \in Procs : HeldStores(q)' = HeldStores(q)
      BY <2>2 DEF HeldStores
    <3>2. NoStore \notin broken
      <4>1. fresh \in Nat
        BY DEF EInv, TInv, HInv, Numbered
      <4>2. 1..fresh \subseteq Nat
        BY <4>1
      <4> QED
        BY <1>a, <4>2
    <3> QED
      BY <1>b, <2>1, <3>1, <3>2 DEF OpenOnesWhole
  <2>5. DirKept'
    <3>1. CASE dir' = dir
      BY <1>b, <2>1, <3>1 DEF DirKept, RecordsSurvive
    <3>2. CASE dir' # dir
      <4>1. acked' = {}
        BY <1>b, <2>1, <3>2 DEF WipersSawDamage, DirKept
      <4>2. temps \subseteq Nat
        BY <1>a DEF EInv, TInv, HInv, Numbered
      <4> QED
        BY <1>a, <2>1, <3>2, <4>1, <4>2 DEF DirKept, RecordsSurvive
    <3> QED
      BY <3>1, <3>2
  <2> QED
    BY <1>0, <2>3, <2>4, <2>5 DEF EInv
<1>5. ASSUME NEW p \in Procs, Stop(p)
      PROVE  EInv'
  <2>1. /\ proc'[p] = Off /\ \A q \in Procs \ {p} : proc'[q] = proc[q]
        /\ UNCHANGED <<dir, recs, broken, temps, acked>> /\ mistaken' = mistaken \ {p}
    BY <1>5, <1>a DEF Stop
  <2>2. Off.pc = "off" /\ Off.held = <<>>
    BY DEF Off
  <2>3. OpenOnesWhole' /\ WipersSawDamage'
    BY <1>b, <2>1, <2>2 DEF OpenOnesWhole, HeldStores, WipersSawDamage
  <2>4. DirKept'
    BY <1>b, <2>1 DEF DirKept, RecordsSurvive
  <2> QED
    BY <1>0, <2>3, <2>4 DEF EInv
<1>6. ASSUME NEW p \in Procs, NEW k \in Keys, PutRecord(p, k)
      PROVE  EInv'
  <2>1. UNCHANGED <<dir, broken, temps, proc, mistaken>>
    BY <1>6 DEF PutRecord
  <2>2. OpenOnesWhole' /\ WipersSawDamage'
    BY <1>b, <2>1 DEF OpenOnesWhole, HeldStores, WipersSawDamage
  <2>3. PICK s \in HeldStores(p) :
          /\ recs' = [recs EXCEPT ![s] = @ \cup {k}]
          /\ acked' = IF s = dir THEN acked \cup {k} ELSE acked
    BY <1>6 DEF PutRecord
  <2>4. dir # NoStore => /\ recs[dir] \subseteq recs'[dir]
                         /\ s = dir => k \in recs'[dir]
    BY <1>a, <2>3 DEF Stores
  <2>5. s = dir => dir \notin broken /\ dir # NoStore
    BY <1>a, <1>b, <2>3 DEF OpenOnesWhole, HeldStores, EInv, TInv, HInv, Numbered
  <2>6. DirKept'
    BY <1>b, <2>1, <2>3, <2>4, <2>5 DEF DirKept, RecordsSurvive
  <2> QED
    BY <1>0, <2>2, <2>6 DEF EInv
<1>7. CASE Damage
  <2>1. /\ broken' = broken \cup {dir} /\ ~Locked(dir) /\ acked' = {}
        /\ UNCHANGED <<dir, recs, temps, proc, mistaken>>
    BY <1>7 DEF Damage
  <2>2. OpenOnesWhole' /\ WipersSawDamage'
    BY <1>b, <2>1 DEF OpenOnesWhole, HeldStores, Locked, WipersSawDamage
  <2>3. DirKept'
    BY <1>b, <2>1 DEF DirKept, RecordsSurvive
  <2> QED
    BY <1>0, <2>2, <2>3 DEF EInv
<1>8. CASE UNCHANGED vars
  BY <1>0, <1>8, <1>b DEF EInv, OpenOnesWhole, HeldStores, WipersSawDamage, DirKept,
                          RecordsSurvive, vars
<1> QED
  BY <1>1, <1>2, <1>3, <1>4, <1>5, <1>6, <1>7, <1>8 DEF Next, OpenStep

(* What has been put into the index at the path stays there, however opens *)
(* and recoveries of any number of processes overlap and wherever they     *)
(* stop, until the files are damaged or a mistaken recovery removes them.  *)
THEOREM RecordsStay == Spec => []RecordsSurvive
<1>1. EInv => RecordsSurvive
  BY DEF EInv, DirKept
<1> QED
  BY <1>1, EInvInit, EInvStep, PTL DEF Spec

(* Whatever overlaps, an index that is not damaged is removed only by a    *)
(* recovery that found it locked, or whose own has been removed.           *)
THEOREM WipesHaveCauses == Spec => WipesExplained
<1> DEFINE A == \A p \in Procs :
                  Wipe(p) /\ dir' # dir /\ dir \notin broken => p \in mistaken
<1>1. EInv => A
  BY DEF EInv, WipersSawDamage, Wipe
<1>2. Spec => [][A]_vars
  BY <1>1, EInvInit, EInvStep, PTL DEF Spec
<1> QED
  BY <1>2 DEF WipesExplained

-----------------------------------------------------------------------------
(* The commands. *)

Steps == {"none", "begin", "index", "narinfo", "loop", "end"}

JobType == [cmd : Commands \cup {"none"}, step : Steps, todo : SUBSET Keys,
            solo : BOOLEAN]

(* A process that runs has a command, and opens the stores of that command; *)
(* one that has run by itself is the only one.                             *)
Jobs ==
  /\ job \in [Procs -> JobType] /\ narinfo \subseteq Keys
  /\ \A p \in Procs :
       /\ proc[p].pc = "off" <=> proc[p] = Off
       /\ proc[p] = Off <=> job[p].cmd = "none"
       /\ proc[p] # Off => proc[p].want = Handles(job[p].cmd)
       /\ proc[p].pc \in OpenPCs => job[p].step = "begin"
       /\ job[p].solo => \A q \in Procs \ {p} : proc[q] = Off

(* What an import that runs by itself has done so far. *)
SoloImport(p) ==
  /\ job[p].cmd = "import" /\ job[p].step \in {"begin", "index", "narinfo"}
       => \E k \in Keys : job[p].todo = {k}
  /\ job[p].solo /\ proc[p].pc = "ready" /\ Own(p) \notin temps
       => Own(p) = dir /\ dir \notin broken
  /\ job[p].solo /\ job[p].cmd = "import" =>
       /\ proc[p].pc = "ready" /\ job[p].step = "begin" /\ Own(p) \notin temps
            => recs[Own(p)] = {}
       /\ job[p].step \in {"index", "narinfo"} => job[p].todo \subseteq blobs
       /\ job[p].step = "narinfo" => job[p].todo \subseteq recs[Own(p)]

SoloImports == \A p \in Procs : SoloImport(p)

(* An import that runs by itself finds the path locked, damaged or empty   *)
(* when it opens its second store; its first goes to a temporary directory *)
(* only for damage.                                                        *)
SoloOpens ==
  \A p \in Procs : job[p].solo /\ job[p].cmd = "import" =>
    /\ proc[p].pc = "open4" /\ proc[p].held = <<>> => dir \in broken
    /\ proc[p].pc \in OpenPCs /\ proc[p].held # <<>> =>
         dir = NoStore \/ dir \in broken \/ dir \in HeldStores(p)

(* While the last import counts, only it or a server can be running.  The  *)
(* server opens the index at its first attempt.                            *)
AfterImport(p) ==
  /\ job[p].solo
  /\ \/ job[p].cmd = "import" /\ job[p].step = "end" /\ proc[p].pc = "ready"
     \/ /\ job[p].cmd = "serve" /\ job[p].step = "begin"
        /\ \/ proc[p].pc = "open1" /\ proc[p].held = <<>>
           \/ proc[p].pc = "ready" /\ proc[p].held = <<dir>>

IsKept(l) == /\ l.key \in narinfo
             /\ l.put => l.key \in blobs
             /\ l.put <=> l.key \in recs[dir]

LastKept ==
  last # {} =>
    /\ \A l \in last : IsKept(l)
    /\ dir # NoStore /\ dir \notin broken
    /\ \A p \in Procs : proc[p] = Off \/ AfterImport(p)

Works == SoloImports /\ SoloOpens /\ LastKept

PInv == TInv /\ Jobs /\ Works

-----------------------------------------------------------------------------
(* Every step of a process is one of IndexRecovery, but for gc's, which     *)
(* only takes a record away.                                               *)
LEMMA ProcSteps ==
  ASSUME Jobs, [ProcNext]_procVars
  PROVE  [Next]_vars \/ \E p \in Procs, k \in Keys : GcEntry(p, k)
<1>1. ASSUME NEW p \in Procs, NEW cmd \in Commands, NEW P, Command(p, cmd, P)
      PROVE  Next
  BY <1>1, ProcessesAssumption DEF Command, Next
<1>2. ASSUME NEW p \in Procs, ImportIndex(p)
      PROVE  Next
  BY <1>2 DEF ImportIndex, Next, Jobs, JobType
<1>3. ASSUME NEW p \in Procs, Work(p)
      PROVE  \/ Next \/ UNCHANGED vars \/ \E k \in Keys : GcEntry(p, k)
  BY <1>2, <1>3 DEF Work, ImportBlob, ImportNarinfo, GcCollect, Receive, Next
<1>4. ASSUME NEW p \in Procs, Opening(p) \/ Exit(p)
      PROVE  Next
  BY <1>4 DEF Opening, Exit, Next
<1>5. CASE Damaged
  BY <1>5 DEF Damaged, Next
<1>6. CASE UNCHANGED procVars
  BY <1>6 DEF procVars
<1> QED
  BY <1>1, <1>3, <1>4, <1>5, <1>6 DEF ProcNext, Commands

LEMMA GcKeepsTypes ==
  ASSUME TInv, NEW p \in Procs, NEW k \in Keys, GcEntry(p, k)
  PROVE  TInv'
<1>1. UNCHANGED <<dir, fresh, broken, temps, proc, opens, mistaken>> /\ acked' \subseteq acked
  BY DEF GcEntry
<1>2. recs' \in [Stores -> SUBSET Keys] /\ \A s \in Stores : recs'[s] \subseteq recs[s]
  BY DEF TInv, Recorded, GcEntry
<1>3. ToCome' = ToCome
  BY <1>1 DEF ToCome
<1> QED
  BY <1>1, <1>2, <1>3 DEF TInv, HInv, Numbered, StoresUnshared, Promised, Recorded

LEMMA TypesKept == TInv /\ Jobs /\ [ProcNext]_procVars => TInv'
BY ProcSteps, TInvStep, GcKeepsTypes

(* A process at work holds the stores of its command, all of them made. *)
LEMMA ReadyHolds ==
  ASSUME TInv, Jobs, NEW p \in Procs, proc[p].pc = "ready"
  PROVE  /\ proc[p] # Off /\ job[p].cmd # "none"
         /\ Len(proc[p].held) = Handles(job[p].cmd)
         /\ Len(proc[p].held) \in DOMAIN proc[p].held /\ 1 \in DOMAIN proc[p].held
         /\ Own(p) \in HeldStores(p) /\ Replica(p) \in HeldStores(p)
         /\ Own(p) \in Stores /\ Replica(p) \in Stores
<1>1. proc[p].held \in Seq(Nat) /\ Wanting(proc[p])
  BY DEF TInv, HInv, Numbered, Promised, ProcType
<1>2. proc[p] # Off /\ job[p].cmd # "none"
  BY DEF Jobs
<1>3. Len(proc[p].held) = proc[p].want
  BY <1>1 DEF Wanting, OpenPCs
<1>4. proc[p].want = Handles(job[p].cmd)
  BY <1>2 DEF Jobs
<1>5. Len(proc[p].held) \in 1..2
  BY <1>3, <1>4 DEF Handles
<1>6. DOMAIN proc[p].held = 1..Len(proc[p].held)
  BY <1>1
<1>7. Len(proc[p].held) \in DOMAIN proc[p].held /\ 1 \in DOMAIN proc[p].held
  BY <1>5, <1>6
<1>8. fresh \in 0..MaxOpens /\ MaxOpens \in Nat
  BY FreshBounded DEF TInv
<1>9. \A i \in DOMAIN proc[p].held : proc[p].held[i] \in Stores
  BY <1>8 DEF TInv, HInv, Numbered, Stores
<1> QED
  BY <1>2, <1>3, <1>4, <1>7, <1>9 DEF Own, Replica, HeldStores

LEMMA PInvInit == ProcInit => PInv
<1> SUFFICES ASSUME ProcInit PROVE PInv
  OBVIOUS
<1>1. TInv
  BY TInvInit DEF ProcInit
<1>2. NoJob \in JobType /\ NoJob.cmd = "none" /\ ~NoJob.solo
  BY DEF NoJob, JobType, Steps
<1>3. \A p \in Procs : proc[p] = Off /\ job[p] = NoJob
  BY DEF ProcInit, Init
<1>4. Jobs
  BY <1>2, <1>3 DEF ProcInit, Jobs, Off, OpenPCs
<1>5. SoloImports
  BY <1>2, <1>3 DEF SoloImports, SoloImport
<1>6. SoloOpens /\ LastKept
  BY <1>2, <1>3 DEF ProcInit, SoloOpens, LastKept
<1> QED
  BY <1>1, <1>4, <1>5, <1>6 DEF PInv, Works

(* A command starts: it runs by itself if nothing else does. *)
LEMMA CommandKeeps ==
  ASSUME PInv, NEW p \in Procs, NEW cmd \in Commands, NEW P \in SUBSET Keys,
         cmd = "import" => \E k \in Keys : P = {k}, Command(p, cmd, P)
  PROVE  Jobs' /\ Works'
<1> DEFINE o == [pc |-> "open1", want |-> Handles(cmd), held |-> <<>>]
           solo == \A q \in Procs : proc[q] = Off
           j == [cmd |-> cmd, step |-> "begin", todo |-> P, solo |-> solo]
<1>1. /\ proc \in [Procs -> ProcType] /\ job \in [Procs -> JobType]
  BY DEF PInv, TInv, HInv, Numbered, Jobs
<1>2. /\ proc' = [proc EXCEPT ![p] = o] /\ proc[p] = Off
      /\ UNCHANGED <<dir, fresh, recs, broken, temps, narinfo, blobs>>
      /\ job' = [q \in Procs |-> IF q = p THEN j ELSE [job[q] EXCEPT !.solo = FALSE]]
      /\ last' = IF solo /\ cmd = "serve" THEN last ELSE {}
  BY DEF Command, Start
<1>3. proc'[p] = o /\ \A q \in Procs \ {p} : proc'[q] = proc[q]
  BY <1>1, <1>2
<1>4. /\ job'[p] = j
      /\ \A q \in Procs \ {p} : /\ job'[q].cmd = job[q].cmd /\ job'[q].step = job[q].step
                               /\ job'[q].todo = job[q].todo /\ job'[q].solo = FALSE
  BY <1>1, <1>2 DEF JobType
<1>5. j \in JobType
  <2>1. solo \in BOOLEAN
    OBVIOUS
  <2> HIDE DEF solo
  <2> QED
    BY <2>1 DEF JobType, Steps
<1>6. job' \in [Procs -> JobType]
  BY <1>1, <1>2, <1>5 DEF JobType
<1>7. /\ o.pc = "open1" /\ o.held = <<>> /\ o.want = Handles(cmd) /\ o # Off
      /\ j.cmd = cmd /\ j.step = "begin" /\ j.todo = P /\ j.solo = solo /\ cmd # "none"
  BY DEF Off, Commands
<1>8. solo => \A q \in Procs \ {p} : proc'[q] = Off
  BY <1>3
<1> HIDE DEF o, j, solo
<1>9. Jobs'
  BY <1>2, <1>3, <1>4, <1>6, <1>7, <1>8 DEF PInv, Jobs
<1>10. SoloImports'
  <2>1. ASSUME NEW q \in Procs, job'[q].cmd = "import",
               job'[q].step \in {"begin", "index", "narinfo"}
        PROVE  \E k \in Keys : job'[q].todo = {k}
    BY <1>4, <1>7, <2>1 DEF PInv, Works, SoloImports, SoloImport
  <2> QED
    BY <1>3, <1>4, <1>7, <2>1 DEF SoloImports, SoloImport
<1>11. LastKept'
  <2> SUFFICES ASSUME last' # {} PROVE LastKept'
    BY DEF LastKept
  <2>1. solo /\ cmd = "serve" /\ last' = last /\ last # {}
    BY <1>2
  <2>2. (\A l \in last : IsKept(l)) /\ dir # NoStore /\ dir \notin broken
    BY <2>1 DEF PInv, Works, LastKept
  <2>3. \A q \in Procs : proc'[q] = Off \/ AfterImport(q)'
    BY <1>3, <1>4, <1>7, <1>8, <2>1 DEF AfterImport
  <2> QED
    BY <1>2, <2>1, <2>2, <2>3 DEF LastKept, IsKept
<1>12. SoloOpens'
  BY <1>3, <1>4, <1>7 DEF SoloOpens
<1> QED
  BY <1>9, <1>10, <1>11, <1>12 DEF Works

(* What a step of an open does to its process, and what it ends with: the  *)
(* index at the path, unbroken, or a temporary store.                      *)
LEMMA OpenMoves ==
  ASSUME TInv, NEW p \in Procs, OpenStep(p)
  PROVE  /\ proc[p].pc \in OpenPCs
         /\ \A q \in Procs \ {p} : proc'[q] = proc[q]
         /\ proc'[p].want = proc[p].want
         /\ proc'[p].pc \in OpenPCs \cup {"ready"}
         /\ recs' = recs /\ broken' = broken
         /\ proc'[p].pc = "ready" =>
              \/ Own(p)' \in temps'
              \/ OpenIndex(p) /\ Own(p)' = dir' /\ dir' \notin broken
<1>0. /\ proc \in [Procs -> ProcType] /\ fresh \in Nat /\ broken \subseteq 1..fresh
      /\ dir \in 1..fresh \cup {NoStore} /\ temps \subseteq 1..fresh
      /\ proc[p].held \in Seq(Nat)
  BY DEF TInv, HInv, Numbered, Recorded, ProcType
<1>1. CASE OpenIndex(p)
  <2>1. /\ Acquire(p, Opened) /\ proc[p].pc \in OpenPCs /\ dir' = Opened
        /\ recs' = recs /\ broken' = broken
    BY <1>1 DEF OpenIndex, OpenPCs
  <2>2. Opened \in Nat /\ Opened \notin broken
    BY <1>0, <1>1 DEF OpenIndex, Opened, CanOpen
  <2> HIDE DEF Opened
  <2>3. /\ proc'[p].held = Append(proc[p].held, Opened)
        /\ Len(proc'[p].held) = Len(proc[p].held) + 1
        /\ proc'[p].want = proc[p].want
        /\ \A q \in Procs \ {p} : proc'[q] = proc[q]
    BY <2>1, <2>2, AcquireSets
  <2>4. Own(p)' = Opened
    BY <1>0, <2>2, <2>3, AppendIndices DEF Own
  <2>5. proc'[p].pc \in {"open1", "ready"}
    BY <1>0, <2>1 DEF Acquire
  <2> QED
    BY <1>1, <2>1, <2>2, <2>3, <2>4, <2>5 DEF OpenPCs
<1>2. CASE OpenTemp(p)
  <2>1. PICK s \in {fresh + 1} \cup {u \in temps : ~Locked(u)} :
               Acquire(p, s) /\ temps' = temps \cup {s}
    BY <1>2 DEF OpenTemp
  <2>2. s \in Nat /\ proc[p].pc \in OpenPCs /\ recs' = recs /\ broken' = broken
    BY <1>0, <1>2 DEF OpenTemp, OpenPCs
  <2>3. /\ proc'[p].held = Append(proc[p].held, s)
        /\ Len(proc'[p].held) = Len(proc[p].held) + 1
        /\ proc'[p].want = proc[p].want
        /\ \A q \in Procs \ {p} : proc'[q] = proc[q]
    BY <2>1, <2>2, AcquireSets
  <2>4. Own(p)' = s
    BY <1>0, <2>2, <2>3, AppendIndices DEF Own
  <2>5. proc'[p].pc \in {"open1", "ready"}
    BY <1>0, <2>1 DEF Acquire
  <2> QED
    BY <2>1, <2>2, <2>3, <2>4, <2>5 DEF OpenPCs
<1>3. CASE OpenFails(p) \/ Wipe(p)
  <2>1. PICK pc \in OpenPCs : Goto(p, pc)
    BY <1>3 DEF OpenFails, Wipe, OpenPCs
  <2>2. proc[p].pc \in OpenPCs /\ recs' = recs /\ broken' = broken
    BY <1>3 DEF OpenFails, Wipe, OpenPCs
  <2>3. /\ proc'[p].want = proc[p].want /\ proc'[p].pc = pc
        /\ \A q \in Procs \ {p} : proc'[q] = proc[q]
    BY <1>0, <2>1 DEF Goto, ProcType
  <2> QED
    BY <2>1, <2>2, <2>3 DEF OpenPCs
<1> QED
  BY <1>1, <1>2, <1>3 DEF OpenStep

(* What an import that runs by itself ends its opens with, unless it is a  *)
(* temporary store, is new and has no record.                              *)
LEMMA SoloOpening ==
  ASSUME PInv, NEW p \in Procs, OpenStep(p), UNCHANGED job,
         \A q \in Procs \ {p} : ~job[q].solo
  PROVE  /\ SoloOpens'
         /\ job[p].solo /\ job[p].cmd = "import" /\ proc'[p].pc = "ready"
              /\ Own(p)' \notin temps' => recs'[Own(p)'] = {}
<1> SUFFICES ASSUME job[p].solo, job[p].cmd = "import"
             PROVE  /\ proc'[p].pc = "open4" /\ proc'[p].held = <<>> => dir' \in broken'
                    /\ proc'[p].pc \in OpenPCs /\ proc'[p].held # <<>> =>
                         dir' = NoStore \/ dir' \in broken' \/ dir' \in HeldStores(p)'
                    /\ proc'[p].pc = "ready" /\ Own(p)' \notin temps' => recs'[Own(p)'] = {}
  BY DEF SoloOpens
<1>0. /\ proc \in [Procs -> ProcType] /\ proc[p].held \in Seq(Nat) /\ fresh \in Nat
      /\ dir \in 1..fresh \cup {NoStore} /\ NoStore \notin Nat
      /\ \A s \in Stores \ 1..fresh : recs[s] = {}
  BY RecoveryAssumption DEF PInv, TInv, HInv, Numbered, Recorded, ProcType
<1>1. /\ proc[p].pc \in OpenPCs /\ proc'[p].pc \in OpenPCs \cup {"ready"}
      /\ recs' = recs /\ broken' = broken
      /\ proc'[p].pc = "ready" => Own(p)' \in temps' \/ (OpenIndex(p) /\ Own(p)' = dir')
  BY OpenMoves DEF PInv
<1>2. proc[p] # Off /\ \A q \in Procs \ {p} : proc[q] = Off
  BY <1>1 DEF PInv, Jobs, Off, OpenPCs
<1>3. proc[p].want = 2 /\ Wanting(proc[p])
  BY <1>2 DEF PInv, Jobs, Handles, TInv, Promised
<1>4. \A s : Locked(s) => s \in HeldStores(p)
  BY <1>2 DEF Locked, HeldStores, Off
<1>5. SoloOpens
  BY DEF PInv, Works
<1>6. CASE OpenIndex(p)
  <2>1. /\ dir = NoStore \/ ~Locked(dir)
        /\ dir = NoStore \/ dir \notin broken
    BY <1>0, <1>6 DEF OpenIndex, Opened, CanOpen
  <2>2. Acquire(p, Opened) /\ dir' = Opened /\ Opened \in Nat
    BY <1>0, <1>6 DEF OpenIndex, Opened
  <2> HIDE DEF Opened
  <2>3. /\ proc'[p].pc \in {"ready", "open1"} /\ dir' \in HeldStores(p)'
    BY <2>2, AcquireHolds DEF PInv
  <2>4. ASSUME proc'[p].pc = "ready"
        PROVE  recs'[Own(p)'] = {} \/ Own(p)' \in temps'
    <3>1. proc[p].held # <<>>
      <4>1. Len(Append(proc[p].held, Opened)) = 2
        BY <1>0, <1>3, <2>2, <2>4 DEF Acquire
      <4> QED
        BY <1>0, <2>2, <4>1
    <3>2. dir = NoStore
      BY <1>1, <1>5, <1>6, <3>1 DEF SoloOpens, OpenIndex, CanOpen, Locked
    <3>3. dir' = fresh + 1
      BY <2>2, <3>2 DEF Opened
    <3>4. dir' \in Stores
      <4>1. TInv'
        BY TInvStep DEF PInv, Next
      <4>2. Cardinality(ToCome') \in Nat
        BY <4>1, FS_CardinalityType DEF TInv, Promised
      <4>3. fresh' + Cardinality(ToCome') <= opens' /\ opens' \in 0..MaxOpens
        BY <4>1 DEF TInv, Promised
      <4>4. fresh' = fresh + 1
        BY <1>6, <3>2 DEF OpenIndex
      <4> QED
        BY <1>0, <3>3, <4>2, <4>3, <4>4, RecoveryAssumption DEF Stores
    <3> QED
      BY <1>0, <1>1, <2>4, <3>3, <3>4
  <2> QED
    BY <2>3, <2>4
<1>7. CASE OpenFails(p)
  <2>1. PICK pc : Goto(p, pc) /\ (pc = "open4" <=> proc[p].pc = "open3") /\ pc \in OpenPCs
    BY <1>7 DEF OpenFails, OpenPCs
  <2>2. /\ proc'[p].pc = pc /\ proc'[p].held = proc[p].held /\ dir' = dir
    BY <1>0, <1>7, <2>1 DEF Goto, ProcType, OpenFails
  <2>3. dir \in broken \/ dir \in HeldStores(p)
    BY <1>4, <1>7 DEF OpenFails, CanOpen
  <2>4. proc[p].held = <<>> => HeldStores(p) = {}
    BY DEF HeldStores
  <2>5. HeldStores(p)' = HeldStores(p)
    BY <2>2 DEF HeldStores
  <2>6. pc # "ready"
    BY <2>1 DEF OpenPCs
  <2> QED
    BY <1>1, <2>2, <2>3, <2>4, <2>5, <2>6
<1>8. CASE Wipe(p)
  <2>1. Goto(p, "open3") /\ dir' \in {NoStore, dir}
    BY <1>8 DEF Wipe
  <2>2. proc'[p].pc = "open3" /\ proc'[p].held = proc[p].held
    BY <1>0, <2>1 DEF Goto, ProcType
  <2>3. HeldStores(p)' = HeldStores(p)
    BY <2>2 DEF HeldStores
  <2> QED
    BY <1>1, <1>5, <2>1, <2>2, <2>3 DEF SoloOpens
<1>9. CASE OpenTemp(p)
  <2>1. PICK s \in {fresh + 1} \cup {u \in temps : ~Locked(u)} :
               Acquire(p, s) /\ temps' = temps \cup {s}
    BY <1>9 DEF OpenTemp
  <2>2. s \in Nat /\ dir' = dir /\ proc[p].pc = "open4"
    BY <1>0, <1>9 DEF OpenTemp, PInv, TInv, HInv, Numbered
  <2>3. proc'[p].pc \in {"ready", "open1"} /\ HeldStores(p)' = HeldStores(p) \cup {s}
    BY <2>1, <2>2, AcquireHolds DEF PInv
  <2>4. dir = NoStore \/ dir \in broken \/ dir \in HeldStores(p)
    BY <1>1, <1>5, <2>2 DEF SoloOpens
  <2>5. proc'[p].pc = "ready" => Own(p)' \in temps'
    <3>1. ~OpenIndex(p)
      BY <2>2 DEF OpenIndex
    <3> QED
      BY <1>1, <3>1
  <2> QED
    BY <1>1, <2>2, <2>3, <2>4, <2>5
<1> QED
  BY <1>6, <1>7, <1>8, <1>9 DEF OpenStep

LEMMA OpeningKeeps ==
  ASSUME PInv, NEW p \in Procs, Opening(p)
  PROVE  Jobs' /\ Works'
<1>1. OpenStep(p) /\ UNCHANGED <<narinfo, blobs, job, last>>
  BY DEF Opening, cacheVars
<1>2. /\ proc[p].pc \in OpenPCs
      /\ \A q \in Procs \ {p} : proc'[q] = proc[q]
      /\ proc'[p].want = proc[p].want
      /\ proc'[p].pc \in OpenPCs \cup {"ready"}
      /\ recs' = recs /\ broken' = broken
      /\ proc'[p].pc = "ready" =>
           \/ Own(p)' \in temps'
           \/ OpenIndex(p) /\ Own(p)' = dir' /\ dir' \notin broken
  BY <1>1, OpenMoves DEF PInv
<1>3. /\ proc[p] # Off /\ proc'[p] # Off
      /\ proc[p].pc \notin {"off", "ready"} /\ proc'[p].pc # "off"
  BY <1>2 DEF Off, OpenPCs
<1>4. job[p].step = "begin"
  BY <1>2 DEF PInv, Jobs
<1>5. \A q \in Procs \ {p} : ~job[q].solo
  BY <1>3 DEF PInv, Jobs
<1>6. Jobs'
  BY <1>1, <1>2, <1>3, <1>4, <1>5 DEF PInv, Jobs
<1>s. SoloOpens' /\ (job[p].solo /\ job[p].cmd = "import" /\ proc'[p].pc = "ready"
                       /\ Own(p)' \notin temps' => recs'[Own(p)'] = {})
  BY <1>1, <1>5, SoloOpening
<1>7. SoloImports'
  BY <1>1, <1>2, <1>4, <1>5, <1>s DEF PInv, Works, SoloImports, SoloImport
<1>8. LastKept'
  <2> SUFFICES ASSUME last # {} PROVE LastKept'
    BY <1>1 DEF LastKept
  <2>1. /\ \A l \in last : IsKept(l)
        /\ dir # NoStore /\ dir \notin broken
        /\ \A q \in Procs : proc[q] = Off \/ AfterImport(q)
    BY DEF PInv, Works, LastKept
  <2>2. /\ job[p].solo /\ job[p].cmd = "serve"
        /\ proc[p].pc = "open1" /\ proc[p].held = <<>>
    BY <1>3, <2>1 DEF AfterImport
  <2>3. \A q \in Procs \ {p} : proc[q] = Off
    BY <2>2 DEF PInv, Jobs
  <2>4. ~Locked(dir)
    BY <2>2, <2>3 DEF Locked, HeldStores, Off
  <2>5. CanOpen /\ Opened = dir
    BY <2>1, <2>4 DEF CanOpen, Opened
  <2>6. OpenIndex(p)
    BY <1>1, <2>2, <2>5 DEF OpenStep, OpenFails, Wipe, OpenTemp
  <2>7. dir' = dir /\ Acquire(p, dir)
    BY <2>5, <2>6 DEF OpenIndex
  <2>8. proc[p].want = 1 /\ proc \in [Procs -> ProcType]
    BY <1>3, <2>2 DEF PInv, Jobs, Handles, TInv, HInv, Numbered
  <2>9. Append(<<>>, dir) = <<dir>> /\ Len(<<dir>>) = 1
    OBVIOUS
  <2>10. proc'[p] = [pc |-> "ready", want |-> 1, held |-> <<dir>>]
    BY <2>2, <2>7, <2>8, <2>9 DEF Acquire
  <2>11. proc'[p].pc = "ready" /\ proc'[p].held = <<dir>>
    BY <2>10
  <2>12. \A q \in Procs : proc'[q] = Off \/ AfterImport(q)'
    BY <1>1, <1>2, <1>4, <2>2, <2>3, <2>7, <2>11 DEF AfterImport
  <2> QED
    BY <1>1, <1>2, <2>1, <2>7, <2>12 DEF LastKept, IsKept
<1> QED
  BY <1>6, <1>7, <1>8, <1>s DEF Works

-----------------------------------------------------------------------------
(* The steps of an import. *)
LEMMA ImportBlobKeeps ==
  ASSUME PInv, NEW p \in Procs, ImportBlob(p)
  PROVE  Jobs' /\ Works'
<1>1. /\ UNCHANGED <<vars, narinfo>> /\ Ready(p, "import", "begin")
      /\ blobs \subseteq blobs'
      /\ \/ GoOn(p, "end", {}) /\ Imported(p, FALSE) /\ job[p].todo \subseteq narinfo
         \/ /\ GoOn(p, "index", job[p].todo) /\ job[p].todo \subseteq blobs'
            /\ UNCHANGED last
  BY DEF ImportBlob
<1>2. UNCHANGED <<dir, recs, broken, temps, proc>>
  BY <1>1 DEF vars
<1>3. job \in [Procs -> JobType]
  BY DEF PInv, Jobs
<1>4. /\ job' \in [Procs -> JobType]
      /\ \A q \in Procs \ {p} : job'[q] = job[q]
      /\ job'[p].cmd = job[p].cmd /\ job'[p].solo = job[p].solo
      /\ \/ /\ job'[p].step = "end" /\ Imported(p, FALSE)
            /\ job[p].todo \subseteq narinfo
         \/ /\ job'[p].step = "index" /\ job'[p].todo = job[p].todo
            /\ job[p].todo \subseteq blobs' /\ UNCHANGED last
  <2>1. CASE GoOn(p, "end", {}) /\ Imported(p, FALSE) /\ job[p].todo \subseteq narinfo
    BY <1>3, <2>1 DEF GoOn, JobType, Steps
  <2>2. CASE /\ GoOn(p, "index", job[p].todo) /\ job[p].todo \subseteq blobs'
             /\ UNCHANGED last
    BY <1>3, <2>2 DEF GoOn, JobType, Steps
  <2> QED
    BY <1>1, <2>1, <2>2
<1>5. proc[p].pc = "ready" /\ job[p].cmd = "import" /\ job[p].step = "begin"
  BY <1>1 DEF Ready
<1>6. Jobs'
  BY <1>1, <1>2, <1>4, <1>5 DEF PInv, Jobs, OpenPCs
<1>s. proc[p] # Off /\ \A q \in Procs \ {p} : ~job[q].solo
  BY <1>5 DEF PInv, Jobs
<1>7. SoloImports'
  <2>1. ASSUME NEW q \in Procs \ {p}
        PROVE  SoloImport(q)'
    <3>1. ~job'[q].solo /\ job'[q] = job[q] /\ SoloImport(q)
      BY <1>4, <1>s DEF PInv, Works, SoloImports
    <3> QED
      BY <3>1 DEF SoloImport
  <2>2. SoloImport(p)'
    <3>1. Own(p)' = Own(p) /\ SoloImport(p)
      BY <1>2 DEF Own, PInv, Works, SoloImports
    <3> QED
      BY <1>1, <1>2, <1>4, <1>5, <3>1 DEF SoloImport
  <2> QED
    BY <2>1, <2>2 DEF SoloImports
<1>8. SoloOpens'
  BY <1>2, <1>4, <1>5 DEF PInv, Works, SoloOpens, HeldStores, OpenPCs
<1>9. LastKept'
  <2>1. last = {}
    BY <1>5 DEF PInv, Works, LastKept, AfterImport, Jobs
  <2> SUFFICES ASSUME last' # {} PROVE LastKept'
    BY DEF LastKept
  <2>2. /\ job[p].solo /\ Own(p) \notin temps /\ job'[p].step = "end"
        /\ last' = {[key |-> k, put |-> FALSE] : k \in job[p].todo}
        /\ job[p].todo \subseteq narinfo
    BY <1>4, <2>1 DEF Imported
  <2>3. Own(p) = dir /\ dir \notin broken /\ recs[dir] = {}
    BY <1>5, <2>2 DEF PInv, Works, SoloImports, SoloImport
  <2>4. dir # NoStore
    BY <1>5, <2>3, ReadyHolds, RecoveryAssumption DEF PInv, Stores
  <2>5. \A l \in last' : l.key \in narinfo /\ l.put = FALSE
    BY <2>2
  <2>6. \A l \in last' : IsKept(l)'
    BY <1>1, <1>2, <2>3, <2>5 DEF IsKept
  <2>7. \A q \in Procs \ {p} : proc[q] = Off
    BY <2>2 DEF PInv, Jobs
  <2>8. \A q \in Procs : proc'[q] = Off \/ AfterImport(q)'
    BY <1>2, <1>4, <1>5, <2>2, <2>7 DEF AfterImport
  <2> QED
    BY <1>2, <2>3, <2>4, <2>6, <2>8 DEF LastKept
<1> QED
  BY <1>6, <1>7, <1>8, <1>9 DEF Works

LEMMA ImportIndexKeeps ==
  ASSUME PInv, NEW p \in Procs, ImportIndex(p)
  PROVE  Jobs' /\ Works'
<1>1. /\ Ready(p, "import", "index") /\ GoOn(p, "narinfo", job[p].todo)
      /\ UNCHANGED <<dir, fresh, broken, temps, proc, opens, narinfo, blobs, last>>
  BY DEF ImportIndex, PutRecord
<1>2. PICK k \in job[p].todo : recs' = [recs EXCEPT ![Own(p)] = @ \cup {k}]
  BY DEF ImportIndex
<1>3. job \in [Procs -> JobType] /\ recs \in [Stores -> SUBSET Keys]
  BY DEF PInv, Jobs, TInv, Recorded
<1>4. /\ job' \in [Procs -> JobType]
      /\ \A q \in Procs \ {p} : job'[q] = job[q]
      /\ job'[p].cmd = job[p].cmd /\ job'[p].solo = job[p].solo
      /\ job'[p].step = "narinfo" /\ job'[p].todo = job[p].todo
  BY <1>1, <1>3 DEF GoOn, JobType, Steps
<1>5. proc[p].pc = "ready" /\ job[p].cmd = "import" /\ job[p].step = "index"
  BY <1>1 DEF Ready
<1>6. Own(p) \in Stores /\ proc[p] # Off
  BY <1>5, ReadyHolds DEF PInv
<1>7. job[p].todo = {k}
  BY <1>2, <1>5 DEF PInv, Works, SoloImports, SoloImport
<1>8. k \in recs'[Own(p)]
  BY <1>2, <1>3, <1>6
<1>9. Jobs'
  BY <1>1, <1>4, <1>5 DEF PInv, Jobs, OpenPCs
<1>10. SoloImports'
  <2>0. \A q \in Procs \ {p} : ~job[q].solo
    BY <1>6 DEF PInv, Jobs
  <2>1. ASSUME NEW q \in Procs \ {p}
        PROVE  SoloImport(q)'
    <3>1. ~job'[q].solo /\ job'[q] = job[q] /\ SoloImport(q)
      BY <1>4, <2>0 DEF PInv, Works, SoloImports
    <3> QED
      BY <3>1 DEF SoloImport
  <2>2. SoloImport(p)'
    <3>1. Own(p)' = Own(p) /\ SoloImport(p)
      BY <1>1 DEF Own, PInv, Works, SoloImports
    <3> QED
      BY <1>1, <1>4, <1>5, <1>7, <1>8, <3>1 DEF SoloImport
  <2> QED
    BY <2>1, <2>2 DEF SoloImports
<1>11. LastKept'
  <2>1. last = {}
    BY <1>5, <1>6 DEF PInv, Works, LastKept, AfterImport
  <2> QED
    BY <1>1, <2>1 DEF LastKept
<1>12. SoloOpens'
  BY <1>1, <1>4, <1>5 DEF PInv, Works, SoloOpens, HeldStores, OpenPCs
<1> QED
  BY <1>9, <1>10, <1>11, <1>12 DEF Works

(* The import becomes the last one, if it has run by itself. *)
LEMMA ImportNarinfoKeeps ==
  ASSUME PInv, NEW p \in Procs, ImportNarinfo(p)
  PROVE  Jobs' /\ Works'
<1>1. /\ Ready(p, "import", "narinfo") /\ GoOn(p, "end", {})
      /\ UNCHANGED <<vars, blobs>>
      /\ narinfo' = narinfo \cup job[p].todo
      /\ Imported(p, TRUE)
  BY DEF ImportNarinfo
<1>2. UNCHANGED <<dir, recs, broken, temps, proc>>
  BY <1>1 DEF vars
<1>3. job \in [Procs -> JobType]
  BY DEF PInv, Jobs
<1>4. /\ job' \in [Procs -> JobType]
      /\ \A q \in Procs \ {p} : job'[q] = job[q]
      /\ job'[p].cmd = job[p].cmd /\ job'[p].solo = job[p].solo
      /\ job'[p].step = "end"
  BY <1>1, <1>3 DEF GoOn, JobType, Steps
<1>5. proc[p].pc = "ready" /\ job[p].cmd = "import" /\ job[p].step = "narinfo"
  BY <1>1 DEF Ready
<1>6. Own(p) \in Stores /\ proc[p] # Off /\ job[p].todo \subseteq Keys
  BY <1>3, <1>5, ReadyHolds DEF PInv, JobType
<1>7. Jobs'
  BY <1>1, <1>2, <1>4, <1>5, <1>6 DEF PInv, Jobs, OpenPCs
<1>8. SoloImports'
  BY <1>1, <1>2, <1>4, <1>5 DEF PInv, Works, SoloImports, SoloImport, Own
<1>9. LastKept'
  <2>1. last = {}
    BY <1>5, <1>6 DEF PInv, Works, LastKept, AfterImport
  <2>2. CASE job[p].solo /\ Own(p) \notin temps
    <3>1. job[p].todo \subseteq blobs /\ job[p].todo \subseteq recs[Own(p)]
      BY <1>5, <2>2 DEF PInv, Works, SoloImports, SoloImport
    <3>2. Own(p) = dir /\ dir \notin broken
      BY <1>5, <2>2 DEF PInv, Works, SoloImports, SoloImport
    <3>3. dir # NoStore
      BY <1>6, <3>2, RecoveryAssumption DEF Stores
    <3>4. \A q \in Procs \ {p} : proc[q] = Off
      BY <2>2 DEF PInv, Jobs
    <3>5. \A q \in Procs : proc'[q] = Off \/ AfterImport(q)'
      BY <1>2, <1>4, <1>5, <2>2, <3>4 DEF AfterImport
    <3>6. last' = {[key |-> k, put |-> TRUE] : k \in job[p].todo}
      BY <1>1, <2>2 DEF Imported
    <3>7. \A l \in last' : l.key \in job[p].todo /\ l.put = TRUE
      BY <3>6
    <3>8. \A l \in last' : IsKept(l)'
      BY <1>1, <1>2, <3>1, <3>2, <3>7 DEF IsKept
    <3> QED
      BY <1>2, <3>2, <3>3, <3>5, <3>8 DEF LastKept
  <2>3. CASE ~(job[p].solo /\ Own(p) \notin temps)
    BY <1>1, <2>1, <2>3 DEF LastKept, Imported
  <2> QED
    BY <2>2, <2>3
<1>10. SoloOpens'
  BY <1>2, <1>4, <1>5 DEF PInv, Works, SoloOpens, HeldStores, OpenPCs
<1> QED
  BY <1>7, <1>8, <1>9, <1>10 DEF Works

(* The steps of a gc: the last import counts no more. *)
LEMMA GcKeeps ==
  ASSUME PInv, NEW p \in Procs, GcCollect(p) \/ \E k \in Keys : GcEntry(p, k)
  PROVE  Jobs' /\ Works'
<1>1. /\ UNCHANGED <<dir, broken, temps, proc, last>>
      /\ proc[p].pc = "ready" /\ job[p].cmd = "gc" /\ narinfo' \subseteq narinfo
  BY DEF GcCollect, GcEntry, vars, Ready
<1>2. job \in [Procs -> JobType] /\ narinfo \subseteq Keys
  BY DEF PInv, Jobs
<1>3. PICK todo \in SUBSET Keys : GoOn(p, "loop", todo)
  <2>1. CASE GcCollect(p)
    BY <1>2, <2>1 DEF GcCollect
  <2>2. CASE \E k \in Keys : GcEntry(p, k)
    BY <1>2, <2>2 DEF GcEntry, JobType
  <2> QED
    BY <2>1, <2>2
<1>4. /\ job' \in [Procs -> JobType]
      /\ \A q \in Procs \ {p} : job'[q] = job[q]
      /\ job'[p].cmd = job[p].cmd /\ job'[p].solo = job[p].solo
      /\ job'[p].step = "loop"
  BY <1>2, <1>3 DEF GoOn, JobType, Steps
<1>5. proc[p] # Off /\ \A q \in Procs \ {p} : ~job[q].solo
  BY <1>1 DEF PInv, Jobs
<1>6. Jobs'
  BY <1>1, <1>2, <1>4 DEF PInv, Jobs, OpenPCs
<1>7. SoloImports'
  BY <1>1, <1>4, <1>5 DEF PInv, Works, SoloImports, SoloImport, Own
<1>8. LastKept'
  <2>1. last = {}
    BY <1>1, <1>5 DEF PInv, Works, LastKept, AfterImport
  <2> QED
    BY <1>1, <2>1 DEF LastKept
<1>9. SoloOpens'
  BY <1>1, <1>4, <1>5 DEF PInv, Works, SoloOpens, OpenPCs
<1> QED
  BY <1>6, <1>7, <1>8, <1>9 DEF Works

(* A server that receives records is not one that the last import allows. *)
LEMMA ReceiveKeeps ==
  ASSUME PInv, NEW p \in Procs, NEW k \in Keys, Receive(p, k)
  PROVE  Jobs' /\ Works'
<1>1. /\ UNCHANGED <<dir, broken, temps, proc, narinfo, blobs, job, last>>
      /\ proc[p].pc = "ready" /\ job[p].cmd = "serve_sync"
  BY DEF Receive, PutRecord, Ready, cacheVars
<1>2. proc[p] # Off /\ \A q \in Procs \ {p} : ~job[q].solo
  BY <1>1 DEF PInv, Jobs
<1>3. Jobs'
  BY <1>1 DEF PInv, Jobs
<1>4. SoloImports'
  BY <1>1, <1>2 DEF PInv, Works, SoloImports, SoloImport, Own
<1>5. LastKept'
  <2>1. last = {}
    BY <1>1, <1>2 DEF PInv, Works, LastKept, AfterImport
  <2> QED
    BY <1>1, <2>1 DEF LastKept
<1>6. SoloOpens'
  BY <1>1, <1>2 DEF PInv, Works, SoloOpens, OpenPCs
<1> QED
  BY <1>3, <1>4, <1>5, <1>6 DEF Works

LEMMA ExitKeeps ==
  ASSUME PInv, NEW p \in Procs, Exit(p)
  PROVE  Jobs' /\ Works'
<1>1. /\ proc' = [proc EXCEPT ![p] = Off] /\ job' = [job EXCEPT ![p] = NoJob]
      /\ UNCHANGED <<dir, recs, broken, temps, narinfo, blobs, last>>
  BY DEF Exit, Stop
<1>2. job \in [Procs -> JobType] /\ proc \in [Procs -> ProcType]
  BY DEF PInv, Jobs, TInv, HInv, Numbered
<1>3. NoJob \in JobType /\ NoJob.cmd = "none" /\ NoJob.step = "none" /\ ~NoJob.solo
  BY DEF NoJob, JobType, Steps
<1>4. /\ proc'[p] = Off /\ job'[p] = NoJob /\ job' \in [Procs -> JobType]
      /\ \A q \in Procs \ {p} : proc'[q] = proc[q] /\ job'[q] = job[q]
  BY <1>1, <1>2, <1>3
<1>5. Off.pc = "off"
  BY DEF Off
<1>6. Jobs'
  BY <1>1, <1>3, <1>4, <1>5 DEF PInv, Jobs, OpenPCs
<1>7. SoloImports'
  <2>1. ASSUME NEW q \in Procs \ {p}
        PROVE  SoloImport(q)'
    <3>1. job'[q] = job[q] /\ proc'[q] = proc[q] /\ SoloImport(q) /\ Own(q)' = Own(q)
      BY <1>4 DEF PInv, Works, SoloImports, Own
    <3> QED
      BY <1>1, <3>1 DEF SoloImport
  <2>2. SoloImport(p)'
    BY <1>3, <1>4 DEF SoloImport
  <2> QED
    BY <2>1, <2>2 DEF SoloImports
<1>8. LastKept'
  BY <1>1, <1>4 DEF PInv, Works, LastKept, IsKept, AfterImport
<1>9. SoloOpens'
  BY <1>1, <1>3, <1>4 DEF PInv, Works, SoloOpens, HeldStores
<1> QED
  BY <1>6, <1>7, <1>8, <1>9 DEF Works

LEMMA DamagedKeeps ==
  ASSUME PInv, Damaged
  PROVE  Jobs' /\ Works'
<1>1. /\ UNCHANGED <<dir, recs, temps, proc, narinfo, blobs, job>> /\ last' = {}
      /\ broken' = broken \cup {dir} /\ ~Locked(dir)
  BY DEF Damaged, Damage
<1>2. Jobs'
  BY <1>1 DEF PInv, Jobs
<1>3. SoloImports'
  <2>1. \A p \in Procs : proc[p].pc = "ready" => Own(p) # dir
    BY <1>1, ReadyHolds DEF PInv, Locked
  <2> QED
    BY <1>1, <2>1 DEF PInv, Works, SoloImports, SoloImport, Own
<1>4. LastKept'
  BY <1>1 DEF LastKept
<1>5. SoloOpens'
  BY <1>1 DEF PInv, Works, SoloOpens, HeldStores
<1> QED
  BY <1>2, <1>3, <1>4, <1>5 DEF Works

LEMMA PInvStep == PInv /\ [ProcNext]_procVars => PInv'
<1> SUFFICES ASSUME PInv, [ProcNext]_procVars PROVE PInv'
  OBVIOUS
<1>1. TInv'
  BY TypesKept DEF PInv
<1>2. ASSUME NEW p \in Procs, NEW cmd \in Commands, NEW P \in SUBSET Keys,
             cmd = "import" => \E k \in Keys : P = {k}, Command(p, cmd, P)
      PROVE  Jobs' /\ Works'
  BY <1>2, CommandKeeps
<1>3. ASSUME NEW p \in Procs, Work(p)
      PROVE  Jobs' /\ Works'
  BY <1>3, ImportBlobKeeps, ImportIndexKeeps, ImportNarinfoKeeps, GcKeeps, ReceiveKeeps
  DEF Work
<1>4. ASSUME UNCHANGED procVars
      PROVE  Jobs' /\ Works'
  <2>1. UNCHANGED <<dir, recs, broken, temps, proc, narinfo, blobs, job, last>>
    <3>1. vars' = vars /\ cacheVars' = cacheVars
      BY <1>4 DEF procVars
    <3> QED
      BY <3>1 DEF vars, cacheVars
  <2>2. Jobs'
    BY <2>1 DEF PInv, Jobs
  <2>3. SoloImports'
    BY <2>1 DEF PInv, Works, SoloImports, SoloImport, Own
  <2>4. LastKept'
    <3>1. ASSUME NEW p \in Procs, AfterImport(p)
          PROVE  AfterImport(p)'
      BY <2>1, <3>1 DEF AfterImport
    <3>2. last # {} => \A p \in Procs : proc'[p] = Off \/ AfterImport(p)'
      BY <2>1, <3>1 DEF PInv, Works, LastKept
    <3> QED
      BY <2>1, <3>2 DEF PInv, Works, LastKept, IsKept
  <2>5. SoloOpens'
    BY <2>1 DEF PInv, Works, SoloOpens, HeldStores
  <2> QED
    BY <2>2, <2>3, <2>4, <2>5 DEF Works
<1>5. ASSUME NEW p \in Procs, Opening(p) \/ Exit(p)
      PROVE  Jobs' /\ Works'
  BY <1>5, OpeningKeeps, ExitKeeps
<1>6. ASSUME NEW p \in Procs, NEW k \in Keys, Command(p, "import", {k})
      PROVE  Jobs' /\ Works'
  BY <1>2, <1>6 DEF Commands
<1>7. ASSUME NEW p \in Procs, NEW cmd \in Commands \ {"import"}, Command(p, cmd, {})
      PROVE  Jobs' /\ Works'
  <2>1. {} \in SUBSET Keys /\ cmd # "import" /\ cmd \in Commands
    BY <1>7
  <2> QED
    BY <1>2, <1>7, <2>1
<1>8. Jobs' /\ Works'
  BY <1>3, <1>4, <1>5, <1>6, <1>7, DamagedKeeps DEF ProcNext
<1> QED
  BY <1>1, <1>8 DEF PInv

LEMMA PInvAlways == ProcSpec => []PInv
BY PInvInit, PInvStep, PTL DEF ProcSpec

(* After an import that ran by itself, the path is in the index and every  *)
(* server started since can serve it exactly if the import put the NAR: an *)
(* import of a path that was there leaves the path without its record.     *)
THEOREM ImportServed == ProcSpec => []ServedIffPut
<1>1. PInv => ServedIffPut
  <2> SUFFICES ASSUME PInv, NEW l \in last PROVE
        /\ l.key \in narinfo
        /\ l.put => l.key \in blobs
        /\ dir # NoStore /\ (l.put <=> l.key \in recs[dir])
        /\ \A p \in Procs : Serving(p) => (l.put <=> l.key \in recs[Own(p)])
    BY DEF ServedIffPut
  <2>1. /\ IsKept(l) /\ dir # NoStore
        /\ \A p \in Procs : proc[p] = Off \/ AfterImport(p)
    BY DEF PInv, Works, LastKept
  <2>2. ASSUME NEW p \in Procs, Serving(p)
        PROVE  Own(p) = dir
    <3>1. proc[p].pc = "ready" /\ proc[p] # Off /\ job[p].cmd # "import"
      BY <2>2 DEF Serving, PInv, Jobs
    <3>2. proc[p].held = <<dir>>
      BY <2>1, <3>1 DEF AfterImport
    <3> QED
      BY <3>2 DEF Own
  <2> QED
    BY <2>1, <2>2 DEF IsKept
<1> QED
  BY <1>1, PInvAlways, PTL

(* What a handle of another process puts into its index does not reach the *)
(* index that a server answers from; nor does what the server replicates.  *)
LEMMA PutElsewhere ==
  ASSUME TInv, Jobs, NEW p \in Procs, NEW q \in Procs, Serving(p),
         ImportIndex(q) \/ \E k \in Keys : Receive(q, k)
  PROVE  recs'[Own(p)] = recs[Own(p)]
<1>1. proc[p].pc = "ready" /\ job[p].cmd \in {"serve", "serve_sync"} /\ proc[q].pc = "ready"
  BY DEF Serving, ImportIndex, Receive, Ready
<1>2. /\ Len(proc[p].held) = Handles(job[p].cmd)
      /\ Len(proc[p].held) \in DOMAIN proc[p].held
      /\ 1 \in DOMAIN proc[q].held /\ Len(proc[q].held) \in DOMAIN proc[q].held
  BY <1>1, ReadyHolds
<1>3. recs \in [Stores -> SUBSET Keys] /\ StoresUnshared
  BY DEF TInv, Recorded, HInv
<1>4. CASE ImportIndex(q)
  <2>1. PICK k : recs' = [recs EXCEPT ![Own(q)] = @ \cup {k}]
    BY <1>4 DEF ImportIndex
  <2>2. q # p
    BY <1>1, <1>4 DEF ImportIndex, Ready
  <2>3. Own(q) # Own(p)
    BY <1>2, <1>3, <2>2 DEF StoresUnshared, Own
  <2> QED
    BY <1>3, <2>1, <2>3
<1>5. CASE \E k \in Keys : Receive(q, k)
  <2>1. PICK k : recs' = [recs EXCEPT ![Replica(q)] = @ \cup {k}]
    BY <1>5 DEF Receive
  <2>2. q = p => Len(proc[p].held) = 2
    BY <1>2, <1>5 DEF Receive, Ready, Handles
  <2>3. Replica(q) # Own(p)
    BY <1>2, <1>3, <2>2 DEF StoresUnshared, Own, Replica
  <2> QED
    BY <1>3, <2>1, <2>3
<1> QED
  BY <1>4, <1>5

(* A server keeps the NARs that its index names, but for a gc that found   *)
(* one of them in an index of its own.                                     *)
THEOREM ServersKeepBlobs == ProcSpec => ServedHaveBlobs
<1> DEFINE Kept == \A p \in Procs :
                     Serving(p) /\ recs[Own(p)] \subseteq blobs /\ Serving(p)' =>
                       \/ recs'[Own(p)] \subseteq blobs'
                       \/ \E q \in Procs, k \in Keys : GcEntry(q, k) /\ k \in recs[Own(q)]
<1>1. PInv /\ [ProcNext]_procVars => [Kept]_procVars
  <2> SUFFICES ASSUME PInv, ProcNext, NEW p \in Procs,
                      Serving(p), recs[Own(p)] \subseteq blobs,
                      ~\E q \in Procs, k \in Keys : GcEntry(q, k) /\ k \in recs[Own(q)]
               PROVE  recs'[Own(p)] \subseteq blobs'
    OBVIOUS
  <2>1. TInv /\ Jobs /\ recs \in [Stores -> SUBSET Keys]
    BY DEF PInv, TInv, Recorded
  <2>2. ASSUME recs' = recs, blobs \subseteq blobs'
        PROVE  recs'[Own(p)] \subseteq blobs'
    BY <2>2
  <2>3. ASSUME NEW q \in Procs, Work(q)
        PROVE  recs'[Own(p)] \subseteq blobs'
    <3>1. CASE ImportBlob(q) \/ ImportNarinfo(q) \/ GcCollect(q)
      BY <2>2, <3>1 DEF ImportBlob, ImportNarinfo, GcCollect, vars
    <3>2. CASE ImportIndex(q) \/ \E k \in Keys : Receive(q, k)
      <4>1. blobs' = blobs
        BY <3>2 DEF ImportIndex, Receive, cacheVars
      <4>2. recs'[Own(p)] = recs[Own(p)]
        BY <2>1, <3>2, PutElsewhere
      <4> QED
        BY <4>1, <4>2
    <3>3. CASE \E k \in Keys : GcEntry(q, k)
      <4>1. PICK k \in Keys : GcEntry(q, k)
        BY <3>3
      <4>2. k \notin recs[Own(q)]
        BY <4>1
      <4>3. blobs' = blobs /\ recs' = [recs EXCEPT ![Own(q)] = @ \ {k}]
        BY <4>1, <4>2 DEF GcEntry
      <4>4. recs' = recs
        BY <2>1, <4>2, <4>3
      <4> QED
        BY <2>2, <4>3, <4>4
    <3> QED
      BY <2>3, <3>1, <3>2, <3>3 DEF Work
  <2>4. ASSUME NEW q \in Procs, Opening(q)
        PROVE  recs'[Own(p)] \subseteq blobs'
    <3>1. recs' = recs
      BY <2>1, <2>4, OpenMoves DEF Opening
    <3>2. blobs' = blobs
      BY <2>4 DEF Opening, cacheVars
    <3> QED
      BY <2>2, <3>1, <3>2
  <2>5. ASSUME NEW q \in Procs, NEW cmd, NEW P, Command(q, cmd, P)
        PROVE  recs'[Own(p)] \subseteq blobs'
    BY <2>2, <2>5 DEF Command, Start
  <2>6. ASSUME NEW q \in Procs, Exit(q)
        PROVE  recs'[Own(p)] \subseteq blobs'
    BY <2>2, <2>6 DEF Exit, Stop
  <2>7. CASE Damaged
    BY <2>2, <2>7 DEF Damaged, Damage
  <2> QED
    BY <2>3, <2>4, <2>5, <2>6, <2>7 DEF ProcNext
<1>2. ProcSpec => [][Kept]_procVars
  BY <1>1, PInvAlways, PTL DEF ProcSpec
<1> QED
  BY <1>2 DEF ServedHaveBlobs
=============================================================================
