------------------------------- MODULE NarMap -------------------------------
(***************************************************************************)
(* What NarObjectStore promises its callers, without blobs, hashes or the  *)
(* index: a map from NAR keys to contents.  A put and a delete take effect *)
(* at one instant; a get takes time, and answers with a content its key    *)
(* had at some instant between its call and its return (None standing for  *)
(* "NAR not found"), or with None when its key was written meanwhile.  A   *)
(* get whose key nobody writes answers with what the key has, unless that  *)
(* content is lost, which puts beside deletes may do to it; it stays lost  *)
(* until it is put again.  A crash ends the calls in flight and loses      *)
(* nothing that had taken effect.                                          *)
(***************************************************************************)
CONSTANTS Keys,      \* the NAR keys, "nar/{filename}"
          Data,      \* the NAR contents
          Tasks,     \* the callers that read
          None       \* no content under a key; also: no key, no answer yet

VARIABLES map,       \* map[k]: the content stored under key k, or None
          reads,     \* reads[t]: what the get of caller t has seen so far
          lost       \* the contents that are missing although a key may have them

vars == <<map, reads, lost>>

Value == Data \cup {None}

(***************************************************************************)
(* A get in flight has a key and the values that key has had since the     *)
(* call; one that has returned has an answer and waits to be consumed.     *)
(***************************************************************************)
NoRead == [state |-> "none", key |-> None, seen |-> {}]
Pending(k, S) == [state |-> "pending", key |-> k, seen |-> S]
Answered(v) == [state |-> "answered", key |-> None, seen |-> {v}]

Observe(k, v) ==
  [t \in Tasks |-> IF reads[t].state = "pending" /\ reads[t].key = k
                     THEN Pending(k, reads[t].seen \cup {v})
                     ELSE reads[t]]

Init == /\ map = [k \in Keys |-> None]
        /\ reads = [t \in Tasks |-> NoRead]
        /\ lost = {}

Write(k, v) == /\ map' = [map EXCEPT ![k] = v]
               /\ reads' = Observe(k, v)
               /\ lost' \in {lost, lost \cup ({v} \cap Data)}

Lose(d) == /\ lost' = lost \cup {d}
           /\ UNCHANGED <<map, reads>>

Restore(d) == /\ lost' = lost \ {d}
              /\ UNCHANGED <<map, reads>>

BeginGet(t, k) == /\ reads[t] = NoRead
                  /\ reads' = [reads EXCEPT ![t] = Pending(k, {map[k]})]
                  /\ UNCHANGED <<map, lost>>

GetMiss(t, k) == /\ reads[t] = NoRead
                 /\ map[k] = None
                 /\ reads' = [reads EXCEPT ![t] = Answered(None)]
                 /\ UNCHANGED <<map, lost>>

(* The values a get of key k may answer with that has seen the values S. *)
Answers(k, S) == S \cup {v \in {None} : (\E u, w \in S : u # w) \/ map[k] \in lost}

EndGet(t) == /\ reads[t].state = "pending"
             /\ \E v \in Answers(reads[t].key, reads[t].seen) :
                   reads' = [reads EXCEPT ![t] = Answered(v)]
             /\ UNCHANGED <<map, lost>>

Return(t) == /\ reads[t].state = "answered"
             /\ reads' = [reads EXCEPT ![t] = NoRead]
             /\ UNCHANGED <<map, lost>>

Crash == /\ reads' = [t \in Tasks |-> NoRead]
         /\ UNCHANGED <<map, lost>>

Next == \/ \E k \in Keys, v \in Value : Write(k, v)
        \/ \E d \in Data : Lose(d) \/ Restore(d)
        \/ \E t \in Tasks, k \in Keys : BeginGet(t, k) \/ GetMiss(t, k)
        \/ \E t \in Tasks : EndGet(t) \/ Return(t)
        \/ Crash

Spec == Init /\ [][Next]_vars
=============================================================================
