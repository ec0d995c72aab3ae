-------------------------------- MODULE Sync --------------------------------
(***************************************************************************)
(* arca-core/src/sync.rs: replication of the NAR index between peers.  A   *)
(* connection runs handle_sync_connection at both of its ends: each end    *)
(* lists its index once, sends every record, closes its direction, and     *)
(* only then receives, until the other end has closed or five seconds pass *)
(* without a message.  A received record replaces the local one whatever   *)
(* that holds.  Blobs never travel.                                        *)
(*                                                                         *)
(* The index is one CrdtStore shared with the NarObjectStore of the        *)
(* process, whose puts and deletes run beside the sync; each is one step   *)
(* here (NarObjectStore has their own interleavings).  The transport is a  *)
(* library: it delivers what is sent, at most Capacity records ahead of    *)
(* the receiver; store.list() has no order, so records travel as a set.    *)
(***************************************************************************)
EXTENDS FiniteSets, Naturals

CONSTANTS Peers,
          Keys,      \* the NAR keys, of store paths and not of contents
          Data,      \* the NAR contents, each standing for its hash
          None,      \* no index record
          Conns,     \* the connections that are ever made
          Ends,      \* Ends[c]: the two peers of connection c, which share a topic
          Builds,    \* Builds[p][k]: what packing the path of k at p can give
          Capacity   \* records the transport holds in one direction

ASSUME SyncAssumption ==
  /\ None \notin Data
  /\ \A c \in Conns : \E p, q \in Peers : p # q /\ Ends[c] = {p, q}
  /\ \A p \in Peers, k \in Keys : Builds[p][k] \subseteq Data
  /\ Capacity \in Nat

VARIABLES index,   \* index[p][k]: the hash peer p records for key k, or None
          blobs,   \* blobs[p]: the hashes whose blob p has on disk
          side,    \* side[c][p]: the handler of connection c at p and its locals
          dropped, \* history: the keys whose absence at p is due to a delete there
          calm     \* history: nothing else wrote at an end of c since c began

vars == <<index, blobs, side, dropped, calm>>

Record == [key : Keys, hash : Data]
Running == {"send", "recv"}
Ended == {"done", "late", "failed"}   \* late: ended by the receive timeout

SideState == [pc : {"new"} \cup Running \cup Ended,
              list : SUBSET Record, sent : SUBSET Record, got : SUBSET Record]
New == [pc |-> "new", list |-> {}, sent |-> {}, got |-> {}]

Sides == {cp \in Conns \X Peers : cp[2] \in Ends[cp[1]]}
Other(c, p) == CHOOSE q \in Ends[c] : q # p
At(c, p, pc) == p \in Ends[c] /\ side[c][p].pc = pc

(* The records p has sent on c that the other end has not received. *)
Wire(c, p) == side[c][p].sent \ side[c][Other(c, p)].got

(* The other end's handler has returned and dropped the connection. *)
Gone(c, p) == side[c][Other(c, p)].pc \in Ended

(* The other end has closed its direction. *)
Closed(c, p) == side[c][Other(c, p)].pc \in {"recv", "done", "late"}

(* Mutant: the listing has deleted keys too. *)
ListingWithDeleted(p) == {[key |-> k, hash |-> index[p][k]] : k \in Keys}

(* CrdtStore::list *)
Listing(p) == {[key |-> k, hash |-> index[p][k]] : k \in {k \in Keys : index[p][k] # None}}

(* A write at p by other means than connection c disturbs p's connections. *)
Disturb(p, cs) ==
  calm' = [c \in Conns |-> calm[c] /\ ~ (/\ c \in cs
                                         /\ p \in Ends[c]
                                         /\ \E q \in Ends[c] : side[c][q].pc # "new")]

SetPc(c, p, pc) == side' = [side EXCEPT ![c][p].pc = pc]

-----------------------------------------------------------------------------
Init == /\ index = [p \in Peers |-> [k \in Keys |-> None]]
        /\ blobs = [p \in Peers |-> {}]
        /\ side = [c \in Conns |-> [p \in Peers |-> New]]
        /\ dropped = [p \in Peers |-> {}]
        /\ calm = [c \in Conns |-> TRUE]

(* The connection reaches p, whose handler lists the whole index. *)
Start(c, p) ==
  /\ At(c, p, "new")
  /\ side' = [side EXCEPT ![c][p].pc = "send", ![c][p].list = Listing(p)]
  /\ UNCHANGED <<index, blobs, dropped, calm>>

Send(c, p) ==
  /\ At(c, p, "send")
  /\ Cardinality(Wire(c, p)) < Capacity
  /\ \E r \in side[c][p].list \ side[c][p].sent :
       side' = [side EXCEPT ![c][p].sent = @ \cup {r}]
  /\ UNCHANGED <<index, blobs, dropped, calm>>

(* `send failed` or `close failed`: the handler returns without receiving. *)
SendFails(c, p) ==
  /\ At(c, p, "send")
  /\ Gone(c, p)
  /\ SetPc(c, p, "failed")
  /\ UNCHANGED <<index, blobs, dropped, calm>>

Close(c, p) ==
  /\ At(c, p, "send")
  /\ side[c][p].sent = side[c][p].list
  /\ SetPc(c, p, "recv")
  /\ UNCHANGED <<index, blobs, dropped, calm>>

(* Mutant: a record whose key is there already is passed over. *)
ReceiveIfAbsent(c, p) ==
  /\ At(c, p, "recv")
  /\ \E r \in Wire(c, Other(c, p)) :
       /\ index' = [index EXCEPT ![p][r.key] = IF @ = None THEN r.hash ELSE @]
       /\ side' = [side EXCEPT ![c][p].got = @ \cup {r}]
       /\ dropped' = [dropped EXCEPT ![p] = @ \ {r.key}]
       /\ Disturb(p, Conns \ {c})
  /\ UNCHANGED blobs

(* store.put(id, SYNC_ACTOR, value): no comparison with the local record. *)
Receive(c, p) ==
  /\ At(c, p, "recv")
  /\ \E r \in Wire(c, Other(c, p)) :
       /\ index' = [index EXCEPT ![p][r.key] = r.hash]
       /\ side' = [side EXCEPT ![c][p].got = @ \cup {r}]
       /\ dropped' = [dropped EXCEPT ![p] = @ \ {r.key}]
       /\ Disturb(p, Conns \ {c})
  /\ UNCHANGED blobs

(* Mutant: the end of the stream overtakes the records on the wire. *)
ReceiveEndAtOnce(c, p) ==
  /\ At(c, p, "recv")
  /\ Closed(c, p) \/ Gone(c, p)
  /\ SetPc(c, p, "done")
  /\ UNCHANGED <<index, blobs, dropped, calm>>

(* The end of the stream; that of an end which failed looks the same. *)
ReceiveEnd(c, p) ==
  /\ At(c, p, "recv")
  /\ Wire(c, Other(c, p)) = {}
  /\ Closed(c, p) \/ Gone(c, p)
  /\ SetPc(c, p, "done")
  /\ UNCHANGED <<index, blobs, dropped, calm>>

(* `receive failed`: the connection was lost, and what was on it with it. *)
ReceiveFails(c, p) ==
  /\ At(c, p, "recv")
  /\ side[c][Other(c, p)].pc = "failed"
  /\ SetPc(c, p, "failed")
  /\ UNCHANGED <<index, blobs, dropped, calm>>

(* Mutant: the timeout is set only for an end that has started. *)
ReceiveTimeoutIfStarted(c, p) ==
  /\ At(c, p, "recv")
  /\ side[c][Other(c, p)].pc = "send"
  /\ SetPc(c, p, "late")
  /\ UNCHANGED <<index, blobs, dropped, calm>>

(* Five seconds without a message while more could come; not an error. *)
ReceiveTimeout(c, p) ==
  /\ At(c, p, "recv")
  /\ ~ Closed(c, p) \/ Wire(c, Other(c, p)) # {}
  /\ SetPc(c, p, "late")
  /\ UNCHANGED <<index, blobs, dropped, calm>>

-----------------------------------------------------------------------------
(* put_nar and delete_nar of the process whose index is replicated. *)

(* Two builds of the path of k may differ, and k is the same. *)
PutNar(p, k) ==
  \E d \in Builds[p][k] :
    /\ index' = [index EXCEPT ![p][k] = d]
    /\ blobs' = [blobs EXCEPT ![p] = @ \cup {d}]
    /\ dropped' = [dropped EXCEPT ![p] = @ \ {k}]
    /\ Disturb(p, Conns)
    /\ UNCHANGED side

(* Mutant: the blob goes without the scan for other keys. *)
DeleteNarWithBlob(p, k) ==
  /\ index[p][k] # None
  /\ index' = [index EXCEPT ![p][k] = None]
  /\ blobs' = [blobs EXCEPT ![p] = @ \ {index[p][k]}]
  /\ dropped' = [dropped EXCEPT ![p] = @ \cup {k}]
  /\ Disturb(p, Conns)
  /\ UNCHANGED side

DeleteNar(p, k) ==
  /\ index[p][k] # None
  /\ index' = [index EXCEPT ![p][k] = None]
  /\ blobs' = [blobs EXCEPT ![p] = {d \in @ : \/ d # index[p][k]
                                              \/ \E j \in Keys \ {k} : index[p][j] = d}]
  /\ dropped' = [dropped EXCEPT ![p] = @ \cup {k}]
  /\ Disturb(p, Conns)
  /\ UNCHANGED side

(* The process of p ends; its index and blobs are on disk. *)
Crash(p) ==
  /\ \E c \in Conns : side[c][p].pc \in Running
  /\ side' = [c \in Conns |-> IF side[c][p].pc \in Running
                                THEN [side[c] EXCEPT ![p].pc = "failed"] ELSE side[c]]
  /\ UNCHANGED <<index, blobs, dropped, calm>>

(* A step the handler of c at p takes by itself. *)
SideStep(c, p) ==
  \/ Send(c, p) \/ SendFails(c, p) \/ Close(c, p)
  \/ Receive(c, p) \/ ReceiveEnd(c, p) \/ ReceiveFails(c, p) \/ ReceiveTimeout(c, p)

Next == \/ \E c \in Conns, p \in Peers : Start(c, p) \/ SideStep(c, p)
        \/ \E p \in Peers, k \in Keys : PutNar(p, k) \/ DeleteNar(p, k)
        \/ \E p \in Peers : Crash(p)

Spec == Init /\ [][Next]_vars

(* Tokio polls a spawned handler that can move, and fires its timer. *)
FairSpec == Spec /\ \A c \in Conns, p \in Peers : WF_vars(SideStep(c, p))

-----------------------------------------------------------------------------
TypeOK == /\ index \in [Peers -> [Keys -> Data \cup {None}]]
          /\ blobs \in [Peers -> SUBSET Data]
          /\ side \in [Conns -> [Peers -> SideState]]
          /\ dropped \in [Peers -> SUBSET Keys]
          /\ calm \in [Conns -> BOOLEAN]

(***************************************************************************)
(* An end whose receive loop ran to the end of the stream of a peer that   *)
(* did not fail has a record for every key that peer listed, unless the    *)
(* key was deleted at this end since (handle_sync_connection).             *)
(***************************************************************************)
CleanSyncDelivers ==
  \A cp \in Sides :
    LET c == cp[1]
        p == cp[2]
        q == Other(c, p)
    IN  side[c][p].pc = "done" /\ side[c][q].pc # "failed"
          => \A r \in side[c][q].list : index[p][r.key] # None \/ r.key \in dropped[p]

(* The hashes p has listed for k, at most one. *)
Listed(c, p, k) == {r.hash : r \in {r \in side[c][p].list : r.key = k}}

(***************************************************************************)
(* What a connection that ran to its end in both directions, with no other *)
(* write at either peer, leaves: for a key that both had listed, each has  *)
(* what the other listed, so that two hashes of a key have been swapped    *)
(* and the peers still differ; for every other key they hold the same.     *)
(* Replication by start_sync makes peers agree on the keys one of them had *)
(* not, and on those whose hash they had in common.                        *)
(***************************************************************************)
AgreeOrSwap ==
  \A c \in Conns :
    calm[c] /\ (\A p \in Ends[c] : side[c][p].pc = "done")
      => \A p \in Ends[c], k \in Keys :
           LET q == Other(c, p)
           IN  IF Listed(c, p, k) # {} /\ Listed(c, q, k) # {}
                 THEN index[p][k] \in Listed(c, q, k)
                 ELSE index[p][k] = index[q][k]

Servable(p, k) == index[p][k] \in blobs[p]

(* A record of k with another hash than p's has come in at p. *)
Overwritten(p, k) ==
  \E c \in Conns : \E r \in side'[c][p].got \ side[c][p].got :
    r.key = k /\ r.hash # index[p][k]

(***************************************************************************)
(* A NAR that a peer can serve stays servable there until its record is    *)
(* deleted or a record with another hash replaces it: no deletion of       *)
(* another key and no record with the same hash takes its blob from it     *)
(* (get_nar of the peer's server).  The record that replaces it names a    *)
(* blob that the peer may not have.                                        *)
(***************************************************************************)
SyncKeepsServable ==
  [][\A p \in Peers, k \in Keys :
       Servable(p, k) => Servable(p, k)' \/ index'[p][k] = None \/ Overwritten(p, k)]_vars

(***************************************************************************)
(* Every handler that has started returns: when the transport can hold all *)
(* an end sends, the two ends, which both send before they receive, do not *)
(* wait on each other for ever, and the timeout frees an end whose peer    *)
(* never starts.                                                           *)
(***************************************************************************)
SessionsEnd ==
  \A c \in Conns, p \in Peers :
    side[c][p].pc \in Running ~> side[c][p].pc \in Ended
=============================================================================
