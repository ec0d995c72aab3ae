----------------------------- MODULE SyncProofs -----------------------------
(***************************************************************************)
(* Theorems about Sync, for any peers, connections, keys and contents.     *)
(***************************************************************************)
EXTENDS Sync, TLAPS

(* What has passed between the two ends of a connection: an end sends what *)
(* it has listed, receives what the other has sent, and has closed its     *)
(* direction with everything sent.  An end that is done has received what  *)
(* the other has sent, unless that has failed.                             *)
Link(me, you) ==
  /\ me.sent \subseteq me.list /\ me.got \subseteq you.sent
  /\ me.pc = "new" => me = New
  /\ me.pc \in {"recv", "done", "late"} => me.sent = me.list
  /\ me.pc = "done" /\ you.pc # "failed" =>
       you.pc \in {"recv", "done", "late"} /\ you.sent \subseteq me.got

Channels == \A c \in Conns : \A p \in Ends[c] : Link(side[c][p], side[c][Other(c, p)])

(* A record that has arrived is still there, or was deleted. *)
Arrived ==
  \A c \in Conns : \A p \in Ends[c] : \A r \in side[c][p].got :
    index[p][r.key] # None \/ r.key \in dropped[p]

(* A handler has listed a key once. *)
ListedOnce ==
  \A c \in Conns, p \in Peers : \A r, x \in side[c][p].list : r.key = x.key => r = x

(* What an end holds for a key k when nothing else has written there: what *)
(* it has received for k; if nothing, what it had listed; if not that      *)
(* either, nothing.                                                        *)
Holds(value, me, k) ==
  /\ \A r \in me.got : r.key = k => value = r.hash
  /\ (\A r \in me.got : r.key # k) =>
       /\ \A r \in me.list : r.key = k => value = r.hash
       /\ (\A r \in me.list : r.key # k) => value = None

Calm ==
  \A c \in Conns : calm[c] =>
    \A p \in Ends[c] : side[c][p].pc # "new" =>
      \A k \in Keys : Holds(index[p][k], side[c][p], k)

SInv == TypeOK /\ Channels /\ Arrived /\ ListedOnce /\ Calm

-----------------------------------------------------------------------------
LEMMA OtherEnd ==
  ASSUME NEW c \in Conns, NEW p \in Ends[c]
  PROVE  /\ Other(c, p) \in Ends[c] /\ Other(c, p) # p
         /\ Other(c, Other(c, p)) = p
         /\ p \in Peers /\ Other(c, p) \in Peers
         /\ \A q \in Ends[c] : q = p \/ q = Other(c, p)
<1>1. PICK a \in Peers, b \in Peers : a # b /\ Ends[c] = {a, b}
  BY SyncAssumption
<1>2. \A e \in Ends[c] : Other(c, e) \in Ends[c] /\ Other(c, e) # e
  <2> SUFFICES ASSUME NEW e \in Ends[c] PROVE Other(c, e) \in Ends[c] /\ Other(c, e) # e
    OBVIOUS
  <2>1. \E q \in Ends[c] : q # e
    BY <1>1
  <2> QED
    BY <2>1 DEF Other
<1> QED
  BY <1>1, <1>2

(* A step that gives one handler another state leaves the others alone. *)
LEMMA SideChange ==
  ASSUME TypeOK, NEW c \in Conns, NEW p \in Peers, NEW s \in SideState,
         side' = [side EXCEPT ![c][p] = s]
  PROVE  /\ side' \in [Conns -> [Peers -> SideState]]
         /\ side'[c][p] = s
         /\ \A d \in Conns, q \in Peers : d # c \/ q # p => side'[d][q] = side[d][q]
<1>1. side \in [Conns -> [Peers -> SideState]]
  BY DEF TypeOK
<1> QED
  BY <1>1

(* It is enough to look at its two directions. *)
LEMMA ChannelsKept ==
  ASSUME Channels, NEW c \in Conns, NEW p \in Ends[c], NEW s,
         side'[c][p] = s,
         \A d \in Conns, q \in Peers : d # c \/ q # p => side'[d][q] = side[d][q],
         Link(s, side[c][Other(c, p)]), Link(side[c][Other(c, p)], s)
  PROVE  Channels'
<1> SUFFICES ASSUME NEW d \in Conns, NEW q \in Ends[d]
             PROVE  Link(side'[d][q], side'[d][Other(d, q)])
  BY DEF Channels
<1>1. Link(side[d][q], side[d][Other(d, q)])
  BY DEF Channels
<1>2. q \in Peers /\ Other(d, q) \in Peers
  BY OtherEnd
<1>3. CASE d = c /\ q = p
  BY <1>2, <1>3, OtherEnd
<1>4. CASE d = c /\ q # p
  BY <1>2, <1>4, OtherEnd
<1>5. CASE d # c
  BY <1>1, <1>2, <1>5
<1> QED
  BY <1>3, <1>4, <1>5

LEMMA NewType == New \in SideState
BY DEF New, SideState

LEMMA SInvInit == Init => SInv
<1> SUFFICES ASSUME Init PROVE SInv
  OBVIOUS
<1>1. TypeOK
  BY NewType DEF Init, TypeOK
<1>2. \A c \in Conns, p \in Peers : side[c][p] = New
  BY DEF Init
<1>3. New.pc = "new" /\ New.list = {} /\ New.sent = {} /\ New.got = {}
  BY DEF New
<1>4. Channels
  BY <1>2, <1>3, OtherEnd DEF Channels, Link
<1>5. Arrived
  BY <1>2, <1>3, OtherEnd DEF Arrived
<1>6. ListedOnce
  BY <1>2, <1>3 DEF ListedOnce
<1>7. Calm
  BY <1>2, <1>3, OtherEnd DEF Calm
<1> QED
  BY <1>1, <1>4, <1>5, <1>6, <1>7 DEF SInv

LEMMA ListingIs ==
  ASSUME TypeOK, NEW p \in Peers
  PROVE  /\ Listing(p) \in SUBSET Record
         /\ \A r \in Listing(p) : r.hash = index[p][r.key] /\ index[p][r.key] # None
         /\ \A k \in Keys : index[p][k] # None <=> \E r \in Listing(p) : r.key = k
         /\ \A r, x \in Listing(p) : r.key = x.key => r = x
<1>1. \A r : r \in Listing(p) <=> \E k \in Keys : /\ index[p][k] # None
                                                 /\ r = [key |-> k, hash |-> index[p][k]]
  BY DEF Listing
<1>2. \A k \in Keys : index[p][k] # None => [key |-> k, hash |-> index[p][k]] \in Record
  BY DEF TypeOK, Record
<1>3. \A k \in Keys : /\ [key |-> k, hash |-> index[p][k]].key = k
                      /\ [key |-> k, hash |-> index[p][k]].hash = index[p][k]
  OBVIOUS
<1>4. Listing(p) \in SUBSET Record
  BY <1>1, <1>2
<1>5. \A r \in Listing(p) : r.hash = index[p][r.key] /\ index[p][r.key] # None
  BY <1>1, <1>3
<1>6. \A k \in Keys : index[p][k] # None <=> \E r \in Listing(p) : r.key = k
  <2>1. ASSUME NEW k \in Keys, index[p][k] # None
        PROVE  \E r \in Listing(p) : r.key = k
    <3>1. [key |-> k, hash |-> index[p][k]] \in Listing(p)
      BY <1>1, <2>1
    <3> QED
      BY <1>3, <3>1
  <2>2. ASSUME NEW r \in Listing(p)
        PROVE  index[p][r.key] # None
    BY <1>5
  <2> QED
    BY <2>1, <2>2
<1>7. \A r, x \in Listing(p) : r.key = x.key => r = x
  BY <1>1, <1>3
<1> QED
  BY <1>4, <1>5, <1>6, <1>7

-----------------------------------------------------------------------------
(* The handler starts, with its listing. *)
LEMMA StartKeeps ==
  ASSUME SInv, NEW c \in Conns, NEW p \in Peers, Start(c, p)
  PROVE  SInv'
<1>a. TypeOK /\ side[c][p] \in SideState
  BY DEF SInv, TypeOK
<1>0. /\ p \in Ends[c] /\ side[c][p].pc = "new"
      /\ UNCHANGED <<index, blobs, dropped, calm>>
  BY DEF Start, At
<1>1. side[c][p] = New
  BY <1>0 DEF SInv, Channels, Link
<1>2. /\ Listing(p) \in SUBSET Record
      /\ \A r \in Listing(p) : r.hash = index[p][r.key] /\ index[p][r.key] # None
      /\ \A k \in Keys : index[p][k] # None <=> \E r \in Listing(p) : r.key = k
      /\ \A r, x \in Listing(p) : r.key = x.key => r = x
  BY <1>a, ListingIs
<1>3. PICK s \in SideState : /\ side' = [side EXCEPT ![c][p] = s]
                            /\ s.pc = "send" /\ s.list = Listing(p)
                            /\ s.sent = {} /\ s.got = {}
  <2> DEFINE s == [side[c][p] EXCEPT !.pc = "send", !.list = Listing(p)]
  <2>1. s \in SideState /\ s.pc = "send" /\ s.list = Listing(p)
        /\ s.sent = side[c][p].sent /\ s.got = side[c][p].got
    BY <1>a, <1>2 DEF SideState, Running, Ended
  <2>2. s.sent = {} /\ s.got = {}
    BY <1>1, <2>1 DEF New
  <2>3. side' = [side EXCEPT ![c][p] = s]
    BY <1>a DEF Start, TypeOK
  <2> QED
    BY <2>1, <2>2, <2>3
<1>4. side' \in [Conns -> [Peers -> SideState]]
  BY <1>a, <1>3, SideChange
<1>5. side'[c][p] = s
  BY <1>a, <1>3, SideChange
<1>6. \A d \in Conns, q \in Peers : d # c \/ q # p => side'[d][q] = side[d][q]
  BY <1>a, <1>3, SideChange
<1>7. TypeOK'
  BY <1>a, <1>0, <1>4 DEF TypeOK
<1>8. Channels'
  <2>1. Link(side[c][p], side[c][Other(c, p)]) /\ Link(side[c][Other(c, p)], side[c][p])
    BY <1>0, OtherEnd DEF SInv, Channels
  <2>2. Link(s, side[c][Other(c, p)]) /\ Link(side[c][Other(c, p)], s)
    BY <1>1, <1>3, <2>1 DEF Link, New
  <2> QED
    BY <1>0, <1>5, <1>6, <2>2, ChannelsKept DEF SInv
<1>9. Arrived'
  <2> SUFFICES ASSUME NEW d \in Conns, NEW q \in Ends[d], NEW r \in side'[d][q].got
               PROVE  index[q][r.key] # None \/ r.key \in dropped[q]
    BY <1>0 DEF Arrived
  <2>1. d # c \/ q # p
    BY <1>3, <1>5
  <2>2. side'[d][q] = side[d][q]
    BY <1>6, <2>1, OtherEnd
  <2> QED
    BY <2>2 DEF SInv, Arrived
<1>10. ListedOnce'
  BY <1>2, <1>3, <1>5, <1>6 DEF SInv, ListedOnce
<1>11. Calm'
  <2> SUFFICES ASSUME NEW d \in Conns, calm[d], NEW q \in Ends[d],
                      side'[d][q].pc # "new", NEW k \in Keys
               PROVE  Holds(index[q][k], side'[d][q], k)
    BY <1>0 DEF Calm
  <2>1. CASE d = c /\ q = p
    <3>1. (\A r \in s.list : r.key # k) => index[p][k] = None
      BY <1>2, <1>3
    <3> QED
      BY <1>2, <1>3, <1>5, <2>1, <3>1 DEF Holds
  <2>2. CASE d # c \/ q # p
    <3>1. side'[d][q] = side[d][q]
      BY <1>6, <2>2, OtherEnd
    <3> QED
      BY <3>1 DEF SInv, Calm
  <2> QED
    BY <2>1, <2>2
<1> QED
  BY <1>7, <1>8, <1>9, <1>10, <1>11 DEF SInv

(* A step of a handler that neither lists nor receives. *)
LEMMA HandlerKeeps ==
  ASSUME SInv, NEW c \in Conns, NEW p \in Ends[c], NEW s \in SideState,
         side' = [side EXCEPT ![c][p] = s],
         UNCHANGED <<index, blobs, dropped, calm>>,
         side[c][p].pc # "new",
         s.list = side[c][p].list, s.got = side[c][p].got,
         Link(s, side[c][Other(c, p)]), Link(side[c][Other(c, p)], s)
  PROVE  SInv'
<1>1. TypeOK /\ p \in Peers
  BY OtherEnd DEF SInv
<1>2. side' \in [Conns -> [Peers -> SideState]]
  BY <1>1, SideChange
<1>3. side'[c][p] = s
  BY <1>1, SideChange
<1>4. \A d \in Conns, q \in Peers : d # c \/ q # p => side'[d][q] = side[d][q]
  BY <1>1, SideChange
<1>5. \A d \in Conns, q \in Peers : /\ side'[d][q].list = side[d][q].list
                                    /\ side'[d][q].got = side[d][q].got
  BY <1>3, <1>4
<1>6. TypeOK'
  BY <1>1, <1>2 DEF TypeOK
<1>7. Channels'
  BY <1>3, <1>4, ChannelsKept DEF SInv
<1>8. Arrived'
  BY <1>5, OtherEnd DEF SInv, Arrived
<1>9. ListedOnce'
  BY <1>5 DEF SInv, ListedOnce
<1>10. Calm'
  <2>1. \A d \in Conns, q \in Peers : side'[d][q].pc # "new" => side[d][q].pc # "new"
    BY <1>3, <1>4
  <2> QED
    BY <1>5, <2>1, OtherEnd DEF SInv, Calm, Holds
<1> QED
  BY <1>6, <1>7, <1>8, <1>9, <1>10 DEF SInv

LEMMA SendKeeps ==
  ASSUME SInv, NEW c \in Conns, NEW p \in Peers, Send(c, p)
  PROVE  SInv'
<1>1. /\ p \in Ends[c] /\ side[c][p].pc = "send" /\ side[c][p] \in SideState
      /\ UNCHANGED <<index, blobs, dropped, calm>>
  BY DEF SInv, TypeOK, Send, At
<1>2. PICK r \in side[c][p].list \ side[c][p].sent :
        side' = [side EXCEPT ![c][p].sent = @ \cup {r}]
  BY DEF Send
<1>3. PICK s \in SideState : /\ side' = [side EXCEPT ![c][p] = s]
                            /\ s.pc = "send" /\ s.list = side[c][p].list
                            /\ s.sent = side[c][p].sent \cup {r}
                            /\ s.got = side[c][p].got
  <2> DEFINE s == [side[c][p] EXCEPT !.sent = @ \cup {r}]
  <2>1. s \in SideState /\ s.pc = "send" /\ s.list = side[c][p].list
        /\ s.sent = side[c][p].sent \cup {r} /\ s.got = side[c][p].got
    BY <1>1, <1>2 DEF SideState
  <2>2. side' = [side EXCEPT ![c][p] = s]
    BY <1>2 DEF SInv, TypeOK
  <2> QED
    BY <2>1, <2>2
<1>4. Link(side[c][p], side[c][Other(c, p)]) /\ Link(side[c][Other(c, p)], side[c][p])
  BY <1>1, OtherEnd DEF SInv, Channels
<1>5. Link(s, side[c][Other(c, p)]) /\ Link(side[c][Other(c, p)], s)
  BY <1>1, <1>2, <1>3, <1>4 DEF Link
<1> QED
  BY <1>1, <1>3, <1>5, HandlerKeeps

(* A handler goes on to pc, with all it has sent and received. *)
LEMMA SetPcKeeps ==
  ASSUME SInv, NEW c \in Conns, NEW p \in Ends[c], NEW pc \in Running \cup Ended,
         SetPc(c, p, pc), UNCHANGED <<index, blobs, dropped, calm>>,
         side[c][p].pc \in Running,
         pc \in {"recv", "done", "late"} => side[c][p].sent = side[c][p].list,
         side[c][Other(c, p)].pc = "done" => pc # "send",
         pc = "done" /\ side[c][Other(c, p)].pc # "failed" =>
           /\ side[c][Other(c, p)].pc \in {"recv", "done", "late"}
           /\ side[c][Other(c, p)].sent \subseteq side[c][p].got
  PROVE  SInv'
<1>1. side[c][p] \in SideState /\ p \in Peers
  BY OtherEnd DEF SInv, TypeOK
<1>2. PICK s \in SideState : /\ side' = [side EXCEPT ![c][p] = s]
                            /\ s.pc = pc /\ s.list = side[c][p].list
                            /\ s.sent = side[c][p].sent /\ s.got = side[c][p].got
  <2> DEFINE s == [side[c][p] EXCEPT !.pc = pc]
  <2>1. s \in SideState /\ s.pc = pc /\ s.list = side[c][p].list
        /\ s.sent = side[c][p].sent /\ s.got = side[c][p].got
    BY <1>1 DEF SideState
  <2>2. side' = [side EXCEPT ![c][p] = s]
    BY DEF SetPc, SInv, TypeOK
  <2> QED
    BY <2>1, <2>2
<1>3. Link(side[c][p], side[c][Other(c, p)]) /\ Link(side[c][Other(c, p)], side[c][p])
  BY OtherEnd DEF SInv, Channels
<1>4. Link(s, side[c][Other(c, p)]) /\ Link(side[c][Other(c, p)], s)
  BY <1>2, <1>3 DEF Link, Running, Ended
<1>5. side[c][p].pc # "new"
  BY DEF Running
<1> QED
  BY <1>2, <1>4, <1>5, HandlerKeeps

LEMMA EndKeeps ==
  ASSUME SInv, NEW c \in Conns, NEW p \in Peers,
         SendFails(c, p) \/ Close(c, p) \/ ReceiveEnd(c, p)
           \/ ReceiveFails(c, p) \/ ReceiveTimeout(c, p)
  PROVE  SInv'
<1>1. p \in Ends[c] /\ side[c][p].pc \in Running /\ UNCHANGED <<index, blobs, dropped, calm>>
  BY DEF SendFails, Close, ReceiveEnd, ReceiveFails, ReceiveTimeout, At, Running
<1>2. Link(side[c][p], side[c][Other(c, p)]) /\ Link(side[c][Other(c, p)], side[c][p])
  BY <1>1, OtherEnd DEF SInv, Channels
<1>3. CASE SendFails(c, p) \/ ReceiveFails(c, p)
  <2>1. SetPc(c, p, "failed")
    BY <1>3 DEF SendFails, ReceiveFails
  <2> QED
    BY <1>1, <2>1, SetPcKeeps DEF Ended
<1>4. CASE Close(c, p)
  <2>1. SetPc(c, p, "recv") /\ side[c][p].sent = side[c][p].list
    BY <1>4 DEF Close
  <2> QED
    BY <1>1, <2>1, SetPcKeeps DEF Running
<1>5. CASE ReceiveTimeout(c, p)
  <2>1. SetPc(c, p, "late") /\ side[c][p].pc = "recv"
    BY <1>5 DEF ReceiveTimeout, At
  <2>2. side[c][p].sent = side[c][p].list
    BY <1>2, <2>1 DEF Link
  <2> QED
    BY <1>1, <2>1, <2>2, SetPcKeeps DEF Ended
<1>6. CASE ReceiveEnd(c, p)
  <2>1. /\ SetPc(c, p, "done") /\ side[c][p].pc = "recv"
        /\ Wire(c, Other(c, p)) = {} /\ (Closed(c, p) \/ Gone(c, p))
    BY <1>6 DEF ReceiveEnd, At
  <2>2. side[c][p].sent = side[c][p].list
    BY <1>2, <2>1 DEF Link
  <2>3. side[c][Other(c, p)].sent \subseteq side[c][p].got
    BY <1>1, <2>1, OtherEnd DEF Wire
  <2>4. side[c][Other(c, p)].pc # "failed" =>
          side[c][Other(c, p)].pc \in {"recv", "done", "late"}
    BY <2>1 DEF Closed, Gone, Ended
  <2> QED
    BY <1>1, <2>1, <2>2, <2>3, <2>4, SetPcKeeps DEF Ended
<1> QED
  BY <1>3, <1>4, <1>5, <1>6

(* What a write at p leaves calm: connections of others, the one that      *)
(* writes, and those that no end has started.                              *)
LEMMA Disturbed ==
  ASSUME TypeOK, NEW p \in Peers, NEW cs, Disturb(p, cs)
  PROVE  /\ calm' \in [Conns -> BOOLEAN]
         /\ \A d \in Conns : calm'[d] =>
              /\ calm[d]
              /\ d \in cs /\ p \in Ends[d] => \A q \in Ends[d] : side[d][q].pc = "new"
BY DEF TypeOK, Disturb

(* A record arrives and replaces the local one. *)
LEMMA ReceiveKeeps ==
  ASSUME SInv, NEW c \in Conns, NEW p \in Peers, Receive(c, p)
  PROVE  SInv'
<1>a. TypeOK /\ side[c][p] \in SideState
  BY DEF SInv, TypeOK
<1>0. /\ p \in Ends[c] /\ side[c][p].pc = "recv" /\ blobs' = blobs
      /\ Disturb(p, Conns \ {c})
  BY DEF Receive, At
<1>1. PICK r \in Wire(c, Other(c, p)) :
        /\ index' = [index EXCEPT ![p][r.key] = r.hash]
        /\ side' = [side EXCEPT ![c][p].got = @ \cup {r}]
        /\ dropped' = [dropped EXCEPT ![p] = @ \ {r.key}]
  BY DEF Receive
<1>2. Link(side[c][p], side[c][Other(c, p)]) /\ Link(side[c][Other(c, p)], side[c][p])
  BY <1>0, OtherEnd DEF SInv, Channels
<1>3. r \in side[c][Other(c, p)].sent /\ r \in side[c][Other(c, p)].list
  BY <1>1, <1>2 DEF Wire, Link
<1>4. r \in Record
  <2>1. Other(c, p) \in Peers
    BY <1>0, OtherEnd
  <2>2. side[c][Other(c, p)].list \subseteq Record
    BY <1>a, <2>1 DEF TypeOK, SideState
  <2> QED
    BY <1>3, <2>2
<1>5. r.key \in Keys /\ r.hash \in Data /\ r.hash # None
  BY <1>4, SyncAssumption DEF Record
<1>6. PICK s \in SideState : /\ side' = [side EXCEPT ![c][p] = s]
                            /\ s.pc = "recv" /\ s.list = side[c][p].list
                            /\ s.sent = side[c][p].sent
                            /\ s.got = side[c][p].got \cup {r}
  <2> DEFINE s == [side[c][p] EXCEPT !.got = @ \cup {r}]
  <2>1. s \in SideState /\ s.pc = "recv" /\ s.list = side[c][p].list
        /\ s.sent = side[c][p].sent /\ s.got = side[c][p].got \cup {r}
    BY <1>a, <1>0, <1>4 DEF SideState
  <2>2. side' = [side EXCEPT ![c][p] = s]
    BY <1>a, <1>1 DEF TypeOK
  <2> QED
    BY <2>1, <2>2
<1>7. side' \in [Conns -> [Peers -> SideState]]
  BY <1>a, <1>6, SideChange
<1>8. side'[c][p] = s
  BY <1>a, <1>6, SideChange
<1>9. \A d \in Conns, q \in Peers : d # c \/ q # p => side'[d][q] = side[d][q]
  BY <1>a, <1>6, SideChange
<1>10. /\ index' \in [Peers -> [Keys -> Data \cup {None}]]
       /\ index'[p][r.key] = r.hash
       /\ \A q \in Peers, k \in Keys : q # p \/ k # r.key => index'[q][k] = index[q][k]
  BY <1>a, <1>1, <1>5 DEF TypeOK
<1>11. /\ dropped' \in [Peers -> SUBSET Keys]
       /\ \A q \in Peers, k \in Keys : q # p \/ k # r.key => (k \in dropped'[q] <=> k \in dropped[q])
  BY <1>a, <1>1 DEF TypeOK
<1>12. /\ calm' \in [Conns -> BOOLEAN]
       /\ \A d \in Conns : calm'[d] =>
            /\ calm[d]
            /\ d \in Conns \ {c} /\ p \in Ends[d] => \A q \in Ends[d] : side[d][q].pc = "new"
  BY <1>a, <1>0, Disturbed
<1>13. TypeOK'
  BY <1>a, <1>0, <1>7, <1>10, <1>11, <1>12 DEF TypeOK
<1>14. Channels'
  <2>1. Link(s, side[c][Other(c, p)]) /\ Link(side[c][Other(c, p)], s)
    BY <1>0, <1>2, <1>3, <1>6 DEF Link
  <2> QED
    BY <1>0, <1>8, <1>9, <2>1, ChannelsKept DEF SInv
<1>15. Arrived'
  <2> SUFFICES ASSUME NEW d \in Conns, NEW q \in Ends[d], NEW x \in side'[d][q].got
               PROVE  index'[q][x.key] # None \/ x.key \in dropped'[q]
    BY DEF Arrived
  <2>0. q \in Peers
    BY OtherEnd
  <2>1. side'[d][q] \in SideState
    BY <1>7, <2>0
  <2>2. x.key \in Keys
    BY <2>1 DEF SideState, Record
  <2>3. CASE q = p /\ x.key = r.key
    BY <1>5, <1>10, <2>3
  <2>4. CASE q # p \/ x.key # r.key
    <3>1. x \in side[d][q].got
      BY <1>6, <1>8, <1>9, <2>0, <2>2, <2>4
    <3>2. index[q][x.key] # None \/ x.key \in dropped[q]
      BY <3>1 DEF SInv, Arrived
    <3> QED
      BY <1>10, <1>11, <2>0, <2>2, <2>4, <3>2
  <2> QED
    BY <2>3, <2>4
<1>16. ListedOnce'
  <2>1. \A d \in Conns, q \in Peers : side'[d][q].list = side[d][q].list
    BY <1>6, <1>8, <1>9
  <2> QED
    BY <2>1 DEF SInv, ListedOnce
<1>17. Calm'
  <2> SUFFICES ASSUME NEW d \in Conns, calm'[d], NEW q \in Ends[d],
                      side'[d][q].pc # "new", NEW k \in Keys
               PROVE  Holds(index'[q][k], side'[d][q], k)
    BY DEF Calm
  <2>0. q \in Peers /\ calm[d]
    BY <1>12, OtherEnd
  <2>1. CASE d = c /\ q = p
    <3>1. Holds(index[p][k], side[c][p], k)
      BY <1>0, <2>0, <2>1 DEF SInv, Calm
    <3>2. side'[d][q].list = side[c][p].list /\ side'[d][q].got = side[c][p].got \cup {r}
      BY <1>6, <1>8, <2>1
    <3>3. CASE k = r.key
      <4>1. \A x \in side[c][p].got : x.key = k => x = r
        <5>1. side[c][p].got \subseteq side[c][Other(c, p)].list
          BY <1>2 DEF Link
        <5>2. Other(c, p) \in Peers
          BY <1>0, OtherEnd
        <5> QED
          BY <1>3, <3>3, <5>1, <5>2 DEF SInv, ListedOnce
      <4>2. index'[q][k] = r.hash
        BY <1>10, <2>1, <3>3
      <4> QED
        BY <3>2, <3>3, <4>1, <4>2 DEF Holds
    <3>4. CASE k # r.key
      <4>1. index'[q][k] = index[p][k]
        BY <1>10, <2>1, <3>4
      <4> QED
        BY <3>1, <3>2, <3>4, <4>1 DEF Holds
    <3> QED
      BY <3>3, <3>4
  <2>2. CASE q # p
    <3>1. side'[d][q] = side[d][q] /\ index'[q][k] = index[q][k]
      BY <1>9, <1>10, <2>0, <2>2
    <3> QED
      BY <2>0, <3>1 DEF SInv, Calm
  <2>3. CASE d # c /\ q = p
    <3>1. side'[d][q] = side[d][q] /\ side[d][q].pc = "new"
      BY <1>9, <1>12, <2>0, <2>3
    <3> QED
      BY <3>1
  <2> QED
    BY <2>1, <2>2, <2>3
<1> QED
  BY <1>13, <1>14, <1>15, <1>16, <1>17 DEF SInv

(* A put or a delete at p of the key k, beside the connections. *)
LEMMA WriteKeeps ==
  ASSUME SInv, NEW p \in Peers, NEW k \in Keys, NEW d \in Data \cup {None},
         index' = [index EXCEPT ![p][k] = d],
         blobs' \in [Peers -> SUBSET Data],
         dropped' \in [Peers -> SUBSET Keys],
         \A q \in Peers, j \in Keys : q # p \/ j # k => (j \in dropped'[q] <=> j \in dropped[q]),
         d = None => k \in dropped'[p],
         Disturb(p, Conns), side' = side
  PROVE  SInv'
<1>1. TypeOK
  BY DEF SInv
<1>2. /\ index' \in [Peers -> [Keys -> Data \cup {None}]]
      /\ index'[p][k] = d
      /\ \A q \in Peers, j \in Keys : q # p \/ j # k => index'[q][j] = index[q][j]
  BY <1>1 DEF TypeOK
<1>3. /\ calm' \in [Conns -> BOOLEAN]
      /\ \A c \in Conns : calm'[c] =>
           /\ calm[c]
           /\ c \in Conns /\ p \in Ends[c] => \A q \in Ends[c] : side[c][q].pc = "new"
  BY <1>1, Disturbed
<1>4. TypeOK'
  BY <1>1, <1>2, <1>3 DEF TypeOK
<1>5. Channels'
  BY DEF SInv, Channels
<1>6. Arrived'
  <2> SUFFICES ASSUME NEW c \in Conns, NEW q \in Ends[c], NEW x \in side[c][q].got
               PROVE  index'[q][x.key] # None \/ x.key \in dropped'[q]
    BY DEF Arrived
  <2>0. q \in Peers
    BY OtherEnd
  <2>1. side[c][q] \in SideState
    BY <1>1, <2>0 DEF TypeOK
  <2>2. x.key \in Keys
    BY <2>1 DEF SideState, Record
  <2>3. index[q][x.key] # None \/ x.key \in dropped[q]
    BY DEF SInv, Arrived
  <2> QED
    BY <1>2, <2>0, <2>2, <2>3
<1>7. ListedOnce'
  BY DEF SInv, ListedOnce
<1>8. Calm'
  <2> SUFFICES ASSUME NEW c \in Conns, calm'[c], NEW q \in Ends[c],
                      side[c][q].pc # "new", NEW j \in Keys
               PROVE  Holds(index'[q][j], side[c][q], j)
    BY DEF Calm
  <2>1. calm[c] /\ q # p
    BY <1>3
  <2>2. index'[q][j] = index[q][j]
    BY <1>2, <2>1, OtherEnd
  <2> QED
    BY <2>1, <2>2 DEF SInv, Calm
<1> QED
  BY <1>4, <1>5, <1>6, <1>7, <1>8 DEF SInv

LEMMA PutNarKeeps ==
  ASSUME SInv, NEW p \in Peers, NEW k \in Keys, PutNar(p, k)
  PROVE  SInv'
<1>1. PICK d \in Builds[p][k] : /\ index' = [index EXCEPT ![p][k] = d]
                            /\ blobs' = [blobs EXCEPT ![p] = @ \cup {d}]
                            /\ dropped' = [dropped EXCEPT ![p] = @ \ {k}]
                            /\ Disturb(p, Conns) /\ side' = side
  BY DEF PutNar
<1>2. d \in Data /\ d # None
  BY SyncAssumption
<1>3. blobs' \in [Peers -> SUBSET Data]
  BY <1>1, <1>2 DEF SInv, TypeOK
<1>4. /\ dropped' \in [Peers -> SUBSET Keys]
      /\ \A q \in Peers, j \in Keys : q # p \/ j # k => (j \in dropped'[q] <=> j \in dropped[q])
  BY <1>1 DEF SInv, TypeOK
<1> QED
  BY <1>1, <1>2, <1>3, <1>4, WriteKeeps

LEMMA DeleteNarKeeps ==
  ASSUME SInv, NEW p \in Peers, NEW k \in Keys, DeleteNar(p, k)
  PROVE  SInv'
<1>1. /\ index' = [index EXCEPT ![p][k] = None]
      /\ blobs' = [blobs EXCEPT ![p] = {d \in @ : \/ d # index[p][k]
                                                  \/ \E j \in Keys \ {k} : index[p][j] = d}]
      /\ dropped' = [dropped EXCEPT ![p] = @ \cup {k}]
      /\ Disturb(p, Conns) /\ side' = side
  BY DEF DeleteNar
<1>2. blobs' \in [Peers -> SUBSET Data]
  BY <1>1 DEF SInv, TypeOK
<1>3. /\ dropped' \in [Peers -> SUBSET Keys] /\ k \in dropped'[p]
      /\ \A q \in Peers, j \in Keys : q # p \/ j # k => (j \in dropped'[q] <=> j \in dropped[q])
  BY <1>1 DEF SInv, TypeOK
<1> QED
  BY <1>1, <1>2, <1>3, WriteKeeps

(* A crash ends the handlers of a peer, and none of the others. *)
LEMMA CrashKeeps ==
  ASSUME SInv, NEW p \in Peers, Crash(p)
  PROVE  SInv'
<1>1. /\ UNCHANGED <<index, blobs, dropped, calm>>
      /\ side' = [c \in Conns |-> IF side[c][p].pc \in Running
                                    THEN [side[c] EXCEPT ![p].pc = "failed"] ELSE side[c]]
  BY DEF Crash
<1>2. side \in [Conns -> [Peers -> SideState]]
  BY DEF SInv, TypeOK
<1>3. ASSUME NEW c \in Conns, NEW q \in Peers
      PROVE  /\ side'[c][q] \in SideState
             /\ side'[c][q].list = side[c][q].list
             /\ side'[c][q].sent = side[c][q].sent
             /\ side'[c][q].got = side[c][q].got
             /\ \/ side'[c][q] = side[c][q]
                \/ side'[c][q].pc = "failed" /\ side[c][q].pc \in Running
  <2> DEFINE s == [side[c][p] EXCEPT !.pc = "failed"]
  <2>1. side[c][q] \in SideState /\ side[c][p] \in SideState
    BY <1>2
  <2>2. /\ s \in SideState /\ s.pc = "failed" /\ s.list = side[c][p].list
        /\ s.sent = side[c][p].sent /\ s.got = side[c][p].got
    BY <2>1 DEF SideState, Ended
  <2>3. side'[c] = IF side[c][p].pc \in Running THEN [side[c] EXCEPT ![p] = s] ELSE side[c]
    BY <1>1
  <2> HIDE DEF s
  <2>4. side'[c][q] = IF side[c][p].pc \in Running /\ q = p THEN s ELSE side[c][q]
    BY <1>2, <2>3
  <2>5. CASE side[c][p].pc \in Running /\ q = p
    BY <2>1, <2>2, <2>4, <2>5
  <2>6. CASE ~(side[c][p].pc \in Running /\ q = p)
    <3>1. side'[c][q] = side[c][q]
      BY <2>4, <2>6
    <3> QED
      BY <2>1, <3>1
  <2> QED
    BY <2>5, <2>6
<1>4. side' \in [Conns -> [Peers -> SideState]]
  <2>1. \A c \in Conns : side'[c] \in [Peers -> SideState]
    <3> SUFFICES ASSUME NEW c \in Conns PROVE side'[c] \in [Peers -> SideState]
      OBVIOUS
    <3>1. side'[c] = IF side[c][p].pc \in Running
                       THEN [side[c] EXCEPT ![p].pc = "failed"] ELSE side[c]
      BY <1>1
    <3>2. DOMAIN side'[c] = Peers /\ side'[c] = [q \in Peers |-> side'[c][q]]
      BY <1>2, <3>1
    <3> QED
      BY <1>3, <3>2
  <2> QED
    BY <1>1, <2>1
<1>5. TypeOK'
  BY <1>1, <1>4 DEF SInv, TypeOK
<1>6. Channels'
  <2> SUFFICES ASSUME NEW c \in Conns, NEW q \in Ends[c]
               PROVE  Link(side'[c][q], side'[c][Other(c, q)])
    BY DEF Channels
  <2>1. q \in Peers /\ Other(c, q) \in Peers
    BY OtherEnd
  <2>2. Link(side[c][q], side[c][Other(c, q)])
    BY DEF SInv, Channels
  <2> QED
    BY <1>3, <2>1, <2>2 DEF Link, Running
<1>7. Arrived'
  BY <1>1, <1>3, OtherEnd DEF SInv, Arrived
<1>8. ListedOnce'
  BY <1>3 DEF SInv, ListedOnce
<1>9. Calm'
  <2>1. \A c \in Conns, q \in Peers : side'[c][q].pc # "new" => side[c][q].pc # "new"
    BY <1>3 DEF Running
  <2> QED
    BY <1>1, <1>3, <2>1, OtherEnd DEF SInv, Calm, Holds
<1> QED
  BY <1>5, <1>6, <1>7, <1>8, <1>9 DEF SInv

LEMMA SInvStep == SInv /\ [Next]_vars => SInv'
<1> SUFFICES ASSUME SInv, [Next]_vars PROVE SInv'
  OBVIOUS
<1>1. ASSUME NEW c \in Conns, NEW p \in Peers, Start(c, p) \/ SideStep(c, p)
      PROVE  SInv'
  BY <1>1, StartKeeps, SendKeeps, EndKeeps, ReceiveKeeps DEF SideStep
<1>2. ASSUME NEW p \in Peers, NEW k \in Keys, PutNar(p, k) \/ DeleteNar(p, k)
      PROVE  SInv'
  BY <1>2, PutNarKeeps, DeleteNarKeeps
<1>3. ASSUME UNCHANGED vars
      PROVE  SInv'
  BY <1>3 DEF vars, SInv, TypeOK, Channels, Arrived, ListedOnce, Calm
<1> QED
  BY <1>1, <1>2, <1>3, CrashKeeps DEF Next

LEMMA SInvAlways == Spec => []SInv
BY SInvInit, SInvStep, PTL DEF Spec

-----------------------------------------------------------------------------
(* The state of an end, a wire and an index keep their types. *)
THEOREM TypeCorrect == Spec => []TypeOK
BY SInvAlways, PTL DEF SInv

(* An end that ran to the end of the stream of a peer that did not fail    *)
(* has a record for all that the peer listed, but for what it deleted.     *)
THEOREM CleanDelivers == Spec => []CleanSyncDelivers
<1>1. SInv => CleanSyncDelivers
  <2> SUFFICES ASSUME SInv, NEW c \in Conns, NEW p \in Ends[c],
                      side[c][p].pc = "done", side[c][Other(c, p)].pc # "failed",
                      NEW r \in side[c][Other(c, p)].list
               PROVE  index[p][r.key] # None \/ r.key \in dropped[p]
    BY DEF CleanSyncDelivers, Sides
  <2>1. Link(side[c][p], side[c][Other(c, p)]) /\ Link(side[c][Other(c, p)], side[c][p])
    BY OtherEnd DEF SInv, Channels
  <2>2. r \in side[c][p].got
    BY <2>1 DEF Link
  <2> QED
    BY <2>2 DEF SInv, Arrived
<1> QED
  BY <1>1, SInvAlways, PTL

(* A connection that ran to its end in both directions, with nothing else  *)
(* written at its ends, leaves each with what the other had listed, and    *)
(* both with the same record of a key that at most one had listed.         *)
THEOREM PeersAgreeOrSwap == Spec => []AgreeOrSwap
<1>1. SInv => AgreeOrSwap
  <2> SUFFICES ASSUME SInv, NEW c \in Conns, calm[c],
                      \A p \in Ends[c] : side[c][p].pc = "done",
                      NEW p \in Ends[c], NEW k \in Keys
               PROVE  IF Listed(c, p, k) # {} /\ Listed(c, Other(c, p), k) # {}
                        THEN index[p][k] \in Listed(c, Other(c, p), k)
                        ELSE index[p][k] = index[Other(c, p)][k]
    BY DEF AgreeOrSwap
  <2> DEFINE q == Other(c, p)
  <2>1. p \in Peers /\ q \in Peers /\ q \in Ends[c] /\ Other(c, q) = p
    BY OtherEnd
  <2>2. Link(side[c][p], side[c][q]) /\ Link(side[c][q], side[c][p])
    BY <2>1 DEF SInv, Channels
  <2>3. side[c][p].pc = "done" /\ side[c][q].pc = "done"
    BY <2>1
  <2> HIDE DEF q
  <2>4. side[c][p].got = side[c][q].list /\ side[c][q].got = side[c][p].list
    BY <2>2, <2>3 DEF Link
  <2>5. Holds(index[p][k], side[c][p], k) /\ Holds(index[q][k], side[c][q], k)
    BY <2>1, <2>3 DEF SInv, Calm
  <2>6. \A e \in Peers : \A h : h \in Listed(c, e, k)
                            <=> \E r \in side[c][e].list : r.key = k /\ h = r.hash
    BY DEF Listed
  <2>7. CASE \E r \in side[c][q].list : r.key = k
    <3>1. PICK r \in side[c][q].list : r.key = k
      BY <2>7
    <3>2. index[p][k] = r.hash /\ index[p][k] \in Listed(c, q, k)
      BY <2>1, <2>4, <2>5, <2>6, <3>1 DEF Holds
    <3>3. Listed(c, p, k) = {} => index[q][k] = r.hash
      BY <2>1, <2>4, <2>5, <2>6, <3>1 DEF Holds
    <3> QED
      BY <3>2, <3>3 DEF q
  <2>8. CASE \A r \in side[c][q].list : r.key # k
    <3>1. Listed(c, q, k) = {}
      BY <2>1, <2>6, <2>8
    <3>2. index[p][k] = index[q][k]
      <4>1. CASE \E r \in side[c][p].list : r.key = k
        BY <2>4, <2>5, <2>8, <4>1 DEF Holds
      <4>2. CASE \A r \in side[c][p].list : r.key # k
        BY <2>4, <2>5, <2>8, <4>2 DEF Holds
      <4> QED
        BY <4>1, <4>2
    <3> QED
      BY <3>1, <3>2 DEF q
  <2> QED
    BY <2>7, <2>8
<1> QED
  BY <1>1, SInvAlways, PTL

(* Nothing but the deletion of its record, or a record with another hash   *)
(* that arrives for its key, takes its blob from a NAR a peer can serve.   *)
THEOREM KeepsServable == Spec => SyncKeepsServable
<1> DEFINE Kept == \A p \in Peers, k \in Keys :
                     Servable(p, k) =>
                       Servable(p, k)' \/ index'[p][k] = None \/ Overwritten(p, k)
<1>1. SInv /\ [Next]_vars => [Kept]_vars
  <2> SUFFICES ASSUME SInv, Next, NEW p \in Peers, NEW k \in Keys, index[p][k] \in blobs[p]
               PROVE  index'[p][k] \in blobs'[p] \/ index'[p][k] = None \/ Overwritten(p, k)
    BY DEF Servable
  <2>0. /\ index \in [Peers -> [Keys -> Data \cup {None}]]
        /\ blobs \in [Peers -> SUBSET Data]
    BY DEF SInv, TypeOK
  <2>2. ASSUME index' = index, blobs' = blobs
        PROVE  index'[p][k] \in blobs'[p]
    BY <2>2
  <2>3. ASSUME NEW c \in Conns, NEW q \in Peers, Receive(c, q)
        PROVE  index'[p][k] \in blobs'[p] \/ Overwritten(p, k)
    <3>1. PICK r \in Wire(c, Other(c, q)) :
            /\ index' = [index EXCEPT ![q][r.key] = r.hash]
            /\ side' = [side EXCEPT ![c][q].got = @ \cup {r}]
      BY <2>3 DEF Receive
    <3>2. blobs' = blobs
      BY <2>3 DEF Receive
    <3>3. CASE q = p /\ r.key = k /\ r.hash # index[p][k]
      <4>1. side'[c][p].got = side[c][p].got \cup {r}
        BY <3>1, <3>3 DEF SInv, TypeOK
      <4>2. r \notin side[c][p].got
        <5>1. q \in Ends[c]
          BY <2>3 DEF Receive, At
        <5> QED
          BY <3>1, <3>3, <5>1, OtherEnd DEF Wire
      <4> QED
        BY <3>3, <4>1, <4>2 DEF Overwritten
    <3>4. CASE ~(q = p /\ r.key = k /\ r.hash # index[p][k])
      <4>1. index'[p][k] = index[p][k]
        BY <2>0, <3>1, <3>4
      <4> QED
        BY <3>2, <4>1
    <3> QED
      BY <3>3, <3>4
  <2>4. ASSUME NEW q \in Peers, NEW j \in Keys, PutNar(q, j)
        PROVE  index'[p][k] \in blobs'[p] \/ index'[p][k] = None
    <3>1. PICK d \in Builds[q][j] : /\ index' = [index EXCEPT ![q][j] = d]
                                /\ blobs' = [blobs EXCEPT ![q] = @ \cup {d}]
      BY <2>4 DEF PutNar
    <3> QED
      BY <2>0, <3>1
  <2>5. ASSUME NEW q \in Peers, NEW j \in Keys, DeleteNar(q, j)
        PROVE  index'[p][k] \in blobs'[p] \/ index'[p][k] = None
    <3>1. /\ index' = [index EXCEPT ![q][j] = None]
          /\ blobs' = [blobs EXCEPT ![q] = {d \in @ : \/ d # index[q][j]
                                                      \/ \E i \in Keys \ {j} : index[q][i] = d}]
      BY <2>5 DEF DeleteNar
    <3>2. CASE q = p /\ j = k
      BY <2>0, <3>1, <3>2
    <3>3. CASE q = p /\ j # k
      <4>1. index'[p][k] = index[p][k]
        BY <2>0, <3>1, <3>3
      <4>2. index[p][k] \in blobs'[p]
        BY <2>0, <3>1, <3>3
      <4> QED
        BY <4>1, <4>2
    <3>4. CASE q # p
      BY <2>0, <3>1, <3>4
    <3> QED
      BY <3>2, <3>3, <3>4
  <2>6. ASSUME NEW c \in Conns, NEW q \in Peers,
               \/ Start(c, q) \/ Send(c, q) \/ SendFails(c, q) \/ Close(c, q)
               \/ ReceiveEnd(c, q) \/ ReceiveFails(c, q) \/ ReceiveTimeout(c, q)
        PROVE  index' = index /\ blobs' = blobs
    BY <2>6 DEF Start, Send, SendFails, Close, ReceiveEnd, ReceiveFails, ReceiveTimeout
  <2>7. ASSUME NEW q \in Peers, Crash(q)
        PROVE  index' = index /\ blobs' = blobs
    BY <2>7 DEF Crash
  <2> QED
    BY <2>2, <2>3, <2>4, <2>5, <2>6, <2>7 DEF Next, SideStep
<1>2. Spec => [][Kept]_vars
  BY <1>1, SInvAlways, PTL DEF Spec
<1> QED
  BY <1>2 DEF SyncKeepsServable
=============================================================================
