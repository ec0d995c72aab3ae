------------------------------- MODULE Server -------------------------------
(***************************************************************************)
(* The HTTP server (arca-server/src/lib.rs): the handlers narinfo and      *)
(* nar_file, one task per request, and the task that logs and resets the   *)
(* request counters every hour.                                            *)
(*                                                                         *)
(* The counters are AtomicU64 used with Ordering::Relaxed, which orders    *)
(* nothing between two counters: the additions of a request, and the swaps *)
(* of a report, take effect in any order.                                  *)
(***************************************************************************)
EXTENDS Naturals, FiniteSets

CONSTANTS Conns,       \* the requests that may be in progress at once
          Paths,       \* the paths and NAR files asked for
          None,        \* no path
          MaxRequests, \* bound: requests in a behaviour
          MaxBeats     \* bound: hourly reports in a behaviour

ASSUME ServerAssumption == /\ IsFiniteSet(Conns)
                           /\ None \notin Paths \cup Nat
                           /\ MaxRequests \in Nat
                           /\ MaxBeats \in Nat

VARIABLES narinfo,   \* the paths whose narinfo file exists
          objects,   \* the NARs get_nar finds in the server's object store
          legacy,    \* the NARs that are files under nar/
          req,       \* req[c]: the handler on connection c
          counter,   \* the counters of AppState
          beat,      \* the stats task: what it has yet to swap, what it has
          reported,  \* history: the sums of the logged reports
          counted,   \* history: all additions to the counters
          asked,     \* history: requests so far
          beats,     \* history: hours that have been reported
          split      \* history: NARs counted in one hour, their bytes in another

stores == <<narinfo, objects, legacy>>
vars == <<narinfo, objects, legacy, req, counter, beat, reported, counted,
          asked, beats, split>>

-----------------------------------------------------------------------------
(* The size of every NAR is one unit of nar_bytes_served. *)
Totals == {"hits", "misses", "nars"}
Counters == Totals \cup {"bytes"}
Zero == [k \in Counters |-> 0]

(* A handler: the step to come, the path, the counters it has yet to add   *)
(* to, and the hour its first addition belongs to.                         *)
Steps == {"idle", "narinfo", "object", "legacy", "count"}
Handler(pc, p, ks, h) == [pc |-> pc, path |-> p, add |-> ks, hour |-> h]
Idle == Handler("idle", None, {}, None)
Handlers == [pc : Steps, path : Paths \cup {None}, add : SUBSET Counters,
             hour : Nat \cup {None}]

SetReq(c, r) == req' = [req EXCEPT ![c] = r]

Sleeping == [on |-> FALSE, left |-> {}, taken |-> Zero]

(* The report that will hold what is added to counter k now. *)
Hour(k) == beats + (IF beat.on /\ k \notin beat.left THEN 1 ELSE 0)

(* No other process changes the server's object store (its index is its    *)
(* own) or the legacy files, while the server runs.                        *)
Init == /\ narinfo \in SUBSET Paths
        /\ objects \in SUBSET Paths
        /\ legacy \in SUBSET Paths
        /\ req = [c \in Conns |-> Idle]
        /\ counter = Zero
        /\ beat = Sleeping
        /\ reported = Zero
        /\ counted = Zero
        /\ asked = 0
        /\ beats = 0
        /\ split = 0

-----------------------------------------------------------------------------
(* Requests. *)

Ask(c, p) ==
  /\ req[c] = Idle
  /\ asked < MaxRequests
  /\ asked' = asked + 1
  /\ \E first \in {"narinfo", "object"} :
       SetReq(c, Handler(first, p, {}, None))
  /\ UNCHANGED <<stores, counter, beat, reported, counted, beats, split>>

(* The response is decided; ks are the counters to add to before it. *)
Respond(c, ks) == SetReq(c, IF ks = {} THEN Idle
                            ELSE Handler("count", req[c].path, ks, None))

NarInfo(c) ==
  /\ req[c].pc = "narinfo"
  /\ \/ /\ req[c].path \in narinfo
        /\ Respond(c, {"hits"})
     \/ /\ req[c].path \notin narinfo
        /\ Respond(c, {"misses"})
  /\ UNCHANGED <<stores, counter, beat, reported, counted, asked, beats, split>>

(* Mutant: the NAR is served and not counted, its bytes are. *)
NarFileUncounted(c) ==
  /\ req[c].pc = "object"
  /\ \/ /\ req[c].path \in objects
        /\ Respond(c, {"bytes"})
     \/ /\ req[c].path \notin objects
        /\ SetReq(c, Handler("legacy", req[c].path, {}, None))
  /\ UNCHANGED <<stores, counter, beat, reported, counted, asked, beats, split>>

NarFile(c) ==
  /\ req[c].pc = "object"
  /\ \/ /\ req[c].path \in objects
        /\ Respond(c, {"nars", "bytes"})
     \/ /\ req[c].path \notin objects
        /\ SetReq(c, Handler("legacy", req[c].path, {}, None))
  /\ UNCHANGED <<stores, counter, beat, reported, counted, asked, beats, split>>

(* The bytes of a legacy file are streamed and not counted; a NAR that is  *)
(* not found counts nowhere.                                               *)
NarFileLegacy(c) ==
  /\ req[c].pc = "legacy"
  /\ \/ /\ req[c].path \in legacy
        /\ Respond(c, {"nars"})
     \/ /\ req[c].path \notin legacy
        /\ Respond(c, {})
  /\ UNCHANGED <<stores, counter, beat, reported, counted, asked, beats, split>>

(* The client closes the connection; the handler is dropped where it       *)
(* awaits the file.                                                        *)
Disconnect(c) ==
  /\ req[c].pc = "legacy"
  /\ Respond(c, {})
  /\ UNCHANGED <<stores, counter, beat, reported, counted, asked, beats, split>>

(* fetch_add on counter k. *)
Count(c, k) ==
  /\ req[c].pc = "count" /\ k \in req[c].add
  /\ counter' = [counter EXCEPT ![k] = @ + 1]
  /\ counted' = [counted EXCEPT ![k] = @ + 1]
  /\ \/ /\ req[c].add = {k}
        /\ SetReq(c, Idle)
        /\ split' = IF req[c].hour \in {None, Hour(k)} THEN split ELSE split + 1
     \/ /\ req[c].add # {k}
        /\ SetReq(c, Handler("count", req[c].path, req[c].add \ {k}, Hour(k)))
        /\ UNCHANGED split
  /\ UNCHANGED <<stores, beat, reported, asked, beats>>

-----------------------------------------------------------------------------
(* The stats task. *)

Tick ==
  /\ ~beat.on /\ beats < MaxBeats
  /\ beat' = [on |-> TRUE, left |-> Counters, taken |-> Zero]
  /\ UNCHANGED <<stores, req, counter, reported, counted, asked, beats, split>>

(* Mutant: the counter is loaded, not swapped. *)
TakeWithoutReset(k) ==
  /\ k \in beat.left
  /\ beat' = [beat EXCEPT !.left = @ \ {k}, !.taken[k] = counter[k]]
  /\ UNCHANGED <<stores, req, counter, reported, counted, asked, beats, split>>

(* swap(0) on counter k. *)
Take(k) ==
  /\ k \in beat.left
  /\ beat' = [beat EXCEPT !.left = @ \ {k}, !.taken[k] = counter[k]]
  /\ counter' = [counter EXCEPT ![k] = 0]
  /\ UNCHANGED <<stores, req, reported, counted, asked, beats, split>>

(* Mutant: an hour in which only NARs were asked for counts as idle. *)
ReportIfLookups ==
  /\ beat.on /\ beat.left = {}
  /\ reported' = IF beat.taken["hits"] + beat.taken["misses"] > 0
                   THEN [k \in Counters |-> reported[k] + beat.taken[k]]
                   ELSE reported
  /\ beat' = Sleeping
  /\ beats' = beats + 1
  /\ UNCHANGED <<stores, req, counter, counted, asked, split>>

(* The report of the hour, or the heartbeat of an idle one: what was taken *)
(* is forgotten.                                                           *)
Report ==
  /\ beat.on /\ beat.left = {}
  /\ reported' = IF beat.taken["hits"] + beat.taken["misses"] + beat.taken["nars"] > 0
                   THEN [k \in Counters |-> reported[k] + beat.taken[k]]
                   ELSE reported
  /\ beat' = Sleeping
  /\ beats' = beats + 1
  /\ UNCHANGED <<stores, req, counter, counted, asked, split>>

(* Another process: an import publishes a path, a gc withdraws one. *)
Publish(p) ==
  /\ p \notin narinfo
  /\ narinfo' = narinfo \cup {p}
  /\ UNCHANGED <<objects, legacy, req, counter, beat, reported, counted, asked,
                 beats, split>>

Withdraw(p) ==
  /\ p \in narinfo
  /\ narinfo' = narinfo \ {p}
  /\ UNCHANGED <<objects, legacy, req, counter, beat, reported, counted, asked,
                 beats, split>>

Handle(c) == \/ \E p \in Paths : Ask(c, p)
             \/ NarInfo(c) \/ NarFile(c) \/ NarFileLegacy(c) \/ Disconnect(c)
             \/ \E k \in Counters : Count(c, k)

Stats == Tick \/ (\E k \in Counters : Take(k)) \/ Report

Next == \/ \E c \in Conns : Handle(c)
        \/ Stats
        \/ \E p \in Paths : Publish(p) \/ Withdraw(p)

Spec == Init /\ [][Next]_vars

-----------------------------------------------------------------------------
(* Properties. *)

(* Types; a handler that has decided its answer has something to count, and *)
(* only the second addition of a NAR has an hour to compare with.           *)
TypeOK ==
  /\ narinfo \subseteq Paths /\ objects \subseteq Paths /\ legacy \subseteq Paths
  /\ req \in [Conns -> Handlers]
  /\ \A c \in Conns : req[c].pc = "count" <=> req[c].add # {}
  /\ counter \in [Counters -> Nat]
  /\ reported \in [Counters -> Nat]
  /\ counted \in [Counters -> Nat]
  /\ beat \in [on : BOOLEAN, left : SUBSET Counters, taken : [Counters -> Nat]]
  /\ asked \in Nat /\ beats \in Nat /\ split \in Nat

(* Lookups and served NARs are counted once: each is in a logged report, in *)
(* the report being made, or in the counter for the next, however requests  *)
(* and the swaps interleave, and although an idle hour is not logged.       *)
CountsConserved ==
  \A k \in Totals : counted[k] = reported[k] + beat.taken[k] + counter[k]

(* The NARs that a report splits, or still may: one addition is made.       *)
MaybeSplit == split + Cardinality({c \in Conns : req[c].hour # None})

(* The heartbeat of an idle hour does not look at nar_bytes_served, which   *)
(* it has reset.  It loses bytes only of NARs that the report split, those  *)
(* counted as served in one hour with the bytes falling in another.         *)
BytesLostOnlyIfSplit ==
  counted["bytes"] <= reported["bytes"] + beat.taken["bytes"] + counter["bytes"]
                        + MaybeSplit

(* Over all reports, the bytes logged exceed the NARs logged by no more than *)
(* those of the NARs that the reports split: bytes of a NAR are not logged  *)
(* twice or without the NAR but for the requests that ran beside a report.  *)
(* The NARs may exceed the bytes without limit: a legacy file counts as a   *)
(* NAR served without bytes (nar_file).                                     *)
ReportsAgree == reported["bytes"] <= reported["nars"] + MaybeSplit
=============================================================================
