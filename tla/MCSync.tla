------------------------------- MODULE MCSync -------------------------------
(* Sync on a small instance: one connection between two peers. *)
EXTENDS Sync, TLC

CONSTANTS p1, p2, c1, k1, k2, d1, d2

Pair == c1 :> {p1, p2}

(* The build of k1 at p2 differs from that at p1, which gives what k2 has. *)
Varying == p1 :> (k1 :> {d1} @@ k2 :> {d1}) @@ p2 :> (k1 :> {d2} @@ k2 :> {d1})
=============================================================================
