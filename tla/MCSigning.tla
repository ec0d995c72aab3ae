----------------------------- MODULE MCSigning -----------------------------
(* Signing with short digests. *)
EXTENDS Signing, TLC
=============================================================================
