---------------------------- MODULE MCFilloutSync ----------------------------
(* FilloutSync on a small instance: model values for records and engines.  *)
EXTENDS FilloutSync, TLC

CONSTANTS r1, r2, old, e1, e2

(* The engines run the same code, and records that are neither poison nor
   overmarked are alike: renaming within either set changes nothing. *)
Interchangeable == Permutations({e1, e2}) \cup Permutations({r1, r2})
=============================================================================
