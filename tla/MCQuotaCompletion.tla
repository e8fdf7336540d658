-------------------------- MODULE MCQuotaCompletion --------------------------
(* QuotaCompletion on a small instance: a few participants, one cell with  *)
(* a cap and one without.                                                  *)
EXTENDS QuotaCompletion

CONSTANTS s1, s2, s3, capped, open, Slots

MCTarget == [c \in {capped, open} |-> IF c = capped THEN Slots ELSE 0]
=============================================================================
