-------------------------- MODULE MCModelRegistry --------------------------
(* Two requests at a time over a handful of models and fields.              *)
EXTENDS ModelRegistry

CONSTANTS p1, p2, x
=============================================================================
