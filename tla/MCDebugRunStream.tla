-------------------------- MODULE MCDebugRunStream --------------------------
(***************************************************************************)
(* The instance of DebugRunStream for TLC.  One node is the shortest run   *)
(* that can stream, fail, wait and succeed; its provider streams nothing,  *)
(* or reasoning, which has a trace and opens a batch, and then text, which *)
(* cuts that batch short and shares its own with what follows.             *)
(***************************************************************************)
EXTENDS DebugRunStream

MCStreams == {<<>>, <<"reasoning_delta", "text_delta">>}
=============================================================================
