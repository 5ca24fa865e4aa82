------------------------- MODULE MCPluginLifecycle -------------------------
(* One family with two versions, two requests at a time.                    *)
EXTENDS PluginLifecycle, TLC

CONSTANTS p1, p2, v1, v2, c1, c2, manifest, code, ws1, i1

\* The workspace of each instance.
OwnerIs == [i \in Instances |-> ws1]

\* Requests are only compared, and so are versions where none is a host extension.
Names == Permutations({p1, p2}) \cup Permutations({v1, v2})
=============================================================================
