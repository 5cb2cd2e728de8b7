---------------------------- MODULE MCAttachFile ----------------------------
(* Calls of attach_file on one owner, for TLC: two of them with the same name. *)
EXTENDS AttachFile, TLC

CONSTANTS c1, c2, c3

\* c1 and c2 attach under the same name: nothing tells them apart.
Symmetry == Permutations({c1, c2})

Names == (c1 :> "a") @@ (c2 :> "a") @@ (c3 :> "b")
=============================================================================
