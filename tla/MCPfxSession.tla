---------------------------- MODULE MCPfxSession ----------------------------
(* Instances of PfxSession for TLC. *)
EXTENDS PfxSession, TLC

CONSTANTS r1, r2, r3

PostAndSimple == (r1 :> "post") @@ (r2 :> "simple")
AllModes == (r1 :> "post") @@ (r2 :> "simple") @@ (r3 :> "stream")
=============================================================================
