----------------------------- MODULE MCEcNoisy -----------------------------
(***************************************************************************)
(* The instance with an EC that may speak unasked and keeps to the         *)
(* protocol when it does.  TLC evaluates the assumption below, which the   *)
(* theorems of EcNoisy_proofs make of the EC.                              *)
(***************************************************************************)
EXTENDS MCEcPassthrough

ASSUME NoisyConformingEc == ConformingEc /\ ConformingNotices /\ ~QuietEc
=============================================================================
