----------------------------- MODULE MCEcQuiet -----------------------------
(***************************************************************************)
(* The instance with a quiet, conforming EC.  TLC evaluates the assumption *)
(* below, which the theorems of EcPassthrough_proofs make of the EC, so    *)
(* their hypothesis is one that messages of one to three packets meet.     *)
(***************************************************************************)
EXTENDS MCEcPassthrough

ASSUME QuietConformingEc == ConformingEc /\ QuietEc
=============================================================================
