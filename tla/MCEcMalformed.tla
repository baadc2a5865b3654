--------------------------- MODULE MCEcMalformed ---------------------------
(***************************************************************************)
(* The instance with a quiet EC some of whose answers are malformed.  TLC  *)
(* evaluates the assumption below, which the theorems of EcMalformed_proofs*)
(* make of the EC.                                                         *)
(***************************************************************************)
EXTENDS MCEcPassthrough

ASSUME QuietMalformedEc ==
    QuietEc /\ ~ConformingEc /\ \A a \in Answers : EndsOnce(a) /\ CutsApart(a)
=============================================================================
