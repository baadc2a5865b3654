------------------------- MODULE MCNorFlashProper -------------------------
(***************************************************************************)
(* The instance of the run that checks NorFlashFvb against FirmwareVolume: *)
(* its requests meet the hypothesis of the theorem KeepsPromise.           *)
(***************************************************************************)
EXTENDS MCNorFlashFvb

ASSUME ProperUseHolds == ProperUse
=============================================================================
