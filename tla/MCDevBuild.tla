----------------------------- MODULE MCDevBuild -----------------------------
(***************************************************************************)
(* DevBuild for TLC: two terminals, the two submodules, and a pull.        *)
(***************************************************************************)
EXTENDS DevBuild

MCSubmodules == <<"op-tee-cix-odp", "cix-edk2-platforms">>
=============================================================================
