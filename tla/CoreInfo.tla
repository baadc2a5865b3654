------------------------------ MODULE CoreInfo ------------------------------
(***************************************************************************)
(* How the platform library finds the cores: a bit of the power            *)
(* controller's register that is clear stands for a core that lives, and   *)
(* the core's MPIDR is the bit's index shifted by eight.                   *)
(***************************************************************************)
EXTENDS Integers, FiniteSets

\* A value of the register is the set of its bits that are set.
RegisterBits == 0 .. 31

\* CoreBitMask.  Variant: the last bit is forgotten.
CoreBitMaskShort(register) == (0 .. 10) \ register
CoreBitMask(register) == (0 .. 11) \ register

\* The first loop of GetArmCoreInfoFromReg.
CoreCount(register) == Cardinality(CoreBitMask(register))

\* Its second loop: TablePtr has moved on by one for every bit of the mask below
\* index, so the n-th entry is the Mpidr of the bit that has n - 1 others below it.
Before(register, index) == Cardinality({b \in CoreBitMask(register) : b < index})
CoreTable(register) ==
    [n \in 1 .. CoreCount(register) |->
        (CHOOSE index \in CoreBitMask(register) : Before(register, index) = n - 1) * 256]

\* ArmPlatformGetCorePosition: the cluster field of an MPIDR.
CorePosition(mpid) == (mpid \div 256) % 256
=============================================================================
