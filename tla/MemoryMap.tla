----------------------------- MODULE MemoryMap -----------------------------
(***************************************************************************)
(* What the platform library says of the address space, in pages of 4 KB:  *)
(* the regions of ArmPlatformGetVirtualMemoryMap in the order in which it  *)
(* describes them, the DRAM above DramHighSpaceBase that                   *)
(* ReportDramHighSpace finds, and the descriptors made of them.            *)
(***************************************************************************)
EXTENDS Integers, Sequences

\* The values of the PCDs, in pages; addresses are in 0 .. Word - 1.
CONSTANTS First, SystemMemoryBase,
          ReservedSecureBase, ReservedSecureSize, ReservedShareBase, ReservedShareSize,
          FdBaseAddress, FdSize, FrameBufferBase, FrameBufferSize,
          DramHighSpaceBase,
          LowMegabytes,       \* 0x7800: megabytes of DRAM below the high space
          PagesPerMegabyte,
          MemoryEnds,         \* values of mSystemMemoryEnd + 1
          AvailableSizes,     \* megabytes of DRAM in the boot loader's report
          Word

\* Pages of DRAM above DramHighSpaceBase.  Variant: megabytes taken for pages.
HighUnshifted(available) == (available - LowMegabytes) % Word
High(available) == ((available - LowMegabytes) * PagesPerMegabyte) % Word

\* Each region begins after the end of the one before; all fit the address space.
ASSUME LayoutAssumption ==
    /\ Word \in Nat /\ LowMegabytes \in Nat /\ PagesPerMegabyte \in Nat \ {0}
    /\ {First, ReservedSecureSize, ReservedShareSize, FdSize, FrameBufferSize} \subseteq Nat \ {0}
    /\ {SystemMemoryBase, ReservedSecureBase, ReservedShareBase, FdBaseAddress,
        FrameBufferBase, DramHighSpaceBase} \subseteq Nat
    /\ First < SystemMemoryBase
    /\ SystemMemoryBase <= ReservedSecureBase
    /\ ReservedSecureBase + ReservedSecureSize <= ReservedShareBase
    /\ ReservedShareBase + ReservedShareSize <= FdBaseAddress
    /\ FdBaseAddress + FdSize <= FrameBufferBase
    /\ MemoryEnds \subseteq Nat /\ AvailableSizes \subseteq Nat
    /\ \A end \in MemoryEnds : FrameBufferBase + FrameBufferSize < end /\ end < DramHighSpaceBase
    /\ DramHighSpaceBase < Word
    /\ \A available \in AvailableSizes :
          available > LowMegabytes =>
             DramHighSpaceBase + (available - LowMegabytes) * PagesPerMegabyte < Word

\* A region, the attributes of its table entry, and what its HOB says of it.
\* Variant: the last address is counted twice.
RegionInclusive(base, length, attributes, resource, memory) ==
    [base |-> base, length |-> (length + 1) % Word, attributes |-> attributes,
     resource |-> resource, memory |-> memory]

Region(base, length, attributes, resource, memory) ==
    [base |-> base, length |-> length % Word, attributes |-> attributes,
     resource |-> resource, memory |-> memory]

\* The regions that are always described; end is mSystemMemoryEnd + 1.
Regions(end) ==
    LET ram == FrameBufferBase + FrameBufferSize IN
    << Region(First, SystemMemoryBase - First, "DEVICE", "MEMORY_MAPPED_IO", "UC"),
       Region(ReservedSecureBase, ReservedSecureSize, "UNCACHED", "SYSTEM_MEMORY", "WC"),
       Region(ReservedShareBase, ReservedShareSize, "UNCACHED", "SYSTEM_MEMORY", "WC"),
       Region(FdBaseAddress, FdSize, "WRITE_BACK", "SYSTEM_MEMORY", "WB"),
       Region(FrameBufferBase, FrameBufferSize, "UNCACHED", "MEMORY_RESERVED", "WC"),
       Region(ram, end - ram, "WRITE_BACK", "SYSTEM_MEMORY", "WB"),
       Region(end, DramHighSpaceBase - end, "DEVICE", "MEMORY_MAPPED_IO", "UC") >>

\* ReportDramHighSpace: a report is believed when it has its signature.
\* Variant: a report of exactly LowMegabytes counts.
ReportDramHighSpaceLoose(signature, available) == signature /\ available >= LowMegabytes
ReportDramHighSpace(signature, available) == signature /\ available > LowMegabytes

HighSpace(available) ==
    Region(DramHighSpaceBase, High(available), "WRITE_BACK", "SYSTEM_MEMORY", "WB")

\* A table entry, the HOB of BuildResourceDescriptorHob_V2, and the end of the table.
Entry(r) == [base |-> r.base, length |-> r.length, attributes |-> r.attributes]
BuildResourceDescriptorHob_V2(r) ==
    [resource |-> r.resource, start |-> r.base, length |-> r.length, memory |-> r.memory]
EndOfTable == [base |-> 0, length |-> 0, attributes |-> "0"]
=============================================================================
