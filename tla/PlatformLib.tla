---------------------------- MODULE PlatformLib ----------------------------
(***************************************************************************)
(* What the platform library tells the firmware at boot: the address space *)
(* (ArmPlatformGetVirtualMemoryMap), as a table of descriptors for the MMU *)
(* and one resource descriptor HOB for each of its entries; and, before or *)
(* after that and any number of times, the cores (PrePeiCoreGetMpCoreInfo).*)
(***************************************************************************)
EXTENDS MemoryMap, CoreInfo

CONSTANTS Registers,          \* values of the core register
          MaxDescriptors      \* MAX_VIRTUAL_MEMORY_MAP_DESCRIPTORS

ASSUME PlatformAssumption ==
    /\ Registers \subseteq SUBSET RegisterBits
    /\ MaxDescriptors \in Nat /\ MaxDescriptors >= 9

VARIABLES build,      \* "DEBUG" or "RELEASE"
          register,   \* the core register
          memoryEnd,  \* mSystemMemoryEnd + 1
          signature,  \* the boot loader's report has its signature
          available,  \* its AvailableSize
          pc,         \* what is done next, or how it ended
          coreCount,  \* *AvlCoreCount, or Unknown
          cores,      \* the core table
          table,      \* VirtualMemoryTable up to Index
          hobs        \* resource descriptor HOBs

inputs == <<build, register, memoryEnd, signature, available>>
found == <<coreCount, cores>>
vars == <<inputs, pc, found, table, hobs>>

\* No one has asked for the cores yet.
Unknown == -1

Init == /\ build \in {"DEBUG", "RELEASE"}
        /\ register \in Registers
        /\ memoryEnd \in MemoryEnds
        /\ signature \in BOOLEAN /\ available \in AvailableSizes
        /\ pc = "allocate"
        /\ coreCount = Unknown /\ cores = << >> /\ table = << >> /\ hobs = << >>

\* An ASSERT that does not hold, and what a release build does instead.
Asserted(otherwise) == pc' = IF build = "DEBUG" THEN "stopped" ELSE otherwise

\* The allocation is not checked: an entry is written through a null pointer.
GetArmCoreInfoFromReg ==
    /\ pc \in {"allocate", "done"}
    /\ coreCount' = CoreCount(register)
    /\ \/ cores' = CoreTable(register) /\ pc' = pc
       \/ CoreCount(register) # 0 /\ cores' = << >> /\ pc' = "lost"
    /\ UNCHANGED <<inputs, table, hobs>>

\* Without memory for the table *VirtualMemoryMap is left as it was.
AllocateTable ==
    /\ pc = "allocate"
    /\ pc' = "regions" \/ Asserted("lost")
    /\ UNCHANGED <<inputs, found, table, hobs>>

\* Variant: a HOB that cannot be created is skipped.
DescribeWithoutHob(r, next) ==
    /\ table' = Append(table, Entry(r)) /\ pc' = next
    /\ hobs' \in {hobs, Append(hobs, BuildResourceDescriptorHob_V2(r))}

\* One region; a HOB that cannot be created is written all the same.
Describe(r, next) ==
    /\ table' = Append(table, Entry(r))
    /\ \/ hobs' = Append(hobs, BuildResourceDescriptorHob_V2(r)) /\ pc' = next
       \/ hobs' = hobs /\ Asserted("lost")

DescribeRegion ==
    /\ pc = "regions"
    /\ LET list == Regions(memoryEnd)
           index == Len(table) + 1 IN
       Describe(list[index], IF index = Len(list) THEN "high" ELSE "regions")
    /\ UNCHANGED <<inputs, found>>

DescribeHighSpace ==
    /\ pc = "high"
    /\ \/ ReportDramHighSpace(signature, available) /\ Describe(HighSpace(available), "end")
       \/ ~ReportDramHighSpace(signature, available) /\ pc' = "end" /\ UNCHANGED <<table, hobs>>
    /\ UNCHANGED <<inputs, found>>

EndTable ==
    /\ pc = "end"
    /\ table' = Append(table, EndOfTable)
    /\ pc' = IF Len(table) + 1 <= MaxDescriptors THEN "done"
             ELSE IF build = "DEBUG" THEN "stopped" ELSE "lost"
    /\ UNCHANGED <<inputs, found, hobs>>

Next == GetArmCoreInfoFromReg \/ AllocateTable \/ DescribeRegion \/ DescribeHighSpace \/ EndTable

Spec == Init /\ [][Next]_vars
-----------------------------------------------------------------------------
Address == 0 .. Word - 1
Attributes == {"DEVICE", "UNCACHED", "WRITE_BACK", "0"}

(* Types; and no region is empty but the end of the table.                 *)
TypeOK ==
    /\ build \in {"DEBUG", "RELEASE"} /\ register \in Registers
    /\ memoryEnd \in MemoryEnds /\ signature \in BOOLEAN /\ available \in AvailableSizes
    /\ pc \in {"allocate", "regions", "high", "end", "done", "stopped", "lost"}
    /\ coreCount \in {Unknown} \cup 0 .. 12 /\ cores \in Seq(Nat)
    /\ table \in Seq([base : Address, length : Address, attributes : Attributes])
    /\ hobs \in Seq([resource : {"MEMORY_MAPPED_IO", "SYSTEM_MEMORY", "MEMORY_RESERVED"},
                     start : Address, length : Address, memory : {"UC", "WC", "WB"}])
    /\ \A i \in DOMAIN table : table[i].length = 0 => table[i] = EndOfTable

(* The regions described so far are in ascending order and do not overlap, *)
(* whatever the end of memory and the boot loader's report: the lengths    *)
(* are differences of addresses of three sources (PCDs, mSystemMemoryEnd,  *)
(* the report), and the MMU would take the last of two that overlap.       *)
RegionsApart ==
    \A i, j \in DOMAIN hobs : i < j => hobs[i].start + hobs[i].length <= hobs[j].start

(* The two descriptions agree: until a HOB could not be created there is   *)
(* one for every entry of the table, of the same range, and what is cached *)
(* in the one is cached in the other.                                      *)
HobsMatchTable ==
    /\ pc \in {"regions", "high", "end"} => Len(hobs) = Len(table)
    /\ pc = "done" => Len(hobs) = Len(table) - 1 /\ table[Len(table)] = EndOfTable
    /\ \A i \in DOMAIN hobs :
          /\ i \in DOMAIN table
          /\ hobs[i].start = table[i].base /\ hobs[i].length = table[i].length
          /\ hobs[i].memory = "WB" <=> table[i].attributes = "WRITE_BACK"
          /\ hobs[i].resource = "MEMORY_MAPPED_IO" <=> table[i].attributes = "DEVICE"

(* Once the table is finished, the address space is described to its end:  *)
(* up to DramHighSpaceBase, and as far above it as the boot loader reports *)
(* memory, if it does.                                                     *)
DescribedToTheEnd ==
    pc = "done" =>
        LET last == hobs[Len(hobs)] IN
        last.start + last.length =
            DramHighSpaceBase + (IF signature /\ available > LowMegabytes
                                 THEN (available - LowMegabytes) * PagesPerMegabyte ELSE 0)

(* The core table has every core whose bit is clear, once, in ascending    *)
(* order, as many as the count says, and ArmPlatformGetCorePosition of its *)
(* MPIDR is the bit's index: the count, the table and the position come    *)
(* from two loops and, in another language, another file.                  *)
CoresFound ==
    coreCount # Unknown /\ pc # "lost" =>
        /\ coreCount = Len(cores)
        /\ {CorePosition(cores[i]) : i \in DOMAIN cores} = {b \in 0 .. 11 : b \notin register}
        /\ \A i, j \in DOMAIN cores : i < j => CorePosition(cores[i]) < CorePosition(cores[j])
=============================================================================
