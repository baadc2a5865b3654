---------------------------- MODULE NorFlashInit ----------------------------
(***************************************************************************)
(* The life of NorFlashStmmRuntimeDxe: its entry point NorFlashInitialise, *)
(* which creates one instance (mNorFlashDevices has one device), validates *)
(* the variable store on it and installs protocols and events, and the     *)
(* virtual address change, which the operating system may ask for later.   *)
(*                                                                         *)
(* Any call of a service may fail.  An ASSERT stops a DEBUG build and does *)
(* nothing in a RELEASE build; an entry point that returns an error has    *)
(* its image unloaded, whatever it has registered by then.                 *)
(***************************************************************************)
EXTENDS FvHeader, FiniteSets

CONSTANT Images    \* what the start of the volume may hold

ASSUME ImagesAssumption == Images \subseteq Header

VARIABLES build,       \* "DEBUG" or "RELEASE"
          bootMode,    \* what GetBootModeHob returns
          header,      \* the first words of the volume in flash
          pc,          \* where NorFlashInitialise is, or what became of it
          failed,      \* the calls that have failed
          slot,        \* mNorFlashInstances[0]
          pointers,    \* the addresses that are kept, and what they are
          installed,   \* protocols others can find
          registered,  \* events with a notification of this driver
          region,      \* the device's range in the memory space map
          cpu,         \* the CPU architectural protocol is installed
          phase,       \* "boot", or "os" after SetVirtualAddressMap
          pending,     \* notifications of the address change still to run
          strayed      \* a notification used memory that is not there

environment == <<build, bootMode, header>>
entry == <<slot, installed, registered>>
vars == <<environment, pc, failed, entry, pointers, region, cpu, phase, pending, strayed>>
later == <<pointers, cpu, phase, pending, strayed>>

\* The pointers the address change concerns; one name for the functions of a
\* protocol.  mNorFlashInstances is read by the notification itself and never again:
\* nothing converts it.
FvbPointers == {"DeviceBaseAddress", "RegionBaseAddress", "FvbProtocol", "ShadowBuffer"}
InstancePointers == FvbPointers \cup {"BlockIoProtocol", "DiskIoProtocol", "BlockIoProtocol.Media"}
Pointers == InstancePointers \cup {"mFlashNvStorageVariableBase", "mNorFlashInstances"}

Init == /\ build \in {"DEBUG", "RELEASE"}
        /\ bootMode \in {"BOOT_WITH_FULL_CONFIGURATION", "BOOT_WITH_DEFAULT_SETTINGS"}
        /\ header \in Images
        /\ pc = "platform" /\ failed = {}
        /\ slot = "unallocated" /\ installed = {} /\ registered = {}
        /\ pointers = [p \in Pointers |-> "physical"]
        /\ region = "plain" /\ cpu \in BOOLEAN
        /\ phase = "boot" /\ pending = {} /\ strayed = FALSE

-----------------------------------------------------------------------------
Succeeds(next) == pc' = next /\ failed' = failed
Fails(call, next) == pc' = next /\ failed' = failed \cup {call}

\* Variant: an ASSERT stops a release build too.
AssertedAlways(call, next) == Fails(call, "stopped")

Asserted(call, next) == Fails(call, IF build = "DEBUG" THEN "stopped" ELSE next)

\* FlashMemoryInitEventNotify: the status of RemoveMemorySpace is not looked at.
FlashMemoryInitEventNotify(next) ==
    \/ region # "removed" /\ region' = "runtime" /\ Succeeds(next)
    \/ region' \in {region, "removed"} /\ Asserted("attributes", next)

PlatformInitialization ==
    /\ pc = "platform"
    /\ Succeeds("array") \/ Fails("platform", "unloaded")
    /\ UNCHANGED <<environment, entry, region, later>>

\* The array is not zeroed, and a failed allocation is not noticed.
AllocateInstances ==
    /\ pc = "array"
    /\ \/ slot' = "uninitialised" /\ Succeeds("notify")
       \/ slot' = "NULL" /\ Fails("array", "notify")
    /\ UNCHANGED <<environment, installed, registered, region, later>>

\* EfiCreateProtocolNotifyEvent runs the notification at once, installed or not.  Of
\* its own failures a release build notices nothing: the notification runs at once or
\* not at all, and never again.
CreateNotifyEvent ==
    /\ pc = "notify"
    /\ \/ /\ FlashMemoryInitEventNotify("instance")
          /\ registered' = registered \cup {"MemoryInit"}
       \/ /\ Asserted("notify", "instance")
          /\ region' \in {region} \cup (IF build = "DEBUG" THEN {} ELSE {"runtime", "removed"})
          /\ registered' = registered
    /\ UNCHANGED <<environment, slot, installed, later>>

\* NorFlashCreateInstance up to NorFlashFvbInitialize; NorFlashInitialise only logs its errors.
CreateInstance ==
    /\ pc = "instance"
    /\ \/ slot = "NULL" /\ Succeeds("register")
       \/ slot # "NULL" /\ Succeeds("volume")
       \/ slot # "NULL" /\ Fails("pool", "register")
    /\ UNCHANGED <<environment, entry, region, later>>

\* ValidateFvHeader: the calls that fail come before the header is looked at.
ValidateFvHeader(accepted, refused) ==
    \/ Fails("header", refused)
    \/ SumAsserts(header) /\ build = "DEBUG" /\ Succeeds("stopped")
    \/ /\ ~(SumAsserts(header) /\ build = "DEBUG")
       /\ \/ MayRefuse(header) /\ Succeeds(refused)
          \/ MayAccept(header) /\ Succeeds(accepted)

\* Variant: without a valid header the instance is given up.
ValidateVolumeOrGiveUp ==
    /\ pc = "volume"
    /\ ValidateFvHeader("announce", "register")
    /\ UNCHANGED <<environment, entry, region, later>>

\* NorFlashFvbInitialize up to its error exit.
ValidateVolume ==
    /\ pc = "volume"
    /\ \/ bootMode = "BOOT_WITH_DEFAULT_SETTINGS" /\ Succeeds("install without volume")
       \/ /\ bootMode # "BOOT_WITH_DEFAULT_SETTINGS"
          /\ ValidateFvHeader("announce", "install without volume")
    /\ UNCHANGED <<environment, entry, region, later>>

AnnounceStore ==
    /\ pc = "announce"
    /\ \/ installed' = installed \cup {"NvVarStoreFormatted"} /\ Succeeds("event")
       \/ installed' = installed /\ Asserted("announce", "event")
    /\ UNCHANGED <<environment, slot, registered, region, later>>

\* Variant: the status of the event is lost.
CreateFvbVirtualEventUnchecked ==
    /\ pc = "event"
    /\ \/ registered' = registered \cup {"FvbVirtual"} /\ Succeeds("install with volume")
       \/ registered' = registered /\ Asserted("event", "install with volume")
    /\ UNCHANGED <<environment, slot, installed, region, later>>

\* Its status is what NorFlashFvbInitialize returns.
CreateFvbVirtualEvent ==
    /\ pc = "event"
    /\ \/ registered' = registered \cup {"FvbVirtual"} /\ Succeeds("install with volume")
       \/ registered' = registered /\ Asserted("event", "install without volume")
    /\ UNCHANGED <<environment, slot, installed, region, later>>

\* The rest of NorFlashCreateInstance: a failure frees the instance.
InstallProtocols ==
    /\ pc \in {"install with volume", "install without volume"}
    /\ \/ /\ installed' = installed \cup {"Disk"} \cup
                          (IF pc = "install with volume" THEN {"Fvb"} ELSE {})
          /\ slot' = "instance"
          /\ Succeeds("register")
       \/ Fails("protocols", "register") /\ UNCHANGED <<installed, slot>>
    /\ UNCHANGED <<environment, registered, region, later>>

RegisterVirtualEvent ==
    /\ pc = "register"
    /\ \/ registered' = registered \cup {"NorFlashVirtual"} /\ Succeeds("loaded")
       \/ registered' = registered /\ Asserted("register", "unloaded")
    /\ UNCHANGED <<environment, slot, installed, region, later>>

-----------------------------------------------------------------------------
Returned == pc \in {"loaded", "unloaded"}

\* The protocol that MemoryInit waits for.  An unloaded image has no code to call.
CpuArchInstalled ==
    /\ Returned /\ phase = "boot" /\ ~cpu
    /\ cpu' = TRUE
    /\ \/ "MemoryInit" \notin registered /\ UNCHANGED <<pc, failed, region, strayed>>
       \/ /\ "MemoryInit" \in registered /\ pc = "loaded"
          /\ FlashMemoryInitEventNotify("loaded") /\ strayed' = strayed
       \/ /\ "MemoryInit" \in registered /\ pc = "unloaded"
          /\ strayed' = TRUE /\ UNCHANGED <<pc, failed, region>>
    /\ UNCHANGED <<environment, entry, pointers, phase, pending>>

SetVirtualAddressMap ==
    /\ Returned /\ phase = "boot" /\ cpu
    /\ phase' = "os"
    /\ pending' = registered \cap {"FvbVirtual", "NorFlashVirtual"}
    /\ UNCHANGED <<environment, pc, failed, entry, pointers, region, cpu, strayed>>

\* EfiConvertPointer: an address that is converted twice points anywhere.
Converted(set) == [p \in Pointers |-> IF p \notin set THEN pointers[p]
                                      ELSE IF pointers[p] = "physical" THEN "virtual" ELSE "wild"]

\* Variant: both copies of the volume's address are converted here.
FvbVirtualNotifyBoth ==
    /\ "FvbVirtual" \in pending
    /\ pending' = pending \ {"FvbVirtual"}
    /\ pointers' = Converted({"mFlashNvStorageVariableBase", "RegionBaseAddress"})
    /\ UNCHANGED <<environment, pc, failed, entry, region, cpu, phase, strayed>>

\* FvbVirtualNotifyEvent
FvbVirtualNotify ==
    /\ "FvbVirtual" \in pending
    /\ pending' = pending \ {"FvbVirtual"}
    /\ \/ pc = "loaded" /\ pointers' = Converted({"mFlashNvStorageVariableBase"}) /\ strayed' = strayed
       \/ pc = "unloaded" /\ pointers' = pointers /\ strayed' = TRUE
    /\ UNCHANGED <<environment, pc, failed, entry, region, cpu, phase>>

\* Variant: the shadow buffer is forgotten.
NorFlashVirtualNotifyShadow ==
    /\ "NorFlashVirtual" \in pending
    /\ pending' = pending \ {"NorFlashVirtual"}
    /\ \/ /\ slot = "instance" /\ strayed' = strayed
          /\ pointers' = Converted(InstancePointers \ {"BlockIoProtocol.Media", "ShadowBuffer"})
       \/ slot # "instance" /\ pointers' = pointers /\ strayed' = TRUE
    /\ UNCHANGED <<environment, pc, failed, entry, region, cpu, phase>>

\* NorFlashVirtualNotifyEvent reads the instance through mNorFlashInstances[0].
NorFlashVirtualNotify ==
    /\ "NorFlashVirtual" \in pending
    /\ pending' = pending \ {"NorFlashVirtual"}
    /\ \/ /\ slot = "instance" /\ strayed' = strayed
          /\ pointers' = Converted(InstancePointers \ {"BlockIoProtocol.Media"})
       \/ slot # "instance" /\ pointers' = pointers /\ strayed' = TRUE
    /\ UNCHANGED <<environment, pc, failed, entry, region, cpu, phase>>

NorFlashInitialise ==
    \/ PlatformInitialization \/ AllocateInstances \/ CreateNotifyEvent \/ CreateInstance
    \/ ValidateVolume \/ AnnounceStore \/ CreateFvbVirtualEvent \/ InstallProtocols
    \/ RegisterVirtualEvent

Next == \/ NorFlashInitialise
        \/ CpuArchInstalled \/ SetVirtualAddressMap
        \/ FvbVirtualNotify \/ NorFlashVirtualNotify

Spec == Init /\ [][Next]_vars

-----------------------------------------------------------------------------
Calls == {"platform", "array", "notify", "attributes", "pool", "header", "announce",
          "event", "protocols", "register"}
Steps == {"platform", "array", "notify", "instance", "volume", "announce", "event",
          "install with volume", "install without volume", "register",
          "loaded", "unloaded", "stopped"}

(* Types, with what each part of the state may be; and only a DEBUG build  *)
(* stops.                                                                  *)
TypeOK ==
    /\ build \in {"DEBUG", "RELEASE"}
    /\ bootMode \in {"BOOT_WITH_FULL_CONFIGURATION", "BOOT_WITH_DEFAULT_SETTINGS"}
    /\ header \in Images
    /\ pc \in Steps /\ failed \subseteq Calls
    /\ slot \in {"unallocated", "NULL", "uninitialised", "instance"}
    /\ installed \subseteq {"NvVarStoreFormatted", "Disk", "Fvb"}
    /\ registered \subseteq {"MemoryInit", "FvbVirtual", "NorFlashVirtual"}
    /\ pending \subseteq {"FvbVirtual", "NorFlashVirtual"}
    /\ pointers \in [Pointers -> {"physical", "virtual", "wild"}]
    /\ region \in {"plain", "runtime", "removed"} /\ phase \in {"boot", "os"}
    /\ cpu \in BOOLEAN /\ strayed \in BOOLEAN
    /\ pc = "stopped" => build = "DEBUG"

(* A variable store is announced (gEdkiiNvVarStoreFormattedGuid, on which  *)
(* the variable driver depends) only when its header was accepted in a     *)
(* normal boot; and a driver that stays loaded then also serves it, unless *)
(* the event or the protocols could not be installed.                      *)
AnnouncedIsServed ==
    "NvVarStoreFormatted" \in installed =>
        /\ VolumePresent(header) /\ StorePresent(header)
        /\ bootMode # "BOOT_WITH_DEFAULT_SETTINGS"
        /\ pc = "loaded" => "Fvb" \in installed \/ failed \cap {"event", "protocols"} # {}

(* The firmware volume block protocol is served only over an accepted      *)
(* header, by an instance that the address change will find, and with the  *)
(* event registered that converts the volume's base.                       *)
ServedIsReady ==
    "Fvb" \in installed => /\ VolumePresent(header) /\ StorePresent(header)
                           /\ bootMode # "BOOT_WITH_DEFAULT_SETTINGS"
                           /\ slot = "instance" /\ "FvbVirtual" \in registered

(* The two functions agree: a header that the one writes is accepted by    *)
(* the other, and in a normal boot in which nothing fails the volume is    *)
(* announced and served.                                                   *)
FreshIsServed ==
    (/\ pc = "loaded" /\ failed = {} /\ bootMode # "BOOT_WITH_DEFAULT_SETTINGS"
     /\ GeometryAccepted /\ header = FreshHeader)
      => {"NvVarStoreFormatted", "Fvb"} \subseteq installed

(* A fresh header that one word of has changed since is noticed, wherever  *)
(* the word is, but for two cases that the driver's checks leave open: the *)
(* store's state behind its size, and a HeaderLength that leads out of the *)
(* bytes that were read.                                                   *)
Damage == {i \in DOMAIN header : header[i] # FreshHeader[i]}
DamageNoticed ==
    "Fvb" \in installed /\ Cardinality(Damage) = 1 =>
        Damage \subseteq 47 .. 50 \/ LooksBeyond(header)

(* No address is converted twice, whatever order the two notifications of  *)
(* the address change run in: NorFlashFvbInitialize keeps the same address *)
(* in mFlashNvStorageVariableBase and in RegionBaseAddress.                *)
ConvertedOnce == \A p \in Pointers : pointers[p] # "wild"

(* Once the notifications have run, the volume of a loaded driver can be   *)
(* used: its addresses and its functions are virtual, and its device is in *)
(* the runtime memory map unless that failed, or the event that does it.   *)
VolumeUsable ==
    (phase = "os" /\ pending = {} /\ pc = "loaded" /\ "Fvb" \in installed) =>
        /\ \A p \in FvbPointers \cup {"mFlashNvStorageVariableBase"} : pointers[p] = "virtual"
        /\ region = "runtime" \/ failed \cap {"notify", "attributes"} # {}

(* A notification runs without an instance or without the driver's image   *)
(* only after an allocation, the protocols' installation or the last event *)
(* failed: a refused header, a header that could not be read, attributes   *)
(* that could not be set or a store that was not announced never lead to   *)
(* it.                                                                     *)
StraysOnlyAfterFailure ==
    strayed => failed \cap {"array", "pool", "protocols", "register"} # {}

(* What the comment of NorFlashVirtualNotifyEvent says: when nothing has   *)
(* failed it converts every pointer of the instance to virtual mode.       *)
AllPointersConverted ==
    (phase = "os" /\ pending = {} /\ failed = {} /\ slot = "instance") =>
        \A p \in InstancePointers : pointers[p] = "virtual"
=============================================================================
