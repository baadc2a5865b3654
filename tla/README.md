# A verification project for odp-platform-radxa-orion-o6

TLA+ models of the programs that this repository itself contributes to the firmware of the
Radxa Orion O6: the secure partition that talks to the embedded controller (EC), the NOR flash
driver that holds UEFI variables, the platform library that describes memory and cores to
the firmware, and the scripts with which developers build all of it. TLC checks the models on
small instances; TLAPS proves the main properties for every value of the constants.

Paths below are relative to `src/`:

| short | path |
|---|---|
| `sp/` | `bootchain/modules/secure-services/platform/src/` |
| `nor/` | `bootchain/modules/uefi/platform/OVERRIDE/Silicon/CIX/Sky1/Drivers/NorFlashStmmRuntimeDxe/` |
| `plat/` | `bootchain/modules/uefi/platform/Library/PlatformLib/` |
| `tools/` | `common/tools/` |
| `over/` | `bootchain/OVERRIDE/` |

`PROJECT.json` maps every definition to the lines it stands for, and lists the runs, the
mutants, the findings, the hazards and the theorems.

## 1. Inventory

### EC passthrough service (`sp/baremetal/services/passthrough_service.rs`, `sp/main.rs`)
- **State**: none between calls. During a call: the request packet, the packet being read
  (`byte_buffer`), the payload collected so far (`out_buf`), the loop's position.
- **Operations**: `handle_request` (a command that is not in the service's table is refused),
  `handle_message` (builds the SMBus/MCTP/ODP packet), `send_cmd` (writes it, then reads packets
  until one has the end flag). The battery, thermal and time/alarm services are tables of
  commands over it.
- **Interactions**: called by `ec-service-lib`'s message loop, one direct request at a time;
  calls the UART driver; the EC answers at its own pace.
- **Hard**: the EC runs concurrently and may speak unasked; reassembly of fragments; a byte
  count that bounds every later index; no timeout anywhere; a panic stops the partition for good.
- **Correct when**: each caller gets the answer to its own request, whole and once; the
  partition panics only on malformed input; both ends never wait for each other.

### EC UART driver (`sp/baremetal/uart.rs`) and partition manifest (`linker/orion-o6-ec-sp.dts`)
- **State**: the two FIFOs and registers of the device; the device regions of the manifest.
- **Operations**: `write_byte`, `read_byte`, which spin; `write`, `read` over slices.
- **Correct when**: bytes arrive in order; the registers used are mapped.

### Partition run time (`sp/baremetal/{panic,interrupt,mod}.rs`)
The panic handler halts for ever. Exception vectors and start-up code keep no state.

### NOR flash protocols (`nor/NorFlashFvb.c`, `NorFlashBlockIoDxe.c`, `NorFlashDiskIoDxe.c`)
- **State**: the flash; the volume's place on it (`StartLba`, `Blocks`), fixed at start.
- **Operations**: read, write and erase of the firmware volume block (FVB) protocol; read and
  write of the block and disk protocols, which address the whole device.
- **Interactions**: all go to the vendor's `NorFlashLib`; the variable driver uses FVB.
- **Hard**: block boundaries, overflow of sums, erase lists that fail half way, a second path to
  the same device.
- **Correct when**: a call moves exactly the bytes it reports, within the block it addresses, and
  a failure harms only the blocks that were addressed.

### NOR flash driver life (`nor/NorFlashStmmRuntimeDxe.c`, headers of `nor/NorFlashFvb.c`)
- **State**: the headers of the volume and of the variable store in flash; `mNorFlashInstances`,
  `mFlashNvStorageVariableBase`, addresses inside the instance, what is installed and registered
  with UEFI, the device's range in the memory map.
- **Operations**: the entry point; the notification of the CPU protocol; the two notifications of
  the virtual address change.
- **Hard**: a header from flash whose length and checksum bound what is read next, and whose length
  is itself not bounded; many calls that may fail, each leaving earlier registrations behind;
  ASSERTs that only a DEBUG build has; two notifications in either order; pointers to convert
  exactly once.
- **Correct when**: a header the driver would write is accepted and a damaged one is noticed; an
  announced variable store is served; after the address change every address
  in use is virtual; no notification runs over memory that is not there.

### Platform library (`plat/ArmPlatformLibMem.c`, `ArmPlatformLib.c`, `AArch64/ArmPlatformHelper.S`)
- **State**: the memory table and HOBs under construction; the core table.
- **Operations**: `ArmPlatformGetVirtualMemoryMap`, `ReportDramHighSpace`,
  `BuildResourceDescriptorHob_V2`, `GetArmCoreInfoFromReg`, `ArmPlatformGetCorePosition`.
- **Hard**: addresses of three sources combined by subtraction; thresholds and shifts; the same
  fact written in a table and in HOBs, or in C and in assembly.
- **Correct when**: regions do not overlap, the two descriptions agree, memory is described to
  its end, and every core alive is found once.

### Developer's build (`tools/*.sh`, `over/*/patch-*.sh`, `bootchain/Makefile`)
- **State**: the container image and its version, the container and whether it runs; the toolchain's
  directory, what is extracted in it, its version; the commit and the working tree of each patched
  submodule; the versions that the checkout's scripts and Dockerfile ask for.
- **Operations**: `enter-container.sh` brings image and container to the wanted version and opens a
  shell; `make all` downloads and checks the toolchain, patches the submodules and builds;
  `make distclean` removes the downloads.
- **Interactions**: all terminals share one container, and through it the checkout; the scripts tell
  their user what to do next, by hand or by which command.
- **Hard**: any command may be interrupted, or fail half way, and is run again; the state a script
  tests may be left by a run that did not end; nothing is locked, and `podman rmi --force` ends the
  commands of other terminals.
- **Correct when**: what is built from is complete and of the wanted version; a container is of the
  image that is there; entering again harms nobody; the messages lead out of every state.

### Not modelled
- **Patina DXE core logger** (`…/Drivers/PatinaDxeCore_ru/src/`): the formatting of log lines, and a
  list of services to start; it keeps no state. The core itself is an external crate.
- **Module makefiles** (`bootchain/modules/*/Makefile`): lists of commands of other programs, without
  tests of what an earlier run left. The build is one step of `DevBuild`.
- **Workflows** (`.github/workflows`): every step calls an external action, and what it changes lives on
  the hosting service.
- **ACPI tests** (`common/tests/acpi/src/main.rs`): a function on text, used by tests only, and file
  input and output.
- **Queries of the FVB protocol** (GetAttributes, SetAttributes, GetPhysicalAddress, GetBlockSize) and
  Reset and FlushBlocks of the block protocol change nothing. `ArmPlatformInitialize` and
  `SetPmuCounter` write hardware registers only.
- **Board data**: `.dsc`, `.fdf`, memory and power tables, patches to OP-TEE, TF-A and EDK II, ACPI
  source, images and binaries (among them `LcdGraphicsOutputDxe`) are input to other programs.

## 2. Modules and how they correspond to the code

| module | what it is | extends |
|---|---|---|
| `EcWire` | command tables, request packet, tests on packets read | |
| `EcUart` | the two FIFOs, mapped registers | |
| `EcPassthrough` | the partition, the UART and an external EC | `EcWire`, `EcUart` |
| `EcService` | what a caller is promised (abstract) | |
| `NorFlash` | the device and the vendor's library (external) | |
| `NorFlashFvb` | the driver's three protocols | `NorFlash` |
| `FirmwareVolume` | what the FVB protocol promises (abstract) | |
| `FvHeader` | the headers in flash: what is written, what is accepted | |
| `NorFlashInit` | the driver's life | `FvHeader` |
| `MemoryMap`, `CoreInfo` | regions, descriptors; core mask and positions | |
| `PlatformLib` | the library's calls at boot | `MemoryMap`, `CoreInfo` |
| `Terminals` | where each terminal is, and what it was told | |
| `EnterContainer` | `enter-container.sh` | `Terminals` |
| `Toolchain` | `download-gnu-toolchain.sh`, `make distclean` | `Terminals` |
| `PatchSubmodules` | the two patch scripts | `Terminals` |
| `DevBuild` | the build, its users and what disturbs them | the three above |
| `MC…` | instances for TLC | |
| `…_proofs` | theorems (section 4) | the module of that name, `TLAPS`; `EcNoisy_proofs` and `EcMalformed_proofs` extend `EcPassthrough_proofs` |

Definitions named "Variant" in a module's comments are plausible faults of the definition that
follows them; each is the mutant of a property, which must fail when the variant takes that
definition's place. They are not part of the specification.

### EC link
`pc` is where the call is: `idle`, `write` (in `UART.write`), `read` (in the loop of `send_cmd`),
`panic`. Every byte that passes the UART is a step, because the EC runs meanwhile; everything
between two bytes is part of the step of the first. `data`, `buffer`, `out_buf` are the source's
buffers; `tx`, `rx` the FIFOs; a spin is an action that is not enabled. `RefuseCall` and
`AcceptCall` are `handle_request`; `ReadMore`, `CollectFragment`, `ReturnAnswer`, `RejectCount` and
`RejectFragment` are the exits of one iteration of `send_cmd`'s loop. `unheard` and `owed` are
history: the queries the EC has still to hear, and the messages it has sent that no caller has
been given. The EC frames requests by their byte count, answers each with any of `Answers`, and may
send `Notices`. Abstracted: logging; UUIDs; what `ec-service-lib` does with a reply of more than
112 bytes; the error branch of `handle_message`, which `send_cmd` never takes. The UART has flow
control and loses nothing, and the EC reads while it sends: one that does not could wait for the
partition while the partition, which writes a request before it reads, waits for it. An EC that
answers only (`ec_quiet`) never meets that, as `NeverBothSending` says. Messages are finite, so a run
of empty packets without an end is none of them.

### NOR flash
One action per function and outcome (`…Refused`, `…Done`, `…Failed`). Cells are pairs of block and
offset. A library call moves exactly its bytes or fails; a write that fails leaves each block it
touches as it was, erased, or written. `Word` is 2^64 scaled down, so sums wrap as in the code, those
that make a block number or a count of bytes too. A range to erase that leads out of the device fails
in the library, after the ranges before it have been erased.
`request` and `reply` hold the last call. GetAttributes, SetAttributes, GetPhysicalAddress,
GetBlockSize, Reset and FlushBlocks change nothing and are left out.

### Driver life
`pc` walks through `NorFlashInitialise`; each action is a stretch of code up to the next call that
may fail, with a disjunct for each outcome (`EfiCreateProtocolNotifyEvent`, whose own failure only a DEBUG
build notices, included). `failed` records which calls failed. `slot` is
`mNorFlashInstances[0]` (one device in `mNorFlashDevices`; `uninitialised` until an instance is
stored, because the array is not zeroed). `pointers` says of each address whether it is physical,
virtual, or `wild` (converted twice); the address of the array, `mNorFlashInstances`, is among them and
never converted, like that of the media. An ASSERT stops a DEBUG build; a RELEASE build is compiled with
`MDEPKG_NDEBUG` (`O6.dsc:233`). An entry point that returns an error has its image unloaded by the
UEFI core; registered events stay, and a notification whose code or instance is gone sets
`strayed`.

A header is the 50 words of 16 bits that `ValidateFvHeader` reads: 72 bytes of the volume's header,
28 of the store's. `FreshHeader` is what `InitializeFvAndVariableStoreHeaders` writes, although this
driver never calls it: something must have written what the driver accepts, and the function's own
choices are the reference for the other's checks. `MayAccept` and `MayRefuse` are both possible only
where the code follows `HeaderLength` out of the bytes it has read, into what the pool holds. The sum
is the sum of the words modulo 2^16. A DEBUG build stops in `CalculateSum16` at an odd length
(`SumAsserts`); the comment "HeaderLength cannot be an odd number" (`NorFlashFvb.c:179`) is not
checked by the code.

### Platform library
Addresses are counted in pages of 4 KB. `DescribeRegion` writes the next of seven regions, table
entry first and HOB second; a HOB that cannot be allocated stops a DEBUG build and is written
through a null pointer otherwise (`lost`). The firmware asks for the cores before or after the
memory map, any number of times: the caller is outside the repository. `Word` is 2^28 pages in the
instance (TLC's integers have 32 bits); all that matters is that every address is below it.

### Developer's build
`pc` says for each terminal which command of which script runs, or at which prompt it is. In
`enter-container.sh` every test and every podman command is a step of its own; in the download
`wget` and `tar` are, by hand as well, and in the patch scripts the writing of `git apply` is, each together with the short
test before it; `distclean` has a start and an end, between which the files are torn. `advice` is
what the last message says to do, and `Follows` the user who does it; the commands it names are the
user's, not the repository's, and marked external. A command that fails (the network, the disk, the
archive), one that is interrupted, a restart of the host, a pull, and a user who cleans or leaves unasked are
*disturbances*, counted up to `MaxDisturbances`; a pull happens while no make runs: one under
a running make is two commands on the files at once, which `BuiltAsPrepared` leaves out anyway. Versions are
numbers and a pull only raises them. `raced` and `crossed` are history: two runs of
`enter-container.sh`, or two commands on the checkout's files, have overlapped. A torn toolchain may
pass the version check, because the compiler's driver may be extracted before the rest.
Abstracted: the archive's name and hash, the names of podman's objects, the modules built.

## 3. Runs

| run | instance | shows |
|---|---|---|
| `ec_quiet` | all 31 commands and three unknown ones; answers of 1 to 3 packets, up to 112 bytes; FIFOs of 4 | no panic, nothing left over between calls, never both ends waiting, the end of every answer seen (`NeverStarved`), every call returns, refinement of `EcService` |
| `ec_noisy` | 3 requests, 2 answers, 2 notices at any moment | answers stay whole and in order, requests arrive intact; but the link is late by every notice for ever (`NeverCatchesUp`) |
| `ec_malformed` | answers broken in eight ways | a panic only on a malformed message; the partition reads the EC's message from packet to packet and returns at its end (`FollowInv`); what a caller gets is framed; a call waits only where the EC has heard it and is silent (`WaitsOnlyForTheEc`; no notices here, `NobodyWaitsForBoth` has them); a call that does not end waits for an EC with nothing to say |
| `ec_manifest` | the region the manifest declares | **violation**: the UART's registers are not mapped |
| `fvb_promise` | blocks of 3 bytes, a volume of 2 blocks after 1; every offset and count around a boundary; 8 erase lists; 2 changes | refinement of `FirmwareVolume` under proper use |
| `fvb_read_span` | reads over a boundary | **violation**: success although bytes are missing |
| `fvb_whole_block` | a write of one block's size at an offset | **violation**: bytes before the offset are overwritten |
| `fvb_erase_range` | a range whose end wraps | **violation**: the list passes |
| `nor_lifecycle` | both builds, both boot modes, about 220 headers, every failure | a fresh header is served and a damaged one noticed, announced stores are served, served volumes stay usable, addresses are converted once |
| `nor_media` | the same | **violation**: `BlockIoProtocol.Media` stays physical |
| `platform_boot` | the Sky1 layout, 3 ends of memory, 5 reports around the threshold, 81 registers | regions apart, table and HOBs agree, memory described to its end, cores found |
| `dev_build` | two terminals, two submodules, two versions, two disturbances at any step | what is built from is as prepared; no container outlives its image; entering ends only outdated work; following the messages leads to an image again |

The five violations are disagreements of the code with its own comments; `findings` in
`PROJECT.json` quotes them.

**Why the bounds are enough.** FIFOs of 2 to 4 bytes are shorter than any packet, so that both
ends block at every position; deeper FIFOs only add slack. Two notices show a link that is late by
more than one message. Blocks of three bytes have a first, an inner and a last one, and the
requests reach from one before to two after the boundary; two changes let a call act on what
another, perhaps failed, call left. The driver's life has no bound but its headers: the fresh one,
each of its words changed by a bit, by a byte and to an extreme value, every kind of `HeaderLength`
(short, odd, inside the store's header, at and past the end) with a sum that fits it, and others the
function does not write. Two terminals are enough to overlap, and two disturbances for one to hit
what another left, as an interrupt after a pull; the geometry, the GUIDs and the submodules are the
repository's.
The reports of `platform_boot` are below, at and just above the threshold, and large.

**Deadlock** is checked except where the system stops: a panicked or starved partition, a driver
whose life is over, a finished table. `dev_build` checks it: some terminal can always go on.

**Fairness** (`EcPassthrough!Fairness`): the partition runs while it can, since nothing else runs in
its execution context; the EC keeps reading, answering and sending. Requests and notices are not
promised. `CallReturns` needs the EC to answer: there is no timeout, and `CallEnds` shows that
without a conforming EC a call may wait for ever.

`DevBuild!Fairness` says only that a script that runs goes on. Nobody has to type anything, so that
`Recovers` names what it asks of the users: that this one does as told, that the others come to
rest, and that the toolchain is whole or missing again and again, because a torn one that answers
`--version` passes the check and no message says to remove it.

## 4. Proofs

| module | theorems | for every |
|---|---|---|
| `EcPassthrough_proofs` | `TypesHold`, `NeverReadsPast`, `BytesMoveOn` | FIFO depth, set of requests, answers and notices |
| | `LinkIsOrderly`, `CallsAreIsolated`, `OneDirectionAtATime`, `AnswersSuffice`, `KeepsPromise` | the same, if the EC is quiet and conforming |
| `EcNoisy_proofs` | `RequestsHeardInOrder`, `NobodyWaitsForBoth` | the same, and number of notices, whatever the EC sends |
| | `LinkIsAQueue`, `NeverPanics`, `BehindForEver`, `OldestDelivered` | the same, if answers and notices are conforming |
| `EcMalformed_proofs` | `FollowsMessages`, `PanicNeedsMalformed`, `MalformedLeavesNothing`, `MalformedKeepsDirection` | the same, if the EC is quiet and its messages end at their end flag (`EndsOnce`) |
| | `DeliversWhole` | the same, if packets do not overlap either (`CutsApart`) |
| `NorFlashFvb_proofs` | `TypesHold` | geometry, place of the volume, requests |
| | `KeepsPromise` | the same, under `ProperUse` |
| `FvHeader_proofs` | `SumNoticed` | number of words, words |
| | `FreshAccepted` | geometry, GUIDs |
| | `OneWordNoticed` | the same, and header, if the GUIDs tell headers apart (`GuidsTell`) |
| `NorFlashInit_proofs` | `TypesHold`, `AnnouncedStoresAreServed`, `ServedVolumesAreReady`, `FreshVolumesAreServed`, `AddressesConvertOnce`, `VolumesStayUsable`, `StrayingNeedsAFailure` | geometry, GUIDs and set of headers in flash |
| | `DamageIsNoticed` | the same, if the GUIDs tell headers apart (`GuidsTell`) |
| `PlatformLib_proofs` | `TypesHold`, `FollowsTheList`, `RegionsStayApart`, `DescriptionsAgree`, `DescribesToTheEnd`, `CoresAreFound` | layout in order, report, end of memory, core register |
| `DevBuild_proofs` | `TypesHold`, `NoneLingersEver`, `EndsOnlyTheOutdated`, `BuildsAsPrepared` | set of terminals and of versions, sequence of submodules, number of disturbances |

**Arguments.**
- *EC link.* The safety properties are not inductive: that nothing is left over when a call returns
  depends on what has been in flight before. `QuietInv` says so in three phases: nothing in flight;
  the request, as the concatenation of what the EC has, the FIFO holds and the partition has still
  to write; or one answer, cut where a packet starts, as the payload collected and the
  concatenation of buffer, FIFO and what the EC has still to send. Lemmas about slices and
  concatenation carry each byte across.
- *Noisy EC.* With notices any number of messages is in flight. Each direction is a queue: the
  bytes on their way are the queued packets, or messages, one after the other, and its reader has
  collected a part of the first. `Joined` says so with a function from each part to where it ends, so
  that taking the first part off, or adding one, needs no induction. The direction of the requests
  does not depend on what the EC sends; that of the answers needs every message to be whole packets
  of which only the last has the end flag, or the loop stops at the wrong byte. `BehindForEver` is
  then a count of the queue, and `OldestDelivered` its head.
- *Waiting.* `NobodyWaitsForBoth` needs the queue of the requests only: when no byte can move the EC
  has read all that was written, and had one request not been heard to its end its packet would be
  longer than itself. `BytesMoveOn` counts the bytes on their way in each direction. Together they
  are the safety half of `CallEnds`: a call takes finitely many steps between two unsolicited
  messages, and can be stuck only at an EC that has nothing to say.
- *Malformed EC.* `FollowInv` is `QuietInv` without what a conforming message says of the payload:
  what is read is the EC's message from the start of a packet on, and, if no packet starts inside
  another, every packet before was whole and without the end flag (`Passed`). Whether a byte count
  is right is `ReadInv`'s matter, so that a packet that `send_cmd` takes is one that is there
  (`ReadingOn`). Of a conforming message it says all that `QuietInv` does, which a panic would
  contradict; so the message that led to one is malformed. `ConformingEndsOnce` says that
  conforming ECs are among those this is about. Behind an end flag that comes too early the rest of
  a message stays in the link and is taken for the start of the next answer: from then on the two
  ends are out of step, a panic can come at a conforming message, and nothing of this holds.
- *NOR flash.* No invariant beyond types is needed; the refinement is one lemma per function. Its
  arithmetic rests on `InOneBlock` (what an accepted request addresses lies in its block) and
  `ApartKept` (the raw protocols leave the volume alone).
- *Headers.* The sum of a header's words is a recursive function. The library's induction theorems take
  an operator, so the lemma `Induction` is stated about a set of numbers, and proved from the
  library's well-foundedness of the naturals: a number that is missing has a smallest one. That the
  function is defined (`SumExists`), what it grows by (`SumGrows`) and that a change of one word
  shifts it by as much (`SumShifts`) are inductions of that form, over any number of words; the size
  of a word is a name in them, of which `IsWord` and `WrapsOnce` say what is needed. Where the words of
  a header stand is said by `At`, and found by taking the parts it is put together from off its end
  (`Peel`), one by one. A fresh header is the unsummed one
  with what is missing to 2^16 put in its checksum; another header differs from it in one word, and
  so in its sum, or in its `HeaderLength`, with which no store is found. The driver's invariant
  says how far a boot from a fresh header in which nothing failed has got, and that the header of a
  volume that is served was accepted (`HeaderInv`).
- *Driver life.* The invariant adds `Progress` (what has been registered and what has failed by
  each step), `Served` and `Change` (which pointers are still physical while a notification is
  pending).
- *Platform library.* The table and HOBs are at any time prefixes of one list, `Described`, that
  is sorted (`DescribedApart`); each property follows from the list. The core table is written
  without a recursion: the n-th entry is the bit that has n - 1 others of the mask below it, which
  is where the C loop's pointer stands at that bit. `EntryHasBit` steps through the twelve bits.
- *Developer's build.* `ContainerInv`: until two runs of `enter-container.sh` overlap, one at most is
  at work, what it found out about the image stays true, and the container is made of the image; as
  a pull only raises versions, what is outdated stays so. `FilesInv`: until two terminals work on the
  files at once, one at most does, and `Ready` says for each step of make what it has seen to.
  `Torn` and `Calm` add that without a disturbance a torn toolchain is one that is being extracted or
  removed; `Calm` is needed because removing an outdated image also ends an extraction, and only a
  pull outdates an image.

**Assumptions.** `UartAssumption`, `LinkAssumption`, `FlashAssumption`, `RequestAssumption`,
`HeaderAssumption`, `ImagesAssumption`, `LayoutAssumption`, `PlatformAssumption`,
`TerminalsAssumption`, `SubmodulesAssumption` and `DisturbancesAssumption` are evaluated by TLC on the
instances. The hypotheses of theorems are evaluated too: `ConformingEc` and `QuietEc` in `MCEcQuiet`,
`ConformingEc` and `ConformingNotices` in `MCEcNoisy`, `EndsOnce` and `CutsApart` of answers that are not
all conforming in `MCEcMalformed`, `ProperUse` in `MCNorFlashProper`, `GuidsTell` in `MCNorFlashInit`. What
they leave out is what the violation runs and `ec_malformed` show: nothing in the code enforces
them. `GuidsTell` is a fact about this platform's GUIDs and sizes, not about every choice of them.
`HeaderAssumption` has the volume's length and a block's size fit a UINT32, as the fields of the code
they are kept in do, and a variable store larger than any `HeaderLength`.
`LayoutAssumption` is met by the values of the
repository; `mSystemMemoryEnd` and `PcdDramHighSpaceBase` are defined elsewhere, and their values
in `PlatformLib_boot.cfg` are plausible ones.

**Only model-checked**: liveness (`CallReturns`, `CallEnds`, `Recovers`), which the prover cannot
reach. `BytesMoveOn` and `NobodyWaitsForBoth` leave of `CallEnds`, and with `AnswersSuffice` of
`CallReturns`, only that fairness takes the steps that are there to take.

## 5. Hazards without a property

`hazards` in `PROJECT.json` lists all of them, with the reason. The main ones: the UART's error
bits are dropped; a block number past the volume is not checked by read and write; RAM is described
up to `mSystemMemoryEnd` on every board; 2 MB after the firmware image are in no region; the address of
the shared memory is followed unchecked.

Some properties hold with an exception that is the code's own: `DamageNoticed` leaves out the store's
state, which `ValidateFvHeader` does not look at, and a `HeaderLength` that leads out of what was read;
`VolumeUsable` leaves out a region whose attributes, or an event that sets them, could not be had;
`Recovers` leaves out a torn toolchain that passes the version check; `NoneLingers`,
`EndsOnlyOutdated` and `BuiltAsPrepared` leave out terminals that overlap, as nothing is locked.

## 6. Plan

Done, in this order because of what they carry: the EC link, the FVB protocols, the driver's life
with the headers it trusts, the platform library, the developer's build.

Every invariant, action property and refinement that a passing run checks is a theorem. Left, in
order of worth:
1. The safety half of `Recovers`: of each message of the scripts, that the command it names is one
   that can be run and that does away with what the message is about.
2. `FollowsMessages` for an EC that also speaks unasked: `Joined` with messages that may be malformed.
3. GetBlockSize, the one query of the FVB protocol that checks its block number, beside the calls
   that do not.

Composing `NorFlashInit` with `NorFlashFvb` adds little: a call needs nothing of the driver's life but
the converted addresses and the mapped device, which `VolumeUsable` states.
