------------------------------ MODULE FvHeader ------------------------------
(***************************************************************************)
(* The header of the firmware volume in flash, with the variable store's   *)
(* header behind it, as one function writes them and another accepts them. *)
(* A header is the sequence of the 16-bit words that are read from the     *)
(* start of the volume; an offset counts bytes, as HeaderLength does.      *)
(***************************************************************************)
EXTENDS Integers, Sequences

CONSTANTS VariableBase, VariableSize,      \* PcdFlashNvStorageVariable...
          FtwWorkingBase, FtwWorkingSize,  \* PcdFlashNvStorageFtwWorking...
          FtwSpareBase, FtwSpareSize,      \* PcdFlashNvStorageFtwSpare...
          MediaBlockSize,                  \* Media.BlockSize
          SystemNvDataFvGuid, VariableGuid, AuthenticatedVariableGuid

WordSize == 65536
Uint16 == 0 .. WordSize - 1
Guid == [1 .. 8 -> Uint16]

FvLength == VariableSize + FtwWorkingSize + FtwSpareSize

\* HeaderLength is below VariableSize; UINT32 holds the sum of the sizes and a block.
ASSUME HeaderAssumption ==
    /\ {VariableSize, FtwWorkingSize, FtwSpareSize} \subseteq Nat /\ VariableSize >= WordSize
    /\ MediaBlockSize \in Nat \ {0}
    /\ {FvLength \div WordSize, MediaBlockSize \div WordSize} \subseteq Uint16
    /\ {SystemNvDataFvGuid, VariableGuid, AuthenticatedVariableGuid} \subseteq Guid

\* EFI_FIRMWARE_VOLUME_HEADER with two block map entries; VARIABLE_STORE_HEADER.
VolumeHeaderSize == 72
StoreHeaderSize == 28
HeadersLength == VolumeHeaderSize + StoreHeaderSize
Header == [1 .. HeadersLength \div 2 -> Uint16]

Uint32(n) == <<n % WordSize, n \div WordSize>>
FvhSignature == <<18015, 18518>>     \* "_FVH"
FvhRevision == 2
FvhAttributes == 2614                \* the six capabilities and states both functions name
StoreState == 65114                  \* VARIABLE_STORE_FORMATTED, VARIABLE_STORE_HEALTHY

\* CalculateSum16 of the first n words.
Sum16(h, n) ==
    LET sum[i \in 0 .. n] == IF i = 0 THEN 0 ELSE (sum[i - 1] + h[i]) % WordSize
    IN  sum[n]

-----------------------------------------------------------------------------
\* InitializeFvAndVariableStoreHeaders

GeometryAccepted ==
    /\ VariableBase + VariableSize = FtwWorkingBase
    /\ FtwWorkingBase + FtwWorkingSize = FtwSpareBase
    /\ \A size \in {VariableSize, FtwWorkingSize, FtwSpareSize} : size \div MediaBlockSize > 0
    /\ \A base \in {VariableBase, FtwWorkingBase, FtwSpareBase} : base % MediaBlockSize = 0

Zeros(n) == [i \in 1 .. n |-> 0]
Unsummed ==
    Zeros(8) \o SystemNvDataFvGuid \o Uint32(FvLength) \o Zeros(2) \o FvhSignature
      \o Uint32(FvhAttributes) \o <<VolumeHeaderSize, 0, 0, 256 * FvhRevision>>
      \o Uint32(FvLength \div MediaBlockSize) \o Uint32(MediaBlockSize) \o Zeros(4)
      \o AuthenticatedVariableGuid \o Uint32(VariableSize - VolumeHeaderSize)
      \o <<StoreState>> \o Zeros(3)

Checksum == 26    \* the word of the checksum

\* Variant: the store is as large as its region.
FreshHeaderUncut ==
    [Unsummed EXCEPT ![Checksum] = (WordSize - Sum16(Unsummed, VolumeHeaderSize \div 2)) % WordSize,
                     ![45] = VariableSize % WordSize, ![46] = VariableSize \div WordSize]

\* What it writes, when it accepts the geometry.
FreshHeader ==
    [Unsummed EXCEPT ![Checksum] = (WordSize - Sum16(Unsummed, VolumeHeaderSize \div 2)) % WordSize]

-----------------------------------------------------------------------------
\* ValidateFvHeader reads HeadersLength bytes and follows HeaderLength, which
\* it does not bound.  Behind the buffer there is whatever the pool holds.

HeaderLength(h) == h[25]

Read(o) == o + 2 <= HeadersLength
WordAt(h, o) == IF o % 2 = 0 THEN h[o \div 2 + 1]
                ELSE h[o \div 2 + 1] \div 256 + 256 * (h[o \div 2 + 2] % 256)

\* The words at an offset are these, as far as they were read.
MayBe(h, o, words) ==
    \A i \in DOMAIN words : Read(o + 2 * (i - 1)) => WordAt(h, o + 2 * (i - 1)) = words[i]

\* Revision, signature, length and GUID.
VolumePresent(h) ==
    /\ h[28] \div 256 = FvhRevision
    /\ MayBe(h, 40, FvhSignature)
    /\ MayBe(h, 32, Uint32(FvLength) \o Zeros(2))
    /\ MayBe(h, 16, SystemNvDataFvGuid)

\* CalculateSum16: a DEBUG build asserts an even length, another ignores the last byte.
SumAsserts(h) == VolumePresent(h) /\ HeaderLength(h) % 2 # 0
\* Variant: one word too few is summed.
SumMayBeZeroShort(h) == HeaderLength(h) \in 2 .. HeadersLength => Sum16(h, HeaderLength(h) \div 2 - 1) = 0
SumMayBeZero(h) == HeaderLength(h) <= HeadersLength => Sum16(h, HeaderLength(h) \div 2) = 0

StorePresent(h) ==
    /\ \E guid \in {VariableGuid, AuthenticatedVariableGuid} : MayBe(h, HeaderLength(h), guid)
    /\ MayBe(h, HeaderLength(h) + 16, Uint32(VariableSize - HeaderLength(h)))

\* Variant: a volume that is present is enough.
MayAcceptLoose(h) == VolumePresent(h) /\ SumMayBeZero(h)

\* The header may be accepted; it may be refused: one of the two if all was read.
MayAccept(h) == VolumePresent(h) /\ SumMayBeZero(h) /\ StorePresent(h)
LooksBeyond(h) == HeaderLength(h) + 20 > HeadersLength
MayRefuse(h) == ~MayAccept(h) \/ LooksBeyond(h)

(* The store's GUID tells a fresh header from one that a word of has       *)
(* changed: the two GUIDs that are accepted differ in more than one word,  *)
(* and with another HeaderLength, as far as the store's header was read,   *)
(* no store is found.  It holds of the GUIDs and sizes of this platform.   *)
GuidsTell ==
    /\ \A i \in 1 .. 8 : \E j \in 1 .. 8 \ {i} : VariableGuid[j] # AuthenticatedVariableGuid[j]
    /\ \A length \in 0 .. HeadersLength - 20 :
          length # VolumeHeaderSize => ~StorePresent([FreshHeader EXCEPT ![25] = length])
=============================================================================
