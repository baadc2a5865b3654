------------------------------ MODULE NorFlash ------------------------------
(***************************************************************************)
(* The NOR flash behind the driver, as blocks of bytes, and what the calls *)
(* of NorFlashLib do to it.  The library is external: a call either moves  *)
(* exactly the bytes it was given, or fails.  A write changes a block by   *)
(* erasing and rewriting it, so one that fails leaves each block it        *)
(* touches as it was, erased, or written.                                  *)
(***************************************************************************)
EXTENDS Naturals, Sequences

CONSTANTS BlockSize,        \* bytes in a block (Media.BlockSize)
          DeviceBlocks,     \* blocks of the device (Media.LastBlock + 1)
          StartLba,         \* first block of the firmware volume
          Blocks,           \* blocks of the firmware volume
          Word              \* a UINTN or EFI_LBA is in 0 .. Word - 1

Byte == 0 .. 255
Erased == 255

\* The volume lies within the device, and no count of bytes of it overflows.
ASSUME FlashAssumption ==
    /\ BlockSize \in Nat \ {0}
    /\ DeviceBlocks \in Nat /\ StartLba \in Nat /\ Blocks \in Nat \ {0}
    /\ StartLba + Blocks <= DeviceBlocks
    /\ Word \in Nat
    /\ 2 * BlockSize < Word /\ DeviceBlocks < Word /\ Blocks * BlockSize < Word

VARIABLE flash

Block == 0 .. DeviceBlocks - 1
Cell  == Block \X (0 .. BlockSize - 1)

\* The bytes of n from offset off of block b on, and where in them c is.
Position(c, b, off) == c[1] * BlockSize + c[2] - (b * BlockSize + off)
Target(b, off, n) ==
    {c \in Cell : /\ c[1] * BlockSize + c[2] >= b * BlockSize + off
                  /\ Position(c, b, off) < n}
Touched(b, off, n) == {c[1] : c \in Target(b, off, n)}
Beyond(b, off, n) == b * BlockSize + off + n > DeviceBlocks * BlockSize

Stored(b, off, data) ==
    [c \in Cell |-> IF c \in Target(b, off, Len(data))
                    THEN data[Position(c, b, off) + 1] ELSE flash[c]]

\* NorFlashRead, NorFlashReadBlocks: what is in n bytes from there on.
Contents(b, off, n) ==
    [i \in 1 .. n |-> flash[<<b + ((off + i - 1) \div BlockSize), (off + i - 1) % BlockSize>>]]

\* NorFlashWrite, NorFlashWriteBlocks.
LibWrote(b, off, data) ==
    /\ ~Beyond(b, off, Len(data))
    /\ flash' = Stored(b, off, data)
LibWriteFailed(b, off, data) ==
    IF Beyond(b, off, Len(data)) THEN flash' = flash
    ELSE \E fate \in [Touched(b, off, Len(data)) -> {"kept", "erased", "written"}] :
            flash' = [c \in Cell |->
                        IF c[1] \notin Touched(b, off, Len(data)) THEN flash[c]
                        ELSE CASE fate[c[1]] = "kept"    -> flash[c]
                               [] fate[c[1]] = "erased"  -> Erased
                               [] fate[c[1]] = "written" -> Stored(b, off, data)[c]]

\* The library's own verdict on a call it does not carry out.
LibError(b, off, n) == IF Beyond(b, off, n) THEN "INVALID_PARAMETER" ELSE "DEVICE_ERROR"
=============================================================================
