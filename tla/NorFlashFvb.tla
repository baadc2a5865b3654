---------------------------- MODULE NorFlashFvb ----------------------------
(***************************************************************************)
(* The three protocols NorFlashStmmRuntimeDxe produces over one flash      *)
(* device: the firmware volume block protocol, whose blocks are counted    *)
(* from StartLba, and the block and disk protocols, which address the      *)
(* whole device.  A call runs to its end before the next one.              *)
(*                                                                         *)
(* A read or write request is [lba, offset, num] with the buffer (data) of *)
(* a write; an erase request is the list of its ranges [lba, num]; a disk  *)
(* request is [media, offset, num], a block request [media, lba, num].     *)
(***************************************************************************)
EXTENDS NorFlash

CONSTANTS Reads, Writes, Erases,        \* FVB requests
          DiskReads, DiskWrites,        \* disk protocol requests
          BlockReads, BlockWrites,      \* block protocol requests
          Images,                       \* what the flash may contain at first
          MaxChanges                    \* calls that may change the flash

VARIABLES request,  \* the last call: its protocol and function, its arguments
          reply,    \* and what it returned: status, *NumBytes, buffer
          changes   \* calls so far that could change the flash

vars == <<flash, request, reply, changes>>

Uint == 0 .. Word - 1

ASSUME RequestAssumption ==
    /\ Reads \subseteq [lba : Uint, offset : Uint, num : Uint]
    /\ \A r \in Writes : /\ r.lba \in Uint /\ r.offset \in Uint /\ r.num \in Uint
                         /\ r.data \in Seq(Byte) /\ Len(r.data) = r.num
    /\ Erases \subseteq Seq([lba : 0 .. Word - 2, num : Uint])
    /\ DiskReads \subseteq [media : Nat, offset : Uint, num : Uint]
    /\ BlockReads \subseteq [media : Nat, lba : Uint, num : Uint, aligned : BOOLEAN]
    /\ \A r \in DiskWrites : r.media \in Nat /\ r.offset \in Uint /\ r.data \in Seq(Byte)
    /\ \A r \in BlockWrites : r.media \in Nat /\ r.lba \in Uint /\ r.data \in Seq(Byte)
    /\ Images \subseteq [Cell -> Byte]
    /\ MaxChanges \in Nat

\* The instance's media: the template's, with MediaId = 0 for the one device.
MediaId  == 0
ReadOnly == FALSE

Returned(status, num, data) == [status |-> status, num |-> num, data |-> data]
NoRequest == [op |-> "none", args |-> << >>]
NoReply == Returned("NONE", 0, << >>)

Init == /\ flash \in Images
        /\ request = NoRequest
        /\ reply = NoReply
        /\ changes = 0

Change == changes < MaxChanges /\ changes' = changes + 1
Call(op, r) == request' = [op |-> op, args |-> r]

-----------------------------------------------------------------------------
\* FvbRead and FvbWrite: the tests on Offset and *NumBytes they share.

\* Variant: only the count is checked.
OutsideByCount(r) == r.num > BlockSize
Outside(r) == r.offset >= BlockSize \/ r.num > BlockSize
Spaned(r)  == (r.offset + r.num) % Word > BlockSize
Whole(r)   == r.num % BlockSize = 0

Refused(r) == Outside(r) \/ r.num = 0

\* What the library is asked for, and what *NumBytes is afterwards.
NumBytes(r) == IF ~Whole(r) /\ Spaned(r) THEN BlockSize - r.offset ELSE r.num
Offset(r)   == IF Whole(r) THEN 0 ELSE r.offset
Lba(r)      == (StartLba + r.lba) % Word

FvbReadRefused(r) ==
    /\ Refused(r)
    /\ Call("read", r)
    /\ reply' = Returned("BAD_BUFFER_SIZE", 0, << >>)
    /\ UNCHANGED <<flash, changes>>

\* The last line returns EFI_SUCCESS, whatever Status is.
FvbReadDone(r) ==
    /\ ~Refused(r)
    /\ ~Beyond(Lba(r), Offset(r), NumBytes(r))
    /\ Call("read", r)
    /\ reply' = Returned("SUCCESS", NumBytes(r), Contents(Lba(r), Offset(r), NumBytes(r)))
    /\ UNCHANGED <<flash, changes>>

FvbReadFailed(r) ==
    /\ ~Refused(r)
    /\ Call("read", r)
    /\ reply' = Returned("DEVICE_ERROR", NumBytes(r), << >>)
    /\ UNCHANGED <<flash, changes>>

FvbWriteRefused(r) ==
    /\ ReadOnly \/ Refused(r)
    /\ Call("write", r)
    /\ reply' = IF ReadOnly THEN Returned("ACCESS_DENIED", r.num, << >>)
                            ELSE Returned("BAD_BUFFER_SIZE", 0, << >>)
    /\ UNCHANGED <<flash, changes>>

FvbWriteDone(r) ==
    /\ ~ReadOnly /\ ~Refused(r)
    /\ Change
    /\ Call("write", r)
    /\ LibWrote(Lba(r), Offset(r), SubSeq(r.data, 1, NumBytes(r)))
    /\ reply' = Returned(IF ~Whole(r) /\ Spaned(r) THEN "BAD_BUFFER_SIZE" ELSE "SUCCESS",
                         NumBytes(r), << >>)

\* A part of a block: the library's own status; a whole one: EFI_DEVICE_ERROR.
FvbWriteFailed(r) ==
    /\ ~ReadOnly /\ ~Refused(r)
    /\ Change
    /\ Call("write", r)
    /\ LibWriteFailed(Lba(r), Offset(r), SubSeq(r.data, 1, NumBytes(r)))
    /\ reply' = Returned(IF Whole(r) THEN "DEVICE_ERROR"
                         ELSE LibError(Lba(r), Offset(r), NumBytes(r)),
                         NumBytes(r), << >>)

-----------------------------------------------------------------------------
\* FvbEraseBlocks: the whole list is checked, then its ranges are erased in
\* order, up to the first that fails.

\* Variant: one block too many.
RangeValidLoose(e) == e.num # 0 /\ (e.lba + e.num) % Word <= Blocks + 1
RangeValid(e) == e.num # 0 /\ (e.lba + e.num) % Word <= Blocks
ListValid(list) == \A i \in DOMAIN list : RangeValid(list[i])

\* The blocks NorFlashErase erases for a range of the list.  A range that leads
\* out of the device it does not erase to its end.
Count(e) == (e.num * BlockSize) % Word
ErasedBy(e) == {b \in Block : b >= Lba(e) /\ b < Lba(e) + Count(e) \div BlockSize}
InDevice(e) == ~Beyond(Lba(e), 0, Count(e))
ErasedUpTo(list, k) == UNION {ErasedBy(list[i]) : i \in 1 .. k}

FvbEraseRefused(list) ==
    /\ ReadOnly \/ ~ListValid(list)
    /\ Call("erase", list)
    /\ reply' = Returned(IF ReadOnly THEN "ACCESS_DENIED" ELSE "INVALID_PARAMETER", 0, << >>)
    /\ UNCHANGED <<flash, changes>>

FvbEraseDone(list) ==
    /\ ~ReadOnly /\ ListValid(list)
    /\ \A i \in DOMAIN list : InDevice(list[i])
    /\ Change
    /\ Call("erase", list)
    /\ flash' = [c \in Cell |-> IF c[1] \in ErasedUpTo(list, Len(list)) THEN Erased ELSE flash[c]]
    /\ reply' = Returned("SUCCESS", 0, << >>)

FvbEraseFailed(list) ==
    /\ ~ReadOnly /\ ListValid(list)
    /\ Change
    /\ Call("erase", list)
    /\ \E k \in DOMAIN list : \E some \in SUBSET ErasedBy(list[k]) :
          /\ \A i \in 1 .. k - 1 : InDevice(list[i])
          /\ flash' = [c \in Cell |-> IF c[1] \in ErasedUpTo(list, k - 1) \cup some
                                      THEN Erased ELSE flash[c]]
    /\ reply' = Returned("DEVICE_ERROR", 0, << >>)

Fvb == \/ \E r \in Reads : FvbReadRefused(r) \/ FvbReadDone(r) \/ FvbReadFailed(r)
       \/ \E r \in Writes : FvbWriteRefused(r) \/ FvbWriteDone(r) \/ FvbWriteFailed(r)
       \/ \E list \in Erases : FvbEraseRefused(list) \/ FvbEraseDone(list) \/ FvbEraseFailed(list)

-----------------------------------------------------------------------------
\* NorFlashDiskIoReadDisk and -WriteDisk, NorFlashBlockIoReadBlocks and
\* -WriteBlocks.  Neither looks at the firmware volume.  MediaPresent is TRUE in
\* the template and never changes, so EFI_NO_MEDIA is left out; a block request
\* whose size is not a number of blocks is refused by NorFlashLib.

RawRefused(status) ==
    /\ reply' = Returned(status, 0, << >>)
    /\ UNCHANGED <<flash, changes>>

RawRead(b, off, n) ==
    /\ reply' \in {Returned(LibError(b, off, n), n, << >>)} \cup
                    (IF Beyond(b, off, n) THEN {}
                     ELSE {Returned("SUCCESS", n, Contents(b, off, n))})
    /\ UNCHANGED <<flash, changes>>

RawWrite(b, off, data) ==
    /\ Change
    /\ \/ /\ LibWrote(b, off, data)
          /\ reply' = Returned("SUCCESS", Len(data), << >>)
       \/ /\ LibWriteFailed(b, off, data)
          /\ reply' = Returned(LibError(b, off, Len(data)), Len(data), << >>)

DiskIoRead(r) ==
    /\ Call("disk read", r)
    /\ IF r.media # MediaId THEN RawRefused("MEDIA_CHANGED")
       ELSE RawRead(r.offset \div BlockSize, r.offset % BlockSize, r.num)

DiskIoWrite(r) ==
    /\ Call("disk write", r)
    /\ IF r.media # MediaId THEN RawRefused("MEDIA_CHANGED")
       ELSE RawWrite(r.offset \div BlockSize, r.offset % BlockSize, r.data)

BlockIoRead(r) ==
    /\ Call("block read", r)
    /\ IF r.media # MediaId THEN RawRefused("MEDIA_CHANGED")
       ELSE IF ~r.aligned THEN RawRefused("INVALID_PARAMETER")
       ELSE IF r.num % BlockSize # 0 THEN RawRefused("BAD_BUFFER_SIZE")
       ELSE RawRead(r.lba, 0, r.num)

BlockIoWrite(r) ==
    /\ Call("block write", r)
    /\ IF r.media # MediaId THEN RawRefused("MEDIA_CHANGED")
       ELSE IF ReadOnly THEN RawRefused("WRITE_PROTECTED")
       ELSE IF Len(r.data) % BlockSize # 0 THEN RawRefused("BAD_BUFFER_SIZE")
       ELSE RawWrite(r.lba, 0, r.data)

Raw == \/ \E r \in DiskReads : DiskIoRead(r)
       \/ \E r \in DiskWrites : DiskIoWrite(r)
       \/ \E r \in BlockReads : BlockIoRead(r)
       \/ \E r \in BlockWrites : BlockIoWrite(r)

Next == Fvb \/ Raw

Spec == Init /\ [][Next]_vars
-----------------------------------------------------------------------------
Status == {"NONE", "SUCCESS", "BAD_BUFFER_SIZE", "DEVICE_ERROR", "INVALID_PARAMETER",
           "ACCESS_DENIED", "MEDIA_CHANGED", "WRITE_PROTECTED"}

\* Types.
TypeOK ==
    /\ flash \in [Cell -> Byte]
    /\ reply.status \in Status /\ reply.num \in Nat /\ reply.data \in Seq(Byte)
    /\ changes \in 0 .. MaxChanges

(***************************************************************************)
(* The requests for which the driver does what its comments promise: a     *)
(* read that stays in its block, a write of a whole block from its start   *)
(* or of a part of it (which may run over the end), ranges whose last      *)
(* block is a number; and the users of the other two protocols stay off    *)
(* the volume.                                                             *)
(***************************************************************************)
Volume == StartLba .. StartLba + Blocks - 1

ProperReads == \A r \in Reads : /\ r.lba < Blocks
                                /\ Refused(r) \/ r.offset + r.num <= BlockSize
ProperWrites == \A r \in Writes : /\ r.lba < Blocks
                                  /\ r.num = BlockSize => r.offset = 0 \/ Outside(r)
ProperErases == \A list \in Erases : \A i \in DOMAIN list : list[i].lba + list[i].num < Word
OffVolume(b, off, n) == Beyond(b, off, n) \/ Touched(b, off, n) \cap Volume = {}
RawApart ==
    /\ \A r \in DiskWrites :
          r.media = MediaId => OffVolume(r.offset \div BlockSize, r.offset % BlockSize, Len(r.data))
    /\ \A r \in BlockWrites : r.media = MediaId => OffVolume(r.lba, 0, Len(r.data))

ProperUse == ProperReads /\ ProperWrites /\ ProperErases /\ RawApart

\* EFI_BAD_BUFFER_SIZE: "Read attempted across an LBA boundary" (FvbRead).
SpanningReadReported ==
    request.op = "read" /\ reply.status # "DEVICE_ERROR"
        /\ request.args.offset + request.args.num > BlockSize
      => reply.status = "BAD_BUFFER_SIZE"

\* A write that returns without a device error has changed no byte but those it
\* was asked to write, up to the boundary of its block (FvbWrite).
WritesOnlyRequested ==
    [][request'.op = "write" /\ reply'.status # "DEVICE_ERROR" =>
         \A c \in Cell : flash'[c] # flash[c] =>
            /\ c[1] = StartLba + request'.args.lba
            /\ c[2] >= request'.args.offset
            /\ c[2] < request'.args.offset + request'.args.num]_vars

\* An erase list that names a block the volume does not have is refused, and
\* nothing is erased (FvbEraseBlocks).
MissingBlockRefused ==
    [][request'.op = "erase"
         /\ (\E i \in DOMAIN request'.args :
                request'.args[i].lba + request'.args[i].num > Blocks)
       => reply'.status = "INVALID_PARAMETER" /\ flash' = flash]_vars

\* The promise of the firmware volume block protocol (the comments of FvbRead,
\* FvbWrite and FvbEraseBlocks), over the blocks of the volume.
FvbOps == {"read", "write", "erase"}
Promise == INSTANCE FirmwareVolume WITH
    Bytes <- Byte,
    volume <- [c \in (0 .. Blocks - 1) \X (0 .. BlockSize - 1) |->
                  flash[<<StartLba + c[1], c[2]>>]],
    request <- IF request.op \in FvbOps THEN request ELSE NoRequest,
    reply <- IF request.op \in FvbOps THEN reply ELSE NoReply

\* Every call of the protocol keeps its promise, under proper use.
ImplementsVolume == Promise!Spec
=============================================================================
