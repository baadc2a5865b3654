------------------------- MODULE NorFlashFvb_proofs -------------------------
(***************************************************************************)
(* Theorems about NorFlashFvb: types, and the promise of the firmware      *)
(* volume block protocol for every geometry and every set of requests that *)
(* use it properly.                                                        *)
(***************************************************************************)
EXTENDS NorFlashFvb, Integers, TLAPS

-----------------------------------------------------------------------------
\* Arithmetic.

\* A number below the modulus is its own remainder, and a product divides back.
LEMMA Division ==
    ASSUME NEW x \in Nat, NEW d \in Nat, d > 0
    PROVE  /\ x < d => x % d = x /\ x \div d = 0
           /\ (x * d) \div d = x
           /\ d % d = 0
           /\ x \div d \in Nat /\ x % d \in Nat /\ x % d < d
<1>1. x < d => x % d = x
  BY SMT
<1>2. x < d => x \div d = 0
  BY SMT
<1>3. (x * d) \div d = x
  BY SMT
<1>4. d % d = 0
  BY SMT
<1>5. x \div d \in Int /\ x \div d >= 0
  BY SMT
<1>6. x % d \in 0 .. d - 1
  BY SMT
<1> QED
  BY <1>1, <1>2, <1>3, <1>4, <1>5, <1>6

\* Fewer than k times d bytes lie in blocks below k.
LEMMA BlockBelow ==
    ASSUME NEW x \in Nat, NEW d \in Nat, d > 0, NEW k \in Nat, x < d * k
    PROVE  x \div d < k
BY SMT

\* A call moves a whole number of blocks only if it moves exactly one.
LEMMA WholeIsOne ==
    ASSUME NEW n \in 1 .. BlockSize
    PROVE  n % BlockSize = 0 <=> n = BlockSize
<1>0. BlockSize \in Nat /\ BlockSize > 0 /\ n \in Nat
  BY FlashAssumption
<1> QED
  BY <1>0, Division

\* What Offset and *NumBytes become once the request is accepted.
LEMMA Accepted ==
    ASSUME NEW r, r.offset \in Uint, r.num \in Uint, ~Refused(r)
    PROVE  /\ BlockSize \in Nat /\ BlockSize > 0
           /\ r.num \in 1 .. BlockSize /\ r.offset \in 0 .. BlockSize - 1
           /\ Spaned(r) <=> r.offset + r.num > BlockSize
           /\ Whole(r) <=> r.num = BlockSize
           /\ Whole(r) => NumBytes(r) = BlockSize /\ Offset(r) = 0
           /\ ~Whole(r) => /\ Offset(r) = r.offset
                           /\ Spaned(r) => NumBytes(r) = BlockSize - r.offset
                           /\ ~Spaned(r) => NumBytes(r) = r.num
           /\ NumBytes(r) \in 1 .. BlockSize /\ Offset(r) \in 0 .. BlockSize - 1
           /\ NumBytes(r) <= r.num
           /\ Offset(r) + NumBytes(r) <= BlockSize
<1>1. /\ BlockSize \in Nat /\ BlockSize > 0 /\ Word \in Nat /\ 2 * BlockSize < Word
      /\ r.offset \in Nat /\ r.num \in Nat
  BY FlashAssumption DEF Uint
<1>2. r.num \in 1 .. BlockSize /\ r.offset \in 0 .. BlockSize - 1
  BY <1>1 DEF Refused, Outside
<1>3. (r.offset + r.num) % Word = r.offset + r.num
  BY <1>1, <1>2, Division
<1>4. Spaned(r) <=> r.offset + r.num > BlockSize
  BY <1>3 DEF Spaned
<1>5. Whole(r) <=> r.num = BlockSize
  BY <1>2, WholeIsOne DEF Whole
<1> QED
  BY <1>1, <1>2, <1>4, <1>5 DEF NumBytes, Offset

-----------------------------------------------------------------------------
\* NorFlashLib, within one block.

\* A run of bytes within a block of the volume is on the device, and its
\* target is those bytes of that block.
LEMMA InOneBlock ==
    ASSUME NEW l \in Nat, l < Blocks, NEW off \in Nat, NEW n \in Nat, off + n <= BlockSize
    PROVE  /\ ~Beyond(StartLba + l, off, n)
           /\ StartLba + l \in Block
           /\ \A c \in Cell :
                /\ c \in Target(StartLba + l, off, n)
                      <=> c[1] = StartLba + l /\ off <= c[2] /\ c[2] < off + n
                /\ c[1] = StartLba + l => Position(c, StartLba + l, off) = c[2] - off
<1> DEFINE b == StartLba + l
<1>0. /\ BlockSize \in Nat /\ BlockSize > 0 /\ DeviceBlocks \in Nat /\ b \in Nat
      /\ b + 1 <= DeviceBlocks
  BY FlashAssumption
<1>1. b \in Block
  BY <1>0 DEF Block
<1> HIDE DEF b
<1>2. b * BlockSize + BlockSize <= DeviceBlocks * BlockSize
  <2>1. (b + 1) * BlockSize <= DeviceBlocks * BlockSize
    BY <1>0
  <2>2. (b + 1) * BlockSize = b * BlockSize + BlockSize
    BY <1>0
  <2> QED
    BY <2>1, <2>2
<1>3. ~Beyond(b, off, n)
  BY <1>0, <1>2 DEF Beyond
<1>4. ASSUME NEW c \in Cell
      PROVE  /\ c \in Target(b, off, n) <=> c[1] = b /\ off <= c[2] /\ c[2] < off + n
             /\ c[1] = b => Position(c, b, off) = c[2] - off
  <2> DEFINE x == c[1] * BlockSize
             y == b * BlockSize
  <2>1. c[1] \in Nat /\ c[2] \in Nat /\ c[2] < BlockSize
    BY <1>0 DEF Cell, Block
  <2>2. x \in Nat /\ y \in Nat
    BY <1>0, <2>1
  <2>3. c[1] > b => x >= y + BlockSize
    BY <1>0, <2>1
  <2>4. c[1] < b => y >= x + BlockSize
    BY <1>0, <2>1
  <2>5. c[1] = b => x = y
    OBVIOUS
  <2>6. c \in Target(b, off, n) <=> x + c[2] >= y + off /\ x + c[2] - (y + off) < n
    BY DEF Target, Position
  <2>7. Position(c, b, off) = x + c[2] - (y + off)
    BY DEF Position
  <2> HIDE DEF x, y
  <2>8. c[1] # b => ~(x + c[2] >= y + off /\ x + c[2] - (y + off) < n)
    <3>0. BlockSize \in Nat /\ b \in Nat /\ c[1] \in Nat /\ c[2] \in Nat
      BY <1>0, <2>1
    <3>1. CASE c[1] > b
      BY <3>0, <3>1, <2>2, <2>3
    <3>2. CASE c[1] < b
      BY <3>0, <3>2, <2>1, <2>2, <2>4
    <3> QED
      BY <3>0, <3>1, <3>2
  <2>9. c[1] = b => (x + c[2] >= y + off /\ x + c[2] - (y + off) < n
                       <=> off <= c[2] /\ c[2] < off + n)
    BY <2>1, <2>2, <2>5
  <2>10. c[1] = b => Position(c, b, off) = c[2] - off
    BY <2>1, <2>2, <2>5, <2>7
  <2> QED
    BY <2>6, <2>8, <2>9, <2>10
<1> QED
  BY <1>1, <1>3, <1>4 DEF b

\* What is read within a block of the volume is that block's bytes.
LEMMA ContentsInBlock ==
    ASSUME NEW l \in Nat, l < Blocks, NEW off \in Nat, NEW n \in Nat, off + n <= BlockSize
    PROVE  Contents(StartLba + l, off, n) =
              [i \in 1 .. n |-> flash[<<StartLba + l, off + i - 1>>]]
<1>0. BlockSize \in Nat /\ BlockSize > 0 /\ StartLba + l \in Nat
  BY FlashAssumption
<1>1. ASSUME NEW i \in 1 .. n
      PROVE  (off + i - 1) % BlockSize = off + i - 1 /\ (off + i - 1) \div BlockSize = 0
  <2>1. off + i - 1 \in Nat /\ off + i - 1 < BlockSize
    BY <1>0
  <2> QED
    BY <1>0, <2>1, Division
<1>2. \A i \in 1 .. n : StartLba + l + (off + i - 1) \div BlockSize = StartLba + l
  BY <1>0, <1>1
<1> QED
  BY <1>1, <1>2 DEF Contents

-----------------------------------------------------------------------------
\* Types.

\* Reading what is on the device yields bytes.
LEMMA ContentsTyped ==
    ASSUME flash \in [Cell -> Byte],
           NEW b \in Nat, NEW off \in Nat, NEW n \in Nat, ~Beyond(b, off, n)
    PROVE  Contents(b, off, n) \in Seq(Byte)
<1>0. BlockSize \in Nat /\ BlockSize > 0 /\ DeviceBlocks \in Nat
  BY FlashAssumption
<1>1. ASSUME NEW i \in 1 .. n
      PROVE  flash[<<b + ((off + i - 1) \div BlockSize), (off + i - 1) % BlockSize>>] \in Byte
  <2> DEFINE x == off + i - 1
  <2>1. x \in Nat /\ x < off + n
    OBVIOUS
  <2> HIDE DEF x
  <2>2. b * BlockSize + x < DeviceBlocks * BlockSize
    <3>1. b * BlockSize \in Nat /\ DeviceBlocks * BlockSize \in Nat
      BY <1>0
    <3>2. b * BlockSize + off + n <= DeviceBlocks * BlockSize
      BY <3>1 DEF Beyond
    <3> QED
      BY <2>1, <3>1, <3>2
  <2>3. x \div BlockSize \in Nat /\ x % BlockSize \in Nat /\ x % BlockSize < BlockSize
    BY <1>0, <2>1, Division
  <2>4. b < DeviceBlocks
    BY <1>0, <2>1, <2>2
  <2>5. x \div BlockSize < DeviceBlocks - b
    <3>1. DeviceBlocks - b \in Nat
      BY <1>0, <2>4
    <3>2. x < BlockSize * (DeviceBlocks - b)
      BY <1>0, <2>1, <2>2, <2>4
    <3> QED
      BY <1>0, <2>1, <3>1, <3>2, BlockBelow
  <2>6. <<b + (x \div BlockSize), x % BlockSize>> \in Cell
    BY <1>0, <2>3, <2>5 DEF Cell, Block
  <2> QED
    BY <2>6 DEF x
<1> DEFINE f == Contents(b, off, n)
<1>2. f \in [1 .. n -> Byte]
  BY <1>1 DEF Contents
<1> HIDE DEF f
<1>3. f \in Seq(Byte)
  BY <1>2
<1> QED
  BY <1>3 DEF f

\* Storing bytes keeps the flash a map from cells to bytes, whether the library
\* finishes or not.
LEMMA StoredTyped ==
    ASSUME flash \in [Cell -> Byte],
           NEW b \in Nat, NEW off \in Nat, NEW data \in Seq(Byte)
    PROVE  /\ Stored(b, off, data) \in [Cell -> Byte]
           /\ LibWrote(b, off, data) => flash' \in [Cell -> Byte]
           /\ LibWriteFailed(b, off, data) => flash' \in [Cell -> Byte]
<1>0. BlockSize \in Nat /\ DeviceBlocks \in Nat /\ Len(data) \in Nat
  BY FlashAssumption
<1>1. ASSUME NEW c \in Target(b, off, Len(data))
      PROVE  data[Position(c, b, off) + 1] \in Byte
  <2>1. c \in Cell /\ c[1] \in Nat /\ c[2] \in Nat
    BY <1>0 DEF Target, Cell, Block
  <2> DEFINE x == c[1] * BlockSize
             y == b * BlockSize
  <2>2. x \in Nat /\ y \in Nat
    BY <1>0, <2>1
  <2>3. x + c[2] >= y + off /\ x + c[2] - (y + off) < Len(data)
    BY DEF Target, Position
  <2>4. Position(c, b, off) = x + c[2] - (y + off)
    BY DEF Position
  <2> HIDE DEF x, y
  <2> DEFINE p == Position(c, b, off)
  <2>5. p \in Nat /\ p < Len(data)
    <3> HIDE DEF p
    <3>1. p = x + c[2] - (y + off)
      BY <2>4 DEF p
    <3> QED
      BY <1>0, <2>1, <2>2, <2>3, <3>1
  <2> HIDE DEF p
  <2>6. p + 1 \in 1 .. Len(data)
    BY <1>0, <2>5
  <2>7. data[p + 1] \in Byte
    BY <2>6
  <2> QED
    BY <2>7 DEF p
<1>2. Stored(b, off, data) \in [Cell -> Byte]
  BY <1>1 DEF Stored
<1>3. Erased \in Byte
  BY DEF Erased, Byte
<1>4. ASSUME LibWriteFailed(b, off, data) PROVE flash' \in [Cell -> Byte]
  <2>1. CASE Beyond(b, off, Len(data))
    BY <1>4, <2>1 DEF LibWriteFailed
  <2>2. CASE ~Beyond(b, off, Len(data))
    <3>1. PICK fate \in [Touched(b, off, Len(data)) -> {"kept", "erased", "written"}] :
            flash' = [c \in Cell |->
                        IF c[1] \notin Touched(b, off, Len(data)) THEN flash[c]
                        ELSE CASE fate[c[1]] = "kept"    -> flash[c]
                               [] fate[c[1]] = "erased"  -> Erased
                               [] fate[c[1]] = "written" -> Stored(b, off, data)[c]]
      BY <1>4, <2>2 DEF LibWriteFailed
    <3> QED
      BY <1>2, <1>3, <3>1
  <2> QED
    BY <2>1, <2>2
<1> QED
  BY <1>2, <1>4 DEF LibWrote

\* A counted change keeps the count within its bound.
LEMMA ChangeTyped ==
    ASSUME changes \in 0 .. MaxChanges, Change
    PROVE  changes' \in 0 .. MaxChanges
<1>1. MaxChanges \in Nat
  BY RequestAssumption
<1> QED
  BY <1>1 DEF Change

\* What a call returns is a status, a count and a buffer.
LEMMA ReplyTyped ==
    ASSUME NEW status \in Status, NEW num \in Nat, NEW data \in Seq(Byte),
           reply' = Returned(status, num, data)
    PROVE  reply'.status \in Status /\ reply'.num \in Nat /\ reply'.data \in Seq(Byte)
BY DEF Returned

\* The arguments of each function.
LEMMA ArgumentsTyped ==
    /\ \A r \in Reads : r.lba \in Nat /\ r.offset \in Uint /\ r.num \in Uint
    /\ \A r \in Writes : /\ r.lba \in Nat /\ r.offset \in Uint /\ r.num \in Uint
                         /\ r.data \in Seq(Byte) /\ Len(r.data) = r.num
    /\ \A r \in DiskReads : r.offset \in Nat /\ r.num \in Nat
    /\ \A r \in BlockReads : r.lba \in Nat /\ r.num \in Nat
    /\ \A r \in DiskWrites : r.offset \in Nat /\ r.data \in Seq(Byte)
    /\ \A r \in BlockWrites : r.lba \in Nat /\ r.data \in Seq(Byte)
    /\ BlockSize \in Nat /\ BlockSize > 0 /\ StartLba \in Nat /\ Uint \subseteq Nat
<1>1. Uint \subseteq Nat /\ BlockSize \in Nat /\ BlockSize > 0 /\ StartLba \in Nat
  BY FlashAssumption DEF Uint
<1>2. \A r \in Reads : r.lba \in Nat /\ r.offset \in Uint /\ r.num \in Uint
  BY <1>1, RequestAssumption
<1>3. \A r \in Writes : /\ r.lba \in Nat /\ r.offset \in Uint /\ r.num \in Uint
                        /\ r.data \in Seq(Byte) /\ Len(r.data) = r.num
  BY <1>1, RequestAssumption
<1>4. \A r \in DiskReads : r.offset \in Nat /\ r.num \in Nat
  BY <1>1, RequestAssumption
<1>5. \A r \in BlockReads : r.lba \in Nat /\ r.num \in Nat
  BY <1>1, RequestAssumption
<1>6. \A r \in DiskWrites : r.offset \in Nat /\ r.data \in Seq(Byte)
  BY <1>1, RequestAssumption
<1>7. \A r \in BlockWrites : r.lba \in Nat /\ r.data \in Seq(Byte)
  BY <1>1, RequestAssumption
<1> QED
  BY <1>1, <1>2, <1>3, <1>4, <1>5, <1>6, <1>7

\* The block of the device that a request or a range starts at: within the
\* volume the sum does not wrap around.
LEMMA LbaTyped ==
    ASSUME NEW r, r.lba \in Nat
    PROVE  /\ Lba(r) \in Nat
           /\ r.lba < Blocks => Lba(r) = StartLba + r.lba
<1>1. /\ Word \in Nat /\ Word > 0 /\ StartLba \in Nat /\ Blocks \in Nat /\ DeviceBlocks \in Nat
      /\ StartLba + Blocks <= DeviceBlocks /\ DeviceBlocks < Word
  BY FlashAssumption
<1>2. StartLba + r.lba \in Nat
  BY <1>1
<1>3. r.lba < Blocks => StartLba + r.lba < Word
  BY <1>1
<1> QED
  BY <1>1, <1>2, <1>3, Division DEF Lba

\* The functions of the firmware volume block protocol keep the types.
LEMMA FvbTyped == ASSUME TypeOK, Fvb PROVE TypeOK'
<1> USE DEF TypeOK
<1>0. << >> \in Seq(Byte) /\ 0 \in Nat
  OBVIOUS
<1>1. ASSUME NEW r \in Reads, FvbReadRefused(r) PROVE TypeOK'
  BY <1>0, <1>1, ReplyTyped DEF FvbReadRefused, Status
<1>2. ASSUME NEW r \in Reads, FvbReadDone(r) PROVE TypeOK'
  <2>1. /\ r.lba \in Nat /\ r.offset \in Uint /\ r.num \in Uint /\ ~Refused(r)
        /\ ~Beyond(Lba(r), Offset(r), NumBytes(r)) /\ UNCHANGED <<flash, changes>>
        /\ reply' = Returned("SUCCESS", NumBytes(r),
                             Contents(Lba(r), Offset(r), NumBytes(r)))
    BY <1>2, ArgumentsTyped DEF FvbReadDone
  <2>2. NumBytes(r) \in Nat /\ Offset(r) \in Nat
    BY <2>1, Accepted
  <2>3. Lba(r) \in Nat
    BY <2>1, LbaTyped
  <2>4. Contents(Lba(r), Offset(r), NumBytes(r)) \in Seq(Byte)
    BY <2>1, <2>2, <2>3, ContentsTyped
  <2> QED
    BY <2>1, <2>2, <2>4, ReplyTyped DEF Status
<1>3. ASSUME NEW r \in Reads, FvbReadFailed(r) PROVE TypeOK'
  <2>1. r.offset \in Uint /\ r.num \in Uint /\ ~Refused(r)
    BY <1>3, ArgumentsTyped DEF FvbReadFailed
  <2>2. NumBytes(r) \in Nat
    BY <2>1, Accepted
  <2> QED
    BY <1>0, <1>3, <2>2, ReplyTyped DEF FvbReadFailed, Status
<1>4. ASSUME NEW r \in Writes, FvbWriteRefused(r) PROVE TypeOK'
  <2>1. reply' = Returned("BAD_BUFFER_SIZE", 0, << >>) /\ UNCHANGED <<flash, changes>>
    BY <1>4 DEF FvbWriteRefused, ReadOnly
  <2> QED
    BY <1>0, <2>1, ReplyTyped DEF Status
<1>5. ASSUME NEW r \in Writes, FvbWriteDone(r) \/ FvbWriteFailed(r) PROVE TypeOK'
  <2> DEFINE bytes == SubSeq(r.data, 1, NumBytes(r))
  <2>1. /\ r.lba \in Nat /\ r.offset \in Uint /\ r.num \in Uint /\ ~Refused(r)
        /\ r.data \in Seq(Byte) /\ Len(r.data) = r.num
    BY <1>5, ArgumentsTyped DEF FvbWriteDone, FvbWriteFailed
  <2>2. NumBytes(r) \in 1 .. r.num /\ Offset(r) \in Nat /\ NumBytes(r) \in Nat
    BY <2>1, Accepted
  <2>3. Lba(r) \in Nat
    BY <2>1, LbaTyped
  <2>4. bytes \in Seq(Byte)
    BY <2>1, <2>2
  <2>5. LibWrote(Lba(r), Offset(r), bytes) \/ LibWriteFailed(Lba(r), Offset(r), bytes)
    BY <1>5 DEF FvbWriteDone, FvbWriteFailed
  <2> HIDE DEF bytes
  <2>6. flash' \in [Cell -> Byte]
    BY <2>2, <2>3, <2>4, <2>5, StoredTyped
  <2>7. changes' \in 0 .. MaxChanges
    BY <1>5, ChangeTyped DEF FvbWriteDone, FvbWriteFailed
  <2>8. PICK status \in Status : reply' = Returned(status, NumBytes(r), << >>)
    BY <1>5 DEF FvbWriteDone, FvbWriteFailed, LibError, Status
  <2> QED
    BY <1>0, <2>2, <2>6, <2>7, <2>8, ReplyTyped
<1>6. ASSUME NEW list \in Erases, FvbEraseRefused(list) PROVE TypeOK'
  <2>1. reply' = Returned("INVALID_PARAMETER", 0, << >>) /\ UNCHANGED <<flash, changes>>
    BY <1>6 DEF FvbEraseRefused, ReadOnly
  <2> QED
    BY <1>0, <2>1, ReplyTyped DEF Status
<1>7. ASSUME NEW list \in Erases, FvbEraseDone(list) \/ FvbEraseFailed(list) PROVE TypeOK'
  <2>1. Erased \in Byte
    BY DEF Erased, Byte
  <2>2. PICK S : flash' = [c \in Cell |-> IF c[1] \in S THEN Erased ELSE flash[c]]
    BY <1>7 DEF FvbEraseDone, FvbEraseFailed
  <2>3. flash' \in [Cell -> Byte]
    BY <2>1, <2>2
  <2>4. changes' \in 0 .. MaxChanges
    BY <1>7, ChangeTyped DEF FvbEraseDone, FvbEraseFailed
  <2>5. PICK status \in Status : reply' = Returned(status, 0, << >>)
    BY <1>7 DEF FvbEraseDone, FvbEraseFailed, Status
  <2> QED
    BY <1>0, <2>3, <2>4, <2>5, ReplyTyped
<1> QED
  BY <1>1, <1>2, <1>3, <1>4, <1>5, <1>6, <1>7 DEF Fvb

\* A read past the block protocol's and the disk protocol's checks keeps the types.
LEMMA RawReadTyped ==
    ASSUME TypeOK, NEW b \in Nat, NEW off \in Nat, NEW n \in Nat, RawRead(b, off, n)
    PROVE  TypeOK'
<1>0. << >> \in Seq(Byte)
  OBVIOUS
<1>1. UNCHANGED <<flash, changes>>
  BY DEF RawRead
<1>2. CASE reply' = Returned(LibError(b, off, n), n, << >>)
  <2>1. LibError(b, off, n) \in Status
    BY DEF LibError, Status
  <2> QED
    BY <1>0, <1>1, <1>2, <2>1, ReplyTyped DEF TypeOK
<1>3. CASE ~Beyond(b, off, n) /\ reply' = Returned("SUCCESS", n, Contents(b, off, n))
  <2>1. Contents(b, off, n) \in Seq(Byte)
    BY <1>3, ContentsTyped DEF TypeOK
  <2> QED
    BY <1>1, <1>3, <2>1, ReplyTyped DEF TypeOK, Status
<1> QED
  BY <1>2, <1>3 DEF RawRead

\* And so does a write.
LEMMA RawWriteTyped ==
    ASSUME TypeOK, NEW b \in Nat, NEW off \in Nat, NEW data \in Seq(Byte),
           RawWrite(b, off, data)
    PROVE  TypeOK'
<1>1. << >> \in Seq(Byte) /\ Len(data) \in Nat
  OBVIOUS
<1>2. changes' \in 0 .. MaxChanges
  BY ChangeTyped DEF RawWrite, TypeOK
<1>3. flash' \in [Cell -> Byte]
  BY StoredTyped DEF RawWrite, TypeOK
<1>4. PICK status \in Status : reply' = Returned(status, Len(data), << >>)
  BY DEF RawWrite, LibError, Status
<1> QED
  BY <1>1, <1>2, <1>3, <1>4, ReplyTyped DEF TypeOK

\* A refusal of the block or disk protocol keeps the types.
LEMMA RawRefusedTyped ==
    ASSUME TypeOK, NEW status \in Status, RawRefused(status)
    PROVE  TypeOK'
<1>1. << >> \in Seq(Byte) /\ 0 \in Nat
  OBVIOUS
<1> QED
  BY <1>1, ReplyTyped DEF RawRefused, TypeOK

\* The functions of the other two protocols keep the types.
LEMMA RawTyped == ASSUME TypeOK, Raw PROVE TypeOK'
<1>0. /\ "MEDIA_CHANGED" \in Status /\ "INVALID_PARAMETER" \in Status
      /\ "BAD_BUFFER_SIZE" \in Status /\ "WRITE_PROTECTED" \in Status /\ 0 \in Nat
  BY DEF Status
<1>1. ASSUME NEW r \in DiskReads, DiskIoRead(r) PROVE TypeOK'
  <2>1. r.offset \in Nat /\ r.num \in Nat
    BY <1>1, ArgumentsTyped
  <2>2. r.offset \div BlockSize \in Nat /\ r.offset % BlockSize \in Nat
    BY <2>1, ArgumentsTyped, Division
  <2> QED
    BY <1>0, <1>1, <2>1, <2>2, RawRefusedTyped, RawReadTyped DEF DiskIoRead
<1>2. ASSUME NEW r \in DiskWrites, DiskIoWrite(r) PROVE TypeOK'
  <2>1. r.offset \in Nat /\ r.data \in Seq(Byte)
    BY <1>2, ArgumentsTyped
  <2>2. r.offset \div BlockSize \in Nat /\ r.offset % BlockSize \in Nat
    BY <2>1, ArgumentsTyped, Division
  <2> QED
    BY <1>0, <1>2, <2>1, <2>2, RawRefusedTyped, RawWriteTyped DEF DiskIoWrite
<1>3. ASSUME NEW r \in BlockReads, BlockIoRead(r) PROVE TypeOK'
  <2>1. r.lba \in Nat /\ r.num \in Nat
    BY <1>3, ArgumentsTyped
  <2> QED
    BY <1>0, <1>3, <2>1, RawRefusedTyped, RawReadTyped DEF BlockIoRead
<1>4. ASSUME NEW r \in BlockWrites, BlockIoWrite(r) PROVE TypeOK'
  <2>1. r.lba \in Nat /\ r.data \in Seq(Byte)
    BY <1>4, ArgumentsTyped
  <2> QED
    BY <1>0, <1>4, <2>1, RawRefusedTyped, RawWriteTyped DEF BlockIoWrite
<1> QED
  BY <1>1, <1>2, <1>3, <1>4 DEF Raw

\* TypeOK is an invariant: whatever is asked and however the flash fails, its
\* blocks hold bytes and a call returns a status, a count and bytes.
THEOREM TypesHold == Spec => []TypeOK
<1>1. Init => TypeOK
  <2> SUFFICES ASSUME Init PROVE TypeOK
    OBVIOUS
  <2>1. MaxChanges \in Nat /\ flash \in [Cell -> Byte]
    BY RequestAssumption DEF Init
  <2>2. /\ reply = [status |-> "NONE", num |-> 0, data |-> << >>] /\ changes = 0
        /\ << >> \in Seq(Byte)
    BY DEF Init, NoReply, Returned
  <2> QED
    BY <2>1, <2>2 DEF TypeOK, Status
<1>2. TypeOK /\ [Next]_vars => TypeOK'
  <2>1. ASSUME TypeOK, UNCHANGED vars PROVE TypeOK'
    BY <2>1 DEF TypeOK, vars
  <2> QED
    BY <2>1, FvbTyped, RawTyped DEF Next
<1> QED
  BY <1>1, <1>2, PTL DEF Spec

-----------------------------------------------------------------------------
\* The refinement.  What the mapping makes of the state:
VolNow == [c \in (0 .. Blocks - 1) \X (0 .. BlockSize - 1) |-> flash[<<StartLba + c[1], c[2]>>]]
RequestNow == IF request.op \in FvbOps THEN request ELSE NoRequest
ReplyNow == IF request.op \in FvbOps THEN reply ELSE NoReply

\* The request and the reply of a call of the protocol are the abstract ones.
LEMMA CallMapped ==
    ASSUME NEW op \in FvbOps, NEW r, Call(op, r)
    PROVE  RequestNow' = [op |-> op, args |-> r] /\ ReplyNow' = reply'
BY DEF Call, RequestNow, ReplyNow

\* A cell of the volume is a cell of the flash.
LEMMA CellMapped ==
    ASSUME NEW c \in (0 .. Blocks - 1) \X (0 .. BlockSize - 1)
    PROVE  /\ <<StartLba + c[1], c[2]>> \in Cell
           /\ c[1] \in Nat /\ c[2] \in Nat /\ c[1] < Blocks /\ c[2] < BlockSize
           /\ StartLba \in Nat
           /\ StartLba + c[1] \in Volume
<1>1. /\ StartLba \in Nat /\ Blocks \in Nat /\ DeviceBlocks \in Nat /\ BlockSize \in Nat
      /\ StartLba + Blocks <= DeviceBlocks
  BY FlashAssumption
<1>2. c[1] \in 0 .. Blocks - 1 /\ c[2] \in 0 .. BlockSize - 1
  OBVIOUS
<1>3. /\ c[1] \in Nat /\ c[2] \in Nat /\ c[1] < Blocks /\ c[2] < BlockSize
  BY <1>1, <1>2
<1>4. StartLba + c[1] \in Block /\ StartLba + c[1] \in Volume
  BY <1>1, <1>3 DEF Block, Volume
<1> QED
  BY <1>1, <1>2, <1>3, <1>4 DEF Cell

\* A proper request that is accepted moves as many bytes as the driver reports.
LEMMA MovesMapped ==
    ASSUME NEW r, r.offset \in Uint, r.num \in Uint, ~Refused(r),
           r.num = BlockSize => r.offset = 0
    PROVE  /\ NumBytes(r) \in 0 .. BlockSize
           /\ r.offset + NumBytes(r) <= BlockSize
           /\ Offset(r) = r.offset
           /\ Promise!Moves(r, NumBytes(r),
                            IF ~Whole(r) /\ Spaned(r) THEN "BAD_BUFFER_SIZE" ELSE "SUCCESS")
           /\ r.offset + r.num <= BlockSize => Promise!Moves(r, NumBytes(r), "SUCCESS")
<1>1. /\ BlockSize \in Nat /\ BlockSize > 0
      /\ r.num \in 1 .. BlockSize /\ r.offset \in 0 .. BlockSize - 1
      /\ Spaned(r) <=> r.offset + r.num > BlockSize
      /\ Whole(r) <=> r.num = BlockSize
      /\ Whole(r) => NumBytes(r) = BlockSize /\ Offset(r) = 0
      /\ ~Whole(r) => /\ Offset(r) = r.offset
                      /\ Spaned(r) => NumBytes(r) = BlockSize - r.offset
                      /\ ~Spaned(r) => NumBytes(r) = r.num
      /\ NumBytes(r) \in 1 .. BlockSize
  BY Accepted
<1>2. CASE ~Whole(r) /\ Spaned(r)
  BY <1>1, <1>2 DEF Promise!Moves, Promise!Room, Promise!Crosses
<1>3. CASE Whole(r)
  BY <1>1, <1>3 DEF Promise!Moves, Promise!Crosses
<1>4. CASE ~Whole(r) /\ ~Spaned(r)
  BY <1>1, <1>4 DEF Promise!Moves, Promise!Crosses
<1> QED
  BY <1>2, <1>3, <1>4

\* A refused request moves nothing.
LEMMA NothingMoves ==
    ASSUME NEW r, r.offset \in Uint, r.num \in Uint
    PROVE  Promise!Moves(r, 0, "BAD_BUFFER_SIZE") /\ 0 \in 0 .. BlockSize
<1>1. r.offset \in Nat /\ r.num \in Nat /\ BlockSize \in Nat
  BY FlashAssumption DEF Uint
<1> QED
  BY <1>1 DEF Promise!Moves, Promise!Room

\* FvbRead reads what the promise says, when the read stays in its block.
LEMMA ReadMapped ==
    ASSUME ProperReads, NEW r \in Reads,
           FvbReadRefused(r) \/ FvbReadDone(r) \/ FvbReadFailed(r)
    PROVE  Promise!Read(r)
<1>1. VolNow' = VolNow
  BY DEF FvbReadRefused, FvbReadDone, FvbReadFailed, VolNow
<1>2. RequestNow' = [op |-> "read", args |-> r] /\ ReplyNow' = reply'
  BY CallMapped DEF FvbReadRefused, FvbReadDone, FvbReadFailed, FvbOps
<1>3. r.offset \in Uint /\ r.num \in Uint /\ r.lba \in Nat
  BY ArgumentsTyped
<1>4. ASSUME NEW m \in 0 .. BlockSize, NEW status \in {"SUCCESS", "BAD_BUFFER_SIZE"},
             Promise!Moves(r, m, status),
             reply' = Returned(status, m, [i \in 1 .. m |-> VolNow[<<r.lba, r.offset + i - 1>>]])
      PROVE  Promise!Read(r)
  BY <1>1, <1>2, <1>4
  DEF Returned, Promise!Read, Promise!Asked, Promise!Replied, VolNow, RequestNow, ReplyNow
<1>5. CASE FvbReadRefused(r)
  <2>1. reply' = Returned("BAD_BUFFER_SIZE", 0, << >>)
    BY <1>5 DEF FvbReadRefused
  <2>2. << >> = [i \in 1 .. 0 |-> VolNow[<<r.lba, r.offset + i - 1>>]]
    OBVIOUS
  <2> QED
    BY <1>3, <1>4, <2>1, <2>2, NothingMoves
<1>6. CASE FvbReadDone(r)
  <2> DEFINE m == NumBytes(r)
  <2>1. /\ ~Refused(r) /\ r.lba < Blocks /\ r.offset + r.num <= BlockSize
        /\ reply' = Returned("SUCCESS", m, Contents(Lba(r), Offset(r), m))
    BY <1>6 DEF FvbReadDone, ProperReads
  <2>2. r.num = BlockSize => r.offset = 0
    BY <1>3, <2>1, Accepted
  <2>3. /\ m \in 0 .. BlockSize /\ r.offset + m <= BlockSize
        /\ Offset(r) = r.offset /\ Promise!Moves(r, m, "SUCCESS")
    BY <1>3, <2>1, <2>2, MovesMapped
  <2> HIDE DEF m
  <2>4. r.offset \in Nat /\ m \in Nat /\ BlockSize \in Nat /\ Blocks \in Nat
    <3>1. BlockSize \in Nat /\ Blocks \in Nat /\ Uint \subseteq Nat
      BY ArgumentsTyped, FlashAssumption
    <3>2. m \in Nat
      BY <2>3, <3>1
    <3> QED
      BY <1>3, <3>1, <3>2
  <2>5. Contents(Lba(r), Offset(r), m) =
          [i \in 1 .. m |-> flash[<<StartLba + r.lba, r.offset + i - 1>>]]
    <3>1. Contents(StartLba + r.lba, r.offset, m) =
            [i \in 1 .. m |-> flash[<<StartLba + r.lba, r.offset + i - 1>>]]
      BY <1>3, <2>1, <2>3, <2>4, ContentsInBlock
    <3>2. Lba(r) = StartLba + r.lba
      BY <1>3, <2>1, LbaTyped
    <3> QED
      BY <2>3, <3>1, <3>2
  <2>6. ASSUME NEW i \in 1 .. m
        PROVE  VolNow[<<r.lba, r.offset + i - 1>>] = flash[<<StartLba + r.lba, r.offset + i - 1>>]
    <3>1. r.lba \in 0 .. Blocks - 1 /\ r.offset + i - 1 \in 0 .. BlockSize - 1
      BY <1>3, <2>1, <2>3, <2>4
    <3> QED
      BY <3>1 DEF VolNow
  <2>7. Contents(Lba(r), Offset(r), m) =
          [i \in 1 .. m |-> VolNow[<<r.lba, r.offset + i - 1>>]]
    BY <2>5, <2>6
  <2> QED
    BY <1>4, <2>1, <2>3, <2>7
<1>7. CASE FvbReadFailed(r)
  BY <1>1, <1>2, <1>7
  DEF FvbReadFailed, Returned, Promise!Read, Promise!Asked, Promise!Failed,
      VolNow, RequestNow, ReplyNow
<1> QED
  BY <1>5, <1>6, <1>7

\* A write, finished or not, leaves the blocks it does not touch alone.
LEMMA UntouchedKept ==
    ASSUME NEW b, NEW off, NEW data,
           LibWrote(b, off, data) \/ LibWriteFailed(b, off, data),
           NEW c \in Cell, c[1] \notin Touched(b, off, Len(data))
    PROVE  flash'[c] = flash[c]
<1>1. c \notin Target(b, off, Len(data))
  BY DEF Touched
<1>2. CASE LibWrote(b, off, data)
  BY <1>1, <1>2 DEF LibWrote, Stored
<1>3. CASE LibWriteFailed(b, off, data)
  <2>1. CASE Beyond(b, off, Len(data))
    BY <1>3, <2>1 DEF LibWriteFailed
  <2>2. CASE ~Beyond(b, off, Len(data))
    BY <1>3, <2>2 DEF LibWriteFailed
  <2> QED
    BY <2>1, <2>2
<1> QED
  BY <1>2, <1>3

\* What an accepted write asks the library for lies within its block.
LEMMA WriteInBlock ==
    ASSUME NEW r, r.lba \in Nat, r.lba < Blocks, r.offset \in Uint, r.num \in Uint,
           r.data \in Seq(Byte), Len(r.data) = r.num, ~Refused(r),
           r.num = BlockSize => r.offset = 0
    PROVE  LET m == NumBytes(r)  bytes == SubSeq(r.data, 1, m) IN
           /\ m \in Nat /\ r.offset \in Nat /\ Len(bytes) = m /\ m <= Len(r.data)
           /\ \A i \in 1 .. m : bytes[i] = r.data[i]
           /\ Offset(r) = r.offset
           /\ LibError(Lba(r), Offset(r), m) = "DEVICE_ERROR"
           /\ \A c \in Cell :
                /\ c \in Target(Lba(r), r.offset, m)
                      <=> c[1] = Lba(r) /\ r.offset <= c[2] /\ c[2] < r.offset + m
                /\ c[1] = Lba(r) => Position(c, Lba(r), r.offset) = c[2] - r.offset
<1> DEFINE m == NumBytes(r)
           bytes == SubSeq(r.data, 1, m)
<1>1. m \in 1 .. BlockSize /\ m <= r.num
  BY Accepted
<1>2. r.offset + m <= BlockSize /\ Offset(r) = r.offset
  BY MovesMapped
<1> HIDE DEF m
<1>3. m \in Nat /\ r.offset \in Nat
  <2>1. BlockSize \in Nat /\ Uint \subseteq Nat
    BY ArgumentsTyped
  <2>2. m \in Nat
    BY <1>1, <2>1
  <2>3. r.offset \in Nat
    BY <2>1
  <2> QED
    BY <2>2, <2>3
<1>4. Len(bytes) = m /\ \A i \in 1 .. m : bytes[i] = r.data[i]
  BY <1>1, <1>3
<1> HIDE DEF bytes
<1>5. /\ ~Beyond(Lba(r), r.offset, m)
      /\ \A c \in Cell :
            /\ c \in Target(Lba(r), r.offset, m)
                  <=> c[1] = Lba(r) /\ r.offset <= c[2] /\ c[2] < r.offset + m
            /\ c[1] = Lba(r) => Position(c, Lba(r), r.offset) = c[2] - r.offset
  <2>1. Lba(r) = StartLba + r.lba
    BY LbaTyped
  <2> QED
    BY <1>2, <1>3, <2>1, InOneBlock
<1>6. LibError(Lba(r), Offset(r), m) = "DEVICE_ERROR"
  BY <1>2, <1>5 DEF LibError
<1>7. m <= Len(r.data)
  BY <1>1
<1> QED
  BY <1>2, <1>3, <1>4, <1>5, <1>6, <1>7 DEF m, bytes

\* FvbWrite writes what the promise says, when a write of a whole block starts
\* at its beginning.
LEMMA WriteMapped ==
    ASSUME ProperWrites, NEW r \in Writes,
           FvbWriteRefused(r) \/ FvbWriteDone(r) \/ FvbWriteFailed(r)
    PROVE  Promise!Write(r)
<1> DEFINE m == NumBytes(r)
           bytes == SubSeq(r.data, 1, m)
<1>1. RequestNow' = [op |-> "write", args |-> r] /\ ReplyNow' = reply'
  BY CallMapped DEF FvbWriteRefused, FvbWriteDone, FvbWriteFailed, FvbOps
<1>2. /\ r.offset \in Uint /\ r.num \in Uint /\ r.lba \in Nat /\ r.lba < Blocks
      /\ r.data \in Seq(Byte) /\ Len(r.data) = r.num
  BY ArgumentsTyped DEF ProperWrites
<1>3. CASE FvbWriteRefused(r)
  <2>1. reply' = Returned("BAD_BUFFER_SIZE", 0, << >>) /\ flash' = flash
    BY <1>3 DEF FvbWriteRefused, ReadOnly
  <2>2. Promise!Moves(r, 0, "BAD_BUFFER_SIZE") /\ 0 \in 0 .. BlockSize
    BY <1>2, NothingMoves
  <2>3. r.offset \in Nat
    BY <1>2, ArgumentsTyped
  <2>4. VolNow' = [c \in (0 .. Blocks - 1) \X (0 .. BlockSize - 1) |->
                     IF c[1] = r.lba /\ c[2] >= r.offset /\ c[2] < r.offset + 0
                     THEN r.data[c[2] - r.offset + 1] ELSE VolNow[c]]
    BY <2>1, <2>3, CellMapped DEF VolNow
  <2> QED
    BY <1>1, <2>1, <2>2, <2>4
    DEF Returned, Promise!Write, Promise!Asked, Promise!Replied, Promise!Cells,
        VolNow, RequestNow, ReplyNow
<1>4. ASSUME ~Refused(r)
      PROVE  /\ r.num = BlockSize => r.offset = 0
             /\ m \in Nat /\ r.offset \in Nat /\ Len(bytes) = m /\ m <= Len(r.data)
             /\ \A i \in 1 .. m : bytes[i] = r.data[i]
             /\ Offset(r) = r.offset
             /\ LibError(Lba(r), Offset(r), m) = "DEVICE_ERROR"
             /\ \A c \in Cell :
                  /\ c \in Target(Lba(r), r.offset, m)
                        <=> c[1] = Lba(r) /\ r.offset <= c[2] /\ c[2] < r.offset + m
                  /\ c[1] = Lba(r) => Position(c, Lba(r), r.offset) = c[2] - r.offset
  <2>1. r.num = BlockSize => r.offset = 0
    BY <1>4 DEF ProperWrites, Refused
  <2> QED
    BY <1>2, <1>4, <2>1, WriteInBlock
<1>5. CASE FvbWriteDone(r)
  <2> DEFINE status == IF ~Whole(r) /\ Spaned(r) THEN "BAD_BUFFER_SIZE" ELSE "SUCCESS"
  <2>1. /\ ~Refused(r) /\ reply' = Returned(status, m, << >>)
        /\ flash' = Stored(Lba(r), Offset(r), bytes)
    BY <1>5 DEF FvbWriteDone, LibWrote
  <2>2. m \in 0 .. BlockSize /\ Promise!Moves(r, m, status)
    BY <1>2, <1>4, <2>1, MovesMapped
  <2> HIDE DEF m, bytes
  <2>3. ASSUME NEW c \in (0 .. Blocks - 1) \X (0 .. BlockSize - 1)
        PROVE  VolNow'[c] = IF c[1] = r.lba /\ c[2] >= r.offset /\ c[2] < r.offset + m
                            THEN r.data[c[2] - r.offset + 1] ELSE VolNow[c]
    <3> DEFINE d == <<StartLba + c[1], c[2]>>
    <3>1. d \in Cell /\ c[1] \in Nat /\ c[2] \in Nat /\ StartLba \in Nat
      BY CellMapped
    <3>2. VolNow'[c] = flash'[d] /\ VolNow[c] = flash[d]
      BY DEF VolNow
    <3>3. d[1] = Lba(r) <=> c[1] = r.lba
      BY <1>2, <3>1, LbaTyped
    <3>4. d[2] = c[2]
      OBVIOUS
    <3> HIDE DEF d
    <3>5. /\ d \in Target(Lba(r), r.offset, m)
                <=> c[1] = r.lba /\ r.offset <= c[2] /\ c[2] < r.offset + m
          /\ c[1] = r.lba => Position(d, Lba(r), r.offset) = c[2] - r.offset
      BY <1>4, <2>1, <3>1, <3>3, <3>4
    <3>6. flash'[d] = IF d \in Target(Lba(r), r.offset, m)
                      THEN bytes[Position(d, Lba(r), r.offset) + 1] ELSE flash[d]
      BY <1>4, <2>1, <3>1 DEF Stored
    <3>7. CASE c[1] = r.lba /\ c[2] >= r.offset /\ c[2] < r.offset + m
      <4>1. c[2] - r.offset + 1 \in 1 .. m
        BY <1>4, <2>1, <3>1, <3>7
      <4>2. bytes[c[2] - r.offset + 1] = r.data[c[2] - r.offset + 1]
        BY <1>4, <2>1, <4>1
      <4>3. d \in Target(Lba(r), r.offset, m) /\ Position(d, Lba(r), r.offset) = c[2] - r.offset
        BY <1>4, <2>1, <3>1, <3>5, <3>7
      <4> QED
        BY <3>2, <3>6, <3>7, <4>2, <4>3
    <3>8. CASE ~(c[1] = r.lba /\ c[2] >= r.offset /\ c[2] < r.offset + m)
      <4>1. d \notin Target(Lba(r), r.offset, m)
        BY <1>4, <2>1, <3>1, <3>5, <3>8
      <4> QED
        BY <3>2, <3>6, <3>8, <4>1
    <3> QED
      BY <3>7, <3>8
  <2>4. VolNow' = [c \in (0 .. Blocks - 1) \X (0 .. BlockSize - 1) |->
                     IF c[1] = r.lba /\ c[2] >= r.offset /\ c[2] < r.offset + m
                     THEN r.data[c[2] - r.offset + 1] ELSE VolNow[c]]
    BY <2>3 DEF VolNow
  <2>5. status \in {"SUCCESS", "BAD_BUFFER_SIZE"}
    OBVIOUS
  <2> HIDE DEF status
  <2> QED
    BY <1>1, <2>1, <2>2, <2>4, <2>5
    DEF Returned, Promise!Write, Promise!Asked, Promise!Replied, Promise!Cells,
        VolNow, RequestNow, ReplyNow
<1>6. CASE FvbWriteFailed(r)
  <2>1. ~Refused(r) /\ LibWriteFailed(Lba(r), Offset(r), bytes)
    BY <1>6 DEF FvbWriteFailed
  <2>2. reply'.status = "DEVICE_ERROR"
    BY <1>4, <1>6, <2>1 DEF FvbWriteFailed, Returned
  <2> HIDE DEF m, bytes
  <2>3. ASSUME NEW c \in (0 .. Blocks - 1) \X (0 .. BlockSize - 1), c[1] # r.lba
        PROVE  VolNow'[c] = VolNow[c]
    <3> DEFINE d == <<StartLba + c[1], c[2]>>
    <3>1. d \in Cell /\ c[1] \in Nat /\ StartLba \in Nat
      BY CellMapped
    <3>2. VolNow'[c] = flash'[d] /\ VolNow[c] = flash[d]
      BY DEF VolNow
    <3>3. d[1] # Lba(r)
      BY <1>2, <2>3, <3>1, LbaTyped
    <3> HIDE DEF d
    <3>4. d[1] \notin Touched(Lba(r), Offset(r), Len(bytes))
      BY <1>4, <2>1, <3>3 DEF Touched, Target
    <3>5. flash'[d] = flash[d]
      BY <2>1, <3>1, <3>4, UntouchedKept
    <3> QED
      BY <3>2, <3>5
  <2> QED
    BY <1>1, <2>2, <2>3
    DEF Promise!Write, Promise!Asked, Promise!Failed, Promise!Cells,
        VolNow, RequestNow, ReplyNow
<1> QED
  BY <1>3, <1>5, <1>6

\* A range of the list is accepted exactly when its blocks exist, and what the
\* library then erases is those blocks.
LEMMA RangeMapped ==
    ASSUME NEW e, e.lba \in Uint, e.num \in Uint, e.lba + e.num < Word
    PROVE  /\ RangeValid(e) <=> e.num > 0 /\ e.lba + e.num <= Blocks
           /\ RangeValid(e) => \A l \in 0 .. Blocks - 1 :
                 StartLba + l \in ErasedBy(e) <=> l >= e.lba /\ l < e.lba + e.num
<1>1. /\ e.lba \in Nat /\ e.num \in Nat /\ Word \in Nat /\ Blocks \in Nat /\ StartLba \in Nat
      /\ BlockSize \in Nat /\ BlockSize > 0 /\ DeviceBlocks \in Nat
      /\ StartLba + Blocks <= DeviceBlocks /\ Blocks * BlockSize < Word
  BY FlashAssumption DEF Uint
<1>2. (e.lba + e.num) % Word = e.lba + e.num
  BY <1>1, Division
<1>3. RangeValid(e) <=> e.num > 0 /\ e.lba + e.num <= Blocks
  BY <1>1, <1>2 DEF RangeValid
<1>4. ASSUME RangeValid(e), NEW l \in 0 .. Blocks - 1
      PROVE  StartLba + l \in ErasedBy(e) <=> l >= e.lba /\ l < e.lba + e.num
  <2>1. e.num <= Blocks
    BY <1>1, <1>3, <1>4
  <2>2. e.num * BlockSize \in Nat /\ Blocks * BlockSize \in Nat
    BY <1>1
  <2>3. e.num * BlockSize <= Blocks * BlockSize
    BY <1>1, <2>1
  <2>4. (e.num * BlockSize) % Word = e.num * BlockSize
    BY <1>1, <2>2, <2>3, Division
  <2>5. (e.num * BlockSize) \div BlockSize = e.num
    BY <1>1, Division
  <2>6. StartLba + l \in Block
    BY <1>1 DEF Block
  <2>7. Lba(e) = StartLba + e.lba
    BY <1>1, <1>3, <1>4, LbaTyped
  <2>8. StartLba + l \in ErasedBy(e)
          <=> StartLba + l >= StartLba + e.lba /\ StartLba + l < StartLba + e.lba + e.num
    BY <2>4, <2>5, <2>6, <2>7 DEF ErasedBy, Count
  <2> QED
    BY <1>1, <2>8
<1> QED
  BY <1>3, <1>4

\* Erasing blocks of a list, as the volume sees it.
LEMMA ErasedMapped ==
    ASSUME NEW S, flash' = [c \in Cell |-> IF c[1] \in S THEN Erased ELSE flash[c]],
           NEW c \in (0 .. Blocks - 1) \X (0 .. BlockSize - 1)
    PROVE  VolNow'[c] = IF StartLba + c[1] \in S THEN Erased ELSE VolNow[c]
<1> DEFINE d == <<StartLba + c[1], c[2]>>
<1>1. d \in Cell
  BY CellMapped
<1>2. VolNow'[c] = flash'[d] /\ VolNow[c] = flash[d]
  BY DEF VolNow
<1> QED
  BY <1>1, <1>2

\* FvbEraseBlocks erases what the promise says, when every range's last block
\* is a number.
LEMMA EraseMapped ==
    ASSUME ProperErases, NEW list \in Erases,
           FvbEraseRefused(list) \/ FvbEraseDone(list) \/ FvbEraseFailed(list)
    PROVE  Promise!EraseBlocks(list)
<1>1. RequestNow' = [op |-> "erase", args |-> list] /\ ReplyNow' = reply'
  BY CallMapped DEF FvbEraseRefused, FvbEraseDone, FvbEraseFailed, FvbOps
<1>2. list \in Seq([lba : 0 .. Word - 2, num : Uint]) /\ Word \in Nat
  BY RequestAssumption, FlashAssumption
<1>3. /\ Len(list) \in Nat /\ DOMAIN list = 1 .. Len(list)
      /\ \A i \in DOMAIN list : list[i] \in [lba : 0 .. Word - 2, num : Uint]
  <2> DEFINE Ranges == [lba : 0 .. Word - 2, num : Uint]
  <2>1. list \in Seq(Ranges)
    BY <1>2
  <2> HIDE DEF Ranges
  <2>2. Len(list) \in Nat /\ DOMAIN list = 1 .. Len(list)
    BY <2>1
  <2>3. \A i \in 1 .. Len(list) : list[i] \in Ranges
    BY <2>1
  <2> QED
    BY <2>2, <2>3 DEF Ranges
<1>4. ASSUME NEW i \in DOMAIN list
      PROVE  /\ list[i].lba \in Uint /\ list[i].num \in Uint
             /\ list[i].lba + list[i].num < Word
  <2>1. list[i].lba \in 0 .. Word - 2 /\ list[i].num \in Uint
    BY <1>3
  <2>2. list[i].lba \in Uint
    BY <1>2, <2>1 DEF Uint
  <2> QED
    BY <2>1, <2>2 DEF ProperErases
<1>5. ASSUME NEW i \in DOMAIN list
      PROVE  /\ RangeValid(list[i])
                   <=> list[i].num > 0 /\ list[i].lba + list[i].num <= Blocks
             /\ RangeValid(list[i]) => \A l \in 0 .. Blocks - 1 :
                   StartLba + l \in ErasedBy(list[i])
                      <=> l >= list[i].lba /\ l < list[i].lba + list[i].num
  BY <1>4, RangeMapped
<1>6. ListValid(list) <=> Promise!Exists(list)
  BY <1>5 DEF ListValid, Promise!Exists
<1>7. CASE FvbEraseRefused(list)
  <2>1. ~ListValid(list) /\ flash' = flash
        /\ reply' = [status |-> "INVALID_PARAMETER", num |-> 0, data |-> << >>]
    BY <1>7 DEF FvbEraseRefused, ReadOnly, Returned
  <2>2. VolNow' = VolNow
    BY <2>1 DEF VolNow
  <2> QED
    BY <1>1, <1>6, <2>1, <2>2
    DEF Promise!EraseBlocks, Promise!Asked, Promise!Replied, VolNow, RequestNow, ReplyNow
<1>8. CASE FvbEraseDone(list)
  <2>1. ListValid(list) /\ reply' = [status |-> "SUCCESS", num |-> 0, data |-> << >>]
    BY <1>8 DEF FvbEraseDone, Returned
  <2>2. flash' = [c \in Cell |-> IF c[1] \in ErasedUpTo(list, Len(list)) THEN Erased ELSE flash[c]]
    BY <1>8 DEF FvbEraseDone
  <2>3. ASSUME NEW c \in (0 .. Blocks - 1) \X (0 .. BlockSize - 1)
        PROVE  VolNow'[c] = IF Promise!Listed(list, c[1]) THEN Erased ELSE VolNow[c]
    <3>1. c[1] \in 0 .. Blocks - 1
      OBVIOUS
    <3>2. StartLba + c[1] \in ErasedUpTo(list, Len(list))
            <=> \E i \in DOMAIN list : StartLba + c[1] \in ErasedBy(list[i])
      BY <1>3 DEF ErasedUpTo
    <3>3. StartLba + c[1] \in ErasedUpTo(list, Len(list)) <=> Promise!Listed(list, c[1])
      BY <1>5, <2>1, <3>1, <3>2 DEF ListValid, Promise!Listed
    <3>4. VolNow'[c] = IF StartLba + c[1] \in ErasedUpTo(list, Len(list))
                       THEN Erased ELSE VolNow[c]
      BY <2>2, ErasedMapped
    <3> QED
      BY <3>3, <3>4
  <2>4. VolNow' = [c \in (0 .. Blocks - 1) \X (0 .. BlockSize - 1) |->
                     IF Promise!Listed(list, c[1]) THEN Erased ELSE VolNow[c]]
    BY <2>3 DEF VolNow
  <2> QED
    BY <1>1, <1>6, <2>1, <2>4
    DEF Promise!EraseBlocks, Promise!Asked, Promise!Replied, Promise!Cells,
        VolNow, RequestNow, ReplyNow
<1>9. CASE FvbEraseFailed(list)
  <2>1. ListValid(list) /\ reply'.status = "DEVICE_ERROR"
    BY <1>9 DEF FvbEraseFailed, Returned
  <2>2. PICK k \in DOMAIN list : \E some \in SUBSET ErasedBy(list[k]) :
          flash' = [c \in Cell |-> IF c[1] \in ErasedUpTo(list, k - 1) \cup some
                                   THEN Erased ELSE flash[c]]
    BY <1>9 DEF FvbEraseFailed
  <2>3. PICK some \in SUBSET ErasedBy(list[k]) :
          flash' = [c \in Cell |-> IF c[1] \in ErasedUpTo(list, k - 1) \cup some
                                   THEN Erased ELSE flash[c]]
    BY <2>2
  <2> DEFINE gone == ErasedUpTo(list, k - 1) \cup some
  <2>4. ASSUME NEW b \in gone
        PROVE  \E i \in DOMAIN list : b \in ErasedBy(list[i])
    <3>1. CASE b \in some
      BY <2>3, <3>1
    <3>2. CASE b \in ErasedUpTo(list, k - 1)
      <4>1. PICK i \in 1 .. k - 1 : b \in ErasedBy(list[i])
        BY <3>2 DEF ErasedUpTo
      <4>2. i \in DOMAIN list
        BY <1>3, <2>2, <4>1
      <4> QED
        BY <4>1, <4>2
    <3> QED
      BY <2>4, <3>1, <3>2
  <2>5. ASSUME NEW c \in (0 .. Blocks - 1) \X (0 .. BlockSize - 1)
        PROVE  VolNow'[c] = VolNow[c] \/ (Promise!Listed(list, c[1]) /\ VolNow'[c] = Erased)
    <3>1. c[1] \in 0 .. Blocks - 1
      OBVIOUS
    <3>2. StartLba + c[1] \in gone
            => \E i \in DOMAIN list : StartLba + c[1] \in ErasedBy(list[i])
      BY <2>4
    <3>5. flash' = [d \in Cell |-> IF d[1] \in gone THEN Erased ELSE flash[d]]
      BY <2>3
    <3> HIDE DEF gone
    <3>3. StartLba + c[1] \in gone => Promise!Listed(list, c[1])
      BY <1>5, <2>1, <3>1, <3>2 DEF ListValid, Promise!Listed
    <3>4. VolNow'[c] = IF StartLba + c[1] \in gone THEN Erased ELSE VolNow[c]
      BY <3>5, ErasedMapped
    <3> QED
      BY <3>3, <3>4
  <2> QED
    BY <1>1, <1>6, <2>1, <2>5
    DEF Promise!EraseBlocks, Promise!Asked, Promise!Failed, Promise!Cells,
        VolNow, RequestNow, ReplyNow
<1> QED
  BY <1>7, <1>8, <1>9

\* A call to another protocol leaves the volume as it was, when it writes
\* outside of it.
LEMMA ElsewhereMapped ==
    ASSUME VolNow' = VolNow, NEW op, op \notin FvbOps, NEW r, Call(op, r)
    PROVE  Promise!Elsewhere
<1>1. RequestNow' = NoRequest /\ ReplyNow' = NoReply
  BY DEF Call, RequestNow, ReplyNow
<1> QED
  BY <1>1
  DEF NoRequest, NoReply, Returned, Promise!Elsewhere, Promise!NoRequest, Promise!NoReply,
      VolNow, RequestNow, ReplyNow

\* A raw write outside the volume does not change the volume.
LEMMA ApartKept ==
    ASSUME NEW b, NEW off, NEW data, RawWrite(b, off, data),
           OffVolume(b, off, Len(data))
    PROVE  VolNow' = VolNow
<1>1. LibWrote(b, off, data) \/ LibWriteFailed(b, off, data)
  BY DEF RawWrite
<1>2. ASSUME NEW c \in (0 .. Blocks - 1) \X (0 .. BlockSize - 1)
      PROVE  flash'[<<StartLba + c[1], c[2]>>] = flash[<<StartLba + c[1], c[2]>>]
  <2> DEFINE d == <<StartLba + c[1], c[2]>>
  <2>1. d \in Cell /\ d[1] \in Volume
    BY CellMapped
  <2> HIDE DEF d
  <2>2. CASE Beyond(b, off, Len(data))
    BY <1>1, <2>2 DEF LibWrote, LibWriteFailed
  <2>3. CASE ~Beyond(b, off, Len(data))
    <3>1. flash'[d] = flash[d]
      BY <1>1, <2>1, <2>3, UntouchedKept DEF OffVolume
    <3> QED
      BY <3>1 DEF d
  <2> QED
    BY <2>2, <2>3
<1> QED
  BY <1>2 DEF VolNow

\* The block and disk protocols, used off the volume, are elsewhere.
LEMMA RawMapped == ASSUME RawApart, Raw PROVE Promise!Elsewhere
<1>1. ASSUME NEW r \in DiskReads, DiskIoRead(r) PROVE Promise!Elsewhere
  <2>1. VolNow' = VolNow
    BY <1>1 DEF DiskIoRead, RawRefused, RawRead, VolNow
  <2> QED
    BY <1>1, <2>1, ElsewhereMapped DEF DiskIoRead, FvbOps
<1>2. ASSUME NEW r \in BlockReads, BlockIoRead(r) PROVE Promise!Elsewhere
  <2>1. VolNow' = VolNow
    BY <1>2 DEF BlockIoRead, RawRefused, RawRead, VolNow
  <2> QED
    BY <1>2, <2>1, ElsewhereMapped DEF BlockIoRead, FvbOps
<1>3. ASSUME NEW r \in DiskWrites, DiskIoWrite(r) PROVE Promise!Elsewhere
  <2>1. VolNow' = VolNow
    <3>1. CASE \E status \in Status : RawRefused(status)
      BY <3>1 DEF RawRefused, VolNow
    <3>2. CASE /\ r.media = MediaId
               /\ RawWrite(r.offset \div BlockSize, r.offset % BlockSize, r.data)
      BY <3>2, ApartKept DEF RawApart
    <3> QED
      BY <1>3, <3>1, <3>2 DEF DiskIoWrite, Status
  <2> QED
    BY <1>3, <2>1, ElsewhereMapped DEF DiskIoWrite, FvbOps
<1>4. ASSUME NEW r \in BlockWrites, BlockIoWrite(r) PROVE Promise!Elsewhere
  <2>1. VolNow' = VolNow
    <3>1. CASE \E status \in Status : RawRefused(status)
      BY <3>1 DEF RawRefused, VolNow
    <3>2. CASE r.media = MediaId /\ RawWrite(r.lba, 0, r.data)
      BY <3>2, ApartKept DEF RawApart
    <3> QED
      BY <1>4, <3>1, <3>2 DEF BlockIoWrite, Status
  <2> QED
    BY <1>4, <2>1, ElsewhereMapped DEF BlockIoWrite, FvbOps
<1> QED
  BY <1>1, <1>2, <1>3, <1>4 DEF Raw

\* Under proper use the driver keeps the promise of the firmware volume block
\* protocol: every call moves the bytes it reports and no others, an erase with
\* a missing block changes nothing, and a device error harms only what was
\* addressed; whatever the geometry and wherever the volume lies on the device.
THEOREM KeepsPromise == ASSUME ProperUse PROVE Spec => ImplementsVolume
<1>1. Init => Promise!Init
  <2> SUFFICES ASSUME Init PROVE Promise!Init
    OBVIOUS
  <2>1. flash \in [Cell -> Byte] /\ request = NoRequest /\ reply = NoReply
    BY RequestAssumption DEF Init
  <2>2. VolNow \in [(0 .. Blocks - 1) \X (0 .. BlockSize - 1) -> Byte]
    BY <2>1, CellMapped DEF VolNow
  <2>3. RequestNow = NoRequest /\ ReplyNow = NoReply
    BY <2>1 DEF RequestNow, ReplyNow
  <2> QED
    BY <2>2, <2>3
    DEF Promise!Init, Promise!Cells, Promise!NoRequest, Promise!NoReply, NoRequest, NoReply,
        Returned, VolNow, RequestNow, ReplyNow
<1>2. [Next]_vars => [Promise!Next]_Promise!vars
  <2>1. CASE UNCHANGED vars
    BY <2>1 DEF vars, Promise!vars
  <2>2. CASE Fvb
    BY <2>2, ReadMapped, WriteMapped, EraseMapped DEF Fvb, ProperUse, Promise!Next
  <2>3. CASE Raw
    BY <2>3, RawMapped DEF ProperUse, Promise!Next
  <2> QED
    BY <2>1, <2>2, <2>3 DEF Next
<1> QED
  BY <1>1, <1>2, PTL DEF Spec, ImplementsVolume, Promise!Spec
=============================================================================
