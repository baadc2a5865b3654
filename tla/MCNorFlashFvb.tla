--------------------------- MODULE MCNorFlashFvb ---------------------------
(***************************************************************************)
(* Instances of NorFlashFvb for TLC: blocks of three bytes, one block of   *)
(* the device before the volume of two.  Byte i of a buffer has value i,   *)
(* so that a byte stored at the wrong place shows.                         *)
(***************************************************************************)
EXTENDS NorFlashFvb

Data(n) == [i \in 1 .. n |-> i]

\* Every byte of the flash is different from every other, and from every Data.
Marked == [c \in Cell |-> 100 + c[1] * BlockSize + c[2]]
MCImages == {Marked}

\* Every offset and count around the boundary of a block.
AllReads == [lba : 0 .. 1, offset : {0, 2, 3, 4}, num : {0, 1, 2, 3, 4}]
AllWrites == {[lba |-> l, offset |-> o, num |-> n, data |-> Data(n)] :
                 l \in 0 .. 1, o \in 0 .. 4, n \in 0 .. 4}

MCReads  == {r \in AllReads : Refused(r) \/ r.offset + r.num <= BlockSize}
MCWrites == {r \in AllWrites : /\ r.num = BlockSize => r.offset = 0 \/ Outside(r)
                               /\ r.lba = 1 => r.num = 2}

Range(l, n) == [lba |-> l, num |-> n]
MCErases == {<< >>, <<Range(0, 1)>>, <<Range(1, 1)>>, <<Range(0, 2)>>, <<Range(1, 1), Range(0, 1)>>,
             <<Range(0, 1), Range(1, 2)>>, <<Range(0, 0)>>, <<Range(2, 1)>>}
\* A count so large that the last block's number does not fit in 64 bits.
AllErases == MCErases \cup {<<Range(1, Word - 1)>>, <<Range(0, 1), Range(2, Word - 2)>>}

MCDiskReads == {[media |-> 0, offset |-> 2, num |-> 5], [media |-> 1, offset |-> 0, num |-> 2],
                [media |-> 0, offset |-> 8, num |-> 2]}
MCDiskWrites == {[media |-> m, offset |-> o, data |-> Data(2)] : m \in {0, 1}, o \in {1, 8}}
MCBlockReads == [media : {0}, lba : {2}, num : {2, 3, 6}, aligned : BOOLEAN]
MCBlockWrites == {[media |-> m, lba |-> b, data |-> Data(n)] : m \in {0, 1}, b \in {0}, n \in {2, 3}}

Nothing == {}
=============================================================================
