--------------------------- MODULE FirmwareVolume ---------------------------
(***************************************************************************)
(* What EFI_FIRMWARE_VOLUME_BLOCK2_PROTOCOL promises its caller, as the    *)
(* driver documents it: a call moves exactly the bytes it reports, never   *)
(* beyond the block it addresses; an erase list with a missing block       *)
(* changes nothing; only a device error may leave harm, and only in the    *)
(* blocks that were addressed.                                             *)
(***************************************************************************)
EXTENDS Naturals, Sequences

CONSTANTS BlockSize, Blocks, Bytes, Erased, Reads, Writes, Erases

VARIABLES volume,   \* block and offset -> byte
          request,  \* the last call
          reply     \* what it returned

vars == <<volume, request, reply>>

Cells == (0 .. Blocks - 1) \X (0 .. BlockSize - 1)

\* The bytes a request may move: up to the block's boundary.
Room(r) == IF r.offset >= BlockSize THEN 0
           ELSE IF r.num <= BlockSize - r.offset THEN r.num ELSE BlockSize - r.offset
Crosses(r) == r.offset + r.num > BlockSize

\* A call that moves m bytes: all, or as many as it reports.
Moves(r, m, status) ==
    \/ m = r.num /\ m > 0 /\ ~Crosses(r) /\ status = "SUCCESS"
    \/ m \in 0 .. Room(r) /\ (Crosses(r) \/ m = 0) /\ status = "BAD_BUFFER_SIZE"

Failed == reply'.status = "DEVICE_ERROR"
Replied(status, num, data) == reply' = [status |-> status, num |-> num, data |-> data]
Asked(op, args) == request' = [op |-> op, args |-> args]

Read(r) ==
    /\ Asked("read", r)
    /\ volume' = volume
    /\ \/ Failed
       \/ \E m \in 0 .. BlockSize : \E status \in {"SUCCESS", "BAD_BUFFER_SIZE"} :
            /\ Moves(r, m, status)
            /\ Replied(status, m, [i \in 1 .. m |-> volume[<<r.lba, r.offset + i - 1>>]])

Write(r) ==
    /\ Asked("write", r)
    /\ \/ /\ Failed
          /\ \A c \in Cells : c[1] # r.lba => volume'[c] = volume[c]
       \/ \E m \in 0 .. BlockSize : \E status \in {"SUCCESS", "BAD_BUFFER_SIZE"} :
            /\ Moves(r, m, status)
            /\ Replied(status, m, << >>)
            /\ volume' = [c \in Cells |->
                            IF c[1] = r.lba /\ c[2] >= r.offset /\ c[2] < r.offset + m
                            THEN r.data[c[2] - r.offset + 1] ELSE volume[c]]

\* The blocks a list of ranges names.
Listed(list, b) ==
    \E i \in DOMAIN list : b >= list[i].lba /\ b < list[i].lba + list[i].num
Exists(list) ==
    \A i \in DOMAIN list : list[i].num > 0 /\ list[i].lba + list[i].num <= Blocks

EraseBlocks(list) ==
    /\ Asked("erase", list)
    /\ \/ /\ ~Exists(list)
          /\ Replied("INVALID_PARAMETER", 0, << >>)
          /\ volume' = volume
       \/ /\ Exists(list)
          /\ Replied("SUCCESS", 0, << >>)
          /\ volume' = [c \in Cells |-> IF Listed(list, c[1]) THEN Erased ELSE volume[c]]
       \/ /\ Exists(list)
          /\ Failed
          /\ \A c \in Cells : \/ volume'[c] = volume[c]
                              \/ Listed(list, c[1]) /\ volume'[c] = Erased

\* A call to another protocol of the driver.
NoRequest == [op |-> "none", args |-> << >>]
NoReply == [status |-> "NONE", num |-> 0, data |-> << >>]
Elsewhere == volume' = volume /\ request' = NoRequest /\ reply' = NoReply

Init == /\ volume \in [Cells -> Bytes]
        /\ request = NoRequest
        /\ reply = NoReply

Next == \/ \E r \in Reads : Read(r)
        \/ \E r \in Writes : Write(r)
        \/ \E list \in Erases : EraseBlocks(list)
        \/ Elsewhere

Spec == Init /\ [][Next]_vars
=============================================================================
