------------------------------- MODULE EcUart -------------------------------
(***************************************************************************)
(* The UART between the secure partition and the EC: a FIFO of FifoDepth   *)
(* bytes in each direction.  write_byte spins while the transmit FIFO is   *)
(* full (FR bit 5, TXFF), read_byte while the receive FIFO is empty (FR    *)
(* bit 4, RXFE); neither has a timeout, so a spin is an action that is not *)
(* enabled.  The two registers are reachable only if the partition's       *)
(* manifest maps their pages.                                              *)
(***************************************************************************)
EXTENDS Naturals, Sequences

CONSTANTS FifoDepth,        \* bytes a FIFO holds
          UART_BASE,        \* the driver's base address
          DeviceRegions     \* the manifest's device regions, [base, pages]

ASSUME UartAssumption ==
    /\ FifoDepth \in Nat \ {0}
    /\ UART_BASE \in Nat
    /\ DeviceRegions \subseteq [base : Nat, pages : Nat]

VARIABLES tx,   \* bytes written by the partition, not yet read by the EC
          rx    \* bytes sent by the EC, not yet read by the partition

uartVars == <<tx, rx>>

UART_DR == UART_BASE
UART_FR == UART_BASE + 24

PAGE_SIZE == 4096
Mapped(addr) ==
    \E d \in DeviceRegions :
        /\ d.base <= addr
        /\ addr < d.base + d.pages * PAGE_SIZE

UartInit == tx = << >> /\ rx = << >>

\* Variant: write_byte without the wait for room.
WriteByteAtOnce(c) ==
    /\ Mapped(UART_FR) /\ Mapped(UART_DR)
    /\ tx' = Append(tx, c)
    /\ rx' = rx

\* EcUart::write_byte: returns when the FIFO had room for the byte.
WriteByte(c) ==
    /\ Mapped(UART_FR) /\ Mapped(UART_DR)
    /\ Len(tx) < FifoDepth
    /\ tx' = Append(tx, c)
    /\ rx' = rx

\* EcUart::read_byte: returns the oldest byte when there is one.
ReadByte ==
    /\ Mapped(UART_FR) /\ Mapped(UART_DR)
    /\ rx # << >>
    /\ rx' = Tail(rx)
    /\ tx' = tx

\* The EC's end of the wire.
FarReadByte ==
    /\ tx # << >>
    /\ tx' = Tail(tx)
    /\ rx' = rx

FarWriteByte(c) ==
    /\ Len(rx) < FifoDepth
    /\ rx' = Append(rx, c)
    /\ tx' = tx
=============================================================================
