------------------------------- MODULE EcWire -------------------------------
(***************************************************************************)
(* What travels between the EC secure partition and the embedded           *)
(* controller: the commands each passthrough service accepts, the packet   *)
(* handle_message builds from a direct message, and the tests send_cmd     *)
(* makes on the packets it reads back.  Sequences count from 1, so byte    *)
(* buffer[n] of the source is b[n+1] here.                                 *)
(***************************************************************************)
EXTENDS Naturals, Sequences

Byte == 0 .. 255

SMBUS_PACKET_HEADER_BYTES == 4
MCTP_PACKET_HEADER_BYTES  == 4
MCTP_MESSAGE_HEADER_BYTES == 1
ODP_MESSAGE_HEADER_BYTES  == 4
PACKET_HEADER_BYTES == SMBUS_PACKET_HEADER_BYTES + MCTP_PACKET_HEADER_BYTES
                         + MCTP_MESSAGE_HEADER_BYTES + ODP_MESSAGE_HEADER_BYTES

MAX_MESSAGE_SIZE_BYTES == 14 * 8    \* 14 FF-A registers of 8 bytes
MAX_MCTP_PACKET_LEN    == 69
BUFSZ                  == 256
SOC_MCTP_ENTITY_ID     == 128

-----------------------------------------------------------------------------
\* The three services and their command tables: command code -> payload_len.

Service == {"Battery", "Thermal", "TimeAlarm"}

BATTERY_COMMANDS ==
    [c \in (1 .. 15) \cup {128} |-> IF c \in {6, 7, 9, 13, 14} THEN 2 ELSE 1]

THERMAL_COMMANDS ==
    [c \in 1 .. 6 |-> CASE c \in {1, 3} -> 1
                        [] c \in {2, 4} -> 13
                        [] c = 5 -> 19
                        [] c = 6 -> 23]

TIME_ALARM_COMMANDS ==
    [c \in 1 .. 9 |-> CASE c \in {1, 2} -> 0
                        [] c = 3 -> 16
                        [] c \in {4, 5, 7, 9} -> 4
                        [] c \in {6, 8} -> 8]

supported_commands ==
    [Battery |-> BATTERY_COMMANDS, Thermal |-> THERMAL_COMMANDS,
     TimeAlarm |-> TIME_ALARM_COMMANDS]

destination_eid == [Battery |-> 8, Thermal |-> 9, TimeAlarm |-> 11]

-----------------------------------------------------------------------------
\* A direct request: the service it is addressed to and the bytes of its
\* register payload (u8_at(i) is r.msg[i]).

Message == [0 .. MAX_MESSAGE_SIZE_BYTES - 1 -> Byte]
Request == [service : Service, msg : Message]

Command(r)   == r.msg[0]
Supported(r) == Command(r) \in DOMAIN supported_commands[r.service]
PayloadLen(r) == supported_commands[r.service][Command(r)]

\* The command's arguments: the bytes after the command code.
Arguments(r) == [i \in 1 .. PayloadLen(r) |-> r.msg[i]]

\* Variants: the count one too high, the arguments taken from one byte too early.
RequestPacketLong(r) ==
    LET eid == destination_eid[r.service]
    IN  << 2, 15, (PayloadLen(r) + 10) % 256, 1, 1, eid, SOC_MCTP_ENTITY_ID, 211,
           125, 2, eid, 0, Command(r) >> \o Arguments(r)
RequestPacketShifted(r) ==
    LET eid == destination_eid[r.service]
    IN  << 2, 15, (PayloadLen(r) + 9) % 256, 1, 1, eid, SOC_MCTP_ENTITY_ID, 211,
           125, 2, eid, 0, Command(r) >> \o [i \in 1 .. PayloadLen(r) |-> r.msg[i - 1]]

\* The packet of request r: SMBus header, MCTP header, ODP header, arguments.
\* Its third byte counts the bytes that follow the SMBus header.
RequestPacket(r) ==
    LET len == PayloadLen(r) + 1
        eid == destination_eid[r.service]
    IN  << 2, 15, (8 + len) % 256, 1,
           1, eid, SOC_MCTP_ENTITY_ID, 211,
           125, 2, eid, 0, Command(r) >> \o Arguments(r)

-----------------------------------------------------------------------------
\* Reading packets back.

ByteCount(b) == b[3]
Flags(b)     == b[8]
Som(flags)   == (flags \div 128) % 2 = 1    \* flags & 0x80
Eom(flags)   == (flags \div 64) % 2 = 1     \* flags & 0x40

HeaderRead(b) == Len(b) = SMBUS_PACKET_HEADER_BYTES
\* Variants: the bounds of the count off by one or more.
CountFrom10(n) == n \in 10 .. MAX_MCTP_PACKET_LEN
CountTo70(n)   == n \in MCTP_PACKET_HEADER_BYTES .. MAX_MCTP_PACKET_LEN + 1
CountValid(n) == n \in MCTP_PACKET_HEADER_BYTES .. MAX_MCTP_PACKET_LEN

\* The last byte the SMBus header announces has been read.
PacketEnds(b) == /\ Len(b) > SMBUS_PACKET_HEADER_BYTES
                 /\ Len(b) = SMBUS_PACKET_HEADER_BYTES + ByteCount(b)

\* Variant: the message type byte taken for payload.
PayloadStartEarly(b) ==
    SMBUS_PACKET_HEADER_BYTES + MCTP_PACKET_HEADER_BYTES
      + (IF Som(Flags(b)) THEN ODP_MESSAGE_HEADER_BYTES ELSE 0)
PayloadStart(b) ==
    SMBUS_PACKET_HEADER_BYTES + MCTP_PACKET_HEADER_BYTES
      + (IF Som(Flags(b)) THEN MCTP_MESSAGE_HEADER_BYTES + ODP_MESSAGE_HEADER_BYTES
                          ELSE 0)

out_slice(b) == SubSeq(b, PayloadStart(b) + 1, Len(b))

\* The two slice expressions of send_cmd panic when their range is out of
\* bounds: a first packet too short for its headers, a message too long.
SliceFits(b, out) == /\ PayloadStart(b) <= Len(b)
                     /\ Len(out) + (Len(b) - PayloadStart(b)) <= BUFSZ
=============================================================================
