--------------------------- MODULE EcPassthrough ---------------------------
(***************************************************************************)
(* The passthrough services of the EC secure partition, the UART they      *)
(* share, and the EC at its other end.                                     *)
(*                                                                         *)
(* A call is one FF-A direct request.  The partition has one execution     *)
(* context, so handle_request runs to its end before the next call; it     *)
(* writes the whole request packet and then reads packets until one has    *)
(* the end-of-message flag.  A byte that passes through the UART is a step *)
(* of its own, because the EC runs at the same time.                       *)
(*                                                                         *)
(* The EC is external: it frames requests by the SMBus byte count, answers *)
(* each one, and may also send messages nobody asked for (Notices).        *)
(***************************************************************************)
EXTENDS EcWire, EcUart

CONSTANTS Requests,     \* the direct requests the callers may make
          Answers,      \* the messages the EC may answer with
          Notices,      \* the messages it may send unasked
          MaxNotices    \* how many it sends in a behaviour

(***************************************************************************)
(* A message of the EC is its bytes (wire), the offsets at which its       *)
(* packets start together with its end (cuts), and the payload bytes it    *)
(* has carried before each of these offsets (upto).                        *)
(***************************************************************************)
Payload(a) == a.upto[Len(a.wire)]

NoCall == [service |-> "none", msg |-> << >>]

ASSUME LinkAssumption ==
    /\ Requests \subseteq Request
    /\ \A a \in Answers \cup Notices : a.wire \in Seq(Byte) /\ a.wire # << >>
    /\ MaxNotices \in Nat

VARIABLES
    pc,        \* where the partition is: "idle", "write", "read", "panic"
    call,      \* the request being handled
    data,      \* bytes of its packet still to be written
    buffer,    \* bytes of the incoming packet read so far
    out_buf,   \* payload of the answer collected so far
    reply,     \* what the last caller was given
    ecIn,      \* EC: bytes of the incoming request read so far
    ecOut,     \* EC: bytes still to be sent
    notices,   \* EC: unsolicited messages sent so far
    unheard,   \* history: queries written, or being written, and not yet heard
    owed       \* history: the EC's messages not yet delivered to a caller

spVars    == <<pc, call, data, buffer, out_buf, reply>>
ecVars    == <<ecIn, ecOut, notices>>
histVars  == <<unheard, owed>>
vars == <<spVars, uartVars, ecVars, histVars>>

\* What request r asks, and what the EC understands from a request packet.
Asked(r) == [eid |-> destination_eid[r.service], command |-> Command(r),
             args |-> Arguments(r)]
Heard(p) == [eid |-> p[11], command |-> p[13],
             args |-> SubSeq(p, PACKET_HEADER_BYTES + 1, Len(p))]
Nobody == [eid |-> 0, command |-> 0, args |-> << >>]

Outcome(kind, bytes) == [kind |-> kind, bytes |-> bytes]

Init ==
    /\ pc = "idle" /\ call = NoCall /\ data = << >>
    /\ buffer = << >> /\ out_buf = << >>
    /\ reply = Outcome("none", << >>)
    /\ UartInit
    /\ ecIn = << >> /\ ecOut = << >> /\ notices = 0
    /\ unheard = << >> /\ owed = << >>

-----------------------------------------------------------------------------
\* The secure partition.

\* handle_request on a command code that is not in the service's table.
RefuseCall(r) ==
    /\ pc = "idle"
    /\ ~Supported(r)
    /\ reply' = Outcome("invalid", << >>)
    /\ UNCHANGED <<pc, call, data, buffer, out_buf, uartVars, ecVars, histVars>>

\* handle_request and handle_message up to the first byte written.
AcceptCall(r) ==
    /\ pc = "idle"
    /\ Supported(r)
    /\ pc' = "write"
    /\ call' = r
    /\ data' = RequestPacket(r)
    /\ buffer' = << >> /\ out_buf' = << >>
    /\ reply' = Outcome("pending", << >>)
    /\ unheard' = Append(unheard, Asked(r))
    /\ UNCHANGED <<uartVars, ecVars, owed>>

\* EcUart::write, one byte; after the last one send_cmd starts to read.
WriteRequest ==
    /\ pc = "write"
    /\ WriteByte(Head(data))
    /\ data' = Tail(data)
    /\ pc' = IF Len(data) = 1 THEN "read" ELSE "write"
    /\ UNCHANGED <<call, buffer, out_buf, reply, ecVars, histVars>>

\* The packet as it is once the next byte has been read.
NextBuffer == Append(buffer, Head(rx))

\* Variant: send_cmd without its check of the byte count.
ReadMoreUnchecked ==
    /\ pc = "read"
    /\ ReadByte
    /\ ~PacketEnds(NextBuffer)
    /\ buffer' = NextBuffer
    /\ UNCHANGED <<pc, call, data, out_buf, reply, ecVars, histVars>>

\* EcUart::read, a byte that completes neither the header nor the packet, or
\* completes a header with a valid count.
ReadMore ==
    /\ pc = "read"
    /\ ReadByte
    /\ ~PacketEnds(NextBuffer)
    /\ HeaderRead(NextBuffer) => CountValid(ByteCount(NextBuffer))
    /\ buffer' = NextBuffer
    /\ UNCHANGED <<pc, call, data, out_buf, reply, ecVars, histVars>>

\* A whole packet whose slice is in range.
FragmentRead ==
    /\ pc = "read"
    /\ ReadByte
    /\ PacketEnds(NextBuffer)
    /\ SliceFits(NextBuffer, out_buf)

\* Variant: the loop goes round after the end flag too.
CollectOn ==
    /\ FragmentRead
    /\ out_buf' = out_buf \o out_slice(NextBuffer)
    /\ buffer' = << >>
    /\ UNCHANGED <<pc, call, data, reply, ecVars, histVars>>

\* ... without the end-of-message flag: the loop goes round.
CollectFragment ==
    /\ FragmentRead
    /\ ~Eom(Flags(NextBuffer))
    /\ out_buf' = out_buf \o out_slice(NextBuffer)
    /\ buffer' = << >>
    /\ UNCHANGED <<pc, call, data, reply, ecVars, histVars>>

\* Variant: the call returns after the first packet of its answer.
ReturnFirst ==
    /\ FragmentRead
    /\ reply' = Outcome("ok", out_buf \o out_slice(NextBuffer))
    /\ pc' = "idle" /\ call' = NoCall
    /\ buffer' = << >> /\ out_buf' = << >>
    /\ owed' = SubSeq(owed, 2, Len(owed))
    /\ UNCHANGED <<data, ecVars, unheard>>

\* ... with it: the call returns.
ReturnAnswer ==
    /\ FragmentRead
    /\ Eom(Flags(NextBuffer))
    /\ reply' = Outcome("ok", out_buf \o out_slice(NextBuffer))
    /\ pc' = "idle" /\ call' = NoCall
    /\ buffer' = << >> /\ out_buf' = << >>
    /\ owed' = SubSeq(owed, 2, Len(owed))
    /\ UNCHANGED <<data, ecVars, unheard>>

\* The panic handler: the partition waits for events for ever.
Panic ==
    /\ pc' = "panic"
    /\ UNCHANGED <<call, data, buffer, out_buf, reply, ecVars, histVars>>

\* send_cmd's own check of the byte count.
RejectCount ==
    /\ pc = "read"
    /\ ReadByte
    /\ HeaderRead(NextBuffer)
    /\ ~CountValid(ByteCount(NextBuffer))
    /\ Panic

\* A slice out of range.
RejectFragment ==
    /\ pc = "read"
    /\ ReadByte
    /\ PacketEnds(NextBuffer)
    /\ ~SliceFits(NextBuffer, out_buf)
    /\ Panic

-----------------------------------------------------------------------------
\* The embedded controller.

EcReceived == Append(ecIn, Head(tx))

EcReceive ==
    /\ FarReadByte
    /\ ~PacketEnds(EcReceived)
    /\ ecIn' = EcReceived
    /\ UNCHANGED <<ecOut, notices, spVars, histVars>>

EcAnswer(a) ==
    /\ FarReadByte
    /\ PacketEnds(EcReceived)
    /\ ecIn' = << >>
    /\ ecOut' = ecOut \o a.wire
    /\ unheard' = Tail(unheard)
    /\ owed' = Append(owed, [to |-> Heard(EcReceived), message |-> a])
    /\ UNCHANGED <<notices, spVars>>

EcNotify(n) ==
    /\ notices < MaxNotices
    /\ notices' = notices + 1
    /\ ecOut' = ecOut \o n.wire
    /\ owed' = Append(owed, [to |-> Nobody, message |-> n])
    /\ UNCHANGED <<ecIn, unheard, spVars, uartVars>>

EcSend ==
    /\ ecOut # << >>
    /\ FarWriteByte(Head(ecOut))
    /\ ecOut' = Tail(ecOut)
    /\ UNCHANGED <<ecIn, notices, spVars, histVars>>

-----------------------------------------------------------------------------
SpStep == \/ WriteRequest
          \/ ReadMore
          \/ CollectFragment
          \/ ReturnAnswer
          \/ RejectCount
          \/ RejectFragment

EcHear == EcReceive \/ \E a \in Answers : EcAnswer(a)

Next == \/ \E r \in Requests : RefuseCall(r) \/ AcceptCall(r)
        \/ SpStep
        \/ EcHear
        \/ EcSend
        \/ \E n \in Notices : EcNotify(n)

Spec == Init /\ [][Next]_vars

\* The partition runs while it has something to do; the EC keeps draining its
\* receiver, answers, and keeps sending what it has.  Calls and notices are
\* not promised.
Fairness == WF_vars(SpStep) /\ WF_vars(EcHear) /\ WF_vars(EcSend)

FairSpec == Spec /\ Fairness
-----------------------------------------------------------------------------
(***************************************************************************)
(* What a message must be for the partition to take it in: packets of 4 to *)
(* 69 counted bytes, the first and only the first with the start flag and  *)
(* with its five bytes of message and ODP header, the last and only the    *)
(* last with the end flag, and no more payload than an FF-A message holds. *)
(***************************************************************************)
PacketAt(a, c) == SubSeq(a.wire, c + 1, c + SMBUS_PACKET_HEADER_BYTES + a.wire[c + 3])
EndOfPacket(a, c) == c + SMBUS_PACKET_HEADER_BYTES + a.wire[c + 3]
HeadersOf(c) == IF c = 0 THEN PACKET_HEADER_BYTES
                ELSE SMBUS_PACKET_HEADER_BYTES + MCTP_PACKET_HEADER_BYTES

ConformingPacket(a, c) ==
    LET p == PacketAt(a, c)
        e == EndOfPacket(a, c)
    IN  /\ c + HeadersOf(c) <= e
        /\ a.wire[c + 3] \in MCTP_PACKET_HEADER_BYTES .. MAX_MCTP_PACKET_LEN
        /\ e \in a.cuts
        /\ Som(Flags(p)) <=> c = 0
        /\ Eom(Flags(p)) <=> e = Len(a.wire)
        /\ a.upto[e] = a.upto[c] \o SubSeq(p, HeadersOf(c) + 1, Len(p))

Conforming(a) ==
    /\ a.wire \in Seq(Byte) /\ a.wire # << >>
    /\ {0, Len(a.wire)} \subseteq a.cuts
    /\ a.cuts \subseteq 0 .. Len(a.wire)
    /\ \A c \in a.cuts : /\ a.upto[c] \in Seq(Byte)
                         /\ Len(a.upto[c]) <= MAX_MESSAGE_SIZE_BYTES
    /\ a.upto[0] = << >>
    /\ \A c \in a.cuts \ {Len(a.wire)} :
            c + SMBUS_PACKET_HEADER_BYTES <= Len(a.wire) /\ ConformingPacket(a, c)

\* A message that is packets with valid counts, the last one and only the last
\* one with the end flag.
Framed(a) ==
    \A c \in a.cuts \ {Len(a.wire)} :
        /\ c + SMBUS_PACKET_HEADER_BYTES + MCTP_PACKET_HEADER_BYTES <= Len(a.wire)
        /\ a.wire[c + 3] \in MCTP_PACKET_HEADER_BYTES .. MAX_MCTP_PACKET_LEN
        /\ EndOfPacket(a, c) \in a.cuts
        /\ Eom(Flags(PacketAt(a, c))) <=> EndOfPacket(a, c) = Len(a.wire)

(***************************************************************************)
(* A message, malformed or not, that is over where send_cmd takes it to be *)
(* over: packets that are there and have valid counts start at cuts, and   *)
(* an end flag is followed by nothing.  Behind an earlier end flag the     *)
(* rest of the message would be left in the link when the call returns.    *)
(***************************************************************************)
Readable(a, c) ==
    /\ c + SMBUS_PACKET_HEADER_BYTES <= Len(a.wire)
    /\ a.wire[c + 3] \in MCTP_PACKET_HEADER_BYTES .. MAX_MCTP_PACKET_LEN
    /\ EndOfPacket(a, c) <= Len(a.wire)

EndsOnce(a) ==
    /\ 0 \in a.cuts /\ a.cuts \subseteq 0 .. Len(a.wire)
    /\ \A c \in a.cuts : Readable(a, c) =>
          /\ EndOfPacket(a, c) \in a.cuts
          /\ Eom(Flags(PacketAt(a, c))) => EndOfPacket(a, c) = Len(a.wire)

\* No packet starts inside another.
CutsApart(a) ==
    \A c, d \in a.cuts : Readable(a, c) /\ c < d => EndOfPacket(a, c) <= d

\* The EC answers as the protocol says, and speaks only when spoken to.
ConformingEc == \A a \in Answers : Conforming(a)
QuietEc == Notices = {}
\* So it does when it speaks unasked.
ConformingNotices == \A n \in Notices : Conforming(n)

-----------------------------------------------------------------------------
\* Types.  A message in flight is one of the EC's.
TypeOK ==
    /\ pc \in {"idle", "write", "read", "panic"}
    /\ call \in Requests \cup {NoCall}
    /\ data \in Seq(Byte) /\ buffer \in Seq(Byte) /\ out_buf \in Seq(Byte)
    /\ Len(out_buf) <= BUFSZ
    /\ Len(buffer) <= SMBUS_PACKET_HEADER_BYTES + MAX_MCTP_PACKET_LEN
    /\ reply.kind \in {"none", "invalid", "pending", "ok"}
    /\ reply.bytes \in Seq(Byte)
    /\ tx \in Seq(Byte) /\ Len(tx) <= FifoDepth
    /\ rx \in Seq(Byte) /\ Len(rx) <= FifoDepth
    /\ ecIn \in Seq(Byte) /\ ecOut \in Seq(Byte)
    /\ notices \in 0 .. MaxNotices

\* No answer of a conforming EC makes the partition panic: its byte counts
\* pass the check, its slices are in range, its payload fits out_buf
\* (send_cmd's panics at the byte count and at the two slices).
NoPanic == pc # "panic"

\* Between calls the link is empty in both directions and nothing is owed, so
\* no byte of one call can be taken for a byte of the next one (send_cmd reads
\* exactly the packets of its own answer, and does not look at their EIDs).
IdleMeansDrained ==
    pc = "idle" => /\ tx = << >> /\ rx = << >> /\ ecIn = << >> /\ ecOut = << >>
                   /\ unheard = << >> /\ owed = << >>

\* While the partition writes nothing travels towards it, so that the two
\* ends never both wait for room (write has no timeout and nobody reads the
\* receive FIFO meanwhile).
NeverBothSending == pc = "write" => rx = << >> /\ ecOut = << >>

\* What the partition returns is, byte for byte, the oldest message the EC
\* has sent and not yet delivered: fragments are put together in order, once,
\* without their headers (the reassembly loop of send_cmd).
DeliversOldest ==
    [][reply'.kind = "ok" /\ reply.kind # "ok" =>
         owed # << >> /\ reply'.bytes = Payload(Head(owed).message)]_vars

\* Whatever the EC is busy sending, it hears the requests in the order they
\* were made and as they were made: service, command and every argument byte
\* (the framing of handle_message).
HeardAsAsked ==
    [][Len(unheard') < Len(unheard) => owed'[Len(owed')].to = Head(unheard)]_vars

\* The books of the link: requests not yet heard and messages not yet
\* delivered are as many as the call in progress and the unsolicited messages
\* received so far.  Nothing ever absorbs an unsolicited message: after the
\* first one every answer goes to a later call (send_cmd assumes that there
\* is "not ever more than one pending request" and matches nothing).
NeverCatchesUp ==
    pc # "panic" =>
        Len(unheard) + Len(owed) = notices + (IF pc = "idle" THEN 0 ELSE 1)

\* A panic has a cause in what the EC sent: the message being read breaks the
\* protocol.
PanicOnlyOnMalformed ==
    pc = "panic" => owed # << >> /\ ~Conforming(Head(owed).message)

\* Whatever the EC sends, a message handed to a caller is one message, whole:
\* packets with valid counts, the end flag on the last and on no other.  (The
\* start flags are not checked: a first packet without one, or a second start,
\* is taken in with more or less of it counted as payload.)
DeliversFramed ==
    [][reply'.kind = "ok" /\ reply.kind # "ok" =>
         owed # << >> /\ Framed(Head(owed).message)]_vars

\* Every call returns (handle_request has no timeout: this rests on the EC
\* answering).
CallReturns == pc # "idle" ~> pc = "idle"

\* With any EC, a call that does not return has panicked or waits for an EC
\* that has heard the request and has nothing more to send.
Starved == pc = "read" /\ unheard = << >> /\ rx = << >> /\ ecOut = << >>
CallEnds == pc # "idle" ~> (pc \in {"idle", "panic"} \/ Starved)

\* The two ends never wait for one another, whatever the EC sends and whenever:
\* while a call is in progress a byte can move, out of the partition, into it,
\* or at the EC's end, unless the EC has heard everything and has nothing to
\* send (write_byte and read_byte have no timeout to get them out of it; the
\* EC must have been told the right byte count).
ByteCanMove ==
    \/ pc = "write" /\ Len(tx) < FifoDepth
    \/ pc = "read" /\ rx # << >>
    \/ tx # << >>
    \/ ecOut # << >> /\ Len(rx) < FifoDepth
WaitsOnlyForTheEc == pc \in {"write", "read"} => ByteCanMove \/ Starved

\* With a conforming EC a call does not even wait for that: when the EC has sent
\* its answer, send_cmd sees the end of it.
NeverStarved == ~Starved

\* What is read next completes the current packet: send_cmd never reads past
\* the byte count, and has checked the count by the time it relies on it.
ReadInv ==
    Len(buffer) >= SMBUS_PACKET_HEADER_BYTES =>
        /\ CountValid(ByteCount(buffer))
        /\ Len(buffer) < SMBUS_PACKET_HEADER_BYTES + ByteCount(buffer)

WriteInv == pc = "write" <=> data # << >>

(***************************************************************************)
(* With a quiet, conforming EC the link is always in one of three phases:  *)
(* nothing is in flight; the request is on its way and the EC silent; or   *)
(* the EC has heard it, and what the partition has collected, has in       *)
(* buffer and has still to receive make up the EC's answer, cut where one  *)
(* of its packets starts.                                                  *)
(***************************************************************************)
Drained == /\ tx = << >> /\ rx = << >> /\ ecIn = << >> /\ ecOut = << >>
           /\ buffer = << >> /\ out_buf = << >>
           /\ unheard = << >> /\ owed = << >>

Asking == /\ ecIn \o (tx \o data) = RequestPacket(call)
          /\ unheard = << Asked(call) >> /\ owed = << >>
          /\ rx = << >> /\ ecOut = << >> /\ buffer = << >> /\ out_buf = << >>

Answering(a, c) ==
    /\ tx = << >> /\ ecIn = << >> /\ unheard = << >>
    /\ owed = << [to |-> Asked(call), message |-> a] >>
    /\ out_buf = a.upto[c]
    /\ buffer \o (rx \o ecOut) = SubSeq(a.wire, c + 1, Len(a.wire))
    /\ Len(buffer) < SMBUS_PACKET_HEADER_BYTES + a.wire[c + 3]

QuietInv ==
    /\ pc \in {"idle", "write", "read"}
    /\ pc = "idle" => Drained
    /\ pc # "idle" => call \in Requests /\ Supported(call)
    /\ pc = "write" => Asking
    /\ pc = "read" =>
          \/ Asking
          \/ \E a \in Answers : \E c \in a.cuts \ {Len(a.wire)} : Answering(a, c)

(***************************************************************************)
(* With a quiet EC whose messages end once, but may be malformed, it is    *)
(* the same while the partition has not panicked: what it reads is the     *)
(* EC's one message, from the start of a packet on, behind packets that    *)
(* were whole and had no end flag.  At the end of the message it may wait  *)
(* for more.  A panic leaves nothing on the way to the EC, and what was    *)
(* being read is malformed.                                                *)
(***************************************************************************)
Passed(a, c) ==
    \A d \in a.cuts : d < c => /\ Readable(a, d) /\ EndOfPacket(a, d) <= c
                               /\ ~Eom(Flags(PacketAt(a, d)))

Following(a, c) ==
    /\ tx = << >> /\ ecIn = << >> /\ unheard = << >>
    /\ owed = << [to |-> Asked(call), message |-> a] >>
    /\ buffer \o (rx \o ecOut) = SubSeq(a.wire, c + 1, Len(a.wire))
    /\ Conforming(a) => c # Len(a.wire) /\ Answering(a, c)
    /\ CutsApart(a) => Passed(a, c)

FollowInv ==
    /\ pc = "idle" => Drained
    /\ pc \in {"write", "read"} => call \in Requests /\ Supported(call)
    /\ pc = "write" => Asking
    /\ pc = "read" => Asking \/ \E a \in Answers : \E c \in a.cuts : Following(a, c)
    /\ pc = "panic" => /\ tx = << >>
                       /\ \E a \in Answers : /\ ~Conforming(a)
                                             /\ owed = << [to |-> Asked(call), message |-> a] >>

\* The registers the driver is about to access are mapped in the partition's
\* manifest (the SAFETY comments of write_byte and read_byte).
RegistersMapped ==
    pc \in {"write", "read"} => Mapped(UART_DR) /\ Mapped(UART_FR)

\* The promise to the operating system.
Service0 == INSTANCE EcService WITH
    Queries  <- {Asked(r) : r \in {q \in Requests : Supported(q)}},
    Payloads <- {Payload(a) : a \in Answers},
    asked    <- IF pc \in {"write", "read"} THEN <<Asked(call)>> ELSE << >>,
    answer   <- [i \in 1 .. Len(owed) |->
                    [to |-> owed[i].to, payload |-> Payload(owed[i].message)]]

\* With a quiet, conforming EC the partition keeps EcService's promise.
ImplementsService == Service0!Spec
=============================================================================
