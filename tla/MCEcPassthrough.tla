-------------------------- MODULE MCEcPassthrough --------------------------
(***************************************************************************)
(* Instances of EcPassthrough for TLC.                                     *)
(***************************************************************************)
EXTENDS EcPassthrough, SequencesExt

\* Argument byte i has the value i, so that no two of them are alike.
Msg(cmd) == [i \in 0 .. MAX_MESSAGE_SIZE_BYTES - 1 |-> IF i = 0 THEN cmd ELSE i]
Req(service, cmd) == [service |-> service, msg |-> Msg(cmd)]

\* Two services, a command without and one with two arguments, and a command
\* that only another service has.
MCRequests == {Req("Battery", 6), Req("TimeAlarm", 1), Req("Thermal", 128)}

\* Every command of every table, and one unknown command for each service.
MCAllRequests ==
    UNION {{Req(s, c) : c \in DOMAIN supported_commands[s] \cup {0}} : s \in Service}

\* A packet with the given flags: headers, then the ODP header if it is the
\* first, then body.
Packet(first, last, count, body) ==
    << 1, 15, count, 2, 1, 128, 1, (IF first THEN 128 ELSE 0) + (IF last THEN 64 ELSE 0) + 19 >>
      \o (IF first THEN << 125, 0, 1, 0, 1 >> ELSE << >>) \o body

Count(first, body) == Len(body) + (IF first THEN 9 ELSE 4)

FromPackets(packets, bodies) ==
    LET end[i \in 0 .. Len(packets)] ==
            IF i = 0 THEN 0 ELSE end[i - 1] + Len(packets[i])
        number(c) == CHOOSE i \in 0 .. Len(packets) : end[i] = c
        cuts == {end[i] : i \in 0 .. Len(packets)}
    IN  [wire |-> FlattenSeq(packets),
         cuts |-> cuts,
         upto |-> [c \in cuts |-> FlattenSeq(SubSeq(bodies, 1, number(c)))]]

\* The message that carries the given bodies, one packet each.
Fragmented(bodies) ==
    FromPackets([i \in 1 .. Len(bodies) |->
                    Packet(i = 1, i = Len(bodies), Count(i = 1, bodies[i]), bodies[i])],
                bodies)

\* One packet without payload, one with payload, three of which the middle
\* one is empty, and two that both carry payload.
MCAnswers == {Fragmented(<< << >> >>), Fragmented(<< <<7, 8>> >>),
              Fragmented(<< <<9>>, << >>, <<10, 11>> >>)}
MCFewAnswers == {Fragmented(<< <<7>> >>), Fragmented(<< <<9>>, <<10>> >>)}

\* The largest packet the count admits, and a message that fills the reply.
Bytes(n) == [i \in 1 .. n |-> i]
MCAllAnswers == MCAnswers \cup {Fragmented(<< Bytes(60) >>), Fragmented(<< Bytes(60), Bytes(52) >>)}

MCNotices == {Fragmented(<< <<99>> >>), Fragmented(<< << >>, <<98>> >>)}

\* Malformed: a count too small, a count too large, a first packet too short
\* for its headers, a message longer than out_buf, a message without an end,
\* a packet that stops before its count, a message without a start, a message
\* with two starts.
Single(first, last, count, body) == FromPackets(<< Packet(first, last, count, body) >>, << body >>)
MCMalformed ==
    { Single(TRUE, TRUE, 3, << >>),
      Single(TRUE, TRUE, 70, Bytes(61)),
      FromPackets(<< SubSeq(Packet(TRUE, TRUE, 8, << >>), 1, 12) >>, << << >> >>),
      Fragmented(<< Bytes(60), Bytes(65), Bytes(65), Bytes(65), <<1, 2>> >>),
      Single(TRUE, FALSE, 10, <<5>>),
      Single(TRUE, TRUE, 12, <<5>>),
      Single(FALSE, TRUE, 9, Bytes(5)),
      FromPackets(<< Packet(TRUE, FALSE, 9, << >>), Packet(TRUE, TRUE, 10, <<6>>) >>,
                  << << >>, <<6>> >>) }

\* The manifest the driver's SAFETY comments speak of, and the one in
\* orion-o6-ec-sp.dts.
EcUartBase == 68026368                                   \* 0x040E0000
RegionsAsCommented == {[base |-> EcUartBase, pages |-> 1]}
RegionsOfManifest == {[base |-> 67960832, pages |-> 1]}  \* 0x040D0000
NoNotices == {}
MCAnyAnswers == MCFewAnswers \cup MCMalformed
=============================================================================
