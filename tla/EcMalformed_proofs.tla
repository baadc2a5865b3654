------------------------- MODULE EcMalformed_proofs -------------------------
(***************************************************************************)
(* Proofs about EcPassthrough with a quiet EC whose messages may break the *)
(* protocol in any way but one: behind an end flag they end.  Behind an    *)
(* earlier end flag the rest of a message would stay in the link when the  *)
(* call returns and be read as the start of the next answer, and none of   *)
(* what follows would be true.                                             *)
(***************************************************************************)
EXTENDS EcPassthrough_proofs

-----------------------------------------------------------------------------
\* Bytes.

\* A byte that hops to the sequence before the last.
LEMMA LastHop ==
    ASSUME NEW s \in Seq(Byte), NEW t \in Seq(Byte), t # << >>
    PROVE  Append(s, Head(t)) \o Tail(t) = s \o t
BY MoveHead

\* Nothing behind nothing.
LEMMA NothingLeft ==
    ASSUME NEW s \in Seq(Byte), NEW t \in Seq(Byte), s \o t = << >>
    PROVE  s = << >> /\ t = << >>
BY ConcatEqualIffEmpty

-----------------------------------------------------------------------------
\* Messages.

\* A conforming message ends once, so that what is proved here holds of
\* conforming ECs too.
LEMMA ConformingEndsOnce ==
    ASSUME NEW a, Conforming(a)
    PROVE  EndsOnce(a)
<1>1. a.wire \in Seq(Byte) /\ {0, Len(a.wire)} \subseteq a.cuts
      /\ a.cuts \subseteq 0 .. Len(a.wire)
  BY DEF Conforming
<1>2. ~Readable(a, Len(a.wire))
  <2>1. Len(a.wire) \in Nat
    BY <1>1, LenProperties
  <2>2. ~(Len(a.wire) + 4 <= Len(a.wire))
    BY <2>1
  <2> QED
    BY <2>2 DEF Readable, SMBUS_PACKET_HEADER_BYTES
<1>3. ASSUME NEW c \in a.cuts, Readable(a, c)
      PROVE  /\ EndOfPacket(a, c) \in a.cuts
             /\ Eom(Flags(PacketAt(a, c))) => EndOfPacket(a, c) = Len(a.wire)
  <2>1. c \in a.cuts \ {Len(a.wire)}
    BY <1>2, <1>3
  <2> QED
    BY <2>1, ConformingFacts
<1> QED
  BY <1>1, <1>3 DEF EndsOnce

\* A packet that can be read lies in the message.
LEMMA ReadableFacts ==
    ASSUME NEW a, a.wire \in Seq(Byte), NEW c \in 0 .. Len(a.wire), Readable(a, c)
    PROVE  /\ Len(a.wire) \in Nat /\ c \in Nat /\ EndOfPacket(a, c) \in Nat
           /\ c < Len(a.wire)
           /\ c + 8 <= EndOfPacket(a, c) /\ EndOfPacket(a, c) <= Len(a.wire)
<1> DEFINE n == a.wire[c + 3]
           l == Len(a.wire)
<1>1. l \in Nat /\ c \in Nat
  BY LenProperties
<1>2. c + 4 <= l /\ n \in 4 .. 69 /\ EndOfPacket(a, c) <= l
  BY DEF Readable, SMBUS_PACKET_HEADER_BYTES, MCTP_PACKET_HEADER_BYTES, MAX_MCTP_PACKET_LEN
<1>3. EndOfPacket(a, c) = c + 4 + n
  BY DEF EndOfPacket, SMBUS_PACKET_HEADER_BYTES
<1> HIDE DEF n, l
<1>4. c + 4 + n \in Nat /\ c < l /\ c + 8 <= c + 4 + n
  BY <1>1, <1>2
<1> QED
  BY <1>1, <1>2, <1>3, <1>4 DEF l

\* When a packet that can be read has been passed too, everything before its
\* end has been.
LEMMA PassedOn ==
    ASSUME NEW a, a.wire \in Seq(Byte), EndsOnce(a), CutsApart(a),
           NEW c \in a.cuts, Passed(a, c), Readable(a, c),
           ~Eom(Flags(PacketAt(a, c)))
    PROVE  Passed(a, EndOfPacket(a, c))
<1> DEFINE e == EndOfPacket(a, c)
<1>1. a.cuts \subseteq 0 .. Len(a.wire)
  BY DEF EndsOnce
<1>2. /\ Len(a.wire) \in Nat /\ c \in Nat /\ e \in Nat /\ c + 8 <= e
  BY <1>1, ReadableFacts
<1>3. ASSUME NEW d \in a.cuts, d < e
      PROVE  /\ Readable(a, d) /\ EndOfPacket(a, d) <= e
             /\ ~Eom(Flags(PacketAt(a, d)))
  <2>1. d \in Nat
    BY <1>1, <1>2
  <2>2. CASE d < c
    <3>1. Readable(a, d) /\ EndOfPacket(a, d) <= c /\ ~Eom(Flags(PacketAt(a, d)))
      BY <2>2 DEF Passed
    <3>2. EndOfPacket(a, d) \in Nat
      BY <1>1, <3>1, ReadableFacts
    <3>3. EndOfPacket(a, d) <= e
      BY <1>2, <3>1, <3>2
    <3> QED
      BY <3>1, <3>3
  <2>3. CASE d = c
    BY <1>2, <2>3
  <2>4. CASE c < d
    <3>1. e <= d
      BY <2>4 DEF CutsApart
    <3> QED
      BY <1>2, <1>3, <2>1, <3>1
  <2> QED
    BY <1>2, <2>1, <2>2, <2>3, <2>4
<1> QED
  BY <1>3 DEF Passed, e

\* A message whose last packet has been read, behind others without the end
\* flag, is framed.
LEMMA PassedIsFramed ==
    ASSUME NEW a, a.wire \in Seq(Byte), EndsOnce(a), CutsApart(a),
           NEW c \in a.cuts, Passed(a, c), Readable(a, c),
           Eom(Flags(PacketAt(a, c)))
    PROVE  Framed(a)
<1> DEFINE e == EndOfPacket(a, c)
           l == Len(a.wire)
<1>1. a.cuts \subseteq 0 .. l /\ e = l
  BY DEF EndsOnce
<1>2. l \in Nat /\ c \in Nat /\ c < l
  BY <1>1, ReadableFacts
<1>3. ASSUME NEW d \in a.cuts \ {l}
      PROVE  /\ Readable(a, d)
             /\ Eom(Flags(PacketAt(a, d))) <=> EndOfPacket(a, d) = l
  <2>1. d \in Nat /\ d < l
    BY <1>1, <1>2
  <2>2. CASE d < c
    <3>1. Readable(a, d) /\ EndOfPacket(a, d) <= c /\ ~Eom(Flags(PacketAt(a, d)))
      BY <2>2 DEF Passed
    <3>2. EndOfPacket(a, d) \in Nat
      BY <1>1, <3>1, ReadableFacts
    <3>3. EndOfPacket(a, d) # l
      BY <1>2, <3>1, <3>2
    <3> QED
      BY <3>1, <3>3
  <2>3. CASE d = c
    BY <1>1, <2>3
  <2>4. CASE c < d
    <3>1. e <= d
      BY <2>4 DEF CutsApart
    <3> QED
      BY <1>1, <1>2, <2>1, <3>1
  <2> QED
    BY <1>2, <2>1, <2>2, <2>3, <2>4
<1>4. ASSUME NEW d \in a.cuts \ {l}
      PROVE  /\ d + SMBUS_PACKET_HEADER_BYTES + MCTP_PACKET_HEADER_BYTES <= l
             /\ a.wire[d + 3] \in MCTP_PACKET_HEADER_BYTES .. MAX_MCTP_PACKET_LEN
             /\ EndOfPacket(a, d) \in a.cuts
  <2>1. Readable(a, d)
    BY <1>3
  <2>2. d \in Nat /\ EndOfPacket(a, d) \in Nat /\ d + 8 <= EndOfPacket(a, d)
        /\ EndOfPacket(a, d) <= l
    BY <1>1, <2>1, ReadableFacts
  <2>3. d + 4 + 4 <= l
    BY <1>2, <2>2
  <2>4. EndOfPacket(a, d) \in a.cuts
    BY <2>1 DEF EndsOnce
  <2> QED
    BY <2>1, <2>3, <2>4 DEF Readable, SMBUS_PACKET_HEADER_BYTES, MCTP_PACKET_HEADER_BYTES
<1> QED
  BY <1>3, <1>4 DEF Framed, l

-----------------------------------------------------------------------------
\* The link.

\* Reading a byte of a message: a packet that ends there is the message's own
\* packet, and its rest is still to be read.
LEMMA ReadingOn ==
    ASSUME TypeInv, NEW a, a.wire \in Seq(Byte), NEW c \in 0 .. Len(a.wire), ReadByte,
           buffer \o (rx \o ecOut) = SubSeq(a.wire, c + 1, Len(a.wire))
    PROVE  /\ NextBuffer \o (rx' \o ecOut) = SubSeq(a.wire, c + 1, Len(a.wire))
           /\ PacketEnds(NextBuffer) =>
                 /\ Readable(a, c)
                 /\ NextBuffer = PacketAt(a, c)
                 /\ rx' \o ecOut = SubSeq(a.wire, EndOfPacket(a, c) + 1, Len(a.wire))
<1> DEFINE b == NextBuffer
           t == rx' \o ecOut
           w == a.wire
           n == a.wire[c + 3]
           k == Len(b)
<1>1. /\ b \in Seq(Byte) /\ Len(b) = Len(buffer) + 1 /\ rx' \in Seq(Byte)
      /\ rx \in Seq(Byte) /\ rx # << >> /\ rx' = Tail(rx)
      /\ buffer \in Seq(Byte) /\ ecOut \in Seq(Byte)
      /\ \A i \in 1 .. Len(buffer) : b[i] = buffer[i]
  BY NextBufferTyped DEF TypeInv, TypeOK
<1>2. t \in Seq(Byte) /\ w \in Seq(Byte)
  BY <1>1, TwoParts
<1>3. b \o t = SubSeq(w, c + 1, Len(w))
  <2>1. Append(buffer, Head(rx)) \o (Tail(rx) \o ecOut) = buffer \o (rx \o ecOut)
    BY <1>1, Hop, ZenonT(60)
  <2> QED
    BY <1>1, <2>1 DEF NextBuffer
<1>4. k \in Nat /\ Len(buffer) \in Nat /\ Len(w) \in Nat /\ c \in Nat
  BY <1>1, <1>2, LenProperties
<1> HIDE DEF b, t, w
<1>5. /\ c + Len(b) <= Len(w)
      /\ b = SubSeq(w, c + 1, c + Len(b))
      /\ \A i \in 1 .. Len(b) : b[i] = w[c + i]
      /\ t = SubSeq(w, c + Len(b) + 1, Len(w))
  <2>1. c \in 0 .. Len(w)
    BY DEF w
  <2>2. \A x, y \in Seq(Byte) :
          x \o y = SubSeq(w, c + 1, Len(w)) =>
            /\ c + Len(x) <= Len(w)
            /\ x = SubSeq(w, c + 1, c + Len(x))
            /\ \A i \in 1 .. Len(x) : x[i] = w[c + i]
            /\ y = SubSeq(w, c + Len(x) + 1, Len(w))
    BY <1>2, <2>1, CutConcat
  <2> QED
    BY <1>1, <1>2, <1>3, <2>2, Zenon
<1>6. ASSUME PacketEnds(b)
      PROVE  /\ Readable(a, c) /\ b = PacketAt(a, c)
             /\ t = SubSeq(w, EndOfPacket(a, c) + 1, Len(w))
  <2>1. k > 4 /\ k = 4 + b[3]
    BY <1>6 DEF PacketEnds, ByteCount, SMBUS_PACKET_HEADER_BYTES
  <2>2. Len(buffer) >= 4 /\ 3 \in 1 .. Len(buffer) /\ 3 \in 1 .. Len(b)
    BY <1>1, <1>4, <2>1
  <2>3. buffer[3] \in 4 .. 69
    BY <2>2 DEF TypeInv, ReadInv, CountValid, ByteCount, SMBUS_PACKET_HEADER_BYTES,
       MCTP_PACKET_HEADER_BYTES, MAX_MCTP_PACKET_LEN
  <2>4. b[3] = buffer[3] /\ b[3] = n
    BY <1>1, <1>5, <2>2 DEF w
  <2>5. EndOfPacket(a, c) = c + 4 + n
    BY DEF EndOfPacket, SMBUS_PACKET_HEADER_BYTES
  <2> HIDE DEF n
  <2>6. n \in 4 .. 69 /\ k = 4 + n
    BY <2>1, <2>3, <2>4
  <2>7. c + 4 <= Len(w) /\ c + k = EndOfPacket(a, c) /\ c + k <= Len(w)
    BY <1>4, <1>5, <2>5, <2>6
  <2>8. Readable(a, c)
    BY <2>6, <2>7 DEF Readable, SMBUS_PACKET_HEADER_BYTES, MCTP_PACKET_HEADER_BYTES,
       MAX_MCTP_PACKET_LEN, n, w
  <2>9. PacketAt(a, c) = SubSeq(w, c + 1, EndOfPacket(a, c))
    BY DEF PacketAt, EndOfPacket, w
  <2> QED
    BY <1>5, <2>7, <2>8, <2>9
<1> QED
  BY <1>3, <1>6 DEF b, t, w

\* Nothing is on the way.
LEMMA FollowInit == Init => FollowInv
BY DEF Init, UartInit, FollowInv, Drained

\* A call begins on an empty link and writes its request on one.
LEMMA FollowWrite ==
    ASSUME TypeInv, FollowInv,
           WriteRequest \/ \E r \in Requests : RefuseCall(r) \/ AcceptCall(r)
    PROVE  FollowInv'
<1>1. ASSUME NEW r \in Requests, RefuseCall(r)
      PROVE  FollowInv'
  BY <1>1 DEF RefuseCall, FollowInv, Drained, uartVars, ecVars, histVars
<1>2. ASSUME NEW r \in Requests, AcceptCall(r)
      PROVE  FollowInv'
  <2>1. Drained /\ pc' = "write" /\ call' = r /\ Supported(r)
    BY <1>2 DEF AcceptCall, FollowInv
  <2>2. RequestPacket(r) \in Seq(Byte) /\ << >> \in Seq(Byte)
    BY <1>2, RequestTyped, EmptySeq DEF AcceptCall
  <2>3. << >> \o (<< >> \o RequestPacket(r)) = RequestPacket(r)
    BY <2>2, ConcatEmptySeq
  <2>4. Asking'
    BY <1>2, <2>1, <2>3 DEF AcceptCall, Asking, Drained, uartVars, ecVars
  <2> QED
    BY <2>1, <2>4 DEF FollowInv
<1>3. CASE WriteRequest
  <2>1. pc = "write" /\ Asking /\ data # << >> /\ call \in Requests /\ Supported(call)
    BY <1>3 DEF WriteRequest, FollowInv, TypeInv, WriteInv
  <2>2. tx \in Seq(Byte) /\ data \in Seq(Byte)
    BY DEF TypeInv, TypeOK
  <2>3. Append(tx, Head(data)) \o Tail(data) = tx \o data
    BY <2>1, <2>2, MoveHead
  <2>4. tx' = Append(tx, Head(data)) /\ data' = Tail(data)
    BY <1>3 DEF WriteRequest, WriteByte
  <2>5. Asking'
    BY <1>3, <2>1, <2>3, <2>4 DEF WriteRequest, WriteByte, Asking, ecVars, histVars
  <2>6. pc' \in {"write", "read"} /\ call' = call
    BY <1>3 DEF WriteRequest
  <2> QED
    BY <2>1, <2>5, <2>6 DEF FollowInv
<1> QED
  BY <1>1, <1>2, <1>3

\* Reading moves along the message; at its last packet the call returns with
\* nothing left over; a panic has a malformed message to blame.
LEMMA FollowRead ==
    ASSUME TypeInv, FollowInv, \A a \in Answers : EndsOnce(a),
           ReadMore \/ CollectFragment \/ ReturnAnswer \/ RejectCount \/ RejectFragment
    PROVE  FollowInv'
<1>1. pc = "read" /\ ReadByte /\ call \in Requests /\ Supported(call)
  BY DEF ReadMore, CollectFragment, ReturnAnswer, FragmentRead, RejectCount,
         RejectFragment, FollowInv
<1>2. PICK a \in Answers : \E c \in a.cuts : Following(a, c)
  BY <1>1 DEF FollowInv, Asking, ReadByte
<1>3. PICK c \in a.cuts : Following(a, c)
  BY <1>2
<1>4. a.wire \in Seq(Byte) /\ EndsOnce(a) /\ c \in 0 .. Len(a.wire)
  BY LinkAssumption DEF EndsOnce
<1> DEFINE e == EndOfPacket(a, c)
<1>5. /\ tx = << >> /\ ecIn = << >> /\ unheard = << >>
      /\ owed = << [to |-> Asked(call), message |-> a] >>
      /\ buffer \o (rx \o ecOut) = SubSeq(a.wire, c + 1, Len(a.wire))
      /\ CutsApart(a) => Passed(a, c)
  BY <1>3 DEF Following
<1>6. /\ NextBuffer \o (rx' \o ecOut) = SubSeq(a.wire, c + 1, Len(a.wire))
      /\ PacketEnds(NextBuffer) =>
            /\ Readable(a, c)
            /\ NextBuffer = PacketAt(a, c)
            /\ rx' \o ecOut = SubSeq(a.wire, e + 1, Len(a.wire))
  BY <1>1, <1>4, <1>5, ReadingOn
<1>7. /\ rx' \in Seq(Byte) /\ tx' = tx /\ ecOut \in Seq(Byte) /\ << >> \in Seq(Byte)
  BY <1>1, NextBufferTyped, EmptySeq DEF TypeInv, TypeOK
<1>8. Conforming(a) =>
        /\ ReadMore => c # Len(a.wire) /\ Answering(a, c)'
        /\ CollectFragment => e # Len(a.wire) /\ Answering(a, e)'
        /\ ~RejectCount /\ ~RejectFragment
  <2> SUFFICES ASSUME Conforming(a)
               PROVE  /\ ReadMore => c # Len(a.wire) /\ Answering(a, c)'
                      /\ CollectFragment => e # Len(a.wire) /\ Answering(a, e)'
                      /\ ~RejectCount /\ ~RejectFragment
    OBVIOUS
  <2>1. c \in a.cuts \ {Len(a.wire)} /\ Answering(a, c)
    BY <1>3 DEF Following
  <2> QED
    BY <2>1, ConformingRead
<1>9. CASE ReadMore
  <2>1. Following(a, c)'
    BY <1>5, <1>6, <1>7, <1>8, <1>9 DEF ReadMore, Following, ecVars, histVars
  <2>2. pc' = "read" /\ call' = call
    BY <1>1, <1>9 DEF ReadMore
  <2> QED
    BY <1>1, <2>1, <2>2 DEF FollowInv
<1>10. CASE CollectFragment
  <2>1. PacketEnds(NextBuffer) /\ ~Eom(Flags(NextBuffer))
    BY <1>10 DEF CollectFragment, FragmentRead
  <2>2. e \in a.cuts
    BY <1>4, <1>6, <2>1 DEF EndsOnce
  <2>3. CutsApart(a) => Passed(a, e)
    BY <1>4, <1>5, <1>6, <2>1, PassedOn
  <2>4. << >> \o (rx' \o ecOut) = SubSeq(a.wire, e + 1, Len(a.wire))
    BY <1>6, <1>7, <2>1, TwoParts, ConcatEmptySeq
  <2>5. /\ buffer' = << >> /\ ecOut' = ecOut /\ ecIn' = ecIn /\ unheard' = unheard
        /\ owed' = owed /\ pc' = "read" /\ call' = call
    BY <1>1, <1>10 DEF CollectFragment, ecVars, histVars
  <2>6. Following(a, e)'
    BY <1>5, <1>7, <1>8, <1>10, <2>3, <2>4, <2>5 DEF Following
  <2> QED
    BY <1>1, <2>2, <2>5, <2>6 DEF FollowInv
<1>11. CASE ReturnAnswer
  <2>1. PacketEnds(NextBuffer) /\ Eom(Flags(NextBuffer))
    BY <1>11 DEF ReturnAnswer, FragmentRead
  <2>2. e = Len(a.wire) /\ Len(a.wire) \in Int
    BY <1>4, <1>6, <2>1, ReadableFacts DEF EndsOnce
  <2>3. SubSeq(a.wire, e + 1, Len(a.wire)) = << >>
    BY <2>2, SubSeqEmpty
  <2>4. rx' = << >> /\ ecOut = << >>
    BY <1>6, <1>7, <2>1, <2>3, NothingLeft
  <2>5. SubSeq(owed, 2, Len(owed)) = << >>
    <3>1. Len(owed) = 1
      BY <1>5
    <3> QED
      BY <3>1, SubSeqEmpty
  <2> QED
    BY <1>5, <1>7, <1>11, <2>4, <2>5 DEF ReturnAnswer, FollowInv, Drained, ecVars
<1>12. CASE RejectCount \/ RejectFragment
  <2>1. ~Conforming(a)
    BY <1>8, <1>12
  <2>2. pc' = "panic" /\ tx' = << >> /\ owed' = owed /\ call' = call
    BY <1>5, <1>7, <1>12 DEF RejectCount, RejectFragment, Panic, histVars
  <2> QED
    BY <1>5, <2>1, <2>2 DEF FollowInv
<1> QED
  BY <1>9, <1>10, <1>11, <1>12

\* The EC hears the request to its end, answers it, and sends the answer,
\* after a panic too.
LEMMA FollowEc ==
    ASSUME TypeInv, FollowInv, \A a \in Answers : EndsOnce(a), EcHear \/ EcSend
    PROVE  FollowInv'
<1>0. /\ tx \in Seq(Byte) /\ rx \in Seq(Byte) /\ ecOut \in Seq(Byte) /\ ecIn \in Seq(Byte)
      /\ pc \in {"idle", "write", "read", "panic"}
  BY DEF TypeInv, TypeOK
<1>1. FarReadByte =>
        /\ Asking /\ pc \in {"write", "read"} /\ call \in Requests /\ Supported(call)
  BY <1>0 DEF FarReadByte, FollowInv, Drained, Following
<1>2. CASE EcReceive
  <2>1. FarReadByte
    BY <1>2 DEF EcReceive
  <2>2. EcReceived \o (tx' \o data) = RequestPacket(call)
    BY <1>1, <2>1, EcFraming
  <2>3. Asking'
    BY <1>1, <1>2, <2>1, <2>2 DEF EcReceive, FarReadByte, Asking, spVars, histVars
  <2>4. pc' = pc /\ call' = call
    BY <1>2 DEF EcReceive, spVars
  <2> QED
    BY <1>1, <2>1, <2>3, <2>4 DEF FollowInv
<1>3. ASSUME NEW a \in Answers, EcAnswer(a)
      PROVE  FollowInv'
  <2>1. Asking /\ pc \in {"write", "read"} /\ call \in Requests /\ Supported(call)
    BY <1>1, <1>3 DEF EcAnswer
  <2>2. /\ pc' = "read" /\ call' = call
        /\ tx' = << >> /\ ecIn' = << >> /\ unheard' = << >>
        /\ owed' = << [to |-> Asked(call), message |-> a] >>
        /\ buffer' \o (rx' \o ecOut') = SubSeq(a.wire, 0 + 1, Len(a.wire))
        /\ Conforming(a) => 0 \in a.cuts \ {Len(a.wire)} /\ Answering(a, 0)'
    BY <1>3, <2>1, AnswerBegins
  <2>3. 0 \in a.cuts /\ a.cuts \subseteq 0 .. Len(a.wire)
    BY DEF EndsOnce
  <2>4. Passed(a, 0)
    <3>1. Len(a.wire) \in Nat
      BY LinkAssumption, LenProperties
    <3>2. \A d \in a.cuts : ~(d < 0)
      BY <2>3, <3>1
    <3> QED
      BY <3>2 DEF Passed
  <2>5. Following(a, 0)'
    BY <2>2, <2>4 DEF Following
  <2> QED
    BY <2>1, <2>2, <2>3, <2>5 DEF FollowInv
<1>4. CASE EcSend
  <2>1. ecOut # << >> /\ rx' = Append(rx, Head(ecOut)) /\ ecOut' = Tail(ecOut) /\ tx' = tx
    BY <1>4 DEF EcSend, FarWriteByte
  <2>2. rx' \o ecOut' = rx \o ecOut
    BY <1>0, <2>1, LastHop
  <2>3. /\ pc' = pc /\ call' = call /\ buffer' = buffer /\ out_buf' = out_buf
        /\ ecIn' = ecIn /\ unheard' = unheard /\ owed' = owed
    BY <1>4 DEF EcSend, spVars, histVars
  <2>4. CASE pc = "panic"
    BY <2>1, <2>3, <2>4 DEF FollowInv
  <2>5. CASE pc = "read"
    <3>1. PICK a \in Answers : \E c \in a.cuts : Following(a, c)
      BY <2>1, <2>5 DEF FollowInv, Asking
    <3>2. PICK c \in a.cuts : Following(a, c)
      BY <3>1
    <3>3. Answering(a, c) => Answering(a, c)'
      BY <2>1, <2>2, <2>3 DEF Answering
    <3>4. Following(a, c)'
      BY <2>1, <2>2, <2>3, <3>2, <3>3 DEF Following
    <3> QED
      BY <2>3, <2>5, <3>4 DEF FollowInv
  <2>6. pc # "idle" /\ pc # "write"
    BY <2>1 DEF FollowInv, Drained, Asking
  <2> QED
    BY <1>0, <2>4, <2>5, <2>6
<1> QED
  BY <1>2, <1>3, <1>4 DEF EcHear

\* Every step keeps to it.
LEMMA FollowStep ==
    ASSUME TypeInv, FollowInv, [Next]_vars, QuietEc, \A a \in Answers : EndsOnce(a)
    PROVE  FollowInv'
<1>1. CASE WriteRequest \/ \E r \in Requests : RefuseCall(r) \/ AcceptCall(r)
  BY <1>1, FollowWrite
<1>2. CASE ReadMore \/ CollectFragment \/ ReturnAnswer \/ RejectCount \/ RejectFragment
  BY <1>2, FollowRead
<1>3. CASE EcHear \/ EcSend
  BY <1>3, FollowEc
<1>4. CASE \E n \in Notices : EcNotify(n)
  BY <1>4 DEF QuietEc
<1>5. CASE UNCHANGED vars
  BY <1>5 DEF vars, spVars, uartVars, ecVars, histVars, FollowInv, Drained, Asking,
     Following, Answering
<1> QED
  BY <1>1, <1>2, <1>3, <1>4, <1>5 DEF Next, SpStep

-----------------------------------------------------------------------------
\* While it has not panicked the partition reads the EC's one message from its
\* start on, packet after packet, and returns at the end of it and nowhere
\* else (send_cmd's loop), however malformed the packets are.
THEOREM FollowsMessages ==
    ASSUME QuietEc, \A a \in Answers : EndsOnce(a)
    PROVE  Spec => []FollowInv
<1>1. Init => FollowInv
  BY FollowInit
<1>2. TypeInv /\ FollowInv /\ [Next]_vars => FollowInv'
  BY FollowStep
<1> QED
  BY <1>1, <1>2, TypeCorrect, PTL DEF Spec

\* A panic has a cause: the message being read breaks the protocol (send_cmd's
\* check of the byte count and its two slices).
THEOREM PanicNeedsMalformed ==
    ASSUME QuietEc, \A a \in Answers : EndsOnce(a)
    PROVE  Spec => []PanicOnlyOnMalformed
<1>1. FollowInv => PanicOnlyOnMalformed
  <2> SUFFICES ASSUME FollowInv, pc = "panic"
               PROVE  owed # << >> /\ ~Conforming(Head(owed).message)
    BY DEF PanicOnlyOnMalformed
  <2>1. PICK a \in Answers : /\ ~Conforming(a)
                             /\ owed = << [to |-> Asked(call), message |-> a] >>
    BY DEF FollowInv
  <2>2. owed # << >> /\ Head(owed).message = a
    BY <2>1
  <2> QED
    BY <2>1, <2>2
<1> QED
  BY <1>1, FollowsMessages, PTL

\* A malformed answer leaves no byte in the link for the next call (the call
\* that send_cmd returns from has read all of it), ...
THEOREM MalformedLeavesNothing ==
    ASSUME QuietEc, \A a \in Answers : EndsOnce(a)
    PROVE  Spec => []IdleMeansDrained
<1>1. FollowInv => IdleMeansDrained
  BY DEF FollowInv, IdleMeansDrained, Drained
<1> QED
  BY <1>1, FollowsMessages, PTL

\* ... and never makes both ends wait for room.
THEOREM MalformedKeepsDirection ==
    ASSUME QuietEc, \A a \in Answers : EndsOnce(a)
    PROVE  Spec => []NeverBothSending
<1>1. FollowInv => NeverBothSending
  BY DEF FollowInv, NeverBothSending, Asking
<1> QED
  BY <1>1, FollowsMessages, PTL

\* What a caller is handed is one message, whole: the packets of an answer that
\* is returned have valid counts, and the end flag is on the last and on no
\* other (send_cmd's loop ends at the first end flag it sees).
THEOREM DeliversWhole ==
    ASSUME QuietEc, \A a \in Answers : EndsOnce(a) /\ CutsApart(a)
    PROVE  Spec => DeliversFramed
<1>1. \A a \in Answers : EndsOnce(a)
  OBVIOUS
<1>2. /\ TypeInv /\ FollowInv /\ [Next]_vars
      => [reply'.kind = "ok" /\ reply.kind # "ok" =>
            owed # << >> /\ Framed(Head(owed).message)]_vars
  <2> SUFFICES ASSUME TypeInv, FollowInv, [Next]_vars,
                      reply'.kind = "ok", reply.kind # "ok"
               PROVE  owed # << >> /\ Framed(Head(owed).message)
    OBVIOUS
  <2>1. ReturnAnswer
    <3>1. \A r \in Requests : ~RefuseCall(r) /\ ~AcceptCall(r)
      BY DEF RefuseCall, AcceptCall, Outcome
    <3>2. reply' # reply
      OBVIOUS
    <3>3. ~WriteRequest /\ ~ReadMore /\ ~CollectFragment /\ ~RejectCount /\ ~RejectFragment
      BY <3>2 DEF WriteRequest, ReadMore, CollectFragment, RejectCount, RejectFragment, Panic
    <3>4. ~EcHear /\ ~EcSend /\ ~(UNCHANGED vars) /\ \A n \in Notices : ~EcNotify(n)
      BY <3>2 DEF EcHear, EcReceive, EcAnswer, EcSend, EcNotify, vars, spVars
    <3> QED
      BY <3>1, <3>3, <3>4 DEF Next, SpStep
  <2>2. pc = "read" /\ ReadByte /\ PacketEnds(NextBuffer) /\ Eom(Flags(NextBuffer))
    BY <2>1 DEF ReturnAnswer, FragmentRead
  <2>3. PICK a \in Answers : \E c \in a.cuts : Following(a, c)
    BY <2>2 DEF FollowInv, Asking, ReadByte
  <2>4. PICK c \in a.cuts : Following(a, c)
    BY <2>3
  <2>5. a.wire \in Seq(Byte) /\ EndsOnce(a) /\ CutsApart(a) /\ c \in 0 .. Len(a.wire)
    BY LinkAssumption DEF EndsOnce
  <2>6. /\ owed = << [to |-> Asked(call), message |-> a] >>
        /\ buffer \o (rx \o ecOut) = SubSeq(a.wire, c + 1, Len(a.wire))
        /\ Passed(a, c)
    BY <2>4, <2>5 DEF Following
  <2>7. Readable(a, c) /\ NextBuffer = PacketAt(a, c)
    BY <2>2, <2>5, <2>6, ReadingOn
  <2>8. Framed(a)
    BY <2>2, <2>5, <2>6, <2>7, PassedIsFramed
  <2>9. owed # << >> /\ Head(owed).message = a
    BY <2>6
  <2> QED
    BY <2>8, <2>9
<1> QED
  BY <1>1, <1>2, TypeCorrect, FollowsMessages, PTL DEF Spec, DeliversFramed
=============================================================================
