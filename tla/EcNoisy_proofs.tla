--------------------------- MODULE EcNoisy_proofs ---------------------------
(***************************************************************************)
(* Proofs about EcPassthrough with an EC that speaks unasked, any number   *)
(* of times.  Requests and messages then queue up in the link: what is on  *)
(* its way in each direction is the queued packets, or messages, one after *)
(* the other, of which the reader has a part of the first.                 *)
(***************************************************************************)
EXTENDS EcPassthrough_proofs

-----------------------------------------------------------------------------
(* Sequences put together.  The joints say where each part ends; to have   *)
(* them as a function, with their order, spares an induction.              *)

Joints(e, s, ws, n) ==
    /\ e \in [0 .. n -> Nat] /\ e[0] = 0 /\ e[n] = Len(s)
    /\ \A i \in 0 .. n : \A j \in i .. n : e[i] <= e[j]
    /\ \A i \in 1 .. n : /\ e[i] = e[i - 1] + Len(ws[i])
                         /\ \A k \in 1 .. Len(ws[i]) : s[e[i - 1] + k] = ws[i][k]

\* s is ws[1] \o ... \o ws[n].
Joined(s, ws, n) == \E e : Joints(e, s, ws, n)

\* Nothing is put together of no parts.
LEMMA JoinedNone ==
    ASSUME NEW s \in Seq(Byte), NEW ws
    PROVE  Joined(s, ws, 0) <=> s = << >>
<1>1. ASSUME Joined(s, ws, 0) PROVE s = << >>
  <2>1. Len(s) = 0
    BY <1>1 DEF Joined, Joints
  <2> QED
    BY <2>1, EmptySeq
<1>2. ASSUME s = << >> PROVE Joined(s, ws, 0)
  <2>1. Joints([i \in 0 .. 0 |-> 0], s, ws, 0)
    BY <1>2 DEF Joints
  <2> QED
    BY <2>1 DEF Joined
<1> QED
  BY <1>1, <1>2

\* The first part is the beginning.
LEMMA JoinedFirst ==
    ASSUME NEW s \in Seq(Byte), NEW n \in Nat \ {0}, NEW ws, ws[1] \in Seq(Byte),
           Joined(s, ws, n)
    PROVE  /\ Len(ws[1]) <= Len(s)
           /\ \A k \in 1 .. Len(ws[1]) : s[k] = ws[1][k]
<1>1. PICK e : Joints(e, s, ws, n)
  BY DEF Joined
<1>2. e[0] = 0 /\ e[1] = e[0] + Len(ws[1]) /\ 1 \in 1 .. n /\ 0 \in 0 .. n /\ n \in 1 .. n
      /\ 1 - 1 = 0
  BY <1>1 DEF Joints
<1>3. Len(ws[1]) \in Nat
  BY LenProperties
<1>4. e[1] <= e[n] /\ e[n] = Len(s)
  BY <1>1, <1>2 DEF Joints
<1>5. \A k \in 1 .. Len(ws[1]) : s[e[0] + k] = ws[1][k]
  BY <1>1, <1>2, ZenonT(60) DEF Joints
<1>6. ASSUME NEW k \in 1 .. Len(ws[1])
      PROVE  s[k] = ws[1][k]
  <2>1. e[0] + k = k
    BY <1>2, <1>3
  <2> QED
    BY <1>5, <2>1
<1> QED
  BY <1>2, <1>3, <1>4, <1>6

\* Behind the first part come the others.
LEMMA JoinedRest ==
    ASSUME NEW u \in Seq(Byte), NEW t \in Seq(Byte), NEW n \in Nat \ {0}, NEW ws, NEW vs,
           \A i \in 1 .. n : ws[i] \in Seq(Byte),
           Joined(u \o t, ws, n), Len(u) = Len(ws[1]),
           \A i \in 1 .. n - 1 : vs[i] = ws[i + 1]
    PROVE  Joined(t, vs, n - 1)
<1> DEFINE s == u \o t
           l == Len(u)
<1>1. PICK e : Joints(e, s, ws, n)
  BY DEF Joined
<1>2. /\ l \in Nat /\ Len(t) \in Nat /\ Len(s) = l + Len(t)
      /\ \A i \in 1 .. l + Len(t) : s[i] = IF i <= l THEN u[i] ELSE t[i - l]
  <2>1. l \in Nat /\ Len(t) \in Nat
    BY LenProperties
  <2>2. /\ Len(u \o t) = Len(u) + Len(t)
        /\ \A i \in 1 .. Len(u) + Len(t) : (u \o t)[i] = IF i <= Len(u) THEN u[i] ELSE t[i - Len(u)]
    BY TwoParts
  <2>3. Len(s) = l + Len(t)
    BY <2>2
  <2>4. \A i \in 1 .. l + Len(t) : s[i] = IF i <= l THEN u[i] ELSE t[i - l]
    BY <2>2
  <2> QED
    BY <2>1, <2>3, <2>4
<1> HIDE DEF s, l
<1>3. e \in [0 .. n -> Nat] /\ e[0] = 0 /\ e[n] = Len(s) /\ e[1] = l
  <2>1. e \in [0 .. n -> Nat] /\ e[0] = 0 /\ e[n] = Len(s) /\ e[1] = e[1 - 1] + Len(ws[1])
    BY <1>1 DEF Joints
  <2>2. 1 - 1 = 0
    OBVIOUS
  <2> QED
    BY <1>2, <2>1, <2>2 DEF l
<1>4. \A i \in 1 .. n : e[i] \in Nat /\ l <= e[i] /\ e[i] <= Len(s)
  <2>1. \A i \in 1 .. n : e[1] <= e[i] /\ e[i] <= e[n]
    BY <1>1 DEF Joints
  <2> QED
    BY <1>3, <2>1
<1> DEFINE d == [i \in 0 .. n - 1 |-> e[i + 1] - l]
<1>5. d \in [0 .. n - 1 -> Nat] /\ d[0] = 0 /\ d[n - 1] = Len(t)
  <2>1. \A i \in 0 .. n - 1 : i + 1 \in 1 .. n
    OBVIOUS
  <2>2. \A i \in 0 .. n - 1 : e[i + 1] - l \in Nat
    BY <1>2, <1>4, <2>1
  <2>3. 0 \in 0 .. n - 1 /\ n - 1 \in 0 .. n - 1 /\ (n - 1) + 1 = n /\ 0 + 1 = 1
    OBVIOUS
  <2>4. d[0] = e[1] - l /\ d[n - 1] = e[n] - l
    BY <2>3
  <2>5. d \in [0 .. n - 1 -> Nat]
    BY <2>2
  <2> HIDE DEF d
  <2> QED
    BY <1>2, <1>3, <2>4, <2>5
<1>6. ASSUME NEW i \in 0 .. n - 1, NEW j \in i .. n - 1
      PROVE  d[i] <= d[j]
  <2>1. /\ i + 1 \in 0 .. n /\ j + 1 \in i + 1 .. n /\ j \in 0 .. n - 1
        /\ i + 1 \in 1 .. n /\ j + 1 \in 1 .. n
    OBVIOUS
  <2>2. e[i + 1] <= e[j + 1]
    BY <1>1, <2>1 DEF Joints
  <2> QED
    BY <1>2, <1>4, <2>1, <2>2
<1>7. ASSUME NEW i \in 1 .. n - 1
      PROVE  /\ d[i] = d[i - 1] + Len(vs[i])
             /\ \A k \in 1 .. Len(vs[i]) : t[d[i - 1] + k] = vs[i][k]
  <2>1. /\ i + 1 \in 1 .. n /\ i \in 1 .. n /\ (i + 1) - 1 = i /\ (i - 1) + 1 = i
        /\ i \in 0 .. n - 1 /\ i - 1 \in 0 .. n - 1
    OBVIOUS
  <2>2. /\ e[i + 1] = e[i] + Len(ws[i + 1])
        /\ \A k \in 1 .. Len(ws[i + 1]) : s[e[i] + k] = ws[i + 1][k]
    BY <1>1, <2>1, ZenonT(60) DEF Joints
  <2>3. /\ vs[i] = ws[i + 1] /\ Len(vs[i]) \in Nat
        /\ e[i] \in Nat /\ e[i + 1] \in Nat /\ l <= e[i] /\ e[i + 1] <= Len(s)
    <3>1. vs[i] = ws[i + 1] /\ ws[i + 1] \in Seq(Byte)
      BY <2>1
    <3> QED
      BY <1>4, <2>1, <3>1, LenProperties
  <2>4. d[i] = e[i + 1] - l /\ d[i - 1] = e[i] - l
    BY <2>1
  <2>5. ASSUME NEW k \in 1 .. Len(vs[i])
        PROVE  t[d[i - 1] + k] = vs[i][k]
    <3>1. s[e[i] + k] = vs[i][k]
      BY <2>2, <2>3
    <3> DEFINE x == e[i]
               y == Len(vs[i])
    <3>4. x \in Nat /\ y \in Nat /\ l <= x /\ x + y <= l + Len(t) /\ k \in 1 .. y
      BY <1>2, <2>2, <2>3
    <3> HIDE DEF x, y
    <3>5. x + k \in 1 .. l + Len(t) /\ ~(x + k <= l) /\ (x + k) - l = (x - l) + k
      BY <1>2, <3>4
    <3>2. /\ e[i] + k \in 1 .. l + Len(t) /\ ~(e[i] + k <= l)
          /\ (e[i] + k) - l = (e[i] - l) + k
      BY <3>5 DEF x
    <3>3. s[e[i] + k] = t[(e[i] + k) - l]
      BY <1>2, <3>2
    <3> QED
      BY <2>4, <3>1, <3>2, <3>3
  <2>6. d[i] = d[i - 1] + Len(vs[i])
    <3> HIDE DEF d
    <3> QED
      BY <1>2, <2>2, <2>3, <2>4, SMTT(40)
  <2> QED
    BY <2>5, <2>6
<1>8. Joints(d, t, vs, n - 1)
  <2> HIDE DEF d
  <2> QED
    BY <1>5, <1>6, <1>7 DEF Joints
<1> QED
  BY <1>8 DEF Joined

\* A part more is put behind the others.
LEMMA JoinedMore ==
    ASSUME NEW s \in Seq(Byte), NEW w \in Seq(Byte), NEW n \in Nat, NEW ws, NEW vs,
           Joined(s, ws, n), \A i \in 1 .. n : vs[i] = ws[i], vs[n + 1] = w,
           \A i \in 1 .. n : ws[i] \in Seq(Byte)
    PROVE  Joined(s \o w, vs, n + 1)
<1>1. PICK e : Joints(e, s, ws, n)
  BY DEF Joined
<1> DEFINE z == s \o w
           l == Len(s)
           m == Len(w)
           d == [i \in 0 .. n + 1 |-> IF i = n + 1 THEN l + m ELSE e[i]]
<1>2. l \in Nat /\ m \in Nat
  BY LenProperties
<1>3. /\ Len(z) = l + m
      /\ \A i \in 1 .. l + m : z[i] = IF i <= l THEN s[i] ELSE w[i - l]
  <2>1. /\ Len(s \o w) = Len(s) + Len(w)
        /\ \A i \in 1 .. Len(s) + Len(w) : (s \o w)[i] = IF i <= Len(s) THEN s[i] ELSE w[i - Len(s)]
    BY TwoParts
  <2> QED
    BY <2>1
<1>4. e \in [0 .. n -> Nat] /\ e[0] = 0 /\ e[n] = l
  BY <1>1 DEF Joints
<1>5. \A i \in 0 .. n : e[i] \in Nat /\ e[i] <= l
  <2>1. \A i \in 0 .. n : e[i] <= e[n]
    BY <1>1 DEF Joints
  <2> QED
    BY <1>4, <2>1
<1>6. \A i \in 0 .. n : d[i] = e[i]
  OBVIOUS
<1>7. d[n + 1] = l + m
  OBVIOUS
<1>8. d \in [0 .. n + 1 -> Nat]
  BY <1>2, <1>5
<1> HIDE DEF d, z, l, m
<1>9. ASSUME NEW i \in 0 .. n + 1, NEW j \in i .. n + 1
      PROVE  d[i] <= d[j]
  <2>1. CASE j \in 0 .. n
    <3>1. i \in 0 .. n /\ e[i] <= e[j]
      BY <1>1, <2>1 DEF Joints
    <3> QED
      BY <1>6, <2>1, <3>1
  <2>2. CASE j = n + 1 /\ i \in 0 .. n
    BY <1>2, <1>5, <1>6, <1>7, <2>2
  <2>3. CASE j = n + 1 /\ i = n + 1
    BY <1>2, <1>7, <2>3
  <2> QED
    BY <2>1, <2>2, <2>3
<1>10. ASSUME NEW i \in 1 .. n + 1
       PROVE  /\ d[i] = d[i - 1] + Len(vs[i])
              /\ \A k \in 1 .. Len(vs[i]) : z[d[i - 1] + k] = vs[i][k]
  <2>1. CASE i \in 1 .. n
    <3>1. i \in 0 .. n /\ i - 1 \in 0 .. n /\ vs[i] = ws[i]
      BY <2>1
    <3>2. /\ e[i] = e[i - 1] + Len(ws[i])
          /\ \A k \in 1 .. Len(ws[i]) : s[e[i - 1] + k] = ws[i][k]
      BY <1>1, <2>1 DEF Joints
    <3>3. ASSUME NEW k \in 1 .. Len(ws[i])
          PROVE  z[e[i - 1] + k] = ws[i][k]
      <4> DEFINE x == e[i - 1]
                 y == Len(ws[i])
      <4>1. x \in Nat /\ y \in Nat /\ k \in 1 .. y /\ x + y <= l
        BY <1>5, <2>1, <3>1, <3>2, LenProperties
      <4> HIDE DEF x, y
      <4>2. x + k \in 1 .. l + m /\ x + k <= l
        BY <1>2, <4>1
      <4>3. z[x + k] = s[x + k]
        BY <1>3, <4>2
      <4> QED
        BY <3>2, <4>3 DEF x
    <3> QED
      BY <1>6, <3>1, <3>2, <3>3
  <2>2. CASE i = n + 1
    <3>1. vs[i] = w /\ i - 1 = n /\ n \in 0 .. n
      BY <2>2
    <3>2. d[i - 1] = l /\ d[i] = l + m
      BY <1>4, <1>6, <1>7, <2>2, <3>1
    <3>3. ASSUME NEW k \in 1 .. m
          PROVE  z[l + k] = w[k]
      <4>1. l + k \in 1 .. l + m /\ ~(l + k <= l) /\ (l + k) - l = k
        BY <1>2
      <4> QED
        BY <1>3, <4>1
    <3> QED
      BY <3>1, <3>2, <3>3 DEF m
  <2> QED
    BY <2>1, <2>2
<1>11. Joints(d, z, vs, n + 1)
  <2>1. 0 \in 0 .. n
    OBVIOUS
  <2>2. d[0] = 0
    BY <1>4, <1>6, <2>1
  <2> QED
    BY <1>3, <1>7, <1>8, <1>9, <1>10, <2>2 DEF Joints
<1> QED
  BY <1>11 DEF Joined, z

-----------------------------------------------------------------------------
\* Requests, with any EC whatever.

Asks == {Asked(r) : r \in {x \in Requests : Supported(x)}}
Owed == [to : Asks \cup {Nobody}, message : Answers \cup Notices]

\* The packet that asks x.
PacketOf(x) ==
    << 2, 15, (8 + (Len(x.args) + 1)) % 256, 1, 1, x.eid, SOC_MCTP_ENTITY_ID, 211,
       125, 2, x.eid, 0, x.command >> \o x.args
Packets == [i \in 1 .. Len(unheard) |-> PacketOf(unheard[i])]
Outgoing == ecIn \o (tx \o data)

\* What is on its way to the EC is the packets of the requests it has not yet
\* heard, and it has read a part of the first.
RequestsQueue ==
    /\ unheard \in Seq(Asks) /\ owed \in Seq(Owed)
    /\ Joined(Outgoing, Packets, Len(unheard))
    /\ unheard # << >> => Len(ecIn) < Len(PacketOf(unheard[1]))

\* Different requests for the same make the same packet.
LEMMA PacketsFrame ==
    ASSUME NEW x \in Asks
    PROVE  /\ PacketOf(x) \in Seq(Byte)
           /\ Len(PacketOf(x)) > 4
           /\ Len(PacketOf(x)) = 4 + ByteCount(PacketOf(x))
           /\ Heard(PacketOf(x)) = x
           /\ \A r \in Requests : Supported(r) /\ Asked(r) = x => RequestPacket(r) = PacketOf(x)
<1>1. ASSUME NEW r \in Requests, Supported(r), Asked(r) = x
      PROVE  RequestPacket(r) = PacketOf(x)
  <2>1. Len(Arguments(r)) = PayloadLen(r)
    BY <1>1, ArgumentsTyped, LinkAssumption
  <2>2. /\ x.eid = destination_eid[r.service] /\ x.command = Command(r)
        /\ x.args = Arguments(r)
    BY <1>1 DEF Asked
  <2> QED
    BY <2>1, <2>2 DEF PacketOf, RequestPacket
<1>2. PICK r \in Requests : Supported(r) /\ Asked(r) = x
  BY DEF Asks
<1>3. /\ RequestPacket(r) \in Seq(Byte)
      /\ Len(RequestPacket(r)) > 4
      /\ Len(RequestPacket(r)) = 4 + ByteCount(RequestPacket(r))
      /\ Heard(RequestPacket(r)) = Asked(r)
  BY <1>2, RequestFraming, LinkAssumption
<1> QED
  BY <1>1, <1>2, <1>3

\* The EC hears a whole packet when it has read the last byte of it: the
\* oldest request that is on its way.
LEMMA ByteHeard ==
    ASSUME TypeInv, RequestsQueue, FarReadByte
    PROVE  /\ unheard # << >>
           /\ EcReceived \in Seq(Byte)
           /\ EcReceived \o (tx' \o data) = Outgoing
           /\ ~PacketEnds(EcReceived) => Len(EcReceived) < Len(PacketOf(unheard[1]))
           /\ PacketEnds(EcReceived) => EcReceived = PacketOf(unheard[1])
<1> DEFINE n == Len(unheard)
           p == PacketOf(unheard[1])
           r == EcReceived
           t == tx' \o data
<1>1. /\ ecIn \in Seq(Byte) /\ tx \in Seq(Byte) /\ data \in Seq(Byte) /\ tx # << >>
      /\ tx' = Tail(tx)
  BY DEF TypeInv, TypeOK, FarReadByte
<1>2. /\ r \in Seq(Byte) /\ tx' \in Seq(Byte) /\ Len(r) = Len(ecIn) + 1
      /\ r \o t = Outgoing
  <2>1. /\ Append(ecIn, Head(tx)) \in Seq(Byte) /\ Tail(tx) \in Seq(Byte)
        /\ Len(Append(ecIn, Head(tx))) = Len(ecIn) + 1
    BY <1>1, MoveHead
  <2>2. Append(ecIn, Head(tx)) \o (Tail(tx) \o data) = ecIn \o (tx \o data)
    BY <1>1, Hop
  <2> QED
    BY <1>1, <2>1, <2>2 DEF EcReceived, Outgoing
<1>3. t \in Seq(Byte)
  BY <1>1, <1>2, TwoParts
<1> HIDE DEF r, t
<1>4. Outgoing \in Seq(Byte) /\ Outgoing # << >>
  <2>1. tx \o data \in Seq(Byte) /\ tx \o data # << >>
    BY <1>1, TwoParts, ConcatEqualIffEmpty
  <2> QED
    BY <1>1, <2>1, TwoParts, ConcatEqualIffEmpty DEF Outgoing
<1>5. unheard # << >>
  <2>1. ASSUME unheard = << >> PROVE FALSE
    <3>1. Len(unheard) = 0
      BY <2>1
    <3>2. Joined(Outgoing, Packets, 0)
      BY <3>1 DEF RequestsQueue
    <3> QED
      BY <1>4, <3>2, JoinedNone
  <2> QED
    BY <2>1
<1>6. n \in Nat \ {0} /\ unheard[1] \in Asks /\ Packets[1] = p /\ 1 \in 1 .. n
  <2>1. n \in Nat \ {0}
    BY <1>5, EmptySeq, LenProperties DEF RequestsQueue
  <2>2. 1 \in 1 .. n
    BY <2>1
  <2>3. unheard[1] \in Asks
    BY <2>2, ElementOfSeq DEF RequestsQueue
  <2> QED
    BY <2>1, <2>2, <2>3 DEF Packets
<1>7. p \in Seq(Byte) /\ Len(p) \in Nat /\ Len(p) > 4 /\ Len(p) = 4 + p[3]
  BY <1>6, PacketsFrame, LenProperties DEF ByteCount
<1>8. \A k \in 1 .. Len(p) : Outgoing[k] = p[k]
  <2>1. Joined(Outgoing, Packets, n) /\ Packets[1] \in Seq(Byte)
    BY <1>6, <1>7 DEF RequestsQueue
  <2>2. \A k \in 1 .. Len(Packets[1]) : Outgoing[k] = Packets[1][k]
    BY <1>4, <1>6, <2>1, JoinedFirst
  <2> QED
    BY <1>6, <2>2
<1>9. Len(r) \in Nat /\ Len(r) <= Len(p)
  <2>1. Len(ecIn) \in Nat /\ Len(ecIn) < Len(p)
    BY <1>1, <1>5, LenProperties DEF RequestsQueue
  <2> QED
    BY <1>2, <1>7, <2>1
<1> HIDE DEF n, p
<1>10. \A k \in 1 .. Len(r) : r[k] = p[k]
  <2> SUFFICES ASSUME NEW k \in 1 .. Len(r) PROVE r[k] = p[k]
    OBVIOUS
  <2>1. Len(t) \in Nat
    BY <1>3, LenProperties
  <2>2. k \in 1 .. Len(r) + Len(t) /\ k <= Len(r) /\ k \in 1 .. Len(p)
    BY <1>7, <1>9, <2>1
  <2>3. (r \o t)[k] = r[k]
    BY <1>2, <1>3, <2>2, TwoParts
  <2> QED
    BY <1>2, <1>8, <2>2, <2>3
<1>11. Len(r) > 4 => r[3] = p[3]
  <2>1. Len(r) > 4 => 3 \in 1 .. Len(r)
    BY <1>9
  <2> QED
    BY <1>10, <2>1
<1>12. ~PacketEnds(r) => Len(r) < Len(p)
  BY <1>7, <1>9, <1>11 DEF PacketEnds, ByteCount, SMBUS_PACKET_HEADER_BYTES
<1>13. PacketEnds(r) => r = p
  <2>1. PacketEnds(r) => Len(r) = Len(p)
    BY <1>7, <1>11 DEF PacketEnds, ByteCount, SMBUS_PACKET_HEADER_BYTES
  <2> QED
    BY <1>2, <1>7, <1>10, <2>1, SeqEqual
<1> QED
  BY <1>2, <1>5, <1>12, <1>13 DEF r, t, p

LEMMA QueueInit == Init => RequestsQueue
<1> SUFFICES ASSUME Init PROVE RequestsQueue
  OBVIOUS
<1>1. unheard = << >> /\ owed = << >> /\ ecIn = << >> /\ tx = << >> /\ data = << >>
  BY DEF Init, UartInit
<1>2. << >> \in Seq(Byte) /\ << >> \in Seq(Asks) /\ << >> \in Seq(Owed)
  BY EmptySeq
<1>3. Outgoing = << >>
  BY <1>1, <1>2, ConcatEmptySeq DEF Outgoing
<1>4. Joined(<< >>, Packets, 0)
  BY <1>2, JoinedNone
<1>5. Len(unheard) = 0
  BY <1>1
<1> QED
  BY <1>1, <1>2, <1>3, <1>4, <1>5 DEF RequestsQueue

\* A step that leaves what is on its way to the EC as it is.
LEMMA QueueStays ==
    ASSUME RequestsQueue, UNCHANGED <<unheard, ecIn>>, owed' \in Seq(Owed), Outgoing' = Outgoing
    PROVE  RequestsQueue'
<1>1. Packets' = Packets
  BY DEF Packets
<1> QED
  BY <1>1 DEF RequestsQueue

\* A call puts its packet behind what is on its way.
LEMMA QueueAccept ==
    ASSUME TypeInv, RequestsQueue, NEW r \in Requests, AcceptCall(r)
    PROVE  RequestsQueue'
<1> DEFINE p == RequestPacket(r)
           n == Len(unheard)
<1>1. /\ ecIn \in Seq(Byte) /\ tx \in Seq(Byte) /\ data = << >> /\ << >> \in Seq(Byte)
      /\ unheard \in Seq(Asks)
  BY EmptySeq DEF AcceptCall, TypeInv, TypeOK, WriteInv, RequestsQueue
<1>2. /\ ecIn' = ecIn /\ tx' = tx /\ owed' = owed /\ data' = p
      /\ unheard' = Append(unheard, Asked(r)) /\ Supported(r)
  BY DEF AcceptCall, ecVars, uartVars
<1>3. Asked(r) \in Asks
  BY <1>2 DEF Asks
<1>4. p \in Seq(Byte) /\ Len(p) > 4 /\ p = PacketOf(Asked(r))
  BY <1>2, <1>3, PacketsFrame
<1> HIDE DEF p
<1>5. /\ unheard' \in Seq(Asks) /\ n \in Nat /\ Len(unheard') = n + 1
      /\ \A i \in 1 .. n : unheard'[i] = unheard[i]
      /\ unheard'[n + 1] = Asked(r)
  BY <1>1, <1>2, <1>3, AppendProperties, LenProperties
<1>6. Outgoing \in Seq(Byte) /\ Outgoing' = Outgoing \o p
  <2>1. tx \o data = tx
    BY <1>1, ConcatEmptySeq
  <2>2. Outgoing = ecIn \o tx
    BY <2>1 DEF Outgoing
  <2>3. Outgoing' = ecIn \o (tx \o p)
    BY <1>2 DEF Outgoing
  <2>4. (ecIn \o tx) \o p = ecIn \o (tx \o p)
    BY <1>1, <1>4, ConcatAssociative, SMTT(40)
  <2> QED
    BY <1>1, <2>2, <2>3, <2>4, TwoParts
<1>7. /\ \A i \in 1 .. n : /\ Packets'[i] = Packets[i] /\ Packets[i] \in Seq(Byte)
                           /\ Packets'[i] = PacketOf(unheard'[i])
      /\ Packets'[n + 1] = p
  <2>1. ASSUME NEW i \in 1 .. n
        PROVE  /\ Packets'[i] = Packets[i] /\ Packets[i] \in Seq(Byte)
               /\ Packets'[i] = PacketOf(unheard'[i])
    <3>1. i \in 1 .. n + 1 /\ unheard[i] \in Asks
      BY <1>1, <1>5, ElementOfSeq
    <3>2. Packets[i] = PacketOf(unheard[i]) /\ Packets'[i] = PacketOf(unheard'[i])
      BY <1>5, <3>1 DEF Packets
    <3> QED
      BY <1>5, <3>1, <3>2, PacketsFrame
  <2>2. n + 1 \in 1 .. n + 1
    BY <1>5
  <2>3. Packets'[n + 1] = PacketOf(unheard'[n + 1])
    BY <1>5, <2>2 DEF Packets
  <2> QED
    BY <1>4, <1>5, <2>1, <2>3
<1>8. Joined(Outgoing', Packets', n + 1)
  <2>1. Joined(Outgoing, Packets, n)
    BY DEF RequestsQueue
  <2> HIDE DEF n
  <2> QED
    BY <1>4, <1>5, <1>6, <1>7, <2>1, JoinedMore
<1>9. Len(ecIn) < Len(PacketOf(unheard'[1]))
  <2>1. CASE unheard = << >>
    <3>1. n = 0 /\ n + 1 = 1
      BY <2>1
    <3>2. Joined(Outgoing, Packets, 0)
      BY <3>1 DEF RequestsQueue
    <3>3. Outgoing = << >>
      BY <1>6, <3>2, JoinedNone
    <3>4. ecIn = << >>
      <4>1. tx \o data \in Seq(Byte)
        BY <1>1, TwoParts
      <4> QED
        BY <1>1, <3>3, <4>1, ConcatEqualIffEmpty DEF Outgoing
    <3>5. Len(ecIn) = 0 /\ unheard'[1] = Asked(r)
      BY <1>5, <3>1, <3>4
    <3> QED
      BY <1>4, <3>5
  <2>2. CASE unheard # << >>
    <3>1. n # 0
      BY <1>1, <2>2, EmptySeq
    <3>2. unheard'[1] = unheard[1]
      BY <1>5, <3>1
    <3> QED
      BY <2>2, <3>2 DEF RequestsQueue
  <2> QED
    BY <2>1, <2>2
<1> QED
  BY <1>2, <1>5, <1>8, <1>9 DEF RequestsQueue

\* The EC hears a byte, and perhaps with it a request: then the oldest leaves.
LEMMA QueueHeard ==
    ASSUME TypeInv, RequestsQueue, EcHear
    PROVE  /\ RequestsQueue'
           /\ EcReceive => UNCHANGED <<unheard, owed>>
           /\ \A a \in Answers : EcAnswer(a) =>
                 /\ unheard # << >> /\ unheard' = Tail(unheard)
                 /\ owed' = Append(owed, [to |-> Head(unheard), message |-> a])
<1> DEFINE n == Len(unheard)
           t == tx' \o data
<1>1. FarReadByte /\ data' = data
  BY DEF EcHear, EcReceive, EcAnswer, spVars
<1>2. /\ unheard # << >> /\ EcReceived \in Seq(Byte)
      /\ EcReceived \o (tx' \o data) = Outgoing
      /\ ~PacketEnds(EcReceived) => Len(EcReceived) < Len(PacketOf(unheard[1]))
      /\ PacketEnds(EcReceived) => EcReceived = PacketOf(unheard[1])
  BY <1>1, ByteHeard
<1>3. /\ unheard \in Seq(Asks) /\ owed \in Seq(Owed) /\ n \in Nat \ {0}
      /\ Joined(Outgoing, Packets, n)
  BY <1>2, EmptySeq, LenProperties DEF RequestsQueue
<1>4. tx \in Seq(Byte) /\ data \in Seq(Byte) /\ tx # << >> /\ tx' = Tail(tx)
  BY <1>1 DEF TypeInv, TypeOK, FarReadByte
<1>5. CASE EcReceive
  <2>1. /\ ecIn' = EcReceived /\ ~PacketEnds(EcReceived) /\ owed' = owed /\ unheard' = unheard
    BY <1>5 DEF EcReceive, histVars
  <2>2. Outgoing' = Outgoing /\ Packets' = Packets
    BY <1>1, <1>2, <2>1 DEF Outgoing, Packets
  <2>3. RequestsQueue'
    BY <1>2, <2>1, <2>2 DEF RequestsQueue
  <2>4. \A a \in Answers : ~EcAnswer(a)
    BY <2>1 DEF EcAnswer
  <2> QED
    BY <2>1, <2>3, <2>4
<1>6. CASE \E a \in Answers : EcAnswer(a)
  <2>1. /\ ecIn' = << >> /\ EcReceived = PacketOf(unheard[1]) /\ unheard' = Tail(unheard)
        /\ ~EcReceive
    BY <1>2, <1>6 DEF EcAnswer, EcReceive
  <2>2. unheard[1] \in Asks /\ Head(unheard) = unheard[1]
    BY <1>2, <1>3, ElementOfSeq
  <2>3. Heard(EcReceived) = Head(unheard) /\ Heard(EcReceived) \in Asks
    BY <2>1, <2>2, PacketsFrame
  <2>4. ASSUME NEW a \in Answers, EcAnswer(a)
        PROVE  /\ owed' = Append(owed, [to |-> Head(unheard), message |-> a])
               /\ owed' \in Seq(Owed)
    <3>1. owed' = Append(owed, [to |-> Head(unheard), message |-> a])
      BY <2>3, <2>4 DEF EcAnswer
    <3>2. [to |-> Head(unheard), message |-> a] \in Owed
      BY <2>3 DEF Owed
    <3> QED
      BY <1>3, <3>1, <3>2, AppendProperties
  <2>5. /\ Tail(unheard) \in Seq(Asks) /\ Len(Tail(unheard)) = n - 1
        /\ \A i \in 1 .. n - 1 : Tail(unheard)[i] = unheard[i + 1]
    BY <1>2, <1>3, HeadTailProperties
  <2>6. \A i \in 1 .. n : Packets[i] \in Seq(Byte) /\ Packets[i] = PacketOf(unheard[i])
    <3> SUFFICES ASSUME NEW i \in 1 .. n
                 PROVE  Packets[i] \in Seq(Byte) /\ Packets[i] = PacketOf(unheard[i])
      OBVIOUS
    <3>1. unheard[i] \in Asks /\ Packets[i] = PacketOf(unheard[i])
      BY <1>3, ElementOfSeq DEF Packets
    <3> QED
      BY <3>1, PacketsFrame
  <2>7. \A i \in 1 .. n - 1 : Packets'[i] = Packets[i + 1]
    <3> SUFFICES ASSUME NEW i \in 1 .. n - 1
                 PROVE  Packets'[i] = Packets[i + 1]
      OBVIOUS
    <3>1. i + 1 \in 1 .. n
      BY <1>3
    <3>2. Packets'[i] = PacketOf(unheard'[i])
      BY <2>1, <2>5 DEF Packets
    <3> QED
      BY <2>1, <2>5, <2>6, <3>1, <3>2
  <2>8. t \in Seq(Byte) /\ Outgoing' = t
    <3>1. Tail(tx) \in Seq(Byte)
      BY <1>4, HeadTailProperties
    <3>2. t \in Seq(Byte)
      BY <1>4, <3>1, TwoParts
    <3>3. Outgoing' = << >> \o t
      BY <1>1, <2>1 DEF Outgoing
    <3> HIDE DEF t
    <3> QED
      BY <3>2, <3>3, ConcatEmptySeq
  <2>9. Joined(t, Packets', n - 1)
    <3>1. Joined(EcReceived \o t, Packets, n)
      BY <1>2, <1>3
    <3>2. Len(EcReceived) = Len(Packets[1])
      <4>1. 1 \in 1 .. n
        BY <1>3
      <4> QED
        BY <2>1, <2>6, <4>1
    <3> HIDE DEF t, n
    <3> QED
      BY <1>2, <1>3, <2>6, <2>7, <2>8, <3>1, <3>2, JoinedRest
  <2>10. unheard' # << >> => Len(ecIn') < Len(PacketOf(unheard'[1]))
    <3> SUFFICES ASSUME unheard' # << >>
                 PROVE  Len(ecIn') < Len(PacketOf(unheard'[1]))
      OBVIOUS
    <3>1. unheard'[1] \in Asks
      <4>1. Len(unheard') # 0 /\ Len(unheard') \in Nat
        BY <2>1, <2>5, EmptySeq, LenProperties
      <4>2. 1 \in 1 .. Len(unheard')
        BY <4>1
      <4> QED
        BY <2>1, <2>5, <4>2, ElementOfSeq
    <3>2. Len(PacketOf(unheard'[1])) > 4 /\ Len(ecIn') = 0
      BY <2>1, <3>1, PacketsFrame
    <3> QED
      BY <3>2
  <2>11. RequestsQueue'
    BY <1>6, <2>1, <2>4, <2>5, <2>8, <2>9, <2>10 DEF RequestsQueue
  <2> QED
    BY <1>2, <2>1, <2>4, <2>11
<1> QED
  BY <1>5, <1>6 DEF EcHear

\* What is left of the messages that are owed when the oldest is delivered.
LEMMA OldestLeaves ==
    ASSUME NEW S, NEW q \in Seq(S)
    PROVE  /\ SubSeq(q, 2, Len(q)) \in Seq(S)
           /\ q = << >> => SubSeq(q, 2, Len(q)) = << >>
           /\ q # << >> => /\ Len(SubSeq(q, 2, Len(q))) = Len(q) - 1
                           /\ \A i \in 1 .. Len(q) - 1 : SubSeq(q, 2, Len(q))[i] = q[i + 1]
<1> DEFINE n == Len(q)
<1>1. n \in Nat
  BY LenProperties
<1>2. \A i \in 2 .. n : q[i] \in S
  BY <1>1, ElementOfSeq
<1> HIDE DEF n
<1>3. /\ SubSeq(q, 2, n) \in Seq(S)
      /\ Len(SubSeq(q, 2, n)) = IF 2 <= n THEN n - 2 + 1 ELSE 0
      /\ \A i \in 1 .. n - 2 + 1 : SubSeq(q, 2, n)[i] = q[2 + i - 1]
  BY <1>1, <1>2, SubSeqProperties
<1>4. CASE q = << >>
  <2>1. n = 0
    BY <1>4 DEF n
  <2>2. Len(SubSeq(q, 2, n)) = 0
    BY <1>3, <2>1
  <2> QED
    BY <1>3, <1>4, <2>2, EmptySeq DEF n
<1>5. CASE q # << >>
  <2>1. n # 0
    BY <1>5, EmptySeq DEF n
  <2>2. Len(SubSeq(q, 2, n)) = n - 1
    BY <1>1, <1>3, <2>1
  <2>3. \A i \in 1 .. n - 1 : i \in 1 .. n - 2 + 1 /\ 2 + i - 1 = i + 1
    BY <1>1
  <2>4. \A i \in 1 .. n - 1 : SubSeq(q, 2, n)[i] = q[i + 1]
    BY <1>3, <2>3
  <2> QED
    BY <1>3, <1>5, <2>2, <2>4 DEF n
<1> QED
  BY <1>4, <1>5

\* No other step adds a request or has one heard.
LEMMA QueueSp ==
    ASSUME TypeInv, RequestsQueue,
           SpStep \/ EcSend \/ (\E n \in Notices : EcNotify(n)) \/ UNCHANGED vars
              \/ \E r \in Requests : RefuseCall(r)
    PROVE  RequestsQueue' /\ UNCHANGED unheard
<1>1. tx \in Seq(Byte) /\ data \in Seq(Byte) /\ owed \in Seq(Owed)
  BY DEF TypeInv, TypeOK, RequestsQueue
<1>2. CASE WriteRequest
  <2>1. data # << >> /\ tx' = Append(tx, Head(data)) /\ data' = Tail(data)
    BY <1>2 DEF WriteRequest, WriteByte, TypeInv, WriteInv
  <2>2. tx' \o data' = tx \o data
    BY <1>1, <2>1, MoveHead, SMTT(40)
  <2>3. UNCHANGED <<unheard, ecIn, owed>>
    BY <1>2 DEF WriteRequest, ecVars, histVars
  <2> QED
    BY <1>1, <2>2, <2>3, QueueStays DEF Outgoing
<1>3. CASE ReadMore \/ CollectFragment \/ RejectCount \/ RejectFragment
  <2>1. UNCHANGED <<unheard, ecIn, owed, tx, data>>
    BY <1>3 DEF ReadMore, CollectFragment, FragmentRead, RejectCount, RejectFragment, Panic,
       ReadByte, ecVars, histVars
  <2> QED
    BY <1>1, <2>1, QueueStays DEF Outgoing
<1>4. CASE ReturnAnswer
  <2>1. UNCHANGED <<unheard, ecIn, tx, data>> /\ owed' = SubSeq(owed, 2, Len(owed))
    BY <1>4 DEF ReturnAnswer, FragmentRead, ReadByte, ecVars
  <2>2. owed' \in Seq(Owed)
    BY <1>1, <2>1, OldestLeaves
  <2> QED
    BY <2>1, <2>2, QueueStays DEF Outgoing
<1>5. CASE EcSend \/ UNCHANGED vars \/ \E r \in Requests : RefuseCall(r)
  <2>1. UNCHANGED <<unheard, ecIn, owed, tx, data>>
    BY <1>5 DEF EcSend, RefuseCall, FarWriteByte, vars, spVars, uartVars, ecVars, histVars
  <2> QED
    BY <1>1, <2>1, QueueStays DEF Outgoing
<1>6. ASSUME NEW n \in Notices, EcNotify(n)
      PROVE  RequestsQueue' /\ UNCHANGED unheard
  <2>1. UNCHANGED <<unheard, ecIn, tx, data>>
        /\ owed' = Append(owed, [to |-> Nobody, message |-> n])
    BY <1>6 DEF EcNotify, spVars, uartVars
  <2>2. [to |-> Nobody, message |-> n] \in Owed
    BY DEF Owed
  <2>3. owed' \in Seq(Owed)
    BY <1>1, <2>1, <2>2, AppendProperties
  <2> QED
    BY <2>1, <2>3, QueueStays DEF Outgoing
<1> QED
  BY <1>2, <1>3, <1>4, <1>5, <1>6 DEF SpStep

LEMMA QueueStep ==
    ASSUME TypeInv, RequestsQueue, [Next]_vars
    PROVE  RequestsQueue'
<1>1. CASE \/ SpStep \/ EcSend \/ (\E n \in Notices : EcNotify(n)) \/ UNCHANGED vars
           \/ \E r \in Requests : RefuseCall(r)
  BY <1>1, QueueSp
<1>2. CASE EcHear
  BY <1>2, QueueHeard
<1>3. CASE \E r \in Requests : AcceptCall(r)
  BY <1>3, QueueAccept
<1> QED
  BY <1>1, <1>2, <1>3 DEF Next

\* Whatever the EC sends, and however often it speaks unasked: it hears the
\* requests in the order they were made, each with the service, the command
\* and the argument bytes it was made with.
THEOREM RequestsHeardInOrder == Spec => HeardAsAsked
<1>1. TypeInv /\ RequestsQueue /\ [Next]_vars =>
        [Len(unheard') < Len(unheard) => owed'[Len(owed')].to = Head(unheard)]_vars
  <2> SUFFICES ASSUME TypeInv, RequestsQueue, [Next]_vars, Len(unheard') < Len(unheard)
               PROVE  owed'[Len(owed')].to = Head(unheard)
    OBVIOUS
  <2>0. unheard \in Seq(Asks) /\ owed \in Seq(Owed) /\ Len(unheard) \in Nat
    BY LenProperties DEF RequestsQueue
  <2>1. unheard' # unheard
    BY <2>0
  <2>2. ASSUME NEW r \in Requests, AcceptCall(r)
        PROVE  FALSE
    <3>1. unheard' = Append(unheard, Asked(r)) /\ Asked(r) \in Asks
      BY <2>2 DEF AcceptCall, Asks
    <3>2. Len(unheard') = Len(unheard) + 1
      BY <2>0, <3>1, AppendProperties
    <3> QED
      BY <2>0, <3>2
  <2>3. EcHear
    BY <2>1, <2>2, QueueSp DEF Next
  <2>4. PICK a \in Answers : EcAnswer(a)
    BY <2>1, <2>3, QueueHeard DEF EcHear
  <2>5. /\ unheard # << >>
        /\ owed' = Append(owed, [to |-> Head(unheard), message |-> a])
    BY <2>3, <2>4, QueueHeard
  <2>6. [to |-> Head(unheard), message |-> a] \in Owed
    <3>1. Head(unheard) \in Asks
      BY <2>0, <2>5, HeadTailProperties
    <3> QED
      BY <3>1 DEF Owed
  <2>7. Len(owed') = Len(owed) + 1
        /\ owed'[Len(owed) + 1] = [to |-> Head(unheard), message |-> a]
    BY <2>0, <2>5, <2>6, AppendProperties
  <2> QED
    BY <2>7
<1> QED
  BY <1>1, QueueInit, QueueStep, TypeCorrect, PTL DEF Spec, HeardAsAsked

\* Whatever the EC sends: when no byte can move, the EC has heard every request
\* to its last byte (handle_message's byte count and EcUart::write), and has
\* nothing to send.
THEOREM NobodyWaitsForBoth == Spec => []WaitsOnlyForTheEc
<1>1. TypeInv /\ RequestsQueue => WaitsOnlyForTheEc
  <2> SUFFICES ASSUME TypeInv, RequestsQueue, pc \in {"write", "read"}, ~ByteCanMove
               PROVE  Starved
    BY DEF WaitsOnlyForTheEc
  <2>1. /\ Len(<< >>) = 0 /\ << >> \in Seq(Byte) /\ FifoDepth > 0
        /\ ecIn \in Seq(Byte) /\ unheard \in Seq(Asks)
    BY EmptySeq, UartAssumption DEF TypeInv, TypeOK, RequestsQueue
  <2>2. tx = << >>
    BY DEF ByteCanMove
  <2>3. pc = "read"
    BY <2>1, <2>2 DEF ByteCanMove
  <2>4. rx = << >> /\ data = << >>
    BY <2>3 DEF ByteCanMove, TypeInv, WriteInv
  <2>5. ecOut = << >>
    BY <2>1, <2>4 DEF ByteCanMove
  <2>6. Outgoing = ecIn
    BY <2>1, <2>2, <2>4, ConcatEmptySeq DEF Outgoing
  <2>7. ASSUME unheard # << >> PROVE FALSE
    <3> DEFINE n == Len(unheard)
               p == PacketOf(unheard[1])
    <3>1. n \in Nat \ {0} /\ 1 \in 1 .. n
      BY <2>1, <2>7, EmptySeq, LenProperties
    <3>2. unheard[1] \in Asks
      BY <2>1, <3>1, ElementOfSeq
    <3>3. p \in Seq(Byte) /\ Packets[1] = p
      BY <3>1, <3>2, PacketsFrame DEF Packets
    <3>4. Joined(ecIn, Packets, n) /\ Len(ecIn) < Len(p)
      BY <2>6, <2>7 DEF RequestsQueue
    <3> HIDE DEF n, p
    <3>5. Len(Packets[1]) <= Len(ecIn)
      BY <2>1, <3>1, <3>3, <3>4, JoinedFirst
    <3>6. Len(p) \in Nat /\ Len(ecIn) \in Nat
      BY <2>1, <3>3, LenProperties
    <3> QED
      BY <3>3, <3>4, <3>5, <3>6
  <2> QED
    BY <2>3, <2>4, <2>5, <2>7 DEF Starved
<1>2. Init => RequestsQueue
  BY QueueInit
<1>3. TypeInv /\ RequestsQueue /\ [Next]_vars => RequestsQueue'
  BY QueueStep
<1> QED
  BY <1>1, <1>2, <1>3, TypeCorrect, PTL DEF Spec

-----------------------------------------------------------------------------
\* Messages, with an EC whose answers and notices are conforming.

Incoming == buffer \o (rx \o ecOut)
Wires == [i \in 1 .. Len(owed) |-> owed[i].message.wire]

\* The partition reads the packet that starts at c of a, the oldest message;
\* between calls it has not begun to read.
InMessage(a, c) ==
    /\ a = owed[1].message
    /\ c \in a.cuts \ {Len(a.wire)}
    /\ out_buf = a.upto[c]
    /\ Len(buffer) < 4 + a.wire[c + 3]
    /\ Joined(SubSeq(a.wire, 1, c) \o Incoming, Wires, Len(owed))
    /\ pc # "read" => c = 0 /\ buffer = << >>

\* What is on its way to the partition is the messages that are owed, and it has
\* read a part of the first.  The books are those of NeverCatchesUp.
MessagesQueue ==
    /\ pc # "panic"
    /\ owed = << >> => Incoming = << >> /\ out_buf = << >>
    /\ owed # << >> => \E a, c : InMessage(a, c)
    /\ Len(unheard) + Len(owed) = notices + (IF pc = "idle" THEN 0 ELSE 1)

\* The beginning of a sequence of bytes.
LEMMA Beginning ==
    ASSUME NEW w \in Seq(Byte), NEW d \in 0 .. Len(w)
    PROVE  /\ SubSeq(w, 1, d) \in Seq(Byte) /\ Len(SubSeq(w, 1, d)) = d
           /\ \A i \in 1 .. d : SubSeq(w, 1, d)[i] = w[i]
<1>1. Len(w) \in Nat /\ 0 \in 0 .. Len(w) /\ d \in 0 .. Len(w)
  BY LenProperties
<1>2. /\ SubSeq(w, 0 + 1, d) \in Seq(Byte)
      /\ Len(SubSeq(w, 0 + 1, d)) = d - 0
      /\ \A i \in 1 .. d - 0 : SubSeq(w, 0 + 1, d)[i] = w[0 + i]
  BY <1>1, SliceProperties
<1>3. 0 + 1 = 1 /\ d - 0 = d /\ \A i \in 1 .. d : 0 + i = i
  BY <1>1
<1>4. \A i \in 1 .. d : SubSeq(w, 1, d)[i] = w[0 + i]
  BY <1>2, <1>3
<1> QED
  BY <1>2, <1>3, <1>4

\* Three parts, put together in either order.
LEMMA Regroup ==
    ASSUME NEW x \in Seq(Byte), NEW y \in Seq(Byte), NEW z \in Seq(Byte)
    PROVE  x \o (y \o z) = (x \o y) \o z
BY ConcatAssociative, SMTT(40)

\* A sequence that begins with w, cut behind what is read of w.
LEMMA CutBehind ==
    ASSUME NEW w \in Seq(Byte), NEW c \in Nat, NEW b \in Seq(Byte), NEW t \in Seq(Byte),
           c + Len(b) <= Len(w),
           \A k \in 1 .. Len(w) : (SubSeq(w, 1, c) \o (b \o t))[k] = w[k]
    PROVE  /\ \A i \in 1 .. Len(b) : b[i] = w[c + i]
           /\ SubSeq(w, 1, c) \o (b \o t) = SubSeq(w, 1, c + Len(b)) \o t
<1> DEFINE u == SubSeq(w, 1, c)
           v == SubSeq(w, 1, c + Len(b))
           l == Len(b)
           m == Len(t)
<1>1. /\ Len(w) \in Nat /\ l \in Nat /\ m \in Nat /\ c \in 0 .. Len(w)
      /\ c + l \in 0 .. Len(w) /\ c \in Nat
  BY LenProperties
<1>2. u \in Seq(Byte) /\ Len(u) = c
  BY <1>1, Beginning
<1>3. v \in Seq(Byte) /\ Len(v) = c + l /\ \A i \in 1 .. c + l : v[i] = w[i]
  BY <1>1, Beginning
<1>4. \A i \in 1 .. c : u[i] = w[i]
  BY <1>1, Beginning
<1>5. \A k \in 1 .. Len(w) : (u \o (b \o t))[k] = w[k]
  OBVIOUS
<1> HIDE DEF u, v
<1>6. /\ b \o t \in Seq(Byte) /\ Len(b \o t) = l + m
      /\ \A i \in 1 .. l + m : (b \o t)[i] = IF i <= l THEN b[i] ELSE t[i - l]
  BY TwoParts
<1>7. \A i \in 1 .. c + (l + m) :
        (u \o (b \o t))[i] = IF i <= c THEN u[i] ELSE (b \o t)[i - c]
  <2>1. \A i \in 1 .. Len(u) + Len(b \o t) :
          (u \o (b \o t))[i] = IF i <= Len(u) THEN u[i] ELSE (b \o t)[i - Len(u)]
    BY <1>2, <1>6, TwoParts
  <2> QED
    BY <1>2, <1>6, <2>1
<1> HIDE DEF l, m
<1>8. ASSUME NEW i \in 1 .. l
      PROVE  b[i] = w[c + i]
  <2>1. /\ c + i \in 1 .. c + (l + m) /\ ~(c + i <= c) /\ (c + i) - c = i
        /\ i \in 1 .. l + m /\ i <= l /\ c + i \in 1 .. Len(w)
    BY <1>1
  <2>2. (u \o (b \o t))[c + i] = (b \o t)[i]
    BY <1>7, <2>1
  <2>3. (b \o t)[i] = b[i]
    BY <1>6, <2>1
  <2> QED
    BY <1>5, <2>1, <2>2, <2>3
<1>9. u \o b = v
  <2>1. /\ u \o b \in Seq(Byte) /\ Len(u \o b) = c + l
        /\ \A i \in 1 .. c + l : (u \o b)[i] = IF i <= c THEN u[i] ELSE b[i - c]
    <3>1. /\ u \o b \in Seq(Byte) /\ Len(u \o b) = Len(u) + Len(b)
          /\ \A i \in 1 .. Len(u) + Len(b) :
                (u \o b)[i] = IF i <= Len(u) THEN u[i] ELSE b[i - Len(u)]
      BY <1>2, TwoParts
    <3> QED
      BY <1>2, <3>1 DEF l
  <2>2. ASSUME NEW i \in 1 .. c + l
        PROVE  (u \o b)[i] = v[i]
    <3>1. CASE i <= c
      <4>1. i \in 1 .. c
        BY <1>1, <3>1
      <4> QED
        BY <1>3, <1>4, <2>1, <3>1, <4>1
    <3>2. CASE ~(i <= c)
      <4>1. i - c \in 1 .. l /\ c + (i - c) = i
        BY <1>1, <3>2
      <4>2. b[i - c] = w[i]
        BY <1>8, <4>1
      <4> QED
        BY <1>3, <2>1, <3>2, <4>2
    <3> QED
      BY <3>1, <3>2
  <2> QED
    BY <1>3, <2>1, <2>2, SeqEqual
<1>10. u \o (b \o t) = (u \o b) \o t
  BY <1>2, Regroup
<1> QED
  BY <1>8, <1>9, <1>10 DEF u, v, l

\* Where a conforming message starts.
LEMMA MessageStart ==
    ASSUME NEW a, Conforming(a)
    PROVE  /\ a.wire \in Seq(Byte) /\ a.wire # << >>
           /\ 0 \in a.cuts \ {Len(a.wire)} /\ a.upto[0] = << >>
           /\ 0 < 4 + a.wire[0 + 3]
<1>1. a.wire \in Seq(Byte) /\ a.wire # << >> /\ 0 \in a.cuts /\ a.upto[0] = << >>
  BY DEF Conforming
<1>2. 0 \in a.cuts \ {Len(a.wire)}
  BY <1>1, EmptySeq
<1> DEFINE n == a.wire[0 + 3]
<1>3. n \in 4 .. 69
  BY <1>2, ConformingFacts
<1> HIDE DEF n
<1>4. 0 < 4 + n
  BY <1>3
<1> QED
  BY <1>1, <1>2, <1>4 DEF n

\* Every message that is owed is conforming.
LEMMA OwedConforms ==
    ASSUME RequestsQueue, ConformingEc, ConformingNotices
    PROVE  /\ owed \in Seq(Owed) /\ Len(owed) \in Nat
           /\ \A i \in 1 .. Len(owed) : /\ Conforming(owed[i].message)
                                        /\ Wires[i] = owed[i].message.wire
                                        /\ Wires[i] \in Seq(Byte)
<1>1. owed \in Seq(Owed) /\ Len(owed) \in Nat
  BY LenProperties DEF RequestsQueue
<1>2. ASSUME NEW i \in 1 .. Len(owed)
      PROVE  /\ Conforming(owed[i].message) /\ Wires[i] = owed[i].message.wire
             /\ Wires[i] \in Seq(Byte)
  <2>1. owed[i] \in Owed
    BY <1>1, ElementOfSeq
  <2>2. owed[i].message \in Answers \cup Notices
    BY <2>1 DEF Owed
  <2>3. Conforming(owed[i].message)
    BY <2>2 DEF ConformingEc, ConformingNotices
  <2>4. Wires[i] = owed[i].message.wire
    BY DEF Wires
  <2> QED
    BY <2>3, <2>4, MessageStart
<1> QED
  BY <1>1, <1>2

LEMMA MessagesInit == Init => MessagesQueue
<1> SUFFICES ASSUME Init PROVE MessagesQueue
  OBVIOUS
<1>1. /\ unheard = << >> /\ owed = << >> /\ buffer = << >> /\ rx = << >> /\ ecOut = << >>
      /\ out_buf = << >> /\ pc = "idle" /\ notices = 0
  BY DEF Init, UartInit
<1>2. Incoming = << >> \o (<< >> \o << >>) /\ << >> \in Seq(Byte)
  BY <1>1, EmptySeq DEF Incoming
<1>3. Incoming = << >>
  BY <1>2, ConcatEmptySeq
<1>4. Len(unheard) = 0 /\ Len(owed) = 0
  BY <1>1
<1> QED
  BY <1>1, <1>3, <1>4 DEF MessagesQueue

\* A step that leaves what is on its way to the partition as it is.
LEMMA MessagesStay ==
    ASSUME MessagesQueue, UNCHANGED <<owed, out_buf, buffer, notices>>, Incoming' = Incoming,
           pc' # "panic", pc # "read" \/ pc' = "read",
           Len(unheard') + (IF pc = "idle" THEN 0 ELSE 1)
             = Len(unheard) + (IF pc' = "idle" THEN 0 ELSE 1),
           Len(unheard) \in Nat, Len(unheard') \in Nat, Len(owed) \in Nat, notices \in Nat
    PROVE  MessagesQueue'
<1>1. Wires' = Wires
  BY DEF Wires
<1>2. owed' # << >> => \E a, c : InMessage(a, c)'
  <2> SUFFICES ASSUME owed # << >>
               PROVE  \E a, c : InMessage(a, c)'
    OBVIOUS
  <2>1. PICK a, c : InMessage(a, c)
    BY DEF MessagesQueue
  <2>2. InMessage(a, c)'
    BY <1>1, <2>1 DEF InMessage, Incoming
  <2> QED
    BY <2>2
<1>3. Len(unheard') + Len(owed') = notices' + (IF pc' = "idle" THEN 0 ELSE 1)
  BY DEF MessagesQueue
<1> QED
  BY <1>2, <1>3 DEF MessagesQueue

\* The EC sends a message more: m, to q.
LEMMA MessagesMore ==
    ASSUME TypeInv, RequestsQueue, MessagesQueue, ConformingEc, ConformingNotices,
           NEW m \in Answers \cup Notices, NEW q \in Asks \cup {Nobody},
           owed' = Append(owed, [to |-> q, message |-> m]), ecOut' = ecOut \o m.wire,
           UNCHANGED <<pc, buffer, out_buf, rx>>
    PROVE  /\ Len(owed') = Len(owed) + 1
           /\ owed' # << >> /\ \E a, c : InMessage(a, c)'
<1> DEFINE n == Len(owed)
           w == m.wire
<1>1. /\ owed \in Seq(Owed) /\ n \in Nat
      /\ \A i \in 1 .. n : /\ Conforming(owed[i].message)
                           /\ Wires[i] = owed[i].message.wire /\ Wires[i] \in Seq(Byte)
  BY OwedConforms
<1>2. Conforming(m)
  BY DEF ConformingEc, ConformingNotices
<1>3. /\ w \in Seq(Byte) /\ w # << >> /\ 0 \in m.cuts \ {Len(w)} /\ m.upto[0] = << >>
      /\ 0 < 4 + m.wire[0 + 3]
  BY <1>2, MessageStart
<1>4. /\ owed' \in Seq(Owed) /\ Len(owed') = n + 1 /\ owed' # << >>
      /\ \A i \in 1 .. n : owed'[i] = owed[i]
      /\ owed'[n + 1] = [to |-> q, message |-> m]
  <2>1. [to |-> q, message |-> m] \in Owed
    BY DEF Owed
  <2> QED
    BY <1>1, <2>1, AppendProperties
<1>5. buffer \in Seq(Byte) /\ rx \in Seq(Byte) /\ ecOut \in Seq(Byte) /\ << >> \in Seq(Byte)
  BY EmptySeq DEF TypeInv, TypeOK
<1> HIDE DEF w, n
<1>6. Incoming \in Seq(Byte) /\ Incoming' = Incoming \o w
  <2> DEFINE y == rx \o ecOut
  <2>1. y \in Seq(Byte)
    BY <1>5, TwoParts
  <2>2. rx \o (ecOut \o w) = y \o w
    BY <1>3, <1>5, Regroup, SMTT(40)
  <2> HIDE DEF y
  <2>3. buffer \in Seq(Byte) /\ w \in Seq(Byte)
    BY <1>3, <1>5
  <2>4. buffer \o (y \o w) = (buffer \o y) \o w
    BY <2>1, <2>3, Regroup, Zenon
  <2>5. Incoming' = buffer \o (rx \o (ecOut \o w))
    BY DEF Incoming, w
  <2> QED
    BY <1>5, <2>1, <2>2, <2>4, <2>5, TwoParts DEF Incoming, y
<1>7. /\ \A i \in 1 .. n : Wires'[i] = Wires[i]
      /\ Wires'[n + 1] = w
  <2>1. ASSUME NEW i \in 1 .. n
        PROVE  Wires'[i] = Wires[i]
    <3>1. i \in 1 .. n + 1
      BY <1>1
    <3>2. Wires'[i] = owed'[i].message.wire
      BY <1>4, <3>1 DEF Wires
    <3> QED
      BY <1>1, <1>4, <3>2
  <2>2. n + 1 \in 1 .. n + 1
    BY <1>1
  <2>3. Wires'[n + 1] = owed'[n + 1].message.wire
    BY <1>4, <2>2 DEF Wires
  <2> QED
    BY <1>4, <2>1, <2>3 DEF w
<1>8. CASE owed = << >>
  <2>1. n = 0 /\ n + 1 = 1
    BY <1>8 DEF n
  <2>2. Incoming = << >> /\ out_buf = << >>
    BY <1>8 DEF MessagesQueue
  <2>3. buffer = << >>
    <3>1. rx \o ecOut \in Seq(Byte)
      BY <1>5, TwoParts
    <3> QED
      BY <1>5, <2>2, <3>1, ConcatEqualIffEmpty DEF Incoming
  <2>4. Joined(<< >>, Wires, 0)
    BY <1>5, JoinedNone
  <2>5. Joined(<< >> \o w, Wires', 0 + 1)
    <3>1. /\ \A i \in 1 .. 0 : Wires'[i] = Wires[i] /\ Wires[i] \in Seq(Byte)
          /\ Wires'[0 + 1] = w /\ 0 \in Nat
      BY <1>7, <2>1
    <3> QED
      BY <1>3, <1>5, <2>4, <3>1, JoinedMore
  <2>6. SubSeq(w, 1, 0) \o Incoming' = << >> \o w
    <3>1. SubSeq(w, 1, 0) = << >>
      BY SubSeqEmpty
    <3>2. << >> \o (<< >> \o w) = << >> \o w
      BY <1>3, ConcatEmptySeq
    <3> QED
      BY <1>6, <2>2, <3>1, <3>2
  <2>7. owed'[1].message = m /\ Len(owed') = 0 + 1
    BY <1>4, <2>1
  <2>8. Len(buffer') < 4 + m.wire[0 + 3]
    <3>1. Len(buffer') = 0
      BY <2>3
    <3> QED
      BY <1>3, <3>1
  <2>9. InMessage(m, 0)'
    BY <1>3, <2>2, <2>3, <2>5, <2>6, <2>7, <2>8 DEF InMessage, w
  <2> QED
    BY <1>4, <2>9 DEF n
<1>9. CASE owed # << >>
  <2>1. PICK a, c : InMessage(a, c)
    BY <1>9 DEF MessagesQueue
  <2> DEFINE s == SubSeq(a.wire, 1, c)
  <2>2. n # 0
    BY <1>1, <1>9, EmptySeq DEF n
  <2>3. owed'[1] = owed[1] /\ 1 \in 1 .. n
    BY <1>1, <1>4, <2>2
  <2>4. s \in Seq(Byte)
    <3>1. Conforming(a) /\ c \in a.cuts
      BY <1>1, <2>1, <2>3 DEF InMessage
    <3>2. a.wire \in Seq(Byte) /\ c \in 0 .. Len(a.wire)
      BY <3>1 DEF Conforming
    <3> QED
      BY <3>2, Beginning
  <2>5. Joined(s \o Incoming, Wires, n)
    BY <2>1 DEF InMessage, n
  <2> HIDE DEF s
  <2>6. Joined((s \o Incoming) \o w, Wires', n + 1)
    <3>1. s \o Incoming \in Seq(Byte)
      BY <1>6, <2>4, TwoParts
    <3> QED
      BY <1>1, <1>3, <1>7, <2>5, <3>1, JoinedMore
  <2>7. (s \o Incoming) \o w = s \o Incoming'
    BY <1>3, <1>6, <2>4, Regroup
  <2>8. Joined(s \o Incoming', Wires', Len(owed'))
    BY <1>4, <2>6, <2>7
  <2>9. InMessage(a, c)'
    BY <2>1, <2>3, <2>8 DEF InMessage, Incoming, s
  <2> QED
    BY <1>4, <2>9 DEF n
<1> QED
  BY <1>8, <1>9

\* What a byte read makes of the packet of a that starts at c.
ReadIn(a, c) ==
    /\ InMessage(a, c) /\ Conforming(a) /\ Wires[1] = a.wire
    /\ HeaderRead(NextBuffer) => CountValid(ByteCount(NextBuffer))
    /\ ~PacketEnds(NextBuffer) =>
          /\ Len(NextBuffer) < 4 + a.wire[c + 3]
          /\ Joined(SubSeq(a.wire, 1, c) \o (NextBuffer \o (rx' \o ecOut)), Wires, Len(owed))
    /\ PacketEnds(NextBuffer) =>
          /\ SliceFits(NextBuffer, out_buf)
          /\ out_buf \o out_slice(NextBuffer) = a.upto[EndOfPacket(a, c)]
          /\ Eom(Flags(NextBuffer)) <=> EndOfPacket(a, c) = Len(a.wire)
          /\ Joined(SubSeq(a.wire, 1, EndOfPacket(a, c)) \o (rx' \o ecOut), Wires, Len(owed))

\* A byte that is read is one of the oldest message, in its place.
LEMMA MessageRead ==
    ASSUME TypeInv, RequestsQueue, MessagesQueue, ConformingEc, ConformingNotices, ReadByte
    PROVE  owed # << >> /\ \E a, c : ReadIn(a, c)
<1> DEFINE n == Len(owed)
           b == NextBuffer
           t == rx' \o ecOut
<1>1. /\ b \in Seq(Byte) /\ Len(b) = Len(buffer) + 1 /\ rx' \in Seq(Byte)
      /\ rx \in Seq(Byte) /\ rx # << >> /\ rx' = Tail(rx)
      /\ buffer \in Seq(Byte) /\ ecOut \in Seq(Byte)
  BY NextBufferTyped DEF TypeInv, TypeOK
<1>2. t \in Seq(Byte)
  BY <1>1, TwoParts
<1>3. b \o t = Incoming
  <2>1. Append(buffer, Head(rx)) \o (Tail(rx) \o ecOut) = buffer \o (rx \o ecOut)
    BY <1>1, Hop
  <2> QED
    BY <1>1, <2>1 DEF NextBuffer, Incoming
<1> HIDE DEF b, t
<1>4. owed # << >>
  <2>1. rx \o ecOut \in Seq(Byte) /\ rx \o ecOut # << >>
    BY <1>1, TwoParts, ConcatEqualIffEmpty
  <2>2. Incoming # << >>
    BY <1>1, <2>1, ConcatEqualIffEmpty DEF Incoming
  <2> QED
    BY <2>2 DEF MessagesQueue
<1>5. PICK a, c : InMessage(a, c)
  BY <1>4 DEF MessagesQueue
<1>6. /\ n \in Nat \ {0} /\ Conforming(a) /\ c \in a.cuts \ {Len(a.wire)}
      /\ Wires[1] = a.wire
  <2>1. owed \in Seq(Owed) /\ n \in Nat
    BY OwedConforms
  <2>2. n # 0
    BY <1>4, <2>1, EmptySeq
  <2>3. 1 \in 1 .. n /\ n \in Nat \ {0}
    BY <2>1, <2>2
  <2>4. Conforming(owed[1].message) /\ Wires[1] = owed[1].message.wire
    BY <2>3, OwedConforms
  <2> QED
    BY <1>5, <2>3, <2>4 DEF InMessage
<1> DEFINE w == a.wire
           k == a.wire[c + 3]
           e == EndOfPacket(a, c)
           s == SubSeq(a.wire, 1, c) \o (b \o t)
<1>7. /\ w \in Seq(Byte) /\ Len(w) \in Nat /\ c \in 0 .. Len(w) - 1 /\ k \in 4 .. 69
      /\ e = c + 4 + k /\ e \in 0 .. Len(w)
  BY <1>6, ConformingFacts
<1>8. Len(buffer) \in Nat /\ Len(buffer) < 4 + k
  BY <1>1, <1>5, LenProperties DEF InMessage
<1>9. Joined(s, Wires, n)
  BY <1>3, <1>5 DEF InMessage
<1>10. s \in Seq(Byte)
  <2>1. b \o t \in Seq(Byte)
    BY <1>1, <1>2, TwoParts DEF b
  <2>2. c \in 0 .. Len(a.wire) /\ a.wire \in Seq(Byte)
    BY <1>7
  <2>3. SubSeq(a.wire, 1, c) \in Seq(Byte)
    BY <2>2, Beginning
  <2> QED
    BY <2>1, <2>3, TwoParts
<1> HIDE DEF s
<1>11. \A i \in 1 .. Len(w) : s[i] = w[i]
  <2>1. \A i \in 1 .. Len(Wires[1]) : s[i] = Wires[1][i]
    BY <1>6, <1>7, <1>9, <1>10, JoinedFirst, SMTT(40)
  <2> QED
    BY <1>6, <2>1
<1>12. /\ Len(b) \in Nat /\ Len(b) <= 4 + k /\ c + Len(b) <= Len(w) /\ c \in Nat
       /\ b \in Seq(Byte)
  <2>1. b \in Seq(Byte) /\ Len(b) = Len(buffer) + 1
    BY <1>1 DEF b
  <2> HIDE DEF w, k, e
  <2> QED
    BY <1>7, <1>8, <2>1
<1>13. /\ \A i \in 1 .. Len(b) : b[i] = w[c + i]
       /\ s = SubSeq(w, 1, c + Len(b)) \o t
  <2>1. \A i \in 1 .. Len(w) : (SubSeq(w, 1, c) \o (b \o t))[i] = w[i]
    BY <1>11 DEF s
  <2> HIDE DEF w
  <2>2. /\ \A i \in 1 .. Len(b) : b[i] = w[c + i]
        /\ SubSeq(w, 1, c) \o (b \o t) = SubSeq(w, 1, c + Len(b)) \o t
    BY <1>2, <1>7, <1>12, <2>1, CutBehind, ZenonT(60)
  <2> QED
    BY <2>2 DEF s, w
<1>14. /\ HeaderRead(b) => CountValid(ByteCount(b))
       /\ ~PacketEnds(b) => Len(b) < 4 + a.wire[c + 3]
       /\ PacketEnds(b) => b = PacketAt(a, c) /\ Len(b) = e - c
  BY <1>6, <1>12, <1>13, PacketRead
<1>15. ASSUME PacketEnds(b)
       PROVE  /\ SliceFits(NextBuffer, out_buf)
              /\ out_buf \o out_slice(NextBuffer) = a.upto[EndOfPacket(a, c)]
              /\ Eom(Flags(NextBuffer)) <=> EndOfPacket(a, c) = Len(a.wire)
              /\ Joined(SubSeq(a.wire, 1, EndOfPacket(a, c)) \o t, Wires, n)
  <2>1. NextBuffer = PacketAt(a, c) /\ Len(NextBuffer) = EndOfPacket(a, c) - c
        /\ NextBuffer \in Seq(Byte)
    BY <1>12, <1>14, <1>15 DEF b
  <2>2. out_buf = a.upto[c]
    BY <1>5 DEF InMessage
  <2>3. /\ SliceFits(NextBuffer, out_buf)
        /\ out_buf \o out_slice(NextBuffer) = a.upto[EndOfPacket(a, c)]
    BY <1>6, <2>1, <2>2, Slicing
  <2>4. Eom(Flags(NextBuffer)) <=> EndOfPacket(a, c) = Len(a.wire)
    BY <1>6, <2>1, ConformingFacts
  <2>5. c + Len(b) = EndOfPacket(a, c)
    BY <1>7, <1>14, <1>15
  <2>6. Joined(SubSeq(a.wire, 1, EndOfPacket(a, c)) \o t, Wires, n)
    BY <1>9, <1>13, <2>5
  <2> QED
    BY <2>3, <2>4, <2>6
<1>16. ReadIn(a, c)
  <2> HIDE DEF w, k, e, n
  <2> QED
    BY <1>5, <1>6, <1>9, <1>14, <1>15 DEF ReadIn, b, t, s, n
<1> QED
  BY <1>4, <1>16

\* What is left when the oldest message has been read to its end.
LEMMA MessageLeaves ==
    ASSUME TypeInv, RequestsQueue, ConformingEc, ConformingNotices,
           NEW w \in Seq(Byte), NEW t \in Seq(Byte), owed # << >>, Wires[1] = w,
           Joined(w \o t, Wires, Len(owed)), owed' = SubSeq(owed, 2, Len(owed)),
           Incoming' = t, buffer' = << >>, out_buf' = << >>
    PROVE  /\ Len(owed') = Len(owed) - 1
           /\ owed' = << >> => Incoming' = << >>
           /\ owed' # << >> => \E a, c : InMessage(a, c)'
<1> DEFINE n == Len(owed)
<1>1. /\ owed \in Seq(Owed) /\ n \in Nat
      /\ \A i \in 1 .. n : /\ Conforming(owed[i].message)
                           /\ Wires[i] = owed[i].message.wire /\ Wires[i] \in Seq(Byte)
  BY OwedConforms
<1>2. /\ owed' \in Seq(Owed) /\ Len(owed') = n - 1
      /\ \A i \in 1 .. n - 1 : owed'[i] = owed[i + 1]
  BY <1>1, OldestLeaves
<1>3. n \in Nat \ {0}
  BY <1>1, EmptySeq
<1> HIDE DEF n
<1>4. \A i \in 1 .. n - 1 : Wires'[i] = Wires[i + 1]
  <2> SUFFICES ASSUME NEW i \in 1 .. n - 1
               PROVE  Wires'[i] = Wires[i + 1]
    OBVIOUS
  <2>1. Wires'[i] = owed'[i].message.wire
    BY <1>2 DEF Wires
  <2>2. i + 1 \in 1 .. n
    BY <1>3
  <2> QED
    BY <1>1, <1>2, <2>1, <2>2
<1>5. Joined(t, Wires', n - 1)
  <2>1. Joined(w \o t, Wires, n) /\ Len(w) = Len(Wires[1])
    BY DEF n
  <2>2. \A i \in 1 .. n : Wires[i] \in Seq(Byte)
    BY <1>1
  <2> QED
    BY <1>3, <1>4, <2>1, <2>2, JoinedRest
<1>6. ASSUME owed' = << >>
      PROVE  Incoming' = << >>
  <2>1. n - 1 = 0
    BY <1>2, <1>6
  <2>2. Joined(t, Wires', 0)
    BY <1>5, <2>1
  <2> QED
    BY <2>2, JoinedNone
<1>7. ASSUME owed' # << >>
      PROVE  \E a, c : InMessage(a, c)'
  <2>1. n - 1 # 0
    BY <1>2, <1>7, EmptySeq
  <2>2. 1 \in 1 .. n - 1 /\ 1 + 1 \in 1 .. n
    BY <1>3, <2>1
  <2>3. Conforming(owed[1 + 1].message) /\ owed'[1] = owed[1 + 1]
    BY <1>1, <1>2, <2>2
  <2>4. PICK a : a = owed'[1].message
    OBVIOUS
  <2>5. Conforming(a)
    BY <2>3, <2>4
  <2>6. /\ a.wire \in Seq(Byte) /\ 0 \in a.cuts \ {Len(a.wire)} /\ a.upto[0] = << >>
        /\ 0 < 4 + a.wire[0 + 3]
    BY <2>5, MessageStart
  <2>7. SubSeq(a.wire, 1, 0) \o Incoming' = t
    <3>1. SubSeq(a.wire, 1, 0) = << >>
      BY SubSeqEmpty
    <3> QED
      BY <3>1, ConcatEmptySeq
  <2>8. Len(buffer') < 4 + a.wire[0 + 3]
    <3>1. Len(buffer') = 0
      OBVIOUS
    <3> QED
      BY <2>6, <3>1
  <2>9. Joined(SubSeq(a.wire, 1, 0) \o Incoming', Wires', Len(owed'))
    BY <1>2, <1>5, <2>7
  <2>10. InMessage(a, 0)'
    BY <2>4, <2>6, <2>8, <2>9 DEF InMessage
  <2> QED
    BY <2>10
<1> QED
  BY <1>2, <1>6, <1>7 DEF n

\* The return of a call delivers the oldest message.
LEMMA MessageReturned ==
    ASSUME TypeInv, RequestsQueue, MessagesQueue, ConformingEc, ConformingNotices, ReturnAnswer
    PROVE  /\ MessagesQueue'
           /\ owed # << >> /\ reply'.bytes = Payload(Head(owed).message)
<1> DEFINE t == rx' \o ecOut
<1>1. /\ ReadByte /\ PacketEnds(NextBuffer) /\ Eom(Flags(NextBuffer)) /\ pc = "read"
      /\ pc' = "idle" /\ buffer' = << >> /\ out_buf' = << >> /\ ecOut' = ecOut
      /\ reply' = Outcome("ok", out_buf \o out_slice(NextBuffer))
      /\ owed' = SubSeq(owed, 2, Len(owed)) /\ UNCHANGED <<unheard, notices>>
  BY DEF ReturnAnswer, FragmentRead, ecVars
<1>2. owed # << >>
  BY <1>1, MessageRead
<1>3. PICK a, c : ReadIn(a, c)
  BY <1>1, MessageRead
<1> DEFINE e == EndOfPacket(a, c)
<1>4. /\ a = owed[1].message /\ Wires[1] = a.wire /\ Conforming(a) /\ e = Len(a.wire)
      /\ out_buf \o out_slice(NextBuffer) = a.upto[e]
      /\ Joined(SubSeq(a.wire, 1, e) \o t, Wires, Len(owed))
  BY <1>1, <1>3 DEF ReadIn, InMessage
<1> HIDE DEF e
<1>5. rx' \in Seq(Byte) /\ ecOut \in Seq(Byte) /\ t \in Seq(Byte)
  <2>1. rx' \in Seq(Byte) /\ ecOut \in Seq(Byte)
    BY <1>1, NextBufferTyped DEF TypeInv, TypeOK
  <2> QED
    BY <2>1, TwoParts
<1>6. Incoming' = t
  <2>1. Incoming' = << >> \o t
    BY <1>1 DEF Incoming
  <2> HIDE DEF t
  <2> QED
    BY <1>5, <2>1, ConcatEmptySeq
<1> HIDE DEF t
<1>7. a.wire \in Seq(Byte) /\ SubSeq(a.wire, 1, Len(a.wire)) = a.wire
  BY <1>4, MessageStart, SubSeqFull
<1>8. Joined(a.wire \o t, Wires, Len(owed))
  BY <1>4, <1>7
<1>9. /\ Len(owed') = Len(owed) - 1
      /\ owed' = << >> => Incoming' = << >>
      /\ owed' # << >> => \E x, d : InMessage(x, d)'
  BY <1>1, <1>2, <1>4, <1>5, <1>6, <1>7, <1>8, MessageLeaves
<1>10. Len(unheard') + Len(owed') = notices' + (IF pc' = "idle" THEN 0 ELSE 1)
  <2>1. Len(unheard) \in Nat /\ Len(owed) \in Nat /\ notices \in Nat
    BY LenProperties DEF RequestsQueue, TypeInv, TypeOK
  <2>2. Len(unheard) + Len(owed) = notices + 1
    BY <1>1 DEF MessagesQueue
  <2> DEFINE x == Len(unheard)
             y == Len(owed)
  <2>3. x \in Nat /\ y \in Nat /\ x + y = notices + 1
    BY <2>1, <2>2
  <2> HIDE DEF x, y
  <2>4. x + (y - 1) = notices + 0
    BY <2>1, <2>3
  <2>5. Len(unheard') = x /\ Len(owed') = y - 1 /\ notices' = notices /\ pc' = "idle"
    BY <1>1, <1>9 DEF x, y
  <2> QED
    BY <2>4, <2>5
<1>11. MessagesQueue'
  BY <1>1, <1>9, <1>10 DEF MessagesQueue
<1>12. Head(owed) = owed[1]
  BY <1>2 DEF RequestsQueue
<1> QED
  BY <1>1, <1>2, <1>4, <1>11, <1>12, SMTT(40) DEF Outcome, Payload

\* Reading moves along the oldest message, and never panics.
LEMMA MessagesRead ==
    ASSUME TypeInv, RequestsQueue, MessagesQueue, ConformingEc, ConformingNotices,
           ReadMore \/ CollectFragment \/ RejectCount \/ RejectFragment
    PROVE  MessagesQueue'
<1> DEFINE t == rx' \o ecOut
<1>1. pc = "read" /\ ReadByte
  BY DEF ReadMore, CollectFragment, FragmentRead, RejectCount, RejectFragment
<1>2. owed # << >>
  BY <1>1, MessageRead
<1>3. PICK a, c : ReadIn(a, c)
  BY <1>1, MessageRead
<1>4. /\ InMessage(a, c) /\ Conforming(a) /\ a = owed[1].message
      /\ c \in a.cuts \ {Len(a.wire)}
      /\ HeaderRead(NextBuffer) => CountValid(ByteCount(NextBuffer))
      /\ PacketEnds(NextBuffer) => SliceFits(NextBuffer, out_buf)
  BY <1>3 DEF ReadIn, InMessage
<1>5. ~RejectCount /\ ~RejectFragment
  BY <1>4 DEF RejectCount, RejectFragment
<1>6. UNCHANGED <<pc, unheard, owed, notices, ecOut>>
  BY <1>5 DEF ReadMore, CollectFragment, FragmentRead, ecVars, histVars
<1>7. Wires' = Wires
  BY <1>6 DEF Wires
<1>8. CASE ReadMore
  <2>1. buffer' = NextBuffer /\ out_buf' = out_buf /\ ~PacketEnds(NextBuffer)
    BY <1>8 DEF ReadMore
  <2>2. /\ Len(NextBuffer) < 4 + a.wire[c + 3]
        /\ Joined(SubSeq(a.wire, 1, c) \o (NextBuffer \o t), Wires, Len(owed))
    BY <1>3, <2>1 DEF ReadIn
  <2>3. Incoming' = NextBuffer \o t
    BY <1>6, <2>1 DEF Incoming
  <2> HIDE DEF t
  <2>4. Len(buffer') < 4 + a.wire[c + 3] /\ out_buf' = a.upto[c]
    BY <1>4, <2>1, <2>2 DEF InMessage
  <2>5. Joined(SubSeq(a.wire, 1, c) \o Incoming', Wires', Len(owed'))
    BY <1>6, <1>7, <2>2, <2>3
  <2>6. InMessage(a, c)'
    BY <1>1, <1>4, <1>6, <2>4, <2>5 DEF InMessage
  <2> QED
    BY <1>2, <1>6, <2>6 DEF MessagesQueue
<1>9. CASE CollectFragment
  <2> DEFINE e == EndOfPacket(a, c)
  <2>1. /\ buffer' = << >> /\ out_buf' = out_buf \o out_slice(NextBuffer)
        /\ PacketEnds(NextBuffer) /\ ~Eom(Flags(NextBuffer))
    BY <1>9 DEF CollectFragment, FragmentRead
  <2>2. /\ out_buf' = a.upto[e] /\ e # Len(a.wire)
        /\ Joined(SubSeq(a.wire, 1, e) \o t, Wires, Len(owed))
    BY <1>3, <2>1 DEF ReadIn
  <2>3. e \in a.cuts \ {Len(a.wire)}
    BY <1>4, <2>2, ConformingFacts
  <2> HIDE DEF e
  <2>4. Incoming' = t
    <3>1. rx' \in Seq(Byte) /\ ecOut \in Seq(Byte)
      BY <1>1, NextBufferTyped DEF TypeInv, TypeOK
    <3>2. t \in Seq(Byte)
      BY <3>1, TwoParts
    <3>3. Incoming' = << >> \o t
      BY <1>6, <2>1 DEF Incoming
    <3> HIDE DEF t
    <3> QED
      BY <3>2, <3>3, ConcatEmptySeq
  <2> HIDE DEF t
  <2>5. Len(buffer') < 4 + a.wire[e + 3]
    <3> DEFINE k == a.wire[e + 3]
    <3>1. k \in 4 .. 69
      BY <1>4, <2>3, ConformingFacts
    <3>2. Len(buffer') = 0
      BY <2>1
    <3> HIDE DEF k
    <3>3. 0 < 4 + k
      BY <3>1
    <3> QED
      BY <3>2, <3>3 DEF k
  <2>6. Joined(SubSeq(a.wire, 1, e) \o Incoming', Wires', Len(owed'))
    BY <1>6, <1>7, <2>2, <2>4
  <2>7. InMessage(a, e)'
    BY <1>1, <1>4, <1>6, <2>2, <2>3, <2>5, <2>6 DEF InMessage
  <2> QED
    BY <1>2, <1>6, <2>7 DEF MessagesQueue
<1> QED
  BY <1>5, <1>8, <1>9

\* A call begins to write; nothing it does touches what is on its way to it.
LEMMA MessagesWrite ==
    ASSUME TypeInv, RequestsQueue, RequestsQueue', MessagesQueue,
           ConformingEc, ConformingNotices,
           \/ WriteRequest \/ EcSend \/ UNCHANGED vars
           \/ \E r \in Requests : RefuseCall(r) \/ AcceptCall(r)
    PROVE  MessagesQueue'
<1>0. Len(unheard) \in Nat /\ Len(unheard') \in Nat /\ Len(owed) \in Nat /\ notices \in Nat
  BY LenProperties DEF RequestsQueue, TypeInv, TypeOK
<1>1. /\ rx \in Seq(Byte) /\ ecOut \in Seq(Byte) /\ buffer \in Seq(Byte)
      /\ << >> \in Seq(Byte) /\ pc # "panic"
  BY EmptySeq DEF TypeInv, TypeOK, MessagesQueue
<1>2. CASE WriteRequest
  <2>1. /\ UNCHANGED <<owed, out_buf, buffer, notices, rx, ecOut, unheard>>
        /\ pc = "write" /\ pc' \in {"read", "write"}
    BY <1>2 DEF WriteRequest, WriteByte, ecVars, histVars
  <2>2. Incoming' = Incoming
    BY <2>1 DEF Incoming
  <2> QED
    BY <1>0, <2>1, <2>2, MessagesStay
<1>3. CASE EcSend
  <2>1. /\ UNCHANGED <<owed, out_buf, buffer, notices, unheard, pc>>
        /\ ecOut # << >> /\ rx' = Append(rx, Head(ecOut)) /\ ecOut' = Tail(ecOut)
    BY <1>3 DEF EcSend, FarWriteByte, spVars, histVars
  <2>2. rx' \o ecOut' = rx \o ecOut
    BY <1>1, <2>1, MoveHead, SMTT(40)
  <2>3. Incoming' = Incoming
    BY <2>1, <2>2 DEF Incoming
  <2> QED
    BY <1>0, <1>1, <2>1, <2>3, MessagesStay
<1>4. CASE UNCHANGED vars \/ \E r \in Requests : RefuseCall(r)
  <2>1. UNCHANGED <<owed, out_buf, buffer, notices, unheard, pc, rx, ecOut>>
    BY <1>4 DEF vars, spVars, uartVars, ecVars, histVars, RefuseCall
  <2>2. Incoming' = Incoming
    BY <2>1 DEF Incoming
  <2> QED
    BY <1>0, <1>1, <2>1, <2>2, MessagesStay
<1>5. ASSUME NEW r \in Requests, AcceptCall(r)
      PROVE  MessagesQueue'
  <2>1. /\ UNCHANGED <<owed, notices, rx, ecOut>> /\ pc = "idle" /\ pc' = "write"
        /\ buffer' = << >> /\ out_buf' = << >> /\ unheard' = Append(unheard, Asked(r))
        /\ Supported(r)
    BY <1>5 DEF AcceptCall, uartVars, ecVars
  <2>2. buffer = << >> /\ out_buf = << >>
    <3>1. CASE owed = << >>
      <4>1. rx \o ecOut \in Seq(Byte)
        BY <1>1, TwoParts
      <4>2. buffer \o (rx \o ecOut) = << >> /\ out_buf = << >>
        BY <3>1 DEF MessagesQueue, Incoming
      <4> QED
        BY <1>1, <4>1, <4>2, ConcatEqualIffEmpty
    <3>2. CASE owed # << >>
      <4>1. PICK a, c : InMessage(a, c)
        BY <3>2 DEF MessagesQueue
      <4>2. /\ a = owed[1].message /\ c = 0 /\ buffer = << >> /\ out_buf = a.upto[c]
        BY <2>1, <4>1 DEF InMessage
      <4>3. 1 \in 1 .. Len(owed)
        BY <1>0, <3>2, EmptySeq DEF RequestsQueue
      <4>4. Conforming(a)
        BY <4>2, <4>3, OwedConforms
      <4> QED
        BY <4>2, <4>4, MessageStart
    <3> QED
      BY <3>1, <3>2
  <2>3. Incoming' = Incoming
    BY <2>1, <2>2 DEF Incoming
  <2>4. Len(unheard') = Len(unheard) + 1
    <3>1. unheard \in Seq(Asks) /\ Asked(r) \in Asks
      BY <2>1 DEF RequestsQueue, Asks
    <3> QED
      BY <2>1, <3>1, AppendProperties
  <2> QED
    BY <1>0, <2>1, <2>2, <2>3, <2>4, MessagesStay
<1> QED
  BY <1>2, <1>3, <1>4, <1>5

\* The EC's own steps: it hears, answers, or speaks unasked.
LEMMA MessagesEc ==
    ASSUME TypeInv, RequestsQueue, RequestsQueue', MessagesQueue,
           ConformingEc, ConformingNotices, EcHear \/ \E n \in Notices : EcNotify(n)
    PROVE  MessagesQueue'
<1>0. Len(unheard) \in Nat /\ Len(unheard') \in Nat /\ Len(owed) \in Nat /\ notices \in Nat
  BY LenProperties DEF RequestsQueue, TypeInv, TypeOK
<1>1. /\ pc # "panic"
      /\ Len(unheard) + Len(owed) = notices + (IF pc = "idle" THEN 0 ELSE 1)
  BY DEF MessagesQueue
<1> DEFINE u == Len(unheard)
           o == Len(owed)
           k == IF pc = "idle" THEN 0 ELSE 1
<1>2. CASE EcReceive
  <2>1. UNCHANGED <<owed, out_buf, buffer, notices, rx, ecOut, unheard, pc>>
    BY <1>2 DEF EcReceive, FarReadByte, spVars, histVars
  <2>2. Incoming' = Incoming
    BY <2>1 DEF Incoming
  <2> QED
    BY <1>0, <1>1, <2>1, <2>2, MessagesStay
<1>3. ASSUME NEW a \in Answers, EcAnswer(a)
      PROVE  MessagesQueue'
  <2>1. /\ UNCHANGED <<pc, buffer, out_buf, rx, notices>> /\ ecOut' = ecOut \o a.wire
    BY <1>3 DEF EcAnswer, FarReadByte, spVars
  <2>2. /\ unheard # << >> /\ unheard' = Tail(unheard)
        /\ owed' = Append(owed, [to |-> Head(unheard), message |-> a])
    BY <1>3, QueueHeard DEF EcHear
  <2>3. Head(unheard) \in Asks /\ Len(unheard') = u - 1
    BY <2>2, HeadTailProperties DEF RequestsQueue
  <2>4. Len(owed') = o + 1 /\ owed' # << >> /\ \E x, c : InMessage(x, c)'
    BY <2>1, <2>2, <2>3, MessagesMore
  <2>5. Len(unheard') + Len(owed') = notices' + (IF pc' = "idle" THEN 0 ELSE 1)
    <3>1. u \in Nat /\ o \in Nat /\ k \in Nat /\ u + o = notices + k
      BY <1>0, <1>1
    <3> HIDE DEF u, o, k
    <3>2. (u - 1) + (o + 1) = notices + k
      BY <1>0, <3>1
    <3> QED
      BY <2>1, <2>3, <2>4, <3>2 DEF k
  <2> QED
    BY <1>1, <2>1, <2>4, <2>5 DEF MessagesQueue
<1>4. ASSUME NEW n \in Notices, EcNotify(n)
      PROVE  MessagesQueue'
  <2>1. /\ UNCHANGED <<pc, buffer, out_buf, rx, unheard>> /\ ecOut' = ecOut \o n.wire
        /\ owed' = Append(owed, [to |-> Nobody, message |-> n]) /\ notices' = notices + 1
    BY <1>4 DEF EcNotify, spVars, uartVars
  <2>2. Len(owed') = o + 1 /\ owed' # << >> /\ \E x, c : InMessage(x, c)'
    BY <2>1, MessagesMore
  <2>3. Len(unheard') + Len(owed') = notices' + (IF pc' = "idle" THEN 0 ELSE 1)
    <3>1. u \in Nat /\ o \in Nat /\ k \in Nat /\ u + o = notices + k
      BY <1>0, <1>1
    <3> HIDE DEF u, o, k
    <3>2. u + (o + 1) = (notices + 1) + k
      BY <1>0, <3>1
    <3> QED
      BY <2>1, <2>2, <3>2 DEF u, k
  <2> QED
    BY <1>1, <2>1, <2>2, <2>3 DEF MessagesQueue
<1> QED
  BY <1>2, <1>3, <1>4 DEF EcHear

LEMMA MessagesStep ==
    ASSUME TypeInv, RequestsQueue, RequestsQueue', MessagesQueue, [Next]_vars,
           ConformingEc, ConformingNotices
    PROVE  MessagesQueue'
<1>1. CASE \/ WriteRequest \/ EcSend \/ UNCHANGED vars
           \/ \E r \in Requests : RefuseCall(r) \/ AcceptCall(r)
  BY <1>1, MessagesWrite
<1>2. CASE ReadMore \/ CollectFragment \/ RejectCount \/ RejectFragment
  BY <1>2, MessagesRead
<1>3. CASE ReturnAnswer
  BY <1>3, MessageReturned
<1>4. CASE EcHear \/ \E n \in Notices : EcNotify(n)
  BY <1>4, MessagesEc
<1> QED
  BY <1>1, <1>2, <1>3, <1>4 DEF Next, SpStep

\* Whatever the order in which a conforming EC hears, answers and speaks
\* unasked, both directions of the link carry whole packets and whole messages,
\* in order.
THEOREM LinkIsAQueue ==
    ASSUME ConformingEc, ConformingNotices
    PROVE  Spec => [](RequestsQueue /\ MessagesQueue)
<1>1. Init => RequestsQueue /\ MessagesQueue
  BY QueueInit, MessagesInit
<1>2. TypeInv /\ RequestsQueue /\ MessagesQueue /\ [Next]_vars
      => RequestsQueue' /\ MessagesQueue'
  <2> SUFFICES ASSUME TypeInv, RequestsQueue, MessagesQueue, [Next]_vars
               PROVE  RequestsQueue' /\ MessagesQueue'
    OBVIOUS
  <2>1. RequestsQueue'
    BY QueueStep
  <2>2. MessagesQueue'
    BY <2>1, MessagesStep
  <2> QED
    BY <2>1, <2>2
<1> QED
  BY <1>1, <1>2, TypeCorrect, PTL DEF Spec

\* Hence an EC whose messages follow the protocol never makes send_cmd panic,
\* even when it speaks unasked, ...
THEOREM NeverPanics ==
    ASSUME ConformingEc, ConformingNotices
    PROVE  Spec => []NoPanic
<1>1. MessagesQueue => NoPanic
  BY DEF MessagesQueue, NoPanic
<1> QED
  BY <1>1, LinkIsAQueue, PTL

\* ... but every message it sends unasked puts the calls one answer further
\* behind, for ever, ...
THEOREM BehindForEver ==
    ASSUME ConformingEc, ConformingNotices
    PROVE  Spec => []NeverCatchesUp
<1>1. MessagesQueue => NeverCatchesUp
  BY DEF MessagesQueue, NeverCatchesUp
<1> QED
  BY <1>1, LinkIsAQueue, PTL

\* ... since what a call returns is the payload of the oldest message not yet
\* delivered, byte for byte, whomever it was meant for.
THEOREM OldestDelivered ==
    ASSUME ConformingEc, ConformingNotices
    PROVE  Spec => DeliversOldest
<1>1. TypeInv /\ RequestsQueue /\ MessagesQueue /\ [Next]_vars =>
        [reply'.kind = "ok" /\ reply.kind # "ok" =>
            owed # << >> /\ reply'.bytes = Payload(Head(owed).message)]_vars
  <2> SUFFICES ASSUME TypeInv, RequestsQueue, MessagesQueue, [Next]_vars,
                      reply'.kind = "ok", reply.kind # "ok"
               PROVE  owed # << >> /\ reply'.bytes = Payload(Head(owed).message)
    OBVIOUS
  <2>1. ReturnAnswer
    <3>1. reply' # reply
      OBVIOUS
    <3>2. \A r \in Requests : ~RefuseCall(r) /\ ~AcceptCall(r)
      BY DEF RefuseCall, AcceptCall, Outcome
    <3>3. ~(WriteRequest \/ ReadMore \/ CollectFragment \/ RejectCount \/ RejectFragment)
      BY <3>1 DEF WriteRequest, ReadMore, CollectFragment, RejectCount, RejectFragment, Panic
    <3>4. ~(EcHear \/ EcSend \/ \E n \in Notices : EcNotify(n))
      BY <3>1 DEF EcHear, EcReceive, EcAnswer, EcSend, EcNotify, spVars
    <3>5. ~UNCHANGED vars
      BY <3>1 DEF vars, spVars
    <3> QED
      BY <3>2, <3>3, <3>4, <3>5 DEF Next, SpStep
  <2> QED
    BY <2>1, MessageReturned
<1> QED
  BY <1>1, LinkIsAQueue, TypeCorrect, PTL DEF Spec, DeliversOldest

=============================================================================
