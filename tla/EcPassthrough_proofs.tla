------------------------ MODULE EcPassthrough_proofs ------------------------
(***************************************************************************)
(* Proofs about EcPassthrough.                                             *)
(***************************************************************************)
EXTENDS EcPassthrough, SequenceTheorems, TLAPS

-----------------------------------------------------------------------------
\* Sequences.

\* Moving the head of one sequence to the end of another keeps their
\* concatenation: this is what a byte does at every hop of the link.
LEMMA MoveHead ==
    ASSUME NEW S, NEW s \in Seq(S), NEW t \in Seq(S), t # << >>
    PROVE  /\ Append(s, Head(t)) \in Seq(S)
           /\ Tail(t) \in Seq(S)
           /\ Append(s, Head(t)) \o Tail(t) = s \o t
           /\ Len(Append(s, Head(t))) = Len(s) + 1
           /\ Len(Tail(t)) = Len(t) - 1
<1>1. /\ Head(t) \in S /\ Tail(t) \in Seq(S)
      /\ Len(Tail(t)) = Len(t) - 1
      /\ \A i \in 1 .. Len(Tail(t)) : Tail(t)[i] = t[i + 1]
  BY HeadTailProperties
<1>2. /\ Append(s, Head(t)) \in Seq(S)
      /\ Len(Append(s, Head(t))) = Len(s) + 1
      /\ \A i \in 1 .. Len(s) : Append(s, Head(t))[i] = s[i]
      /\ Append(s, Head(t))[Len(s) + 1] = Head(t)
  BY <1>1, AppendProperties
<1>3. /\ Append(s, Head(t)) \o Tail(t) \in Seq(S)
      /\ s \o t \in Seq(S)
      /\ Len(Append(s, Head(t)) \o Tail(t)) = Len(s) + Len(t)
      /\ Len(s \o t) = Len(s) + Len(t)
  BY <1>1, <1>2, ConcatProperties
<1>4. ASSUME NEW i \in 1 .. Len(s) + Len(t)
      PROVE  (Append(s, Head(t)) \o Tail(t))[i] = (s \o t)[i]
  BY <1>1, <1>2, ConcatProperties
<1>5. Append(s, Head(t)) \o Tail(t) = s \o t
  BY <1>3, <1>4, SeqEqual
<1> QED
  BY <1>1, <1>2, <1>5

\* The same with something behind the second sequence.
LEMMA MoveHeadOver ==
    ASSUME NEW S, NEW s \in Seq(S), NEW t \in Seq(S), t # << >>, NEW u \in Seq(S)
    PROVE  Append(s, Head(t)) \o (Tail(t) \o u) = s \o (t \o u)
<1>1. /\ Append(s, Head(t)) \in Seq(S) /\ Tail(t) \in Seq(S)
      /\ Append(s, Head(t)) \o Tail(t) = s \o t
  BY MoveHead
<1>2. Append(s, Head(t)) \o (Tail(t) \o u) = (Append(s, Head(t)) \o Tail(t)) \o u
  BY <1>1, ConcatAssociative, SMTT(40)
<1>3. (s \o t) \o u = s \o (t \o u)
  BY ConcatAssociative
<1> QED
  BY <1>1, <1>2, <1>3

\* A suffix of a sequence: its elements and its length.
LEMMA SliceProperties ==
    ASSUME NEW S, NEW w \in Seq(S), NEW c \in 0 .. Len(w), NEW d \in c .. Len(w)
    PROVE  /\ SubSeq(w, c + 1, d) \in Seq(S)
           /\ Len(SubSeq(w, c + 1, d)) = d - c
           /\ \A i \in 1 .. d - c : SubSeq(w, c + 1, d)[i] = w[c + i]
<1> DEFINE m == c + 1
<1>1. Len(w) \in Nat /\ c \in Nat /\ d \in Nat /\ c <= d
  BY LenProperties
<1>2. m \in Int /\ d \in Int
  BY <1>1
<1>3. \A i \in m .. d : w[i] \in S
  BY <1>1, ElementOfSeq
<1> HIDE DEF m
<1>4. /\ SubSeq(w, m, d) \in Seq(S)
      /\ Len(SubSeq(w, m, d)) = IF m <= d THEN d - m + 1 ELSE 0
      /\ \A i \in 1 .. d - m + 1 : SubSeq(w, m, d)[i] = w[m + i - 1]
  BY <1>2, <1>3, SubSeqProperties
<1>5. d - m + 1 = d - c
  BY <1>1 DEF m
<1>6. Len(SubSeq(w, m, d)) = d - c
  BY <1>1, <1>4 DEF m
<1>7. ASSUME NEW i \in 1 .. d - c
      PROVE  SubSeq(w, m, d)[i] = w[c + i]
  <2>1. m + i - 1 = c + i
    BY <1>1 DEF m
  <2> QED
    BY <1>4, <1>5, <2>1
<1> QED
  BY <1>4, <1>6, <1>7 DEF m

\* If a suffix of w is cut in two, the parts are the next slice of w and the
\* suffix behind it.
LEMMA CutConcat ==
    ASSUME NEW S, NEW w \in Seq(S), NEW c \in 0 .. Len(w),
           NEW s \in Seq(S), NEW t \in Seq(S),
           s \o t = SubSeq(w, c + 1, Len(w))
    PROVE  /\ c + Len(s) <= Len(w)
           /\ s = SubSeq(w, c + 1, c + Len(s))
           /\ \A i \in 1 .. Len(s) : s[i] = w[c + i]
           /\ t = SubSeq(w, c + Len(s) + 1, Len(w))
<1> DEFINE k == c + Len(s)
           l == Len(w)
<1>1. /\ l \in Nat /\ c \in Nat /\ c <= l
      /\ Len(s) \in Nat /\ Len(t) \in Nat
  BY LenProperties
<1>2. /\ Len(s \o t) = Len(s) + Len(t)
      /\ \A i \in 1 .. Len(s) + Len(t) :
            (s \o t)[i] = IF i <= Len(s) THEN s[i] ELSE t[i - Len(s)]
  BY ConcatProperties
<1>3. /\ Len(s \o t) = l - c
      /\ \A i \in 1 .. l - c : (s \o t)[i] = w[c + i]
  BY <1>1, SliceProperties
<1>4. Len(s) + Len(t) = l - c /\ k <= l /\ k \in 0 .. l
  BY <1>1, <1>2, <1>3
<1>5. ASSUME NEW i \in 1 .. Len(s)
      PROVE  s[i] = w[c + i]
  <2>1. i \in 1 .. Len(s) + Len(t) /\ i \in 1 .. l - c /\ i <= Len(s)
    BY <1>1, <1>4
  <2> QED
    BY <1>2, <1>3, <2>1
<1>6. /\ SubSeq(w, c + 1, k) \in Seq(S) /\ Len(SubSeq(w, c + 1, k)) = Len(s)
      /\ \A i \in 1 .. Len(s) : SubSeq(w, c + 1, k)[i] = w[c + i]
  <2>1. k \in c .. Len(w) /\ k - c = Len(s)
    BY <1>1, <1>4
  <2> HIDE DEF k
  <2> QED
    BY <2>1, SliceProperties
<1>7. s = SubSeq(w, c + 1, k)
  BY <1>5, <1>6, SeqEqual
<1>8. /\ SubSeq(w, k + 1, l) \in Seq(S) /\ Len(SubSeq(w, k + 1, l)) = Len(t)
      /\ \A i \in 1 .. Len(t) : SubSeq(w, k + 1, l)[i] = w[k + i]
  <2>1. k \in 0 .. Len(w) /\ l \in k .. Len(w) /\ l - k = Len(t)
    BY <1>1, <1>4
  <2> HIDE DEF k, l
  <2> QED
    BY <2>1, SliceProperties
<1>9. ASSUME NEW i \in 1 .. Len(t)
      PROVE  t[i] = w[k + i]
  <2> DEFINE j == Len(s) + i
  <2>1. /\ j \in 1 .. Len(s) + Len(t) /\ j \in 1 .. l - c /\ ~(j <= Len(s))
        /\ j - Len(s) = i /\ c + j = k + i
    BY <1>1, <1>4
  <2> HIDE DEF j
  <2>2. (s \o t)[j] = t[j - Len(s)]
    BY <1>2, <2>1
  <2>3. (s \o t)[j] = w[c + j]
    BY <1>3, <2>1
  <2> QED
    BY <2>1, <2>2, <2>3
<1>10. t = SubSeq(w, k + 1, l)
  BY <1>8, <1>9, SeqEqual
<1> QED
  BY <1>4, <1>5, <1>7, <1>10

\* Intervals from 1 with the same elements have the same length.
LEMMA IntervalInjective ==
    ASSUME NEW m \in Nat, NEW n \in Nat, 1 .. m = 1 .. n
    PROVE  m = n
<1>1. m > n => m \in 1 .. m /\ m \notin 1 .. n
  OBVIOUS
<1>2. n > m => n \in 1 .. n /\ n \notin 1 .. m
  OBVIOUS
<1> QED
  BY <1>1, <1>2

\* The end of a concatenation is its second part.
LEMMA SecondPart ==
    ASSUME NEW S, NEW s \in Seq(S), NEW t \in Seq(S)
    PROVE  SubSeq(s \o t, Len(s) + 1, Len(s \o t)) = t
<1> DEFINE u == s \o t
           m == Len(s) + 1
           n == Len(s) + Len(t)
<1>1. Len(s) \in Nat /\ Len(t) \in Nat
  BY LenProperties
<1>2. /\ u \in Seq(S) /\ Len(u) = n
      /\ \A i \in 1 .. n : u[i] = IF i <= Len(s) THEN s[i] ELSE t[i - Len(s)]
  BY ConcatProperties
<1> HIDE DEF u
<1>3. \A i \in m .. n : u[i] \in S
  BY <1>1, <1>2, ElementOfSeq
<1>4. /\ SubSeq(u, m, n) \in Seq(S)
      /\ Len(SubSeq(u, m, n)) = IF m <= n THEN n - m + 1 ELSE 0
      /\ \A i \in 1 .. n - m + 1 : SubSeq(u, m, n)[i] = u[m + i - 1]
  <2> HIDE DEF m, n
  <2>1. m \in Int /\ n \in Int
    BY <1>1 DEF m, n
  <2> QED
    BY <1>3, <2>1, SubSeqProperties
<1>5. Len(SubSeq(u, m, n)) = Len(t)
  BY <1>1, <1>4
<1>6. \A i \in 1 .. Len(t) : SubSeq(u, m, n)[i] = t[i]
  <2> SUFFICES ASSUME NEW i \in 1 .. Len(t)
               PROVE  SubSeq(u, m, n)[i] = t[i]
    OBVIOUS
  <2>1. i \in 1 .. n - m + 1 /\ m + i - 1 = Len(s) + i
    BY <1>1
  <2>2. SubSeq(u, m, n)[i] = u[Len(s) + i]
    BY <1>4, <2>1
  <2>3. Len(s) + i \in 1 .. n /\ ~(Len(s) + i <= Len(s)) /\ (Len(s) + i) - Len(s) = i
    BY <1>1
  <2>4. u[Len(s) + i] = t[i]
    BY <1>2, <2>3
  <2> QED
    BY <2>2, <2>4
<1>7. SubSeq(u, m, n) = t
  BY <1>4, <1>5, <1>6, SeqEqual
<1> QED
  BY <1>2, <1>7 DEF u

\* The parts of a concatenation of bytes.
LEMMA TwoParts ==
    ASSUME NEW u \in Seq(Byte), NEW t \in Seq(Byte)
    PROVE  /\ u \o t \in Seq(Byte)
           /\ Len(u \o t) = Len(u) + Len(t)
           /\ \A i \in 1 .. Len(u) + Len(t) :
                 (u \o t)[i] = IF i <= Len(u) THEN u[i] ELSE t[i - Len(u)]
BY ConcatProperties

\* A byte that hops from one sequence to the one before it.
LEMMA Hop ==
    ASSUME NEW s \in Seq(Byte), NEW t \in Seq(Byte), NEW u \in Seq(Byte), t # << >>
    PROVE  Append(s, Head(t)) \o (Tail(t) \o u) = s \o (t \o u)
BY MoveHeadOver, SMTT(40)

-----------------------------------------------------------------------------
\* The wire format.

\* Every entry of the three command tables carries at most 23 argument bytes.
LEMMA PayloadBound ==
    ASSUME NEW r \in Request, Supported(r)
    PROVE  PayloadLen(r) \in 0 .. 23
<1>1. CASE r.service = "Battery"
  BY <1>1 DEF Supported, PayloadLen, supported_commands, BATTERY_COMMANDS
<1>2. CASE r.service = "Thermal"
  BY <1>2 DEF Supported, PayloadLen, supported_commands, THERMAL_COMMANDS
<1>3. CASE r.service = "TimeAlarm"
  BY <1>3 DEF Supported, PayloadLen, supported_commands, TIME_ALARM_COMMANDS
<1> QED
  BY <1>1, <1>2, <1>3 DEF Request, Service

\* The arguments are as many bytes as the table says.
LEMMA ArgumentsTyped ==
    ASSUME NEW r \in Request, Supported(r)
    PROVE  Arguments(r) \in Seq(Byte) /\ Len(Arguments(r)) = PayloadLen(r)
<1> DEFINE n == PayloadLen(r)
           a == Arguments(r)
<1>1. n \in 0 .. 23
  BY PayloadBound
<1>2. \A i \in 1 .. n : r.msg[i] \in Byte
  BY <1>1 DEF Request, Message, MAX_MESSAGE_SIZE_BYTES
<1>3. a \in [1 .. n -> Byte]
  BY <1>2 DEF Arguments
<1> HIDE DEF n, a
<1>4. a \in Seq(Byte)
  <2>1. Seq(Byte) = UNION {[1 .. m -> Byte] : m \in Nat}
    BY SeqDef
  <2> QED
    BY <1>1, <1>3, <2>1
<1>5. Len(a) \in Nat /\ DOMAIN a = 1 .. Len(a)
  BY <1>4, LenProperties
<1>6. 1 .. n = 1 .. Len(a)
  BY <1>3, <1>5, Zenon
<1>7. n = Len(a)
  <2>1. n \in Nat
    BY <1>1
  <2> QED
    BY <1>5, <1>6, <2>1, IntervalInjective, Zenon
<1> QED
  BY <1>4, <1>7 DEF n, a

\* handle_message frames its packet exactly: the byte count announces what
\* follows the SMBus header, and the arguments stand behind 13 header bytes.
LEMMA RequestFraming ==
    ASSUME NEW r \in Request, Supported(r)
    PROVE  /\ RequestPacket(r) \in Seq(Byte)
           /\ Len(RequestPacket(r)) > 4
           /\ Len(RequestPacket(r)) = 4 + ByteCount(RequestPacket(r))
           /\ Heard(RequestPacket(r)) = Asked(r)
<1> DEFINE n == PayloadLen(r)
           eid == destination_eid[r.service]
           h == << 2, 15, (8 + (n + 1)) % 256, 1, 1, eid, SOC_MCTP_ENTITY_ID, 211,
                   125, 2, eid, 0, Command(r) >>
           a == Arguments(r)
<1>1. n \in 0 .. 23
  BY PayloadBound
<1>2. eid \in Byte /\ Command(r) \in Byte
  <2>1. r.service \in Service /\ r.msg \in Message
    BY Zenon DEF Request
  <2>2. destination_eid[r.service] \in {8, 9, 11}
    BY <2>1, SMT DEF Service, destination_eid
  <2>3. {0, 8, 9, 11} \subseteq 0 .. 255 /\ 0 \in 0 .. MAX_MESSAGE_SIZE_BYTES - 1
    BY SMT DEF MAX_MESSAGE_SIZE_BYTES
  <2>4. r.msg[0] \in Byte
    BY <2>1, <2>3, Zenon DEF Message
  <2> QED
    BY <2>2, <2>3, <2>4, SMT DEF Command, Byte
<1>3. (8 + (n + 1)) % 256 = 9 + n /\ 9 + n \in Byte
  BY <1>1 DEF Byte
<1>4. h \in Seq(Byte) /\ Len(h) = 13 /\ h[3] = 9 + n /\ h[11] = eid /\ h[13] = Command(r)
  BY <1>2, <1>3 DEF Byte, SOC_MCTP_ENTITY_ID
<1>5. a \in Seq(Byte) /\ Len(a) = n
  BY ArgumentsTyped
<1>6. RequestPacket(r) = h \o a
  BY DEF RequestPacket
<1>9. Asked(r) = [eid |-> eid, command |-> Command(r), args |-> a]
  BY DEF Asked
<1> HIDE DEF n, eid, h, a
<1>7. /\ h \o a \in Seq(Byte) /\ Len(h \o a) = 13 + n
      /\ \A i \in 1 .. 13 : (h \o a)[i] = h[i]
      /\ \A i \in 14 .. 13 + n : (h \o a)[i] = a[i - 13]
  <2>1. h \in Seq(Byte) /\ a \in Seq(Byte)
    BY <1>4, <1>5
  <2>2. /\ h \o a \in Seq(Byte)
        /\ Len(h \o a) = Len(h) + Len(a)
        /\ \A i \in 1 .. Len(h) + Len(a) :
              (h \o a)[i] = IF i <= Len(h) THEN h[i] ELSE a[i - Len(h)]
    BY <2>1, ConcatProperties
  <2> QED
    BY <1>1, <1>4, <1>5, <2>2
<1>8. SubSeq(h \o a, 14, 13 + n) = a
  <2>1. h \in Seq(Byte) /\ a \in Seq(Byte) /\ Len(h) + 1 = 14
    BY <1>4, <1>5
  <2> QED
    BY <1>7, <2>1, SecondPart
<1>10. Heard(h \o a) = [eid |-> eid, command |-> Command(r), args |-> a]
  <2>1. 11 \in 1 .. 13 /\ 13 \in 1 .. 13
    OBVIOUS
  <2>2. (h \o a)[11] = eid /\ (h \o a)[13] = Command(r)
    BY <1>4, <1>7, <2>1, Zenon
  <2>3. SubSeq(h \o a, 14, Len(h \o a)) = a
    BY <1>7, <1>8
  <2>4. PACKET_HEADER_BYTES + 1 = 14
    BY DEF PACKET_HEADER_BYTES, SMBUS_PACKET_HEADER_BYTES,
           MCTP_PACKET_HEADER_BYTES, MCTP_MESSAGE_HEADER_BYTES, ODP_MESSAGE_HEADER_BYTES
  <2> QED
    BY <2>2, <2>3, <2>4 DEF Heard
<1>11. Len(h \o a) > 4 /\ Len(h \o a) = 4 + ByteCount(h \o a)
  BY <1>1, <1>4, <1>7, SMTT(40) DEF ByteCount
<1> QED
  BY <1>6, <1>7, <1>9, <1>10, <1>11, SMTT(40)

-----------------------------------------------------------------------------
\* Type correctness, for any EC whatever.

\* Requests, answers and notices are what LinkAssumption says they are.
LEMMA RequestTyped ==
    ASSUME NEW r \in Requests, Supported(r)
    PROVE  /\ RequestPacket(r) \in Seq(Byte)
           /\ RequestPacket(r) # << >>
<1>1. r \in Request
  BY LinkAssumption
<1>2. RequestPacket(r) \in Seq(Byte) /\ Len(RequestPacket(r)) > 4
  BY <1>1, RequestFraming
<1> QED
  BY <1>2, EmptySeq

\* What read_byte adds to the packet.
LEMMA NextBufferTyped ==
    ASSUME TypeOK, ReadByte
    PROVE  /\ NextBuffer \in Seq(Byte)
           /\ Len(NextBuffer) = Len(buffer) + 1
           /\ \A i \in 1 .. Len(buffer) : NextBuffer[i] = buffer[i]
           /\ rx' \in Seq(Byte) /\ Len(rx') <= FifoDepth /\ tx' = tx
           /\ rx \in Seq(Byte) /\ rx # << >> /\ rx' = Tail(rx)
           /\ Len(rx') = Len(rx) - 1
<1>1. rx \in Seq(Byte) /\ buffer \in Seq(Byte) /\ rx # << >> /\ Len(rx) <= FifoDepth
  BY DEF TypeOK, ReadByte
<1>2. Head(rx) \in Byte /\ Tail(rx) \in Seq(Byte) /\ Len(Tail(rx)) = Len(rx) - 1
  BY <1>1, HeadTailProperties
<1>3. /\ Append(buffer, Head(rx)) \in Seq(Byte)
      /\ Len(Append(buffer, Head(rx))) = Len(buffer) + 1
      /\ \A i \in 1 .. Len(buffer) : Append(buffer, Head(rx))[i] = buffer[i]
  BY <1>1, <1>2, AppendProperties
<1>4. Len(rx) \in Nat /\ FifoDepth \in Nat
  BY <1>1, LenProperties, UartAssumption
<1> QED
  BY <1>1, <1>2, <1>3, <1>4 DEF NextBuffer, ReadByte

\* The slices of send_cmd yield bytes, and no more than out_buf holds.
LEMMA CollectTyped ==
    ASSUME TypeOK, ReadInv, FragmentRead
    PROVE  /\ out_buf \o out_slice(NextBuffer) \in Seq(Byte)
           /\ Len(out_buf \o out_slice(NextBuffer)) <= BUFSZ
<1> DEFINE b == NextBuffer
           k == PayloadStart(b)
<1>1. /\ b \in Seq(Byte) /\ Len(b) \in Nat /\ out_buf \in Seq(Byte)
      /\ Len(out_buf) \in Nat
  BY NextBufferTyped, LenProperties DEF FragmentRead, TypeOK
<1>2. k \in Nat /\ k <= Len(b) /\ Len(out_buf) + (Len(b) - k) <= BUFSZ
  BY DEF FragmentRead, SliceFits, PayloadStart, SMBUS_PACKET_HEADER_BYTES,
         MCTP_PACKET_HEADER_BYTES, MCTP_MESSAGE_HEADER_BYTES, ODP_MESSAGE_HEADER_BYTES
<1> HIDE DEF b, k
<1>3. \A i \in k + 1 .. Len(b) : b[i] \in Byte
  BY <1>1, <1>2, ElementOfSeq
<1>4. /\ SubSeq(b, k + 1, Len(b)) \in Seq(Byte)
      /\ Len(SubSeq(b, k + 1, Len(b))) = Len(b) - k
  <2> DEFINE m == k + 1
  <2>1. m \in Int /\ Len(b) \in Int /\ \A i \in m .. Len(b) : b[i] \in Byte
    BY <1>1, <1>2, <1>3
  <2> HIDE DEF m
  <2>2. /\ SubSeq(b, m, Len(b)) \in Seq(Byte)
        /\ Len(SubSeq(b, m, Len(b))) = IF m <= Len(b) THEN Len(b) - m + 1 ELSE 0
    BY <2>1, SubSeqProperties
  <2> QED
    BY <1>1, <1>2, <2>2 DEF m
<1>5. out_slice(b) \in Seq(Byte) /\ Len(out_slice(b)) = Len(b) - k
  BY <1>4 DEF out_slice, k
<1>6. /\ out_buf \o out_slice(b) \in Seq(Byte)
      /\ Len(out_buf \o out_slice(b)) = Len(out_buf) + Len(out_slice(b))
  BY <1>1, <1>5, ConcatProperties
<1> QED
  BY <1>1, <1>2, <1>5, <1>6 DEF b

TypeInv == TypeOK /\ ReadInv /\ WriteInv

\* The partition starts well typed.
LEMMA TypeInit == Init => TypeInv
<1> SUFFICES ASSUME Init PROVE TypeInv
  OBVIOUS
<1>1. << >> \in Seq(Byte) /\ Len(<< >>) = 0
  BY EmptySeq
<1>2. TypeOK
  BY <1>1, LinkAssumption, UartAssumption
     DEF Init, UartInit, Outcome, TypeOK, BUFSZ, SMBUS_PACKET_HEADER_BYTES,
         MAX_MCTP_PACKET_LEN
<1>3. ReadInv
  BY <1>1 DEF Init, ReadInv, SMBUS_PACKET_HEADER_BYTES
<1>4. WriteInv
  BY DEF Init, WriteInv
<1> QED
  BY <1>2, <1>3, <1>4 DEF TypeInv

\* Steps that leave the packet being read alone.
LEMMA TypeSpWrite ==
    ASSUME TypeInv,
           WriteRequest \/ \E r \in Requests : RefuseCall(r) \/ AcceptCall(r)
    PROVE  TypeInv'
<1> USE DEF TypeInv
<1>0. << >> \in Seq(Byte) /\ Len(<< >>) = 0
  BY EmptySeq
<1>1. ASSUME NEW r \in Requests, RefuseCall(r)
      PROVE  TypeInv'
  BY <1>0, <1>1 DEF RefuseCall, TypeOK, ReadInv, WriteInv, Outcome, uartVars, ecVars,
     histVars
<1>2. ASSUME NEW r \in Requests, AcceptCall(r)
      PROVE  TypeInv'
  <2>1. RequestPacket(r) \in Seq(Byte) /\ RequestPacket(r) # << >>
    BY <1>2, RequestTyped DEF AcceptCall
  <2>2. TypeOK'
    BY <1>0, <1>2, <2>1 DEF AcceptCall, TypeOK, Outcome, uartVars, ecVars, BUFSZ,
       SMBUS_PACKET_HEADER_BYTES, MAX_MCTP_PACKET_LEN
  <2>3. ReadInv'
    BY <1>0, <1>2 DEF AcceptCall, ReadInv, SMBUS_PACKET_HEADER_BYTES
  <2>4. WriteInv'
    BY <1>2, <2>1 DEF AcceptCall, WriteInv
  <2> QED
    BY <2>2, <2>3, <2>4
<1>3. CASE WriteRequest
  <2>1. data \in Seq(Byte) /\ data # << >> /\ tx \in Seq(Byte) /\ FifoDepth \in Nat
    BY <1>3, UartAssumption DEF WriteRequest, TypeOK, WriteInv
  <2>2. Head(data) \in Byte /\ Tail(data) \in Seq(Byte) /\ Len(Tail(data)) = Len(data) - 1
    BY <2>1, HeadTailProperties
  <2>3. Append(tx, Head(data)) \in Seq(Byte) /\ Len(Append(tx, Head(data))) = Len(tx) + 1
    BY <2>1, <2>2, AppendProperties
  <2>4. Len(tx) \in Nat /\ Len(data) \in Nat
    BY <2>1, LenProperties
  <2>5. TypeOK'
    BY <1>3, <2>1, <2>2, <2>3, <2>4
       DEF WriteRequest, WriteByte, TypeOK, ecVars, histVars
  <2>6. ReadInv'
    BY <1>3 DEF WriteRequest, ReadInv
  <2>7. Len(data) = 1 <=> Tail(data) = << >>
    <3>1. Tail(data) = << >> => Len(Tail(data)) = 0
      BY <1>0
    <3>2. Tail(data) # << >> => Len(Tail(data)) # 0
      BY <2>2, EmptySeq
    <3> QED
      BY <2>2, <2>4, <3>1, <3>2
  <2>8. WriteInv'
    BY <1>3, <2>7 DEF WriteRequest, WriteInv
  <2> QED
    BY <2>5, <2>6, <2>8
<1> QED
  BY <1>1, <1>2, <1>3

\* send_cmd's reading loop keeps the types and never reads past a packet.
LEMMA TypeSpRead ==
    ASSUME TypeInv,
           ReadMore \/ CollectFragment \/ ReturnAnswer \/ RejectCount \/ RejectFragment
    PROVE  TypeInv'
<1> USE DEF TypeInv
<1>0. << >> \in Seq(Byte) /\ Len(<< >>) = 0
  BY EmptySeq
<1>1. /\ NextBuffer \in Seq(Byte) /\ Len(NextBuffer) = Len(buffer) + 1
      /\ \A i \in 1 .. Len(buffer) : NextBuffer[i] = buffer[i]
      /\ rx' \in Seq(Byte) /\ Len(rx') <= FifoDepth /\ tx' = tx
      /\ Len(buffer) \in Nat
  <2>1. ReadByte
    BY DEF ReadMore, CollectFragment, ReturnAnswer, FragmentRead, RejectCount, RejectFragment
  <2> QED
    BY <2>1, NextBufferTyped, LenProperties DEF TypeOK
<1>2. CASE ReadMore
  <2>1. ReadInv'
    <3>1. CASE Len(NextBuffer) = 4
      <4>1. NextBuffer[3] \in 4 .. 69 /\ buffer' = NextBuffer
        BY <1>2, <3>1 DEF ReadMore, HeaderRead, ByteCount, CountValid,
           SMBUS_PACKET_HEADER_BYTES, MCTP_PACKET_HEADER_BYTES, MAX_MCTP_PACKET_LEN
      <4>2. Len(NextBuffer) < 4 + NextBuffer[3]
        BY <3>1, <4>1
      <4> QED
        BY <4>1, <4>2 DEF ReadInv, ByteCount, CountValid,
           SMBUS_PACKET_HEADER_BYTES, MCTP_PACKET_HEADER_BYTES, MAX_MCTP_PACKET_LEN
    <3>2. CASE Len(NextBuffer) > 4
      <4>1. ByteCount(NextBuffer) = ByteCount(buffer)
        BY <1>1, <3>2 DEF ByteCount
      <4>2. CountValid(ByteCount(buffer)) /\ Len(buffer) < 4 + ByteCount(buffer)
        BY <1>1, <3>2 DEF ReadInv, SMBUS_PACKET_HEADER_BYTES
      <4>3. Len(NextBuffer) # 4 + ByteCount(buffer)
        BY <1>2, <3>2, <4>1 DEF ReadMore, PacketEnds, SMBUS_PACKET_HEADER_BYTES
      <4>4. ByteCount(buffer) \in Nat
        <5>1. 3 \in 1 .. Len(buffer) /\ buffer \in Seq(Byte)
          BY <1>1, <3>2 DEF TypeOK
        <5>2. buffer[3] \in Byte
          BY <5>1, ElementOfSeq
        <5> QED
          BY <5>2 DEF ByteCount, Byte
      <4> DEFINE n == ByteCount(buffer)
                 l == Len(buffer)
      <4>5. l \in Nat /\ n \in Nat /\ l < 4 + n /\ l + 1 # 4 + n
        BY <1>1, <4>2, <4>3, <4>4
      <4> HIDE DEF n, l
      <4>6. l + 1 < 4 + n
        BY <4>5
      <4>7. Len(NextBuffer) < 4 + ByteCount(buffer)
        BY <1>1, <4>6 DEF n, l
      <4>8. /\ CountValid(NextBuffer[3]) /\ Len(NextBuffer) < 4 + NextBuffer[3]
            /\ buffer' = NextBuffer
        BY <1>2, <4>1, <4>2, <4>7 DEF ReadMore, ByteCount
      <4> QED
        BY <4>8 DEF ReadInv, ByteCount, CountValid, SMBUS_PACKET_HEADER_BYTES
    <3> QED
      BY <1>1, <1>2, <3>1, <3>2 DEF ReadMore, ReadInv, SMBUS_PACKET_HEADER_BYTES
  <2>2. Len(NextBuffer) <= 73
    <3>1. CASE Len(NextBuffer) < 4
      BY <1>1, <3>1
    <3>2. CASE Len(NextBuffer) >= 4
      <4>1. /\ CountValid(ByteCount(NextBuffer))
            /\ Len(NextBuffer) < 4 + ByteCount(NextBuffer)
        BY <1>2, <2>1, <3>2 DEF ReadMore, ReadInv, SMBUS_PACKET_HEADER_BYTES
      <4> DEFINE n == ByteCount(NextBuffer)
                 l == Len(NextBuffer)
      <4>2. n \in 4 .. 69
        BY <4>1 DEF CountValid, MCTP_PACKET_HEADER_BYTES, MAX_MCTP_PACKET_LEN
      <4>3. l \in Nat /\ l < 4 + n
        BY <1>1, <4>1
      <4> HIDE DEF n, l
      <4>4. l <= 73
        BY <4>2, <4>3
      <4> QED
        BY <4>4 DEF l
    <3> QED
      BY <1>1, <3>1, <3>2
  <2>3. TypeOK'
    BY <1>1, <1>2, <2>2 DEF ReadMore, TypeOK, ecVars, histVars,
       SMBUS_PACKET_HEADER_BYTES, MAX_MCTP_PACKET_LEN
  <2>4. WriteInv'
    BY <1>2 DEF ReadMore, WriteInv
  <2> QED
    BY <2>1, <2>3, <2>4
<1>3. CASE CollectFragment
  <2>1. /\ out_buf \o out_slice(NextBuffer) \in Seq(Byte)
        /\ Len(out_buf \o out_slice(NextBuffer)) <= BUFSZ
    BY <1>3, CollectTyped DEF CollectFragment
  <2>2. TypeOK'
    BY <1>0, <1>1, <1>3, <2>1 DEF CollectFragment, TypeOK, ecVars, histVars,
       SMBUS_PACKET_HEADER_BYTES, MAX_MCTP_PACKET_LEN
  <2>3. ReadInv' /\ WriteInv'
    BY <1>0, <1>3 DEF CollectFragment, ReadInv, WriteInv, SMBUS_PACKET_HEADER_BYTES
  <2> QED
    BY <2>2, <2>3
<1>4. CASE ReturnAnswer
  <2>1. /\ out_buf \o out_slice(NextBuffer) \in Seq(Byte)
        /\ Len(out_buf \o out_slice(NextBuffer)) <= BUFSZ
    BY <1>4, CollectTyped DEF ReturnAnswer
  <2>2. pc = "read"
    BY <1>4 DEF ReturnAnswer, FragmentRead
  <2>3. TypeOK'
    BY <1>0, <1>1, <1>4, <2>1 DEF ReturnAnswer, TypeOK, Outcome, ecVars, BUFSZ,
       SMBUS_PACKET_HEADER_BYTES, MAX_MCTP_PACKET_LEN
  <2>4. ReadInv' /\ WriteInv'
    BY <1>0, <1>4, <2>2 DEF ReturnAnswer, ReadInv, WriteInv, SMBUS_PACKET_HEADER_BYTES
  <2> QED
    BY <2>3, <2>4
<1>5. CASE RejectCount \/ RejectFragment
  <2>1. Panic /\ pc = "read"
    BY <1>5 DEF RejectCount, RejectFragment
  <2> QED
    BY <1>1, <2>1 DEF Panic, TypeOK, ReadInv, WriteInv, ecVars, histVars
<1> QED
  BY <1>2, <1>3, <1>4, <1>5

\* The EC only moves bytes.
LEMMA TypeEc ==
    ASSUME TypeInv,
           EcHear \/ EcSend \/ \E n \in Notices : EcNotify(n)
    PROVE  TypeInv'
<1> USE DEF TypeInv
<1>0. FifoDepth \in Nat /\ Len(tx) \in Nat /\ Len(rx) \in Nat
  BY LenProperties, UartAssumption DEF TypeOK
<1>1. ASSUME FarReadByte
      PROVE  /\ EcReceived \in Seq(Byte) /\ tx' \in Seq(Byte)
             /\ Len(tx') <= FifoDepth /\ rx' = rx
  <2>1. tx \in Seq(Byte) /\ ecIn \in Seq(Byte) /\ tx # << >> /\ Len(tx) <= FifoDepth
    BY <1>1 DEF FarReadByte, TypeOK
  <2>2. /\ Append(ecIn, Head(tx)) \in Seq(Byte) /\ Tail(tx) \in Seq(Byte)
        /\ Len(Tail(tx)) = Len(tx) - 1
    BY <2>1, MoveHead
  <2> QED
    BY <1>0, <1>1, <2>1, <2>2 DEF FarReadByte, EcReceived
<1>2. ASSUME NEW a \in Answers \cup Notices
      PROVE  ecOut \o a.wire \in Seq(Byte)
  BY LinkAssumption, ConcatProperties DEF TypeOK
<1>3. CASE EcReceive
  BY <1>1, <1>3 DEF EcReceive, TypeOK, ReadInv, WriteInv, spVars, histVars
<1>4. ASSUME NEW a \in Answers, EcAnswer(a)
      PROVE  TypeInv'
  <2>1. << >> \in Seq(Byte)
    BY EmptySeq
  <2> QED
    BY <1>1, <1>2, <1>4, <2>1 DEF EcAnswer, TypeOK, ReadInv, WriteInv, spVars
<1>5. CASE EcSend
  <2>1. ecOut \in Seq(Byte) /\ ecOut # << >> /\ rx \in Seq(Byte)
    BY <1>5 DEF EcSend, TypeOK
  <2>2. /\ Append(rx, Head(ecOut)) \in Seq(Byte) /\ Tail(ecOut) \in Seq(Byte)
        /\ Len(Append(rx, Head(ecOut))) = Len(rx) + 1
    BY <2>1, MoveHead
  <2> QED
    BY <1>0, <1>5, <2>1, <2>2
       DEF EcSend, FarWriteByte, TypeOK, ReadInv, WriteInv, spVars, histVars
<1>6. ASSUME NEW n \in Notices, EcNotify(n)
      PROVE  TypeInv'
  BY <1>2, <1>6, LinkAssumption
     DEF EcNotify, TypeOK, ReadInv, WriteInv, spVars, uartVars
<1> QED
  BY <1>3, <1>4, <1>5, <1>6 DEF EcHear

\* Whatever the EC sends, well-formed or not, asked for or not: the state is
\* well typed; buffer never holds more than 73 bytes and out_buf never more
\* than 256; a count that is used has been checked; and the partition is
\* writing exactly while bytes of the request remain.
THEOREM TypeCorrect == Spec => []TypeInv
<1>1. Init => TypeInv
  BY TypeInit
<1>2. TypeInv /\ [Next]_vars => TypeInv'
  <2> SUFFICES ASSUME TypeInv, [Next]_vars
               PROVE  TypeInv'
    OBVIOUS
  <2>1. CASE \/ WriteRequest
             \/ \E r \in Requests : RefuseCall(r) \/ AcceptCall(r)
    BY <2>1, TypeSpWrite
  <2>3. CASE ReadMore \/ CollectFragment \/ ReturnAnswer \/ RejectCount \/ RejectFragment
    BY <2>3, TypeSpRead
  <2>4. CASE EcHear \/ EcSend \/ \E n \in Notices : EcNotify(n)
    BY <2>4, TypeEc
  <2>5. CASE UNCHANGED vars
    BY <2>5 DEF vars, spVars, uartVars, ecVars, histVars, TypeInv, TypeOK, ReadInv, WriteInv
  <2> QED
    BY <2>1, <2>3, <2>4, <2>5 DEF Next, SpStep
<1> QED
  BY <1>1, <1>2, PTL DEF Spec

\* Every variable keeps its type, whatever the EC sends: out_buf and buffer stay
\* within the arrays of send_cmd.
THEOREM TypesHold == Spec => []TypeOK
<1>1. TypeInv => TypeOK
  BY DEF TypeInv
<1> QED
  BY <1>1, TypeCorrect, PTL

\* Whatever the EC sends, send_cmd has checked the count by the time it reads by
\* it, and reads no byte past it.
THEOREM NeverReadsPast == Spec => []ReadInv
<1>1. TypeInv => ReadInv
  BY DEF TypeInv
<1> QED
  BY <1>1, TypeCorrect, PTL

\* The bytes on their way to the EC, and to the partition, those that have still
\* to enter the UART counted twice.
Going == 2 * Len(data) + Len(tx)
Coming == 2 * Len(ecOut) + Len(rx)

\* Whatever the EC sends, every step of a call, whether of the partition or of
\* the EC, moves a byte on, towards the EC or, with none moved there, towards
\* the partition (one iteration of EcUart's loops).  So between two calls or
\* unsolicited messages there are finitely many steps.
EveryStepMovesAByte ==
    [][SpStep \/ EcHear \/ EcSend =>
         \/ Going' < Going
         \/ Going' = Going /\ Coming' < Coming]_vars

LEMMA ByteMoves ==
    ASSUME TypeInv, SpStep \/ EcHear \/ EcSend
    PROVE  \/ Going' < Going
           \/ Going' = Going /\ Coming' < Coming
<1>1. /\ tx \in Seq(Byte) /\ rx \in Seq(Byte) /\ data \in Seq(Byte) /\ ecOut \in Seq(Byte)
      /\ pc = "write" => data # << >>
  BY DEF TypeInv, TypeOK, WriteInv
<1>2. Len(tx) \in Nat /\ Len(rx) \in Nat /\ Len(data) \in Nat /\ Len(ecOut) \in Nat
  BY <1>1, LenProperties
<1>3. CASE WriteRequest
  <2>1. data # << >> /\ tx' = Append(tx, Head(data)) /\ data' = Tail(data)
    BY <1>1, <1>3 DEF WriteRequest, WriteByte
  <2>2. Len(tx') = Len(tx) + 1 /\ Len(data') = Len(data) - 1
    BY <1>1, <2>1, MoveHead
  <2> QED
    BY <1>2, <2>2 DEF Going
<1>4. CASE ReadMore \/ CollectFragment \/ ReturnAnswer \/ RejectCount \/ RejectFragment
  <2>1. ReadByte /\ data' = data /\ ecOut' = ecOut
    BY <1>4 DEF ReadMore, CollectFragment, ReturnAnswer, FragmentRead, RejectCount,
       RejectFragment, Panic, ecVars
  <2>2. rx # << >> /\ rx' = Tail(rx) /\ tx' = tx
    BY <2>1 DEF ReadByte
  <2>3. Len(rx') = Len(rx) - 1
    BY <1>1, <2>2, MoveHead
  <2> QED
    BY <1>2, <2>1, <2>2, <2>3 DEF Going, Coming
<1>5. CASE EcHear
  <2>1. FarReadByte /\ data' = data
    BY <1>5 DEF EcHear, EcReceive, EcAnswer, spVars
  <2>2. tx # << >> /\ tx' = Tail(tx)
    BY <2>1 DEF FarReadByte
  <2>3. Len(tx') = Len(tx) - 1
    BY <1>1, <2>2, MoveHead
  <2> QED
    BY <1>2, <2>1, <2>3 DEF Going
<1>6. CASE EcSend
  <2>1. /\ ecOut # << >> /\ rx' = Append(rx, Head(ecOut)) /\ ecOut' = Tail(ecOut)
        /\ tx' = tx /\ data' = data
    BY <1>6 DEF EcSend, FarWriteByte, spVars
  <2>2. Len(rx') = Len(rx) + 1 /\ Len(ecOut') = Len(ecOut) - 1
    BY <1>1, <2>1, MoveHead
  <2> QED
    BY <1>2, <2>1, <2>2 DEF Going, Coming
<1> QED
  BY <1>3, <1>4, <1>5, <1>6 DEF SpStep

\* With NobodyWaitsForBoth (EcNoisy_proofs): a call is over after finitely many
\* steps, or waits for an EC that has nothing more to say.
THEOREM BytesMoveOn == Spec => EveryStepMovesAByte
<1>1. TypeInv /\ [Next]_vars =>
        [SpStep \/ EcHear \/ EcSend =>
           \/ Going' < Going
           \/ Going' = Going /\ Coming' < Coming]_vars
  BY ByteMoves
<1> QED
  BY <1>1, TypeCorrect, PTL DEF Spec, EveryStepMovesAByte

-----------------------------------------------------------------------------
\* A quiet, conforming EC.

\* While the request is on its way the EC hears a whole packet only when it
\* has read the last byte of it, and then hears what was asked.
LEMMA EcFraming ==
    ASSUME TypeInv, Asking, call \in Requests, Supported(call), FarReadByte
    PROVE  /\ EcReceived \o (tx' \o data) = RequestPacket(call)
           /\ PacketEnds(EcReceived) =>
                 tx' = << >> /\ data = << >> /\ Heard(EcReceived) = Asked(call)
<1> DEFINE p == RequestPacket(call)
           r == EcReceived
           t == tx' \o data
<1>1. /\ p \in Seq(Byte) /\ Len(p) > 4 /\ Len(p) = 4 + p[3] /\ Heard(p) = Asked(call)
  BY RequestFraming, LinkAssumption DEF ByteCount
<1>2. /\ ecIn \in Seq(Byte) /\ tx \in Seq(Byte) /\ data \in Seq(Byte) /\ tx # << >>
      /\ tx' = Tail(tx)
  BY DEF TypeInv, TypeOK, FarReadByte
<1>3. r \o t = p /\ r \in Seq(Byte) /\ tx' \in Seq(Byte)
  <2>1. Append(ecIn, Head(tx)) \in Seq(Byte) /\ Tail(tx) \in Seq(Byte)
    BY <1>2, MoveHead
  <2>2. Append(ecIn, Head(tx)) \o (Tail(tx) \o data) = ecIn \o (tx \o data)
    BY <1>2, Hop
  <2>3. ecIn \o (tx \o data) = p
    BY DEF Asking
  <2> QED
    BY <1>2, <2>1, <2>2, <2>3 DEF EcReceived
<1>4. t \in Seq(Byte)
  BY <1>2, <1>3, ConcatProperties
<1> HIDE DEF p, r, t
<1>5. /\ Len(p) = Len(r) + Len(t) /\ Len(r) \in Nat /\ Len(t) \in Nat /\ Len(p) \in Nat
      /\ \A i \in 1 .. Len(r) + Len(t) : p[i] = IF i <= Len(r) THEN r[i] ELSE t[i - Len(r)]
  BY <1>1, <1>3, <1>4, ConcatProperties, LenProperties
<1>6. ASSUME PacketEnds(r)
      PROVE  t = << >> /\ r = p
  <2>1. Len(r) > 4 /\ Len(r) = 4 + r[3]
    BY <1>6 DEF PacketEnds, ByteCount, SMBUS_PACKET_HEADER_BYTES
  <2>2. 3 \in 1 .. Len(r) + Len(t) /\ 3 <= Len(r)
    BY <1>5, <2>1
  <2>3. p[3] = r[3]
    BY <1>5, <2>2
  <2>4. Len(r) = Len(p)
    BY <1>1, <2>1, <2>3
  <2>5. Len(t) = 0
    BY <1>5, <2>4
  <2>6. t = << >>
    BY <1>4, <2>5, EmptySeq
  <2> QED
    BY <1>3, <2>6, ConcatEmptySeq
<1>7. t = << >> => tx' = << >> /\ data = << >>
  BY <1>2, <1>3, ConcatEqualIffEmpty DEF t
<1> QED
  BY <1>1, <1>3, <1>6, <1>7 DEF p, r, t

\* A packet of a conforming message.
LEMMA ConformingFacts ==
    ASSUME NEW a, Conforming(a), NEW c \in a.cuts \ {Len(a.wire)}
    PROVE  /\ a.wire \in Seq(Byte) /\ Len(a.wire) \in Nat
           /\ c \in 0 .. Len(a.wire) - 1
           /\ a.wire[c + 3] \in 4 .. 69
           /\ EndOfPacket(a, c) \in a.cuts
           /\ EndOfPacket(a, c) \in 0 .. Len(a.wire)
           /\ EndOfPacket(a, c) = c + 4 + a.wire[c + 3]
           /\ HeadersOf(c) \in Nat /\ c + HeadersOf(c) <= EndOfPacket(a, c)
           /\ Som(Flags(PacketAt(a, c))) <=> c = 0
           /\ Eom(Flags(PacketAt(a, c))) <=> EndOfPacket(a, c) = Len(a.wire)
           /\ a.upto[c] \in Seq(Byte) /\ a.upto[EndOfPacket(a, c)] \in Seq(Byte)
           /\ Len(a.upto[EndOfPacket(a, c)]) <= MAX_MESSAGE_SIZE_BYTES
           /\ a.upto[EndOfPacket(a, c)] =
                 a.upto[c] \o SubSeq(PacketAt(a, c), HeadersOf(c) + 1, Len(PacketAt(a, c)))
<1>2. /\ a.wire \in Seq(Byte) /\ a.cuts \subseteq 0 .. Len(a.wire)
      /\ \A d \in a.cuts : a.upto[d] \in Seq(Byte) /\ Len(a.upto[d]) <= MAX_MESSAGE_SIZE_BYTES
      /\ ConformingPacket(a, c)
  BY DEF Conforming
<1>3. Len(a.wire) \in Nat
  BY <1>2, LenProperties
<1>4. c \in 0 .. Len(a.wire) /\ c # Len(a.wire)
  BY <1>2
<1>5. c \in 0 .. Len(a.wire) - 1
  BY <1>3, <1>4
<1>6. a.wire[c + 3] \in 4 .. 69
  BY <1>2 DEF ConformingPacket, MCTP_PACKET_HEADER_BYTES, MAX_MCTP_PACKET_LEN
<1>7. EndOfPacket(a, c) = c + 4 + a.wire[c + 3]
  BY DEF EndOfPacket, SMBUS_PACKET_HEADER_BYTES
<1>8. HeadersOf(c) \in Nat
  BY DEF HeadersOf, PACKET_HEADER_BYTES, SMBUS_PACKET_HEADER_BYTES,
     MCTP_PACKET_HEADER_BYTES, MCTP_MESSAGE_HEADER_BYTES, ODP_MESSAGE_HEADER_BYTES
<1>9. /\ c + HeadersOf(c) <= EndOfPacket(a, c)
      /\ EndOfPacket(a, c) \in a.cuts
      /\ Som(Flags(PacketAt(a, c))) <=> c = 0
      /\ Eom(Flags(PacketAt(a, c))) <=> EndOfPacket(a, c) = Len(a.wire)
      /\ a.upto[EndOfPacket(a, c)] =
            a.upto[c] \o SubSeq(PacketAt(a, c), HeadersOf(c) + 1, Len(PacketAt(a, c)))
  BY <1>2 DEF ConformingPacket
<1> QED
  BY <1>2, <1>3, <1>5, <1>6, <1>7, <1>8, <1>9

\* The bytes of a conforming message from the start of a packet on: the packet
\* ends exactly where the EC ended it.
LEMMA PacketRead ==
    ASSUME NEW a, Conforming(a), NEW c \in a.cuts \ {Len(a.wire)},
           NEW b \in Seq(Byte), Len(b) <= 4 + a.wire[c + 3],
           \A i \in 1 .. Len(b) : b[i] = a.wire[c + i]
    PROVE  /\ HeaderRead(b) => CountValid(ByteCount(b))
           /\ ~PacketEnds(b) => Len(b) < 4 + a.wire[c + 3]
           /\ PacketEnds(b) => /\ b = PacketAt(a, c)
                               /\ Len(b) = EndOfPacket(a, c) - c
<1> DEFINE w == a.wire
           n == a.wire[c + 3]
           e == EndOfPacket(a, c)
<1>1. /\ w \in Seq(Byte) /\ Len(w) \in Nat /\ c \in 0 .. Len(w) - 1 /\ n \in 4 .. 69
      /\ e = c + 4 + n /\ e \in 0 .. Len(w)
  BY ConformingFacts
<1>2. \A i \in 1 .. Len(b) : b[i] = w[c + i]
  OBVIOUS
<1>3. Len(b) \in Nat /\ Len(b) <= 4 + n
  BY LenProperties
<1>4. PacketAt(a, c) = SubSeq(w, c + 1, e)
  BY DEF PacketAt, EndOfPacket
<1>5. Len(b) >= 3 => b[3] = n
  <2>1. Len(b) >= 3 => 3 \in 1 .. Len(b)
    BY <1>3
  <2> QED
    BY <1>2, <2>1
<1> HIDE DEF w, n, e
<1>6. HeaderRead(b) => CountValid(ByteCount(b))
  <2>1. Len(b) = 4 => b[3] = n
    BY <1>5
  <2> QED
    BY <1>1, <2>1 DEF HeaderRead, CountValid, ByteCount, SMBUS_PACKET_HEADER_BYTES,
       MCTP_PACKET_HEADER_BYTES, MAX_MCTP_PACKET_LEN
<1>7. ASSUME ~PacketEnds(b)
      PROVE  Len(b) < 4 + n
  <2>1. Len(b) > 4 => Len(b) # 4 + n
    BY <1>5, <1>7 DEF PacketEnds, ByteCount, SMBUS_PACKET_HEADER_BYTES
  <2> QED
    BY <1>1, <1>3, <2>1
<1>8. ASSUME PacketEnds(b)
      PROVE  b = PacketAt(a, c) /\ Len(b) = e - c
  <2>1. Len(b) = 4 + n
    BY <1>3, <1>5, <1>8 DEF PacketEnds, ByteCount, SMBUS_PACKET_HEADER_BYTES
  <2>2. Len(b) = e - c
    BY <1>1, <2>1
  <2>3. c \in 0 .. Len(w) /\ e \in c .. Len(w)
    BY <1>1
  <2>4. /\ SubSeq(w, c + 1, e) \in Seq(Byte) /\ Len(SubSeq(w, c + 1, e)) = e - c
        /\ \A i \in 1 .. e - c : SubSeq(w, c + 1, e)[i] = w[c + i]
    BY <1>1, <2>3, SliceProperties, SMTT(40)
  <2>5. b = SubSeq(w, c + 1, e)
    BY <1>2, <2>2, <2>4, SeqEqual
  <2> QED
    BY <1>4, <2>2, <2>5
<1> QED
  BY <1>6, <1>7, <1>8 DEF n, e

\* Reading a byte of a conforming answer: what is left to read is the rest of
\* the message.
LEMMA Reading ==
    ASSUME TypeInv, NEW a, Conforming(a), NEW c \in a.cuts \ {Len(a.wire)},
           Answering(a, c), ReadByte
    PROVE  /\ NextBuffer \o (rx' \o ecOut) = SubSeq(a.wire, c + 1, Len(a.wire))
           /\ HeaderRead(NextBuffer) => CountValid(ByteCount(NextBuffer))
           /\ ~PacketEnds(NextBuffer) => Len(NextBuffer) < 4 + a.wire[c + 3]
           /\ PacketEnds(NextBuffer) =>
                 /\ NextBuffer = PacketAt(a, c)
                 /\ Len(NextBuffer) = EndOfPacket(a, c) - c
                 /\ rx' \o ecOut =
                       SubSeq(a.wire, EndOfPacket(a, c) + 1, Len(a.wire))
<1> DEFINE b == NextBuffer
           t == rx' \o ecOut
           w == a.wire
           n == a.wire[c + 3]
<1>0. Conforming(a)
  OBVIOUS
<1>1. /\ w \in Seq(Byte) /\ Len(w) \in Nat /\ c \in 0 .. Len(w) - 1 /\ n \in 4 .. 69
  BY <1>0, ConformingFacts
<1>2. /\ b \in Seq(Byte) /\ Len(b) = Len(buffer) + 1 /\ rx' \in Seq(Byte)
      /\ rx \in Seq(Byte) /\ rx # << >> /\ rx' = Tail(rx)
      /\ buffer \in Seq(Byte) /\ ecOut \in Seq(Byte)
  BY NextBufferTyped DEF TypeInv, TypeOK
<1>3. t \in Seq(Byte)
  BY <1>2, ConcatProperties
<1>4. Len(buffer) \in Nat /\ Len(buffer) < 4 + n
  BY <1>2, LenProperties DEF Answering, SMBUS_PACKET_HEADER_BYTES
<1>5. b \o t = SubSeq(w, c + 1, Len(w))
  <2>1. Append(buffer, Head(rx)) \o (Tail(rx) \o ecOut) = buffer \o (rx \o ecOut)
    BY <1>2, Hop, ZenonT(60)
  <2>2. buffer \o (rx \o ecOut) = SubSeq(w, c + 1, Len(w))
    BY DEF Answering
  <2> QED
    BY <1>2, <2>1, <2>2 DEF NextBuffer
<1> HIDE DEF b, t, w, n
<1>6. c \in 0 .. Len(w)
  BY <1>1
<1>7. /\ \A i \in 1 .. Len(b) : b[i] = w[c + i]
      /\ t = SubSeq(w, c + Len(b) + 1, Len(w))
  <2>1. w \in Seq(Byte) /\ b \in Seq(Byte)
    BY <1>1, <1>2
  <2> QED
    <3>1. \A x, y \in Seq(Byte) :
            x \o y = SubSeq(w, c + 1, Len(w)) =>
              /\ c + Len(x) <= Len(w)
              /\ x = SubSeq(w, c + 1, c + Len(x))
              /\ \A i \in 1 .. Len(x) : x[i] = w[c + i]
              /\ y = SubSeq(w, c + Len(x) + 1, Len(w))
      BY <1>6, <2>1, CutConcat
    <3> QED
      BY <1>3, <1>5, <2>1, <3>1, Zenon
<1>8. Len(b) <= 4 + n
  <2>1. Len(b) = Len(buffer) + 1 /\ n \in Nat
    BY <1>1, <1>2
  <2> QED
    BY <1>4, <2>1 DEF n
<1>9. /\ HeaderRead(b) => CountValid(ByteCount(b))
      /\ ~PacketEnds(b) => Len(b) < 4 + n
      /\ PacketEnds(b) => b = PacketAt(a, c) /\ Len(b) = EndOfPacket(a, c) - c
  BY <1>0, <1>2, <1>7, <1>8, PacketRead DEF w, n
<1>10. ASSUME PacketEnds(b)
       PROVE  t = SubSeq(w, EndOfPacket(a, c) + 1, Len(w))
  <2>1. EndOfPacket(a, c) \in Nat /\ c \in Nat
    BY <1>0, ConformingFacts
  <2>2. c + Len(b) = EndOfPacket(a, c)
    BY <1>9, <1>10, <2>1
  <2> QED
    BY <1>7, <2>2
<1> QED
  BY <1>5, <1>9, <1>10 DEF b, t, w, n

\* What send_cmd slices out of a packet of a conforming message is the
\* payload the EC put in, and it fits.
LEMMA Slicing ==
    ASSUME NEW a, Conforming(a), NEW c \in a.cuts \ {Len(a.wire)},
           out_buf = a.upto[c], NextBuffer = PacketAt(a, c),
           NextBuffer \in Seq(Byte),
           Len(NextBuffer) = EndOfPacket(a, c) - c
    PROVE  /\ SliceFits(NextBuffer, out_buf)
           /\ out_buf \o out_slice(NextBuffer) = a.upto[EndOfPacket(a, c)]
<1> DEFINE b == NextBuffer
           h == HeadersOf(c)
           e == EndOfPacket(a, c)
           sl == SubSeq(b, h + 1, Len(b))
<1>1. /\ c \in Nat /\ e \in Nat /\ h \in Nat /\ c + h <= e
      /\ Som(Flags(b)) <=> c = 0
      /\ a.upto[c] \in Seq(Byte) /\ a.upto[e] \in Seq(Byte)
      /\ Len(a.upto[e]) <= MAX_MESSAGE_SIZE_BYTES
      /\ a.upto[e] = a.upto[c] \o sl
      /\ out_buf = a.upto[c] /\ b \in Seq(Byte) /\ Len(b) = e - c
  <2>1. b = PacketAt(a, c)
    OBVIOUS
  <2>2. /\ c \in Nat /\ e \in Nat /\ h \in Nat /\ c + h <= e
        /\ a.upto[c] \in Seq(Byte) /\ a.upto[e] \in Seq(Byte)
        /\ Len(a.upto[e]) <= MAX_MESSAGE_SIZE_BYTES
    BY ConformingFacts
  <2>3. /\ Som(Flags(PacketAt(a, c))) <=> c = 0
        /\ a.upto[e] = a.upto[c]
              \o SubSeq(PacketAt(a, c), HeadersOf(c) + 1, Len(PacketAt(a, c)))
    BY ConformingFacts, Zenon
  <2>4. (Som(Flags(b)) <=> c = 0) /\ a.upto[e] = a.upto[c] \o sl
    BY <2>1, <2>3, Zenon
  <2>5. out_buf = a.upto[c] /\ b \in Seq(Byte) /\ Len(b) = e - c
    OBVIOUS
  <2> QED
    BY <2>2, <2>4, <2>5
<1>2. PayloadStart(b) = h
  <2>1. CASE c = 0
    <3>1. Som(Flags(b))
      BY <1>1, <2>1
    <3> QED
      BY <2>1, <3>1 DEF PayloadStart, HeadersOf, PACKET_HEADER_BYTES,
         SMBUS_PACKET_HEADER_BYTES, MCTP_PACKET_HEADER_BYTES,
         MCTP_MESSAGE_HEADER_BYTES, ODP_MESSAGE_HEADER_BYTES
  <2>2. CASE c # 0
    <3>1. ~Som(Flags(b))
      BY <1>1, <2>2
    <3> QED
      BY <2>2, <3>1 DEF PayloadStart, HeadersOf, SMBUS_PACKET_HEADER_BYTES,
         MCTP_PACKET_HEADER_BYTES
  <2> QED
    BY <2>1, <2>2
<1> HIDE DEF b, h, e
<1>3. Len(b) \in Nat /\ h \in 0 .. Len(b) /\ Len(b) \in h .. Len(b)
  BY <1>1
<1>4. sl \in Seq(Byte) /\ Len(sl) = Len(b) - h
  BY <1>1, <1>3, SliceProperties
<1> HIDE DEF sl
<1>5. Len(a.upto[e]) = Len(out_buf) + (Len(b) - h)
  <2>1. a.upto[e] = out_buf \o sl /\ out_buf \in Seq(Byte)
    BY <1>1
  <2>2. Len(out_buf \o sl) = Len(out_buf) + Len(sl)
    BY <1>4, <2>1, ConcatProperties
  <2> QED
    BY <1>4, <2>1, <2>2
<1>6. SliceFits(b, out_buf)
  <2>1. Len(out_buf) + (Len(b) - h) <= 112
    BY <1>1, <1>5 DEF MAX_MESSAGE_SIZE_BYTES
  <2>2. Len(out_buf) \in Nat
    BY <1>1, LenProperties
  <2>3. Len(out_buf) + (Len(b) - h) <= 256
    BY <1>3, <2>1, <2>2
  <2>4. h <= Len(b)
    BY <1>3
  <2> QED
    BY <1>2, <2>3, <2>4 DEF SliceFits, BUFSZ
<1>7. out_slice(b) = sl
  BY <1>2 DEF out_slice, sl
<1> QED
  BY <1>1, <1>6, <1>7 DEF b, e

\* Nothing in flight, and the first byte a new call is going to write.
LEMMA QuietInit == Init => QuietInv
BY DEF Init, UartInit, QuietInv, Drained

\* A call begins on an empty link and writes its request on one.
LEMMA QuietWrite ==
    ASSUME TypeInv, QuietInv,
           WriteRequest \/ \E r \in Requests : RefuseCall(r) \/ AcceptCall(r)
    PROVE  QuietInv'
<1>1. ASSUME NEW r \in Requests, RefuseCall(r)
      PROVE  QuietInv'
  BY <1>1 DEF RefuseCall, QuietInv, Drained, uartVars, ecVars, histVars
<1>2. ASSUME NEW r \in Requests, AcceptCall(r)
      PROVE  QuietInv'
  <2>1. Drained /\ pc' = "write" /\ call' = r /\ Supported(r)
    BY <1>2 DEF AcceptCall, QuietInv
  <2>2. RequestPacket(r) \in Seq(Byte) /\ << >> \in Seq(Byte)
    BY <1>2, RequestTyped, EmptySeq DEF AcceptCall
  <2>3. << >> \o (<< >> \o RequestPacket(r)) = RequestPacket(r)
    BY <2>2, ConcatEmptySeq
  <2>4. Asking'
    BY <1>2, <2>1, <2>3 DEF AcceptCall, Asking, Drained, uartVars, ecVars
  <2> QED
    BY <2>1, <2>4 DEF QuietInv
<1>3. CASE WriteRequest
  <2>1. pc = "write" /\ Asking /\ data # << >> /\ call \in Requests /\ Supported(call)
    BY <1>3 DEF WriteRequest, QuietInv, TypeInv, WriteInv
  <2>2. tx \in Seq(Byte) /\ data \in Seq(Byte)
    BY DEF TypeInv, TypeOK
  <2>3. Append(tx, Head(data)) \o Tail(data) = tx \o data
    BY <2>1, <2>2, MoveHead
  <2>4. tx' = Append(tx, Head(data)) /\ data' = Tail(data)
    BY <1>3 DEF WriteRequest, WriteByte
  <2>5. Asking'
    BY <1>3, <2>1, <2>3, <2>4 DEF WriteRequest, WriteByte, Asking, ecVars, histVars
  <2> QED
    BY <1>3, <2>1, <2>5 DEF WriteRequest, QuietInv
<1> QED
  BY <1>1, <1>2, <1>3

\* While the request is on its way the partition has nothing to read.
LEMMA ReadingAnswer ==
    ASSUME QuietInv, pc = "read", ReadByte
    PROVE  \E a \in Answers : \E c \in a.cuts \ {Len(a.wire)} : Answering(a, c)
BY DEF QuietInv, Asking, ReadByte

\* Reading moves along a conforming answer, from the start of one packet to the
\* next, up to the end; nothing in it is rejected.
LEMMA ConformingRead ==
    ASSUME TypeInv, NEW a, Conforming(a), NEW c \in a.cuts \ {Len(a.wire)},
           Answering(a, c),
           ReadMore \/ CollectFragment \/ ReturnAnswer \/ RejectCount \/ RejectFragment
    PROVE  /\ ReadMore => Answering(a, c)'
           /\ CollectFragment => /\ EndOfPacket(a, c) \in a.cuts \ {Len(a.wire)}
                                 /\ Answering(a, EndOfPacket(a, c))'
           /\ ReturnAnswer => Drained'
           /\ ~RejectCount /\ ~RejectFragment
<1>1. ReadByte
  BY DEF ReadMore, CollectFragment, ReturnAnswer, FragmentRead, RejectCount, RejectFragment
<1>0. Conforming(a) /\ out_buf = a.upto[c]
  BY DEF Answering
<1> DEFINE e == EndOfPacket(a, c)
<1>4. /\ NextBuffer \o (rx' \o ecOut) = SubSeq(a.wire, c + 1, Len(a.wire))
      /\ HeaderRead(NextBuffer) => CountValid(ByteCount(NextBuffer))
      /\ ~PacketEnds(NextBuffer) => Len(NextBuffer) < 4 + a.wire[c + 3]
      /\ PacketEnds(NextBuffer) =>
            /\ NextBuffer = PacketAt(a, c)
            /\ Len(NextBuffer) = e - c
            /\ rx' \o ecOut = SubSeq(a.wire, e + 1, Len(a.wire))
  BY <1>1, Reading
<1>5. /\ NextBuffer \in Seq(Byte) /\ rx' \in Seq(Byte) /\ tx' = tx /\ ecOut \in Seq(Byte)
  BY <1>1, NextBufferTyped DEF TypeInv, TypeOK
<1>6. PacketEnds(NextBuffer) =>
        /\ SliceFits(NextBuffer, out_buf)
        /\ out_buf \o out_slice(NextBuffer) = a.upto[e]
  BY <1>0, <1>4, <1>5, Slicing
<1>7. ASSUME ReadMore
      PROVE  Answering(a, c)'
  BY <1>4, <1>5, <1>7
     DEF ReadMore, Answering, ecVars, histVars, SMBUS_PACKET_HEADER_BYTES
<1>8. ASSUME CollectFragment
      PROVE  e \in a.cuts \ {Len(a.wire)} /\ Answering(a, e)'
  <2>1. PacketEnds(NextBuffer) /\ ~Eom(Flags(NextBuffer))
    BY <1>8 DEF CollectFragment, FragmentRead
  <2>2. e \in a.cuts \ {Len(a.wire)}
    BY <1>0, <1>4, <2>1, ConformingFacts
  <2>3. a.wire[e + 3] \in 4 .. 69
    BY <1>0, <2>2, ConformingFacts
  <2>4. /\ out_buf' = a.upto[e] /\ buffer' = << >>
        /\ ecOut' = ecOut /\ ecIn' = ecIn /\ unheard' = unheard /\ owed' = owed
        /\ call' = call
    BY <1>6, <1>8, <2>1 DEF CollectFragment, ecVars, histVars
  <2>5. << >> \o (rx' \o ecOut) = SubSeq(a.wire, e + 1, Len(a.wire))
    BY <1>4, <1>5, <2>1, ConcatProperties, ConcatEmptySeq
  <2>6. Len(<< >>) < 4 + a.wire[e + 3]
    <3> DEFINE n == a.wire[e + 3]
    <3>1. n \in 4 .. 69
      BY <2>3
    <3>2. Len(<< >>) = 0
      OBVIOUS
    <3> HIDE DEF n
    <3>3. 0 < 4 + n
      BY <3>1
    <3> QED
      BY <3>2, <3>3 DEF n
  <2>7. Answering(a, e)'
    BY <1>5, <2>4, <2>5, <2>6 DEF Answering, SMBUS_PACKET_HEADER_BYTES
  <2> QED
    BY <2>2, <2>7
<1>9. ASSUME ReturnAnswer
      PROVE  Drained'
  <2>1. PacketEnds(NextBuffer) /\ Eom(Flags(NextBuffer))
    BY <1>9 DEF ReturnAnswer, FragmentRead
  <2>2. e = Len(a.wire)
    BY <1>0, <1>4, <2>1, ConformingFacts
  <2>3. SubSeq(a.wire, e + 1, Len(a.wire)) = << >>
    <3>1. Len(a.wire) \in Int
      BY <1>0, ConformingFacts
    <3>2. e + 1 \in Int /\ Len(a.wire) < e + 1
      BY <2>2, <3>1
    <3> QED
      BY <3>1, <3>2, SubSeqEmpty
  <2>4. rx' \o ecOut = << >>
    BY <1>4, <2>1, <2>3
  <2>5. rx' = << >> /\ ecOut = << >>
    BY <1>5, <2>4, ConcatEqualIffEmpty
  <2>6. SubSeq(owed, 2, Len(owed)) = << >>
    <3>1. Len(owed) = 1
      BY DEF Answering
    <3> QED
      BY <3>1, SubSeqEmpty
  <2> QED
    BY <1>5, <1>9, <2>5, <2>6 DEF ReturnAnswer, Drained, Answering, ecVars
<1>10. ~RejectCount /\ ~RejectFragment
  BY <1>4, <1>6 DEF RejectCount, RejectFragment
<1> QED
  BY <1>7, <1>8, <1>9, <1>10

\* So the link goes from one of its phases to another.
LEMMA QuietRead ==
    ASSUME TypeInv, QuietInv, ConformingEc,
           ReadMore \/ CollectFragment \/ ReturnAnswer \/ RejectCount \/ RejectFragment
    PROVE  QuietInv'
<1>1. pc = "read" /\ ReadByte /\ call \in Requests /\ Supported(call)
  BY DEF ReadMore, CollectFragment, ReturnAnswer, FragmentRead, RejectCount,
         RejectFragment, QuietInv
<1>2. PICK a \in Answers : \E c \in a.cuts \ {Len(a.wire)} : Answering(a, c)
  BY <1>1, ReadingAnswer
<1>3. PICK c \in a.cuts \ {Len(a.wire)} : Answering(a, c)
  BY <1>2
<1>4. Conforming(a)
  BY DEF ConformingEc
<1>5. /\ ReadMore => Answering(a, c)'
      /\ CollectFragment => /\ EndOfPacket(a, c) \in a.cuts \ {Len(a.wire)}
                            /\ Answering(a, EndOfPacket(a, c))'
      /\ ReturnAnswer => Drained'
      /\ ~RejectCount /\ ~RejectFragment
  BY <1>3, <1>4, ConformingRead
<1>6. CASE ReadMore \/ CollectFragment
  <2>1. pc' = "read" /\ call' = call
    BY <1>1, <1>6 DEF ReadMore, CollectFragment
  <2> QED
    BY <1>1, <1>5, <1>6, <2>1 DEF QuietInv
<1>7. CASE ReturnAnswer
  BY <1>5, <1>7 DEF ReturnAnswer, QuietInv
<1> QED
  BY <1>5, <1>6, <1>7

\* The EC answers when it has heard the request to its end, and what the
\* partition will read is the whole answer.
LEMMA AnswerBegins ==
    ASSUME TypeInv, Asking, pc \in {"write", "read"}, call \in Requests, Supported(call),
           NEW a \in Answers, EcAnswer(a)
    PROVE  /\ pc = "read" /\ pc' = "read" /\ call' = call
           /\ tx' = << >> /\ ecIn' = << >> /\ unheard' = << >>
           /\ owed' = << [to |-> Asked(call), message |-> a] >>
           /\ buffer' \o (rx' \o ecOut') = SubSeq(a.wire, 0 + 1, Len(a.wire))
           /\ Conforming(a) => 0 \in a.cuts \ {Len(a.wire)} /\ Answering(a, 0)'
<1>1. FarReadByte /\ PacketEnds(EcReceived)
  BY DEF EcAnswer
<1>2. tx' = << >> /\ data = << >> /\ Heard(EcReceived) = Asked(call)
  BY <1>1, EcFraming
<1>3. pc = "read" /\ pc' = "read" /\ call' = call
  BY <1>2 DEF EcAnswer, spVars, TypeInv, WriteInv
<1>4. a.wire \in Seq(Byte) /\ a.wire # << >> /\ << >> \in Seq(Byte)
  BY LinkAssumption, EmptySeq
<1>5. << >> \o (<< >> \o (<< >> \o a.wire)) = a.wire
  BY <1>4, ConcatEmptySeq
<1>6. SubSeq(a.wire, 0 + 1, Len(a.wire)) = a.wire
  BY <1>4, SubSeqFull
<1>7. /\ unheard' = << >> /\ ecIn' = << >> /\ rx' = << >> /\ ecOut' = << >> \o a.wire
      /\ owed' = << [to |-> Asked(call), message |-> a] >>
      /\ buffer' = << >> /\ out_buf' = << >>
  BY <1>1, <1>2 DEF EcAnswer, Asking, Asked, spVars, FarReadByte
<1>8. buffer' \o (rx' \o ecOut') = SubSeq(a.wire, 0 + 1, Len(a.wire))
  BY <1>5, <1>6, <1>7
<1>9. ASSUME Conforming(a)
      PROVE  0 \in a.cuts \ {Len(a.wire)} /\ Answering(a, 0)'
  <2>1. 0 \in a.cuts /\ a.upto[0] = << >>
    BY <1>9 DEF Conforming
  <2>2. Len(a.wire) # 0
    BY <1>4, EmptySeq
  <2>3. 0 \in a.cuts \ {Len(a.wire)}
    BY <2>1, <2>2
  <2>4. a.wire[0 + 3] \in 4 .. 69
    BY <1>9, <2>3, ConformingFacts
  <2>5. Len(<< >>) < 4 + a.wire[0 + 3]
    <3> DEFINE n == a.wire[0 + 3]
    <3>1. n \in 4 .. 69 /\ Len(<< >>) = 0
      BY <2>4
    <3> HIDE DEF n
    <3>2. 0 < 4 + n
      BY <3>1
    <3> QED
      BY <3>1, <3>2 DEF n
  <2>6. Answering(a, 0)'
    BY <1>2, <1>3, <1>7, <1>8, <2>1, <2>5 DEF Answering, Asked, SMBUS_PACKET_HEADER_BYTES
  <2> QED
    BY <2>3, <2>6
<1> QED
  BY <1>2, <1>3, <1>7, <1>8, <1>9

\* The EC hears the request to its end, answers it, and sends the answer.
LEMMA QuietEcStep ==
    ASSUME TypeInv, QuietInv, ConformingEc, EcHear \/ EcSend
    PROVE  QuietInv'
<1>0. /\ tx \in Seq(Byte) /\ rx \in Seq(Byte) /\ ecOut \in Seq(Byte) /\ ecIn \in Seq(Byte)
      /\ buffer \in Seq(Byte) /\ << >> \in Seq(Byte)
  BY EmptySeq DEF TypeInv, TypeOK
\* A byte is heard only while the request is on its way.
<1>1. FarReadByte => Asking /\ pc # "idle" /\ call \in Requests /\ Supported(call)
  BY DEF FarReadByte, QuietInv, Drained, Answering
<1>2. CASE EcReceive
  <2>1. FarReadByte
    BY <1>2 DEF EcReceive
  <2>2. EcReceived \o (tx' \o data) = RequestPacket(call)
    BY <1>1, <2>1, EcFraming
  <2>3. Asking'
    BY <1>1, <1>2, <2>1, <2>2 DEF EcReceive, FarReadByte, Asking, spVars, histVars
  <2>4. pc' = pc /\ call' = call
    BY <1>2 DEF EcReceive, spVars
  <2> QED
    BY <1>1, <2>1, <2>3, <2>4 DEF QuietInv
<1>3. ASSUME NEW a \in Answers, EcAnswer(a)
      PROVE  QuietInv'
  <2>1. Asking /\ pc \in {"write", "read"} /\ call \in Requests /\ Supported(call)
    BY <1>1, <1>3 DEF EcAnswer, QuietInv
  <2>2. /\ pc' = "read" /\ call' = call
        /\ Conforming(a) => 0 \in a.cuts \ {Len(a.wire)} /\ Answering(a, 0)'
    BY <1>3, <2>1, AnswerBegins
  <2>3. Conforming(a)
    BY DEF ConformingEc
  <2> QED
    BY <2>1, <2>2, <2>3 DEF QuietInv
<1>4. CASE EcSend
  <2>1. ecOut # << >> /\ rx' = Append(rx, Head(ecOut)) /\ ecOut' = Tail(ecOut)
    BY <1>4 DEF EcSend, FarWriteByte
  <2>2. rx' \o ecOut' = rx \o ecOut
    BY <1>0, <2>1, MoveHead, SMTT(40)
  <2>3. pc = "read" /\ ~Asking
    BY <2>1 DEF QuietInv, Drained, Asking
  <2>4. PICK a \in Answers : \E c \in a.cuts \ {Len(a.wire)} : Answering(a, c)
    BY <2>3 DEF QuietInv
  <2>5. PICK c \in a.cuts \ {Len(a.wire)} : Answering(a, c)
    BY <2>4
  <2>6. Answering(a, c)'
    BY <1>4, <2>2, <2>5 DEF EcSend, FarWriteByte, Answering, spVars, histVars
  <2>7. pc' = pc /\ call' = call
    BY <1>4 DEF EcSend, spVars
  <2> QED
    BY <2>3, <2>6, <2>7 DEF QuietInv
<1> QED
  BY <1>2, <1>3, <1>4 DEF EcHear

\* Every step of a link with a quiet, conforming EC keeps to the three phases.
LEMMA QuietStep ==
    ASSUME TypeInv, QuietInv, [Next]_vars, ConformingEc, QuietEc
    PROVE  QuietInv'
<1>1. CASE WriteRequest \/ \E r \in Requests : RefuseCall(r) \/ AcceptCall(r)
  BY <1>1, QuietWrite
<1>2. CASE ReadMore \/ CollectFragment \/ ReturnAnswer \/ RejectCount \/ RejectFragment
  BY <1>2, QuietRead
<1>3. CASE EcHear \/ EcSend
  BY <1>3, QuietEcStep
<1>4. CASE \E n \in Notices : EcNotify(n)
  BY <1>4 DEF QuietEc
<1>5. CASE UNCHANGED vars
  BY <1>5 DEF vars, spVars, uartVars, ecVars, histVars, QuietInv, Drained, Asking, Answering
<1> QED
  BY <1>1, <1>2, <1>3, <1>4, <1>5 DEF Next, SpStep

\* With a quiet, conforming EC the link is always in one of its three phases:
\* drained, carrying the request of the call in progress, or carrying the
\* EC's answer to it cut at a packet boundary.
THEOREM LinkIsOrderly ==
    ASSUME ConformingEc, QuietEc
    PROVE  Spec => []QuietInv
<1>1. Init => QuietInv
  BY QuietInit
<1>2. TypeInv /\ QuietInv /\ [Next]_vars => QuietInv'
  BY QuietStep
<1> QED
  BY <1>1, <1>2, TypeCorrect, PTL DEF Spec

\* Hence no byte of one call survives into the next one, ...
THEOREM CallsAreIsolated ==
    ASSUME ConformingEc, QuietEc
    PROVE  Spec => []IdleMeansDrained
<1>1. QuietInv => IdleMeansDrained
  BY DEF QuietInv, IdleMeansDrained, Drained
<1> QED
  BY <1>1, LinkIsOrderly, PTL

\* ... and the two ends never both wait for room.
THEOREM OneDirectionAtATime ==
    ASSUME ConformingEc, QuietEc
    PROVE  Spec => []NeverBothSending
<1>1. QuietInv => NeverBothSending
  BY DEF QuietInv, NeverBothSending, Asking
<1> QED
  BY <1>1, LinkIsOrderly, PTL

\* While an answer is being read some of it is still to come.
LEMMA MoreToCome ==
    ASSUME TypeInv, NEW a, Conforming(a), NEW c \in a.cuts \ {Len(a.wire)},
           Answering(a, c), rx = << >>
    PROVE  ecOut # << >>
<1> DEFINE w == a.wire
           n == a.wire[c + 3]
           e == EndOfPacket(a, c)
<1>1. /\ w \in Seq(Byte) /\ Len(w) \in Nat /\ c \in 0 .. Len(w) - 1 /\ n \in 4 .. 69
      /\ e = c + 4 + n /\ e \in 0 .. Len(w)
  BY ConformingFacts
<1>2. /\ buffer \in Seq(Byte) /\ ecOut \in Seq(Byte) /\ << >> \in Seq(Byte)
      /\ Len(buffer) \in Nat /\ Len(<< >>) = 0
  BY EmptySeq, LenProperties DEF TypeInv, TypeOK
<1>3. Len(buffer) < 4 + n /\ buffer \o (rx \o ecOut) = SubSeq(w, c + 1, Len(w))
  BY DEF Answering, SMBUS_PACKET_HEADER_BYTES
<1>4. ASSUME ecOut = << >> PROVE FALSE
  <2>1. rx \o ecOut = << >>
    BY <1>2, <1>4, ConcatEmptySeq
  <2>2. buffer = SubSeq(w, c + 1, Len(w))
    BY <1>2, <1>3, <2>1, ConcatEmptySeq
  <2> HIDE DEF w, n, e
  <2>3. c \in 0 .. Len(w) /\ Len(w) \in c .. Len(w)
    BY <1>1
  <2>4. Len(buffer) = Len(w) - c
    BY <1>1, <2>2, <2>3, SliceProperties
  <2> QED
    BY <1>1, <1>2, <1>3, <2>4
<1> QED
  BY <1>4

\* So no call waits for an EC that has nothing more to send: send_cmd sees the
\* end of every answer.
THEOREM AnswersSuffice ==
    ASSUME ConformingEc, QuietEc
    PROVE  Spec => []NeverStarved
<1>1. TypeInv /\ QuietInv => NeverStarved
  <2> SUFFICES ASSUME TypeInv, QuietInv, Starved PROVE FALSE
    BY DEF NeverStarved
  <2>1. pc = "read" /\ unheard = << >> /\ rx = << >> /\ ecOut = << >>
    BY DEF Starved
  <2>2. ~Asking
    BY <2>1 DEF Asking
  <2>3. PICK a \in Answers : \E c \in a.cuts \ {Len(a.wire)} : Answering(a, c)
    BY <2>1, <2>2 DEF QuietInv
  <2>4. PICK c \in a.cuts \ {Len(a.wire)} : Answering(a, c)
    BY <2>3
  <2>5. Conforming(a)
    BY DEF ConformingEc
  <2> QED
    BY <2>1, <2>4, <2>5, MoreToCome
<1> QED
  BY <1>1, TypeCorrect, LinkIsOrderly, PTL

-----------------------------------------------------------------------------
\* The promise of EcService.

\* The abstract state, under the names EcPassthrough maps it with.
AskedNow == IF pc \in {"write", "read"} THEN << Asked(call) >> ELSE << >>
AnswerNow == [i \in 1 .. Len(owed) |->
                 [to |-> owed[i].to, payload |-> Payload(owed[i].message)]]

\* Nothing owed is no answer given.
LEMMA AnswerOfNone == ASSUME owed = << >> PROVE AnswerNow = << >>
<1>1. Len(owed) = 0 /\ 1 .. 0 = {}
  OBVIOUS
<1> QED
  BY <1>1 DEF AnswerNow

\* One message owed is the answer given.
LEMMA AnswerOfOne ==
    ASSUME NEW q, NEW a, owed = << [to |-> q, message |-> a] >>
    PROVE  /\ AnswerNow = << [to |-> q, payload |-> Payload(a)] >>
           /\ AnswerNow # << >>
<1>1. Len(owed) = 1 /\ owed[1].to = q /\ owed[1].message = a
  OBVIOUS
<1>2. AnswerNow = [i \in 1 .. 1 |-> [to |-> owed[i].to, payload |-> Payload(owed[i].message)]]
  BY <1>1 DEF AnswerNow
<1>3. \A i \in 1 .. 1 : i = 1
  OBVIOUS
<1>4. AnswerNow = [i \in 1 .. 1 |-> [to |-> q, payload |-> Payload(a)]]
  BY <1>1, <1>2, <1>3
<1> DEFINE x == [to |-> q, payload |-> Payload(a)]
<1>5. AnswerNow = [i \in 1 .. 1 |-> x]
  BY <1>4
<1> HIDE DEF x
<1>6. [i \in 1 .. 1 |-> x] = << x >> /\ << x >> # << >>
  OBVIOUS
<1> QED
  BY <1>5, <1>6 DEF x

\* What the return of a call gives to the caller.
LEMMA Returned ==
    ASSUME TypeInv, QuietInv, ConformingEc, ReturnAnswer
    PROVE  \E a \in Answers :
              /\ owed = << [to |-> Asked(call), message |-> a] >>
              /\ owed' = << >>
              /\ reply' = [kind |-> "ok", bytes |-> Payload(a)]
<1>1. pc = "read" /\ ReadByte /\ PacketEnds(NextBuffer) /\ Eom(Flags(NextBuffer))
  BY DEF ReturnAnswer, FragmentRead
<1>2. PICK a \in Answers : \E c \in a.cuts \ {Len(a.wire)} : Answering(a, c)
  BY <1>1, ReadingAnswer
<1>3. PICK c \in a.cuts \ {Len(a.wire)} : Answering(a, c)
  BY <1>2
<1>0. Conforming(a) /\ out_buf = a.upto[c]
  BY <1>3 DEF ConformingEc, Answering
<1> DEFINE e == EndOfPacket(a, c)
<1>4. NextBuffer = PacketAt(a, c) /\ Len(NextBuffer) = e - c
  BY <1>0, <1>1, <1>3, Reading
<1>5. NextBuffer \in Seq(Byte)
  BY <1>1, NextBufferTyped DEF TypeInv
<1>6. out_buf \o out_slice(NextBuffer) = a.upto[e]
  BY <1>0, <1>4, <1>5, Slicing
<1>7. e = Len(a.wire)
  BY <1>0, <1>1, <1>4, ConformingFacts
<1>8. reply' = [kind |-> "ok", bytes |-> Payload(a)]
  BY <1>6, <1>7 DEF ReturnAnswer, Outcome, Payload
<1>9. owed = << [to |-> Asked(call), message |-> a] >>
  BY <1>3 DEF Answering
<1>10. owed' = << >>
  <2>1. Len(owed) = 1 /\ owed' = SubSeq(owed, 2, Len(owed))
    BY <1>9 DEF ReturnAnswer
  <2> QED
    BY <2>1, SubSeqEmpty
<1> QED
  BY <1>8, <1>9, <1>10

\* A step the caller does not see.
AbstractStutter == AskedNow' = AskedNow /\ AnswerNow' = AnswerNow /\ reply' = reply

\* The partition starts where the promise starts.
LEMMA RefinesInit == Init => Service0!Init
<1> SUFFICES ASSUME Init PROVE Service0!Init
  OBVIOUS
<1>1. AskedNow = << >> /\ AnswerNow = << >>
  BY AnswerOfNone DEF Init, AskedNow
<1> QED
  BY <1>1 DEF Init, Outcome, Service0!Init, AskedNow, AnswerNow

\* A step of the partition is refusing, asking, returning, or not visible.
LEMMA RefinesSp ==
    ASSUME TypeInv, QuietInv, QuietInv', ConformingEc,
           SpStep \/ \E r \in Requests : RefuseCall(r) \/ AcceptCall(r)
    PROVE  \/ AbstractStutter
           \/ Service0!Refuse
           \/ \E q \in {Asked(r) : r \in {x \in Requests : Supported(x)}} : Service0!Ask(q)
           \/ Service0!Return
<1>1. ASSUME NEW r \in Requests, RefuseCall(r)
      PROVE  Service0!Refuse
  <2>1. pc = "idle" /\ pc' = pc /\ call' = call /\ owed' = owed
    BY <1>1 DEF RefuseCall, histVars
  <2>2. reply' = [kind |-> "invalid", bytes |-> << >>]
    BY <1>1 DEF RefuseCall, Outcome
  <2>3. AskedNow = << >> /\ AskedNow' = AskedNow /\ AnswerNow' = AnswerNow
    BY <2>1 DEF AskedNow, AnswerNow
  <2> QED
    BY <2>2, <2>3 DEF Service0!Refuse, AskedNow, AnswerNow
<1>2. ASSUME NEW r \in Requests, AcceptCall(r)
      PROVE  /\ Service0!Ask(Asked(r))
             /\ Supported(r)
  <2>1. pc = "idle" /\ pc' = "write" /\ call' = r /\ owed' = owed /\ Supported(r)
    BY <1>2 DEF AcceptCall
  <2>2. reply' = [kind |-> "pending", bytes |-> << >>]
    BY <1>2 DEF AcceptCall, Outcome
  <2>3. AskedNow = << >> /\ AskedNow' = << Asked(r) >> /\ AnswerNow' = AnswerNow
    BY <2>1 DEF AskedNow, AnswerNow
  <2> QED
    BY <2>1, <2>2, <2>3 DEF Service0!Ask, AskedNow, AnswerNow
<1>3. CASE WriteRequest \/ ReadMore \/ CollectFragment
  <2>1. /\ pc \in {"write", "read"} /\ pc' \in {"write", "read"}
        /\ call' = call /\ owed' = owed /\ reply' = reply
    BY <1>3 DEF WriteRequest, ReadMore, CollectFragment, FragmentRead, histVars
  <2> QED
    BY <2>1 DEF AbstractStutter, AskedNow, AnswerNow
<1>4. CASE ReturnAnswer
  <2>1. PICK a \in Answers : /\ owed = << [to |-> Asked(call), message |-> a] >>
                             /\ owed' = << >>
                             /\ reply' = [kind |-> "ok", bytes |-> Payload(a)]
    BY <1>4, Returned
  <2>2. /\ AnswerNow = << [to |-> Asked(call), payload |-> Payload(a)] >>
        /\ AnswerNow # << >>
    BY <2>1, AnswerOfOne
  <2>3. Head(AnswerNow).payload = Payload(a)
    BY <2>2
  <2>4. AnswerNow' = << >>
    <3>1. Len(owed') = 0 /\ 1 .. 0 = {}
      BY <2>1
    <3> QED
      BY <3>1 DEF AnswerNow
  <2>5. AskedNow' = << >>
    BY <1>4 DEF ReturnAnswer, AskedNow
  <2> HIDE DEF AskedNow, AnswerNow
  <2>6. /\ AnswerNow # << >>
        /\ reply' = [kind |-> "ok", bytes |-> Head(AnswerNow).payload]
        /\ AskedNow' = << >>
        /\ AnswerNow' = << >>
    BY <2>1, <2>2, <2>3, <2>4, <2>5
  <2>7. Service0!Return
    BY <2>6 DEF Service0!Return, AskedNow, AnswerNow
  <2> QED
    BY <2>7
<1>5. ~RejectCount /\ ~RejectFragment
  BY DEF RejectCount, RejectFragment, Panic, QuietInv
<1> QED
  BY <1>1, <1>2, <1>3, <1>4, <1>5 DEF SpStep

\* A step of the EC is answering, or not visible.
LEMMA RefinesEc ==
    ASSUME TypeInv, QuietInv, EcHear \/ EcSend
    PROVE  \/ AbstractStutter
           \/ \E p \in {Payload(a) : a \in Answers} : Service0!Answer(p)
<1>1. CASE EcReceive \/ EcSend
  <2>1. pc' = pc /\ call' = call /\ owed' = owed /\ reply' = reply
    BY <1>1 DEF EcReceive, EcSend, spVars, histVars
  <2> QED
    BY <2>1 DEF AbstractStutter, AskedNow, AnswerNow
<1>2. ASSUME NEW a \in Answers, EcAnswer(a)
      PROVE  Service0!Answer(Payload(a))
  <2>1. FarReadByte /\ PacketEnds(EcReceived)
    BY <1>2 DEF EcAnswer
  <2>2. Asking /\ pc \in {"write", "read"} /\ call \in Requests /\ Supported(call)
    BY <2>1 DEF FarReadByte, QuietInv, Drained, Answering
  <2>3. Heard(EcReceived) = Asked(call)
    BY <2>1, <2>2, EcFraming
  <2>4. /\ owed = << >> /\ owed' = << [to |-> Asked(call), message |-> a] >>
        /\ pc' = pc /\ call' = call /\ reply' = reply
    BY <1>2, <2>2, <2>3 DEF EcAnswer, Asking, spVars
  <2>5. AnswerNow = << >>
    BY <2>4, AnswerOfNone
  <2>6. AskedNow = << Asked(call) >> /\ AskedNow' = AskedNow
    BY <2>2, <2>4 DEF AskedNow
  <2>7. AnswerNow' = << [to |-> Asked(call), payload |-> Payload(a)] >>
    <3> DEFINE x == [to |-> Asked(call), payload |-> Payload(a)]
    <3>1. Len(owed') = 1 /\ owed'[1].to = Asked(call) /\ owed'[1].message = a
      BY <2>4
    <3>2. AnswerNow' = [i \in 1 .. 1 |->
                           [to |-> owed'[i].to, payload |-> Payload(owed'[i].message)]]
      BY <3>1 DEF AnswerNow, Payload
    <3>3. \A i \in 1 .. 1 : i = 1
      OBVIOUS
    <3>4. AnswerNow' = [i \in 1 .. 1 |-> x]
      BY <3>1, <3>2, <3>3
    <3> HIDE DEF x
    <3>5. [i \in 1 .. 1 |-> x] = << x >>
      OBVIOUS
    <3> QED
      BY <3>4, <3>5 DEF x
  <2> HIDE DEF AskedNow, AnswerNow
  <2>8. /\ AskedNow # << >> /\ AnswerNow = << >>
        /\ AnswerNow' = << [to |-> Head(AskedNow), payload |-> Payload(a)] >>
        /\ AskedNow' = AskedNow /\ reply' = reply
    BY <2>4, <2>5, <2>6, <2>7
  <2> QED
    BY <2>8 DEF Service0!Answer, AskedNow, AnswerNow
<1> QED
  BY <1>1, <1>2 DEF EcHear

\* With a quiet, conforming EC the partition, the UART and the EC together
\* keep the promise of EcService: every call is refused or gets the payload
\* of the EC's answer to that very call.
THEOREM KeepsPromise ==
    ASSUME ConformingEc, QuietEc
    PROVE  Spec => ImplementsService
<1>1. Init => Service0!Init
  BY RefinesInit
<1>2. /\ TypeInv /\ QuietInv /\ QuietInv' /\ [Next]_vars
      => [Service0!Next]_(Service0!vars)
  <2> SUFFICES ASSUME TypeInv, QuietInv, QuietInv', [Next]_vars
               PROVE  [Service0!Next]_(Service0!vars)
    OBVIOUS
  <2>1. AbstractStutter => [Service0!Next]_(Service0!vars)
    BY DEF AbstractStutter, AskedNow, AnswerNow, Service0!vars
  <2>2. CASE SpStep \/ \E r \in Requests : RefuseCall(r) \/ AcceptCall(r)
    BY <2>1, <2>2, RefinesSp DEF Service0!Next
  <2>3. CASE EcHear \/ EcSend
    BY <2>1, <2>3, RefinesEc DEF Service0!Next
  <2>4. CASE \E n \in Notices : EcNotify(n)
    BY <2>4 DEF QuietEc
  <2>5. CASE UNCHANGED vars
    <3>1. AbstractStutter
      BY <2>5 DEF vars, spVars, histVars, AbstractStutter, AskedNow, AnswerNow
    <3> QED
      BY <2>1, <3>1
  <2> QED
    BY <2>2, <2>3, <2>4, <2>5 DEF Next
<1> QED
  BY <1>1, <1>2, TypeCorrect, LinkIsOrderly, PTL
     DEF Spec, ImplementsService, Service0!Spec
=============================================================================
