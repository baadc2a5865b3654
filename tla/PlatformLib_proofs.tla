------------------------- MODULE PlatformLib_proofs -------------------------
(***************************************************************************)
(* Proofs about PlatformLib, for every layout whose regions are in order   *)
(* (LayoutAssumption): the table and the HOBs are at any time the first    *)
(* entries of the list Described, and that list is sorted; and the cores,  *)
(* once found, are those of the core register.                             *)
(***************************************************************************)
EXTENDS PlatformLib, FiniteSetTheorems, SequenceTheorems, TLAPS

-----------------------------------------------------------------------------
(* CoreInfo, for every value of the core register: the n-th entry of the   *)
(* core table is the n-th bit that is clear.                               *)

\* The cores that live are at most twelve.
LEMMA Mask ==
    ASSUME NEW reg
    PROVE  /\ CoreBitMask(reg) \subseteq 0 .. 11
           /\ IsFiniteSet(CoreBitMask(reg))
           /\ CoreCount(reg) \in 0 .. 12
<1> DEFINE S == CoreBitMask(reg)
<1>1. S \subseteq 0 .. 11
  BY DEF CoreBitMask
<1>2. IsFiniteSet(0 .. 11) /\ Cardinality(0 .. 11) = 12
  <2>1. 0 \in Int /\ 11 \in Int
    OBVIOUS
  <2>2. IsFiniteSet(0 .. 11) /\ Cardinality(0 .. 11) = IF 0 > 11 THEN 0 ELSE 11 - 0 + 1
    BY <2>1, FS_Interval, Zenon
  <2> QED
    BY <2>2
<1>3. IsFiniteSet(S) /\ Cardinality(S) <= 12
  BY <1>1, <1>2, FS_Subset
<1>4. Cardinality(S) \in Nat
  BY <1>3, FS_CardinalityType
<1> QED
  BY <1>1, <1>3, <1>4 DEF CoreCount

\* From one bit to the next one entry is written, or none.
LEMMA OneBit ==
    ASSUME NEW reg, NEW b \in Nat
    PROVE  /\ Before(reg, b) \in Nat
           /\ Before(reg, b + 1) =
                 Before(reg, b) + (IF b \in CoreBitMask(reg) THEN 1 ELSE 0)
<1> DEFINE S == CoreBitMask(reg)
           T == {x \in S : x < b}
           U == {x \in S : x < b + 1}
<1>1. S \subseteq Nat /\ IsFiniteSet(S)
  BY Mask
<1>2. IsFiniteSet(T) /\ Cardinality(T) \in Nat
  BY <1>1, FS_Subset, FS_CardinalityType
<1>3. b \notin T
  OBVIOUS
<1>4. CASE b \in S
  <2>1. U = T \cup {b}
    BY <1>1, <1>4
  <2>2. Cardinality(T \cup {b}) = Cardinality(T) + 1
    BY <1>2, <1>3, FS_AddElement
  <2> QED
    BY <1>2, <1>4, <2>1, <2>2 DEF Before
<1>5. CASE b \notin S
  <2>1. U = T
    BY <1>1, <1>5
  <2> QED
    BY <1>2, <1>5, <2>1 DEF Before
<1> QED
  BY <1>4, <1>5

\* No entry is written before the first bit, and all are behind the last.
LEMMA FirstAndLast ==
    ASSUME NEW reg
    PROVE  Before(reg, 0) = 0 /\ Before(reg, 12) = CoreCount(reg)
<1> DEFINE S == CoreBitMask(reg)
<1>1. S \subseteq 0 .. 11
  BY Mask
<1>2. {x \in S : x < 0} = {}
  BY <1>1
<1>3. {x \in S : x < 12} = S
  BY <1>1
<1> QED
  BY <1>2, <1>3, FS_EmptySet DEF Before, CoreCount

\* A later bit comes later in the table.
LEMMA LaterBit ==
    ASSUME NEW reg, NEW b \in CoreBitMask(reg), NEW d \in CoreBitMask(reg), b < d
    PROVE  Before(reg, b) < Before(reg, d)
<1> DEFINE S == CoreBitMask(reg)
           T == {x \in S : x < b + 1}
           U == {x \in S : x < d}
<1>1. S \subseteq 0 .. 11 /\ IsFiniteSet(S) /\ b \in Nat /\ d \in Nat
  BY Mask
<1>2. T \subseteq U
  BY <1>1
<1>3. IsFiniteSet(U)
  BY <1>1, FS_Subset
<1>4. Cardinality(T) <= Cardinality(U)
  BY <1>2, <1>3, FS_Subset
<1>5. /\ Before(reg, b) \in Nat /\ Before(reg, d) \in Nat
      /\ Before(reg, b + 1) = Before(reg, b) + 1
  BY <1>1, OneBit
<1>6. Before(reg, b + 1) <= Before(reg, d)
  BY <1>4 DEF Before
<1> QED
  BY <1>5, <1>6

\* Every entry of the table has its bit, ...
LEMMA EntryHasBit ==
    ASSUME NEW reg, NEW n \in 1 .. CoreCount(reg)
    PROVE  \E b \in CoreBitMask(reg) : Before(reg, b) = n - 1
<1> SUFFICES ASSUME \A b \in CoreBitMask(reg) : Before(reg, b) # n - 1
             PROVE  FALSE
  OBVIOUS
<1> DEFINE P(b) == Before(reg, b) <= n - 1
<1>0. n \in Nat /\ n >= 1 /\ n <= CoreCount(reg) /\ CoreCount(reg) \in Nat
  BY Mask
<1>1. P(0)
  BY <1>0, FirstAndLast
<1>2. ASSUME NEW b \in 0 .. 11, P(b)
      PROVE  P(b + 1)
  <2>1. /\ Before(reg, b) \in Nat
        /\ Before(reg, b + 1) =
              Before(reg, b) + (IF b \in CoreBitMask(reg) THEN 1 ELSE 0)
    BY OneBit
  <2>2. b \in CoreBitMask(reg) => Before(reg, b) # n - 1
    OBVIOUS
  <2> QED
    BY <1>0, <1>2, <2>1, <2>2
<1> HIDE DEF P
<1>3. P(1) /\ P(2) /\ P(3) /\ P(4)
  BY <1>1, <1>2
<1>4. P(5) /\ P(6) /\ P(7) /\ P(8)
  BY <1>2, <1>3
<1>5. P(9) /\ P(10) /\ P(11) /\ P(12)
  BY <1>2, <1>4
<1>6. CoreCount(reg) <= n - 1
  BY <1>5, FirstAndLast DEF P
<1> QED
  BY <1>0, <1>6

\* ... and only one.
LEMMA BitOfEntry ==
    ASSUME NEW reg, NEW b \in CoreBitMask(reg), NEW d \in CoreBitMask(reg),
           Before(reg, b) = Before(reg, d)
    PROVE  b = d
<1>1. b \in Nat /\ d \in Nat /\ Before(reg, b) \in Nat
  BY Mask, OneBit
<1>2. b < d => Before(reg, b) < Before(reg, d)
  BY LaterBit
<1>3. d < b => Before(reg, d) < Before(reg, b)
  BY LaterBit
<1> QED
  BY <1>1, <1>2, <1>3

\* The position of a core is the index of its bit.
LEMMA Position ==
    ASSUME NEW b \in 0 .. 11
    PROVE  b * 256 \in Nat /\ CorePosition(b * 256) = b
<1>1. (b * 256) \div 256 = b
  OBVIOUS
<1>2. b % 256 = b
  OBVIOUS
<1> QED
  BY <1>1, <1>2 DEF CorePosition

\* The bit of the n-th entry.
Bit(reg, n) ==
    CHOOSE index \in CoreBitMask(reg) : Before(reg, index) = n - 1

LEMMA BitIs ==
    ASSUME NEW reg, NEW n \in 1 .. CoreCount(reg)
    PROVE  /\ Bit(reg, n) \in CoreBitMask(reg)
           /\ Before(reg, Bit(reg, n)) = n - 1
           /\ CoreTable(reg)[n] = Bit(reg, n) * 256
BY EntryHasBit DEF Bit, CoreTable

\* The core table: as long as the count, of the cores whose bits are clear, each
\* once, in ascending order.
LEMMA TableIs ==
    ASSUME NEW reg
    PROVE  LET t == CoreTable(reg) IN
           /\ t \in Seq(Nat) /\ Len(t) = CoreCount(reg)
           /\ {CorePosition(t[i]) : i \in DOMAIN t} = CoreBitMask(reg)
           /\ \A i, j \in DOMAIN t : i < j => CorePosition(t[i]) < CorePosition(t[j])
<1> DEFINE t == CoreTable(reg)
           S == CoreBitMask(reg)
           k == CoreCount(reg)
<1>1. S \subseteq 0 .. 11 /\ k \in Nat
  BY Mask
<1>2. \A n \in 1 .. k : /\ Bit(reg, n) \in S
                        /\ Before(reg, Bit(reg, n)) = n - 1
                        /\ t[n] = Bit(reg, n) * 256
  BY BitIs
<1>3. \A n \in 1 .. k : t[n] \in Nat /\ CorePosition(t[n]) = Bit(reg, n)
  BY <1>1, <1>2, Position
<1>4. DOMAIN t = 1 .. k /\ t = [n \in 1 .. k |-> t[n]]
  BY DEF CoreTable
<1> HIDE DEF t, S, k
<1>5. t \in Seq(Nat) /\ Len(t) = k
  <2>1. t \in [1 .. k -> Nat]
    BY <1>3, <1>4
  <2>2. t \in Seq(Nat)
    <3>1. Seq(Nat) = UNION {[1 .. m -> Nat] : m \in Nat}
      BY SeqDef
    <3> QED
      BY <1>1, <2>1, <3>1
  <2>3. Len(t) \in Nat /\ DOMAIN t = 1 .. Len(t)
    BY <2>2, LenProperties
  <2>4. Len(t) = k
    <3>1. 1 .. k = 1 .. Len(t) /\ k \in Nat /\ Len(t) \in Nat
      BY <1>1, <1>4, <2>3
    <3>2. k > Len(t) => k \in 1 .. k /\ k \notin 1 .. Len(t)
      BY <3>1
    <3>3. Len(t) > k => Len(t) \in 1 .. Len(t) /\ Len(t) \notin 1 .. k
      BY <3>1
    <3> QED
      BY <3>1, <3>2, <3>3
  <2> QED
    BY <2>2, <2>4
<1>6. {CorePosition(t[i]) : i \in DOMAIN t} \subseteq S
  BY <1>2, <1>3, <1>4
<1>7. ASSUME NEW b \in S
      PROVE  b \in {CorePosition(t[i]) : i \in DOMAIN t}
  <2> DEFINE n == Before(reg, b) + 1
  <2>1. b \in Nat /\ 12 \in Nat /\ b \in 0 .. 11
    BY <1>1
  <2>2. Before(reg, b) \in Nat /\ Before(reg, b + 1) = Before(reg, b) + 1
    BY <1>7, <2>1, OneBit DEF S
  <2>3. Before(reg, b + 1) <= k
    <3>1. {x \in CoreBitMask(reg) : x < b + 1} \subseteq CoreBitMask(reg)
      OBVIOUS
    <3>2. Cardinality({x \in CoreBitMask(reg) : x < b + 1})
            <= Cardinality(CoreBitMask(reg))
      BY <3>1, Mask, FS_Subset
    <3> QED
      BY <3>2 DEF Before, CoreCount, k
  <2>4. n \in 1 .. k /\ n - 1 = Before(reg, b)
    BY <1>1, <2>2, <2>3
  <2> HIDE DEF n
  <2>5. Bit(reg, n) = b
    BY <1>2, <1>7, <2>4, BitOfEntry DEF S
  <2> QED
    BY <1>3, <1>4, <2>4, <2>5
<1>8. ASSUME NEW i \in DOMAIN t, NEW j \in DOMAIN t, i < j
      PROVE  CorePosition(t[i]) < CorePosition(t[j])
  <2> DEFINE b == Bit(reg, i)
             d == Bit(reg, j)
  <2>1. /\ i \in 1 .. k /\ j \in 1 .. k
        /\ b \in S /\ d \in S
        /\ Before(reg, b) = i - 1 /\ Before(reg, d) = j - 1
        /\ CorePosition(t[i]) = b /\ CorePosition(t[j]) = d
    <3>1. i \in 1 .. k /\ j \in 1 .. k
      BY <1>4
    <3> QED
      BY <1>2, <1>3, <3>1
  <2> HIDE DEF b, d
  <2>2. b \in Nat /\ d \in Nat
    BY <1>1, <2>1
  <2>3. i \in Nat /\ j \in Nat /\ ~(j - 1 < i - 1) /\ i - 1 # j - 1
    BY <1>1, <1>8, <2>1
  <2>4. b # d
    BY <2>1, <2>3
  <2>5. ~(d < b)
    BY <2>1, <2>3, LaterBit DEF S
  <2> QED
    BY <2>1, <2>2, <2>4, <2>5
<1> QED
  BY <1>5, <1>6, <1>7, <1>8 DEF t, S, k

-----------------------------------------------------------------------------
\* The i-th region, and whether there is one.
Described(i) == IF i <= 7 THEN Regions(memoryEnd)[i] ELSE HighSpace(available)
Reported == ReportDramHighSpace(signature, available)
Count == IF Reported THEN 8 ELSE 7

Inputs == memoryEnd \in MemoryEnds /\ signature \in BOOLEAN /\ available \in AvailableSizes

\* How far the description has come.
Progress ==
    /\ Len(hobs) <= Len(table) /\ Len(hobs) <= Count
    /\ pc = "allocate" => Len(table) = 0
    /\ pc \in {"regions", "high", "end"} => Len(hobs) = Len(table)
    /\ pc = "regions" => Len(table) < 7
    /\ pc = "high" => Len(table) = 7
    /\ pc = "end" => Len(table) = Count
    /\ pc = "done" => Len(hobs) = Count /\ Len(table) = Count + 1

\* What is described is what the list says.
Listed ==
    /\ \A i \in 1 .. Len(hobs) : /\ hobs[i] = BuildResourceDescriptorHob_V2(Described(i))
                                 /\ table[i] = Entry(Described(i))
    /\ pc = "done" => table[Len(table)] = EndOfTable

\* No entry is empty but the end of the table.
Table == {entry \in [base : Address, length : Address, attributes : Attributes] :
             entry.length = 0 => entry = EndOfTable}
Hob == [resource : {"MEMORY_MAPPED_IO", "SYSTEM_MEMORY", "MEMORY_RESERVED"},
        start : Address, length : Address, memory : {"UC", "WC", "WB"}]

Inv == Inputs /\ table \in Seq(Table) /\ hobs \in Seq(Hob) /\ Progress /\ Listed

-----------------------------------------------------------------------------
(* A length that fits the address space is not changed by it.              *)
LEMMA Unwrapped == ASSUME NEW x \in Nat, x < Word PROVE x % Word = x
<1>1. Word \in Nat
  BY LayoutAssumption
<1> QED
  BY <1>1, SMT

(* The PCDs are addresses and sizes in ascending order.                    *)
LEMMA Layout ==
    ASSUME NEW end \in MemoryEnds
    PROVE  /\ Word \in Nat /\ end \in Nat
           /\ First \in Nat /\ First > 0 /\ SystemMemoryBase \in Nat
           /\ ReservedSecureBase \in Nat /\ ReservedSecureSize \in Nat /\ ReservedSecureSize > 0
           /\ ReservedShareBase \in Nat /\ ReservedShareSize \in Nat /\ ReservedShareSize > 0
           /\ FdBaseAddress \in Nat /\ FdSize \in Nat /\ FdSize > 0
           /\ FrameBufferBase \in Nat /\ FrameBufferSize \in Nat /\ FrameBufferSize > 0
           /\ DramHighSpaceBase \in Nat
           /\ First < SystemMemoryBase /\ SystemMemoryBase <= ReservedSecureBase
           /\ ReservedSecureBase + ReservedSecureSize <= ReservedShareBase
           /\ ReservedShareBase + ReservedShareSize <= FdBaseAddress
           /\ FdBaseAddress + FdSize <= FrameBufferBase
           /\ FrameBufferBase + FrameBufferSize < end /\ end < DramHighSpaceBase
           /\ DramHighSpaceBase < Word
<1>1. /\ Word \in Nat /\ MemoryEnds \subseteq Nat
      /\ {First, ReservedSecureSize, ReservedShareSize, FdSize, FrameBufferSize} \subseteq Nat \ {0}
      /\ {SystemMemoryBase, ReservedSecureBase, ReservedShareBase, FdBaseAddress,
          FrameBufferBase, DramHighSpaceBase} \subseteq Nat
  BY LayoutAssumption
<1>2. /\ First < SystemMemoryBase /\ SystemMemoryBase <= ReservedSecureBase
      /\ ReservedSecureBase + ReservedSecureSize <= ReservedShareBase
      /\ ReservedShareBase + ReservedShareSize <= FdBaseAddress
      /\ FdBaseAddress + FdSize <= FrameBufferBase
      /\ FrameBufferBase + FrameBufferSize < end /\ end < DramHighSpaceBase
      /\ DramHighSpaceBase < Word
  BY LayoutAssumption
<1>3. /\ First \in Nat \ {0} /\ ReservedSecureSize \in Nat \ {0}
      /\ ReservedShareSize \in Nat \ {0} /\ FdSize \in Nat \ {0}
      /\ FrameBufferSize \in Nat \ {0}
  BY <1>1
<1> QED BY <1>1, <1>2, <1>3

\* Where the i-th of the fixed regions ends.
EndOf(i, end) == CASE i = 1 -> SystemMemoryBase
                   [] i = 2 -> ReservedSecureBase + ReservedSecureSize
                   [] i = 3 -> ReservedShareBase + ReservedShareSize
                   [] i = 4 -> FdBaseAddress + FdSize
                   [] i = 5 -> FrameBufferBase + FrameBufferSize
                   [] i = 6 -> end
                   [] i = 7 -> DramHighSpaceBase

Sound(r) == /\ r.base \in Address /\ r.length \in Address /\ r.length > 0
            /\ r.attributes \in Attributes \ {"0"}
            /\ r.resource \in {"MEMORY_MAPPED_IO", "SYSTEM_MEMORY", "MEMORY_RESERVED"}
            /\ r.memory \in {"UC", "WC", "WB"}
            /\ r.memory = "WB" <=> r.attributes = "WRITE_BACK"
            /\ r.resource = "MEMORY_MAPPED_IO" <=> r.attributes = "DEVICE"

(* A region made of a base and a length that fit the address space.        *)
LEMMA RegionSound ==
    ASSUME NEW base \in Nat, NEW length \in Nat, length > 0, base < Word, length < Word,
           NEW kind \in {<<"DEVICE", "MEMORY_MAPPED_IO", "UC">>,
                         <<"UNCACHED", "SYSTEM_MEMORY", "WC">>,
                         <<"WRITE_BACK", "SYSTEM_MEMORY", "WB">>,
                         <<"UNCACHED", "MEMORY_RESERVED", "WC">>}
    PROVE  /\ Sound(Region(base, length, kind[1], kind[2], kind[3]))
           /\ Region(base, length, kind[1], kind[2], kind[3]).base = base
           /\ Region(base, length, kind[1], kind[2], kind[3]).length = length
<1>1. length % Word = length /\ Word \in Nat
  BY Unwrapped, LayoutAssumption
<1>2. base \in Address /\ length \in Address
  BY <1>1 DEF Address
<1>3. /\ kind[1] \in Attributes \ {"0"} /\ kind[3] \in {"UC", "WC", "WB"}
      /\ kind[2] \in {"MEMORY_MAPPED_IO", "SYSTEM_MEMORY", "MEMORY_RESERVED"}
      /\ kind[3] = "WB" <=> kind[1] = "WRITE_BACK"
      /\ kind[2] = "MEMORY_MAPPED_IO" <=> kind[1] = "DEVICE"
  BY DEF Attributes
<1> QED
  BY <1>1, <1>2, <1>3 DEF Sound, Region

(* Each of the fixed regions is sound and ends where EndOf says.           *)
LEMMA FixedRegions ==
    ASSUME NEW end \in MemoryEnds, NEW i \in 1 .. 7
    PROVE  /\ Sound(Regions(end)[i])
           /\ Regions(end)[i].base + Regions(end)[i].length = EndOf(i, end)
<1> DEFINE Piece(base, length, kind) ==
            /\ base \in Nat /\ base < Word /\ length \in Nat /\ length > 0 /\ length < Word
            /\ Regions(end)[i] = Region(base, length, kind[1], kind[2], kind[3])
            /\ base + length = EndOf(i, end)
<1>0. ASSUME NEW base, NEW length,
             NEW kind \in {<<"DEVICE", "MEMORY_MAPPED_IO", "UC">>,
                           <<"UNCACHED", "SYSTEM_MEMORY", "WC">>,
                           <<"WRITE_BACK", "SYSTEM_MEMORY", "WB">>,
                           <<"UNCACHED", "MEMORY_RESERVED", "WC">>},
             Piece(base, length, kind)
      PROVE  /\ Sound(Regions(end)[i])
             /\ Regions(end)[i].base + Regions(end)[i].length = EndOf(i, end)
  BY <1>0, RegionSound
<1>1. CASE i = 1
  <2>1. Piece(First, SystemMemoryBase - First, <<"DEVICE", "MEMORY_MAPPED_IO", "UC">>)
    BY <1>1, Layout DEF Regions, EndOf
  <2> QED BY <1>0, <2>1
<1>2. CASE i = 2
  <2>1. Piece(ReservedSecureBase, ReservedSecureSize, <<"UNCACHED", "SYSTEM_MEMORY", "WC">>)
    BY <1>2, Layout DEF Regions, EndOf
  <2> QED BY <1>0, <2>1
<1>3. CASE i = 3
  <2>1. Piece(ReservedShareBase, ReservedShareSize, <<"UNCACHED", "SYSTEM_MEMORY", "WC">>)
    BY <1>3, Layout DEF Regions, EndOf
  <2> QED BY <1>0, <2>1
<1>4. CASE i = 4
  <2>1. Piece(FdBaseAddress, FdSize, <<"WRITE_BACK", "SYSTEM_MEMORY", "WB">>)
    BY <1>4, Layout DEF Regions, EndOf
  <2> QED BY <1>0, <2>1
<1>5. CASE i = 5
  <2>1. Piece(FrameBufferBase, FrameBufferSize, <<"UNCACHED", "MEMORY_RESERVED", "WC">>)
    BY <1>5, Layout DEF Regions, EndOf
  <2> QED BY <1>0, <2>1
<1>6. CASE i = 6
  <2>1. Piece(FrameBufferBase + FrameBufferSize, end - (FrameBufferBase + FrameBufferSize),
              <<"WRITE_BACK", "SYSTEM_MEMORY", "WB">>)
    BY <1>6, Layout DEF Regions, EndOf
  <2> QED BY <1>0, <2>1
<1>7. CASE i = 7
  <2>1. Piece(end, DramHighSpaceBase - end, <<"DEVICE", "MEMORY_MAPPED_IO", "UC">>)
    BY <1>7, Layout DEF Regions, EndOf
  <2> QED BY <1>0, <2>1
<1> QED BY <1>1, <1>2, <1>3, <1>4, <1>5, <1>6, <1>7

(* The high space, when it is reported, is sound and as large as the       *)
(* report says.                                                            *)
LEMMA HighRegion ==
    ASSUME NEW size \in AvailableSizes, size > LowMegabytes, MemoryEnds # {}
    PROVE  /\ Sound(HighSpace(size))
           /\ HighSpace(size).base = DramHighSpaceBase
           /\ HighSpace(size).length = (size - LowMegabytes) * PagesPerMegabyte
<1> DEFINE pages == (size - LowMegabytes) * PagesPerMegabyte
<1>1. /\ size \in Nat /\ LowMegabytes \in Nat /\ PagesPerMegabyte \in Nat /\ PagesPerMegabyte > 0
      /\ DramHighSpaceBase + pages < Word
  BY LayoutAssumption
<1>2. DramHighSpaceBase \in Nat /\ DramHighSpaceBase < Word /\ Word \in Nat
  BY Layout
<1>3. pages \in Nat /\ pages > 0
  <2>1. size - LowMegabytes \in Nat /\ size - LowMegabytes > 0
    BY <1>1
  <2> QED BY <1>1, <2>1
<1>4. High(size) = pages
  BY <1>1, <1>2, <1>3, Unwrapped DEF High
<1> HIDE DEF pages
<1>5. pages < Word
  BY <1>1, <1>2, <1>3 DEF pages
<1>6. LET kind == <<"WRITE_BACK", "SYSTEM_MEMORY", "WB">> IN
      /\ Sound(Region(DramHighSpaceBase, pages, kind[1], kind[2], kind[3]))
      /\ Region(DramHighSpaceBase, pages, kind[1], kind[2], kind[3]).base = DramHighSpaceBase
      /\ Region(DramHighSpaceBase, pages, kind[1], kind[2], kind[3]).length = pages
  BY <1>2, <1>3, <1>5, RegionSound
<1> QED BY <1>4, <1>6 DEF HighSpace, pages

(* Every region that is described is sound.                                *)
LEMMA DescribedSound ==
    ASSUME Inputs, NEW i \in 1 .. Count
    PROVE  Sound(Described(i))
<1>1. CASE i <= 7
  <2>1. i \in 1 .. 7
    BY <1>1 DEF Count
  <2> QED BY <1>1, <2>1, FixedRegions DEF Inputs, Described
<1>2. CASE i = 8 /\ Reported
  BY <1>2, HighRegion DEF Inputs, Described, Reported, ReportDramHighSpace
<1> QED BY <1>1, <1>2 DEF Count

(* A sound region makes a table entry and a HOB of their types.            *)
LEMMA SoundTyped ==
    ASSUME NEW r, Sound(r)
    PROVE  Entry(r) \in Table /\ BuildResourceDescriptorHob_V2(r) \in Hob
  BY DEF Sound, Entry, BuildResourceDescriptorHob_V2, Table, Hob

(* The regions are in ascending order: one that comes later begins where   *)
(* an earlier one has ended.                                               *)
LEMMA DescribedApart ==
    ASSUME Inputs, NEW i \in 1 .. Count, NEW j \in 1 .. Count, i < j
    PROVE  Described(i).base + Described(i).length <= Described(j).base
<1> DEFINE end == memoryEnd
<1>1. end \in MemoryEnds
  BY DEF Inputs
<1>2. i \in 1 .. 7 /\ j \in 2 .. 8
  BY DEF Count
<1>3. Described(i).base + Described(i).length = EndOf(i, end)
  BY <1>1, <1>2, FixedRegions DEF Described
<1>4. Described(j).base = CASE j = 2 -> ReservedSecureBase
                            [] j = 3 -> ReservedShareBase
                            [] j = 4 -> FdBaseAddress
                            [] j = 5 -> FrameBufferBase
                            [] j = 6 -> FrameBufferBase + FrameBufferSize
                            [] j = 7 -> end
                            [] j = 8 -> DramHighSpaceBase
  BY <1>2 DEF Described, Regions, HighSpace, Region
<1> HIDE DEF end
<1>5. CASE i = 1
  <2>1. EndOf(i, end) = SystemMemoryBase
    BY <1>5 DEF EndOf
  <2> QED BY <1>1, <1>2, <1>3, <1>4, <1>5, <2>1, Layout
<1>6. CASE i = 2
  <2>1. EndOf(i, end) = ReservedSecureBase + ReservedSecureSize
    BY <1>6 DEF EndOf
  <2> QED BY <1>1, <1>2, <1>3, <1>4, <1>6, <2>1, Layout
<1>7. CASE i = 3
  <2>1. EndOf(i, end) = ReservedShareBase + ReservedShareSize
    BY <1>7 DEF EndOf
  <2> QED BY <1>1, <1>2, <1>3, <1>4, <1>7, <2>1, Layout
<1>8. CASE i = 4
  <2>1. EndOf(i, end) = FdBaseAddress + FdSize
    BY <1>8 DEF EndOf
  <2> QED BY <1>1, <1>2, <1>3, <1>4, <1>8, <2>1, Layout
<1>9. CASE i = 5
  <2>1. EndOf(i, end) = FrameBufferBase + FrameBufferSize
    BY <1>9 DEF EndOf
  <2> QED BY <1>1, <1>2, <1>3, <1>4, <1>9, <2>1, Layout
<1>10. CASE i = 6
  <2>1. EndOf(i, end) = end
    BY <1>10 DEF EndOf
  <2> QED BY <1>1, <1>2, <1>3, <1>4, <1>10, <2>1, Layout
<1>11. CASE i = 7
  <2>1. EndOf(i, end) = DramHighSpaceBase
    BY <1>11 DEF EndOf
  <2> QED BY <1>1, <1>2, <1>3, <1>4, <1>11, <2>1, Layout
<1> QED BY <1>2, <1>5, <1>6, <1>7, <1>8, <1>9, <1>10, <1>11

-----------------------------------------------------------------------------
(* At first nothing is described.                                          *)
LEMMA InitInv == Init => Inv
<1> SUFFICES ASSUME Init PROVE Inv
  OBVIOUS
<1>1. table \in Seq(Table) /\ hobs \in Seq(Hob) /\ Len(table) = 0 /\ Len(hobs) = 0
  BY DEF Init
<1> QED BY <1>1 DEF Init, Inv, Inputs, Progress, Listed, Count

(* Describing the next region of the list.                                 *)
LEMMA DescribeKeeps ==
    ASSUME Inv, NEW next, NEW r, Describe(r, next), UNCHANGED inputs,
           Len(hobs) = Len(table), Len(table) + 1 \in 1 .. Count,
           r = Described(Len(table) + 1)
    PROVE  /\ table' \in Seq(Table) /\ hobs' \in Seq(Hob)
           /\ Len(table') = Len(table) + 1
           /\ \/ Len(hobs') = Len(hobs) + 1 /\ pc' = next
              \/ Len(hobs') = Len(hobs) /\ pc' \in {"stopped", "lost"}
           /\ \A i \in 1 .. Len(hobs') : /\ hobs'[i] = BuildResourceDescriptorHob_V2(Described(i))
                                         /\ table'[i] = Entry(Described(i))
<1>1. Entry(r) \in Table /\ BuildResourceDescriptorHob_V2(r) \in Hob
  BY DescribedSound, SoundTyped DEF Inv
<1>2. /\ table \in Seq(Table) /\ hobs \in Seq(Hob) /\ Len(table) \in Nat
      /\ table' = Append(table, Entry(r))
  BY DEF Inv, Describe
<1>3. \A i \in 1 .. Len(hobs) : /\ hobs[i] = BuildResourceDescriptorHob_V2(Described(i))
                                /\ table[i] = Entry(Described(i))
  BY DEF Inv, Listed
<1>4. /\ table' \in Seq(Table) /\ Len(table') = Len(table) + 1
      /\ \A i \in 1 .. Len(table) : table'[i] = table[i]
      /\ table'[Len(table) + 1] = Entry(r)
  BY <1>1, <1>2
<1>5. CASE hobs' = hobs /\ Asserted("lost")
  BY <1>2, <1>3, <1>4, <1>5 DEF Asserted
<1>6. CASE hobs' = Append(hobs, BuildResourceDescriptorHob_V2(r)) /\ pc' = next
  <2>1. /\ hobs' \in Seq(Hob) /\ Len(hobs') = Len(hobs) + 1
        /\ \A i \in 1 .. Len(hobs) : hobs'[i] = hobs[i]
        /\ hobs'[Len(hobs) + 1] = BuildResourceDescriptorHob_V2(r)
    BY <1>1, <1>2, <1>6
  <2>2. ASSUME NEW i \in 1 .. Len(hobs')
        PROVE  /\ hobs'[i] = BuildResourceDescriptorHob_V2(Described(i))
               /\ table'[i] = Entry(Described(i))
    <3>1. CASE i = Len(hobs) + 1
      BY <1>4, <2>1, <3>1
    <3>2. CASE i # Len(hobs) + 1
      <4>1. i \in 1 .. Len(hobs)
        BY <1>2, <2>1, <3>2
      <4> QED BY <1>3, <1>4, <2>1, <4>1
    <3> QED BY <3>1, <3>2
  <2> QED BY <1>4, <1>6, <2>1, <2>2
<1> QED BY <1>5, <1>6 DEF Describe

(* The inputs, and so the list, stay what they are.                        *)
LEMMA ListKept ==
    ASSUME UNCHANGED inputs
    PROVE  /\ Count' = Count /\ Inputs' <=> Inputs
           /\ \A i : Described(i)' = Described(i)
  BY DEF inputs, Count, Reported, ReportDramHighSpace, Inputs, Described, Regions, HighSpace,
         Region, High

(* Every step keeps the invariant.                                         *)
LEMMA NextInv == Inv /\ [Next]_vars => Inv'
<1> SUFFICES ASSUME Inv, [Next]_vars PROVE Inv'
  OBVIOUS
<1>0. /\ Inputs /\ table \in Seq(Table) /\ hobs \in Seq(Hob)
      /\ Len(table) \in Nat /\ Len(hobs) \in Nat /\ Count \in {7, 8}
  BY DEF Inv, Count
<1>1. ASSUME UNCHANGED <<inputs, table, hobs>>,
             \/ pc' = "lost"
             \/ pc = "allocate" /\ pc' \in {"regions", "stopped", "lost"}
             \/ pc = "high" /\ ~Reported /\ pc' = "end"
             \/ pc' = pc
      PROVE  Inv'
  <2>1. Count' = Count /\ Inputs' /\ \A i : Described(i)' = Described(i)
    BY <1>0, <1>1, ListKept
  <2>2. Progress'
    BY <1>0, <1>1, <2>1 DEF Inv, Progress, Count
  <2>3. Listed'
    BY <1>1, <2>1 DEF Inv, Listed
  <2> QED BY <1>0, <1>1, <2>1, <2>2, <2>3 DEF Inv
<1>2. CASE GetArmCoreInfoFromReg
  BY <1>1, <1>2 DEF GetArmCoreInfoFromReg
<1>3. CASE AllocateTable
  BY <1>1, <1>3 DEF AllocateTable, Asserted
<1>4. CASE DescribeRegion
  <2>1. /\ pc = "regions" /\ UNCHANGED inputs
        /\ Len(hobs) = Len(table) /\ Len(table) < 7
    BY <1>4 DEF DescribeRegion, Inv, Progress
  <2>2. Len(Regions(memoryEnd)) = 7
    BY DEF Regions
  <2>3. /\ Len(table) + 1 \in 1 .. Count
        /\ Regions(memoryEnd)[Len(table) + 1] = Described(Len(table) + 1)
    BY <1>0, <2>1 DEF Described
  <2>4. PICK next \in {"high", "regions"} :
           /\ next = IF Len(table) + 1 = 7 THEN "high" ELSE "regions"
           /\ Describe(Described(Len(table) + 1), next)
    BY <1>4, <2>2, <2>3 DEF DescribeRegion
  <2>5. /\ table' \in Seq(Table) /\ hobs' \in Seq(Hob)
        /\ Len(table') = Len(table) + 1
        /\ \/ Len(hobs') = Len(hobs) + 1 /\ pc' = next
           \/ Len(hobs') = Len(hobs) /\ pc' \in {"stopped", "lost"}
        /\ \A i \in 1 .. Len(hobs') : /\ hobs'[i] = BuildResourceDescriptorHob_V2(Described(i))
                                      /\ table'[i] = Entry(Described(i))
    BY <2>1, <2>3, <2>4, DescribeKeeps
  <2>6. Count' = Count /\ Inputs' /\ \A i : Described(i)' = Described(i)
    BY <1>0, <2>1, ListKept
  <2>7. Progress'
    BY <1>0, <2>1, <2>4, <2>5, <2>6 DEF Progress
  <2>8. Listed'
    BY <2>4, <2>5, <2>6 DEF Listed
  <2> QED BY <2>5, <2>6, <2>7, <2>8 DEF Inv
<1>5. CASE DescribeHighSpace
  <2>1. pc = "high" /\ UNCHANGED inputs /\ Len(hobs) = Len(table) /\ Len(table) = 7
    BY <1>5 DEF DescribeHighSpace, Inv, Progress
  <2>2. CASE ~Reported
    BY <1>1, <1>5, <2>1, <2>2 DEF DescribeHighSpace, Reported
  <2>3. CASE Reported
    <3>1. /\ Count = 8 /\ Described(Len(table) + 1) = HighSpace(available)
          /\ Describe(HighSpace(available), "end")
      BY <1>5, <2>1, <2>3 DEF DescribeHighSpace, Reported, Count, Described
    <3>2. /\ table' \in Seq(Table) /\ hobs' \in Seq(Hob)
          /\ Len(table') = Len(table) + 1
          /\ \/ Len(hobs') = Len(hobs) + 1 /\ pc' = "end"
             \/ Len(hobs') = Len(hobs) /\ pc' \in {"stopped", "lost"}
          /\ \A i \in 1 .. Len(hobs') : /\ hobs'[i] = BuildResourceDescriptorHob_V2(Described(i))
                                        /\ table'[i] = Entry(Described(i))
      BY <2>1, <3>1, DescribeKeeps
    <3>3. Count' = Count /\ Inputs' /\ \A i : Described(i)' = Described(i)
      BY <1>0, <2>1, ListKept
    <3>4. Progress'
      <4>1. Len(table') = 8 /\ Count' = 8 /\ Len(hobs) = 7
        <5>1. Len(table') = Len(table) + 1
          BY <3>2
        <5> QED BY <2>1, <3>1, <3>3, <5>1
      <4>2. CASE Len(hobs') = Len(hobs) + 1 /\ pc' = "end"
        <5>1. Len(hobs') = 8
          BY <4>1, <4>2
        <5> QED BY <4>1, <4>2, <5>1 DEF Progress
      <4>3. CASE Len(hobs') = Len(hobs) /\ pc' \in {"stopped", "lost"}
        <5>1. Len(hobs') = 7
          BY <4>1, <4>3
        <5> QED BY <4>1, <4>3, <5>1 DEF Progress
      <4> QED BY <3>2, <4>2, <4>3
    <3>5. Listed'
      BY <3>2, <3>3 DEF Listed
    <3> QED BY <3>2, <3>3, <3>4, <3>5 DEF Inv
  <2> QED BY <2>2, <2>3
<1>6. CASE EndTable
  <2>1. /\ pc = "end" /\ UNCHANGED <<inputs, hobs>> /\ Len(hobs) = Len(table)
        /\ Len(table) = Count /\ table' = Append(table, EndOfTable)
        /\ pc' \in {"done", "stopped", "lost"}
    BY <1>6 DEF EndTable, Inv, Progress
  <2>2. EndOfTable \in Table
    <3>1. Word \in Nat /\ Word > 0
      BY <1>0, Layout, SMTT(40) DEF Inputs
    <3> QED BY <3>1 DEF EndOfTable, Table, Address, Attributes
  <2>3. /\ table' \in Seq(Table) /\ Len(table') = Len(table) + 1
        /\ \A i \in 1 .. Len(table) : table'[i] = table[i]
        /\ table'[Len(table) + 1] = EndOfTable
    BY <1>0, <2>1, <2>2
  <2>4. Count' = Count /\ Inputs' /\ \A i : Described(i)' = Described(i)
    BY <1>0, <2>1, ListKept
  <2>5. Progress'
    BY <1>0, <2>1, <2>3, <2>4 DEF Progress
  <2>6. Listed'
    BY <2>1, <2>3, <2>4 DEF Inv, Listed
  <2> QED BY <1>0, <2>1, <2>3, <2>4, <2>5, <2>6 DEF Inv
<1>7. CASE UNCHANGED vars
  BY <1>1, <1>7 DEF vars
<1> QED BY <1>2, <1>3, <1>4, <1>5, <1>6, <1>7 DEF Next

(* At any time the table and the HOBs are the first entries of the list.   *)
THEOREM FollowsTheList == Spec => []Inv
  BY InitInv, NextInv, PTL DEF Spec

(* No two regions that are described overlap.                              *)
THEOREM RegionsStayApart == Spec => []RegionsApart
<1>1. ASSUME Inv PROVE RegionsApart
  <2>1. /\ hobs \in Seq(Hob) /\ Len(hobs) \in Nat /\ Len(hobs) <= Count /\ Count \in Nat
    BY <1>1 DEF Inv, Progress, Count
  <2>2. ASSUME NEW i \in DOMAIN hobs, NEW j \in DOMAIN hobs, i < j
        PROVE  hobs[i].start + hobs[i].length <= hobs[j].start
    <3>1. i \in 1 .. Count /\ j \in 1 .. Count /\ i \in 1 .. Len(hobs) /\ j \in 1 .. Len(hobs)
      BY <2>1
    <3>2. Described(i).base + Described(i).length <= Described(j).base
      BY <1>1, <2>2, <3>1, DescribedApart DEF Inv
    <3>3. /\ hobs[i] = BuildResourceDescriptorHob_V2(Described(i))
          /\ hobs[j] = BuildResourceDescriptorHob_V2(Described(j))
      BY <1>1, <3>1 DEF Inv, Listed
    <3>4. /\ hobs[i].start = Described(i).base /\ hobs[i].length = Described(i).length
          /\ hobs[j].start = Described(j).base
      BY <3>3 DEF BuildResourceDescriptorHob_V2
    <3> QED BY <3>2, <3>4
  <2> QED BY <2>2 DEF RegionsApart
<1>2. Inv => RegionsApart
  BY <1>1
<1> QED BY <1>2, FollowsTheList, PTL

(* The HOBs and the table describe the same ranges in the same way.        *)
THEOREM DescriptionsAgree == Spec => []HobsMatchTable
<1>1. ASSUME Inv PROVE HobsMatchTable
  <2>1. /\ table \in Seq(Table) /\ hobs \in Seq(Hob) /\ Len(hobs) \in Nat /\ Len(table) \in Nat
        /\ Len(hobs) <= Count /\ Len(hobs) <= Len(table) /\ Count \in Nat
    BY <1>1 DEF Inv, Progress, Count
  <2>2. ASSUME NEW i \in DOMAIN hobs
        PROVE  /\ i \in DOMAIN table
               /\ hobs[i].start = table[i].base /\ hobs[i].length = table[i].length
               /\ hobs[i].memory = "WB" <=> table[i].attributes = "WRITE_BACK"
               /\ hobs[i].resource = "MEMORY_MAPPED_IO" <=> table[i].attributes = "DEVICE"
    <3>1. i \in 1 .. Count /\ i \in 1 .. Len(hobs) /\ i \in DOMAIN table
      BY <2>1
    <3>2. Sound(Described(i))
      BY <1>1, <3>1, DescribedSound DEF Inv
    <3>3. hobs[i] = BuildResourceDescriptorHob_V2(Described(i)) /\ table[i] = Entry(Described(i))
      BY <1>1, <3>1 DEF Inv, Listed
    <3> QED BY <3>1, <3>2, <3>3 DEF Sound, BuildResourceDescriptorHob_V2, Entry
  <2>3. /\ pc \in {"regions", "high", "end"} => Len(hobs) = Len(table)
        /\ pc = "done" => Len(hobs) = Len(table) - 1 /\ table[Len(table)] = EndOfTable
    BY <1>1, <2>1 DEF Inv, Progress, Listed
  <2> QED BY <2>2, <2>3 DEF HobsMatchTable
<1>2. Inv => HobsMatchTable
  BY <1>1
<1> QED BY <1>2, FollowsTheList, PTL

(* A finished table describes the address space up to the end of the       *)
(* memory that the boot loader reports.                                    *)
THEOREM DescribesToTheEnd == Spec => []DescribedToTheEnd
<1>1. ASSUME Inv, pc = "done"
      PROVE  hobs[Len(hobs)].start + hobs[Len(hobs)].length =
                DramHighSpaceBase + (IF signature /\ available > LowMegabytes
                                     THEN (available - LowMegabytes) * PagesPerMegabyte ELSE 0)
  <2>1. Inputs /\ Len(hobs) = Count /\ Count \in 1 .. 8
    BY <1>1 DEF Inv, Progress, Count
  <2>2. /\ hobs[Len(hobs)].start = Described(Count).base
        /\ hobs[Len(hobs)].length = Described(Count).length
    BY <1>1, <2>1 DEF Inv, Listed, BuildResourceDescriptorHob_V2
  <2>3. CASE Reported
    BY <2>1, <2>2, <2>3, HighRegion
    DEF Inputs, Count, Described, Reported, ReportDramHighSpace
  <2>4. CASE ~Reported
    <3>1. Count = 7 /\ Described(Count) = Regions(memoryEnd)[7] /\ memoryEnd \in MemoryEnds
      BY <2>1, <2>4 DEF Count, Described, Inputs
    <3>2. Described(Count).base + Described(Count).length = DramHighSpaceBase
      BY <3>1, FixedRegions DEF EndOf
    <3>3. DramHighSpaceBase \in Nat
      BY <3>1, Layout
    <3> QED BY <2>2, <2>4, <3>2, <3>3 DEF Reported, ReportDramHighSpace
  <2> QED BY <2>3, <2>4
<1>2. Inv => DescribedToTheEnd
  BY <1>1 DEF DescribedToTheEnd
<1> QED BY <1>2, FollowsTheList, PTL
-----------------------------------------------------------------------------
\* What was said of the cores is what the register says of them.
Cores ==
    /\ build \in {"DEBUG", "RELEASE"} /\ register \in Registers
    /\ pc \in {"allocate", "regions", "high", "end", "done", "stopped", "lost"}
    /\ coreCount \in {Unknown} \cup 0 .. 12 /\ cores \in Seq(Nat)
    /\ coreCount # Unknown /\ pc # "lost" =>
          coreCount = CoreCount(register) /\ cores = CoreTable(register)

LEMMA CoresKept == Spec => []Cores
<1>1. Init => Cores
  BY DEF Init, Cores
<1>2. ASSUME Cores, [Next]_vars PROVE Cores'
  <2>1. ASSUME UNCHANGED <<build, register, coreCount, cores>>, pc # "lost",
               pc' \in {"regions", "high", "end", "done", "stopped", "lost"}
        PROVE  Cores'
    BY <1>2, <2>1 DEF Cores, Unknown
  <2>2. CASE GetArmCoreInfoFromReg
    <3>1. /\ UNCHANGED <<build, register>> /\ coreCount' = CoreCount(register)
          /\ \/ cores' = CoreTable(register) /\ pc' = pc
             \/ cores' = << >> /\ pc' = "lost"
      BY <2>2 DEF GetArmCoreInfoFromReg, inputs
    <3>2. CoreCount(register) \in 0 .. 12 /\ CoreTable(register) \in Seq(Nat)
      BY Mask, TableIs
    <3>3. << >> \in Seq(Nat)
      OBVIOUS
    <3> QED
      BY <1>2, <3>1, <3>2, <3>3 DEF Cores
  <2>3. CASE AllocateTable
    BY <2>1, <2>3 DEF AllocateTable, Asserted, inputs, found
  <2>4. CASE DescribeRegion
    <3>1. \E r : \E next \in {"regions", "high"} : Describe(r, next)
      <4> DEFINE list == Regions(memoryEnd)
                 index == Len(table) + 1
      <4>1. Describe(list[index], IF index = Len(list) THEN "high" ELSE "regions")
        BY <2>4 DEF DescribeRegion
      <4> HIDE DEF list, index
      <4> QED
        BY <4>1
    <3>2. PICK r : \E next \in {"regions", "high"} : Describe(r, next)
      BY <3>1
    <3>3. pc' \in {"regions", "high", "stopped", "lost"}
      BY <3>2 DEF Describe, Asserted
    <3> QED
      BY <2>1, <2>4, <3>3 DEF DescribeRegion, inputs, found
  <2>5. CASE DescribeHighSpace
    BY <2>1, <2>5 DEF DescribeHighSpace, Describe, Asserted, inputs, found
  <2>6. CASE EndTable
    BY <2>1, <2>6 DEF EndTable, inputs, found
  <2>7. CASE UNCHANGED vars
    BY <1>2, <2>7 DEF Cores, vars, inputs, found
  <2> QED
    BY <1>2, <2>2, <2>3, <2>4, <2>5, <2>6, <2>7 DEF Next
<1> QED
  BY <1>1, <1>2, PTL DEF Spec

LEMMA SeqMonotone == ASSUME NEW S, NEW T, S \subseteq T PROVE Seq(S) \subseteq Seq(T)
  BY SeqDef

(* Every variable has its type, and no region is empty but the end of the  *)
(* table.                                                                  *)
THEOREM TypesHold == Spec => []TypeOK
<1>1. Inv /\ Cores => TypeOK
  <2> SUFFICES ASSUME Inv, Cores PROVE TypeOK
    OBVIOUS
  <2>1. table \in Seq(Table) /\ hobs \in Seq(Hob) /\ Inputs
    BY DEF Inv
  <2>2. \A i \in DOMAIN table : table[i] \in Table
    BY <2>1
  <2>3. Table \subseteq [base : Address, length : Address, attributes : Attributes]
    BY DEF Table
  <2>4. table \in Seq([base : Address, length : Address, attributes : Attributes])
    BY <2>1, <2>3, SeqMonotone
  <2>5. \A i \in DOMAIN table : table[i].length = 0 => table[i] = EndOfTable
    BY <2>2 DEF Table
  <2> QED
    BY <2>1, <2>4, <2>5 DEF TypeOK, Cores, Inputs, Hob
<1> QED
  BY <1>1, FollowsTheList, CoresKept, PTL

(* The table of the cores has every core that lives, once, in ascending    *)
(* order, and as many as the count says, whatever the core register holds. *)
THEOREM CoresAreFound == Spec => []CoresFound
<1>1. Cores => CoresFound
  <2> SUFFICES ASSUME Cores, coreCount # Unknown, pc # "lost" PROVE CoresFound
    BY DEF CoresFound
  <2>1. coreCount = CoreCount(register) /\ cores = CoreTable(register)
    BY DEF Cores
  <2>2. /\ Len(cores) = coreCount
        /\ {CorePosition(cores[i]) : i \in DOMAIN cores} = CoreBitMask(register)
        /\ \A i, j \in DOMAIN cores : i < j => CorePosition(cores[i]) < CorePosition(cores[j])
    BY <2>1, TableIs
  <2>3. CoreBitMask(register) = {b \in 0 .. 11 : b \notin register}
    BY DEF CoreBitMask
  <2> QED
    BY <2>2, <2>3 DEF CoresFound
<1> QED
  BY <1>1, CoresKept, PTL
=============================================================================
