---------------------------- MODULE DiskFs_proofs ----------------------------
(***************************************************************************)
(* The data disk, proved for every geometry of the volume, every set of    *)
(* names and contents, and every number of crashes and write errors: types *)
(* and write-back (Basic), who owns which block (Owned), that none is lost *)
(* (Exact), the order of creation (Ordered), that every known file is in   *)
(* its place (Contained), and that the disk therefore implements FileMap.  *)
(***************************************************************************)
EXTENDS DiskFs, FiniteSetTheorems, SequenceTheorems, WellFoundedInduction, TLAPS

-----------------------------------------------------------------------------
(* Least and greatest numbers.                                             *)

\* A set of naturals that is not empty has a least element.
LEMMA Least ==
  ASSUME NEW T, T \subseteq Nat, T # {}
  PROVE  \E x \in T : \A y \in T : x <= y
<1> DEFINE R == OpToRel(<, Nat)
<1>1. IsWellFoundedOn(R, Nat)
  BY NatLessThanWellFounded
<1>2. R = {ss \in Nat \X Nat : ss[1] < ss[2]}
  BY DEF OpToRel
<1> HIDE DEF R
<1>3. PICK x \in T : \A y \in T : ~(<<y, x>> \in R)
  BY <1>1, WFMin
<1>4. \A y \in T : x <= y
  <2> TAKE y \in T
  <2>1. x \in Nat /\ y \in Nat
    OBVIOUS
  <2>2. ~(<<y, x>> \in R)
    BY <1>3
  <2>3. ~(y < x)
    BY <1>2, <2>1, <2>2
  <2> QED BY <2>1, <2>3
<1> QED BY <1>4

\* A bounded one has a greatest.
LEMMA Greatest ==
  ASSUME NEW N \in Nat, NEW T, T \subseteq 0 .. N, T # {}
  PROVE  \E x \in T : \A y \in T : y <= x
<1> DEFINE U == {n \in Nat : N - n \in T}
<1>0. \A x \in T : x \in Nat /\ x <= N
  OBVIOUS
<1>1. U \subseteq Nat
  OBVIOUS
<1>2. \A x \in T : N - x \in U
  <2> TAKE x \in T
  <2>1. N - x \in Nat /\ N - (N - x) = x
    BY <1>0
  <2> QED BY <2>1
<1>3. U # {}
  BY <1>2
<1>4. PICK u \in U : \A v \in U : u <= v
  <2> HIDE DEF U
  <2> QED BY <1>1, <1>3, Least
<1>5. u \in Nat /\ N - u \in T
  OBVIOUS
<1>6. \A y \in T : y <= N - u
  <2> TAKE y \in T
  <2>1. u <= N - y
    BY <1>2, <1>4
  <2> QED BY <1>0, <1>5, <2>1
<1> QED BY <1>5, <1>6

-----------------------------------------------------------------------------
(* Sequences of device writes.                                             *)

Due(w, s) == \E i \in 1 .. Len(s) : s[i] = w

\* How many sectors of a set come before one of it tells it from the others, and
\* every place in the order is taken.
LEMMA Ranked ==
  ASSUME NEW N \in Nat, NEW T, T \subseteq 0 .. N
  PROVE  /\ IsFiniteSet(T) /\ Cardinality(T) \in Nat
         /\ \A s \in T : Cardinality({t \in T : t < s}) \in 0 .. Cardinality(T) - 1
         /\ \A s, u \in T : Cardinality({t \in T : t < s}) = Cardinality({t \in T : t < u}) => s = u
         /\ \A k \in 1 .. Cardinality(T) : \E s \in T : Cardinality({t \in T : t < s}) = k - 1
<1> DEFINE Below(s) == {t \in T : t < s}
           rank == [s \in T |-> Cardinality(Below(s))]
           n == Cardinality(T)
<1>0. \A s \in T : s \in Int
  OBVIOUS
<1>1. IsFiniteSet(T) /\ n \in Nat
  <2>1. IsFiniteSet(0 .. N)
    BY FS_Interval
  <2>2. IsFiniteSet(T)
    BY <2>1, FS_Subset
  <2> QED BY <2>2, FS_CardinalityType
<1>2. \A s \in T : IsFiniteSet(Below(s)) /\ Cardinality(Below(s)) \in Nat /\ Cardinality(Below(s)) < n
  <2> TAKE s \in T
  <2>1. Below(s) \in SUBSET T /\ s \notin Below(s)
    BY <1>0
  <2>2. IsFiniteSet(Below(s)) /\ Cardinality(Below(s)) <= n /\ n # Cardinality(Below(s))
    BY <1>1, <2>1, FS_Subset
  <2>3. Cardinality(Below(s)) \in Nat
    BY <2>2, FS_CardinalityType
  <2> QED BY <1>1, <2>2, <2>3
<1>3. \A s, u \in T : s < u => Cardinality(Below(s)) < Cardinality(Below(u))
  <2> SUFFICES ASSUME NEW s \in T, NEW u \in T, s < u
               PROVE  Cardinality(Below(s)) < Cardinality(Below(u))
    OBVIOUS
  <2>0. s \in Int /\ u \in Int /\ \A t \in T : t < s => t < u
    BY <1>0
  <2>1. Below(s) \in SUBSET Below(u)
    BY <2>0
  <2>a. s \in Below(u) /\ s \notin Below(s)
    BY <2>0
  <2>2. Cardinality(Below(s)) <= Cardinality(Below(u)) /\ Cardinality(Below(u)) # Cardinality(Below(s))
    BY <1>2, <2>1, <2>a, FS_Subset
  <2>3. Cardinality(Below(s)) \in Nat /\ Cardinality(Below(u)) \in Nat
    BY <1>2
  <2> HIDE DEF Below
  <2> QED BY <2>2, <2>3
<1>4. \A s, u \in T : Cardinality(Below(s)) = Cardinality(Below(u)) => s = u
  <2> SUFFICES ASSUME NEW s \in T, NEW u \in T, Cardinality(Below(s)) = Cardinality(Below(u))
               PROVE  s = u
    OBVIOUS
  <2>1. ~(s < u) /\ ~(u < s)
    BY <1>2, <1>3
  <2> QED BY <2>1
<1>5. rank \in Injection(T, 0 .. n - 1)
  <2>1. \A s \in T : rank[s] \in 0 .. n - 1
    BY <1>1, <1>2
  <2> QED BY <1>4, <2>1 DEF Injection, IsInjective
<1>6. n = Cardinality(0 .. n - 1) /\ IsFiniteSet(0 .. n - 1)
  BY <1>1, FS_Interval
<1>7. rank \in Surjection(T, 0 .. n - 1)
  BY <1>5, <1>6, FS_Injection
<1>8. \A k \in 1 .. n : \E s \in T : Cardinality(Below(s)) = k - 1
  <2> TAKE k \in 1 .. n
  <2>1. k - 1 \in 0 .. n - 1
    BY <1>1
  <2>2. PICK s \in T : rank[s] = k - 1
    BY <1>7, <2>1 DEF Surjection
  <2> QED BY <2>2
<1>9. \A s \in T : Cardinality(Below(s)) \in 0 .. n - 1
  BY <1>1, <1>2
<1> QED BY <1>1, <1>4, <1>8, <1>9

\* Writes puts down each of the sectors, and nothing else.
LEMMA WritesAll ==
  ASSUME NEW N \in Nat, NEW T, T \subseteq 0 .. N, NEW region
  PROVE  /\ Writes(region, T) \in Seq({region} \X T)
         /\ \A s \in T : Due(<<region, s>>, Writes(region, T))
<1> DEFINE n == Cardinality(T)
           Below(s) == {t \in T : t < s}
           least(k) == CHOOSE s \in T : Cardinality(Below(s)) = k - 1
<1>1. n \in Nat /\ (\A s \in T : Cardinality(Below(s)) \in 0 .. n - 1)
  BY Ranked
<1>2. \A s, u \in T : Cardinality(Below(s)) = Cardinality(Below(u)) => s = u
  BY Ranked
<1>3. \A k \in 1 .. n : \E s \in T : Cardinality(Below(s)) = k - 1
  BY Ranked
<1> HIDE DEF n, Below
<1>4. \A k \in 1 .. n : least(k) \in T
  BY <1>3
<1>5. \A s \in T : Cardinality(Below(s)) + 1 \in 1 .. n /\ least(Cardinality(Below(s)) + 1) = s
  BY <1>1, <1>2
<1>6. Writes(region, T) = [k \in 1 .. n |-> <<region, least(k)>>]
  BY DEF Writes, n, Below
<1> HIDE DEF least
<1>7. Writes(region, T) \in Seq({region} \X T) /\ Len(Writes(region, T)) = n
  BY <1>1, <1>4, <1>6
<1>8. \A s \in T : Writes(region, T)[Cardinality(Below(s)) + 1] = <<region, s>>
  BY <1>5, <1>6
<1> QED BY <1>5, <1>7, <1>8 DEF Due

\* Rounding down to a byte or a sector keeps the order.
LEMMA Quotient ==
  ASSUME NEW a \in Nat, NEW n \in Nat \ {0}
  PROVE  /\ (a \div n) \in Nat
         /\ (a \div n) <= a
         /\ \A b \in Nat : a <= b => (a \div n) <= (b \div n)
<1> DEFINE q == a \div n
<1>1. q \in Int /\ n * q <= a /\ a < n * (q + 1)
  OBVIOUS
<1>2. q \in Nat /\ q <= a
  <2> HIDE DEF q
  <2>1. q > -1
    BY <1>1
  <2> QED BY <1>1, <2>1
<1>3. ASSUME NEW b \in Nat, a <= b PROVE q <= (b \div n)
  <2> DEFINE r == b \div n
  <2>1. r \in Int /\ n * r <= b /\ b < n * (r + 1)
    OBVIOUS
  <2> HIDE DEF q, r
  <2>2. n * q < n * (r + 1)
    BY <1>1, <1>3, <2>1
  <2>3. q < r + 1
    BY <1>1, <2>1, <2>2
  <2> QED BY <1>1, <2>1, <2>3 DEF r
<1> QED BY <1>2, <1>3

Sector(b) == (b \div BitsPerByte) \div SectorBytes

\* The geometry, in the form the steps below use it.
LEMMA Numbers ==
  /\ DataStart \in Nat /\ DataStart > 0 /\ TotalBlocks \in Nat /\ DataStart < TotalBlocks
  /\ BitsPerByte \in Nat \ {0} /\ SectorBytes \in Nat \ {0}
  /\ SlotCount \in Nat \ {0} /\ EntriesPerSector \in Nat \ {0}
  /\ MaxLen \in Nat /\ MaxSeq \in Nat /\ MaxFaults \in Nat
  /\ Block \subseteq Nat /\ Slot \subseteq Nat
BY GeometryAssumption DEF Block, Slot

\* The sectors of the bitmap and of the directory.
LEMMA Sectors ==
  /\ BitmapSectors \subseteq 0 .. TotalBlocks /\ DirSectors \subseteq 0 .. SlotCount
  /\ \A b \in Block : Sector(b) \in BitmapSectors
  /\ \A s \in Slot : s \div EntriesPerSector \in DirSectors
<1>1. \A b \in Block : (b \div BitsPerByte) \in Nat /\ Sector(b) \in Nat /\ Sector(b) <= TotalBlocks
  <2> TAKE b \in Block
  <2>1. b \in Nat /\ b <= TotalBlocks
    BY Numbers DEF Block
  <2>2. (b \div BitsPerByte) \in Nat /\ (b \div BitsPerByte) <= b
    BY <2>1, Numbers, Quotient
  <2>3. Sector(b) \in Nat /\ Sector(b) <= (b \div BitsPerByte)
    BY <2>2, Numbers, Quotient DEF Sector
  <2> QED BY <2>1, <2>2, <2>3, Numbers
<1>2. \A s \in Slot : (s \div EntriesPerSector) \in Nat /\ (s \div EntriesPerSector) <= SlotCount
  <2> TAKE s \in Slot
  <2>1. s \in Nat /\ s <= SlotCount
    BY Numbers DEF Slot
  <2>2. (s \div EntriesPerSector) \in Nat /\ (s \div EntriesPerSector) <= s
    BY <2>1, Numbers, Quotient
  <2> QED BY <2>1, <2>2, Numbers
<1>3. BitmapSectors = {Sector(b) : b \in Block}
  BY DEF BitmapSectors, Sector
<1>4. BitmapSectors \subseteq 0 .. TotalBlocks /\ \A b \in Block : Sector(b) \in BitmapSectors
  <2> HIDE DEF Sector
  <2> QED BY <1>1, <1>3, Numbers
<1>5. DirSectors \subseteq 0 .. SlotCount /\ \A s \in Slot : s \div EntriesPerSector \in DirSectors
  BY <1>2, Numbers DEF DirSectors
<1> QED BY <1>4, <1>5

\* flush_bitmap puts down every sector that holds a bit of the range of bytes.
LEMMA FlushBitmapAll ==
  ASSUME NEW low \in Nat, NEW high \in Nat
  PROVE  /\ FlushBitmap(low, high) \in Seq({"bitmap"} \X BitmapSectors)
         /\ \A b \in Block : low <= (b \div BitsPerByte) /\ (b \div BitsPerByte) < high =>
              Due(<<"bitmap", Sector(b)>>, FlushBitmap(low, high))
<1> DEFINE T == SectorSpan(low, high) \cap BitmapSectors
<1>1. T \subseteq 0 .. TotalBlocks
  BY Sectors
<1>2. FlushBitmap(low, high) = Writes("bitmap", T)
  BY DEF FlushBitmap
<1> HIDE DEF T
<1>3. /\ Writes("bitmap", T) \in Seq({"bitmap"} \X T)
      /\ \A s \in T : Due(<<"bitmap", s>>, Writes("bitmap", T))
  BY <1>1, Numbers, WritesAll
<1>4. FlushBitmap(low, high) \in Seq({"bitmap"} \X BitmapSectors)
  <2>1. {"bitmap"} \X T \subseteq {"bitmap"} \X BitmapSectors
    BY DEF T
  <2> QED BY <1>2, <1>3, <2>1, SeqMonotonic
<1>5. ASSUME NEW b \in Block, low <= (b \div BitsPerByte), (b \div BitsPerByte) < high
      PROVE  Sector(b) \in T
  <2> DEFINE c == b \div BitsPerByte
  <2>1. c \in Nat
    BY Numbers, Quotient
  <2> HIDE DEF c
  <2>2. low <= c /\ c <= high - 1 /\ high - 1 \in Nat
    BY <1>5, <2>1 DEF c
  <2>3. (low \div SectorBytes) <= (c \div SectorBytes)
    BY <2>1, <2>2, Numbers, Quotient
  <2>4. (c \div SectorBytes) <= ((high - 1) \div SectorBytes)
    BY <2>1, <2>2, Numbers, Quotient
  <2>5. (low \div SectorBytes) \in Nat /\ (c \div SectorBytes) \in Nat /\ ((high - 1) \div SectorBytes) \in Nat
    BY <2>1, <2>2, Numbers, Quotient
  <2>6. (c \div SectorBytes) \in SectorSpan(low, high)
    BY <2>3, <2>4, <2>5 DEF SectorSpan
  <2> QED BY <2>6, Sectors DEF T, Sector, c
<1> QED BY <1>2, <1>3, <1>4, <1>5

\* The device writes there are.
Job == ({"bitmap"} \X BitmapSectors) \cup ({"dir"} \X DirSectors)
         \cup ({"data"} \X Block) \cup {<<"super", 0>>}

\* What a device write may be about.
LEMMA JobKinds ==
  \A w \in Job : 
    /\ w[1] \in {"bitmap", "dir", "data", "super"}
    /\ w[1] = "bitmap" => w[2] \in BitmapSectors
    /\ w[1] = "dir" => w[2] \in DirSectors
    /\ w[1] = "data" => w[2] \in Block
BY DEF Job

\* What is due is the next write or one of those after it.
LEMMA HeadAndTail ==
  ASSUME NEW S, NEW s \in Seq(S), s # <<>>
  PROVE  /\ Head(s) \in S /\ Tail(s) \in Seq(S)
         /\ Len(s) \in Nat /\ Len(s) > 0 /\ Len(Tail(s)) = Len(s) - 1
         /\ Head(s) = s[1]
         /\ \A i \in 1 .. Len(Tail(s)) : Tail(s)[i] = s[i + 1]
BY HeadTailProperties, EmptySeq

\* Each of the writes to come is the next one or stays to come.
LEMMA DueNext ==
  ASSUME NEW S, NEW s \in Seq(S), s # <<>>, NEW w, Due(w, s)
  PROVE  w = Head(s) \/ Due(w, Tail(s))
<1>1. PICK i \in 1 .. Len(s) : s[i] = w
  BY DEF Due
<1>2. CASE i = 1
  BY <1>1, <1>2, HeadAndTail
<1>3. CASE i # 1
  <2>1. i - 1 \in 1 .. Len(Tail(s)) /\ Tail(s)[i - 1] = s[i]
    BY <1>3, HeadAndTail
  <2> QED BY <1>1, <2>1 DEF Due
<1> QED BY <1>2, <1>3

\* Nothing is due when nothing is to be written.
LEMMA DueEmpty == \A w : ~Due(w, <<>>)
BY DEF Due

\* Joining two sequences of writes loses none.
LEMMA DueConcat ==
  ASSUME NEW S, NEW s \in Seq(S), NEW t \in Seq(S), NEW w, Due(w, s) \/ Due(w, t)
  PROVE  Due(w, s \o t)
<1>0. Len(s) \in Nat /\ Len(t) \in Nat /\ Len(s \o t) = Len(s) + Len(t)
  BY ConcatProperties
<1>1. ASSUME Due(w, s) PROVE Due(w, s \o t)
  <2>1. PICK i \in 1 .. Len(s) : s[i] = w
    BY <1>1 DEF Due
  <2>2. i \in 1 .. Len(s \o t) /\ (s \o t)[i] = s[i]
    BY <1>0, ConcatProperties
  <2> QED BY <2>1, <2>2 DEF Due
<1>2. ASSUME Due(w, t) PROVE Due(w, s \o t)
  <2>1. PICK i \in 1 .. Len(t) : t[i] = w
    BY <1>2 DEF Due
  <2>2. Len(s) + i \in 1 .. Len(s \o t) /\ (s \o t)[Len(s) + i] = t[i]
    BY <1>0, ConcatProperties
  <2> QED BY <2>1, <2>2 DEF Due
<1> QED BY <1>1, <1>2

\* A format puts down every sector there is, the superblock last.
FormatWrites ==
  Writes("bitmap", BitmapSectors) \o Writes("dir", DirSectors) \o <<<<"super", 0>>>>

\* It has every bitmap and directory sector, and one superblock at its end.
LEMMA FormatAll ==
  /\ FormatWrites \in Seq(Job) /\ FormatWrites # <<>>
  /\ \A i \in 1 .. Len(FormatWrites) : 
       /\ FormatWrites[i][1] # "data"
       /\ FormatWrites[i][1] = "super" <=> i = Len(FormatWrites)
  /\ \A b \in Block : Due(<<"bitmap", Sector(b)>>, FormatWrites)
  /\ \A s \in Slot : Due(<<"dir", s \div EntriesPerSector>>, FormatWrites)
<1> DEFINE B == Writes("bitmap", BitmapSectors)
           D == Writes("dir", DirSectors)
           S == <<<<"super", 0>>>>
<1>1. B \in Seq({"bitmap"} \X BitmapSectors) /\ \A s \in BitmapSectors : Due(<<"bitmap", s>>, B)
  BY Sectors, Numbers, WritesAll
<1>2. D \in Seq({"dir"} \X DirSectors) /\ \A s \in DirSectors : Due(<<"dir", s>>, D)
  BY Sectors, Numbers, WritesAll
<1>3. S \in Seq({<<"super", 0>>}) /\ Len(S) = 1 /\ S[1] = <<"super", 0>>
  OBVIOUS
<1>4. FormatWrites = B \o D \o S
  BY DEF FormatWrites
<1> HIDE DEF B, D, S
<1>5. B \in Seq(Job) /\ D \in Seq(Job) /\ S \in Seq(Job)
  BY <1>1, <1>2, <1>3, SeqMonotonic DEF Job
<1>6. B \o D \in Seq(Job) /\ Len(B \o D) = Len(B) + Len(D) /\ Len(B) \in Nat /\ Len(D) \in Nat
  BY <1>5, ConcatProperties
<1>7. FormatWrites \in Seq(Job) /\ Len(FormatWrites) = Len(B) + Len(D) + 1
  <2>1. (B \o D) \o S \in Seq(Job) /\ Len((B \o D) \o S) = Len(B \o D) + Len(S)
    BY <1>5, <1>6, ConcatProperties
  <2> QED BY <2>1, <1>3, <1>4, <1>6
<1>8. \A b \in Block : Due(<<"bitmap", Sector(b)>>, FormatWrites)
  <2> TAKE b \in Block
  <2>1. Due(<<"bitmap", Sector(b)>>, B)
    BY <1>1, Sectors
  <2>2. Due(<<"bitmap", Sector(b)>>, B \o D)
    BY <2>1, <1>5, DueConcat
  <2> QED BY <2>2, <1>4, <1>5, <1>6, DueConcat
<1>9. \A s \in Slot : Due(<<"dir", s \div EntriesPerSector>>, FormatWrites)
  <2> TAKE s \in Slot
  <2>1. Due(<<"dir", s \div EntriesPerSector>>, D)
    BY <1>2, Sectors
  <2>2. Due(<<"dir", s \div EntriesPerSector>>, B \o D)
    BY <2>1, <1>5, DueConcat
  <2> QED BY <2>2, <1>4, <1>5, <1>6, DueConcat
<1>10. ASSUME NEW i \in 1 .. Len(FormatWrites)
       PROVE  FormatWrites[i][1] # "data" /\ (FormatWrites[i][1] = "super" <=> i = Len(FormatWrites))
  <2>1. CASE i = Len(FormatWrites)
    <3>1. FormatWrites[i] = S[1]
      BY <2>1, <1>3, <1>4, <1>5, <1>6, <1>7, ConcatProperties
    <3> QED BY <3>1, <1>3, <2>1
  <2>2. CASE i # Len(FormatWrites)
    <3>1. i \in 1 .. Len(B \o D) /\ FormatWrites[i] = (B \o D)[i]
      BY <2>2, <1>3, <1>4, <1>5, <1>6, <1>7, ConcatProperties
    <3>2. CASE i <= Len(B)
      <4>1. i \in 1 .. Len(B) /\ (B \o D)[i] = B[i]
        BY <3>1, <3>2, <1>5, <1>6, ConcatProperties
      <4>2. B[i] \in {"bitmap"} \X BitmapSectors
        BY <4>1, <1>1, ElementOfSeq
      <4> QED BY <2>2, <3>1, <4>1, <4>2
    <3>3. CASE i > Len(B)
      <4>1. i - Len(B) \in 1 .. Len(D) /\ (B \o D)[i] = D[i - Len(B)]
        BY <3>1, <3>3, <1>5, <1>6, ConcatProperties
      <4>2. D[i - Len(B)] \in {"dir"} \X DirSectors
        BY <4>1, <1>2, ElementOfSeq
      <4> QED BY <2>2, <3>1, <4>1, <4>2
    <3> QED BY <3>2, <3>3, <1>6, <1>7
  <2> QED BY <2>1, <2>2
<1> QED BY <1>6, <1>7, <1>8, <1>9, <1>10

\* The writes of a file's blocks.
LEMMA DataAll ==
  ASSUME NEW T, T \subseteq Block
  PROVE  /\ Writes("data", T) \in Seq(Job)
         /\ \A i \in 1 .. Len(Writes("data", T)) :
              Writes("data", T)[i][1] = "data" /\ Writes("data", T)[i][2] \in T
         /\ \A b \in T : Due(<<"data", b>>, Writes("data", T))
<1>1. T \subseteq 0 .. TotalBlocks
  BY Numbers DEF Block
<1>2. Writes("data", T) \in Seq({"data"} \X T) /\ \A b \in T : Due(<<"data", b>>, Writes("data", T))
  BY <1>1, Numbers, WritesAll
<1>3. Writes("data", T) \in Seq(Job)
  BY <1>2, SeqMonotonic DEF Job
<1>4. \A i \in 1 .. Len(Writes("data", T)) : Writes("data", T)[i] \in {"data"} \X T
  BY <1>2, ElementOfSeq
<1> QED BY <1>2, <1>3, <1>4

\* Of the blocks that two bitmaps mark differently, those of the sectors between
\* the first and the last byte that changed.
ChangedWrites(old, new) ==
  LET changed == {b \div BitsPerByte : b \in (old \ new) \cup (new \ old)}
      low == CHOOSE i \in changed : \A j \in changed : i <= j
      last == CHOOSE i \in changed : \A j \in changed : j <= i
  IN  IF changed = {} THEN <<>> ELSE FlushBitmap(low, last + 1)

\* They cover every block whose mark changed.
LEMMA ChangedAll ==
  ASSUME NEW old, old \subseteq Block, NEW new, new \subseteq Block
  PROVE  /\ ChangedWrites(old, new) \in Seq({"bitmap"} \X BitmapSectors)
         /\ \A b \in (old \ new) \cup (new \ old) :
              Due(<<"bitmap", Sector(b)>>, ChangedWrites(old, new))
<1> DEFINE diff == (old \ new) \cup (new \ old)
           changed == {b \div BitsPerByte : b \in diff}
           low == CHOOSE i \in changed : \A j \in changed : i <= j
           last == CHOOSE i \in changed : \A j \in changed : j <= i
<1>0. diff \subseteq Block
  OBVIOUS
<1>1. ChangedWrites(old, new) = IF changed = {} THEN <<>> ELSE FlushBitmap(low, last + 1)
  BY DEF ChangedWrites
<1>2. \A b \in diff : (b \div BitsPerByte) \in 0 .. TotalBlocks
  <2> TAKE b \in diff
  <2>1. b \in Nat /\ b <= TotalBlocks
    BY <1>0, Numbers DEF Block
  <2>2. (b \div BitsPerByte) \in Nat /\ (b \div BitsPerByte) <= b
    BY <2>1, Numbers, Quotient
  <2> QED BY <2>1, <2>2, Numbers
<1> HIDE DEF diff
<1>3. changed \subseteq 0 .. TotalBlocks /\ (changed = {} => diff = {})
  BY <1>2
<1>4. CASE changed = {}
  <2>1. diff = {} /\ ChangedWrites(old, new) = <<>>
    BY <1>1, <1>3, <1>4
  <2> QED BY <2>1 DEF diff
<1>5. CASE changed # {}
  <2>0. \A b \in diff : (b \div BitsPerByte) \in changed
    OBVIOUS
  <2> HIDE DEF changed
  <2>1. changed \subseteq Nat
    BY <1>3
  <2>2. low \in changed /\ \A j \in changed : low <= j
    BY <1>5, <2>1, Least
  <2>3. last \in changed /\ \A j \in changed : j <= last
    BY <1>3, <1>5, Numbers, Greatest
  <2> HIDE DEF low, last
  <2>4. low \in Nat /\ last \in Nat /\ last + 1 \in Nat
    BY <2>1, <2>2, <2>3
  <2>5. ChangedWrites(old, new) = FlushBitmap(low, last + 1)
    BY <1>1, <1>5
  <2>6. \A b \in diff : low <= (b \div BitsPerByte) /\ (b \div BitsPerByte) < last + 1
    <3> TAKE b \in diff
    <3>1. (b \div BitsPerByte) \in Nat /\ low <= (b \div BitsPerByte) /\ (b \div BitsPerByte) <= last
      BY <2>0, <2>1, <2>2, <2>3
    <3> QED BY <3>1, <2>4
  <2>7. /\ FlushBitmap(low, last + 1) \in Seq({"bitmap"} \X BitmapSectors)
        /\ \A b \in Block : low <= (b \div BitsPerByte) /\ (b \div BitsPerByte) < last + 1 =>
              Due(<<"bitmap", Sector(b)>>, FlushBitmap(low, last + 1))
    BY <2>4, FlushBitmapAll
  <2>8. \A b \in diff : Due(<<"bitmap", Sector(b)>>, FlushBitmap(low, last + 1))
    BY <1>0, <2>6, <2>7 DEF diff
  <2> QED BY <2>5, <2>7, <2>8 DEF diff
<1> QED BY <1>4, <1>5

\* The sectors a removal puts down hold every block of the file.
ReleaseWrites(first, len) ==
  IF len = 0 THEN <<>>
  ELSE FlushBitmap(first \div BitsPerByte, (first + len) \div BitsPerByte + 1)

\* They cover the blocks of the file.
LEMMA ReleaseAll ==
  ASSUME NEW first \in Nat, NEW len \in Nat
  PROVE  /\ ReleaseWrites(first, len) \in Seq({"bitmap"} \X BitmapSectors)
         /\ \A b \in Block : b \in Run(first, len) =>
              Due(<<"bitmap", Sector(b)>>, ReleaseWrites(first, len))
<1> DEFINE low == first \div BitsPerByte
           high == (first + len) \div BitsPerByte
<1>1. low \in Nat /\ high \in Nat
  BY Numbers, Quotient
<1>2. \A b \in Run(first, len) : low <= (b \div BitsPerByte) /\ (b \div BitsPerByte) < high + 1
  <2> TAKE b \in Run(first, len)
  <2>1. b \in Nat /\ first <= b /\ b <= first + len /\ first + len \in Nat
    BY DEF Run
  <2>2. low <= (b \div BitsPerByte) /\ (b \div BitsPerByte) <= high /\ (b \div BitsPerByte) \in Nat
    BY <2>1, Numbers, Quotient
  <2> HIDE DEF low, high
  <2> QED BY <2>2, <1>1
<1> HIDE DEF low, high
<1>3. /\ FlushBitmap(low, high + 1) \in Seq({"bitmap"} \X BitmapSectors)
      /\ \A b \in Block : low <= (b \div BitsPerByte) /\ (b \div BitsPerByte) < high + 1 =>
              Due(<<"bitmap", Sector(b)>>, FlushBitmap(low, high + 1))
  <2>1. high + 1 \in Nat
    BY <1>1
  <2> QED BY <1>1, <2>1, FlushBitmapAll
<1>4. CASE len = 0
  BY <1>4 DEF ReleaseWrites, Run
<1>5. CASE len # 0
  <2>1. ReleaseWrites(first, len) = FlushBitmap(low, high + 1)
    BY <1>5 DEF ReleaseWrites, low, high
  <2> QED BY <2>1, <1>2, <1>3
<1> QED BY <1>4, <1>5

-----------------------------------------------------------------------------
(* Directories and runs.                                                   *)

\* A slot of a directory holds a file, or nothing.
GoodEntry(e) == IF Used(e) THEN e.seq < MaxSeq ELSE e = Free

\* A free slot is an entry without blocks.
LEMMA FreeEntry == Free \in Entry /\ ~Used(Free) /\ GoodEntry(Free) /\ Blocks(Free) = {}
BY Numbers DEF Free, Entry, Used, GoodEntry, Blocks, Run

\* The number a mount goes on with is above those of all files.
LEMMA SeqAfterAll ==
  ASSUME NEW d \in [Slot -> Entry], \A s \in Slot : GoodEntry(d[s])
  PROVE  /\ SeqAfter(d) \in 0 .. MaxSeq
         /\ \A s \in Slot : Used(d[s]) => d[s].seq < SeqAfter(d)
<1> DEFINE top == CHOOSE n \in Seqs(d) : \A m \in Seqs(d) : m <= n
<1>0. \A s \in Slot : d[s].seq \in 0 .. MaxSeq
  BY DEF Entry
<1>1. \A s \in Slot : Used(d[s]) => d[s].seq \in Nat /\ d[s].seq < MaxSeq /\ d[s].seq \in Seqs(d)
  BY <1>0 DEF GoodEntry, Seqs
<1>2. \A n \in Seqs(d) : n \in Nat /\ n < MaxSeq
  BY <1>1 DEF Seqs
<1>3. SeqAfter(d) = IF Seqs(d) = {} THEN 0 ELSE 1 + top
  BY DEF SeqAfter
<1>4. CASE Seqs(d) = {}
  BY <1>1, <1>3, <1>4, Numbers
<1>5. CASE Seqs(d) # {}
  <2>1. Seqs(d) \subseteq 0 .. MaxSeq
    BY <1>2, Numbers
  <2>2. top \in Seqs(d) /\ \A m \in Seqs(d) : m <= top
    BY <1>5, <2>1, Numbers, Greatest
  <2> HIDE DEF top
  <2>3. SeqAfter(d) = 1 + top /\ top \in Nat /\ top < MaxSeq
    BY <1>2, <1>3, <1>5, <2>2
  <2> QED BY <1>1, <2>2, <2>3, Numbers
<1> QED BY <1>4, <1>5

\* A run that was found lies in the volume, on free blocks.
LEMMA FindRunAll ==
  ASSUME NEW used, NEW len \in Nat, NEW first \in FindRun(used, len)
  PROVE  first \in 0 .. TotalBlocks /\ Run(first, len) \subseteq Block /\ Run(first, len) \cap used = {}
<1>1. Fits(used, first, len) /\ first \in DataStart .. TotalBlocks
  BY DEF FindRun
<1> QED BY <1>1, Numbers DEF Fits, Run, Block

-----------------------------------------------------------------------------
(* The inductive invariant: the operation under way, the writes it has     *)
(* still to do, and how far the disk is behind the working copy.           *)

Mounted == pc \notin {"off", "format"}
Writing == pc \in {"data", "bitmap", "entry"}
Removing == pc \in {"unlink", "release"}
OpBlocks == Run(op.first, op.len)

DataOK == data \in [Block -> {<<>>} \cup (Paths \X Versions \X (0 .. MaxLen))]

\* What the operation is about, and what it has done to the directory.
Operation ==
  /\ ~Writing /\ ~Removing => op = NoOp
  /\ Writing \/ Removing =>
       /\ op.path \in Paths /\ op.slot \in Slot
       /\ op.first \in 0 .. TotalBlocks /\ op.len \in 0 .. MaxLen
       /\ stored[op.path] = Unknown
  /\ Writing => op.version \in Versions /\ OpBlocks \subseteq Block
  /\ pc \in {"data", "bitmap"} =>
       IF op.create
       THEN /\ dir[op.slot] = Free /\ op.old = {} /\ nextSeq < MaxSeq
            /\ \A s \in Slot : dir[s].path # op.path
       ELSE dir[op.slot].path = op.path /\ op.old = Blocks(dir[op.slot])
  /\ pc = "entry" =>
       /\ dir[op.slot].path = op.path
       /\ dir[op.slot].first = op.first /\ dir[op.slot].len = op.len
  /\ Removing => dir[op.slot] = Free /\ op.old = {}

\* Its writes to come.  A format ends with the superblock.
Schedule ==
  /\ todo \in Seq(Job)
  /\ pc \in {"off", "idle"} => todo = <<>>
  /\ pc = "format" =>
       /\ \A i \in 1 .. Len(todo) : todo[i][1] # "data" /\ (todo[i][1] = "super" <=> i = Len(todo))
       /\ todo = <<>> => super
       /\ super => todo = <<>> \/ "read error" \in Faults
  /\ pc = "data" => \A i \in 1 .. Len(todo) : todo[i][1] = "data" /\ todo[i][2] \in OpBlocks
  /\ pc \in {"bitmap", "release"} => \A i \in 1 .. Len(todo) : todo[i][1] = "bitmap"
  /\ pc \in {"entry", "unlink"} =>
       \/ todo = FlushDirEntry(op.slot)
       \/ todo = <<>> /\ ddir[op.slot] = dir[op.slot]

\* The slots of both directories.  Only a recognised disk is mounted.
Directories ==
  /\ \A s \in Slot : GoodEntry(dir[s])
  /\ super => \A s \in Slot : GoodEntry(ddir[s])
  /\ Mounted => super
  /\ ~Mounted => bitmap = {} /\ nextSeq = 0 /\ \A s \in Slot : dir[s] = Free
  /\ faults = 0 => ~cut

\* Unless a write has failed, the disk is behind the working copy only in the
\* sectors still to be written.
Behind ==
  pc = "format" \/ (pc # "off" /\ (faults = 0 \/ "write error" \notin Faults)) =>
    /\ \A b \in Block : (b \in dbitmap <=> b \in bitmap) \/ Due(<<"bitmap", Sector(b)>>, todo)
    /\ \A s \in Slot : ddir[s] = dir[s] \/ Due(<<"dir", s \div EntriesPerSector>>, todo)

Basic == TypeOK /\ DataOK /\ Operation /\ Schedule /\ Directories /\ Behind

-----------------------------------------------------------------------------
(* One device write.                                                       *)

\* What it leaves of each bit, each slot and each block.
LEMMA PutAll ==
  ASSUME TypeOK, NEW w \in Job, Put(w)
  PROVE  /\ super' = (super \/ w[1] = "super")
         /\ \A b \in Block : w[1] = "bitmap" /\ w[2] = Sector(b) => (b \in dbitmap' <=> b \in bitmap)
         /\ \A b \in Block : ~(w[1] = "bitmap" /\ w[2] = Sector(b)) => (b \in dbitmap' <=> b \in dbitmap)
         /\ dbitmap' \subseteq Block
         /\ \A s \in Slot : ddir'[s] = IF w[1] = "dir" /\ w[2] = s \div EntriesPerSector
                                       THEN dir[s] ELSE ddir[s]
         /\ ddir' \in [Slot -> Entry]
         /\ data' = IF w[1] = "data" THEN [data EXCEPT ![w[2]] = Contents(w[2])] ELSE data
<1>1. \A x, b : b \in SectorBlocks(x) <=> b \in Block /\ Sector(b) = x
  BY DEF SectorBlocks, Sector
<1>2. dbitmap' = IF w[1] = "bitmap"
                 THEN (dbitmap \ SectorBlocks(w[2])) \cup (bitmap \cap SectorBlocks(w[2]))
                 ELSE dbitmap
  BY DEF Put
<1>3. dbitmap \subseteq Block /\ bitmap \subseteq Block /\ ddir \in [Slot -> Entry] /\ dir \in [Slot -> Entry]
  BY DEF TypeOK
<1>4. /\ \A b \in Block : w[1] = "bitmap" /\ w[2] = Sector(b) => (b \in dbitmap' <=> b \in bitmap)
      /\ \A b \in Block : ~(w[1] = "bitmap" /\ w[2] = Sector(b)) => (b \in dbitmap' <=> b \in dbitmap)
      /\ dbitmap' \subseteq Block
  BY <1>1, <1>2, <1>3
<1>5. ddir' = IF w[1] = "dir"
              THEN [t \in Slot |-> IF t \div EntriesPerSector = w[2] THEN dir[t] ELSE ddir[t]]
              ELSE ddir
  BY DEF Put, DirSector
<1>6. /\ \A s \in Slot : ddir'[s] = IF w[1] = "dir" /\ w[2] = s \div EntriesPerSector
                                    THEN dir[s] ELSE ddir[s]
      /\ ddir' \in [Slot -> Entry]
  BY <1>3, <1>5
<1> QED BY <1>4, <1>6 DEF Put

\* What is due next, by the kind of operation.
LEMMA NextWrite ==
  ASSUME Schedule, todo # <<>>
  PROVE  /\ Head(todo) \in Job /\ Tail(todo) \in Seq(Job)
         /\ Len(todo) \in Nat /\ Len(todo) > 0 /\ Len(Tail(todo)) = Len(todo) - 1
         /\ Head(todo) = todo[1]
         /\ \A i \in 1 .. Len(Tail(todo)) : Tail(todo)[i] = todo[i + 1]
         /\ pc \notin {"off", "idle"}
         /\ pc = "data" => Head(todo)[1] = "data" /\ Head(todo)[2] \in OpBlocks
         /\ pc \in {"bitmap", "release"} => Head(todo)[1] = "bitmap"
         /\ pc = "format" => Head(todo)[1] # "data" /\ (Head(todo)[1] = "super" <=> Len(todo) = 1)
         /\ pc \in {"entry", "unlink"} =>
              Head(todo) = <<"dir", op.slot \div EntriesPerSector>> /\ Tail(todo) = <<>>
<1>1. todo \in Seq(Job) /\ pc \notin {"off", "idle"}
  BY DEF Schedule
<1>2. /\ Head(todo) \in Job /\ Tail(todo) \in Seq(Job)
      /\ Len(todo) \in Nat /\ Len(todo) > 0 /\ Len(Tail(todo)) = Len(todo) - 1
      /\ Head(todo) = todo[1]
      /\ \A i \in 1 .. Len(Tail(todo)) : Tail(todo)[i] = todo[i + 1]
  BY <1>1, HeadAndTail
<1>3. ASSUME pc \in {"entry", "unlink"}
      PROVE  Head(todo) = <<"dir", op.slot \div EntriesPerSector>> /\ Tail(todo) = <<>>
  <2> DEFINE e == <<"dir", op.slot \div EntriesPerSector>>
  <2>1. todo = <<e>>
    BY <1>3 DEF Schedule, FlushDirEntry
  <2> HIDE DEF e
  <2>2. Head(<<e>>) = e /\ Tail(<<e>>) = <<>>
    OBVIOUS
  <2> QED BY <2>1, <2>2 DEF e
<1>0. 1 \in 1 .. Len(todo)
  BY <1>2
<1>4. ASSUME pc = "data" PROVE Head(todo)[1] = "data" /\ Head(todo)[2] \in OpBlocks
  <2>1. \A i \in 1 .. Len(todo) : todo[i][1] = "data" /\ todo[i][2] \in OpBlocks
    BY <1>4 DEF Schedule
  <2> QED BY <1>0, <1>2, <2>1
<1>5. ASSUME pc \in {"bitmap", "release"} PROVE Head(todo)[1] = "bitmap"
  <2>1. \A i \in 1 .. Len(todo) : todo[i][1] = "bitmap"
    BY <1>5 DEF Schedule
  <2> QED BY <1>0, <1>2, <2>1
<1>6. ASSUME pc = "format"
      PROVE  Head(todo)[1] # "data" /\ (Head(todo)[1] = "super" <=> Len(todo) = 1)
  <2>1. \A i \in 1 .. Len(todo) : todo[i][1] # "data" /\ (todo[i][1] = "super" <=> i = Len(todo))
    BY <1>6 DEF Schedule
  <2> QED BY <1>0, <1>2, <2>1
<1> QED BY <1>1, <1>2, <1>3, <1>4, <1>5, <1>6

\* What a write of a data block leaves there.
LEMMA ContentsType ==
  ASSUME Basic, pc = "data", NEW b \in OpBlocks
  PROVE  Contents(b) \in Paths \X Versions \X (0 .. MaxLen)
<1>1. op.path \in Paths /\ op.version \in Versions /\ op.first \in Nat /\ op.len \in 0 .. MaxLen
  BY Numbers DEF Basic, Operation, Writing
<1>2. b - op.first \in 0 .. MaxLen
  BY <1>1, Numbers DEF OpBlocks, Run
<1> QED BY <1>1, <1>2 DEF Contents

\* What of Basic one device write keeps, whether or not the operation goes on.
LEMMA PutBasic ==
  ASSUME Basic, todo # <<>>, Put(Head(todo))
  PROVE  /\ super' \in BOOLEAN /\ dbitmap' \subseteq Block /\ ddir' \in [Slot -> Entry]
         /\ DataOK'
         /\ super' => \A s \in Slot : GoodEntry(ddir'[s])
         /\ super => super'
         /\ pc = "format" /\ Tail(todo) = <<>> => super'
         /\ super' => super \/ Tail(todo) = <<>>
         /\ pc \in {"entry", "unlink"} => ddir'[op.slot] = dir[op.slot]
         /\ pc = "format" \/ (pc # "off" /\ (faults = 0 \/ "write error" \notin Faults)) =>
              /\ \A b \in Block : (b \in dbitmap' <=> b \in bitmap) \/ Due(<<"bitmap", Sector(b)>>, Tail(todo))
              /\ \A s \in Slot : ddir'[s] = dir[s] \/ Due(<<"dir", s \div EntriesPerSector>>, Tail(todo))
<1> DEFINE w == Head(todo)
           rest == Tail(todo)
<1>0. Schedule /\ TypeOK /\ DataOK /\ Operation /\ Directories /\ Behind
  BY DEF Basic
<1>1. w \in Job /\ todo \in Seq(Job) /\ rest \in Seq(Job)
  BY <1>0, NextWrite DEF Schedule
<1>2. /\ super' = (super \/ w[1] = "super")
      /\ \A b \in Block : w[1] = "bitmap" /\ w[2] = Sector(b) => (b \in dbitmap' <=> b \in bitmap)
      /\ \A b \in Block : ~(w[1] = "bitmap" /\ w[2] = Sector(b)) => (b \in dbitmap' <=> b \in dbitmap)
      /\ dbitmap' \subseteq Block
      /\ \A s \in Slot : ddir'[s] = IF w[1] = "dir" /\ w[2] = s \div EntriesPerSector
                                    THEN dir[s] ELSE ddir[s]
      /\ ddir' \in [Slot -> Entry]
      /\ data' = IF w[1] = "data" THEN [data EXCEPT ![w[2]] = Contents(w[2])] ELSE data
  BY <1>0, <1>1, PutAll
<1>3. super' \in BOOLEAN /\ (super => super')
  BY <1>0, <1>2 DEF TypeOK
<1>4. DataOK'
  <2>1. CASE w[1] = "data"
    <3>1. pc = "data"
      BY <1>0, <2>1, NextWrite DEF TypeOK
    <3>2. w[2] \in OpBlocks /\ w[2] \in Block
      BY <1>0, <1>1, <2>1, <3>1, NextWrite, JobKinds
    <3>3. Contents(w[2]) \in Paths \X Versions \X (0 .. MaxLen)
      BY <3>1, <3>2, ContentsType
    <3> HIDE DEF w
    <3> QED BY <1>0, <1>2, <2>1, <3>2, <3>3 DEF DataOK
  <2>2. CASE w[1] # "data"
    BY <1>0, <1>2, <2>2 DEF DataOK
  <2> QED BY <2>1, <2>2
<1>5. pc = "format" \/ (pc # "off" /\ (faults = 0 \/ "write error" \notin Faults)) =>
        /\ \A b \in Block : (b \in dbitmap' <=> b \in bitmap) \/ Due(<<"bitmap", Sector(b)>>, rest)
        /\ \A s \in Slot : ddir'[s] = dir[s] \/ Due(<<"dir", s \div EntriesPerSector>>, rest)
  <2> SUFFICES ASSUME pc = "format" \/ (pc # "off" /\ (faults = 0 \/ "write error" \notin Faults))
               PROVE  /\ \A b \in Block : (b \in dbitmap' <=> b \in bitmap) \/ Due(<<"bitmap", Sector(b)>>, rest)
                      /\ \A s \in Slot : ddir'[s] = dir[s] \/ Due(<<"dir", s \div EntriesPerSector>>, rest)
    OBVIOUS
  <2>1. /\ \A b \in Block : (b \in dbitmap <=> b \in bitmap) \/ Due(<<"bitmap", Sector(b)>>, todo)
        /\ \A s \in Slot : ddir[s] = dir[s] \/ Due(<<"dir", s \div EntriesPerSector>>, todo)
    BY <1>0 DEF Behind
  <2>2. \A x : Due(x, todo) => x = w \/ Due(x, rest)
    BY <1>1, DueNext
  <2> HIDE DEF w, rest
  <2>3. ASSUME NEW b \in Block PROVE (b \in dbitmap' <=> b \in bitmap) \/ Due(<<"bitmap", Sector(b)>>, rest)
    <3>1. CASE w = <<"bitmap", Sector(b)>>
      BY <3>1, <1>2
    <3>2. CASE w # <<"bitmap", Sector(b)>>
      <4>1. (b \in dbitmap <=> b \in bitmap) \/ Due(<<"bitmap", Sector(b)>>, rest)
        BY <2>1, <2>2, <3>2
      <4> QED BY <4>1, <1>2
    <3> QED BY <3>1, <3>2
  <2>4. ASSUME NEW s \in Slot PROVE ddir'[s] = dir[s] \/ Due(<<"dir", s \div EntriesPerSector>>, rest)
    <3>1. CASE w = <<"dir", s \div EntriesPerSector>>
      BY <3>1, <1>2
    <3>2. CASE w # <<"dir", s \div EntriesPerSector>>
      <4>1. ddir[s] = dir[s] \/ Due(<<"dir", s \div EntriesPerSector>>, rest)
        BY <2>1, <2>2, <3>2
      <4> QED BY <4>1, <1>2
    <3> QED BY <3>1, <3>2
  <2> QED BY <2>3, <2>4
<1>6. pc = "format" /\ rest = <<>> => super'
  <2>1. ASSUME pc = "format", rest = <<>> PROVE w[1] = "super"
    <3>1. Len(todo) = 1
      BY <1>0, <2>1, NextWrite
    <3> QED BY <3>1, <1>0, <2>1, NextWrite
  <2> QED BY <2>1, <1>2
<1>9. super' => super \/ rest = <<>>
  <2>1. ASSUME w[1] = "super" PROVE rest = <<>>
    <3>0. pc = "format"
      BY <1>0, <2>1, NextWrite DEF TypeOK
    <3>1. Len(todo) = 1
      BY <1>0, <2>1, <3>0, NextWrite
    <3>2. Len(rest) = 0
      BY <1>0, <3>1, NextWrite
    <3> QED BY <3>2, <1>1, EmptySeq
  <2> QED BY <2>1, <1>2
<1>7. pc \in {"entry", "unlink"} => ddir'[op.slot] = dir[op.slot]
  <2> SUFFICES ASSUME pc \in {"entry", "unlink"} PROVE ddir'[op.slot] = dir[op.slot]
    OBVIOUS
  <2>1. w = <<"dir", op.slot \div EntriesPerSector>> /\ op.slot \in Slot
    BY <1>0, NextWrite DEF Operation, Writing, Removing
  <2> HIDE DEF w
  <2> QED BY <2>1, <1>2
<1>8. super' => \A s \in Slot : GoodEntry(ddir'[s])
  <2>1. CASE w[1] = "super"
    <3>0. pc = "format"
      BY <1>0, <2>1, NextWrite DEF TypeOK
    <3>1. Len(todo) = 1
      BY <1>0, <2>1, <3>0, NextWrite
    <3>2. \A x : ~Due(x, rest)
      <4>1. Len(rest) = 0
        BY <1>0, <3>1, NextWrite
      <4> HIDE DEF rest
      <4> QED BY <4>1 DEF Due
    <3>3. \A s \in Slot : ddir'[s] = dir[s]
      BY <1>5, <3>0, <3>2
    <3> QED BY <3>3, <1>0 DEF Directories
  <2>2. CASE w[1] # "super"
    <3>1. super' => super
      BY <1>2, <2>2
    <3> QED BY <3>1, <1>0, <1>2 DEF Directories
  <2> QED BY <2>1, <2>2
<1> QED BY <1>2, <1>3, <1>4, <1>5, <1>6, <1>7, <1>8, <1>9

-----------------------------------------------------------------------------
(* Every step keeps it.                                                    *)

\* A machine that has not mounted its disk.
LEMMA BasicInit == Init => Basic
<1> SUFFICES ASSUME Init PROVE Basic
  OBVIOUS
<1>1. dir \in [Slot -> Entry] /\ \A s \in Slot : dir[s] = Free
  BY FreeEntry DEF Init
<1>2. TypeOK
  <2>1. ddir \in [Slot -> Entry]
    BY JunkAssumption DEF Init
  <2>2. nextSeq \in 0 .. MaxSeq /\ faults \in 0 .. MaxFaults
    BY Numbers DEF Init
  <2>3. stored \in [Paths -> {NoFile, Unknown} \cup {File(n, v) : n \in 0 .. MaxLen, v \in Versions}]
    BY DEF Init
  <2>4. \A b \in Block : data[b] = <<>>
    BY DEF Init
  <2>5. /\ super \in BOOLEAN /\ dbitmap \subseteq Block /\ bitmap \subseteq Block /\ pc = "off"
        /\ cut \in BOOLEAN /\ created \subseteq Paths \X Paths
    BY DEF Init
  <2> QED BY <1>1, <2>1, <2>2, <2>3, <2>4, <2>5 DEF TypeOK
<1>3. DataOK
  BY DEF Init, DataOK
<1>4. Operation /\ Schedule /\ Directories /\ Behind
  BY <1>1, FreeEntry DEF Init, Operation, Schedule, Directories, Behind, Mounted, Writing, Removing
<1> QED BY <1>2, <1>3, <1>4 DEF Basic

\* The working copy is read from a disk that is recognised.
LEMMA BasicMount == Basic /\ Mount => Basic'
<1> SUFFICES ASSUME Basic, Mount PROVE Basic'
  OBVIOUS
<1> USE DEF Mount, diskVars, histVars
<1>0. TypeOK /\ DataOK /\ Operation /\ Schedule /\ Directories /\ Behind
  BY DEF Basic
<1>1. /\ SeqAfter(ddir) \in 0 .. MaxSeq
      /\ \A s \in Slot : Used(ddir[s]) => ddir[s].seq < SeqAfter(ddir)
  BY <1>0, SeqAfterAll DEF TypeOK, Directories
<1>2. TypeOK'
  BY <1>0, <1>1 DEF TypeOK
<1>3. DataOK'
  BY <1>0 DEF DataOK
<1>4. Operation'
  BY <1>0 DEF Operation, Writing, Removing
<1>5. Schedule'
  BY <1>0 DEF Schedule
<1>6. Directories'
  BY <1>0 DEF Directories, Mounted
<1>7. Behind'
  BY <1>0 DEF Behind
<1> QED BY <1>2, <1>3, <1>4, <1>5, <1>6, <1>7 DEF Basic

\* Everything is due.
LEMMA BasicFormat == Basic /\ Format => Basic'
<1> SUFFICES ASSUME Basic, Format PROVE Basic'
  OBVIOUS
<1>0. TypeOK /\ DataOK /\ Operation /\ Schedule /\ Directories /\ Behind
  BY DEF Basic
<1>1. /\ pc = "off" /\ pc' = "format"
      /\ bitmap' = {} /\ dir' = [s \in Slot |-> Free] /\ nextSeq' = 0
      /\ todo' = FormatWrites
      /\ UNCHANGED <<super, dbitmap, ddir, data, op, stored, created, cut, faults>>
  BY DEF Format, FormatWrites, diskVars, histVars
<1>2. dir' \in [Slot -> Entry] /\ \A s \in Slot : dir'[s] = Free
  BY <1>1, FreeEntry
<1>3. TypeOK'
  <2>1. nextSeq' \in 0 .. MaxSeq /\ bitmap' \subseteq Block
    BY <1>1, Numbers
  <2> QED BY <1>0, <1>1, <1>2, <2>1 DEF TypeOK
<1>4. DataOK'
  BY <1>0, <1>1 DEF DataOK
<1>5. Operation'
  BY <1>0, <1>1 DEF Operation, Writing, Removing
<1>6. Schedule'
  <2>1. super => "read error" \in Faults
    BY DEF Format
  <2>2. super' => "read error" \in Faults
    BY <1>1, <2>1
  <2> QED BY <1>1, <2>2, FormatAll DEF Schedule
<1>7. Directories'
  BY <1>0, <1>1, <1>2, FreeEntry DEF Directories, Mounted
<1>8. Behind'
  BY <1>1, FormatAll DEF Behind
<1> QED BY <1>3, <1>4, <1>5, <1>6, <1>7, <1>8 DEF Basic

\* Nothing is due, so the superblock is on disk.
LEMMA BasicFormatDone == Basic /\ FormatDone => Basic'
<1> SUFFICES ASSUME Basic, FormatDone PROVE Basic'
  OBVIOUS
<1> USE DEF FormatDone, diskVars, memVars, histVars
<1>0. TypeOK /\ DataOK /\ Operation /\ Schedule /\ Directories /\ Behind
  BY DEF Basic
<1>2. TypeOK'
  BY <1>0 DEF TypeOK
<1>3. DataOK'
  BY <1>0 DEF DataOK
<1>4. Operation'
  BY <1>0 DEF Operation, Writing, Removing
<1>5. Schedule'
  BY <1>0 DEF Schedule
<1>6. Directories'
  BY <1>0 DEF Directories, Mounted, Schedule
<1>7. Behind'
  BY <1>0 DEF Behind
<1> QED BY <1>2, <1>3, <1>4, <1>5, <1>6, <1>7 DEF Basic

\* What write_file plans: a slot of its own, a free run, the old run if any.
LEMMA WriteFileStep ==
  ASSUME Basic, NEW p \in Paths, NEW n \in 0 .. MaxLen, NEW v \in Versions, WriteFile(p, n, v)
  PROVE  /\ pc = "idle" /\ pc' = "data"
         /\ op'.path = p /\ op'.slot \in Slot /\ op'.len = n /\ op'.version = v
         /\ op'.first \in 0 .. TotalBlocks
         /\ OpBlocks' \subseteq Block /\ OpBlocks' \cap (bitmap \ op'.old) = {}
         /\ IF op'.create
            THEN /\ dir[op'.slot] = Free /\ op'.old = {} /\ nextSeq < MaxSeq
                 /\ \A s \in Slot : dir[s].path # p
            ELSE dir[op'.slot].path = p /\ op'.old = Blocks(dir[op'.slot])
         /\ todo' = Writes("data", OpBlocks')
         /\ stored' = [stored EXCEPT ![p] = Unknown]
         /\ UNCHANGED <<super, dbitmap, ddir, data, bitmap, dir, nextSeq, created, cut, faults>>
<1> USE DEF diskVars, memVars
<1>0. TypeOK /\ DataOK /\ Operation /\ Schedule /\ Directories /\ Behind
  BY DEF Basic
<1> DEFINE over == Find(p)
           old == UNION {Blocks(dir[s]) : s \in over}
<1>1. PICK slot \in IF over # {} THEN over ELSE FreeSlot, first \in IF n = 0 THEN {0} ELSE FindRun(Plan(old), n) :
        /\ op' = [path |-> p, slot |-> slot, first |-> first, len |-> n,
                  version |-> v, old |-> old, create |-> over = {}]
        /\ todo' = Writes("data", Run(first, n))
  BY DEF WriteFile
<1>2. /\ pc = "idle" /\ pc' = "data" /\ (over = {} => nextSeq < MaxSeq)
      /\ stored' = [stored EXCEPT ![p] = Unknown]
      /\ UNCHANGED <<super, dbitmap, ddir, data, bitmap, dir, nextSeq, created, cut, faults>>
  BY DEF WriteFile
<1>3. /\ over # {} => slot \in Slot /\ dir[slot].path = p /\ old = Blocks(dir[slot])
      /\ over = {} => slot \in Slot /\ dir[slot] = Free /\ old = {} /\ \A s \in Slot : dir[s].path # p
  <2>1. CASE over # {}
    <3>1. slot \in over
      BY <2>1
    <3>2. slot \in Slot /\ dir[slot].path = p
      BY <3>1 DEF Find
    <3>3. \A s \in over : s = slot
      <4>1. \A s, t \in Slot : s < t \/ t < s \/ s = t
        BY Numbers
      <4> QED BY <3>1, <4>1 DEF Find
    <3>4. old = Blocks(dir[slot])
      <4>1. over = {slot}
        BY <3>1, <3>3
      <4> HIDE DEF over
      <4> QED BY <4>1
    <3> QED BY <2>1, <3>2, <3>4
  <2>2. CASE over = {}
    <3>1. slot \in FreeSlot
      BY <2>2
    <3>2. slot \in Slot /\ dir[slot] = Free
      BY <1>0, <3>1 DEF FreeSlot, Directories, GoodEntry
    <3>3. ASSUME NEW s \in Slot, dir[s].path = p PROVE FALSE
      <4> DEFINE T == {t \in Slot : dir[t].path = p}
      <4>1. T \subseteq Nat /\ T # {}
        BY <3>3, Numbers
      <4>2. PICK t \in T : \A u \in T : t <= u
        BY <4>1, Least
      <4>3. \A u \in Slot : u < t => dir[u].path # p
        BY <4>2, Numbers
      <4>4. t \in over
        BY <4>2, <4>3 DEF Find
      <4> QED BY <4>4, <2>2
    <3> QED BY <2>2, <3>2, <3>3
  <2> QED BY <2>1, <2>2
<1>4. first \in 0 .. TotalBlocks /\ Run(first, n) \subseteq Block /\ Run(first, n) \cap Plan(old) = {}
  <2>1. CASE n = 0
    BY <2>1, Numbers DEF Run
  <2>2. CASE n # 0
    <3>1. first \in FindRun(Plan(old), n) /\ n \in Nat
      BY <2>2, Numbers
    <3> HIDE DEF old
    <3> QED BY <3>1, FindRunAll
  <2> QED BY <2>1, <2>2
<1> HIDE DEF over, old
<1>5. /\ op'.path = p /\ op'.slot = slot /\ op'.first = first /\ op'.len = n /\ op'.version = v
      /\ op'.old = old /\ (op'.create <=> over = {})
  BY <1>1
<1>6. OpBlocks' = Run(first, n)
  BY <1>5 DEF OpBlocks
<1> QED BY <1>1, <1>2, <1>3, <1>4, <1>5, <1>6 DEF Plan

\* The plan touches nothing yet.
LEMMA BasicWriteFile ==
  ASSUME Basic, NEW p \in Paths, NEW n \in 0 .. MaxLen, NEW v \in Versions, WriteFile(p, n, v)
  PROVE  Basic'
<1>0. TypeOK /\ DataOK /\ Operation /\ Schedule /\ Directories /\ Behind
  BY DEF Basic
<1>1. /\ pc = "idle" /\ pc' = "data"
      /\ op'.path = p /\ op'.slot \in Slot /\ op'.len = n /\ op'.version = v
      /\ op'.first \in 0 .. TotalBlocks /\ OpBlocks' \subseteq Block
      /\ todo' = Writes("data", OpBlocks')
  BY WriteFileStep
<1>2. /\ stored' = [stored EXCEPT ![p] = Unknown]
      /\ UNCHANGED <<super, dbitmap, ddir, data, bitmap, dir, nextSeq, created, cut, faults>>
  BY WriteFileStep
<1>3. IF op'.create
      THEN /\ dir[op'.slot] = Free /\ op'.old = {} /\ nextSeq < MaxSeq
           /\ \A s \in Slot : dir[s].path # p
      ELSE dir[op'.slot].path = p /\ op'.old = Blocks(dir[op'.slot])
  BY WriteFileStep
<1>6. TypeOK'
  BY <1>0, <1>1, <1>2 DEF TypeOK
<1>7. DataOK'
  BY <1>0, <1>2 DEF DataOK
<1>8. Operation'
  <2>1. stored'[p] = Unknown
    BY <1>0, <1>2 DEF TypeOK
  <2>2. Writing' /\ ~Removing'
    BY <1>1 DEF Writing, Removing
  <2>3. IF op'.create
        THEN /\ dir'[op'.slot] = Free /\ op'.old = {} /\ nextSeq' < MaxSeq
             /\ \A s \in Slot : dir'[s].path # op'.path
        ELSE dir'[op'.slot].path = op'.path /\ op'.old = Blocks(dir'[op'.slot])
    BY <1>1, <1>2, <1>3
  <2> QED BY <1>1, <2>1, <2>2, <2>3 DEF Operation
<1>9. Schedule'
  <2>1. /\ Writes("data", OpBlocks') \in Seq(Job)
        /\ \A i \in 1 .. Len(Writes("data", OpBlocks')) :
              /\ Writes("data", OpBlocks')[i][1] = "data"
              /\ Writes("data", OpBlocks')[i][2] \in OpBlocks'
    BY <1>1, DataAll
  <2> QED BY <1>1, <2>1 DEF Schedule
<1>10. Directories'
  BY <1>0, <1>1, <1>2 DEF Directories, Mounted
<1>11. Behind'
  <2>1. \A x : ~Due(x, todo)
    BY <1>0, <1>1, DueEmpty DEF Schedule
  <2> QED BY <1>0, <1>1, <1>2, <2>1 DEF Behind
<1> QED BY <1>6, <1>7, <1>8, <1>9, <1>10, <1>11 DEF Basic

\* The sectors due are those of the blocks that changed.
LEMMA BasicPutBitmap == Basic /\ PutBitmap => Basic'
<1> SUFFICES ASSUME Basic, PutBitmap PROVE Basic'
  OBVIOUS
<1> DEFINE plan == (bitmap \ op.old) \cup OpBlocks
<1>0. TypeOK /\ DataOK /\ Operation /\ Schedule /\ Directories /\ Behind
  BY DEF Basic
<1>1. /\ pc = "data" /\ todo = <<>> /\ pc' = "bitmap"
      /\ bitmap' = plan /\ todo' = ChangedWrites(bitmap, plan)
      /\ UNCHANGED <<super, dbitmap, ddir, data, dir, nextSeq, op, stored, created, cut, faults>>
  BY DEF PutBitmap, Plan, ChangedWrites, OpBlocks, diskVars, histVars
<1>2. bitmap \subseteq Block /\ OpBlocks \subseteq Block
  BY <1>0, <1>1 DEF TypeOK, Operation, Writing
<1>3. plan \subseteq Block
  BY <1>2
<1> HIDE DEF plan
<1>4. /\ ChangedWrites(bitmap, plan) \in Seq({"bitmap"} \X BitmapSectors)
      /\ \A b \in (bitmap \ plan) \cup (plan \ bitmap) :
           Due(<<"bitmap", Sector(b)>>, ChangedWrites(bitmap, plan))
  BY <1>2, <1>3, ChangedAll
<1>5. TypeOK'
  BY <1>0, <1>1, <1>3 DEF TypeOK
<1>6. DataOK'
  BY <1>0, <1>1 DEF DataOK
<1>7. Operation'
  BY <1>0, <1>1 DEF Operation, Writing, Removing, OpBlocks
<1>8. Schedule'
  <2>1. ChangedWrites(bitmap, plan) \in Seq(Job)
    BY <1>4, SeqMonotonic DEF Job
  <2>2. \A i \in 1 .. Len(ChangedWrites(bitmap, plan)) : ChangedWrites(bitmap, plan)[i] \in {"bitmap"} \X BitmapSectors
    BY <1>4, ElementOfSeq
  <2>3. \A i \in 1 .. Len(ChangedWrites(bitmap, plan)) : ChangedWrites(bitmap, plan)[i][1] = "bitmap"
    BY <2>2
  <2> QED BY <1>1, <2>1, <2>3 DEF Schedule
<1>9. Directories'
  BY <1>0, <1>1 DEF Directories, Mounted
<1>10. Behind'
  <2>1. \A x : ~Due(x, todo)
    BY <1>1, DueEmpty
  <2> QED BY <1>0, <1>1, <1>4, <2>1 DEF Behind
<1> QED BY <1>5, <1>6, <1>7, <1>8, <1>9, <1>10 DEF Basic

\* flush_dir_entry of the operation's slot.
LEMMA FlushEntry ==
  ASSUME NEW slot \in Slot
  PROVE  /\ FlushDirEntry(slot) \in Seq(Job) /\ FlushDirEntry(slot) # <<>>
         /\ Due(<<"dir", slot \div EntriesPerSector>>, FlushDirEntry(slot))
<1> DEFINE e == <<"dir", slot \div EntriesPerSector>>
<1>1. e \in Job
  BY Sectors DEF Job
<1> HIDE DEF e
<1>2. <<e>> \in Seq(Job) /\ <<e>> # <<>> /\ Len(<<e>>) = 1 /\ <<e>>[1] = e
  BY <1>1
<1>3. Due(e, <<e>>)
  BY <1>2 DEF Due
<1> QED BY <1>2, <1>3 DEF FlushDirEntry, e

\* The entry gets a number below the next one, and its sector is due.
LEMMA BasicPutEntry == Basic /\ PutEntry => Basic'
<1> SUFFICES ASSUME Basic, PutEntry PROVE Basic'
  OBVIOUS
<1> DEFINE e == [path |-> op.path, first |-> op.first, len |-> op.len,
                 seq |-> IF op.create THEN nextSeq ELSE dir[op.slot].seq]
<1>0. TypeOK /\ DataOK /\ Operation /\ Schedule /\ Directories /\ Behind
  BY DEF Basic
<1>1. /\ pc = "bitmap" /\ todo = <<>> /\ pc' = "entry"
      /\ nextSeq' = (IF op.create THEN nextSeq + 1 ELSE nextSeq)
      /\ todo' = FlushDirEntry(op.slot)
      /\ UNCHANGED <<super, dbitmap, ddir, data, bitmap, op, stored, created, cut, faults>>
  BY DEF PutEntry, diskVars, histVars
<1>2. dir' = [dir EXCEPT ![op.slot] = e]
  BY DEF PutEntry
<1>3. /\ op.path \in Paths /\ op.slot \in Slot /\ op.first \in 0 .. TotalBlocks /\ op.len \in 0 .. MaxLen
      /\ op.create => nextSeq < MaxSeq
      /\ ~op.create => dir[op.slot].path = op.path
  BY <1>0, <1>1 DEF Operation, Writing
<1>4. dir \in [Slot -> Entry] /\ nextSeq \in 0 .. MaxSeq
  BY <1>0 DEF TypeOK
<1>5. e.seq \in 0 .. MaxSeq /\ e.seq < MaxSeq
  <2>1. CASE op.create
    BY <2>1, <1>3, <1>4
  <2>2. CASE ~op.create
    <3>1. Used(dir[op.slot])
      BY <2>2, <1>3, PathAssumption DEF Used
    <3>2. dir[op.slot].seq < MaxSeq /\ dir[op.slot] \in Entry
      BY <3>1, <1>0, <1>3, <1>4 DEF Directories, GoodEntry
    <3> QED BY <2>2, <3>2 DEF Entry
  <2> QED BY <2>1, <2>2
<1>6. e \in Entry /\ e.path = op.path /\ e.first = op.first /\ e.len = op.len
  BY <1>3, <1>5 DEF Entry
<1>7. GoodEntry(e)
  BY <1>3, <1>5, <1>6, PathAssumption DEF GoodEntry, Used
<1> HIDE DEF e
<1>8. dir' \in [Slot -> Entry] /\ dir'[op.slot] = e /\ \A s \in Slot : s # op.slot => dir'[s] = dir[s]
  BY <1>2, <1>3, <1>4, <1>6
<1>9. TypeOK'
  <2>1. nextSeq' \in 0 .. MaxSeq
    BY <1>1, <1>3, <1>4, Numbers
  <2> QED BY <1>0, <1>1, <1>8, <2>1 DEF TypeOK
<1>10. DataOK'
  BY <1>0, <1>1 DEF DataOK
<1>11. Operation'
  BY <1>0, <1>1, <1>6, <1>8 DEF Operation, Writing, Removing, OpBlocks
<1>12. Schedule'
  BY <1>1, <1>3, FlushEntry DEF Schedule
<1>13. Directories'
  BY <1>0, <1>1, <1>7, <1>8 DEF Directories, Mounted
<1>14. Behind'
  <2>1. \A x : ~Due(x, todo)
    BY <1>1, DueEmpty
  <2>2. Due(<<"dir", op.slot \div EntriesPerSector>>, todo')
    BY <1>1, <1>3, FlushEntry
  <2> QED BY <1>0, <1>1, <1>8, <2>1, <2>2 DEF Behind
<1> QED BY <1>9, <1>10, <1>11, <1>12, <1>13, <1>14 DEF Basic

\* The file is known again.
LEMMA BasicWriteDone == Basic /\ WriteDone => Basic'
<1> SUFFICES ASSUME Basic, WriteDone PROVE Basic'
  OBVIOUS
<1>0. TypeOK /\ DataOK /\ Operation /\ Schedule /\ Directories /\ Behind
  BY DEF Basic
<1>1. /\ pc = "entry" /\ todo = <<>> /\ pc' = "idle" /\ op' = NoOp
      /\ stored' = [stored EXCEPT ![op.path] = File(op.len, op.version)]
      /\ UNCHANGED <<super, dbitmap, ddir, data, bitmap, dir, nextSeq, todo, cut, faults>>
  BY DEF WriteDone, diskVars, memVars
<1>2. File(op.len, op.version) \in {File(n, v) : n \in 0 .. MaxLen, v \in Versions}
  BY <1>0, <1>1 DEF Operation, Writing
<1>3. TypeOK'
  <2> DEFINE S == {NoFile, Unknown} \cup {File(n, v) : n \in 0 .. MaxLen, v \in Versions}
  <2>1. stored \in [Paths -> S]
    BY <1>0 DEF TypeOK
  <2>2. File(op.len, op.version) \in S
    BY <1>2
  <2> HIDE DEF S
  <2>3. stored' \in [Paths -> S]
    BY <1>1, <2>1, <2>2
  <2>4. created' \subseteq Paths \X Paths
    <3>1. created \subseteq Paths \X Paths /\ op.path \in Paths
      BY <1>0, <1>1 DEF TypeOK, Operation, Writing
    <3>2. created' \subseteq created \cup {<<p, op.path>> : p \in {c[1] : c \in created} \cup {op.path}}
      BY DEF WriteDone
    <3>3. \A p \in {c[1] : c \in created} \cup {op.path} : p \in Paths
      BY <3>1
    <3> QED BY <3>1, <3>2, <3>3
  <2> QED BY <1>0, <1>1, <2>3, <2>4 DEF TypeOK, S
<1>4. DataOK'
  BY <1>0, <1>1 DEF DataOK
<1>5. Operation'
  BY <1>0, <1>1 DEF Operation, Writing, Removing
<1>6. Schedule'
  BY <1>0, <1>1 DEF Schedule
<1>7. Directories'
  BY <1>0, <1>1 DEF Directories, Mounted
<1>8. Behind'
  BY <1>0, <1>1 DEF Behind
<1> QED BY <1>3, <1>4, <1>5, <1>6, <1>7, <1>8 DEF Basic

\* What remove clears.
LEMMA RemoveStep ==
  ASSUME Basic, NEW p \in Paths, Remove(p)
  PROVE  /\ pc = "idle" /\ pc' = "unlink"
         /\ op'.path = p /\ op'.slot \in Slot /\ op'.old = {}
         /\ op'.first \in 0 .. TotalBlocks /\ op'.len \in 0 .. MaxLen
         /\ dir[op'.slot].path = p /\ OpBlocks' = Blocks(dir[op'.slot])
         /\ dir' \in [Slot -> Entry] /\ dir'[op'.slot] = Free
         /\ \A s \in Slot : s # op'.slot => dir'[s] = dir[s]
         /\ todo' = FlushDirEntry(op'.slot)
         /\ stored' = [stored EXCEPT ![p] = Unknown]
         /\ created' = {c \in created : p # c[1] /\ p # c[2]}
         /\ UNCHANGED <<super, dbitmap, ddir, data, bitmap, nextSeq, cut, faults>>
<1>0. dir \in [Slot -> Entry]
  BY DEF Basic, TypeOK
<1>1. PICK slot \in Find(p) :
        /\ op' = [NoOp EXCEPT !.path = p, !.slot = slot,
                              !.first = dir[slot].first, !.len = dir[slot].len]
        /\ dir' = [dir EXCEPT ![slot] = Free]
        /\ todo' = FlushDirEntry(slot)
  BY DEF Remove
<1>2. slot \in Slot /\ dir[slot].path = p
  BY DEF Find
<1>3. /\ op'.path = p /\ op'.slot = slot /\ op'.old = {}
      /\ op'.first = dir[slot].first /\ op'.len = dir[slot].len
      /\ op'.first \in 0 .. TotalBlocks /\ op'.len \in 0 .. MaxLen
  BY <1>0, <1>1, <1>2 DEF NoOp, Entry
<1>4. dir' \in [Slot -> Entry] /\ dir'[slot] = Free /\ \A s \in Slot : s # slot => dir'[s] = dir[s]
  BY <1>0, <1>1, <1>2, FreeEntry
<1>5. OpBlocks' = Blocks(dir[slot])
  BY <1>3 DEF OpBlocks, Blocks
<1>6. /\ pc = "idle" /\ pc' = "unlink"
      /\ stored' = [stored EXCEPT ![p] = Unknown]
      /\ UNCHANGED <<super, dbitmap, ddir, data, bitmap, nextSeq, cut, faults>>
  BY DEF Remove, diskVars
<1>7. created' = {c \in created : p # c[1] /\ p # c[2]}
  BY DEF Remove
<1> QED BY <1>1, <1>2, <1>3, <1>4, <1>5, <1>6, <1>7

\* The sector of the cleared entry is due.
LEMMA BasicRemove ==
  ASSUME Basic, NEW p \in Paths, Remove(p)
  PROVE  Basic'
<1>0. TypeOK /\ DataOK /\ Operation /\ Schedule /\ Directories /\ Behind
  BY DEF Basic
<1>1. /\ pc = "idle" /\ pc' = "unlink"
      /\ op'.path = p /\ op'.slot \in Slot /\ op'.old = {}
      /\ op'.first \in 0 .. TotalBlocks /\ op'.len \in 0 .. MaxLen
      /\ dir' \in [Slot -> Entry] /\ dir'[op'.slot] = Free
      /\ \A s \in Slot : s # op'.slot => dir'[s] = dir[s]
      /\ todo' = FlushDirEntry(op'.slot)
  BY RemoveStep
<1>2. /\ stored' = [stored EXCEPT ![p] = Unknown]
      /\ UNCHANGED <<super, dbitmap, ddir, data, bitmap, nextSeq, cut, faults>>
  BY RemoveStep
<1>3. TypeOK'
  <2>1. created' \subseteq created
    BY RemoveStep
  <2> QED BY <1>0, <1>1, <1>2, <2>1 DEF TypeOK
<1>4. DataOK'
  BY <1>0, <1>2 DEF DataOK
<1>5. Operation'
  <2>1. stored'[p] = Unknown
    BY <1>0, <1>2 DEF TypeOK
  <2> QED BY <1>1, <2>1 DEF Operation, Writing, Removing
<1>6. Schedule'
  BY <1>1, FlushEntry DEF Schedule
<1>7. Directories'
  BY <1>0, <1>1, <1>2, FreeEntry DEF Directories, Mounted
<1>8. Behind'
  <2>1. \A x : ~Due(x, todo)
    BY <1>0, <1>1, DueEmpty DEF Schedule
  <2>2. Due(<<"dir", op'.slot \div EntriesPerSector>>, todo')
    BY <1>1, FlushEntry
  <2> QED BY <1>0, <1>1, <1>2, <2>1, <2>2 DEF Behind
<1> QED BY <1>3, <1>4, <1>5, <1>6, <1>7, <1>8 DEF Basic

\* The sectors due are those of the blocks given back.
LEMMA BasicFreeBlocks == Basic /\ FreeBlocks => Basic'
<1> SUFFICES ASSUME Basic, FreeBlocks PROVE Basic'
  OBVIOUS
<1> DEFINE writes == ReleaseWrites(op.first, op.len)
<1>0. TypeOK /\ DataOK /\ Operation /\ Schedule /\ Directories /\ Behind
  BY DEF Basic
<1>1. /\ pc = "unlink" /\ todo = <<>> /\ pc' = "release"
      /\ bitmap' = bitmap \ OpBlocks /\ todo' = writes
      /\ UNCHANGED <<super, dbitmap, ddir, data, dir, nextSeq, op, stored, created, cut, faults>>
  BY DEF FreeBlocks, ReleaseWrites, OpBlocks, diskVars, histVars
<1>2. op.first \in Nat /\ op.len \in Nat
  BY <1>0, <1>1, Numbers DEF Operation, Removing
<1>3. /\ writes \in Seq({"bitmap"} \X BitmapSectors)
      /\ \A b \in Block : b \in OpBlocks => Due(<<"bitmap", Sector(b)>>, writes)
  BY <1>2, ReleaseAll DEF OpBlocks
<1> HIDE DEF writes
<1>4. TypeOK'
  BY <1>0, <1>1 DEF TypeOK
<1>5. DataOK'
  BY <1>0, <1>1 DEF DataOK
<1>6. Operation'
  BY <1>0, <1>1 DEF Operation, Writing, Removing, OpBlocks
<1>7. Schedule'
  <2>1. writes \in Seq(Job)
    BY <1>3, SeqMonotonic DEF Job
  <2>2. \A i \in 1 .. Len(writes) : writes[i] \in {"bitmap"} \X BitmapSectors
    BY <1>3, ElementOfSeq
  <2>3. \A i \in 1 .. Len(writes) : writes[i][1] = "bitmap"
    BY <2>2
  <2> QED BY <1>1, <2>1, <2>3 DEF Schedule
<1>8. Directories'
  BY <1>0, <1>1 DEF Directories, Mounted
<1>9. Behind'
  <2>1. \A x : ~Due(x, todo)
    BY <1>1, DueEmpty
  <2> QED BY <1>0, <1>1, <1>3, <2>1 DEF Behind
<1> QED BY <1>4, <1>5, <1>6, <1>7, <1>8, <1>9 DEF Basic

\* The path is known to have no file.
LEMMA BasicRemoveDone == Basic /\ RemoveDone => Basic'
<1> SUFFICES ASSUME Basic, RemoveDone PROVE Basic'
  OBVIOUS
<1>0. TypeOK /\ DataOK /\ Operation /\ Schedule /\ Directories /\ Behind
  BY DEF Basic
<1>1. /\ pc = "release" /\ todo = <<>> /\ pc' = "idle" /\ op' = NoOp
      /\ stored' = [stored EXCEPT ![op.path] = NoFile]
      /\ UNCHANGED <<super, dbitmap, ddir, data, bitmap, dir, nextSeq, todo, created, cut, faults>>
  BY DEF RemoveDone, diskVars, memVars
<1>2. TypeOK'
  <2> DEFINE S == {NoFile, Unknown} \cup {File(n, v) : n \in 0 .. MaxLen, v \in Versions}
  <2>1. stored \in [Paths -> S] /\ NoFile \in S
    BY <1>0 DEF TypeOK
  <2> HIDE DEF S
  <2>2. stored' \in [Paths -> S]
    BY <1>1, <2>1
  <2> QED BY <1>0, <1>1, <2>2 DEF TypeOK, S
<1>3. DataOK'
  BY <1>0, <1>1 DEF DataOK
<1>4. Operation'
  BY <1>0, <1>1 DEF Operation, Writing, Removing
<1>5. Schedule'
  BY <1>0, <1>1 DEF Schedule
<1>6. Directories'
  BY <1>0, <1>1 DEF Directories, Mounted
<1>7. Behind'
  BY <1>0, <1>1 DEF Behind
<1> QED BY <1>2, <1>3, <1>4, <1>5, <1>6, <1>7 DEF Basic

\* One sector less is due.
LEMMA BasicDeviceWrite == Basic /\ DeviceWrite => Basic'
<1> SUFFICES ASSUME Basic, DeviceWrite PROVE Basic'
  OBVIOUS
<1>0. TypeOK /\ DataOK /\ Operation /\ Schedule /\ Directories /\ Behind
  BY DEF Basic
<1>1. /\ todo # <<>> /\ Put(Head(todo)) /\ todo' = Tail(todo)
      /\ UNCHANGED <<bitmap, dir, nextSeq, pc, op, stored, created, cut, faults>>
  BY DEF DeviceWrite, memVars, histVars
<1>2. /\ super' \in BOOLEAN /\ dbitmap' \subseteq Block /\ ddir' \in [Slot -> Entry]
      /\ DataOK'
      /\ super' => \A s \in Slot : GoodEntry(ddir'[s])
      /\ super => super'
      /\ pc = "format" /\ Tail(todo) = <<>> => super'
      /\ pc \in {"entry", "unlink"} => ddir'[op.slot] = dir[op.slot]
  BY <1>1, PutBasic
<1>3. pc = "format" \/ (pc # "off" /\ (faults = 0 \/ "write error" \notin Faults)) =>
        /\ \A b \in Block : (b \in dbitmap' <=> b \in bitmap) \/ Due(<<"bitmap", Sector(b)>>, Tail(todo))
        /\ \A s \in Slot : ddir'[s] = dir[s] \/ Due(<<"dir", s \div EntriesPerSector>>, Tail(todo))
  BY <1>1, PutBasic
<1>4. TypeOK'
  <2>1. \A b \in Block : data'[b] = <<>> \/ data'[b] \in Paths \X Versions \X (0 .. MaxLen)
    BY <1>2 DEF DataOK
  <2> QED BY <1>0, <1>1, <1>2, <2>1 DEF TypeOK
<1>5. Operation'
  BY <1>0, <1>1 DEF Operation, Writing, Removing, OpBlocks
<1>6. Schedule'
  <2>1. /\ Tail(todo) \in Seq(Job) /\ Len(Tail(todo)) = Len(todo) - 1 /\ Len(todo) \in Nat
        /\ \A i \in 1 .. Len(Tail(todo)) : Tail(todo)[i] = todo[i + 1]
        /\ pc \notin {"off", "idle"}
        /\ pc \in {"entry", "unlink"} => Tail(todo) = <<>>
    BY <1>0, <1>1, NextWrite
  <2>2. \A i \in 1 .. Len(Tail(todo)) : i + 1 \in 1 .. Len(todo) /\ (i = Len(Tail(todo)) <=> i + 1 = Len(todo))
    BY <2>1
  <2> DEFINE rest == Tail(todo)
  <2> HIDE DEF rest
  <2>3. CASE pc = "format"
    <3>1. \A i \in 1 .. Len(todo) : todo[i][1] # "data" /\ (todo[i][1] = "super" <=> i = Len(todo))
      BY <1>0, <2>3 DEF Schedule
    <3>2. \A i \in 1 .. Len(rest) : rest[i][1] # "data" /\ (rest[i][1] = "super" <=> i = Len(rest))
      BY <2>1, <2>2, <3>1 DEF rest
    <3>3. super => todo = <<>> \/ "read error" \in Faults
      BY <1>0, <2>3 DEF Schedule
    <3>4. super' => rest = <<>> \/ "read error" \in Faults
      BY <1>1, <3>3, PutBasic DEF rest
    <3> QED BY <1>1, <1>2, <2>1, <2>3, <3>2, <3>4 DEF Schedule, rest
  <2>4. CASE pc = "data"
    <3>1. \A i \in 1 .. Len(todo) : todo[i][1] = "data" /\ todo[i][2] \in OpBlocks
      BY <1>0, <2>4 DEF Schedule
    <3>2. \A i \in 1 .. Len(rest) : rest[i][1] = "data" /\ rest[i][2] \in OpBlocks
      BY <2>1, <2>2, <3>1 DEF rest
    <3> QED BY <1>1, <2>1, <2>4, <3>2 DEF Schedule, rest, OpBlocks
  <2>5. CASE pc \in {"bitmap", "release"}
    <3>1. \A i \in 1 .. Len(todo) : todo[i][1] = "bitmap"
      BY <1>0, <2>5 DEF Schedule
    <3>2. \A i \in 1 .. Len(rest) : rest[i][1] = "bitmap"
      BY <2>1, <2>2, <3>1 DEF rest
    <3> QED BY <1>1, <2>1, <2>5, <3>2 DEF Schedule, rest
  <2>6. CASE pc \in {"entry", "unlink"}
    BY <1>1, <1>2, <2>1, <2>6 DEF Schedule
  <2> QED BY <1>0, <2>1, <2>3, <2>4, <2>5, <2>6 DEF TypeOK
<1>7. Directories'
  BY <1>0, <1>1, <1>2 DEF Directories, Mounted
<1>8. Behind'
  BY <1>1, <1>3 DEF Behind
<1> QED BY <1>2, <1>4, <1>5, <1>6, <1>7, <1>8 DEF Basic

\* The operation is given up; a fault is counted, so no more is claimed of the disk.
LEMMA BasicWriteError == Basic /\ WriteError => Basic'
<1> SUFFICES ASSUME Basic, WriteError PROVE Basic'
  OBVIOUS
<1>0. TypeOK /\ DataOK /\ Operation /\ Schedule /\ Directories /\ Behind
  BY DEF Basic
<1>1. "write error" \in Faults /\ todo # <<>>
  BY DEF WriteError
<1>d. op' = NoOp /\ todo' = <<>> /\ stored' = stored /\ created' = created
  BY DEF WriteError
<1>c. Put(Head(todo)) \/ UNCHANGED <<super, dbitmap, ddir, data>>
  BY DEF WriteError, diskVars
<1>b. cut' = (cut \/ Cutting)
  BY DEF WriteError
<1>2. /\ pc = "format" => bitmap' = {} /\ dir' = [s \in Slot |-> Free] /\ nextSeq' = 0 /\ pc' = "off"
      /\ pc # "format" => pc' = "idle" /\ UNCHANGED <<bitmap, dir, nextSeq>>
  BY DEF WriteError, memVars
<1>3. /\ super' \in BOOLEAN /\ dbitmap' \subseteq Block /\ ddir' \in [Slot -> Entry]
      /\ DataOK'
      /\ super' => \A s \in Slot : GoodEntry(ddir'[s])
      /\ super => super'
  <2>1. CASE Put(Head(todo))
    BY <1>1, <2>1, PutBasic
  <2>2. CASE UNCHANGED <<super, dbitmap, ddir, data>>
    BY <1>0, <2>2 DEF TypeOK, DataOK, Directories
  <2> QED BY <1>c, <2>1, <2>2
<1>4. pc \notin {"off", "idle"}
  BY <1>0, <1>1, NextWrite
<1>5. faults' \in 0 .. MaxFaults /\ faults' # 0 /\ cut' \in BOOLEAN
  <2>1. faults \in 0 .. MaxFaults
    BY <1>0 DEF TypeOK
  <2>0. faults < MaxFaults /\ faults' = faults + 1 /\ MaxFaults \in Nat
    BY Numbers DEF WriteError
  <2>2. faults' \in 0 .. MaxFaults /\ faults' # 0
    BY <2>0, <2>1
  <2>3. cut' \in BOOLEAN
    BY <1>b
  <2> QED BY <2>2, <2>3
<1>a. pc' \in {"off", "idle"}
  BY <1>2
<1>6. dir' \in [Slot -> Entry] /\ (\A s \in Slot : GoodEntry(dir'[s])) /\ bitmap' \subseteq Block /\ nextSeq' \in 0 .. MaxSeq
  <2>1. CASE pc = "format"
    BY <1>2, <2>1, FreeEntry, Numbers
  <2>2. CASE pc # "format"
    BY <1>0, <1>2, <2>2 DEF TypeOK, Directories
  <2> QED BY <2>1, <2>2
<1>7. TypeOK'
  <2>1. \A b \in Block : data'[b] = <<>> \/ data'[b] \in Paths \X Versions \X (0 .. MaxLen)
    BY <1>3 DEF DataOK
  <2>2. stored' \in [Paths -> {NoFile, Unknown} \cup {File(n, v) : n \in 0 .. MaxLen, v \in Versions}]
    BY <1>0, <1>d DEF TypeOK
  <2>3. created' \subseteq Paths \X Paths
    BY <1>0, <1>d DEF TypeOK
  <2> QED BY <1>3, <1>5, <1>a, <1>6, <2>1, <2>2, <2>3 DEF TypeOK
<1>8. Operation'
  BY <1>d, <1>2 DEF Operation, Writing, Removing
<1>9. Schedule'
  BY <1>d, <1>a DEF Schedule
<1>10. Directories'
  <2>1. Mounted' => super'
    BY <1>0, <1>2, <1>3, <1>4 DEF Directories, Mounted
  <2>2. ~Mounted' => bitmap' = {} /\ nextSeq' = 0 /\ \A s \in Slot : dir'[s] = Free
    BY <1>2 DEF Mounted
  <2> QED BY <1>3, <1>5, <1>6, <2>1, <2>2 DEF Directories
<1>11. Behind'
  BY <1>1, <1>2, <1>5 DEF Behind
<1> QED BY <1>3, <1>7, <1>8, <1>9, <1>10, <1>11 DEF Basic

\* Turning the machine off forgets the working copy and leaves the disk.
LEMMA BasicPowerOff ==
  ASSUME Basic, PowerOff, cut' \in BOOLEAN, faults' \in 0 .. MaxFaults, faults' = 0 => ~cut'
  PROVE  Basic'
<1>0. TypeOK /\ DataOK /\ Operation /\ Schedule /\ Directories /\ Behind
  BY DEF Basic
<1>1. /\ bitmap' = {} /\ dir' = [s \in Slot |-> Free] /\ nextSeq' = 0
      /\ op' = NoOp /\ todo' = <<>> /\ pc' = "off"
      /\ UNCHANGED <<super, dbitmap, ddir, data, stored, created>>
  BY DEF PowerOff, diskVars
<1>2. dir' \in [Slot -> Entry] /\ \A s \in Slot : dir'[s] = Free
  BY <1>1, FreeEntry
<1>3. TypeOK'
  <2>1. nextSeq' \in 0 .. MaxSeq /\ bitmap' \subseteq Block
    BY <1>1, Numbers
  <2> QED BY <1>0, <1>1, <1>2, <2>1 DEF TypeOK
<1>4. DataOK'
  BY <1>0, <1>1 DEF DataOK
<1>5. Operation'
  BY <1>1 DEF Operation, Writing, Removing
<1>6. Schedule'
  BY <1>1 DEF Schedule
<1>7. Directories'
  BY <1>0, <1>1, <1>2, FreeEntry DEF Directories, Mounted
<1>8. Behind'
  BY <1>1 DEF Behind
<1> QED BY <1>3, <1>4, <1>5, <1>6, <1>7, <1>8 DEF Basic

\* Both turn the machine off.
LEMMA BasicStop == Basic /\ (Reboot \/ Crash) => Basic'
<1> SUFFICES ASSUME Basic, Reboot \/ Crash PROVE Basic'
  OBVIOUS
<1>0. cut \in BOOLEAN /\ faults \in 0 .. MaxFaults /\ (faults = 0 => ~cut)
  BY DEF Basic, TypeOK, Directories
<1>1. CASE Reboot
  BY <1>0, <1>1, BasicPowerOff DEF Reboot
<1>2. CASE Crash
  <2>1. cut' \in BOOLEAN /\ faults' \in 0 .. MaxFaults /\ faults' # 0
    BY <1>0, <1>2, Numbers DEF Crash, Cutting
  <2> QED BY <1>2, <2>1, BasicPowerOff DEF Crash
<1> QED BY <1>1, <1>2

\* All steps together.
LEMMA BasicNext == Basic /\ [Next]_vars => Basic'
<1> SUFFICES ASSUME Basic, [Next]_vars PROVE Basic'
  OBVIOUS
<1>1. CASE UNCHANGED vars
  <2>1. UNCHANGED <<super, dbitmap, ddir, data, bitmap, dir, nextSeq, pc, op, todo, stored, created,
                    cut, faults>>
    BY <1>1 DEF vars, diskVars, memVars, histVars
  <2>2. TypeOK' /\ DataOK'
    BY <2>1 DEF Basic, TypeOK, DataOK
  <2>3. Operation'
    BY <2>1 DEF Basic, Operation, Writing, Removing, OpBlocks
  <2>4. Schedule'
    BY <2>1 DEF Basic, Schedule, OpBlocks
  <2>5. Directories' /\ Behind'
    BY <2>1 DEF Basic, Directories, Behind, Mounted
  <2> QED BY <2>2, <2>3, <2>4, <2>5 DEF Basic
<1>2. CASE Next
  BY <1>2, BasicMount, BasicFormat, BasicFormatDone, BasicWriteFile, BasicPutBitmap, BasicPutEntry,
    BasicWriteDone, BasicRemove, BasicFreeBlocks, BasicRemoveDone, BasicDeviceWrite,
    BasicWriteError, BasicStop DEF Next
<1> QED BY <1>1, <1>2

\* Between any two sector writes of diskfs.rs the operation under way is one the
\* code can be in, and what the disk lacks is among the sectors still to come.
THEOREM BasicHolds == Spec => []Basic
BY BasicInit, BasicNext, PTL DEF Spec

\* The working copy, the disk and the histories keep their types: no sequence
\* number leaves its range, no block outside the data area is ever in the bitmap.
THEOREM TypeCorrectness == Spec => []TypeOK
<1>1. Basic => TypeOK
  BY DEF Basic
<1> QED BY <1>1, BasicHolds, PTL

\* While nothing has failed, the sectors that flush_bitmap and flush_dir_entry chose
\* to write back are enough: between operations the disk is the working copy.
THEOREM DiskCurrent == Spec => []DiskIsCurrent
<1>1. Basic => DiskIsCurrent
  <2> SUFFICES ASSUME Basic, pc = "idle", faults = 0
               PROVE  dbitmap = bitmap /\ ddir = dir
    BY DEF DiskIsCurrent
  <2>1. \A x : ~Due(x, todo)
    BY DueEmpty DEF Basic, Schedule
  <2>2. /\ \A b \in Block : b \in dbitmap <=> b \in bitmap
        /\ \A s \in Slot : ddir[s] = dir[s]
    BY <2>1 DEF Basic, Behind
  <2>3. dbitmap = bitmap
    <3>1. dbitmap \subseteq Block /\ bitmap \subseteq Block
      BY DEF Basic, TypeOK
    <3> QED BY <2>2, <3>1
  <2>4. ddir = dir
    BY <2>2 DEF Basic, TypeOK
  <2> QED BY <2>3, <2>4
<1> QED BY <1>1, BasicHolds, PTL

-----------------------------------------------------------------------------
(* Who owns which block.                                                   *)

\* A volume that was neither cut short nor formatted again after a read error.
Sound == ~cut /\ ("read error" \notin Faults \/ faults = 0)

Apart(e, f) == Used(e) /\ Used(f) => Blocks(e) \cap Blocks(f) = {}
Within(e, marked) == Used(e) => Blocks(e) \subseteq marked
Clear(e, run) == Used(e) => Blocks(e) \cap run = {}

\* The overwritten entry, while its old blocks may already be free.
Stale(s) == s = op.slot /\ Cutting

DiskOwned ==
  /\ \A s, t \in Slot : s # t => Apart(ddir[s], ddir[t])
  /\ \A s \in Slot : Stale(s) \/ Within(ddir[s], dbitmap)

MemoryOwned ==
  /\ \A s, t \in Slot : s # t => Apart(dir[s], dir[t]) /\ Apart(dir[s], ddir[t])
  /\ \A s \in Slot : Stale(s) \/ Within(ddir[s], bitmap)
  /\ \A s \in Slot : (Stale(s) /\ pc = "bitmap") \/ (Within(dir[s], bitmap) /\ Within(dir[s], dbitmap))

\* The run an operation is putting down or taking away is nobody else's.
RunOwned ==
  /\ Writing => \A t \in Slot : t # op.slot => Clear(dir[t], OpBlocks) /\ Clear(ddir[t], OpBlocks)
  /\ pc = "data" => (bitmap \ op.old) \cap OpBlocks = {}
  /\ pc = "bitmap" =>
       /\ OpBlocks \subseteq bitmap
       /\ \A b \in OpBlocks : b \in dbitmap \/ Due(<<"bitmap", Sector(b)>>, todo)
  /\ Removing => \A t \in Slot : t # op.slot => Clear(dir[t], OpBlocks) /\ Clear(ddir[t], OpBlocks)
  /\ pc = "unlink" => todo # <<>> \/ Clear(ddir[op.slot], OpBlocks)
  /\ pc = "release" => Clear(ddir[op.slot], OpBlocks)

Owned == Sound /\ super /\ pc # "format" => DiskOwned /\ (Mounted => MemoryOwned /\ RunOwned)

\* It does not matter which of two entries comes first.
LEMMA ApartSymmetric == \A e, f : Apart(e, f) <=> Apart(f, e)
BY DEF Apart

\* A free slot owns nothing.
LEMMA FreeOwns == \A e, m : Apart(Free, e) /\ Apart(e, Free) /\ Within(Free, m) /\ Clear(Free, m)
BY FreeEntry DEF Apart, Within, Clear

\* A disk whose slots are all free.
LEMMA EmptyOwned ==
  ASSUME \A s \in Slot : ddir[s] = Free
  PROVE  DiskOwned
BY FreeOwns DEF DiskOwned

\* Nothing is mounted.
LEMMA OwnedInit == Init => Owned
BY DEF Init, Owned

\* The working copy is the disk, so what holds of one holds of both.
LEMMA OwnedMount == Basic /\ Owned /\ Mount => Owned'
<1> SUFFICES ASSUME Basic, Owned, Mount, Sound' PROVE DiskOwned' /\ MemoryOwned' /\ RunOwned'
  BY DEF Owned
<1>1. /\ pc = "off" /\ super /\ pc' = "idle" /\ bitmap' = dbitmap /\ dir' = ddir
      /\ UNCHANGED <<dbitmap, ddir, op, todo, cut, faults>>
  BY DEF Mount, diskVars, histVars
<1>2. DiskOwned
  BY <1>1 DEF Owned, Sound
<1>3. \A s : ~Stale(s) /\ ~Stale(s)'
  BY <1>1 DEF Stale, Cutting
<1>4. DiskOwned'
  BY <1>1, <1>2, <1>3 DEF DiskOwned
<1>5. MemoryOwned'
  BY <1>1, <1>2, <1>3 DEF DiskOwned, MemoryOwned
<1>6. RunOwned'
  BY <1>1 DEF RunOwned, Writing, Removing
<1> QED BY <1>4, <1>5, <1>6

\* All slots are free.
LEMMA OwnedFormatDone == Basic /\ Owned /\ FormatDone => Owned'
<1> SUFFICES ASSUME Basic, Owned, FormatDone PROVE DiskOwned' /\ MemoryOwned' /\ RunOwned'
  BY DEF Owned
<1>1. /\ pc = "format" /\ todo = <<>> /\ pc' = "idle"
      /\ UNCHANGED <<dbitmap, ddir, bitmap, dir, op, todo, cut, faults>>
  BY DEF FormatDone, diskVars, memVars, histVars
<1>2. \A s \in Slot : dir[s] = Free /\ ddir[s] = Free
  BY <1>1, DueEmpty DEF Basic, Behind, Directories, Mounted
<1>3. DiskOwned' /\ MemoryOwned'
  BY <1>1, <1>2, FreeOwns DEF DiskOwned, MemoryOwned
<1>4. RunOwned'
  BY <1>1 DEF RunOwned, Writing, Removing
<1> QED BY <1>3, <1>4

\* The run was found outside the bitmap, except for the old run of the file itself.
LEMMA OwnedWriteFile ==
  ASSUME Basic, Owned, NEW p \in Paths, NEW n \in 0 .. MaxLen, NEW v \in Versions, WriteFile(p, n, v)
  PROVE  Owned'
<1> SUFFICES ASSUME Sound', super' PROVE DiskOwned' /\ MemoryOwned' /\ RunOwned'
  BY DEF Owned
<1>1. /\ pc = "idle" /\ pc' = "data" /\ op'.slot \in Slot
      /\ OpBlocks' \cap (bitmap \ op'.old) = {}
      /\ IF op'.create THEN op'.old = {}
         ELSE dir[op'.slot].path = p /\ op'.old = Blocks(dir[op'.slot])
      /\ UNCHANGED <<super, dbitmap, ddir, bitmap, dir, cut, faults>>
  BY WriteFileStep
<1>2. DiskOwned /\ MemoryOwned
  BY <1>1 DEF Owned, Sound, Mounted
<1>3. \A s : ~Stale(s) /\ ~Stale(s)'
  BY <1>1 DEF Stale, Cutting
<1>4. DiskOwned' /\ MemoryOwned'
  BY <1>1, <1>2, <1>3 DEF DiskOwned, MemoryOwned
<1>5. ASSUME NEW t \in Slot, t # op'.slot
      PROVE  Clear(dir[t], OpBlocks') /\ Clear(ddir[t], OpBlocks')
  <2>1. Within(dir[t], bitmap) /\ Within(ddir[t], bitmap)
    BY <1>2, <1>3 DEF MemoryOwned
  <2>2. ~op'.create => Apart(dir[op'.slot], dir[t]) /\ Apart(dir[op'.slot], ddir[t]) /\ Used(dir[op'.slot])
    BY <1>1, <1>2, <1>5, PathAssumption DEF MemoryOwned, Used
  <2>3. /\ Used(dir[t]) => Blocks(dir[t]) \cap op'.old = {}
        /\ Used(ddir[t]) => Blocks(ddir[t]) \cap op'.old = {}
    BY <1>1, <2>2 DEF Apart
  <2> QED BY <1>1, <2>1, <2>3 DEF Within, Clear
<1>6. RunOwned'
  <2>1. (bitmap' \ op'.old) \cap OpBlocks' = {}
    BY <1>1
  <2> QED BY <1>1, <1>5, <2>1 DEF RunOwned, Writing, Removing
<1> QED BY <1>4, <1>6

\* The new run is marked; the old one is free from here on, though its entry is
\* on disk: the entry is stale until its sector is written.
LEMMA OwnedPutBitmap == Basic /\ Owned /\ PutBitmap => Owned'
<1> SUFFICES ASSUME Basic, Owned, PutBitmap, Sound', super'
             PROVE DiskOwned' /\ MemoryOwned' /\ RunOwned'
  BY DEF Owned
<1> DEFINE plan == (bitmap \ op.old) \cup OpBlocks
<1>1. /\ pc = "data" /\ pc' = "bitmap" /\ bitmap' = plan /\ todo' = ChangedWrites(bitmap, plan)
      /\ UNCHANGED <<super, dbitmap, ddir, dir, op, cut, faults>>
  BY DEF PutBitmap, Plan, ChangedWrites, OpBlocks, diskVars, histVars
<1>2. DiskOwned /\ MemoryOwned /\ RunOwned
  BY <1>1 DEF Owned, Sound, Mounted
<1>3. \A s : ~Stale(s)
  BY <1>1 DEF Stale, Cutting
<1>4. /\ op.slot \in Slot /\ OpBlocks \subseteq Block
      /\ IF op.create THEN dir[op.slot] = Free /\ op.old = {}
         ELSE Used(dir[op.slot]) /\ op.old = Blocks(dir[op.slot])
  BY <1>1, PathAssumption DEF Basic, Operation, Writing, Used
<1>5. bitmap \subseteq Block
  BY DEF Basic, TypeOK
<1>6. plan \subseteq Block /\ OpBlocks \subseteq plan /\ bitmap \subseteq plan \cup op.old /\ bitmap \ op.old \subseteq plan
  BY <1>4, <1>5
<1> HIDE DEF plan
<1>7. op.old \subseteq plan \/ \A s \in Slot : s = op.slot => Stale(s)'
  BY <1>1 DEF Stale, Cutting
<1>8. DiskOwned'
  BY <1>1, <1>2, <1>3 DEF DiskOwned
<1>9. ASSUME NEW s \in Slot, ~Stale(s)'
      PROVE  Within(dir[s], plan) /\ Within(ddir[s], plan) /\ Within(dir[s], dbitmap)
  <2>1. Within(dir[s], bitmap) /\ Within(ddir[s], bitmap) /\ Within(dir[s], dbitmap)
    BY <1>2, <1>3 DEF MemoryOwned
  <2>2. CASE s = op.slot
    <3>1. bitmap \subseteq plan
      BY <1>6, <1>7, <1>9, <2>2
    <3> QED BY <2>1, <3>1 DEF Within
  <2>3. CASE s # op.slot
    <3>1. ~op.create => Apart(dir[op.slot], dir[s]) /\ Apart(dir[op.slot], ddir[s])
      BY <1>2, <1>4, <2>3 DEF MemoryOwned
    <3>2. /\ Used(dir[s]) => Blocks(dir[s]) \cap op.old = {}
          /\ Used(ddir[s]) => Blocks(ddir[s]) \cap op.old = {}
      BY <1>4, <3>1 DEF Apart
    <3> QED BY <1>6, <2>1, <3>2 DEF Within
  <2> QED BY <2>2, <2>3
<1>10. MemoryOwned'
  BY <1>1, <1>2, <1>9 DEF MemoryOwned
<1>11. ASSUME NEW b \in OpBlocks
       PROVE  b \in dbitmap \/ Due(<<"bitmap", Sector(b)>>, ChangedWrites(bitmap, plan))
  <2>1. CASE b \in bitmap
    <3>1. b \in op.old
      BY <1>1, <1>2, <2>1, <1>11 DEF RunOwned
    <3>2. Within(dir[op.slot], dbitmap)
      BY <1>2, <1>3, <1>4 DEF MemoryOwned
    <3> QED BY <1>4, <3>1, <3>2 DEF Within
  <2>2. CASE b \notin bitmap
    <3>1. b \in plan \ bitmap
      BY <1>6, <2>2, <1>11
    <3> QED BY <1>5, <1>6, <3>1, ChangedAll
  <2> QED BY <2>1, <2>2
<1>12. RunOwned'
  <2>1. \A t \in Slot : t # op.slot => Clear(dir[t], OpBlocks) /\ Clear(ddir[t], OpBlocks)
    BY <1>1, <1>2 DEF RunOwned, Writing
  <2>2. OpBlocks' = OpBlocks
    BY <1>1 DEF OpBlocks
  <2> QED BY <1>1, <1>6, <1>11, <2>1, <2>2 DEF RunOwned, Writing, Removing
<1> QED BY <1>8, <1>10, <1>12

\* The new entry points at the run nobody else has.
LEMMA OwnedPutEntry == Basic /\ Owned /\ PutEntry => Owned'
<1> SUFFICES ASSUME Basic, Owned, PutEntry, Sound', super'
             PROVE DiskOwned' /\ MemoryOwned' /\ RunOwned'
  BY DEF Owned
<1>1. /\ pc = "bitmap" /\ todo = <<>> /\ pc' = "entry" /\ todo' = FlushDirEntry(op.slot)
      /\ UNCHANGED <<super, dbitmap, ddir, bitmap, op, cut, faults>>
  BY DEF PutEntry, diskVars, histVars
<1>2. DiskOwned /\ MemoryOwned /\ RunOwned
  BY <1>1 DEF Owned, Sound, Mounted
<1>3. op.slot \in Slot /\ dir \in [Slot -> Entry]
  BY <1>1 DEF Basic, TypeOK, Operation, Writing
<1>4. /\ dir'[op.slot].first = op.first /\ dir'[op.slot].len = op.len
      /\ \A s \in Slot : s # op.slot => dir'[s] = dir[s]
  BY <1>3 DEF PutEntry
<1>5. Blocks(dir'[op.slot]) = OpBlocks /\ OpBlocks' = OpBlocks
  BY <1>1, <1>4 DEF Blocks, OpBlocks
<1>6. todo' # <<>>
  BY <1>1, <1>3, FlushEntry
<1>7. \A s : Stale(s)' <=> Stale(s)
  BY <1>1, <1>6 DEF Stale, Cutting
<1>8. /\ \A t \in Slot : t # op.slot => Clear(dir[t], OpBlocks) /\ Clear(ddir[t], OpBlocks)
      /\ OpBlocks \subseteq bitmap /\ OpBlocks \subseteq dbitmap
  BY <1>1, <1>2, DueEmpty DEF RunOwned, Writing
<1>9. DiskOwned'
  BY <1>1, <1>2, <1>7 DEF DiskOwned
<1>10. \A s, t \in Slot : s # t => Apart(dir'[s], dir'[t]) /\ Apart(dir'[s], ddir[t])
  <2> SUFFICES ASSUME NEW s \in Slot, NEW t \in Slot, s # t
               PROVE  Apart(dir'[s], dir'[t]) /\ Apart(dir'[s], ddir[t])
    OBVIOUS
  <2>1. CASE s = op.slot
    BY <1>4, <1>5, <1>8, <2>1 DEF Apart, Clear
  <2>2. CASE t = op.slot
    BY <1>2, <1>4, <1>5, <1>8, <2>2 DEF Apart, Clear, MemoryOwned
  <2>3. CASE s # op.slot /\ t # op.slot
    BY <1>2, <1>4, <2>3 DEF MemoryOwned
  <2> QED BY <2>1, <2>2, <2>3
<1>11. \A s \in Slot : Within(dir'[s], bitmap) /\ Within(dir'[s], dbitmap)
  <2> TAKE s \in Slot
  <2>1. CASE s = op.slot
    BY <1>5, <1>8, <2>1 DEF Within
  <2>2. CASE s # op.slot
    <3>1. ~Stale(s)
      BY <2>2 DEF Stale
    <3> QED BY <1>2, <1>4, <2>2, <3>1 DEF MemoryOwned
  <2> QED BY <2>1, <2>2
<1>12. MemoryOwned'
  BY <1>1, <1>2, <1>7, <1>10, <1>11 DEF MemoryOwned
<1>13. RunOwned'
  BY <1>1, <1>4, <1>5, <1>8 DEF RunOwned, Writing, Removing
<1> QED BY <1>9, <1>12, <1>13

\* Nothing is stale any more.
LEMMA OwnedWriteDone == Basic /\ Owned /\ WriteDone => Owned'
<1> SUFFICES ASSUME Basic, Owned, WriteDone, Sound', super'
             PROVE DiskOwned' /\ MemoryOwned' /\ RunOwned'
  BY DEF Owned
<1>1. /\ pc = "entry" /\ todo = <<>> /\ pc' = "idle"
      /\ UNCHANGED <<super, dbitmap, ddir, bitmap, dir, cut, faults>>
  BY DEF WriteDone, diskVars, memVars
<1>2. DiskOwned /\ MemoryOwned
  BY <1>1 DEF Owned, Sound, Mounted
<1>3. \A s : ~Stale(s) /\ ~Stale(s)'
  BY <1>1 DEF Stale, Cutting
<1>4. DiskOwned' /\ MemoryOwned'
  BY <1>1, <1>2, <1>3 DEF DiskOwned, MemoryOwned
<1>5. RunOwned'
  BY <1>1 DEF RunOwned, Writing, Removing
<1> QED BY <1>4, <1>5

\* A free slot shares no block; the old entry is still on disk, its blocks marked.
LEMMA OwnedRemove ==
  ASSUME Basic, Owned, NEW p \in Paths, Remove(p)
  PROVE  Owned'
<1> SUFFICES ASSUME Sound', super' PROVE DiskOwned' /\ MemoryOwned' /\ RunOwned'
  BY DEF Owned
<1>1. /\ pc = "idle" /\ pc' = "unlink" /\ op'.slot \in Slot
      /\ dir[op'.slot].path = p /\ OpBlocks' = Blocks(dir[op'.slot])
      /\ dir'[op'.slot] = Free /\ \A s \in Slot : s # op'.slot => dir'[s] = dir[s]
      /\ todo' = FlushDirEntry(op'.slot)
      /\ UNCHANGED <<super, dbitmap, ddir, bitmap, cut, faults>>
  BY RemoveStep
<1>2. DiskOwned /\ MemoryOwned
  BY <1>1 DEF Owned, Sound, Mounted
<1>3. \A s : ~Stale(s) /\ ~Stale(s)'
  BY <1>1 DEF Stale, Cutting
<1>4. Used(dir[op'.slot]) /\ todo' # <<>>
  BY <1>1, FlushEntry, PathAssumption DEF Used
<1>5. DiskOwned'
  BY <1>1, <1>2, <1>3 DEF DiskOwned
<1>6. \A s \in Slot : dir'[s] = Free \/ (s # op'.slot /\ dir'[s] = dir[s])
  BY <1>1
<1>7. MemoryOwned'
  BY <1>1, <1>2, <1>3, <1>6, FreeOwns DEF MemoryOwned
<1>8. RunOwned'
  <2>1. ASSUME NEW t \in Slot, t # op'.slot
        PROVE  Clear(dir'[t], OpBlocks') /\ Clear(ddir[t], OpBlocks')
    <3>1. Apart(dir[op'.slot], dir[t]) /\ Apart(dir[op'.slot], ddir[t])
      BY <1>1, <1>2, <2>1 DEF MemoryOwned
    <3> QED BY <1>1, <1>4, <2>1, <3>1 DEF Apart, Clear
  <2> QED BY <1>1, <1>4, <2>1 DEF RunOwned, Writing, Removing
<1> QED BY <1>5, <1>7, <1>8

\* The entry is gone from the disk before its blocks are given back.
LEMMA OwnedFreeBlocks == Basic /\ Owned /\ FreeBlocks => Owned'
<1> SUFFICES ASSUME Basic, Owned, FreeBlocks, Sound', super'
             PROVE DiskOwned' /\ MemoryOwned' /\ RunOwned'
  BY DEF Owned
<1>1. /\ pc = "unlink" /\ todo = <<>> /\ pc' = "release" /\ bitmap' = bitmap \ OpBlocks
      /\ UNCHANGED <<super, dbitmap, ddir, dir, op, cut, faults>>
  BY DEF FreeBlocks, OpBlocks, diskVars, histVars
<1>2. DiskOwned /\ MemoryOwned /\ RunOwned
  BY <1>1 DEF Owned, Sound, Mounted
<1>3. \A s : ~Stale(s) /\ ~Stale(s)'
  BY <1>1 DEF Stale, Cutting
<1>4. dir[op.slot] = Free /\ OpBlocks' = OpBlocks
  BY <1>1 DEF Basic, Operation, Removing, OpBlocks
<1>5. \A t \in Slot : Clear(dir[t], OpBlocks) /\ Clear(ddir[t], OpBlocks)
  BY <1>1, <1>2, <1>4, FreeOwns DEF RunOwned, Removing
<1>6. DiskOwned'
  BY <1>1, <1>2, <1>3 DEF DiskOwned
<1>7. MemoryOwned'
  <2>1. \A s \in Slot : Within(dir[s], bitmap \ OpBlocks) /\ Within(ddir[s], bitmap \ OpBlocks)
    BY <1>1, <1>2, <1>3, <1>5 DEF MemoryOwned, Within, Clear
  <2> QED BY <1>1, <1>2, <1>3, <2>1 DEF MemoryOwned
<1>8. RunOwned'
  <2>1. op.slot \in Slot
    BY <1>1 DEF Basic, Operation, Removing
  <2> QED BY <1>1, <1>4, <1>5, <2>1 DEF RunOwned, Writing, Removing
<1> QED BY <1>6, <1>7, <1>8

\* Only the histories change.
LEMMA OwnedRemoveDone == Basic /\ Owned /\ RemoveDone => Owned'
<1> SUFFICES ASSUME Basic, Owned, RemoveDone, Sound', super'
             PROVE DiskOwned' /\ MemoryOwned' /\ RunOwned'
  BY DEF Owned
<1>1. /\ pc = "release" /\ pc' = "idle"
      /\ UNCHANGED <<super, dbitmap, ddir, bitmap, dir, cut, faults>>
  BY DEF RemoveDone, diskVars, memVars
<1>2. DiskOwned /\ MemoryOwned
  BY <1>1 DEF Owned, Sound, Mounted
<1>3. \A s : ~Stale(s) /\ ~Stale(s)'
  BY <1>1 DEF Stale, Cutting
<1>4. DiskOwned' /\ MemoryOwned'
  BY <1>1, <1>2, <1>3 DEF DiskOwned, MemoryOwned
<1>5. RunOwned'
  BY <1>1 DEF RunOwned, Writing, Removing
<1> QED BY <1>4, <1>5

\* A device write of a mounted volume takes nobody's blocks away.  One of a
\* directory sector leaves no entry stale.
LEMMA PutOwned ==
  ASSUME Basic, DiskOwned, MemoryOwned, Mounted, todo # <<>>, Put(Head(todo))
  PROVE  /\ \A s, t \in Slot : s # t => Apart(ddir'[s], ddir'[t]) /\ Apart(dir[s], ddir'[t])
         /\ \A s \in Slot : (Stale(s) /\ pc = "bitmap") \/
              (Within(ddir'[s], dbitmap') /\ Within(ddir'[s], bitmap)
               /\ Within(dir[s], bitmap) /\ Within(dir[s], dbitmap'))
         /\ \A s \in Slot : ddir'[s] = dir[s] \/ ddir'[s] = ddir[s]
         /\ pc \in {"entry", "unlink"} => ddir'[op.slot] = dir[op.slot]
         /\ \A b \in bitmap : b \in dbitmap => b \in dbitmap'
         /\ \A b \in bitmap : Due(<<"bitmap", Sector(b)>>, todo) =>
              b \in dbitmap' \/ Due(<<"bitmap", Sector(b)>>, Tail(todo))
<1> DEFINE w == Head(todo)
           rest == Tail(todo)
<1>0. TypeOK /\ Schedule
  BY DEF Basic
<1>1. w \in Job /\ todo \in Seq(Job)
  BY <1>0, NextWrite DEF Schedule
<1>2. \A x : Due(x, todo) => x = w \/ Due(x, rest)
  BY <1>1, DueNext
<1>a. pc \in {"entry", "unlink"} => ddir'[op.slot] = dir[op.slot]
  BY PutBasic
<1>3. /\ \A b \in Block : w[1] = "bitmap" /\ w[2] = Sector(b) => (b \in dbitmap' <=> b \in bitmap)
      /\ \A b \in Block : ~(w[1] = "bitmap" /\ w[2] = Sector(b)) => (b \in dbitmap' <=> b \in dbitmap)
      /\ \A s \in Slot : ddir'[s] = IF w[1] = "dir" /\ w[2] = s \div EntriesPerSector
                                    THEN dir[s] ELSE ddir[s]
  BY <1>0, <1>1, PutAll
<1>4. bitmap \subseteq Block
  BY <1>0 DEF TypeOK
<1>b. pc = "bitmap" => w[1] = "bitmap"
  BY <1>0, NextWrite
<1> HIDE DEF w, rest
<1>5. \A b \in bitmap : b \in dbitmap => b \in dbitmap'
  BY <1>3, <1>4
<1>6. \A b \in bitmap : Due(<<"bitmap", Sector(b)>>, todo) =>
        b \in dbitmap' \/ Due(<<"bitmap", Sector(b)>>, rest)
  <2> SUFFICES ASSUME NEW b \in bitmap, w = <<"bitmap", Sector(b)>> PROVE b \in dbitmap'
    BY <1>2
  <2> QED BY <1>3, <1>4
<1>7. \A s \in Slot : ddir'[s] = dir[s] \/ ddir'[s] = ddir[s]
  BY <1>3
<1>8. \A s, t \in Slot : s # t => Apart(ddir'[s], ddir'[t]) /\ Apart(dir[s], ddir'[t])
  <2> SUFFICES ASSUME NEW s \in Slot, NEW t \in Slot, s # t
               PROVE  Apart(ddir'[s], ddir'[t]) /\ Apart(dir[s], ddir'[t])
    OBVIOUS
  <2>1. Apart(dir[s], dir[t]) /\ Apart(dir[s], ddir[t]) /\ Apart(ddir[s], dir[t]) /\ Apart(ddir[s], ddir[t])
    BY ApartSymmetric DEF MemoryOwned, DiskOwned
  <2>2. ddir'[s] = dir[s] \/ ddir'[s] = ddir[s]
    BY <1>7
  <2>3. ddir'[t] = dir[t] \/ ddir'[t] = ddir[t]
    BY <1>7
  <2> QED BY <2>1, <2>2, <2>3
<1>9. ASSUME NEW s \in Slot, ~(Stale(s) /\ pc = "bitmap")
      PROVE  /\ Within(ddir'[s], dbitmap') /\ Within(ddir'[s], bitmap)
             /\ Within(dir[s], bitmap) /\ Within(dir[s], dbitmap')
  <2>1. Within(dir[s], bitmap) /\ Within(dir[s], dbitmap)
    BY <1>9 DEF MemoryOwned
  <2>2. Within(dir[s], dbitmap')
    BY <1>5, <2>1 DEF Within
  <2>3. CASE Stale(s)
    <3>1. pc = "entry" /\ s = op.slot
      BY <1>9, <2>3 DEF Stale, Cutting
    <3>2. ddir'[s] = dir[s]
      BY <1>a, <3>1
    <3> QED BY <2>1, <2>2, <3>2
  <2>4. CASE ~Stale(s)
    <3>1. Within(ddir[s], bitmap) /\ Within(ddir[s], dbitmap)
      BY <2>4 DEF MemoryOwned, DiskOwned
    <3>2. Within(ddir[s], dbitmap')
      BY <1>5, <3>1 DEF Within
    <3>3. ddir'[s] = dir[s] \/ ddir'[s] = ddir[s]
      BY <1>7
    <3> QED BY <2>1, <2>2, <3>1, <3>2, <3>3
  <2> QED BY <2>3, <2>4
<1> QED BY <1>a, <1>5, <1>6, <1>7, <1>8, <1>9 DEF rest

\* By PutOwned.
LEMMA OwnedDeviceWrite == Basic /\ Owned /\ DeviceWrite => Owned'
<1> SUFFICES ASSUME Basic, Owned, DeviceWrite, Sound', super', pc' # "format"
             PROVE DiskOwned' /\ MemoryOwned' /\ RunOwned'
  BY DEF Owned
<1>1. /\ todo # <<>> /\ Put(Head(todo)) /\ todo' = Tail(todo)
      /\ UNCHANGED <<bitmap, dir, pc, op, cut, faults>>
  BY DEF DeviceWrite, memVars, histVars
<1>2. Mounted /\ Schedule
  BY <1>1, NextWrite DEF Basic, Mounted
<1>3. super /\ Sound
  BY <1>1, <1>2 DEF Basic, Directories, Sound
<1>4. DiskOwned /\ MemoryOwned /\ RunOwned
  BY <1>1, <1>2, <1>3 DEF Owned, Mounted
<1>5. /\ \A s, t \in Slot : s # t => Apart(ddir'[s], ddir'[t]) /\ Apart(dir[s], ddir'[t])
      /\ \A s \in Slot : (Stale(s) /\ pc = "bitmap") \/
              (Within(ddir'[s], dbitmap') /\ Within(ddir'[s], bitmap)
               /\ Within(dir[s], bitmap) /\ Within(dir[s], dbitmap'))
      /\ \A s \in Slot : ddir'[s] = dir[s] \/ ddir'[s] = ddir[s]
      /\ pc \in {"entry", "unlink"} => ddir'[op.slot] = dir[op.slot]
  BY <1>1, <1>2, <1>4, PutOwned
<1>6. /\ \A b \in bitmap : b \in dbitmap => b \in dbitmap'
      /\ \A b \in bitmap : Due(<<"bitmap", Sector(b)>>, todo) =>
           b \in dbitmap' \/ Due(<<"bitmap", Sector(b)>>, Tail(todo))
  BY <1>1, <1>2, <1>4, PutOwned
<1>7. \A s : Stale(s) /\ pc = "bitmap" => Stale(s)'
  BY <1>1 DEF Stale, Cutting
<1>8. DiskOwned'
  BY <1>1, <1>5, <1>7 DEF DiskOwned
<1>9. MemoryOwned'
  <2>1. \A s, t \in Slot : s # t => Apart(dir[s], dir[t])
    BY <1>4 DEF MemoryOwned
  <2> QED BY <1>1, <1>5, <1>7, <2>1 DEF MemoryOwned
<1>10. RunOwned'
  <2>0. OpBlocks' = OpBlocks
    BY <1>1 DEF OpBlocks
  <2>1. ASSUME Writing \/ Removing, NEW t \in Slot, t # op.slot
        PROVE  Clear(dir[t], OpBlocks) /\ Clear(ddir'[t], OpBlocks)
    <3>1. Clear(dir[t], OpBlocks) /\ Clear(ddir[t], OpBlocks)
      BY <1>4, <2>1 DEF RunOwned
    <3>2. ddir'[t] = dir[t] \/ ddir'[t] = ddir[t]
      BY <1>5
    <3> QED BY <3>1, <3>2
  <2>2. pc = "bitmap" =>
          /\ OpBlocks \subseteq bitmap
          /\ \A b \in OpBlocks : b \in dbitmap' \/ Due(<<"bitmap", Sector(b)>>, Tail(todo))
    BY <1>4, <1>6 DEF RunOwned
  <2>3. pc = "unlink" => Clear(ddir'[op.slot], OpBlocks)
    BY <1>5, FreeOwns DEF Basic, Operation, Removing
  <2>4. pc = "release" => Clear(ddir'[op.slot], OpBlocks)
    <3> SUFFICES ASSUME pc = "release" PROVE Clear(ddir'[op.slot], OpBlocks)
      OBVIOUS
    <3>1. op.slot \in Slot /\ dir[op.slot] = Free
      BY DEF Basic, Operation, Removing
    <3>2. ddir'[op.slot] = dir[op.slot] \/ ddir'[op.slot] = ddir[op.slot]
      BY <1>5, <3>1
    <3>3. Clear(ddir[op.slot], OpBlocks)
      BY <1>4 DEF RunOwned
    <3> QED BY <3>1, <3>2, <3>3, FreeOwns
  <2>5. pc = "data" => (bitmap \ op.old) \cap OpBlocks = {}
    BY <1>4 DEF RunOwned
  <2> QED BY <1>1, <2>0, <2>1, <2>2, <2>3, <2>4, <2>5 DEF RunOwned, Writing, Removing
<1> QED BY <1>8, <1>9, <1>10

\* The same, or nothing was written; the entry in progress is not stale, or cut.
LEMMA OwnedWriteError == Basic /\ Owned /\ WriteError => Owned'
<1> SUFFICES ASSUME Basic, Owned, WriteError, Sound', super'
             PROVE  DiskOwned' /\ (Mounted' => MemoryOwned' /\ RunOwned')
  BY DEF Owned
<1>1. /\ todo # <<>>
      /\ Put(Head(todo)) \/ UNCHANGED <<super, dbitmap, ddir, data>>
  BY DEF WriteError, diskVars
<1>2. /\ pc = "format" => dir' = [s \in Slot |-> Free] /\ pc' = "off"
      /\ pc # "format" => pc' = "idle" /\ UNCHANGED <<bitmap, dir>>
  BY DEF WriteError, memVars
<1>3. ~cut /\ ~Cutting
  BY DEF WriteError, Sound
<1>4. "read error" \notin Faults
  <2>0. faults \in 0 .. MaxFaults
    BY DEF Basic, TypeOK
  <2>a. faults' = faults + 1
    BY DEF WriteError
  <2>1. faults' # 0
    BY <2>0, <2>a
  <2> QED BY <2>1 DEF Sound
<1>5. \A s : ~Stale(s) /\ ~Stale(s)'
  BY <1>2, <1>3 DEF Stale, Cutting
<1>6. CASE pc = "format"
  <2>1. ~super
    BY <1>1, <1>4, <1>6 DEF Basic, Schedule
  <2>2. Put(Head(todo))
    BY <1>1, <2>1
  <2>3. Tail(todo) = <<>>
    BY <1>1, <2>1, <2>2, PutBasic
  <2>4. \A x : ~Due(x, Tail(todo))
    BY <2>3, DueEmpty
  <2>5. \A s \in Slot : ddir'[s] = dir[s] \/ Due(<<"dir", s \div EntriesPerSector>>, Tail(todo))
    BY <1>1, <1>6, <2>2, PutBasic
  <2>6. \A s \in Slot : dir[s] = Free
    BY <1>6 DEF Basic, Directories, Mounted
  <2>7. \A s \in Slot : ddir'[s] = Free
    BY <2>4, <2>5, <2>6
  <2> QED BY <1>2, <1>6, <2>7, FreeOwns DEF DiskOwned, Mounted
<1>7. CASE pc # "format"
  <2>1. Mounted
    BY <1>1, <1>7 DEF Basic, Schedule, Mounted
  <2>2. DiskOwned /\ MemoryOwned
    <3>1. Sound
      BY <1>3, <1>4 DEF Sound
    <3> QED BY <2>1, <3>1, <1>7 DEF Owned, Basic, Directories
  <2>3. pc' = "idle" /\ UNCHANGED <<bitmap, dir>>
    BY <1>2, <1>7
  <2>4. CASE Put(Head(todo))
    <3>1. /\ \A s, t \in Slot : s # t => Apart(ddir'[s], ddir'[t]) /\ Apart(dir[s], ddir'[t])
          /\ \A s \in Slot : (Stale(s) /\ pc = "bitmap") \/
                  (Within(ddir'[s], dbitmap') /\ Within(ddir'[s], bitmap)
                   /\ Within(dir[s], bitmap) /\ Within(dir[s], dbitmap'))
      BY <1>1, <2>1, <2>2, <2>4, PutOwned
    <3>2. DiskOwned'
      BY <1>5, <3>1 DEF DiskOwned
    <3>3. MemoryOwned'
      BY <1>5, <2>2, <2>3, <3>1 DEF MemoryOwned
    <3> QED BY <2>3, <3>2, <3>3 DEF RunOwned, Writing, Removing
  <2>5. CASE UNCHANGED <<super, dbitmap, ddir, data>>
    <3>1. DiskOwned' /\ MemoryOwned'
      BY <1>5, <2>2, <2>3, <2>5 DEF DiskOwned, MemoryOwned
    <3> QED BY <2>3, <3>1 DEF RunOwned, Writing, Removing
  <2> QED BY <1>1, <2>4, <2>5
<1> QED BY <1>6, <1>7

\* The disk stays as it is, and no entry of it is stale.
LEMMA OwnedPowerOff ==
  ASSUME Basic, Owned, PowerOff, ~Cutting, Sound' => Sound,
         pc = "format" => "read error" \notin Faults \/ ~Sound'
  PROVE  Owned'
<1> SUFFICES ASSUME Sound', super' PROVE DiskOwned'
  BY DEF Owned, PowerOff, Mounted
<1>1. pc' = "off" /\ UNCHANGED <<super, dbitmap, ddir>>
  BY DEF PowerOff, diskVars
<1>2. \A s : ~Stale(s) /\ ~Stale(s)'
  BY <1>1 DEF Stale, Cutting
<1>3. DiskOwned
  <2>1. CASE pc = "format"
    <3>1. todo = <<>>
      BY <1>1, <2>1 DEF Basic, Schedule
    <3>2. \A s \in Slot : ddir[s] = Free
      BY <2>1, <3>1, DueEmpty DEF Basic, Behind, Directories, Mounted
    <3> QED BY <3>2, EmptyOwned
  <2>2. CASE pc # "format"
    BY <1>1, <2>2 DEF Owned
  <2> QED BY <2>1, <2>2
<1> QED BY <1>1, <1>2, <1>3 DEF DiskOwned

\* A crash that leaves a stale entry sets cut.
LEMMA OwnedStop == Basic /\ Owned /\ (Reboot \/ Crash) => Owned'
<1> SUFFICES ASSUME Basic, Owned, Reboot \/ Crash PROVE Owned'
  OBVIOUS
<1>1. CASE Reboot
  <2>1. pc = "idle" /\ PowerOff /\ UNCHANGED <<cut, faults>>
    BY <1>1 DEF Reboot
  <2>2. ~Cutting /\ (Sound' => Sound)
    BY <2>1 DEF Cutting, Sound
  <2> QED BY <2>1, <2>2, OwnedPowerOff
<1>2. CASE Crash
  <2> SUFFICES ASSUME Sound' PROVE Owned'
    BY DEF Owned
  <2>1. PowerOff /\ cut' = (cut \/ Cutting) /\ faults' = faults + 1
    BY <1>2 DEF Crash
  <2>2. ~cut /\ ~Cutting
    BY <2>1 DEF Sound
  <2>3. faults' # 0
    BY <2>1 DEF Basic, TypeOK
  <2>4. "read error" \notin Faults
    BY <2>3 DEF Sound
  <2>5. Sound
    BY <2>2, <2>4 DEF Sound
  <2> QED BY <2>1, <2>2, <2>4, <2>5, OwnedPowerOff
<1> QED BY <1>1, <1>2

\* All steps together.
LEMMA OwnedNext == Basic /\ Owned /\ [Next]_vars => Owned'
<1> SUFFICES ASSUME Basic, Owned, [Next]_vars PROVE Owned'
  OBVIOUS
<1>1. CASE UNCHANGED vars
  <2>1. UNCHANGED <<super, dbitmap, ddir, bitmap, dir, pc, op, todo, cut, faults>>
    BY <1>1 DEF vars, diskVars, memVars, histVars
  <2>2. \A s : Stale(s)' <=> Stale(s)
    BY <2>1 DEF Stale, Cutting
  <2>3. (DiskOwned' <=> DiskOwned) /\ (MemoryOwned' <=> MemoryOwned)
    BY <2>1, <2>2 DEF DiskOwned, MemoryOwned
  <2>4. RunOwned' <=> RunOwned
    BY <2>1 DEF RunOwned, Writing, Removing, OpBlocks
  <2> QED BY <2>1, <2>3, <2>4 DEF Owned, Sound, Mounted
<1>2. CASE Format
  BY <1>2 DEF Format, Owned
<1>3. CASE Next /\ ~Format
  BY <1>3, OwnedMount, OwnedFormatDone, OwnedWriteFile, OwnedPutBitmap, OwnedPutEntry,
    OwnedWriteDone, OwnedRemove, OwnedFreeBlocks, OwnedRemoveDone, OwnedDeviceWrite,
    OwnedWriteError, OwnedStop DEF Next
<1> QED BY <1>1, <1>2, <1>3

\* Owned is an invariant, whatever faults the disk shows.
LEMMA OwnedHolds == Spec => []Owned
<1>1. Init => Owned
  BY OwnedInit
<1>2. Basic /\ Owned /\ [Next]_vars => Owned'
  BY OwnedNext
<1> QED BY <1>1, <1>2, BasicHolds, PTL DEF Spec

\* The blocks allocated by find_run, and given back by write_file and remove, are
\* never those of two files, whatever sector the machine stops at; unless a volume
\* that could not be read was formatted over and the format did not end either.
THEOREM EntriesOwn ==
  ASSUME "read error" \notin Faults
  PROVE  Spec => []EntriesOwnTheirBlocks
<1>1. Basic /\ Owned => EntriesOwnTheirBlocks
  <2> SUFFICES ASSUME Basic, Owned, ~cut, op.old \ bitmap = {}
               PROVE  /\ super /\ pc # "format" => OwnBlocks(ddir, dbitmap)
                      /\ pc = "idle" => OwnBlocks(dir, bitmap)
    BY DEF EntriesOwnTheirBlocks
  <2>1. Sound /\ ~Cutting /\ \A s : ~Stale(s)
    BY DEF Sound, Cutting, Stale
  <2>2. ASSUME super, pc # "format" PROVE OwnBlocks(ddir, dbitmap)
    <3>1. DiskOwned
      BY <2>1, <2>2 DEF Owned
    <3> QED BY <2>1, <3>1 DEF DiskOwned, OwnBlocks, Apart, Within
  <2>3. ASSUME pc = "idle" PROVE OwnBlocks(dir, bitmap)
    <3>1. MemoryOwned
      BY <2>1, <2>3 DEF Owned, Basic, Directories, Mounted
    <3> QED BY <2>1, <3>1 DEF MemoryOwned, OwnBlocks, Apart, Within
  <2> QED BY <2>2, <2>3
<1> QED BY <1>1, BasicHolds, OwnedHolds, PTL

-----------------------------------------------------------------------------
(* No block is lost while nothing fails.                                   *)

Held(d, b) == \E s \in Slot : b \in Blocks(d[s])

Exact ==
  faults = 0 =>
    /\ pc \in {"idle", "data", "entry", "release"} => \A b : b \in bitmap <=> Held(dir, b)
    /\ pc = "bitmap" => \A b : b \in bitmap <=>
         b \in OpBlocks \/ \E s \in Slot : s # op.slot /\ b \in Blocks(dir[s])
    /\ pc = "unlink" => \A b : b \in bitmap <=> b \in OpBlocks \/ Held(dir, b)
    /\ pc = "off" /\ super => \A b : b \in dbitmap <=> Held(ddir, b)

\* A free slot holds no block.
LEMMA FreeHolds == \A b : b \notin Blocks(Free)
BY FreeEntry

\* Only a file has blocks.
LEMMA HolderUsed ==
  ASSUME Basic, NEW s \in Slot, NEW b \in Blocks(dir[s])
  PROVE  Used(dir[s])
BY FreeHolds DEF Basic, Directories, GoodEntry

\* The bitmap on disk was exact when the machine was turned off.
LEMMA ExactMount == Exact /\ Mount => Exact'
BY DEF Exact, Mount, Held, diskVars, histVars

\* No files, no blocks.
LEMMA ExactFormatDone == Basic /\ FormatDone => Exact'
<1> SUFFICES ASSUME Basic, FormatDone PROVE Exact'
  OBVIOUS
<1>1. pc = "format" /\ pc' = "idle" /\ UNCHANGED <<bitmap, dir>>
  BY DEF FormatDone, memVars
<1>2. bitmap = {} /\ \A s \in Slot : dir[s] = Free
  BY <1>1 DEF Basic, Directories, Mounted
<1> QED BY <1>1, <1>2, FreeHolds DEF Exact, Held

\* Nothing changes yet.
LEMMA ExactWriteFile ==
  ASSUME Basic, Exact, NEW p \in Paths, NEW n \in 0 .. MaxLen, NEW v \in Versions, WriteFile(p, n, v)
  PROVE  Exact'
<1>1. pc = "idle" /\ pc' = "data" /\ UNCHANGED <<bitmap, dir, faults>>
  BY WriteFileStep
<1> QED BY <1>1 DEF Exact, Held

\* The old run leaves the bitmap and the new one enters.
LEMMA ExactPutBitmap == Basic /\ Owned /\ Exact /\ PutBitmap => Exact'
<1> SUFFICES ASSUME Basic, Owned, Exact, PutBitmap, faults' = 0 PROVE Exact'
  BY DEF Exact
<1>1. /\ pc = "data" /\ pc' = "bitmap" /\ bitmap' = (bitmap \ op.old) \cup OpBlocks
      /\ UNCHANGED <<super, dir, op, cut, faults>>
  BY DEF PutBitmap, Plan, OpBlocks, diskVars, histVars
<1>2. MemoryOwned
  BY <1>1 DEF Owned, Sound, Basic, Directories, Mounted
<1>3. /\ op.slot \in Slot
      /\ IF op.create THEN dir[op.slot] = Free /\ op.old = {}
         ELSE op.old = Blocks(dir[op.slot])
  BY <1>1 DEF Basic, Operation, Writing
<1>4. \A b : b \in bitmap <=> Held(dir, b)
  BY <1>1 DEF Exact
<1>5. \A b : b \in bitmap \ op.old <=> \E s \in Slot : s # op.slot /\ b \in Blocks(dir[s])
  <2>1. ASSUME NEW b \in bitmap \ op.old PROVE \E s \in Slot : s # op.slot /\ b \in Blocks(dir[s])
    <3>1. PICK s \in Slot : b \in Blocks(dir[s])
      BY <1>4, <2>1 DEF Held
    <3>2. s # op.slot
      BY <1>3, <2>1, <3>1, FreeHolds
    <3> QED BY <3>1, <3>2
  <2>2. ASSUME NEW s \in Slot, s # op.slot, NEW b \in Blocks(dir[s]) PROVE b \in bitmap \ op.old
    <3>1. b \in bitmap
      BY <1>4 DEF Held
    <3>2. ASSUME b \in op.old PROVE FALSE
      <4>1. b \in Blocks(dir[op.slot])
        BY <1>3, <3>2
      <4>2. Used(dir[s]) /\ Used(dir[op.slot])
        BY <1>3, <4>1, HolderUsed
      <4>3. Apart(dir[s], dir[op.slot])
        BY <1>2, <1>3, <2>2 DEF MemoryOwned
      <4> QED BY <4>1, <4>2, <4>3 DEF Apart
    <3> QED BY <3>1, <3>2
  <2> QED BY <2>1, <2>2
<1>6. OpBlocks' = OpBlocks
  BY <1>1 DEF OpBlocks
<1> QED BY <1>1, <1>5, <1>6 DEF Exact

\* The entry changes from the one to the other.
LEMMA ExactPutEntry == Basic /\ Exact /\ PutEntry => Exact'
<1> SUFFICES ASSUME Basic, Exact, PutEntry, faults' = 0 PROVE Exact'
  BY DEF Exact
<1>1. pc = "bitmap" /\ pc' = "entry" /\ UNCHANGED <<bitmap, faults>>
  BY DEF PutEntry, diskVars, histVars
<1>2. op.slot \in Slot /\ dir \in [Slot -> Entry]
  BY <1>1 DEF Basic, TypeOK, Operation, Writing
<1>3. /\ dir'[op.slot].first = op.first /\ dir'[op.slot].len = op.len
      /\ \A s \in Slot : s # op.slot => dir'[s] = dir[s]
  BY <1>2 DEF PutEntry
<1>4. Blocks(dir'[op.slot]) = OpBlocks
  BY <1>3 DEF Blocks, OpBlocks
<1>5. \A b : b \in bitmap <=> b \in OpBlocks \/ \E s \in Slot : s # op.slot /\ b \in Blocks(dir[s])
  BY <1>1 DEF Exact
<1>6. \A b : b \in bitmap <=> Held(dir', b)
  BY <1>2, <1>3, <1>4, <1>5 DEF Held
<1> QED BY <1>1, <1>6 DEF Exact, Held

\* The blocks of the cleared entry are the operation's to give back.
LEMMA ExactRemove ==
  ASSUME Basic, Exact, NEW p \in Paths, Remove(p)
  PROVE  Exact'
<1>1. /\ pc = "idle" /\ pc' = "unlink" /\ op'.slot \in Slot
      /\ OpBlocks' = Blocks(dir[op'.slot]) /\ dir'[op'.slot] = Free
      /\ \A s \in Slot : s # op'.slot => dir'[s] = dir[s]
      /\ UNCHANGED <<bitmap, faults>>
  BY RemoveStep
<1>2. ASSUME faults = 0 PROVE \A b : b \in bitmap <=> b \in OpBlocks' \/ Held(dir', b)
  <2>1. \A b : b \in bitmap <=> Held(dir, b)
    BY <1>1, <1>2 DEF Exact
  <2> QED BY <1>1, <2>1, FreeHolds DEF Held
<1> QED BY <1>1, <1>2 DEF Exact, Held

\* And it gives back those and no others, as nobody shares them.
LEMMA ExactFreeBlocks == Basic /\ Owned /\ Exact /\ FreeBlocks => Exact'
<1> SUFFICES ASSUME Basic, Owned, Exact, FreeBlocks, faults' = 0 PROVE Exact'
  BY DEF Exact
<1>1. /\ pc = "unlink" /\ pc' = "release" /\ bitmap' = bitmap \ OpBlocks
      /\ UNCHANGED <<super, dir, cut, faults>>
  BY DEF FreeBlocks, OpBlocks, diskVars, histVars
<1>2. RunOwned
  BY <1>1 DEF Owned, Sound, Basic, Directories, Mounted
<1>3. \A b : b \in bitmap <=> b \in OpBlocks \/ Held(dir, b)
  BY <1>1 DEF Exact
<1>4. dir[op.slot] = Free
  BY <1>1 DEF Basic, Operation, Removing
<1>5. ASSUME NEW b, Held(dir, b) PROVE b \notin OpBlocks
  <2>1. PICK s \in Slot : b \in Blocks(dir[s])
    BY <1>5 DEF Held
  <2>2. Used(dir[s]) /\ s # op.slot
    BY <1>4, <2>1, HolderUsed, FreeHolds
  <2>3. Clear(dir[s], OpBlocks)
    BY <1>1, <1>2, <2>2 DEF RunOwned, Removing
  <2> QED BY <2>1, <2>2, <2>3 DEF Clear
<1>6. \A b : b \in bitmap' <=> Held(dir, b)
  BY <1>1, <1>3, <1>5
<1> QED BY <1>1, <1>6 DEF Exact, Held

\* The disk is the working copy.
LEMMA ExactReboot == Basic /\ Exact /\ Reboot => Exact'
<1> SUFFICES ASSUME Basic, Exact, Reboot, faults' = 0 PROVE Exact'
  BY DEF Exact
<1>1. pc = "idle" /\ pc' = "off" /\ UNCHANGED <<super, dbitmap, ddir, faults>>
  BY DEF Reboot, PowerOff, diskVars
<1>2. \A b : b \in bitmap <=> Held(dir, b)
  BY <1>1 DEF Exact
<1>3. \A x : ~Due(x, todo)
  BY <1>1, DueEmpty DEF Basic, Schedule
<1>4. /\ \A b \in Block : b \in dbitmap <=> b \in bitmap
      /\ \A s \in Slot : ddir[s] = dir[s]
  BY <1>1, <1>3 DEF Basic, Behind
<1>5. dbitmap \subseteq Block /\ bitmap \subseteq Block
  BY DEF Basic, TypeOK
<1>6. \A b : b \in dbitmap <=> Held(ddir, b)
  BY <1>2, <1>4, <1>5 DEF Held
<1> QED BY <1>1, <1>6 DEF Exact, Held

\* All steps together.
LEMMA ExactNext == Basic /\ Owned /\ Exact /\ [Next]_vars => Exact'
<1> SUFFICES ASSUME Basic, Owned, Exact, [Next]_vars PROVE Exact'
  OBVIOUS
<1>1. CASE UNCHANGED vars
  BY <1>1 DEF Exact, Held, OpBlocks, vars, diskVars, memVars, histVars
<1>2. CASE Format
  BY <1>2 DEF Format, Exact
<1>3. CASE WriteDone
  BY <1>3 DEF WriteDone, Exact, Held, memVars
<1>4. CASE RemoveDone
  BY <1>4 DEF RemoveDone, Exact, Held, memVars
<1>5. CASE DeviceWrite
  <2>1. pc # "off" /\ UNCHANGED <<bitmap, dir, pc, op, faults>>
    BY <1>5, NextWrite DEF DeviceWrite, Basic, memVars, histVars
  <2> QED BY <2>1 DEF Exact, Held, OpBlocks
<1>6. CASE WriteError \/ Crash
  <2>1. faults \in 0 .. MaxFaults
    BY DEF Basic, TypeOK
  <2>2. faults' = faults + 1
    BY <1>6 DEF WriteError, Crash
  <2>3. faults' # 0
    BY <2>1, <2>2
  <2> QED BY <2>3 DEF Exact
<1>7. CASE Mount \/ FormatDone \/ PutBitmap \/ PutEntry \/ FreeBlocks \/ Reboot
  BY <1>7, ExactMount, ExactFormatDone, ExactPutBitmap, ExactPutEntry, ExactFreeBlocks, ExactReboot
<1>8. CASE \E p \in Paths, n \in 0 .. MaxLen, v \in Versions : WriteFile(p, n, v)
  BY <1>8, ExactWriteFile
<1>9. CASE \E p \in Paths : Remove(p)
  BY <1>9, ExactRemove
<1> QED BY <1>1, <1>2, <1>3, <1>4, <1>5, <1>6, <1>7, <1>8, <1>9 DEF Next

\* Exact is an invariant.
LEMMA ExactHolds == Spec => []Exact
<1>1. Init => Exact
  BY DEF Init, Exact
<1>2. Basic /\ Owned /\ Exact /\ [Next]_vars => Exact'
  BY ExactNext
<1> QED BY <1>1, <1>2, BasicHolds, OwnedHolds, PTL DEF Spec

\* While nothing has failed the bitmap that write_file and remove keep marks the
\* blocks of the files, and no others.
THEOREM NoneLeaks == Spec => []NothingLeaks
<1>1. Exact => NothingLeaks
  <2> SUFFICES ASSUME Exact, pc = "idle", faults = 0
               PROVE  bitmap = UNION {Blocks(dir[s]) : s \in Slot}
    BY DEF NothingLeaks
  <2>1. \A b : b \in bitmap <=> \E s \in Slot : b \in Blocks(dir[s])
    BY DEF Exact, Held
  <2> QED BY <2>1
<1> QED BY <1>1, ExactHolds, PTL

-----------------------------------------------------------------------------
(* The order files were created in.                                        *)

\* A disk that answers its reads, and of which either every write succeeds or the
\* whole directory is one sector: a failed write of one sector of several leaves
\* the entry it was to clear on the disk beside a later one of the same name.
Steady ==
  /\ "read error" \notin Faults
  /\ "write error" \notin Faults \/ SlotCount <= EntriesPerSector

Unique(d) == \A s, t \in Slot : Used(d[s]) /\ d[s].path = d[t].path => s = t

\* Two files that are known to be there, and which of them came first, are found
\* in the same slots, with the same numbers, on disk and in memory.
Placed(c) ==
  \E s, t \in Slot :
    /\ ddir[s].path = c[1] /\ ddir[t].path = c[2]
    /\ c[1] # c[2] => ddir[s].seq < ddir[t].seq
    /\ Mounted => /\ dir[s].path = c[1] /\ dir[s].seq = ddir[s].seq
                  /\ dir[t].path = c[2] /\ dir[t].seq = ddir[t].seq

Ordered ==
  /\ Mounted => Unique(dir)
  /\ super => Unique(ddir)
  /\ Mounted => \A s \in Slot : Used(dir[s]) => dir[s].seq < nextSeq
  /\ pc = "entry" /\ op.create =>
       \A t \in Slot : Used(dir[t]) /\ t # op.slot => dir[t].seq < dir[op.slot].seq
  /\ ~super \/ pc = "format" => created = {}
  /\ \A c \in created : Placed(c)

\* A directory that is one sector is numbered 0.
LEMMA OneSector ==
  ASSUME NEW a \in Nat, NEW n \in Nat \ {0}, a < n
  PROVE  a \div n = 0
<1> DEFINE q == a \div n
<1>1. q \in Int /\ n * q <= a /\ a < n * (q + 1)
  OBVIOUS
<1>2. q \in Nat
  BY Quotient
<1> HIDE DEF q
<1>3. ~(q >= 1)
  <2> SUFFICES ASSUME q >= 1 PROVE FALSE
    OBVIOUS
  <2>1. n * q >= n
    BY <1>2
  <2> QED BY <1>1, <2>1
<1> QED BY <1>2, <1>3 DEF q

\* Writing back the sector of an entry brings the directory on disk up to date.
LEMMA FlushSyncs ==
  ASSUME Basic, Steady, pc \in {"entry", "unlink"}, todo # <<>>, Put(Head(todo))
  PROVE  \A s \in Slot : ddir'[s] = dir[s]
<1>1. Tail(todo) = <<>> /\ Head(todo) = <<"dir", op.slot \div EntriesPerSector>> /\ Head(todo) \in Job
  BY NextWrite DEF Basic
<1>2. CASE "write error" \notin Faults
  <2>1. \A s \in Slot : ddir'[s] = dir[s] \/ Due(<<"dir", s \div EntriesPerSector>>, Tail(todo))
    BY <1>2, PutBasic
  <2>2. \A x : ~Due(x, Tail(todo))
    BY <1>1, DueEmpty
  <2> QED BY <2>1, <2>2
<1>3. CASE SlotCount <= EntriesPerSector
  <2>1. op.slot \in Slot
    BY DEF Basic, Operation, Writing, Removing
  <2>2. \A s \in Slot : s \div EntriesPerSector = 0
    <3> TAKE s \in Slot
    <3>1. s \in Nat /\ s < EntriesPerSector
      BY <1>3, Numbers DEF Slot
    <3> QED BY <3>1, Numbers, OneSector
  <2> DEFINE w == Head(todo)
  <2>3. \A s \in Slot : ddir'[s] = IF w[1] = "dir" /\ w[2] = s \div EntriesPerSector
                                   THEN dir[s] ELSE ddir[s]
    BY <1>1, PutAll DEF Basic
  <2>4. w[1] = "dir" /\ w[2] = 0
    BY <1>1, <2>1, <2>2
  <2> HIDE DEF w
  <2> QED BY <2>2, <2>3, <2>4
<1> QED BY <1>2, <1>3 DEF Steady

\* Any other device write leaves it alone.
LEMMA OtherWrite ==
  ASSUME Basic, pc \in {"data", "bitmap", "release"}, todo # <<>>, Put(Head(todo))
  PROVE  \A s \in Slot : ddir'[s] = ddir[s]
<1>1. Head(todo)[1] # "dir" /\ Head(todo) \in Job
  BY NextWrite DEF Basic
<1> QED BY <1>1, PutAll DEF Basic

\* No device write doubles a name on a recognised disk.
LEMMA PutUnique ==
  ASSUME Basic, Steady, Ordered, todo # <<>>, Put(Head(todo))
  PROVE  super' => Unique(ddir')
<1> SUFFICES ASSUME super' PROVE Unique(ddir')
  OBVIOUS
<1>1. pc \in {"format", "data", "bitmap", "entry", "unlink", "release"}
  BY NextWrite DEF Basic, TypeOK
<1>2. CASE pc = "format"
  <2>1. ~super
    BY <1>2 DEF Basic, Schedule, Steady
  <2>2. Tail(todo) = <<>>
    BY <2>1, PutBasic
  <2>3. \A s \in Slot : ddir'[s] = dir[s] \/ Due(<<"dir", s \div EntriesPerSector>>, Tail(todo))
    BY <1>2, PutBasic
  <2>4. \A s \in Slot : ddir'[s] = Free
    BY <1>2, <2>2, <2>3, DueEmpty DEF Basic, Directories, Mounted
  <2> QED BY <2>4, FreeEntry DEF Unique
<1>3. CASE pc \in {"data", "bitmap", "release"}
  <2>1. super
    BY <1>3 DEF Basic, Directories, Mounted
  <2>2. \A s \in Slot : ddir'[s] = ddir[s]
    BY <1>3, OtherWrite
  <2>3. Unique(ddir)
    BY <2>1 DEF Ordered
  <2> QED BY <2>2, <2>3 DEF Unique
<1>4. CASE pc \in {"entry", "unlink"}
  <2>1. \A s \in Slot : ddir'[s] = dir[s]
    BY <1>4, FlushSyncs
  <2>2. Unique(dir)
    BY <1>4 DEF Ordered, Mounted
  <2> QED BY <2>1, <2>2 DEF Unique
<1> QED BY <1>1, <1>2, <1>3, <1>4

\* Nor does one move a file, or change its number.
LEMMA PutPlaced ==
  ASSUME Basic, Mounted, todo # <<>>, Put(Head(todo)), NEW c, Placed(c)
  PROVE  \E s, t \in Slot :
           /\ ddir'[s].path = c[1] /\ ddir'[t].path = c[2]
           /\ c[1] # c[2] => ddir'[s].seq < ddir'[t].seq
           /\ dir[s].path = c[1] /\ dir[s].seq = ddir'[s].seq
           /\ dir[t].path = c[2] /\ dir[t].seq = ddir'[t].seq
<1>1. PICK s \in Slot, t \in Slot :
        /\ ddir[s].path = c[1] /\ ddir[t].path = c[2]
        /\ c[1] # c[2] => ddir[s].seq < ddir[t].seq
        /\ dir[s].path = c[1] /\ dir[s].seq = ddir[s].seq
        /\ dir[t].path = c[2] /\ dir[t].seq = ddir[t].seq
  BY DEF Placed
<1>2. Head(todo) \in Job
  BY NextWrite DEF Basic
<1>3. \A u \in Slot : ddir'[u] = dir[u] \/ ddir'[u] = ddir[u]
  BY <1>2, PutAll DEF Basic
<1>4. /\ ddir'[s].path = c[1] /\ ddir'[s].seq = dir[s].seq
      /\ ddir'[t].path = c[2] /\ ddir'[t].seq = dir[t].seq
  BY <1>1, <1>3
<1> QED BY <1>1, <1>4

\* Nothing is mounted or created.
LEMMA OrderedInit == Init => Ordered
BY DEF Init, Ordered, Mounted

\* Numbering goes on above every number on disk.
LEMMA OrderedMount == Basic /\ Ordered /\ Mount => Ordered'
<1> SUFFICES ASSUME Basic, Ordered, Mount PROVE Ordered'
  OBVIOUS
<1>1. /\ pc = "off" /\ super /\ pc' = "idle" /\ dir' = ddir /\ nextSeq' = SeqAfter(ddir)
      /\ UNCHANGED <<super, ddir, op, created>>
  BY DEF Mount, diskVars, histVars
<1>2. \A s \in Slot : Used(ddir[s]) => ddir[s].seq < SeqAfter(ddir)
  BY <1>1, SeqAfterAll DEF Basic, TypeOK, Directories
<1>3. \A c \in created : Placed(c)'
  BY <1>1 DEF Ordered, Placed
<1> QED BY <1>1, <1>2, <1>3 DEF Ordered

\* Without read errors only a disk that was never formatted is.
LEMMA OrderedFormat == Basic /\ Steady /\ Ordered /\ Format => Ordered'
<1> SUFFICES ASSUME Basic, Steady, Ordered, Format PROVE Ordered'
  OBVIOUS
<1>1. /\ ~super /\ pc' = "format" /\ UNCHANGED <<super, ddir, created>>
  BY DEF Format, Steady, diskVars, histVars
<1>2. created' = {}
  BY <1>1 DEF Ordered
<1> QED BY <1>1, <1>2 DEF Ordered, Mounted

\* No files, no numbers.
LEMMA OrderedFormatDone == Basic /\ Ordered /\ FormatDone => Ordered'
<1> SUFFICES ASSUME Basic, Ordered, FormatDone PROVE Ordered'
  OBVIOUS
<1>1. /\ pc = "format" /\ pc' = "idle" /\ UNCHANGED <<super, ddir, dir, created>>
  BY DEF FormatDone, diskVars, memVars, histVars
<1>2. created' = {} /\ \A s \in Slot : dir'[s] = Free
  BY <1>1 DEF Ordered, Basic, Directories, Mounted
<1>3. Unique(dir')
  BY <1>2, FreeEntry DEF Unique
<1>4. super' => Unique(ddir')
  BY <1>1 DEF Ordered
<1> QED BY <1>1, <1>2, <1>3, <1>4, FreeEntry DEF Ordered

\* Nothing changes yet.
LEMMA OrderedWriteFile ==
  ASSUME Basic, Ordered, NEW p \in Paths, NEW n \in 0 .. MaxLen, NEW v \in Versions, WriteFile(p, n, v)
  PROVE  Ordered'
<1>1. pc = "idle" /\ pc' = "data" /\ UNCHANGED <<super, ddir, dir, nextSeq, created>>
  BY WriteFileStep
<1>2. \A c \in created : Placed(c)'
  BY <1>1 DEF Ordered, Placed, Mounted
<1> QED BY <1>1, <1>2 DEF Ordered, Mounted

\* Nor does any entry.
LEMMA OrderedPutBitmap == Basic /\ Ordered /\ PutBitmap => Ordered'
<1> SUFFICES ASSUME Basic, Ordered, PutBitmap PROVE Ordered'
  OBVIOUS
<1>1. pc = "data" /\ pc' = "bitmap" /\ UNCHANGED <<super, ddir, dir, nextSeq, created>>
  BY DEF PutBitmap, diskVars, histVars
<1>2. \A c \in created : Placed(c)'
  BY <1>1 DEF Ordered, Placed, Mounted
<1> QED BY <1>1, <1>2 DEF Ordered, Mounted

\* A new file gets the number above all others, an old one keeps its own.
LEMMA OrderedPutEntry == Basic /\ Ordered /\ PutEntry => Ordered'
<1> SUFFICES ASSUME Basic, Ordered, PutEntry PROVE Ordered'
  OBVIOUS
<1> DEFINE slot == op.slot
           e == [path |-> op.path, first |-> op.first, len |-> op.len,
                 seq |-> IF op.create THEN nextSeq ELSE dir[op.slot].seq]
<1>1. /\ pc = "bitmap" /\ pc' = "entry"
      /\ dir' = [dir EXCEPT ![slot] = e]
      /\ nextSeq' = (IF op.create THEN nextSeq + 1 ELSE nextSeq)
      /\ UNCHANGED <<super, ddir, op, created>>
  BY DEF PutEntry, diskVars, histVars
<1>2. /\ slot \in Slot /\ op.path \in Paths
      /\ op.create => dir[slot] = Free /\ \A s \in Slot : dir[s].path # op.path
      /\ ~op.create => dir[slot].path = op.path
  BY <1>1 DEF Basic, Operation, Writing
<1>3. dir \in [Slot -> Entry] /\ nextSeq \in Nat
  BY Numbers DEF Basic, TypeOK
<1>4. e.path = op.path /\ e.seq = (IF op.create THEN nextSeq ELSE dir[slot].seq)
  OBVIOUS
<1> HIDE DEF e
<1>5. dir'[slot] = e /\ \A s \in Slot : s # slot => dir'[s] = dir[s]
  BY <1>1, <1>2, <1>3
<1> HIDE DEF slot
<1>6. /\ Unique(dir)
      /\ \A s \in Slot : Used(dir[s]) => dir[s].seq < nextSeq
      /\ super' => Unique(ddir')
      /\ super => super' = super
  BY <1>1 DEF Ordered, Mounted
<1>7. \A s \in Slot : s # slot => dir[s].path # op.path
  <2>1. CASE op.create
    BY <2>1, <1>2
  <2>2. CASE ~op.create
    BY <2>2, <1>2, <1>6, PathAssumption DEF Unique, Used
  <2> QED BY <2>1, <2>2
<1>8. Unique(dir')
  BY <1>2, <1>4, <1>5, <1>6, <1>7 DEF Unique
<1>9. \A s \in Slot : dir[s].seq \in Nat
  BY <1>3, Numbers DEF Entry
<1>10. \A s \in Slot : Used(dir'[s]) => dir'[s].seq < nextSeq'
  <2>1. \A s \in Slot : s # slot /\ Used(dir'[s]) => dir'[s].seq < nextSeq'
    BY <1>1, <1>3, <1>5, <1>6, <1>9
  <2>2. dir'[slot].seq < nextSeq'
    <3>1. CASE op.create
      BY <3>1, <1>1, <1>3, <1>4, <1>5
    <3>2. CASE ~op.create
      BY <3>2, <1>1, <1>2, <1>4, <1>5, <1>6, PathAssumption DEF Used
    <3> QED BY <3>1, <3>2
  <2> QED BY <2>1, <2>2
<1>11. op.create => \A t \in Slot : Used(dir'[t]) /\ t # slot => dir'[t].seq < dir'[slot].seq
  BY <1>4, <1>5, <1>6
<1>12. ASSUME NEW c \in created PROVE Placed(c)'
  <2>0. Placed(c)
    BY DEF Ordered
  <2>c. c[1] \in Paths /\ c[2] \in Paths
    BY DEF Basic, TypeOK
  <2>1. PICK s \in Slot, t \in Slot :
          /\ ddir[s].path = c[1] /\ ddir[t].path = c[2]
          /\ c[1] # c[2] => ddir[s].seq < ddir[t].seq
          /\ dir[s].path = c[1] /\ dir[s].seq = ddir[s].seq
          /\ dir[t].path = c[2] /\ dir[t].seq = ddir[t].seq
    BY <1>1, <2>0 DEF Placed, Mounted
  <2>2. ASSUME NEW u \in Slot, dir[u].path \in Paths
        PROVE  dir'[u].path = dir[u].path /\ dir'[u].seq = dir[u].seq
    <3>1. CASE u = slot
      <4>1. ~op.create
        BY <1>2, <2>2, <3>1, PathAssumption DEF Free
      <4> QED BY <3>1, <4>1, <1>2, <1>4, <1>5
    <3>2. CASE u # slot
      BY <3>2, <1>5
    <3> QED BY <3>1, <3>2
  <2>3. /\ dir'[s].path = c[1] /\ dir'[s].seq = ddir[s].seq
        /\ dir'[t].path = c[2] /\ dir'[t].seq = ddir[t].seq
    BY <2>c, <2>1, <2>2
  <2>4. ddir' = ddir
    BY <1>1
  <2> QED BY <2>1, <2>3, <2>4 DEF Placed
<1>13. super' /\ pc' # "format"
  BY <1>1 DEF Basic, Directories, Mounted
<1> QED BY <1>1, <1>6, <1>8, <1>10, <1>11, <1>12, <1>13 DEF Ordered, slot

\* All that were created before have smaller numbers.
LEMMA OrderedWriteDone == Basic /\ Ordered /\ WriteDone => Ordered'
<1> SUFFICES ASSUME Basic, Ordered, WriteDone PROVE Ordered'
  OBVIOUS
<1>1. /\ pc = "entry" /\ todo = <<>> /\ pc' = "idle"
      /\ created' = (IF op.create
                     THEN created \cup {<<p, op.path>> : p \in {c[1] : c \in created} \cup {op.path}}
                     ELSE created)
      /\ UNCHANGED <<super, ddir, dir, nextSeq>>
  BY DEF WriteDone, diskVars, memVars
<1>2. /\ Unique(dir) /\ super
      /\ op.slot \in Slot /\ op.path \in Paths /\ dir[op.slot].path = op.path
      /\ ddir[op.slot] = dir[op.slot]
  <2>1. FlushDirEntry(op.slot) # <<>>
    BY DEF FlushDirEntry
  <2> QED BY <1>1, <2>1 DEF Ordered, Mounted, Basic, Directories, Operation, Writing, Schedule
<1>3. ASSUME NEW c \in created PROVE Placed(c)'
  <2>1. Placed(c)
    BY DEF Ordered
  <2> QED BY <1>1, <2>1 DEF Placed, Mounted
<1>4. ASSUME op.create, NEW q, q = op.path, NEW p \in {c[1] : c \in created} \cup {q}, NEW e, e = <<p, q>>
      PROVE  Placed(e)'
  <2>0. e[1] = p /\ e[2] = q
    BY <1>4
  <2>1. CASE p = q
    BY <1>1, <1>2, <1>4, <2>0, <2>1 DEF Placed
  <2>2. CASE p # q
    <3>1. PICK c \in created : c[1] = p
      BY <1>4, <2>2
    <3>2. p \in Paths
      BY <3>1 DEF Basic, TypeOK
    <3>3. PICK s \in Slot : ddir[s].path = p /\ dir[s].path = p /\ dir[s].seq = ddir[s].seq
      <4>1. Placed(c)
        BY DEF Ordered
      <4> QED BY <1>1, <3>1, <4>1 DEF Placed, Mounted
    <3>4. s # op.slot /\ Used(dir[s])
      BY <1>2, <1>4, <2>2, <3>2, <3>3, PathAssumption DEF Used
    <3>5. dir[s].seq < dir[op.slot].seq
      BY <1>1, <1>4, <3>4 DEF Ordered
    <3> DEFINE t == op.slot
    <3>6. /\ t \in Slot /\ ddir'[s].path = p /\ ddir'[t].path = q
          /\ ddir'[s].seq < ddir'[t].seq
          /\ dir'[s].path = p /\ dir'[s].seq = ddir'[s].seq
          /\ dir'[t].path = q /\ dir'[t].seq = ddir'[t].seq
      BY <1>1, <1>2, <1>4, <3>3, <3>5
    <3> HIDE DEF t
    <3> QED BY <2>0, <3>6 DEF Placed
  <2> QED BY <2>1, <2>2
<1>5. \A c \in created' : Placed(c)'
  <2>1. CASE op.create
    <3>1. \A c \in created' : c \in created \/ \E p \in {d[1] : d \in created} \cup {op.path} : c = <<p, op.path>>
      BY <1>1, <2>1
    <3> QED BY <1>3, <1>4, <2>1, <3>1
  <2>2. CASE ~op.create
    BY <1>1, <1>3, <2>2
  <2> QED BY <2>1, <2>2
<1> QED BY <1>1, <1>2, <1>5 DEF Ordered, Mounted

\* The others stay where they are.
LEMMA OrderedRemove ==
  ASSUME Basic, Ordered, NEW p \in Paths, Remove(p)
  PROVE  Ordered'
<1>1. /\ pc = "idle" /\ pc' = "unlink" /\ op'.slot \in Slot
      /\ dir[op'.slot].path = p
      /\ dir'[op'.slot] = Free /\ \A s \in Slot : s # op'.slot => dir'[s] = dir[s]
      /\ created' = {c \in created : p # c[1] /\ p # c[2]}
      /\ UNCHANGED <<super, ddir, nextSeq>>
  BY RemoveStep
<1>2. /\ Unique(dir) /\ super
      /\ \A s \in Slot : Used(dir[s]) => dir[s].seq < nextSeq
      /\ super => Unique(ddir)
  BY <1>1 DEF Ordered, Mounted, Basic, Directories
<1>3. Unique(dir')
  <2>1. \A s \in Slot : Used(dir'[s]) => s # op'.slot /\ dir'[s] = dir[s]
    BY <1>1, FreeEntry
  <2>2. \A s, t \in Slot : Used(dir'[s]) /\ dir'[s].path = dir'[t].path => Used(dir'[t])
    BY DEF Used
  <2> QED BY <1>2, <2>1, <2>2 DEF Unique
<1>4. \A s \in Slot : Used(dir'[s]) => dir'[s].seq < nextSeq'
  BY <1>1, <1>2, FreeEntry
<1>5. ASSUME NEW c \in created' PROVE Placed(c)'
  <2>1. c \in created /\ p # c[1] /\ p # c[2]
    BY <1>1
  <2>2. Placed(c)
    BY <2>1 DEF Ordered
  <2>3. PICK s \in Slot, t \in Slot :
          /\ ddir[s].path = c[1] /\ ddir[t].path = c[2]
          /\ c[1] # c[2] => ddir[s].seq < ddir[t].seq
          /\ dir[s].path = c[1] /\ dir[s].seq = ddir[s].seq
          /\ dir[t].path = c[2] /\ dir[t].seq = ddir[t].seq
    BY <1>1, <2>2 DEF Placed, Mounted
  <2>4. dir'[s] = dir[s] /\ dir'[t] = dir[t] /\ ddir' = ddir
    BY <1>1, <2>1, <2>3
  <2> QED BY <2>3, <2>4 DEF Placed
<1> QED BY <1>1, <1>2, <1>3, <1>4, <1>5 DEF Ordered

\* No entry changes.
LEMMA OrderedFreeBlocks == Basic /\ Ordered /\ FreeBlocks => Ordered'
<1> SUFFICES ASSUME Basic, Ordered, FreeBlocks PROVE Ordered'
  OBVIOUS
<1>1. pc = "unlink" /\ pc' = "release" /\ UNCHANGED <<super, ddir, dir, nextSeq, created>>
  BY DEF FreeBlocks, diskVars, histVars
<1>2. \A c \in created : Placed(c)'
  BY <1>1 DEF Ordered, Placed, Mounted
<1> QED BY <1>1, <1>2 DEF Ordered, Mounted

\* No entry changes.
LEMMA OrderedRemoveDone == Basic /\ Ordered /\ RemoveDone => Ordered'
<1> SUFFICES ASSUME Basic, Ordered, RemoveDone PROVE Ordered'
  OBVIOUS
<1>1. pc = "release" /\ pc' = "idle" /\ UNCHANGED <<super, ddir, dir, nextSeq, created>>
  BY DEF RemoveDone, diskVars, memVars
<1>2. \A c \in created : Placed(c)'
  BY <1>1 DEF Ordered, Placed, Mounted
<1> QED BY <1>1, <1>2 DEF Ordered, Mounted

\* By PutUnique and PutPlaced.
LEMMA OrderedDeviceWrite == Basic /\ Steady /\ Ordered /\ DeviceWrite => Ordered'
<1> SUFFICES ASSUME Basic, Steady, Ordered, DeviceWrite PROVE Ordered'
  OBVIOUS
<1>1. /\ todo # <<>> /\ Put(Head(todo))
      /\ UNCHANGED <<dir, nextSeq, pc, op, created>>
  BY DEF DeviceWrite, memVars, histVars
<1>2. (super' => Unique(ddir')) /\ (super => super')
  BY <1>1, PutUnique, PutBasic
<1>3. \A c \in created : Placed(c)'
  <2> SUFFICES ASSUME NEW c \in created PROVE Placed(c)'
    OBVIOUS
  <2>1. Mounted
    BY <1>1, NextWrite DEF Ordered, Mounted, Basic
  <2>2. Placed(c)
    BY DEF Ordered
  <2> QED BY <1>1, <2>1, <2>2, PutPlaced DEF Placed
<1> QED BY <1>1, <1>2, <1>3 DEF Ordered, Mounted

\* The same, or nothing was written.
LEMMA OrderedWriteError == Basic /\ Steady /\ Ordered /\ WriteError => Ordered'
<1> SUFFICES ASSUME Basic, Steady, Ordered, WriteError PROVE Ordered'
  OBVIOUS
<1>1. todo # <<>> /\ created' = created /\ pc \notin {"off", "idle"}
  BY NextWrite DEF WriteError, Basic
<1>2. Put(Head(todo)) \/ UNCHANGED <<super, dbitmap, ddir, data>>
  BY DEF WriteError, diskVars
<1>3. /\ pc = "format" => pc' = "off"
      /\ pc # "format" => pc' = "idle" /\ UNCHANGED <<dir, nextSeq>>
  BY DEF WriteError, memVars
<1>4. (super' => Unique(ddir')) /\ (super => super')
  <2>1. CASE Put(Head(todo))
    BY <1>1, <2>1, PutUnique, PutBasic
  <2>2. CASE UNCHANGED <<super, dbitmap, ddir, data>>
    BY <2>2 DEF Ordered
  <2> QED BY <1>2, <2>1, <2>2
<1>5. CASE pc = "format"
  BY <1>1, <1>3, <1>4, <1>5 DEF Ordered, Mounted
<1>6. CASE pc # "format"
  <2>1. Mounted /\ super' /\ pc' = "idle" /\ UNCHANGED <<dir, nextSeq>>
    BY <1>1, <1>3, <1>4, <1>6 DEF Mounted, Basic, Directories
  <2>2. ASSUME NEW c \in created PROVE Placed(c)'
    <3>1. Placed(c)
      BY DEF Ordered
    <3>2. CASE Put(Head(todo))
      BY <1>1, <2>1, <3>1, <3>2, PutPlaced DEF Placed
    <3>3. CASE UNCHANGED <<super, dbitmap, ddir, data>>
      BY <2>1, <3>1, <3>3 DEF Placed
    <3> QED BY <1>2, <3>2, <3>3
  <2>3. Unique(dir) /\ \A s \in Slot : Used(dir[s]) => dir[s].seq < nextSeq
    BY <2>1 DEF Ordered
  <2> QED BY <1>1, <1>4, <2>1, <2>2, <2>3 DEF Ordered
<1> QED BY <1>5, <1>6

\* What is on disk stays there.
LEMMA OrderedStop == Basic /\ Ordered /\ (Reboot \/ Crash) => Ordered'
<1> SUFFICES ASSUME Basic, Ordered, Reboot \/ Crash PROVE Ordered'
  OBVIOUS
<1>1. pc' = "off" /\ UNCHANGED <<super, ddir, created>>
  BY DEF Reboot, Crash, PowerOff, diskVars
<1>2. \A c \in created : Placed(c)'
  BY <1>1 DEF Ordered, Placed, Mounted
<1> QED BY <1>1, <1>2 DEF Ordered, Mounted

\* All steps together.
LEMMA OrderedNext == Basic /\ Steady /\ Ordered /\ [Next]_vars => Ordered'
<1> SUFFICES ASSUME Basic, Steady, Ordered, [Next]_vars PROVE Ordered'
  OBVIOUS
<1>1. CASE UNCHANGED vars
  <2>1. UNCHANGED <<super, ddir, dir, nextSeq, pc, op, created>>
    BY <1>1 DEF vars, diskVars, memVars, histVars
  <2>2. \A c \in created : Placed(c)'
    BY <2>1 DEF Ordered, Placed, Mounted
  <2> QED BY <2>1, <2>2 DEF Ordered, Mounted
<1>2. CASE Next
  BY <1>2, OrderedMount, OrderedFormat, OrderedFormatDone, OrderedWriteFile, OrderedPutBitmap,
    OrderedPutEntry, OrderedWriteDone, OrderedRemove, OrderedFreeBlocks, OrderedRemoveDone,
    OrderedDeviceWrite, OrderedWriteError, OrderedStop DEF Next
<1> QED BY <1>1, <1>2

\* Ordered is an invariant of a steady disk.
LEMMA OrderedHolds == ASSUME Steady PROVE Spec => []Ordered
<1>1. Init => Ordered
  BY OrderedInit
<1>2. Basic /\ Ordered /\ [Next]_vars => Ordered'
  BY OrderedNext
<1> QED BY <1>1, <1>2, BasicHolds, PTL DEF Spec

\* The numbers are in the order of creation.
LEMMA ListedInOrder == Basic /\ Ordered => ListedInCreationOrder
<1>0. Basic => \A c \in created : c[1] \in Paths /\ c[2] \in Paths
  BY DEF Basic, TypeOK
<1> SUFFICES ASSUME Basic, Ordered, pc = "idle", NEW c \in created, c[1] # c[2],
                    NEW s \in Find(c[1]), NEW t \in Find(c[2])
             PROVE  dir[s].seq < dir[t].seq
  BY DEF ListedInCreationOrder
<1>1. s \in Slot /\ t \in Slot /\ dir[s].path = c[1] /\ dir[t].path = c[2]
  BY DEF Find
<1>2. PICK u \in Slot, w \in Slot :
        /\ ddir[u].path = c[1] /\ ddir[w].path = c[2] /\ ddir[u].seq < ddir[w].seq
        /\ dir[u].path = c[1] /\ dir[u].seq = ddir[u].seq
        /\ dir[w].path = c[2] /\ dir[w].seq = ddir[w].seq
  BY DEF Ordered, Placed, Mounted
<1>3. \A x \in Slot : dir[x].path = c[1] \/ dir[x].path = c[2] => Used(dir[x])
  <2>2. c[1] \in Paths /\ c[2] \in Paths
    BY <1>0
  <2> QED BY <2>2, PathAssumption DEF Used
<1>4. u = s /\ w = t
  BY <1>1, <1>2, <1>3 DEF Ordered, Unique, Mounted
<1> QED BY <1>2, <1>4

\* list (diskfs.rs) shows files by the numbers of their entries, and those are in
\* the order the files were created, across overwrites, reboots and interruptions.
THEOREM CreationOrder ==
  ASSUME "read error" \notin Faults, "write error" \notin Faults \/ SlotCount <= EntriesPerSector
  PROVE  Spec => []ListedInCreationOrder
<1>1. Steady
  BY DEF Steady
<1>2. Spec => []Ordered
  BY <1>1, OrderedHolds
<1> QED BY ListedInOrder, <1>2, BasicHolds, PTL

-----------------------------------------------------------------------------
(* What is known of each file is there, whichever operation is under way.  *)

\* Slot s of a directory shows file p as it was last left.
Shows(d, s, p) ==
  /\ d[s].path = p /\ d[s].len = stored[p].len
  /\ \A i \in 0 .. stored[p].len - 1 : data[d[s].first + i] = <<p, stored[p].version, i>>

\* In the directory on disk and in the one in memory, in the same slot.
There(p) ==
  IF stored[p] = NoFile
  THEN \A s \in Slot : (super => ddir[s].path # p) /\ (Mounted => dir[s].path # p)
  ELSE \E s \in Slot : (super => Shows(ddir, s, p)) /\ (Mounted => Shows(dir, s, p))

Contained ==
  /\ pc \notin {"off", "idle", "format"} => ~cut
  /\ ~super \/ pc = "format" => \A p \in Paths : stored[p] \in {NoFile, Unknown}
  /\ \A p \in Paths : stored[p] # Unknown => There(p)
  /\ pc = "data" => \A b \in OpBlocks : data[b] = Contents(b) \/ Due(<<"data", b>>, todo)
  /\ pc \in {"bitmap", "entry"} => \A b \in OpBlocks : data[b] = Contents(b)
  /\ Removing => \A s \in Slot : dir[s].path # op.path
  /\ (pc = "unlink" /\ todo = <<>>) \/ pc = "release" => \A s \in Slot : ddir[s].path # op.path

\* What is known of a file is one of these.
LEMMA Known ==
  ASSUME TypeOK, NEW p \in Paths, stored[p] # Unknown, stored[p] # NoFile
  PROVE  \E n \in 0 .. MaxLen, v \in Versions : stored[p] = File(n, v)
BY DEF TypeOK

\* A file, as stored keeps it, is neither missing nor unknown.
LEMMA FileFields ==
  \A n, v : /\ File(n, v).len = n /\ File(n, v).version = v
            /\ File(n, v) # NoFile /\ File(n, v) # Unknown
BY DEF File, NoFile, Unknown

\* That there is no file is something known.
LEMMA NoFileFields == NoFile # Unknown
BY DEF NoFile, Unknown

\* As long as stored, data and the slots it was in stay, a file stays there.
LEMMA StaysThere ==
  ASSUME NEW p, There(p), stored[p] = stored'[p], data' = data,
         \A s \in Slot : super' => (super /\ ddir'[s] = ddir[s]) \/ (Mounted /\ ddir'[s] = dir[s]),
         \A s \in Slot : Mounted' => (super /\ dir'[s] = ddir[s]) \/ (Mounted /\ dir'[s] = dir[s])
  PROVE  There(p)'
<1> DEFINE e == stored[p]
<1>1. CASE e = NoFile
  <2>1. \A s \in Slot : (super => ddir[s].path # p) /\ (Mounted => dir[s].path # p)
    BY <1>1 DEF There
  <2>2. \A s \in Slot : (super' => ddir'[s].path # p) /\ (Mounted' => dir'[s].path # p)
    BY <2>1
  <2> QED BY <1>1, <2>2 DEF There
<1>2. CASE e # NoFile
  <2>1. PICK s \in Slot : (super => Shows(ddir, s, p)) /\ (Mounted => Shows(dir, s, p))
    BY <1>2 DEF There
  <2>2. super' => Shows(ddir, s, p)'
    <3>1. super' => (super /\ ddir'[s] = ddir[s]) \/ (Mounted /\ ddir'[s] = dir[s])
      OBVIOUS
    <3> QED BY <2>1, <3>1 DEF Shows
  <2>3. Mounted' => Shows(dir, s, p)'
    <3>1. Mounted' => (super /\ dir'[s] = ddir[s]) \/ (Mounted /\ dir'[s] = dir[s])
      OBVIOUS
    <3> QED BY <2>1, <3>1 DEF Shows
  <2> QED BY <1>2, <2>2, <2>3 DEF There
<1> QED BY <1>1, <1>2

\* No path has a file.
LEMMA ContainedInit == Init => Contained
BY FreeEntry DEF Init, Contained, There, Mounted, Removing

\* The working copy is the disk.
LEMMA ContainedMount == Basic /\ Contained /\ Mount => Contained'
<1> SUFFICES ASSUME Basic, Contained, Mount PROVE Contained'
  OBVIOUS
<1>1. /\ pc = "off" /\ super /\ pc' = "idle" /\ dir' = ddir
      /\ UNCHANGED <<super, ddir, data, stored>>
  BY DEF Mount, diskVars, histVars
<1>2. ASSUME NEW p \in Paths, stored[p] # Unknown PROVE There(p)'
  <2>1. There(p)
    BY <1>2 DEF Contained
  <2> QED BY <1>1, <2>1, StaysThere
<1> QED BY <1>1, <1>2 DEF Contained, Removing

\* A disk that is formatted had no files.
LEMMA ContainedFormat == Basic /\ Steady /\ Contained /\ Format => Contained'
<1> SUFFICES ASSUME Basic, Steady, Contained, Format PROVE Contained'
  OBVIOUS
<1>1. /\ ~super /\ pc' = "format" /\ UNCHANGED <<super, ddir, data, stored>>
  BY DEF Format, Steady, diskVars, histVars
<1>2. \A p \in Paths : stored[p] \in {NoFile, Unknown}
  BY <1>1 DEF Contained
<1>3. ASSUME NEW p \in Paths, stored[p] # Unknown PROVE There(p)'
  BY <1>1, <1>2, <1>3 DEF There, Mounted
<1> QED BY <1>1, <1>2, <1>3 DEF Contained, Removing

\* And it has none.
LEMMA ContainedFormatDone == Basic /\ Contained /\ FormatDone => Contained'
<1> SUFFICES ASSUME Basic, Contained, FormatDone PROVE Contained'
  OBVIOUS
<1>1. /\ pc = "format" /\ pc' = "idle" /\ UNCHANGED <<super, ddir, dir, data, stored>>
  BY DEF FormatDone, diskVars, memVars, histVars
<1>2. super /\ todo = <<>>
  BY <1>1 DEF FormatDone, Basic, Schedule
<1>3. \A s \in Slot : dir[s] = Free
  BY <1>1 DEF Basic, Directories, Mounted
<1>4. ASSUME NEW p \in Paths, stored[p] # Unknown PROVE There(p)'
  <2>1. stored[p] = NoFile /\ There(p)
    BY <1>1, <1>4 DEF Contained
  <2>2. \A s \in Slot : ddir[s].path # p
    BY <1>2, <2>1 DEF There
  <2>3. \A s \in Slot : dir[s].path # p
    BY <1>3, PathAssumption DEF Free
  <2> QED BY <1>1, <2>1, <2>2, <2>3 DEF There
<1> QED BY <1>1, <1>2, <1>4 DEF Contained, Removing

\* Nothing is known of the file from here on; the other files stay.
LEMMA ContainedWriteFile ==
  ASSUME Basic, ~UseAfterCut, Contained,
         NEW p \in Paths, NEW n \in 0 .. MaxLen, NEW v \in Versions, WriteFile(p, n, v)
  PROVE  Contained'
<1>1. /\ pc = "idle" /\ pc' = "data"
      /\ stored' = [stored EXCEPT ![p] = Unknown]
      /\ UNCHANGED <<super, ddir, data, dir, cut>>
  BY WriteFileStep
<1>2. ~cut
  BY DEF WriteFile
<1>3. OpBlocks' \subseteq Block /\ todo' = Writes("data", OpBlocks')
  BY WriteFileStep
<1>4. \A b \in OpBlocks' : Due(<<"data", b>>, todo')
  <2> DEFINE T == OpBlocks'
  <2> HIDE DEF T
  <2>1. T \subseteq Block /\ todo' = Writes("data", T)
    BY <1>3 DEF T
  <2>2. \A b \in T : Due(<<"data", b>>, todo')
    BY <2>1, DataAll
  <2> QED BY <2>2 DEF T
<1>5. ASSUME NEW q \in Paths, stored'[q] # Unknown PROVE There(q)'
  <2>1. stored'[q] = stored[q]
    BY <1>1, <1>5 DEF Basic, TypeOK
  <2>2. There(q)
    BY <1>5, <2>1 DEF Contained
  <2> QED BY <1>1, <2>1, <2>2, StaysThere DEF Mounted
<1>6. super
  BY <1>1 DEF Basic, Directories, Mounted
<1> QED BY <1>1, <1>2, <1>4, <1>5, <1>6 DEF Contained, Removing

\* All the data has been written.
LEMMA ContainedPutBitmap == Basic /\ Contained /\ PutBitmap => Contained'
<1> SUFFICES ASSUME Basic, Contained, PutBitmap PROVE Contained'
  OBVIOUS
<1>1. /\ pc = "data" /\ todo = <<>> /\ pc' = "bitmap"
      /\ UNCHANGED <<super, ddir, data, dir, op, stored, cut>>
  BY DEF PutBitmap, diskVars, histVars
<1>2. ASSUME NEW p \in Paths, stored[p] # Unknown PROVE There(p)'
  <2>1. There(p)
    BY <1>2 DEF Contained
  <2> QED BY <1>1, <2>1, StaysThere DEF Mounted
<1>3. \A b \in OpBlocks : data[b] = Contents(b)
  BY <1>1, DueEmpty DEF Contained
<1>4. \A b \in OpBlocks' : data'[b] = Contents(b)'
  BY <1>1, <1>3 DEF OpBlocks, Contents
<1> QED BY <1>1, <1>2, <1>4 DEF Contained, Removing

\* The slot of an operation shows no other file.
LEMMA OtherSlot ==
  ASSUME Basic, Writing, pc # "entry", NEW p \in Paths, p # op.path,
         NEW s \in Slot, dir[s].path = p
  PROVE  s # op.slot
BY PathAssumption DEF Basic, Operation, Writing, Free

\* The slot showed no file that is known.
LEMMA ContainedPutEntry == Basic /\ Contained /\ PutEntry => Contained'
<1> SUFFICES ASSUME Basic, Contained, PutEntry PROVE Contained'
  OBVIOUS
<1> DEFINE slot == op.slot
<1>1. /\ pc = "bitmap" /\ pc' = "entry"
      /\ UNCHANGED <<super, ddir, data, op, stored, cut>>
  BY DEF PutEntry, diskVars, histVars
<1>2. slot \in Slot /\ stored[op.path] = Unknown
  BY <1>1 DEF Basic, Operation, Writing
<1>3. dir'[slot].path = op.path /\ \A s \in Slot : s # slot => dir'[s] = dir[s]
  BY <1>2 DEF PutEntry, Basic, TypeOK
<1>4. ASSUME NEW p \in Paths, stored[p] # Unknown PROVE There(p)'
  <2>0. There(p) /\ p # op.path
    BY <1>2, <1>4 DEF Contained
  <2>1. CASE stored[p] = NoFile
    <3>1. \A s \in Slot : (super => ddir[s].path # p) /\ dir[s].path # p
      BY <1>1, <2>0, <2>1 DEF There, Mounted
    <3>2. \A s \in Slot : dir'[s].path # p
      BY <1>3, <2>0, <3>1
    <3> QED BY <1>1, <2>1, <3>1, <3>2 DEF There
  <2>2. CASE stored[p] # NoFile
    <3>1. PICK s \in Slot : (super => Shows(ddir, s, p)) /\ Shows(dir, s, p)
      BY <1>1, <2>0, <2>2 DEF There, Mounted
    <3>2. s # slot
      BY <1>1, <2>0, <3>1, OtherSlot DEF Writing, Shows
    <3>3. (super' => Shows(ddir, s, p)') /\ Shows(dir, s, p)'
      BY <1>1, <1>3, <3>1, <3>2 DEF Shows
    <3> QED BY <1>1, <2>2, <3>3 DEF There
  <2> QED BY <2>1, <2>2
<1>5. \A b \in OpBlocks' : data'[b] = Contents(b)'
  BY <1>1 DEF Contained, OpBlocks, Contents
<1>6. super
  BY <1>1 DEF Basic, Directories, Mounted
<1> QED BY <1>1, <1>4, <1>5, <1>6 DEF Contained, Removing

\* The entry, on disk and in memory, points at the data that was written.
LEMMA ContainedWriteDone == Basic /\ Contained /\ WriteDone => Contained'
<1> SUFFICES ASSUME Basic, Contained, WriteDone PROVE Contained'
  OBVIOUS
<1>1. /\ pc = "entry" /\ todo = <<>> /\ pc' = "idle"
      /\ stored' = [stored EXCEPT ![op.path] = File(op.len, op.version)]
      /\ UNCHANGED <<super, ddir, data, dir, cut>>
  BY DEF WriteDone, diskVars, memVars
<1>2. /\ op.path \in Paths /\ op.slot \in Slot /\ super
      /\ dir[op.slot].path = op.path /\ dir[op.slot].first = op.first /\ dir[op.slot].len = op.len
      /\ op.first \in Nat /\ op.len \in Nat
  BY <1>1, Numbers DEF Basic, Directories, Mounted, Operation, Writing
<1>3. ddir[op.slot] = dir[op.slot]
  <2>1. FlushDirEntry(op.slot) # <<>>
    BY DEF FlushDirEntry
  <2> QED BY <1>1, <2>1 DEF Basic, Schedule
<1>4. stored \in [Paths -> {NoFile, Unknown} \cup {File(n, v) : n \in 0 .. MaxLen, v \in Versions}]
  BY DEF Basic, TypeOK
<1>5. \A i \in 0 .. op.len - 1 : data[op.first + i] = <<op.path, op.version, i>>
  <2> TAKE i \in 0 .. op.len - 1
  <2>1. op.first + i \in OpBlocks /\ (op.first + i) - op.first = i
    BY <1>2 DEF OpBlocks, Run
  <2>2. data[op.first + i] = Contents(op.first + i)
    BY <1>1, <2>1 DEF Contained
  <2> QED BY <2>1, <2>2 DEF Contents
<1> DEFINE p == op.path
           s == op.slot
           e == File(op.len, op.version)
<1>6. ASSUME NEW q, q = p PROVE There(q)'
  <2>0. stored'[q] = e /\ e.len = op.len /\ e.version = op.version /\ e # NoFile
    BY <1>1, <1>2, <1>4, <1>6, FileFields
  <2>1. \A u : u = s => Shows(ddir, u, q)' /\ Shows(dir, u, q)'
    BY <1>1, <1>2, <1>3, <1>5, <1>6, <2>0 DEF Shows
  <2> QED BY <1>2, <2>0, <2>1 DEF There
<1>7. ASSUME NEW q \in Paths, q # p, stored'[q] # Unknown PROVE There(q)'
  <2>1. stored'[q] = stored[q]
    BY <1>1, <1>4, <1>7
  <2>2. There(q)
    BY <1>7, <2>1 DEF Contained
  <2> QED BY <1>1, <2>1, <2>2, StaysThere DEF Mounted
<1> QED BY <1>1, <1>2, <1>6, <1>7 DEF Contained, Removing

\* The path was in one slot, so it is in none.
LEMMA ContainedRemove ==
  ASSUME Basic, ~UseAfterCut, Ordered, Contained, NEW p \in Paths, Remove(p)
  PROVE  Contained'
<1>1. /\ pc = "idle" /\ pc' = "unlink" /\ op'.slot \in Slot /\ op'.path = p
      /\ dir[op'.slot].path = p
      /\ dir'[op'.slot] = Free /\ \A s \in Slot : s # op'.slot => dir'[s] = dir[s]
      /\ todo' = FlushDirEntry(op'.slot)
      /\ stored' = [stored EXCEPT ![p] = Unknown]
      /\ UNCHANGED <<super, ddir, data, cut>>
  BY RemoveStep
<1>2. ~cut /\ Unique(dir) /\ super /\ todo' # <<>>
  BY <1>1, FlushEntry DEF Remove, Ordered, Mounted, Basic, Directories
<1>3. \A s \in Slot : dir'[s].path # p
  BY <1>1, <1>2, PathAssumption DEF Unique, Used, Free
<1>4. ASSUME NEW q \in Paths, stored'[q] # Unknown PROVE There(q)'
  <2>1. stored'[q] = stored[q] /\ q # p
    BY <1>1, <1>4 DEF Basic, TypeOK
  <2>2. There(q)
    BY <1>4, <2>1 DEF Contained
  <2>3. CASE stored[q] = NoFile
    <3>1. \A s \in Slot : ddir[s].path # q /\ dir[s].path # q
      BY <1>1, <1>2, <2>2, <2>3 DEF There, Mounted
    <3>2. \A s \in Slot : dir'[s].path # q
      BY <1>1, <3>1, PathAssumption DEF Free
    <3> QED BY <1>1, <2>1, <2>3, <3>1, <3>2 DEF There
  <2>4. CASE stored[q] # NoFile
    <3>1. PICK s \in Slot : Shows(ddir, s, q) /\ Shows(dir, s, q)
      BY <1>1, <1>2, <2>2, <2>4 DEF There, Mounted
    <3>2. s # op'.slot
      BY <1>1, <2>1, <3>1 DEF Shows
    <3>3. Shows(ddir, s, q)' /\ Shows(dir, s, q)'
      BY <1>1, <2>1, <3>1, <3>2 DEF Shows
    <3> QED BY <2>1, <2>4, <3>3 DEF There
  <2> QED BY <2>3, <2>4
<1> QED BY <1>1, <1>2, <1>3, <1>4 DEF Contained, Removing

\* The sector of the cleared entry has been written.
LEMMA ContainedFreeBlocks == Basic /\ Contained /\ FreeBlocks => Contained'
<1> SUFFICES ASSUME Basic, Contained, FreeBlocks PROVE Contained'
  OBVIOUS
<1>1. /\ pc = "unlink" /\ todo = <<>> /\ pc' = "release"
      /\ UNCHANGED <<super, ddir, data, dir, op, stored, cut>>
  BY DEF FreeBlocks, diskVars, histVars
<1>2. ASSUME NEW p \in Paths, stored[p] # Unknown PROVE There(p)'
  <2>1. There(p)
    BY <1>2 DEF Contained
  <2> QED BY <1>1, <2>1, StaysThere DEF Mounted
<1>3. /\ \A s \in Slot : dir[s].path # op.path
      /\ \A s \in Slot : ddir[s].path # op.path
  BY <1>1 DEF Contained, Removing
<1>4. super
  BY <1>1 DEF Basic, Directories, Mounted
<1> QED BY <1>1, <1>2, <1>3, <1>4 DEF Contained

\* The path is in no slot, on disk or in memory.
LEMMA ContainedRemoveDone == Basic /\ Contained /\ RemoveDone => Contained'
<1> SUFFICES ASSUME Basic, Contained, RemoveDone PROVE Contained'
  OBVIOUS
<1>1. /\ pc = "release" /\ todo = <<>> /\ pc' = "idle"
      /\ stored' = [stored EXCEPT ![op.path] = NoFile]
      /\ UNCHANGED <<super, ddir, data, dir, cut>>
  BY DEF RemoveDone, diskVars, memVars
<1>2. /\ \A s \in Slot : dir[s].path # op.path
      /\ \A s \in Slot : ddir[s].path # op.path
  BY <1>1 DEF Contained, Removing
<1>3. super
  BY <1>1 DEF Basic, Directories, Mounted
<1>4. stored \in [Paths -> {NoFile, Unknown} \cup {File(n, v) : n \in 0 .. MaxLen, v \in Versions}]
  BY DEF Basic, TypeOK
<1>5. ASSUME NEW q \in Paths, stored'[q] # Unknown PROVE There(q)'
  <2>1. CASE q = op.path
    BY <1>1, <1>2, <1>4, <2>1 DEF There
  <2>2. CASE q # op.path
    <3>1. stored'[q] = stored[q]
      BY <1>1, <1>4, <2>2
    <3>2. There(q)
      BY <1>5, <3>1 DEF Contained
    <3> QED BY <1>1, <3>1, <3>2, StaysThere DEF Mounted
  <2> QED BY <2>1, <2>2
<1> QED BY <1>1, <1>3, <1>5 DEF Contained, Removing

\* A device write of a mounted volume leaves every file it knows where it was.
LEMMA PutThere ==
  ASSUME Basic, Owned, Steady, Contained, Mounted, todo # <<>>, Put(Head(todo)),
         NEW p \in Paths, stored[p] # Unknown, stored'[p] = stored[p], Mounted',
         dir' = dir
  PROVE  There(p)'
<1>0. super /\ There(p)
  BY DEF Basic, Directories, Contained
<1>1. pc \in {"data", "bitmap", "entry", "unlink", "release"}
  BY NextWrite DEF Basic, TypeOK, Mounted
<1>2. CASE pc \in {"entry", "unlink"}
  <2>1. \A s \in Slot : ddir'[s] = dir[s]
    BY <1>2, FlushSyncs
  <2>2. data' = data
    <3>1. Head(todo)[1] = "dir"
      BY <1>2, NextWrite DEF Basic
    <3> QED BY <3>1 DEF Put
  <2> QED BY <1>0, <2>1, <2>2, StaysThere
<1>3. CASE pc \in {"bitmap", "release"}
  <2>1. \A s \in Slot : ddir'[s] = ddir[s]
    BY <1>3, OtherWrite
  <2>2. data' = data
    <3>1. Head(todo)[1] = "bitmap"
      BY <1>3, NextWrite DEF Basic
    <3> QED BY <3>1 DEF Put
  <2> QED BY <1>0, <2>1, <2>2, StaysThere
<1>4. CASE pc = "data"
  <2>1. \A s \in Slot : ddir'[s] = ddir[s]
    BY <1>4, OtherWrite
  <2> DEFINE b == Head(todo)[2]
  <2>2. b \in OpBlocks /\ data' = [data EXCEPT ![b] = Contents(b)]
    BY <1>4, NextWrite, PutAll DEF Basic
  <2> HIDE DEF b
  <2>3. CASE stored[p] = NoFile
    BY <1>0, <2>1, <2>3 DEF There
  <2>4. CASE stored[p] # NoFile
    <3>1. PICK s \in Slot : Shows(ddir, s, p) /\ Shows(dir, s, p)
      BY <1>0, <2>4 DEF There
    <3>2. op.path # p
      BY <1>4 DEF Basic, Operation, Writing
    <3>3. s # op.slot
      BY <1>4, <3>1, <3>2, OtherSlot DEF Writing, Shows
    <3>4. Clear(dir[s], OpBlocks) /\ Clear(ddir[s], OpBlocks)
      <4>1. Sound
        BY <1>4 DEF Contained, Sound, Steady
      <4>2. RunOwned
        BY <1>0, <1>4, <4>1 DEF Owned, Mounted
      <4> QED BY <1>4, <3>3, <4>2 DEF RunOwned, Writing
    <3>5. Used(dir[s]) /\ Used(ddir[s])
      BY <3>1, PathAssumption DEF Shows, Used
    <3>6. b \notin Blocks(dir[s]) /\ b \notin Blocks(ddir[s])
      BY <2>2, <3>4, <3>5 DEF Clear
    <3>7. \A i \in 0 .. stored[p].len - 1 : data'[dir[s].first + i] = data[dir[s].first + i]
      <4> TAKE i \in 0 .. stored[p].len - 1
      <4>1. dir[s].first \in Nat /\ dir[s].len \in Nat /\ dir[s].len = stored[p].len
        BY <3>1, Numbers DEF Basic, TypeOK, Entry, Shows
      <4>2. dir[s].first + i \in Blocks(dir[s])
        BY <4>1 DEF Blocks, Run
      <4> QED BY <2>2, <3>6, <4>2
    <3>8. \A i \in 0 .. stored[p].len - 1 : data'[ddir[s].first + i] = data[ddir[s].first + i]
      <4> TAKE i \in 0 .. stored[p].len - 1
      <4>1. ddir[s].first \in Nat /\ ddir[s].len \in Nat /\ ddir[s].len = stored[p].len
        BY <3>1, Numbers DEF Basic, TypeOK, Entry, Shows
      <4>2. ddir[s].first + i \in Blocks(ddir[s])
        BY <4>1 DEF Blocks, Run
      <4> QED BY <2>2, <3>6, <4>2
    <3>9. Shows(ddir, s, p)' /\ Shows(dir, s, p)'
      BY <2>1, <3>1, <3>7, <3>8 DEF Shows
    <3> QED BY <2>4, <3>9 DEF There
  <2> QED BY <2>3, <2>4
<1> QED BY <1>1, <1>2, <1>3, <1>4

\* The last write of a format leaves a recognised disk without files.
LEMMA PutFormat ==
  ASSUME Basic, Steady, pc = "format", todo # <<>>, Put(Head(todo)), super'
  PROVE  \A s \in Slot : ddir'[s] = Free
<1>1. Tail(todo) = <<>>
  BY PutBasic DEF Basic, Schedule, Steady
<1>2. \A s \in Slot : ddir'[s] = dir[s] \/ Due(<<"dir", s \div EntriesPerSector>>, Tail(todo))
  BY PutBasic
<1> QED BY <1>1, <1>2, DueEmpty DEF Basic, Directories, Mounted

\* By PutThere; the data block written is no longer due.
LEMMA ContainedDeviceWrite ==
  Basic /\ Owned /\ Steady /\ Contained /\ DeviceWrite => Contained'
<1> SUFFICES ASSUME Basic, Owned, Steady, Contained, DeviceWrite PROVE Contained'
  OBVIOUS
<1>1. /\ todo # <<>> /\ Put(Head(todo)) /\ todo' = Tail(todo)
      /\ UNCHANGED <<dir, pc, op, stored, cut>>
  BY DEF DeviceWrite, memVars, histVars
<1>2. (super => super') /\ todo \in Seq(Job) /\ pc # "off"
  BY <1>1, PutBasic, NextWrite DEF Basic, Schedule
<1>3. ASSUME NEW p \in Paths, stored'[p] # Unknown PROVE There(p)'
  <2>1. CASE pc = "format"
    <3>1. stored'[p] = NoFile
      BY <1>1, <1>3, <2>1 DEF Contained
    <3>2. super' => \A s \in Slot : ddir'[s].path # p
      BY <1>1, <2>1, PutFormat, PathAssumption DEF Free
    <3> QED BY <1>1, <2>1, <3>1, <3>2 DEF There, Mounted
  <2>2. CASE pc # "format"
    BY <1>1, <1>2, <1>3, <2>2, PutThere DEF Mounted
  <2> QED BY <2>1, <2>2
<1>4. ASSUME pc = "data" PROVE \A b \in OpBlocks : data'[b] = Contents(b) \/ Due(<<"data", b>>, Tail(todo))
  <2> DEFINE c == Head(todo)[2]
  <2>1. Head(todo) \in Job /\ Head(todo)[1] = "data" /\ c \in OpBlocks /\ c \in Block
    BY <1>1, <1>4, NextWrite, JobKinds DEF Basic
  <2>2. data' = [data EXCEPT ![c] = Contents(c)]
    BY <1>1, <2>1 DEF Put
  <2>3. \A b : <<"data", b>> = Head(todo) => b = c
    OBVIOUS
  <2> HIDE DEF c
  <2>4. ASSUME NEW b \in OpBlocks, b # c
        PROVE  data'[b] = Contents(b) \/ Due(<<"data", b>>, Tail(todo))
    <3>1. data[b] = Contents(b) \/ Due(<<"data", b>>, todo)
      BY <1>4 DEF Contained
    <3>2. Due(<<"data", b>>, todo) => <<"data", b>> = Head(todo) \/ Due(<<"data", b>>, Tail(todo))
      BY <1>1, <1>2, DueNext
    <3>3. data'[b] = data[b]
      BY <2>2, <2>4
    <3> QED BY <2>3, <2>4, <3>1, <3>2, <3>3
  <2>5. data'[c] = Contents(c)
    BY <2>1, <2>2 DEF Basic, DataOK
  <2> QED BY <2>4, <2>5
<1>5. ASSUME pc \in {"bitmap", "entry"} PROVE \A b \in OpBlocks : data'[b] = Contents(b)
  <2>1. Head(todo)[1] # "data"
    BY <1>1, <1>5, NextWrite DEF Basic
  <2>2. data' = data
    BY <1>1, <2>1 DEF Put
  <2> QED BY <1>5, <2>2 DEF Contained
<1>6. ASSUME Removing PROVE \A s \in Slot : ddir'[s].path # op.path
  <2>1. \A s \in Slot : dir[s].path # op.path
    BY <1>6 DEF Contained
  <2>2. CASE pc = "unlink"
    BY <1>1, <2>1, <2>2, FlushSyncs
  <2>3. CASE pc = "release"
    BY <1>1, <2>3, OtherWrite DEF Contained
  <2> QED BY <1>6, <2>2, <2>3 DEF Removing
<1>7. Removing => \A s \in Slot : dir[s].path # op.path
  BY DEF Contained
<1>8. OpBlocks' = OpBlocks /\ \A b : Contents(b)' = Contents(b)
  BY <1>1 DEF OpBlocks, Contents
<1>9. /\ pc \notin {"off", "idle", "format"} => ~cut
      /\ ~super' \/ pc = "format" => \A p \in Paths : stored[p] \in {NoFile, Unknown}
  BY <1>2 DEF Contained
<1> QED BY <1>1, <1>3, <1>4, <1>5, <1>6, <1>7, <1>8, <1>9 DEF Contained, Removing

\* The same, or nothing was written.
LEMMA ContainedWriteError ==
  Basic /\ Owned /\ Steady /\ Contained /\ WriteError => Contained'
<1> SUFFICES ASSUME Basic, Owned, Steady, Contained, WriteError PROVE Contained'
  OBVIOUS
<1>1. todo # <<>> /\ stored' = stored /\ pc \notin {"off", "idle"}
  BY NextWrite DEF WriteError, Basic
<1>2. Put(Head(todo)) \/ UNCHANGED <<super, dbitmap, ddir, data>>
  BY DEF WriteError, diskVars
<1>3. /\ pc = "format" => pc' = "off"
      /\ pc # "format" => pc' = "idle" /\ dir' = dir
  BY DEF WriteError, memVars
<1>4. super => super'
  BY <1>1, <1>2, PutBasic
<1>5. ASSUME NEW p \in Paths, stored'[p] # Unknown PROVE There(p)'
  <2>1. There(p)
    BY <1>1, <1>5 DEF Contained
  <2>2. CASE UNCHANGED <<super, dbitmap, ddir, data>>
    BY <1>1, <1>3, <2>1, <2>2, StaysThere DEF Mounted
  <2>3. CASE Put(Head(todo)) /\ pc = "format"
    <3>1. stored'[p] = NoFile
      BY <1>1, <1>5, <2>3 DEF Contained
    <3>2. super' => \A s \in Slot : ddir'[s].path # p
      BY <1>1, <2>3, PutFormat, PathAssumption DEF Free
    <3> QED BY <1>3, <2>3, <3>1, <3>2 DEF There, Mounted
  <2>4. CASE Put(Head(todo)) /\ pc # "format"
    BY <1>1, <1>3, <1>5, <2>4, PutThere DEF Mounted
  <2> QED BY <1>2, <2>2, <2>3, <2>4
<1>6. ~super' => \A p \in Paths : stored[p] \in {NoFile, Unknown}
  BY <1>4 DEF Contained
<1>7. pc' \in {"off", "idle"}
  BY <1>3
<1> QED BY <1>1, <1>5, <1>6, <1>7 DEF Contained, Removing

\* What is on disk stays there.
LEMMA ContainedStop == Basic /\ Contained /\ (Reboot \/ Crash) => Contained'
<1> SUFFICES ASSUME Basic, Contained, Reboot \/ Crash PROVE Contained'
  OBVIOUS
<1>1. pc' = "off" /\ UNCHANGED <<super, ddir, data, stored>>
  BY DEF Reboot, Crash, PowerOff, diskVars
<1>2. ASSUME NEW p \in Paths, stored[p] # Unknown PROVE There(p)'
  <2>1. There(p)
    BY <1>2 DEF Contained
  <2> QED BY <1>1, <2>1, StaysThere DEF Mounted
<1> QED BY <1>1, <1>2 DEF Contained, Removing

\* All steps together.
LEMMA ContainedNext ==
  Basic /\ Owned /\ Steady /\ ~UseAfterCut /\ Ordered /\ Contained /\ [Next]_vars => Contained'
<1> SUFFICES ASSUME Basic, Owned, Steady, ~UseAfterCut, Ordered, Contained, [Next]_vars
             PROVE  Contained'
  OBVIOUS
<1>1. CASE UNCHANGED vars
  <2>1. UNCHANGED <<super, ddir, data, dir, pc, op, todo, stored, cut>>
    BY <1>1 DEF vars, diskVars, memVars, histVars
  <2>2. \A p \in Paths : There(p)' <=> There(p)
    BY <2>1 DEF There, Shows, Mounted
  <2>3. OpBlocks' = OpBlocks /\ \A b : Contents(b)' = Contents(b)
    BY <2>1 DEF OpBlocks, Contents
  <2> QED BY <2>1, <2>2, <2>3 DEF Contained, Removing
<1>2. CASE Next
  BY <1>2, ContainedMount, ContainedFormat, ContainedFormatDone, ContainedWriteFile,
    ContainedPutBitmap, ContainedPutEntry, ContainedWriteDone, ContainedRemove,
    ContainedFreeBlocks, ContainedRemoveDone, ContainedDeviceWrite, ContainedWriteError,
    ContainedStop DEF Next
<1> QED BY <1>1, <1>2

\* Contained is an invariant of a steady disk that is not used after a cut.
LEMMA ContainedHolds == ASSUME Steady, ~UseAfterCut PROVE Spec => []Contained
<1>1. Init => Contained
  BY ContainedInit
<1>2. Basic /\ Owned /\ Ordered /\ Contained /\ [Next]_vars => Contained'
  BY ContainedNext
<1>3. Spec => []Ordered
  BY OrderedHolds
<1> QED BY <1>1, <1>2, <1>3, BasicHolds, OwnedHolds, PTL DEF Spec

-----------------------------------------------------------------------------
(* The disk is a map from paths to contents.                               *)

\* What a read gives, when that is known.
Value(p, e) ==
  IF e = NoFile THEN <<"no file">>
  ELSE <<"file">> \o [i \in 1 .. e.len |-> <<p, e.version, i - 1>>]

\* Looking a path up in a directory that shows it once.
LEMMA Lookup ==
  ASSUME Basic, NEW d, Unique(d), NEW p \in Paths, NEW s \in Slot, Shows(d, s, p),
         NEW found, found = {t \in Slot : d[t].path = p}
  PROVE  /\ found # {}
         /\ (CHOOSE t \in found : \A u \in found : t <= u) = s
<1>1. \A t \in found : t = s
  BY PathAssumption DEF Unique, Shows, Used
<1>2. s \in found
  BY DEF Shows
<1>3. s <= s
  BY Numbers
<1> QED BY <1>1, <1>2, <1>3

\* Reading a file that is known gives what is known, mounted or not.
LEMMA ReadIs ==
  ASSUME Basic, Ordered, Contained, NEW p \in Paths, stored[p] # Unknown
  PROVE  Read(p) = Value(p, stored[p])
<1> DEFINE d == IF super /\ pc \in {"off", "format"} THEN ddir ELSE dir
           found == {t \in Slot : d[t].path = p}
           s == CHOOSE t \in found : \A u \in found : t <= u
<1>1. Read(p) = IF found = {} THEN <<"no file">>
                ELSE <<"file">> \o [i \in 1 .. d[s].len |-> data[d[s].first + i - 1]]
  BY DEF Read
<1>2. There(p)
  BY DEF Contained
<1>3. CASE stored[p] = NoFile
  <2>1. \A t \in Slot : d[t].path # p
    <3>1. CASE super /\ pc \in {"off", "format"}
      BY <1>2, <1>3, <3>1 DEF There
    <3>2. CASE Mounted
      BY <1>2, <1>3, <3>2 DEF There, Mounted
    <3>3. CASE ~super /\ ~Mounted
      BY <3>3, PathAssumption DEF Basic, Directories, Free
    <3> QED BY <3>1, <3>2, <3>3 DEF Mounted
  <2>2. found = {}
    BY <2>1
  <2> HIDE DEF found, s
  <2> QED BY <1>1, <1>3, <2>2 DEF Value
<1>4. CASE stored[p] # NoFile
  <2>1. super
    BY <1>4 DEF Contained
  <2>2. PICK t \in Slot : Shows(ddir, t, p) /\ (Mounted => Shows(dir, t, p))
    BY <1>2, <1>4, <2>1 DEF There
  <2>3. Unique(d) /\ Shows(d, t, p) /\ (d = ddir \/ d = dir)
    BY <2>1, <2>2 DEF Ordered, Mounted
  <2>4. d \in [Slot -> Entry]
    BY <2>3 DEF Basic, TypeOK
  <2> HIDE DEF d
  <2>5. found # {} /\ s = t
    <3>1. \A F : F = {u \in Slot : d[u].path = p} =>
                  F # {} /\ (CHOOSE v \in F : \A u \in F : v <= u) = t
      BY <2>3, Lookup
    <3> QED BY <3>1
  <2> HIDE DEF found, s
  <2>6. d[t].first \in Nat /\ d[t].len \in Nat
    BY <2>4, Numbers DEF Entry
  <2>7. \A i \in 1 .. d[t].len : data[d[t].first + i - 1] = <<p, stored[p].version, i - 1>>
    <3> TAKE i \in 1 .. d[t].len
    <3>1. i - 1 \in 0 .. d[t].len - 1 /\ d[t].first + i - 1 = d[t].first + (i - 1)
      BY <2>6
    <3> QED BY <2>3, <3>1 DEF Shows
  <2>8. [i \in 1 .. d[t].len |-> data[d[t].first + i - 1]]
          = [i \in 1 .. stored[p].len |-> <<p, stored[p].version, i - 1>>]
    BY <2>3, <2>7 DEF Shows
  <2> QED BY <1>1, <1>4, <2>5, <2>8 DEF Value
<1> QED BY <1>3, <1>4

Shown == [p \in Paths |-> IF stored[p] = Unknown THEN <<"lost">> ELSE Read(p)]
Call == IF op = NoOp THEN <<>> ELSE <<op.path, Wanted>>

\* So what is shown changes only as what is stored does.
LEMMA ShownIs ==
  ASSUME Basic, Ordered, Contained
  PROVE  Shown = [p \in Paths |-> IF stored[p] = Unknown THEN <<"lost">> ELSE Value(p, stored[p])]
BY ReadIs DEF Shown

Consistent == Basic /\ Ordered /\ Contained

\* As long as stored stays, so does what is shown.
LEMMA ShownStays ==
  ASSUME Consistent, Consistent', stored' = stored
  PROVE  Shown' = Shown
<1>1. Shown = [p \in Paths |-> IF stored[p] = Unknown THEN <<"lost">> ELSE Value(p, stored[p])]
  BY ShownIs DEF Consistent
<1>2. (Shown = [p \in Paths |-> IF stored[p] = Unknown THEN <<"lost">> ELSE Value(p, stored[p])])'
  BY ShownIs, PTL DEF Consistent
<1> QED BY <1>1, <1>2 DEF Value

\* No files, and no operation under way.
LEMMA MapStart == Init => Files!MapInit
<1> SUFFICES ASSUME Init PROVE Files!MapInit
  OBVIOUS
<1>1. Shown = [p \in Paths |-> IF stored[p] = Unknown THEN <<"lost">> ELSE Value(p, stored[p])]
  BY BasicInit, OrderedInit, ContainedInit, ShownIs
<1>2. \A p \in Paths : stored[p] = NoFile
  BY DEF Init
<1>3. Shown = [p \in Paths |-> <<"no file">>]
  BY <1>1, <1>2, NoFileFields DEF Value
<1>4. Call = <<>>
  BY DEF Init, Call
<1> QED BY <1>3, <1>4 DEF Files!MapInit, Shown, Call

\* An operation that has begun is not over.
LEMMA CallIs ==
  ASSUME Basic
  PROVE  /\ ~Writing /\ ~Removing => Call = <<>>
         /\ Writing \/ Removing => Call = <<op.path, Wanted>> /\ Call # <<>>
<1>1. ~Writing /\ ~Removing => Call = <<>>
  BY DEF Basic, Operation, Call
<1>2. ASSUME Writing \/ Removing PROVE Call = <<op.path, Wanted>> /\ Call # <<>>
  <2>1. op.path \in Paths
    BY <1>2 DEF Basic, Operation
  <2>2. op # NoOp
    BY <2>1, PathAssumption DEF NoOp
  <2> QED BY <2>2 DEF Call
<1> QED BY <1>1, <1>2

\* The steps of an operation, and those of the disk on its own, change nothing
\* that can be seen.
LEMMA MapStutter ==
  ASSUME Consistent, Consistent',
         Mount \/ Format \/ FormatDone \/ PutBitmap \/ PutEntry \/ FreeBlocks \/ DeviceWrite \/ Reboot
           \/ UNCHANGED vars
  PROVE  UNCHANGED <<Shown, Call>>
<1>1. stored' = stored
  BY DEF Mount, Format, FormatDone, PutBitmap, PutEntry, FreeBlocks, DeviceWrite, Reboot, PowerOff,
    vars, histVars
<1>2. Shown' = Shown
  BY <1>1, ShownStays
<1>3. CASE Reboot
  <2>1. op = NoOp /\ op' = NoOp
    BY <1>3 DEF Reboot, PowerOff, Consistent, Basic, Operation, Writing, Removing
  <2> QED BY <1>2, <2>1 DEF Call
<1>4. CASE ~Reboot
  <2>1. op' = op
    BY <1>4 DEF Mount, Format, FormatDone, PutBitmap, PutEntry, FreeBlocks, DeviceWrite, vars
  <2>2. pc' \in {"unlink", "release"} <=> pc \in {"unlink", "release"}
    BY <1>4 DEF Mount, Format, FormatDone, PutBitmap, PutEntry, FreeBlocks, DeviceWrite, vars
  <2> QED BY <1>2, <2>1, <2>2 DEF Call, Wanted
<1> QED BY <1>3, <1>4

\* What stored knows of a file is its new contents.
LEMMA Completed ==
  ASSUME Consistent, Consistent', op.path \in Paths,
         NEW e, stored' = [stored EXCEPT ![op.path] = e], e # Unknown, Value(op.path, e) = Wanted
  PROVE  Shown' = [Shown EXCEPT ![op.path] = Wanted]
<1>1. Shown = [p \in Paths |-> IF stored[p] = Unknown THEN <<"lost">> ELSE Value(p, stored[p])]
  BY ShownIs DEF Consistent
<1>2. (Shown = [p \in Paths |-> IF stored[p] = Unknown THEN <<"lost">> ELSE Value(p, stored[p])])'
  BY ShownIs, PTL DEF Consistent
<1>3. stored \in [Paths -> {NoFile, Unknown} \cup {File(n, v) : n \in 0 .. MaxLen, v \in Versions}]
  BY DEF Consistent, Basic, TypeOK
<1>4. \A p, f : Value(p, f)' = Value(p, f)
  BY DEF Value
<1>5. Shown' = [p \in Paths |-> IF stored'[p] = Unknown THEN <<"lost">> ELSE Value(p, stored'[p])]
  BY <1>2, <1>4
<1>6. \A p \in Paths : stored'[p] = IF p = op.path THEN e ELSE stored[p]
  BY <1>3
<1> QED BY <1>1, <1>5, <1>6

\* Of a file that is being changed nothing is shown.
LEMMA Begun ==
  ASSUME Consistent, Consistent', NEW q \in Paths, stored' = [stored EXCEPT ![q] = Unknown]
  PROVE  Shown' = [Shown EXCEPT ![q] = <<"lost">>]
<1>1. Shown = [p \in Paths |-> IF stored[p] = Unknown THEN <<"lost">> ELSE Value(p, stored[p])]
  BY ShownIs DEF Consistent
<1>2. (Shown = [p \in Paths |-> IF stored[p] = Unknown THEN <<"lost">> ELSE Value(p, stored[p])])'
  BY ShownIs, PTL DEF Consistent
<1>3. stored \in [Paths -> {NoFile, Unknown} \cup {File(n, v) : n \in 0 .. MaxLen, v \in Versions}]
  BY DEF Consistent, Basic, TypeOK
<1>4. \A p, f : Value(p, f)' = Value(p, f)
  BY DEF Value
<1>5. Shown' = [p \in Paths |-> IF stored'[p] = Unknown THEN <<"lost">> ELSE Value(p, stored'[p])]
  BY <1>2, <1>4
<1>6. \A p \in Paths : stored'[p] = IF p = q THEN Unknown ELSE stored[p]
  BY <1>3
<1> QED BY <1>1, <1>5, <1>6

\* What a file may hold.
FileValue(p, n, v) == <<"file">> \o [i \in 1 .. n |-> <<p, v, i - 1>>]
Kept == {<<"no file">>} \cup {FileValue(p, n, v) : n \in 0 .. MaxLen, p \in Paths, v \in Versions}

\* A file holds one of these.
LEMMA KeptFile == \A p \in Paths, n \in 0 .. MaxLen, v \in Versions : FileValue(p, n, v) \in Kept
<1> DEFINE S == {FileValue(p, n, v) : n \in 0 .. MaxLen, p \in Paths, v \in Versions}
<1>1. \A p \in Paths, n \in 0 .. MaxLen, v \in Versions : FileValue(p, n, v) \in S
  OBVIOUS
<1>2. Kept = {<<"no file">>} \cup S
  BY DEF Kept
<1> HIDE DEF S
<1> QED BY <1>1, <1>2

\* write_file and remove begin.
LEMMA MapBegin ==
  ASSUME Consistent, Consistent', NEW p \in Paths,
         (\E n \in 0 .. MaxLen, v \in Versions : WriteFile(p, n, v)) \/ Remove(p)
  PROVE  \E c \in Kept : Call = <<>> /\ Call' = <<p, c>> /\ Shown' = [Shown EXCEPT ![p] = <<"lost">>]
<1>0. Basic /\ Basic'
  BY DEF Consistent
<1>1. /\ pc = "idle" /\ stored' = [stored EXCEPT ![p] = Unknown] /\ op'.path = p
      /\ Wanted' \in Kept
  <2>1. ASSUME NEW n \in 0 .. MaxLen, NEW v \in Versions, WriteFile(p, n, v)
        PROVE  /\ pc = "idle" /\ stored' = [stored EXCEPT ![p] = Unknown] /\ op'.path = p
               /\ Wanted' \in Kept
    <3>1. /\ pc = "idle" /\ stored' = [stored EXCEPT ![p] = Unknown] /\ op'.path = p
          /\ pc' = "data" /\ op'.len = n /\ op'.version = v
      BY <1>0, <2>1, WriteFileStep
    <3>2. Wanted' = FileValue(p, n, v)
      BY <3>1 DEF Wanted, FileValue
    <3> QED BY <3>1, <3>2, KeptFile
  <2>2. CASE Remove(p)
    <3>1. pc = "idle" /\ stored' = [stored EXCEPT ![p] = Unknown] /\ op'.path = p /\ pc' = "unlink"
      BY <1>0, <2>2, RemoveStep
    <3>2. Wanted' \in Kept
      BY <3>1 DEF Wanted, Kept
    <3> QED BY <3>1, <3>2
  <2> QED BY <2>1, <2>2
<1>2. Call = <<>>
  BY <1>0, <1>1, CallIs DEF Writing, Removing
<1>3. Shown' = [Shown EXCEPT ![p] = <<"lost">>]
  BY <1>1, Begun
<1>4. Call' = <<p, Wanted'>>
  <2>1. op' # NoOp
    BY <1>1, PathAssumption DEF NoOp
  <2> QED BY <1>1, <2>1 DEF Call
<1> QED BY <1>1, <1>2, <1>3, <1>4

\* They return, and the file holds what they were told to leave.
LEMMA MapFinish ==
  ASSUME Consistent, Consistent', WriteDone \/ RemoveDone
  PROVE  Call # <<>> /\ Call' = <<>> /\ Shown' = [Shown EXCEPT ![Call[1]] = Call[2]]
<1>0. Basic /\ Basic'
  BY DEF Consistent
<1>1. /\ WriteDone => pc = "entry" /\ stored' = [stored EXCEPT ![op.path] = File(op.len, op.version)]
      /\ RemoveDone => pc = "release" /\ stored' = [stored EXCEPT ![op.path] = NoFile]
      /\ op' = NoOp
  BY DEF WriteDone, RemoveDone
<1>2. Writing \/ Removing
  BY <1>1 DEF Writing, Removing
<1>3. op.path \in Paths
  BY <1>0, <1>2 DEF Basic, Operation
<1>4. Call = <<op.path, Wanted>> /\ Call # <<>> /\ Call' = <<>>
  BY <1>0, <1>1, <1>2, CallIs DEF Call
<1>5. CASE WriteDone
  <2> DEFINE e == File(op.len, op.version)
  <2>1. Value(op.path, e) = Wanted
    BY <1>1, <1>5, FileFields DEF Value, Wanted
  <2>2. stored' = [stored EXCEPT ![op.path] = e] /\ e # Unknown
    BY <1>1, <1>5, FileFields
  <2> HIDE DEF e
  <2>3. Shown' = [Shown EXCEPT ![op.path] = Wanted]
    BY <1>3, <2>1, <2>2, Completed
  <2> QED BY <1>4, <2>3
<1>6. CASE RemoveDone
  <2>1. Value(op.path, NoFile) = Wanted
    BY <1>1, <1>6 DEF Value, Wanted
  <2>2. Shown' = [Shown EXCEPT ![op.path] = Wanted]
    BY <1>1, <1>3, <1>6, <2>1, NoFileFields, Completed
  <2> QED BY <1>4, <2>2
<1> QED BY <1>5, <1>6

\* They fail, or the machine stops, and nothing that was shown changes.
LEMMA MapInterrupt ==
  ASSUME Consistent, Consistent', WriteError \/ Crash
  PROVE  (Call # <<>> /\ Call' = <<>> /\ Shown' = Shown) \/ UNCHANGED <<Shown, Call>>
<1>0. Basic
  BY DEF Consistent
<1>1. stored' = stored /\ op' = NoOp
  BY DEF WriteError, Crash, PowerOff
<1>2. Shown' = Shown /\ Call' = <<>>
  BY <1>1, ShownStays DEF Call
<1>3. Writing \/ Removing \/ (~Writing /\ ~Removing)
  OBVIOUS
<1> QED BY <1>0, <1>2, <1>3, CallIs

\* The abstract steps, over these values.
LEMMA MapNextIs ==
  Files!MapNext <=> (\E p \in Paths, v \in Kept : Files!Begin(p, v)) \/ Files!Finish \/ Files!Interrupt
<1> DEFINE V == {<<"no file">>} \cup {<<"file">> \o [i \in 1 .. n |-> <<p, v, i - 1>>] :
                                         n \in 0 .. MaxLen, p \in Paths, v \in Versions}
<1>1. Kept = V
  BY DEF Kept, FileValue
<1>2. Files!MapNext <=> (\E p \in Paths, v \in V : Files!Begin(p, v)) \/ Files!Finish \/ Files!Interrupt
  BY DEF Files!MapNext
<1> HIDE DEF V
<1> QED BY <1>1, <1>2

\* Every step of the disk is one of theirs, or none.
LEMMA MapStep ==
  ASSUME Consistent, Consistent', [Next]_vars
  PROVE  [Files!MapNext]_(Files!fileVars)
<1> USE DEF Files!fileVars
<1>1. ASSUME UNCHANGED <<Shown, Call>> PROVE [Files!MapNext]_(Files!fileVars)
  BY <1>1 DEF Shown, Call
<1>2. ASSUME NEW p \in Paths,
             (\E n \in 0 .. MaxLen, v \in Versions : WriteFile(p, n, v)) \/ Remove(p)
      PROVE  Files!MapNext
  <2>1. PICK c \in Kept : Call = <<>> /\ Call' = <<p, c>> /\ Shown' = [Shown EXCEPT ![p] = <<"lost">>]
    BY <1>2, MapBegin
  <2>2. Files!Begin(p, c)
    BY <2>1 DEF Files!Begin, Shown, Call
  <2> QED BY <2>2, MapNextIs
<1>3. ASSUME WriteDone \/ RemoveDone PROVE Files!MapNext
  <2>1. Call # <<>> /\ Call' = <<>> /\ Shown' = [Shown EXCEPT ![Call[1]] = Call[2]]
    BY <1>3, MapFinish
  <2>2. Files!Finish
    BY <2>1 DEF Files!Finish, Shown, Call
  <2> QED BY <2>2 DEF Files!MapNext
<1>4. ASSUME WriteError \/ Crash PROVE [Files!MapNext]_(Files!fileVars)
  <2>1. CASE Call # <<>> /\ Call' = <<>> /\ Shown' = Shown
    <3>1. Files!Interrupt
      BY <2>1 DEF Files!Interrupt, Shown, Call
    <3> QED BY <3>1 DEF Files!MapNext
  <2>2. CASE UNCHANGED <<Shown, Call>>
    BY <1>1, <2>2
  <2> QED BY <1>4, <2>1, <2>2, MapInterrupt
<1>5. ASSUME Mount \/ Format \/ FormatDone \/ PutBitmap \/ PutEntry \/ FreeBlocks \/ DeviceWrite \/ Reboot
               \/ UNCHANGED vars
      PROVE  [Files!MapNext]_(Files!fileVars)
  BY <1>1, <1>5, MapStutter
<1> QED BY <1>2, <1>3, <1>4, <1>5 DEF Next

\* An operation of diskfs.rs on one file changes what is read of that file only,
\* and leaves it as it was told to when it returns; a crash, a write error or a
\* reboot changes nothing that was known: the disk implements the map of files.
THEOREM Refinement ==
  ASSUME "read error" \notin Faults, "write error" \notin Faults \/ SlotCount <= EntriesPerSector,
         ~UseAfterCut
  PROVE  Spec => ImplementsFileMap
<1>1. Steady
  BY DEF Steady
<1>2. Spec => []Ordered
  BY <1>1, OrderedHolds
<1>3. Spec => []Contained
  BY <1>1, ContainedHolds
<1>4. Basic /\ Ordered /\ Contained => Consistent
  BY DEF Consistent
<1>5. Consistent /\ Consistent' /\ [Next]_vars => [Files!MapNext]_(Files!fileVars)
  BY MapStep
<1>6. Init => Files!MapInit
  BY MapStart
<1> QED BY <1>2, <1>3, <1>4, <1>5, <1>6, BasicHolds, PTL DEF Spec, ImplementsFileMap, Files!MapSpec
=============================================================================
