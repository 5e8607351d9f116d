--------------------------- MODULE AlgorithmsProofs --------------------------
\* The properties of Algorithms, for every mtu, range of numbers and input.
EXTENDS Algorithms, SequenceTheorems, FiniteSetTheorems, WellFoundedInduction, TLAPS

LEMMA Division ==
  ASSUME NEW a \in Nat, NEW b \in Nat, b > 0
  PROVE  a \div b \in Nat /\ (a \div b) * b <= a /\ a < (a \div b) * b + b
  OBVIOUS

LEMMA Times ==
  ASSUME NEW i \in Nat, NEW n \in Nat, NEW b \in Nat, i < n
  PROVE  i * b \in Nat /\ n * b \in Nat /\ i * b + b <= n * b
  OBVIOUS

\* as many slices as reach the end, and the last one begins before it
LEMMA CountReaches ==
  ASSUME NEW len \in Nat, NEW size \in Nat, size > 0
  PROVE  /\ Count(len, size) \in Nat
         /\ len <= Count(len, size) * size
         /\ Count(len, size) * size < len + size
  BY Division DEF Count

\* The i-th slice is not empty, and not longer than size.
LEMMA SliceBounds ==
  ASSUME NEW len \in Nat, NEW size \in Nat, size > 0, NEW i \in 1..Count(len, size)
  PROVE  /\ (i - 1) * size \in Nat /\ i * size = (i - 1) * size + size
         /\ Upper(len, size, i) \in Nat
         /\ (i - 1) * size < Upper(len, size, i)
         /\ Upper(len, size, i) <= i * size /\ Upper(len, size, i) <= len
<1>1. Count(len, size) \in Nat /\ Count(len, size) * size < len + size
  BY CountReaches
<1>2. i - 1 \in Nat /\ i \in Nat
  BY <1>1
<1>3. (i - 1) * size \in Nat /\ i * size = (i - 1) * size + size
  BY <1>2
<1>4. (i - 1) * size + size <= Count(len, size) * size
  BY <1>1, <1>2, Times
<1>5. (i - 1) * size < len
  BY <1>1, <1>3, <1>4
<1> QED BY <1>3, <1>5 DEF Upper

\* What the i-th slice of s is.
LEMMA SliceIs ==
  ASSUME NEW s \in Seq(Byte), NEW size \in Nat, size > 0, NEW i \in 1..Count(Len(s), size)
  PROVE  /\ Slices(s, size)[i] \in Seq(Byte)
         /\ Len(Slices(s, size)[i]) = Upper(Len(s), size, i) - (i - 1) * size
         /\ \A j \in 1..Len(Slices(s, size)[i]) :
              Slices(s, size)[i][j] = s[(i - 1) * size + j]
<1> DEFINE from == (i - 1) * size
           to   == Upper(Len(s), size, i)
<1>1. Len(s) \in Nat
  BY LenProperties
<1>2. from \in Nat /\ to \in Nat /\ from < to /\ to <= Len(s)
  BY <1>1, SliceBounds
<1>3. Slices(s, size)[i] = SubSeq(s, from + 1, to)
  BY DEF Slices
<1> HIDE DEF from, to
<1>4. \A k \in (from + 1)..to : s[k] \in Byte
  BY <1>1, <1>2, ElementOfSeq
<1>5. from + 1 \in Int /\ to \in Int
  BY <1>2
<1>6. /\ SubSeq(s, from + 1, to) \in Seq(Byte)
      /\ Len(SubSeq(s, from + 1, to)) = IF from + 1 <= to THEN to - (from + 1) + 1 ELSE 0
      /\ \A j \in 1..(to - (from + 1) + 1) : SubSeq(s, from + 1, to)[j] = s[(from + 1) + j - 1]
  BY <1>4, <1>5, SubSeqProperties
<1>7. Len(SubSeq(s, from + 1, to)) = to - from
  BY <1>2, <1>6
<1>8. \A j \in 1..(to - from) : SubSeq(s, from + 1, to)[j] = s[from + j]
  BY <1>2, <1>6
<1> QED BY <1>3, <1>6, <1>7, <1>8 DEF from, to

\* No slice is empty or longer than size: range() of hevc() and pcm() makes no
\* packet too many, and none that does not fit.
THEOREM SlicesFit ==
  ASSUME NEW s \in Seq(Byte), NEW size \in Nat, size > 0, NEW i \in 1..Count(Len(s), size)
  PROVE  Len(Slices(s, size)[i]) \in 1..size
<1>1. Len(s) \in Nat
  BY LenProperties
<1> DEFINE from == (i - 1) * size
<1>2. /\ from \in Nat /\ i * size = from + size
      /\ Upper(Len(s), size, i) \in Nat
      /\ from < Upper(Len(s), size, i) /\ Upper(Len(s), size, i) <= i * size
  BY <1>1, SliceBounds
<1>3. Len(Slices(s, size)[i]) = Upper(Len(s), size, i) - from
  BY SliceIs
<1> HIDE DEF from
<1> QED BY <1>2, <1>3

\* No byte is lost: the k-th is in the slice its place tells, at its place there.
THEOREM SlicesCover ==
  ASSUME NEW s \in Seq(Byte), NEW size \in Nat, size > 0, NEW k \in 1..Len(s)
  PROVE  \E i \in 1..Count(Len(s), size) : \E j \in 1..Len(Slices(s, size)[i]) :
           k = (i - 1) * size + j /\ Slices(s, size)[i][j] = s[k]
<1>1. Len(s) \in Nat /\ k \in Nat /\ k - 1 \in Nat /\ k <= Len(s)
  BY LenProperties
<1> DEFINE n == (k - 1) \div size
           i == n + 1
           j == k - n * size
<1>2. n \in Nat /\ n * size \in Nat /\ n * size <= k - 1 /\ k - 1 < n * size + size
  BY <1>1, Division
<1>3. Count(Len(s), size) \in Nat /\ Len(s) <= Count(Len(s), size) * size
  BY <1>1, CountReaches
<1>4. n < Count(Len(s), size)
  <2>1. SUFFICES ASSUME Count(Len(s), size) <= n PROVE FALSE
    BY <1>2, <1>3
  <2>2. Count(Len(s), size) * size <= n * size
    BY <1>2, <1>3, <2>1
  <2> HIDE DEF n
  <2> QED BY <1>1, <1>2, <1>3, <2>2
<1> HIDE DEF n
<1>5. i \in 1..Count(Len(s), size) /\ i - 1 = n
  BY <1>2, <1>3, <1>4
<1> HIDE DEF i
<1>6. Upper(Len(s), size, i) = IF n * size + size < Len(s) THEN n * size + size ELSE Len(s)
  <2>1. i * size = n * size + size
    BY <1>1, <1>5, SliceBounds
  <2> QED BY <2>1 DEF Upper
<1>7. Len(Slices(s, size)[i]) = Upper(Len(s), size, i) - n * size
  BY <1>5, SliceIs
<1>8. j \in 1..Len(Slices(s, size)[i]) /\ k = n * size + j
  BY <1>1, <1>2, <1>6, <1>7
<1>9. Slices(s, size)[i][j] = s[n * size + j]
  BY <1>5, <1>8, SliceIs
<1> QED BY <1>5, <1>8, <1>9
----------------------------------------------------------------------------
\* RtpTrack: what a NAL unit is cut into

LEMMA RoomIs == Mtu \in Nat /\ Room \in Nat /\ Room > 0 /\ Mtu = Room + 3
  BY RtpAssumption DEF Room

LEMMA TypeBits == ASSUME NEW x \in Nat PROVE (x \div 2) % 64 \in 0..63
  OBVIOUS

LEMMA Flags ==
  ASSUME NEW type \in 0..63, NEW i \in Nat, NEW n \in Nat
  PROVE  /\ type + (IF i = 1 THEN 128 ELSE 0) + (IF i = n THEN 64 ELSE 0) \in Int
         /\ n >= 2 => type + (IF i = 1 THEN 128 ELSE 0) + (IF i = n THEN 64 ELSE 0) < 128 + 64
  OBVIOUS

LEMMA NalTypeIs ==
  ASSUME NEW nal \in Seq(Byte), Len(nal) > 0
  PROVE  NalType(nal) \in 0..63
<1>1. Len(nal) \in Nat
  BY LenProperties
<1>2. nal[1] \in Byte
  BY <1>1, ElementOfSeq
<1>3. nal[1] \in Nat
  <2>1. \A x \in Byte : x \in Nat
    BY DEF Byte
  <2> QED BY <1>2, <2>1
<1>4. (nal[1] \div 2) % 64 \in 0..63
  BY <1>3, TypeBits
<1> QED BY <1>4 DEF NalType

LEMMA TwoAndOne ==
  ASSUME NEW a \in Int, NEW b \in Int, NEW c \in Int
  PROVE  /\ <<a, b>> \o <<c>> \in Seq(Int) /\ Len(<<a, b>> \o <<c>>) = 3
         /\ (<<a, b>> \o <<c>>)[1] = a
         /\ (<<a, b>> \o <<c>>)[2] = b
         /\ (<<a, b>> \o <<c>>)[3] = c
<1>1. <<a, b>> \in Seq(Int) /\ Len(<<a, b>>) = 2
  OBVIOUS
<1>2. <<c>> \in Seq(Int) /\ Len(<<c>>) = 1
  OBVIOUS
<1> DEFINE s == <<a, b>>
           t == <<c>>
<1>3. /\ s \in Seq(Int) /\ t \in Seq(Int) /\ Len(s) = 2 /\ Len(t) = 1
      /\ s[1] = a /\ s[2] = b /\ t[1] = c
  BY <1>1, <1>2
<1> HIDE DEF s, t
<1>4. /\ s \o t \in Seq(Int) /\ Len(s \o t) = Len(s) + Len(t)
      /\ \A i \in 1..(Len(s) + Len(t)) :
           (s \o t)[i] = IF i <= Len(s) THEN s[i] ELSE t[i - Len(s)]
  BY <1>3, ConcatProperties
<1>5. s \o t \in Seq(Int) /\ Len(s \o t) = 3
  BY <1>3, <1>4
<1>6. (s \o t)[1] = a /\ (s \o t)[2] = b /\ (s \o t)[3] = c
  BY <1>3, <1>4
<1> QED BY <1>5, <1>6 DEF s, t

LEMMA Behind ==
  ASSUME NEW s \in Seq(Int), Len(s) = 3, NEW t \in Seq(Int)
  PROVE  /\ s \o t \in Seq(Int) /\ Len(s \o t) = 3 + Len(t)
         /\ \A k \in 1..3 : (s \o t)[k] = s[k]
         /\ \A k \in 1..Len(t) : (s \o t)[3 + k] = t[k]
<1>1. Len(t) \in Nat
  BY LenProperties
<1>2. /\ s \o t \in Seq(Int) /\ Len(s \o t) = Len(s) + Len(t)
      /\ \A k \in 1..(Len(s) + Len(t)) :
           (s \o t)[k] = IF k <= Len(s) THEN s[k] ELSE t[k - Len(s)]
  BY ConcatProperties
<1>3. ASSUME NEW k \in 1..Len(t) PROVE (s \o t)[3 + k] = t[k]
  <2>1. 3 + k \in 1..(3 + Len(t)) /\ ~(3 + k <= 3) /\ (3 + k) - 3 = k
    BY <1>1
  <2> QED BY <1>2, <2>1
<1>4. \A k \in 1..3 : (s \o t)[k] = s[k]
  BY <1>1, <1>2
<1> QED BY <1>1, <1>2, <1>3, <1>4

\* A NAL unit behind its header of two bytes.
LEMMA BodyIs ==
  ASSUME NEW nal \in Seq(Byte), Len(nal) > Mtu
  PROVE  /\ Body(nal) \in Seq(Byte)
         /\ Len(Body(nal)) \in Nat /\ Len(nal) = Len(Body(nal)) + 2 /\ Len(Body(nal)) > Room
         /\ \A k \in 1..Len(Body(nal)) : Body(nal)[k] = nal[k + 2]
<1>1. Len(nal) \in Nat /\ Len(nal) > Room + 3 /\ Room \in Nat
  BY LenProperties, RoomIs
<1>2. \A k \in 3..Len(nal) : nal[k] \in Byte
  BY <1>1, ElementOfSeq
<1>3. 3 \in Int /\ Len(nal) \in Int
  BY <1>1
<1>4. /\ Body(nal) \in Seq(Byte)
      /\ Len(Body(nal)) = IF 3 <= Len(nal) THEN Len(nal) - 3 + 1 ELSE 0
      /\ \A k \in 1..(Len(nal) - 3 + 1) : Body(nal)[k] = nal[3 + k - 1]
  BY <1>2, <1>3, SubSeqProperties DEF Body
<1>5. Len(Body(nal)) = Len(nal) - 2
  BY <1>1, <1>4
<1>6. \A k \in 1..(Len(nal) - 2) : Body(nal)[k] = nal[k + 2]
  BY <1>1, <1>4
<1> QED BY <1>1, <1>4, <1>5, <1>6

LEMMA PartsAre ==
  ASSUME NEW nal \in Seq(Byte), Len(nal) > Mtu
  PROVE  /\ Count(Len(Body(nal)), Room) \in Nat /\ Count(Len(Body(nal)), Room) >= 2
         /\ DOMAIN Parts(nal) = 1..Count(Len(Body(nal)), Room)
         /\ Len(Parts(nal)) = Count(Len(Body(nal)), Room)
<1> DEFINE n == Count(Len(Body(nal)), Room)
<1>1. Room \in Nat /\ Room > 0 /\ Len(Body(nal)) \in Nat /\ Len(Body(nal)) > Room
  BY RoomIs, BodyIs
<1>2. n \in Nat /\ Len(Body(nal)) <= n * Room
  BY <1>1, CountReaches
<1>3. Parts(nal) = [i \in 1..n |-> SubSeq(Body(nal), (i - 1) * Room + 1,
                                         Upper(Len(Body(nal)), Room, i))]
  BY DEF Parts, Slices
<1> HIDE DEF n
<1>4. n # 0 /\ n # 1
  BY <1>1, <1>2
<1> QED BY <1>2, <1>3, <1>4 DEF n

\* A fragment: two bytes of indicator, one of FU header, and its part.
LEMMA FragmentIs ==
  ASSUME NEW nal \in Seq(Byte), Len(nal) > Mtu, NEW i \in 1..Len(Parts(nal))
  PROVE  /\ i \in DOMAIN Payloads(nal) /\ Payloads(nal)[i] \in Seq(Int)
         /\ Parts(nal)[i] \in Seq(Byte) /\ Len(Parts(nal)[i]) \in 1..Room
         /\ Len(Payloads(nal)[i]) = 3 + Len(Parts(nal)[i])
         /\ Payloads(nal)[i][1] = 128 * (nal[1] \div 128) + 2 * 49 + (nal[1] % 2)
         /\ Payloads(nal)[i][2] = nal[2]
         /\ Payloads(nal)[i][3] = FuHeader(nal, i, Len(Parts(nal)))
         /\ \A j \in 1..Len(Parts(nal)[i]) : Payloads(nal)[i][3 + j] = Parts(nal)[i][j]
<1> DEFINE n    == Len(Parts(nal))
           head == Indicator(nal) \o <<FuHeader(nal, i, n)>>
           part == Parts(nal)[i]
<1>1. Len(nal) \in Nat /\ Room \in Nat /\ Room > 0 /\ Mtu = Room + 3 /\ Len(nal) > 3
  BY LenProperties, RoomIs
<1>2. i \in 1..Count(Len(Body(nal)), Room) /\ n \in Nat /\ DOMAIN Parts(nal) = 1..n
  BY PartsAre
<1>3. part \in Seq(Byte) /\ Len(part) \in 1..Room
  BY <1>1, <1>2, BodyIs, SliceIs, SlicesFit DEF Parts
<1>4. nal[1] \in Byte /\ nal[2] \in Byte /\ NalType(nal) \in 0..63
  BY <1>1, ElementOfSeq, NalTypeIs
<1>5. FuHeader(nal, i, n) \in Int
  <2>1. i \in Nat /\ n \in Nat
    BY <1>2
  <2> HIDE DEF n
  <2> QED BY <1>4, <2>1, Flags DEF FuHeader
<1>6. 128 * (nal[1] \div 128) + 2 * 49 + (nal[1] % 2) \in Int /\ nal[2] \in Int
  <2>1. \A x \in Byte : 128 * (x \div 128) + 2 * 49 + (x % 2) \in Int /\ x \in Int
    BY DEF Byte
  <2> QED BY <1>4, <2>1
<1>7. /\ head \in Seq(Int) /\ Len(head) = 3
      /\ head[1] = 128 * (nal[1] \div 128) + 2 * 49 + (nal[1] % 2)
      /\ head[2] = nal[2] /\ head[3] = FuHeader(nal, i, n)
  BY <1>5, <1>6, TwoAndOne DEF Indicator
<1>8. part \in Seq(Int)
  <2>1. Byte \subseteq Int
    BY DEF Byte
  <2> QED BY <1>3, <2>1, SeqMonotonic
<1>9. i \in DOMAIN Payloads(nal) /\ Payloads(nal)[i] = head \o part
  BY <1>1, <1>2 DEF Payloads
<1> HIDE DEF head, part, n
<1>10. /\ head \o part \in Seq(Int) /\ Len(head \o part) = 3 + Len(part)
       /\ \A j \in 1..3 : (head \o part)[j] = head[j]
       /\ \A j \in 1..Len(part) : (head \o part)[3 + j] = part[j]
  BY <1>7, <1>8, Behind
<1>11. /\ (head \o part)[1] = head[1] /\ (head \o part)[2] = head[2]
       /\ (head \o part)[3] = head[3]
  BY <1>10
<1> QED BY <1>3, <1>7, <1>9, <1>10, <1>11 DEF part, n

\* hevc(): however long a NAL unit, no packet's payload is empty or exceeds the
\* mtu.
THEOREM PayloadsFit ==
  ASSUME NEW nal \in Seq(Byte), NEW i \in DOMAIN Payloads(nal)
  PROVE  Len(Payloads(nal)[i]) \in 1..Mtu
<1>1. Len(nal) \in Nat /\ Room \in Nat /\ Mtu = Room + 3
  BY LenProperties, RoomIs
<1>2. CASE Len(nal) < 2
  BY <1>2 DEF Payloads
<1>3. CASE Len(nal) >= 2 /\ Len(nal) <= Mtu
  BY <1>1, <1>3 DEF Payloads
<1>4. CASE Len(nal) > Mtu
  <2>1. i \in DOMAIN Parts(nal)
    BY <1>1, <1>4 DEF Payloads
  <2>2. i \in 1..Len(Parts(nal))
    BY <1>4, <2>1, PartsAre
  <2>3. Len(Parts(nal)[i]) \in 1..Room /\ Len(Payloads(nal)[i]) = 3 + Len(Parts(nal)[i])
    BY <1>4, <2>2, FragmentIs
  <2> QED BY <1>1, <2>3
<1> QED BY <1>1, <1>2, <1>3, <1>4

\* A NAL unit that needs fragments gets two at least, and so none that is both
\* its START and its END, which receivers drop.
THEOREM NeverStartAndEnd ==
  ASSUME NEW nal \in Seq(Byte), Len(nal) > Mtu
  PROVE  \A i \in 1..Len(Parts(nal)) : FuHeader(nal, i, Len(Parts(nal))) < 128 + 64
<1>1. Len(Parts(nal)) \in Nat /\ Len(Parts(nal)) >= 2
  BY PartsAre
<1>2. Len(nal) > 0
  BY LenProperties, RoomIs
<1>3. NalType(nal) \in 0..63
  BY <1>2, NalTypeIs
<1>4. ASSUME NEW i \in 1..Len(Parts(nal))
      PROVE  FuHeader(nal, i, Len(Parts(nal))) < 128 + 64
  <2> DEFINE n == Len(Parts(nal))
  <2>1. i \in Nat /\ n \in Nat /\ n >= 2
    BY <1>1
  <2> HIDE DEF n
  <2>2. FuHeader(nal, i, n) < 128 + 64
    BY <1>3, <2>1, Flags DEF FuHeader
  <2> QED BY <2>2 DEF n
<1> QED BY <1>4

\* Every byte behind the header of a NAL unit that is cut is in one fragment, at
\* the place where the client, putting them together, expects it.
THEOREM FragmentsCarryAll ==
  ASSUME NEW nal \in Seq(Byte), Len(nal) > Mtu, NEW k \in 1..Len(Body(nal))
  PROVE  \E i \in DOMAIN Payloads(nal) : \E j \in 1..Room :
           k = (i - 1) * Room + j /\ Payloads(nal)[i][3 + j] = nal[k + 2]
<1>1. Room \in Nat /\ Room > 0
  BY RoomIs
<1>2. Body(nal) \in Seq(Byte) /\ Body(nal)[k] = nal[k + 2]
  BY BodyIs
<1>3. PICK i \in 1..Count(Len(Body(nal)), Room) : \E j \in 1..Len(Parts(nal)[i]) :
        k = (i - 1) * Room + j /\ Parts(nal)[i][j] = Body(nal)[k]
  BY <1>1, <1>2, SlicesCover DEF Parts
<1>4. PICK j \in 1..Len(Parts(nal)[i]) :
        k = (i - 1) * Room + j /\ Parts(nal)[i][j] = Body(nal)[k]
  BY <1>3
<1>5. i \in 1..Len(Parts(nal))
  BY <1>3, PartsAre
<1>6. /\ i \in DOMAIN Payloads(nal) /\ Len(Parts(nal)[i]) \in 1..Room
      /\ Payloads(nal)[i][3 + j] = Parts(nal)[i][j]
  BY <1>4, <1>5, FragmentIs
<1>7. j \in 1..Room
  BY <1>1, <1>4, <1>6
<1> QED BY <1>2, <1>4, <1>6, <1>7
----------------------------------------------------------------------------
\* RtpTrack: what the client makes of a fragment, and of so many of them

LEMMA Quotient ==
  ASSUME NEW a \in Int, NEW m \in Nat, m > 0, NEW q \in Int, NEW r \in 0..(m - 1), a = q * m + r
  PROVE  a % m = r
<1>1. a % m \in 0..(m - 1) /\ a \div m \in Int /\ a = m * (a \div m) + (a % m)
  OBVIOUS
<1> DEFINE b == a \div m
           c == a % m
<1>2. b \in Int /\ c \in 0..(m - 1) /\ m * b + c = q * m + r
  BY <1>1
<1> HIDE DEF b, c
<1>3. b * m = m * b /\ (b - q) * m = b * m - q * m
  BY <1>2
<1>4. (b - q) * m = r - c
  BY <1>2, <1>3
<1>5. b - q = 0
  <2>1. CASE b - q >= 1
    <3>1. (b - q) * m >= m
      BY <1>2, <2>1
    <3> QED BY <1>2, <1>4, <3>1
  <2>2. CASE b - q <= -1
    <3>1. (b - q) * m <= -m
      BY <1>2, <2>2
    <3> QED BY <1>2, <1>4, <3>1
  <2> QED BY <1>2, <2>1, <2>2
<1>6. (b - q) * m = 0
  BY <1>5
<1>7. c = r
  BY <1>2, <1>4, <1>6
<1> QED BY <1>7 DEF c

\* Sums of numbers that wrap.
LEMMA SumWraps ==
  ASSUME NEW a \in Nat, NEW b \in Nat, NEW m \in Nat, m > 0
  PROVE  a % m \in 0..(m - 1) /\ ((a % m) + b) % m = (a + b) % m
<1> DEFINE r == a % m
           q == a \div m
           s == (r + b) % m
           p == (r + b) \div m
<1>1. r \in 0..(m - 1) /\ q \in Int /\ a = m * q + r
  OBVIOUS
<1> HIDE DEF r, q
<1>2. s \in 0..(m - 1) /\ p \in Int /\ r + b = m * p + s
  BY <1>1
<1> HIDE DEF s, p
<1>3. (p + q) * m = m * p + m * q /\ p + q \in Int
  BY <1>1, <1>2
<1>4. a + b = (p + q) * m + s
  BY <1>1, <1>2, <1>3
<1>5. (a + b) % m = s
  <2>1. PICK c \in Int : c = a + b
    OBVIOUS
  <2>2. PICK t \in Int : t = p + q
    BY <1>3
  <2>3. c = t * m + s
    BY <1>4, <2>1, <2>2
  <2>4. c % m = s
    BY <1>2, <2>3, Quotient
  <2> QED BY <2>1, <2>4
<1> QED BY <1>1, <1>5 DEF s, r

\* A number comes again after m others, not before.
LEMMA NoneAgain ==
  ASSUME NEW a \in Nat, NEW d \in Nat, NEW m \in Nat, 0 < d, d < m
  PROVE  (a + d) % m # a % m
<1> DEFINE r == a % m
           q == a \div m
<1>1. r \in 0..(m - 1) /\ q \in Int /\ a = m * q + r
  OBVIOUS
<1> HIDE DEF r, q
<1>2. m * q = q * m /\ (q + 1) * m = q * m + m
  BY <1>1
<1>3. CASE r + d < m
  <2>1. (a + d) % m = r + d
    <3>1. a + d = q * m + (r + d) /\ r + d \in 0..(m - 1)
      BY <1>1, <1>2, <1>3
    <3> QED BY <1>1, <3>1, Quotient
  <2> QED BY <1>1, <2>1 DEF r
<1>4. CASE r + d >= m
  <2>1. (a + d) % m = r + d - m
    <3>1. PICK c \in Int, t \in Int, e \in 0..(m - 1) : c = a + d /\ t = q + 1 /\ e = r + d - m
      BY <1>1, <1>4
    <3>2. c = t * m + e
      BY <1>1, <1>2, <3>1
    <3>3. c % m = e
      BY <3>2, Quotient
    <3> QED BY <3>1, <3>3
  <2> QED BY <1>1, <2>1 DEF r
<1> QED BY <1>1, <1>3, <1>4

\* What the first byte of a NAL header is made of.
LEMMA FirstByte ==
  ASSUME NEW x \in Byte
  PROVE  /\ x = 128 * (x \div 128) + 2 * ((x \div 2) % 64) + (x % 2)
         /\ x \div 128 \in 0..1 /\ x % 2 \in 0..1 /\ (x \div 2) % 64 \in 0..63
  BY DEF Byte

LEMMA IndicatorBits ==
  ASSUME NEW a \in 0..1, NEW b \in 0..1, NEW x, x = 128 * a + 2 * 49 + b
  PROVE  x \div 128 = a /\ (x \div 2) % 64 = 49 /\ x % 2 = b
<1>1. CASE a = 0 /\ b = 0
  BY <1>1
<1>2. CASE a = 0 /\ b = 1
  BY <1>2
<1>3. CASE a = 1 /\ b = 0
  BY <1>3
<1>4. CASE a = 1 /\ b = 1
  BY <1>4
<1> QED BY <1>1, <1>2, <1>3, <1>4

\* What the client reads from a fragment: the header of the NAL unit it is of, if
\* it is the first or the last, and the part.
LEMMA FragmentReads ==
  ASSUME NEW nal \in Seq(Byte), Len(nal) > Mtu, NEW i \in 1..Len(Parts(nal)),
         NEW p, p = Payloads(nal)[i]
  PROVE  /\ NalType(p) = 49
         /\ p[3] \div 128 = 1 <=> i = 1
         /\ (p[3] \div 64) % 2 = 1 <=> i = Len(Parts(nal))
         /\ Opened(p) = <<nal[1], nal[2]>>
         /\ SubSeq(p, 4, Len(p)) = Parts(nal)[i]
<1> DEFINE n == Len(Parts(nal))
<1>1. Len(nal) \in Nat /\ Len(nal) > 3 /\ n \in Nat /\ n >= 2 /\ i \in Nat
  BY LenProperties, RoomIs, PartsAre
<1>2. nal[1] \in Byte /\ nal[2] \in Byte /\ NalType(nal) \in 0..63
  BY <1>1, ElementOfSeq, NalTypeIs
<1> DEFINE type == NalType(nal)
<1>type. type \in 0..63
  BY <1>2
<1> HIDE DEF type
<1>3. PICK a \in 0..1, b \in 0..1 : a = nal[1] \div 128 /\ b = nal[1] % 2
  BY <1>2, FirstByte
<1>4. nal[1] = 128 * a + 2 * type + b
  BY <1>2, <1>3, FirstByte DEF NalType, type
<1>5. /\ p \in Seq(Int) /\ Len(p) = 3 + Len(Parts(nal)[i])
      /\ p[1] = 128 * a + 2 * 49 + b /\ p[2] = nal[2] /\ p[3] = FuHeader(nal, i, n)
      /\ \A j \in 1..Len(Parts(nal)[i]) : p[3 + j] = Parts(nal)[i][j]
      /\ Parts(nal)[i] \in Seq(Byte) /\ Len(Parts(nal)[i]) \in 1..Room
  <2>1. /\ i \in DOMAIN Payloads(nal) /\ Payloads(nal)[i] \in Seq(Int)
        /\ Parts(nal)[i] \in Seq(Byte) /\ Len(Parts(nal)[i]) \in 1..Room
        /\ Len(Payloads(nal)[i]) = 3 + Len(Parts(nal)[i])
        /\ Payloads(nal)[i][1] = 128 * (nal[1] \div 128) + 2 * 49 + (nal[1] % 2)
        /\ Payloads(nal)[i][2] = nal[2]
        /\ Payloads(nal)[i][3] = FuHeader(nal, i, Len(Parts(nal)))
        /\ \A j \in 1..Len(Parts(nal)[i]) : Payloads(nal)[i][3 + j] = Parts(nal)[i][j]
    BY FragmentIs, Zenon
  <2>2. p = Payloads(nal)[i]
    OBVIOUS
  <2> QED BY <1>3, <2>1, <2>2, Zenon
<1> HIDE DEF n
<1>6. PICK s \in Int, e \in Int :
        /\ s = IF i = 1 THEN 128 ELSE 0
        /\ e = IF i = n THEN 64 ELSE 0
  OBVIOUS
<1>7. p[3] = type + s + e
  BY <1>5, <1>6 DEF FuHeader, type
<1>8. p[3] % 64 = type /\ (p[3] \div 128 = 1 <=> s = 128) /\ ((p[3] \div 64) % 2 = 1 <=> e = 64)
  <2>1. PICK x \in Int : x = p[3] /\ x = type + s + e
    BY <1>type, <1>7
  <2>2. x % 64 = type /\ (x \div 128 = 1 <=> s = 128) /\ ((x \div 64) % 2 = 1 <=> e = 64)
    <3>1. CASE s = 0 /\ e = 0
      BY <1>type, <2>1, <3>1
    <3>2. CASE s = 0 /\ e = 64
      BY <1>type, <2>1, <3>2
    <3>3. CASE s = 128 /\ e = 0
      BY <1>type, <2>1, <3>3
    <3>4. CASE s = 128 /\ e = 64
      BY <1>type, <2>1, <3>4
    <3> QED BY <1>6, <3>1, <3>2, <3>3, <3>4
  <2> QED BY <2>1, <2>2
<1>9. p[1] \div 128 = a /\ NalType(p) = 49 /\ p[1] % 2 = b
  <2>1. p[1] = 128 * a + 2 * 49 + b
    BY <1>5
  <2>2. p[1] \div 128 = a /\ (p[1] \div 2) % 64 = 49 /\ p[1] % 2 = b
    BY <2>1, IndicatorBits, SMTT(30)
  <2> QED BY <2>2 DEF NalType
<1>10. Opened(p) = <<nal[1], nal[2]>>
  BY <1>4, <1>5, <1>8, <1>9 DEF Opened
<1>11. SubSeq(p, 4, Len(p)) = Parts(nal)[i]
  <2> DEFINE part == Parts(nal)[i]
             m    == Len(part)
  <2>1. m \in Nat /\ m >= 1 /\ part \in Seq(Byte) /\ Len(p) = 3 + m /\ p \in Seq(Int)
    <3>1. m \in 1..Room /\ part \in Seq(Byte) /\ Len(p) = 3 + m /\ p \in Seq(Int)
      BY <1>5, Zenon
    <3>2. m \in Nat /\ m >= 1
      BY <3>1, RoomIs
    <3> QED BY <3>1, <3>2
  <2>2. \A j \in 1..m : p[3 + j] = part[j]
    BY <1>5
  <2> HIDE DEF m, part
  <2>3. \A k \in 4..(3 + m) : p[k] \in Int
    BY <2>1, ElementOfSeq
  <2>4. 4 \in Int /\ 3 + m \in Int
    BY <2>1
  <2>5. /\ SubSeq(p, 4, 3 + m) \in Seq(Int)
        /\ Len(SubSeq(p, 4, 3 + m)) = IF 4 <= 3 + m THEN (3 + m) - 4 + 1 ELSE 0
        /\ \A j \in 1..((3 + m) - 4 + 1) : SubSeq(p, 4, 3 + m)[j] = p[4 + j - 1]
    BY <2>3, <2>4, SubSeqProperties
  <2>6. Len(SubSeq(p, 4, 3 + m)) = m
    BY <2>1, <2>5
  <2>7. \A j \in 1..m : SubSeq(p, 4, 3 + m)[j] = part[j]
    BY <2>1, <2>2, <2>5
  <2>8. part \in Seq(Int)
    <3>1. Byte \subseteq Int
      BY DEF Byte
    <3> QED BY <2>1, <3>1, SeqMonotonic
  <2>9. SubSeq(p, 4, 3 + m) = part
    BY <2>5, <2>6, <2>7, <2>8, SeqEqual DEF m
  <2> QED BY <2>1, <2>9 DEF part
<1> QED BY <1>1, <1>6, <1>8, <1>9, <1>10, <1>11 DEF n

\* A NAL unit up to the end of its i-th fragment.
Upto(nal, i) == SubSeq(nal, 1, 2 + Upper(Len(Body(nal)), Room, i))

LEMMA UptoIs ==
  ASSUME NEW nal \in Seq(Byte), NEW m \in Nat, m + 2 <= Len(nal)
  PROVE  /\ SubSeq(nal, 1, 2 + m) \in Seq(Byte) /\ Len(SubSeq(nal, 1, 2 + m)) = 2 + m
         /\ \A j \in 1..(2 + m) : SubSeq(nal, 1, 2 + m)[j] = nal[j]
<1>1. Len(nal) \in Nat /\ 1 \in Int /\ 2 + m \in Int
  BY LenProperties
<1>2. \A j \in 1..(2 + m) : nal[j] \in Byte
  BY <1>1, ElementOfSeq
<1>3. /\ SubSeq(nal, 1, 2 + m) \in Seq(Byte)
      /\ Len(SubSeq(nal, 1, 2 + m)) = IF 1 <= 2 + m THEN (2 + m) - 1 + 1 ELSE 0
      /\ \A j \in 1..((2 + m) - 1 + 1) : SubSeq(nal, 1, 2 + m)[j] = nal[1 + j - 1]
  BY <1>1, <1>2, SubSeqProperties
<1> QED BY <1>1, <1>3

\* Fragment by fragment it is put together.
LEMMA UptoGrows ==
  ASSUME NEW nal \in Seq(Byte), Len(nal) > Mtu, NEW i \in 1..Len(Parts(nal))
  PROVE  /\ Upto(nal, i - 1) \o Parts(nal)[i] = Upto(nal, i)
         /\ Upto(nal, i) # <<>>
<1> DEFINE from == (i - 1) * Room
           to   == Upper(Len(Body(nal)), Room, i)
           part == Parts(nal)[i]
           s    == SubSeq(nal, 1, 2 + from)
           t    == SubSeq(nal, 1, 2 + to)
<1>1. /\ Room \in Nat /\ Room > 0 /\ Len(Body(nal)) \in Nat /\ Len(nal) = Len(Body(nal)) + 2
      /\ Body(nal) \in Seq(Byte)
      /\ \A k \in 1..Len(Body(nal)) : Body(nal)[k] = nal[k + 2]
  BY RoomIs, BodyIs
<1>2. i \in 1..Count(Len(Body(nal)), Room)
  BY PartsAre
<1>3. from \in Nat /\ to \in Nat /\ from < to /\ to <= Len(Body(nal))
  BY <1>1, <1>2, SliceBounds
<1>4. /\ part \in Seq(Byte) /\ Len(part) = to - from
      /\ \A j \in 1..Len(part) : part[j] = Body(nal)[from + j]
  BY <1>1, <1>2, SliceIs DEF Parts
<1>5. Upper(Len(Body(nal)), Room, i - 1) = from
  BY <1>1, <1>3 DEF Upper
<1>6. Upto(nal, i - 1) = s /\ Upto(nal, i) = t
  BY <1>5 DEF Upto
<1> HIDE DEF from, to, part
<1>7. /\ s \in Seq(Byte) /\ Len(s) = 2 + from /\ \A j \in 1..(2 + from) : s[j] = nal[j]
      /\ t \in Seq(Byte) /\ Len(t) = 2 + to /\ \A j \in 1..(2 + to) : t[j] = nal[j]
  BY <1>1, <1>3, UptoIs
<1> HIDE DEF s, t
<1>8. /\ s \o part \in Seq(Byte) /\ Len(s \o part) = Len(s) + Len(part)
      /\ \A j \in 1..(Len(s) + Len(part)) :
           (s \o part)[j] = IF j <= Len(s) THEN s[j] ELSE part[j - Len(s)]
  BY <1>4, <1>7, ConcatProperties
<1>9. Len(s \o part) = 2 + to
  BY <1>3, <1>4, <1>7, <1>8
<1>10. ASSUME NEW j \in 1..(2 + to) PROVE (s \o part)[j] = t[j]
  <2>1. j \in 1..(Len(s) + Len(part)) /\ Len(s) = 2 + from
    BY <1>3, <1>4, <1>7
  <2>2. CASE j <= 2 + from
    <3>1. (s \o part)[j] = s[j]
      BY <1>8, <2>1, <2>2
    <3> QED BY <1>3, <1>7, <2>2, <3>1, SMTT(30)
  <2>3. CASE j > 2 + from
    <3>1. PICK k \in 1..(to - from) : j = (2 + from) + k
      <4>1. j - (2 + from) \in 1..(to - from) /\ j = (2 + from) + (j - (2 + from))
        BY <1>3, <2>3
      <4> QED BY <4>1
    <3>2. (s \o part)[j] = part[k]
      <4>1. ~(j <= Len(s)) /\ j - Len(s) = k
        BY <1>3, <2>1, <2>3, <3>1
      <4> QED BY <1>8, <2>1, <4>1
    <3>3. from + k \in 1..Len(Body(nal)) /\ (from + k) + 2 = j
      BY <1>3, <3>1
    <3>4. part[k] = nal[j]
      BY <1>1, <1>4, <3>1, <3>3
    <3> QED BY <1>7, <3>2, <3>4
  <2>4. j \in Int /\ from \in Int
    BY <1>3
  <2>5. j <= 2 + from \/ j > 2 + from
    BY <2>4
  <2> QED BY <2>2, <2>3, <2>5, Zenon
<1>11. s \o part = t
  BY <1>7, <1>8, <1>9, <1>10, SeqEqual
<1>12. t # <<>>
  <2>1. Len(t) # 0
    BY <1>3, <1>7
  <2> QED BY <2>1
<1> QED BY <1>6, <1>11, <1>12 DEF part

\* The first fragment begins with the header, the last ends with the NAL unit.
LEMMA UptoEnds ==
  ASSUME NEW nal \in Seq(Byte), Len(nal) > Mtu
  PROVE  /\ Upto(nal, 0) = <<nal[1], nal[2]>>
         /\ Upto(nal, Len(Parts(nal))) = nal
<1> DEFINE n == Len(Parts(nal))
<1>1. /\ Room \in Nat /\ Room > 0 /\ Len(Body(nal)) \in Nat /\ Len(nal) = Len(Body(nal)) + 2
      /\ Len(Body(nal)) > Room
  BY RoomIs, BodyIs
<1>2. n \in Nat /\ Len(Body(nal)) <= n * Room
  BY <1>1, PartsAre, CountReaches
<1>3. Upper(Len(Body(nal)), Room, 0) = 0
  BY <1>1 DEF Upper
<1>4. Upper(Len(Body(nal)), Room, n) = Len(Body(nal))
  <2> HIDE DEF n
  <2>1. n * Room \in Nat
    BY <1>1, <1>2
  <2> QED BY <1>1, <1>2, <2>1 DEF Upper
<1>5. Upto(nal, 0) = <<nal[1], nal[2]>>
  <2>1. Upto(nal, 0) = SubSeq(nal, 1, 2)
    <3>1. 2 + 0 = 2
      OBVIOUS
    <3>2. Upto(nal, 0) = SubSeq(nal, 1, 2 + 0)
      BY <1>3, Zenon DEF Upto
    <3> QED BY <3>1, <3>2, Zenon
  <2>2. /\ SubSeq(nal, 1, 2 + 0) \in Seq(Byte) /\ Len(SubSeq(nal, 1, 2 + 0)) = 2 + 0
        /\ \A j \in 1..(2 + 0) : SubSeq(nal, 1, 2 + 0)[j] = nal[j]
    BY <1>1, UptoIs
  <2>3. /\ SubSeq(nal, 1, 2) \in Seq(Byte) /\ Len(SubSeq(nal, 1, 2)) = 2
        /\ SubSeq(nal, 1, 2)[1] = nal[1] /\ SubSeq(nal, 1, 2)[2] = nal[2]
    BY <2>2
  <2>4. nal[1] \in Byte /\ nal[2] \in Byte
    BY <1>1, ElementOfSeq
  <2> DEFINE s == SubSeq(nal, 1, 2)
             t == <<nal[1], nal[2]>>
  <2>5. t \in Seq(Byte) /\ Len(t) = 2 /\ t[1] = nal[1] /\ t[2] = nal[2]
    BY <2>4
  <2>6. s \in Seq(Byte) /\ Len(s) = 2 /\ s[1] = nal[1] /\ s[2] = nal[2]
    BY <2>3
  <2> HIDE DEF s, t
  <2>7. s = t
    BY <2>5, <2>6, SeqEqual
  <2> QED BY <2>1, <2>7 DEF s, t
<1>6. Upto(nal, n) = nal
  <2>1. PICK m \in Nat : m = Len(Body(nal))
    BY <1>1
  <2>2. /\ SubSeq(nal, 1, 2 + m) \in Seq(Byte) /\ Len(SubSeq(nal, 1, 2 + m)) = 2 + m
        /\ \A j \in 1..(2 + m) : SubSeq(nal, 1, 2 + m)[j] = nal[j]
    BY <1>1, <2>1, UptoIs
  <2>3. Len(nal) = 2 + m
    BY <1>1, <2>1
  <2>4. SubSeq(nal, 1, 2 + m) = nal
    BY <2>2, <2>3, SeqEqual
  <2> QED BY <1>4, <2>1, <2>4 DEF Upto
<1> QED BY <1>5, <1>6
----------------------------------------------------------------------------
\* RtpTrack: what it makes of a payload

LEMMA ReadsWhole ==
  ASSUME NEW r, NEW p, NalType(p.payload) # 49
  PROVE  Depayload(r, p) = [expected |-> (p.sequence + 1) % SequenceMod, fu |-> <<>>,
                            nals |-> Append(r.nals, p.payload)]
  BY DEF Depayload

LEMMA ReadsFragment ==
  ASSUME NEW nal \in Seq(Byte), Len(nal) > Mtu, NEW i \in 1..Len(Parts(nal)),
         NEW r, NEW p, p.payload = Payloads(nal)[i]
  PROVE  /\ i = 1 \/ (r.fu = Upto(nal, i - 1) /\ p.sequence = r.expected) =>
              Depayload(r, p) =
                IF i = Len(Parts(nal))
                THEN [expected |-> (p.sequence + 1) % SequenceMod, fu |-> <<>>,
                      nals |-> Append(r.nals, nal)]
                ELSE [expected |-> (p.sequence + 1) % SequenceMod, fu |-> Upto(nal, i),
                      nals |-> r.nals]
         /\ i # 1 /\ (r.fu = <<>> \/ p.sequence # r.expected) =>
              Depayload(r, p) = [expected |-> (p.sequence + 1) % SequenceMod, fu |-> <<>>,
                                 nals |-> r.nals]
<1> DEFINE n == Len(Parts(nal))
           rest == SubSeq(p.payload, 4, Len(p.payload))
           fu == IF i = 1 THEN Upto(nal, 0) \o rest
                 ELSE IF r.fu # <<>> /\ p.sequence = r.expected THEN r.fu \o rest ELSE <<>>
           next == (p.sequence + 1) % SequenceMod
<1>1. /\ NalType(p.payload) = 49
      /\ p.payload[3] \div 128 = 1 <=> i = 1
      /\ (p.payload[3] \div 64) % 2 = 1 <=> i = n
      /\ Opened(p.payload) = <<nal[1], nal[2]>>
      /\ rest = Parts(nal)[i]
  <2>1. \A q : q = Payloads(nal)[i] =>
          /\ NalType(q) = 49
          /\ q[3] \div 128 = 1 <=> i = 1
          /\ (q[3] \div 64) % 2 = 1 <=> i = Len(Parts(nal))
          /\ Opened(q) = <<nal[1], nal[2]>>
          /\ SubSeq(q, 4, Len(q)) = Parts(nal)[i]
    BY FragmentReads, Zenon
  <2> QED BY <2>1, Zenon
<1>2. Opened(p.payload) = Upto(nal, 0)
  BY <1>1, UptoEnds
<1>3. Depayload(r, p) =
        IF i = n /\ fu # <<>>
        THEN [expected |-> next, fu |-> <<>>, nals |-> Append(r.nals, fu)]
        ELSE [expected |-> next, fu |-> fu, nals |-> r.nals]
  <2> DEFINE first == p.payload[3] \div 128 = 1
             last == (p.payload[3] \div 64) % 2 = 1
             made == IF first THEN Opened(p.payload) \o rest
                     ELSE IF r.fu # <<>> /\ p.sequence = r.expected THEN r.fu \o rest
                     ELSE <<>>
  <2>1. Depayload(r, p) =
          [expected |-> next, fu |-> IF last THEN <<>> ELSE made,
           nals |-> IF last /\ made # <<>> THEN Append(r.nals, made) ELSE r.nals]
    BY <1>1, Zenon DEF Depayload
  <2>2. made = fu
    BY <1>1, <1>2
  <2>3. last <=> i = n
    BY <1>1
  <2> HIDE DEF made, fu, last, next, n
  <2> QED BY <2>1, <2>2, <2>3
<1>4. /\ Upto(nal, i - 1) \o rest = Upto(nal, i) /\ Upto(nal, i) # <<>>
      /\ Upto(nal, n) = nal
  <2>1. Upto(nal, i - 1) \o Parts(nal)[i] = Upto(nal, i) /\ Upto(nal, i) # <<>>
    BY UptoGrows, Zenon
  <2>2. Upto(nal, Len(Parts(nal))) = nal
    BY UptoEnds, Zenon
  <2> HIDE DEF rest
  <2> QED BY <1>1, <2>1, <2>2, Zenon
<1>5. i # 1 => Upto(nal, i - 1) # <<>>
  <2>1. SUFFICES ASSUME i # 1 PROVE Upto(nal, i - 1) # <<>>
    OBVIOUS
  <2>2. i - 1 \in 1..n
    BY <2>1, PartsAre
  <2> QED BY <2>2, UptoGrows
<1>6. i = 1 \/ (r.fu = Upto(nal, i - 1) /\ p.sequence = r.expected) => fu = Upto(nal, i)
  <2>1. CASE i = 1
    <3>1. i - 1 = 0
      BY <2>1
    <3> HIDE DEF rest
    <3> QED BY <1>4, <2>1, <3>1
  <2>2. CASE i # 1
    <3> HIDE DEF rest
    <3> QED BY <1>4, <1>5, <2>2
  <2> QED BY <2>1, <2>2
<1>7. i # 1 /\ (r.fu = <<>> \/ p.sequence # r.expected) => fu = <<>>
  OBVIOUS
<1> HIDE DEF fu, rest, n, next
<1>8. i = 1 \/ (r.fu = Upto(nal, i - 1) /\ p.sequence = r.expected) =>
        Depayload(r, p) = IF i = n THEN [expected |-> next, fu |-> <<>>, nals |-> Append(r.nals, nal)]
                          ELSE [expected |-> next, fu |-> Upto(nal, i), nals |-> r.nals]
  BY <1>3, <1>4, <1>6
<1>9. i # 1 /\ (r.fu = <<>> \/ p.sequence # r.expected) =>
        Depayload(r, p) = [expected |-> next, fu |-> <<>>, nals |-> r.nals]
  BY <1>3, <1>7
<1> QED BY <1>8, <1>9 DEF n, next
----------------------------------------------------------------------------
\* RtpTrack: the invariant of a track and its client

Packets ==
  [sequence : Nat, payload : Seq(Int), timestamp : Nat, marker : BOOLEAN]
Tracks ==
  [clock_rate : Nat, sequence : Nat, base_ns : Int, base_timestamp : Nat, audio_timestamp : Nat]

RtpTyped ==
  /\ media \in {"video", "audio", "none"} /\ track \in Tracks /\ wire \in Seq(Packets)
  /\ start \in Nat /\ passed \in Nat /\ missed \in 0..MaxMissed /\ missed <= passed
  /\ chunk \in Seq(Byte) /\ said \in Seq(Byte) /\ heard \in Seq(Byte) /\ intact \in BOOLEAN
  /\ media = "none" => wire = <<>>

\* no number is left out or used again
Numbered ==
  /\ track.sequence = (start + passed + Len(wire)) % SequenceMod
  /\ \A j \in 1..Len(wire) : wire[j].sequence = (start + passed + j - 1) % SequenceMod

\* what is under way are the last packets of the chunk
Due(payloads) ==
  /\ Len(wire) <= Len(payloads)
  /\ \A j \in 1..Len(wire) : wire[j].payload = payloads[Len(payloads) - Len(wire) + j]

Marked ==
  \A j \in 1..Len(wire) :
    /\ wire[j].timestamp = wire[1].timestamp
    /\ wire[j].marker <=> (NalType(chunk) < 32 /\ j = Len(wire))

\* what the client has of the NAL unit under way: all fragments so far, or none
\* it would go on with
Collected ==
  LET n == Len(Payloads(chunk))
      k == n - Len(wire)
  IN  /\ wire # <<>> => chunk # <<>> /\ NalType(chunk) \in 0..47
      /\ k = 0 => intact
      /\ intact /\ 0 < k /\ k < n => missed = 0 /\ client.fu = Upto(chunk, k)
      /\ ~intact /\ client.fu # <<>> => missed > 0
      /\ client.fu # <<>> => client.expected = (start + (passed - missed)) % SequenceMod

\* the samples of the packets that were made, and of those no longer under way
Spoken ==
  LET len  == Even(Len(chunk))
      size == Even(Mtu)
      k    == Len(PcmPayloads(chunk)) - Len(wire)
      from == Len(said) - len
  IN  /\ Len(said) % 2 = 0 /\ from >= 0
      /\ \A i \in 1..len : said[from + i] = chunk[i]
      /\ Len(heard) = from + Upper(len, size, k)
      /\ \A i \in 1..Len(heard) : heard[i] = said[i]
      /\ track.audio_timestamp = (track.base_timestamp + Samples(Len(said))) % TsMod
      /\ \A j \in 1..Len(wire) :
           wire[j].timestamp =
             (track.base_timestamp + Samples(from + (k + j - 1) * size)) % TsMod

RtpInv ==
  /\ RtpTyped /\ Numbered
  /\ media = "video" => Due(Payloads(chunk)) /\ Marked /\ Collected
  /\ media = "audio" => Due(PcmPayloads(chunk)) /\ Spoken
  /\ client.nals = whole
----------------------------------------------------------------------------
\* RtpTrack: the packets of a NAL unit, and their numbers

LEMMA SeqOf ==
  ASSUME NEW n \in Nat, NEW S, NEW f \in [1..n -> S]
  PROVE  f \in Seq(S) /\ Len(f) = n /\ DOMAIN f = 1..n
<1>1. f \in Seq(S)
  BY SeqDef
<1>2. DOMAIN f = 1..n /\ DOMAIN f = 1..Len(f) /\ Len(f) \in Nat
  BY <1>1, LenProperties
<1>3. Len(f) = n
  BY <1>2
<1> QED BY <1>1, <1>2, <1>3

LEMMA ConstantsTyped ==
  /\ Mtu \in Nat /\ Mtu > 3 /\ SequenceMod \in Nat /\ SequenceMod > 0
  /\ TsMod \in Nat /\ TsMod > 0 /\ Second \in Nat /\ Second > 0
  /\ MaxMissed \in Nat /\ MaxMissed < SequenceMod
  BY RtpAssumption

\* The packets of a NAL unit: none, itself, or two fragments at least.
LEMMA PayloadsAre ==
  ASSUME NEW nal \in Seq(Byte), nal # <<>>
  PROVE  /\ Len(Payloads(nal)) \in Nat /\ DOMAIN Payloads(nal) = 1..Len(Payloads(nal))
         /\ \A i \in 1..Len(Payloads(nal)) : Payloads(nal)[i] \in Seq(Int)
         /\ Len(nal) > Mtu => Len(Payloads(nal)) = Len(Parts(nal)) /\ Len(Parts(nal)) >= 2
         /\ ~(Len(nal) > Mtu) /\ Len(Payloads(nal)) # 0 =>
              Len(Payloads(nal)) = 1 /\ Payloads(nal)[1] = nal
<1>1. Len(nal) \in Nat /\ Mtu \in Nat /\ Mtu > 3
  BY LenProperties, ConstantsTyped
<1>2. nal \in Seq(Int)
  <2>1. Byte \subseteq Int
    BY DEF Byte
  <2> QED BY <2>1, SeqMonotonic
<1>3. CASE Len(nal) < 2
  <2>1. Payloads(nal) = <<>>
    BY <1>3 DEF Payloads
  <2> QED BY <1>1, <1>3, <2>1
<1>4. CASE ~(Len(nal) < 2) /\ Len(nal) <= Mtu
  <2>1. Payloads(nal) = <<nal>>
    BY <1>4 DEF Payloads
  <2>2. Len(Payloads(nal)) = 1 /\ DOMAIN Payloads(nal) = 1..1 /\ Payloads(nal)[1] = nal
    BY <2>1
  <2> QED BY <1>1, <1>2, <1>4, <2>2
<1>5. CASE Len(nal) > Mtu
  <2> DEFINE n == Len(Parts(nal))
  <2>1. n \in Nat /\ n >= 2 /\ DOMAIN Parts(nal) = 1..n
    BY <1>5, PartsAre
  <2>2. \A i \in 1..n : Payloads(nal)[i] \in Seq(Int)
    BY <1>5, FragmentIs
  <2>3. Payloads(nal) = [i \in DOMAIN Parts(nal) |->
          Indicator(nal) \o <<FuHeader(nal, i, Len(Parts(nal)))>> \o Parts(nal)[i]]
    BY <1>1, <1>5 DEF Payloads
  <2> DEFINE f == Payloads(nal)
  <2>4. DOMAIN f = 1..n /\ f = [i \in 1..n |-> f[i]]
    BY <2>1, <2>3
  <2> HIDE DEF n, f
  <2>5. f \in [1..n -> Seq(Int)]
    BY <2>2, <2>4 DEF f
  <2>6. Len(f) = n
    BY <2>1, <2>5, SeqOf
  <2> QED BY <1>5, <2>1, <2>2, <2>4, <2>6 DEF n, f
<1> QED BY <1>1, <1>3, <1>4, <1>5

\* timestamp(), and a track after it and after packet().
LEMMA BasedIs ==
  ASSUME NEW t \in Tracks, NEW timestamp_ns \in Nat
  PROVE  /\ Based(t, timestamp_ns) \in Tracks
         /\ Based(t, timestamp_ns).sequence = t.sequence
  BY DEF Based, Tracks

LEMMA TimestampIs ==
  ASSUME NEW t \in Tracks, NEW timestamp_ns \in Nat
  PROVE  Timestamp(t, timestamp_ns) \in Nat
<1>1. t.base_timestamp \in Nat /\ t.base_ns \in Int /\ t.clock_rate \in Nat
  BY DEF Tracks
<1>2. (timestamp_ns - t.base_ns) * t.clock_rate \in Int
  BY <1>1
<1>3. PICK d \in Int : d = (timestamp_ns - t.base_ns) * t.clock_rate
  BY <1>2
<1>4. d \div Second \in Int
  BY ConstantsTyped
<1>5. (t.base_timestamp + (d \div Second)) % TsMod \in Nat
  BY <1>1, <1>4, ConstantsTyped
<1> QED BY <1>3, <1>5 DEF Timestamp

LEMMA AdvancedIs ==
  ASSUME NEW t \in Tracks, NEW n \in Nat
  PROVE  /\ Advanced(t, n) \in Tracks
         /\ Advanced(t, n).sequence = (t.sequence + n) % SequenceMod
         /\ Advanced(t, n).base_timestamp = t.base_timestamp
         /\ Advanced(t, n).audio_timestamp = t.audio_timestamp
<1>1. t.sequence \in Nat
  BY DEF Tracks
<1>2. (t.sequence + n) % SequenceMod \in Nat
  BY <1>1, ConstantsTyped
<1> QED BY <1>2 DEF Advanced, Tracks

LEMMA PacketIs ==
  ASSUME NEW t \in Tracks, NEW i \in Nat \ {0}, NEW payload \in Seq(Int),
         NEW timestamp \in Nat, NEW marker \in BOOLEAN
  PROVE  Packet(t, i, payload, timestamp, marker) \in Packets
<1>1. t.sequence \in Nat
  BY DEF Tracks
<1>2. (t.sequence + i - 1) % SequenceMod \in Nat
  BY <1>1, ConstantsTyped
<1> QED BY <1>2 DEF Packet, Packets

LEMMA HevcIs ==
  ASSUME NEW t \in Tracks, NEW nal \in Seq(Byte), nal # <<>>, NEW timestamp_ns \in Nat
  PROVE  /\ Hevc(t, nal, timestamp_ns) \in Seq(Packets)
         /\ Len(Hevc(t, nal, timestamp_ns)) = Len(Payloads(nal))
         /\ \A i \in 1..Len(Payloads(nal)) :
              Hevc(t, nal, timestamp_ns)[i] =
                Packet(t, i, Payloads(nal)[i], Timestamp(t, timestamp_ns),
                       NalType(nal) < 32 /\ i = Len(Payloads(nal)))
<1> DEFINE n == Len(Payloads(nal))
           f == Hevc(t, nal, timestamp_ns)
           m(i) == NalType(nal) < 32 /\ i = n
<1>1. n \in Nat /\ \A i \in 1..n : Payloads(nal)[i] \in Seq(Int)
  BY PayloadsAre
<1>2. f = [i \in 1..n |-> Packet(t, i, Payloads(nal)[i], Timestamp(t, timestamp_ns), m(i))]
  BY DEF Hevc
<1>3. Timestamp(t, timestamp_ns) \in Nat
  BY TimestampIs
<1>4. ASSUME NEW i \in 1..n
      PROVE  Packet(t, i, Payloads(nal)[i], Timestamp(t, timestamp_ns), m(i)) \in Packets
  <2>1. i \in Nat \ {0} /\ Payloads(nal)[i] \in Seq(Int)
    BY <1>1
  <2>2. m(i) \in BOOLEAN
    OBVIOUS
  <2> HIDE DEF m, n
  <2> QED BY <1>3, <2>1, <2>2, PacketIs
<1> HIDE DEF m, n, f
<1>5. f \in [1..n -> Packets]
  BY <1>2, <1>4
<1>6. f \in Seq(Packets) /\ Len(f) = n
  BY <1>1, <1>5, SeqOf
<1>7. \A i \in 1..n : f[i] = Packet(t, i, Payloads(nal)[i], Timestamp(t, timestamp_ns), m(i))
  BY <1>2
<1> QED BY <1>6, <1>7 DEF f, n, m
----------------------------------------------------------------------------
\* RtpTrack: the packets of a chunk of samples

LEMMA EvenIs ==
  ASSUME NEW n \in Nat
  PROVE  /\ Even(n) \in Nat /\ Even(n) <= n /\ Even(n) % 2 = 0
         /\ n > 1 => Even(n) > 0
  BY DEF Even

\* The samples in network order are as many bytes, and at the same places.
LEMMA NetworkIs ==
  ASSUME NEW data \in Seq(Byte)
  PROVE  /\ Network(data) \in Seq(Byte) /\ Len(Network(data)) = Even(Len(data))
         /\ \A i \in 1..Even(Len(data)) :
              Network(data)[i] = IF i % 2 = 1 THEN data[i + 1] ELSE data[i - 1]
<1> DEFINE n == Even(Len(data))
           f == Network(data)
<1>1. Len(data) \in Nat
  BY LenProperties
<1>2. n \in Nat /\ n <= Len(data) /\ n % 2 = 0
  BY <1>1, EvenIs
<1>3. f = [i \in 1..n |-> IF i % 2 = 1 THEN data[i + 1] ELSE data[i - 1]]
  BY DEF Network
<1> HIDE DEF n, f
<1>4. ASSUME NEW i \in 1..n PROVE (IF i % 2 = 1 THEN data[i + 1] ELSE data[i - 1]) \in Byte
  <2>1. CASE i % 2 = 1
    <3>1. i + 1 \in 1..Len(data)
      <4>1. i # n
        BY <1>2, <2>1
      <4> QED BY <1>1, <1>2, <4>1
    <3> QED BY <1>1, <2>1, <3>1, ElementOfSeq
  <2>2. CASE i % 2 # 1
    <3>1. i - 1 \in 1..Len(data)
      <4>1. i # 1
        BY <2>2
      <4> QED BY <1>1, <1>2, <4>1
    <3> QED BY <1>1, <2>2, <3>1, ElementOfSeq
  <2> QED BY <2>1, <2>2
<1>5. f \in [1..n -> Byte]
  BY <1>3, <1>4
<1>6. f \in Seq(Byte) /\ Len(f) = n
  BY <1>2, <1>5, SeqOf
<1>7. \A i \in 1..n : f[i] = IF i % 2 = 1 THEN data[i + 1] ELSE data[i - 1]
  BY <1>3
<1> QED BY <1>6, <1>7 DEF f, n

\* Payloads of PCM: read back they are the samples at their place.
LEMMA PcmPayloadsAre ==
  ASSUME NEW data \in Seq(Byte)
  PROVE  /\ Len(PcmPayloads(data)) = Count(Even(Len(data)), Even(Mtu))
         /\ Len(PcmPayloads(data)) \in Nat
         /\ \A i \in 1..Len(PcmPayloads(data)) :
              /\ PcmPayloads(data)[i] \in Seq(Byte)
              /\ Len(PcmPayloads(data)[i]) \in 1..Mtu
              /\ Network(PcmPayloads(data)[i]) \in Seq(Byte)
              /\ (i - 1) * Even(Mtu) \in Nat
              /\ Len(Network(PcmPayloads(data)[i]))
                   = Upper(Even(Len(data)), Even(Mtu), i) - (i - 1) * Even(Mtu)
              /\ \A j \in 1..Len(Network(PcmPayloads(data)[i])) :
                   Network(PcmPayloads(data)[i])[j] = data[(i - 1) * Even(Mtu) + j]
<1> DEFINE len  == Even(Len(data))
           size == Even(Mtu)
           net  == Network(data)
           n    == Count(len, size)
<1>1. Len(data) \in Nat /\ len \in Nat /\ len <= Len(data) /\ len % 2 = 0
  BY LenProperties, EvenIs
<1>2. size \in Nat /\ size > 0 /\ size <= Mtu /\ size % 2 = 0 /\ Mtu \in Nat
  BY ConstantsTyped, EvenIs, SMTT(30)
<1>3. /\ net \in Seq(Byte) /\ Len(net) = len
      /\ \A i \in 1..len : net[i] = IF i % 2 = 1 THEN data[i + 1] ELSE data[i - 1]
  BY NetworkIs
<1> HIDE DEF len, size, net
<1>4. n \in Nat
  BY <1>1, <1>2, CountReaches
<1>5. PcmPayloads(data) = Slices(net, size)
  BY DEF PcmPayloads, net, size
<1> DEFINE f == Slices(net, size)
<1>6. f = [i \in 1..n |-> SubSeq(net, (i - 1) * size + 1, Upper(len, size, i))]
  BY <1>3 DEF Slices
<1> HIDE DEF f
<1>7. \A i \in 1..n : f[i] \in Seq(Byte)
  <2> HIDE DEF n
  <2>1. \A i \in 1..Count(Len(net), size) : f[i] \in Seq(Byte)
    BY <1>2, <1>3, SliceIs DEF f
  <2> QED BY <1>3, <2>1 DEF n
<1>8. Len(f) = n
  <2> HIDE DEF n
  <2>1. f \in [1..n -> Seq(Byte)]
    BY <1>6, <1>7
  <2> QED BY <1>4, <2>1, SeqOf
<1>9. ASSUME NEW i \in 1..n
      PROVE  /\ f[i] \in Seq(Byte)
             /\ Len(f[i]) \in 1..Mtu
             /\ Network(f[i]) \in Seq(Byte)
             /\ (i - 1) * size \in Nat
             /\ Len(Network(f[i])) = Upper(len, size, i) - (i - 1) * size
             /\ \A j \in 1..Len(Network(f[i])) : Network(f[i])[j] = data[(i - 1) * size + j]
  <2> DEFINE from == (i - 1) * size
             to   == Upper(len, size, i)
             s    == f[i]
  <2>1. /\ from \in Nat /\ i * size = from + size /\ to \in Nat /\ from < to
        /\ to <= i * size /\ to <= len
    BY <1>1, <1>2, SliceBounds
  <2>2. /\ s \in Seq(Byte) /\ Len(s) = to - from
        /\ \A j \in 1..Len(s) : s[j] = net[from + j]
    BY <1>2, <1>3, SliceIs DEF f
  <2>3. from % 2 = 0 /\ to % 2 = 0
    <3>1. PICK h \in Nat : size = 2 * h
      <4>1. size = 2 * (size \div 2) /\ size \div 2 \in Nat
        BY <1>2
      <4> QED BY <4>1
    <3>2. (i - 1) * size = 2 * ((i - 1) * h) /\ (i - 1) * h \in Nat
      BY <1>4, <3>1
    <3>3. from % 2 = 0
      BY <3>2
    <3>4. i * size = 2 * (i * h) /\ i * h \in Nat
      BY <1>4, <3>1
    <3>5. (i * size) % 2 = 0
      BY <3>4
    <3>6. to = i * size \/ to = len
      BY DEF Upper
    <3> QED BY <1>1, <3>3, <3>5, <3>6
  <2> HIDE DEF from, to, s
  <2>4. PICK m \in Nat : m = to - from /\ m % 2 = 0 /\ m > 0 /\ m <= size
    <3>1. to - from \in Nat /\ (to - from) % 2 = 0 /\ to - from > 0
      BY <2>1, <2>3
    <3> QED BY <1>2, <2>1, <3>1
  <2>5. Even(Len(s)) = m /\ Len(s) = m
    BY <2>2, <2>4 DEF Even
  <2>6. /\ Network(s) \in Seq(Byte) /\ Len(Network(s)) = m
        /\ \A j \in 1..m : Network(s)[j] = IF j % 2 = 1 THEN s[j + 1] ELSE s[j - 1]
    BY <2>2, <2>5, NetworkIs
  <2>7. ASSUME NEW j \in 1..m PROVE Network(s)[j] = data[from + j]
    <3>1. CASE j % 2 = 1
      <4>1. j + 1 \in 1..m /\ from + (j + 1) \in 1..len /\ (from + (j + 1)) % 2 = 0
        <5>1. j # m
          BY <2>4, <3>1
        <5> QED BY <1>1, <2>1, <2>3, <2>4, <3>1, <5>1
      <4>2. Network(s)[j] = net[from + (j + 1)]
        BY <2>2, <2>5, <2>6, <3>1, <4>1
      <4>3. net[from + (j + 1)] = data[(from + (j + 1)) - 1]
        BY <1>3, <4>1
      <4>4. (from + (j + 1)) - 1 = from + j
        BY <2>1
      <4> QED BY <4>2, <4>3, <4>4
    <3>2. CASE j % 2 # 1
      <4>1. j - 1 \in 1..m /\ from + (j - 1) \in 1..len /\ (from + (j - 1)) % 2 = 1
        <5>1. j # 1
          BY <3>2
        <5> QED BY <1>1, <2>1, <2>3, <2>4, <3>2, <5>1
      <4>2. Network(s)[j] = net[from + (j - 1)]
        BY <2>2, <2>5, <2>6, <3>2, <4>1
      <4>3. net[from + (j - 1)] = data[(from + (j - 1)) + 1]
        BY <1>3, <4>1
      <4>4. (from + (j - 1)) + 1 = from + j
        BY <2>1
      <4> QED BY <4>2, <4>3, <4>4
    <3> QED BY <3>1, <3>2
  <2>8. m \in 1..Mtu
    BY <1>2, <2>4
  <2>9. \A j \in 1..Len(Network(s)) : Network(s)[j] = data[from + j]
    BY <2>6, <2>7
  <2> QED BY <2>1, <2>2, <2>4, <2>5, <2>6, <2>8, <2>9 DEF s, from, to
<1> HIDE DEF n
<1> QED BY <1>4, <1>5, <1>8, <1>9 DEF f, n, len, size
----------------------------------------------------------------------------
\* RtpTrack: the invariant holds and lets all be read

LEMMA Small ==
  ASSUME NEW m \in Nat, NEW a \in 0..(m - 1)
  PROVE  a % m = a
<1>1. a = 0 * m + a /\ a \in Int /\ 0 \in Int /\ m > 0
  OBVIOUS
<1> QED BY <1>1, Quotient

\* Where the slices begin and end.
LEMMA UpperIs ==
  ASSUME NEW len \in Nat, NEW size \in Nat, size > 0
  PROVE  /\ Upper(len, size, 0) = 0
         /\ Upper(len, size, Count(len, size)) = len
         /\ \A k \in Nat : k < Count(len, size) => Upper(len, size, k) = k * size
         /\ \A k \in Nat : Upper(len, size, k) \in Nat /\ Upper(len, size, k) <= len
<1> DEFINE n == Count(len, size)
<1>1. n \in Nat /\ len <= n * size
  BY CountReaches
<1>2. Upper(len, size, 0) = 0
  BY DEF Upper
<1>3. Upper(len, size, n) = len
  <2> HIDE DEF n
  <2>1. n * size \in Nat
    BY <1>1
  <2> QED BY <1>1, <2>1 DEF Upper
<1>4. ASSUME NEW k \in Nat, k < n PROVE Upper(len, size, k) = k * size
  <2>1. k + 1 \in 1..n
    BY <1>1, <1>4
  <2>2. PICK i \in 1..Count(len, size) : i = k + 1
    BY <2>1
  <2> HIDE DEF n
  <2>3. (i - 1) * size < Upper(len, size, i) /\ Upper(len, size, i) <= len /\ Upper(len, size, i) \in Nat
        /\ (i - 1) * size \in Nat
    BY SliceBounds
  <2>4. i - 1 = k
    BY <2>2
  <2>5. k * size < len
    BY <2>3, <2>4
  <2> QED BY <2>5 DEF Upper
<1>5. ASSUME NEW k \in Nat PROVE Upper(len, size, k) \in Nat /\ Upper(len, size, k) <= len
  <2>1. k * size \in Nat
    OBVIOUS
  <2> QED BY <2>1 DEF Upper
<1> QED BY <1>2, <1>3, <1>4, <1>5

LEMMA Half ==
  ASSUME NEW a \in Nat, NEW b \in Nat, a % 2 = 0
  PROVE  Samples(a) \in Nat /\ Samples(b) \in Nat /\ Samples(a + b) = Samples(a) + Samples(b)
  BY DEF Samples

LEMMA SizeIs == Even(Mtu) \in Nat /\ Even(Mtu) > 0 /\ Even(Mtu) % 2 = 0
  BY ConstantsTyped, EvenIs

LEMMA RtpStarts ==
  ASSUME NEW of \in {"video", "audio", "none"}, NEW clock_rate \in Nat,
         NEW sequence \in 0..(SequenceMod - 1), NEW base_timestamp \in 0..(TsMod - 1),
         RtpInit(of, clock_rate, sequence, base_timestamp)
  PROVE  RtpInv
<1> USE DEF RtpInit
<1>1. /\ track.sequence = sequence /\ track.base_timestamp = base_timestamp
      /\ track.audio_timestamp = base_timestamp /\ track \in Tracks
  BY DEF NewTrack, Tracks
<1>2. sequence % SequenceMod = sequence /\ base_timestamp % TsMod = base_timestamp
  BY ConstantsTyped, Small
<1>3. RtpTyped
  BY <1>1, ConstantsTyped DEF RtpTyped
<1>4. Numbered
  <2>1. start + passed + Len(wire) = sequence
    OBVIOUS
  <2>2. Len(wire) = 0
    OBVIOUS
  <2> QED BY <1>1, <1>2, <2>1, <2>2 DEF Numbered
<1>5. media = "video" => Due(Payloads(chunk)) /\ Marked /\ Collected
  <2>1. Payloads(chunk) = <<>> /\ Len(<<>>) = 0
    BY ConstantsTyped DEF Payloads
  <2>2. Len(Payloads(chunk)) = 0 /\ Len(wire) = 0 /\ wire = <<>> /\ client.fu = <<>> /\ intact
    BY <2>1 DEF Depayloader
  <2> QED BY <2>2 DEF Due, Marked, Collected
<1>6. media = "audio" => Due(PcmPayloads(chunk)) /\ Spoken
  <2>1. chunk \in Seq(Byte) /\ Len(chunk) = 0 /\ Len(wire) = 0 /\ Len(said) = 0 /\ Len(heard) = 0
    OBVIOUS
  <2>2. Len(PcmPayloads(chunk)) \in Nat
    BY <2>1, PcmPayloadsAre
  <2>3. Even(Len(chunk)) = 0 /\ Samples(0) = 0
    BY <2>1 DEF Even, Samples
  <2> DEFINE k == Len(PcmPayloads(chunk)) - Len(wire)
  <2>4. k \in Nat
    BY <2>1, <2>2
  <2>5. Upper(0, Even(Mtu), k) = 0
    <3> HIDE DEF k
    <3>1. Upper(0, Even(Mtu), k) \in Nat /\ Upper(0, Even(Mtu), k) <= 0
      BY <2>4, SizeIs, UpperIs
    <3> QED BY <3>1
  <2>6. Due(PcmPayloads(chunk))
    BY <2>1, <2>2 DEF Due
  <2>7. Spoken
    <3>1. Len(said) - Even(Len(chunk)) = 0 /\ Len(said) % 2 = 0
      BY <2>1, <2>3
    <3>2. track.audio_timestamp = (track.base_timestamp + Samples(Len(said))) % TsMod
      BY <1>1, <1>2, <2>1, <2>3
    <3>3. Len(heard) = (Len(said) - Even(Len(chunk))) + Upper(Even(Len(chunk)), Even(Mtu), k)
      BY <2>1, <2>3, <2>5, <3>1
    <3> QED BY <2>1, <2>3, <3>1, <3>2, <3>3 DEF Spoken
  <2> QED BY <2>6, <2>7
<1>7. client.nals = whole
  BY DEF Depayloader
<1> QED BY <1>3, <1>4, <1>5, <1>6, <1>7 DEF RtpInv

\* The numbers of n packets made one behind the other.
LEMMA NumbersGoOn ==
  ASSUME NEW t \in Tracks, NEW first \in Nat, t.sequence = first % SequenceMod
  PROVE  /\ \A n \in Nat : (t.sequence + n) % SequenceMod = (first + n) % SequenceMod
         /\ \A i \in Nat \ {0} : \A payload, timestamp, marker :
              Packet(t, i, payload, timestamp, marker).sequence = (first + i - 1) % SequenceMod
<1>1. ASSUME NEW n \in Nat PROVE (t.sequence + n) % SequenceMod = (first + n) % SequenceMod
  <2>1. ((first % SequenceMod) + n) % SequenceMod = (first + n) % SequenceMod
    BY ConstantsTyped, SumWraps, ZenonT(60)
  <2> QED BY <2>1
<1>2. ASSUME NEW i \in Nat \ {0}, NEW payload, NEW timestamp, NEW marker
      PROVE  Packet(t, i, payload, timestamp, marker).sequence = (first + i - 1) % SequenceMod
  <2>1. PICK n \in Nat : i - 1 = n /\ i = n + 1
    <3>1. i - 1 \in Nat
      OBVIOUS
    <3> QED BY <3>1
  <2>2. t.sequence \in Nat
    BY DEF Tracks
  <2>3. t.sequence + i - 1 = t.sequence + n /\ first + i - 1 = first + n
    BY <2>1, <2>2
  <2>4. Packet(t, i, payload, timestamp, marker).sequence = (t.sequence + i - 1) % SequenceMod
    BY DEF Packet
  <2> QED BY <1>1, <2>3, <2>4
<1> QED BY <1>1, <1>2

\* What hevc() and pcm() have in common: n numbered packets with the payloads.
LEMMA SendKeeps ==
  ASSUME RtpInv, NEW data \in Seq(Byte), NEW packets \in Seq(Packets), NEW payloads,
         NEW n \in Nat, n = Len(packets), n = Len(payloads),
         Send(data, packets),
         track' \in Tracks, track'.sequence = (track.sequence + n) % SequenceMod,
         \A i \in 1..n : \E timestamp, marker :
           packets[i] = Packet(track, i, payloads[i], timestamp, marker)
  PROVE  /\ Numbered'
         /\ Len(wire') <= Len(payloads)
         /\ \A j \in 1..Len(wire') : wire'[j].payload = payloads[Len(payloads) - Len(wire') + j]
<1>1. wire = <<>> /\ wire' = packets /\ start' = start /\ passed' = passed /\ Len(wire) = 0
  BY DEF Send
<1>2. start \in Nat /\ passed \in Nat /\ track \in Tracks
  BY DEF RtpInv, RtpTyped
<1>3. PICK first \in Nat : first = start + passed
  BY <1>2
<1>4. track.sequence = first % SequenceMod
  <2>1. start + passed + Len(wire) = first
    BY <1>1, <1>2, <1>3
  <2> QED BY <2>1 DEF RtpInv, Numbered
<1>5. track'.sequence = (start + passed + n) % SequenceMod
  BY <1>2, <1>3, <1>4, NumbersGoOn
<1>6. ASSUME NEW j \in 1..n
      PROVE  packets[j].sequence = (start + passed + j - 1) % SequenceMod /\ packets[j].payload = payloads[j]
  <2>1. PICK timestamp, marker : packets[j] = Packet(track, j, payloads[j], timestamp, marker)
    OBVIOUS
  <2>2. j \in Nat \ {0}
    OBVIOUS
  <2>3. packets[j].sequence = (first + j - 1) % SequenceMod
    <3>1. \A i \in Nat \ {0} : \A x, y, z : Packet(track, i, x, y, z).sequence = (first + i - 1) % SequenceMod
      BY <1>2, <1>4, NumbersGoOn, Zenon
    <3>2. Packet(track, j, payloads[j], timestamp, marker).sequence = (first + j - 1) % SequenceMod
      BY <2>2, <3>1, Zenon
    <3> QED BY <2>1, <3>2, Zenon
  <2>4. packets[j].payload = payloads[j]
    BY <2>1 DEF Packet
  <2> QED BY <1>3, <2>3, <2>4
<1>7. Numbered'
  <2>1. track'.sequence = (start' + passed' + Len(wire')) % SequenceMod
    BY <1>1, <1>5
  <2>2. \A j \in 1..Len(wire') : wire'[j].sequence = (start' + passed' + j - 1) % SequenceMod
    BY <1>1, <1>6
  <2> QED BY <2>1, <2>2 DEF Numbered
<1>8. \A j \in 1..n : wire'[j].payload = payloads[n - n + j]
  <2> TAKE j \in 1..n
  <2>1. n - n + j = j
    OBVIOUS
  <2> QED BY <1>1, <1>6, <2>1
<1>9. Len(wire') = n
  BY <1>1
<1>10. Len(wire') <= Len(payloads)
  BY <1>9
<1>11. \A j \in 1..Len(wire') : wire'[j].payload = payloads[Len(payloads) - Len(wire') + j]
  BY <1>8, <1>9
<1> QED BY <1>7, <1>10, <1>11

LEMMA SendVideoKeeps ==
  ASSUME RtpInv, NEW nal \in Nals, NEW timestamp_ns \in ChunkTimes, SendVideo(nal, timestamp_ns)
  PROVE  RtpInv'
<1> DEFINE based   == Based(track, timestamp_ns)
           packets == Hevc(based, nal, timestamp_ns)
           n       == Len(Payloads(nal))
<1>1. nal \in Seq(Byte) /\ nal # <<>> /\ NalType(nal) \in 0..47 /\ timestamp_ns \in Nat
  BY RtpAssumption
<1>2. /\ media = "video" /\ Send(nal, packets) /\ said' = said
      /\ track' = IF packets = <<>> THEN track ELSE Advanced(based, Len(packets))
  BY DEF SendVideo
<1>3. /\ wire = <<>> /\ wire' = packets /\ chunk' = nal /\ intact' = TRUE /\ media' = media
      /\ client' = client /\ missed' = missed /\ start' = start /\ passed' = passed
      /\ whole' = whole /\ heard' = heard
  BY <1>2 DEF Send
<1>4. track \in Tracks /\ RtpTyped
  BY DEF RtpInv, RtpTyped
<1>5. based \in Tracks /\ based.sequence = track.sequence
  BY <1>1, <1>4, BasedIs
<1> HIDE DEF based
<1>6. /\ packets \in Seq(Packets) /\ Len(packets) = n
      /\ \A i \in 1..n : packets[i] = Packet(based, i, Payloads(nal)[i], Timestamp(based, timestamp_ns),
                                             NalType(nal) < 32 /\ i = n)
  BY <1>1, <1>5, HevcIs
<1>7. n \in Nat
  BY <1>1, PayloadsAre
<1> HIDE DEF packets, n
<1>8. track' \in Tracks /\ track'.sequence = (track.sequence + n) % SequenceMod
  <2>1. CASE packets = <<>>
    <3>1. n = 0
      BY <1>6, <2>1
    <3>2. track.sequence = (start + passed + Len(wire)) % SequenceMod /\ Len(wire) = 0
      BY <1>3 DEF RtpInv, Numbered
    <3>3. PICK first \in Nat : first = start + passed + Len(wire)
      BY <1>4, <3>2 DEF RtpTyped
    <3>4. (track.sequence + 0) % SequenceMod = (first + 0) % SequenceMod
      <4>1. track.sequence = first % SequenceMod
        BY <3>2, <3>3
      <4>2. \A k \in Nat : (track.sequence + k) % SequenceMod = (first + k) % SequenceMod
        BY <1>4, <4>1, NumbersGoOn, Zenon
      <4> QED BY <4>2
    <3>5. first + 0 = first
      BY <3>3
    <3> QED BY <1>2, <1>4, <2>1, <3>1, <3>2, <3>3, <3>4, <3>5
  <2>2. CASE packets # <<>>
    BY <1>2, <1>5, <1>6, <1>7, <2>2, AdvancedIs
  <2> QED BY <2>1, <2>2
<1>9. \A i \in 1..n : \E timestamp, marker :
        packets[i] = Packet(track, i, Payloads(nal)[i], timestamp, marker)
  <2> TAKE i \in 1..n
  <2>1. packets[i] = Packet(based, i, Payloads(nal)[i], Timestamp(based, timestamp_ns), NalType(nal) < 32 /\ i = n)
    BY <1>6
  <2>2. packets[i] = Packet(track, i, Payloads(nal)[i], Timestamp(based, timestamp_ns), NalType(nal) < 32 /\ i = n)
    BY <1>5, <2>1 DEF Packet
  <2> QED BY <2>2
<1>10. /\ Numbered'
       /\ Len(wire') <= Len(Payloads(nal))
       /\ \A j \in 1..Len(wire') : wire'[j].payload = Payloads(nal)[Len(Payloads(nal)) - Len(wire') + j]
  <2>1. n = Len(Payloads(nal))
    BY DEF n
  <2> QED BY <1>1, <1>2, <1>6, <1>7, <1>8, <1>9, <2>1, SendKeeps
<1>11. RtpTyped'
  BY <1>1, <1>2, <1>3, <1>4, <1>6, <1>8 DEF RtpTyped
<1>12. Due(Payloads(chunk))'
  BY <1>3, <1>10 DEF Due
<1>13. Marked'
  <2>1. ASSUME NEW j \in 1..n
        PROVE  /\ packets[j].timestamp = Timestamp(based, timestamp_ns)
               /\ packets[j].marker <=> (NalType(nal) < 32 /\ j = n)
    <3>1. packets[j] = Packet(based, j, Payloads(nal)[j], Timestamp(based, timestamp_ns),
                              NalType(nal) < 32 /\ j = n)
      BY <1>6
    <3> DEFINE marker == NalType(nal) < 32 /\ j = n
    <3> HIDE DEF marker
    <3>2. Packet(based, j, Payloads(nal)[j], Timestamp(based, timestamp_ns), marker).timestamp
            = Timestamp(based, timestamp_ns)
          /\ Packet(based, j, Payloads(nal)[j], Timestamp(based, timestamp_ns), marker).marker = marker
      BY DEF Packet
    <3>3. packets[j].marker = marker /\ packets[j].timestamp = Timestamp(based, timestamp_ns)
      BY <3>1, <3>2 DEF marker
    <3> QED BY <3>3 DEF marker
  <2>2. \A j \in 1..n : 1 \in 1..n
    BY <1>7
  <2>3. \A j \in 1..n : packets[j].timestamp = packets[1].timestamp
    BY <2>1, <2>2
  <2> QED BY <1>3, <1>6, <2>1, <2>3 DEF Marked
<1>14. Collected'
  <2>1. Len(Payloads(chunk')) - Len(wire') = 0
    <3>1. Len(Payloads(chunk')) = n /\ Len(wire') = n
      BY <1>3, <1>6 DEF n
    <3> QED BY <1>7, <3>1
  <2>2. client.fu # <<>> => client.expected = (start + (passed - missed)) % SequenceMod
    BY <1>2 DEF RtpInv, Collected
  <2> QED BY <1>1, <1>3, <2>1, <2>2 DEF Collected
<1>15. client'.nals = whole' /\ media' = "video"
  BY <1>2, <1>3 DEF RtpInv
<1> QED BY <1>10, <1>11, <1>12, <1>13, <1>14, <1>15 DEF RtpInv

LEMMA SendAudioKeeps ==
  ASSUME RtpInv, NEW data \in PcmChunks, SendAudio(data)
  PROVE  RtpInv'
<1> DEFINE packets  == Pcm(track, data)
           payloads == PcmPayloads(data)
           n        == Len(payloads)
           len      == Even(Len(data))
           size     == Even(Mtu)
           passage  == SubSeq(data, 1, len)
<1>1. data \in Seq(Byte) /\ Len(data) \in Nat /\ len \in Nat /\ len <= Len(data) /\ len % 2 = 0
  BY RtpAssumption, LenProperties, EvenIs
<1>2. /\ media = "audio" /\ Send(data, packets) /\ said' = said \o passage
      /\ track' = [Advanced(track, n) EXCEPT !.audio_timestamp = (@ + Samples(len)) % TsMod]
  BY DEF SendAudio
<1>3. /\ wire = <<>> /\ wire' = packets /\ chunk' = data /\ intact' = TRUE /\ media' = media
      /\ client' = client /\ missed' = missed /\ start' = start /\ passed' = passed
      /\ whole' = whole /\ heard' = heard
  BY <1>2 DEF Send
<1>4. track \in Tracks /\ RtpTyped /\ said \in Seq(Byte) /\ Len(said) \in Nat /\ heard \in Seq(Byte)
  BY LenProperties DEF RtpInv, RtpTyped
<1>5. /\ n \in Nat /\ n = Count(len, size)
      /\ \A i \in 1..n : payloads[i] \in Seq(Byte) /\ (i - 1) * size \in Nat
  BY <1>1, PcmPayloadsAre
<1>6. size \in Nat /\ size > 0 /\ size % 2 = 0
  BY SizeIs
<1>7. /\ passage \in Seq(Byte) /\ Len(passage) = len
      /\ \A i \in 1..len : passage[i] = data[i]
  <2>1. 1 \in Int /\ len \in Int /\ \A i \in 1..len : data[i] \in Byte
    BY <1>1, ElementOfSeq
  <2>2. /\ passage \in Seq(Byte) /\ Len(passage) = IF 1 <= len THEN len - 1 + 1 ELSE 0
        /\ \A i \in 1..(len - 1 + 1) : passage[i] = data[1 + i - 1]
    <3> HIDE DEF len
    <3> QED BY <2>1, SubSeqProperties
  <2> HIDE DEF passage, len
  <2> QED BY <1>1, <2>2
<1> DEFINE stamp(i) == (track.audio_timestamp + Samples((i - 1) * size)) % TsMod
<1>8. packets = [i \in 1..n |-> Packet(track, i, payloads[i], stamp(i), FALSE)]
  BY DEF Pcm
<1> HIDE DEF packets, len, size, passage, payloads
<1>9. track.audio_timestamp \in Nat /\ track.base_timestamp \in Nat /\ track.sequence \in Nat
  BY <1>4 DEF Tracks
<1>10. ASSUME NEW i \in 1..n PROVE stamp(i) \in Nat
  <2>1. PICK m \in Nat : m = Samples((i - 1) * size)
    <3>1. (i - 1) * size \in Nat
      BY <1>5
    <3> QED BY <3>1 DEF Samples
  <2> QED BY <1>9, <2>1, ConstantsTyped
<1>11. packets \in Seq(Packets) /\ Len(packets) = n
  <2>1. Byte \subseteq Int
    BY DEF Byte
  <2>2. ASSUME NEW i \in 1..n PROVE Packet(track, i, payloads[i], stamp(i), FALSE) \in Packets
    <3>1. payloads[i] \in Seq(Int) /\ i \in Nat \ {0} /\ FALSE \in BOOLEAN
      <4>1. payloads[i] \in Seq(Byte)
        BY <1>5
      <4>2. payloads[i] \in Seq(Int)
        BY <2>1, <4>1, SeqMonotonic
      <4>3. i \in Nat \ {0}
        BY <1>5
      <4> QED BY <4>2, <4>3
    <3>2. stamp(i) \in Nat
      BY <1>10
    <3> HIDE DEF stamp
    <3> QED BY <1>4, <3>1, <3>2, PacketIs
  <2> HIDE DEF stamp, n
  <2>3. packets \in [1..n -> Packets]
    BY <1>8, <2>2
  <2> QED BY <1>5, <2>3, SeqOf
<1>12. \A i \in 1..n : packets[i] = Packet(track, i, payloads[i], stamp(i), FALSE)
  <2> HIDE DEF stamp, n
  <2> QED BY <1>8
<1>13. /\ track' \in Tracks /\ track'.sequence = (track.sequence + n) % SequenceMod
       /\ track'.base_timestamp = track.base_timestamp
       /\ track'.audio_timestamp = (track.audio_timestamp + Samples(len)) % TsMod
  <2> DEFINE t == Advanced(track, n)
  <2>1. /\ t \in Tracks /\ t.sequence = (track.sequence + n) % SequenceMod
        /\ t.base_timestamp = track.base_timestamp /\ t.audio_timestamp = track.audio_timestamp
    BY <1>4, <1>5, AdvancedIs
  <2>2. PICK a \in Nat : a = (track.audio_timestamp + Samples(len)) % TsMod
    <3>1. PICK m \in Nat : m = Samples(len)
      BY <1>1 DEF Samples
    <3> QED BY <1>9, <3>1, ConstantsTyped
  <2>3. track' = [t EXCEPT !.audio_timestamp = a]
    BY <1>2, <2>1, <2>2
  <2> HIDE DEF t
  <2> QED BY <2>1, <2>2, <2>3 DEF Tracks
<1>14. /\ Numbered'
       /\ Len(wire') <= Len(payloads)
       /\ \A j \in 1..Len(wire') : wire'[j].payload = payloads[Len(payloads) - Len(wire') + j]
  <2>1. \A i \in 1..n : \E timestamp, marker :
          packets[i] = Packet(track, i, payloads[i], timestamp, marker)
    BY <1>12, Zenon
  <2> QED BY <1>1, <1>2, <1>5, <1>11, <1>13, <2>1, SendKeeps
<1>15. said' \in Seq(Byte) /\ Len(said') = Len(said) + len
  BY <1>2, <1>4, <1>7, ConcatProperties
<1>16. RtpTyped'
  BY <1>1, <1>2, <1>3, <1>4, <1>11, <1>13, <1>15 DEF RtpTyped
<1>17. Due(PcmPayloads(chunk))'
  BY <1>3, <1>14 DEF Due, payloads
<1>18. Spoken'
  <2>1. /\ Len(said) % 2 = 0 /\ Len(heard) = Len(said)
        /\ \A i \in 1..Len(heard) : heard[i] = said[i]
        /\ track.audio_timestamp = (track.base_timestamp + Samples(Len(said))) % TsMod
    <3>1. Spoken
      BY <1>2 DEF RtpInv
    <3> DEFINE old == Even(Len(chunk))
               k   == Len(PcmPayloads(chunk))
    <3>2. chunk \in Seq(Byte)
      BY <1>4 DEF RtpTyped
    <3>3. old \in Nat /\ k = Count(old, size) /\ k \in Nat
      BY <3>2, PcmPayloadsAre, LenProperties, EvenIs DEF size
    <3>4. Upper(old, size, k) = old
      BY <1>6, <3>3, UpperIs
    <3>5. Len(wire) = 0 /\ k - Len(wire) = k
      BY <1>3, <3>3
    <3>6. Len(heard) = (Len(said) - old) + Upper(old, size, k - Len(wire))
      BY <3>1 DEF Spoken, size
    <3> HIDE DEF old, k
    <3>7. Len(heard) = Len(said)
      BY <1>4, <3>3, <3>4, <3>5, <3>6
    <3> QED BY <3>1, <3>7 DEF Spoken
  <2>2. /\ Len(said') - len = Len(said) /\ Len(said') % 2 = 0
        /\ \A i \in 1..Len(said) : said'[i] = said[i]
        /\ \A i \in 1..len : said'[Len(said) + i] = data[i]
    <3>1. \A i \in 1..(Len(said) + len) :
            said'[i] = IF i <= Len(said) THEN said[i] ELSE passage[i - Len(said)]
      BY <1>2, <1>4, <1>7, ConcatProperties
    <3>2. \A i \in 1..Len(said) : said'[i] = said[i]
      BY <1>1, <1>4, <3>1
    <3>3. ASSUME NEW i \in 1..len PROVE said'[Len(said) + i] = data[i]
      <4>1. Len(said) + i \in 1..(Len(said) + len) /\ ~(Len(said) + i <= Len(said))
            /\ (Len(said) + i) - Len(said) = i
        BY <1>1, <1>4
      <4> QED BY <1>7, <3>1, <4>1
    <3>4. Len(said') - len = Len(said) /\ Len(said') % 2 = 0
      <4>1. PICK x \in Nat, y \in Nat : x = Len(said) /\ y = len
        BY <1>1, <1>4
      <4>2. x % 2 = 0 /\ y % 2 = 0 /\ Len(said') = x + y
        BY <1>1, <1>15, <2>1, <4>1
      <4>3. (x + y) % 2 = 0
        BY <4>2
      <4> QED BY <4>1, <4>2, <4>3
    <3> QED BY <3>2, <3>3, <3>4
  <2>3. Len(PcmPayloads(chunk')) - Len(wire') = 0 /\ Len(wire') = n
    BY <1>3, <1>5, <1>11 DEF payloads
  <2>4. Upper(len, size, 0) = 0
    BY <1>1, <1>6, UpperIs
  <2>5. track'.audio_timestamp = (track'.base_timestamp + Samples(Len(said'))) % TsMod
    <3>1. /\ Samples(Len(said)) \in Nat /\ Samples(len) \in Nat
          /\ Samples(Len(said) + len) = Samples(Len(said)) + Samples(len)
      BY <1>1, <1>4, <2>1, Half
    <3>2. PICK a \in Nat, b \in Nat : a = track.base_timestamp + Samples(Len(said)) /\ b = Samples(len)
      BY <1>9, <3>1
    <3>3. (track.audio_timestamp + b) % TsMod = (a + b) % TsMod
      <4>1. track.audio_timestamp = a % TsMod
        BY <2>1, <3>2
      <4>2. ((a % TsMod) + b) % TsMod = (a + b) % TsMod
        BY ConstantsTyped, SumWraps, ZenonT(60)
      <4> QED BY <4>1, <4>2
    <3>4. a + b = track.base_timestamp + Samples(Len(said) + len)
      BY <1>9, <3>1, <3>2
    <3> QED BY <1>13, <1>15, <3>2, <3>3, <3>4
  <2>6. ASSUME NEW j \in 1..n
        PROVE  wire'[j].timestamp = (track'.base_timestamp + Samples(Len(said) + (0 + j - 1) * size)) % TsMod
    <3>1. wire'[j].timestamp = stamp(j)
      <4> HIDE DEF stamp
      <4>1. Packet(track, j, payloads[j], stamp(j), FALSE).timestamp = stamp(j)
        BY DEF Packet
      <4>2. packets[j] = Packet(track, j, payloads[j], stamp(j), FALSE)
        BY <1>12
      <4> QED BY <1>3, <4>1, <4>2
    <3>2. PICK d \in Nat : d = (j - 1) * size
      BY <1>5
    <3>3. Samples(Len(said)) \in Nat /\ Samples(d) \in Nat /\ Samples(Len(said) + d) = Samples(Len(said)) + Samples(d)
      BY <1>4, <2>1, Half
    <3>4. PICK a \in Nat, b \in Nat : a = track.base_timestamp + Samples(Len(said)) /\ b = Samples(d)
      BY <1>9, <3>3
    <3>5. (track.audio_timestamp + b) % TsMod = (a + b) % TsMod
      <4>1. track.audio_timestamp = a % TsMod
        BY <2>1, <3>4
      <4>2. ((a % TsMod) + b) % TsMod = (a + b) % TsMod
        BY ConstantsTyped, SumWraps, ZenonT(60)
      <4> QED BY <4>1, <4>2
    <3>6. a + b = track.base_timestamp + Samples(Len(said) + d)
      BY <1>9, <3>3, <3>4, SMTT(30)
    <3>7. 0 + j - 1 = j - 1
      OBVIOUS
    <3> QED BY <1>13, <3>1, <3>2, <3>4, <3>5, <3>6, <3>7
  <2>7. /\ chunk' = data /\ heard' = heard
    BY <1>3
  <2>8. Len(heard') = (Len(said') - len) + Upper(len, size, Len(PcmPayloads(chunk')) - Len(wire'))
    BY <1>4, <2>1, <2>2, <2>3, <2>4, <2>7
  <2>9. \A i \in 1..Len(heard') : heard'[i] = said'[i]
    BY <2>1, <2>2, <2>7
  <2>10. \A i \in 1..len : said'[(Len(said') - len) + i] = chunk'[i]
    BY <2>2, <2>7
  <2>11. \A j \in 1..Len(wire') : wire'[j].timestamp =
           (track'.base_timestamp
              + Samples((Len(said') - len) + (Len(PcmPayloads(chunk')) - Len(wire') + j - 1) * size)) % TsMod
    BY <2>2, <2>3, <2>6
  <2>12. Len(said') - len >= 0
    BY <1>4, <2>2
  <2> QED BY <2>2, <2>5, <2>7, <2>8, <2>9, <2>10, <2>11, <2>12 DEF Spoken, len, size
<1>19. client'.nals = whole' /\ media' = "audio"
  BY <1>2, <1>3 DEF RtpInv
<1> QED BY <1>14, <1>16, <1>17, <1>18, <1>19 DEF RtpInv

\* What Arrive and Lose have in common: the first packet is gone.
LEMMA PassIs ==
  ASSUME RtpInv, Pass
  PROVE  /\ Len(wire) \in Nat /\ Len(wire) > 0 /\ wire' \in Seq(Packets)
         /\ Len(wire') = Len(wire) - 1 /\ Len(wire') \in Nat /\ passed' = passed + 1
         /\ \A j \in 1..Len(wire') : j + 1 \in 1..Len(wire) /\ wire'[j] = wire[j + 1]
         /\ wire[1].sequence = (start + passed) % SequenceMod
         /\ Numbered'
<1>1. /\ wire \in Seq(Packets) /\ wire # <<>> /\ wire' = Tail(wire) /\ start' = start
      /\ passed' = passed + 1 /\ track' = track /\ start \in Nat /\ passed \in Nat
  BY DEF RtpInv, RtpTyped, Pass
<1>2. /\ Len(wire) \in Nat /\ Len(wire) > 0
  <2>1. Len(wire) # 0
    BY <1>1, EmptySeq
  <2> QED BY <1>1, <2>1, LenProperties
<1>3. /\ wire' \in Seq(Packets) /\ Len(wire') = Len(wire) - 1
      /\ \A j \in 1..Len(wire') : wire'[j] = wire[j + 1]
  BY <1>1, HeadTailProperties
<1>4. /\ track.sequence = (start + passed + Len(wire)) % SequenceMod
      /\ \A j \in 1..Len(wire) : wire[j].sequence = (start + passed + j - 1) % SequenceMod
  BY DEF RtpInv, Numbered
<1>5. wire[1].sequence = (start + passed) % SequenceMod
  <2>1. wire[1].sequence = (start + passed + 1 - 1) % SequenceMod
    BY <1>2, <1>4
  <2>2. start + passed + 1 - 1 = start + passed
    BY <1>1
  <2> QED BY <2>1, <2>2
<1>6. \A j \in 1..Len(wire') : j + 1 \in 1..Len(wire)
  BY <1>2, <1>3
<1>7. ASSUME NEW j \in 1..Len(wire')
      PROVE  wire'[j].sequence = (start' + passed' + j - 1) % SequenceMod
  <2>1. wire'[j].sequence = (start + passed + (j + 1) - 1) % SequenceMod
    BY <1>3, <1>4, <1>6
  <2>2. start + passed + (j + 1) - 1 = start' + passed' + j - 1
    BY <1>1
  <2> QED BY <2>1, <2>2
<1>8. track'.sequence = (start' + passed' + Len(wire')) % SequenceMod
  <2>1. start' + passed' + Len(wire') = start + passed + Len(wire)
    BY <1>1, <1>2, <1>3
  <2> QED BY <1>1, <1>4, <2>1
<1>9. Numbered'
  BY <1>7, <1>8 DEF Numbered
<1> QED BY <1>1, <1>2, <1>3, <1>5, <1>6, <1>9

LEMMA DueAfter ==
  ASSUME RtpInv, Pass, NEW payloads, Len(payloads) \in Nat, Due(payloads)
  PROVE  /\ Len(wire') <= Len(payloads)
         /\ \A j \in 1..Len(wire') : wire'[j].payload = payloads[Len(payloads) - Len(wire') + j]
         /\ Len(payloads) - Len(wire) \in Nat /\ Len(payloads) - Len(wire) < Len(payloads)
         /\ wire[1].payload = payloads[(Len(payloads) - Len(wire)) + 1]
<1>1. /\ Len(wire) \in Nat /\ Len(wire) > 0 /\ Len(wire') = Len(wire) - 1
      /\ \A j \in 1..Len(wire') : j + 1 \in 1..Len(wire) /\ wire'[j] = wire[j + 1]
  BY PassIs
<1>2. /\ Len(wire) <= Len(payloads)
      /\ \A j \in 1..Len(wire) : wire[j].payload = payloads[Len(payloads) - Len(wire) + j]
  BY DEF Due
<1>3. ASSUME NEW j \in 1..Len(wire')
      PROVE  wire'[j].payload = payloads[Len(payloads) - Len(wire') + j]
  <2>1. wire'[j].payload = payloads[Len(payloads) - Len(wire) + (j + 1)]
    BY <1>1, <1>2
  <2>2. Len(payloads) - Len(wire) + (j + 1) = Len(payloads) - Len(wire') + j
    BY <1>1
  <2> QED BY <2>1, <2>2
<1>4. 1 \in 1..Len(wire)
  BY <1>1
<1>5. wire[1].payload = payloads[(Len(payloads) - Len(wire)) + 1]
  BY <1>2, <1>4
<1>6. /\ Len(wire') <= Len(payloads)
      /\ Len(payloads) - Len(wire) \in Nat /\ Len(payloads) - Len(wire) < Len(payloads)
  BY <1>1, <1>2
<1> QED BY <1>3, <1>5, <1>6

\* The samples of the packet that is gone follow those of the packets before it.
LEMMA PassAudio ==
  ASSUME RtpInv, Pass, media = "audio"
  PROVE  heard' \in Seq(Byte) /\ Due(PcmPayloads(chunk))' /\ Spoken'
<1> DEFINE len  == Even(Len(chunk))
           size == Even(Mtu)
           n    == Len(PcmPayloads(chunk))
           k    == n - Len(wire)
           from == Len(said) - len
           next == Network(wire[1].payload)
<1>1. /\ chunk \in Seq(Byte) /\ said \in Seq(Byte) /\ heard \in Seq(Byte) /\ track \in Tracks
      /\ Due(PcmPayloads(chunk)) /\ Spoken
  BY DEF RtpInv, RtpTyped
<1>2. chunk' = chunk /\ said' = said /\ track' = track /\ heard' = heard \o next
  BY DEF Pass
<1>3. /\ Len(wire) \in Nat /\ Len(wire) > 0 /\ Len(wire') = Len(wire) - 1
      /\ \A j \in 1..Len(wire') : j + 1 \in 1..Len(wire) /\ wire'[j] = wire[j + 1]
  BY PassIs
<1>4. n \in Nat /\ n = Count(len, size)
  BY <1>1, PcmPayloadsAre
<1>5. /\ Len(wire') <= n
      /\ \A j \in 1..Len(wire') : wire'[j].payload = PcmPayloads(chunk)[n - Len(wire') + j]
      /\ k \in Nat /\ k < n
      /\ wire[1].payload = PcmPayloads(chunk)[k + 1]
  BY <1>1, <1>4, DueAfter
<1>6. Due(PcmPayloads(chunk))'
  BY <1>2, <1>5 DEF Due
<1>7. k + 1 \in 1..n /\ (k + 1) - 1 = k
  BY <1>4, <1>5
<1>8. /\ next \in Seq(Byte) /\ k * size \in Nat
      /\ Len(next) = Upper(len, size, k + 1) - k * size
      /\ \A j \in 1..Len(next) : next[j] = chunk[k * size + j]
  <2>1. \A i \in 1..n :
          /\ Network(PcmPayloads(chunk)[i]) \in Seq(Byte)
          /\ (i - 1) * size \in Nat
          /\ Len(Network(PcmPayloads(chunk)[i])) = Upper(len, size, i) - (i - 1) * size
          /\ \A j \in 1..Len(Network(PcmPayloads(chunk)[i])) :
               Network(PcmPayloads(chunk)[i])[j] = chunk[(i - 1) * size + j]
    BY <1>1, PcmPayloadsAre, Zenon
  <2> HIDE DEF k, n, len, size
  <2>2. /\ Network(PcmPayloads(chunk)[k + 1]) \in Seq(Byte)
        /\ ((k + 1) - 1) * size \in Nat
        /\ Len(Network(PcmPayloads(chunk)[k + 1])) = Upper(len, size, k + 1) - ((k + 1) - 1) * size
        /\ \A j \in 1..Len(Network(PcmPayloads(chunk)[k + 1])) :
             Network(PcmPayloads(chunk)[k + 1])[j] = chunk[((k + 1) - 1) * size + j]
    BY <1>7, <2>1, Zenon
  <2> QED BY <1>5, <1>7, <2>2
<1>9. len \in Nat /\ Len(said) \in Nat /\ Len(heard) \in Nat /\ size \in Nat /\ size > 0
  BY <1>1, EvenIs, SizeIs, LenProperties
<1>10. Upper(len, size, k) = k * size /\ Upper(len, size, k + 1) \in Nat /\ Upper(len, size, k + 1) <= len
  <2> HIDE DEF k, n, len, size
  <2>1. k \in Nat /\ k + 1 \in Nat /\ k < Count(len, size)
    BY <1>4, <1>5
  <2>2. /\ \A i \in Nat : i < Count(len, size) => Upper(len, size, i) = i * size
        /\ \A i \in Nat : Upper(len, size, i) \in Nat /\ Upper(len, size, i) <= len
    BY <1>9, UpperIs, Zenon
  <2> QED BY <2>1, <2>2, Zenon
<1>11. /\ Len(said) % 2 = 0 /\ from >= 0
       /\ \A i \in 1..len : said[from + i] = chunk[i]
       /\ Len(heard) = from + Upper(len, size, k)
       /\ \A i \in 1..Len(heard) : heard[i] = said[i]
       /\ track.audio_timestamp = (track.base_timestamp + Samples(Len(said))) % TsMod
       /\ \A j \in 1..Len(wire) :
            wire[j].timestamp = (track.base_timestamp + Samples(from + (k + j - 1) * size)) % TsMod
  BY <1>1 DEF Spoken
<1> DEFINE k2 == n - Len(wire')
<1>12. k2 = k + 1 /\ from \in Nat
  <2> HIDE DEF n, len
  <2>1. k2 = k + 1
    BY <1>3, <1>4
  <2>2. from \in Nat
    BY <1>9, <1>11
  <2> QED BY <2>1, <2>2
<1>13. /\ heard' \in Seq(Byte) /\ Len(heard') = Len(heard) + Len(next)
       /\ \A i \in 1..(Len(heard) + Len(next)) :
            heard'[i] = IF i <= Len(heard) THEN heard[i] ELSE next[i - Len(heard)]
  BY <1>1, <1>2, <1>8, ConcatProperties
<1> HIDE DEF k, k2, n, len, size, from, next
<1>14. Len(heard') = from + Upper(len, size, k2)
  BY <1>8, <1>9, <1>10, <1>11, <1>12, <1>13
<1>15. ASSUME NEW i \in 1..Len(heard') PROVE heard'[i] = said[i]
  <2>1. i \in 1..(Len(heard) + Len(next))
    BY <1>13
  <2>2. CASE i <= Len(heard)
    BY <1>9, <1>11, <1>13, <2>1, <2>2
  <2>3. CASE ~(i <= Len(heard))
    <3>1. PICK c \in Nat : c = k * size
      BY <1>8
    <3>2. PICK u \in Nat : u = Upper(len, size, k + 1) /\ u <= len
      BY <1>10
    <3>3. PICK j \in Int : j = i - Len(heard)
      BY <1>9
    <3>4. Len(next) = u - c /\ Len(heard) = from + c
      BY <1>8, <1>10, <1>11, <3>1, <3>2
    <3>5. j \in 1..Len(next) /\ i = from + (c + j) /\ c + j \in 1..len
      <4>1. i \in Nat /\ i <= Len(heard) + Len(next) /\ i > Len(heard)
            /\ Len(next) \in Nat /\ from \in Nat /\ len \in Nat
        BY <1>8, <1>9, <1>12, <2>1, <2>3, LenProperties
      <4>2. j >= 1 /\ j <= Len(next)
        BY <1>9, <3>3, <4>1
      <4>3. i = from + (c + j) /\ c + j <= u /\ c + j >= 1
        BY <3>3, <3>4, <4>1, <4>2
      <4> QED BY <3>2, <4>1, <4>2, <4>3
    <3>6. heard'[i] = next[j]
      BY <1>13, <2>1, <2>3, <3>3
    <3>7. next[j] = chunk[c + j]
      BY <1>8, <3>1, <3>5
    <3>8. chunk[c + j] = said[from + (c + j)]
      BY <1>11, <3>5
    <3> QED BY <3>5, <3>6, <3>7, <3>8
  <2> QED BY <2>2, <2>3
<1>16. ASSUME NEW j \in 1..Len(wire')
       PROVE  wire'[j].timestamp = (track.base_timestamp + Samples(from + (k2 + j - 1) * size)) % TsMod
  <2>1. wire'[j].timestamp = (track.base_timestamp + Samples(from + (k + (j + 1) - 1) * size)) % TsMod
    BY <1>3, <1>11
  <2>2. k + (j + 1) - 1 = k2 + j - 1
    BY <1>5, <1>12
  <2> QED BY <2>1, <2>2
<1>17. /\ Even(Len(chunk')) = len /\ Even(Mtu) = size /\ Len(said') - len = from
       /\ Len(PcmPayloads(chunk')) - Len(wire') = k2
  BY <1>2 DEF len, size, from, k2, n
<1>18. Spoken'
  BY <1>2, <1>11, <1>14, <1>15, <1>16, <1>17 DEF Spoken
<1> QED BY <1>6, <1>13, <1>18

LEMMA PassVideo ==
  ASSUME RtpInv, Pass, media = "video"
  PROVE  /\ Due(Payloads(chunk))' /\ Marked'
         /\ chunk \in Seq(Byte) /\ chunk # <<>> /\ NalType(chunk) \in 0..47
         /\ Len(Payloads(chunk)) \in Nat
         /\ Len(Payloads(chunk)) - Len(wire) \in Nat
         /\ (Len(Payloads(chunk)) - Len(wire)) + 1 \in 1..Len(Payloads(chunk))
         /\ Len(Payloads(chunk)) - Len(wire') = (Len(Payloads(chunk)) - Len(wire)) + 1
         /\ wire[1].payload = Payloads(chunk)[(Len(Payloads(chunk)) - Len(wire)) + 1]
<1> DEFINE n == Len(Payloads(chunk))
<1>1. chunk \in Seq(Byte) /\ Due(Payloads(chunk)) /\ Marked /\ Collected /\ wire # <<>>
  BY DEF RtpInv, RtpTyped, Pass
<1>2. chunk # <<>> /\ NalType(chunk) \in 0..47
  BY <1>1 DEF Collected
<1>3. n \in Nat
  BY <1>1, <1>2, PayloadsAre
<1>4. /\ Len(wire) \in Nat /\ Len(wire) > 0 /\ Len(wire') = Len(wire) - 1
      /\ \A j \in 1..Len(wire') : j + 1 \in 1..Len(wire) /\ wire'[j] = wire[j + 1]
  BY PassIs
<1>5. /\ Len(wire') <= n
      /\ \A j \in 1..Len(wire') : wire'[j].payload = Payloads(chunk)[n - Len(wire') + j]
      /\ n - Len(wire) \in Nat /\ n - Len(wire) < n
      /\ wire[1].payload = Payloads(chunk)[(n - Len(wire)) + 1]
  BY <1>1, <1>3, DueAfter
<1>6. chunk' = chunk
  BY DEF Pass
<1>7. Due(Payloads(chunk))'
  BY <1>5, <1>6 DEF Due
<1>8. Marked'
  <2>1. \A j \in 1..Len(wire) : /\ wire[j].timestamp = wire[1].timestamp
                                /\ wire[j].marker <=> (NalType(chunk) < 32 /\ j = Len(wire))
    BY <1>1 DEF Marked
  <2>2. ASSUME NEW j \in 1..Len(wire')
        PROVE  /\ wire'[j].timestamp = wire'[1].timestamp
               /\ wire'[j].marker <=> (NalType(chunk) < 32 /\ j = Len(wire'))
    <3>1. 1 \in 1..Len(wire') /\ (j + 1 = Len(wire) <=> j = Len(wire'))
      BY <1>4
    <3>2. wire'[j].timestamp = wire[1].timestamp /\ wire'[1].timestamp = wire[1].timestamp
      BY <1>4, <2>1, <3>1
    <3>3. wire'[j].marker <=> (NalType(chunk) < 32 /\ j + 1 = Len(wire))
      BY <1>4, <2>1
    <3> QED BY <3>1, <3>2, <3>3
  <2> QED BY <1>6, <2>2 DEF Marked
<1>9. (n - Len(wire)) + 1 \in 1..n /\ n - Len(wire') = (n - Len(wire)) + 1
  BY <1>3, <1>4, <1>5
<1> QED BY <1>1, <1>2, <1>3, <1>5, <1>7, <1>8, <1>9

LEMMA NextNumber ==
  ASSUME RtpInv, Pass
  PROVE  (wire[1].sequence + 1) % SequenceMod = (start + (passed + 1)) % SequenceMod
<1>1. start \in Nat /\ passed \in Nat /\ wire[1].sequence = (start + passed) % SequenceMod
  BY PassIs DEF RtpInv, RtpTyped
<1>2. PICK a \in Nat : a = start + passed
  BY <1>1
<1>3. ((a % SequenceMod) + 1) % SequenceMod = (a + 1) % SequenceMod
  BY ConstantsTyped, SumWraps
<1>4. a + 1 = start + (passed + 1)
  BY <1>1, <1>2
<1> QED BY <1>1, <1>2, <1>3, <1>4

\* What the client has read when a packet arrives: one that follows a lost one is
\* not the one it waits for.
LEMMA ArriveReads ==
  ASSUME RtpInv, Arrive, media = "video",
         NEW n, n = Len(Payloads(chunk)), NEW k, k = n - Len(wire)
  PROVE  /\ client'.expected = (wire[1].sequence + 1) % SequenceMod
         /\ client'.fu # <<>> => intact /\ k + 1 < n
         /\ intact /\ k + 1 < n => client'.fu = Upto(chunk, k + 1)
         /\ client'.nals = whole'
<1>1. /\ Pass /\ missed' = 0 /\ intact' = intact /\ client' = Depayload(client, wire[1])
      /\ whole' = IF intact /\ Len(wire) = 1 THEN Append(whole, chunk) ELSE whole
      /\ client.nals = whole /\ Collected
  BY DEF Arrive, RtpInv
<1>2. /\ chunk \in Seq(Byte) /\ chunk # <<>> /\ NalType(chunk) \in 0..47
      /\ n \in Nat /\ k \in Nat /\ k + 1 \in 1..n /\ n - Len(wire') = k + 1
      /\ wire[1].payload = Payloads(chunk)[k + 1]
  BY <1>1, PassVideo
<1>3. Len(wire) \in Nat /\ (Len(wire) = 1 <=> k + 1 = n)
  <2>1. Len(wire) \in Nat
    BY <1>1, PassIs
  <2>2. PICK w \in Nat, m \in Nat : w = Len(wire) /\ m = n
    BY <1>2, <2>1
  <2>3. k = m - w
    BY <2>2
  <2>4. w = 1 <=> k + 1 = m
    BY <2>3
  <2> QED BY <2>1, <2>2, <2>4
<1>4. /\ k = 0 => intact
      /\ intact /\ 0 < k /\ k < n => missed = 0 /\ client.fu = Upto(chunk, k)
      /\ ~intact /\ client.fu # <<>> => missed > 0
      /\ client.fu # <<>> => client.expected = (start + (passed - missed)) % SequenceMod
  BY <1>1 DEF Collected
<1>5. CASE ~(Len(chunk) > Mtu)
  <2>1. n = 1 /\ Payloads(chunk)[1] = chunk
    BY <1>2, <1>5, PayloadsAre
  <2>2. k = 0 /\ intact /\ wire[1].payload = chunk /\ Len(wire) = 1
    BY <1>2, <1>3, <1>4, <2>1
  <2>3. NalType(chunk) # 49
    <3>1. 49 \notin 0..47
      OBVIOUS
    <3>2. NalType(chunk) \in 0..47
      BY <1>2
    <3> QED BY <3>1, <3>2, Zenon
  <2>4. Depayload(client, wire[1]) = [expected |-> (wire[1].sequence + 1) % SequenceMod, fu |-> <<>>,
                                      nals |-> Append(client.nals, wire[1].payload)]
    BY <2>2, <2>3, ReadsWhole
  <2> QED BY <1>1, <2>1, <2>2, <2>4
<1>6. CASE Len(chunk) > Mtu
  <2> DEFINE i    == k + 1
             next == (wire[1].sequence + 1) % SequenceMod
  <2>1. n = Len(Parts(chunk)) /\ i \in 1..Len(Parts(chunk)) /\ i - 1 = k
    BY <1>2, <1>6, PayloadsAre
  <2>2. /\ i = 1 \/ (client.fu = Upto(chunk, i - 1) /\ wire[1].sequence = client.expected) =>
             Depayload(client, wire[1]) =
               IF i = Len(Parts(chunk))
               THEN [expected |-> next, fu |-> <<>>, nals |-> Append(client.nals, chunk)]
               ELSE [expected |-> next, fu |-> Upto(chunk, i), nals |-> client.nals]
        /\ i # 1 /\ (client.fu = <<>> \/ wire[1].sequence # client.expected) =>
             Depayload(client, wire[1]) = [expected |-> next, fu |-> <<>>, nals |-> client.nals]
    <3>1. \A j \in 1..Len(Parts(chunk)) : wire[1].payload = Payloads(chunk)[j] =>
            /\ j = 1 \/ (client.fu = Upto(chunk, j - 1) /\ wire[1].sequence = client.expected) =>
                 Depayload(client, wire[1]) =
                   IF j = Len(Parts(chunk))
                   THEN [expected |-> next, fu |-> <<>>, nals |-> Append(client.nals, chunk)]
                   ELSE [expected |-> next, fu |-> Upto(chunk, j), nals |-> client.nals]
            /\ j # 1 /\ (client.fu = <<>> \/ wire[1].sequence # client.expected) =>
                 Depayload(client, wire[1]) = [expected |-> next, fu |-> <<>>, nals |-> client.nals]
      BY <1>2, <1>6, ReadsFragment, Zenon
    <3>2. wire[1].payload = Payloads(chunk)[i] /\ i \in 1..Len(Parts(chunk))
      BY <1>2, <2>1
    <3> HIDE DEF i
    <3> QED BY <3>1, <3>2, Zenon
  <2>3. start \in Nat /\ passed \in Nat /\ missed \in Nat /\ missed <= passed /\ missed <= MaxMissed
        /\ wire[1].sequence = (start + passed) % SequenceMod
    BY <1>1, PassIs, ConstantsTyped DEF RtpInv, RtpTyped
  <2>4. CASE intact
    <3>1. i = 1 \/ (client.fu = Upto(chunk, i - 1) /\ wire[1].sequence = client.expected)
      <4>1. CASE k = 0
        BY <4>1
      <4>2. CASE k # 0
        <5>1. missed = 0 /\ client.fu = Upto(chunk, k)
          BY <1>2, <1>4, <2>4, <4>2
        <5>2. Upto(chunk, k) # <<>>
          <6>1. k \in 1..Len(Parts(chunk))
            BY <1>2, <2>1, <4>2
          <6> QED BY <1>2, <1>6, <6>1, UptoGrows
        <5>3. client.expected = (start + (passed - missed)) % SequenceMod
          BY <1>4, <5>1, <5>2
        <5>4. start + (passed - missed) = start + passed
          BY <2>3, <5>1
        <5> QED BY <2>1, <2>3, <5>1, <5>3, <5>4
      <4> QED BY <4>1, <4>2
    <3>2. Depayload(client, wire[1]) =
            IF i = n THEN [expected |-> next, fu |-> <<>>, nals |-> Append(client.nals, chunk)]
            ELSE [expected |-> next, fu |-> Upto(chunk, i), nals |-> client.nals]
      BY <2>1, <2>2, <3>1
    <3>3. CASE i = n
      BY <1>1, <1>2, <1>3, <2>4, <3>2, <3>3
    <3>4. CASE i # n
      <4>1. i < n
        BY <1>2, <3>4
      <4> QED BY <1>1, <1>2, <1>3, <2>4, <3>2, <3>4, <4>1
    <3> QED BY <3>3, <3>4
  <2>5. CASE ~intact
    <3>1. i # 1
      BY <1>2, <1>4, <2>5
    <3>2. client.fu = <<>> \/ wire[1].sequence # client.expected
      <4> SUFFICES ASSUME client.fu # <<>> PROVE wire[1].sequence # client.expected
        OBVIOUS
      <4>1. missed > 0 /\ client.expected = (start + (passed - missed)) % SequenceMod
        BY <1>4, <2>5
      <4>2. PICK a \in Nat, d \in Nat : a = start + (passed - missed) /\ d = missed
        BY <2>3
      <4>3. 0 < d /\ d < SequenceMod
        BY <2>3, <4>1, <4>2, ConstantsTyped
      <4>4. (a + d) % SequenceMod # a % SequenceMod
        BY <4>3, ConstantsTyped, NoneAgain
      <4>5. a + d = start + passed
        BY <2>3, <4>2
      <4> QED BY <2>3, <4>1, <4>2, <4>4, <4>5
    <3>3. Depayload(client, wire[1]) = [expected |-> next, fu |-> <<>>, nals |-> client.nals]
      BY <2>2, <3>1, <3>2
    <3> QED BY <1>1, <2>5, <3>3
  <2> QED BY <2>4, <2>5
<1> QED BY <1>5, <1>6

\* A packet more has arrived or was lost; the client has what it had of the chunk.
LEMMA PassKeeps ==
  ASSUME RtpInv, Pass, missed' \in 0..MaxMissed, missed' <= passed', intact' \in BOOLEAN,
         client'.nals = whole',
         media = "video" => Collected'
  PROVE  RtpInv'
<1>1. /\ media' = media /\ track' = track /\ start' = start /\ passed' = passed + 1
      /\ chunk' = chunk /\ said' = said /\ wire # <<>>
      /\ heard' = IF media = "audio" THEN heard \o Network(wire[1].payload) ELSE heard
  BY DEF Pass
<1>2. wire' \in Seq(Packets) /\ Numbered'
  BY PassIs
<1>3. RtpTyped /\ media \in {"video", "audio"}
  BY <1>1 DEF RtpInv, RtpTyped
<1>4. heard' \in Seq(Byte)
  <2>1. CASE media = "audio"
    BY <2>1, PassAudio
  <2>2. CASE media # "audio"
    BY <1>1, <1>3, <2>2 DEF RtpTyped
  <2> QED BY <2>1, <2>2
<1>5. RtpTyped'
  BY <1>1, <1>2, <1>3, <1>4 DEF RtpTyped
<1>6. media' = "video" => Due(Payloads(chunk))' /\ Marked' /\ Collected'
  BY <1>1, PassVideo
<1>7. media' = "audio" => Due(PcmPayloads(chunk))' /\ Spoken'
  BY <1>1, PassAudio
<1> QED BY <1>2, <1>5, <1>6, <1>7 DEF RtpInv

LEMMA ArriveKeeps == ASSUME RtpInv, Arrive PROVE RtpInv'
<1>1. /\ Pass /\ missed' = 0 /\ intact' = intact
      /\ client' = IF media = "video" THEN Depayload(client, wire[1]) ELSE client
      /\ whole' = IF media = "video" /\ intact /\ Len(wire) = 1 THEN Append(whole, chunk) ELSE whole
  BY DEF Arrive
<1>2. /\ RtpTyped /\ client.nals = whole /\ passed' = passed + 1 /\ chunk' = chunk /\ start' = start
  BY <1>1 DEF RtpInv, Pass
<1>3. missed' \in 0..MaxMissed /\ missed' <= passed' /\ intact' \in BOOLEAN
  BY <1>1, <1>2, ConstantsTyped DEF RtpTyped
<1>4. CASE media = "video"
  <2> DEFINE n == Len(Payloads(chunk))
             k == n - Len(wire)
  <2>1. /\ client'.expected = (wire[1].sequence + 1) % SequenceMod
        /\ client'.fu # <<>> => intact /\ k + 1 < n
        /\ intact /\ k + 1 < n => client'.fu = Upto(chunk, k + 1)
        /\ client'.nals = whole'
    BY <1>4, ArriveReads
  <2>2. /\ chunk # <<>> /\ NalType(chunk) \in 0..47 /\ n \in Nat /\ k \in Nat
        /\ n - Len(wire') = k + 1
    BY <1>1, <1>4, PassVideo
  <2>3. Len(Payloads(chunk')) = n /\ Len(Payloads(chunk')) - Len(wire') = k + 1
    BY <1>2, <2>2
  <2>4. client'.expected = (start' + (passed' - missed')) % SequenceMod
    <3>1. passed' - missed' = passed + 1
      BY <1>1, <1>2 DEF RtpTyped
    <3> QED BY <1>1, <1>2, <2>1, <3>1, NextNumber
  <2> HIDE DEF n, k
  <2>5. k + 1 # 0
    BY <2>2
  <2>6. Collected'
    BY <1>1, <1>2, <2>1, <2>2, <2>3, <2>4, <2>5 DEF Collected
  <2> QED BY <1>1, <1>3, <2>1, <2>6, PassKeeps
<1>5. CASE media # "video"
  BY <1>1, <1>2, <1>3, <1>5, PassKeeps
<1> QED BY <1>4, <1>5

LEMMA LoseKeeps == ASSUME RtpInv, Lose PROVE RtpInv'
<1>1. /\ Pass /\ missed < MaxMissed /\ missed' = missed + 1 /\ intact' = FALSE
      /\ client' = client /\ whole' = whole
  BY DEF Lose
<1>2. /\ RtpTyped /\ client.nals = whole /\ passed' = passed + 1 /\ chunk' = chunk /\ start' = start
  BY <1>1 DEF RtpInv, Pass
<1>3. missed' \in 0..MaxMissed /\ missed' <= passed' /\ intact' \in BOOLEAN /\ missed' > 0
      /\ passed' - missed' = passed - missed
  <2>1. passed \in Nat /\ missed \in 0..MaxMissed /\ missed <= passed /\ MaxMissed \in Nat
    BY <1>2, ConstantsTyped DEF RtpTyped
  <2>2. missed' \in 0..MaxMissed /\ missed' <= passed' /\ missed' > 0
    BY <1>1, <1>2, <2>1
  <2>3. passed' - missed' = passed - missed
    BY <1>1, <1>2, <2>1
  <2>4. intact' \in BOOLEAN
    BY <1>1
  <2> QED BY <2>2, <2>3, <2>4
<1>4. media = "video" => Collected'
  <2> SUFFICES ASSUME media = "video" PROVE Collected'
    OBVIOUS
  <2> DEFINE n == Len(Payloads(chunk))
             k == n - Len(wire)
  <2>1. /\ chunk # <<>> /\ NalType(chunk) \in 0..47 /\ n \in Nat /\ k \in Nat
        /\ n - Len(wire') = k + 1
    BY <1>1, PassVideo
  <2>2. Len(Payloads(chunk')) - Len(wire') = k + 1
    BY <1>2, <2>1
  <2> HIDE DEF n, k
  <2>3. k + 1 # 0
    BY <2>1
  <2>4. client'.fu # <<>> => client'.expected = (start' + (passed' - missed')) % SequenceMod
    BY <1>1, <1>2, <1>3 DEF RtpInv, Collected
  <2> QED BY <1>1, <1>2, <1>3, <2>1, <2>2, <2>3, <2>4 DEF Collected
<1> QED BY <1>1, <1>2, <1>3, <1>4, PassKeeps

\* A track's step, or one that is not a track's, keeps the invariant.
LEMMA RtpStep == ASSUME RtpInv, [RtpNext]_rtp PROVE RtpInv'
<1>1. CASE \E nal \in Nals, timestamp_ns \in ChunkTimes : SendVideo(nal, timestamp_ns)
  BY <1>1, SendVideoKeeps
<1>2. CASE \E data \in PcmChunks : SendAudio(data)
  BY <1>2, SendAudioKeeps
<1>3. CASE Arrive
  BY <1>3, ArriveKeeps
<1>4. CASE Lose
  BY <1>4, LoseKeeps
<1>5. CASE UNCHANGED rtp
  BY <1>5 DEF rtp, RtpInv, RtpTyped, Numbered, Due, Marked, Collected, Spoken
<1> QED BY <1>1, <1>2, <1>3, <1>4, <1>5 DEF RtpNext

LEMMA WireIs ==
  ASSUME RtpTyped
  PROVE  Len(wire) \in Nat /\ DOMAIN wire = 1..Len(wire) /\ (wire = <<>> <=> Len(wire) = 0)
<1>1. wire \in Seq(Packets)
  BY DEF RtpTyped
<1> QED BY <1>1, LenProperties, EmptySeq

\* a packet has what is left of a payload that fits
LEMMA PacketsFit ==
  ASSUME RtpInv, NEW j \in 1..Len(wire)
  PROVE  Len(wire[j].payload) \in 1..Mtu
<1>1. chunk \in Seq(Byte) /\ media \in {"video", "audio"} /\ wire # <<>> /\ Len(wire) \in Nat
  <2>1. Len(wire) \in Nat /\ wire # <<>>
    BY WireIs DEF RtpInv
  <2> QED BY <2>1 DEF RtpInv, RtpTyped
<1>2. ASSUME NEW payloads, Len(payloads) \in Nat, Due(payloads)
      PROVE  \E i \in 1..Len(payloads) : wire[j].payload = payloads[i]
  <2>1. Len(wire) <= Len(payloads) /\ wire[j].payload = payloads[Len(payloads) - Len(wire) + j]
    BY <1>2 DEF Due
  <2>2. Len(payloads) - Len(wire) + j \in 1..Len(payloads)
    BY <1>1, <1>2, <2>1
  <2> QED BY <2>1, <2>2
<1>3. CASE media = "video"
  <2>1. Due(Payloads(chunk)) /\ chunk # <<>>
    BY <1>1, <1>3 DEF RtpInv, Collected
  <2>2. Len(Payloads(chunk)) \in Nat /\ DOMAIN Payloads(chunk) = 1..Len(Payloads(chunk))
    BY <1>1, <2>1, PayloadsAre
  <2>3. PICK i \in 1..Len(Payloads(chunk)) : wire[j].payload = Payloads(chunk)[i]
    BY <1>2, <2>1, <2>2
  <2> QED BY <1>1, <2>2, <2>3, PayloadsFit
<1>4. CASE media = "audio"
  <2>1. Due(PcmPayloads(chunk)) /\ Len(PcmPayloads(chunk)) \in Nat
    BY <1>1, <1>4, PcmPayloadsAre DEF RtpInv
  <2>2. PICK i \in 1..Len(PcmPayloads(chunk)) : wire[j].payload = PcmPayloads(chunk)[i]
    BY <1>2, <2>1
  <2>3. Len(PcmPayloads(chunk)[i]) \in 1..Mtu
    BY <1>1, <2>2, PcmPayloadsAre
  <2> QED BY <2>2, <2>3
<1> QED BY <1>1, <1>3, <1>4

LEMMA SamplesAreInTime == ASSUME RtpInv PROVE SamplesInTime
<1> SUFFICES ASSUME media = "audio"
             PROVE  IF wire = <<>> THEN heard = said
                    ELSE wire[1].timestamp = (track.base_timestamp + Samples(Len(heard))) % TsMod
  BY DEF SamplesInTime
<1> DEFINE len  == Even(Len(chunk))
           size == Even(Mtu)
           n    == Len(PcmPayloads(chunk))
           k    == n - Len(wire)
           from == Len(said) - len
<1>1. /\ chunk \in Seq(Byte) /\ said \in Seq(Byte) /\ heard \in Seq(Byte)
      /\ Due(PcmPayloads(chunk)) /\ Spoken
  BY DEF RtpInv, RtpTyped
<1>2. Len(wire) \in Nat /\ (wire = <<>> <=> Len(wire) = 0)
  BY WireIs DEF RtpInv
<1>3. n \in Nat /\ n = Count(len, size) /\ Len(wire) <= n
  BY <1>1, PcmPayloadsAre DEF Due
<1>4. len \in Nat /\ Len(said) \in Nat /\ Len(heard) \in Nat /\ size \in Nat /\ size > 0
  BY <1>1, EvenIs, SizeIs, LenProperties
<1>5. /\ Len(heard) = from + Upper(len, size, k)
      /\ \A i \in 1..Len(heard) : heard[i] = said[i]
      /\ \A j \in 1..Len(wire) :
           wire[j].timestamp = (track.base_timestamp + Samples(from + (k + j - 1) * size)) % TsMod
  BY <1>1 DEF Spoken
<1>6. /\ Upper(len, size, Count(len, size)) = len
      /\ \A i \in Nat : i < Count(len, size) => Upper(len, size, i) = i * size
  BY <1>4, UpperIs, ZenonT(60)
<1>7. k \in Nat /\ k <= n
  <2> HIDE DEF n
  <2> QED BY <1>2, <1>3
<1>8. from + len = Len(said)
  <2> HIDE DEF len
  <2> QED BY <1>4
<1> HIDE DEF len, size, from
<1>9. CASE wire = <<>>
  <2>1. k = n
    <3> HIDE DEF n
    <3> QED BY <1>2, <1>3, <1>9
  <2>2. Upper(len, size, k) = len
    BY <1>3, <1>6, <2>1
  <2>3. Len(heard) = Len(said)
    BY <1>5, <1>8, <2>2
  <2>4. heard = said
    BY <1>1, <1>5, <2>3, SeqEqual
  <2> QED BY <1>9, <2>4
<1>10. CASE wire # <<>>
  <2>1. k < n /\ 1 \in 1..Len(wire) /\ k + 1 - 1 = k
    <3> HIDE DEF n
    <3> QED BY <1>2, <1>3, <1>10
  <2>2. Upper(len, size, k) = k * size
    BY <1>3, <1>6, <1>7, <2>1
  <2>3. wire[1].timestamp = (track.base_timestamp + Samples(from + (k + 1 - 1) * size)) % TsMod
    BY <1>5, <2>1
  <2> QED BY <1>5, <1>10, <2>1, <2>2, <2>3
<1> QED BY <1>9, <1>10

LEMMA RtpReadable == ASSUME RtpInv PROVE TracksAreReadable
<1>1. Len(wire) \in Nat /\ DOMAIN wire = 1..Len(wire)
  BY WireIs DEF RtpInv
<1>2. OnlyWholeNals
  BY <1>1 DEF RtpInv, Marked, OnlyWholeNals
<1>3. SamplesInTime
  BY SamplesAreInTime
<1>4. \A j \in 1..Len(wire) : wire[j].sequence = (start + passed + j - 1) % SequenceMod
  BY DEF RtpInv, Numbered
<1> QED BY <1>1, <1>2, <1>3, <1>4, PacketsFit DEF TracksAreReadable

\* _RtpTrack over UDP, for every mtu, range of numbers and chunk: however many
\* packets of a run are lost, as long as the numbers tell how many, the client
\* reads exactly the NAL units that arrived in full and each sample at its time.
THEOREM TracksReadable == Spec => []TracksAreReadable
<1>1. Init => RtpInv
  <2> SUFFICES ASSUME Init PROVE RtpInv
    OBVIOUS
  <2>1. CASE \E of \in {"video", "audio"}, clock_rate \in ClockRates,
                sequence \in FirstSequences, base_timestamp \in BaseTimestamps :
               RtpInit(of, clock_rate, sequence, base_timestamp)
    <3>1. PICK of \in {"video", "audio"}, clock_rate \in ClockRates,
               sequence \in FirstSequences, base_timestamp \in BaseTimestamps :
             RtpInit(of, clock_rate, sequence, base_timestamp)
      BY <2>1
    <3>2. /\ of \in {"video", "audio", "none"} /\ clock_rate \in Nat
          /\ sequence \in 0..(SequenceMod - 1) /\ base_timestamp \in 0..(TsMod - 1)
      BY RtpAssumption
    <3> QED BY <3>1, <3>2, RtpStarts, Zenon
  <2>2. CASE RtpInit("none", 0, 0, 0)
    <3>1. "none" \in {"video", "audio", "none"} /\ 0 \in Nat
          /\ 0 \in 0..(SequenceMod - 1) /\ 0 \in 0..(TsMod - 1)
      BY ConstantsTyped
    <3> QED BY <2>2, <3>1, RtpStarts, Zenon
  <2> QED BY <2>1, <2>2 DEF Init
<1>2. RtpInv /\ [Next]_vars => RtpInv'
  <2> SUFFICES ASSUME RtpInv, [Next]_vars PROVE RtpInv'
    OBVIOUS
  <2>1. [RtpNext]_rtp
    BY DEF Next, vars, Exchange, Build
  <2> QED BY <2>1, RtpStep
<1>3. RtpInv => TracksAreReadable
  BY RtpReadable
<1> QED BY <1>1, <1>2, <1>3, PTL DEF Spec
\* A set of numbers has a least one.
LEMMA Least ==
  ASSUME NEW T, T \subseteq Nat, T # {}
  PROVE  \E x \in T : \A y \in T : x <= y
<1>1. PICK x \in T : \A y \in T : ~ (<<y, x>> \in OpToRel(<, Nat))
  BY WFMin, NatLessThanWellFounded, Zenon
<1>2. \A y \in T : x <= y
  <2> TAKE y \in T
  <2>1. ~ (y < x)
    BY <1>1 DEF OpToRel
  <2> QED BY <2>1
<1> QED BY <1>2

\* Induction up to N: a number that is left out would have a least one.
LEMMA Induction ==
  ASSUME NEW N \in Nat, NEW P, 0 \in P, \A n \in 1..N : n - 1 \in P => n \in P
  PROVE  0..N \subseteq P
<1> SUFFICES ASSUME ~(0..N \subseteq P) PROVE FALSE
  OBVIOUS
<1> DEFINE T == {n \in 0..N : n \notin P}
<1>1. T \subseteq Nat /\ T # {}
  OBVIOUS
<1>2. PICK x \in T : \A y \in T : x <= y
  <2> HIDE DEF T
  <2> QED BY <1>1, Least
<1>3. x \in 1..N /\ x \notin P
  OBVIOUS
<1>4. x - 1 \in 0..N /\ x - 1 < x
  BY <1>3
<1>5. x - 1 \in P
  BY <1>2, <1>4
<1> QED BY <1>3, <1>5

Steps(N, S) == [1..N -> [S -> S]]

\* f begins with first and goes on from n - 1 to n by step[n]
Recurs(f, N, S, first, step) ==
  f \in [0..N -> S] /\ f[0] = first /\ \A n \in 1..N : f[n] = step[n][f[n - 1]]

\* A recursion over 1..N defines a function.
LEMMA Recursion ==
  ASSUME NEW N \in Nat, NEW S, NEW first \in S, NEW step \in Steps(N, S)
  PROVE  \E f : Recurs(f, N, S, first, step)
<1> USE DEF Steps
<1> DEFINE Obeys(m, f) == f[0] = first /\ \A n \in 1..m : f[n] = step[n][f[n - 1]]
           P == {m \in 0..N : \E f \in [0..m -> S] : Obeys(m, f)}
<1>1. 0 \in P
  <2> DEFINE f == [n \in 0..0 |-> first]
  <2>1. f \in [0..0 -> S] /\ f[0] = first
    OBVIOUS
  <2>2. \A n \in 1..0 : FALSE
    OBVIOUS
  <2>3. Obeys(0, f)
    BY <2>1, <2>2, Zenon
  <2>4. 0 \in 0..N
    OBVIOUS
  <2> QED BY <2>1, <2>3, <2>4, Zenon
<1>2. \A m \in 1..N : m - 1 \in P => m \in P
  <2> SUFFICES ASSUME NEW m \in 1..N, m - 1 \in P PROVE m \in P
    OBVIOUS
  <2>1. PICK g \in [0..(m - 1) -> S] : Obeys(m - 1, g)
    BY Zenon
  <2>2. m - 1 \in 0..(m - 1) /\ m \in 1..N /\ 0 \in 0..(m - 1) /\ m # 0
    OBVIOUS
  <2> DEFINE x == step[m][g[m - 1]]
             f == [n \in 0..m |-> IF n = m THEN x ELSE g[n]]
  <2>3. step[m] \in [S -> S] /\ g[m - 1] \in S
    BY <2>2
  <2>4. x \in S
    BY <2>3
  <2> HIDE DEF x
  <2>5. \A n \in 0..m : n # m => n \in 0..(m - 1) /\ g[n] \in S
    OBVIOUS
  <2>6. f \in [0..m -> S]
    BY <2>4, <2>5
  <2>7. f[0] = first /\ f[m] = x
    BY <2>1, <2>2
  <2>8. ASSUME NEW n \in 1..m PROVE f[n] = step[n][f[n - 1]]
    <3>1. n \in 0..m /\ n - 1 \in 0..m /\ n - 1 # m
      OBVIOUS
    <3>2. f[n - 1] = g[n - 1]
      BY <3>1
    <3>3. CASE n = m
      BY <2>7, <3>2, <3>3 DEF x
    <3>4. CASE n # m
      <4>1. n \in 1..(m - 1) /\ f[n] = g[n]
        BY <3>1, <3>4
      <4> QED BY <2>1, <3>2, <4>1
    <3> QED BY <3>3, <3>4
  <2>9. Obeys(m, f)
    BY <2>7, <2>8
  <2> HIDE DEF Obeys, f
  <2> QED BY <2>6, <2>9
<1>3. N \in P
  <2> HIDE DEF P
  <2>1. 0..N \subseteq P
    BY <1>1, <1>2, Induction
  <2> QED BY <2>1
<1> QED BY <1>3 DEF Recurs
----------------------------------------------------------------------------
\* ServeConfig: what is accepted of a configuration

\* The cameras that opted in.
Served(config) == {config[j] : j \in {i \in DOMAIN config : Serves(config[i])}}

\* Without a filter the cameras that opted in, and no other, are served.
LEMMA ServingIs ==
  ASSUME NEW R, NEW config \in Seq(R)
  PROVE  Serving(config) \in Seq(Served(config))
<1> DEFINE S == Seq(Served(config))
<1>1. PICK N \in Nat : N = Len(config) /\ DOMAIN config = 1..N
  OBVIOUS
<1>2. \A n \in 1..N : n \in 0..N /\ n - 1 \in 0..N /\ n # 0
  BY <1>1
<1>3. 0 \in 0..N /\ \A n \in 0..N : n = 0 \/ n \in 1..N
  BY <1>1
<1>4. <<>> \in S
  OBVIOUS
<1>5. ASSUME NEW n \in 1..N, NEW s \in S
      PROVE  (IF Serves(config[n]) THEN Append(s, config[n]) ELSE s) \in S
  <2>1. CASE Serves(config[n])
    <3>1. config[n] \in Served(config)
      BY <1>1, <2>1 DEF Served
    <3>2. Append(s, config[n]) \in Seq(Served(config))
      BY <3>1, AppendProperties
    <3> QED BY <2>1, <3>2
  <2>2. CASE ~Serves(config[n])
    BY <2>2
  <2> QED BY <2>1, <2>2
<1> HIDE DEF S
<1>6. PICK f : f \in [0..N -> S] /\ f[0] = <<>>
                /\ \A n \in 1..N : f[n] = IF Serves(config[n]) THEN Append(f[n - 1], config[n]) ELSE f[n - 1]
  <2>1. PICK step : /\ step \in Steps(N, S)
                    /\ \A n \in 1..N, s \in S :
                         step[n][s] = IF Serves(config[n]) THEN Append(s, config[n]) ELSE s
    <3> DEFINE by == [n \in 1..N |-> [s \in S |-> IF Serves(config[n]) THEN Append(s, config[n]) ELSE s]]
    <3>1. by \in Steps(N, S)
      BY <1>5 DEF Steps
    <3>2. \A n \in 1..N, s \in S : by[n][s] = IF Serves(config[n]) THEN Append(s, config[n]) ELSE s
      OBVIOUS
    <3> HIDE DEF by
    <3> QED BY <3>1, <3>2
  <2>2. PICK f : Recurs(f, N, S, <<>>, step)
    BY <1>1, <1>4, <2>1, Recursion
  <2>3. f \in [0..N -> S] /\ f[0] = <<>> /\ \A n \in 1..N : f[n] = step[n][f[n - 1]]
    BY <2>2 DEF Recurs
  <2>4. \A n \in 1..N : f[n - 1] \in S
    BY <1>2, <2>3
  <2>5. \A n \in 1..N : f[n] = IF Serves(config[n]) THEN Append(f[n - 1], config[n]) ELSE f[n - 1]
    BY <2>1, <2>3, <2>4
  <2> QED BY <2>3, <2>5
<1> DEFINE E(h) == [n \in 0..N |-> IF n = 0 THEN <<>>
                                   ELSE IF Serves(config[n]) THEN Append(h[n - 1], config[n]) ELSE h[n - 1]]
           g == CHOOSE h : h = E(h)
<1>7. f = E(f)
  <2>1. \A n \in 0..N : f[n] = IF n = 0 THEN <<>>
                               ELSE IF Serves(config[n]) THEN Append(f[n - 1], config[n]) ELSE f[n - 1]
    BY <1>3, <1>6
  <2> QED BY <1>6, <2>1
<1>8. g = E(g)
  <2> HIDE DEF E
  <2> QED BY <1>7, Zenon
<1>9. Serving(config) = g[N]
  BY <1>1, Zenon DEF Serving
<1> HIDE DEF g
<1>10. /\ g[0] = <<>>
       /\ \A n \in 1..N : g[n] = IF Serves(config[n]) THEN Append(g[n - 1], config[n]) ELSE g[n - 1]
  BY <1>2, <1>3, <1>8
<1> DEFINE P == {n \in 0..N : g[n] \in S}
<1>11. 0 \in P
  BY <1>3, <1>4, <1>10
<1>12. \A n \in 1..N : n - 1 \in P => n \in P
  <2> TAKE n \in 1..N
  <2> HAVE n - 1 \in P
  <2>1. g[n - 1] \in S
    OBVIOUS
  <2>2. (IF Serves(config[n]) THEN Append(g[n - 1], config[n]) ELSE g[n - 1]) \in S
    BY <1>5, <2>1
  <2>3. g[n] \in S /\ n \in 0..N
    BY <1>2, <1>10, <2>2
  <2> QED BY <2>3
<1>13. N \in P
  <2> HIDE DEF P
  <2>1. 0..N \subseteq P
    BY <1>1, <1>11, <1>12, Induction
  <2> QED BY <1>1, <2>1
<1> QED BY <1>9, <1>13 DEF S

\* What publishes the first n of specs, one behind the other.
LEMMA Published ==
  ASSUME NEW R, NEW specs \in Seq(R), IsInjective([i \in DOMAIN specs |-> specs[i].path])
  PROVE  PublishAll(specs) = [paths |-> {specs[i].path : i \in DOMAIN specs}, refused |-> FALSE]
<1>1. PICK N \in Nat : N = Len(specs) /\ DOMAIN specs = 1..N
  OBVIOUS
<1>2. \A n \in 1..N : n \in 0..N /\ n - 1 \in 0..N /\ n # 0
  BY <1>1
<1>3. 0 \in 0..N /\ \A n \in 0..N : n = 0 \/ n \in 1..N
  BY <1>1
<1> DEFINE first(n) == [paths |-> {specs[i].path : i \in 1..n}, refused |-> FALSE]
           next(p, n) == IF p.refused \/ specs[n].path \in p.paths
                         THEN [paths |-> p.paths, refused |-> TRUE]
                         ELSE [paths |-> p.paths \cup {specs[n].path}, refused |-> FALSE]
           E(h) == [n \in 0..N |-> IF n = 0 THEN [paths |-> {}, refused |-> FALSE] ELSE next(h[n - 1], n)]
           f == [n \in 0..N |-> first(n)]
           g == CHOOSE h : h = E(h)
<1>4. first(0) = [paths |-> {}, refused |-> FALSE]
  <2>1. 1..0 = {}
    OBVIOUS
  <2> QED BY <2>1
<1>5. ASSUME NEW n \in 1..N PROVE next(first(n - 1), n) = first(n)
  <2>1. specs[n].path \notin {specs[i].path : i \in 1..(n - 1)}
    <3> SUFFICES ASSUME NEW i \in 1..(n - 1), specs[n].path = specs[i].path PROVE FALSE
      OBVIOUS
    <3>1. i \in 1..N /\ i # n
      BY <1>1
    <3> QED BY <1>1, <3>1 DEF IsInjective
  <2>2. {specs[i].path : i \in 1..n} = {specs[i].path : i \in 1..(n - 1)} \cup {specs[n].path}
    <3>1. 1..n = 1..(n - 1) \cup {n}
      BY <1>1
    <3> QED BY <3>1
  <2> QED BY <2>1, <2>2
<1> HIDE DEF first, next
<1>6. f = E(f)
  <2>1. \A n \in 0..N : f[n] = IF n = 0 THEN [paths |-> {}, refused |-> FALSE] ELSE next(f[n - 1], n)
    <3> TAKE n \in 0..N
    <3>1. CASE n = 0
      BY <1>3, <1>4, <3>1
    <3>2. CASE n # 0
      <4>1. n \in 1..N /\ n - 1 \in 0..N
        BY <1>2, <1>3, <3>2
      <4> QED BY <1>5, <3>2, <4>1
    <3> QED BY <3>1, <3>2
  <2> HIDE DEF f
  <2>2. f = [n \in 0..N |-> f[n]]
    BY DEF f
  <2> QED BY <2>1, <2>2
<1>7. g = E(g)
  <2> HIDE DEF E, f
  <2> QED BY <1>6, Zenon
<1>8. PublishAll(specs) = g[N]
  BY <1>1, Zenon DEF PublishAll, next
<1> HIDE DEF g
<1>9. /\ g[0] = [paths |-> {}, refused |-> FALSE]
      /\ \A n \in 1..N : g[n] = next(g[n - 1], n)
  BY <1>2, <1>3, <1>7
<1> DEFINE P == {n \in 0..N : g[n] = first(n)}
<1>10. 0 \in P
  BY <1>3, <1>4, <1>9
<1>11. \A n \in 1..N : n - 1 \in P => n \in P
  BY <1>2, <1>5, <1>9
<1>12. N \in P
  <2> HIDE DEF P
  <2>1. 0..N \subseteq P
    BY <1>1, <1>10, <1>11, Induction
  <2> QED BY <1>1, <2>1
<1> QED BY <1>1, <1>8, <1>12 DEF first

\* A camera that resolves: its settings are those of the config, and a mode that
\* is valid once is valid again.
LEMMA ResolvedIs ==
  ASSUME NEW c, ResolveCamera(c) # Raised, NEW camera, camera = ResolveCamera(c)[1]
  PROVE  /\ ResolveCamera(c) = <<camera>>
         /\ camera.device_id = c.id /\ camera.lan_protocol = c.lan_protocol
         /\ camera.rtc_mode = c.rtc_mode
         /\ c.rtc_mode = "direct" \/ c.lan_protocol = "3.4"
         /\ ResolveRtcMode(camera, "none") = <<c.rtc_mode>>
         /\ [camera EXCEPT !.rtc_mode = c.rtc_mode] = camera
<1> DEFINE ip == ResolveDeviceRuntime(c)[1]
           made == [name |-> c.name, device_id |-> c.id, ip |-> ip,
                    signaling_port |-> c.signaling_port, lan_protocol |-> c.lan_protocol,
                    rtc_mode |-> c.rtc_mode]
<1>0. AssembleCameraConfig(c, ResolveDeviceRuntime(c)) # Raised
      /\ ResolveCamera(c) = AssembleCameraConfig(c, ResolveDeviceRuntime(c))
  BY DEF ResolveCamera
<1>1. ResolveRtcMode(c, "none") # Raised
      /\ AssembleCameraConfig(c, ResolveDeviceRuntime(c)) =
           <<[name |-> c.name, device_id |-> c.id, ip |-> ip,
              signaling_port |-> c.signaling_port, lan_protocol |-> c.lan_protocol,
              rtc_mode |-> ResolveRtcMode(c, "none")[1]]>>
  BY <1>0 DEF AssembleCameraConfig
<1>2. /\ ResolveRtcMode(c, "none") = <<c.rtc_mode>>
      /\ c.rtc_mode \in {"direct", "preconnect"}
      /\ c.rtc_mode # "preconnect" \/ c.lan_protocol = "3.4"
  BY <1>1 DEF ResolveRtcMode, Raised
<1>3. ResolveRtcMode(c, "none")[1] = c.rtc_mode
  BY <1>2
<1>4. ResolveCamera(c) = <<made>>
  BY <1>0, <1>1, <1>3
<1>5. camera = made
  BY <1>4
<1> HIDE DEF ip
<1>6. ResolveRtcMode(camera, "none") = <<c.rtc_mode>>
  BY <1>2, <1>5 DEF ResolveRtcMode
<1>7. [camera EXCEPT !.rtc_mode = c.rtc_mode] = camera
  BY <1>5
<1> QED BY <1>2, <1>4, <1>5, <1>6, <1>7

\* The cameras that are served are enabled ones of the config, and with a filter
\* those it selects.
Chosen(config, selectors, selected) ==
  /\ Len(selected) \in Nat /\ DOMAIN selected = 1..Len(selected)
  /\ \A i \in 1..Len(selected) : \E j \in DOMAIN config :
       selected[i] = config[j] /\ config[j].enabled
  /\ selectors # <<>> /\ selected # <<>> =>
       /\ Len(selected) = Len(selectors)
       /\ \A i \in 1..Len(selectors) :
            /\ SelectCamera(config, selectors[i]) # Raised
            /\ selected[i] = SelectCamera(config, selectors[i])[1]

LEMMA SelectedIs ==
  ASSUME NEW raws \in Seq(RawCamera), NEW selectors \in Seq(STRING),
         NEW config, config = LoadConfig(raws),
         NEW selected, selected = SelectServeCameras(config, selectors)
  PROVE  Chosen(config, selectors, selected)
<1>1. \E R : config \in Seq(R)
  <2>1. Len(raws) \in Nat /\ DOMAIN raws = 1..Len(raws)
    OBVIOUS
  <2>2. CASE config = Raised
    <3>1. config \in Seq({})
      BY <2>2 DEF Raised
    <3> QED BY <3>1
  <2>3. CASE config # Raised
    <3> DEFINE R == {DeviceConfig(raws[i]) : i \in DOMAIN raws}
    <3>1. config = [i \in DOMAIN raws |-> DeviceConfig(raws[i])]
      BY <2>3 DEF LoadConfig
    <3>2. config \in [1..Len(raws) -> R]
      BY <2>1, <3>1
    <3> HIDE DEF R
    <3>3. config \in Seq(R)
      BY <2>1, <3>2, SeqDef
    <3> QED BY <3>3
  <2> QED BY <2>2, <2>3
<1>2. CASE selectors = <<>>
  <2>1. selected \in Seq(Served(config))
    BY <1>1, <1>2, ServingIs DEF SelectServeCameras
  <2>2. Len(selected) \in Nat /\ DOMAIN selected = 1..Len(selected)
        /\ \A i \in 1..Len(selected) : selected[i] \in Served(config)
    BY <2>1, LenProperties, ElementOfSeq
  <2> QED BY <1>2, <2>2 DEF Chosen, Served, Serves
<1>3. CASE selectors # <<>>
  <2>1. CASE selected = <<>>
    BY <2>1 DEF Chosen
  <2>2. CASE selected # <<>>
    <3>1. Len(selectors) \in Nat /\ DOMAIN selectors = 1..Len(selectors)
      OBVIOUS
    <3>2. /\ selected = [i \in DOMAIN selectors |-> SelectCamera(config, selectors[i])[1]]
          /\ \A i \in DOMAIN selectors : SelectCamera(config, selectors[i]) # Raised
      BY <1>3, <2>2 DEF SelectServeCameras, Raised
    <3>3. Len(selected) = Len(selectors) /\ DOMAIN selected = 1..Len(selectors)
      BY <3>1, <3>2
    <3>4. ASSUME NEW i \in 1..Len(selectors)
          PROVE  \E j \in DOMAIN config : selected[i] = config[j] /\ config[j].enabled
      <4> DEFINE found(j) == Matches(config, selectors[i]) = {j}
      <4>1. SelectCamera(config, selectors[i]) # Raised /\ selected[i] = SelectCamera(config, selectors[i])[1]
        BY <3>1, <3>2
      <4>2. PICK j \in DOMAIN config : found(j) /\ config[j].enabled
        BY <4>1 DEF SelectCamera
      <4>3. (CHOOSE k \in DOMAIN config : found(k)) = j
        <5>1. \A k : found(k) <=> k = j
          BY <4>2
        <5> HIDE DEF found
        <5> QED BY <5>1
      <4>4. SelectCamera(config, selectors[i]) = <<config[j]>>
        BY <4>2, <4>3 DEF SelectCamera
      <4> QED BY <4>1, <4>2, <4>4
    <3> QED BY <3>1, <3>2, <3>3, <3>4 DEF Chosen
  <2> QED BY <2>1, <2>2
<1> QED BY <1>2, <1>3

\* What tells n things apart has n values.
LEMMA AllDiffer ==
  ASSUME NEW n \in Nat, NEW f, DOMAIN f = 1..n, IsInjective(f)
  PROVE  Cardinality({f[i] : i \in 1..n}) = n
<1> DEFINE S == 1..n
           T == {f[i] : i \in S}
           g == [i \in S |-> f[i]]
<1>1. g \in [S -> T] /\ \A a, b \in S : g[a] = g[b] => a = b
  BY DEF IsInjective
<1>2. \A y \in T : \E x \in S : g[x] = y
  OBVIOUS
<1>3. g \in Injection(S, T)
  BY <1>1 DEF Injection, IsInjective
<1>4. g \in Surjection(S, T)
  BY <1>1, <1>2 DEF Surjection
<1>5. IsFiniteSet(S) /\ Cardinality(S) = n
  BY FS_Interval
<1> HIDE DEF S, T, g
<1>6. IsFiniteSet(T)
  BY <1>4, <1>5, FS_Surjection
<1>7. Cardinality(S) = Cardinality(T)
  BY <1>3, <1>4, <1>6, FS_Injection
<1> QED BY <1>5, <1>7 DEF S, T

Sound(raws, config, selectors, specs) ==
  /\ ~PublishAll(specs).refused /\ Cardinality(PublishAll(specs).paths) = Len(specs)
  /\ Cardinality({c.device_id : c \in {specs[i].camera : i \in DOMAIN specs}}) = Len(specs)
  /\ \A c \in {specs[i].camera : i \in DOMAIN specs} :
       /\ c.rtc_mode = "direct" \/ c.lan_protocol = "3.4"
       /\ \E i \in DOMAIN config : config[i].id = c.device_id /\ config[i].enabled
  /\ selectors = <<>> => ValidateConfigFile(raws)
  /\ selectors # <<>> =>
       /\ Len(specs) = Len(selectors)
       /\ \A i \in DOMAIN specs :
            RunOne(config, selectors[i], "none") = <<specs[i].camera>>

\* What is accepted, of any raw cameras and selectors.
LEMMA AcceptedIs ==
  ASSUME NEW raws \in Seq(RawCamera), NEW selectors \in Seq(STRING),
         NEW config, config = LoadConfig(raws),
         NEW specs, specs = BuildServeCameras(config, selectors), specs # <<>>
  PROVE  Sound(raws, config, selectors, specs)
<1> DEFINE valid    == ValidateServeConfig(config, selectors)
           selected == SelectServeCameras(config, selectors)
           n        == Len(selected)
           where(i) == CHOOSE path \in NormalizePath(selected[i].rtsp_path) : TRUE
           camera(i) == ResolveCamera(selected[i])[1]
<1>1. /\ \A i \in DOMAIN valid : ResolveCamera(valid[i]) # Raised
      /\ specs = [i \in DOMAIN valid |->
                    [camera |-> ResolveCamera(valid[i])[1],
                     path   |-> CHOOSE path \in NormalizePath(valid[i].rtsp_path) : TRUE]]
  BY DEF BuildServeCameras, Raised
<1>2. valid # Raised
  <2> SUFFICES ASSUME valid = <<>> PROVE specs = <<>>
    BY DEF Raised
  <2> HIDE DEF valid
  <2>1. DOMAIN valid = {}
    OBVIOUS
  <2>2. DOMAIN specs = {} /\ specs = [i \in {} |-> specs[i]]
    BY <1>1, <2>1
  <2> QED BY <2>2
<1>3. /\ valid = selected
      /\ \A i \in DOMAIN selected : NormalizePath(selected[i].rtsp_path) # {}
      /\ IsInjective([i \in DOMAIN selected |-> NormalizePath(selected[i].rtsp_path)])
      /\ IsInjective([i \in DOMAIN selected |-> selected[i].id])
  BY <1>2, Zenon DEF ValidateServeConfig, PathsDiffer
<1>4. /\ n \in Nat /\ DOMAIN selected = 1..n
      /\ \A i \in 1..n : \E j \in DOMAIN config :
           selected[i] = config[j] /\ config[j].enabled
      /\ selectors # <<>> /\ selected # <<>> =>
           /\ n = Len(selectors)
           /\ \A i \in 1..Len(selectors) :
                /\ SelectCamera(config, selectors[i]) # Raised
                /\ selected[i] = SelectCamera(config, selectors[i])[1]
  BY SelectedIs DEF Chosen
<1> HIDE DEF valid, selected, n
<1>5. /\ specs = [i \in 1..n |-> [camera |-> camera(i), path |-> where(i)]]
      /\ \A i \in 1..n : ResolveCamera(selected[i]) # Raised
  BY <1>1, <1>3, <1>4, SMTT(30)
<1> HIDE DEF where, camera
<1>6. DOMAIN specs = 1..n /\ \A i \in 1..n : specs[i].camera = camera(i) /\ specs[i].path = where(i)
  BY <1>5
<1>7. \E R : specs \in Seq(R)
  <2> DEFINE R == {[camera |-> camera(i), path |-> where(i)] : i \in 1..n}
  <2>1. specs \in [1..n -> R]
    BY <1>5
  <2> HIDE DEF R
  <2>2. specs \in Seq(R)
    BY <1>4, <2>1, SeqDef
  <2> QED BY <2>2
<1>8. Len(specs) = n
  BY <1>4, <1>6, <1>7, LenProperties
<1>9. \A i \in 1..n : NormalizePath(selected[i].rtsp_path) = {where(i)}
  <2> TAKE i \in 1..n
  <2>1. NormalizePath(selected[i].rtsp_path) # {}
    BY <1>3, <1>4
  <2>2. NormalizePath(selected[i].rtsp_path) = {selected[i].rtsp_path.segment}
    BY <2>1 DEF NormalizePath
  <2>3. where(i) = selected[i].rtsp_path.segment
    BY <2>2 DEF where
  <2> QED BY <2>2, <2>3
<1>10. \A i \in 1..n :
         /\ ResolveCamera(selected[i]) = <<camera(i)>>
         /\ camera(i).device_id = selected[i].id /\ camera(i).lan_protocol = selected[i].lan_protocol
         /\ camera(i).rtc_mode = selected[i].rtc_mode
         /\ selected[i].rtc_mode = "direct" \/ selected[i].lan_protocol = "3.4"
         /\ ResolveRtcMode(camera(i), "none") = <<selected[i].rtc_mode>>
         /\ [camera(i) EXCEPT !.rtc_mode = selected[i].rtc_mode] = camera(i)
  BY <1>5, ResolvedIs DEF camera
<1>11. /\ ~PublishAll(specs).refused /\ Cardinality(PublishAll(specs).paths) = Len(specs)
  <2> DEFINE f == [i \in DOMAIN specs |-> specs[i].path]
  <2>1. IsInjective(f)
    <3>1. ASSUME NEW a \in 1..n, NEW b \in 1..n, where(a) = where(b) PROVE a = b
      <4>1. NormalizePath(selected[a].rtsp_path) = NormalizePath(selected[b].rtsp_path)
        BY <1>9, <3>1
      <4> QED BY <1>3, <1>4, <4>1 DEF IsInjective
    <3> QED BY <1>6, <3>1 DEF IsInjective
  <2>2. PublishAll(specs) = [paths |-> {specs[i].path : i \in DOMAIN specs}, refused |-> FALSE]
    BY <1>7, <2>1, Published
  <2>3. DOMAIN f = 1..n /\ {specs[i].path : i \in DOMAIN specs} = {f[i] : i \in 1..n}
    BY <1>6
  <2> HIDE DEF f
  <2>4. Cardinality({f[i] : i \in 1..n}) = n
    BY <1>4, <2>1, <2>3, AllDiffer
  <2> DEFINE paths == {f[i] : i \in 1..n}
  <2>5. PublishAll(specs) = [paths |-> paths, refused |-> FALSE]
    BY <2>2, <2>3
  <2> HIDE DEF paths
  <2>6. PublishAll(specs).paths = paths /\ ~PublishAll(specs).refused
    BY <2>5
  <2> QED BY <1>8, <2>4, <2>6 DEF paths
<1>12. Cardinality({c.device_id : c \in {specs[i].camera : i \in DOMAIN specs}}) = Len(specs)
  <2> DEFINE f == [i \in DOMAIN selected |-> selected[i].id]
  <2>1. IsInjective(f) /\ DOMAIN f = 1..n
    BY <1>3, <1>4
  <2>2. {c.device_id : c \in {specs[i].camera : i \in DOMAIN specs}} = {f[i] : i \in 1..n}
    <3>1. \A i \in 1..n : specs[i].camera.device_id = f[i]
      BY <1>4, <1>6, <1>10
    <3> HIDE DEF f
    <3> QED BY <1>6, <3>1
  <2> HIDE DEF f
  <2>3. Cardinality({f[i] : i \in 1..n}) = n
    BY <1>4, <2>1, AllDiffer
  <2> QED BY <1>8, <2>2, <2>3
<1>13. \A c \in {specs[i].camera : i \in DOMAIN specs} :
         /\ c.rtc_mode = "direct" \/ c.lan_protocol = "3.4"
         /\ \E i \in DOMAIN config : config[i].id = c.device_id /\ config[i].enabled
  <2> TAKE c \in {specs[i].camera : i \in DOMAIN specs}
  <2>1. PICK i \in 1..n : c = camera(i)
    BY <1>6
  <2>2. PICK j \in DOMAIN config : selected[i] = config[j] /\ config[j].enabled
    BY <1>4
  <2>3. c.rtc_mode = "direct" \/ c.lan_protocol = "3.4"
    BY <1>10, <2>1
  <2>4. config[j].id = c.device_id /\ config[j].enabled
    BY <1>10, <2>1, <2>2
  <2> QED BY <2>3, <2>4
<1>14. selectors = <<>> => ValidateConfigFile(raws)
  BY <1>2 DEF ValidateConfigFile, valid
<1>15. ASSUME selectors # <<>>
       PROVE  /\ Len(specs) = Len(selectors)
              /\ \A i \in DOMAIN specs :
                   RunOne(config, selectors[i], "none") = <<specs[i].camera>>
  <2>1. selected # <<>>
    BY <1>2, <1>3 DEF Raised
  <2>2. /\ n = Len(selectors)
        /\ \A i \in 1..Len(selectors) :
             /\ SelectCamera(config, selectors[i]) # Raised
             /\ selected[i] = SelectCamera(config, selectors[i])[1]
    BY <1>4, <1>15, <2>1
  <2>3. ASSUME NEW i \in 1..n
        PROVE  RunOne(config, selectors[i], "none") = <<specs[i].camera>>
    <3>1. SelectCamera(config, selectors[i]) # Raised /\ selected[i] = SelectCamera(config, selectors[i])[1]
      BY <2>2
    <3>2. /\ ResolveCamera(selected[i]) = <<camera(i)>>
          /\ ResolveRtcMode(camera(i), "none") = <<selected[i].rtc_mode>>
          /\ [camera(i) EXCEPT !.rtc_mode = selected[i].rtc_mode] = camera(i)
      BY <1>10
    <3>3. <<camera(i)>> # Raised /\ <<selected[i].rtc_mode>> # Raised
          /\ <<camera(i)>>[1] = camera(i) /\ <<selected[i].rtc_mode>>[1] = selected[i].rtc_mode
      BY DEF Raised
    <3>4. RunOne(config, selectors[i], "none") = <<[camera(i) EXCEPT !.rtc_mode = selected[i].rtc_mode]>>
      BY <3>1, <3>2, <3>3 DEF RunOne
    <3> QED BY <1>6, <3>2, <3>4
  <2> QED BY <1>6, <1>8, <2>2, <2>3
<1> QED BY <1>11, <1>12, <1>13, <1>14, <1>15 DEF Sound

\* what is being built, and what was
ConfigInv ==
  /\ in = [algorithm |-> "rtp"] \/ in \in StunInputs \cup ConfigInputs
  /\ in.algorithm = "config" /\ out # <<>> =>
       out = BuildServeCameras(LoadConfig(in.raws), in.selectors)

\* From load_config to the frontends, for every config and every selection: what
\* is accepted has distinct paths and device ids, enabled cameras in modes their
\* protocols have, and is what the commands for single cameras would run.
THEOREM ConfigServed == Spec => []AcceptedIsServed
<1>1. Init => ConfigInv
  BY DEF Init, ConfigInv
<1>2. ConfigInv /\ [Next]_vars => ConfigInv'
  <2> SUFFICES ASSUME ConfigInv, [Next]_vars PROVE ConfigInv'
    OBVIOUS
  <2>1. CASE UNCHANGED <<in, out>>
    BY <2>1 DEF ConfigInv
  <2>2. CASE Exchange
    BY <2>2 DEF ConfigInv, Exchange
  <2>3. CASE Build
    BY <2>3 DEF ConfigInv, Build
  <2> QED BY <2>1, <2>2, <2>3 DEF Next, vars
<1>3. ConfigInv => AcceptedIsServed
  <2> SUFFICES ASSUME ConfigInv, in.algorithm = "config", out # <<>>
               PROVE  LET config    == LoadConfig(in.raws)
                          published == PublishAll(out)
                          cameras   == {out[i].camera : i \in DOMAIN out}
                      IN  /\ ~published.refused /\ Cardinality(published.paths) = Len(out)
                          /\ Cardinality({c.device_id : c \in cameras}) = Len(out)
                          /\ \A c \in cameras :
                               /\ c.rtc_mode = "direct" \/ c.lan_protocol = "3.4"
                               /\ \E i \in DOMAIN config :
                                    config[i].id = c.device_id /\ config[i].enabled
                          /\ IF in.selectors = <<>> THEN ValidateConfigFile(in.raws)
                             ELSE /\ Len(out) = Len(in.selectors)
                                  /\ \A i \in DOMAIN out :
                                       RunOne(config, in.selectors[i], "none") = <<out[i].camera>>
    BY Zenon DEF AcceptedIsServed
  <2>1. in.raws \in Seq(RawCamera) /\ in.selectors \in Seq(STRING)
    <3>1. in \in ConfigInputs
      <4>1. in # [algorithm |-> "rtp"]
        OBVIOUS
      <4>2. in \notin StunInputs
        BY InputAssumption
      <4> QED BY <4>1, <4>2 DEF ConfigInv
    <3> QED BY <3>1, InputAssumption
  <2>2. out = BuildServeCameras(LoadConfig(in.raws), in.selectors)
    BY DEF ConfigInv
  <2>3. Sound(in.raws, LoadConfig(in.raws), in.selectors, out)
    BY <2>1, <2>2, AcceptedIs
  <2> QED BY <2>3, Zenon DEF Sound
<1> QED BY <1>1, <1>2, <1>3, PTL DEF Spec
----------------------------------------------------------------------------
\* StunMessage: attributes laid end to end, and the messages of them

\* a sequence, of whatever a digest may consist of
IsSeq(s) == \E D : s \in Seq(D)

LEMMA OctetsAre == ASSUME NEW s \in Seq(Octet) PROVE IsSeq(s)
  BY DEF IsSeq

LEMMA LenIs == ASSUME NEW s, IsSeq(s) PROVE Len(s) \in Nat /\ DOMAIN s = 1..Len(s)
  BY LenProperties DEF IsSeq

LEMMA TwoSeqs ==
  ASSUME NEW s, NEW t, IsSeq(s), IsSeq(t)
  PROVE  \E D : s \in Seq(D) /\ t \in Seq(D)
<1>1. PICK A : s \in Seq(A)
  BY DEF IsSeq
<1>2. PICK B : t \in Seq(B)
  BY DEF IsSeq
<1> DEFINE D == A \cup B
<1>3. A \subseteq D /\ B \subseteq D
  OBVIOUS
<1> HIDE DEF D
<1>4. s \in Seq(D)
  BY <1>1, <1>3, SeqMonotonic
<1>5. t \in Seq(D)
  BY <1>2, <1>3, SeqMonotonic
<1> QED BY <1>4, <1>5

LEMMA Same ==
  ASSUME NEW s, NEW t, IsSeq(s), IsSeq(t), Len(s) = Len(t), \A i \in 1..Len(s) : s[i] = t[i]
  PROVE  s = t
<1>1. PICK D : s \in Seq(D) /\ t \in Seq(D)
  BY TwoSeqs
<1> QED BY <1>1, SeqEqual

LEMMA Joined ==
  ASSUME NEW s, NEW t, IsSeq(s), IsSeq(t)
  PROVE  /\ IsSeq(s \o t) /\ Len(s \o t) = Len(s) + Len(t)
         /\ Len(s) \in Nat /\ Len(t) \in Nat
         /\ \A i \in 1..Len(s) : (s \o t)[i] = s[i]
         /\ \A i \in 1..Len(t) : (s \o t)[Len(s) + i] = t[i]
<1>1. PICK D : s \in Seq(D) /\ t \in Seq(D)
  BY TwoSeqs
<1>2. /\ s \o t \in Seq(D) /\ Len(s \o t) = Len(s) + Len(t)
      /\ \A i \in 1..(Len(s) + Len(t)) :
           (s \o t)[i] = IF i <= Len(s) THEN s[i] ELSE t[i - Len(s)]
  BY <1>1, ConcatProperties
<1>3. Len(s) \in Nat /\ Len(t) \in Nat
  BY LenIs
<1>4. \A i \in 1..Len(s) : (s \o t)[i] = s[i]
  BY <1>2, <1>3
<1>5. ASSUME NEW i \in 1..Len(t) PROVE (s \o t)[Len(s) + i] = t[i]
  <2>1. Len(s) + i \in 1..(Len(s) + Len(t)) /\ ~(Len(s) + i <= Len(s)) /\ (Len(s) + i) - Len(s) = i
    BY <1>3
  <2> QED BY <1>2, <2>1
<1>6. IsSeq(s \o t)
  BY <1>2 DEF IsSeq
<1> QED BY <1>2, <1>3, <1>4, <1>5, <1>6

LEMMA JoinedAgain ==
  ASSUME NEW s, NEW t, NEW u, IsSeq(s), IsSeq(t), IsSeq(u)
  PROVE  (s \o t) \o u = s \o (t \o u)
<1>1. PICK A : s \in Seq(A) /\ t \in Seq(A)
  BY TwoSeqs
<1>2. PICK B : u \in Seq(B)
  BY DEF IsSeq
<1> DEFINE D == A \cup B
<1>3. A \subseteq D /\ B \subseteq D
  OBVIOUS
<1> HIDE DEF D
<1>4. s \in Seq(D) /\ t \in Seq(D)
  BY <1>1, <1>3, SeqMonotonic
<1>5. u \in Seq(D)
  BY <1>2, <1>3, SeqMonotonic
<1> QED BY <1>4, <1>5, ConcatAssociative

LEMMA EmptyIs ==
  ASSUME NEW s, IsSeq(s)
  PROVE  IsSeq(<<>>) /\ s \o <<>> = s /\ <<>> \o s = s
<1>1. PICK D : s \in Seq(D)
  BY DEF IsSeq
<1>2. <<>> \in Seq(D)
  OBVIOUS
<1> QED BY <1>1, <1>2, ConcatEmptySeq DEF IsSeq

LEMMA SliceHas ==
  ASSUME NEW s, IsSeq(s), NEW from \in Nat, NEW to \in Nat, from <= to, to <= Len(s)
  PROVE  /\ IsSeq(Slice(s, from, to)) /\ Len(Slice(s, from, to)) = to - from
         /\ \A i \in 1..(to - from) : Slice(s, from, to)[i] = s[from + i]
<1>1. PICK D : s \in Seq(D)
  BY DEF IsSeq
<1>2. Len(s) \in Nat
  BY LenIs
<1>3. from + 1 \in Int /\ to \in Int
  OBVIOUS
<1>4. \A i \in (from + 1)..to : s[i] \in D
  BY <1>1, <1>2, ElementOfSeq
<1>5. /\ SubSeq(s, from + 1, to) \in Seq(D)
      /\ Len(SubSeq(s, from + 1, to)) = IF from + 1 <= to THEN to - (from + 1) + 1 ELSE 0
      /\ \A i \in 1..(to - (from + 1) + 1) : SubSeq(s, from + 1, to)[i] = s[(from + 1) + i - 1]
  BY <1>3, <1>4, SubSeqProperties
<1>6. Len(SubSeq(s, from + 1, to)) = to - from
  BY <1>5
<1>7. \A i \in 1..(to - from) : SubSeq(s, from + 1, to)[i] = s[from + i]
  BY <1>5
<1> QED BY <1>5, <1>6, <1>7 DEF Slice, IsSeq

\* what is behind does not matter
LEMMA SliceBefore ==
  ASSUME NEW s, NEW t, IsSeq(s), IsSeq(t), NEW from \in Nat, NEW to \in Nat, from <= to, to <= Len(s)
  PROVE  Slice(s \o t, from, to) = Slice(s, from, to)
<1>1. /\ IsSeq(s \o t) /\ Len(s \o t) = Len(s) + Len(t) /\ Len(s) \in Nat /\ Len(t) \in Nat
      /\ \A i \in 1..Len(s) : (s \o t)[i] = s[i]
  BY Joined
<1>2. to <= Len(s \o t)
  BY <1>1
<1>3. /\ IsSeq(Slice(s \o t, from, to)) /\ Len(Slice(s \o t, from, to)) = to - from
      /\ \A i \in 1..(to - from) : Slice(s \o t, from, to)[i] = (s \o t)[from + i]
  BY <1>1, <1>2, SliceHas
<1>4. /\ IsSeq(Slice(s, from, to)) /\ Len(Slice(s, from, to)) = to - from
      /\ \A i \in 1..(to - from) : Slice(s, from, to)[i] = s[from + i]
  BY SliceHas
<1>5. \A i \in 1..(to - from) : from + i \in 1..Len(s)
  BY <1>1
<1>6. \A i \in 1..(to - from) : Slice(s \o t, from, to)[i] = Slice(s, from, to)[i]
  BY <1>1, <1>3, <1>4, <1>5
<1> QED BY <1>3, <1>4, <1>6, Same

\* nor what is before
LEMMA SliceMiddle ==
  ASSUME NEW s, NEW t, NEW u, IsSeq(s), IsSeq(t), IsSeq(u)
  PROVE  Slice((s \o t) \o u, Len(s), Len(s) + Len(t)) = t
<1>1. /\ IsSeq(s \o t) /\ Len(s \o t) = Len(s) + Len(t) /\ Len(s) \in Nat /\ Len(t) \in Nat
      /\ \A i \in 1..Len(t) : (s \o t)[Len(s) + i] = t[i]
  BY Joined
<1>2. PICK a \in Nat, b \in Nat : a = Len(s) /\ b = Len(s) + Len(t)
  BY <1>1
<1>0. PICK v : v = s \o t
  OBVIOUS
<1>3. IsSeq(v) /\ a <= b /\ b <= Len(v)
  BY <1>0, <1>1, <1>2
<1>4. /\ IsSeq(Slice(v, a, b)) /\ Len(Slice(v, a, b)) = b - a
      /\ \A i \in 1..(b - a) : Slice(v, a, b)[i] = v[a + i]
  BY <1>3, SliceHas
<1>5. Slice(v \o u, a, b) = Slice(v, a, b)
  BY <1>3, SliceBefore
<1>6. b - a = Len(t) /\ \A i \in 1..Len(t) : v[a + i] = t[i]
  BY <1>0, <1>1, <1>2
<1>7. Slice(v, a, b) = t
  BY <1>4, <1>6, Same
<1> QED BY <1>0, <1>2, <1>5, <1>7

LEMMA At16Before ==
  ASSUME NEW s, NEW t, IsSeq(s), IsSeq(t), NEW pos \in Nat, pos + 2 <= Len(s)
  PROVE  At16(s \o t, pos) = At16(s, pos)
<1>1. Len(s) \in Nat /\ \A i \in 1..Len(s) : (s \o t)[i] = s[i]
  BY Joined
<1>2. pos + 1 \in 1..Len(s) /\ pos + 2 \in 1..Len(s)
  BY <1>1
<1> QED BY <1>1, <1>2 DEF At16

LEMMA At16Behind ==
  ASSUME NEW s, NEW t, IsSeq(s), IsSeq(t), NEW pos \in Nat, pos + 2 <= Len(t)
  PROVE  At16(s \o t, Len(s) + pos) = At16(t, pos)
<1>1. Len(s) \in Nat /\ Len(t) \in Nat /\ \A i \in 1..Len(t) : (s \o t)[Len(s) + i] = t[i]
  BY Joined
<1>2. /\ pos + 1 \in 1..Len(t) /\ pos + 2 \in 1..Len(t)
      /\ Len(s) + pos + 1 = Len(s) + (pos + 1) /\ Len(s) + pos + 2 = Len(s) + (pos + 2)
  BY <1>1
<1> QED BY <1>1, <1>2 DEF At16

\* Numbers of two bytes are read as they were written.
LEMMA WordIs ==
  ASSUME NEW n \in Nat
  PROVE  IsSeq(U16(n)) /\ Len(U16(n)) = 2 /\ At16(U16(n), 0) = n
<1>1. PICK a \in Nat, b \in Nat : a = n \div 256 /\ b = n % 256 /\ 256 * a + b = n
  <2>1. n \div 256 \in Nat /\ n % 256 \in Nat /\ 256 * (n \div 256) + (n % 256) = n
    OBVIOUS
  <2> QED BY <2>1
<1>2. U16(n) = <<a, b>>
  BY <1>1 DEF U16
<1>3. <<a, b>> \in Seq(Nat) /\ Len(<<a, b>>) = 2 /\ <<a, b>>[1] = a /\ <<a, b>>[2] = b
  OBVIOUS
<1>4. At16(U16(n), 0) = n
  BY <1>1, <1>2, <1>3 DEF At16
<1> QED BY <1>2, <1>3, <1>4 DEF IsSeq

LEMMA ZerosAre ==
  ASSUME NEW n \in Nat
  PROVE  IsSeq(Zeros(n)) /\ Len(Zeros(n)) = n /\ \A i \in 1..n : Zeros(n)[i] = 0
<1>1. Zeros(n) \in [1..n -> {0}]
  BY DEF Zeros
<1>2. Zeros(n) \in Seq({0}) /\ Len(Zeros(n)) = n
  BY <1>1, SeqOf
<1> QED BY <1>2 DEF IsSeq, Zeros

LEMMA PaddingIs ==
  ASSUME NEW len \in Nat
  PROVE  Padding(len) \in 0..3 /\ (len + Padding(len)) % 4 = 0
  BY DEF Padding

\* An attribute's header, value and padding.
LEMMA StunAttrIs ==
  ASSUME NEW type \in Nat, NEW value, IsSeq(value)
  PROVE  \E head, pad :
           /\ IsSeq(head) /\ Len(head) = 4 /\ IsSeq(pad) /\ Len(pad) = Padding(Len(value))
           /\ StunAttr(type, value) = (head \o value) \o pad
           /\ At16(head, 0) = type /\ At16(head, 2) = Len(value)
<1>1. PICK t : t = U16(type)
  OBVIOUS
<1>2. PICK pad : pad = Zeros(Padding(Len(value)))
  OBVIOUS
<1>3. Len(value) \in Nat
  BY LenIs
<1>4. PICK len \in Nat : len = Len(value)
  BY <1>3
<1>5. PICK l : l = U16(len)
  OBVIOUS
<1>6. /\ IsSeq(t) /\ Len(t) = 2 /\ At16(t, 0) = type
      /\ IsSeq(l) /\ Len(l) = 2 /\ At16(l, 0) = len
  BY <1>1, <1>5, WordIs
<1> DEFINE head == t \o l
<1>7. IsSeq(head) /\ Len(head) = 4 /\ At16(head, 0) = type /\ At16(head, 2) = len
  <2>0. 0 \in Nat /\ 0 + 2 <= Len(t) /\ 0 + 2 <= Len(l)
    BY <1>6
  <2>1. IsSeq(t \o l) /\ Len(t \o l) = Len(t) + Len(l)
    BY <1>6, Joined
  <2>2. At16(t \o l, 0) = At16(t, 0)
    BY <1>6, <2>0, At16Before, Zenon
  <2>3. At16(t \o l, Len(t) + 0) = At16(l, 0)
    BY <1>6, <2>0, At16Behind, Zenon
  <2>4. Len(t) + 0 = 2
    BY <1>6
  <2> QED BY <1>6, <2>1, <2>2, <2>3, <2>4
<1>8. Padding(Len(value)) \in Nat
  BY <1>3, PaddingIs
<1>9. IsSeq(pad) /\ Len(pad) = Padding(Len(value))
  BY <1>2, <1>8, ZerosAre
<1>10. StunAttr(type, value) = (head \o value) \o pad
  BY <1>1, <1>2, <1>4, <1>5 DEF StunAttr, Unpadded
<1> HIDE DEF head
<1> QED BY <1>4, <1>7, <1>9, <1>10

\* one that needs no padding is as it would be without
LEMMA UnpaddedIs ==
  ASSUME NEW type \in Nat, NEW value, IsSeq(value), Len(value) % 4 = 0
  PROVE  Unpadded(type, value) = StunAttr(type, value)
<1>1. Len(value) \in Nat
  BY LenIs
<1>2. Padding(Len(value)) = 0
  BY <1>1 DEF Padding
<1>3. Zeros(0) = <<>>
  <2>1. IsSeq(Zeros(0)) /\ Len(Zeros(0)) = 0
    BY ZerosAre
  <2> QED BY <2>1, EmptySeq DEF IsSeq
<1>4. IsSeq(Unpadded(type, value))
  <2>1. IsSeq(U16(type)) /\ IsSeq(U16(Len(value)))
    BY <1>1, WordIs
  <2>2. IsSeq(U16(type) \o U16(Len(value)))
    BY <2>1, Joined
  <2> QED BY <2>2, Joined DEF Unpadded
<1>5. Unpadded(type, value) \o <<>> = Unpadded(type, value)
  BY <1>4, EmptyIs
<1> QED BY <1>2, <1>3, <1>5 DEF StunAttr

\* the k attributes as lie one behind the other, the i-th from at[i - 1] to at[i]
ReadAs(data, at, as, i) ==
  LET len == At16(data, at[i - 1] + 2)
  IN  /\ len \in Nat /\ at[i] = at[i - 1] + 4 + len + Padding(len)
      /\ as[i] = [type |-> At16(data, at[i - 1]), at |-> at[i - 1],
                  value |-> Slice(data, at[i - 1] + 4, at[i - 1] + 4 + len)]

Laid(data, k, at, as) ==
  /\ k \in Nat /\ k <= Len(data) /\ IsSeq(data)
  /\ at \in [0..k -> Nat] /\ at[0] = 20 /\ at[k] = Len(data)
  /\ as = [i \in 1..k |-> as[i]]
  /\ \A i \in 1..k : ReadAs(data, at, as, i) /\ at[i] <= Len(data)

Reads(data, as) == \E k, at : Laid(data, k, at, as)

First(as, n) == [i \in 1..n |-> as[i]]
Longer(as, n, x) == [i \in 1..(n + 1) |-> IF i = n + 1 THEN x ELSE as[i]]

LEMMA OneMore ==
  ASSUME NEW as, NEW n \in Nat, NEW x
  PROVE  Append(First(as, n), x) = Longer(as, n, x) /\ Len(First(as, n)) = n
<1> DEFINE D == {as[i] : i \in 1..n} \cup {x}
           s == [i \in 1..n |-> as[i]]
           t == [i \in 1..(n + 1) |-> IF i = n + 1 THEN x ELSE as[i]]
<1>1. s \in [1..n -> D] /\ x \in D /\ t \in [1..(n + 1) -> D] /\ n + 1 \in Nat
  <2>1. \A i \in 1..(n + 1) : i # n + 1 => i \in 1..n
    OBVIOUS
  <2>2. n + 1 \in Nat
    OBVIOUS
  <2>3. x \in D /\ \A i \in 1..n : as[i] \in D
    OBVIOUS
  <2> HIDE DEF D
  <2>4. s \in [1..n -> D]
    BY <2>3
  <2>5. t \in [1..(n + 1) -> D]
    BY <2>1, <2>3
  <2> QED BY <2>2, <2>3, <2>4, <2>5
<1>2. /\ \A i \in 1..n : s[i] = as[i] /\ t[i] = as[i]
      /\ t[n + 1] = x
  <2>1. \A i \in 1..n : i \in 1..(n + 1) /\ i # n + 1
    OBVIOUS
  <2>2. n + 1 \in 1..(n + 1)
    OBVIOUS
  <2> QED BY <2>1, <2>2
<1> HIDE DEF D, s, t
<1>3. s \in Seq(D) /\ Len(s) = n
  BY <1>1, SeqOf
<1>4. t \in Seq(D) /\ Len(t) = n + 1
  BY <1>1, SeqOf
<1>5. /\ Append(s, x) \in Seq(D) /\ Len(Append(s, x)) = Len(s) + 1
      /\ \A i \in 1..Len(s) : Append(s, x)[i] = s[i]
      /\ Append(s, x)[Len(s) + 1] = x
  BY <1>1, <1>3, AppendProperties
<1>6. \A i \in 1..(n + 1) : Append(s, x)[i] = t[i]
  <2> TAKE i \in 1..(n + 1)
  <2>1. CASE i = n + 1
    BY <1>2, <1>3, <1>5, <2>1
  <2>2. CASE i # n + 1
    <3>1. i \in 1..n
      BY <2>2
    <3> QED BY <1>2, <1>3, <1>5, <3>1
  <2> QED BY <2>1, <2>2
<1>7. Append(s, x) = t
  BY <1>3, <1>4, <1>5, <1>6, SeqEqual
<1> QED BY <1>3, <1>7 DEF s, t, First, Longer

\* A message of such attributes is read as them, in as many turns.
LEMMA AllAreRead ==
  ASSUME NEW data, NEW as, Reads(data, as)
  PROVE  /\ ReadAttributes(data) = [pos |-> Len(data), ok |-> TRUE, attributes |-> as]
         /\ Len(as) \in Nat /\ DOMAIN as = 1..Len(as)
<1>1. PICK k, at : Laid(data, k, at, as)
  BY DEF Reads
<1>2. PICK N \in Nat : N = Len(data)
  BY <1>1, LenIs DEF Laid
<1>3. k \in Nat /\ k <= N /\ at \in [0..k -> Nat] /\ at[0] = 20 /\ at[k] = N /\ as = [i \in 1..k |-> as[i]]
  BY <1>1, <1>2 DEF Laid
<1>4. \A n \in 1..N : n \in 0..N /\ n - 1 \in 0..N /\ n # 0
  BY <1>2
<1>5. 0 \in 0..N /\ N \in 0..N /\ \A n \in 0..N : n = 0 \/ n \in 1..N
  BY <1>2
<1> DEFINE first(n) == [i \in 1..n |-> as[i]]
           msg(n) == IF n <= k THEN [pos |-> at[n], ok |-> TRUE, attributes |-> first(n)]
                     ELSE [pos |-> N, ok |-> TRUE, attributes |-> as]
           none == [pos |-> 20, ok |-> TRUE, attributes |-> <<>>]
           E(h) == [n \in 0..N |-> IF n = 0 THEN none ELSE ReadAttribute(data, h[n - 1])]
           f == [n \in 0..N |-> msg(n)]
           g == CHOOSE h : h = E(h)
<1>6. msg(0) = none
  <2>1. first(0) = <<>>
    OBVIOUS
  <2> HIDE DEF first
  <2>2. 0 <= k /\ at[0] = 20
    BY <1>3
  <2> QED BY <2>1, <2>2
<1>7. msg(N).pos = N /\ msg(N) = [pos |-> N, ok |-> TRUE, attributes |-> as]
  <2>1. N <= k => N = k
    BY <1>2, <1>3
  <2> QED BY <1>3, <2>1
<1>8. ASSUME NEW n \in 1..N PROVE ReadAttribute(data, msg(n - 1)) = msg(n)
  <2>1. CASE n <= k
    <3>1. PICK len : len = At16(data, at[n - 1] + 2)
      OBVIOUS
    <3>2. n \in 1..k /\ n - 1 \in 0..k /\ n \in 0..k /\ n - 1 <= k
      BY <1>2, <1>3, <2>1
    <3>3. /\ len \in Nat /\ at[n] = at[n - 1] + 4 + len + Padding(len) /\ at[n] <= N
          /\ as[n] = [type |-> At16(data, at[n - 1]), at |-> at[n - 1],
                      value |-> Slice(data, at[n - 1] + 4, at[n - 1] + 4 + len)]
      BY <1>1, <1>2, <3>1, <3>2 DEF Laid, ReadAs
    <3>4. at[n - 1] \in Nat /\ at[n] \in Nat /\ Padding(len) \in Nat
      <4>1. at[n - 1] \in Nat /\ at[n] \in Nat
        BY <1>3, <3>2
      <4>2. Padding(len) \in 0..3
        BY <3>3, PaddingIs
      <4> QED BY <4>1, <4>2
    <3>5. ~(at[n - 1] >= N) /\ ~(at[n - 1] + 4 > N) /\ ~((at[n - 1] + 4 + len) + Padding(len) > N)
      BY <1>2, <3>3, <3>4
    <3>6. Append(first(n - 1), as[n]) = first(n)
      <4>1. n - 1 \in Nat /\ (n - 1) + 1 = n
        BY <3>2
      <4>2. \A x : Append(First(as, n - 1), x) = Longer(as, n - 1, x)
        BY <4>1, OneMore
      <4>3. Append(First(as, n - 1), as[n]) = Longer(as, n - 1, as[n])
        BY <4>2
      <4>4. Longer(as, n - 1, as[n]) = First(as, n)
        <5>1. Longer(as, n - 1, as[n]) = [i \in 1..n |-> IF i = n THEN as[n] ELSE as[i]]
          BY <4>1 DEF Longer
        <5> QED BY <5>1 DEF First
      <4>5. \A m : first(m) = First(as, m)
        BY DEF First
      <4> HIDE DEF first
      <4> QED BY <4>3, <4>4, <4>5
    <3> HIDE DEF first
    <3>7. PICK m : m = [pos |-> at[n - 1], ok |-> TRUE, attributes |-> first(n - 1)]
      OBVIOUS
    <3>8. m.pos = at[n - 1] /\ m.ok /\ m.attributes = first(n - 1)
      BY <3>7
    <3>9. ReadAttribute(data, m)
            = [pos |-> (at[n - 1] + 4 + len) + Padding(len), ok |-> TRUE,
               attributes |-> Append(first(n - 1), as[n])]
      BY <1>2, <3>1, <3>3, <3>5, <3>8 DEF ReadAttribute
    <3>10. msg(n - 1) = m /\ msg(n) = [pos |-> at[n], ok |-> TRUE, attributes |-> first(n)]
      BY <2>1, <3>2, <3>7
    <3> QED BY <3>3, <3>4, <3>6, <3>9, <3>10
  <2>2. CASE ~(n <= k)
    <3>1. k \in 0..N /\ n - 1 \in 0..N
      BY <1>2, <1>3
    <3>2. msg(n) = [pos |-> N, ok |-> TRUE, attributes |-> as]
      BY <2>2
    <3>3. msg(n - 1) = msg(n)
      <4>1. CASE n - 1 <= k
        <5>1. n - 1 = k
          BY <1>3, <2>2, <4>1
        <5> QED BY <1>3, <3>2, <4>1, <5>1
      <4>2. CASE ~(n - 1 <= k)
        BY <3>2, <4>2
      <4> QED BY <4>1, <4>2
    <3>4. msg(n).ok /\ msg(n).pos >= Len(data)
      BY <1>2, <3>2
    <3> HIDE DEF msg
    <3> QED BY <3>3, <3>4 DEF ReadAttribute
  <2> QED BY <2>1, <2>2
<1> HIDE DEF msg, none
<1>9. f = E(f)
  <2>1. \A n \in 0..N : f[n] = IF n = 0 THEN none ELSE ReadAttribute(data, f[n - 1])
    <3> TAKE n \in 0..N
    <3>1. CASE n = 0
      BY <1>5, <1>6, <3>1
    <3>2. CASE n # 0
      <4>1. n \in 1..N /\ n - 1 \in 0..N
        BY <1>4, <1>5, <3>2
      <4> QED BY <1>8, <3>2, <4>1
    <3> QED BY <3>1, <3>2
  <2>2. f = [n \in 0..N |-> f[n]]
    OBVIOUS
  <2> HIDE DEF f
  <2> QED BY <2>1, <2>2
<1>10. g = E(g)
  <2> HIDE DEF E, f
  <2> QED BY <1>9, Zenon
<1>11. ReadAttributes(data) = g[N]
  BY <1>2, Zenon DEF ReadAttributes, none
<1> HIDE DEF g
<1>12. g[0] = none /\ \A n \in 1..N : g[n] = ReadAttribute(data, g[n - 1])
  BY <1>4, <1>5, <1>10
<1> DEFINE P == {n \in 0..N : g[n] = msg(n)}
<1>13. 0 \in P
  BY <1>5, <1>6, <1>12
<1>14. \A n \in 1..N : n - 1 \in P => n \in P
  BY <1>4, <1>8, <1>12
<1>15. N \in P
  <2> HIDE DEF P
  <2>1. 0..N \subseteq P
    BY <1>2, <1>13, <1>14, Induction
  <2> QED BY <1>5, <2>1
<1>16. Len(as) = k /\ DOMAIN as = 1..k
  <2>1. as = First(as, k) /\ Len(First(as, k)) = k
    BY <1>3, OneMore DEF First
  <2>2. DOMAIN as = 1..k
    BY <1>3
  <2> QED BY <2>1, <2>2
<1> QED BY <1>2, <1>3, <1>7, <1>11, <1>15, <1>16

\* as, and x behind
Grown(new, as, x) ==
  /\ Len(new) = Len(as) + 1 /\ new[Len(as) + 1] = x
  /\ \A i \in 1..Len(as) : new[i] = as[i]

AttributeAt(type, at, value) == [type |-> type, at |-> at, value |-> value]

\* What lies before is read alike in data of which more lies behind.
LEMMA LaidBefore ==
  ASSUME NEW data, NEW k, NEW at, NEW as, Laid(data, k, at, as), NEW more, IsSeq(more), NEW i \in 1..k
  PROVE  ReadAs(data \o more, at, as, i) /\ at[i] <= Len(data)
<1>1. PICK len : len = At16(data, at[i - 1] + 2)
  OBVIOUS
<1>2. /\ len \in Nat /\ at[i] = at[i - 1] + 4 + len + Padding(len)
      /\ at[i] <= Len(data)
      /\ as[i] = [type |-> At16(data, at[i - 1]), at |-> at[i - 1],
                  value |-> Slice(data, at[i - 1] + 4, at[i - 1] + 4 + len)]
      /\ IsSeq(data) /\ k \in Nat /\ at \in [0..k -> Nat]
  BY <1>1 DEF Laid, ReadAs
<1>3. PICK a \in Nat, b \in Nat : a = at[i - 1] /\ b = at[i - 1] + 4 + len
  <2>1. i - 1 \in 0..k
    BY <1>2
  <2> QED BY <1>2, <2>1, SMTT(30)
<1>4. Len(data) \in Nat /\ Padding(len) \in 0..3 /\ at[i] \in Nat
  <2>1. i \in 0..k
    BY <1>2
  <2> QED BY <1>2, <2>1, LenIs, PaddingIs
<1>5. /\ a + 2 \in Nat /\ a + 2 <= Len(data) /\ (a + 2) + 2 <= Len(data)
      /\ a + 4 \in Nat /\ a + 4 <= b /\ b <= Len(data)
  <2>1. PICK n \in Nat, l \in Nat, p \in 0..3 : n = Len(data) /\ l = len /\ p = Padding(len)
    BY <1>2, <1>4
  <2>2. a + 4 + l = b /\ b + p <= n
    BY <1>2, <1>3, <1>4, <2>1
  <2> QED BY <2>1, <2>2
<1>6. At16(data \o more, a) = At16(data, a)
  BY <1>2, <1>3, <1>5, At16Before, Zenon
<1>7. At16(data \o more, a + 2) = At16(data, a + 2)
  BY <1>2, <1>3, <1>5, At16Before, Zenon
<1>8. Slice(data \o more, a + 4, b) = Slice(data, a + 4, b)
  <2>1. IsSeq(data) /\ IsSeq(more) /\ a + 4 \in Nat /\ b \in Nat /\ a + 4 <= b /\ b <= Len(data)
    BY <1>2, <1>5
  <2> QED BY <2>1, SliceBefore, Zenon
<1> QED BY <1>1, <1>2, <1>3, <1>6, <1>7, <1>8 DEF ReadAs

\* An attribute is so many whole words.
LEMMA StunAttrLen ==
  ASSUME NEW type \in Nat, NEW value, IsSeq(value)
  PROVE  /\ IsSeq(StunAttr(type, value))
         /\ Len(StunAttr(type, value)) = 4 + Len(value) + Padding(Len(value))
         /\ Len(StunAttr(type, value)) % 4 = 0
<1>1. PICK head, pad :
        /\ IsSeq(head) /\ Len(head) = 4 /\ IsSeq(pad) /\ Len(pad) = Padding(Len(value))
        /\ StunAttr(type, value) = (head \o value) \o pad
        /\ At16(head, 0) = type /\ At16(head, 2) = Len(value)
  BY StunAttrIs
<1>2. IsSeq(head \o value) /\ Len(head \o value) = Len(head) + Len(value)
  BY <1>1, Joined, Zenon
<1>3. PICK v : v = head \o value
  OBVIOUS
<1>4. IsSeq(v \o pad) /\ Len(v \o pad) = Len(v) + Len(pad)
  BY <1>1, <1>2, <1>3, Joined, Zenon
<1>5. PICK len \in Nat : len = Len(value)
  BY LenIs
<1>6. PICK p \in 0..3 : p = Padding(len) /\ (len + p) % 4 = 0
  BY PaddingIs
<1>7. (4 + len + p) % 4 = 0
  BY <1>6
<1>8. Len(StunAttr(type, value)) = 4 + len + Padding(len)
  BY <1>1, <1>2, <1>3, <1>4, <1>5, <1>6
<1>9. IsSeq(StunAttr(type, value)) /\ Len(StunAttr(type, value)) = 4 + Len(value) + Padding(Len(value))
  BY <1>1, <1>3, <1>4, <1>5, <1>8
<1>10. Len(StunAttr(type, value)) % 4 = 0
  BY <1>6, <1>7, <1>8
<1> QED BY <1>9, <1>10

\* What an attribute behind data is read as.
LEMMA ReadBehind ==
  ASSUME NEW data, IsSeq(data), NEW type \in Nat, NEW value, IsSeq(value)
  PROVE  LET made == data \o StunAttr(type, value)
         IN  /\ IsSeq(made)
             /\ Len(made) = Len(data) + 4 + Len(value) + Padding(Len(value))
             /\ At16(made, Len(data)) = type /\ At16(made, Len(data) + 2) = Len(value)
             /\ Slice(made, Len(data) + 4, Len(data) + 4 + Len(value)) = value
<1>1. PICK head, pad :
        /\ IsSeq(head) /\ Len(head) = 4 /\ IsSeq(pad) /\ Len(pad) = Padding(Len(value))
        /\ StunAttr(type, value) = (head \o value) \o pad
        /\ At16(head, 0) = type /\ At16(head, 2) = Len(value)
  BY StunAttrIs
<1>2. PICK s : s = data \o head
  OBVIOUS
<1>3. IsSeq(s) /\ Len(s) = Len(data) + 4 /\ Len(data) \in Nat /\ Len(value) \in Nat
  <2>1. IsSeq(data \o head) /\ Len(data \o head) = Len(data) + Len(head)
    BY <1>1, Joined, Zenon
  <2>2. Len(data) \in Nat /\ Len(value) \in Nat
    BY LenIs
  <2> QED BY <1>1, <1>2, <2>1, <2>2
<1>4. PICK rest : rest = value \o pad
  OBVIOUS
<1>5. IsSeq(rest) /\ Len(rest) = Len(value) + Padding(Len(value))
  <2>1. IsSeq(value \o pad) /\ Len(value \o pad) = Len(value) + Len(pad)
    BY <1>1, Joined, Zenon
  <2> QED BY <1>1, <1>4, <2>1
<1>6. PICK w : w = s \o rest
  OBVIOUS
<1>7. IsSeq(w) /\ Len(w) = Len(data) + 4 + Len(value) + Padding(Len(value))
  <2>1. Padding(Len(value)) \in 0..3
    BY <1>3, PaddingIs
  <2>2. IsSeq(w) /\ Len(w) = Len(s) + Len(rest)
    BY <1>3, <1>5, <1>6, Joined
  <2> QED BY <1>3, <1>5, <2>1, <2>2
<1>8. data \o StunAttr(type, value) = w
  <2>1. (head \o value) \o pad = head \o rest
    <3>1. IsSeq(head) /\ IsSeq(value) /\ IsSeq(pad)
      BY <1>1
    <3>2. (head \o value) \o pad = head \o (value \o pad)
      BY <3>1, JoinedAgain, SMTT(30)
    <3> QED BY <1>4, <3>2
  <2>2. (data \o head) \o rest = data \o (head \o rest)
    <3>1. IsSeq(data) /\ IsSeq(head) /\ IsSeq(rest)
      BY <1>1, <1>5
    <3> QED BY <3>1, JoinedAgain, SMTT(30)
  <2> QED BY <1>1, <1>2, <1>6, <2>1, <2>2
<1>9. At16(w, Len(data)) = type
  <2>1. 0 \in Nat /\ 0 + 2 <= Len(head) /\ Len(data) + 0 = Len(data)
    BY <1>1, <1>3
  <2>2. At16(data \o head, Len(data) + 0) = At16(head, 0)
    BY <1>1, <2>1, At16Behind, Zenon
  <2>3. Len(data) + 2 <= Len(s)
    BY <1>3
  <2>4. At16(s \o rest, Len(data)) = At16(s, Len(data))
    BY <1>3, <1>5, <2>3, At16Before, Zenon
  <2> QED BY <1>1, <1>2, <1>6, <2>1, <2>2, <2>4
<1>10. At16(w, Len(data) + 2) = Len(value)
  <2>1. 2 \in Nat /\ 2 + 2 <= Len(head)
    BY <1>1
  <2>2. At16(data \o head, Len(data) + 2) = At16(head, 2)
    BY <1>1, <2>1, At16Behind, Zenon
  <2>3. Len(data) + 2 \in Nat /\ (Len(data) + 2) + 2 <= Len(s)
    BY <1>3
  <2>4. At16(s \o rest, Len(data) + 2) = At16(s, Len(data) + 2)
    BY <1>3, <1>5, <2>3, At16Before, Zenon
  <2> QED BY <1>1, <1>2, <1>6, <2>2, <2>4
<1>11. Slice(w, Len(data) + 4, Len(data) + 4 + Len(value)) = value
  <2>1. Slice((s \o value) \o pad, Len(s), Len(s) + Len(value)) = value
    BY <1>1, <1>3, SliceMiddle
  <2>2. (s \o value) \o pad = w
    <3>1. IsSeq(s) /\ IsSeq(value) /\ IsSeq(pad)
      BY <1>1, <1>3
    <3>2. (s \o value) \o pad = s \o (value \o pad)
      BY <3>1, JoinedAgain, SMTT(30)
    <3> QED BY <1>4, <1>6, <3>2
  <2> QED BY <1>3, <2>1, <2>2
<1> QED BY <1>7, <1>8, <1>9, <1>10, <1>11

\* An attribute more is read behind those before.
LEMMA Extend ==
  ASSUME NEW data, NEW as, Reads(data, as), NEW type \in Nat, NEW value, IsSeq(value)
  PROVE  \E new : /\ Reads(data \o StunAttr(type, value), new)
                  /\ Grown(new, as, AttributeAt(type, Len(data), value))
<1>1. PICK k, at : Laid(data, k, at, as)
  BY DEF Reads
<1>2. PICK N \in Nat : N = Len(data)
  BY <1>1, LenIs DEF Laid
<1>3. /\ k \in Nat /\ k <= N /\ at \in [0..k -> Nat] /\ at[0] = 20 /\ at[k] = N
      /\ as = First(as, k) /\ IsSeq(data)
  BY <1>1, <1>2 DEF Laid, First
<1>4. PICK len \in Nat : len = Len(value)
  BY LenIs
<1>5. PICK pad \in 0..3 : pad = Padding(len)
  BY PaddingIs
<1>6. PICK made : made = data \o StunAttr(type, value)
  OBVIOUS
<1>7. PICK end \in Nat : end = N + 4 + len + pad
  OBVIOUS
<1>8. /\ IsSeq(made) /\ Len(made) = end
      /\ At16(made, N) = type /\ At16(made, N + 2) = len
      /\ Slice(made, N + 4, N + 4 + len) = value
  <2>1. /\ IsSeq(made)
        /\ Len(made) = Len(data) + 4 + Len(value) + Padding(Len(value))
        /\ At16(made, Len(data)) = type /\ At16(made, Len(data) + 2) = Len(value)
        /\ Slice(made, Len(data) + 4, Len(data) + 4 + Len(value)) = value
    BY <1>3, <1>6, ReadBehind
  <2> QED BY <1>2, <1>4, <1>5, <1>7, <2>1
<1>9. PICK x : x = AttributeAt(type, N, value)
  OBVIOUS
<1> DEFINE more == [i \in 0..(k + 1) |-> IF i = k + 1 THEN end ELSE at[i]]
           new == [i \in 1..(k + 1) |-> IF i = k + 1 THEN x ELSE as[i]]
<1>10. /\ \A i \in 0..k : more[i] = at[i]
       /\ \A i \in 1..k : new[i] = as[i] /\ more[i] = at[i] /\ more[i - 1] = at[i - 1]
       /\ more[k + 1] = end /\ new[k + 1] = x /\ more[(k + 1) - 1] = N
  <2>1. \A i \in 0..k : i \in 0..(k + 1) /\ i # k + 1
    BY <1>3
  <2>2. \A i \in 1..k : i \in 1..(k + 1) /\ i # k + 1 /\ i \in 0..k /\ i - 1 \in 0..k
    BY <1>3
  <2>3. k + 1 \in 0..(k + 1) /\ k + 1 \in 1..(k + 1) /\ (k + 1) - 1 = k /\ k \in 0..k
    BY <1>3
  <2>4. \A i \in 0..k : more[i] = at[i]
    BY <2>1
  <2>5. more[k + 1] = end /\ new[k + 1] = x
    BY <2>3
  <2>6. \A i \in 1..k : new[i] = as[i]
    BY <2>2
  <2> HIDE DEF more, new
  <2> QED BY <1>3, <2>2, <2>3, <2>4, <2>5, <2>6
<1>11. more \in [0..(k + 1) -> Nat]
  <2>1. \A i \in 0..(k + 1) : i # k + 1 => i \in 0..k
    BY <1>3
  <2> QED BY <1>3, <2>1
<1>12. new = [i \in 1..(k + 1) |-> new[i]]
  OBVIOUS
<1>13. new = First(new, k + 1)
  BY <1>12 DEF First
<1> HIDE DEF more, new
<1>14. \A i \in 1..k : ReadAs(made, more, new, i) /\ more[i] <= Len(made)
  <2> TAKE i \in 1..k
  <2>1. PICK tail : tail = StunAttr(type, value)
    OBVIOUS
  <2>2. IsSeq(tail)
    BY <2>1, StunAttrLen
  <2>3. ReadAs(made, at, as, i) /\ at[i] <= Len(data)
    BY <1>1, <1>6, <2>1, <2>2, LaidBefore
  <2>4. at[i] \in Nat /\ at[i] <= Len(made)
    <3>1. i \in 0..k
      BY <1>3
    <3>2. at[i] \in Nat
      BY <1>3, <3>1
    <3> QED BY <1>2, <1>7, <1>8, <2>3, <3>2
  <2>5. new[i] = as[i] /\ more[i] = at[i] /\ more[i - 1] = at[i - 1]
    BY <1>10
  <2> QED BY <2>3, <2>4, <2>5 DEF ReadAs
<1>15. ReadAs(made, more, new, k + 1) /\ more[k + 1] <= Len(made)
  <2>1. At16(made, more[(k + 1) - 1] + 2) = len
    BY <1>8, <1>10
  <2>2. end <= Len(made)
    BY <1>7, <1>8
  <2>3. x = [type |-> At16(made, N), at |-> N, value |-> Slice(made, N + 4, N + 4 + len)]
    BY <1>8, <1>9 DEF AttributeAt
  <2> QED BY <1>5, <1>7, <1>10, <2>1, <2>2, <2>3 DEF ReadAs
<1>16. Laid(made, k + 1, more, new)
  <2>1. k + 1 \in Nat /\ k + 1 <= Len(made)
    BY <1>3, <1>7, <1>8
  <2>2. 0 \in 0..k
    BY <1>3
  <2>3. more[0] = 20 /\ more[k + 1] = Len(made)
    BY <1>3, <1>8, <1>10, <2>2
  <2>4. \A i \in 1..(k + 1) : i \in 1..k \/ i = k + 1
    BY <1>3
  <2>5. \A i \in 1..(k + 1) : ReadAs(made, more, new, i) /\ more[i] <= Len(made)
    BY <1>14, <1>15, <2>4, Zenon
  <2> QED BY <1>8, <1>11, <1>12, <2>1, <2>3, <2>5 DEF Laid
<1>17. Len(as) = k /\ Len(new) = k + 1
  <2>1. k + 1 \in Nat
    BY <1>3
  <2>2. Len(First(as, k)) = k /\ Len(First(new, k + 1)) = k + 1
    BY <1>3, <2>1, OneMore
  <2> QED BY <1>3, <1>13, <2>2
<1>18. Grown(new, as, x)
  BY <1>10, <1>17 DEF Grown
<1> QED BY <1>2, <1>6, <1>9, <1>16, <1>18 DEF Reads

\* A body of whole words is read, behind any header, as the attributes as.
BodyReads(b, as) ==
  /\ IsSeq(b) /\ Len(b) % 4 = 0
  /\ \A header : IsSeq(header) /\ Len(header) = 20 => Reads(header \o b, as)

LEMMA NothingIsRead == BodyReads(<<>>, <<>>)
<1>1. IsSeq(<<>>) /\ Len(<<>>) = 0 /\ 0 % 4 = 0
  BY EmptyIs, SeqOf DEF IsSeq
<1>2. ASSUME NEW header, IsSeq(header), Len(header) = 20 PROVE Reads(header \o <<>>, <<>>)
  <2>1. header \o <<>> = header
    BY <1>2, EmptyIs
  <2> DEFINE at == [i \in 0..0 |-> 20]
  <2>2. at \in [0..0 -> Nat] /\ at[0] = 20
    OBVIOUS
  <2>3. <<>> = [i \in 1..0 |-> <<>>[i]]
    OBVIOUS
  <2>4. \A i \in 1..0 : FALSE
    OBVIOUS
  <2> HIDE DEF at
  <2>5. Laid(header, 0, at, <<>>)
    BY <1>2, <2>2, <2>3, <2>4 DEF Laid
  <2> QED BY <2>1, <2>5 DEF Reads
<1> QED BY <1>1, <1>2 DEF BodyReads

\* An attribute more in a body.
LEMMA BodyExtend ==
  ASSUME NEW b, NEW as, BodyReads(b, as), NEW type \in Nat, NEW value, IsSeq(value)
  PROVE  \E new : /\ BodyReads(b \o StunAttr(type, value), new)
                  /\ Grown(new, as, AttributeAt(type, 20 + Len(b), value))
<1>1. PICK tail : tail = StunAttr(type, value)
  OBVIOUS
<1>2. IsSeq(b) /\ Len(b) % 4 = 0 /\ IsSeq(tail) /\ Len(tail) % 4 = 0
  BY <1>1, StunAttrLen DEF BodyReads
<1>3. IsSeq(b \o tail) /\ Len(b \o tail) % 4 = 0
  <2>1. IsSeq(b \o tail) /\ Len(b \o tail) = Len(b) + Len(tail)
    BY <1>2, Joined, Zenon
  <2>2. PICK m \in Nat, n \in Nat : m = Len(b) /\ n = Len(tail)
    BY <1>2, LenIs
  <2>3. (m + n) % 4 = 0
    BY <1>2, <2>2
  <2> QED BY <2>1, <2>2, <2>3
<1> DEFINE x == AttributeAt(type, 20 + Len(b), value)
           new == [i \in 1..(Len(as) + 1) |-> IF i = Len(as) + 1 THEN x ELSE as[i]]
<1>4. ASSUME NEW header, IsSeq(header), Len(header) = 20
      PROVE  Reads(header \o (b \o tail), new)
  <2>1. PICK data : data = header \o b
    OBVIOUS
  <2>2. Reads(data, as) /\ Len(data) = 20 + Len(b)
    <3>1. Len(header \o b) = Len(header) + Len(b)
      BY <1>2, <1>4, Joined, Zenon
    <3> QED BY <1>4, <2>1, <3>1 DEF BodyReads
  <2>3. PICK longer : Reads(data \o tail, longer) /\ Grown(longer, as, AttributeAt(type, Len(data), value))
    BY <1>1, <2>2, Extend
  <2>4. longer = new
    <3>1. /\ Len(as) \in Nat /\ Len(longer) = Len(as) + 1
          /\ DOMAIN longer = 1..Len(longer) /\ longer = [i \in 1..Len(longer) |-> longer[i]]
      <4>1. Len(as) \in Nat /\ DOMAIN longer = 1..Len(longer)
        BY <2>2, <2>3, AllAreRead
      <4>2. \E k : longer = [i \in 1..k |-> longer[i]]
        BY <2>3 DEF Reads, Laid
      <4> QED BY <2>3, <4>1, <4>2 DEF Grown
    <3>2. \A i \in 1..(Len(as) + 1) : longer[i] = IF i = Len(as) + 1 THEN x ELSE as[i]
      <4>1. longer[Len(as) + 1] = x /\ \A i \in 1..Len(as) : longer[i] = as[i]
        BY <2>2, <2>3 DEF Grown
      <4>2. \A i \in 1..(Len(as) + 1) : i = Len(as) + 1 \/ i \in 1..Len(as)
        <5>1. \A n \in Nat : \A i \in 1..(n + 1) : i = n + 1 \/ i \in 1..n
          OBVIOUS
        <5> QED BY <3>1, <5>1
      <4> HIDE DEF x
      <4> QED BY <4>1, <4>2
    <3> HIDE DEF x
    <3> QED BY <3>1, <3>2
  <2>5. (header \o b) \o tail = header \o (b \o tail)
    <3>1. IsSeq(header) /\ IsSeq(b) /\ IsSeq(tail)
      BY <1>2, <1>4
    <3> QED BY <3>1, JoinedAgain, SMTT(30)
  <2> QED BY <2>1, <2>3, <2>4, <2>5
<1> HIDE DEF new
<1>5. BodyReads(b \o tail, new)
  BY <1>3, <1>4 DEF BodyReads
<1>6. Grown(new, as, x)
  <2>1. \E header : IsSeq(header) /\ Len(header) = 20
    <3>1. 20 \in Nat
      OBVIOUS
    <3> QED BY <3>1, ZerosAre
  <2>2. PICK header : IsSeq(header) /\ Len(header) = 20
    BY <2>1
  <2>3. Len(as) \in Nat
    <3>1. Reads(header \o b, as)
      BY <2>2 DEF BodyReads
    <3> QED BY <3>1, AllAreRead
  <2>4. PICK n \in Nat : n = Len(as)
    BY <2>3
  <2>5. new = Longer(as, n, x)
    BY <2>4 DEF new, Longer
  <2>6. n + 1 \in Nat /\ First(Longer(as, n, x), n + 1) = Longer(as, n, x)
    <3> HIDE DEF x
    <3> QED BY DEF First, Longer
  <2>7. Len(new) = n + 1
    BY <2>5, <2>6, OneMore
  <2>8. n + 1 \in 1..(n + 1) /\ \A i \in 1..n : i \in 1..(n + 1) /\ i # n + 1
    OBVIOUS
  <2> HIDE DEF x
  <2>9. new[n + 1] = x /\ \A i \in 1..n : new[i] = as[i]
    BY <2>5, <2>8 DEF Longer
  <2> QED BY <2>4, <2>7, <2>9 DEF Grown
<1> QED BY <1>1, <1>5, <1>6

\* What a digest or a checksum is of, it is so many bytes.
LEMMA DigestIs ==
  ASSUME NEW key, NEW data
  PROVE  /\ IsSeq(Hmac(key, data)) /\ Len(Hmac(key, data)) = 20
         /\ IsSeq(Crc(data)) /\ Len(Crc(data)) = 4
<1>1. ASSUME NEW n \in Nat, NEW f PROVE IsSeq([i \in 1..n |-> f[i]]) /\ Len([i \in 1..n |-> f[i]]) = n
  <2> DEFINE D == {f[i] : i \in 1..n}
             g == [i \in 1..n |-> f[i]]
  <2>1. \A i \in 1..n : f[i] \in D
    OBVIOUS
  <2> HIDE DEF D
  <2>2. g \in [1..n -> D]
    BY <2>1
  <2> HIDE DEF g
  <2>3. g \in Seq(D) /\ Len(g) = n
    BY <2>2, SeqOf
  <2> QED BY <2>3 DEF IsSeq, g
<1>2. 20 \in Nat /\ 4 \in Nat
  OBVIOUS
<1>3. IsSeq(Hmac(key, data)) /\ Len(Hmac(key, data)) = 20
  BY <1>1, <1>2 DEF Hmac
<1>4. IsSeq(Crc(data)) /\ Len(Crc(data)) = 4
  BY <1>1, <1>2 DEF Crc
<1> QED BY <1>3, <1>4

LEMMA CookieIs == Cookie \in Seq(Octet) /\ Len(Cookie) = 4 /\ IsSeq(Cookie) /\ Cookie[1] = 33
<1>1. Cookie = <<33, 18, 164, 66>>
  BY DEF Cookie
<1>2. 33 \in Octet /\ 18 \in Octet /\ 164 \in Octet /\ 66 \in Octet
  BY DEF Octet
<1>3. <<33, 18, 164, 66>> \in Seq(Octet)
  BY <1>2
<1>4. Len(<<33, 18, 164, 66>>) = 4 /\ <<33, 18, 164, 66>>[1] = 33
  OBVIOUS
<1> QED BY <1>1, <1>3, <1>4 DEF IsSeq

\* A header, and what of it lies before whatever follows.
LEMMA HeaderIs ==
  ASSUME NEW type \in Nat, NEW length \in Nat, NEW txid, IsSeq(txid), Len(txid) = 12
  PROVE  /\ IsSeq(Header(type, length, txid)) /\ Len(Header(type, length, txid)) = 20
         /\ At16(Header(type, length, txid), 0) = type
         /\ At16(Header(type, length, txid), 2) = length
         /\ Slice(Header(type, length, txid), 4, 8) = Cookie
         /\ Slice(Header(type, length, txid), 8, 20) = txid
<1>1. PICK t, l : t = U16(type) /\ l = U16(length)
  OBVIOUS
<1>2. /\ IsSeq(t) /\ Len(t) = 2 /\ At16(t, 0) = type
      /\ IsSeq(l) /\ Len(l) = 2 /\ At16(l, 0) = length
  BY <1>1, WordIs
<1>3. PICK s : s = t \o l
  OBVIOUS
<1>4. IsSeq(s) /\ Len(s) = 4 /\ At16(s, 0) = type /\ At16(s, 2) = length
  <2>0. 0 \in Nat /\ 0 + 2 <= Len(t) /\ 0 + 2 <= Len(l) /\ Len(t) + 0 = 2
    BY <1>2
  <2>1. IsSeq(t \o l) /\ Len(t \o l) = Len(t) + Len(l)
    BY <1>2, Joined, Zenon
  <2>2. At16(t \o l, 0) = At16(t, 0)
    BY <1>2, <2>0, At16Before, Zenon
  <2>3. At16(t \o l, Len(t) + 0) = At16(l, 0)
    BY <1>2, <2>0, At16Behind, Zenon
  <2> QED BY <1>2, <1>3, <2>0, <2>1, <2>2, <2>3
<1>5. PICK c : c = s \o Cookie
  OBVIOUS
<1>6. IsSeq(c) /\ Len(c) = 8 /\ At16(c, 0) = type /\ At16(c, 2) = length
  <2>1. IsSeq(s \o Cookie) /\ Len(s \o Cookie) = Len(s) + Len(Cookie)
    BY <1>4, CookieIs, Joined, ZenonT(60)
  <2>2. 0 \in Nat /\ 0 + 2 <= Len(s) /\ 2 \in Nat /\ 2 + 2 <= Len(s) /\ Len(s) + Len(Cookie) = 8
    BY <1>4, CookieIs
  <2>3. At16(s \o Cookie, 0) = At16(s, 0) /\ At16(s \o Cookie, 2) = At16(s, 2)
    BY <1>4, <2>2, CookieIs, At16Before, Zenon
  <2> QED BY <1>4, <1>5, <2>1, <2>2, <2>3
<1>7. Header(type, length, txid) = c \o txid
  BY <1>1, <1>3, <1>5 DEF Header
<1>8. IsSeq(c \o txid) /\ Len(c \o txid) = 20
  <2>1. IsSeq(c \o txid) /\ Len(c \o txid) = Len(c) + Len(txid)
    BY <1>6, Joined, Zenon
  <2> QED BY <1>6, <2>1
<1>9. At16(c \o txid, 0) = type /\ At16(c \o txid, 2) = length
  <2>1. 0 \in Nat /\ 0 + 2 <= Len(c) /\ 2 \in Nat /\ 2 + 2 <= Len(c)
    BY <1>6
  <2>2. At16(c \o txid, 0) = At16(c, 0) /\ At16(c \o txid, 2) = At16(c, 2)
    BY <1>6, <2>1, At16Before, Zenon
  <2> QED BY <1>6, <2>2
<1>10. Slice(c \o txid, 4, 8) = Cookie
  <2>1. Slice((s \o Cookie) \o txid, Len(s), Len(s) + Len(Cookie)) = Cookie
    BY <1>4, CookieIs, SliceMiddle
  <2>2. Len(s) = 4 /\ Len(s) + Len(Cookie) = 8
    BY <1>4, CookieIs
  <2> QED BY <1>5, <2>1, <2>2
<1>11. Slice(c \o txid, 8, 20) = txid
  <2>1. Slice((c \o txid) \o <<>>, Len(c), Len(c) + Len(txid)) = txid
    BY <1>6, EmptyIs, SliceMiddle
  <2>2. Len(c) = 8 /\ Len(c) + Len(txid) = 20
    BY <1>6
  <2>3. (c \o txid) \o <<>> = c \o txid
    BY <1>8, EmptyIs
  <2> QED BY <2>1, <2>2, <2>3
<1> QED BY <1>7, <1>8, <1>9, <1>10, <1>11

\* Whatever lies behind a header, it is read as it was written.
Begins(data, type, length, txid, b) ==
  /\ IsSeq(data) /\ Len(data) = 20 + Len(b) /\ At16(data, 0) = type /\ At16(data, 2) = length
  /\ Slice(data, 4, 8) = Cookie /\ Slice(data, 8, 20) = txid

LEMMA HeaderReads ==
  ASSUME NEW type \in Nat, NEW length \in Nat, NEW txid, IsSeq(txid), Len(txid) = 12,
         NEW b, IsSeq(b)
  PROVE  Begins(Header(type, length, txid) \o b, type, length, txid, b)
<1>1. PICK h : h = Header(type, length, txid)
  OBVIOUS
<1>2. /\ IsSeq(h) /\ Len(h) = 20 /\ At16(h, 0) = type /\ At16(h, 2) = length
      /\ Slice(h, 4, 8) = Cookie /\ Slice(h, 8, 20) = txid
  BY <1>1, HeaderIs
<1>3. IsSeq(h \o b) /\ Len(h \o b) = Len(h) + Len(b)
  BY <1>2, Joined, Zenon
<1>4. /\ 0 \in Nat /\ 0 + 2 <= Len(h) /\ 2 \in Nat /\ 2 + 2 <= Len(h)
      /\ 4 \in Nat /\ 8 \in Nat /\ 20 \in Nat /\ 4 <= 8 /\ 8 <= 20 /\ 8 <= Len(h) /\ 20 <= Len(h)
  BY <1>2
<1>5. At16(h \o b, 0) = At16(h, 0) /\ At16(h \o b, 2) = At16(h, 2)
  BY <1>2, <1>4, At16Before, Zenon
<1>10. \A from, to \in Nat : from <= to /\ to <= Len(h) => Slice(h \o b, from, to) = Slice(h, from, to)
  <2> TAKE from, to \in Nat
  <2>1. CASE from <= to /\ to <= Len(h)
    <3>1. IsSeq(h) /\ IsSeq(b) /\ from <= to /\ to <= Len(h)
      BY <1>2, <2>1
    <3> QED BY <3>1, SliceBefore, ZenonT(60)
  <2> QED BY <2>1
<1>6. Slice(h \o b, 4, 8) = Slice(h, 4, 8)
  BY <1>2, <1>10
<1>7. Slice(h \o b, 8, 20) = Slice(h, 8, 20)
  BY <1>2, <1>10
<1> QED BY <1>1, <1>2, <1>3, <1>5, <1>6, <1>7 DEF Begins

\* A message of the attributes as and its two digests, and where its reader finds
\* them.
SignedReads(data, type, txid, b, as, key, new) ==
  /\ ParseStun(data) = [pos |-> Len(data), ok |-> TRUE, attributes |-> new]
  /\ Len(as) \in Nat /\ Len(new) = Len(as) + 2 /\ DOMAIN new = 1..Len(new)
  /\ \A i \in 1..Len(as) : new[i] = as[i]
  /\ new[Len(as) + 1] =
       AttributeAt(MessageIntegrity, 20 + Len(b), Hmac(key, Header(type, Len(b) + 24, txid) \o b))
  /\ new[Len(as) + 2].type = Fingerprint
  /\ new[Len(as) + 2].value = Crc(Slice(data, 0, new[Len(as) + 2].at))
  /\ IsSeq(data) /\ Len(b) \in Nat /\ Len(data) = Len(b) + 52
  /\ At16(data, 0) = type /\ 20 + At16(data, 2) = Len(data)
  /\ Slice(data, 4, 8) = Cookie /\ Slice(data, 8, 20) = txid
  /\ Slice(data, 20, 20 + Len(b)) = b

\* parse_stun() reads a message made of any attributes as those attributes and
\* the two digests behind them.
THEOREM SignedIs ==
  ASSUME NEW type \in Nat, NEW txid, IsSeq(txid), Len(txid) = 12,
         NEW b, NEW as, BodyReads(b, as), NEW key
  PROVE  \E new : SignedReads(Signed(type, txid, b, key), type, txid, b, as, key, new)
<1>1. PICK n \in Nat : n = Len(b) /\ n % 4 = 0
  BY LenIs DEF BodyReads
<1>2. PICK digest : digest = Hmac(key, Header(type, Len(b) + 24, txid) \o b)
  OBVIOUS
<1>3. IsSeq(b) /\ IsSeq(digest) /\ Len(digest) = 20
  BY <1>2, DigestIs DEF BodyReads
<1>4. PICK mi : mi = StunAttr(MessageIntegrity, digest)
  OBVIOUS
<1>5. MessageIntegrity \in Nat /\ Fingerprint \in Nat
  BY DEF MessageIntegrity, Fingerprint
<1>6. IsSeq(mi) /\ Len(mi) = 24
  <2>1. IsSeq(mi) /\ Len(mi) = 4 + Len(digest) + Padding(Len(digest))
    BY <1>3, <1>4, <1>5, StunAttrLen
  <2>2. Padding(20) = 0
    BY DEF Padding
  <2> QED BY <1>3, <2>1, <2>2
<1>7. PICK body : body = b \o mi
  OBVIOUS
<1>8. PICK as1 : BodyReads(body, as1) /\ Grown(as1, as, AttributeAt(MessageIntegrity, 20 + Len(b), digest))
  BY <1>3, <1>4, <1>5, <1>7, BodyExtend
<1>9. IsSeq(body) /\ Len(body) = n + 24
  <2>1. IsSeq(b \o mi) /\ Len(b \o mi) = Len(b) + Len(mi)
    BY <1>3, <1>6, Joined, ZenonT(60)
  <2> QED BY <1>1, <1>6, <1>7, <2>1
<1>10. PICK h : h = Header(type, Len(body) + 8, txid)
  OBVIOUS
<1>11. n + 32 \in Nat /\ Len(body) + 8 = n + 32
  BY <1>9
<1>12. IsSeq(h) /\ Len(h) = 20
  BY <1>10, <1>11, HeaderIs
<1>13. PICK w : w = h \o body
  OBVIOUS
<1>14. IsSeq(w) /\ Len(w) = n + 44
  <2>1. IsSeq(h \o body) /\ Len(h \o body) = Len(h) + Len(body)
    BY <1>9, <1>12, Joined, ZenonT(60)
  <2> QED BY <1>9, <1>12, <1>13, <2>1
<1>15. PICK crc : crc = Crc(w)
  OBVIOUS
<1>16. IsSeq(crc) /\ Len(crc) = 4
  BY <1>15, DigestIs
<1>17. PICK fp : fp = StunAttr(Fingerprint, crc)
  OBVIOUS
<1>18. Unpadded(Fingerprint, crc) = fp
  <2>1. Len(crc) % 4 = 0
    BY <1>16
  <2> QED BY <1>5, <1>16, <1>17, <2>1, UnpaddedIs
<1>19. IsSeq(fp) /\ Len(fp) = 8
  <2>1. IsSeq(fp) /\ Len(fp) = 4 + Len(crc) + Padding(Len(crc))
    BY <1>5, <1>16, <1>17, StunAttrLen
  <2>2. Padding(4) = 0
    BY DEF Padding
  <2> QED BY <1>16, <2>1, <2>2
<1>20. PICK data : data = w \o fp
  OBVIOUS
<1>21. Signed(type, txid, b, key) = data
  BY <1>2, <1>4, <1>7, <1>10, <1>13, <1>15, <1>18, <1>20 DEF Signed
<1>22. PICK all : all = body \o fp
  OBVIOUS
<1>23. PICK new : BodyReads(all, new) /\ Grown(new, as1, AttributeAt(Fingerprint, 20 + Len(body), crc))
  BY <1>5, <1>8, <1>16, <1>17, <1>22, BodyExtend
<1>24. data = h \o all
  <2>1. (h \o body) \o fp = h \o (body \o fp)
    <3>1. IsSeq(h) /\ IsSeq(body) /\ IsSeq(fp)
      BY <1>9, <1>12, <1>19
    <3> QED BY <3>1, JoinedAgain, SMTT(30)
  <2> QED BY <1>13, <1>20, <1>22, <2>1
<1>25. Reads(data, new) /\ Len(all) = n + 32 /\ IsSeq(all)
  <2>1. IsSeq(body \o fp) /\ Len(body \o fp) = Len(body) + Len(fp)
    BY <1>9, <1>19, Joined, Zenon
  <2>2. Reads(h \o all, new)
    BY <1>12, <1>23 DEF BodyReads
  <2> QED BY <1>9, <1>19, <1>22, <1>24, <2>1, <2>2
<1>26. /\ IsSeq(data) /\ Len(data) = 20 + Len(all) /\ At16(data, 0) = type /\ At16(data, 2) = n + 32
       /\ Slice(data, 4, 8) = Cookie /\ Slice(data, 8, 20) = txid
  <2>1. data = Header(type, n + 32, txid) \o all
    BY <1>10, <1>11, <1>24
  <2>2. PICK len \in Nat : len = n + 32
    BY <1>11
  <2>3. IsSeq(all) /\ data = Header(type, len, txid) \o all
    BY <1>25, <2>1, <2>2
  <2>4. Begins(Header(type, len, txid) \o all, type, len, txid, all)
    BY <2>3, HeaderReads
  <2> QED BY <2>2, <2>3, <2>4 DEF Begins
<1>27. Len(data) = n + 52
  BY <1>25, <1>26
<1>28. /\ ReadAttributes(data) = [pos |-> Len(data), ok |-> TRUE, attributes |-> new]
       /\ Len(new) \in Nat /\ DOMAIN new = 1..Len(new)
  BY <1>25, AllAreRead
<1>29. ParseStun(data) = [pos |-> Len(data), ok |-> TRUE, attributes |-> new]
  <2>1. ~(n + 52 < 20) /\ 20 + (n + 32) = n + 52 /\ (n + 32) % 4 = 0
    BY <1>1
  <2> QED BY <1>26, <1>27, <1>28, <2>1 DEF ParseStun
<1>30. /\ Len(as) \in Nat /\ Len(as1) = Len(as) + 1 /\ Len(new) = Len(as) + 2
       /\ as1[Len(as) + 1] = AttributeAt(MessageIntegrity, 20 + Len(b), digest)
       /\ new[Len(as) + 2] = AttributeAt(Fingerprint, 20 + Len(body), crc)
       /\ \A i \in 1..Len(as) : as1[i] = as[i]
       /\ \A i \in 1..(Len(as) + 1) : new[i] = as1[i]
  <2>1. Len(as) \in Nat
    <3>1. Reads(h \o b, as)
      BY <1>12 DEF BodyReads
    <3> QED BY <3>1, AllAreRead
  <2>2. PICK m \in Nat : m = Len(as)
    BY <2>1
  <2>3. /\ Len(as1) = m + 1 /\ as1[m + 1] = AttributeAt(MessageIntegrity, 20 + Len(b), digest)
        /\ \A i \in 1..m : as1[i] = as[i]
    BY <1>8, <2>2 DEF Grown
  <2>4. /\ Len(new) = (m + 1) + 1 /\ new[(m + 1) + 1] = AttributeAt(Fingerprint, 20 + Len(body), crc)
        /\ \A i \in 1..(m + 1) : new[i] = as1[i]
    BY <1>23, <2>3 DEF Grown
  <2>5. (m + 1) + 1 = m + 2
    OBVIOUS
  <2> QED BY <2>2, <2>3, <2>4, <2>5
<1>31. /\ \A i \in 1..Len(as) : new[i] = as[i]
       /\ new[Len(as) + 1] = AttributeAt(MessageIntegrity, 20 + Len(b), digest)
  <2>1. \A m \in Nat : m + 1 \in 1..(m + 1) /\ \A i \in 1..m : i \in 1..(m + 1)
    OBVIOUS
  <2> QED BY <1>30, <2>1
<1>32. Slice(data, 0, 20 + Len(body)) = w
  <2>1. Slice((<<>> \o w) \o fp, Len(<<>>), Len(<<>>) + Len(w)) = w
    BY <1>14, <1>19, EmptyIs, SliceMiddle
  <2>2. <<>> \o w = w /\ Len(<<>>) = 0 /\ 0 + Len(w) = 20 + Len(body)
    BY <1>9, <1>14, EmptyIs
  <2> QED BY <1>20, <2>1, <2>2
<1>33. Slice(data, 20, 20 + Len(b)) = b
  <2>1. PICK rest : rest = mi \o fp
    OBVIOUS
  <2>2. IsSeq(rest)
    BY <1>6, <1>19, <2>1, Joined, Zenon
  <2>3. (b \o mi) \o fp = b \o (mi \o fp)
    <3>1. IsSeq(b) /\ IsSeq(mi) /\ IsSeq(fp)
      BY <1>3, <1>6, <1>19
    <3> QED BY <3>1, JoinedAgain, SMTT(30)
  <2>4. (h \o b) \o rest = h \o (b \o rest)
    <3>1. IsSeq(h) /\ IsSeq(b) /\ IsSeq(rest)
      BY <1>3, <1>12, <2>2
    <3> QED BY <3>1, JoinedAgain, SMTT(30)
  <2>5. data = (h \o b) \o rest
    BY <1>7, <1>22, <1>24, <2>1, <2>3, <2>4
  <2>6. Slice((h \o b) \o rest, Len(h), Len(h) + Len(b)) = b
    BY <1>3, <1>12, <2>2, SliceMiddle
  <2> QED BY <1>12, <2>5, <2>6
<1>34. /\ new[Len(as) + 2].type = Fingerprint
       /\ new[Len(as) + 2].value = Crc(Slice(data, 0, new[Len(as) + 2].at))
  BY <1>15, <1>30, <1>32 DEF AttributeAt
<1>35. SignedReads(data, type, txid, b, as, key, new)
  <2>1. Len(b) \in Nat /\ Len(data) = Len(b) + 52 /\ 20 + At16(data, 2) = Len(data)
    BY <1>1, <1>26, <1>27
  <2> QED BY <1>2, <1>26, <1>28, <1>29, <1>30, <1>31, <1>33, <1>34, <2>1 DEF SignedReads
<1> QED BY <1>21, <1>35

\* stun_get_attribute returns the first of a type.
LEMMA FirstOfType ==
  ASSUME NEW msg, NEW type, DOMAIN msg.attributes = 1..Len(msg.attributes), Len(msg.attributes) \in Nat,
         NEW i \in 1..Len(msg.attributes), msg.attributes[i].type = type,
         \A j \in 1..(i - 1) : msg.attributes[j].type # type
  PROVE  Attribute(msg, type) = msg.attributes[i] /\ Has(msg, type)
<1> DEFINE P(n) == /\ msg.attributes[n].type = type
                   /\ \A j \in 1..(n - 1) : msg.attributes[j].type # type
           c == CHOOSE n \in DOMAIN msg.attributes : P(n)
<1>1. i \in DOMAIN msg.attributes /\ P(i)
  OBVIOUS
<1>2. c \in DOMAIN msg.attributes /\ P(c)
  <2> HIDE DEF P
  <2> QED BY <1>1
<1>3. Attribute(msg, type) = msg.attributes[c]
  BY DEF Attribute
<1> HIDE DEF c
<1>4. c \in Nat /\ i \in Nat /\ c >= 1 /\ i >= 1
  BY <1>2
<1>5. ~(c < i)
  <2> SUFFICES ASSUME c < i PROVE FALSE
    OBVIOUS
  <2>1. c \in 1..(i - 1)
    BY <1>4
  <2> QED BY <1>2, <2>1
<1>6. ~(i < c)
  <2> SUFFICES ASSUME i < c PROVE FALSE
    OBVIOUS
  <2>1. i \in 1..(c - 1)
    BY <1>4
  <2> QED BY <1>2, <2>1
<1>7. c = i
  BY <1>4, <1>5, <1>6
<1> QED BY <1>1, <1>3, <1>7 DEF Has

\* The attributes of a message with its digests, by their types.
HasAsIn(msg, as, t) ==
  /\ Has(msg, t) <=> \E i \in 1..Len(as) : as[i].type = t
  /\ \A i \in 1..Len(as) :
       as[i].type = t /\ (\A j \in 1..(i - 1) : as[j].type # t) => Attribute(msg, t) = as[i]

LEMMA SignedHas ==
  ASSUME NEW data, NEW type, NEW txid, NEW b, NEW as, NEW key, NEW new,
         SignedReads(data, type, txid, b, as, key, new),
         NEW t, t # MessageIntegrity, t # Fingerprint
  PROVE  HasAsIn(ParseStun(data), as, t)
<1>1. PICK n \in Nat : n = Len(as)
  BY DEF SignedReads
<1>2. PICK msg : msg = ParseStun(data)
  OBVIOUS
<1>3. /\ msg.attributes = new /\ Len(new) = n + 2 /\ DOMAIN new = 1..Len(new)
      /\ \A i \in 1..n : new[i] = as[i]
      /\ new[n + 1].type = MessageIntegrity /\ new[n + 2].type = Fingerprint
  <2>1. ParseStun(data) = [pos |-> Len(data), ok |-> TRUE, attributes |-> new]
    BY DEF SignedReads
  <2>2. msg.attributes = new
    BY <1>2, <2>1
  <2>3. /\ Len(new) = n + 2 /\ DOMAIN new = 1..Len(new)
        /\ \A i \in 1..n : new[i] = as[i]
    BY <1>1 DEF SignedReads
  <2>4. new[n + 1].type = MessageIntegrity /\ new[n + 2].type = Fingerprint
    <3>1. new[n + 1] = AttributeAt(MessageIntegrity, 20 + Len(b), Hmac(key, Header(type, Len(b) + 24, txid) \o b))
      BY <1>1 DEF SignedReads
    <3>2. new[n + 2].type = Fingerprint
      BY <1>1 DEF SignedReads
    <3> QED BY <3>1, <3>2 DEF AttributeAt
  <2> QED BY <2>2, <2>3, <2>4
<1>4. \A i \in 1..(n + 2) : i \in 1..n \/ i = n + 1 \/ i = n + 2
  OBVIOUS
<1>5. \A i \in 1..n : i \in 1..(n + 2) /\ \A j \in 1..(i - 1) : j \in 1..n
  OBVIOUS
<1>6. Has(msg, t) <=> \E i \in 1..n : as[i].type = t
  BY <1>3, <1>4, <1>5 DEF Has
<1>7. ASSUME NEW i \in 1..n, as[i].type = t, \A j \in 1..(i - 1) : as[j].type # t
      PROVE  Attribute(msg, t) = as[i]
  <2>1. i \in 1..Len(new) /\ new[i].type = t /\ \A j \in 1..(i - 1) : new[j].type # t
    BY <1>3, <1>5, <1>7
  <2>2. n + 2 \in Nat
    OBVIOUS
  <2>3. Attribute(msg, t) = msg.attributes[i]
    BY <1>3, <2>1, <2>2, FirstOfType
  <2> QED BY <1>3, <2>3
<1> QED BY <1>1, <1>2, <1>6, <1>7 DEF HasAsIn

\* Whoever parses it finds both digests where they were computed, if no other
\* attribute has the type of MESSAGE-INTEGRITY.
THEOREM SignedIsAuthentic ==
  ASSUME NEW data, NEW type, NEW txid, NEW b, NEW as, NEW key, NEW new,
         SignedReads(data, type, txid, b, as, key, new),
         \A i \in 1..Len(as) : as[i].type # MessageIntegrity
  PROVE  Authentic(data, key)
<1>1. PICK n \in Nat : n = Len(as)
  BY DEF SignedReads
<1>2. PICK msg : msg = ParseStun(data)
  OBVIOUS
<1>3. /\ msg.ok /\ msg.attributes = new /\ Len(new) = n + 2 /\ DOMAIN new = 1..Len(new)
      /\ \A i \in 1..n : new[i] = as[i]
      /\ new[n + 1] = AttributeAt(MessageIntegrity, 20 + Len(b),
                                  Hmac(key, Header(type, Len(b) + 24, txid) \o b))
      /\ new[n + 2].type = Fingerprint
      /\ new[n + 2].value = Crc(Slice(data, 0, new[n + 2].at))
      /\ Len(b) \in Nat
      /\ At16(data, 0) = type /\ Slice(data, 8, 20) = txid /\ Slice(data, 20, 20 + Len(b)) = b
  <2>1. ParseStun(data) = [pos |-> Len(data), ok |-> TRUE, attributes |-> new]
    BY DEF SignedReads
  <2>2. msg.attributes = new /\ msg.ok
    BY <1>2, <2>1
  <2>3. /\ Len(new) = n + 2 /\ DOMAIN new = 1..Len(new)
        /\ \A i \in 1..n : new[i] = as[i]
    BY <1>1 DEF SignedReads
  <2>4. /\ new[n + 1] = AttributeAt(MessageIntegrity, 20 + Len(b),
                                  Hmac(key, Header(type, Len(b) + 24, txid) \o b))
        /\ new[n + 2].type = Fingerprint
        /\ new[n + 2].value = Crc(Slice(data, 0, new[n + 2].at))
    BY <1>1 DEF SignedReads
  <2>5. /\ Len(b) \in Nat
        /\ At16(data, 0) = type /\ Slice(data, 8, 20) = txid /\ Slice(data, 20, 20 + Len(b)) = b
    BY DEF SignedReads
  <2> QED BY <2>2, <2>3, <2>4, <2>5
<1>4. n + 1 \in 1..(n + 2) /\ n + 2 \in Nat /\ (n + 1) - 1 = n
  OBVIOUS
<1>5. /\ new[n + 1].type = MessageIntegrity /\ new[n + 1].at = 20 + Len(b)
      /\ new[n + 1].value = Hmac(key, Header(type, Len(b) + 24, txid) \o b)
  BY <1>3 DEF AttributeAt
<1>6. \A j \in 1..((n + 1) - 1) : new[j].type # MessageIntegrity
  BY <1>1, <1>3, <1>4
<1>7. Attribute(msg, MessageIntegrity) = new[n + 1] /\ Has(msg, MessageIntegrity)
  <2>1. /\ DOMAIN msg.attributes = 1..Len(msg.attributes) /\ Len(msg.attributes) \in Nat
        /\ n + 1 \in 1..Len(msg.attributes) /\ msg.attributes[n + 1].type = MessageIntegrity
        /\ \A j \in 1..((n + 1) - 1) : msg.attributes[j].type # MessageIntegrity
    BY <1>3, <1>4, <1>5, <1>6
  <2>2. Attribute(msg, MessageIntegrity) = msg.attributes[n + 1] /\ Has(msg, MessageIntegrity)
    BY <2>1, FirstOfType
  <2> QED BY <1>3, <2>2
<1>8. (20 + Len(b)) + 4 = Len(b) + 24
  BY <1>3
<1>9. new[n + 1].value = Hmac(key, Header(At16(data, 0), new[n + 1].at + 4, Slice(data, 8, 20))
                                     \o Slice(data, 20, new[n + 1].at))
  BY <1>3, <1>5, <1>8
<1> QED BY <1>2, <1>3, <1>7, <1>9 DEF Authentic

\* No message cut short, at whatever byte, is taken for one: its length field
\* says more than there is.
THEOREM CutShort ==
  ASSUME NEW data, IsSeq(data), 20 + At16(data, 2) = Len(data), Slice(data, 4, 8) = Cookie,
         NEW len \in 0..(Len(data) - 1)
  PROVE  Event(Slice(data, 0, len)).type \in {"INVALID", "NON_STUN"}
<1>1. PICK n \in Nat : n = Len(data)
  BY LenIs
<1>2. len \in Nat /\ len < n
  BY <1>1
<1>3. PICK d : d = Slice(data, 0, len)
  OBVIOUS
<1>4. IsSeq(d) /\ Len(d) = len /\ \A i \in 1..len : d[i] = data[i]
  <2>1. 0 \in Nat /\ 0 <= len /\ len <= Len(data) /\ len - 0 = len /\ \A i \in 1..len : 0 + i = i
    BY <1>1, <1>2
  <2>2. /\ IsSeq(Slice(data, 0, len)) /\ Len(Slice(data, 0, len)) = len - 0
        /\ \A i \in 1..(len - 0) : Slice(data, 0, len)[i] = data[0 + i]
    BY <1>2, <2>1, SliceHas, ZenonT(60)
  <2> QED BY <1>3, <2>1, <2>2
<1>5. CASE len < 20
  <2>1. ~LooksLikeStun(d) /\ ~ParseKcpDatagram(d)
    BY <1>2, <1>4, <1>5 DEF LooksLikeStun, ParseKcpDatagram
  <2> QED BY <1>3, <2>1 DEF Event
<1>6. CASE len >= 20
  <2>1. 3 \in 1..len /\ 4 \in 1..len
    BY <1>2, <1>6
  <2>2. At16(d, 2) = At16(data, 2)
    BY <1>4, <2>1 DEF At16
  <2>3. Slice(d, 4, 8) = Slice(data, 4, 8)
    <3>1. PICK a \in Nat, b \in Nat : a = 4 /\ b = 8
      OBVIOUS
    <3>2. a <= b /\ b <= Len(d) /\ b <= Len(data) /\ \A i \in 1..(b - a) : a + i \in 1..len
      BY <1>1, <1>2, <1>4, <1>6, <3>1
    <3>3. /\ IsSeq(Slice(d, a, b)) /\ Len(Slice(d, a, b)) = b - a
          /\ \A i \in 1..(b - a) : Slice(d, a, b)[i] = d[a + i]
      BY <1>4, <3>2, SliceHas, ZenonT(60)
    <3>4. /\ IsSeq(Slice(data, a, b)) /\ Len(Slice(data, a, b)) = b - a
          /\ \A i \in 1..(b - a) : Slice(data, a, b)[i] = data[a + i]
      BY <3>2, SliceHas
    <3>5. \A i \in 1..(b - a) : Slice(d, a, b)[i] = Slice(data, a, b)[i]
      BY <1>4, <3>2, <3>3, <3>4
    <3>6. Slice(d, a, b) = Slice(data, a, b)
      BY <3>3, <3>4, <3>5, Same
    <3> QED BY <3>1, <3>6
  <2>4. LooksLikeStun(d)
    BY <1>4, <1>6, <2>3 DEF LooksLikeStun
  <2>5. 20 + At16(d, 2) # Len(d)
    BY <1>1, <1>2, <1>4, <2>2
  <2>6. ~ParseStun(d).ok
    BY <2>5 DEF ParseStun, Bad
  <2> QED BY <1>3, <2>4, <2>6 DEF Event
<1> QED BY <1>2, <1>5, <1>6

LEMMA OneAttribute ==
  ASSUME NEW type \in Nat, NEW value, IsSeq(value)
  PROVE  \E new : /\ BodyReads(StunAttr(type, value), new)
                  /\ Len(new) = 1 /\ new[1] = AttributeAt(type, 20, value)
<1>1. PICK new : /\ BodyReads(<<>> \o StunAttr(type, value), new)
                 /\ Grown(new, <<>>, AttributeAt(type, 20 + Len(<<>>), value))
  BY NothingIsRead, BodyExtend
<1>2. Len(<<>>) = 0 /\ 20 + 0 = 20 /\ 0 + 1 = 1
  OBVIOUS
<1>3. <<>> \o StunAttr(type, value) = StunAttr(type, value)
  BY StunAttrLen, EmptyIs
<1> QED BY <1>1, <1>2, <1>3 DEF Grown

LEMMA SecondIs ==
  ASSUME NEW as, NEW new, NEW x, Grown(new, as, x), Len(as) = 1
  PROVE  Len(new) = 2 /\ new[2] = x /\ new[1] = as[1]
<1>1. Len(as) + 1 = 2 /\ 1 \in 1..Len(as)
  OBVIOUS
<1> QED BY <1>1 DEF Grown

\* the one of as, and x
Alone(as) == Len(as) = 1
Both(bs, as, x) == Len(bs) = 2 /\ bs[1] = as[1] /\ bs[2] = x

LEMMA TwoAttributes ==
  ASSUME NEW b, NEW as, BodyReads(b, as), Alone(as), NEW type \in Nat, NEW value, IsSeq(value)
  PROVE  \E bs : /\ BodyReads(b \o StunAttr(type, value), bs)
                 /\ Both(bs, as, AttributeAt(type, 20 + Len(b), value))
<1>1. PICK x, made : x = AttributeAt(type, 20 + Len(b), value) /\ made = b \o StunAttr(type, value)
  OBVIOUS
<1>2. PICK bs : BodyReads(made, bs) /\ Grown(bs, as, x)
  <2>1. \E bs : /\ BodyReads(b \o StunAttr(type, value), bs)
                /\ Grown(bs, as, AttributeAt(type, 20 + Len(b), value))
    BY BodyExtend
  <2> QED BY <1>1, <2>1
<1>3. Both(bs, as, x)
  <2>1. Grown(bs, as, x) /\ Len(as) = 1
    BY <1>2 DEF Alone
  <2>2. Len(as) + 1 = 2 /\ 1 \in 1..Len(as)
    BY <2>1
  <2>3. Len(bs) = 2
    BY <2>1, <2>2 DEF Grown
  <2>4. bs[2] = x
    BY <2>1, <2>2 DEF Grown
  <2>5. bs[1] = as[1]
    BY <2>1, <2>2 DEF Grown
  <2> QED BY <2>3, <2>4, <2>5 DEF Both
<1> QED BY <1>1, <1>2, <1>3

LEMMA ThirdIs ==
  ASSUME NEW as, NEW new, NEW x, Grown(new, as, x), Len(as) = 2
  PROVE  Len(new) = 3 /\ new[3] = x /\ new[1] = as[1] /\ new[2] = as[2]
<1>1. Len(as) + 1 = 3 /\ 1 \in 1..Len(as) /\ 2 \in 1..Len(as)
  OBVIOUS
<1> QED BY <1>1 DEF Grown

LEMMA FourthIs ==
  ASSUME NEW as, NEW new, NEW x, Grown(new, as, x), Len(as) = 3
  PROVE  Len(new) = 4 /\ new[4] = x /\ new[1] = as[1] /\ new[2] = as[2] /\ new[3] = as[3]
<1>1. Len(as) + 1 = 4 /\ 1 \in 1..Len(as) /\ 2 \in 1..Len(as) /\ 3 \in 1..Len(as)
  OBVIOUS
<1> QED BY <1>1 DEF Grown

\* What the attributes of a message must be, for those who read it.
Names(as, type, value) ==
  \E n \in 1..Len(as) : /\ as[n].type = type /\ as[n].value = value
                        /\ \A j \in 1..(n - 1) : as[j].type # type

Suits(i, as) ==
  /\ \A n \in 1..Len(as) : as[n].type # MessageIntegrity
  /\ IF i.from = "error" THEN Names(as, ErrorCode, <<0, 0, 4, 87>> \o i.local)
     ELSE Names(as, Username, Name(i))
  /\ (\E n \in 1..Len(as) : as[n].type = UseCandidate) <=> i.from = "nominating"

LEMMA TypesDiffer ==
  /\ {Username, MessageIntegrity, ErrorCode, XorMappedAddress, Priority, UseCandidate,
      Software, Fingerprint, IceControlled} \subseteq Nat
  /\ Username = 6 /\ MessageIntegrity = 8 /\ ErrorCode = 9 /\ XorMappedAddress = 32 /\ Priority = 36
  /\ UseCandidate = 37 /\ Software = 32802 /\ Fingerprint = 32808 /\ IceControlled = 32809
  BY DEF Username, MessageIntegrity, ErrorCode, XorMappedAddress, Priority, UseCandidate,
         Software, Fingerprint, IceControlled

LEMMA NameIs ==
  ASSUME NEW i \in StunInputs
  PROVE  /\ IsSeq(Name(i)) /\ IsSeq(<<0, 0, 4, 87>> \o i.local)
         /\ IsSeq(i.txid) /\ Len(i.txid) = 12
<1>1. i.remote \in Seq(Octet) /\ i.local \in Seq(Octet) /\ i.txid \in Seq(Octet) /\ Len(i.txid) = 12
  BY InputAssumption
<1>2. IsSeq(i.remote) /\ IsSeq(i.local) /\ IsSeq(i.txid)
  BY <1>1, OctetsAre
<1>3. IsSeq(<<58>>) /\ IsSeq(<<0, 0, 4, 87>>)
  <2>1. <<58>> \in Seq(Nat) /\ <<0, 0, 4, 87>> \in Seq(Nat)
    OBVIOUS
  <2> QED BY <2>1 DEF IsSeq
<1>4. IsSeq(i.remote \o <<58>>)
  BY <1>2, <1>3, Joined, Zenon
<1>5. IsSeq((i.remote \o <<58>>) \o i.local)
  BY <1>2, <1>4, Joined
<1>6. IsSeq(<<0, 0, 4, 87>> \o i.local)
  BY <1>2, <1>3, Joined, Zenon
<1> QED BY <1>1, <1>2, <1>5, <1>6 DEF Name

\* The camera's messages.
LEMMA CameraSuits ==
  ASSUME NEW i \in StunInputs
  PROVE  /\ i.from = "error" =>
              \E as : BodyReads(StunAttr(ErrorCode, <<0, 0, 4, 87>> \o i.local), as) /\ Suits(i, as)
         /\ i.from = "camera" =>
              \E as : BodyReads(StunAttr(Username, Name(i)), as) /\ Suits(i, as)
         /\ i.from = "nominating" =>
              \E as : /\ BodyReads(StunAttr(Username, Name(i)) \o StunAttr(UseCandidate, <<>>), as)
                      /\ Suits(i, as)
<1>1. CASE i.from = "error"
  <2>1. PICK v : v = <<0, 0, 4, 87>> \o i.local
    OBVIOUS
  <2>2. PICK as : BodyReads(StunAttr(ErrorCode, v), as) /\ Len(as) = 1 /\ as[1] = AttributeAt(ErrorCode, 20, v)
    BY <2>1, NameIs, TypesDiffer, OneAttribute
  <2>3. as[1].type = ErrorCode /\ as[1].value = v
    BY <2>2 DEF AttributeAt
  <2>4. 1 \in 1..1 /\ (\A n \in 1..1 : n = 1) /\ \A j \in 1..(1 - 1) : FALSE
    OBVIOUS
  <2>5. Suits(i, as)
    <3>1. ErrorCode # MessageIntegrity /\ ErrorCode # UseCandidate
      BY TypesDiffer
    <3>2. \A n \in 1..Len(as) : as[n].type # MessageIntegrity /\ as[n].type # UseCandidate
      BY <2>2, <2>3, <2>4, <3>1
    <3>3. Names(as, ErrorCode, v)
      BY <2>2, <2>3, <2>4 DEF Names
    <3> QED BY <1>1, <2>1, <3>2, <3>3 DEF Suits
  <2> QED BY <1>1, <2>1, <2>2, <2>5
<1>2. ASSUME i.from \in {"camera", "nominating"}
      PROVE  /\ i.from = "camera" =>
                  \E as : BodyReads(StunAttr(Username, Name(i)), as) /\ Suits(i, as)
             /\ i.from = "nominating" =>
                  \E as : /\ BodyReads(StunAttr(Username, Name(i)) \o StunAttr(UseCandidate, <<>>), as)
                          /\ Suits(i, as)
  <2>1. PICK v : v = Name(i)
    OBVIOUS
  <2>2. PICK as : BodyReads(StunAttr(Username, v), as) /\ Len(as) = 1 /\ as[1] = AttributeAt(Username, 20, v)
    BY <2>1, NameIs, TypesDiffer, OneAttribute
  <2>3. as[1].type = Username /\ as[1].value = v
    BY <2>2 DEF AttributeAt
  <2>4. 1 \in 1..1 /\ (\A n \in 1..1 : n = 1) /\ \A j \in 1..(1 - 1) : FALSE
    OBVIOUS
  <2>5. CASE i.from = "camera"
    <3>1. Suits(i, as)
      <4>1. Username # MessageIntegrity /\ Username # UseCandidate
        BY TypesDiffer
      <4>2. \A n \in 1..Len(as) : as[n].type # MessageIntegrity /\ as[n].type # UseCandidate
        BY <2>2, <2>3, <2>4, <4>1
      <4>3. Names(as, Username, v)
        BY <2>2, <2>3, <2>4 DEF Names
      <4> QED BY <2>1, <2>5, <4>2, <4>3 DEF Suits
    <3> QED BY <2>1, <2>2, <2>5, <3>1
  <2>6. CASE i.from = "nominating"
    <3>1. PICK b : b = StunAttr(Username, v)
      OBVIOUS
    <3>2. PICK none, made : none = <<>> /\ made = b \o StunAttr(UseCandidate, none)
      OBVIOUS
    <3>6. PICK bs : BodyReads(made, bs) /\ Both(bs, as, AttributeAt(UseCandidate, 20 + Len(b), none))
      <4>1. IsSeq(none) /\ UseCandidate \in Nat
        BY <3>2, NothingIsRead, TypesDiffer DEF BodyReads
      <4>2. BodyReads(b, as) /\ Alone(as)
        BY <2>2, <3>1 DEF Alone
      <4>3. \E bs : /\ BodyReads(b \o StunAttr(UseCandidate, none), bs)
                    /\ Both(bs, as, AttributeAt(UseCandidate, 20 + Len(b), none))
        BY <4>1, <4>2, TwoAttributes, Zenon
      <4> QED BY <3>2, <4>3
    <3>3. /\ Len(bs) = 2 /\ bs[1].type = Username /\ bs[1].value = v
          /\ bs[2].type = UseCandidate
      <4>1. Both(bs, as, AttributeAt(UseCandidate, 20 + Len(b), none))
        BY <3>6
      <4>2. PICK x : x = AttributeAt(UseCandidate, 20 + Len(b), none)
        OBVIOUS
      <4>3. x.type = UseCandidate
        BY <4>2 DEF AttributeAt
      <4>4. Both(bs, as, x)
        BY <4>1, <4>2
      <4> QED BY <2>3, <4>3, <4>4 DEF Both
    <3>4. 1 \in 1..2 /\ 2 \in 1..2 /\ \A n \in 1..2 : n = 1 \/ n = 2
      OBVIOUS
    <3>5. Suits(i, bs)
      <4>1. Username # MessageIntegrity /\ UseCandidate # MessageIntegrity
        BY TypesDiffer
      <4>2. \A n \in 1..Len(bs) : bs[n].type # MessageIntegrity
        BY <3>3, <3>4, <4>1
      <4>3. \E n \in 1..Len(bs) : bs[n].type = UseCandidate
        BY <3>3, <3>4
      <4>4. Names(bs, Username, v)
        BY <2>4, <3>3, <3>4 DEF Names
      <4> QED BY <2>1, <2>6, <4>2, <4>3, <4>4 DEF Suits
    <3>7. made = StunAttr(Username, Name(i)) \o StunAttr(UseCandidate, <<>>)
      BY <2>1, <3>1, <3>2
    <3>8. BodyReads(made, bs)
      BY <3>6
    <3> QED BY <2>6, <3>5, <3>7, <3>8
  <2> QED BY <1>2, <2>5, <2>6
<1> QED BY <1>1, <1>2

\* The client's.
LEMMA ClientSuits ==
  ASSUME NEW i \in StunInputs, i.from = "client"
  PROVE  \E as : /\ BodyReads(StunAttr(Priority, Zeros(4)) \o StunAttr(IceControlled, Zeros(8))
                                \o StunAttr(Software, Zeros(8)) \o StunAttr(Username, Name(i)), as)
                 /\ Suits(i, as)
<1>1. PICK v : v = Name(i)
  OBVIOUS
<1>2. IsSeq(v) /\ IsSeq(Zeros(4)) /\ IsSeq(Zeros(8))
  BY <1>1, NameIs, ZerosAre
<1>3. PICK a : a = StunAttr(Priority, Zeros(4))
  OBVIOUS
<1>4. PICK as : BodyReads(a, as) /\ Len(as) = 1 /\ as[1] = AttributeAt(Priority, 20, Zeros(4))
  BY <1>2, <1>3, TypesDiffer, OneAttribute
<1>5. PICK b : b = a \o StunAttr(IceControlled, Zeros(8))
  OBVIOUS
<1>6. PICK bs : BodyReads(b, bs) /\ Grown(bs, as, AttributeAt(IceControlled, 20 + Len(a), Zeros(8)))
  <2>1. IceControlled \in Nat /\ IsSeq(Zeros(8))
    BY <1>2, TypesDiffer
  <2>2. \E new : /\ BodyReads(a \o StunAttr(IceControlled, Zeros(8)), new)
                 /\ Grown(new, as, AttributeAt(IceControlled, 20 + Len(a), Zeros(8)))
    BY <1>4, <2>1, BodyExtend
  <2> QED BY <1>5, <2>2
<1>7. PICK c : c = b \o StunAttr(Software, Zeros(8))
  OBVIOUS
<1>8. PICK cs : BodyReads(c, cs) /\ Grown(cs, bs, AttributeAt(Software, 20 + Len(b), Zeros(8)))
  BY <1>2, <1>6, <1>7, TypesDiffer, BodyExtend
<1>9. PICK d : d = c \o StunAttr(Username, v)
  OBVIOUS
<1>10. PICK ds : BodyReads(d, ds) /\ Grown(ds, cs, AttributeAt(Username, 20 + Len(c), v))
  BY <1>2, <1>8, <1>9, TypesDiffer, BodyExtend
<1>11. PICK x, y, z : /\ x = AttributeAt(IceControlled, 20 + Len(a), Zeros(8))
                      /\ y = AttributeAt(Software, 20 + Len(b), Zeros(8))
                      /\ z = AttributeAt(Username, 20 + Len(c), v)
  OBVIOUS
<1>12. Len(bs) = 2 /\ bs[2] = x /\ bs[1] = as[1]
  <2>1. Grown(bs, as, x) /\ Len(as) = 1
    BY <1>4, <1>6, <1>11
  <2> QED BY <2>1, SecondIs
<1>13. Len(cs) = 3 /\ cs[3] = y /\ cs[1] = bs[1] /\ cs[2] = bs[2]
  <2>1. Grown(cs, bs, y) /\ Len(bs) = 2
    BY <1>8, <1>11, <1>12
  <2> QED BY <2>1, ThirdIs
<1>14. Len(ds) = 4 /\ ds[4] = z /\ ds[1] = cs[1] /\ ds[2] = cs[2] /\ ds[3] = cs[3]
  <2>1. Grown(ds, cs, z) /\ Len(cs) = 3
    BY <1>10, <1>11, <1>13
  <2> QED BY <2>1, FourthIs
<1>15. /\ Len(ds) = 4 /\ ds[1].type = Priority /\ ds[2].type = IceControlled /\ ds[3].type = Software
       /\ ds[4].type = Username /\ ds[4].value = v
  <2>2. Len(ds) = 4 /\ ds[4] = z /\ ds[3] = y /\ ds[2] = x /\ ds[1] = as[1]
    BY <1>12, <1>13, <1>14
  <2> QED BY <1>4, <1>11, <2>2 DEF AttributeAt
<1>16. 4 \in 1..4 /\ (\A n \in 1..4 : n = 1 \/ n = 2 \/ n = 3 \/ n = 4) /\ \A n \in 1..(4 - 1) : n = 1 \/ n = 2 \/ n = 3
  OBVIOUS
<1>17. \A n \in 1..Len(ds) : ds[n].type # MessageIntegrity /\ ds[n].type # UseCandidate
  <2>1. /\ \A t \in {Priority, IceControlled, Software, Username} :
              t # MessageIntegrity /\ t # UseCandidate
    BY TypesDiffer
  <2> QED BY <1>15, <1>16, <2>1
<1>18. Names(ds, Username, v)
  <2>1. Priority # Username /\ IceControlled # Username /\ Software # Username
    BY TypesDiffer
  <2>2. \A j \in 1..(4 - 1) : ds[j].type # Username
    BY <1>15, <1>16, <2>1
  <2> QED BY <1>15, <1>16, <2>2 DEF Names
<1>19. Suits(i, ds)
  BY <1>1, <1>17, <1>18 DEF Suits
<1> QED BY <1>1, <1>3, <1>5, <1>7, <1>9, <1>10, <1>19

\* What a message is read as.
MessageReads(i, b, as, new) ==
  /\ Suits(i, as)
  /\ SignedReads(Message(i), IF i.from = "error" THEN BindingError ELSE BindingRequest,
                 i.txid, b, as, i.key, new)

LEMMA MessageIs ==
  ASSUME NEW i \in StunInputs
  PROVE  \E b, as, new : MessageReads(i, b, as, new)
<1>1. IsSeq(i.txid) /\ Len(i.txid) = 12 /\ BindingError \in Nat /\ BindingRequest \in Nat
  BY NameIs DEF BindingError, BindingRequest
<1>2. i.from \in {"client", "camera", "nominating", "error"}
  BY InputAssumption
<1>3. CASE i.from = "client"
  <2>1. PICK b : b = StunAttr(Priority, Zeros(4)) \o StunAttr(IceControlled, Zeros(8))
                       \o StunAttr(Software, Zeros(8)) \o StunAttr(Username, Name(i))
    OBVIOUS
  <2>2. PICK as : BodyReads(b, as) /\ Suits(i, as)
    BY <1>3, <2>1, ClientSuits
  <2>3. Message(i) = Signed(BindingRequest, i.txid, b, i.key)
    BY <1>3, <2>1 DEF Message, MakeStunBindingRequest, Name
  <2>4. \E new : SignedReads(Signed(BindingRequest, i.txid, b, i.key), BindingRequest, i.txid, b, as, i.key, new)
    BY <1>1, <2>2, SignedIs
  <2> QED BY <1>3, <2>2, <2>3, <2>4 DEF MessageReads
<1>4. CASE i.from = "error"
  <2>1. PICK b : b = StunAttr(ErrorCode, <<0, 0, 4, 87>> \o i.local)
    OBVIOUS
  <2>2. PICK as : BodyReads(b, as) /\ Suits(i, as)
    BY <1>4, <2>1, CameraSuits
  <2>3. Message(i) = Signed(BindingError, i.txid, b, i.key)
    <3>1. 487 \div 100 = 4 /\ 487 % 100 = 87
      OBVIOUS
    <3>2. Message(i) = CameraError(i.txid, 487, i.local, i.key)
      BY <1>4 DEF Message
    <3> QED BY <2>1, <3>1, <3>2 DEF CameraError
  <2>4. \E new : SignedReads(Signed(BindingError, i.txid, b, i.key), BindingError, i.txid, b, as, i.key, new)
    BY <1>1, <2>2, SignedIs
  <2> QED BY <1>4, <2>2, <2>3, <2>4 DEF MessageReads
<1>5. CASE i.from = "nominating"
  <2>1. PICK b : b = StunAttr(Username, Name(i)) \o StunAttr(UseCandidate, <<>>)
    OBVIOUS
  <2>2. PICK as : BodyReads(b, as) /\ Suits(i, as)
    BY <1>5, <2>1, CameraSuits
  <2>3. Message(i) = Signed(BindingRequest, i.txid, b, i.key)
    BY <1>5, <2>1 DEF Message, CameraRequest
  <2>4. \E new : SignedReads(Signed(BindingRequest, i.txid, b, i.key), BindingRequest, i.txid, b, as, i.key, new)
    BY <1>1, <2>2, SignedIs
  <2> QED BY <1>5, <2>2, <2>3, <2>4 DEF MessageReads
<1>6. CASE i.from = "camera"
  <2>1. PICK b : b = StunAttr(Username, Name(i))
    OBVIOUS
  <2>2. PICK as : BodyReads(b, as) /\ Suits(i, as)
    BY <1>6, <2>1, CameraSuits
  <2>3. Message(i) = Signed(BindingRequest, i.txid, b, i.key)
    <3>1. b \o <<>> = b
      BY <2>1, NameIs, TypesDiffer, StunAttrLen, EmptyIs
    <3>2. Message(i) = CameraRequest(i.txid, Name(i), FALSE, i.key)
      BY <1>6 DEF Message
    <3> QED BY <2>1, <3>1, <3>2 DEF CameraRequest
  <2>4. \E new : SignedReads(Signed(BindingRequest, i.txid, b, i.key), BindingRequest, i.txid, b, as, i.key, new)
    BY <1>1, <2>2, SignedIs
  <2> QED BY <1>6, <2>2, <2>3, <2>4 DEF MessageReads
<1> QED BY <1>2, <1>3, <1>4, <1>5, <1>6

\* Joined, of named sequences.
Joins(w, s, t) ==
  /\ IsSeq(w) /\ Len(w) = Len(s) + Len(t)
  /\ \A i \in 1..Len(s) : w[i] = s[i]
  /\ \A i \in 1..Len(t) : w[Len(s) + i] = t[i]

LEMMA TheyJoin == ASSUME NEW s, NEW t, IsSeq(s), IsSeq(t) PROVE Joins(s \o t, s, t)
  BY Joined DEF Joins

\* A datagram of KCP: its fifth byte is none of the cookie's.
LEMMA KcpIs ==
  ASSUME NEW cmd \in 81..84, NEW payload \in Seq(Octet), Len(payload) <= 256
  PROVE  Event(KcpDatagram(cmd, payload)).type = "KCP"
<1>1. PICK n \in Nat : n = Len(payload) /\ n <= 256
  OBVIOUS
<1>2. PICK h, z, l, t : /\ h = <<2, 0, 0, 0, cmd>> /\ z = KcpFields
                        /\ l = <<n % 256, n \div 256, 0, 0>> /\ t = Zeros(20)
  OBVIOUS
<1>3. /\ IsSeq(h) /\ Len(h) = 5 /\ h[5] = cmd
      /\ IsSeq(l) /\ Len(l) = 4 /\ l[1] = n % 256 /\ l[2] = n \div 256 /\ l[3] = 0 /\ l[4] = 0
  <2>1. h \in Seq(Nat) /\ Len(h) = 5 /\ h[5] = cmd
    BY <1>2
  <2>2. n % 256 \in Nat /\ n \div 256 \in Nat
    BY <1>1
  <2>3. l \in Seq(Nat) /\ Len(l) = 4 /\ l[1] = n % 256 /\ l[2] = n \div 256 /\ l[3] = 0 /\ l[4] = 0
    BY <1>2, <2>2
  <2> QED BY <2>1, <2>3 DEF IsSeq
<1>4. IsSeq(z) /\ Len(z) = 15 /\ IsSeq(t) /\ Len(t) = 20
  <2>1. KcpFields \in Seq(Nat) /\ Len(KcpFields) = 15
    BY DEF KcpFields
  <2>2. IsSeq(t) /\ Len(t) = 20
    BY <1>2, ZerosAre
  <2> QED BY <1>2, <2>1, <2>2 DEF IsSeq
<1>5. IsSeq(payload)
  BY OctetsAre
<1>6. PICK a : a = h \o z
  OBVIOUS
<1>7. PICK b : b = a \o l
  OBVIOUS
<1>8. PICK c : c = b \o payload
  OBVIOUS
<1>9. PICK d : d = c \o t
  OBVIOUS
<1>10. IsSeq(a) /\ Len(a) = 20 /\ a[5] = cmd
  <2>1. Joins(a, h, z)
    <3>1. IsSeq(h) /\ IsSeq(z)
      BY <1>3, <1>4
    <3> QED BY <1>6, <3>1, TheyJoin, Zenon
  <2>2. 5 \in 1..Len(h)
    BY <1>3
  <2> QED BY <1>3, <1>4, <2>1, <2>2 DEF Joins
<1>11. /\ IsSeq(b) /\ Len(b) = 24 /\ b[5] = cmd
       /\ b[21] = n % 256 /\ b[22] = n \div 256 /\ b[23] = 0 /\ b[24] = 0
  <2>1. Joins(b, a, l)
    <3>1. IsSeq(a) /\ IsSeq(l)
      BY <1>3, <1>10
    <3> QED BY <1>7, <3>1, TheyJoin, Zenon
  <2>2. /\ 5 \in 1..Len(a) /\ 1 \in 1..Len(l) /\ 2 \in 1..Len(l) /\ 3 \in 1..Len(l) /\ 4 \in 1..Len(l)
        /\ Len(a) + 1 = 21 /\ Len(a) + 2 = 22 /\ Len(a) + 3 = 23 /\ Len(a) + 4 = 24
    BY <1>3, <1>10
  <2>3. b[21] = l[1] /\ b[22] = l[2] /\ b[23] = l[3] /\ b[24] = l[4]
    BY <2>1, <2>2, SMTT(30) DEF Joins
  <2>4. Len(b) = 24 /\ b[5] = cmd
    BY <1>3, <1>10, <2>1, <2>2 DEF Joins
  <2>5. IsSeq(b)
    BY <2>1 DEF Joins
  <2> QED BY <1>3, <2>3, <2>4, <2>5
<1>12. /\ IsSeq(c) /\ Len(c) = 24 + n
       /\ \A i \in 1..24 : c[i] = b[i]
  <2>1. Joins(c, b, payload)
    <3>1. IsSeq(b) /\ IsSeq(payload)
      BY <1>5, <1>11
    <3> QED BY <1>8, <3>1, TheyJoin, Zenon
  <2> QED BY <1>1, <1>11, <2>1 DEF Joins
<1>13. /\ IsSeq(d) /\ Len(d) = 44 + n
       /\ \A i \in 1..24 : d[i] = c[i]
  <2>1. Joins(d, c, t)
    <3>1. IsSeq(c) /\ IsSeq(t)
      BY <1>4, <1>12
    <3> QED BY <1>9, <3>1, TheyJoin, Zenon
  <2>2. \A i \in 1..24 : i \in 1..Len(c)
    <3>1. n \in Nat /\ Len(c) = 24 + n
      BY <1>12
    <3>2. \A i \in 1..24 : i \in 1..(24 + n)
      BY <3>1
    <3> QED BY <3>1, <3>2
  <2> QED BY <1>1, <1>4, <1>12, <2>1, <2>2 DEF Joins
<1>14. d[5] = cmd /\ d[21] = n % 256 /\ d[22] = n \div 256 /\ d[23] = 0 /\ d[24] = 0
  <2>1. 5 \in 1..24 /\ 21 \in 1..24 /\ 22 \in 1..24 /\ 23 \in 1..24 /\ 24 \in 1..24
    OBVIOUS
  <2> QED BY <1>11, <1>12, <1>13, <2>1
<1>15. d = KcpDatagram(cmd, payload)
  BY <1>1, <1>2, <1>6, <1>7, <1>8, <1>9 DEF KcpDatagram
<1>16. ~LooksLikeStun(d)
  <2>1. \A from, to \in Nat : from <= to /\ to <= Len(d) =>
           \A i \in 1..(to - from) : Slice(d, from, to)[i] = d[from + i]
    <3> TAKE from \in Nat, to \in Nat
    <3> HAVE from <= to /\ to <= Len(d)
    <3> QED BY <1>13, SliceHas
  <2>2. Slice(d, 4, 8)[1] = d[5]
    <3>1. 4 \in Nat /\ 8 \in Nat /\ 4 <= 8 /\ 8 <= Len(d) /\ 1 \in 1..(8 - 4) /\ 4 + 1 = 5
      BY <1>1, <1>13
    <3> QED BY <2>1, <3>1
  <2> QED BY <1>14, <2>2, CookieIs DEF LooksLikeStun
<1>17. ParseKcpDatagram(d)
  <2>1. 256 * (n \div 256) + (n % 256) = n
    OBVIOUS
  <2>2. 24 + (256 * d[22] + d[21]) + 20 = 44 + n
    BY <1>1, <1>14, <2>1
  <2> QED BY <1>1, <1>13, <1>14, <2>2 DEF ParseKcpDatagram
<1>18. Event(d) = [type |-> "KCP"]
  BY <1>16, <1>17 DEF Event
<1> QED BY <1>15, <1>18

\* Whose address is put together with the cookie reads it with the cookie.
LEMMA MappedTwice ==
  ASSUME NEW x \in Seq(Octet), Len(x) <= 4
  PROVE  /\ Mapped(Mapped(x)) = x
         /\ IsSeq(Mapped(x)) /\ Len(Mapped(x)) = Len(x)
<1>1. PICK n \in 0..4 : n = Len(x) /\ DOMAIN x = 1..n
  <2>1. DOMAIN x = 1..Len(x) /\ Len(x) \in Nat
    BY LenProperties
  <2>2. Len(x) \in 0..4
    BY <2>1
  <2> QED BY <2>1, <2>2
<1>2. \A i \in 1..n : x[i] \in Octet /\ Cookie[i] \in Octet
  <2>1. x \in [1..n -> Octet]
    BY <1>1, LenProperties
  <2>2. Cookie \in [1..4 -> Octet]
    BY CookieIs, LenProperties
  <2>3. \A i \in 1..n : i \in 1..4
    BY <1>1
  <2> QED BY <2>1, <2>2, <2>3
<1>3. PICK m : m = Mapped(x)
  OBVIOUS
<1>4. m = [i \in 1..n |-> ByteXor(x[i], Cookie[i])]
  BY <1>1, <1>3 DEF Mapped
<1>5. \A i \in 1..n : m[i] \in Octet /\ ByteXor(m[i], Cookie[i]) = x[i]
  <2> TAKE i \in 1..n
  <2>1. m[i] = ByteXor(x[i], Cookie[i])
    BY <1>4
  <2> QED BY <1>2, <2>1, XorAssumption
<1>6. m \in [1..n -> Octet] /\ DOMAIN m = 1..n
  BY <1>4, <1>5
<1>7. m \in Seq(Octet) /\ Len(m) = n
  BY <1>6, SeqOf
<1>8. Mapped(m) = [i \in 1..n |-> x[i]]
  BY <1>5, <1>6 DEF Mapped
<1>9. x = [i \in 1..n |-> x[i]]
  BY <1>1, LenProperties
<1> QED BY <1>1, <1>3, <1>7, <1>8, <1>9, OctetsAre

\* What an attribute is read as that the answer carries: two bytes, and the port
\* and the address with the cookie's.
Where(i) == <<0, 1>> \o Mapped(U16(i.port)) \o Mapped(i.ip)

LEMMA WhereIs ==
  ASSUME NEW i \in StunInputs
  PROVE  /\ IsSeq(Where(i)) /\ Len(Where(i)) = 8
         /\ At16(Mapped(Slice(Where(i), 2, 4)), 0) = i.port
         /\ Mapped(Slice(Where(i), 4, 8)) = i.ip
<1>1. i.ip \in Seq(Octet) /\ Len(i.ip) = 4 /\ i.port \in Ports
  BY InputAssumption
<1>2. PICK port \in Ports : port = i.port
  BY <1>1
<1>0. PICK ip : ip = i.ip /\ ip \in Seq(Octet) /\ Len(ip) = 4
  BY <1>1
<1>3. PICK p : p = U16(port)
  OBVIOUS
<1>4. p \in Seq(Octet) /\ Len(p) = 2
  <2>1. port \div 256 \in Octet /\ port % 256 \in Octet
    <3>1. port \in Nat /\ port <= 65535
      BY DEF Ports
    <3>2. port \div 256 \in Nat /\ port % 256 \in 0..255 /\ 256 * (port \div 256) + (port % 256) = port
      BY <3>1
    <3>3. PICK high \in Nat, low \in 0..255 : /\ high = port \div 256 /\ low = port % 256
                                             /\ 256 * high + low = port
      BY <3>2, ZenonT(60)
    <3>4. high <= 255
      BY <3>1, <3>3
    <3>5. high \in Octet /\ low \in Octet
      BY <3>4 DEF Octet
    <3> QED BY <3>3, <3>5
  <2> QED BY <1>3, <2>1 DEF U16
<1>5. PICK h, m, k : h = <<0, 1>> /\ m = Mapped(p) /\ k = Mapped(ip)
  OBVIOUS
<1>6. IsSeq(h) /\ Len(h) = 2
  <2>1. h \in Seq(Nat) /\ Len(h) = 2
    BY <1>5
  <2> QED BY <2>1 DEF IsSeq
<1>7. IsSeq(m) /\ Len(m) = 2 /\ Mapped(m) = p
  <2>1. Len(p) <= 4
    BY <1>4
  <2> QED BY <1>4, <1>5, <2>1, MappedTwice
<1>8. IsSeq(k) /\ Len(k) = 4 /\ Mapped(k) = ip
  <2>1. Len(ip) <= 4
    BY <1>0
  <2> QED BY <1>0, <1>5, <2>1, MappedTwice
<1>9. PICK a : a = h \o m
  OBVIOUS
<1>10. PICK w : w = a \o k
  OBVIOUS
<1>11. IsSeq(a) /\ Len(a) = 4
  <2>1. Joins(a, h, m)
    BY <1>6, <1>7, <1>9, TheyJoin
  <2> QED BY <1>6, <1>7, <2>1 DEF Joins
<1>12. IsSeq(w) /\ Len(w) = 8
  <2>1. Joins(w, a, k)
    BY <1>8, <1>10, <1>11, TheyJoin
  <2> QED BY <1>8, <1>11, <2>1 DEF Joins
<1>13. Slice(w, 2, 4) = m
  <2>1. Slice((h \o m) \o k, Len(h), Len(h) + Len(m)) = m
    BY <1>6, <1>7, <1>8, SliceMiddle
  <2>2. Slice(w, Len(h), Len(h) + Len(m)) = m
    BY <1>9, <1>10, <2>1
  <2>3. Len(h) = 2 /\ Len(h) + Len(m) = 4
    BY <1>6, <1>7
  <2> QED BY <2>2, <2>3
<1>14. Slice(w, 4, 8) = k
  <2>1. IsSeq(<<>>) /\ w \o <<>> = w
    BY <1>12, EmptyIs
  <2>2. Slice((a \o k) \o <<>>, Len(a), Len(a) + Len(k)) = k
    BY <1>8, <1>11, <2>1, SliceMiddle
  <2>3. Slice(w, Len(a), Len(a) + Len(k)) = k
    BY <1>10, <2>1, <2>2
  <2>4. Len(a) = 4 /\ Len(a) + Len(k) = 8
    BY <1>8, <1>11
  <2> QED BY <2>3, <2>4
<1>15. At16(p, 0) = port
  <2>1. port \in Nat
    BY DEF Ports
  <2> QED BY <1>3, <2>1, WordIs, SMTT(30)
<1>16. Where(i) = w
  BY <1>0, <1>2, <1>3, <1>5, <1>9, <1>10 DEF Where
<1> QED BY <1>0, <1>2, <1>7, <1>8, <1>12, <1>13, <1>14, <1>15, <1>16

\* What the answer to a request is read as.
AnswerReads(i, request, b, as, new) ==
  /\ SignedReads(StunSuccess(request, i.ip, i.port, i.key), BindingSuccess, i.txid, b, as, i.key, new)
  /\ Len(as) = 2 /\ as[1].type = XorMappedAddress /\ as[1].value = Where(i) /\ as[2].type = Software

LEMMA AnswerIs ==
  ASSUME NEW i \in StunInputs, NEW request, Len(request) >= 20, At16(request, 0) = BindingRequest,
         Slice(request, 4, 8) = Cookie, Slice(request, 8, 20) = i.txid
  PROVE  \E b, as, new : AnswerReads(i, request, b, as, new)
<1>1. PICK w, z : w = Where(i) /\ z = Zeros(8)
  OBVIOUS
<1>2. IsSeq(w) /\ Len(w) % 4 = 0
  <2>1. IsSeq(w) /\ Len(w) = 8
    BY <1>1, WhereIs
  <2> QED BY <2>1
<1>3. IsSeq(z) /\ Len(z) % 4 = 0
  <2>1. IsSeq(z) /\ Len(z) = 8
    BY <1>1, ZerosAre
  <2> QED BY <2>1
<1>4. PICK a : a = StunAttr(XorMappedAddress, w)
  OBVIOUS
<1>5. PICK as : BodyReads(a, as) /\ Len(as) = 1 /\ as[1] = AttributeAt(XorMappedAddress, 20, w)
  BY <1>2, <1>4, TypesDiffer, OneAttribute
<1>6. PICK b : b = a \o StunAttr(Software, z)
  OBVIOUS
<1>7. PICK bs : BodyReads(b, bs) /\ Both(bs, as, AttributeAt(Software, 20 + Len(a), z))
  <2>1. IsSeq(z) /\ Software \in Nat
    BY <1>3, TypesDiffer
  <2>2. BodyReads(a, as) /\ Alone(as)
    BY <1>5 DEF Alone
  <2>3. \E bs : /\ BodyReads(a \o StunAttr(Software, z), bs)
                /\ Both(bs, as, AttributeAt(Software, 20 + Len(a), z))
    BY <2>1, <2>2, TwoAttributes, Zenon
  <2> QED BY <1>6, <2>3
<1>8. PICK x : x = AttributeAt(Software, 20 + Len(a), z)
  OBVIOUS
<1>13. x.type = Software
  BY <1>8 DEF AttributeAt
<1>9. as[1].type = XorMappedAddress /\ as[1].value = w
  BY <1>5 DEF AttributeAt
<1>10. Len(bs) = 2 /\ bs[1] = as[1] /\ bs[2] = x
  BY <1>7, <1>8 DEF Both
<1>11. StunSuccess(request, i.ip, i.port, i.key) = Signed(BindingSuccess, i.txid, b, i.key)
  <2>1. Unpadded(XorMappedAddress, w) = a /\ Unpadded(Software, z) = StunAttr(Software, z)
    BY <1>2, <1>3, <1>4, TypesDiffer, UnpaddedIs
  <2>2. ~(Len(request) < 20)
    OBVIOUS
  <2>3. StunSuccess(request, i.ip, i.port, i.key)
          = Signed(BindingSuccess, Slice(request, 8, 20),
                   Unpadded(XorMappedAddress, w) \o Unpadded(Software, z), i.key)
    BY <1>1, <2>2 DEF StunSuccess, Where
  <2> QED BY <1>6, <2>1, <2>3
<1>12. \E new : SignedReads(Signed(BindingSuccess, i.txid, b, i.key), BindingSuccess, i.txid, b, bs, i.key, new)
  <2>1. IsSeq(i.txid) /\ Len(i.txid) = 12 /\ BindingSuccess \in Nat
    BY NameIs DEF BindingSuccess
  <2> QED BY <1>7, <2>1, SignedIs
<1> QED BY <1>1, <1>9, <1>10, <1>11, <1>12, <1>13 DEF AnswerReads

\* What whoever receives a message takes it for.
LEMMA TakenFor ==
  ASSUME NEW data, NEW type, NEW txid, NEW b, NEW as, NEW key, NEW new,
         SignedReads(data, type, txid, b, as, key, new)
  PROVE  /\ type = BindingRequest =>
              Event(data) = [type |-> "BINDING_REQUEST", use_candidate |-> Has(ParseStun(data), UseCandidate)]
         /\ type = BindingSuccess => Event(data) = [type |-> "BINDING_SUCCESS"]
         /\ type = BindingError =>
              Event(data) = [type |-> "STUN_ERROR", error_code |-> ParseStunErrorCode(ParseStun(data))]
<1>1. ParseStun(data).ok
  BY DEF SignedReads
<1>2. LooksLikeStun(data)
  <2>1. Len(data) = Len(b) + 52 /\ Len(b) \in Nat /\ Slice(data, 4, 8) = Cookie
    BY DEF SignedReads
  <2>2. Len(data) >= 20
    BY <2>1
  <2> QED BY <2>1, <2>2 DEF LooksLikeStun
<1>3. At16(data, 0) = type
  BY DEF SignedReads
<1>4. BindingRequest # BindingSuccess /\ BindingRequest # BindingError /\ BindingSuccess # BindingError
  BY DEF BindingRequest, BindingSuccess, BindingError
<1>5. CASE type = BindingRequest
  BY <1>1, <1>2, <1>3, <1>4, <1>5 DEF Event
<1>6. CASE type = BindingSuccess
  BY <1>1, <1>2, <1>3, <1>4, <1>6 DEF Event
<1>7. CASE type = BindingError
  BY <1>1, <1>2, <1>3, <1>4, <1>7 DEF Event
<1> QED BY <1>4, <1>5, <1>6, <1>7

\* The first attribute of a type in a message.
LEMMA NamedIs ==
  ASSUME NEW data, NEW type, NEW txid, NEW b, NEW as, NEW key, NEW new,
         SignedReads(data, type, txid, b, as, key, new),
         NEW t, t # MessageIntegrity, t # Fingerprint, NEW value, Names(as, t, value)
  PROVE  Has(ParseStun(data), t) /\ Attribute(ParseStun(data), t).value = value
<1>1. PICK n \in 1..Len(as) : /\ as[n].type = t /\ as[n].value = value
                              /\ \A j \in 1..(n - 1) : as[j].type # t
  BY DEF Names
<1>2. HasAsIn(ParseStun(data), as, t)
  BY SignedHas
<1> QED BY <1>1, <1>2 DEF HasAsIn

\* A message reads right: the camera's role, and the error's number.
LEMMA MessageTakenFor ==
  ASSUME NEW i \in StunInputs, NEW b, NEW as, NEW new, MessageReads(i, b, as, new)
  PROVE  Event(Message(i)) = Expected(i)
<1>1. PICK m : m = Message(i)
  OBVIOUS
<1>2. CASE i.from = "error"
  <2>1. SignedReads(m, BindingError, i.txid, b, as, i.key, new)
    BY <1>1, <1>2 DEF MessageReads
  <2>2. Event(m) = [type |-> "STUN_ERROR", error_code |-> ParseStunErrorCode(ParseStun(m))]
    BY <2>1, TakenFor
  <2>3. PICK v : v = <<0, 0, 4, 87>> \o i.local
    OBVIOUS
  <2>4. Has(ParseStun(m), ErrorCode) /\ Attribute(ParseStun(m), ErrorCode).value = v
    <3>1. Names(as, ErrorCode, v)
      BY <1>2, <2>3 DEF MessageReads, Suits
    <3>2. ErrorCode # MessageIntegrity /\ ErrorCode # Fingerprint
      BY TypesDiffer
    <3> QED BY <2>1, <3>1, <3>2, NamedIs, ZenonT(60)
  <2>5. v[3] = 4 /\ v[4] = 87 /\ ~(Len(v) < 4)
    <3>1. PICK h, l : h = <<0, 0, 4, 87>> /\ l = i.local
      OBVIOUS
    <3>2. IsSeq(h) /\ IsSeq(l)
      <4>1. h \in Seq(Nat)
        BY <3>1
      <4>2. l \in Seq(Octet)
        BY <3>1, InputAssumption
      <4> QED BY <4>1, <4>2 DEF IsSeq
    <3>3. Joins(v, h, l)
      <4>1. v = h \o l
        BY <2>3, <3>1
      <4> QED BY <3>2, <4>1, TheyJoin
    <3>4. Len(h) = 4 /\ h[3] = 4 /\ h[4] = 87
      BY <3>1
    <3>5. Len(l) \in Nat
      BY <3>2, LenIs
    <3>6. 3 \in 1..Len(h) /\ 4 \in 1..Len(h)
      BY <3>4
    <3>7. v[3] = 4 /\ v[4] = 87 /\ Len(v) = 4 + Len(l)
      BY <3>3, <3>4, <3>6 DEF Joins
    <3> QED BY <3>5, <3>7
  <2>6. ParseStunErrorCode(ParseStun(m)) = 487
    <3>1. v[3] % 8 = 4 /\ 4 \in 3..6 /\ 100 * 4 + 87 = 487
      BY <2>5
    <3> QED BY <2>4, <2>5, <3>1 DEF ParseStunErrorCode
  <2> QED BY <1>1, <1>2, <2>2, <2>6 DEF Expected
<1>3. CASE i.from # "error"
  <2>1. SignedReads(m, BindingRequest, i.txid, b, as, i.key, new)
    BY <1>1, <1>3 DEF MessageReads
  <2>2. Event(m) = [type |-> "BINDING_REQUEST", use_candidate |-> Has(ParseStun(m), UseCandidate)]
    BY <2>1, TakenFor
  <2>3. Has(ParseStun(m), UseCandidate) <=> \E n \in 1..Len(as) : as[n].type = UseCandidate
    <3>1. UseCandidate # MessageIntegrity /\ UseCandidate # Fingerprint
      BY TypesDiffer
    <3>2. HasAsIn(ParseStun(m), as, UseCandidate)
      BY <2>1, <3>1, SignedHas
    <3> QED BY <3>2 DEF HasAsIn
  <2>4. (\E n \in 1..Len(as) : as[n].type = UseCandidate) <=> i.from = "nominating"
    BY DEF MessageReads, Suits
  <2>5. Has(ParseStun(m), UseCandidate) = (i.from = "nominating")
    <3>1. Has(ParseStun(m), UseCandidate) \in BOOLEAN
      BY DEF Has
    <3> QED BY <2>3, <2>4, <3>1
  <2> QED BY <1>1, <1>3, <2>2, <2>5 DEF Expected
<1> QED BY <1>2, <1>3

\* No part of a message is taken for one.
LEMMA NoPart ==
  ASSUME NEW data, NEW type, NEW txid, NEW b, NEW as, NEW key, NEW new,
         SignedReads(data, type, txid, b, as, key, new), NEW len \in 0..(Len(data) - 1)
  PROVE  Event(Slice(data, 0, len)).type \in {"INVALID", "NON_STUN"}
<1>1. IsSeq(data) /\ 20 + At16(data, 2) = Len(data) /\ Slice(data, 4, 8) = Cookie
  BY DEF SignedReads
<1> QED BY <1>1, CutShort

\* What PeersAgree says of a message and its answer.
Agree(i, message, answer) ==
  /\ Authentic(message, i.key) /\ Event(message) = Expected(i)
  /\ IF i.from = "error" THEN answer = <<>>
     ELSE /\ Attribute(ParseStun(message), Username).value = Name(i)
          /\ Authentic(answer, i.key) /\ Event(answer) = [type |-> "BINDING_SUCCESS"]
          /\ Slice(answer, 8, 20) = i.txid
          /\ At16(Mapped(Slice(Attribute(ParseStun(answer), XorMappedAddress).value, 2, 4)), 0) = i.port
          /\ Mapped(Slice(Attribute(ParseStun(answer), XorMappedAddress).value, 4, 8)) = i.ip
  /\ \A len \in 0..(Len(message) - 1) : Event(Slice(message, 0, len)).type \in {"INVALID", "NON_STUN"}
  /\ \A len \in 0..(Len(answer) - 1) : Event(Slice(answer, 0, len)).type \in {"INVALID", "NON_STUN"}
  /\ \A cmd \in 81..84 : Event(KcpDatagram(cmd, i.local)).type = "KCP"

LEMMA TheyAgree ==
  ASSUME NEW i \in StunInputs
  PROVE  Agree(i, Message(i), StunSuccess(Message(i), i.ip, i.port, i.key))
<1>1. PICK m, a : m = Message(i) /\ a = StunSuccess(Message(i), i.ip, i.port, i.key)
  OBVIOUS
<1>2. PICK b, as, new : MessageReads(i, b, as, new)
  BY MessageIs
<1>3. PICK type : /\ type = IF i.from = "error" THEN BindingError ELSE BindingRequest
  OBVIOUS
<1>4. SignedReads(m, type, i.txid, b, as, i.key, new) /\ Suits(i, as)
  BY <1>1, <1>2, <1>3 DEF MessageReads
<1>5. Authentic(m, i.key)
  <2>1. SignedReads(m, type, i.txid, b, as, i.key, new)
    BY <1>4
  <2>2. \A n \in 1..Len(as) : as[n].type # MessageIntegrity
    BY <1>4 DEF Suits
  <2> QED BY <2>1, <2>2, SignedIsAuthentic
<1>6. Event(m) = Expected(i)
  BY <1>1, <1>2, MessageTakenFor
<1>7. \A len \in 0..(Len(m) - 1) : Event(Slice(m, 0, len)).type \in {"INVALID", "NON_STUN"}
  BY <1>4, NoPart
<1>8. \A cmd \in 81..84 : Event(KcpDatagram(cmd, i.local)).type = "KCP"
  <2>1. i.local \in Seq(Octet) /\ Len(i.local) <= 256
    BY InputAssumption
  <2> QED BY <2>1, KcpIs
<1>9. /\ Len(m) >= 20 /\ At16(m, 0) = type /\ Slice(m, 4, 8) = Cookie /\ Slice(m, 8, 20) = i.txid
  <2>1. Len(m) = Len(b) + 52 /\ Len(b) \in Nat
    BY <1>4 DEF SignedReads
  <2>2. Len(m) >= 20
    BY <2>1
  <2> QED BY <1>4, <2>2 DEF SignedReads
<1>10. CASE i.from = "error"
  <2>1. a = <<>>
    <3>1. At16(m, 0) # BindingRequest
      BY <1>3, <1>9, <1>10 DEF BindingError, BindingRequest
    <3> QED BY <1>1, <3>1 DEF StunSuccess
  <2>2. Len(a) = 0 /\ \A len \in 0..(0 - 1) : FALSE
    BY <2>1
  <2>3. \A len \in 0..(Len(a) - 1) : Event(Slice(a, 0, len)).type \in {"INVALID", "NON_STUN"}
    BY <2>2
  <2>4. Agree(i, m, a)
    BY <1>5, <1>6, <1>7, <1>8, <1>10, <2>1, <2>3 DEF Agree
  <2> QED BY <1>1, <2>4
<1>11. CASE i.from # "error"
  <2>1. type = BindingRequest
    BY <1>3, <1>11
  <2>2. PICK c, cs, read : AnswerReads(i, m, c, cs, read)
    BY <1>9, <2>1, AnswerIs
  <2>3. SignedReads(a, BindingSuccess, i.txid, c, cs, i.key, read)
    BY <1>1, <2>2 DEF AnswerReads
  <2>4. Len(cs) = 2 /\ cs[1].type = XorMappedAddress /\ cs[1].value = Where(i) /\ cs[2].type = Software
    BY <2>2 DEF AnswerReads
  <2>5. 1 \in 1..2 /\ (\A n \in 1..2 : n = 1 \/ n = 2) /\ \A j \in 1..(1 - 1) : FALSE
    OBVIOUS
  <2>6. Authentic(a, i.key)
    <3>1. XorMappedAddress # MessageIntegrity /\ Software # MessageIntegrity
      BY TypesDiffer
    <3>2. \A n \in 1..Len(cs) : cs[n].type # MessageIntegrity
      BY <2>4, <2>5, <3>1
    <3> QED BY <2>3, <3>2, SignedIsAuthentic
  <2>7. Event(a) = [type |-> "BINDING_SUCCESS"]
    BY <2>3, TakenFor
  <2>8. Slice(a, 8, 20) = i.txid
    BY <2>3 DEF SignedReads
  <2>9. Attribute(ParseStun(a), XorMappedAddress).value = Where(i)
    <3>1. XorMappedAddress # MessageIntegrity /\ XorMappedAddress # Fingerprint
      BY TypesDiffer
    <3>2. Names(cs, XorMappedAddress, Where(i))
      BY <2>4, <2>5 DEF Names
    <3> QED BY <2>3, <3>1, <3>2, NamedIs
  <2>10. Attribute(ParseStun(m), Username).value = Name(i)
    <3>1. Username # MessageIntegrity /\ Username # Fingerprint
      BY TypesDiffer
    <3>2. Names(as, Username, Name(i))
      BY <1>4, <1>11 DEF Suits
    <3>3. SignedReads(m, type, i.txid, b, as, i.key, new)
      BY <1>4
    <3> QED BY <3>1, <3>2, <3>3, NamedIs
  <2>11. \A len \in 0..(Len(a) - 1) : Event(Slice(a, 0, len)).type \in {"INVALID", "NON_STUN"}
    BY <2>3, NoPart
  <2>12. Agree(i, m, a)
    <3>1. PICK seen : seen = Attribute(ParseStun(a), XorMappedAddress).value
      OBVIOUS
    <3>2. At16(Mapped(Slice(seen, 2, 4)), 0) = i.port /\ Mapped(Slice(seen, 4, 8)) = i.ip
      BY <2>9, <3>1, WhereIs
    <3> QED BY <1>5, <1>6, <1>7, <1>8, <1>11, <2>6, <2>7, <2>8, <2>10, <2>11, <3>1, <3>2 DEF Agree
  <2> QED BY <1>1, <2>12
<1> QED BY <1>10, <1>11

\* What was said is a message and the client's answer to it.
AgreeInv ==
  /\ in.algorithm = "stun" => in \in StunInputs
  /\ in.algorithm = "stun" /\ out # <<>> =>
       out = <<Message(in), StunSuccess(Message(in), in.ip, in.port, in.key)>>

\* Whoever receives a message, the camera's, the client's or its answer, finds
\* its digests right and its attributes where they were written, takes it for
\* what it is, and no part of it nor a datagram of KCP for a STUN message.
THEOREM StunPeersAgree == Spec => []PeersAgree
<1>1. Init => AgreeInv
  <2> SUFFICES ASSUME Init PROVE AgreeInv
    OBVIOUS
  <2>1. out = <<>>
    BY DEF Init
  <2>2. CASE in = [algorithm |-> "rtp"]
    <3>1. in.algorithm # "stun"
      BY <2>2
    <3> QED BY <3>1 DEF AgreeInv
  <2>3. CASE in \in StunInputs
    BY <2>1, <2>3 DEF AgreeInv
  <2>4. CASE in \in ConfigInputs
    <3>1. in.algorithm # "stun"
      BY <2>4, InputAssumption
    <3> QED BY <3>1 DEF AgreeInv
  <2> QED BY <2>2, <2>3, <2>4 DEF Init
<1>2. AgreeInv /\ [Next]_vars => AgreeInv'
  <2> SUFFICES ASSUME AgreeInv, [Next]_vars PROVE AgreeInv'
    OBVIOUS
  <2>1. CASE UNCHANGED <<in, out>>
    BY <2>1 DEF AgreeInv
  <2>2. CASE Exchange
    BY <2>2 DEF AgreeInv, Exchange
  <2>3. CASE Build
    BY <2>3 DEF AgreeInv, Build
  <2> QED BY <2>1, <2>2, <2>3 DEF Next, vars
<1>3. AgreeInv => PeersAgree
  <2> SUFFICES ASSUME AgreeInv, in.algorithm = "stun", out # <<>> PROVE PeersAgree
    BY Zenon DEF PeersAgree
  <2>1. in \in StunInputs
    BY DEF AgreeInv
  <2>2. PICK m, a : m = Message(in) /\ a = StunSuccess(Message(in), in.ip, in.port, in.key)
    OBVIOUS
  <2>3. Agree(in, m, a)
    BY <2>1, <2>2, TheyAgree
  <2>4. out[1] = m /\ out[2] = a
    <3>1. out = <<m, a>>
      BY <2>2 DEF AgreeInv
    <3> QED BY <3>1
  <2>5. ASSUME NEW n \in 1..2, NEW len \in 0..(Len(out[n]) - 1)
        PROVE  Event(Slice(out[n], 0, len)).type \in {"INVALID", "NON_STUN"}
    <3>1. CASE n = 1
      <4>1. out[n] = m
        BY <2>4, <3>1
      <4> QED BY <2>3, <2>5, <4>1 DEF Agree
    <3>2. CASE n = 2
      <4>1. out[n] = a
        BY <2>4, <3>2
      <4> QED BY <2>3, <2>5, <4>1 DEF Agree
    <3> QED BY <3>1, <3>2
  <2> QED BY <2>3, <2>4, <2>5 DEF PeersAgree, Agree
<1> QED BY <1>1, <1>2, <1>3, PTL DEF Spec
=============================================================================
