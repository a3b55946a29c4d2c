------------------------ MODULE MultipartUpload_proofs ----------------------
(***************************************************************************)
(* Proofs about UploadParts and MultipartUpload: the parts of every file   *)
(* cover it and have the sizes R2 asks for, and what is published is the   *)
(* whole file.                                                             *)
(***************************************************************************)
EXTENDS MultipartUpload, TLAPS

-----------------------------------------------------------------------------
(* The parts of a file.                                                    *)

LEMMA CeilingType ==
  ASSUME NEW n \in Nat, NEW d \in Nat \ {0}
  PROVE  Ceiling(n, d) \in Nat
BY DEF Ceiling

LEMMA CeilingBounds ==
  ASSUME NEW n \in Nat, NEW d \in Nat \ {0}
  PROVE  /\ n <= Ceiling(n, d) * d
         /\ Ceiling(n, d) * d < n + d
<1> DEFINE m == n + d - 1
<1>1. m \in Nat
  OBVIOUS
<1>2. m = (m \div d) * d + (m % d) /\ 0 <= m % d /\ m % d < d
  BY <1>1
<1>3. (m \div d) * d <= m /\ m < (m \div d) * d + d
  BY <1>1, <1>2
<1> QED
  BY <1>3 DEF Ceiling

LEMMA ProductMonotone ==
  ASSUME NEW a \in Int, NEW b \in Int, NEW d \in Nat, a <= b
  PROVE  a * d <= b * d
<1>1. (b - a) * d >= 0
  OBVIOUS
<1>2. (b - a) * d = b * d - a * d
  OBVIOUS
<1> QED
  BY <1>1, <1>2

LEMMA PlaintextSizes ==
  /\ FirstPlaintextSize \in Nat \ {0}
  /\ FollowingPlaintextSize \in Nat \ {0}
BY SizesAssumption DEF FirstPlaintextSize, FollowingPlaintextSize

\* Where the chunks after the first end, and how many there are of them.
LEMMA ChunkCountBounds ==
  ASSUME NEW size \in Nat
  PROVE  /\ ChunkCount(size) \in Nat \ {0}
         /\ size <= FirstPlaintextSize + (ChunkCount(size) - 1) * FollowingPlaintextSize
         /\ \A i \in Nat : i < ChunkCount(size) - 1 =>
              FirstPlaintextSize + i * FollowingPlaintextSize < size
<1> DEFINE G == FollowingPlaintextSize
           r == Larger(0, size - FirstPlaintextSize)
           q == Ceiling(r, G)
<1>1. G \in Nat \ {0} /\ FirstPlaintextSize \in Nat
  BY PlaintextSizes
<1>2. r \in Nat /\ size - FirstPlaintextSize <= r
  BY <1>1 DEF Larger
<1>3. q \in Nat /\ r <= q * G /\ q * G < r + G
  BY <1>1, <1>2, CeilingType, CeilingBounds
<1>4. ChunkCount(size) = 1 + q
  BY DEF ChunkCount
<1>5. ASSUME NEW i \in Nat, i < q
      PROVE  FirstPlaintextSize + i * G < size
  <2>1. (i + 1) * G <= q * G
    BY <1>1, <1>3, <1>5, ProductMonotone
  <2>2. (i + 1) * G = i * G + G /\ i * G \in Nat
    BY <1>1
  <2>3. i * G < r
    BY <1>1, <1>2, <1>3, <2>1, <2>2
  <2>4. r = size - FirstPlaintextSize
    BY <1>1, <2>2, <2>3 DEF Larger
  <2> QED
    BY <1>1, <2>2, <2>3, <2>4
<1>6. size <= FirstPlaintextSize + q * G
  BY <1>1, <1>2, <1>3
<1> HIDE DEF q, r
<1> QED
  BY <1>3, <1>4, <1>5, <1>6

\* Where a chunk ends if the file does not end first.
LEMMA ChunkEnds ==
  ASSUME NEW i \in Nat
  PROVE  /\ ChunkStart(i) \in Nat
         /\ ChunkStart(i + 1) = FirstPlaintextSize + i * FollowingPlaintextSize
         /\ ChunkStart(i) + (IF i = 0 THEN FirstPlaintextSize ELSE FollowingPlaintextSize)
              = ChunkStart(i + 1)
<1> DEFINE F == FirstPlaintextSize
           G == FollowingPlaintextSize
<1>1. G \in Nat /\ F \in Nat
  BY PlaintextSizes
<1>2. ChunkStart(i + 1) = F + i * G
  BY DEF ChunkStart
<1>3. CASE i = 0
  BY <1>1, <1>2, <1>3 DEF ChunkStart
<1>4. CASE i # 0
  <2>1. (i - 1) * G + G = i * G /\ (i - 1) * G \in Nat
    BY <1>1, <1>4
  <2>2. ChunkStart(i) = F + (i - 1) * G
    BY <1>4 DEF ChunkStart
  <2> HIDE DEF F, G
  <2> QED
    BY <1>1, <1>2, <1>4, <2>1, <2>2 DEF F, G
<1> QED
  BY <1>3, <1>4

\* The chunk bounds of an encrypted file.
LEMMA ChunkShape ==
  ASSUME NEW size \in Nat, NEW i \in 0 .. ChunkCount(size) - 1
  PROVE  /\ ChunkBounds(size, i).start = ChunkStart(i)
         /\ ChunkStart(i) \in Nat
         /\ i < ChunkCount(size) - 1 =>
              /\ ChunkBounds(size, i).end = ChunkStart(i + 1)
              /\ ChunkStart(i + 1) - ChunkStart(i) =
                   IF i = 0 THEN FirstPlaintextSize ELSE FollowingPlaintextSize
         /\ i = ChunkCount(size) - 1 =>
              /\ ChunkBounds(size, i).end = size
              /\ i > 0 => ChunkStart(i) < size
              /\ size - ChunkStart(i) <=
                   IF i = 0 THEN FirstPlaintextSize ELSE FollowingPlaintextSize
<1> DEFINE next == ChunkStart(i + 1)
           len == IF i = 0 THEN FirstPlaintextSize ELSE FollowingPlaintextSize
<1>1. /\ ChunkCount(size) \in Nat \ {0} /\ i \in Nat
      /\ ChunkStart(i) \in Nat /\ len \in Nat
      /\ ChunkStart(i) + len = next
      /\ next = FirstPlaintextSize + i * FollowingPlaintextSize
  <2>1. ChunkCount(size) \in Nat \ {0} /\ i \in Nat
    BY ChunkCountBounds
  <2>2. len \in Nat
    BY PlaintextSizes
  <2> QED
    BY <2>1, <2>2, ChunkEnds
<1>2. ChunkBounds(size, i) = [start |-> ChunkStart(i), end |-> Smaller(size, next)]
  BY <1>1 DEF ChunkBounds
<1>3. CASE i < ChunkCount(size) - 1
  <2>1. next < size
    BY <1>1, <1>3, ChunkCountBounds
  <2> HIDE DEF next, len
  <2>2. Smaller(size, next) = next
    BY <1>1, <2>1 DEF Smaller
  <2>3. ChunkBounds(size, i).end = next /\ ChunkBounds(size, i).start = ChunkStart(i)
    BY <1>2, <2>2
  <2>4. next - ChunkStart(i) = len
    BY <1>1
  <2> QED
    BY <1>1, <1>3, <2>3, <2>4 DEF next, len
<1>4. CASE i = ChunkCount(size) - 1
  <2>1. size <= next
    BY <1>1, <1>4, ChunkCountBounds
  <2>2. ASSUME i > 0 PROVE ChunkStart(i) < size
    <3>1. i - 1 \in Nat /\ i - 1 < ChunkCount(size) - 1 /\ i = (i - 1) + 1
      BY <1>1, <1>4, <2>2
    <3>2. ChunkStart(i) = FirstPlaintextSize + (i - 1) * FollowingPlaintextSize
      BY <2>2, <1>1 DEF ChunkStart
    <3> QED
      BY <3>1, <3>2, ChunkCountBounds
  <2> HIDE DEF next, len
  <2>3. Smaller(size, next) = size
    BY <1>1, <2>1 DEF Smaller
  <2>4. ChunkBounds(size, i).end = size /\ ChunkBounds(size, i).start = ChunkStart(i)
    BY <1>2, <2>3
  <2>5. size - ChunkStart(i) <= len
    BY <1>1, <2>1
  <2> QED
    BY <1>1, <1>4, <2>2, <2>4, <2>5 DEF len
<1> QED
  BY <1>1, <1>3, <1>4

\* The bounds of the slices of a plain file.
LEMMA SliceShape ==
  ASSUME NEW size \in Nat \ {0}, NEW i \in 0 .. Ceiling(size, PartSize) - 1
  PROVE  /\ Ceiling(size, PartSize) \in Nat \ {0}
         /\ SliceBounds(size, i).start = i * PartSize /\ i * PartSize < size
         /\ i * PartSize \in Nat
         /\ i < Ceiling(size, PartSize) - 1 =>
              SliceBounds(size, i).end = (i + 1) * PartSize
         /\ i = Ceiling(size, PartSize) - 1 =>
              /\ SliceBounds(size, i).end = size
              /\ size <= i * PartSize + PartSize
<1> DEFINE c == Ceiling(size, PartSize)
           from == i * PartSize
           to == (i + 1) * PartSize
<1>1. PartSize \in Nat \ {0}
  BY SizesAssumption
<1>2. c \in Nat /\ size <= c * PartSize /\ c * PartSize < size + PartSize
  BY <1>1, CeilingType, CeilingBounds
<1>3. i \in Nat /\ i + 1 <= c
  BY <1>2
<1>4. from \in Nat /\ to = from + PartSize
  BY <1>1, <1>3
<1>5. to <= c * PartSize
  BY <1>1, <1>2, <1>3, ProductMonotone
<1>6. from < size
  BY <1>1, <1>2, <1>4, <1>5
<1>7. SliceBounds(size, i) = [start |-> Smaller(size, from), end |-> Smaller(size, to)]
  BY DEF SliceBounds
<1>8. ASSUME i < c - 1 PROVE to < size
  <2>1. (i + 2) * PartSize <= c * PartSize
    BY <1>1, <1>2, <1>3, <1>8, ProductMonotone
  <2>2. (i + 2) * PartSize = to + PartSize
    BY <1>1, <1>3
  <2> QED
    BY <1>1, <1>2, <1>4, <2>1, <2>2
<1>9. i = c - 1 => to = c * PartSize
  BY <1>2, <1>3
<1> HIDE DEF c, from, to
<1>10. Smaller(size, from) = from
  BY <1>4, <1>6 DEF Smaller
<1>11. i < c - 1 => Smaller(size, to) = to
  BY <1>1, <1>4, <1>8 DEF Smaller
<1>12. i = c - 1 => Smaller(size, to) = size /\ size <= from + PartSize
  BY <1>1, <1>2, <1>4, <1>9 DEF Smaller
<1> QED
  BY <1>2, <1>3, <1>4, <1>6, <1>7, <1>10, <1>11, <1>12 DEF c, from, to

-----------------------------------------------------------------------------
(* The theorems about the parts.                                           *)

\* The parts, laid end to end, are the file: nothing is sent twice or left out,
\* whatever the sizes of a part, of the header and of a tag.
THEOREM PartsCoverFile ==
  ASSUME NEW f \in Files, StoredSize(f) > 0
  PROVE  /\ PartCount(f) \in Nat \ {0}
         /\ PartBounds(f, 0).start = 0
         /\ \A i \in Indices(f) :
              PartBounds(f, i).end = IF i + 1 \in Indices(f) THEN PartBounds(f, i + 1).start
                                     ELSE f.size
<1>1. f.size \in Nat /\ f.encrypted \in BOOLEAN
  BY DEF Files
<1>2. CASE f.encrypted
  <2>1. PartCount(f) = ChunkCount(f.size) /\ PartCount(f) \in Nat \ {0}
    BY <1>1, <1>2, ChunkCountBounds DEF PartCount
  <2>2. \A i : PartBounds(f, i) = ChunkBounds(f.size, i)
    BY <1>2 DEF PartBounds
  <2>3. PartBounds(f, 0).start = 0
    BY <2>2 DEF ChunkBounds, ChunkStart
  <2>4. ASSUME NEW i \in Indices(f)
        PROVE  PartBounds(f, i).end = IF i + 1 \in Indices(f) THEN PartBounds(f, i + 1).start
                                      ELSE f.size
    <3>1. i \in 0 .. ChunkCount(f.size) - 1
      BY <2>1 DEF Indices
    <3>2. CASE i < ChunkCount(f.size) - 1
      <4>1. i + 1 \in 0 .. ChunkCount(f.size) - 1 /\ i + 1 \in Indices(f)
        BY <2>1, <3>1, <3>2 DEF Indices
      <4>2. ChunkBounds(f.size, i).end = ChunkStart(i + 1)
        BY <1>1, <3>1, <3>2, ChunkShape
      <4>3. ChunkBounds(f.size, i + 1).start = ChunkStart(i + 1)
        BY <1>1, <4>1, ChunkShape
      <4> QED
        BY <2>2, <4>1, <4>2, <4>3
    <3>3. CASE i = ChunkCount(f.size) - 1
      <4>1. i + 1 \notin Indices(f)
        BY <2>1, <3>3 DEF Indices
      <4>2. ChunkBounds(f.size, i).end = f.size
        BY <1>1, <3>1, <3>3, ChunkShape
      <4> QED
        BY <2>2, <4>1, <4>2
    <3> QED
      BY <2>1, <3>1, <3>2, <3>3
  <2> QED
    BY <2>1, <2>3, <2>4
<1>3. CASE ~f.encrypted
  <2>0. f.size \in Nat \ {0}
    BY <1>1, <1>3 DEF StoredSize
  <2>1. PartCount(f) = Ceiling(f.size, PartSize)
    BY <1>3 DEF PartCount
  <2>2. \A i : PartBounds(f, i) = SliceBounds(f.size, i)
    BY <1>3 DEF PartBounds
  <2>3. PartCount(f) \in Nat \ {0}
    <3>1. PartSize \in Nat \ {0}
      BY SizesAssumption
    <3>2. Ceiling(f.size, PartSize) \in Nat /\ f.size <= Ceiling(f.size, PartSize) * PartSize
      BY <2>0, <3>1, CeilingType, CeilingBounds
    <3>3. Ceiling(f.size, PartSize) # 0
      BY <2>0, <3>1, <3>2
    <3> QED
      BY <2>1, <3>2, <3>3
  <2>4. PartBounds(f, 0).start = 0
    BY <2>0, <2>2, SizesAssumption DEF SliceBounds, Smaller
  <2>5. ASSUME NEW i \in Indices(f)
        PROVE  PartBounds(f, i).end = IF i + 1 \in Indices(f) THEN PartBounds(f, i + 1).start
                                      ELSE f.size
    <3>1. i \in 0 .. Ceiling(f.size, PartSize) - 1
      BY <2>1 DEF Indices
    <3>2. CASE i < Ceiling(f.size, PartSize) - 1
      <4>1. i + 1 \in 0 .. Ceiling(f.size, PartSize) - 1 /\ i + 1 \in Indices(f)
        BY <2>1, <2>3, <3>1, <3>2 DEF Indices
      <4>2. SliceBounds(f.size, i).end = (i + 1) * PartSize
        BY <2>0, <3>1, <3>2, SliceShape
      <4>3. SliceBounds(f.size, i + 1).start = (i + 1) * PartSize
        BY <2>0, <4>1, SliceShape
      <4> QED
        BY <2>2, <4>1, <4>2, <4>3
    <3>3. CASE i = Ceiling(f.size, PartSize) - 1
      <4>1. i + 1 \notin Indices(f)
        BY <2>1, <2>3, <3>3 DEF Indices
      <4>2. SliceBounds(f.size, i).end = f.size
        BY <2>0, <3>1, <3>3, SliceShape
      <4> QED
        BY <2>2, <4>1, <4>2
    <3> QED
      BY <2>1, <2>3, <3>1, <3>2, <3>3
  <2> QED
    BY <2>3, <2>4, <2>5
<1> QED
  BY <1>1, <1>2, <1>3

\* Every part but the last fills the size R2 is told to expect, and the last one
\* is not larger: that of an encrypted file, with its header and its tag, as well.
THEOREM PartsAreUniform ==
  ASSUME NEW f \in Files, StoredSize(f) > 0, NEW i \in Indices(f)
  PROVE  IF i = PartCount(f) - 1 THEN PartLength(f, i) \in 1 .. PartSize
         ELSE PartLength(f, i) = PartSize
<1>1. f.size \in Nat /\ f.encrypted \in BOOLEAN
  BY DEF Files
<1>2. CASE f.encrypted
  <2>1. PartCount(f) = ChunkCount(f.size)
    BY <1>2 DEF PartCount
  <2>2. i \in 0 .. ChunkCount(f.size) - 1 /\ ChunkCount(f.size) \in Nat
    BY <1>1, <2>1, ChunkCountBounds DEF Indices
  <2>3. PartBounds(f, i) = ChunkBounds(f.size, i)
    BY <1>2 DEF PartBounds
  <2> DEFINE content == ChunkBounds(f.size, i).end - ChunkBounds(f.size, i).start
             room == IF i = 0 THEN FirstPlaintextSize ELSE FollowingPlaintextSize
  <2>4. PartLength(f, i) = content + TagSize + (IF i = 0 THEN HeaderSize ELSE 0)
    BY <1>2, <2>3 DEF PartLength
  <2>5. room + TagSize + (IF i = 0 THEN HeaderSize ELSE 0) = PartSize /\ room \in Nat
    BY SizesAssumption, PlaintextSizes DEF FirstPlaintextSize, FollowingPlaintextSize
  <2>6. i < ChunkCount(f.size) - 1 => content = room
    BY <1>1, <2>2, ChunkShape
  <2>7. i = ChunkCount(f.size) - 1 => content \in Int /\ content <= room
    BY <1>1, <2>2, ChunkShape
  <2>8. CASE i = ChunkCount(f.size) - 1
    <3>1. content = f.size - ChunkStart(i) /\ ChunkStart(i) \in Nat
      BY <1>1, <2>2, <2>8, ChunkShape
    <3>2. content + TagSize + (IF i = 0 THEN HeaderSize ELSE 0) >= 1
      <4>1. CASE i = 0
        <5>1. ChunkStart(i) = 0
          BY <4>1 DEF ChunkStart
        <5>2. ChunkCount(f.size) = 1
          BY <2>2, <2>8, <4>1
        <5>3. HeaderSize + f.size + 1 * TagSize > 0
          BY <1>2, <5>2 DEF StoredSize, EncryptedFileSize
        <5> HIDE DEF content
        <5> QED
          BY <1>1, <3>1, <4>1, <5>1, <5>3, SizesAssumption
      <4>2. CASE i # 0
        <5>1. ChunkStart(i) < f.size
          BY <1>1, <2>2, <2>8, <4>2, ChunkShape
        <5> HIDE DEF content
        <5> QED
          BY <1>1, <3>1, <4>2, <5>1, SizesAssumption
      <4> QED
        BY <4>1, <4>2
    <3> HIDE DEF content, room
    <3>3. content + TagSize + (IF i = 0 THEN HeaderSize ELSE 0) \in 1 .. PartSize
      BY <2>5, <2>7, <2>8, <3>2, SizesAssumption
    <3> QED
      BY <2>1, <2>4, <2>8, <3>3
  <2>9. CASE i # ChunkCount(f.size) - 1
    <3> HIDE DEF content, room
    <3> QED
      BY <2>1, <2>2, <2>4, <2>5, <2>6, <2>9
  <2> QED
    BY <2>8, <2>9
<1>3. CASE ~f.encrypted
  <2>1. PartCount(f) = Ceiling(f.size, PartSize) /\ f.size \in Nat \ {0}
    BY <1>1, <1>3 DEF PartCount, StoredSize
  <2>2. i \in 0 .. Ceiling(f.size, PartSize) - 1
    BY <2>1 DEF Indices
  <2>3. PartLength(f, i) = SliceBounds(f.size, i).end - SliceBounds(f.size, i).start + 0 + 0
    BY <1>3 DEF PartLength, PartBounds
  <2>4. /\ Ceiling(f.size, PartSize) \in Nat /\ i * PartSize \in Nat
        /\ SliceBounds(f.size, i).start = i * PartSize /\ i * PartSize < f.size
        /\ i < Ceiling(f.size, PartSize) - 1 => SliceBounds(f.size, i).end = (i + 1) * PartSize
        /\ i = Ceiling(f.size, PartSize) - 1 =>
             SliceBounds(f.size, i).end = f.size /\ f.size <= i * PartSize + PartSize
    BY <2>1, <2>2, SliceShape
  <2>5. (i + 1) * PartSize = i * PartSize + PartSize
    BY <2>2, <2>4, SizesAssumption
  <2>6. CASE i = Ceiling(f.size, PartSize) - 1
    <3>1. PartLength(f, i) = f.size - i * PartSize
      BY <2>1, <2>3, <2>4, <2>6
    <3> QED
      BY <2>1, <2>4, <2>6, <3>1, SizesAssumption
  <2>7. CASE i # Ceiling(f.size, PartSize) - 1
    <3>1. PartLength(f, i) = (i + 1) * PartSize - i * PartSize
      BY <2>2, <2>3, <2>4, <2>5, <2>7, SizesAssumption
    <3> QED
      BY <2>1, <2>4, <2>5, <2>7, <3>1, SizesAssumption
  <2> QED
    BY <2>6, <2>7
<1> QED
  BY <1>1, <1>2, <1>3

\* The size the client announces, and the one a reader asks of a ciphertext before
\* it decrypts it, is the sum of the parts.
THEOREM StoredSizeIsTheSumOfParts ==
  ASSUME NEW f \in Files, StoredSize(f) > 0
  PROVE  StoredSize(f) =
           (PartCount(f) - 1) * PartSize + PartLength(f, PartCount(f) - 1)
<1> DEFINE last == PartCount(f) - 1
<1>1. f.size \in Nat /\ f.encrypted \in BOOLEAN
  BY DEF Files
<1>2. last \in Nat /\ last \in Indices(f)
  BY PartsCoverFile DEF Indices
<1>3. CASE f.encrypted
  <2>1. PartCount(f) = ChunkCount(f.size)
    BY <1>3 DEF PartCount
  <2>2. last \in 0 .. ChunkCount(f.size) - 1 /\ last = ChunkCount(f.size) - 1
    BY <1>2, <2>1 DEF Indices
  <2>3. PartBounds(f, last).end = f.size /\ PartBounds(f, last).start = ChunkStart(last)
    BY <1>1, <1>3, <2>2, ChunkShape DEF PartBounds
  <2> HIDE DEF last
  <2>4. PartLength(f, last) =
          f.size - ChunkStart(last) + TagSize + (IF last = 0 THEN HeaderSize ELSE 0)
    BY <1>3, <2>3 DEF PartLength
  <2>5. ChunkStart(last) + HeaderSize + last * TagSize =
          last * PartSize + (IF last = 0 THEN HeaderSize ELSE 0)
    <3>1. CASE last = 0
      BY <3>1, SizesAssumption DEF ChunkStart
    <3>2. CASE last # 0
      <4>1. ChunkStart(last) = (PartSize - HeaderSize - TagSize) + (last - 1) * (PartSize - TagSize)
        BY <3>2 DEF ChunkStart, FirstPlaintextSize, FollowingPlaintextSize
      <4>2. (last - 1) * (PartSize - TagSize) =
              last * PartSize - last * TagSize - PartSize + TagSize
        BY <1>2, SizesAssumption
      <4>3. last * PartSize \in Int /\ last * TagSize \in Int
        BY <1>2, SizesAssumption
      <4> QED
        BY <3>2, <4>1, <4>2, <4>3, SizesAssumption
    <3> QED
      BY <3>1, <3>2
  <2>6. StoredSize(f) = HeaderSize + f.size + (last + 1) * TagSize
    <3>1. ChunkCount(f.size) = last + 1
      BY <1>1, <2>2, ChunkCountBounds
    <3> QED
      BY <1>3, <3>1 DEF StoredSize, EncryptedFileSize
  <2>7. (last + 1) * TagSize = last * TagSize + TagSize
    BY <1>2, SizesAssumption
  <2>8. /\ ChunkStart(last) \in Int /\ last * TagSize \in Int /\ last * PartSize \in Int
    BY <1>2, ChunkEnds, SizesAssumption
  <2>9. StoredSize(f) = last * PartSize + PartLength(f, last)
    BY <1>1, <2>4, <2>5, <2>6, <2>7, <2>8, SizesAssumption
  <2> QED
    BY <2>9 DEF last
<1>4. CASE ~f.encrypted
  <2>1. PartCount(f) = Ceiling(f.size, PartSize) /\ f.size \in Nat \ {0}
    BY <1>1, <1>4 DEF PartCount, StoredSize
  <2>2. last \in 0 .. Ceiling(f.size, PartSize) - 1 /\ last = Ceiling(f.size, PartSize) - 1
    BY <1>2, <2>1 DEF Indices
  <2>3. /\ SliceBounds(f.size, last).start = last * PartSize /\ last * PartSize \in Nat
        /\ SliceBounds(f.size, last).end = f.size
    BY <2>1, <2>2, SliceShape
  <2>4. PartLength(f, last) = f.size - last * PartSize
    BY <1>1, <1>4, <2>3 DEF PartLength, PartBounds
  <2>5. StoredSize(f) = f.size
    BY <1>4 DEF StoredSize
  <2> HIDE DEF last
  <2>6. StoredSize(f) = last * PartSize + PartLength(f, last)
    BY <1>1, <2>3, <2>4, <2>5
  <2> QED
    BY <2>6 DEF last
<1> QED
  BY <1>1, <1>3, <1>4

-----------------------------------------------------------------------------
(* The inductive invariant.                                                *)

\* The file is one that needs parts; it is not empty in R2.
NeedsParts == file \in Uploads /\ StoredSize(file) > PartSize

\* What the client takes for uploaded, R2 has.
AcknowledgedIsStored ==
  /\ \A i \in Indices(file) : parts[i] = "uploaded" => i \in stored
  /\ \A i \in Indices(file) : PartRequest(i) \in answers => i \in stored
  /\ Request("complete") \in network => Indices(file) \subseteq stored

\* An upload is created once.
CreatedOnce ==
  /\ client = "preparing" => upload = "none" /\ Request("create") \notin network
  /\ Request("create") \in network => upload = "none"

\* It is completed once, and published from what was completed.
CompletedOnce ==
  /\ handler = "persisting" => upload = "complete" /\ ~published /\ object = Indices(file)
  /\ published => upload = "complete" /\ object = Indices(file)
  /\ Request("complete") \in answers => published
  /\ client = "succeeded" => published

\* A failed upload has cancelled what was in progress.
FailureIsSignalled == client \in {"releasing", "failed", "gone"} => signal

Inv == /\ TypeOK /\ NeedsParts /\ AcknowledgedIsStored
       /\ CreatedOnce /\ CompletedOnce /\ FailureIsSignalled

LEMMA RequestsDiffer ==
  /\ Request("create") # Request("complete")
  /\ Request("create") # Request("abort")
  /\ Request("complete") # Request("abort")
  /\ \A i : /\ PartRequest(i) # Request("create")
            /\ PartRequest(i) # Request("complete")
            /\ PartRequest(i) # Request("abort")
  /\ \A i, j : PartRequest(i) = PartRequest(j) => i = j
BY DEF Request, PartRequest

LEMMA FileCounted ==
  ASSUME NeedsParts
  PROVE  /\ file \in Files /\ StoredSize(file) > 0
         /\ PartCount(file) \in Nat \ {0}
<1>1. file \in Files
  BY UploadAssumption DEF NeedsParts
<1>2. StoredSize(file) \in Int
  BY <1>1, ChunkCountBounds, SizesAssumption DEF Files, StoredSize, EncryptedFileSize
<1>3. StoredSize(file) > 0
  BY <1>2, SizesAssumption DEF NeedsParts
<1> QED
  BY <1>1, <1>3, PartsCoverFile

LEMMA InitInv == Init => Inv
<1> SUFFICES ASSUME Init PROVE Inv
  OBVIOUS
<1>1. NeedsParts
  BY DEF Init, NeedsParts
<1>2. file \in Files /\ PartCount(file) \in Nat
  BY <1>1, FileCounted
<1>3. nextIndex \in 0 .. PartCount(file)
  BY <1>2 DEF Init
<1>4. parts \in [Indices(file) -> {"waiting", "reading", "sending", "uploaded", "failed"}]
  BY DEF Init
<1>5. TypeOK
  BY <1>2, <1>3, <1>4 DEF Init, TypeOK
<1> QED
  BY <1>1, <1>5, <1>4 DEF Init, Inv, AcknowledgedIsStored, CreatedOnce, CompletedOnce, FailureIsSignalled

LEMMA StepInv == Inv /\ [Next]_vars => Inv'
<1> SUFFICES ASSUME Inv, [Next]_vars PROVE Inv'
  OBVIOUS
<1> DEFINE Idx == Indices(file)
<1>0. /\ PartCount(file) \in Nat \ {0}
      /\ \A i \in Idx : PartRequest(i) \in Requests
      /\ {Request("create"), Request("complete"), Request("abort")} \subseteq Requests
  BY FileCounted DEF Inv, Requests
<1>1. CASE Create
  BY <1>0, <1>1, RequestsDiffer DEF Create, Inv, TypeOK, NeedsParts, AcknowledgedIsStored, CreatedOnce, CompletedOnce, FailureIsSignalled, clientVars, r2Vars, Requests, Raise, Send
<1>2. CASE OnCreated
  BY <1>0, <1>2, RequestsDiffer DEF OnCreated, Inv, TypeOK, NeedsParts, AcknowledgedIsStored, CreatedOnce, CompletedOnce, FailureIsSignalled, clientVars, r2Vars, Requests
<1>3. CASE FailCreate
  BY <1>0, <1>3, RequestsDiffer DEF FailCreate, Inv, TypeOK, NeedsParts, AcknowledgedIsStored, CreatedOnce, CompletedOnce, FailureIsSignalled, clientVars, r2Vars, Requests, Raise, Send
<1>4. CASE StartPart
  <2>1. /\ nextIndex \in Idx /\ nextIndex + 1 \in 0 .. PartCount(file)
        /\ UNCHANGED <<file, client, signal, createResp, network, answers, r2Vars, handler, published, abortLost>>
    BY <1>0, <1>4 DEF StartPart, Inv, TypeOK, Indices
  <2>2. /\ parts' \in [Idx -> {"waiting", "reading", "sending", "uploaded", "failed"}]
        /\ \A i \in Idx : parts'[i] = "uploaded" => parts[i] = "uploaded"
    BY <1>4, <2>1 DEF StartPart, Inv, TypeOK
  <2>3. nextIndex' \in 0 .. PartCount(file)
    BY <1>4, <2>1 DEF StartPart
  <2> QED
    BY <2>1, <2>2, <2>3 DEF Inv, TypeOK, NeedsParts, AcknowledgedIsStored, CreatedOnce, CompletedOnce, FailureIsSignalled, clientVars, r2Vars, Requests
<1>5. CASE Complete
  <2>1. Idx \subseteq stored
    BY <1>5 DEF Complete, AllUploaded, Inv, TypeOK, AcknowledgedIsStored
  <2>2. UNCHANGED <<file, createResp, nextIndex, parts, answers, r2Vars, handler, published, abortLost>>
    BY <1>5 DEF Complete
  <2>3. CASE ~signal /\ client' = "completing" /\ Send(Request("complete")) /\ UNCHANGED signal
    BY <1>0, <2>1, <2>2, <2>3, RequestsDiffer DEF Send, Inv, TypeOK, NeedsParts, AcknowledgedIsStored, CreatedOnce, CompletedOnce, FailureIsSignalled, clientVars, r2Vars, Requests
  <2>4. CASE signal /\ Raise
    BY <1>0, <1>5, <2>2, <2>4, RequestsDiffer DEF Raise, Send, Complete, Inv, TypeOK, NeedsParts, AcknowledgedIsStored, CreatedOnce, CompletedOnce, FailureIsSignalled, clientVars, r2Vars, Requests
  <2> QED
    BY <1>5, <2>3, <2>4 DEF Complete
<1>6. CASE OnCompleted
  BY <1>0, <1>6, RequestsDiffer DEF OnCompleted, Inv, TypeOK, NeedsParts, AcknowledgedIsStored, CreatedOnce, CompletedOnce, FailureIsSignalled, clientVars, r2Vars, Requests
<1>7. CASE FailComplete
  BY <1>0, <1>7, RequestsDiffer DEF FailComplete, Inv, TypeOK, NeedsParts, AcknowledgedIsStored, CreatedOnce, CompletedOnce, FailureIsSignalled, clientVars, r2Vars, Requests, Raise, Send
<1>8. CASE Released
  BY <1>0, <1>8, RequestsDiffer DEF Released, Inv, TypeOK, NeedsParts, AcknowledgedIsStored, CreatedOnce, CompletedOnce, FailureIsSignalled, clientVars, r2Vars, Requests
<1>9. CASE Cancel
  BY <1>0, <1>9, RequestsDiffer DEF Cancel, Inv, TypeOK, NeedsParts, AcknowledgedIsStored, CreatedOnce, CompletedOnce, FailureIsSignalled, clientVars, r2Vars, Requests, Active
<1>10. CASE Kill
  BY <1>0, <1>10, RequestsDiffer DEF Kill, Inv, TypeOK, NeedsParts, AcknowledgedIsStored, CreatedOnce, CompletedOnce, FailureIsSignalled, clientVars, r2Vars, Requests, Active, Busy
<1>11. CASE HandleCreate
  BY <1>0, <1>11, RequestsDiffer DEF HandleCreate, Inv, TypeOK, NeedsParts, AcknowledgedIsStored, CreatedOnce, CompletedOnce, FailureIsSignalled, clientVars, r2Vars, Requests, Receive, Answer
<1>12. CASE HandleComplete
  BY <1>0, <1>12, RequestsDiffer DEF HandleComplete, Inv, TypeOK, NeedsParts, AcknowledgedIsStored, CreatedOnce, CompletedOnce, FailureIsSignalled, clientVars, r2Vars, Requests, Receive, AcceptsParts, Listed
<1>13. CASE HandleAbort
  BY <1>0, <1>13, RequestsDiffer DEF HandleAbort, Inv, TypeOK, NeedsParts, AcknowledgedIsStored, CreatedOnce, CompletedOnce, FailureIsSignalled, clientVars, r2Vars, Requests, Receive
<1>14. CASE RejectOversized
  BY <1>0, <1>14, RequestsDiffer DEF RejectOversized, Inv, TypeOK, NeedsParts, AcknowledgedIsStored, CreatedOnce, CompletedOnce, FailureIsSignalled, clientVars, r2Vars, Requests
<1>15. CASE Persist
  BY <1>0, <1>15, RequestsDiffer DEF Persist, Inv, TypeOK, NeedsParts, AcknowledgedIsStored, CreatedOnce, CompletedOnce, FailureIsSignalled, clientVars, r2Vars, Requests, Answer
<1>16. CASE FailPersist
  BY <1>0, <1>16, RequestsDiffer DEF FailPersist, Inv, TypeOK, NeedsParts, AcknowledgedIsStored, CreatedOnce, CompletedOnce, FailureIsSignalled, clientVars, r2Vars, Requests
<1>17. ASSUME NEW i \in Idx, SendPart(i) PROVE Inv'
  BY <1>0, <1>17, RequestsDiffer DEF SendPart, Inv, TypeOK, NeedsParts, AcknowledgedIsStored, CreatedOnce, CompletedOnce, FailureIsSignalled, clientVars, r2Vars, Requests, Send
<1>18. ASSUME NEW i \in Idx, OnPart(i) PROVE Inv'
  BY <1>0, <1>18, RequestsDiffer DEF OnPart, Inv, TypeOK, NeedsParts, AcknowledgedIsStored, CreatedOnce, CompletedOnce, FailureIsSignalled, clientVars, r2Vars, Requests
<1>19. ASSUME NEW i \in Idx, FailPart(i) PROVE Inv'
  <2>1. /\ parts' \in [Idx -> {"waiting", "reading", "sending", "uploaded", "failed"}]
        /\ \A j \in Idx : parts'[j] = "uploaded" => parts[j] = "uploaded"
    BY <1>19 DEF FailPart, Inv, TypeOK
  <2>2. UNCHANGED <<file, createResp, nextIndex, answers, r2Vars, handler, published, abortLost>>
    BY <1>19 DEF FailPart
  <2>3. CASE client = "uploading" /\ Raise
    BY <1>0, <2>1, <2>2, <2>3, RequestsDiffer DEF Raise, Send, Inv, TypeOK, NeedsParts, AcknowledgedIsStored, CreatedOnce, CompletedOnce, FailureIsSignalled, clientVars, r2Vars, Requests
  <2>4. CASE UNCHANGED <<client, signal, network>>
    BY <1>0, <2>1, <2>2, <2>4 DEF Inv, TypeOK, NeedsParts, AcknowledgedIsStored, CreatedOnce, CompletedOnce, FailureIsSignalled, clientVars, r2Vars, Requests
  <2> QED
    BY <1>19, <2>3, <2>4 DEF FailPart
<1>20. ASSUME NEW i \in Idx, HandlePart(i) PROVE Inv'
  BY <1>0, <1>20, RequestsDiffer DEF HandlePart, Inv, TypeOK, NeedsParts, AcknowledgedIsStored, CreatedOnce, CompletedOnce, FailureIsSignalled, clientVars, r2Vars, Requests, Receive, Answer
<1>21. ASSUME NEW request \in network, Drop(request) PROVE Inv'
  BY <1>0, <1>21, RequestsDiffer DEF Drop, Receive, Inv, TypeOK, NeedsParts, AcknowledgedIsStored, CreatedOnce, CompletedOnce, FailureIsSignalled, clientVars, r2Vars, Requests
<1>22. CASE UNCHANGED vars
  BY <1>22 DEF vars, Inv, TypeOK, NeedsParts, AcknowledgedIsStored, CreatedOnce, CompletedOnce, FailureIsSignalled, clientVars, r2Vars, Requests
<1> QED
  BY <1>1, <1>2, <1>3, <1>4, <1>5, <1>6, <1>7, <1>8, <1>9, <1>10, <1>11, <1>12, <1>13, <1>14, <1>15, <1>16, <1>17, <1>18, <1>19, <1>20, <1>21, <1>22 DEF Next, PartStep

-----------------------------------------------------------------------------
(* What follows from it.                                                   *)

LEMMA Invariance == Spec => []Inv
BY InitInv, StepInv, PTL DEF Spec

\* The type invariant of MultipartUpload.
THEOREM TypeCorrect == Spec => []TypeOK
<1>1. Inv => TypeOK
  BY DEF Inv
<1> QED
  BY Invariance, <1>1, PTL

\* uploadMPUSource and handleMPUComplete: whatever is lost, late or cancelled,
\* nothing but the whole file is published, and a success is published.
THEOREM PublicationIsWhole == Spec => []PublishedIsWhole
<1>1. Inv => PublishedIsWhole
  <2> SUFFICES ASSUME Inv, published PROVE Whole
    BY DEF Inv, CompletedOnce, PublishedIsWhole
  <2>1. object = Indices(file)
    BY DEF Inv, CompletedOnce
  <2>2. file \in Files /\ StoredSize(file) > 0
    BY FileCounted DEF Inv
  <2> QED
    BY <2>1, <2>2, PartsCoverFile DEF Whole
<1> QED
  BY Invariance, <1>1, PTL

\* R2 never refuses the parts of an upload that is still open.
THEOREM CompletionAccepted == Spec => []CompletionIsAccepted
<1>1. Inv => CompletionIsAccepted
  <2> SUFFICES ASSUME Inv, Request("complete") \in network PROVE AcceptsParts
    BY DEF CompletionIsAccepted
  <2>1. Listed \subseteq stored
    BY DEF Inv, AcknowledgedIsStored, Listed
  <2>2. file \in Files /\ StoredSize(file) > 0
    BY FileCounted DEF Inv
  <2> QED
    BY <2>1, <2>2, PartsAreUniform DEF AcceptsParts, Listed
<1> QED
  BY Invariance, <1>1, PTL

\* The signal outlives the failure, so that no run of mapWithConcurrency sends
\* a part after the request that releases the upload.
THEOREM SilentAfterRelease == Spec => NothingSentAfterRelease
<1>1. Inv /\ [Next]_vars =>
        [(client \in {"releasing", "failed", "gone"}) => network' \subseteq network]_vars
  <2> SUFFICES ASSUME Inv, Next, client \in {"releasing", "failed", "gone"}
               PROVE  network' \subseteq network
    OBVIOUS
  <2>1. signal
    BY DEF Inv, FailureIsSignalled
  <2> QED
    BY <2>1 DEF Next, PartStep, Create, OnCreated, FailCreate, StartPart, SendPart, OnPart,
       FailPart, HandlePart, Complete, OnCompleted, FailComplete, Released, Cancel, Active, Kill,
       HandleCreate, HandleComplete, HandleAbort, RejectOversized, Persist, FailPersist, Drop,
       Receive
<1> QED
  BY Invariance, <1>1, PTL DEF Spec, NothingSentAfterRelease
=============================================================================
