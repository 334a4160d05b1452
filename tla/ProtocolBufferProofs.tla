------------------------ MODULE ProtocolBufferProofs ------------------------
(***************************************************************************)
(* What the operations of protocol::Buffer do to its contents, for every   *)
(* capacity and every set of bytes: the lemmas the proofs about its users  *)
(* rest on.                                                                *)
(***************************************************************************)
EXTENDS ProtocolBuffer, SequenceTheorems, FiniteSetTheorems, WellFoundedInduction, TLAPS

-----------------------------------------------------------------------------
(* Lemmas: numbers and sequences.                                          *)

\* A set of naturals has a least element: among the intervals 1..n that end
\* in it, one has no other inside.
LEMMA LeastElement ==
  ASSUME NEW S, S \subseteq Nat, S # {}
  PROVE  \E j \in S : \A n \in S : j <= n
<1> DEFINE T == {1..n : n \in S}
           R == StrictSubsetOrdering(Nat)
<1>1. T \subseteq FiniteSubsetsOf(Nat)
  <2>1. \A n \in S : IsFiniteSet(1..n) /\ 1..n \subseteq Nat
    BY FS_Interval
  <2> QED BY <2>1 DEF FiniteSubsetsOf
<1>2. T # {}
  OBVIOUS
<1>3. IsWellFoundedOn(R, FiniteSubsetsOf(Nat))
  BY FS_StrictSubsetOrderingWellFounded
<1>4. \E x \in T : \A y \in T : << y, x >> \notin R
  <2> HIDE DEF T, R
  <2> QED BY <1>1, <1>2, <1>3, WFMin
<1>5. PICK j \in S : \A n \in S : << 1..n, 1..j >> \notin R
  BY <1>4
<1>6. ASSUME NEW n \in S, n < j
      PROVE  FALSE
  <2>1. 1..n \subseteq 1..j /\ j \in 1..j /\ j \notin 1..n
    BY <1>6
  <2>2. << 1..n, 1..j >> \in R
    BY <2>1 DEF StrictSubsetOrdering
  <2> QED BY <2>2, <1>5
<1> QED BY <1>5, <1>6

\* The front of a sequence.
LEMMA FrontOf ==
  ASSUME NEW S, NEW s \in Seq(S), NEW n \in 0..Len(s)
  PROVE  /\ SubSeq(s, 1, n) \in Seq(S)
         /\ Len(SubSeq(s, 1, n)) = n
         /\ \A j \in 1..n : SubSeq(s, 1, n)[j] = s[j]
  OBVIOUS

\* The n elements behind the first m, u, go on with that front.
GoesOn(S, s, m, n, u) ==
  /\ u \in Seq(S) /\ Len(u) = n
  /\ SubSeq(s, 1, m + n) = SubSeq(s, 1, m) \o u
  /\ \A j \in 1..n : u[j] = s[m + j]

\* A front and what follows it.
LEMMA FrontAndNext ==
  ASSUME NEW S, NEW s \in Seq(S), NEW m \in 0..Len(s), NEW n \in 0..(Len(s) - m)
  PROVE  GoesOn(S, s, m, n, SubSeq(s, m + 1, m + n))
<1>1. SubSeq(s, 1, m + n) = SubSeq(s, 1, m) \o SubSeq(s, m + 1, m + n)
  OBVIOUS
<1>2. SubSeq(s, m + 1, m + n) \in Seq(S) /\ Len(SubSeq(s, m + 1, m + n)) = n
  OBVIOUS
<1>3. \A j \in 1..n : SubSeq(s, m + 1, m + n)[j] = s[m + j]
  OBVIOUS
<1> QED BY <1>1, <1>2, <1>3 DEF GoesOn

\* What is appended does not touch the front.
LEMMA FrontOfConcat ==
  ASSUME NEW S, NEW s \in Seq(S), NEW t \in Seq(S), NEW n \in 0..Len(s)
  PROVE  SubSeq(s \o t, 1, n) = SubSeq(s, 1, n)
  OBVIOUS

\* The parts of a sequence over S are sequences over S.
LEMMA PartsOf ==
  ASSUME NEW S, NEW T, NEW s \in Seq(T), NEW t \in Seq(T), s \o t \in Seq(S)
  PROVE  s \in Seq(S) /\ t \in Seq(S)
<1>1. /\ Len(s) \in Nat /\ Len(t) \in Nat /\ Len(s \o t) = Len(s) + Len(t)
      /\ \A j \in 1..Len(s) : (s \o t)[j] = s[j]
      /\ \A j \in 1..Len(t) : (s \o t)[Len(s) + j] = t[j]
  OBVIOUS
<1>2. \A j \in 1..(Len(s) + Len(t)) : (s \o t)[j] \in S
  BY <1>1, ElementOfSeq
<1>3. \A j \in 1..Len(s) : s[j] \in S
  BY <1>1, <1>2
<1>4. \A j \in 1..Len(t) : Len(s) + j \in 1..(Len(s) + Len(t))
  BY <1>1
<1>5. \A j \in 1..Len(t) : t[j] \in S
  BY <1>1, <1>2, <1>4
<1>6. s \in [1..Len(s) -> S] /\ t \in [1..Len(t) -> S]
  BY <1>3, <1>5, LenProperties
<1> QED BY <1>1, <1>6

-----------------------------------------------------------------------------
(* Lemmas: the buffer and its contents.                                    *)

\* A buffer whose size_ is set within the capacity is a buffer.
LEMMA SetSize ==
  ASSUME NEW b \in Buffer, NEW n \in 0..Cap
  PROVE  /\ [b EXCEPT !.size = n] \in Buffer
         /\ [b EXCEPT !.size = n].size = n
         /\ [b EXCEPT !.size = n].mem = b.mem
  BY DEF Buffer

\* A buffer whose memory is replaced is a buffer.
LEMMA SetMem ==
  ASSUME NEW b \in Buffer, NEW m \in [1..Cap -> Byte]
  PROVE  /\ [b EXCEPT !.mem = m] \in Buffer
         /\ [b EXCEPT !.mem = m].size = b.size
         /\ [b EXCEPT !.mem = m].mem = m
  BY DEF Buffer

\* The data are size_ bytes, the first of the array.
LEMMA ContentsAre ==
  ASSUME NEW b \in Buffer
  PROVE  /\ b.size \in 0..Cap /\ b.mem \in [1..Cap -> Byte]
         /\ Contents(b) \in Seq(Byte)
         /\ Len(Contents(b)) = b.size
         /\ \A j \in 1..b.size : Contents(b)[j] = b.mem[j]
<1>1. b.size \in 0..Cap /\ b.mem \in [1..Cap -> Byte]
  BY DEF Buffer
<1>2. b.mem \in Seq(Byte) /\ Len(b.mem) = Cap
  BY <1>1, CapAssumption
<1> QED BY <1>1, <1>2, FrontOf DEF Contents

\* A buffer of the size of s whose first bytes are s contains s.
LEMMA ContentsEqual ==
  ASSUME NEW b \in Buffer, NEW s \in Seq(Byte), b.size = Len(s),
         \A j \in 1..b.size : b.mem[j] = s[j]
  PROVE  Contents(b) = s
<1>1. /\ Contents(b) \in Seq(Byte) /\ Len(Contents(b)) = Len(s)
      /\ \A j \in 1..Len(s) : Contents(b)[j] = s[j]
  BY ContentsAre
<1> DEFINE c == Contents(b)
<1> HIDE DEF c
<1>2. c = s
  BY <1>1, SeqEqual DEF c
<1> QED BY <1>2 DEF c

\* A buffer of size 0 is empty, whatever its array holds.
LEMMA EmptyContents ==
  ASSUME NEW b \in Buffer, b.size = 0
  PROVE  Contents(b) = << >>
  BY ContentsAre, EmptySeq

\* Bytes stored behind the first offset ones.
LEMMA StoreAt ==
  ASSUME NEW b \in Buffer, NEW bytes \in Seq(Byte), NEW offset \in 0..(Cap - Len(bytes))
  PROVE  /\ Store(b, offset, bytes) \in Buffer
         /\ Store(b, offset, bytes).size = b.size
         /\ \A j \in 1..Len(bytes) : Store(b, offset, bytes).mem[offset + j] = bytes[j]
         /\ \A j \in 1..offset : Store(b, offset, bytes).mem[j] = b.mem[j]
<1> DEFINE n == Len(bytes)
           m == [j \in 1..Cap |-> IF j - offset \in 1..n THEN bytes[j - offset] ELSE b.mem[j]]
<1>1. n \in Nat /\ Cap \in Nat /\ b.mem \in [1..Cap -> Byte] /\ \A j \in 1..n : bytes[j] \in Byte
  BY LenProperties, ElementOfSeq, CapAssumption DEF Buffer
<1>2. m \in [1..Cap -> Byte]
  BY <1>1
<1>3. \A j \in 1..n : offset + j \in 1..Cap /\ (offset + j) - offset = j
  BY <1>1
<1>4. \A j \in 1..n : m[offset + j] = bytes[j]
  BY <1>1, <1>3
<1>5. \A j \in 1..offset : j \in 1..Cap /\ j - offset \notin 1..n
  BY <1>1
<1>6. \A j \in 1..offset : m[j] = b.mem[j]
  BY <1>5
<1>7. Store(b, offset, bytes) = [b EXCEPT !.mem = m]
  BY DEF Store
<1> HIDE DEF m
<1> QED BY <1>2, <1>4, <1>6, <1>7, SetMem

\* append(), and a read behind the data with increase_size(): the bytes come
\* behind the contents.
LEMMA AppendContents ==
  ASSUME NEW b \in Buffer, NEW bytes \in Seq(Byte), Len(bytes) <= FreeSpace(b)
  PROVE  /\ IncreaseSize(Store(b, b.size, bytes), Len(bytes)) \in Buffer
         /\ IncreaseSize(Store(b, b.size, bytes), Len(bytes)).size = b.size + Len(bytes)
         /\ Contents(IncreaseSize(Store(b, b.size, bytes), Len(bytes))) = Contents(b) \o bytes
<1> DEFINE n == Len(bytes)
           s == Store(b, b.size, bytes)
           t == IncreaseSize(s, n)
           c == Contents(b)
<1>1. n \in Nat /\ b.size \in 0..(Cap - n) /\ b.size \in Nat /\ b.size + n \in 0..Cap
  BY CapAssumption, LenProperties DEF Buffer, FreeSpace
<1>2. /\ s \in Buffer /\ s.size = b.size
      /\ \A j \in 1..n : s.mem[b.size + j] = bytes[j]
      /\ \A j \in 1..b.size : s.mem[j] = b.mem[j]
  BY <1>1, StoreAt
<1>3. /\ c \in Seq(Byte) /\ Len(c) = b.size
      /\ \A j \in 1..b.size : c[j] = b.mem[j]
  BY ContentsAre
<1> HIDE DEF s, c
<1>4. t \in Buffer /\ t.size = b.size + n /\ t.mem = s.mem
  BY <1>1, <1>2, SetSize DEF IncreaseSize
<1>5. /\ c \o bytes \in Seq(Byte) /\ Len(c \o bytes) = b.size + n
      /\ \A j \in 1..(b.size + n) : (c \o bytes)[j] = IF j <= b.size THEN c[j] ELSE bytes[j - b.size]
  <2>1. c \o bytes \in Seq(Byte) /\ Len(c \o bytes) = Len(c) + n
    BY <1>3, ConcatProperties
  <2>2. \A j \in 1..(Len(c) + n) : (c \o bytes)[j] = IF j <= Len(c) THEN c[j] ELSE bytes[j - Len(c)]
    BY <1>3, ConcatProperties
  <2> QED
    BY <1>3, <2>1, <2>2
<1> HIDE DEF t
<1>6. ASSUME NEW j \in 1..t.size PROVE t.mem[j] = (c \o bytes)[j]
  <2>1. CASE j <= b.size
    <3>1. j \in 1..b.size
      BY <1>1, <1>4, <2>1
    <3> QED BY <1>2, <1>3, <1>4, <1>5, <2>1, <3>1
  <2>2. CASE ~(j <= b.size)
    <3>1. j - b.size \in 1..n /\ b.size + (j - b.size) = j
      BY <1>1, <1>4, <2>2
    <3> QED BY <1>2, <1>4, <1>5, <2>2, <3>1
  <2> QED BY <2>1, <2>2
<1>7. Contents(t) = c \o bytes
  BY <1>4, <1>5, <1>6, ContentsEqual
<1> QED BY <1>4, <1>7 DEF s, t, c

\* find_delim: the first delimiter among the data, 0 if there is none.
LEMMA FindDelimIs ==
  ASSUME NEW b \in Buffer, NEW d
  PROVE  /\ FindDelim(b, d) \in 0..b.size
         /\ FindDelim(b, d) > 0 => b.mem[FindDelim(b, d)] = d
         /\ \A j \in 1..b.size : b.mem[j] = d => FindDelim(b, d) > 0 /\ FindDelim(b, d) <= j
<1> DEFINE P(j) == b.mem[j] = d
           First(j) == P(j) /\ \A n \in 1..(j - 1) : ~P(n)
<1>1. b.size \in Nat
  BY DEF Buffer
<1>2. CASE \E j \in 1..b.size : P(j)
  <2>1. \E j \in 1..b.size : First(j)
    <3> DEFINE S == {j \in 1..b.size : P(j)}
    <3>1. S # {} /\ S \subseteq Nat
      BY <1>2
    <3>2. \E j \in S : \A n \in S : j <= n
      <4> HIDE DEF S
      <4> QED BY <3>1, LeastElement
    <3> QED BY <3>2, <1>1
  <2>2. FindDelim(b, d) \in 1..b.size /\ First(FindDelim(b, d))
    BY <2>1, <1>2 DEF FindDelim
  <2>3. \A j \in 1..b.size : P(j) => ~(j \in 1..(FindDelim(b, d) - 1))
    BY <2>2
  <2> QED BY <1>1, <2>2, <2>3
<1>3. CASE ~\E j \in 1..b.size : P(j)
  BY <1>3, <1>1 DEF FindDelim
<1> QED BY <1>2, <1>3

\* compact leaves a buffer.
LEMMA CompactType ==
  ASSUME NEW b \in Buffer, NEW len \in Nat
  PROVE  Compact(b, len) \in Buffer
<1>1. CASE len > b.size
  <2>1. 0 \in 0..Cap
    BY CapAssumption
  <2> QED BY <1>1, <2>1, SetSize DEF Compact, ClearBuffer
<1>2. CASE ~(len > b.size)
  <2> DEFINE m == [j \in 1..Cap |-> IF j + len <= b.size THEN b.mem[j + len] ELSE b.mem[j]]
  <2>1. b.size \in 0..Cap /\ b.mem \in [1..Cap -> Byte] /\ Cap \in Nat
    BY CapAssumption DEF Buffer
  <2>2. m \in [1..Cap -> Byte]
    BY <2>1
  <2>3. b.size - len \in 0..Cap
    BY <2>1, <1>2
  <2> HIDE DEF m
  <2>4. [mem |-> m, size |-> b.size - len] \in Buffer
    BY <2>2, <2>3 DEF Buffer
  <2> QED BY <2>4, <1>2 DEF Compact, m
<1> QED BY <1>1, <1>2

\* consume_once: the first chunk, which ends with the delimiter and has no
\* other, followed by what is left, is what the buffer contained.
LEMMA ConsumeContents ==
  ASSUME NEW b \in Buffer, NEW d
  PROVE  /\ ConsumeOnce(b, d) \in Buffer
         /\ ConsumeOnce(b, d).size = b.size - FindDelim(b, d)
         /\ FirstChunk(b, d) \in Seq(Byte)
         /\ FirstChunk(b, d) = SubSeq(Contents(b), 1, FindDelim(b, d))
         /\ Len(FirstChunk(b, d)) = FindDelim(b, d)
         /\ FirstChunk(b, d) \o Contents(ConsumeOnce(b, d)) = Contents(b)
<1> DEFINE n == FindDelim(b, d)
           r == ConsumeOnce(b, d)
           c == Contents(b)
           f == FirstChunk(b, d)
<1>1. n \in 0..b.size /\ b.size \in 0..Cap /\ b.size \in Nat /\ n \in Nat /\ Cap \in Nat
  BY FindDelimIs, CapAssumption DEF Buffer
<1>2. /\ c \in Seq(Byte) /\ Len(c) = b.size /\ b.mem \in [1..Cap -> Byte]
      /\ \A j \in 1..b.size : c[j] = b.mem[j]
  BY ContentsAre
<1> HIDE DEF n, c
<1>3. r \in Buffer /\ r.size = b.size - n /\ \A j \in 1..(b.size - n) : r.mem[j] = b.mem[j + n]
  <2>1. CASE n = 0
    <3>1. r = b /\ b.size - 0 = b.size
      BY <1>1, <2>1 DEF ConsumeOnce, n
    <3>2. \A j \in 1..b.size : j + 0 = j
      BY <1>1
    <3> QED BY <2>1, <3>1, <3>2
  <2>2. CASE n # 0
    <3>1. r = Compact(b, n) /\ ~(n > b.size)
      BY <1>1, <2>2 DEF ConsumeOnce, n
    <3>2. r = [mem  |-> [j \in 1..Cap |-> IF j + n <= b.size THEN b.mem[j + n] ELSE b.mem[j]],
               size |-> b.size - n]
      BY <3>1 DEF Compact
    <3>3. \A j \in 1..(b.size - n) : j \in 1..Cap /\ j + n <= b.size
      BY <1>1
    <3>4. r \in Buffer
      BY <1>1, <3>1, CompactType
    <3> HIDE DEF r
    <3>5. r.size = b.size - n /\ \A j \in 1..(b.size - n) : r.mem[j] = b.mem[j + n]
      BY <3>2, <3>3
    <3> QED BY <3>4, <3>5
  <2> QED BY <2>1, <2>2
<1> HIDE DEF r
<1>4. f = SubSeq(c, 1, n) /\ f \in Seq(Byte) /\ Len(f) = n /\ \A j \in 1..n : f[j] = c[j]
  <2>1. /\ b.mem \in Seq(Byte) /\ Len(b.mem) = Cap /\ n \in 0..Cap
    BY <1>1, <1>2
  <2>2. /\ SubSeq(b.mem, 1, n) \in Seq(Byte) /\ Len(SubSeq(b.mem, 1, n)) = n
        /\ \A j \in 1..n : SubSeq(b.mem, 1, n)[j] = b.mem[j]
    BY <2>1, FrontOf
  <2>3. /\ SubSeq(c, 1, n) \in Seq(Byte) /\ Len(SubSeq(c, 1, n)) = n
        /\ \A j \in 1..n : SubSeq(c, 1, n)[j] = c[j]
    BY <1>1, <1>2, FrontOf
  <2>4. f = SubSeq(b.mem, 1, n)
    BY DEF FirstChunk, n
  <2>5. \A j \in 1..n : j \in 1..b.size
    BY <1>1
  <2> DEFINE g == SubSeq(c, 1, n)
  <2>6. f \in Seq(Byte) /\ g \in Seq(Byte) /\ Len(f) = n /\ Len(g) = n
        /\ \A j \in 1..n : f[j] = g[j] /\ g[j] = c[j]
    BY <1>2, <2>2, <2>3, <2>4, <2>5
  <2> HIDE DEF f, g
  <2>7. f = g
    BY <2>6, SeqEqual
  <2> QED BY <2>6, <2>7 DEF g
<1> HIDE DEF f
<1> DEFINE q == SubSeq(c, n + 1, n + (b.size - n))
<1>5. /\ SubSeq(c, 1, n + (b.size - n)) = SubSeq(c, 1, n) \o q
      /\ q \in Seq(Byte) /\ Len(q) = b.size - n
      /\ \A j \in 1..(b.size - n) : q[j] = c[n + j]
  <2>1. n \in 0..Len(c) /\ b.size - n \in 0..(Len(c) - n)
    BY <1>1, <1>2
  <2> DEFINE e == b.size - n
  <2> HIDE DEF e
  <2>2. GoesOn(Byte, c, n, e, SubSeq(c, n + 1, n + e))
    <3>1. c \in Seq(Byte) /\ n \in 0..Len(c) /\ e \in 0..(Len(c) - n)
      BY <1>2, <2>1 DEF e
    <3> QED BY <3>1, FrontAndNext
  <2> QED BY <2>2 DEF GoesOn, e, q
<1>6. SubSeq(c, 1, n + (b.size - n)) = c
  <2>1. n + (b.size - n) = Len(c)
    BY <1>1, <1>2
  <2> QED BY <1>2, <2>1, SubSeqFull
<1> HIDE DEF q
<1>7. \A j \in 1..(b.size - n) : n + j = j + n /\ n + j \in 1..b.size
  BY <1>1
<1>8. Contents(r) = q
  <2>1. \A j \in 1..(b.size - n) : r.mem[j] = q[j]
    BY <1>2, <1>3, <1>5, <1>7
  <2> QED BY <1>3, <1>5, <2>1, ContentsEqual
<1>9. f \o Contents(r) = c
  BY <1>4, <1>5, <1>6, <1>8
<1> QED BY <1>3, <1>4, <1>9 DEF n, r, c, f

\* clear().
LEMMA ClearContents ==
  ASSUME NEW b \in Buffer
  PROVE  /\ ClearBuffer(b) \in Buffer
         /\ ClearBuffer(b).size = 0
         /\ Contents(ClearBuffer(b)) = << >>
<1>1. 0 \in 0..Cap
  BY CapAssumption
<1>2. ClearBuffer(b) \in Buffer /\ ClearBuffer(b).size = 0
  BY <1>1, SetSize DEF ClearBuffer
<1> QED BY <1>2, EmptyContents

\* The copy operations: the contents of the other, whatever the memory of the
\* object that is assigned.
LEMMA CopyContents ==
  ASSUME NEW b \in Buffer, NEW other \in Buffer
  PROVE  /\ CopyFrom(b, other) \in Buffer
         /\ Contents(CopyFrom(b, other)) = Contents(other)
<1> DEFINE c == Contents(other)
           s == Store(b, 0, c)
           t == CopyFrom(b, other)
<1>1. c \in Seq(Byte) /\ Len(c) = other.size /\ other.size \in 0..Cap
  BY ContentsAre
<1> HIDE DEF c
<1>2. 0 \in 0..(Cap - Len(c))
  BY <1>1, CapAssumption
<1>3. s \in Buffer /\ \A j \in 1..Len(c) : s.mem[0 + j] = c[j]
  BY <1>1, <1>2, StoreAt
<1>4. t = [s EXCEPT !.size = other.size]
  BY DEF CopyFrom, c
<1> HIDE DEF s, t
<1>5. t \in Buffer /\ t.size = other.size /\ t.mem = s.mem
  BY <1>1, <1>3, <1>4, SetSize
<1>6. \A j \in 1..Len(c) : 0 + j = j
  BY <1>1
<1>7. Contents(t) = c
  BY <1>1, <1>3, <1>5, <1>6, ContentsEqual
<1> QED BY <1>5, <1>7 DEF t, c

\* A chunk that is taken out of a buffer of users' bytes ends with its delimiter,
\* and it and what is left of the buffer are users' bytes.
LEMMA ChunkOut ==
  ASSUME NEW b \in Buffer, NEW d, Contents(b) \in Seq(Text \cup {NL})
  PROVE  /\ ConsumeOnce(b, d) \in Buffer
         /\ FirstChunk(b, d) \in Seq(Text \cup {NL}) /\ Contents(ConsumeOnce(b, d)) \in Seq(Text \cup {NL})
         /\ FirstChunk(b, d) \o Contents(ConsumeOnce(b, d)) = Contents(b)
         /\ FindDelim(b, d) > 0 => /\ Len(FirstChunk(b, d)) \in Nat \ {0}
                                    /\ FirstChunk(b, d)[Len(FirstChunk(b, d))] = d
<1> DEFINE f == FirstChunk(b, d)
           r == ConsumeOnce(b, d)
           n == FindDelim(b, d)
<1>1. /\ r \in Buffer /\ f \in Seq(Byte) /\ Len(f) = n /\ f \o Contents(r) = Contents(b)
      /\ f = SubSeq(Contents(b), 1, n)
  BY ConsumeContents
<1>2. n \in 0..b.size /\ (n > 0 => b.mem[n] = d)
  BY FindDelimIs
<1>3. /\ Contents(b) \in Seq(Byte) /\ Len(Contents(b)) = b.size /\ b.size \in Nat
      /\ \A j \in 1..b.size : Contents(b)[j] = b.mem[j]
  BY ContentsAre
<1>4. Contents(r) \in Seq(Byte)
  BY <1>1, ContentsAre
<1> HIDE DEF f, r, n
<1>5. f \in Seq(Text \cup {NL}) /\ Contents(r) \in Seq(Text \cup {NL})
  <2> DEFINE c == Contents(r)
             T == Text \cup {NL}
  <2>1. f \in Seq(Byte) /\ c \in Seq(Byte) /\ f \o c \in Seq(T)
    BY <1>1, <1>4
  <2> HIDE DEF c, T
  <2>2. f \in Seq(T) /\ c \in Seq(T)
    BY <2>1, PartsOf
  <2> QED BY <2>2 DEF c, T
<1>6. n > 0 => Len(f) \in Nat \ {0} /\ f[Len(f)] = d
  <2>1. n \in 0..Len(Contents(b))
    BY <1>2, <1>3
  <2>2. \A j \in 1..n : SubSeq(Contents(b), 1, n)[j] = Contents(b)[j]
    BY <1>3, <2>1, FrontOf
  <2> QED BY <1>1, <1>2, <1>3, <2>2
<1> QED BY <1>1, <1>5, <1>6 DEF f, r, n
=============================================================================
