-------------------------- MODULE LineBufferProofs --------------------------
(***************************************************************************)
(* Theorems about LineBuffer, for every capacity, every number of buffers, *)
(* every sequence of calls and everything their callers append: a buffer   *)
(* shows nobody a byte that was not put into it, and its fixed array is a  *)
(* queue of bytes (ByteQueue).                                             *)
(***************************************************************************)
EXTENDS LineBuffer, ProtocolBufferProofs

Bytes == Seq(Text \cup {NL})

-----------------------------------------------------------------------------
(* Type correctness.                                                       *)

\* A buffer is changed, and is one of users' bytes again.
LEMMA OneChanged ==
  ASSUME NEW f \in [Buffers -> Buffer], \A z \in Buffers : Contents(f[z]) \in Bytes,
         NEW x \in Buffers, NEW b \in Buffer, Contents(b) \in Bytes
  PROVE  /\ [f EXCEPT ![x] = b] \in [Buffers -> Buffer]
         /\ \A z \in Buffers : Contents([f EXCEPT ![x] = b][z]) \in Bytes
  OBVIOUS

\* What is appended is what the callers have.
LEMMA AppendedBytes ==
  ASSUME NEW b \in Buffer, Contents(b) \in Bytes, NEW bytes \in Bytes, Fits(b, Len(bytes))
  PROVE  /\ AppendBytes(b, bytes) \in Buffer
         /\ Contents(AppendBytes(b, bytes)) = Contents(b) \o bytes
         /\ Contents(AppendBytes(b, bytes)) \in Bytes
<1>1. bytes \in Seq(Byte)
  <2>1. Text \cup {NL} \subseteq Byte
    BY DEF Byte
  <2> QED BY <2>1, SeqMonotonic DEF Bytes
<1>2. /\ AppendBytes(b, bytes) \in Buffer
      /\ Contents(AppendBytes(b, bytes)) = Contents(b) \o bytes
  BY <1>1, AppendContents DEF AppendBytes, Fits
<1>3. Contents(b) \o bytes \in Bytes
  BY ConcatProperties DEF Bytes
<1> QED BY <1>2, <1>3

\* Memory no byte was stored in is memory.
LEMMA NewBuffers == Uninitialised \in Buffer /\ Contents(Uninitialised) = << >>
<1>1. Uninitialised \in Buffer /\ Uninitialised.size = 0
  BY CapAssumption DEF Uninitialised, Buffer, Byte
<1> QED BY <1>1, EmptyContents

LEMMA TypeInit == Init => TypeOK
<1> SUFFICES ASSUME Init PROVE TypeOK
  OBVIOUS
<1>1. << >> \in Bytes
  BY EmptySeq DEF Bytes
<1> QED BY <1>1, NewBuffers DEF Init, TypeOK, Bytes

LEMMA TypeNext == TypeOK /\ [Next]_vars => TypeOK'
<1> SUFFICES ASSUME TypeOK, [Next]_vars PROVE TypeOK'
  OBVIOUS
<1>1. /\ buf \in [Buffers -> Buffer] /\ \A z \in Buffers : Contents(buf[z]) \in Bytes
      /\ call \in Calls \cup {None} /\ collected \in Bytes /\ given \in Bytes
  BY DEF TypeOK, Bytes
<1>2. \A z \in Buffers : buf[z] \in Buffer
  BY <1>1
<1>3. << >> \in Bytes
  BY EmptySeq DEF Bytes
<1> DEFINE BufOK == buf \in [Buffers -> Buffer] /\ \A z \in Buffers : Contents(buf[z]) \in Bytes
           RestOK == call \in Calls \cup {None} /\ collected \in Bytes /\ given \in Bytes
<1>4. BufOK' /\ RestOK' => TypeOK'
  BY DEF TypeOK, Bytes
<1>5. ASSUME NEW x \in Buffers, AppendCall(x)
      PROVE  TypeOK'
  <2>1. PICK bytes \in Bytes :
          /\ Fits(buf[x], Len(bytes)) /\ buf' = [buf EXCEPT ![x] = AppendBytes(buf[x], bytes)]
    BY <1>5, CallerAssumption DEF AppendCall, Bytes
  <2>2. AppendBytes(buf[x], bytes) \in Buffer /\ Contents(AppendBytes(buf[x], bytes)) \in Bytes
    BY <1>1, <1>2, <2>1, AppendedBytes
  <2>3. BufOK'
    BY <1>1, <2>1, <2>2, OneChanged
  <2>4. RestOK'
    BY <1>1, <1>5 DEF AppendCall
  <2> QED BY <1>4, <2>3, <2>4
<1>6. ASSUME NEW x \in Buffers, ConsumeOnceCall(x)
      PROVE  TypeOK'
  <2>1. PICK d \in Delims : /\ given' = FirstChunk(buf[x], d)
                            /\ buf' = [buf EXCEPT ![x] = ConsumeOnce(buf[x], d)]
    BY <1>6 DEF ConsumeOnceCall
  <2>2. /\ ConsumeOnce(buf[x], d) \in Buffer /\ Contents(ConsumeOnce(buf[x], d)) \in Bytes
        /\ FirstChunk(buf[x], d) \in Bytes
    BY <1>1, <1>2, ChunkOut DEF Bytes
  <2>3. BufOK'
    BY <1>1, <2>1, <2>2, OneChanged
  <2>4. RestOK'
    BY <1>1, <1>6, <2>1, <2>2 DEF ConsumeOnceCall
  <2> QED BY <1>4, <2>3, <2>4
<1>7. ASSUME NEW x \in Buffers, Clear(x)
      PROVE  TypeOK'
  <2>1. ClearBuffer(buf[x]) \in Buffer /\ Contents(ClearBuffer(buf[x])) \in Bytes
    BY <1>2, <1>3, ClearContents
  <2>2. BufOK'
    BY <1>1, <1>7, <2>1, OneChanged DEF Clear
  <2>3. RestOK'
    BY <1>1, <1>7 DEF Clear
  <2> QED BY <1>4, <2>2, <2>3
<1>8. ASSUME NEW x \in Buffers, NEW y \in Buffers, CopyAssign(x, y)
      PROVE  TypeOK'
  <2>1. PICK t \in Buffer : buf' = [buf EXCEPT ![x] = CopyFrom(t, buf[y])]
    BY <1>2, <1>8, NewBuffers DEF CopyAssign, Target
  <2>2. CopyFrom(t, buf[y]) \in Buffer /\ Contents(CopyFrom(t, buf[y])) \in Bytes
    BY <1>1, <1>2, CopyContents
  <2>3. BufOK'
    BY <1>1, <2>1, <2>2, OneChanged
  <2>4. RestOK'
    BY <1>1, <1>8 DEF CopyAssign
  <2> QED BY <1>4, <2>3, <2>4
<1>9. ASSUME NEW x \in Buffers, NEW y \in Buffers, MoveAssign(x, y)
      PROVE  TypeOK'
  <2>1. PICK t \in Buffer :
          buf' = [buf EXCEPT ![x] = CopyFrom(t, buf[y]), ![y] = ClearBuffer(buf[y])]
    BY <1>2, <1>9, NewBuffers DEF MoveAssign, Target
  <2> DEFINE f == [buf EXCEPT ![x] = CopyFrom(t, buf[y])]
  <2>2. CopyFrom(t, buf[y]) \in Buffer /\ Contents(CopyFrom(t, buf[y])) \in Bytes
    BY <1>1, <1>2, CopyContents
  <2>3. f \in [Buffers -> Buffer] /\ \A z \in Buffers : Contents(f[z]) \in Bytes
    BY <1>1, <2>2, OneChanged
  <2>4. ClearBuffer(buf[y]) \in Buffer /\ Contents(ClearBuffer(buf[y])) \in Bytes
    BY <1>2, <1>3, ClearContents
  <2>5. buf' = [f EXCEPT ![y] = ClearBuffer(buf[y])]
    BY <2>1
  <2> HIDE DEF f
  <2>6. BufOK'
    BY <2>3, <2>4, <2>5, OneChanged
  <2>7. RestOK'
    BY <1>1, <1>9 DEF MoveAssign
  <2> QED BY <1>4, <2>6, <2>7
<1>10. ASSUME NEW x \in Buffers, BeginFull(x) \/ BeginFd(x)
       PROVE  TypeOK'
  BY <1>1, <1>3, <1>4, <1>10 DEF BeginFull, BeginFd, Calls
<1>11. ASSUME call.op \in {"full", "once_fd", "full_fd"}
       PROVE  /\ call \in Calls /\ call.b \in Buffers /\ buf[call.b] \in Buffer
              /\ ConsumeOnce(buf[call.b], call.d) \in Buffer
              /\ Contents(ConsumeOnce(buf[call.b], call.d)) \in Bytes
              /\ Chunk \in Bytes
              /\ Found => Len(Chunk) \in Nat \ {0}
  <2>1. call \in Calls /\ call.b \in Buffers
    BY <1>1, <1>11 DEF None, Calls
  <2> QED BY <1>1, <1>2, <2>1, ChunkOut DEF Chunk, Found, Bytes
<1>12. CASE Collect
  <2>1. BufOK'
    BY <1>1, <1>11, <1>12, OneChanged DEF Collect, Cut
  <2>2. RestOK'
    BY <1>1, <1>11, <1>12, ConcatProperties DEF Collect, Bytes
  <2> QED BY <1>4, <2>1, <2>2
<1>13. CASE EndFull \/ EndFd
  BY <1>1, <1>3, <1>4, <1>13 DEF EndFull, EndFd
<1>14. CASE Write
  <2>1. BufOK'
    BY <1>1, <1>11, <1>14, OneChanged DEF Write, Sending, Cut
  <2>2. RestOK'
    BY <1>1, <1>11, <1>14, ConcatProperties DEF Write, Sending, Bytes
  <2> QED BY <1>4, <2>1, <2>2
<1>15. CASE WriteThrows
  <2>1. Chunk \in Bytes /\ Len(Chunk) \in Nat \ {0}
    BY <1>11, <1>15 DEF WriteThrows, Sending
  <2>2. PICK n \in 0..(Len(Chunk) - 1) : given' = given \o SubSeq(Chunk, 1, n)
    BY <1>15 DEF WriteThrows
  <2>3. SubSeq(Chunk, 1, n) \in Bytes
    BY <2>1, FrontOf DEF Bytes
  <2>4. RestOK' /\ BufOK'
    BY <1>1, <1>15, <2>2, <2>3, ConcatProperties DEF WriteThrows, Bytes
  <2> QED BY <1>4, <2>4
<1>16. CASE UNCHANGED vars
  BY <1>1, <1>4, <1>16 DEF vars
<1> QED
  BY <1>5, <1>6, <1>7, <1>8, <1>9, <1>10, <1>12, <1>13, <1>14, <1>15, <1>16 DEF Next, Running

\* For every capacity and every sequence of calls: size_ stays within the
\* array, and no caller is handed a byte of the memory behind the data.
THEOREM BufferTypeCorrect == Spec => []TypeOK
  BY TypeInit, TypeNext, PTL DEF Spec

-----------------------------------------------------------------------------
(* A buffer is a queue.                                                    *)

\* What consume_full has collected ends with the delimiter: it is whole lines.
WholeChunks ==
  call.op = "full" /\ collected # << >> => collected[Len(collected)] = call.d

\* The last byte of two sequences is that of the second.
LEMMA LastOfConcat ==
  ASSUME NEW s \in Bytes, NEW t \in Bytes, Len(t) \in Nat \ {0}
  PROVE  (s \o t)[Len(s \o t)] = t[Len(t)]
  BY DEF Bytes

\* What is left of two sequences behind the first is the second.
LEMMA RestOfConcat ==
  ASSUME NEW s \in Bytes, NEW t \in Bytes
  PROVE  /\ Queue!Rest(s \o t, Len(s)) = t /\ Queue!Front(s \o t, Len(s)) = s
         /\ Len(s) \in 0..Len(s \o t)
         /\ << >> \o s = s
  BY DEF Bytes, Queue!Rest, Queue!Front

LEMMA ChunksStep == TypeOK /\ WholeChunks /\ [Next]_vars => WholeChunks'
<1> SUFFICES ASSUME TypeOK, WholeChunks, [Next]_vars PROVE WholeChunks'
  OBVIOUS
<1>1. CASE Collect
  <2>1. call \in Calls /\ call.b \in Buffers /\ Found /\ call' = call
        /\ collected' = collected \o Chunk
    BY <1>1 DEF Collect, TypeOK, None, Calls
  <2>2. buf[call.b] \in Buffer /\ Contents(buf[call.b]) \in Bytes /\ collected \in Bytes
    BY <2>1 DEF TypeOK, Bytes
  <2>3. Chunk \in Bytes /\ Len(Chunk) \in Nat \ {0} /\ Chunk[Len(Chunk)] = call.d
    BY <2>1, <2>2, ChunkOut DEF Chunk, Found, Bytes
  <2>4. collected'[Len(collected')] = Chunk[Len(Chunk)]
    BY <2>1, <2>2, <2>3, LastOfConcat
  <2> QED BY <2>1, <2>3, <2>4 DEF WholeChunks
<1>2. ASSUME NEW x \in Buffers, BeginFull(x)
      PROVE  WholeChunks'
  BY <1>2 DEF BeginFull, WholeChunks
<1>3. ASSUME NEW x \in Buffers, BeginFd(x)
      PROVE  call'.op # "full"
  BY <1>3 DEF BeginFd
<1>4. ASSUME EndFull \/ WriteThrows \/ EndFd
      PROVE  call'.op # "full"
  BY <1>4 DEF EndFull, WriteThrows, EndFd, None
<1>5. CASE Write
  BY <1>5 DEF Write, Sending, WholeChunks, None
<1>6. CASE UNCHANGED <<call, collected>>
  BY <1>6 DEF WholeChunks
<1> QED
  BY <1>1, <1>2, <1>3, <1>4, <1>5, <1>6
     DEF Next, Running, vars, AppendCall, ConsumeOnceCall, Clear, CopyAssign, MoveAssign,
         WholeChunks

QueueInv == TypeOK /\ WholeChunks

LEMMA QueueInvInductive == Spec => []QueueInv
<1>1. Init => QueueInv
  BY TypeInit DEF Init, QueueInv, WholeChunks, None
<1>2. QueueInv /\ [Next]_vars => QueueInv'
  BY TypeNext, ChunksStep DEF QueueInv
<1> QED BY <1>1, <1>2, PTL DEF Spec

\* The first chunk of a buffer is the first of its queue.
LEMMA ChunkIsFirst ==
  ASSUME NEW b \in Buffer, Contents(b) \in Bytes, NEW d
  PROVE  /\ FindDelim(b, d) \in 0..Len(Contents(b))
         /\ Queue!EndsFirst(Contents(b), d, FindDelim(b, d))
         /\ FirstChunk(b, d) = Queue!Front(Contents(b), FindDelim(b, d))
         /\ Contents(ConsumeOnce(b, d)) = Queue!Rest(Contents(b), FindDelim(b, d))
<1> DEFINE c == Contents(b)
           n == FindDelim(b, d)
           f == FirstChunk(b, d)
           r == Contents(ConsumeOnce(b, d))
<1>1. /\ b.size \in Nat /\ Len(c) = b.size /\ \A j \in 1..b.size : c[j] = b.mem[j]
  BY ContentsAre
<1>2. /\ n \in 0..b.size /\ (n > 0 => b.mem[n] = d)
      /\ \A j \in 1..b.size : b.mem[j] = d => n > 0 /\ n <= j
  BY FindDelimIs
<1>3. f \in Bytes /\ r \in Bytes /\ f \o r = c
  BY ChunkOut DEF Bytes
<1>4. Len(f) = n /\ f = SubSeq(c, 1, n)
  BY ConsumeContents
<1> HIDE DEF c, n, f, r
<1>5. Queue!EndsFirst(c, d, n)
  BY <1>1, <1>2 DEF Queue!EndsFirst, Queue!Positions
<1>6. r = Queue!Rest(c, n) /\ f = Queue!Front(c, n)
  BY <1>3, <1>4, RestOfConcat
<1> QED BY <1>1, <1>2, <1>5, <1>6 DEF c, n, f, r

\* Whole lines in front of what has no line are all the lines.
LEMMA LinesAreLast ==
  ASSUME NEW s \in Bytes, NEW t \in Bytes, NEW d,
         s # << >> => s[Len(s)] = d,
         \A j \in 1..Len(t) : t[j] # d
  PROVE  Queue!EndsLast(s \o t, d, Len(s))
<1>1. /\ Len(s) \in Nat /\ Len(t) \in Nat /\ Len(s \o t) = Len(s) + Len(t)
      /\ \A j \in 1..(Len(s) + Len(t)) :
           (s \o t)[j] = IF j <= Len(s) THEN s[j] ELSE t[j - Len(s)]
  BY ConcatProperties, LenProperties DEF Bytes
<1>2. \A j \in 1..Len(s \o t) : (s \o t)[j] = d => j <= Len(s)
  <2> SUFFICES ASSUME NEW j \in 1..Len(s \o t), (s \o t)[j] = d, ~(j <= Len(s)) PROVE FALSE
    BY <1>1
  <2>1. j - Len(s) \in 1..Len(t) /\ (s \o t)[j] = t[j - Len(s)]
    BY <1>1
  <2> QED BY <2>1
<1>3. CASE s = << >>
  <2>1. Len(s) = 0
    BY <1>3
  <2>2. Queue!Positions(s \o t, d) = {}
    BY <1>1, <1>2, <2>1 DEF Queue!Positions
  <2> QED BY <2>1, <2>2 DEF Queue!EndsLast
<1>4. CASE s # << >>
  <2>1. Len(s) > 0
    BY <1>1, <1>4 DEF Bytes
  <2>2. Len(s) \in 1..Len(s \o t) /\ (s \o t)[Len(s)] = s[Len(s)]
    BY <1>1, <2>1
  <2>3. Len(s) \in Queue!Positions(s \o t, d)
    BY <1>4, <2>2 DEF Queue!Positions
  <2>4. \A m \in Queue!Positions(s \o t, d) : m <= Len(s)
    BY <1>2 DEF Queue!Positions
  <2> QED BY <2>3, <2>4 DEF Queue!EndsLast
<1> QED BY <1>3, <1>4

\* Unless consume_full runs on it, a buffer's queue is its data.
LEMMA DataIsWhole ==
  ASSUME call = None \/ call.op # "full"
  PROVE  \A z \in Buffers : Whole(z) = Contents(buf[z])
  BY DEF Whole

\* Every step of a call is a step of the queue, or none.
LEMMA StepIsQueueStep == QueueInv /\ [Next]_vars => [Queue!Next]_Queue!vars
<1> SUFFICES ASSUME QueueInv, [Next]_vars PROVE [Queue!Next]_Queue!vars
  OBVIOUS
<1> DEFINE q == [z \in Buffers |-> Whole(z)]
           Same == q' = q /\ given' = given
<1>1. /\ buf \in [Buffers -> Buffer] /\ \A z \in Buffers : Contents(buf[z]) \in Bytes
      /\ call \in Calls \cup {None} /\ collected \in Bytes
      /\ \A z \in Buffers : buf[z] \in Buffer
  BY DEF QueueInv, TypeOK, Bytes
<1>2. Same => UNCHANGED Queue!vars
  BY DEF Queue!vars
<1>3. ASSUME Idle \/ Sending
      PROVE  q = [z \in Buffers |-> Contents(buf[z])]
  BY <1>3, DataIsWhole DEF Idle, Sending
<1>4. ASSUME (Idle \/ Sending)'
      PROVE  q' = [z \in Buffers |-> Contents(buf'[z])]
  BY <1>4 DEF Idle, Sending, Whole
<1>5. ASSUME NEW x \in Buffers, NEW b, buf' = [buf EXCEPT ![x] = b], Idle, UNCHANGED call
      PROVE  q' = [q EXCEPT ![x] = Contents(b)] /\ q[x] = Contents(buf[x])
  <2>1. q = [z \in Buffers |-> Contents(buf[z])]
    BY <1>3, <1>5
  <2>2. q' = [z \in Buffers |-> Contents(buf'[z])]
    BY <1>4, <1>5 DEF Idle
  <2>3. \A z \in Buffers : buf'[z] = IF z = x THEN b ELSE buf[z]
    BY <1>1, <1>5
  <2> HIDE DEF q
  <2> QED BY <2>1, <2>2, <2>3
<1>6. ASSUME NEW x \in Buffers, AppendCall(x)
      PROVE  Queue!Put(x)
  <2>1. PICK bytes \in Chunks :
          /\ Fits(buf[x], Len(bytes)) /\ buf' = [buf EXCEPT ![x] = AppendBytes(buf[x], bytes)]
    BY <1>6 DEF AppendCall
  <2>2. bytes \in Bytes
    BY CallerAssumption DEF Bytes
  <2>3. Contents(AppendBytes(buf[x], bytes)) = Contents(buf[x]) \o bytes
    BY <1>1, <2>1, <2>2, AppendedBytes
  <2>4. Len(Contents(buf[x])) = buf[x].size /\ buf[x].size \in 0..Cap
    BY <1>1, ContentsAre
  <2>5. Len(Contents(buf[x])) + Len(bytes) <= Cap
    BY <2>1, <2>2, <2>4, CapAssumption DEF Fits, FreeSpace, Bytes
  <2>6. /\ q' = [q EXCEPT ![x] = Contents(AppendBytes(buf[x], bytes))]
        /\ q[x] = Contents(buf[x])
    BY <1>5, <1>6, <2>1 DEF AppendCall
  <2>7. given' = given
    BY <1>6 DEF AppendCall
  <2> HIDE DEF q
  <2>8. /\ Len(q[x]) + Len(bytes) <= Cap /\ q' = [q EXCEPT ![x] = q[x] \o bytes]
        /\ given' = given
    BY <2>3, <2>5, <2>6, <2>7
  <2> QED BY <2>8 DEF Queue!Put, q
<1>7. ASSUME NEW x \in Buffers, ConsumeOnceCall(x)
      PROVE  Queue!TakeLine(x)
  <2>1. PICK d \in Delims : /\ given' = FirstChunk(buf[x], d)
                            /\ buf' = [buf EXCEPT ![x] = ConsumeOnce(buf[x], d)]
    BY <1>7 DEF ConsumeOnceCall
  <2> DEFINE n == FindDelim(buf[x], d)
  <2>2. q' = [q EXCEPT ![x] = Contents(ConsumeOnce(buf[x], d))] /\ q[x] = Contents(buf[x])
    BY <1>5, <1>7, <2>1 DEF ConsumeOnceCall
  <2>3. /\ n \in 0..Len(Contents(buf[x])) /\ Queue!EndsFirst(Contents(buf[x]), d, n)
        /\ FirstChunk(buf[x], d) = Queue!Front(Contents(buf[x]), n)
        /\ Contents(ConsumeOnce(buf[x], d)) = Queue!Rest(Contents(buf[x]), n)
    BY <1>1, ChunkIsFirst
  <2> HIDE DEF q, n
  <2>4. /\ n \in 0..Len(q[x]) /\ Queue!EndsFirst(q[x], d, n) /\ given' = Queue!Front(q[x], n)
        /\ q' = [q EXCEPT ![x] = Queue!Rest(q[x], n)]
    BY <2>1, <2>2, <2>3
  <2> QED BY <2>4 DEF Queue!TakeLine, q
<1>8. ASSUME NEW x \in Buffers, Clear(x)
      PROVE  Queue!Drop(x)
  <2>1. Contents(ClearBuffer(buf[x])) = << >>
    BY <1>1, ClearContents
  <2>2. q' = [q EXCEPT ![x] = Contents(ClearBuffer(buf[x]))] /\ given' = given
    BY <1>5, <1>8 DEF Clear
  <2> HIDE DEF q
  <2>3. q' = [q EXCEPT ![x] = << >>] /\ given' = given
    BY <2>1, <2>2
  <2> QED BY <2>3 DEF Queue!Drop, q
<1>9. ASSUME NEW x \in Buffers, NEW y \in Buffers, CopyAssign(x, y)
      PROVE  Queue!Copy(x, y)
  <2>1. PICK t \in Buffer : buf' = [buf EXCEPT ![x] = CopyFrom(t, buf[y])]
    BY <1>1, <1>9, NewBuffers DEF CopyAssign, Target
  <2>2. Contents(CopyFrom(t, buf[y])) = Contents(buf[y])
    BY <1>1, CopyContents
  <2>3. q' = [q EXCEPT ![x] = Contents(CopyFrom(t, buf[y]))] /\ given' = given
    BY <1>5, <1>9, <2>1 DEF CopyAssign
  <2>4. q[y] = Contents(buf[y])
    BY <1>3, <1>9 DEF CopyAssign
  <2> HIDE DEF q
  <2>5. q' = [q EXCEPT ![x] = q[y]] /\ given' = given
    BY <2>2, <2>3, <2>4
  <2> QED BY <2>5 DEF Queue!Copy, q
<1>10. ASSUME NEW x \in Buffers, NEW y \in Buffers, MoveAssign(x, y)
       PROVE  Queue!Move(x, y)
  <2>1. PICK t \in Buffer :
          buf' = [buf EXCEPT ![x] = CopyFrom(t, buf[y]), ![y] = ClearBuffer(buf[y])]
    BY <1>1, <1>10, NewBuffers DEF MoveAssign, Target
  <2>2. Contents(CopyFrom(t, buf[y])) = Contents(buf[y]) /\ Contents(ClearBuffer(buf[y])) = << >>
    BY <1>1, CopyContents, ClearContents
  <2>3. x # y /\ Idle /\ UNCHANGED <<call, given>>
    BY <1>10 DEF MoveAssign
  <2>4. q = [z \in Buffers |-> Contents(buf[z])] /\ q' = [z \in Buffers |-> Contents(buf'[z])]
    BY <1>3, <1>4, <2>3 DEF Idle
  <2>5. \A z \in Buffers : Contents(buf'[z]) = IF z = y THEN << >>
                                               ELSE IF z = x THEN Contents(buf[y])
                                               ELSE Contents(buf[z])
    BY <1>1, <2>1, <2>2, <2>3
  <2> HIDE DEF q
  <2>6. q' = [q EXCEPT ![x] = q[y], ![y] = << >>]
    BY <2>4, <2>5
  <2> QED BY <2>3, <2>6 DEF Queue!Move, q
<1>11. ASSUME NEW x \in Buffers, BeginFull(x)
       PROVE  Same
  <2>1. q = [z \in Buffers |-> Contents(buf[z])]
    BY <1>3, <1>11 DEF BeginFull
  <2>2. collected' = << >> /\ UNCHANGED <<buf, given>>
    BY <1>11 DEF BeginFull
  <2>3. \A z \in Buffers : << >> \o Contents(buf[z]) = Contents(buf[z])
    BY <1>1, RestOfConcat
  <2>4. \A z \in Buffers : Whole(z)' = Contents(buf[z])
    BY <2>2, <2>3 DEF Whole
  <2> QED BY <2>1, <2>2, <2>4
<1>12. ASSUME NEW x \in Buffers, BeginFd(x)
       PROVE  Queue!StartSending
  <2>1. q' = q
    BY <1>3, <1>4, <1>12 DEF BeginFd, Sending
  <2> QED BY <1>12, <2>1 DEF BeginFd, Queue!StartSending
<1>13. ASSUME call.op \in {"full", "once_fd", "full_fd"}
       PROVE  /\ call \in Calls /\ call # None /\ call.b \in Buffers /\ call.d \in Delims
              /\ buf[call.b] \in Buffer /\ Contents(buf[call.b]) \in Bytes
  BY <1>1, <1>13 DEF None, Calls
<1>14. CASE Collect
  <2>1. /\ call' = call /\ call # None /\ call.op = "full" /\ call.b \in Buffers
        /\ collected' = collected \o Chunk /\ given' = given
        /\ buf' = [buf EXCEPT ![call.b] = ConsumeOnce(buf[call.b], call.d)]
    BY <1>13, <1>14 DEF Collect, Cut
  <2>2. /\ Chunk \in Bytes /\ Contents(ConsumeOnce(buf[call.b], call.d)) \in Bytes
        /\ Chunk \o Contents(ConsumeOnce(buf[call.b], call.d)) = Contents(buf[call.b])
    BY <1>13, <2>1, ChunkOut DEF Chunk, Bytes
  <2> DEFINE r == Contents(ConsumeOnce(buf[call.b], call.d))
  <2>3. (collected \o Chunk) \o r = collected \o (Chunk \o r)
    <3>1. collected \in Bytes /\ Chunk \in Bytes /\ r \in Bytes
      BY <1>1, <2>2
    <3> HIDE DEF r
    <3> QED BY <3>1, ConcatAssociative DEF Bytes
  <2>4. \A z \in Buffers : z # call.b => buf'[z] = buf[z]
    BY <1>1, <2>1
  <2>5. buf'[call.b] = ConsumeOnce(buf[call.b], call.d)
    BY <1>1, <2>1
  <2>6. collected' \o Contents(buf'[call.b]) = collected \o Contents(buf[call.b])
    BY <2>1, <2>2, <2>3, <2>5
  <2>7. ASSUME NEW z \in Buffers PROVE Whole(z)' = Whole(z)
    <3>1. CASE z = call.b
      BY <2>1, <2>6, <3>1 DEF Whole
    <3>2. CASE z # call.b
      BY <2>1, <2>4, <3>2 DEF Whole
    <3> QED BY <3>1, <3>2
  <2>8. Same
    BY <2>1, <2>7
  <2> QED BY <1>2, <2>8
<1>15. CASE EndFull
  <2> DEFINE x == call.b
             c == Contents(buf[x])
             n == Len(collected)
  <2>1. /\ call # None /\ call.op = "full" /\ x \in Buffers /\ call.d \in Delims
        /\ given' = collected /\ collected' = << >> /\ call' = None /\ buf' = buf /\ ~Found
        /\ buf[x] \in Buffer /\ c \in Bytes /\ collected \in Bytes
    BY <1>1, <1>13, <1>15 DEF EndFull
  <2>2. q[x] = collected \o c /\ \A z \in Buffers : z # x => q[z] = Contents(buf[z])
    BY <2>1 DEF Whole
  <2>3. \A z \in Buffers : q'[z] = Contents(buf[z])
    BY <2>1 DEF Whole
  <2>4. /\ Len(c) = buf[x].size /\ \A j \in 1..buf[x].size : c[j] = buf[x].mem[j]
    BY <2>1, ContentsAre
  <2>5. \A j \in 1..buf[x].size : buf[x].mem[j] # call.d
    BY <2>1, FindDelimIs DEF Found
  <2>6. collected # << >> => collected[n] = call.d
    BY <2>1 DEF QueueInv, WholeChunks
  <2> HIDE DEF c
  <2>7. Queue!EndsLast(collected \o c, call.d, n)
    BY <2>1, <2>4, <2>5, <2>6, LinesAreLast
  <2>8. /\ Queue!Rest(collected \o c, n) = c /\ Queue!Front(collected \o c, n) = collected
        /\ n \in 0..Len(collected \o c)
    BY <2>1, RestOfConcat
  <2>9. q' = [q EXCEPT ![x] = Queue!Rest(q[x], n)]
    <3>1. \A z \in Buffers : q'[z] = IF z = x THEN c ELSE q[z]
      BY <2>2, <2>3 DEF c
    <3>2. DOMAIN q = Buffers /\ DOMAIN q' = Buffers
      OBVIOUS
    <3>3. q = [z \in Buffers |-> q[z]] /\ q' = [z \in Buffers |-> q'[z]]
      OBVIOUS
    <3> HIDE DEF q
    <3> QED BY <2>2, <2>8, <3>1, <3>2, <3>3
  <2> HIDE DEF q, n, x
  <2>10. /\ n \in 0..Len(q[x]) /\ Queue!EndsLast(q[x], call.d, n)
         /\ given' = Queue!Front(q[x], n) /\ q' = [q EXCEPT ![x] = Queue!Rest(q[x], n)]
         /\ x \in Buffers /\ call.d \in Delims
    BY <2>1, <2>2, <2>7, <2>8, <2>9
  <2>11. Queue!TakeLines(x)
    BY <2>10 DEF Queue!TakeLines, q
  <2> QED BY <2>10, <2>11 DEF Queue!Next
<1>16. CASE Write \/ WriteThrows
  <2> DEFINE x == call.b
             n == FindDelim(buf[x], call.d)
  <2>1. /\ Sending /\ Found /\ x \in Buffers /\ call.d \in Delims
        /\ buf[x] \in Buffer /\ Contents(buf[x]) \in Bytes
    BY <1>13, <1>16 DEF Write, WriteThrows, Sending
  <2>2. /\ n \in 0..Len(Contents(buf[x])) /\ Queue!EndsFirst(Contents(buf[x]), call.d, n)
        /\ Chunk = Queue!Front(Contents(buf[x]), n)
        /\ Contents(ConsumeOnce(buf[x], call.d)) = Queue!Rest(Contents(buf[x]), n)
    BY <2>1, ChunkIsFirst DEF Chunk
  <2>3. n > 0 /\ Len(Contents(buf[x])) \in Nat
    BY <2>1 DEF Found, Bytes
  <2>4. n \in 1..Len(Contents(buf[x]))
    <3> HIDE DEF n
    <3> QED BY <2>2, <2>3
  <2>5. (Idle \/ Sending)'
    BY <1>16 DEF Write, WriteThrows, Sending, Idle
  <2>6. q = [z \in Buffers |-> Contents(buf[z])] /\ q' = [z \in Buffers |-> Contents(buf'[z])]
    BY <1>3, <1>4, <2>1, <2>5
  <2>7. q[x] = Contents(buf[x])
    BY <2>1, <2>6
  <2>8. CASE Write
    <3>1. buf' = [buf EXCEPT ![x] = ConsumeOnce(buf[x], call.d)] /\ given' = given \o Chunk
      BY <2>8 DEF Write, Cut
    <3>2. \A z \in Buffers : Contents(buf'[z]) = IF z = x THEN Queue!Rest(Contents(buf[x]), n)
                                                 ELSE Contents(buf[z])
      BY <1>1, <2>1, <2>2, <3>1
    <3> HIDE DEF q, n, x
    <3>3. q' = [q EXCEPT ![x] = Queue!Rest(q[x], n)]
      BY <2>6, <2>7, <3>2
    <3>4. /\ n \in 1..Len(q[x]) /\ Queue!EndsFirst(q[x], call.d, n) /\ call.d \in Delims
          /\ given' = given \o Queue!Front(q[x], n)
      BY <2>1, <2>2, <2>4, <2>7, <3>1
    <3>5. Queue!SendLine(x)
      BY <3>3, <3>4 DEF Queue!SendLine, q
    <3> QED BY <2>1, <3>5 DEF Queue!Next
  <2>9. CASE WriteThrows
    <3>1. PICK m \in 0..(Len(Chunk) - 1) : given' = given \o SubSeq(Chunk, 1, m)
      BY <2>9 DEF WriteThrows
    <3>2. q' = q
      BY <2>6, <2>9 DEF WriteThrows
    <3> HIDE DEF q, n, x
    <3>3. /\ m \in 0..(n - 1) /\ SubSeq(Chunk, 1, m) = Queue!Front(Contents(buf[x]), m)
      BY <2>1, <2>2, <2>4, <3>1 DEF Queue!Front, Bytes
    <3>4. /\ n \in 1..Len(q[x]) /\ Queue!EndsFirst(q[x], call.d, n) /\ call.d \in Delims
          /\ m \in 0..(n - 1) /\ given' = given \o Queue!Front(q[x], m)
      BY <2>1, <2>2, <2>4, <2>7, <3>1, <3>3
    <3>5. Queue!SendLine(x)
      BY <3>2, <3>4 DEF Queue!SendLine, q
    <3> QED BY <2>1, <3>5 DEF Queue!Next
  <2> QED BY <1>16, <2>8, <2>9
<1>17. CASE EndFd
  <2>1. q' = q
    BY <1>3, <1>4, <1>17 DEF EndFd, Idle
  <2>2. Same
    BY <1>17, <2>1 DEF EndFd
  <2> QED BY <1>2, <2>2
<1>18. CASE UNCHANGED vars
  <2>1. Same
    BY <1>18 DEF vars, Whole
  <2> QED BY <1>2, <2>1
<1> HIDE DEF Same
<1> QED
  BY <1>2, <1>6, <1>7, <1>8, <1>9, <1>10, <1>11, <1>12, <1>14, <1>15, <1>16, <1>17, <1>18
     DEF Next, Running, Queue!Next

\* The array with its memmove, memcpy and size_ implements the queue, for every
\* capacity and every sequence of calls, those whose write fails included.
THEOREM ArrayIsAQueue == Spec => IsAQueue
<1>1. Init => Queue!Init
  BY NewBuffers DEF Init, Queue!Init, Whole
<1> QED BY <1>1, QueueInvInductive, StepIsQueueStep, PTL DEF Spec, IsAQueue, Queue!Spec
=============================================================================
