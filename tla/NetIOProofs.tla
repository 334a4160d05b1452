---------------------------- MODULE NetIOProofs ----------------------------
(***************************************************************************)
(* write_full and read_full for every size of the call and of the stream.  *)
(***************************************************************************)
EXTENDS NetIO, SequenceTheorems, TLAPS

\* The invariant of the two loops: what is behind and what is ahead make up
\* the call, what is behind was moved, and only an ended call closes its end.
Loops ==
  /\ ptr = Len(stream) /\ ptr + nleft = Size
  /\ rptr = taken /\ rptr + rleft = Wanted
  /\ wpc = "returned" => nleft = 0
  /\ ~wopen => wpc # "writing"

IOInv == TypeOK /\ Loops /\ WritesAllOnce /\ ReadsInPlace

\* A write appends the next m bytes of the message and keeps the count.
LEMMA PutIsNext ==
  ASSUME NetIOAssumption, IOInv, NEW m \in 0..nleft, Put(m)
  PROVE  /\ stream' \in Seq(1..Size) /\ Len(stream') = ptr + m
         /\ \A j \in 1..Len(stream') : stream'[j] = j
         /\ ptr' \in 0..Size /\ nleft' \in 0..Size
         /\ ptr' = Len(stream') /\ ptr' + nleft' = Size
         /\ Len(stream) <= Len(stream')
<1> DEFINE next == [j \in 1..m |-> ptr + j]
<1>1. /\ stream \in Seq(1..Size) /\ ptr \in 0..Size /\ nleft \in 0..Size /\ Size \in Nat
      /\ ptr = Len(stream) /\ ptr + nleft = Size /\ m \in 0..Size
  BY DEF IOInv, TypeOK, Loops, NetIOAssumption
<1>2. next \in Seq(1..Size) /\ Len(next) = m
  <2>1. \A j \in 1..m : ptr + j \in 1..Size
    BY <1>1
  <2>2. next \in [1..m -> 1..Size]
    BY <2>1
  <2>3. m \in Nat
    BY <1>1
  <2> HIDE DEF next
  <2>4. next \in Seq(1..Size)
    BY <2>2, <2>3
  <2>5. DOMAIN next = 1..m /\ DOMAIN next = 1..Len(next) /\ Len(next) \in Nat
    BY <2>2, <2>4, LenProperties
  <2> QED
    BY <2>3, <2>4, <2>5
<1>3. /\ stream' \in Seq(1..Size) /\ Len(stream') = Len(stream) + m
      /\ \A j \in 1..Len(stream') :
           stream'[j] = IF j <= Len(stream) THEN stream[j] ELSE next[j - Len(stream)]
  <2>1. stream' = stream \o next
    BY Zenon DEF Put
  <2> HIDE DEF next
  <2>2. /\ stream' \in Seq(1..Size) /\ Len(stream') = Len(stream) + Len(next)
        /\ \A j \in 1..(Len(stream) + Len(next)) :
             stream'[j] = IF j <= Len(stream) THEN stream[j] ELSE next[j - Len(stream)]
    <3>1. stream \in Seq(1..Size) /\ next \in Seq(1..Size)
      BY <1>1, <1>2
    <3>2. /\ stream \o next \in Seq(1..Size) /\ Len(stream \o next) = Len(stream) + Len(next)
          /\ \A j \in 1..(Len(stream) + Len(next)) :
               (stream \o next)[j] = IF j <= Len(stream) THEN stream[j] ELSE next[j - Len(stream)]
      BY <3>1, ConcatProperties, Zenon
    <3> QED
      BY <2>1, <3>2, Zenon
  <2> QED
    BY <1>2, <2>2
<1>4. ASSUME NEW j \in 1..Len(stream') PROVE stream'[j] = j
  <2>1. CASE j <= Len(stream)
    <3>1. stream[j] = j
      BY <1>1, <2>1 DEF IOInv, WritesAllOnce
    <3> HIDE DEF next
    <3> QED
      BY <1>3, <2>1, <3>1
  <2>2. CASE j > Len(stream)
    <3>1. j - Len(stream) \in 1..m
      BY <1>1, <1>3, <2>2
    <3>2. stream'[j] = next[j - Len(stream)]
      <4> HIDE DEF next
      <4> QED BY <1>1, <1>3, <2>2
    <3>3. next[j - Len(stream)] = ptr + (j - Len(stream))
      BY <3>1
    <3> QED
      BY <1>1, <3>1, <3>2, <3>3
  <2> QED
    BY <1>1, <1>3, <2>1, <2>2
<1>5. ptr' = ptr + m /\ nleft' = nleft - m
  BY DEF Put
<1>6. Len(stream') = ptr + m
  BY <1>1, <1>3
<1>7. ptr' \in 0..Size /\ nleft' \in 0..Size /\ ptr' = ptr + m /\ ptr' + nleft' = Size
  BY <1>1, <1>5
<1>8. Len(stream) <= Len(stream')
  BY <1>1, <1>6
<1> HIDE DEF next
<1> QED
  BY <1>3, <1>4, <1>6, <1>7, <1>8

\* A read puts the next n bytes of the stream behind those already there.
LEMMA TakeIsNext ==
  ASSUME NetIOAssumption, IOInv, NEW n \in 0..rleft, Take(n)
  PROVE  /\ got' \in [1..Wanted -> 0..Size]
         /\ \A j \in 1..Wanted : got'[j] = IF j <= taken' THEN j ELSE 0
         /\ taken' \in 0..Len(stream) /\ rptr' \in 0..Wanted /\ rleft' \in 0..Wanted
         /\ rptr' = taken' /\ rptr' + rleft' = Wanted
<1>1. /\ taken \in 0..Len(stream) /\ Len(stream) \in 0..Size /\ rptr \in 0..Wanted
      /\ rleft \in 0..Wanted /\ rptr = taken /\ rptr + rleft = Wanted
      /\ Size \in Nat /\ Wanted \in Nat
  BY LenProperties DEF IOInv, TypeOK, Loops, NetIOAssumption, WritesAllOnce
<1>2. n <= Len(stream) - taken /\ taken' = taken + n /\ rptr' = rptr + n /\ rleft' = rleft - n
  BY DEF Take, Available
<1>3. ASSUME NEW j \in 1..Wanted
      PROVE got'[j] = IF j <= taken' THEN j ELSE 0
  <2>1. got'[j] = IF j \in (rptr + 1)..(rptr + n) THEN stream[taken + j - rptr] ELSE got[j]
    BY DEF Take
  <2>2. CASE j \in (rptr + 1)..(rptr + n)
    <3>1. taken + j - rptr = j /\ j \in 1..Len(stream) /\ j <= taken'
      BY <1>1, <1>2, <2>2
    <3>2. stream[j] = j
      BY <3>1 DEF IOInv, WritesAllOnce
    <3> QED
      BY <2>1, <2>2, <3>1, <3>2
  <2>3. CASE j \notin (rptr + 1)..(rptr + n)
    <3>1. got'[j] = IF j <= taken THEN j ELSE 0
      BY <2>1, <2>3 DEF IOInv, ReadsInPlace
    <3>2. j <= taken' <=> j <= taken
      BY <1>1, <1>2, <2>3
    <3> QED
      BY <3>1, <3>2
  <2> QED
    BY <2>2, <2>3
<1>4. taken' \in 0..Size
  BY <1>1, <1>2
<1>5. got' = [j \in 1..Wanted |-> got'[j]]
  BY DEF Take
<1>6. \A j \in 1..Wanted : got'[j] \in 0..Size
  BY <1>1, <1>3, <1>4
<1>7. got' \in [1..Wanted -> 0..Size]
  BY <1>5, <1>6
<1> QED
  BY <1>1, <1>2, <1>3, <1>7

\* Every step keeps the invariant.
LEMMA IOStep == ASSUME NetIOAssumption, IOInv, [Next]_vars PROVE IOInv'
<1> USE DEF Outcome
<1>0. Len(stream) \in Nat /\ taken \in Nat /\ Size \in Nat /\ Wanted \in Nat
  BY LenProperties DEF IOInv, TypeOK, NetIOAssumption
<1>1. CASE Writen
  <2>1. PICK m \in 1..nleft : Put(m)
    BY <1>1 DEF Writen
  <2>2. m \in 0..nleft
    BY DEF IOInv, TypeOK
  <2>3. /\ stream' \in Seq(1..Size) /\ \A j \in 1..Len(stream') : stream'[j] = j
        /\ ptr' \in 0..Size /\ nleft' \in 0..Size /\ Len(stream') = ptr + m
        /\ ptr' = Len(stream') /\ ptr' + nleft' = Size /\ Len(stream) <= Len(stream')
    BY <2>1, <2>2, PutIsNext
  <2>4. UNCHANGED <<wcall, wpc, reader, taken, wopen, ropen, interrupts>> /\ wpc = "writing"
    BY <1>1 DEF Writen, Writing
  <2>5. taken' \in 0..Len(stream')
    BY <1>0, <2>3, <2>4 DEF IOInv, TypeOK
  <2>6. TypeOK'
    BY <2>3, <2>4, <2>5 DEF IOInv, TypeOK, reader
  <2>7. Loops' /\ WritesAllOnce'
    BY <1>0, <2>3, <2>4 DEF IOInv, Loops, WritesAllOnce, reader
  <2>8. ReadsInPlace'
    BY <2>4 DEF IOInv, ReadsInPlace, Loops, Eof, reader
  <2> QED
    BY <2>6, <2>7, <2>8 DEF IOInv
<1>2. CASE WriteFullReturns
  BY <1>0, <1>2 DEF WriteFullReturns, WriteEnds, IOInv, TypeOK, Loops, WritesAllOnce,
                    ReadsInPlace, Eof, Available, reader, Writing
<1>3. CASE WriteFd
  <2>1. PICK m \in 0..nleft : Put(m) /\ wpc' = IF m = Size THEN "returned" ELSE "threw"
    BY <1>3 DEF WriteFd
  <2>3. /\ stream' \in Seq(1..Size) /\ \A j \in 1..Len(stream') : stream'[j] = j
        /\ ptr' \in 0..Size /\ nleft' \in 0..Size /\ Len(stream') = ptr + m
        /\ ptr' = Len(stream') /\ ptr' + nleft' = Size /\ Len(stream) <= Len(stream')
    BY <2>1, PutIsNext
  <2>4. UNCHANGED <<wcall, reader, taken, wopen, ropen, interrupts>> /\ wpc = "writing"
    BY <1>3 DEF WriteFd, Writing
  <2>5. taken' \in 0..Len(stream')
    BY <1>0, <2>3, <2>4 DEF IOInv, TypeOK
  <2>6. TypeOK'
    BY <2>1, <2>3, <2>4, <2>5 DEF IOInv, TypeOK, reader
  <2>7. wpc' = "returned" => nleft' = 0
    BY <1>0, <2>1, <2>3 DEF IOInv, TypeOK, Loops
  <2>8. Loops' /\ WritesAllOnce'
    BY <1>0, <2>1, <2>3, <2>4, <2>7 DEF IOInv, Loops, WritesAllOnce, reader
  <2>9. ReadsInPlace'
    BY <2>4 DEF IOInv, ReadsInPlace, Loops, Eof, reader
  <2> QED
    BY <2>6, <2>8, <2>9 DEF IOInv
<1>4. CASE WriteInterrupted \/ WriteFails
  <2>1. /\ UNCHANGED <<wcall, ptr, nleft, reader, stream, taken, wopen, ropen>>
        /\ wpc = "writing" /\ wpc' \in {"writing", "threw"}
        /\ interrupts' \in 0..MaxInterrupts
    BY <1>4 DEF WriteInterrupted, WriteFails, WriteEnds, NetIOAssumption, IOInv, TypeOK
  <2>2. TypeOK'
    BY <2>1 DEF IOInv, TypeOK, reader
  <2>3. Loops' /\ WritesAllOnce' /\ ReadsInPlace'
    BY <2>1 DEF IOInv, Loops, WritesAllOnce, ReadsInPlace, Eof, Available, reader
  <2> QED
    BY <2>2, <2>3 DEF IOInv
<1>5. CASE Readn \/ ReadFd
  <2>0. rleft \in Nat
    BY DEF IOInv, TypeOK, NetIOAssumption
  <2>1. PICK n \in 0..rleft : Take(n)
    BY <1>5, <2>0 DEF Readn, ReadFd
  <2>2. /\ got' \in [1..Wanted -> 0..Size]
        /\ \A j \in 1..Wanted : got'[j] = IF j <= taken' THEN j ELSE 0
        /\ taken' \in 0..Len(stream) /\ rptr' \in 0..Wanted /\ rleft' \in 0..Wanted
        /\ rptr' = taken' /\ rptr' + rleft' = Wanted
    BY <2>1, TakeIsNext
  <2>3. /\ UNCHANGED <<rcall, writer, stream, wopen, ropen, interrupts>>
        /\ rpc' \in {"reading", "returned"} /\ (rpc' = "returned" => rcall # "read_full")
    BY <1>5 DEF Readn, ReadFd, Reading
  <2>4. TypeOK'
    BY <2>2, <2>3 DEF IOInv, TypeOK, writer, Reading
  <2>5. Loops' /\ WritesAllOnce'
    BY <2>2, <2>3 DEF IOInv, Loops, WritesAllOnce, writer
  <2>6. ReadsInPlace'
    BY <2>2, <2>3 DEF ReadsInPlace
  <2> QED
    BY <2>4, <2>5, <2>6 DEF IOInv
<1>6. CASE ReadFullReturns
  <2>1. rleft = 0 => ~(taken < Wanted)
    BY <1>0 DEF IOInv, Loops
  <2> QED
    BY <1>6, <2>1 DEF ReadFullReturns, ReadEnds, IOInv, TypeOK, Loops, WritesAllOnce,
                      ReadsInPlace, Eof, Available, writer
<1>7. CASE ReadInterrupted \/ ReadFails
  <2>1. /\ UNCHANGED <<rcall, rptr, rleft, got, writer, stream, taken, wopen, ropen>>
        /\ rpc' \in {"reading", "threw"} /\ interrupts' \in 0..MaxInterrupts
    BY <1>7 DEF ReadInterrupted, ReadFails, ReadEnds, NetIOAssumption, IOInv, TypeOK
  <2>2. TypeOK'
    BY <2>1 DEF IOInv, TypeOK, writer
  <2>3. Loops' /\ WritesAllOnce' /\ ReadsInPlace'
    BY <2>1 DEF IOInv, Loops, WritesAllOnce, ReadsInPlace, Eof, Available, writer
  <2> QED
    BY <2>2, <2>3 DEF IOInv
<1>8. CASE CloseEnds
  <2>1. /\ UNCHANGED <<writer, reader, stream, taken, interrupts>>
        /\ \/ wpc # "writing" /\ wopen' = FALSE /\ ropen' = ropen
           \/ wopen' = wopen /\ ropen' = FALSE
    BY <1>8 DEF CloseEnds
  <2>2. TypeOK'
    BY <2>1 DEF IOInv, TypeOK, writer, reader
  <2>3. Loops' /\ WritesAllOnce' /\ ReadsInPlace'
    BY <2>1 DEF IOInv, Loops, WritesAllOnce, ReadsInPlace, Eof, Available, writer, reader
  <2> QED
    BY <2>2, <2>3 DEF IOInv
<1>9. CASE UNCHANGED vars
  BY <1>9 DEF vars, IOInv, TypeOK, Loops, WritesAllOnce, ReadsInPlace, Eof, Available,
              writer, reader
<1> QED
  BY <1>1, <1>2, <1>3, <1>4, <1>5, <1>6, <1>7, <1>8, <1>9 DEF Next, Writer, Reader

\* The calls start with nothing moved.
LEMMA IOInit == ASSUME NetIOAssumption, Init PROVE IOInv
<1>1. << >> \in Seq(1..Size) /\ Len(<< >>) = 0
  OBVIOUS
<1> QED
  BY <1>1 DEF Init, IOInv, TypeOK, Outcome, Loops, WritesAllOnce, ReadsInPlace, NetIOAssumption

LEMMA IOInvariance == ASSUME NetIOAssumption PROVE Spec => []IOInv
<1>1. Init => IOInv
  BY IOInit
<1>2. IOInv /\ [Next]_vars => IOInv'
  BY IOStep
<1> QED
  BY <1>1, <1>2, PTL DEF Spec

\* The types of NetIO, for every size of the calls and of the stream.
THEOREM IOTypeCorrect == Spec => []TypeOK
<1>1. IOInv => TypeOK
  BY DEF IOInv
<1> QED
  BY <1>1, NetIOAssumption, IOInvariance, PTL

\* write_full and write_fd (src/src/net_io.cpp:12-37, net_unix.cpp:23): every
\* byte once and in order, and all of them when the call returns.
THEOREM WritesEverythingOnce == Spec => []WritesAllOnce
<1>1. IOInv => WritesAllOnce
  BY DEF IOInv
<1> QED
  BY <1>1, NetIOAssumption, IOInvariance, PTL

\* read_full and read_fd (src/src/net_io.cpp:40-71, net_unix.cpp:16): what was
\* read is in place, and a short read_full is the end of the stream.
THEOREM ReadsStayInPlace == Spec => []ReadsInPlace
<1>1. IOInv => ReadsInPlace
  BY DEF IOInv
<1> QED
  BY <1>1, NetIOAssumption, IOInvariance, PTL
=============================================================================
