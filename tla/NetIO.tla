------------------------------- MODULE NetIO -------------------------------
(***************************************************************************)
(* A call of write_full or write_fd at one end of a byte stream and one of *)
(* read_full or read_fd at the other (src/src/net_io.cpp, net_unix.cpp).   *)
(*                                                                         *)
(* Each read and write is a step.  It may move any part of the bytes asked *)
(* for, fail, or be interrupted by a signal before it has moved any.  Byte *)
(* n of what the writer is given is the number n; 0 is memory not written. *)
(***************************************************************************)
EXTENDS Integers, Sequences

CONSTANTS
  Size,          \* nbytes of the write
  Wanted,        \* nbytes of the read
  Room,          \* bytes the stream holds before a write blocks
  MaxInterrupts  \* bound: calls interrupted by a signal

ASSUME NetIOAssumption ==
  /\ Size \in Nat /\ Wanted \in Nat /\ MaxInterrupts \in Nat
  /\ Room \in Nat \ {0}

VARIABLES
  wcall, wpc,    \* the writer's function and how far it is
  ptr, nleft,    \* of writen: bytes behind and ahead
  rcall, rpc,    \* the reader's function and how far it is
  rptr, rleft,   \* of readn: bytes behind and ahead
  got,           \* the reader's memory
  stream, taken, \* every byte written, and how many of them were read
  wopen, ropen,  \* the two ends
  interrupts

writer == <<wcall, wpc, ptr, nleft>>
reader == <<rcall, rpc, rptr, rleft, got>>
vars   == <<writer, reader, stream, taken, wopen, ropen, interrupts>>

-----------------------------------------------------------------------------
(* write                                                                   *)

PutStaying(m) ==
  /\ ropen /\ Len(stream) - taken + m <= Room
  /\ stream' = stream \o [j \in 1..m |-> ptr + j]
  /\ nleft' = nleft - m
  /\ UNCHANGED ptr

PutUncounted(m) ==
  /\ ropen /\ Len(stream) - taken + m <= Room
  /\ stream' = stream \o [j \in 1..m |-> ptr + j]
  /\ ptr' = ptr + m
  /\ UNCHANGED nleft

\* A write that returns m.
Put(m) ==
  /\ ropen /\ Len(stream) - taken + m <= Room
  /\ stream' = stream \o [j \in 1..m |-> ptr + j]
  /\ nleft' = nleft - m
  /\ ptr' = ptr + m

Writing(call) == wpc = "writing" /\ wcall = call

Writen ==
  /\ Writing("write_full")
  /\ \E m \in 1..nleft : Put(m)
  /\ UNCHANGED <<wcall, wpc, reader, taken, wopen, ropen, interrupts>>

WriteEnds(how) ==
  /\ wpc' = how
  /\ UNCHANGED <<wcall, ptr, nleft, reader, stream, taken, wopen, ropen>>

WriteFullReturns ==
  /\ Writing("write_full") /\ nleft = 0
  /\ WriteEnds("returned")
  /\ UNCHANGED interrupts

\* One write; anything less than everything is taken for an error.
WriteFd ==
  /\ Writing("write_fd")
  /\ \E m \in 0..nleft :
       /\ m > 0 \/ nleft = 0
       /\ Put(m)
       /\ wpc' = IF m = Size THEN "returned" ELSE "threw"
  /\ UNCHANGED <<wcall, reader, taken, wopen, ropen, interrupts>>

\* EINTR: writen calls again for what is left, write_fd throws.
WriteInterrupted ==
  /\ wpc = "writing" /\ nleft > 0
  /\ interrupts < MaxInterrupts /\ interrupts' = interrupts + 1
  /\ WriteEnds(IF wcall = "write_full" THEN "writing" ELSE "threw")

\* Any other error.
WriteFails ==
  /\ wpc = "writing" /\ nleft > 0
  /\ WriteEnds("threw")
  /\ UNCHANGED interrupts

-----------------------------------------------------------------------------
(* read                                                                    *)

Available == Len(stream) - taken
Eof       == ~wopen /\ Available = 0

TakeStaying(n) ==
  /\ n <= Available
  /\ got' = [j \in 1..Wanted |->
               IF j \in 1..n THEN stream[taken + j] ELSE got[j]]
  /\ taken' = taken + n
  /\ rptr' = rptr + n /\ rleft' = rleft - n

\* A read that returns n.
Take(n) ==
  /\ n <= Available
  /\ got' = [j \in 1..Wanted |->
               IF j \in (rptr + 1)..(rptr + n) THEN stream[taken + j - rptr] ELSE got[j]]
  /\ taken' = taken + n
  /\ rptr' = rptr + n /\ rleft' = rleft - n

Reading(call) == rpc = "reading" /\ rcall = call

Readn ==
  /\ Reading("read_full")
  /\ \E n \in 1..rleft : Take(n)
  /\ UNCHANGED <<rcall, rpc, writer, stream, wopen, ropen, interrupts>>

ReadEnds(how) ==
  /\ rpc' = how
  /\ UNCHANGED <<rcall, rptr, rleft, got, writer, stream, taken, wopen, ropen>>

ReadFullReturnsFull ==
  /\ Reading("read_full") /\ rleft = 0
  /\ ReadEnds("returned")
  /\ UNCHANGED interrupts

\* Everything is read, or the stream ends.
ReadFullReturns ==
  /\ Reading("read_full") /\ (rleft = 0 \/ Eof)
  /\ ReadEnds("returned")
  /\ UNCHANGED interrupts

ReadFd ==
  /\ Reading("read_fd")
  /\ \E n \in 0..rleft :
       /\ n > 0 \/ rleft = 0 \/ Eof
       /\ Take(n)
  /\ rpc' = "returned"
  /\ UNCHANGED <<rcall, writer, stream, wopen, ropen, interrupts>>

\* EINTR: readn calls again for what is left, read_fd throws.
ReadInterrupted ==
  /\ rpc = "reading" /\ rleft > 0
  /\ interrupts < MaxInterrupts /\ interrupts' = interrupts + 1
  /\ ReadEnds(IF rcall = "read_full" THEN "reading" ELSE "threw")

ReadFails ==
  /\ rpc = "reading" /\ rleft > 0
  /\ ReadEnds("threw")
  /\ UNCHANGED interrupts

-----------------------------------------------------------------------------

\* An end is closed when its call is over.
CloseEnds ==
  /\ \/ wpc # "writing" /\ wopen /\ wopen' = FALSE /\ UNCHANGED ropen
     \/ rpc # "reading" /\ ropen /\ ropen' = FALSE /\ UNCHANGED wopen
  /\ UNCHANGED <<writer, reader, stream, taken, interrupts>>

Init ==
  /\ wcall \in {"write_full", "write_fd"} /\ wpc = "writing"
  /\ ptr = 0 /\ nleft = Size
  /\ rcall \in {"read_full", "read_fd"} /\ rpc = "reading"
  /\ rptr = 0 /\ rleft = Wanted
  /\ got = [j \in 1..Wanted |-> 0]
  /\ stream = << >> /\ taken = 0
  /\ wopen = TRUE /\ ropen = TRUE
  /\ interrupts = 0

Writer == Writen \/ WriteFullReturns \/ WriteFd \/ WriteInterrupted \/ WriteFails
Reader == Readn \/ ReadFullReturns \/ ReadFd \/ ReadInterrupted \/ ReadFails

Next == Writer \/ Reader \/ CloseEnds

Spec == Init /\ [][Next]_vars

\* A call returns when it can, and need not fail unless it writes to a closed
\* stream; the ends are closed some time.
FairSpec == Spec /\ WF_vars(Readn \/ ReadFullReturns \/ ReadFd) /\ WF_vars(CloseEnds)
                 /\ WF_vars(Writen \/ WriteFullReturns \/ WriteFd \/ (~ropen /\ WriteFails))

-----------------------------------------------------------------------------

Outcome == {"returned", "threw"}

\* The variables have their types, and nothing is read that was not written.
TypeOK ==
  /\ wcall \in {"write_full", "write_fd"} /\ wpc \in Outcome \cup {"writing"}
  /\ rcall \in {"read_full", "read_fd"} /\ rpc \in Outcome \cup {"reading"}
  /\ ptr \in 0..Size /\ nleft \in 0..Size
  /\ rptr \in 0..Wanted /\ rleft \in 0..Wanted
  /\ got \in [1..Wanted -> 0..Size]
  /\ stream \in Seq(1..Size) /\ taken \in 0..Len(stream)
  /\ wopen \in BOOLEAN /\ ropen \in BOOLEAN /\ interrupts \in 0..MaxInterrupts

\* However the writes are cut and interrupted, the stream holds the bytes in
\* order, each once; a call that returns has written all of them.
WritesAllOnce ==
  /\ Len(stream) <= Size
  /\ \A j \in 1..Len(stream) : stream[j] = j
  /\ wpc = "returned" => Len(stream) = Size

\* The reader's memory holds what was read, in place, and nothing else; what
\* is missing when read_full returns is behind the end of the stream.
ReadsInPlace ==
  /\ \A j \in 1..Wanted : got[j] = IF j <= taken THEN j ELSE 0
  /\ rpc = "returned" /\ rcall = "read_full" /\ taken < Wanted => Eof

\* Both calls end, however often they are interrupted.
CallsEnd == <>(wpc # "writing" /\ rpc # "reading")
=============================================================================
