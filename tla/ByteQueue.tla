------------------------------ MODULE ByteQueue ------------------------------
(***************************************************************************)
(* What protocol::Buffer promises its callers: each buffer is a queue of   *)
(* at most Cap bytes.  Bytes go in at the back, and come out at the front  *)
(* up to and including a delimiter, or not at all.  There is no memory     *)
(* here, and consume_full is one step.                                     *)
(***************************************************************************)
EXTENDS Integers, Sequences

CONSTANTS Buffers, Cap, Chunks, Delims

VARIABLES
  queue,  \* the bytes of each buffer
  given   \* what the last consume call returned or wrote

vars == <<queue, given>>

Positions(q, d) == {j \in 1..Len(q) : q[j] = d}

\* j is the length of the first line, of all lines; 0 if there is none.
EndsFirst(q, d, j) == IF Positions(q, d) = {}
                      THEN j = 0
                      ELSE j \in Positions(q, d) /\ \A m \in Positions(q, d) : j <= m
EndsLast(q, d, j)  == IF Positions(q, d) = {}
                      THEN j = 0
                      ELSE j \in Positions(q, d) /\ \A m \in Positions(q, d) : m <= j

Front(q, j) == SubSeq(q, 1, j)
Rest(q, j)  == SubSeq(q, j + 1, Len(q))

Put(x) ==
  \E bytes \in Chunks :
    /\ Len(queue[x]) + Len(bytes) <= Cap
    /\ queue' = [queue EXCEPT ![x] = @ \o bytes]
    /\ UNCHANGED given

TakeLine(x) ==
  \E d \in Delims, j \in 0..Len(queue[x]) :
    /\ EndsFirst(queue[x], d, j)
    /\ given' = Front(queue[x], j)
    /\ queue' = [queue EXCEPT ![x] = Rest(@, j)]

TakeLines(x) ==
  \E d \in Delims, j \in 0..Len(queue[x]) :
    /\ EndsLast(queue[x], d, j)
    /\ given' = Front(queue[x], j)
    /\ queue' = [queue EXCEPT ![x] = Rest(@, j)]

\* A call that writes to a descriptor starts.
StartSending ==
  /\ given' = << >>
  /\ UNCHANGED queue

\* A line is written in full and leaves the queue, or a part of it is written
\* and it stays.
SendLine(x) ==
  \E d \in Delims, j \in 1..Len(queue[x]) :
    /\ EndsFirst(queue[x], d, j)
    /\ \/ /\ given' = given \o Front(queue[x], j)
          /\ queue' = [queue EXCEPT ![x] = Rest(@, j)]
       \/ /\ \E m \in 0..(j - 1) : given' = given \o Front(queue[x], m)
          /\ UNCHANGED queue

Drop(x) ==
  /\ queue' = [queue EXCEPT ![x] = << >>]
  /\ UNCHANGED given

Copy(x, y) ==
  /\ queue' = [queue EXCEPT ![x] = queue[y]]
  /\ UNCHANGED given

Move(x, y) ==
  /\ x # y
  /\ queue' = [queue EXCEPT ![x] = queue[y], ![y] = << >>]
  /\ UNCHANGED given

Init ==
  /\ queue = [x \in Buffers |-> << >>]
  /\ given = << >>

Next ==
  \/ \E x \in Buffers : \/ Put(x) \/ TakeLine(x) \/ TakeLines(x)
                        \/ SendLine(x) \/ Drop(x)
  \/ StartSending
  \/ \E x, y \in Buffers : Copy(x, y) \/ Move(x, y)

Spec == Init /\ [][Next]_vars
=============================================================================
