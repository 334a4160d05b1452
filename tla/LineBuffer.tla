----------------------------- MODULE LineBuffer -----------------------------
(***************************************************************************)
(* protocol::Buffer as its callers use it: one action per call, the loops  *)
(* of the consume_full functions one action per round, since the form that *)
(* writes to a descriptor can fail in the middle.                          *)
(***************************************************************************)
EXTENDS ProtocolBuffer

CONSTANTS
  Buffers,  \* the Buffer objects
  Chunks,   \* what callers append at once
  Delims    \* the delimiters callers pass

ASSUME CallerAssumption ==
  /\ Chunks \subseteq Seq(Text \cup {NL})
  /\ Delims \subseteq Text \cup {NL}

VARIABLES
  buf,       \* the objects
  call,      \* the call in progress, of the ones that are not one step
  collected, \* result in consume_full
  given      \* what the last consume call returned or wrote

vars == <<buf, call, collected, given>>

None  == [op |-> "none"]
Calls == [op : {"full", "once_fd", "full_fd"}, b : Buffers, d : Delims]

Idle == call = None

\* read into data() + size() and increase_size() come to the same as append().
AppendCall(x) ==
  /\ Idle
  /\ \E bytes \in Chunks :
       /\ Fits(buf[x], Len(bytes))
       /\ buf' = [buf EXCEPT ![x] = AppendBytes(@, bytes)]
  /\ UNCHANGED <<call, collected, given>>

ConsumeOnceCall(x) ==
  /\ Idle
  /\ \E d \in Delims :
       /\ given' = FirstChunk(buf[x], d)
       /\ buf' = [buf EXCEPT ![x] = ConsumeOnce(@, d)]
  /\ UNCHANGED <<call, collected>>

Clear(x) ==
  /\ Idle
  /\ buf' = [buf EXCEPT ![x] = ClearBuffer(@)]
  /\ UNCHANGED <<call, collected, given>>

\* Assignment and construction from another buffer; an object assigned to
\* itself is left alone.  x's memory before it is assigned: its own, or that of a new object.
Target(x) == {buf[x], Uninitialised}

CopyAssign(x, y) ==
  /\ Idle /\ x # y
  /\ \E t \in Target(x) : buf' = [buf EXCEPT ![x] = CopyFrom(t, buf[y])]
  /\ UNCHANGED <<call, collected, given>>

MoveAssign(x, y) ==
  /\ Idle /\ x # y
  /\ \E t \in Target(x) :
       buf' = [buf EXCEPT ![x] = CopyFrom(t, buf[y]), ![y] = ClearBuffer(@)]
  /\ UNCHANGED <<call, collected, given>>

-----------------------------------------------------------------------------
(* consume_full                                                            *)

BeginFull(x) ==
  /\ Idle
  /\ \E d \in Delims : call' = [op |-> "full", b |-> x, d |-> d]
  /\ collected' = << >>
  /\ UNCHANGED <<buf, given>>

FoundAlways == TRUE

Found == FindDelim(buf[call.b], call.d) > 0
Chunk == FirstChunk(buf[call.b], call.d)
Cut   == buf' = [buf EXCEPT ![call.b] = ConsumeOnce(@, call.d)]

Collect ==
  /\ call.op = "full" /\ Found
  /\ collected' = collected \o Chunk
  /\ Cut
  /\ UNCHANGED <<call, given>>

EndFull ==
  /\ call.op = "full" /\ ~Found
  /\ given' = collected /\ collected' = << >>
  /\ call' = None
  /\ UNCHANGED buf

-----------------------------------------------------------------------------
(* The forms of consume_once and consume_full that write to a descriptor.  *)

BeginFd(x) ==
  /\ Idle
  /\ \E op \in {"once_fd", "full_fd"}, d \in Delims :
       call' = [op |-> op, b |-> x, d |-> d]
  /\ given' = << >>
  /\ UNCHANGED <<buf, collected>>

Sending == call.op \in {"once_fd", "full_fd"}

Write ==
  /\ Sending /\ Found
  /\ given' = given \o Chunk
  /\ Cut
  /\ call' = IF call.op = "once_fd" THEN None ELSE call
  /\ UNCHANGED collected

\* write_full has written a part of the line when it throws: nothing is cut.
WriteThrows ==
  /\ Sending /\ Found
  /\ \E n \in 0..(Len(Chunk) - 1) : given' = given \o SubSeq(Chunk, 1, n)
  /\ call' = None
  /\ UNCHANGED <<buf, collected>>

EndFd ==
  /\ Sending /\ ~Found
  /\ call' = None
  /\ UNCHANGED <<buf, collected, given>>

-----------------------------------------------------------------------------

Init ==
  /\ buf = [x \in Buffers |-> Uninitialised]
  /\ call = None
  /\ collected = << >> /\ given = << >>

Running == Collect \/ EndFull \/ Write \/ WriteThrows \/ EndFd

Next ==
  \/ \E x \in Buffers : \/ AppendCall(x) \/ ConsumeOnceCall(x) \/ Clear(x)
                        \/ BeginFull(x) \/ BeginFd(x)
  \/ \E x, y \in Buffers : CopyAssign(x, y) \/ MoveAssign(x, y)
  \/ Running

\* A call runs to its end.
Spec == Init /\ [][Next]_vars /\ WF_vars(Running)

-----------------------------------------------------------------------------

\* The variables have their types; size never passes capacity, no byte of the
\* data is one nobody stored, and what is handed out was put in.
TypeOK ==
  /\ buf \in [Buffers -> Buffer]
  /\ \A x \in Buffers : Contents(buf[x]) \in Seq(Text \cup {NL})
  /\ call \in Calls \cup {None}
  /\ collected \in Seq(Text \cup {NL})
  /\ given \in Seq(Text \cup {NL})

\* While consume_full runs, what it has collected is still the buffer's.
Whole(x) == IF call # None /\ call.op = "full" /\ call.b = x
            THEN collected \o Contents(buf[x])
            ELSE Contents(buf[x])

Queue == INSTANCE ByteQueue WITH queue <- [x \in Buffers |-> Whole(x)]

\* The fixed array with its memmove, memcpy and size_ is a queue of bytes: no
\* call reorders, loses, doubles or shows a byte that is not its turn, a copy
\* shares nothing, consume_full takes exactly the whole lines in one go, and a
\* write that fails in the middle of several lines loses none of the others.
IsAQueue == Queue!Spec

\* Every consume call returns: each round of its loop shortens the buffer.
CallsReturn == (call # None) ~> Idle
=============================================================================
