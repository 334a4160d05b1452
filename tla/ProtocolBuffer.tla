--------------------------- MODULE ProtocolBuffer ---------------------------
(***************************************************************************)
(* The operations of protocol::Buffer (src/src/protocol_buffer.cpp), the   *)
(* fixed array both ends of the chat cut lines out of, as operators on a   *)
(* record [mem, size].                                                     *)
(*                                                                         *)
(* mem is the whole char array, not only its first size bytes: compact()   *)
(* leaves the old bytes behind the data, and a caller that stores bytes at *)
(* data() and calls increase_size() makes such bytes part of the data      *)
(* again.  Positions count from 1 here and from 0 in the code, so          *)
(* FindDelim is the code's find_delim + 1: the length of the first chunk,  *)
(* 0 when there is none.                                                   *)
(***************************************************************************)
EXTENDS Integers, Sequences

CONSTANTS
  Cap,    \* capacity_ (buffer_size, 1024 in the code)
  Text    \* the bytes other than the delimiter that users type

NL    == "nl"       \* '\n', the delimiter every caller in the program uses
Junk  == "junk"     \* a byte nobody sent that is not the delimiter
Unset == "unset"    \* memory no byte was ever stored in; its value is unknown

Byte == Text \cup {NL, Junk, Unset}

ASSUME CapAssumption  == Cap \in Nat \ {0}
ASSUME TextAssumption == Text \cap {NL, Junk, Unset} = {}

-----------------------------------------------------------------------------

Buffer == [mem : [1..Cap -> Byte], size : 0..Cap]

\* An array that is not initialised (its members are: size_ = 0).
Uninitialised == [mem |-> [j \in 1..Cap |-> Unset], size |-> 0]

Contents(b)  == SubSeq(b.mem, 1, b.size)
FreeSpace(b) == Cap - b.size

\* read(fd, data() + offset, ...): the bytes land behind the first offset ones.
Store(b, offset, bytes) ==
  [b EXCEPT !.mem = [j \in 1..Cap |-> IF j - offset \in 1..Len(bytes)
                                      THEN bytes[j - offset]
                                      ELSE b.mem[j]]]

FitsOneMore(b, n) == n <= FreeSpace(b) + 1

\* The guard of increase_size() and append(): otherwise they throw length_error.
Fits(b, n) == n <= FreeSpace(b)

IncreaseSize(b, n) == [b EXCEPT !.size = @ + n]

AppendBytes(b, bytes) == IncreaseSize(Store(b, b.size, bytes), Len(bytes))

\* memcpy(buffer, other.buffer, other.size_): the copy takes the data and
\* keeps its own memory behind it.
CopyFrom(b, other) ==
  [Store(b, 0, Contents(other)) EXCEPT !.size = other.size]

ClearBuffer(b) == [b EXCEPT !.size = 0]

\* The first d among the data.
FindDelim(b, d) ==
  IF \E j \in 1..b.size : b.mem[j] = d
  THEN CHOOSE j \in 1..b.size : /\ b.mem[j] = d
                                /\ \A m \in 1..(j - 1) : b.mem[m] # d
  ELSE 0

CompactWithoutMove(b, len) == [b EXCEPT !.size = @ - len]

\* memmove of the data behind the first len bytes to the front.
Compact(b, len) ==
  IF len > b.size
  THEN ClearBuffer(b)
  ELSE [mem  |-> [j \in 1..Cap |-> IF j + len <= b.size THEN b.mem[j + len]
                                                        ELSE b.mem[j]],
        size |-> b.size - len]

\* consume_once(delim): the first chunk with its delimiter, << >> if there is
\* no delimiter, and the buffer that is left.
FirstChunk(b, d)  == SubSeq(b.mem, 1, FindDelim(b, d))
ConsumeOnce(b, d) == IF FindDelim(b, d) = 0 THEN b ELSE Compact(b, FindDelim(b, d))
=============================================================================
