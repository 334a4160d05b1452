-------------------------- MODULE ChatServerProofs --------------------------
(***************************************************************************)
(* Theorems about ChatServer, for every set of connections, every capacity *)
(* and every number of clients: its types, a round of its loop, and the    *)
(* count that ends the round.                                              *)
(***************************************************************************)
EXTENDS ChatServer, SequenceTheorems,
        FiniteSetTheorems, WellFoundedInduction, TLAPS

-----------------------------------------------------------------------------
(* Lemmas: the buffer.  A ChatServer's is protocol::Buffer with bytes that *)
(* name their sender: what ProtocolBufferProofs says of it is used here.   *)

Array == INSTANCE ProtocolBufferProofs WITH Text <- Conns

\* The constants are what those proofs assume.
LEMMA ArrayConstants ==
  Cap \in Nat \ {0} /\ Conns \cap {Array!NL, Array!Junk, Array!Unset} = {}
  BY ServerAssumption DEF Array!NL, Array!Junk, Array!Unset, NL, Junk, Unset

\* The operators are the same.
LEMMA ArrayOperators ==
  /\ Buffer = Array!Buffer /\ Byte = Array!Byte
  /\ \A b : Contents(b) = Array!Contents(b)
  /\ \A b, d : /\ FindDelim(b, d) = Array!FindDelim(b, d)
               /\ FirstChunk(b, d) = Array!FirstChunk(b, d)
               /\ ConsumeOnce(b, d) = Array!ConsumeOnce(b, d)
<1>1. Byte = Array!Byte
  BY DEF Byte, Array!Byte, NL, Array!NL, Junk, Array!Junk, Unset, Array!Unset
<1>2. Buffer = Array!Buffer
  BY <1>1 DEF Buffer, Array!Buffer
<1>3. \A b : Contents(b) = Array!Contents(b)
  BY DEF Contents, Array!Contents
<1>4. \A b, d : FindDelim(b, d) = Array!FindDelim(b, d)
  BY DEF FindDelim, Array!FindDelim
<1>5. \A b, n : Compact(b, n) = Array!Compact(b, n)
  BY DEF Compact, Array!Compact, ClearBuffer, Array!ClearBuffer
<1>6. \A b, d : FirstChunk(b, d) = Array!FirstChunk(b, d)
  BY <1>4 DEF FirstChunk, Array!FirstChunk
<1>7. \A b, d : ConsumeOnce(b, d) = Array!ConsumeOnce(b, d)
  BY <1>4, <1>5 DEF ConsumeOnce, Array!ConsumeOnce
<1> QED BY <1>1, <1>2, <1>3, <1>4, <1>6, <1>7

\* consume_once: the first chunk, and what is left.
LEMMA ConsumeContents ==
  ASSUME NEW b \in Buffer, NEW d
  PROVE  /\ ConsumeOnce(b, d) \in Buffer
         /\ ConsumeOnce(b, d).size = b.size - FindDelim(b, d)
         /\ FirstChunk(b, d) \in Seq(Byte)
         /\ Len(FirstChunk(b, d)) = FindDelim(b, d)
         /\ FirstChunk(b, d) \o Contents(ConsumeOnce(b, d)) = Contents(b)
  BY ArrayConstants, ArrayOperators, Array!ConsumeContents

\* A buffer whose size_ is set within the capacity is a buffer.
LEMMA SetSize ==
  ASSUME NEW b \in Buffer, NEW n \in 0..Cap
  PROVE  /\ [b EXCEPT !.size = n] \in Buffer
         /\ [b EXCEPT !.size = n].size = n
         /\ [b EXCEPT !.size = n].mem = b.mem
  BY DEF Buffer

\* A buffer whose memory is replaced is a buffer.
LEMMA SetMem ==
  ASSUME NEW b \in Buffer, NEW m \in [1..Cap -> Byte]
  PROVE  /\ [b EXCEPT !.mem = m] \in Buffer
         /\ [b EXCEPT !.mem = m].size = b.size
         /\ [b EXCEPT !.mem = m].mem = m
  BY DEF Buffer

\* What a read puts at the front of a buffer leaves a buffer, whatever the
\* memory behind it held: size_ stays within the capacity.
LEMMA ReceivesType ==
  ASSUME NEW b \in Buffer, NEW bytes \in Seq(Byte), Len(bytes) <= FreeSpace(b),
         NEW unknown \in [Uncovered(b, Len(bytes)) -> {Junk, NL}], Cap \in Nat
  PROVE  Receives(b, bytes, unknown) \in Buffer
<1> DEFINE m == [j \in 1..Cap |-> IF j - 0 \in 1..Len(bytes)
                                  THEN bytes[j - 0] ELSE b.mem[j]]
           s == Store(b, 0, bytes)
           t == IncreaseSize(s, Len(bytes))
           u == [j \in 1..Cap |-> IF j \in DOMAIN unknown THEN unknown[j] ELSE t.mem[j]]
<1>1. m \in [1..Cap -> Byte]
  <2>1. \A j \in 1..Cap : j - 0 \in 1..Len(bytes) => bytes[j - 0] \in Byte
    OBVIOUS
  <2>2. \A j \in 1..Cap : b.mem[j] \in Byte
    BY DEF Buffer
  <2> QED BY <2>1, <2>2
<1>2. s \in Buffer /\ s.size = b.size
  BY <1>1, SetMem DEF Store
<1>3. s.size + Len(bytes) \in 0..Cap
  BY <1>2 DEF Buffer, FreeSpace
<1>4. t \in Buffer
  <2> HIDE DEF s
  <2> QED BY <1>2, <1>3, SetSize DEF IncreaseSize
<1>5. u \in [1..Cap -> Byte]
  <2> HIDE DEF t
  <2>1. \A j \in 1..Cap : t.mem[j] \in Byte
    BY <1>4 DEF Buffer
  <2>2. \A j \in DOMAIN unknown : unknown[j] \in Byte
    BY DEF Byte
  <2> QED BY <2>1, <2>2
<1>6. Receives(b, bytes, unknown) = [t EXCEPT !.mem = u]
  BY DEF Receives
<1> HIDE DEF t, u
<1> QED
  BY <1>4, <1>5, <1>6, SetMem

\* consume_once returns bytes and leaves a buffer.
LEMMA ConsumeOnceType ==
  ASSUME NEW b \in Buffer, NEW d
  PROVE  /\ ConsumeOnce(b, d) \in Buffer
         /\ FirstChunk(b, d) \in Seq(Byte)
         /\ FirstChunk(b, d) = << >> <=> FindDelim(b, d) = 0
<1> DEFINE f == FirstChunk(b, d)
<1>1. ConsumeOnce(b, d) \in Buffer /\ f \in Seq(Byte) /\ Len(f) = FindDelim(b, d)
  BY ConsumeContents
<1> HIDE DEF f
<1>2. f = << >> <=> FindDelim(b, d) = 0
  BY <1>1, EmptySeq
<1> QED BY <1>1, <1>2 DEF f

\* get_client_name leaves a client.
LEMMA NamedType ==
  ASSUME NEW client \in ClientInfo
  PROVE  Named(client) \in ClientInfo
<1> DEFINE line == FirstChunk(client.buffer, NL)
           name == SubSeq(line, 1, Len(line) - 1)
           rest == ConsumeOnce(client.buffer, NL)
<1>1. CASE client.connected \/ line = << >>
  BY <1>1 DEF Named
<1>2. CASE ~(client.connected \/ line = << >>)
  <2>1. client.buffer \in Buffer
    BY DEF ClientInfo
  <2>2. rest \in Buffer /\ line \in Seq(Byte)
    BY <2>1, ConsumeOnceType, ServerAssumption
  <2>3. name \in Seq(Byte \cup {"NoName"})
    <3> HIDE DEF line
    <3>1. line \in Seq(Byte \cup {"NoName"}) /\ Len(line) \in Nat \ {0}
      BY <1>2, <2>2, SeqMonotonic, EmptySeq
    <3>2. SubSeq(line, 1, Len(line) - 1) \in Seq(Byte \cup {"NoName"})
      BY <3>1
    <3> QED BY <3>2
  <2> HIDE DEF name, rest
  <2>4. [name |-> name, connected |-> TRUE, buffer |-> rest] \in ClientInfo
    BY <2>2, <2>3 DEF ClientInfo
  <2> QED BY <1>2, <2>4 DEF Named, name, rest
<1> QED BY <1>1, <1>2

-----------------------------------------------------------------------------
(* Lemmas: the steps of a round.                                           *)

\* swap with the back, then pop: a sequence of the same elements, one shorter.
LEMMA SwapPopSeq ==
  ASSUME NEW S, NEW s \in Seq(S), NEW j
  PROVE  SwapPop(s, j) \in Seq(S)
<1>1. Len(s) \in Nat /\ \A m \in 1..Len(s) : s[m] \in S
  BY LenProperties
<1>2. CASE Len(s) = 0
  <2>1. 1..(Len(s) - 1) = {} /\ 1..0 = {}
    BY <1>2
  <2>2. SwapPop(s, j) \in [1..0 -> S]
    BY <2>1 DEF SwapPop
  <2> QED BY <2>2, IsASeq
<1>3. CASE Len(s) # 0
  <2>1. Len(s) - 1 \in Nat
    BY <1>1, <1>3
  <2>2. \A m \in 1..(Len(s) - 1) : (IF m = j THEN s[Len(s)] ELSE s[m]) \in S
    BY <1>1, <1>3
  <2>3. SwapPop(s, j) \in [1..(Len(s) - 1) -> S]
    BY <2>2 DEF SwapPop
  <2> QED BY <2>1, <2>3
<1> QED BY <1>2, <1>3

\* ... and the element that moved is the only one that did.
LEMMA SwapPopType ==
  ASSUME NEW S, NEW s \in Seq(S), NEW j \in 1..Len(s)
  PROVE  /\ SwapPop(s, j) \in Seq(S)
         /\ Len(SwapPop(s, j)) = Len(s) - 1
         /\ \A m \in 1..(Len(s) - 1) : SwapPop(s, j)[m] = IF m = j THEN s[Len(s)] ELSE s[m]
<1>1. Len(s) - 1 \in Nat
  OBVIOUS
<1>2. \A m \in 1..(Len(s) - 1) : (IF m = j THEN s[Len(s)] ELSE s[m]) \in S
  OBVIOUS
<1>3. SwapPop(s, j) \in [1..(Len(s) - 1) -> S]
  BY <1>2 DEF SwapPop
<1>4. SwapPop(s, j) \in Seq(S)
  BY <1>1, <1>3
<1> QED BY <1>1, <1>3, <1>4 DEF SwapPop

\* Dealing with an entry goes on with the round or starts the next one.
LEMMA HandledCases ==
  ASSUME NEW next, NEW table, NEW client, nready \in Nat,
         Handled(next, table, client)
  PROVE  \/ /\ pc' = next /\ pollfds' = table /\ i' = client
            /\ nready' \in Nat \ {0} /\ nready' = nready - 1
         \/ /\ pc' = "poll" /\ pollfds' = << >> /\ i' = 1 /\ nready' = 0
  BY DEF Handled, NextRound, LeaveRound

\* Two entries and then others.
LEMMA ConcatTwo ==
  ASSUME NEW S, NEW s \in Seq(S), NEW t \in Seq(S), Len(s) = 2
  PROVE  /\ s \o t \in Seq(S)
         /\ Len(s \o t) = Len(t) + 2
         /\ (s \o t)[1] = s[1]
         /\ (s \o t)[2] = s[2]
         /\ \A j \in 1..Len(t) : (s \o t)[j + 2] = t[j]
<1>1. Len(t) \in Nat
  BY LenProperties
<1>2. /\ s \o t \in Seq(S)
      /\ Len(s \o t) = Len(s) + Len(t)
      /\ \A j \in 1..(Len(s) + Len(t)) :
           (s \o t)[j] = IF j <= Len(s) THEN s[j] ELSE t[j - Len(s)]
  BY ConcatProperties, Zenon
<1> DEFINE n == Len(t)
           u == s \o t
<1>3. \A j \in 1..(2 + n) : u[j] = IF j <= 2 THEN s[j] ELSE t[j - 2]
  BY <1>2
<1>4. n \in Nat /\ Len(u) = 2 + n
  BY <1>1, <1>2
<1> HIDE DEF n, u
<1>5. u[1] = s[1] /\ u[2] = s[2]
  BY <1>3, <1>4
<1>6. ASSUME NEW j \in 1..n PROVE u[j + 2] = t[j]
  <2>1. j + 2 \in 1..(2 + n) /\ ~(j + 2 <= 2) /\ (j + 2) - 2 = j
    BY <1>4
  <2> QED BY <2>1, <1>3
<1>7. Len(u) = n + 2
  BY <1>4
<1> QED BY <1>2, <1>5, <1>6, <1>7 DEF n, u

\* poll answers for the listening socket, the signalfd, and every client in
\* the order of clients.
LEMMA PollTableEntries ==
  ASSUME fds \in Seq(Conns)
  PROVE  /\ PollTable \in Seq(PollFd)
         /\ Len(PollTable) = Len(fds) + 2
         /\ PollTable[1] = Entry("listen", IF backlog = << >> THEN {} ELSE {"POLLIN"})
         /\ PollTable[2] = Entry("signal", IF sig THEN {"POLLIN"} ELSE {})
         /\ \A j \in 1..Len(fds) : PollTable[j + 2] = Entry(fds[j], Revents(fds[j]))
<1> DEFINE two == << Entry("listen", IF backlog = << >> THEN {} ELSE {"POLLIN"}),
                     Entry("signal", IF sig THEN {"POLLIN"} ELSE {}) >>
           rest == [j \in 1..Len(fds) |-> Entry(fds[j], Revents(fds[j]))]
<1>1. /\ Entry("listen", IF backlog = << >> THEN {} ELSE {"POLLIN"}) \in PollFd
      /\ Entry("signal", IF sig THEN {"POLLIN"} ELSE {}) \in PollFd
  BY DEF Entry, PollFd
<1>2. two \in Seq(PollFd) /\ Len(two) = 2
  BY <1>1
<1>3. \A c \in Conns : Entry(c, Revents(c)) \in PollFd
  BY DEF Entry, PollFd, Revents
<1>4. Len(fds) \in Nat /\ \A j \in 1..Len(fds) : fds[j] \in Conns
  OBVIOUS
<1>5. rest \in Seq(PollFd) /\ Len(rest) = Len(fds)
  BY <1>3, <1>4
<1>6. PollTable = two \o rest
  BY DEF PollTable
<1>7. /\ two[1] = Entry("listen", IF backlog = << >> THEN {} ELSE {"POLLIN"})
      /\ two[2] = Entry("signal", IF sig THEN {"POLLIN"} ELSE {})
      /\ \A j \in 1..Len(fds) : rest[j] = Entry(fds[j], Revents(fds[j]))
  OBVIOUS
<1>8. /\ two \o rest \in Seq(PollFd)
      /\ Len(two \o rest) = Len(fds) + 2
      /\ (two \o rest)[1] = two[1]
      /\ (two \o rest)[2] = two[2]
      /\ \A j \in 1..Len(fds) : (two \o rest)[j + 2] = rest[j]
  <2> HIDE DEF two, rest
  <2> QED BY <1>2, <1>5, ConcatTwo
<1> QED BY <1>6, <1>7, <1>8

\* The number of entries poll reports.
LEMMA ReadyIsFinite ==
  ASSUME NEW table, Len(table) \in Nat
  PROVE  IsFiniteSet(Ready(table)) /\ Cardinality(Ready(table)) \in Nat
<1>1. IsFiniteSet(1..Len(table))
  BY FS_Interval
<1> QED BY <1>1, FS_Subset, FS_CardinalityType DEF Ready

\* ... with what is needed of it for types.
LEMMA HandledType ==
  ASSUME NEW next, NEW T, << >> \in T, NEW table \in T, NEW client \in Nat \ {0},
         nready \in Nat, Handled(next, table, client)
  PROVE  /\ pc' \in {next, "poll"} /\ pollfds' \in T
         /\ nready' \in Nat /\ i' \in Nat \ {0}
  BY HandledCases

-----------------------------------------------------------------------------
(* Type correctness.                                                       *)

\* The client a message is collected for is there while it is handled.
InLoop == pc \in {"collect", "write"} => i <= Len(fds)

\* A connection poll reported stays in the backlog until it is accepted.
Backed == pc = "accept" /\ "POLLIN" \in pollfds[1].revents => backlog # << >>

TypeInv == TypeOK /\ InLoop /\ Backed

LEMMA TypeInit == Init => TypeInv
<1> SUFFICES ASSUME Init PROVE TypeInv
  OBVIOUS
<1>1. LoopType
  <2>1. NoMessages \in Messages
    BY DEF NoMessages, Messages
  <2> QED BY <2>1 DEF Init, LoopType
<1>2. ClientsType
  <2>1. Uninitialised \in Buffer
    BY ServerAssumption DEF Uninitialised, Buffer, Byte
  <2>2. NoName \in Seq(Byte \cup {"NoName"})
    BY DEF NoName
  <2>3. info \in [Slots -> ClientInfo]
    BY <2>1, <2>2 DEF Init, ClientInfo
  <2>4. fds \in Seq(Conns) /\ Len(fds) <= MaxClients
    BY ServerAssumption DEF Init
  <2> QED BY <2>3, <2>4 DEF ClientsType
<1>3. SocketType
  <2>1. 0 \in 0..MaxUnread
    BY ServerAssumption
  <2>2. unread \in [Conns -> 0..MaxUnread]
    BY <2>1 DEF Init
  <2>3. backlog \in Seq(Conns)
    BY DEF Init
  <2>4. link \in [Conns -> {"none", "queued", "accepted", "closed"}]
    BY DEF Init
  <2>5. peer \in [Conns -> {"idle", "open", "fin", "rst", "finrst"}]
    BY DEF Init
  <2> QED BY <2>2, <2>3, <2>4, <2>5 DEF Init, SocketType
<1>4. StreamType
  BY DEF Init, StreamType
<1> QED
  BY <1>1, <1>2, <1>3, <1>4 DEF Init, TypeInv, TypeOK, InLoop, Backed

\* What peers, their kernels and the user do keeps the types.
LEMMA TypeEnvironment == TypeInv /\ Environment => TypeInv'
<1> SUFFICES ASSUME TypeInv, Environment PROVE TypeInv'
  OBVIOUS
<1>1. LoopType /\ ClientsType /\ SocketType /\ StreamType /\ InLoop /\ Backed
  BY DEF TypeInv, TypeOK
<1>2. UNCHANGED <<pc, server, relayed>>
  BY DEF Environment, Connect, Send, Receive, Close, Reset, ResetAnswer, Interrupt
<1>3. LoopType' /\ ClientsType' /\ InLoop'
  BY <1>1, <1>2 DEF server, LoopType, ClientsType, InLoop
<1>4. ASSUME NEW c \in Conns, Connect(c) PROVE TypeInv'
  <2>1. backlog' \in Seq(Conns) /\ backlog' # << >>
    BY <1>1, <1>4, AppendProperties DEF SocketType, Connect
  <2>2. SocketType'
    BY <1>1, <1>4, <2>1 DEF SocketType, Connect
  <2>3. StreamType'
    BY <1>1, <1>4 DEF StreamType, Connect
  <2> QED BY <1>3, <2>1, <2>2, <2>3 DEF TypeInv, TypeOK, Backed
<1>5. ASSUME NEW c \in Conns, Send(c) PROVE TypeInv'
  <2>1. PICK shape \in Shapes :
          said' = [said EXCEPT ![c] =
                     @ \o [j \in 1..Len(shape) |-> IF shape[j] = "nl" THEN NL ELSE c]]
    BY <1>5 DEF Send
  <2> DEFINE text == [j \in 1..Len(shape) |-> IF shape[j] = "nl" THEN NL ELSE c]
  <2>2. text \in Seq(Conns \cup {NL})
    <3>1. Len(shape) \in Nat
      BY ServerAssumption
    <3> QED BY <3>1
  <2>3. said[c] \in Seq(Conns \cup {NL})
    BY <1>1 DEF StreamType
  <2>4. /\ said[c] \o text \in Seq(Conns \cup {NL})
        /\ Len(said[c] \o text) >= Len(said[c])
    <3> HIDE DEF text
    <3> QED BY <2>2, <2>3, ConcatProperties, LenProperties
  <2>5. said' = [said EXCEPT ![c] = said[c] \o text]
    BY <2>1
  <2>6. /\ said' \in [Conns -> Seq(Conns \cup {NL})]
        /\ \A d \in Conns : Len(said'[d]) >= Len(said[d])
    <3> HIDE DEF text
    <3> QED BY <1>1, <2>4, <2>5, LenProperties DEF StreamType
  <2>7. StreamType'
    BY <1>1, <1>5, <2>6, LenProperties DEF StreamType, Send
  <2>8. SocketType' /\ Backed'
    BY <1>1, <1>2, <1>5 DEF SocketType, Backed, Send, server
  <2> QED BY <1>3, <2>7, <2>8 DEF TypeInv, TypeOK
<1>6. ASSUME NEW c \in Conns, Receive(c) PROVE TypeInv'
  <2>1. unread' \in [Conns -> 0..MaxUnread]
    BY <1>1, <1>6, ServerAssumption DEF SocketType, Receive
  <2>2. SocketType' /\ StreamType' /\ Backed'
    BY <1>1, <1>2, <1>6, <2>1 DEF SocketType, StreamType, Backed, Receive, server
  <2> QED BY <1>3, <2>2 DEF TypeInv, TypeOK
<1>7. ASSUME NEW c \in Conns, Close(c) PROVE TypeInv'
  <2>1. SocketType' /\ StreamType' /\ Backed'
    BY <1>1, <1>2, <1>7 DEF SocketType, StreamType, Backed, Close, server
  <2> QED BY <1>3, <2>1 DEF TypeInv, TypeOK
<1>8. ASSUME NEW c \in Conns, Reset(c) PROVE TypeInv'
  <2>1. PICK lost \in BOOLEAN :
          taken' = [taken EXCEPT ![c] = IF lost THEN Len(said[c]) ELSE @]
    BY <1>8 DEF Reset
  <2>2. Len(said[c]) \in Nat
    BY <1>1, LenProperties DEF StreamType
  <2>3. taken' \in [Conns -> Nat] /\ \A d \in Conns : taken'[d] <= Len(said[d])
    BY <1>1, <2>1, <2>2 DEF StreamType
  <2>4. SocketType' /\ StreamType' /\ Backed'
    BY <1>1, <1>2, <1>8, <2>3 DEF SocketType, StreamType, Backed, Reset, server
  <2> QED BY <1>3, <2>4 DEF TypeInv, TypeOK
<1>9. ASSUME NEW c \in Conns, ResetAnswer(c) PROVE TypeInv'
  <2>1. SocketType' /\ StreamType' /\ Backed'
    BY <1>1, <1>2, <1>9 DEF SocketType, StreamType, Backed, ResetAnswer, server
  <2> QED BY <1>3, <2>1 DEF TypeInv, TypeOK
<1>10. CASE Interrupt
  <2>1. SocketType' /\ StreamType' /\ Backed'
    BY <1>1, <1>2, <1>10 DEF SocketType, StreamType, Backed, Interrupt, server
  <2> QED BY <1>3, <2>1 DEF TypeInv, TypeOK
<1> QED
  BY <1>4, <1>5, <1>6, <1>7, <1>8, <1>9, <1>10 DEF Environment

\* The end of a round keeps the types.
LEMMA NextRoundType ==
  ASSUME LoopType, ClientsType, SocketType, StreamType, NextRound,
         UNCHANGED <<fds, info, messages, k, net, relayed>>
  PROVE  TypeInv'
<1>1. pc' = "poll" /\ pollfds' = << >> /\ nready' = 0 /\ i' = 1
  BY DEF NextRound, LeaveRound
<1>2. << >> \in Seq(PollFd)
  BY EmptySeq
<1>3. LoopType'
  BY <1>1, <1>2 DEF LoopType
<1> QED BY <1>1, <1>3
        DEF TypeInv, TypeOK, ClientsType, SocketType, StreamType, InLoop, Backed, net

\* What the event loop does keeps the types: no index leaves the vectors, no
\* buffer overflows.
LEMMA TypeServer == TypeInv /\ Server => TypeInv'
<1> SUFFICES ASSUME TypeInv, Server PROVE TypeInv'
  OBVIOUS
<1>1. LoopType /\ ClientsType /\ SocketType /\ StreamType /\ InLoop /\ Backed
  BY DEF TypeInv, TypeOK
<1>2. Len(fds) \in Nat /\ i \in Nat \ {0} /\ nready \in Nat /\ MaxClients \in Nat
  BY <1>1, ServerAssumption, LenProperties DEF ClientsType, LoopType
<1>3. i <= Len(fds) => i \in 1..Len(fds) /\ i \in Slots /\ fds[i] \in Conns
                       /\ info[i] \in ClientInfo
  BY <1>1, <1>2, ElementOfSeq DEF ClientsType, Slots
<1>4. CASE Poll
  <2>1. /\ PollTable \in Seq(PollFd)
        /\ PollTable[1] = Entry("listen", IF backlog = << >> THEN {} ELSE {"POLLIN"})
    BY <1>1, PollTableEntries DEF ClientsType
  <2>2. Cardinality(Ready(PollTable)) \in Nat
    BY <2>1, ReadyIsFinite, LenProperties
  <2>3. LoopType'
    BY <1>1, <1>4, <2>1, <2>2 DEF LoopType, Poll
  <2>4. ClientsType' /\ SocketType' /\ StreamType' /\ InLoop'
    BY <1>1, <1>4 DEF ClientsType, SocketType, StreamType, InLoop, Poll, net
  <2>5. Backed'
    BY <1>4, <2>1 DEF Backed, Poll, Entry, net
  <2> QED BY <2>3, <2>4, <2>5 DEF TypeInv, TypeOK
<1>5. CASE Accept
  <2> DEFINE c == Head(backlog)
             full == Len(fds) >= MaxClients
             table == IF full THEN pollfds ELSE Append(pollfds, NewEntry(c))
  <2>1. backlog # << >>
    BY <1>1, <1>5 DEF Backed, Accept
  <2>2. c \in Conns /\ Tail(backlog) \in Seq(Conns)
    BY <1>1, <2>1, HeadTailProperties DEF SocketType
  <2>3. table \in Seq(PollFd)
    <3>1. NewEntry(c) \in PollFd
      BY <2>2 DEF NewEntry, Entry, PollFd
    <3>2. pollfds \in Seq(PollFd)
      BY <1>1 DEF LoopType
    <3> HIDE DEF c
    <3> QED BY <3>1, <3>2, AppendProperties
  <2>4. Handled("signal", table, i)
    BY <1>5 DEF Accept
  <2>5. LoopType' /\ InLoop' /\ Backed'
    <3> HIDE DEF table
    <3>1. UNCHANGED <<k, messages>>
      BY <1>5 DEF Accept
    <3>2. /\ pc' \in {"signal", "poll"} /\ pollfds' \in Seq(PollFd)
          /\ nready' \in Nat /\ i' \in Nat \ {0}
      <4>1. << >> \in Seq(PollFd)
        OBVIOUS
      <4> QED BY <1>2, <2>3, <2>4, <4>1, HandledType
    <3> QED BY <1>1, <3>1, <3>2 DEF LoopType, InLoop, Backed
  <2>6. CASE full
    <3>1. UNCHANGED <<fds, info>> /\ link' = [link EXCEPT ![c] = "closed"]
      BY <1>5, <2>6 DEF Accept, Reject
    <3>2. ClientsType'
      BY <1>1, <3>1 DEF ClientsType
    <3>3. SocketType' /\ StreamType'
      BY <1>1, <1>5, <2>2, <3>1 DEF SocketType, StreamType, Accept
    <3> QED BY <2>5, <3>2, <3>3 DEF TypeInv, TypeOK
  <2>7. CASE ~full
    <3>1. /\ fds' = Append(fds, c) /\ link' = [link EXCEPT ![c] = "accepted"]
          /\ info' = [info EXCEPT ![Len(fds) + 1] =
                         [name |-> NoName, connected |-> FALSE,
                          buffer |-> ClearBuffer(@.buffer)]]
      BY <1>5, <2>7 DEF Accept, Admit
    <3>2. Len(fds) + 1 \in Slots
      BY <1>2, <2>7 DEF Slots
    <3>3. fds' \in Seq(Conns) /\ Len(fds') <= MaxClients
      BY <1>1, <1>2, <2>2, <2>7, <3>1, AppendProperties DEF ClientsType
    <3>4. [name |-> NoName, connected |-> FALSE,
           buffer |-> ClearBuffer(info[Len(fds) + 1].buffer)] \in ClientInfo
      <4>1. info[Len(fds) + 1].buffer \in Buffer
        BY <1>1, <3>2 DEF ClientsType, ClientInfo
      <4>2. ClearBuffer(info[Len(fds) + 1].buffer) \in Buffer
        BY <4>1, SetSize, ServerAssumption DEF ClearBuffer
      <4>3. NoName \in Seq(Byte \cup {"NoName"})
        BY DEF NoName
      <4> QED BY <4>2, <4>3 DEF ClientInfo
    <3>5. info' \in [Slots -> ClientInfo]
      BY <1>1, <3>1, <3>2, <3>4 DEF ClientsType
    <3>6. SocketType' /\ StreamType'
      BY <1>1, <1>5, <2>2, <3>1 DEF SocketType, StreamType, Accept
    <3> QED BY <2>5, <3>3, <3>5, <3>6 DEF TypeInv, TypeOK, ClientsType
  <2> QED BY <2>6, <2>7
<1>6. CASE NoAccept
  <2>1. LoopType' /\ ClientsType' /\ SocketType' /\ StreamType' /\ InLoop' /\ Backed'
    BY <1>1, <1>6 DEF LoopType, ClientsType, SocketType, StreamType, InLoop, Backed,
                      NoAccept, server, net
  <2> QED BY <2>1 DEF TypeInv, TypeOK
<1>7. CASE NoSignal
  <2>1. LoopType' /\ ClientsType' /\ SocketType' /\ StreamType' /\ InLoop' /\ Backed'
    BY <1>1, <1>7 DEF LoopType, ClientsType, SocketType, StreamType, InLoop, Backed,
                      NoSignal, server, net
  <2> QED BY <2>1 DEF TypeInv, TypeOK
<1>8. ASSUME NEW end \in {"stopped", "threw", "sigpipe"},
             LeaveRound(end), fds' = << >>, CloseAll, sig' \in BOOLEAN,
             UNCHANGED <<info, messages, k, peer, said, taken, unread, relayed>>
      PROVE  TypeInv'
  <2>1. LoopType' /\ InLoop' /\ Backed'
    BY <1>1, <1>8, EmptySeq DEF LoopType, InLoop, Backed, LeaveRound
  <2>2. ClientsType'
    BY <1>1, <1>2, <1>8, EmptySeq DEF ClientsType
  <2>3. SocketType' /\ StreamType'
    BY <1>1, <1>8, EmptySeq DEF SocketType, StreamType, CloseAll
  <2> QED BY <2>1, <2>2, <2>3 DEF TypeInv, TypeOK
<1>9. CASE Signal
  <2>1. sig' \in BOOLEAN
    BY <1>9 DEF Signal
  <2> QED BY <1>8, <1>9, <2>1 DEF Signal
<1>10. ASSUME NEW how \in {"threw", "sigpipe"}, Die(how) PROVE TypeInv'
  <2>1. sig' \in BOOLEAN
    BY <1>1, <1>10 DEF Die, SocketType
  <2> QED BY <1>8, <1>10, <2>1 DEF Die
<1>11. CASE PassClient
  <2>1. CASE i > Len(fds)
    <3>1. NextRound /\ UNCHANGED <<fds, info, messages, k, net, relayed>>
      BY <1>11, <2>1 DEF PassClient
    <3> QED BY <1>1, <3>1, NextRoundType
  <2>2. CASE ~(i > Len(fds))
    <3>1. /\ i' = i + 1 /\ pc' = "clients"
          /\ UNCHANGED <<pollfds, nready, fds, info, messages, k, net, relayed>>
      BY <1>11, <2>2 DEF PassClient
    <3>2. i + 1 \in Nat \ {0}
      BY <1>2
    <3> QED BY <1>1, <3>1, <3>2
            DEF TypeInv, TypeOK, LoopType, ClientsType, SocketType, StreamType,
                InLoop, Backed, net
  <2> QED BY <2>1, <2>2
<1>12. ASSUME pc = "clients", i <= Len(fds), Remove PROVE TypeInv'
  <2>1. /\ SwapPop(fds, i) \in Seq(Conns)
        /\ Len(SwapPop(fds, i)) = Len(fds) - 1
    BY <1>1, <1>3, <1>12, SwapPopType DEF ClientsType
  <2>2. ClientsType'
    BY <1>1, <1>2, <1>12, <2>1 DEF ClientsType, Remove
  <2>3. LoopType' /\ InLoop' /\ Backed'
    <3>1. SwapPop(pollfds, i + 2) \in Seq(PollFd) /\ << >> \in Seq(PollFd)
      BY <1>1, SwapPopSeq, EmptySeq DEF LoopType
    <3>2. Handled("clients", SwapPop(pollfds, i + 2), i) /\ UNCHANGED <<messages, k>>
      BY <1>12 DEF Remove
    <3>3. /\ pc' \in {"clients", "poll"} /\ pollfds' \in Seq(PollFd)
          /\ nready' \in Nat /\ i' \in Nat \ {0}
      BY <1>2, <3>1, <3>2, HandledType
    <3> QED BY <1>1, <3>2, <3>3 DEF LoopType, InLoop, Backed
  <2>4. SocketType' /\ StreamType'
    BY <1>1, <1>3, <1>12 DEF SocketType, StreamType, Remove
  <2> QED BY <2>2, <2>3, <2>4 DEF TypeInv, TypeOK
<1>13. CASE RemoveFailed
  BY <1>12, <1>13 DEF RemoveFailed
<1>14. CASE ReadEnd
  BY <1>12, <1>14 DEF ReadEnd, Reading
<1>15. CASE ReadFails
  BY <1>10, <1>15 DEF ReadFails
<1>16. CASE WriteFails
  BY <1>10, <1>16 DEF WriteFails
<1>17. CASE ReadData
  <2>1. pc = "clients" /\ i <= Len(fds)
    BY <1>17 DEF ReadData, Reading
  <2> DEFINE c == fds[i]
             b == info[i].buffer
             n == ReadSize(c, b)
             bytes == SubSeq(said[c], taken[c] + 1, taken[c] + n)
  <2>2. PICK unknown \in [Uncovered(b, n) -> {Junk, NL}] :
          info' = [info EXCEPT ![i] = Named([@ EXCEPT !.buffer = Receives(b, bytes, unknown)])]
    BY <1>17 DEF ReadData
  <2>3. b \in Buffer /\ i \in Slots /\ info[i] \in ClientInfo
    BY <1>3, <2>1 DEF ClientInfo
  <2>4. /\ n \in Nat /\ n <= FreeSpace(b) /\ taken[c] + n <= Len(said[c])
        /\ taken[c] \in Nat /\ said[c] \in Seq(Conns \cup {NL}) /\ Len(said[c]) \in Nat
    <3>1. /\ taken[c] \in Nat /\ said[c] \in Seq(Conns \cup {NL})
          /\ taken[c] <= Len(said[c]) /\ Len(said[c]) \in Nat
      BY <1>1, <1>3, <2>1, LenProperties DEF StreamType
    <3>2. FreeSpace(b) \in Nat
      BY <2>3, ServerAssumption DEF FreeSpace, Buffer
    <3> QED BY <3>1, <3>2 DEF ReadSize, Pending
  <2>5. bytes \in Seq(Byte) /\ Len(bytes) = n
    <3> DEFINE t == taken[c]
    <3>1. /\ t \in Nat /\ n \in Nat /\ t + n <= Len(said[c])
          /\ said[c] \in Seq(Conns \cup {NL})
      BY <2>4
    <3> HIDE DEF n, t, c
    <3>2. SubSeq(said[c], t + 1, t + n) \in Seq(Conns \cup {NL})
      BY <3>1
    <3>3. Len(SubSeq(said[c], t + 1, t + n)) = n
      BY <3>1
    <3>4. Conns \cup {NL} \subseteq Byte
      BY DEF Byte
    <3> QED BY <3>2, <3>3, <3>4, SeqMonotonic DEF t
  <2>6. Receives(b, bytes, unknown) \in Buffer
    BY <2>2, <2>3, <2>4, <2>5, ReceivesType, ServerAssumption
  <2>7. [info[i] EXCEPT !.buffer = Receives(b, bytes, unknown)] \in ClientInfo
    BY <2>3, <2>6 DEF ClientInfo
  <2>8. info' \in [Slots -> ClientInfo]
    BY <1>1, <2>2, <2>3, <2>7, NamedType DEF ClientsType
  <2>9. ClientsType' /\ SocketType'
    BY <1>1, <1>17, <2>8 DEF ClientsType, SocketType, ReadData
  <2>10. StreamType'
    <3>1. taken' = [taken EXCEPT ![c] = taken[c] + n]
      BY <1>17 DEF ReadData
    <3>2. taken[c] + n \in Nat
      BY <2>4
    <3> HIDE DEF n
    <3>3. taken' \in [Conns -> Nat] /\ \A d \in Conns : taken'[d] <= Len(said[d])
      BY <1>1, <2>4, <3>1, <3>2 DEF StreamType
    <3> QED BY <1>1, <1>17, <3>3 DEF StreamType, ReadData
  <2>11. LoopType' /\ InLoop' /\ Backed'
    <3>1. UNCHANGED <<fds, k, messages>>
      BY <1>17 DEF ReadData
    <3>2. CASE pc' = "collect" /\ UNCHANGED <<pollfds, nready, i>>
      BY <1>1, <2>1, <3>1, <3>2 DEF LoopType, InLoop, Backed
    <3>3. CASE Handled("clients", pollfds, i + 1)
      <4>1. pollfds \in Seq(PollFd) /\ << >> \in Seq(PollFd) /\ i + 1 \in Nat \ {0}
        BY <1>1, <1>2, EmptySeq DEF LoopType
      <4>2. /\ pc' \in {"clients", "poll"} /\ pollfds' \in Seq(PollFd)
            /\ nready' \in Nat /\ i' \in Nat \ {0}
        BY <1>2, <3>3, <4>1, HandledType
      <4> QED BY <1>1, <3>1, <4>2 DEF LoopType, InLoop, Backed
    <3> QED BY <1>17, <3>2, <3>3 DEF ReadData
  <2> QED BY <2>9, <2>10, <2>11 DEF TypeInv, TypeOK
<1>18. CASE CollectLine
  <2>1. pc = "collect" /\ i \in Slots /\ info[i] \in ClientInfo
    BY <1>1, <1>3, <1>18 DEF CollectLine, InLoop
  <2> DEFINE b == info[i].buffer
  <2>2. /\ b \in Buffer /\ ConsumeOnce(b, NL) \in Buffer
        /\ FirstChunk(b, NL) \in Seq(Byte)
    BY <2>1, ConsumeOnceType, ServerAssumption DEF ClientInfo
  <2>3. info' = [info EXCEPT ![i].buffer = ConsumeOnce(b, NL)]
    BY <1>18 DEF CollectLine
  <2>4. [info[i] EXCEPT !.buffer = ConsumeOnce(b, NL)] \in ClientInfo
    BY <2>1, <2>2 DEF ClientInfo
  <2>5. ClientsType'
    BY <1>1, <1>18, <2>1, <2>3, <2>4 DEF ClientsType, CollectLine
  <2>6. messages' \in Messages
    <3>1. messages.body \o FirstChunk(b, NL) \in Seq(Byte)
      BY <1>1, <2>2, ConcatProperties DEF LoopType, Messages
    <3> HIDE DEF b
    <3>2. messages' = [messages EXCEPT !.body = messages.body \o FirstChunk(b, NL)]
      BY <1>18 DEF CollectLine, b
    <3> QED BY <1>1, <3>1, <3>2 DEF LoopType, Messages
  <2>7. LoopType' /\ SocketType' /\ StreamType' /\ InLoop' /\ Backed'
    BY <1>1, <1>18, <2>1, <2>6
       DEF LoopType, SocketType, StreamType, InLoop, Backed, CollectLine, net
  <2> QED BY <2>5, <2>7 DEF TypeInv, TypeOK
<1>19. CASE CollectEnd
  <2>1. pc = "collect" /\ i <= Len(fds) /\ i \in Slots /\ info[i] \in ClientInfo
        /\ fds[i] \in Conns
    BY <1>1, <1>3, <1>19 DEF CollectEnd, InLoop
  <2>2. ClientsType' /\ SocketType'
    BY <1>1, <1>19 DEF ClientsType, SocketType, CollectEnd, net
  <2>3. CASE messages.body = << >>
    <3>1. Handled("clients", pollfds, i + 1) /\ UNCHANGED <<fds, messages, k, relayed, net>>
      BY <1>19, <2>3 DEF CollectEnd
    <3>2. pollfds \in Seq(PollFd) /\ << >> \in Seq(PollFd) /\ i + 1 \in Nat \ {0}
      BY <1>1, <1>2, EmptySeq DEF LoopType
    <3>3. /\ pc' \in {"clients", "poll"} /\ pollfds' \in Seq(PollFd)
          /\ nready' \in Nat /\ i' \in Nat \ {0}
      BY <1>2, <3>1, <3>2, HandledType
    <3>4. LoopType' /\ InLoop' /\ Backed' /\ StreamType'
      BY <1>1, <3>1, <3>3 DEF LoopType, InLoop, Backed, StreamType, net
    <3> QED BY <2>2, <3>4 DEF TypeInv, TypeOK
  <2>4. CASE messages.body # << >>
    <3>1. /\ pc' = "write" /\ k' = 1
          /\ messages' = [messages EXCEPT !.name = info[i].name]
          /\ relayed' = [relayed EXCEPT ![fds[i]] = relayed[fds[i]] \o messages.body]
          /\ UNCHANGED <<pollfds, nready, i, fds, net>>
      BY <1>19, <2>4 DEF CollectEnd
    <3>2. messages' \in Messages /\ messages.body \in Seq(Byte)
      BY <1>1, <2>1, <3>1 DEF LoopType, Messages, ClientInfo
    <3>3. relayed[fds[i]] \o messages.body \in Seq(Byte)
      BY <1>1, <2>1, <3>2, ConcatProperties DEF StreamType
    <3>4. relayed' \in [Conns -> Seq(Byte)]
      BY <1>1, <3>1, <3>3 DEF StreamType
    <3>5. LoopType' /\ InLoop' /\ Backed' /\ StreamType'
      BY <1>1, <2>1, <3>1, <3>2, <3>4 DEF LoopType, InLoop, Backed, StreamType, net
    <3> QED BY <2>2, <3>5 DEF TypeInv, TypeOK
  <2> QED BY <2>3, <2>4
<1>20. CASE SkipSender
  <2>1. k' \in Nat \ {0}
    BY <1>1, <1>20 DEF LoopType, SkipSender
  <2>2. LoopType' /\ ClientsType' /\ SocketType' /\ StreamType' /\ InLoop' /\ Backed'
    BY <1>1, <1>20, <2>1 DEF LoopType, ClientsType, SocketType, StreamType, InLoop, Backed,
                             SkipSender, net
  <2> QED BY <2>2 DEF TypeInv, TypeOK
<1>21. CASE WriteClient
  <2>1. k' \in Nat \ {0}
    BY <1>1, <1>21 DEF LoopType, WriteClient
  <2>2. fds[k] \in Conns
    BY <1>1, <1>2, <1>21, ElementOfSeq DEF LoopType, ClientsType, WriteClient, Writing
  <2>3. unread' \in [Conns -> 0..MaxUnread]
    <3>1. unread[fds[k]] + 1 \in 0..MaxUnread
      BY <1>1, <1>21, <2>2, ServerAssumption DEF SocketType, WriteClient
    <3> QED BY <1>1, <1>21, <2>2, <3>1 DEF SocketType, WriteClient
  <2>4. LoopType' /\ ClientsType' /\ SocketType' /\ StreamType' /\ InLoop' /\ Backed'
    BY <1>1, <1>21, <2>1, <2>3 DEF LoopType, ClientsType, SocketType, StreamType, InLoop,
                                   Backed, WriteClient
  <2> QED BY <2>4 DEF TypeInv, TypeOK
<1>22. CASE WriteEnd
  <2>1. Handled("clients", pollfds, i + 1) /\ messages' = NoMessages /\ k' = 1
        /\ UNCHANGED <<fds, info, net, relayed>>
    BY <1>22 DEF WriteEnd
  <2>2. pollfds \in Seq(PollFd) /\ << >> \in Seq(PollFd) /\ i + 1 \in Nat \ {0}
    BY <1>1, <1>2, EmptySeq DEF LoopType
  <2>3. /\ pc' \in {"clients", "poll"} /\ pollfds' \in Seq(PollFd)
        /\ nready' \in Nat /\ i' \in Nat \ {0}
    BY <1>2, <2>1, <2>2, HandledType
  <2>4. NoMessages \in Messages
    BY DEF NoMessages, Messages
  <2>5. LoopType' /\ InLoop' /\ Backed'
    BY <1>1, <2>1, <2>3, <2>4 DEF LoopType, InLoop, Backed
  <2>6. ClientsType' /\ SocketType' /\ StreamType'
    BY <1>1, <2>1 DEF ClientsType, SocketType, StreamType, net
  <2> QED BY <2>5, <2>6 DEF TypeInv, TypeOK
<1> QED
  BY <1>4, <1>5, <1>6, <1>7, <1>9, <1>11, <1>13, <1>14, <1>15, <1>16, <1>17, <1>18,
     <1>19, <1>20, <1>21, <1>22 DEF Server

\* Every state of the server is well typed, whatever its peers send.
THEOREM TypeCorrect == Spec => []TypeOK
<1>1. Init => TypeInv
  BY TypeInit
<1>2. TypeInv /\ [Next]_vars => TypeInv'
  <2>1. CASE Next
    BY <2>1, TypeEnvironment, TypeServer DEF Next
  <2>2. CASE UNCHANGED vars
    BY <2>2 DEF vars, server, net, TypeInv, TypeOK, LoopType, ClientsType, SocketType,
                StreamType, InLoop, Backed
  <2> QED BY <2>1, <2>2
<1>3. TypeInv => TypeOK
  BY DEF TypeInv
<1> QED BY <1>1, <1>2, <1>3, PTL DEF Spec

-----------------------------------------------------------------------------
(* A round of event_loop: the two vectors stay parallel, every descriptor  *)
(* has one owner, and what poll said of a client is still true when the    *)
(* loop comes to it.                                                       *)

(* Lemmas: s lists, once each, the connections that f maps to v.           *)

Lists(f, s, v) ==
  /\ \A j \in 1..Len(s) : f[s[j]] = v
  /\ \A c \in Conns : f[c] = v => \E j \in 1..Len(s) : s[j] = c
  /\ \A j, m \in 1..Len(s) : s[j] = s[m] => j = m

\* A connection that comes to v is appended.
LEMMA ListsAppend ==
  ASSUME NEW V, NEW f \in [Conns -> V], NEW s \in Seq(Conns), NEW v \in V,
         NEW c \in Conns, f[c] # v, Lists(f, s, v)
  PROVE  Lists([f EXCEPT ![c] = v], Append(s, c), v)
<1> DEFINE n == Len(s)
           t == Append(s, c)
           g == [f EXCEPT ![c] = v]
<1>1. /\ n \in Nat /\ Len(t) = n + 1 /\ t[n + 1] = c
      /\ \A j \in 1..n : t[j] = s[j] /\ s[j] \in Conns
  BY LenProperties, AppendProperties
<1>2. g[c] = v /\ \A d \in Conns : d # c => g[d] = f[d]
  OBVIOUS
<1>3. /\ \A j \in 1..n : f[s[j]] = v
      /\ \A d \in Conns : f[d] = v => \E j \in 1..n : s[j] = d
      /\ \A j, m \in 1..n : s[j] = s[m] => j = m
  BY DEF Lists
<1> HIDE DEF n, t, g
<1>4. \A j \in 1..(n + 1) : j \in 1..n \/ j = n + 1
  BY <1>1
<1>5. \A j \in 1..n : t[j] # c
  BY <1>1, <1>3
<1>6. \A j \in 1..(n + 1) : g[t[j]] = v
  BY <1>1, <1>2, <1>3, <1>4
<1>7. \A d \in Conns : g[d] = v => \E j \in 1..(n + 1) : t[j] = d
  <2> SUFFICES ASSUME NEW d \in Conns, g[d] = v PROVE \E j \in 1..(n + 1) : t[j] = d
    OBVIOUS
  <2>1. CASE d = c
    <3>1. n + 1 \in 1..(n + 1)
      BY <1>1
    <3> QED BY <2>1, <1>1, <3>1
  <2>2. CASE d # c
    <3>1. PICK j \in 1..n : s[j] = d
      BY <2>2, <1>2, <1>3
    <3>2. j \in 1..(n + 1)
      BY <1>1
    <3> QED BY <1>1, <3>1, <3>2
  <2> QED BY <2>1, <2>2
<1>8. \A j, m \in 1..(n + 1) : t[j] = t[m] => j = m
  BY <1>1, <1>3, <1>4, <1>5
<1> QED BY <1>1, <1>6, <1>7, <1>8 DEF Lists, t, g

\* The connection at j leaves v, and the last one takes its place.
LEMMA ListsSwapPop ==
  ASSUME NEW V, NEW f \in [Conns -> V], NEW s \in Seq(Conns), NEW v \in V,
         NEW j \in 1..Len(s), NEW w \in V, w # v, Lists(f, s, v)
  PROVE  Lists([f EXCEPT ![s[j]] = w], SwapPop(s, j), v)
<1> DEFINE n == Len(s)
           t == SwapPop(s, j)
           g == [f EXCEPT ![s[j]] = w]
<1>1. /\ n \in Nat /\ j \in 1..n /\ Len(t) = n - 1
      /\ \A m \in 1..(n - 1) : t[m] = IF m = j THEN s[n] ELSE s[m]
      /\ \A m \in 1..n : s[m] \in Conns
  BY LenProperties, SwapPopType
<1>2. g[s[j]] = w /\ \A d \in Conns : d # s[j] => g[d] = f[d]
  BY <1>1
<1>3. /\ \A m \in 1..n : f[s[m]] = v
      /\ \A d \in Conns : f[d] = v => \E m \in 1..n : s[m] = d
      /\ \A m, q \in 1..n : s[m] = s[q] => m = q
  BY DEF Lists
<1> HIDE DEF n, t, g
<1>4. \A m \in 1..(n - 1) : \E q \in 1..n : t[m] = s[q] /\ q # j /\ (m = j => q = n) /\ (m # j => q = m)
  BY <1>1
<1>5. \A m \in 1..(n - 1) : g[t[m]] = v
  BY <1>1, <1>2, <1>3, <1>4
<1>6. \A d \in Conns : g[d] = v => \E m \in 1..(n - 1) : t[m] = d
  <2> SUFFICES ASSUME NEW d \in Conns, g[d] = v PROVE \E m \in 1..(n - 1) : t[m] = d
    OBVIOUS
  <2>1. d # s[j] /\ f[d] = v
    BY <1>1, <1>2
  <2>2. PICK q \in 1..n : s[q] = d
    BY <1>3, <2>1
  <2>3. q # j
    BY <2>1, <2>2
  <2>4. CASE q = n
    <3>1. j \in 1..(n - 1)
      BY <1>1, <2>3, <2>4
    <3> QED BY <1>1, <2>2, <2>4, <3>1
  <2>5. CASE q # n
    <3>1. q \in 1..(n - 1)
      BY <1>1, <2>5
    <3> QED BY <1>1, <2>2, <2>3, <3>1
  <2> QED BY <2>4, <2>5
<1>7. \A m, q \in 1..(n - 1) : t[m] = t[q] => m = q
  <2> SUFFICES ASSUME NEW m \in 1..(n - 1), NEW q \in 1..(n - 1), t[m] = t[q]
               PROVE  m = q
    OBVIOUS
  <2>1. m \in 1..n /\ q \in 1..n /\ n \in 1..n /\ m # n /\ q # n
    BY <1>1
  <2> QED BY <1>1, <1>3, <2>1
<1> QED BY <1>1, <1>5, <1>6, <1>7 DEF Lists, t, g

\* The first one leaves v.
LEMMA ListsTail ==
  ASSUME NEW V, NEW f \in [Conns -> V], NEW s \in Seq(Conns), NEW v \in V,
         s # << >>, NEW w \in V, w # v, Lists(f, s, v)
  PROVE  Lists([f EXCEPT ![Head(s)] = w], Tail(s), v)
<1> DEFINE n == Len(s)
           t == Tail(s)
           c == Head(s)
           g == [f EXCEPT ![c] = w]
<1>1. /\ n \in Nat \ {0} /\ Len(t) = n - 1 /\ c = s[1]
      /\ \A m \in 1..(n - 1) : t[m] = s[m + 1]
      /\ \A m \in 1..n : s[m] \in Conns
  BY EmptySeq, LenProperties, HeadTailProperties
<1>2. g[c] = w /\ \A d \in Conns : d # c => g[d] = f[d]
  BY <1>1
<1>3. /\ \A m \in 1..n : f[s[m]] = v
      /\ \A d \in Conns : f[d] = v => \E m \in 1..n : s[m] = d
      /\ \A m, q \in 1..n : s[m] = s[q] => m = q
  BY DEF Lists
<1> HIDE DEF n, t, c, g
<1>4. \A m \in 1..(n - 1) : m + 1 \in 1..n /\ m + 1 # 1 /\ 1 \in 1..n
  BY <1>1
<1>5. ASSUME NEW m \in 1..(n - 1) PROVE g[t[m]] = v
  <2>1. t[m] = s[m + 1] /\ m + 1 \in 1..n /\ 1 \in 1..n /\ m + 1 # 1
    BY <1>1, <1>4
  <2>2. s[m + 1] # s[1]
    BY <1>3, <2>1
  <2>3. t[m] \in Conns /\ t[m] # c /\ f[t[m]] = v
    BY <1>1, <1>3, <2>1, <2>2
  <2> QED BY <1>2, <2>3
<1>6. \A m \in 1..(n - 1) : g[t[m]] = v
  BY <1>5
<1>7. \A d \in Conns : g[d] = v => \E m \in 1..(n - 1) : t[m] = d
  <2> SUFFICES ASSUME NEW d \in Conns, g[d] = v PROVE \E m \in 1..(n - 1) : t[m] = d
    OBVIOUS
  <2>1. d # c /\ f[d] = v
    BY <1>2
  <2>2. PICK q \in 1..n : s[q] = d
    BY <1>3, <2>1
  <2>3. q - 1 \in 1..(n - 1) /\ (q - 1) + 1 = q
    BY <1>1, <2>1, <2>2
  <2> QED BY <1>1, <2>2, <2>3
<1>8. \A m, q \in 1..(n - 1) : t[m] = t[q] => m = q
  BY <1>1, <1>3, <1>4
<1> QED BY <1>1, <1>6, <1>7, <1>8 DEF Lists, t, g, c

\* What happens to a connection that is not listed.
LEMMA ListsOther ==
  ASSUME NEW V, NEW f \in [Conns -> V], NEW s \in Seq(Conns), NEW v \in V,
         NEW c \in Conns, f[c] # v, NEW w \in V, w # v, Lists(f, s, v)
  PROVE  Lists([f EXCEPT ![c] = w], s, v)
<1>1. \A j \in 1..Len(s) : s[j] \in Conns
  BY LenProperties
<1> QED BY <1>1 DEF Lists

\* Nothing is listed when no connection is at v.
LEMMA ListsNone ==
  ASSUME NEW f, NEW v, \A c \in Conns : f[c] # v
  PROVE  Lists(f, << >>, v)
<1>1. Len(<< >>) = 0 /\ 1..0 = {}
  OBVIOUS
<1> QED BY <1>1 DEF Lists

-----------------------------------------------------------------------------
(* The inductive invariant.                                                *)

\* A peer that has not connected has no socket here.
Fresh == \A c \in Conns : peer[c] = "idle" => link[c] = "none"

\* FdOwnership, with the descriptors and the backlog as lists.
Owners == Lists(link, fds, "accepted") /\ Lists(link, backlog, "queued")

\* The clients the loop has not come to in this round.
Coming == {j \in 1..Len(fds) : /\ pc = "clients" => j >= i
                               /\ pc \in {"collect", "write"} => j > i}

\* What poll said of them still holds, and the signal it saw is still pending.
Reported ==
  InRound =>
    /\ \A j \in Coming :
         /\ "POLLIN" \in pollfds[j + 2].revents =>
              Pending(fds[j]) > 0 \/ Fin(fds[j]) \/ Rst(fds[j])
         /\ "POLLERR" \in pollfds[j + 2].revents => Rst(fds[j])
    /\ pc \in {"accept", "signal"} /\ "POLLIN" \in pollfds[2].revents => sig

RoundInv == TypeInv /\ Fresh /\ Owners /\ PollfdsParallel /\ Reported

\* The lists say what FdOwnership says.
LEMMA OwnersMeans ==
  ASSUME TypeOK
  PROVE  Owners => FdOwnership
<1> SUFFICES ASSUME Owners PROVE FdOwnership
  OBVIOUS
<1>1. /\ \A j \in 1..Len(fds) : fds[j] \in Conns
      /\ \A j \in 1..Len(backlog) : backlog[j] \in Conns
  BY LenProperties DEF TypeOK, ClientsType, SocketType
<1>2. {c \in Conns : link[c] = "accepted"} = {fds[j] : j \in 1..Len(fds)}
  BY <1>1 DEF Owners, Lists
<1>3. {c \in Conns : link[c] = "queued"} = {backlog[j] : j \in 1..Len(backlog)}
  BY <1>1 DEF Owners, Lists
<1> QED BY <1>2, <1>3 DEF Owners, Lists, FdOwnership

LEMMA RoundInit == Init => RoundInv
<1> SUFFICES ASSUME Init PROVE RoundInv
  OBVIOUS
<1>1. \A c \in Conns : link[c] = "none"
  BY DEF Init
<1>2. Owners
  BY <1>1, ListsNone DEF Init, Owners
<1> QED BY <1>1, <1>2, TypeInit DEF Init, RoundInv, Fresh, PollfdsParallel, Reported, InRound

\* The environment moves no descriptor and takes nothing back that poll saw.
LEMMA RoundEnvironment == RoundInv /\ Environment => RoundInv'
<1> SUFFICES ASSUME RoundInv, Environment PROVE RoundInv'
  OBVIOUS
<1>1. TypeInv /\ Fresh /\ Owners /\ PollfdsParallel /\ Reported
  BY DEF RoundInv
<1>2. TypeInv'
  BY <1>1, TypeEnvironment
<1>3. UNCHANGED <<pc, fds, pollfds, i>>
  BY DEF Environment, Connect, Send, Receive, Close, Reset, ResetAnswer, Interrupt, server
<1>4. /\ link \in [Conns -> {"none", "queued", "accepted", "closed"}]
      /\ peer \in [Conns -> {"idle", "open", "fin", "rst", "finrst"}]
      /\ fds \in Seq(Conns) /\ backlog \in Seq(Conns)
      /\ \A j \in 1..Len(fds) : fds[j] \in Conns
  BY <1>1, ElementOfSeq DEF TypeInv, TypeOK, SocketType, ClientsType
<1>5. PollfdsParallel'
  BY <1>1, <1>3 DEF PollfdsParallel, InRound
<1>6. Fresh' /\ Owners'
  <2>1. ASSUME NEW c \in Conns, Connect(c) PROVE Fresh' /\ Owners'
    <3>1. link[c] = "none" /\ peer[c] = "idle"
      BY <1>1, <2>1 DEF Fresh, Connect
    <3>2. link' = [link EXCEPT ![c] = "queued"] /\ backlog' = Append(backlog, c)
      BY <2>1 DEF Connect
    <3>3. Lists(link', backlog', "queued")
      BY <1>1, <1>4, <3>1, <3>2, ListsAppend DEF Owners
    <3>4. Lists(link', fds', "accepted")
      BY <1>1, <1>3, <1>4, <3>1, <3>2, ListsOther DEF Owners
    <3>5. Fresh'
      BY <1>1, <1>4, <2>1 DEF Fresh, Connect
    <3> QED BY <3>3, <3>4, <3>5 DEF Owners
  <2>2. CASE UNCHANGED <<link, backlog>> /\ \A c \in Conns : peer'[c] = "idle" => peer[c] = "idle"
    BY <1>1, <1>3, <2>2 DEF Fresh, Owners
  <2>3. ASSUME NEW c \in Conns,
               Send(c) \/ Receive(c) \/ Close(c) \/ Reset(c) \/ ResetAnswer(c)
        PROVE  UNCHANGED <<link, backlog>> /\ \A d \in Conns : peer'[d] = "idle" => peer[d] = "idle"
    BY <1>4, <2>3 DEF Send, Receive, Close, Reset, ResetAnswer
  <2>4. CASE Interrupt
    BY <2>2, <2>4 DEF Interrupt
  <2> QED BY <2>1, <2>2, <2>3, <2>4 DEF Environment
<1>7. Reported'
  <2>1. \A c \in Conns : Rst(c) => Rst(c)'
    BY <1>4 DEF Environment, Connect, Send, Receive, Close, Reset, ResetAnswer, Interrupt, Rst
  <2>2. \A c \in Conns : Fin(c) => Fin(c)'
    BY <1>4 DEF Environment, Connect, Send, Receive, Close, Reset, ResetAnswer, Interrupt, Fin
  <2>3. \A c \in Conns : Pending(c) > 0 => Pending(c)' > 0 \/ Rst(c)'
    <3>1. /\ said \in [Conns -> Seq(Conns \cup {NL})] /\ taken \in [Conns -> Nat]
          /\ \A c \in Conns : Len(said[c]) \in Nat
      BY <1>1, LenProperties DEF TypeInv, TypeOK, StreamType
    <3>2. ASSUME NEW d \in Conns, Send(d)
          PROVE  taken' = taken /\ \A c \in Conns : Len(said'[c]) \in Nat /\ Len(said'[c]) >= Len(said[c])
      <4>1. PICK shape \in Shapes :
              said' = [said EXCEPT ![d] =
                         @ \o [j \in 1..Len(shape) |-> IF shape[j] = "nl" THEN NL ELSE d]]
        BY <3>2 DEF Send
      <4> DEFINE text == [j \in 1..Len(shape) |-> IF shape[j] = "nl" THEN NL ELSE d]
      <4>2. text \in Seq(Conns \cup {NL})
        <5>1. Len(shape) \in Nat
          BY ServerAssumption
        <5> QED BY <5>1
      <4>3. said' = [said EXCEPT ![d] = said[d] \o text]
        BY <4>1
      <4> HIDE DEF text
      <4>4. Len(said[d] \o text) \in Nat /\ Len(said[d] \o text) >= Len(said[d])
        BY <3>1, <4>2, ConcatProperties, LenProperties
      <4>5. \A c \in Conns : Len(said'[c]) \in Nat /\ Len(said'[c]) >= Len(said[c])
        BY <3>1, <4>3, <4>4
      <4> QED BY <3>2, <4>5 DEF Send
    <3>3. ASSUME NEW d \in Conns, Send(d)
          PROVE  \A c \in Conns : Pending(c) > 0 => Pending(c)' > 0
      BY <3>1, <3>2, <3>3 DEF Pending
    <3>4. ASSUME NEW d \in Conns, Reset(d)
          PROVE  \A c \in Conns : Pending(c) > 0 => Pending(c)' > 0 \/ Rst(c)'
      BY <1>4, <3>1, <3>4 DEF Reset, Pending, Rst
    <3>5. CASE UNCHANGED <<said, taken>>
      BY <3>5 DEF Pending
    <3>6. ASSUME NEW d \in Conns, Connect(d) \/ Receive(d) \/ Close(d) \/ ResetAnswer(d)
          PROVE  UNCHANGED <<said, taken>>
      BY <3>6 DEF Connect, Receive, Close, ResetAnswer
    <3>7. CASE Interrupt
      BY <3>5, <3>7 DEF Interrupt
    <3> QED BY <3>3, <3>4, <3>5, <3>6, <3>7 DEF Environment
  <2>4. sig => sig'
    BY DEF Environment, Connect, Send, Receive, Close, Reset, ResetAnswer, Interrupt
  <2> QED
    BY <1>1, <1>3, <1>4, <2>1, <2>2, <2>3, <2>4 DEF Reported, InRound, Coming
<1> QED BY <1>2, <1>5, <1>6, <1>7 DEF RoundInv

\* The entry for i and the client i are swapped out together.
LEMMA RemoveKeepsRound ==
  ASSUME RoundInv, TypeInv', pc = "clients", i <= Len(fds), Remove
  PROVE  RoundInv'
<1>1. Fresh /\ Owners /\ PollfdsParallel /\ Reported
  BY DEF RoundInv
<1>2. /\ link \in [Conns -> {"none", "queued", "accepted", "closed"}]
      /\ fds \in Seq(Conns) /\ backlog \in Seq(Conns) /\ pollfds \in Seq(PollFd)
      /\ Len(fds) \in Nat /\ i \in 1..Len(fds) /\ nready \in Nat
      /\ \A j \in 1..Len(fds) : fds[j] \in Conns
  <2>1. /\ link \in [Conns -> {"none", "queued", "accepted", "closed"}]
        /\ fds \in Seq(Conns) /\ backlog \in Seq(Conns) /\ pollfds \in Seq(PollFd)
        /\ i \in Nat \ {0} /\ nready \in Nat
    BY DEF RoundInv, TypeInv, TypeOK, LoopType, SocketType, ClientsType
  <2> QED
    BY <2>1, LenProperties
<1>3. /\ fds' = SwapPop(fds, i)
      /\ link' = [link EXCEPT ![fds[i]] = "closed"]
      /\ Handled("clients", SwapPop(pollfds, i + 2), i)
      /\ UNCHANGED <<backlog, peer, said, taken, sig>>
  BY DEF Remove
<1> DEFINE n == Len(fds)
           table == SwapPop(pollfds, i + 2)
<1>4. /\ Len(pollfds) = n + 2 /\ i + 2 \in 1..Len(pollfds)
      /\ \A j \in 1..n : pollfds[j + 2].fd = fds[j]
  BY <1>1, <1>2 DEF PollfdsParallel, InRound
<1>5. /\ Len(fds') = n - 1
      /\ \A m \in 1..(n - 1) : fds'[m] = IF m = i THEN fds[n] ELSE fds[m]
  BY <1>2, <1>3, SwapPopType
<1>6. /\ Len(table) = n + 1
      /\ \A m \in 1..(n + 1) : table[m] = IF m = i + 2 THEN pollfds[n + 2] ELSE pollfds[m]
  <2> DEFINE q == i + 2
  <2>1. /\ Len(SwapPop(pollfds, q)) = Len(pollfds) - 1
        /\ \A m \in 1..(Len(pollfds) - 1) :
             SwapPop(pollfds, q)[m] = IF m = q THEN pollfds[Len(pollfds)] ELSE pollfds[m]
    <3>1. pollfds \in Seq(PollFd) /\ q \in 1..Len(pollfds)
      BY <1>2, <1>4
    <3> HIDE DEF q
    <3> QED BY <3>1, SwapPopType
  <2> QED BY <1>2, <1>4, <2>1
<1>7. \A m \in 1..(n - 1) : table[m + 2] = IF m = i THEN pollfds[n + 2] ELSE pollfds[m + 2]
  BY <1>2, <1>6
<1>0. link[fds[i]] = "accepted"
  BY <1>1, <1>2 DEF Owners, Lists
<1>8. Fresh'
  BY <1>0, <1>1, <1>2, <1>3 DEF Fresh
<1>9. Owners'
  <2>1. Lists(link', fds', "accepted")
    BY <1>1, <1>2, <1>3, ListsSwapPop DEF Owners
  <2>3. Lists(link', backlog', "queued")
    BY <1>0, <1>1, <1>2, <1>3, ListsOther DEF Owners
  <2> QED BY <2>1, <2>3 DEF Owners
<1> HIDE DEF n, table
<1>10. CASE pc' = "clients" /\ pollfds' = table /\ i' = i
  <2>1. n \in Nat /\ i \in 1..n
    BY <1>2 DEF n
  <2>2. PollfdsParallel'
    <3>1. Len(pollfds') = Len(fds') + 2
      BY <1>5, <1>6, <1>10, <2>1
    <3>2. \A j \in 1..Len(fds') : pollfds'[j + 2].fd = fds'[j]
      BY <1>4, <1>5, <1>7, <1>10, <2>1
    <3> QED BY <3>1, <3>2 DEF PollfdsParallel
  <2>3. Reported'
    <3> SUFFICES ASSUME NEW j \in Coming'
                 PROVE  (/\ "POLLIN" \in pollfds[j + 2].revents =>
                              Pending(fds[j]) > 0 \/ Fin(fds[j]) \/ Rst(fds[j])
                         /\ "POLLERR" \in pollfds[j + 2].revents => Rst(fds[j]))'
      BY <1>10 DEF Reported
    <3>1. j \in 1..(n - 1) /\ j >= i
      BY <1>5, <1>10 DEF Coming
    <3> DEFINE q == IF j = i THEN n ELSE j
    <3>2. q \in 1..n /\ q >= i /\ fds'[j] = fds[q] /\ pollfds'[j + 2] = pollfds[q + 2]
      BY <1>5, <1>7, <1>10, <2>1, <3>1
    <3>3. q \in Coming
      BY <3>2 DEF Coming, n
    <3> HIDE DEF q
    <3>4. /\ "POLLIN" \in pollfds[q + 2].revents =>
               Pending(fds[q]) > 0 \/ Fin(fds[q]) \/ Rst(fds[q])
          /\ "POLLERR" \in pollfds[q + 2].revents => Rst(fds[q])
      BY <1>1, <3>3 DEF Reported, InRound
    <3> QED BY <1>3, <3>2, <3>4 DEF Pending, Fin, Rst
  <2> QED BY <1>8, <1>9, <2>2, <2>3 DEF RoundInv
<1>11. CASE pc' = "poll"
  BY <1>8, <1>9, <1>11 DEF RoundInv, PollfdsParallel, Reported, InRound
<1> QED
  BY <1>2, <1>3, <1>10, <1>11, HandledCases DEF table

\* A step that moves no descriptor and passes over clients at most.
LEMMA GoingOn ==
  ASSUME RoundInv, TypeInv', UNCHANGED <<fds, link, backlog, peer, sig>>,
         \/ pc' = "poll"
         \/ /\ InRound /\ InRound' /\ pollfds' = pollfds
            /\ pc' # "accept" /\ (pc' = "signal" => pc = "accept")
            /\ Coming' \subseteq Coming
            /\ \A j \in Coming' : UNCHANGED <<said[fds[j]], taken[fds[j]]>>
  PROVE  RoundInv'
<1>1. Fresh /\ Owners /\ PollfdsParallel /\ Reported
  BY DEF RoundInv
<1>2. Fresh' /\ Owners'
  BY <1>1 DEF Fresh, Owners
<1>3. CASE pc' = "poll"
  BY <1>2, <1>3 DEF RoundInv, PollfdsParallel, Reported, InRound
<1>4. CASE pc' # "poll"
  <2>1. /\ InRound /\ InRound' /\ pollfds' = pollfds
        /\ pc' # "accept" /\ (pc' = "signal" => pc = "accept")
        /\ Coming' \subseteq Coming
        /\ \A j \in Coming' : UNCHANGED <<said[fds[j]], taken[fds[j]]>>
    BY <1>4
  <2>2. PollfdsParallel'
    BY <1>1, <2>1 DEF PollfdsParallel
  <2>3. \A j \in Coming' :
          (/\ "POLLIN" \in pollfds[j + 2].revents =>
                Pending(fds[j]) > 0 \/ Fin(fds[j]) \/ Rst(fds[j])
           /\ "POLLERR" \in pollfds[j + 2].revents => Rst(fds[j]))'
    <3> SUFFICES ASSUME NEW j \in Coming'
                 PROVE  (/\ "POLLIN" \in pollfds[j + 2].revents =>
                              Pending(fds[j]) > 0 \/ Fin(fds[j]) \/ Rst(fds[j])
                         /\ "POLLERR" \in pollfds[j + 2].revents => Rst(fds[j]))'
      OBVIOUS
    <3>1. /\ "POLLIN" \in pollfds[j + 2].revents =>
               Pending(fds[j]) > 0 \/ Fin(fds[j]) \/ Rst(fds[j])
          /\ "POLLERR" \in pollfds[j + 2].revents => Rst(fds[j])
      BY <1>1, <2>1 DEF Reported
    <3>2. UNCHANGED <<said[fds[j]], taken[fds[j]], fds, peer, pollfds>>
      BY <2>1
    <3> QED BY <3>1, <3>2 DEF Pending, Fin, Rst
  <2>4. pc' \in {"accept", "signal"} /\ "POLLIN" \in pollfds'[2].revents => sig'
    BY <1>1, <2>1 DEF Reported
  <2> QED BY <1>2, <2>2, <2>3, <2>4 DEF RoundInv, Reported
<1> QED BY <1>3, <1>4

\* The end of the loop or of the process: no descriptor is left.
LEMMA Ending ==
  ASSUME RoundInv, TypeInv', NEW end \in {"stopped", "threw", "sigpipe"},
         LeaveRound(end), fds' = << >>, CloseAll, peer' = peer
  PROVE  RoundInv'
<1>1. \A c \in Conns : link'[c] # "accepted" /\ link'[c] # "queued"
  BY DEF CloseAll
<1>2. Owners'
  <2>1. Lists(link', << >>, "accepted") /\ Lists(link', << >>, "queued")
    BY <1>1, ListsNone
  <2> QED BY <2>1 DEF Owners, CloseAll
<1>3. Fresh'
  BY DEF RoundInv, Fresh, CloseAll
<1> QED BY <1>2, <1>3 DEF RoundInv, PollfdsParallel, Reported, InRound, LeaveRound

\* Every step of the loop keeps the invariant.
LEMMA RoundServer == RoundInv /\ Server => RoundInv'
<1> SUFFICES ASSUME RoundInv, Server PROVE RoundInv'
  OBVIOUS
<1>1. TypeInv /\ Fresh /\ Owners /\ PollfdsParallel /\ Reported
  BY DEF RoundInv
<1>2. TypeInv'
  BY <1>1, TypeServer
<1>3. /\ link \in [Conns -> {"none", "queued", "accepted", "closed"}]
      /\ fds \in Seq(Conns) /\ backlog \in Seq(Conns) /\ pollfds \in Seq(PollFd)
      /\ Len(fds) \in Nat /\ nready \in Nat /\ i \in Nat \ {0}
      /\ \A j \in 1..Len(fds) : fds[j] \in Conns
  BY <1>1, LenProperties DEF TypeInv, TypeOK, LoopType, SocketType, ClientsType
<1>4. CASE Poll
  <2>1. /\ Len(PollTable) = Len(fds) + 2
        /\ PollTable[2] = Entry("signal", IF sig THEN {"POLLIN"} ELSE {})
        /\ \A j \in 1..Len(fds) : PollTable[j + 2] = Entry(fds[j], Revents(fds[j]))
    BY <1>3, PollTableEntries
  <2>2. pc' = "accept" /\ pollfds' = PollTable /\ UNCHANGED <<fds, net>>
    BY <1>4 DEF Poll
  <2>3. Fresh' /\ Owners'
    BY <1>1, <2>2 DEF Fresh, Owners, net
  <2> DEFINE table == PollTable
  <2>4. pollfds' = table /\ UNCHANGED <<fds, peer, said, taken, sig>>
    BY <2>2 DEF net
  <2>5. Len(table) = Len(fds) + 2 /\ table[2].revents = IF sig THEN {"POLLIN"} ELSE {}
    BY <2>1 DEF Entry
  <2>6. \A j \in 1..Len(fds) : table[j + 2] = Entry(fds[j], Revents(fds[j]))
    BY <2>1
  <2> HIDE DEF table
  <2>7. \A j \in 1..Len(fds) : /\ table[j + 2].fd = fds[j]
                              /\ table[j + 2].revents = Revents(fds[j])
    <3>1. \A f, e : Entry(f, e).fd = f /\ Entry(f, e).revents = e
      BY DEF Entry
    <3> QED BY <2>6, <3>1
  <2>8. PollfdsParallel'
    BY <2>4, <2>5, <2>7 DEF PollfdsParallel
  <2>9. Reported'
    <3>1. \A j \in 1..Len(fds) :
            (/\ "POLLIN" \in pollfds[j + 2].revents =>
                  Pending(fds[j]) > 0 \/ Fin(fds[j]) \/ Rst(fds[j])
             /\ "POLLERR" \in pollfds[j + 2].revents => Rst(fds[j]))'
      <4> TAKE j \in 1..Len(fds)
      <4>1. pollfds'[j + 2].revents = Revents(fds[j]) /\ fds'[j] = fds[j]
        BY <2>4, <2>7
      <4>2. /\ "POLLIN" \in Revents(fds[j]) => Pending(fds[j]) > 0 \/ Fin(fds[j]) \/ Rst(fds[j])
            /\ "POLLERR" \in Revents(fds[j]) => Rst(fds[j])
        BY DEF Revents
      <4> QED BY <2>4, <4>1, <4>2 DEF Pending, Fin, Rst
    <3>2. "POLLIN" \in pollfds'[2].revents => sig'
      BY <2>4, <2>5
    <3> QED BY <2>2, <2>4, <3>1, <3>2 DEF Reported, Coming
  <2> QED BY <1>2, <2>3, <2>8, <2>9 DEF RoundInv
<1>5. CASE NoAccept
  <2>1. pc = "accept" /\ pc' = "signal" /\ UNCHANGED <<server, net>>
    BY <1>5 DEF NoAccept
  <2> QED BY <1>2, <2>1, GoingOn DEF InRound, Coming, server, net
<1>6. CASE NoSignal
  <2>1. pc = "signal" /\ pc' = "clients" /\ UNCHANGED <<server, net>>
    BY <1>6 DEF NoSignal
  <2> QED BY <1>2, <2>1, GoingOn DEF InRound, Coming, server, net
<1>7. CASE Signal
  BY <1>2, <1>7, Ending DEF Signal
<1>8. CASE PassClient
  <2>1. UNCHANGED <<fds, net>> /\ pc = "clients"
    BY <1>8 DEF PassClient
  <2>2. CASE i > Len(fds)
    <3>1. pc' = "poll"
      BY <1>8, <2>2 DEF PassClient, NextRound, LeaveRound
    <3> QED BY <1>2, <2>1, <3>1, GoingOn DEF net
  <2>3. CASE ~(i > Len(fds))
    <3>1. pc' = "clients" /\ pollfds' = pollfds /\ i' = i + 1
      BY <1>8, <2>1, <2>3 DEF PassClient
    <3>2. Coming' \subseteq Coming
      BY <1>3, <2>1, <3>1 DEF Coming
    <3> QED BY <1>2, <2>1, <3>1, <3>2, GoingOn DEF net, InRound
  <2> QED BY <2>2, <2>3
<1>9. CASE RemoveFailed
  BY <1>2, <1>9, RemoveKeepsRound DEF RemoveFailed
<1>10. CASE ReadEnd
  BY <1>2, <1>10, RemoveKeepsRound DEF ReadEnd, Reading
<1>11. CASE ReadFails
  BY <1>2, <1>11, Ending DEF ReadFails, Die
<1>12. CASE WriteFails
  BY <1>2, <1>12, Ending DEF WriteFails, Die
<1>13. CASE ReadData
  <2>1. /\ pc = "clients" /\ i \in 1..Len(fds)
        /\ UNCHANGED <<fds, backlog, link, peer, said, sig>>
    BY <1>3, <1>13 DEF ReadData, Reading
  <2>2. \A c \in Conns : c # fds[i] => taken'[c] = taken[c]
    BY <1>1, <1>13 DEF ReadData, TypeInv, TypeOK, StreamType
  <2>3. \A j \in Coming : j > i => UNCHANGED <<said[fds[j]], taken[fds[j]]>>
    <3>1. \A j \in 1..Len(fds) : j > i => fds[j] # fds[i] /\ fds[j] \in Conns
      BY <1>1, <1>3, <2>1 DEF Owners, Lists
    <3> QED BY <2>1, <2>2, <3>1 DEF Coming
  <2>4. \/ pc' = "collect" /\ UNCHANGED <<pollfds, i>>
        \/ pc' = "clients" /\ pollfds' = pollfds /\ i' = i + 1
        \/ pc' = "poll"
    <3>1. \/ pc' = "collect" /\ UNCHANGED <<pollfds, nready, i>>
          \/ Handled("clients", pollfds, i + 1)
      BY <1>13 DEF ReadData
    <3> QED BY <1>3, <3>1, HandledCases
  <2>5. pc' # "poll" => Coming' \subseteq {j \in Coming : j > i}
    BY <1>3, <2>1, <2>4 DEF Coming
  <2>6. pc' # "poll" => \A j \in Coming' : UNCHANGED <<said[fds[j]], taken[fds[j]]>>
    BY <2>3, <2>5
  <2> QED BY <1>2, <2>1, <2>4, <2>5, <2>6, GoingOn DEF InRound
<1>14. CASE CollectLine
  <2>1. pc = "collect" /\ UNCHANGED <<pc, fds, pollfds, i, net>>
    BY <1>14 DEF CollectLine
  <2> QED BY <1>2, <2>1, GoingOn DEF InRound, Coming, net
<1>15. CASE CollectEnd
  <2>1. pc = "collect" /\ UNCHANGED <<fds, net>>
    BY <1>15 DEF CollectEnd
  <2>2. \/ pc' = "write" /\ UNCHANGED <<pollfds, i>>
        \/ pc' = "clients" /\ pollfds' = pollfds /\ i' = i + 1
        \/ pc' = "poll"
    <3>1. \/ pc' = "write" /\ UNCHANGED <<pollfds, nready, i>>
          \/ Handled("clients", pollfds, i + 1)
      BY <1>15 DEF CollectEnd
    <3> QED BY <1>3, <3>1, HandledCases
  <2>3. pc' # "poll" => Coming' \subseteq Coming
    BY <1>3, <2>1, <2>2 DEF Coming
  <2> QED BY <1>2, <2>1, <2>2, <2>3, GoingOn DEF InRound, net
<1>16. CASE SkipSender
  <2>1. pc = "write" /\ UNCHANGED <<pc, fds, pollfds, i, net>>
    BY <1>16 DEF SkipSender
  <2> QED BY <1>2, <2>1, GoingOn DEF InRound, Coming, net
<1>17. CASE WriteClient
  <2>1. /\ pc = "write"
        /\ UNCHANGED <<pc, fds, pollfds, i, backlog, link, peer, said, taken, sig>>
    BY <1>17 DEF WriteClient, Writing
  <2> QED BY <1>2, <2>1, GoingOn DEF InRound, Coming
<1>18. CASE WriteEnd
  <2>1. pc = "write" /\ UNCHANGED <<fds, net>>
    BY <1>18 DEF WriteEnd
  <2>2. \/ pc' = "clients" /\ pollfds' = pollfds /\ i' = i + 1
        \/ pc' = "poll"
    BY <1>3, <1>18, HandledCases DEF WriteEnd
  <2>3. pc' # "poll" => Coming' \subseteq Coming
    BY <1>3, <2>1, <2>2 DEF Coming
  <2> QED BY <1>2, <2>1, <2>2, <2>3, GoingOn DEF InRound, net
<1>19. CASE Accept
  <2> DEFINE c == Head(backlog)
  <2>1. /\ backlog # << >> /\ pc = "accept"
        /\ backlog' = Tail(backlog) /\ UNCHANGED <<peer, said, taken, sig>>
    BY <1>1, <1>19 DEF Accept, TypeInv, Backed
  <2>2. c \in Conns /\ link[c] = "queued" /\ peer[c] # "idle"
    <3>1. c = backlog[1] /\ 1 \in 1..Len(backlog) /\ c \in Conns
      BY <1>3, <2>1, HeadTailProperties, EmptySeq
    <3> QED BY <1>1, <3>1 DEF Owners, Lists, Fresh
  <2>3. Fresh /\ Lists(link, fds, "accepted") /\ Lists(link, backlog, "queued")
    BY <1>1 DEF Owners
  <2>4. /\ Len(pollfds) = Len(fds) + 2
        /\ \A j \in 1..Len(fds) : pollfds[j + 2].fd = fds[j]
        /\ \A j \in 1..Len(fds) :
             /\ "POLLIN" \in pollfds[j + 2].revents =>
                  Pending(fds[j]) > 0 \/ Fin(fds[j]) \/ Rst(fds[j])
             /\ "POLLERR" \in pollfds[j + 2].revents => Rst(fds[j])
        /\ "POLLIN" \in pollfds[2].revents => sig
    BY <1>1, <2>1 DEF PollfdsParallel, Reported, InRound, Coming
  <2>5. CASE Len(fds) >= MaxClients
    <3>1. /\ fds' = fds /\ link' = [link EXCEPT ![c] = "closed"]
          /\ Handled("signal", pollfds, i)
      BY <1>19, <2>5 DEF Accept, Reject
    <3>2. Fresh'
      BY <1>3, <2>1, <2>2, <2>3, <3>1 DEF Fresh
    <3>3. Lists(link', fds', "accepted")
      BY <1>3, <2>2, <2>3, <3>1, ListsOther
    <3>4. Lists(link', backlog', "queued")
      BY <1>3, <2>1, <2>3, <3>1, ListsTail
    <3>5. CASE pc' = "signal" /\ pollfds' = pollfds
      <4>1. PollfdsParallel'
        BY <2>4, <3>1, <3>5 DEF PollfdsParallel
      <4>2. Reported'
        BY <2>1, <2>4, <3>1, <3>5 DEF Reported, Coming, Pending, Fin, Rst
      <4> QED BY <1>2, <3>2, <3>3, <3>4, <4>1, <4>2 DEF RoundInv, Owners
    <3>6. CASE pc' = "poll"
      BY <1>2, <3>2, <3>3, <3>4, <3>6 DEF RoundInv, Owners, PollfdsParallel, Reported, InRound
    <3> QED BY <1>3, <3>1, <3>5, <3>6, HandledCases
  <2>6. CASE ~(Len(fds) >= MaxClients)
    <3>1. /\ fds' = Append(fds, c) /\ link' = [link EXCEPT ![c] = "accepted"]
          /\ Handled("signal", Append(pollfds, NewEntry(c)), i)
      BY <1>19, <2>6 DEF Accept, Admit
    <3>2. Fresh'
      BY <1>3, <2>1, <2>2, <2>3, <3>1 DEF Fresh
    <3>3. Lists(link', fds', "accepted")
      <4>1. /\ fds \in Seq(Conns) /\ Lists(link, fds, "accepted") /\ link[c] # "accepted"
            /\ link \in [Conns -> {"none", "queued", "accepted", "closed"}]
        BY <1>3, <2>2, <2>3
      <4>2. link' = [link EXCEPT ![c] = "accepted"] /\ fds' = Append(fds, c)
        BY <3>1
      <4> QED
        BY <2>2, <4>1, <4>2, ListsAppend
    <3>4. Lists(link', backlog', "queued")
      BY <1>3, <2>1, <2>3, <3>1, ListsTail
    <3>5. CASE pc' = "signal" /\ pollfds' = Append(pollfds, NewEntry(c))
      <4> DEFINE n == Len(fds)
                 table == Append(pollfds, NewEntry(c))
      <4>1. NewEntry(c) \in PollFd /\ NewEntry(c).fd = c /\ NewEntry(c).revents = {}
        BY <2>2 DEF NewEntry, Entry, PollFd
      <4>2. /\ n \in Nat /\ Len(fds') = n + 1 /\ fds'[n + 1] = c
            /\ \A j \in 1..n : fds'[j] = fds[j]
        BY <1>3, <2>2, <3>1, AppendProperties
      <4>3. /\ Len(table) = Len(pollfds) + 1 /\ table[Len(pollfds) + 1] = NewEntry(c)
            /\ \A j \in 1..Len(pollfds) : table[j] = pollfds[j]
        <5> DEFINE e == NewEntry(c)
        <5> HIDE DEF e
        <5>1. e \in PollFd
          BY <4>1 DEF e
        <5>2. /\ Len(Append(pollfds, e)) = Len(pollfds) + 1
              /\ Append(pollfds, e)[Len(pollfds) + 1] = e
              /\ \A j \in 1..Len(pollfds) : Append(pollfds, e)[j] = pollfds[j]
          BY <1>3, <5>1, AppendProperties
        <5> QED BY <5>2 DEF e
      <4> HIDE DEF table, n
      <4>4. /\ Len(table) = n + 3 /\ table[n + 3] = NewEntry(c)
            /\ table[2] = pollfds[2]
            /\ \A j \in 1..n : table[j + 2] = pollfds[j + 2]
        <5>1. Len(pollfds) = n + 2
          BY <2>4 DEF n
        <5>2. 2 \in 1..(n + 2) /\ \A j \in 1..n : j + 2 \in 1..(n + 2)
          BY <4>2
        <5> QED BY <4>2, <4>3, <5>1, <5>2
      <4>5. \A j \in 1..(n + 1) : j \in 1..n \/ j = n + 1
        BY <4>2
      <4>6. PollfdsParallel'
        <5>1. \A j \in 1..n : table[j + 2].fd = fds'[j]
          BY <2>4, <4>2, <4>4 DEF n
        <5>2. (n + 1) + 2 = n + 3
          BY <4>2
        <5>3. \A j \in 1..(n + 1) : table[j + 2].fd = fds'[j]
          BY <4>1, <4>2, <4>4, <4>5, <5>1, <5>2
        <5>4. Len(table) = Len(fds') + 2
          BY <4>2, <4>4
        <5> QED BY <3>5, <4>2, <5>3, <5>4 DEF PollfdsParallel, table
      <4>7. Reported'
        <5>1. \A j \in 1..(n + 1) :
                (/\ "POLLIN" \in pollfds[j + 2].revents =>
                      Pending(fds[j]) > 0 \/ Fin(fds[j]) \/ Rst(fds[j])
                 /\ "POLLERR" \in pollfds[j + 2].revents => Rst(fds[j]))'
          <6> TAKE j \in 1..(n + 1)
          <6>1. CASE j = n + 1
            <7>1. pollfds'[j + 2].revents = {}
              <8>1. j + 2 = n + 3
                BY <4>2, <6>1
              <8> QED BY <3>5, <4>1, <4>4, <8>1 DEF table
            <7> QED BY <7>1
          <6>2. CASE j \in 1..n
            <7>1. pollfds'[j + 2] = pollfds[j + 2] /\ fds'[j] = fds[j]
              BY <3>5, <4>2, <4>4, <6>2 DEF table
            <7>2. /\ "POLLIN" \in pollfds[j + 2].revents =>
                       Pending(fds[j]) > 0 \/ Fin(fds[j]) \/ Rst(fds[j])
                  /\ "POLLERR" \in pollfds[j + 2].revents => Rst(fds[j])
              BY <2>4, <6>2 DEF n
            <7> QED BY <2>1, <7>1, <7>2 DEF Pending, Fin, Rst
          <6> QED BY <4>5, <6>1, <6>2
        <5>2. "POLLIN" \in pollfds'[2].revents => sig'
          BY <2>1, <2>4, <3>5, <4>4 DEF table
        <5> QED BY <3>5, <4>2, <5>1, <5>2 DEF Reported, Coming
      <4> QED BY <1>2, <3>2, <3>3, <3>4, <4>6, <4>7 DEF RoundInv, Owners
    <3>6. CASE pc' = "poll"
      BY <1>2, <3>2, <3>3, <3>4, <3>6 DEF RoundInv, Owners, PollfdsParallel, Reported, InRound
    <3> QED BY <1>3, <3>1, <3>5, <3>6, HandledCases
  <2> QED BY <2>5, <2>6
<1> QED
  BY <1>4, <1>5, <1>6, <1>7, <1>8, <1>9, <1>10, <1>11, <1>12, <1>13, <1>14, <1>15, <1>16,
     <1>17, <1>18, <1>19 DEF Server

-----------------------------------------------------------------------------
(* The theorems.                                                           *)

LEMMA RoundStep == RoundInv /\ [Next]_vars => RoundInv'
<1>1. CASE Next
  BY <1>1, RoundEnvironment, RoundServer DEF Next
<1>2. CASE UNCHANGED vars
  BY <1>2 DEF vars, server, net, RoundInv, TypeInv, TypeOK, LoopType, ClientsType,
              SocketType, StreamType, InLoop, Backed, Fresh, Owners, PollfdsParallel,
              Reported, InRound, Coming, Pending, Fin, Rst
<1> QED BY <1>1, <1>2

LEMMA RoundInductive == Spec => []RoundInv
  BY RoundInit, RoundStep, PTL DEF Spec

\* event_loop indexes clients and pollfds with one i: entry i + 2 is always
\* that of clients[i], however many accepts and removals the round has seen.
THEOREM RoundsStayParallel == Spec => []PollfdsParallel
<1>1. RoundInv => PollfdsParallel
  BY DEF RoundInv
<1> QED BY <1>1, RoundInductive, PTL

\* Swapping the last descriptor into the place of a removed client leaks no
\* descriptor and closes none twice.
THEOREM DescriptorsHaveOneOwner == Spec => []FdOwnership
<1>1. RoundInv => FdOwnership
  BY OwnersMeans DEF RoundInv, TypeInv
<1> QED BY <1>1, RoundInductive, PTL

\* accept_socket, the read of the signalfd and read_fd never block the thread.
THEOREM NeverBlocksOutsidePollAndWrite == Spec => []OnlyPollAndWriteBlock
<1>1. RoundInv => OnlyPollAndWriteBlock
  <2> SUFFICES ASSUME RoundInv PROVE OnlyPollAndWriteBlock
    OBVIOUS
  <2>1. TypeInv /\ Reported /\ i \in Nat /\ Len(fds) \in Nat
    BY LenProperties DEF RoundInv, TypeInv, TypeOK, LoopType, ClientsType
  <2>2. Reading => Pending(fds[i]) > 0 \/ Fin(fds[i]) \/ Rst(fds[i])
    <3> SUFFICES ASSUME Reading PROVE Pending(fds[i]) > 0 \/ Fin(fds[i]) \/ Rst(fds[i])
      OBVIOUS
    <3>1. i \in Coming /\ "POLLIN" \in pollfds[i + 2].revents /\ InRound
      BY <2>1 DEF Reading, Coming, InRound, TypeInv, TypeOK, LoopType
    <3> QED BY <2>1, <3>1 DEF Reported
  <2> QED BY <2>1, <2>2 DEF OnlyPollAndWriteBlock, Reported, InRound, TypeInv, Backed
<1> QED BY <1>1, RoundInductive, PTL

\* No client is cut off for what another one did, but with the whole process.
THEOREM ClosesAreJustified == Spec => CloseJustified
<1> DEFINE Closing == \A c \in Conns : link[c] = "accepted" /\ link'[c] = "closed" => Justified(c)
<1>1. RoundInv /\ [Next]_vars => Closing
  <2> SUFFICES ASSUME RoundInv, [Next]_vars, NEW c \in Conns,
                      link[c] = "accepted", link'[c] = "closed"
               PROVE  Justified(c)
    OBVIOUS
  <2>1. /\ link \in [Conns -> {"none", "queued", "accepted", "closed"}]
        /\ i \in Nat \ {0} /\ k \in Nat \ {0} /\ Len(fds) \in Nat
        /\ \A j \in 1..Len(fds) : fds[j] \in Conns /\ link[fds[j]] = "accepted"
    BY LenProperties DEF RoundInv, TypeInv, TypeOK, LoopType, SocketType, ClientsType, Owners, Lists
  <2>2. link'[c] # link[c]
    OBVIOUS
  <2>3. CASE UNCHANGED vars
    BY <2>2, <2>3 DEF vars, net
  <2>4. CASE Environment
    <3>1. \A d \in Conns : Connect(d) => link'[c] \in {link[c], "queued"}
      BY <2>1 DEF Connect
    <3>2. \A d \in Conns : Connect(d) => link'[c] # "closed"
      BY <3>1
    <3> QED BY <2>2, <2>4, <3>2 DEF Environment, Send, Receive, Close, Reset, ResetAnswer, Interrupt
  <2>5. CASE Poll \/ NoAccept \/ NoSignal \/ PassClient \/ ReadData \/ CollectLine \/ CollectEnd
             \/ SkipSender \/ WriteClient \/ WriteEnd
    BY <2>2, <2>5 DEF Poll, NoAccept, NoSignal, PassClient, ReadData, CollectLine, CollectEnd,
                      SkipSender, WriteClient, WriteEnd, net
  <2>6. CASE Accept
    <3>1. backlog # << >> /\ backlog \in Seq(Conns)
      BY <2>6 DEF Accept, RoundInv, TypeInv, Backed, TypeOK, SocketType
    <3>2. Head(backlog) = backlog[1] /\ 1 \in 1..Len(backlog) /\ Head(backlog) \in Conns
      BY <3>1, HeadTailProperties, EmptySeq, LenProperties
    <3>3. link[Head(backlog)] = "queued"
      BY <3>2 DEF RoundInv, Owners, Lists
    <3>4. link'[c] = link[c]
      BY <2>1, <2>6, <3>2, <3>3 DEF Accept, Reject, Admit
    <3> QED BY <2>2, <3>4
  <2>7. CASE Signal
    BY <2>7 DEF Signal, LeaveRound, RoundInv, Reported, InRound, Justified
  <2>8. CASE RemoveFailed
    <3>1. c = fds[i]
      BY <2>1, <2>2, <2>8 DEF RemoveFailed, Remove
    <3>2. i \in Coming
      BY <2>1, <2>8 DEF RemoveFailed, Coming
    <3>3. Rst(fds[i])
      BY <2>8, <3>2 DEF RemoveFailed, RoundInv, Reported, InRound
    <3> QED BY <3>1, <3>3 DEF Justified
  <2>9. CASE ReadEnd
    <3>1. c = fds[i] /\ i \in 1..Len(fds)
      BY <2>1, <2>2, <2>9 DEF ReadEnd, Reading, Remove
    <3> QED BY <2>9, <3>1 DEF ReadEnd, Justified
  <2>10. CASE ReadFails
    <3>1. i \in 1..Len(fds) /\ Rst(fds[i]) /\ pc' = "threw"
      BY <2>1, <2>10 DEF ReadFails, Reading, Rst, Die, LeaveRound
    <3> QED BY <2>1, <3>1 DEF Justified
  <2>11. CASE WriteFails
    <3>1. k \in 1..Len(fds) /\ Rst(fds[k]) /\ pc' \in {"threw", "sigpipe"}
      BY <2>1, <2>11 DEF WriteFails, Writing, Die, LeaveRound
    <3> QED BY <2>1, <3>1 DEF Justified
  <2> QED
    BY <2>3, <2>4, <2>5, <2>6, <2>7, <2>8, <2>9, <2>10, <2>11 DEF Next, Server
<1> QED BY <1>1, RoundInductive, PTL DEF Spec, CloseJustified

-----------------------------------------------------------------------------
(* ready_fds_count: event_loop takes one off it for each entry it deals    *)
(* with, while accepts append entries and removals swap them, and stops at *)
(* zero.  First the ready entries of a table from a place on.              *)

From(table, first) == {j \in first..Len(table) : table[j].revents # {}}

\* They can be counted.
LEMMA FromIsFinite ==
  ASSUME NEW table \in Seq(PollFd), NEW first \in Nat
  PROVE  IsFiniteSet(From(table, first)) /\ Cardinality(From(table, first)) \in Nat
<1>1. IsFiniteSet(first..Len(table))
  BY FS_Interval
<1> QED BY <1>1, FS_Subset, FS_CardinalityType DEF From

\* Behind the end there are none.
LEMMA FromBehindEnd ==
  ASSUME NEW table \in Seq(PollFd), NEW first \in Nat, first > Len(table)
  PROVE  Cardinality(From(table, first)) = 0
<1>1. From(table, first) = {}
  BY DEF From
<1> QED BY <1>1, FS_EmptySet

\* Stepping over an entry with nothing to report changes nothing.
LEMMA StepOverIdle ==
  ASSUME NEW table \in Seq(PollFd), NEW first \in 1..Len(table), table[first].revents = {}
  PROVE  From(table, first + 1) = From(table, first)
<1>1. \A j \in first..Len(table) : j # first => j \in (first + 1)..Len(table)
  OBVIOUS
<1>2. \A j \in (first + 1)..Len(table) : j \in first..Len(table)
  OBVIOUS
<1> QED BY <1>1, <1>2 DEF From

\* Stepping over a ready one leaves one less.
LEMMA StepOverReady ==
  ASSUME NEW table \in Seq(PollFd), NEW first \in 1..Len(table), table[first].revents # {}
  PROVE  Cardinality(From(table, first + 1)) = Cardinality(From(table, first)) - 1
<1> DEFINE A == From(table, first)
           B == From(table, first + 1)
<1>1. B = A \ {first}
  <2>1. \A j : j \in (first + 1)..Len(table) <=> j \in first..Len(table) /\ j # first
    OBVIOUS
  <2> QED BY <2>1 DEF From
<1>2. first \in A
  BY DEF From
<1>3. IsFiniteSet(A)
  BY FromIsFinite
<1> HIDE DEF A, B
<1>4. Cardinality(A \ {first}) = Cardinality(A) - 1
  BY <1>2, <1>3, FS_RemoveElement
<1> QED BY <1>1, <1>4 DEF A, B

\* The last entry takes the place of a ready one: nothing ready is passed
\* over, and the place is looked at again.
LEMMA SwapOutReady ==
  ASSUME NEW table \in Seq(PollFd), NEW first \in 1..Len(table), table[first].revents # {}
  PROVE  Cardinality(From(SwapPop(table, first), first))
           = Cardinality(From(table, first)) - 1
<1> DEFINE n == Len(table)
           t == SwapPop(table, first)
           A == From(t, first)
           B == From(table, first + 1)
<1>1. /\ n \in Nat \ {0} /\ first \in 1..n /\ Len(t) = n - 1
      /\ \A m \in 1..(n - 1) : t[m] = IF m = first THEN table[n] ELSE table[m]
  BY LenProperties, SwapPopType
<1>2. A = {j \in first..(n - 1) : t[j].revents # {}}
  BY <1>1 DEF From
<1>3. B = {j \in (first + 1)..n : table[j].revents # {}}
  BY DEF From
<1>4. IsFiniteSet(B) /\ Cardinality(B) \in Nat
  <2>1. first + 1 \in Nat
    BY <1>1
  <2> QED BY <2>1, FromIsFinite
<1>5. Cardinality(B) = Cardinality(From(table, first)) - 1
  BY StepOverReady
<1> HIDE DEF n, t, A, B
<1>6. CASE first = n
  <2>1. A = {} /\ B = {}
    BY <1>1, <1>2, <1>3, <1>6
  <2> QED BY <1>5, <2>1 DEF A, t
<1>7. CASE first # n
  <2>1. first \in 1..(n - 1) /\ n \in (first + 1)..n /\ first \in first..(n - 1)
    BY <1>1, <1>7
  <2>2. \A j : j \in first..(n - 1) /\ j # first <=> j \in (first + 1)..n /\ j # n
    BY <1>1
  <2>3. \A j \in (first + 1)..n : j # n => t[j] = table[j]
    BY <1>1
  <2>4. t[first] = table[n]
    BY <1>1, <2>1
  <2>5. A \ {first} = B \ {n}
    BY <1>2, <1>3, <2>2, <2>3
  <2>6. first \in A <=> n \in B
    BY <1>2, <1>3, <2>1, <2>4
  <2>7. first \notin B \ {n}
    BY <1>3, <1>1
  <2>8. CASE n \in B
    <3>1. A = (B \ {n}) \cup {first}
      BY <2>5, <2>6, <2>8
    <3>2. IsFiniteSet(B \ {n}) /\ Cardinality(B \ {n}) = Cardinality(B) - 1
      BY <1>4, <2>8, FS_RemoveElement
    <3>3. Cardinality(A) = Cardinality(B \ {n}) + 1
      BY <2>7, <3>1, <3>2, FS_AddElement
    <3>4. Cardinality(A) = Cardinality(B)
      BY <1>4, <3>2, <3>3
    <3> QED BY <1>5, <3>4 DEF A, t
  <2>9. CASE n \notin B
    <3>1. A = B
      BY <2>5, <2>6, <2>9
    <3> QED BY <1>5, <3>1 DEF A, t
  <2> QED BY <2>8, <2>9
<1> QED BY <1>6, <1>7

\* A client accepted in this round is not one of its ready ones.
LEMMA AppendIdle ==
  ASSUME NEW table \in Seq(PollFd), NEW e \in PollFd, e.revents = {},
         NEW first \in 1..(Len(table) + 1)
  PROVE  From(Append(table, e), first) = From(table, first)
<1> DEFINE n == Len(table)
           t == Append(table, e)
<1>1. /\ n \in Nat /\ Len(t) = n + 1 /\ t[n + 1] = e
      /\ \A j \in 1..n : t[j] = table[j]
  BY LenProperties, AppendProperties
<1>2. From(t, first) = {j \in first..(n + 1) : t[j].revents # {}}
  BY <1>1 DEF From
<1> HIDE DEF t
<1>3. \A j \in first..(n + 1) : j = n + 1 \/ (j \in 1..n /\ j \in first..n)
  BY <1>1
<1>4. \A j \in first..n : j \in 1..n /\ j \in first..(n + 1) /\ j # n + 1
  BY <1>1
<1> QED BY <1>1, <1>2, <1>3, <1>4 DEF From, t

-----------------------------------------------------------------------------
(* The inductive invariant of the count.                                   *)

\* Where the loop looks in pollfds.
Place == CASE pc = "accept" -> 1 [] pc = "signal" -> 2 [] OTHER -> i + 2

\* The for loop starts with the first client.
StartsAtFirst == pc \in {"poll", "accept", "signal"} => i = 1

\* The listening socket and the signalfd report POLLIN or nothing: the code
\* asks for no other event of theirs.
OnlyPollin ==
  /\ pc = "accept" => pollfds[1].revents \subseteq {"POLLIN"}
  /\ pc \in {"accept", "signal"} => pollfds[2].revents \subseteq {"POLLIN"}

\* The client whose message is handled is a ready one.
HandlesReady == pc \in {"collect", "write"} => pollfds[i + 2].revents # {}

Counted == InRound => nready = Cardinality(From(pollfds, Place)) /\ nready > 0

CountInv == RoundInv /\ Counted /\ StartsAtFirst /\ OnlyPollin /\ HandlesReady

LEMMA CountInit == Init => CountInv
  BY RoundInit DEF Init, CountInv, Counted, StartsAtFirst, OnlyPollin, HandlesReady, InRound

LEMMA CountEnvironment == CountInv /\ Environment => CountInv'
<1> SUFFICES ASSUME CountInv, Environment PROVE CountInv'
  OBVIOUS
<1>1. UNCHANGED <<pc, fds, pollfds, i, nready>>
  BY DEF Environment, Connect, Send, Receive, Close, Reset, ResetAnswer, Interrupt, server
<1>2. RoundInv'
  BY RoundEnvironment DEF CountInv
<1> QED BY <1>1, <1>2 DEF CountInv, Counted, StartsAtFirst, OnlyPollin, HandlesReady,
                          InRound, From, Place

\* An entry is dealt with: one less is counted, and where the loop goes on
\* there is one less to come.
LEMMA HandledCounts ==
  ASSUME CountInv, RoundInv', InRound, NEW next \in {"signal", "clients"}, NEW table,
         NEW client \in Nat \ {0}, Handled(next, table, client),
         next = "signal" => client = 1 /\ table[2].revents \subseteq {"POLLIN"},
         Cardinality(From(table, IF next = "signal" THEN 2 ELSE client + 2))
           = Cardinality(From(pollfds, Place)) - 1
  PROVE  CountInv'
<1>1. nready \in Nat /\ nready = Cardinality(From(pollfds, Place))
  BY DEF CountInv, Counted, RoundInv, TypeInv, TypeOK, LoopType
<1>2. CASE /\ pc' = next /\ pollfds' = table /\ i' = client
           /\ nready' \in Nat \ {0} /\ nready' = nready - 1
  <2>1. Place' = IF next = "signal" THEN 2 ELSE client + 2
    BY <1>2 DEF Place
  <2>2. Counted'
    BY <1>1, <1>2, <2>1 DEF Counted
  <2> QED BY <1>2, <2>2 DEF CountInv, StartsAtFirst, OnlyPollin, HandlesReady
<1>3. CASE pc' = "poll" /\ i' = 1
  BY <1>3 DEF CountInv, Counted, InRound, StartsAtFirst, OnlyPollin, HandlesReady
<1> QED BY <1>1, <1>2, <1>3, HandledCases

\* Nothing is counted between the rounds.
LEMMA NoRoundNoCount ==
  ASSUME RoundInv', pc' \in {"poll", "stopped", "threw", "sigpipe"}, i' = 1
  PROVE  CountInv'
  BY DEF CountInv, Counted, InRound, StartsAtFirst, OnlyPollin, HandlesReady

\* A system call that deals with no entry.
LEMMA SamePlaceCounts ==
  ASSUME CountInv, RoundInv', pc \in {"clients", "collect", "write"},
         pc' \in {"collect", "write"}, UNCHANGED <<pollfds, nready, i>>,
         pollfds[i + 2].revents # {}
  PROVE  CountInv'
  BY DEF CountInv, Counted, InRound, StartsAtFirst, OnlyPollin, HandlesReady, Place

\* The client i leaves, and the last entry takes its place.
LEMMA RemoveCounts ==
  ASSUME CountInv, RoundInv', pc = "clients", i <= Len(fds),
         pollfds[i + 2].revents # {}, Remove
  PROVE  CountInv'
<1>1. /\ pollfds \in Seq(PollFd) /\ i \in Nat \ {0} /\ i + 2 \in 1..Len(pollfds)
  <2>1. pollfds \in Seq(PollFd) /\ i \in Nat \ {0} /\ Len(fds) \in Nat
    BY LenProperties DEF CountInv, RoundInv, TypeInv, TypeOK, LoopType, ClientsType
  <2>2. Len(pollfds) = Len(fds) + 2
    BY DEF CountInv, RoundInv, PollfdsParallel, InRound
  <2> QED BY <2>1, <2>2
<1> DEFINE q == i + 2
<1>2. Cardinality(From(SwapPop(pollfds, q), q)) = Cardinality(From(pollfds, q)) - 1
  <2> HIDE DEF q
  <2> QED BY <1>1, SwapOutReady DEF q
<1>3. Place = i + 2 /\ InRound
  BY DEF Place, InRound
<1>4. Handled("clients", SwapPop(pollfds, i + 2), i)
  BY DEF Remove
<1> QED BY <1>1, <1>2, <1>3, <1>4, HandledCounts

LEMMA CountServer == CountInv /\ Server => CountInv'
<1> SUFFICES ASSUME CountInv, Server PROVE CountInv'
  OBVIOUS
<1>1. RoundInv /\ Counted /\ StartsAtFirst /\ OnlyPollin /\ HandlesReady
  BY DEF CountInv
<1>2. RoundInv'
  BY <1>1, RoundServer
<1>3. /\ pollfds \in Seq(PollFd) /\ fds \in Seq(Conns) /\ Len(fds) \in Nat
      /\ i \in Nat \ {0} /\ nready \in Nat /\ Len(pollfds) \in Nat
  BY <1>1, LenProperties DEF RoundInv, TypeInv, TypeOK, LoopType, ClientsType
<1>4. InRound => Len(pollfds) = Len(fds) + 2
  BY <1>1 DEF RoundInv, PollfdsParallel
<1>5. InRound => nready = Cardinality(From(pollfds, Place)) /\ nready > 0
  BY <1>1 DEF Counted
\* The client i is dealt with and stays, wherever in its handling that is.
<1>6. ASSUME pc \in {"clients", "collect", "write"}, i <= Len(fds),
             pollfds[i + 2].revents # {}, Handled("clients", pollfds, i + 1)
      PROVE  CountInv'
  <2> DEFINE q == i + 2
  <2>1. InRound /\ Place = q
    BY <1>6 DEF InRound, Place
  <2>2. q \in 1..Len(pollfds) /\ i + 1 \in Nat \ {0} /\ q + 1 = (i + 1) + 2
    BY <1>3, <1>4, <1>6, <2>1
  <2>3. Cardinality(From(pollfds, q + 1)) = Cardinality(From(pollfds, q)) - 1
    <3> HIDE DEF q
    <3> QED BY <1>3, <1>6, <2>2, StepOverReady DEF q
  <2> QED BY <1>2, <1>6, <2>1, <2>2, <2>3, HandledCounts
<1>7. pc \in {"collect", "write"} => i <= Len(fds) /\ pollfds[i + 2].revents # {}
  BY <1>1 DEF RoundInv, TypeInv, InLoop, HandlesReady
<1>8. CASE Poll
  <2>1. /\ pc = "poll" /\ pc' = "accept" /\ i' = i /\ i = 1
        /\ pollfds' = PollTable /\ nready' = Cardinality(Ready(PollTable))
        /\ Ready(PollTable) # {}
    BY <1>1, <1>8 DEF Poll, StartsAtFirst
  <2>2. Ready(PollTable) = From(PollTable, 1)
    BY DEF Ready, From
  <2>3. PollTable \in Seq(PollFd) /\ Len(PollTable) \in Nat
        /\ PollTable[1].revents \subseteq {"POLLIN"}
        /\ PollTable[2].revents \subseteq {"POLLIN"}
    BY <1>3, PollTableEntries, LenProperties DEF Entry
  <2>4. nready' > 0
    <3>1. IsFiniteSet(Ready(PollTable)) /\ Cardinality(Ready(PollTable)) \in Nat
      BY <2>3, ReadyIsFinite
    <3> QED BY <2>1, <3>1, FS_EmptySet
  <2> QED BY <1>2, <2>1, <2>2, <2>3, <2>4
          DEF CountInv, Counted, InRound, Place, StartsAtFirst, OnlyPollin, HandlesReady
<1>9. CASE Accept
  <2> DEFINE c == Head(backlog)
             e == NewEntry(c)
             table == IF Len(fds) >= MaxClients THEN pollfds ELSE Append(pollfds, e)
  <2>1. /\ pc = "accept" /\ "POLLIN" \in pollfds[1].revents
        /\ Handled("signal", table, i)
    BY <1>9 DEF Accept
  <2>2. /\ InRound /\ Place = 1 /\ i = 1 /\ 1 \in 1..Len(pollfds) /\ 2 \in 1..Len(pollfds)
        /\ pollfds[2].revents \subseteq {"POLLIN"}
    BY <1>1, <1>3, <1>4, <2>1 DEF InRound, Place, StartsAtFirst, OnlyPollin
  <2>3. Cardinality(From(pollfds, 2)) = Cardinality(From(pollfds, 1)) - 1
    <3>1. pollfds[1].revents # {} /\ 1 + 1 = 2
      BY <2>1
    <3> QED BY <1>3, <2>2, <3>1, StepOverReady
  <2>4. e \in PollFd /\ e.revents = {}
    <3>1. backlog # << >> /\ backlog \in Seq(Conns)
      BY <1>1, <2>1 DEF RoundInv, TypeInv, Backed, TypeOK, SocketType
    <3>2. c \in Conns
      BY <3>1, HeadTailProperties
    <3> QED BY <3>2 DEF NewEntry, Entry, PollFd
  <2>5. table[2] = pollfds[2] /\ From(table, 2) = From(pollfds, 2)
    <3>1. Append(pollfds, e)[2] = pollfds[2] /\ From(Append(pollfds, e), 2) = From(pollfds, 2)
      <4> HIDE DEF e
      <4>1. 2 \in 1..(Len(pollfds) + 1)
        BY <1>3, <2>2
      <4> QED BY <1>3, <2>2, <2>4, <4>1, AppendIdle, AppendProperties
    <3> QED BY <3>1
  <2> HIDE DEF table
  <2>6. table[2].revents \subseteq {"POLLIN"}
    BY <2>2, <2>5
  <2>7. Cardinality(From(table, IF "signal" = "signal" THEN 2 ELSE i + 2))
          = Cardinality(From(pollfds, Place)) - 1
    BY <2>2, <2>3, <2>5
  <2> QED BY <1>2, <1>3, <2>1, <2>2, <2>6, <2>7, HandledCounts
<1>10. CASE NoAccept
  <2>1. /\ pc = "accept" /\ pc' = "signal" /\ UNCHANGED <<pollfds, nready, i>>
        /\ "POLLIN" \notin pollfds[1].revents
    BY <1>10 DEF NoAccept, server
  <2>2. InRound /\ Place = 1 /\ Place' = 2 /\ pollfds[1].revents = {} /\ 1 \in 1..Len(pollfds)
    BY <1>1, <1>3, <1>4, <2>1 DEF InRound, Place, OnlyPollin
  <2>3. From(pollfds, 2) = From(pollfds, 1)
    <3>1. 1 + 1 = 2
      OBVIOUS
    <3> QED BY <1>3, <2>2, <3>1, StepOverIdle
  <2>4. Counted'
    BY <1>5, <2>1, <2>2, <2>3 DEF Counted
  <2> QED BY <1>1, <1>2, <2>1, <2>4 DEF CountInv, StartsAtFirst, OnlyPollin, HandlesReady
<1>11. CASE NoSignal
  <2>1. /\ pc = "signal" /\ pc' = "clients" /\ UNCHANGED <<pollfds, nready, i>>
        /\ "POLLIN" \notin pollfds[2].revents
    BY <1>11 DEF NoSignal, server
  <2>2. /\ InRound /\ Place = 2 /\ Place' = 3 /\ pollfds[2].revents = {}
        /\ 2 \in 1..Len(pollfds)
    BY <1>1, <1>3, <1>4, <2>1 DEF InRound, Place, OnlyPollin, StartsAtFirst
  <2>3. From(pollfds, 3) = From(pollfds, 2)
    <3>1. 2 + 1 = 3
      OBVIOUS
    <3> QED BY <1>3, <2>2, <3>1, StepOverIdle
  <2>4. Counted'
    BY <1>5, <2>1, <2>2, <2>3 DEF Counted
  <2> QED BY <1>1, <1>2, <2>1, <2>4 DEF CountInv, StartsAtFirst, OnlyPollin, HandlesReady
<1>12. CASE Signal
  BY <1>2, <1>12, NoRoundNoCount DEF Signal, LeaveRound
<1>13. CASE PassClient
  <2>1. pc = "clients" /\ InRound /\ Place = i + 2
    BY <1>13 DEF PassClient, InRound, Place
  <2>2. CASE i > Len(fds)
    <3>1. pc' = "poll" /\ i' = 1
      BY <1>13, <2>2 DEF PassClient, NextRound, LeaveRound
    <3> QED BY <1>2, <3>1, NoRoundNoCount
  <2>3. CASE ~(i > Len(fds))
    <3> DEFINE q == i + 2
    <3>1. /\ pollfds[q].revents = {} /\ pc' = "clients" /\ i' = i + 1
          /\ UNCHANGED <<pollfds, nready>>
      BY <1>13, <2>1, <2>3 DEF PassClient
    <3>2. q \in 1..Len(pollfds) /\ Place' = q + 1
      BY <1>3, <1>4, <2>1, <2>3, <3>1 DEF Place
    <3>3. From(pollfds, q + 1) = From(pollfds, q)
      <4> HIDE DEF q
      <4> QED BY <1>3, <3>1, <3>2, StepOverIdle
    <3>4. Counted'
      BY <1>5, <2>1, <3>1, <3>2, <3>3 DEF Counted
    <3> QED BY <1>2, <3>1, <3>4 DEF CountInv, StartsAtFirst, OnlyPollin, HandlesReady
  <2> QED BY <2>2, <2>3
<1>14. CASE RemoveFailed
  BY <1>2, <1>14, RemoveCounts DEF RemoveFailed
<1>15. CASE ReadEnd
  BY <1>2, <1>15, RemoveCounts DEF ReadEnd, Reading
<1>16. CASE ReadFails \/ WriteFails
  BY <1>2, <1>16, NoRoundNoCount DEF ReadFails, WriteFails, Die, LeaveRound
<1>17. CASE ReadData
  <2>1. /\ pc = "clients" /\ i <= Len(fds) /\ pollfds[i + 2].revents # {}
        /\ \/ pc' = "collect" /\ UNCHANGED <<pollfds, nready, i>>
           \/ Handled("clients", pollfds, i + 1)
    BY <1>17 DEF ReadData, Reading
  <2> QED BY <1>2, <1>6, <2>1, SamePlaceCounts
<1>18. CASE CollectLine
  BY <1>2, <1>7, <1>18, SamePlaceCounts DEF CollectLine
<1>19. CASE CollectEnd
  <2>1. /\ pc = "collect"
        /\ \/ pc' = "write" /\ UNCHANGED <<pollfds, nready, i>>
           \/ Handled("clients", pollfds, i + 1)
    BY <1>19 DEF CollectEnd
  <2> QED BY <1>2, <1>6, <1>7, <2>1, SamePlaceCounts
<1>20. CASE SkipSender \/ WriteClient
  BY <1>2, <1>7, <1>20, SamePlaceCounts DEF SkipSender, WriteClient, Writing
<1>21. CASE WriteEnd
  BY <1>6, <1>7, <1>21 DEF WriteEnd
<1> QED
  BY <1>8, <1>9, <1>10, <1>11, <1>12, <1>13, <1>14, <1>15, <1>16, <1>17, <1>18, <1>19,
     <1>20, <1>21 DEF Server

LEMMA CountStep == CountInv /\ [Next]_vars => CountInv'
<1>1. CASE Next
  BY <1>1, CountEnvironment, CountServer DEF Next
<1>2. ASSUME CountInv, UNCHANGED vars PROVE CountInv'
  <2>1. RoundInv /\ [Next]_vars => RoundInv'
    BY RoundStep
  <2>2. UNCHANGED <<pc, fds, pollfds, i, nready>>
    BY <1>2 DEF vars, server
  <2> QED BY <1>2, <2>1, <2>2 DEF CountInv, Counted, StartsAtFirst, OnlyPollin, HandlesReady,
                                 InRound, From, Place
<1> QED BY <1>1, <1>2

LEMMA CountInductive == Spec => []CountInv
  BY CountInit, CountStep, PTL DEF Spec

\* ready_fds_count is at every moment of a round the number of ready entries
\* ahead, and never zero: the loop leaves a round with the last of them, and no
\* swap hides a ready client from it or shows it one twice.
THEOREM CountIsExact == Spec => []ReadyCountExact
<1>1. CountInv => ReadyCountExact
  BY DEF CountInv, Counted, ReadyCountExact, Ahead, From, Place
<1> QED BY <1>1, CountInductive, PTL

\* With an entry left to deal with, there is a ready one at or behind the
\* client the loop looks at.
LEMMA ClientAhead == CountInv => (pc = "clients" => i <= Len(fds))
<1> SUFFICES ASSUME CountInv, pc = "clients", i > Len(fds) PROVE FALSE
  BY LenProperties DEF CountInv, RoundInv, TypeInv, TypeOK, LoopType, ClientsType
<1>1. /\ pollfds \in Seq(PollFd) /\ i \in Nat \ {0} /\ Len(fds) \in Nat
      /\ Len(pollfds) = Len(fds) + 2
      /\ Cardinality(From(pollfds, i + 2)) > 0
  BY LenProperties DEF CountInv, RoundInv, TypeInv, TypeOK, LoopType, ClientsType,
                       PollfdsParallel, InRound, Counted, Place
<1>2. i + 2 \in Nat /\ i + 2 > Len(pollfds)
  BY <1>1
<1>3. Cardinality(From(pollfds, i + 2)) = 0
  <2> DEFINE q == i + 2
  <2> HIDE DEF q
  <2>1. Cardinality(From(pollfds, q)) = 0
    BY <1>1, <1>2, FromBehindEnd DEF q
  <2> QED BY <2>1 DEF q
<1> QED BY <1>1, <1>3

\* The loop never walks off the end of clients: the last ready entry ends the
\* round before.
THEOREM LoopEndsInTime == Spec => [](pc = "clients" => i <= Len(fds))
  BY ClientAhead, CountInductive, PTL

-----------------------------------------------------------------------------
(* A round ends: what is left of it grows less with every step.            *)

\* What is left of a stage is counted down to zero.
LEMMA LeftIsNat ==
  CountInv /\ (pc = "write" => k <= Len(fds) + 1) => LeftOfStage \in Nat
<1> SUFFICES ASSUME CountInv, pc = "write" => k <= Len(fds) + 1 PROVE LeftOfStage \in Nat
  OBVIOUS
<1>1. /\ i \in Nat \ {0} /\ k \in Nat \ {0} /\ Len(fds) \in Nat
      /\ info \in [Slots -> ClientInfo] /\ Len(fds) <= MaxClients
  BY LenProperties DEF CountInv, RoundInv, TypeInv, TypeOK, LoopType, ClientsType
<1>2. CASE pc = "clients"
  <2>1. i <= Len(fds)
    BY <1>2, ClientAhead
  <2> QED BY <1>1, <1>2, <2>1 DEF LeftOfStage
<1>3. CASE pc = "collect"
  <2>1. i \in Slots
    BY <1>1, <1>3, ServerAssumption DEF CountInv, RoundInv, TypeInv, InLoop, Slots
  <2>2. info[i].buffer.size \in 0..Cap
    BY <1>1, <2>1 DEF ClientInfo, Buffer
  <2> QED BY <1>3, <2>2, ServerAssumption DEF LeftOfStage
<1>4. CASE pc = "write"
  BY <1>1, <1>4 DEF LeftOfStage
<1>5. CASE pc \notin {"clients", "collect", "write"}
  BY <1>5 DEF LeftOfStage
<1> QED BY <1>2, <1>3, <1>4, <1>5

\* Every step of the server in a round.
LEMMA ServerNearsEnd ==
  ASSUME CountInv, CountInv', InRound, Server
  PROVE  ~InRound' \/ (NearsEnd /\ LeftOfStage' >= 0)
<1>1. /\ nready \in Nat /\ i \in Nat \ {0} /\ k \in Nat \ {0} /\ Len(fds) \in Nat
      /\ info \in [Slots -> ClientInfo] /\ Len(fds) <= MaxClients
  BY LenProperties DEF CountInv, RoundInv, TypeInv, TypeOK, LoopType, ClientsType
<1>2. ASSUME ~InRound' \/ (NearsEnd /\ (pc' = "write" => k' <= Len(fds') + 1))
      PROVE  ~InRound' \/ (NearsEnd /\ LeftOfStage' >= 0)
  <2>1. (CountInv /\ (pc = "write" => k <= Len(fds) + 1) => LeftOfStage \in Nat)'
    BY LeftIsNat, PTL
  <2>2. LeftOfStage' \in Nat => LeftOfStage' >= 0
    OBVIOUS
  <2> QED BY <1>2, <2>1, <2>2
<1>3. pc' = "poll" => ~InRound'
  BY DEF InRound
<1>4. pc' \in {"stopped", "threw", "sigpipe"} => ~InRound'
  BY DEF InRound
<1>5. pc # "poll"
  BY DEF InRound
<1>6. ASSUME \E next \in {"signal", "clients"} :
               \E table, client : Handled(next, table, client)
      PROVE  ~InRound' \/ (NearsEnd /\ (pc' = "write" => k' <= Len(fds') + 1))
  <2>1. PICK next \in {"signal", "clients"} :
          \E table, client : Handled(next, table, client)
    BY <1>6
  <2>2. pc' = "poll" \/ (nready' < nready /\ pc' = next)
    BY <1>1, <2>1, HandledCases
  <2> QED BY <1>3, <2>1, <2>2 DEF NearsEnd
<1>7. CASE Accept
  BY <1>2, <1>6, <1>7 DEF Accept
<1>8. CASE NoAccept
  <2>1. pc = "accept" /\ pc' = "signal" /\ nready' = nready
    BY <1>8 DEF NoAccept, server
  <2> QED BY <1>2, <2>1 DEF NearsEnd, Stage
<1>9. CASE Signal
  BY <1>4, <1>9 DEF Signal, LeaveRound
<1>10. CASE NoSignal
  <2>1. pc = "signal" /\ pc' = "clients" /\ nready' = nready
    BY <1>10 DEF NoSignal, server
  <2> QED BY <1>2, <2>1 DEF NearsEnd, Stage
<1>11. CASE PassClient
  <2>1. CASE pc' = "poll"
    BY <1>3, <2>1
  <2>2. CASE pc' # "poll"
    <3>1. pc = "clients" /\ pc' = "clients" /\ i' = i + 1 /\ UNCHANGED <<fds, nready>>
      BY <1>11, <2>2 DEF PassClient, NextRound, LeaveRound
    <3> QED BY <1>1, <1>2, <3>1 DEF NearsEnd, Stage, LeftOfStage
  <2> QED BY <2>1, <2>2
<1>12. CASE RemoveFailed \/ ReadEnd
  BY <1>2, <1>6, <1>12 DEF RemoveFailed, ReadEnd, Remove
<1>13. CASE ReadFails
  BY <1>4, <1>13 DEF ReadFails, Die, LeaveRound
<1>14. CASE ReadData
  <2>1. \/ pc = "clients" /\ pc' = "collect" /\ nready' = nready
        \/ Handled("clients", pollfds, i + 1)
    BY <1>14 DEF ReadData, Reading
  <2>2. CASE pc = "clients" /\ pc' = "collect" /\ nready' = nready
    BY <1>2, <2>2 DEF NearsEnd, Stage
  <2> QED BY <1>2, <1>6, <2>1, <2>2
<1>15. CASE CollectLine
  <2> DEFINE b == info[i].buffer
  <2>1. /\ pc = "collect" /\ pc' = pc /\ nready' = nready /\ i' = i
        /\ info' = [info EXCEPT ![i].buffer = ConsumeOnce(b, NL)]
        /\ FindDelim(b, NL) > 0
    BY <1>15 DEF CollectLine, AnotherLine
  <2>2. i \in Slots
    BY <1>1, <2>1, ServerAssumption DEF CountInv, RoundInv, TypeInv, InLoop, Slots
  <2>3. b \in Buffer
    BY <1>1, <2>2 DEF ClientInfo
  <2>4. info'[i].buffer = ConsumeOnce(b, NL)
    BY <1>1, <2>1, <2>2 DEF ClientInfo
  <2> HIDE DEF b
  <2>5. /\ ConsumeOnce(b, NL) \in Buffer
        /\ ConsumeOnce(b, NL).size = b.size - FindDelim(b, NL)
    BY <2>3, ConsumeContents
  <2>6. FindDelim(b, NL) \in 0..b.size /\ b.size \in 0..Cap
    <3>1. Array!FindDelim(b, NL) \in 0..b.size
      BY <2>3, ArrayConstants, ArrayOperators, Array!FindDelimIs
    <3> QED BY <2>3, <3>1, ArrayOperators DEF Buffer
  <2>7. ConsumeOnce(b, NL).size < b.size
    BY <2>1, <2>5, <2>6, ServerAssumption
  <2>8. LeftOfStage = b.size /\ LeftOfStage' = ConsumeOnce(b, NL).size
    BY <2>1, <2>4 DEF LeftOfStage, b
  <2> QED BY <1>2, <2>1, <2>7, <2>8 DEF NearsEnd, Stage
<1>16. CASE CollectEnd
  <2>1. \/ pc = "collect" /\ pc' = "write" /\ nready' = nready /\ k' = 1 /\ fds' = fds
        \/ Handled("clients", pollfds, i + 1)
    BY <1>16 DEF CollectEnd
  <2>2. CASE pc = "collect" /\ pc' = "write" /\ nready' = nready /\ k' = 1 /\ fds' = fds
    BY <1>1, <1>2, <2>2 DEF NearsEnd, Stage
  <2> QED BY <1>2, <1>6, <2>1, <2>2
<1>17. CASE SkipSender \/ WriteClient
  <2>1. pc = "write" /\ pc' = "write" /\ k' = k + 1 /\ UNCHANGED <<fds, nready>>
    BY <1>17 DEF SkipSender, WriteClient, Writing
  <2>2. k <= Len(fds)
    BY <1>1, <1>17, <2>1 DEF SkipSender, WriteClient, Writing, CountInv, RoundInv, TypeInv, InLoop
  <2> QED BY <1>1, <1>2, <2>1, <2>2 DEF NearsEnd, Stage, LeftOfStage
<1>18. CASE WriteFails
  BY <1>4, <1>18 DEF WriteFails, Die, LeaveRound
<1>19. CASE WriteEnd
  BY <1>2, <1>6, <1>19 DEF WriteEnd
<1>20. CASE Poll
  BY <1>5, <1>20 DEF Poll
<1> QED
  BY <1>7, <1>8, <1>9, <1>10, <1>11, <1>12, <1>13, <1>14, <1>15, <1>16, <1>17, <1>18, <1>19,
     <1>20 DEF Server

\* However much its peers send, a round of the event loop comes to its end: each
\* step of the server deals with an entry poll has reported, goes on with the one
\* at hand, or ends the round, and no peer undoes it.
THEOREM EveryRoundEnds == Spec => RoundsEnd
<1> DEFINE Ends == InRound => IF Server
                              THEN ~InRound' \/ (NearsEnd /\ LeftOfStage' >= 0)
                              ELSE UNCHANGED <<nready, Stage, LeftOfStage>>
<1>1. CountInv /\ CountInv' /\ [Next]_vars => Ends
  <2> SUFFICES ASSUME CountInv, CountInv', [Next]_vars, InRound, ~Server
               PROVE  UNCHANGED <<nready, Stage, LeftOfStage>>
    BY ServerNearsEnd
  <2>1. UNCHANGED <<pc, fds, info, nready, i, k>>
    BY DEF Next, Environment, Connect, Send, Receive, Close, Reset, ResetAnswer, Interrupt,
           vars, server
  <2> QED BY <2>1 DEF Stage, LeftOfStage
<1>2. CountInv /\ [Next]_vars => CountInv'
  BY CountStep
<1> QED BY <1>1, CountInductive, PTL DEF Spec, RoundsEnd

-----------------------------------------------------------------------------
(* A signal poll has reported is read in that round.                       *)

\* Behind the signalfd the round goes on only without a signal.
NoSignalBehind ==
  pc \in {"clients", "collect", "write"} => "POLLIN" \notin pollfds[2].revents

SignalInv == CountInv /\ NoSignalBehind

\* The entries of the listening socket and the signalfd outlast a removal.
LEMMA SwapPopKeepsFront ==
  ASSUME NEW s \in Seq(PollFd), NEW m \in Nat \ {0}, m + 2 <= Len(s)
  PROVE  SwapPop(s, m + 2)[2] = s[2]
<1>1. Len(s) \in Nat /\ 2 \in 1..(Len(s) - 1) /\ m + 2 \in 1..Len(s) /\ m + 2 # 2
  BY LenProperties
<1> DEFINE q == m + 2
<1> HIDE DEF q
<1>2. SwapPop(s, q)[2] = IF 2 = q THEN s[Len(s)] ELSE s[2]
  BY <1>1, SwapPopType DEF q
<1> QED BY <1>1, <1>2 DEF q

LEMMA SignalStep == SignalInv /\ [Next]_vars => SignalInv'
<1> SUFFICES ASSUME SignalInv, [Next]_vars PROVE NoSignalBehind'
  BY CountStep DEF SignalInv
<1>2. /\ pollfds \in Seq(PollFd) /\ nready \in Nat /\ i \in Nat \ {0} /\ Len(fds) \in Nat
      /\ InRound => Len(pollfds) = Len(fds) + 2
  BY LenProperties DEF SignalInv, CountInv, RoundInv, TypeInv, TypeOK, LoopType, ClientsType,
                       PollfdsParallel
<1>3. CASE UNCHANGED <<pc, pollfds>>
  BY <1>3 DEF SignalInv, NoSignalBehind
<1>4. CASE pc' \notin {"clients", "collect", "write"}
  BY <1>4 DEF NoSignalBehind
<1>5. CASE pc \in {"clients", "collect", "write"} /\ pollfds' = pollfds
  BY <1>5 DEF SignalInv, NoSignalBehind
<1>6. CASE UNCHANGED vars \/ Environment
  BY <1>3, <1>6 DEF vars, server, Environment, Connect, Send, Receive, Close, Reset, ResetAnswer,
                    Interrupt
<1>7. CASE Accept
  BY <1>2, <1>4, <1>7, HandledCases DEF Accept
<1>8. CASE Poll \/ NoAccept \/ Signal \/ ReadFails \/ WriteFails
  BY <1>4, <1>8 DEF Poll, NoAccept, Signal, ReadFails, WriteFails, Die, LeaveRound
<1>9. CASE NoSignal
  BY <1>9 DEF NoSignal, server, NoSignalBehind
<1>10. CASE PassClient
  BY <1>4, <1>5, <1>10 DEF PassClient, NextRound, LeaveRound
<1>11. CASE RemoveFailed \/ ReadEnd
  <2>1. pc = "clients" /\ i <= Len(fds) /\ Handled("clients", SwapPop(pollfds, i + 2), i)
    BY <1>11 DEF RemoveFailed, ReadEnd, Reading, Remove
  <2>2. pc' = "poll" \/ pollfds' = SwapPop(pollfds, i + 2)
    BY <1>2, <2>1, HandledCases
  <2>3. SwapPop(pollfds, i + 2)[2] = pollfds[2]
    BY <1>2, <2>1, SwapPopKeepsFront DEF InRound
  <2> QED BY <1>4, <2>1, <2>2, <2>3 DEF SignalInv, NoSignalBehind
<1>12. CASE ReadData
  <2>1. pc = "clients" /\ (pollfds' = pollfds \/ Handled("clients", pollfds, i + 1))
    BY <1>12 DEF ReadData, Reading
  <2>2. pollfds' = pollfds \/ pc' = "poll"
    BY <1>2, <2>1, HandledCases
  <2> QED BY <1>4, <1>5, <2>1, <2>2
<1>13. CASE CollectEnd
  <2>1. pc = "collect" /\ (pollfds' = pollfds \/ Handled("clients", pollfds, i + 1))
    BY <1>13 DEF CollectEnd
  <2>2. pollfds' = pollfds \/ pc' = "poll"
    BY <1>2, <2>1, HandledCases
  <2> QED BY <1>4, <1>5, <2>1, <2>2
<1>14. CASE WriteEnd
  <2>1. pc = "write" /\ (pollfds' = pollfds \/ pc' = "poll")
    BY <1>2, <1>14, HandledCases DEF WriteEnd
  <2> QED BY <1>4, <1>5, <2>1
<1>15. CASE CollectLine \/ SkipSender \/ WriteClient
  BY <1>3, <1>15 DEF CollectLine, SkipSender, WriteClient
<1> QED
  BY <1>6, <1>7, <1>8, <1>9, <1>10, <1>11, <1>12, <1>13, <1>14, <1>15 DEF Next, Server

\* With a connection and a signal both reported, the accept is not the end.
LEMMA TwoAhead ==
  ASSUME CountInv, pc = "accept", pollfds[1].revents # {}, pollfds[2].revents # {}
  PROVE  nready > 1
<1>1. /\ pollfds \in Seq(PollFd) /\ Len(pollfds) \in Nat /\ Len(pollfds) >= 2
      /\ nready = Cardinality(From(pollfds, 1))
  BY LenProperties DEF CountInv, RoundInv, TypeInv, TypeOK, LoopType, ClientsType,
                       PollfdsParallel, InRound, Counted, Place
<1>2. Cardinality(From(pollfds, 2)) = Cardinality(From(pollfds, 1)) - 1
  BY <1>1, StepOverReady
<1>3. Cardinality(From(pollfds, 3)) = Cardinality(From(pollfds, 2)) - 1
  BY <1>1, StepOverReady
<1>4. Cardinality(From(pollfds, 3)) \in Nat /\ Cardinality(From(pollfds, 1)) \in Nat
  BY <1>1, FromIsFinite
<1> QED BY <1>1, <1>2, <1>3, <1>4

\* A reported signal ends the loop before the round is over: the count is still
\* above zero behind the accept, and nothing else comes before it.
THEOREM SignalsAreSeen == Spec => SignalEndsRound
<1> DEFINE Seen == InRound /\ "POLLIN" \in pollfds[2].revents => pc' # "poll"
<1>1. SignalInv /\ [Next]_vars => Seen \/ UNCHANGED vars
  <2> SUFFICES ASSUME SignalInv, Next, InRound, "POLLIN" \in pollfds[2].revents
               PROVE  pc' # "poll"
    OBVIOUS
  <2>1. pc \in {"accept", "signal"}
    BY DEF SignalInv, NoSignalBehind, InRound
  <2>2. CASE Accept
    <3>1. nready > 1 /\ nready \in Nat
      BY <2>2, TwoAhead DEF Accept, SignalInv, CountInv, RoundInv, TypeInv, TypeOK, LoopType
    <3>2. PICK table : Handled("signal", table, i)
      BY <2>2 DEF Accept
    <3> QED BY <3>1, <3>2 DEF Handled
  <2>3. CASE NoAccept
    BY <2>3 DEF NoAccept
  <2>4. CASE Signal
    BY <2>4 DEF Signal, LeaveRound
  <2>5. CASE Environment
    BY <2>1, <2>5 DEF Environment, Connect, Send, Receive, Close, Reset, ResetAnswer, Interrupt
  <2>6. ~(Poll \/ NoSignal \/ PassClient \/ RemoveFailed \/ ReadEnd \/ ReadFails \/ ReadData
          \/ CollectLine \/ CollectEnd \/ SkipSender \/ WriteClient \/ WriteFails \/ WriteEnd)
    BY <2>1 DEF Poll, NoSignal, PassClient, RemoveFailed, ReadEnd, ReadFails, ReadData, Reading,
                CollectLine, CollectEnd, SkipSender, WriteClient, WriteFails, Writing, WriteEnd
  <2> QED BY <2>2, <2>3, <2>4, <2>5, <2>6 DEF Next, Server
<1>2. Init => SignalInv
  BY CountInit DEF SignalInv, NoSignalBehind, Init
<1> QED BY <1>1, <1>2, SignalStep, PTL DEF Spec, SignalEndsRound

-----------------------------------------------------------------------------
(* ChatServer implements Admission.                                        *)

Seated   == {fds[j] : j \in 1..Len(fds)}
Departed == {c \in Conns : link[c] = "closed"}

\* There are as many with a place as elements in clients.
LEMMA SeatsAreElements ==
  ASSUME RoundInv
  PROVE  Cardinality(Seated) = Len(fds)
<1>1. /\ Len(fds) \in Nat /\ \A j, m \in 1..Len(fds) : fds[j] = fds[m] => j = m
  BY LenProperties DEF RoundInv, TypeInv, TypeOK, ClientsType, Owners, Lists
<1> DEFINE n == Len(fds)
           f == [j \in 1..n |-> fds[j]]
<1>2. IsFiniteSet(1..n) /\ Cardinality(1..n) = n
  <2>1. n \in Nat
    BY <1>1
  <2> HIDE DEF n
  <2>2. n \in Int /\ 1 \in Int
    BY <2>1
  <2>3. IsFiniteSet(1..n) /\ Cardinality(1..n) = (IF 1 > n THEN 0 ELSE n - 1 + 1)
    BY <2>2, FS_Interval
  <2> QED BY <2>1, <2>3
<1>3. f \in Bijection(1..n, Seated)
  BY <1>1 DEF Bijection, Injection, Surjection, IsInjective, Seated
<1>4. ExistsBijection(1..n, Seated)
  BY <1>3 DEF ExistsBijection
<1> HIDE DEF n, f
<1>5. Cardinality(Seated) = Cardinality(1..n)
  BY <1>2, <1>4, FS_Bijection
<1> QED BY <1>2, <1>5 DEF n

\* The three sets, by the state of the server's end.
LEMMA WhereTheyAre ==
  ASSUME RoundInv
  PROVE  /\ Seated = {c \in Conns : link[c] = "accepted"}
         /\ Door!Waiting = {c \in Conns : link[c] = "queued"}
         /\ \A c \in Conns : link[c] \in {"none", "queued", "accepted", "closed"}
<1>1. FdOwnership /\ TypeOK
  BY OwnersMeans DEF RoundInv, TypeInv
<1> QED BY <1>1 DEF FdOwnership, Seated, Door!Waiting, TypeOK, SocketType

\* Admission counts with the same Cardinality.
LEMMA DoorCounts ==
  ASSUME NEW S
  PROVE  Door!Cardinality(S) = Cardinality(S)
  BY DEF Door!Cardinality, Cardinality

LEMMA DoorInit == Init => Door!Init
  BY DEF Init, Door!Init, Alive

\* A step that moves no connection.
LEMMA NobodyMoves ==
  ASSUME UNCHANGED <<fds, backlog>>, {c \in Conns : link'[c] = "closed"} = Departed, Alive' = Alive
  PROVE  UNCHANGED Door!vars
  BY DEF Door!vars, Departed

\* What the kernel and the peers do.
LEMMA DoorEnvironment ==
  ASSUME RoundInv, Environment
  PROVE  Door!Next \/ UNCHANGED Door!vars
<1>1. UNCHANGED <<pc, fds>>
  BY DEF Environment, Connect, Send, Receive, Close, Reset, ResetAnswer, Interrupt, server
<1>2. CASE UNCHANGED <<backlog, link>>
  BY <1>1, <1>2, NobodyMoves DEF Departed, Alive
<1>3. ASSUME NEW c \in Conns, Connect(c)
      PROVE  Door!Come(c)
  <2>1. /\ Alive /\ backlog' = Append(backlog, c) /\ link' = [link EXCEPT ![c] = "queued"]
        /\ link[c] = "none"
    BY <1>3 DEF Connect, RoundInv, Fresh
  <2>2. c \notin Door!Waiting \cup Seated \cup Departed
    BY <2>1, WhereTheyAre DEF Departed
  <2>3. link \in [Conns -> {"none", "queued", "accepted", "closed"}]
    BY DEF RoundInv, TypeInv, TypeOK, SocketType
  <2>4. {d \in Conns : link'[d] = "closed"} = Departed
    BY <2>1, <2>3 DEF Departed
  <2> QED BY <1>1, <2>1, <2>2, <2>4 DEF Door!Come, Seated, Departed, Alive
<1>4. ASSUME NEW c \in Conns, Send(c) \/ Receive(c) \/ Close(c) \/ Reset(c) \/ ResetAnswer(c)
      PROVE  UNCHANGED <<backlog, link>>
  BY <1>4 DEF Send, Receive, Close, Reset, ResetAnswer
<1>5. CASE Interrupt
  BY <1>2, <1>5 DEF Interrupt
<1> QED BY <1>2, <1>3, <1>4, <1>5 DEF Environment, Door!Next

\* accept takes the one who has waited longest.
LEMMA DoorAccept ==
  ASSUME RoundInv, Accept
  PROVE  Door!TakePlace \/ Door!TurnAway
<1> DEFINE c == Head(backlog)
<1>1. /\ pc = "accept" /\ backlog # << >> /\ backlog' = Tail(backlog)
      /\ nready \in Nat
    BY DEF Accept, RoundInv, TypeInv, Backed, TypeOK, LoopType
<1>2. Alive /\ Alive' /\ Alive' = Alive
  <2>1. pc' \in {"signal", "poll"}
    BY <1>1, HandledCases DEF Accept
  <2> QED BY <1>1, <2>1 DEF Alive
<1>3. link \in [Conns -> {"none", "queued", "accepted", "closed"}] /\ backlog \in Seq(Conns)
      /\ fds \in Seq(Conns) /\ Len(fds) \in Nat /\ Len(fds) <= MaxClients
  BY LenProperties DEF RoundInv, TypeInv, TypeOK, SocketType, ClientsType
<1>4. c \in Conns
  BY <1>1, <1>3, HeadTailProperties
<1>5. Cardinality(Seated) = Len(fds)
  BY SeatsAreElements
<1>6. CASE Len(fds) >= MaxClients
  <2>1. link' = [link EXCEPT ![c] = "closed"] /\ fds' = fds
    BY <1>6 DEF Accept, Reject
  <2>2. {d \in Conns : link'[d] = "closed"} = Departed \cup {c}
    BY <1>3, <1>4, <2>1 DEF Departed
  <2>3. {fds'[j] : j \in 1..Len(fds')} = {fds[j] : j \in 1..Len(fds)}
    BY <2>1
  <2>4. Door!Cardinality({fds[j] : j \in 1..Len(fds)}) >= MaxClients
    BY <1>5, <1>6, DoorCounts DEF Seated
  <2>5. {d \in Conns : link'[d] = "closed"} = {d \in Conns : link[d] = "closed"} \cup {Head(backlog)}
    BY <2>2 DEF Departed
  <2>6. Door!TurnAway
    BY <1>1, <1>2, <2>3, <2>4, <2>5, Zenon DEF Door!TurnAway
  <2> QED BY <2>6
<1>7. CASE ~(Len(fds) >= MaxClients)
  <2>1. link' = [link EXCEPT ![c] = "accepted"] /\ fds' = Append(fds, c)
    BY <1>7 DEF Accept, Admit
  <2>2. {fds'[j] : j \in 1..Len(fds')} = Seated \cup {c}
    <3>1. /\ Len(fds') = Len(fds) + 1 /\ fds'[Len(fds) + 1] = c
          /\ \A j \in 1..Len(fds) : fds'[j] = fds[j]
      BY <1>3, <1>4, <2>1, AppendProperties
    <3> DEFINE n == Len(fds)
    <3> HIDE DEF n
    <3>2. 1..(n + 1) = 1..n \cup {n + 1}
      BY <1>3 DEF n
    <3> QED BY <3>1, <3>2 DEF n, Seated
  <2>3. {d \in Conns : link'[d] = "closed"} = Departed
    <3>1. link[c] # "closed"
      <4>1. c \in Door!Waiting
        <5>1. Head(backlog) = backlog[1] /\ 1 \in 1..Len(backlog)
          BY <1>1, <1>3, HeadTailProperties, EmptySeq, LenProperties
        <5> QED BY <5>1 DEF Door!Waiting
      <4> QED BY <4>1, WhereTheyAre
    <3> QED BY <1>3, <1>4, <2>1, <3>1 DEF Departed
  <2>4. Cardinality(Seated) < MaxClients
    BY <1>3, <1>5, <1>7, ServerAssumption
  <2>5. {fds'[j] : j \in 1..Len(fds')} = {fds[j] : j \in 1..Len(fds)} \cup {Head(backlog)}
    BY <2>2 DEF Seated
  <2>6. Door!Cardinality({fds[j] : j \in 1..Len(fds)}) < MaxClients
    BY <2>4, DoorCounts DEF Seated
  <2>7. {d \in Conns : link'[d] = "closed"} = {d \in Conns : link[d] = "closed"}
    BY <2>3 DEF Departed
  <2>8. Door!TakePlace
    BY <1>1, <1>2, <2>5, <2>6, <2>7, Zenon DEF Door!TakePlace
  <2> QED BY <2>8
<1> QED BY <1>6, <1>7

\* A removal takes its place from the one that leaves, and from nobody else.
LEMMA DoorRemove ==
  ASSUME RoundInv, RoundInv', pc = "clients", i <= Len(fds), Remove
  PROVE  Door!Leave(fds[i]) /\ fds[i] \in Conns
<1>1. /\ link \in [Conns -> {"none", "queued", "accepted", "closed"}]
      /\ fds \in Seq(Conns) /\ i \in 1..Len(fds) /\ nready \in Nat
  BY LenProperties DEF RoundInv, TypeInv, TypeOK, LoopType, SocketType, ClientsType
<1>2. fds[i] \in Conns /\ fds[i] \in Seated
  BY <1>1 DEF Seated
<1>3. link' = [link EXCEPT ![fds[i]] = "closed"] /\ backlog' = backlog
  BY DEF Remove
<1>4. Alive /\ Alive'
  <2>1. pc' \in {"clients", "poll"}
    BY <1>1, HandledCases DEF Remove
  <2> QED BY <2>1 DEF Alive
<1>5. {d \in Conns : link'[d] = "closed"} = Departed \cup {fds[i]}
  BY <1>1, <1>2, <1>3 DEF Departed
<1>6. {fds'[j] : j \in 1..Len(fds')} = Seated \ {fds[i]}
  <2>1. Seated = {c \in Conns : link[c] = "accepted"}
    BY WhereTheyAre
  <2>2. (RoundInv => Seated = {c \in Conns : link[c] = "accepted"})'
    BY WhereTheyAre, PTL
  <2>3. Seated' = {c \in Conns : link'[c] = "accepted"}
    BY <2>2
  <2>4. Seated' = Seated \ {fds[i]}
    BY <1>1, <1>2, <1>3, <2>1, <2>3
  <2> QED BY <2>4 DEF Seated
<1> QED BY <1>2, <1>3, <1>4, <1>5, <1>6 DEF Door!Leave, Seated, Departed

\* stop(), and the end of the process.
LEMMA DoorCloses ==
  ASSUME RoundInv, Alive, ~Alive', fds' = << >>, CloseAll
  PROVE  Door!CloseDown
<1>1. /\ backlog' = << >>
      /\ \A c \in Conns : link'[c] = "closed" <=> link[c] # "none"
  BY DEF CloseAll
<1>2. {c \in Conns : link'[c] = "closed"} = Departed \cup Seated \cup Door!Waiting
  BY <1>1, WhereTheyAre DEF Departed
<1>3. {fds'[j] : j \in 1..Len(fds')} = {}
  OBVIOUS
<1> QED BY <1>1, <1>2, <1>3 DEF Door!CloseDown, Seated, Departed

LEMMA DoorStep ==
  ASSUME RoundInv, RoundInv', [Next]_vars
  PROVE  [Door!Next]_Door!vars
<1>1. nready \in Nat
  BY DEF RoundInv, TypeInv, TypeOK, LoopType
<1>2. ASSUME UNCHANGED <<fds, backlog, link>>, Alive, Alive'
      PROVE  UNCHANGED Door!vars
  BY <1>2, NobodyMoves DEF Departed
<1>3. CASE Environment
  BY <1>3, DoorEnvironment
<1>4. CASE UNCHANGED vars
  <2>1. UNCHANGED <<pc, fds, backlog, link>>
    BY <1>4 DEF vars, server, net
  <2> QED BY <2>1, NobodyMoves DEF Departed, Alive
<1>5. CASE Accept
  BY <1>5, DoorAccept DEF Door!Next
<1>6. CASE RemoveFailed \/ ReadEnd
  <2>1. pc = "clients" /\ i <= Len(fds) /\ Remove
    BY <1>6 DEF RemoveFailed, ReadEnd, Reading
  <2>2. Door!Leave(fds[i]) /\ fds[i] \in Conns
    BY <2>1, DoorRemove
  <2>3. \E g \in Conns : Door!Leave(g)
    BY <2>2 DEF Door!Leave
  <2> QED BY <2>3 DEF Door!Next
<1>7. CASE Signal \/ ReadFails \/ WriteFails
  <2>1. Alive /\ ~Alive' /\ fds' = << >> /\ CloseAll
    BY <1>7 DEF Signal, ReadFails, Reading, WriteFails, Writing, Die, LeaveRound, Alive
  <2> QED BY <2>1, DoorCloses DEF Door!Next
<1>8. CASE Poll \/ NoAccept \/ NoSignal \/ CollectLine \/ SkipSender
  BY <1>2, <1>8 DEF Poll, NoAccept, NoSignal, CollectLine, SkipSender, server, net, Alive
<1>9. CASE PassClient
  <2>1. pc = "clients" /\ pc' \in {"poll", "clients"} /\ UNCHANGED <<fds, backlog, link>>
    BY <1>9 DEF PassClient, NextRound, LeaveRound, net
  <2> QED BY <1>2, <2>1 DEF Alive
<1>10. CASE ReadData
  <2>1. pc = "clients" /\ UNCHANGED <<fds, backlog, link>>
        /\ (pc' = "collect" \/ Handled("clients", pollfds, i + 1))
    BY <1>10 DEF ReadData, Reading
  <2>2. pc' \in {"collect", "clients", "poll"}
    BY <1>1, <2>1, HandledCases
  <2> QED BY <1>2, <2>1, <2>2 DEF Alive
<1>11. CASE CollectEnd
  <2>1. pc = "collect" /\ UNCHANGED <<fds, backlog, link>>
        /\ (pc' = "write" \/ Handled("clients", pollfds, i + 1))
    BY <1>11 DEF CollectEnd, net
  <2>2. pc' \in {"write", "clients", "poll"}
    BY <1>1, <2>1, HandledCases
  <2> QED BY <1>2, <2>1, <2>2 DEF Alive
<1>12. CASE WriteClient
  <2>1. pc = "write" /\ pc' = pc /\ UNCHANGED <<fds, backlog, link>>
    BY <1>12 DEF WriteClient, Writing
  <2> QED BY <1>2, <2>1 DEF Alive
<1>13. CASE WriteEnd
  <2>1. pc = "write" /\ pc' \in {"clients", "poll"} /\ UNCHANGED <<fds, backlog, link>>
    BY <1>1, <1>13, HandledCases DEF WriteEnd, net
  <2> QED BY <1>2, <2>1 DEF Alive
<1> QED
  BY <1>3, <1>4, <1>5, <1>6, <1>7, <1>8, <1>9, <1>10, <1>11, <1>12, <1>13 DEF Next, Server

\* Those who come wait in one line, take a place in the order they came, are
\* turned away only while all places are taken, and whoever has lost its place
\* never has one again, whatever the order of the erases in cleanup_client and
\* of the accepts in handle_new_connection: the server implements Admission.
THEOREM ServerAdmitsInOrder == Spec => AdmitsInOrder
<1>1. RoundInv /\ RoundInv' /\ [Next]_vars => [Door!Next]_Door!vars
  BY DoorStep
<1> QED BY <1>1, RoundInductive, DoorInit, PTL DEF Spec, AdmitsInOrder, Door!Spec
=============================================================================
