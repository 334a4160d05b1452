-------------------------- MODULE ChatClientProofs --------------------------
(***************************************************************************)
(* Theorems about ChatClient, for every buffer size, every length of the   *)
(* name, every user and every server, and any number of sessions.          *)
(***************************************************************************)
EXTENDS ChatClient, ProtocolBufferProofs

-----------------------------------------------------------------------------
(* Lemmas: how much is read.                                               *)

\* The least element of a set of naturals is in it.
LEMMA MinIs ==
  ASSUME NEW S \in SUBSET Nat, S # {}
  PROVE  Min(S) \in S /\ \A n \in S : Min(S) <= n
<1>1. \E j \in S : \A n \in S : j <= n
  BY LeastElement
<1> QED BY <1>1 DEF Min

\* A line lies within what was typed.
LEMMA LinesWithin ==
  ASSUME NEW bytes \in Stream
  PROVE  NameLines(bytes) \subseteq 1..Len(bytes) /\ Len(bytes) \in Nat
  BY LenProperties DEF NameLines, Stream

\* std::cin takes the name, and with it what is there already: not more than
\* was typed, and from a terminal not more than the line with the name.
LEMMA CinTakesWithin ==
  ASSUME typed \in Stream, NEW end, end = Min(NameLines(typed) \cup {Len(typed)})
  PROVE  /\ end \in 0..Len(typed) /\ CinTakes \in end..Len(typed)
         /\ stdin # "pipe" => CinTakes = end
<1> DEFINE A == NameLines(typed)
           n == Len(typed)
<1>1. A \subseteq 1..n /\ n \in Nat
  BY LinesWithin
<1> HIDE DEF A, n
<1>2. A \cup {n} \subseteq Nat /\ A \subseteq Nat
  BY <1>1
<1>3. Min(A \cup {n}) \in A \cup {n} /\ \A m \in A \cup {n} : Min(A \cup {n}) <= m
  BY <1>2, MinIs
<1>4. CASE A = {}
  <2>1. Min(A \cup {n}) = n
    BY <1>3, <1>4
  <2>2. CinTakes = n
    BY <1>4 DEF CinTakes, A, n
  <2>3. end = n
    BY <2>1 DEF A, n
  <2>4. n \in 0..n /\ n \in n..n
    BY <1>1
  <2> QED BY <2>2, <2>3, <2>4 DEF n
<1>5. CASE A # {}
  <2>1. Min(A) \in A /\ \A m \in A : Min(A) <= m
    BY <1>2, <1>5, MinIs
  <2> DEFINE a == Min(A)
             e == Min(A \cup {n})
  <2>2. e = a /\ a \in 1..n
    <3>1. a \in A /\ (\A m \in A : a <= m) /\ e \in A \cup {n} /\ (\A m \in A \cup {n} : e <= m)
      BY <1>3, <2>1
    <3> HIDE DEF a, e
    <3>2. a \in 1..n /\ e <= a /\ e \in 1..n /\ e <= n /\ (e \in A => a <= e)
      BY <1>1, <3>1
    <3> QED BY <1>1, <3>1, <3>2
  <2>3. end = Min(A)
    BY <2>2 DEF A, n
  <2>4. CinTakes \in {n, Min(A)} /\ (stdin # "pipe" => CinTakes = Min(A))
    BY <1>5 DEF CinTakes, A, n
  <2>5. a \in 0..n /\ n \in a..n /\ a \in a..n
    <3> HIDE DEF a
    <3> QED BY <1>1, <2>2
  <2>6. end \in 0..n /\ CinTakes \in end..n
    BY <2>3, <2>4, <2>5
  <2> QED BY <2>3, <2>4, <2>6 DEF n
<1> QED BY <1>4, <1>5

\* A read of stdin gets bytes that are there.
LEMMA HandedOutWithin ==
  ASSUME typed \in Stream, taken \in 0..Len(typed)
  PROVE  HandedOut \in 0..(Len(typed) - taken)
<1> DEFINE ends == {j \in (taken + 1)..Len(typed) : typed[j] = NL}
<1>1. Len(typed) \in Nat
  BY LenProperties DEF Stream
<1>2. CASE ends = {}
  BY <1>1, <1>2 DEF HandedOut
<1>3. CASE ends # {}
  <2>1. ends \in SUBSET Nat
    BY <1>1
  <2> HIDE DEF ends
  <2>2. Min(ends) \in ends
    BY <1>3, <2>1, MinIs
  <2> USE DEF ends
  <2>3. Min(ends) - taken \in 0..(Len(typed) - taken)
    BY <1>1, <2>2
  <2> QED BY <1>1, <2>3 DEF HandedOut
<1> QED BY <1>2, <1>3

\* A read of n bytes at most never takes more than the buffer has room for.
LEMMA ReadSizeWithin ==
  ASSUME NEW b \in Buffer, NEW n \in Nat
  PROVE  ReadSize(n, b) \in 0..n /\ ReadSize(n, b) <= FreeSpace(b)
<1>1. FreeSpace(b) \in Nat
  BY CapAssumption DEF Buffer, FreeSpace
<1> QED BY <1>1 DEF ReadSize

\* What a read adds to a buffer comes behind its contents.
LEMMA FillContents ==
  ASSUME NEW b \in Buffer, Contents(b) \in Stream, NEW bytes \in Stream,
         Len(bytes) <= FreeSpace(b)
  PROVE  /\ Fill(b, bytes) \in Buffer
         /\ Contents(Fill(b, bytes)) = Contents(b) \o bytes
         /\ Contents(Fill(b, bytes)) \in Stream
<1>1. bytes \in Seq(Byte)
  <2>1. Text \cup {NL} \subseteq Byte
    BY DEF Byte
  <2> QED BY <2>1, SeqMonotonic DEF Stream
<1>2. /\ Fill(b, bytes) \in Buffer
      /\ Contents(Fill(b, bytes)) = Contents(b) \o bytes
  BY <1>1, AppendContents DEF Fill
<1>3. Contents(b) \o bytes \in Stream
  BY ConcatProperties DEF Stream
<1> QED BY <1>2, <1>3

\* A line that is taken out of a buffer is a line: it has an end.
LEMMA LineOut ==
  ASSUME NEW b \in Buffer, Contents(b) \in Stream
  PROVE  /\ ConsumeOnce(b, NL) \in Buffer
         /\ FirstChunk(b, NL) \in Stream /\ Contents(ConsumeOnce(b, NL)) \in Stream
         /\ FirstChunk(b, NL) \o Contents(ConsumeOnce(b, NL)) = Contents(b)
         /\ FindDelim(b, NL) > 0 => /\ Len(FirstChunk(b, NL)) \in Nat \ {0}
                                    /\ FirstChunk(b, NL)[Len(FirstChunk(b, NL))] = NL
  BY ChunkOut DEF Stream

-----------------------------------------------------------------------------
(* Type correctness.                                                       *)

\* Before the event loop nothing is read, and the name is the first thing the
\* empty socket gets.
BeforeLoop ==
  /\ pc = "cin" => taken = 0 /\ uttered = << >> /\ wbuf.size = 0
  /\ pc = "name" => unread = 0

\* The data of both buffers were put there by a read.
Stored == Contents(wbuf) \in Stream /\ Contents(rbuf) \in Stream

ClientType == TypeOK /\ BeforeLoop /\ Stored

\* A sequence of bytes is one of bytes and names.
LEMMA StreamsWiden ==
  ASSUME NEW s \in Stream
  PROVE  s \in Seq(Text \cup {NL, "name"})
<1>1. Text \cup {NL} \subseteq Text \cup {NL, "name"}
  OBVIOUS
<1> QED BY <1>1, SeqMonotonic DEF Stream

LEMMA TypeInit == Init => ClientType
<1> SUFFICES ASSUME Init PROVE ClientType
  OBVIOUS
<1>1. NewBuffer \in Buffer /\ NewBuffer.size = 0
  BY CapAssumption DEF NewBuffer, Buffer, Byte
<1>2. Contents(NewBuffer) = << >> /\ << >> \in Stream
  BY <1>1, EmptyContents, EmptySeq DEF Stream
<1>3. address \in [1..4 -> 0..255]
  <2>1. InAddrAny \in [1..4 -> 0..255]
    BY DEF InAddrAny
  <2>2. Host \in [1..4 -> 0..255]
    BY ClientAssumption
  <2>3. \E constructor \in Constructors : address = IpAddress(constructor)
    BY DEF Init
  <2>4. \A constructor : IpAddress(constructor) = InAddrAny \/ IpAddress(constructor) = Host
    BY DEF IpAddress, Pton
  <2> QED BY <2>1, <2>2, <2>3, <2>4
<1>4. BeforeLoop /\ Stored
  BY <1>1, <1>2 DEF Init, BeforeLoop, Stored
<1>5. << >> \in Seq(Text \cup {NL, "name"}) /\ Len(<< >>) = 0
  BY EmptySeq
<1>6. LoopType
  BY <1>1, <1>2, ClientAssumption DEF Init, LoopType
<1>7. InputType
  <2>1. typed \in Stream /\ Len(typed) = 0 /\ taken = 0
    BY <1>2, <1>5 DEF Init
  <2>2. stdin \in Stdins /\ named \in Nat /\ lost \in Nat /\ eof \in BOOLEAN
    BY DEF Init
  <2> QED BY <1>3, <2>1, <2>2 DEF InputType
<1>8. SocketType
  <2>1. told \in Stream /\ Len(told) = 0 /\ heard = 0
    BY <1>2, <1>5 DEF Init
  <2>2. heard \in 0..Len(told)
    BY <2>1
  <2>3. unread \in 0..MaxUnread
    BY ClientAssumption DEF Init
  <2>4. peer = "none" /\ sig \in BOOLEAN
    BY DEF Init
  <2> QED BY <2>1, <2>2, <2>3, <2>4 DEF SocketType
<1>9. HistoryType
  BY <1>2, <1>5 DEF Init, HistoryType
<1> QED BY <1>4, <1>6, <1>7, <1>8, <1>9 DEF ClientType, TypeOK

LEMMA TypeEnvironment == ClientType /\ Environment => ClientType'
<1> SUFFICES ASSUME ClientType, Environment PROVE ClientType'
  OBVIOUS
<1>1. LoopType /\ InputType /\ SocketType /\ HistoryType /\ BeforeLoop /\ Stored
  BY DEF ClientType, TypeOK
<1>2. UNCHANGED <<pc, client, start, taken, history>>
  BY DEF Environment, Type, EndOfInput, Interrupt, Tell, ServerReads, ServerCloses,
         ServerResets, ResetAnswer, input
<1>3. typed \in Stream /\ Len(typed) \in Nat /\ told \in Stream /\ Len(told) \in Nat
  BY <1>1, LenProperties DEF InputType, SocketType, Stream
<1>4. LoopType' /\ HistoryType' /\ Stored'
  BY <1>1, <1>2 DEF LoopType, HistoryType, Stored, client, history
<1>5. InputType'
  <2>1. CASE Type
    <3>1. PICK bytes \in Stream : typed' = typed \o bytes
      BY <2>1, ClientAssumption DEF Type, Stream
    <3>2. typed' \in Stream /\ Len(typed') \in Nat /\ Len(typed') >= Len(typed)
      BY <1>3, <3>1, ConcatProperties, LenProperties DEF Stream
    <3> QED BY <1>1, <1>2, <1>3, <2>1, <3>2 DEF Type, InputType, start
  <2>2. CASE UNCHANGED typed /\ eof' \in {eof, TRUE}
    BY <1>1, <1>2, <2>2 DEF InputType, start
  <2> QED BY <2>1, <2>2 DEF Environment, EndOfInput, Interrupt, Tell, ServerReads, ServerCloses,
                            ServerResets, ResetAnswer, input
<1>6. SocketType' /\ unread' <= unread
  <2>1. CASE Tell
    <3>1. PICK bytes \in Stream : told' = told \o bytes
      BY <2>1, ClientAssumption DEF Tell, Stream
    <3>2. told' \in Stream /\ Len(told') \in Nat /\ Len(told') >= Len(told)
      BY <1>3, <3>1, ConcatProperties, LenProperties DEF Stream
    <3> QED BY <1>1, <1>3, <2>1, <3>2, ClientAssumption DEF Tell, SocketType
  <2>2. CASE UNCHANGED <<socket, sig>>
    BY <1>1, <2>2, ClientAssumption DEF SocketType, socket
  <2>3. CASE Interrupt
    BY <1>1, <2>3, ClientAssumption DEF Interrupt, SocketType, socket
  <2>4. CASE ServerReads
    BY <1>1, <2>4, ClientAssumption DEF ServerReads, SocketType
  <2>5. CASE ServerCloses \/ ServerResets \/ ResetAnswer
    BY <1>1, <1>3, <2>5, ClientAssumption DEF ServerCloses, ServerResets, ResetAnswer, SocketType
  <2> QED BY <2>1, <2>2, <2>3, <2>4, <2>5 DEF Environment, Type, EndOfInput
<1>7. BeforeLoop'
  BY <1>1, <1>2, <1>6, ClientAssumption DEF BeforeLoop, SocketType, client, history
<1> QED BY <1>4, <1>5, <1>6, <1>7 DEF ClientType, TypeOK

\* A step that leaves the streams alone.
LEMMA TypeKept ==
  ASSUME ClientType, UNCHANGED <<wbuf, rbuf, collected, runs, input, socket, history>>,
         pc # "cin", pc' \in {"idle", "poll", "stdin", "socket", "signal", "threw", "sigpipe"},
         polled' \subseteq {"stdin", "socket", "signal"}, sig' \in BOOLEAN
  PROVE  ClientType'
<1>1. LoopType /\ InputType /\ SocketType /\ HistoryType /\ Stored
  BY DEF ClientType, TypeOK
<1>2. LoopType' /\ Stored'
  BY <1>1 DEF LoopType, Stored
<1>3. InputType' /\ HistoryType'
  BY <1>1 DEF InputType, HistoryType, input, start, history
<1>4. SocketType'
  BY <1>1 DEF SocketType, socket
<1> QED BY <1>2, <1>3, <1>4 DEF ClientType, TypeOK, BeforeLoop

\* A call of the thread keeps the types.
LEMMA TypeCalls ==
  ClientType /\ (Run \/ NoServer \/ StopCall \/ Misuse \/ Client) => ClientType'
<1> SUFFICES ASSUME ClientType, Run \/ NoServer \/ StopCall \/ Misuse \/ Client
             PROVE ClientType'
  OBVIOUS
<1>1. LoopType /\ InputType /\ SocketType /\ HistoryType /\ BeforeLoop /\ Stored
  BY DEF ClientType, TypeOK
<1>2. typed \in Stream /\ Len(typed) \in Nat /\ told \in Stream /\ Len(told) \in Nat
  BY <1>1, LenProperties DEF InputType, SocketType, Stream
<1>3. /\ wbuf \in Buffer /\ rbuf \in Buffer
      /\ Contents(wbuf) \in Stream /\ Contents(rbuf) \in Stream
      /\ taken \in 0..Len(typed) /\ heard \in 0..Len(told)
  BY <1>1 DEF LoopType, InputType, SocketType, Stored
<1>4. << >> \in Stream /\ << >> \in Seq(Text \cup {NL, "name"}) /\ Len(<< >>) = 0
  BY EmptySeq DEF Stream
<1>5. CASE Run
  <2>1. LoopType' /\ Stored' /\ InputType'
    BY <1>1, <1>5, ClientAssumption DEF Run, LoopType, Stored, InputType, input, start
  <2>2. SocketType'
    <3>1. told' \in Stream /\ Len(told') = 0 /\ heard' = 0 /\ unread' = 0 /\ peer' = "open"
          /\ UNCHANGED sig
      BY <1>4, <1>5 DEF Run
    <3> QED BY <1>1, <3>1, ClientAssumption DEF SocketType
  <2>3. HistoryType' /\ BeforeLoop'
    BY <1>1, <1>4, <1>5 DEF Run, HistoryType, BeforeLoop
  <2> QED BY <2>1, <2>2, <2>3 DEF ClientType, TypeOK
<1>6. CASE TakeName
  <2> DEFINE end == Min(NameLines(typed) \cup {Len(typed)})
  <2>1. /\ end \in 0..Len(typed) /\ CinTakes \in end..Len(typed)
    BY <1>2, CinTakesWithin
  <2> HIDE DEF end
  <2>2. named' = end /\ lost' = CinTakes - end /\ taken' = CinTakes
        /\ pc' \in {"idle", "threw"}
        /\ UNCHANGED <<client, stdin, address, typed, eof, socket, sig, history>>
    BY <1>6 DEF TakeName, end
  <2>3. CinTakes \in 0..Len(typed) /\ named' \in Nat /\ lost' \in Nat
    BY <1>2, <2>1, <2>2
  <2>4. InputType'
    BY <1>1, <2>2, <2>3 DEF InputType
  <2>5. LoopType' /\ Stored'
    BY <1>1, <2>2 DEF LoopType, Stored, client
  <2>6. SocketType' /\ HistoryType' /\ BeforeLoop'
    BY <1>1, <2>2 DEF SocketType, socket, HistoryType, history, BeforeLoop
  <2> QED BY <2>4, <2>5, <2>6 DEF ClientType, TypeOK
<1>7. CASE SendName
  <2>1. LoopType' /\ Stored' /\ InputType' /\ BeforeLoop'
    BY <1>1, <1>7 DEF SendName, LoopType, Stored, InputType, BeforeLoop, client, input, start
  <2>2. SocketType'
    <3>1. unread = 0 /\ unread' = 1
      BY <1>1, <1>7 DEF SendName, BeforeLoop
    <3> QED BY <1>1, <1>7, <3>1, ClientAssumption DEF SendName, SocketType
  <2>3. <<"name", NL>> \in Seq(Text \cup {NL, "name"})
    OBVIOUS
  <2>4. HistoryType'
    BY <1>1, <1>7, <2>3 DEF SendName, HistoryType
  <2> QED BY <2>1, <2>2, <2>4 DEF ClientType, TypeOK
<1>8. CASE NoServer \/ Misuse \/ WriteFails \/ SocketFails
  <2>1. /\ pc # "cin" /\ pc' \in {"threw", "sigpipe"} /\ polled' = {}
        /\ UNCHANGED <<wbuf, rbuf, collected, runs, input, socket, sig, history>>
    BY <1>8 DEF NoServer, Misuse, WriteFails, SocketFails, Die
  <2> QED BY <1>1, <2>1, TypeKept DEF SocketType
<1>9. CASE Poll
  <2>1. Ready \subseteq {"stdin", "socket", "signal"}
    BY DEF Ready
  <2> QED BY <1>1, <1>9, <2>1, TypeKept DEF Poll, SocketType
<1>10. CASE StdinEnd \/ Signal \/ StopCall
  BY <1>1, <1>10, TypeKept DEF StdinEnd, Signal, StopCall, Stop, SocketType
<1>11. CASE EventLoopCall \/ NoStdin \/ NoSocket \/ NoSignal \/ WriteEnd
  <2>1. /\ pc # "cin" /\ pc' \in {"poll", "socket", "signal"}
        /\ UNCHANGED <<client, input, socket, sig, history>>
    BY <1>11 DEF EventLoopCall, NoStdin, NoSocket, NoSignal, WriteEnd
  <2> QED BY <1>1, <2>1, TypeKept DEF SocketType, LoopType, client
<1>12. CASE StdinRead
  <2> DEFINE n == ReadSize(HandedOut, wbuf)
             bytes == SubSeq(typed, taken + 1, taken + n)
  <2>1. n \in 0..(Len(typed) - taken) /\ n <= FreeSpace(wbuf) /\ taken + n \in 0..Len(typed)
    <3>1. HandedOut \in 0..(Len(typed) - taken)
      BY <1>2, <1>3, HandedOutWithin
    <3>2. HandedOut \in Nat
      BY <1>2, <1>3, <3>1
    <3>3. n \in 0..HandedOut /\ n <= FreeSpace(wbuf)
      BY <1>3, <3>2, ReadSizeWithin
    <3> HIDE DEF n
    <3> QED BY <1>2, <1>3, <3>1, <3>3
  <2>2. /\ pc' = "write" /\ taken' = taken + n /\ wbuf' = Fill(wbuf, bytes)
        /\ polled' = polled \ {"stdin"}
        /\ UNCHANGED <<rbuf, collected, runs, start, typed, eof, socket, sig, history>>
    BY <1>12 DEF StdinRead
  <2> HIDE DEF n
  <2>3. bytes \in Stream /\ Len(bytes) = n
    <3>1. typed \in Seq(Text \cup {NL}) /\ taken \in 0..Len(typed) /\ n \in 0..(Len(typed) - taken)
      BY <1>2, <1>3, <2>1 DEF Stream
    <3>2. GoesOn(Text \cup {NL}, typed, taken, n, bytes)
      BY <3>1, FrontAndNext
    <3> HIDE DEF bytes
    <3> QED BY <3>2 DEF GoesOn, Stream
  <2> HIDE DEF bytes
  <2>4. wbuf' \in Buffer /\ Contents(wbuf') \in Stream
    BY <1>3, <2>1, <2>2, <2>3, FillContents
  <2>5. LoopType' /\ Stored'
    BY <1>1, <2>2, <2>4 DEF LoopType, Stored
  <2>6. InputType'
    BY <1>1, <2>1, <2>2 DEF InputType, start
  <2>7. SocketType' /\ HistoryType' /\ BeforeLoop'
    BY <1>1, <2>2 DEF SocketType, socket, HistoryType, history, BeforeLoop
  <2> QED BY <2>5, <2>6, <2>7 DEF ClientType, TypeOK
<1>13. CASE WriteLine
  <2>1. /\ FirstChunk(wbuf, NL) \in Stream
        /\ ConsumeOnce(wbuf, NL) \in Buffer /\ Contents(ConsumeOnce(wbuf, NL)) \in Stream
    BY <1>3, LineOut
  <2>2. upstream' \in Seq(Text \cup {NL, "name"}) /\ uttered' \in Stream
    <3>1. FirstChunk(wbuf, NL) \in Seq(Text \cup {NL, "name"})
      BY <2>1, StreamsWiden
    <3> QED BY <1>1, <1>13, <2>1, <3>1, ConcatProperties DEF WriteLine, HistoryType, Stream
  <2>3. LoopType' /\ Stored'
    BY <1>1, <1>13, <2>1 DEF WriteLine, LoopType, Stored
  <2>4. InputType' /\ HistoryType' /\ BeforeLoop'
    BY <1>1, <1>13, <2>2 DEF WriteLine, InputType, input, start, HistoryType, BeforeLoop
  <2>5. SocketType'
    BY <1>1, <1>13, ClientAssumption DEF WriteLine, SocketType
  <2> QED BY <2>3, <2>4, <2>5 DEF ClientType, TypeOK
<1>14. CASE SocketRead
  <2> DEFINE n == ReadSize(Len(told) - heard, rbuf)
             bytes == SubSeq(told, heard + 1, heard + n)
  <2>1. n \in 0..(Len(told) - heard) /\ n <= FreeSpace(rbuf) /\ heard + n \in 0..Len(told)
    <3>1. Len(told) - heard \in Nat
      BY <1>2, <1>3
    <3>2. n \in 0..(Len(told) - heard) /\ n <= FreeSpace(rbuf)
      BY <1>3, <3>1, ReadSizeWithin
    <3> HIDE DEF n
    <3> QED BY <1>2, <1>3, <3>2
  <2>2. /\ pc' = "collect" /\ heard' = heard + n /\ rbuf' = Fill(rbuf, bytes)
        /\ received' = received \o bytes /\ polled' = polled \ {"socket"}
        /\ UNCHANGED <<wbuf, collected, runs, input, peer, told, unread, sig,
                       upstream, uttered, shown>>
    BY <1>14 DEF SocketRead
  <2> HIDE DEF n
  <2>3. bytes \in Stream /\ Len(bytes) = n
    <3>1. told \in Seq(Text \cup {NL}) /\ heard \in 0..Len(told) /\ n \in 0..(Len(told) - heard)
      BY <1>2, <1>3, <2>1 DEF Stream
    <3>2. GoesOn(Text \cup {NL}, told, heard, n, bytes)
      BY <3>1, FrontAndNext
    <3> HIDE DEF bytes
    <3> QED BY <3>2 DEF GoesOn, Stream
  <2> HIDE DEF bytes
  <2>4. rbuf' \in Buffer /\ Contents(rbuf') \in Stream
    BY <1>3, <2>1, <2>2, <2>3, FillContents
  <2>5. received' \in Stream
    BY <1>1, <2>2, <2>3, ConcatProperties DEF HistoryType, Stream
  <2>6. LoopType' /\ Stored'
    BY <1>1, <2>2, <2>4 DEF LoopType, Stored
  <2>7. SocketType'
    BY <1>1, <2>1, <2>2 DEF SocketType
  <2>8. InputType' /\ HistoryType' /\ BeforeLoop'
    BY <1>1, <2>2, <2>5 DEF InputType, input, start, HistoryType, BeforeLoop
  <2> QED BY <2>6, <2>7, <2>8 DEF ClientType, TypeOK
<1>15. CASE CollectLine
  <2>1. /\ FirstChunk(rbuf, NL) \in Stream
        /\ ConsumeOnce(rbuf, NL) \in Buffer /\ Contents(ConsumeOnce(rbuf, NL)) \in Stream
    BY <1>3, LineOut
  <2>2. collected' \in Stream
    BY <1>1, <1>15, <2>1, ConcatProperties DEF CollectLine, LoopType, Stream
  <2>3. LoopType' /\ Stored'
    BY <1>1, <1>15, <2>1, <2>2 DEF CollectLine, LoopType, Stored
  <2>4. InputType' /\ HistoryType' /\ SocketType' /\ BeforeLoop'
    BY <1>1, <1>15 DEF CollectLine, InputType, input, start, HistoryType, history,
                       SocketType, socket, BeforeLoop
  <2> QED BY <2>3, <2>4 DEF ClientType, TypeOK
<1>16. CASE CollectEnd
  <2>1. shown' \in Stream
    BY <1>1, <1>16, ConcatProperties DEF CollectEnd, LoopType, HistoryType, Stream
  <2>2. LoopType' /\ Stored'
    BY <1>1, <1>4, <1>16 DEF CollectEnd, LoopType, Stored
  <2>3. InputType' /\ HistoryType' /\ SocketType' /\ BeforeLoop'
    BY <1>1, <1>16, <2>1 DEF CollectEnd, InputType, input, start, HistoryType,
                             SocketType, socket, BeforeLoop
  <2> QED BY <2>2, <2>3 DEF ClientType, TypeOK
<1> QED
  BY <1>5, <1>6, <1>7, <1>8, <1>9, <1>10, <1>11, <1>12, <1>13, <1>14, <1>15, <1>16
     DEF Client, EventLoop

LEMMA TypeStutters == ClientType /\ UNCHANGED vars => ClientType'
  BY DEF vars, client, input, start, socket, history, ClientType, TypeOK, LoopType,
         InputType, SocketType, HistoryType, BeforeLoop, Stored

LEMMA ClientTypeInductive == Spec => []ClientType
<1>1. ClientType /\ [Next]_vars => ClientType'
  BY TypeEnvironment, TypeCalls, TypeStutters DEF Next
<1> QED BY TypeInit, <1>1, PTL DEF Spec

\* For every stream of bytes, however it is cut into reads, and any number of
\* sessions: no buffer holds more than its capacity, no byte is read that is
\* not there, and the buffers hold nothing but bytes of the streams.
THEOREM ClientTypeCorrect == Spec => []TypeOK
<1>1. ClientType => TypeOK
  BY DEF ClientType
<1> QED BY <1>1, ClientTypeInductive, PTL

-----------------------------------------------------------------------------
(* The two streams.                                                        *)

\* What is meant for the server lies within what was read.
Streams == SentIsTyped /\ ShownIsReceived /\ Meant \in 0..taken

\* A part of the front that does not begin with it.
LEMMA PartOfFront ==
  ASSUME NEW s \in Stream, NEW m \in Nat, NEW n \in m..Len(s)
  PROVE  /\ \A t \in Stream : SubSeq(s \o t, m + 1, n) = SubSeq(s, m + 1, n)
         /\ \A k \in 0..(Len(s) - n) :
              SubSeq(s, m + 1, n + k) = SubSeq(s, m + 1, n) \o SubSeq(s, n + 1, n + k)
<1>1. s \in Seq(Text \cup {NL}) /\ Len(s) \in Nat /\ m + 1 \in 1..(Len(s) + 1) /\ n \in 0..Len(s)
  BY LenProperties DEF Stream
<1>2. ASSUME NEW t \in Stream
      PROVE  SubSeq(s \o t, m + 1, n) = SubSeq(s, m + 1, n)
  <2>1. t \in Seq(Text \cup {NL})
    BY <1>2 DEF Stream
  <2>2. CASE m + 1 > n
    <3>1. SubSeq(s \o t, m + 1, n) = << >> /\ SubSeq(s, m + 1, n) = << >>
      BY <1>1, <2>2, SubSeqEmpty
    <3> QED BY <3>1
  <2>3. CASE m + 1 <= n
    <3>1. m + 1 \in 1..Len(s) /\ n \in 1..Len(s)
      BY <1>1, <2>3
    <3> QED BY <1>1, <2>1, <3>1, SubSeqOfConcat1
  <2> QED BY <1>1, <2>2, <2>3
<1>3. ASSUME NEW k \in 0..(Len(s) - n)
      PROVE  SubSeq(s, m + 1, n + k) = SubSeq(s, m + 1, n) \o SubSeq(s, n + 1, n + k)
  <2>1. n \in (m + 1) - 1..Len(s) /\ n + k \in n..Len(s)
    BY <1>1, <1>3
  <2> QED BY <1>1, <2>1, ConcatAdjacentSubSeq
<1> QED BY <1>2, <1>3

\* Three streams, one after the other.
LEMMA StreamsJoin ==
  ASSUME NEW s \in Stream, NEW t \in Stream, NEW u \in Stream
  PROVE  (s \o t) \o u = s \o (t \o u) /\ s \o t \in Stream
<1>1. (s \o t) \o u = s \o (t \o u)
  BY ConcatAssociative, SMTT(30) DEF Stream
<1>2. s \o t \in Stream
  BY ConcatProperties DEF Stream
<1> QED BY <1>1, <1>2

\* What is moved from a buffer to what was taken out of it changes nothing of
\* the two together.
LEMMA LineMoves ==
  ASSUME NEW b \in Buffer, Contents(b) \in Stream, NEW out \in Stream
  PROVE  (out \o FirstChunk(b, NL)) \o Contents(ConsumeOnce(b, NL)) = out \o Contents(b)
<1> DEFINE f == FirstChunk(b, NL)
           r == Contents(ConsumeOnce(b, NL))
<1>1. f \in Stream /\ r \in Stream /\ f \o r = Contents(b)
  BY LineOut
<1> HIDE DEF f, r
<1>2. (out \o f) \o r = out \o (f \o r)
  BY <1>1, StreamsJoin
<1> QED BY <1>1, <1>2 DEF f, r

\* What a read adds to a buffer is added to the two together.
LEMMA ReadAdds ==
  ASSUME NEW b \in Buffer, Contents(b) \in Stream, NEW out \in Stream,
         NEW bytes \in Stream, Len(bytes) <= FreeSpace(b)
  PROVE  out \o Contents(Fill(b, bytes)) = (out \o Contents(b)) \o bytes
<1>1. Contents(Fill(b, bytes)) = Contents(b) \o bytes
  BY FillContents
<1> DEFINE c == Contents(b)
<1> HIDE DEF c
<1>2. out \in Stream /\ c \in Stream /\ bytes \in Stream
  BY DEF c
<1>3. (out \o c) \o bytes = out \o (c \o bytes)
  BY <1>2, StreamsJoin, ZenonT(30)
<1> QED BY <1>1, <1>3 DEF c

LEMMA StreamsInit == Init => Streams
<1> SUFFICES ASSUME Init PROVE Streams
  OBVIOUS
<1>1. NewBuffer \in Buffer /\ NewBuffer.size = 0
  BY CapAssumption DEF NewBuffer, Buffer, Byte
<1>2. Contents(NewBuffer) = << >>
  BY <1>1, EmptyContents
<1>3. << >> \o << >> = << >> /\ SubSeq(<< >>, 1, 0) = << >>
  <2>1. << >> \in Seq(Text)
    OBVIOUS
  <2> QED BY <2>1, ConcatEmptySeq, SubSeqEmpty
<1>4. Meant = 0 /\ taken = 0
  BY DEF Init, Meant
<1> QED BY <1>2, <1>3, <1>4 DEF Init, Streams, SentIsTyped, ShownIsReceived

\* No step of the thread, the user, the server or the kernel disturbs them.
LEMMA StreamsStep == ClientType /\ Streams /\ [Next]_vars => Streams'
<1> SUFFICES ASSUME ClientType, Streams, [Next]_vars PROVE Streams'
  OBVIOUS
<1>1. /\ wbuf \in Buffer /\ rbuf \in Buffer /\ collected \in Stream
      /\ uttered \in Stream /\ received \in Stream /\ shown \in Stream
      /\ typed \in Stream /\ taken \in 0..Len(typed) /\ Len(typed) \in Nat
      /\ told \in Stream /\ heard \in 0..Len(told) /\ Len(told) \in Nat
      /\ Contents(wbuf) \in Stream /\ Contents(rbuf) \in Stream
  BY LenProperties DEF ClientType, TypeOK, LoopType, InputType, SocketType, HistoryType,
                       Stored, Stream
<1>2. SentIsTyped /\ ShownIsReceived /\ Meant \in 0..taken /\ taken \in Meant..Len(typed)
      /\ Meant \in Nat
  BY <1>1 DEF Streams
<1>3. CASE Type
  <2>1. PICK bytes \in Stream : typed' = typed \o bytes
    BY <1>3, ClientAssumption DEF Type, Stream
  <2>2. UNCHANGED <<start, uttered, wbuf, taken, shown, collected, rbuf, received>>
    BY <1>3 DEF Type, client, history
  <2>3. Meant' = Meant
    BY <2>2 DEF Meant, start
  <2>4. SubSeq(typed', Meant + 1, taken) = SubSeq(typed, Meant + 1, taken)
    BY <1>1, <1>2, <2>1, PartOfFront
  <2> QED BY <1>2, <2>2, <2>3, <2>4 DEF Streams, SentIsTyped, ShownIsReceived
<1>4. CASE TakeName
  <2> DEFINE end == Min(NameLines(typed) \cup {Len(typed)})
  <2>1. end \in 0..Len(typed) /\ CinTakes \in end..Len(typed) /\ (stdin # "pipe" => CinTakes = end)
    BY <1>1, CinTakesWithin
  <2> HIDE DEF end
  <2>2. /\ named' = end /\ lost' = CinTakes - end /\ taken' = CinTakes
        /\ uttered = << >> /\ wbuf.size = 0
        /\ UNCHANGED <<stdin, typed, uttered, wbuf, shown, collected, rbuf, received>>
    BY <1>4 DEF TakeName, ClientType, BeforeLoop, client, history, end
  <2>3. Meant' = taken' /\ taken' \in Nat
    <3>1. stdin = "pipe" \/ CinTakes = end
      BY <2>1
    <3>2. end + (CinTakes - end) = CinTakes /\ CinTakes \in Nat
      BY <1>1, <2>1
    <3>3. stdin \in {"terminal", "pipe"}
      BY ClientAssumption DEF ClientType, TypeOK, InputType
    <3> QED BY <2>1, <2>2, <3>1, <3>2, <3>3 DEF Meant
  <2>4. Contents(wbuf) = << >>
    BY <1>1, <2>2, EmptyContents
  <2>5. << >> \o << >> = << >> /\ SubSeq(typed', Meant' + 1, taken') = << >>
    <3>1. << >> \in Seq(Text)
      OBVIOUS
    <3>2. \A k \in Nat : k + 1 > k /\ SubSeq(typed', k + 1, k) = << >>
      BY SubSeqEmpty
    <3>3. SubSeq(typed', Meant' + 1, taken') = << >>
      BY <2>3, <3>2
    <3> QED BY <3>1, <3>3, ConcatEmptySeq
  <2>6. SentIsTyped' /\ ShownIsReceived'
    BY <1>2, <2>2, <2>4, <2>5 DEF SentIsTyped, ShownIsReceived
  <2>7. (Meant \in 0..taken)'
    BY <2>3
  <2> QED BY <2>6, <2>7 DEF Streams
<1>5. CASE StdinRead
  <2> DEFINE n == ReadSize(HandedOut, wbuf)
             bytes == SubSeq(typed, taken + 1, taken + n)
  <2>1. n \in 0..(Len(typed) - taken) /\ n <= FreeSpace(wbuf)
    <3>1. HandedOut \in 0..(Len(typed) - taken)
      BY <1>1, HandedOutWithin
    <3>2. HandedOut \in Nat
      BY <1>1, <3>1
    <3>3. n \in 0..HandedOut /\ n <= FreeSpace(wbuf)
      BY <1>1, <3>2, ReadSizeWithin
    <3> HIDE DEF n
    <3> QED BY <1>1, <3>1, <3>3
  <2>2. /\ taken' = taken + n /\ wbuf' = Fill(wbuf, bytes)
        /\ UNCHANGED <<start, typed, uttered, shown, collected, rbuf, received>>
    BY <1>5 DEF StdinRead, history
  <2>3. Meant' = Meant
    BY <2>2 DEF Meant, start
  <2> HIDE DEF n
  <2>4. SubSeq(typed, Meant + 1, taken + n) = SubSeq(typed, Meant + 1, taken) \o bytes
    BY <1>1, <1>2, <2>1, PartOfFront
  <2>5. bytes \in Stream /\ Len(bytes) = n
    <3>1. typed \in Seq(Text \cup {NL}) /\ taken \in 0..Len(typed) /\ n \in 0..(Len(typed) - taken)
      BY <1>1, <2>1 DEF Stream
    <3>2. GoesOn(Text \cup {NL}, typed, taken, n, bytes)
      BY <3>1, FrontAndNext
    <3> HIDE DEF bytes
    <3> QED BY <3>2 DEF GoesOn, Stream
  <2> HIDE DEF bytes
  <2>6. uttered \o Contents(Fill(wbuf, bytes)) = (uttered \o Contents(wbuf)) \o bytes
    BY <1>1, <2>1, <2>5, ReadAdds
  <2>7. SentIsTyped' /\ ShownIsReceived'
    BY <1>2, <2>2, <2>3, <2>4, <2>6 DEF SentIsTyped, ShownIsReceived
  <2>8. (Meant \in 0..taken)'
    BY <1>1, <1>2, <2>1, <2>2, <2>3
  <2> QED BY <2>7, <2>8 DEF Streams
<1>6. CASE WriteLine
  <2>1. /\ uttered' = uttered \o FirstChunk(wbuf, NL) /\ wbuf' = ConsumeOnce(wbuf, NL)
        /\ UNCHANGED <<Meant, typed, taken, shown, collected, rbuf, received>>
    BY <1>6 DEF WriteLine, input, start, Meant
  <2>2. uttered' \o Contents(wbuf') = uttered \o Contents(wbuf)
    BY <1>1, <2>1, LineMoves
  <2> QED BY <1>2, <2>1, <2>2 DEF Streams, SentIsTyped, ShownIsReceived
<1>7. CASE SocketRead
  <2> DEFINE n == ReadSize(Len(told) - heard, rbuf)
             bytes == SubSeq(told, heard + 1, heard + n)
             out == shown \o collected
  <2>1. n \in 0..(Len(told) - heard) /\ n <= FreeSpace(rbuf)
    <3>1. Len(told) - heard \in Nat
      BY <1>1
    <3> QED BY <1>1, <3>1, ReadSizeWithin
  <2>2. /\ rbuf' = Fill(rbuf, bytes) /\ received' = received \o bytes
        /\ UNCHANGED <<Meant, typed, taken, uttered, wbuf, shown, collected>>
    BY <1>7 DEF SocketRead, input, start, Meant
  <2> HIDE DEF n
  <2>3. bytes \in Stream /\ Len(bytes) = n
    <3>1. told \in Seq(Text \cup {NL}) /\ heard \in 0..Len(told) /\ n \in 0..(Len(told) - heard)
      BY <1>1, <2>1 DEF Stream
    <3>2. GoesOn(Text \cup {NL}, told, heard, n, bytes)
      BY <3>1, FrontAndNext
    <3> HIDE DEF bytes
    <3> QED BY <3>2 DEF GoesOn, Stream
  <2>4. out \in Stream
    BY <1>1, ConcatProperties DEF Stream
  <2> HIDE DEF bytes, out
  <2>5. out \o Contents(Fill(rbuf, bytes)) = (out \o Contents(rbuf)) \o bytes
    <3>1. rbuf \in Buffer /\ Contents(rbuf) \in Stream /\ Len(bytes) <= FreeSpace(rbuf)
      BY <1>1, <2>1, <2>3
    <3> QED BY <2>3, <2>4, <3>1, ReadAdds, ZenonT(30)
  <2>6. SentIsTyped'
    BY <1>2, <2>2 DEF SentIsTyped
  <2>7. (shown \o collected) \o Contents(rbuf) = received
    BY <1>2 DEF ShownIsReceived
  <2>8. out \o Contents(rbuf) = received
    BY <2>7 DEF out
  <2>9. out \o Contents(rbuf') = received'
    BY <2>2, <2>5, <2>8
  <2>10. ShownIsReceived'
    BY <2>2, <2>9 DEF ShownIsReceived, out
  <2> QED BY <1>2, <2>2, <2>6, <2>10 DEF Streams
<1>8. CASE CollectLine
  <2> DEFINE f == FirstChunk(rbuf, NL)
             r == Contents(ConsumeOnce(rbuf, NL))
  <2>1. /\ collected' = collected \o f /\ rbuf' = ConsumeOnce(rbuf, NL)
        /\ UNCHANGED <<Meant, typed, taken, uttered, wbuf, shown, received>>
    BY <1>8 DEF CollectLine, input, start, history, Meant
  <2>2. f \in Stream /\ r \in Stream
    BY <1>1, LineOut
  <2>3. (shown \o collected) \in Stream
    BY <1>1, ConcatProperties DEF Stream
  <2>4. ((shown \o collected) \o f) \o r = (shown \o collected) \o Contents(rbuf)
    BY <1>1, <2>3, LineMoves
  <2> HIDE DEF f, r
  <2>5. shown \o (collected \o f) = (shown \o collected) \o f
    <3>1. shown \in Stream /\ collected \in Stream /\ f \in Stream
      BY <1>1, <2>2
    <3> QED BY <3>1, StreamsJoin, ZenonT(30)
  <2>6. Contents(rbuf') = r
    BY <2>1 DEF r
  <2> QED BY <1>2, <2>1, <2>4, <2>5, <2>6 DEF Streams, SentIsTyped, ShownIsReceived
<1>9. CASE CollectEnd
  <2>1. /\ shown' = shown \o collected /\ collected' = << >>
        /\ UNCHANGED <<Meant, typed, taken, uttered, wbuf, rbuf, received>>
    BY <1>9 DEF CollectEnd, input, start, Meant
  <2>2. shown' \in Stream /\ shown' \o collected' = shown \o collected
    BY <1>1, <2>1, ConcatProperties, ConcatEmptySeq DEF Stream
  <2> QED BY <1>2, <2>1, <2>2 DEF Streams, SentIsTyped, ShownIsReceived
<1>10. CASE UNCHANGED <<Meant, typed, taken, uttered, wbuf, shown, collected, rbuf, received>>
  BY <1>2, <1>10 DEF Streams, SentIsTyped, ShownIsReceived
<1>11. ASSUME \/ EndOfInput \/ Interrupt \/ Tell \/ ServerReads \/ ServerCloses
              \/ ServerResets \/ ResetAnswer \/ UNCHANGED vars
       PROVE  UNCHANGED <<Meant, typed, taken, uttered, wbuf, shown, collected, rbuf, received>>
  BY <1>11 DEF EndOfInput, Interrupt, Tell, ServerReads, ServerCloses, ServerResets,
               ResetAnswer, vars, client, input, start, history, Meant
<1>12. ASSUME \/ Run \/ NoServer \/ StopCall \/ Misuse \/ EventLoopCall \/ SendName \/ WriteFails \/ Poll \/ NoStdin \/ StdinEnd
              \/ WriteEnd \/ NoSocket \/ SocketFails \/ NoSignal \/ Signal
       PROVE  UNCHANGED <<Meant, typed, taken, uttered, wbuf, shown, collected, rbuf, received>>
  BY <1>12 DEF Run, NoServer, StopCall, Misuse, EventLoopCall, SendName, WriteFails, Poll,
               NoStdin, StdinEnd, WriteEnd, NoSocket, SocketFails, NoSignal, Signal, Die, Stop,
               client, input, start, history, Meant
<1> QED
  BY <1>3, <1>4, <1>5, <1>6, <1>7, <1>8, <1>9, <1>10, <1>11, <1>12
     DEF Next, Client, EventLoop, Environment

LEMMA StreamsInductive == Spec => []Streams
<1>1. ClientType /\ ClientType' /\ Streams /\ [Next]_vars => Streams'
  BY StreamsStep
<1> QED BY StreamsInit, <1>1, ClientTypeInductive, PTL DEF Spec

\* What was sent, in however many sessions, with what is left in write_buffer,
\* is what was read from stdin behind the name: on a terminal from the byte
\* behind its line on, on a pipe from where std::cin stopped taking.
THEOREM WhatIsSentWasTyped == Spec => []SentIsTyped
<1>1. Streams => SentIsTyped
  BY DEF Streams
<1> QED BY <1>1, StreamsInductive, PTL

\* What is on the screen, with what is left in read_buffer, is what was read
\* from the server.
THEOREM WhatIsShownWasReceived == Spec => []ShownIsReceived
<1>1. Streams => ShownIsReceived
  BY DEF Streams
<1> QED BY <1>1, StreamsInductive, PTL

-----------------------------------------------------------------------------
(* The sessions.                                                           *)

\* The name, the end of its line, and whole lines.
Headed(s) == Len(s) >= 2 /\ s[1] = "name" /\ s[2] = NL /\ s[Len(s)] = NL

\* SessionIsLines does not say it of a session that has sent nothing, and so
\* does not say that the name is sent before a line: that the event loop is
\* entered with the name sent does.
Sessions ==
  /\ upstream # << >> => Headed(upstream)
  /\ pc \in {"connected", "poll", "stdin", "write", "socket", "collect", "signal"} =>
       upstream # << >>

\* A line behind a session that is one.
LEMMA HeadedGrows ==
  ASSUME NEW T, NEW s \in Seq(T), Headed(s), NEW f \in Seq(T), Len(f) \in Nat \ {0},
         f[Len(f)] = NL
  PROVE  Headed(s \o f) /\ s \o f # << >>
<1>1. Len(s) \in Nat /\ Len(s) >= 2 /\ Len(f) \in Nat \ {0}
  BY LenProperties DEF Headed
<1>2. /\ Len(s \o f) = Len(s) + Len(f)
      /\ \A j \in 1..(Len(s) + Len(f)) :
           (s \o f)[j] = IF j <= Len(s) THEN s[j] ELSE f[j - Len(s)]
  BY ConcatProperties
<1>3. 1 \in 1..(Len(s) + Len(f)) /\ 2 \in 1..(Len(s) + Len(f))
      /\ Len(s) + Len(f) \in 1..(Len(s) + Len(f)) /\ (Len(s) + Len(f)) - Len(s) = Len(f)
      /\ ~(Len(s) + Len(f) <= Len(s)) /\ 1 <= Len(s)
  BY <1>1
<1>4. (s \o f)[1] = s[1] /\ (s \o f)[2] = s[2]
  BY <1>1, <1>2, <1>3
<1>5. (s \o f)[Len(s) + Len(f)] = f[Len(f)]
  BY <1>1, <1>2, <1>3
<1>6. Len(s \o f) >= 2
  BY <1>1, <1>2
<1>7. s \o f # << >>
  <2>1. Len(<< >>) = 0
    OBVIOUS
  <2> QED BY <1>6, <2>1
<1> QED BY <1>2, <1>4, <1>5, <1>6, <1>7 DEF Headed

LEMMA SessionsStep == ClientType /\ Sessions /\ [Next]_vars => Sessions'
<1> SUFFICES ASSUME ClientType, Sessions, [Next]_vars PROVE Sessions'
  OBVIOUS
<1>1. CASE Run
  BY <1>1 DEF Run, Sessions
<1>2. CASE SendName
  <2>1. upstream' = <<"name", NL>>
    BY <1>2 DEF SendName
  <2> QED BY <2>1 DEF Sessions, Headed
<1>3. CASE WriteLine
  <2> DEFINE f == FirstChunk(wbuf, NL)
             T == Text \cup {NL, "name"}
  <2>1. upstream # << >> /\ upstream' = upstream \o f
    BY <1>3 DEF WriteLine, Sessions
  <2>2. wbuf \in Buffer /\ Contents(wbuf) \in Stream /\ FindDelim(wbuf, NL) > 0
        /\ upstream \in Seq(T)
    BY <1>3 DEF WriteLine, ClientType, TypeOK, LoopType, HistoryType, Stored
  <2>3. f \in Stream /\ Len(f) \in Nat \ {0} /\ f[Len(f)] = NL
    BY <2>2, LineOut
  <2>4. f \in Seq(T) /\ Headed(upstream)
    BY <2>1, <2>3, StreamsWiden DEF Sessions
  <2> HIDE DEF f, T
  <2>5. Headed(upstream \o f) /\ upstream \o f # << >>
    BY <2>2, <2>3, <2>4, HeadedGrows
  <2> QED BY <2>1, <2>5 DEF Sessions
<1>4. ASSUME \/ Environment \/ UNCHANGED vars \/ NoStdin \/ StdinRead \/ WriteEnd
             \/ NoSocket \/ SocketRead \/ CollectLine \/ CollectEnd \/ NoSignal \/ Poll \/ EventLoopCall
      PROVE  UNCHANGED upstream /\ (UNCHANGED pc \/ pc \in {"connected", "poll", "stdin", "write", "socket",
                                                            "collect", "signal"})
  BY <1>4 DEF Environment, Type, EndOfInput, Interrupt, Tell, ServerReads, ServerCloses,
              ServerResets, ResetAnswer, NoStdin, StdinRead, WriteEnd, NoSocket, SocketRead,
              CollectLine, CollectEnd, NoSignal, Poll, EventLoopCall, vars, history
<1>5. ASSUME TakeName \/ NoServer \/ StopCall \/ Misuse \/ WriteFails \/ StdinEnd \/ SocketFails \/ Signal
      PROVE  UNCHANGED upstream /\ pc' \in {"idle", "threw", "sigpipe"}
  BY <1>5 DEF TakeName, NoServer, StopCall, Misuse, WriteFails, StdinEnd, SocketFails, Signal,
              Die, Stop, history
<1>6. CASE UNCHANGED upstream /\ (UNCHANGED pc \/ pc \in {"connected", "poll", "stdin", "write", "socket",
                                                          "collect", "signal"})
  BY <1>6 DEF Sessions
<1>7. CASE UNCHANGED upstream /\ pc' \in {"idle", "threw", "sigpipe"}
  BY <1>7 DEF Sessions
<1> QED BY <1>1, <1>2, <1>3, <1>4, <1>5, <1>6, <1>7 DEF Next, Client, EventLoop

\* What the server gets in a session is the name and then whole lines, however
\* the session before it ended and whatever was left in the buffers.
THEOREM EverySessionIsLines == Spec => []SessionIsLines
<1>1. Init => Sessions
  BY DEF Init, Sessions
<1>2. Sessions => SessionIsLines
  BY DEF Sessions, SessionIsLines, Headed
<1> QED BY <1>1, <1>2, SessionsStep, ClientTypeInductive, PTL DEF Spec

-----------------------------------------------------------------------------
(* What poll said.                                                         *)

\* The part of the descriptors not looked at yet.  Nothing of a poll is left
\* when the object is run again: its buffers are kept, its pollfds are not.
Polled ==
  /\ "stdin" \in polled => taken < Len(typed) \/ eof
  /\ "socket" \in polled => heard < Len(told) \/ Fin \/ Rst
  /\ "signal" \in polled => sig
  /\ pc \in {"cin", "idle", "name", "connected"} => polled = {}

LEMMA PolledStep == ClientType /\ Polled /\ [Next]_vars => Polled'
<1> SUFFICES ASSUME ClientType, Polled, [Next]_vars PROVE Polled'
  OBVIOUS
<1>1. /\ typed \in Stream /\ taken \in 0..Len(typed) /\ Len(typed) \in Nat
      /\ told \in Stream /\ heard \in 0..Len(told) /\ Len(told) \in Nat
  BY LenProperties DEF ClientType, TypeOK, InputType, SocketType, Stream
<1>2. CASE Type
  <2>1. PICK bytes \in Stream : typed' = typed \o bytes
    BY <1>2, ClientAssumption DEF Type, Stream
  <2>2. Len(typed') \in Nat /\ Len(typed') >= Len(typed)
    BY <1>1, <2>1, ConcatProperties, LenProperties DEF Stream
  <2>3. taken < Len(typed) => taken < Len(typed')
    BY <1>1, <2>2
  <2> QED BY <1>2, <2>3 DEF Polled, Type, client, socket, Fin, Rst
<1>3. CASE Tell
  <2>1. PICK bytes \in Stream : told' = told \o bytes
    BY <1>3, ClientAssumption DEF Tell, Stream
  <2>2. Len(told') \in Nat /\ Len(told') >= Len(told)
    BY <1>1, <2>1, ConcatProperties, LenProperties DEF Stream
  <2>3. heard < Len(told) => heard < Len(told')
    BY <1>1, <2>2
  <2> QED BY <1>3, <2>3 DEF Polled, Tell, client, input, Fin, Rst
<1>4. CASE EndOfInput \/ Interrupt \/ ServerReads
  BY <1>4 DEF Polled, EndOfInput, Interrupt, ServerReads, client, input, socket, Fin, Rst
<1>5. CASE ServerCloses \/ ServerResets \/ ResetAnswer
  <2>1. (Fin \/ Rst)'
    BY <1>5 DEF ServerCloses, ServerResets, ResetAnswer, Fin, Rst
  <2> QED BY <1>5, <2>1 DEF Polled, ServerCloses, ServerResets, ResetAnswer, client, input
<1>6. CASE Run \/ TakeName
  <2>1. polled' = {}
    BY <1>6 DEF Polled, Run, TakeName, client
  <2> QED BY <2>1 DEF Polled
<1>7. CASE NoServer \/ StopCall \/ Misuse \/ WriteFails \/ SocketFails \/ StdinEnd \/ Signal
  <2>1. polled' = {}
    BY <1>7 DEF NoServer, StopCall, Misuse, WriteFails, SocketFails, StdinEnd, Signal, Die, Stop
  <2> QED BY <2>1 DEF Polled
<1>8. CASE Poll
  BY <1>8 DEF Poll, Polled, Ready, input, socket, Fin, Rst
<1>9. CASE StdinRead
  <2>1. polled' = polled \ {"stdin"} /\ pc' = "write" /\ UNCHANGED <<socket, sig>>
    BY <1>9 DEF StdinRead
  <2> QED BY <2>1 DEF Polled, socket, Fin, Rst
<1>10. CASE SocketRead
  <2>1. polled' = polled \ {"socket"} /\ pc' = "collect" /\ UNCHANGED <<input, sig>>
    BY <1>10 DEF SocketRead
  <2> QED BY <2>1 DEF Polled, input
<1>11. CASE SendName \/ EventLoopCall \/ NoStdin \/ WriteEnd \/ NoSocket \/ NoSignal
  BY <1>11 DEF Polled, SendName, EventLoopCall, NoStdin, WriteEnd, NoSocket, NoSignal, client, input,
               socket, Fin, Rst
<1>12. CASE WriteLine \/ CollectLine \/ CollectEnd
  BY <1>12 DEF Polled, WriteLine, CollectLine, CollectEnd, input, socket, Fin, Rst
<1>13. CASE UNCHANGED vars
  BY <1>13 DEF Polled, vars, client, input, socket, Fin, Rst
<1> QED
  BY <1>2, <1>3, <1>4, <1>5, <1>6, <1>7, <1>8, <1>9, <1>10, <1>11, <1>12, <1>13
     DEF Next, Client, EventLoop, Environment

\* The calls of a round find what poll promised, whatever has happened since:
\* no read of the blocking descriptors waits for something that is gone.
THEOREM ReadsAreReady == Spec => []ReadsReady
<1>1. Init => Polled
  BY DEF Init, Polled
<1>2. Polled => ReadsReady
  BY DEF Polled, ReadsReady
<1> QED BY <1>1, <1>2, PolledStep, ClientTypeInductive, PTL DEF Spec

-----------------------------------------------------------------------------
(* No line waits: each of the two buffers has one only in the loop that    *)
(* takes its lines out, or in the client that ended there.                 *)

LinesOut ==
  /\ FindDelim(wbuf, NL) > 0 => pc \in {"write", "threw", "sigpipe"}
  /\ FindDelim(rbuf, NL) > 0 => pc = "collect"

LEMMA LinesOutInit == Init => LinesOut
<1> SUFFICES ASSUME Init PROVE LinesOut
  OBVIOUS
<1>1. NewBuffer.size = 0
  BY DEF NewBuffer
<1> DEFINE b == NewBuffer
<1> HIDE DEF b
<1>2. 1..b.size = {}
  BY <1>1 DEF b
<1>3. FindDelim(b, NL) = 0
  BY <1>2 DEF FindDelim
<1>4. wbuf = b /\ rbuf = b
  BY DEF Init, b
<1>5. ~(0 > 0)
  OBVIOUS
<1> QED BY <1>3, <1>4, <1>5 DEF LinesOut

LEMMA LinesOutStep == LinesOut /\ [Next]_vars => LinesOut'
<1> SUFFICES ASSUME LinesOut, [Next]_vars PROVE LinesOut'
  OBVIOUS
<1>1. ASSUME UNCHANGED <<pc, wbuf, rbuf>>
      PROVE  LinesOut'
  BY <1>1 DEF LinesOut
<1>2. ASSUME UNCHANGED <<wbuf, rbuf>>, pc \notin {"write", "collect", "threw", "sigpipe"}
      PROVE  LinesOut'
  BY <1>2 DEF LinesOut
<1>3. CASE UNCHANGED vars
  BY <1>1, <1>3 DEF vars, client
<1>4. CASE Environment
  <2>1. UNCHANGED <<pc, client>>
    BY <1>4 DEF Environment, Type, EndOfInput, Interrupt, Tell, ServerReads, ServerCloses,
                ServerResets, ResetAnswer
  <2> QED BY <1>1, <2>1 DEF client
<1>5. CASE TakeName \/ Run \/ NoServer \/ Misuse \/ SendName \/ EventLoopCall \/ Poll \/ NoStdin \/ StdinEnd
  <2>1. UNCHANGED <<wbuf, rbuf>> /\ pc \notin {"write", "collect", "threw", "sigpipe"}
    BY <1>5 DEF TakeName, Run, NoServer, Misuse, SendName, EventLoopCall, Poll, NoStdin, StdinEnd, Die, Stop, client
  <2> QED BY <1>2, <2>1
<1>6. CASE StopCall \/ NoSocket \/ SocketFails \/ NoSignal \/ Signal
  <2>1. UNCHANGED <<wbuf, rbuf>> /\ pc \notin {"write", "collect", "threw", "sigpipe"}
    BY <1>6 DEF StopCall, NoSocket, SocketFails, NoSignal, Signal, Die, Stop, client
  <2> QED BY <1>2, <2>1
<1>7. CASE WriteFails
  <2>1. UNCHANGED <<wbuf, rbuf>> /\ pc \in {"name", "write"} /\ pc' \in {"threw", "sigpipe"}
    BY <1>7 DEF WriteFails, Die
  <2> QED BY <2>1 DEF LinesOut
<1>8. CASE StdinRead
  <2>1. pc = "stdin" /\ pc' = "write" /\ rbuf' = rbuf
    BY <1>8 DEF StdinRead
  <2> QED BY <2>1 DEF LinesOut
<1>9. CASE WriteLine
  <2>1. pc = "write" /\ pc' = pc /\ rbuf' = rbuf
    BY <1>9 DEF WriteLine
  <2> QED BY <2>1 DEF LinesOut
<1>10. CASE WriteEnd
  <2>1. pc = "write" /\ wbuf' = wbuf /\ rbuf' = rbuf /\ FindDelim(wbuf, NL) = 0 /\ ~(0 > 0)
    BY <1>10 DEF WriteEnd, client
  <2> QED BY <2>1 DEF LinesOut
<1>11. CASE SocketRead
  <2>1. pc = "socket" /\ pc' = "collect" /\ wbuf' = wbuf
    BY <1>11 DEF SocketRead
  <2> QED BY <2>1 DEF LinesOut
<1>12. CASE CollectLine
  <2>1. pc = "collect" /\ pc' = pc /\ wbuf' = wbuf
    BY <1>12 DEF CollectLine
  <2> QED BY <2>1 DEF LinesOut
<1>13. CASE CollectEnd
  <2>1. pc = "collect" /\ wbuf' = wbuf /\ rbuf' = rbuf /\ ~(FindDelim(rbuf, NL) > 0)
    BY <1>13 DEF CollectEnd, AnotherLine
  <2> QED BY <2>1 DEF LinesOut
<1> QED
  BY <1>3, <1>4, <1>5, <1>6, <1>7, <1>8, <1>9, <1>10, <1>11, <1>12, <1>13
     DEF Next, Client, EventLoop

\* A client that waits in poll or for event_loop(), or that has stopped, has no
\* whole line in either buffer: consume_full leaves its loop with the last of
\* them, and no way back to poll, over a signal or a new run(), leads around it.
THEOREM NoLineIsLeftWaiting == Spec => []NoLineWaits
<1>1. ClientType /\ LinesOut => NoLineWaits
  <2> SUFFICES ASSUME ClientType, LinesOut, pc \in {"connected", "poll", "idle"}
               PROVE  FindDelim(wbuf, NL) = 0 /\ FindDelim(rbuf, NL) = 0
    BY DEF NoLineWaits
  <2>1. wbuf \in Buffer /\ rbuf \in Buffer
    BY DEF ClientType, TypeOK, LoopType
  <2>2. FindDelim(wbuf, NL) \in Nat /\ FindDelim(rbuf, NL) \in Nat
    <3>1. \A b \in Buffer : FindDelim(b, NL) \in 0..b.size /\ b.size \in Nat
      BY FindDelimIs DEF Buffer
    <3> QED BY <2>1, <3>1
  <2>3. ~(FindDelim(wbuf, NL) > 0) /\ ~(FindDelim(rbuf, NL) > 0)
    BY DEF LinesOut
  <2> QED BY <2>2, <2>3
<1> QED BY <1>1, ClientTypeInductive, LinesOutInit, LinesOutStep, PTL DEF Spec
=============================================================================
