----------------------------- MODULE ChatClient -----------------------------
(***************************************************************************)
(* chat::ChatClient (src/src/chat_client.cpp) as main() uses it            *)
(* (src/src/tcpchat.cpp): the constructors, std::cin >> name, set_name(),  *)
(* run(), event_loop() and stop(), between the user's stdin, the server    *)
(* and the signals.                                                        *)
(*                                                                         *)
(* The client is one thread; each system call is a step of its own.  An    *)
(* object can be stopped before its event_loop and run again after it,     *)
(* which main() does not do.  Its buffers are not touched by stop() and    *)
(* run().  stop() of an object that is not connected changes nothing.      *)
(***************************************************************************)
EXTENDS ProtocolBuffer, FiniteSetsExt, SequencesExt

CONSTANTS
  Stdins,     \* what stdin may be: a "terminal", a "pipe"
  Constructors, \* how the object is made: "default", from an "address"
  Host,       \* the bytes of the address the user asks for
  MaxName,    \* max_name_len (32)
  Shapes,     \* what the user or the server writes at once
  MaxTyped,   \* bound: bytes on each stdin besides a line of MaxName bytes
  MaxTold,    \* bound: bytes the server sends in a session
  MaxUnread,  \* bound: writes the socket holds for the server before write blocks
  MaxRuns     \* bound: calls of run()

ASSUME ClientAssumption ==
  /\ Stdins \subseteq {"terminal", "pipe"}
  /\ Constructors \subseteq {"default", "address"} /\ Host \in [1..4 -> 0..255] /\ MaxName \in Nat
  /\ Shapes \subseteq Seq(Text \cup {NL})
  /\ MaxTyped \in [Stdins -> Nat] /\ MaxTold \in Nat /\ MaxRuns \in Nat
  /\ MaxUnread \in Nat \ {0}
  /\ "name" \notin Byte

VARIABLES
  pc,        \* the call made next; "idle" when not connected; how it ended
  polled,    \* the descriptors of the last poll with POLLIN, not looked at yet
  wbuf,      \* write_buffer, from stdin to the server
  rbuf,      \* read_buffer, from the server to the screen
  collected, \* what consume_full has taken out of read_buffer
  runs,      \* calls of run()
  stdin,     \* what it is
  address,   \* address.ip_address, by its bytes in memory
  named,     \* history: bytes on stdin up to the end of the line with the name
  lost,      \* history: bytes std::cin has taken behind that line
  typed,     \* every byte the user types
  taken,     \* how many of them std::cin and the client have read
  eof,       \* stdin has ended
  peer,      \* the server's end of the connection
  told,      \* every byte the server has sent in this session
  heard,     \* how many of them the client has read
  unread,    \* writes of the client the server has not read
  sig,       \* SIGINT or SIGTERM is pending
  upstream,  \* history: what was written to the server in this session
  uttered,   \* history: the lines written in all sessions
  received,  \* history: what was read from the server in all sessions
  shown      \* history: what was written to the screen

client  == <<polled, wbuf, rbuf, collected, runs>>
start   == <<stdin, address, named, lost>>
input   == <<start, typed, taken, eof>>
socket  == <<peer, told, heard, unread>>
history == <<upstream, uttered, received, shown>>
vars    == <<pc, client, input, socket, sig, history>>

Ended     == pc \in {"threw", "sigpipe"}
InSession == pc \notin {"cin", "idle", "threw", "sigpipe"}

Fin == peer \in {"fin", "finrst"}
Rst == peer \in {"rst", "finrst"}

-----------------------------------------------------------------------------
(* The user, the server, and the kernel.                                   *)

Type ==
  /\ ~Ended /\ ~eof
  /\ \E bytes \in Shapes :
       /\ Len(typed) + Len(bytes) <= MaxTyped[stdin] + MaxName + 1
       /\ typed' = typed \o bytes
  /\ UNCHANGED <<pc, client, start, taken, eof, socket, sig, history>>

EndOfInput ==
  /\ ~Ended /\ ~eof
  /\ eof' = TRUE
  /\ UNCHANGED <<pc, client, start, typed, taken, socket, sig, history>>

\* setup_signal_fd(): before the first run() the signals are not blocked and
\* end the process; behind it they stay blocked, behind stop() as well.
SignalsBlocked == runs > 0

Interrupt ==
  /\ SignalsBlocked /\ ~Ended /\ ~sig
  /\ sig' = TRUE
  /\ UNCHANGED <<pc, client, input, socket, history>>

Tell ==
  /\ InSession /\ peer = "open"
  /\ \E bytes \in Shapes :
       /\ Len(told) + Len(bytes) <= MaxTold
       /\ told' = told \o bytes
  /\ UNCHANGED <<pc, client, input, peer, heard, unread, sig, history>>

ServerReads ==
  /\ InSession /\ peer = "open"
  /\ unread > 0
  /\ unread' = unread - 1
  /\ UNCHANGED <<pc, client, input, peer, told, heard, sig, history>>

ServerCloses ==
  /\ InSession /\ peer = "open"
  /\ unread = 0
  /\ peer' = "fin"
  /\ UNCHANGED <<pc, client, input, told, heard, unread, sig, history>>

\* The bytes still in the receive queue may be lost with a reset.
ServerResets ==
  /\ InSession /\ peer = "open"
  /\ peer' = "rst"
  /\ heard' \in {heard, Len(told)}
  /\ UNCHANGED <<pc, client, input, told, unread, sig, history>>

\* What is written to a closed socket is answered with a reset.
ResetAnswer ==
  /\ InSession /\ peer = "fin"
  /\ unread > 0
  /\ peer' = "finrst"
  /\ UNCHANGED <<pc, client, input, told, heard, unread, sig, history>>

-----------------------------------------------------------------------------
(* The constructors, std::cin >> name and set_name()                       *)

\* INADDR_ANY, of an object made without an address.
InAddrAny == <<0, 0, 0, 0>>

\* inet_pton stores the bytes of an address in their order, in ip_address.
Pton(host) == host

\* main() uses the default constructor.
IpAddress(constructor) == IF constructor = "address" THEN Pton(Host) ELSE InAddrAny

\* s_addr = htonl(ip_address), where the lowest byte comes first in memory.
ToSockaddr == Reverse(address)

\* The kernel takes INADDR_ANY for the local host.
Destination == IF ToSockaddr = InAddrAny THEN <<127, 0, 0, 1>> ELSE ToSockaddr

\* The lines of bytes up to one that is not blank, by their last byte.
NameLines(bytes) ==
  {j \in 1..Len(bytes) : bytes[j] = NL /\ \E m \in 1..j : bytes[m] # NL}

\* What the stream buffer behind std::cin takes before it holds a word: a
\* terminal hands out one line at a time, a pipe all that is there.
CinTakes ==
  IF stdin = "pipe" \/ NameLines(typed) = {}
  THEN Len(typed)
  ELSE Min(NameLines(typed))

\* A word behind the first one is waited for, and its line taken as well.
TakeTwoNames ==
  /\ pc = "cin"
  /\ NameLines(typed) # {} \/ eof
  /\ LET end  == Min(NameLines(typed) \cup {Len(typed)})
         next == Min((NameLines(typed) \ {end}) \cup {Len(typed)})
         name == {j \in 1..end : typed[j] # NL}
     IN  /\ pc' = IF Cardinality(name) \in 1..MaxName THEN "idle" ELSE "threw"
         /\ named' = end /\ lost' = next - end
         /\ taken' = next
  /\ UNCHANGED <<client, stdin, address, typed, eof, socket, sig, history>>

\* std::cin waits for the end of a word, and set_name() for none: it throws.
\* What the stream has taken behind the name, the descriptor no longer has.
TakeName ==
  /\ pc = "cin"
  /\ NameLines(typed) # {} \/ eof
  /\ LET end  == Min(NameLines(typed) \cup {Len(typed)})
         name == {j \in 1..end : typed[j] # NL}
     IN  /\ pc' = IF Cardinality(name) \in 1..MaxName THEN "idle" ELSE "threw"
         /\ named' = end /\ lost' = CinTakes - end
  /\ taken' = CinTakes
  /\ UNCHANGED <<client, stdin, address, typed, eof, socket, sig, history>>

-----------------------------------------------------------------------------
(* run() and stop()                                                        *)

\* connect, and the signals blocked.
Run ==
  /\ pc = "idle"
  /\ runs < MaxRuns
  /\ runs' = runs + 1
  /\ pc' = "name"
  /\ peer' = "open" /\ told' = << >> /\ heard' = 0 /\ unread' = 0
  /\ upstream' = << >>
  /\ UNCHANGED <<polled, wbuf, rbuf, collected, input, sig, uttered, received, shown>>

\* An exception ends the process, and so does SIGPIPE.
Die(how) ==
  /\ pc' = how /\ polled' = {}
  /\ UNCHANGED <<wbuf, rbuf, collected, runs, input, socket, sig, history>>

NoServer ==
  /\ pc = "idle"
  /\ runs < MaxRuns
  /\ Die("threw")

SendName ==
  /\ pc = "name"
  /\ ~Rst
  /\ pc' = "connected"
  /\ unread' = unread + 1
  /\ upstream' = <<"name", NL>>
  /\ UNCHANGED <<client, input, peer, told, heard, sig, uttered, received, shown>>

\* A socket in blocking mode takes what it has room for.
WriteFails ==
  /\ \/ pc = "name"
     \/ pc = "write" /\ FindDelim(wbuf, NL) > 0
  /\ Rst
  /\ Die(IF Fin THEN "sigpipe" ELSE "threw")

\* stop(), and the end of event_loop.
Stop ==
  /\ pc' = "idle" /\ polled' = {}
  /\ UNCHANGED <<wbuf, rbuf, collected, runs, input, socket, history>>

\* main() calls event_loop() behind run(); another caller may stop() instead.
EventLoopCall ==
  /\ pc = "connected"
  /\ pc' = "poll"
  /\ UNCHANGED <<client, input, socket, sig, history>>

StopCall ==
  /\ pc = "connected"
  /\ Stop
  /\ UNCHANGED sig

\* run() of an object that is connected, event_loop() of one that is not.
Misuse ==
  /\ pc \in {"connected", "idle"}
  /\ Die("threw")

-----------------------------------------------------------------------------
(* event_loop()                                                            *)

AnyReady == {"stdin", "socket", "signal"}

\* The descriptors with POLLIN.  The end of a pipe is POLLHUP alone.
Ready ==
  {f \in {"stdin", "socket", "signal"} :
     \/ f = "stdin"  /\ (taken < Len(typed) \/ (eof /\ stdin = "terminal"))
     \/ f = "socket" /\ (heard < Len(told) \/ Fin \/ Rst)
     \/ f = "signal" /\ sig}

Poll ==
  /\ pc = "poll"
  /\ Ready # {} \/ eof
  /\ polled' = Ready
  /\ pc' = "stdin"
  /\ UNCHANGED <<wbuf, rbuf, collected, runs, input, socket, sig, history>>

ReadAll(n, b) == n

\* What read(fd, data() + size(), free_space()) returns of n bytes.
ReadSize(n, b) == IF n <= FreeSpace(b) THEN n ELSE FreeSpace(b)

FillFront(b, bytes) == IncreaseSize(Store(b, 0, bytes), Len(bytes))

\* The bytes land behind the data, and the size grows by as many.
Fill(b, bytes) == IncreaseSize(Store(b, b.size, bytes), Len(bytes))

\* What stdin has for a read: a terminal hands out one line at a time.
HandedOut ==
  LET ends == {j \in (taken + 1)..Len(typed) : typed[j] = NL} IN
  IF stdin = "terminal" /\ ends # {} THEN Min(ends) - taken ELSE Len(typed) - taken

NoStdin ==
  /\ pc = "stdin" /\ "stdin" \notin polled
  /\ pc' = "socket"
  /\ UNCHANGED <<client, input, socket, sig, history>>

StdinRead ==
  /\ pc = "stdin" /\ "stdin" \in polled
  /\ LET n == ReadSize(HandedOut, wbuf) IN
     /\ n > 0
     /\ taken' = taken + n
     /\ wbuf' = Fill(wbuf, SubSeq(typed, taken + 1, taken + n))
  /\ polled' = polled \ {"stdin"}
  /\ pc' = "write"
  /\ UNCHANGED <<rbuf, collected, runs, start, typed, eof, socket, sig, history>>

StdinEndIgnored ==
  /\ pc = "stdin" /\ "stdin" \in polled
  /\ FreeSpace(wbuf) = 0 \/ (taken = Len(typed) /\ eof)
  /\ pc' = "socket"
  /\ UNCHANGED <<client, input, socket, sig, history>>

\* A read of no bytes, at the end of stdin or with a full buffer.
StdinEnd ==
  /\ pc = "stdin" /\ "stdin" \in polled
  /\ FreeSpace(wbuf) = 0 \/ (taken = Len(typed) /\ eof)
  /\ Stop
  /\ UNCHANGED sig

WriteBuffer ==
  /\ pc = "write" /\ FindDelim(wbuf, NL) > 0
  /\ ~Rst /\ unread < MaxUnread
  /\ unread' = unread + 1
  /\ upstream' = upstream \o Contents(wbuf)
  /\ uttered' = uttered \o Contents(wbuf)
  /\ wbuf' = ClearBuffer(wbuf)
  /\ UNCHANGED <<pc, polled, rbuf, collected, runs, input, peer, told, heard, sig,
                 received, shown>>

WriteOneLine ==
  /\ pc = "write" /\ FindDelim(wbuf, NL) > 0
  /\ ~Rst /\ unread < MaxUnread
  /\ unread' = unread + 1
  /\ upstream' = upstream \o FirstChunk(wbuf, NL)
  /\ uttered' = uttered \o FirstChunk(wbuf, NL)
  /\ wbuf' = ConsumeOnce(wbuf, NL)
  /\ pc' = "socket"
  /\ UNCHANGED <<polled, rbuf, collected, runs, input, peer, told, heard, sig,
                 received, shown>>

\* write_buffer.consume_full(client_fd): a round of its loop, and its end.
WriteLine ==
  /\ pc = "write" /\ FindDelim(wbuf, NL) > 0
  /\ ~Rst /\ unread < MaxUnread
  /\ unread' = unread + 1
  /\ upstream' = upstream \o FirstChunk(wbuf, NL)
  /\ uttered' = uttered \o FirstChunk(wbuf, NL)
  /\ wbuf' = ConsumeOnce(wbuf, NL)
  /\ UNCHANGED <<pc, polled, rbuf, collected, runs, input, peer, told, heard, sig,
                 received, shown>>

WriteEnd ==
  /\ pc = "write" /\ FindDelim(wbuf, NL) = 0
  /\ pc' = "socket"
  /\ UNCHANGED <<client, input, socket, sig, history>>

NoSocketNextPoll ==
  /\ pc = "socket" /\ "socket" \notin polled
  /\ pc' = "poll"
  /\ UNCHANGED <<client, input, socket, sig, history>>

NoSocket ==
  /\ pc = "socket" /\ "socket" \notin polled
  /\ pc' = "signal"
  /\ UNCHANGED <<client, input, socket, sig, history>>

\* A read of no bytes is not told from any other.
SocketRead ==
  /\ pc = "socket" /\ "socket" \in polled
  /\ heard < Len(told) \/ Fin \/ FreeSpace(rbuf) = 0
  /\ LET n == ReadSize(Len(told) - heard, rbuf)
         bytes == SubSeq(told, heard + 1, heard + n)
     IN  /\ heard' = heard + n
         /\ rbuf' = Fill(rbuf, bytes)
         /\ received' = received \o bytes
  /\ polled' = polled \ {"socket"}
  /\ pc' = "collect"
  /\ UNCHANGED <<wbuf, collected, runs, input, peer, told, unread, sig,
                 upstream, uttered, shown>>

SocketFails ==
  /\ pc = "socket" /\ "socket" \in polled
  /\ heard = Len(told) /\ peer = "rst" /\ FreeSpace(rbuf) > 0
  /\ Die("threw")

AnotherLine == FindDelim(rbuf, NL) > 0

\* read_buffer.consume_full(), and its result on the screen.
CollectLine ==
  /\ pc = "collect" /\ AnotherLine
  /\ collected' = collected \o FirstChunk(rbuf, NL)
  /\ rbuf' = ConsumeOnce(rbuf, NL)
  /\ UNCHANGED <<pc, polled, wbuf, runs, input, socket, sig, history>>

CollectEndCleared ==
  /\ pc = "collect" /\ ~AnotherLine
  /\ shown' = shown \o collected
  /\ collected' = << >>
  /\ rbuf' = ClearBuffer(rbuf)
  /\ pc' = "signal"
  /\ UNCHANGED <<polled, wbuf, runs, input, socket, sig, upstream, uttered, received>>

CollectEnd ==
  /\ pc = "collect" /\ ~AnotherLine
  /\ shown' = shown \o collected
  /\ collected' = << >>
  /\ pc' = "signal"
  /\ UNCHANGED <<polled, wbuf, rbuf, runs, input, socket, sig, upstream, uttered, received>>

NoSignal ==
  /\ pc = "signal" /\ "signal" \notin polled
  /\ pc' = "poll"
  /\ UNCHANGED <<client, input, socket, sig, history>>

Signal ==
  /\ pc = "signal" /\ "signal" \in polled
  /\ sig' = FALSE
  /\ Stop

-----------------------------------------------------------------------------

\* The members are value-initialised: the arrays hold zeros.
NewBuffer == [mem |-> [j \in 1..Cap |-> Junk], size |-> 0]

Init ==
  /\ pc = "cin" /\ polled = {}
  /\ stdin \in Stdins /\ named = 0 /\ lost = 0
  /\ address \in {IpAddress(constructor) : constructor \in Constructors}
  /\ wbuf = NewBuffer /\ rbuf = NewBuffer /\ collected = << >>
  /\ runs = 0
  /\ typed = << >> /\ taken = 0 /\ eof = FALSE
  /\ peer = "none" /\ told = << >> /\ heard = 0 /\ unread = 0
  /\ sig = FALSE
  /\ upstream = << >> /\ uttered = << >> /\ received = << >> /\ shown = << >>

EventLoop ==
  \/ Poll \/ NoStdin \/ StdinRead \/ StdinEnd \/ WriteLine \/ WriteEnd
  \/ NoSocket \/ SocketRead \/ SocketFails \/ CollectLine \/ CollectEnd
  \/ NoSignal \/ Signal

Client == TakeName \/ SendName \/ WriteFails \/ EventLoopCall \/ EventLoop

Environment ==
  \/ Type \/ EndOfInput \/ Interrupt
  \/ Tell \/ ServerReads \/ ServerCloses \/ ServerResets \/ ResetAnswer

Next == Run \/ NoServer \/ StopCall \/ Misuse \/ Client \/ Environment

Spec == Init /\ [][Next]_vars

(***************************************************************************)
(* The thread runs when its call can return, calls event_loop() behind     *)
(* run() as main() does unless it stops before, and the server reads its   *)
(* socket as long as it is there.  Nobody has to type, tell, end or run.   *)
(***************************************************************************)
FairSpec == Spec /\ WF_vars(Client) /\ WF_vars(ServerReads) /\ WF_vars(ResetAnswer)

-----------------------------------------------------------------------------
(* Safety.                                                                 *)

Stream == Seq(Text \cup {NL})

LoopType ==
  /\ pc \in {"cin", "idle", "name", "connected", "poll", "stdin", "write", "socket", "collect", "signal",
             "threw", "sigpipe"}
  /\ polled \subseteq {"stdin", "socket", "signal"}
  /\ wbuf \in Buffer /\ rbuf \in Buffer /\ collected \in Stream
  /\ runs \in 0..MaxRuns

InputType ==
  /\ stdin \in Stdins /\ address \in [1..4 -> 0..255] /\ named \in Nat /\ lost \in Nat
  /\ typed \in Stream /\ taken \in 0..Len(typed)
  /\ eof \in BOOLEAN

SocketType ==
  /\ peer \in {"none", "open", "fin", "rst", "finrst"}
  /\ told \in Stream /\ heard \in 0..Len(told)
  /\ unread \in 0..MaxUnread
  /\ sig \in BOOLEAN

HistoryType ==
  /\ upstream \in Seq(Text \cup {NL, "name"})
  /\ uttered \in Stream /\ received \in Stream /\ shown \in Stream

\* The variables have their types, no buffer holds more than its capacity, and
\* nothing is read that is not there.
TypeOK == LoopType /\ InputType /\ SocketType /\ HistoryType

\* A connected client is connected to the host the user asked for.
ReachesHost == InSession => Destination = Host

\* Where the lines begin that are meant for the server.  std::cin takes the
\* line with the name off a terminal and no more.  Off a pipe it takes all that
\* is there (tcpchat.cpp:43): the lost lines are never sent, and the properties
\* below speak of those behind them.
Meant == IF stdin = "terminal" THEN named ELSE named + lost

\* What was sent, in however many sessions, with what is in write_buffer, is
\* what was read from stdin behind the name: in order, nothing lost, doubled or
\* made up, except for what std::cin took off a pipe.
SentIsTyped == uttered \o Contents(wbuf) = SubSeq(typed, Meant + 1, taken)

\* What is on the screen, with what is in read_buffer, is what the server sent.
ShownIsReceived == shown \o collected \o Contents(rbuf) = received

\* A session is the name and then whole lines: a line begun in an earlier
\* session does not run into the name, nor is one cut off by stop().
SessionIsLines ==
  upstream # << >> => /\ upstream[1] = "name" /\ upstream[2] = NL
                      /\ upstream[Len(upstream)] = NL

\* The descriptors are in blocking mode: when one is read, what poll said of
\* it is still so.
ReadsReady ==
  /\ pc = "stdin" /\ "stdin" \in polled => taken < Len(typed) \/ eof
  /\ pc = "socket" /\ "socket" \in polled => heard < Len(told) \/ Fin \/ Rst
  /\ pc = "signal" /\ "signal" \in polled => sig

\* No whole line is left in a buffer when the client waits in poll or has
\* stopped: neither the keyboard nor the socket would wake it for that line.
NoLineWaits ==
  pc \in {"connected", "poll", "idle"} => FindDelim(wbuf, NL) = 0 /\ FindDelim(rbuf, NL) = 0

-----------------------------------------------------------------------------
(* Liveness.                                                               *)

WholeLines(s) ==
  LET ends == {j \in 1..Len(s) : s[j] = NL}
  IN  IF ends = {} THEN << >> ELSE SubSeq(s, 1, CHOOSE j \in ends : \A m \in ends : m <= j)

\* SIGINT or SIGTERM ends the session, whatever else is ready, the server that
\* is gone and whose socket is always readable included.
SignalStops == (sig /\ InSession) ~> ~InSession

\* The end of stdin ends the session, if stdin is a terminal.
EofStops == (stdin = "terminal" /\ eof /\ InSession) ~> ~InSession

\* A session ends for each of the reasons event_loop() has to end it.
SessionEnds == SignalStops /\ EofStops

\* Every whole line the user types on a terminal behind the name is sent, or the
\* session ends: a full write_buffer without a line reads as the end of stdin.
\* On a pipe the lines that std::cin took with the name are lost while the
\* session goes on, and only those behind them are sent.
TypedIsSent ==
  []<>(~InSession \/ uttered = WholeLines(SubSeq(typed, Meant + 1, Len(typed))))

\* A line that does not fit read_buffer: it is never taken out.
LineTooLong == FreeSpace(rbuf) = 0 /\ FindDelim(rbuf, NL) = 0

\* Every whole line the server sends is shown, or the session ends, unless a
\* line without end in sight has filled read_buffer.
ToldIsShown ==
  []<>(\/ ~InSession
       \/ LineTooLong
       \/ heard = Len(told) /\ shown = WholeLines(received))

\* Lines get through in both directions, in one thread, with the exceptions
\* named above: a pipe's lines taken with the name, a line that fills read_buffer.
LinesGetThrough == TypedIsSent /\ ToldIsShown
=============================================================================
