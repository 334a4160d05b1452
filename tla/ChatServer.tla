----------------------------- MODULE ChatServer -----------------------------
(***************************************************************************)
(* chat::ChatServer::event_loop (src/src/chat_server.cpp) and the sockets  *)
(* it serves.                                                              *)
(*                                                                         *)
(* The server is one thread.  Each system call is a step of its own, so    *)
(* that peers and signals act between a poll and the reads and writes that *)
(* rely on its answer.  A connection is named by the file descriptor the   *)
(* server gets for it; a peer that comes back is another connection.       *)
(*                                                                         *)
(* std::vector<ClientInfo> is split by what the code moves.  Removing a    *)
(* client moves the fd of the last element and nothing else, so fds holds  *)
(* clients[i].fd and shrinks, while info holds the rest of element i and   *)
(* stays where it is, the memory of the elements past the end included:    *)
(* the constructor reserves room for every client, nothing is reallocated. *)
(***************************************************************************)
EXTENDS Integers, Sequences, FiniteSets

CONSTANTS
  Conns,       \* the connections peers may open
  MaxClients,  \* max_clients (62)
  Cap,         \* capacity of a protocol::Buffer (1024)
  MaxUnread,   \* bound: messages a socket holds for a peer before write blocks
  MaxBytes,    \* bound: bytes a peer sends
  Shapes,      \* what a peer sends at once, as sequences over {"text", "nl"}
  Leavers      \* the connections whose peer may close or be cut off

INSTANCE ProtocolBuffer WITH Text <- Conns

ASSUME ServerAssumption ==
  /\ MaxClients \in Nat \ {0}
  /\ Cap \in Nat \ {0}
  /\ MaxUnread \in Nat \ {0}
  /\ MaxBytes \in Nat
  /\ Shapes \subseteq Seq({"text", "nl"})
  /\ Leavers \subseteq Conns
  /\ Conns \cap {"listen", "signal", NL, Junk, Unset} = {}

VARIABLES
  pc,        \* the call the server makes next, or how it ended
  fds,       \* clients[i].fd
  info,      \* clients[i].{name, connected, buffer}, by vector element
  pollfds,   \* listening socket, signalfd, then one entry per client
  nready,    \* entries of pollfds not dealt with yet
  i,         \* the client the loop looks at
  messages,  \* what respond_to_client has collected and is writing out
  k,         \* the client it writes to next
  backlog,   \* connections the kernel has completed, not accepted yet
  link,      \* the server's end of each connection
  peer,      \* the peer's end
  said,      \* every byte the peer has sent
  taken,     \* how many of them the server has read
  unread,    \* messages written to the peer that it has not read
  sig,       \* SIGINT or SIGTERM is pending
  relayed    \* history: the lines broadcast for each connection

server == <<fds, info, pollfds, nready, i, messages, k>>
net    == <<backlog, link, peer, said, taken, unread, sig>>
vars   == <<pc, server, net, relayed>>

Slots == 1..MaxClients

NoName     == <<"NoName">>
ClientInfo == [name : Seq(Byte \cup {"NoName"}), connected : BOOLEAN,
               buffer : Buffer]
Messages   == [name : Seq(Byte \cup {"NoName"}), body : Seq(Byte)]
NoMessages == [name |-> << >>, body |-> << >>]

PollFd == [fd : Conns \cup {"listen", "signal"},
           revents : SUBSET {"POLLIN", "POLLERR"}]

-----------------------------------------------------------------------------
(* What the kernel reports of a connection.                                *)

Pending(c) == Len(said[c]) - taken[c]        \* bytes in the receive queue
Fin(c)     == peer[c] \in {"fin", "finrst"}  \* the peer closed its end
Rst(c)     == peer[c] \in {"rst", "finrst"}  \* the connection was reset

\* POLLERR stands for POLLERR, POLLHUP and POLLNVAL, which the loop treats alike.
Revents(c) ==
  {e \in {"POLLIN", "POLLERR"} :
     \/ e = "POLLIN"  /\ (Pending(c) > 0 \/ Fin(c) \/ Rst(c))
     \/ e = "POLLERR" /\ Rst(c)}

\* Closing every descriptor: stop(), and the end of the process.
CloseClientsOnly ==
  /\ link' = [c \in Conns |-> IF link[c] = "accepted" THEN "closed" ELSE link[c]]
  /\ UNCHANGED backlog

CloseAll ==
  /\ link' = [c \in Conns |-> IF link[c] = "none" THEN "none" ELSE "closed"]
  /\ backlog' = << >>

-----------------------------------------------------------------------------
(* The peers and the user at the server's terminal.                        *)

Alive == pc \notin {"stopped", "threw", "sigpipe"}

Connect(c) ==
  /\ Alive
  /\ peer[c] = "idle"
  /\ peer' = [peer EXCEPT ![c] = "open"]
  /\ link' = [link EXCEPT ![c] = "queued"]
  /\ backlog' = Append(backlog, c)
  /\ UNCHANGED <<pc, server, said, taken, unread, sig, relayed>>

Attached(c) == link[c] \in {"queued", "accepted"}

Send(c) ==
  /\ peer[c] = "open" /\ Attached(c)
  /\ \E shape \in Shapes :
       /\ Len(said[c]) + Len(shape) <= MaxBytes
       /\ said' = [said EXCEPT ![c] =
                     @ \o [j \in 1..Len(shape) |-> IF shape[j] = "nl" THEN NL ELSE c]]
  /\ UNCHANGED <<pc, server, backlog, link, peer, taken, unread, sig, relayed>>

\* The peer reads one message from its socket.
Receive(c) ==
  /\ peer[c] = "open" /\ Attached(c)
  /\ unread[c] > 0
  /\ unread' = [unread EXCEPT ![c] = @ - 1]
  /\ UNCHANGED <<pc, server, backlog, link, peer, said, taken, sig, relayed>>

\* An orderly close.  With unread messages in its socket the peer's kernel
\* resets the connection instead (Reset).
Close(c) ==
  /\ c \in Leavers
  /\ peer[c] = "open" /\ Attached(c)
  /\ unread[c] = 0
  /\ peer' = [peer EXCEPT ![c] = "fin"]
  /\ UNCHANGED <<pc, server, backlog, link, said, taken, unread, sig, relayed>>

\* A reset; the bytes still in the receive queue may be lost with it.
Reset(c) ==
  /\ c \in Leavers
  /\ peer[c] = "open" /\ Attached(c)
  /\ peer' = [peer EXCEPT ![c] = "rst"]
  /\ \E lost \in BOOLEAN :
       taken' = [taken EXCEPT ![c] = IF lost THEN Len(said[c]) ELSE @]
  /\ UNCHANGED <<pc, server, backlog, link, said, unread, sig, relayed>>

\* What is written to a closed socket is answered with a reset.
ResetAnswer(c) ==
  /\ peer[c] = "fin" /\ Attached(c)
  /\ unread[c] > 0
  /\ peer' = [peer EXCEPT ![c] = "finrst"]
  /\ UNCHANGED <<pc, server, backlog, link, said, taken, unread, sig, relayed>>

\* Ctrl-C: the signal is blocked and waits in the signalfd.
Interrupt ==
  /\ Alive /\ ~sig
  /\ sig' = TRUE
  /\ UNCHANGED <<pc, server, backlog, link, peer, said, taken, unread, relayed>>

-----------------------------------------------------------------------------
(* The event loop.                                                         *)

\* The vector is cleared and the counters are set anew where the loop starts.
LeaveRound(next) ==
  /\ pc' = next
  /\ pollfds' = << >> /\ nready' = 0 /\ i' = 1

NextRound == LeaveRound("poll")

HandledTwice(next, table, client) ==
  IF nready - 2 <= 0
  THEN NextRound
  ELSE /\ pc' = next /\ pollfds' = table
       /\ nready' = nready - 2 /\ i' = client

HandledUncounted(next, table, client) ==
  /\ pc' = next /\ pollfds' = table
  /\ i' = client
  /\ UNCHANGED nready

\* One entry of pollfds is dealt with; without another one the round is over.
Handled(next, table, client) ==
  IF nready - 1 <= 0
  THEN NextRound
  ELSE /\ pc' = next /\ pollfds' = table
       /\ nready' = nready - 1 /\ i' = client

Entry(f, events) == [fd |-> f, revents |-> events]

PollTableWithoutSignal ==
  << Entry("listen", IF backlog = << >> THEN {} ELSE {"POLLIN"}), Entry("signal", {}) >>
    \o [j \in 1..Len(fds) |-> Entry(fds[j], Revents(fds[j]))]

\* What poll answers for the listening socket, the signalfd and the clients.
PollTable ==
  << Entry("listen", IF backlog = << >> THEN {} ELSE {"POLLIN"}),
     Entry("signal", IF sig THEN {"POLLIN"} ELSE {}) >>
    \o [j \in 1..Len(fds) |-> Entry(fds[j], Revents(fds[j]))]

Ready(table) == {j \in 1..Len(table) : table[j].revents # {}}

\* poll has no timeout: it returns when something is ready.
Poll ==
  /\ pc = "poll"
  /\ Ready(PollTable) # {}
  /\ pollfds' = PollTable
  /\ nready' = Cardinality(Ready(PollTable))
  /\ pc' = "accept"
  /\ UNCHANGED <<fds, info, i, messages, k, net, relayed>>

\* push_back of a ClientInfo: its buffer is empty, in memory nobody cleared.
Admit(c) ==
  /\ fds' = Append(fds, c)
  /\ info' = [info EXCEPT ![Len(fds) + 1] =
                [name |-> NoName, connected |-> FALSE, buffer |-> ClearBuffer(@.buffer)]]
  /\ link' = [link EXCEPT ![c] = "accepted"]

RejectWithoutClose(c) == UNCHANGED <<link, fds, info>>

RejectNobody(c) == Admit(c)

Reject(c) ==
  /\ link' = [link EXCEPT ![c] = "closed"]
  /\ UNCHANGED <<fds, info>>

\* The new client was not part of this poll: its revents are 0.
NewEntry(c) == Entry(c, {})

Accept ==
  /\ pc = "accept"
  /\ "POLLIN" \in pollfds[1].revents
  /\ LET c    == Head(backlog)
         full == Len(fds) >= MaxClients
     IN  /\ IF full THEN Reject(c) ELSE Admit(c)
         /\ Handled("signal", IF full THEN pollfds ELSE Append(pollfds, NewEntry(c)), i)
  /\ backlog' = Tail(backlog)
  /\ UNCHANGED <<messages, k, peer, said, taken, unread, sig, relayed>>

NoAccept ==
  /\ pc = "accept"
  /\ "POLLIN" \notin pollfds[1].revents
  /\ pc' = "signal"
  /\ UNCHANGED <<server, net, relayed>>

\* The signal is read and stop() closes the clients and the two descriptors.
Signal ==
  /\ pc = "signal"
  /\ "POLLIN" \in pollfds[2].revents
  /\ sig' = FALSE
  /\ fds' = << >>
  /\ CloseAll
  /\ LeaveRound("stopped")
  /\ UNCHANGED <<info, messages, k, peer, said, taken, unread, relayed>>

NoSignal ==
  /\ pc = "signal"
  /\ "POLLIN" \notin pollfds[2].revents
  /\ pc' = "clients"
  /\ UNCHANGED <<server, net, relayed>>

\* The for loop: its condition, and the entries poll reported nothing for.
PassClient ==
  /\ pc = "clients"
  /\ IF i > Len(fds)
     THEN NextRound
     ELSE /\ pollfds[i + 2].revents = {}
          /\ i' = i + 1
          /\ UNCHANGED <<pc, pollfds, nready>>
  /\ UNCHANGED <<fds, info, messages, k, net, relayed>>

PopLast(s, j) == SubSeq(s, 1, Len(s) - 1)

\* The last element replaces element j and the vector loses its last element.
SwapPop(s, j) == [m \in 1..(Len(s) - 1) |-> IF m = j THEN s[Len(s)] ELSE s[m]]

RemoveAndStepOn ==
  /\ fds' = SwapPop(fds, i)
  /\ link' = [link EXCEPT ![fds[i]] = "closed"]
  /\ Handled("clients", SwapPop(pollfds, i + 2), i + 1)
  /\ UNCHANGED <<info, messages, k, backlog, peer, said, taken, unread, sig, relayed>>

RemoveLastEntry ==
  /\ fds' = SwapPop(fds, i)
  /\ link' = [link EXCEPT ![fds[i]] = "closed"]
  /\ Handled("clients", SubSeq(pollfds, 1, Len(pollfds) - 1), i)
  /\ UNCHANGED <<info, messages, k, backlog, peer, said, taken, unread, sig, relayed>>

\* clients[i].fd = std::move(clients.back().fd) closes the fd element i had;
\* its name, connected and buffer stay where they are.
Remove ==
  /\ fds' = SwapPop(fds, i)
  /\ link' = [link EXCEPT ![fds[i]] = "closed"]
  /\ Handled("clients", SwapPop(pollfds, i + 2), i)
  /\ UNCHANGED <<info, messages, k, backlog, peer, said, taken, unread, sig, relayed>>

RemoveFailed ==
  /\ pc = "clients" /\ i <= Len(fds)
  /\ "POLLERR" \in pollfds[i + 2].revents
  /\ Remove

Reading ==
  /\ pc = "clients" /\ i <= Len(fds)
  /\ pollfds[i + 2].revents = {"POLLIN"}

\* What read(fd, data(), free_space()) returns; a read of no bytes returns 0
\* whatever the state of the connection.
ReadSize(c, b) == IF Pending(c) <= FreeSpace(b) THEN Pending(c) ELSE FreeSpace(b)

ReadEndIgnored ==
  /\ Reading
  /\ ReadSize(fds[i], info[i].buffer) = 0
  /\ FreeSpace(info[i].buffer) = 0 \/ Fin(fds[i])
  /\ Handled("clients", pollfds, i + 1)
  /\ UNCHANGED <<fds, info, messages, k, net, relayed>>

ReadEnd ==
  /\ Reading
  /\ ReadSize(fds[i], info[i].buffer) = 0
  /\ FreeSpace(info[i].buffer) = 0 \/ Fin(fds[i])
  /\ Remove

\* The process ends and the kernel closes what it had open.
Die(how) ==
  /\ LeaveRound(how)
  /\ fds' = << >>
  /\ CloseAll
  /\ UNCHANGED <<info, messages, k, peer, said, taken, unread, sig, relayed>>

\* read_fd throws where event_loop looks for a negative result.
ReadFails ==
  /\ Reading
  /\ FreeSpace(info[i].buffer) > 0 /\ Pending(fds[i]) = 0
  /\ peer[fds[i]] = "rst"
  /\ Die("threw")

\* Bytes never stored that n more data bytes make part of the data.
Uncovered(b, n) == {j \in (n + 1)..(b.size + n) : b.mem[j] = Unset}

\* n bytes land at data(), over what the buffer holds, and its size grows by n.
Receives(b, bytes, unknown) ==
  LET new == IncreaseSize(Store(b, 0, bytes), Len(bytes)) IN
  [new EXCEPT !.mem = [j \in 1..Cap |-> IF j \in DOMAIN unknown THEN unknown[j]
                                                              ELSE new.mem[j]]]

NamedByEveryLine(client) ==
  LET line == FirstChunk(client.buffer, NL) IN
  IF line = << >>
  THEN client
  ELSE [name |-> SubSeq(line, 1, Len(line) - 1), connected |-> TRUE,
        buffer |-> ConsumeOnce(client.buffer, NL)]

NamedAndCleared(client) ==
  LET line == FirstChunk(client.buffer, NL) IN
  IF client.connected \/ line = << >>
  THEN client
  ELSE [name |-> SubSeq(line, 1, Len(line) - 1), connected |-> TRUE,
        buffer |-> ClearBuffer(client.buffer)]

\* get_client_name: the first line without its delimiter.
Named(client) ==
  LET line == FirstChunk(client.buffer, NL) IN
  IF client.connected \/ line = << >>
  THEN client
  ELSE [name |-> SubSeq(line, 1, Len(line) - 1), connected |-> TRUE,
        buffer |-> ConsumeOnce(client.buffer, NL)]

ReadData ==
  /\ Reading
  /\ LET c == fds[i]
         b == info[i].buffer
         n == ReadSize(c, b)
         bytes == SubSeq(said[c], taken[c] + 1, taken[c] + n)
     IN  /\ n > 0
         /\ taken' = [taken EXCEPT ![c] = @ + n]
         /\ \E unknown \in [Uncovered(b, n) -> {Junk, NL}] :
              info' = [info EXCEPT ![i] =
                         Named([@ EXCEPT !.buffer = Receives(b, bytes, unknown)])]
  /\ IF info'[i].connected
     THEN pc' = "collect" /\ UNCHANGED <<pollfds, nready, i>>
     ELSE Handled("clients", pollfds, i + 1)
  /\ UNCHANGED <<fds, messages, k, backlog, link, peer, said, unread, sig, relayed>>

OneLineOnly == messages.body = << >> /\ FindDelim(info[i].buffer, NL) > 0

AnotherLine == FindDelim(info[i].buffer, NL) > 0

\* consume_full: one round of its loop ...
CollectLine ==
  /\ pc = "collect"
  /\ AnotherLine
  /\ LET b == info[i].buffer IN
     /\ messages' = [messages EXCEPT !.body = @ \o FirstChunk(b, NL)]
     /\ info' = [info EXCEPT ![i].buffer = ConsumeOnce(b, NL)]
  /\ UNCHANGED <<pc, fds, pollfds, nready, i, k, net, relayed>>

\* ... and its end, with what respond_to_client makes of the result.
CollectEnd ==
  /\ pc = "collect"
  /\ ~AnotherLine
  /\ IF messages.body = << >>
     THEN /\ Handled("clients", pollfds, i + 1)
          /\ UNCHANGED <<messages, k, relayed>>
     ELSE /\ pc' = "write" /\ k' = 1
          /\ messages' = [messages EXCEPT !.name = info[i].name]
          /\ relayed' = [relayed EXCEPT ![fds[i]] = @ \o messages.body]
          /\ UNCHANGED <<pollfds, nready, i>>
  /\ UNCHANGED <<fds, info, net>>

SkipSender ==
  /\ pc = "write"
  /\ k = i
  /\ k' = k + 1
  /\ UNCHANGED <<pc, fds, info, pollfds, nready, i, messages, net, relayed>>

Writing == pc = "write" /\ k <= Len(fds) /\ k # i

\* write_full blocks until the socket takes the message.
WriteClient ==
  /\ Writing
  /\ ~Rst(fds[k]) /\ unread[fds[k]] < MaxUnread
  /\ unread' = [unread EXCEPT ![fds[k]] = @ + 1]
  /\ k' = k + 1
  /\ UNCHANGED <<pc, fds, info, pollfds, nready, i, messages,
                 backlog, link, peer, said, taken, sig, relayed>>

\* ECONNRESET makes write_full throw; once the peer had closed, the error is
\* EPIPE and SIGPIPE, which is not blocked, ends the process.
WriteFails ==
  /\ Writing
  /\ Rst(fds[k])
  /\ Die(IF Fin(fds[k]) THEN "sigpipe" ELSE "threw")

WriteEndWithoutStep ==
  /\ pc = "write"
  /\ k > Len(fds)
  /\ messages' = NoMessages /\ k' = 1
  /\ Handled("clients", pollfds, i)
  /\ UNCHANGED <<fds, info, net, relayed>>

WriteEnd ==
  /\ pc = "write"
  /\ k > Len(fds)
  /\ messages' = NoMessages /\ k' = 1
  /\ Handled("clients", pollfds, i + 1)
  /\ UNCHANGED <<fds, info, net, relayed>>

-----------------------------------------------------------------------------

Init ==
  /\ pc = "poll"
  /\ fds = << >>
  /\ info = [s \in Slots |-> [name |-> NoName, connected |-> FALSE,
                              buffer |-> Uninitialised]]
  /\ pollfds = << >> /\ nready = 0 /\ i = 1
  /\ messages = NoMessages /\ k = 1
  /\ backlog = << >>
  /\ link = [c \in Conns |-> "none"]
  /\ peer = [c \in Conns |-> "idle"]
  /\ said = [c \in Conns |-> << >>]
  /\ taken = [c \in Conns |-> 0]
  /\ unread = [c \in Conns |-> 0]
  /\ sig = FALSE
  /\ relayed = [c \in Conns |-> << >>]

Server ==
  \/ Poll \/ Accept \/ NoAccept \/ Signal \/ NoSignal
  \/ PassClient \/ RemoveFailed \/ ReadEnd \/ ReadFails \/ ReadData
  \/ CollectLine \/ CollectEnd
  \/ SkipSender \/ WriteClient \/ WriteFails \/ WriteEnd

Environment ==
  \/ \E c \in Conns : Connect(c) \/ Send(c) \/ Receive(c)
                      \/ Close(c) \/ Reset(c) \/ ResetAnswer(c)
  \/ Interrupt

Next == Server \/ Environment

Spec == Init /\ [][Next]_vars

(***************************************************************************)
(* The thread runs whenever it can.  Peers owe the server nothing, so only *)
(* what is said to depend on it assumes that they read their socket and    *)
(* that their kernel answers data sent to a closed one.                    *)
(***************************************************************************)
ServerRuns == WF_vars(Server)
PeersRead  == \A c \in Conns : WF_vars(Receive(c)) /\ WF_vars(ResetAnswer(c))

FairSpec == Spec /\ ServerRuns /\ PeersRead

-----------------------------------------------------------------------------
(* Safety.                                                                 *)

InRound == pc \in {"accept", "signal", "clients", "collect", "write"}

LoopType ==
  /\ pc \in {"poll", "accept", "signal", "clients", "collect", "write",
             "stopped", "threw", "sigpipe"}
  /\ pollfds \in Seq(PollFd)
  /\ nready \in Nat /\ i \in Nat \ {0} /\ k \in Nat \ {0}
  /\ messages \in Messages

ClientsType ==
  /\ fds \in Seq(Conns) /\ Len(fds) <= MaxClients
  /\ info \in [Slots -> ClientInfo]

SocketType ==
  /\ backlog \in Seq(Conns)
  /\ link \in [Conns -> {"none", "queued", "accepted", "closed"}]
  /\ peer \in [Conns -> {"idle", "open", "fin", "rst", "finrst"}]
  /\ unread \in [Conns -> 0..MaxUnread]
  /\ sig \in BOOLEAN

StreamType ==
  /\ said \in [Conns -> Seq(Conns \cup {NL})]
  /\ taken \in [Conns -> Nat] /\ \A c \in Conns : taken[c] <= Len(said[c])
  /\ relayed \in [Conns -> Seq(Byte)]

\* The variables have their types, no more than max_clients clients are kept,
\* no buffer holds more than its capacity, and nothing is read that was not
\* sent.
TypeOK == LoopType /\ ClientsType /\ SocketType /\ StreamType

\* Through accepts and removals in the middle of a round, entry i + 2 of
\* pollfds stays that of clients[i]: event_loop indexes both with one i.
PollfdsParallel ==
  InRound => /\ Len(pollfds) = Len(fds) + 2
             /\ \A j \in 1..Len(fds) : pollfds[j + 2].fd = fds[j]

\* The entries of this round that event_loop has not come to yet.
Ahead ==
  LET first == CASE pc = "accept" -> 1 [] pc = "signal" -> 2 [] OTHER -> i + 2
  IN  {j \in first..Len(pollfds) : pollfds[j].revents # {}}

\* nready counts exactly the ready entries still ahead, so a round ends with
\* the last of them and never before it: swapping the last entry into place i
\* neither hides a ready client nor handles one twice.
ReadyCountExact == InRound => /\ nready = Cardinality(Ahead)
                              /\ nready > 0

\* Every accepted connection has exactly one element of clients, and every
\* element owns an open descriptor: moving fds between elements leaks none
\* and closes none twice.  The backlog holds the others.
FdOwnership ==
  /\ {c \in Conns : link[c] = "accepted"} = {fds[j] : j \in 1..Len(fds)}
  /\ {c \in Conns : link[c] = "queued"} = {backlog[j] : j \in 1..Len(backlog)}
  /\ \A j, m \in 1..Len(fds) : fds[j] = fds[m] => j = m
  /\ \A j, m \in 1..Len(backlog) : backlog[j] = backlog[m] => j = m

\* The sockets are in blocking mode, and what poll said of them is old when
\* accept_socket and read_fd rely on it: neither ever blocks the one thread,
\* and no signal is missing when the signalfd is read.
OnlyPollAndWriteBlock ==
  /\ pc = "accept" /\ "POLLIN" \in pollfds[1].revents => backlog # << >>
  /\ pc = "signal" /\ "POLLIN" \in pollfds[2].revents => sig
  /\ Reading => \/ Pending(fds[i]) > 0 \/ Fin(fds[i]) \/ Rst(fds[i])
                \/ FreeSpace(info[i].buffer) = 0

\* What may cost a client its connection, its own doings or the process's end.
Justified(c) ==
  \/ Fin(c) \/ Rst(c)
  \/ \E j \in 1..Len(fds) : fds[j] = c /\ FreeSpace(info[j].buffer) = 0
  \/ pc' = "stopped" /\ sig
  \/ pc' \in {"threw", "sigpipe"} /\ \E d \in Conns : link[d] = "accepted" /\ Rst(d)

\* A client is cut off only because its own peer left, because its own buffer
\* is full, or with the process: by a signal, or by a connection that was
\* reset while a client still used it.  Which element moves where, and which
\* entry of pollfds was ready, decides whose descriptor is closed.
CloseJustified ==
  [][\A c \in Conns : link[c] = "accepted" /\ link'[c] = "closed" => Justified(c)]_vars

-----------------------------------------------------------------------------
(* What the others read.                                                   *)

LineEnd(s) ==
  IF \E j \in 1..Len(s) : s[j] = NL
  THEN CHOOSE j \in 1..Len(s) : s[j] = NL /\ \A m \in 1..(j - 1) : s[m] # NL
  ELSE 0

\* The first line a peer sends is its name, the others are for the room.
OwnName(c) == SubSeq(said[c], 1, LineEnd(said[c]) - 1)
ToRoom(c)  == SubSeq(said[c], LineEnd(said[c]) + 1, Len(said[c]))

\* A message is broadcast under the name the peer it came from has sent.
Attribution == pc = "write" => messages.name = OwnName(fds[i])

\* What is broadcast for a connection is what its peer sent behind its name:
\* in order, nothing lost, doubled or made up, whatever the reads returned.
Integrity ==
  \A c \in Conns :
     /\ Len(relayed[c]) <= Len(ToRoom(c))
     /\ relayed[c] = SubSeq(ToRoom(c), 1, Len(relayed[c]))

\* No whole line is left in a buffer when the server waits in poll: what has
\* been read once wakes it no more, however the reads cut the lines, so each
\* of them takes out all there are, the ones behind a name included.
NoLineWaits ==
  pc = "poll" => \A j \in 1..Len(fds) : FindDelim(info[j].buffer, NL) = 0

\* How far a round has come: entries still to handle, then the stage of the
\* entry at hand, then what is left of the loop of that stage.
Stage ==
  CASE pc = "accept"  -> 5
    [] pc = "signal"  -> 4
    [] pc = "clients" -> 3
    [] pc = "collect" -> 2
    [] pc = "write"   -> 1
    [] OTHER          -> 0
LeftOfStage ==
  CASE pc = "clients" -> Len(fds) - i
    [] pc = "collect" -> info[i].buffer.size
    [] pc = "write"   -> Len(fds) + 1 - k
    [] OTHER          -> 0

NearsEnd ==
  \/ nready' < nready
  \/ nready' = nready /\ Stage' < Stage
  \/ nready' = nready /\ Stage' = Stage /\ LeftOfStage' < LeftOfStage

\* A round of the event loop ends: every step of the server in it ends it or
\* brings its end nearer, and no peer, however much it sends, puts it off.
\* Only a write that blocks can keep a signal from being seen.
RoundsEnd ==
  [][InRound => IF Server
                THEN ~InRound' \/ (NearsEnd /\ LeftOfStage' >= 0)
                ELSE UNCHANGED <<nready, Stage, LeftOfStage>>]_vars

\* A signal that poll has reported ends the loop in that round, if nothing
\* else ends the process: the accept before it does not end the round.
SignalEndsRound ==
  [][InRound /\ "POLLIN" \in pollfds[2].revents => pc' # "poll"]_vars

\* What those who connect see of it: places in the order they came.
Door == INSTANCE Admission WITH
  Guests <- Conns, Places <- MaxClients,
  line   <- backlog,
  seated <- {fds[j] : j \in 1..Len(fds)},
  gone   <- {c \in Conns : link[c] = "closed"},
  open   <- Alive

\* First come, first served, and nobody is turned away while there is a place.
AdmitsInOrder == Door!Spec

\* A connection found reset by a read costs its client and not the server.
ReadSurvivesReset == [][Reading => Alive']_vars

-----------------------------------------------------------------------------
(* Liveness.                                                               *)

\* A pending SIGINT or SIGTERM ends the event loop, however busy its peers
\* keep the server.
SignalEndsLoop == sig ~> ~Alive

\* Nobody waits in the backlog for ever: one accept a round is enough.
QueuedIsServed == \A c \in Conns : link[c] = "queued" ~> link[c] # "queued"

\* The descriptor of a peer that left is given back.
LeaverReleased ==
  \A c \in Conns : (link[c] = "accepted" /\ peer[c] \in {"fin", "rst", "finrst"})
                    ~> link[c] = "closed"

\* Every whole line of an attached peer reaches the room: none is left in a
\* socket or a buffer while the server waits in poll.
EverythingRelayed ==
  \A c \in Conns :
     []<>(\/ ~Alive
          \/ link[c] # "accepted"
          \/ relayed[c] = ToRoom(c))
=============================================================================
