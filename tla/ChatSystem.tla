----------------------------- MODULE ChatSystem -----------------------------
(***************************************************************************)
(* The whole chat, line by line: a ChatServer, a ChatClient for each       *)
(* member, and the two directions of each connection between them.  Both   *)
(* ends write blocking, in their only thread, to sockets that hold some    *)
(* lines.  Nobody leaves, there is a place for every member, and every     *)
(* read ends with a line: what the bytes of a line go through, and who is  *)
(* turned away, is the subject of ChatServer and ChatClient.               *)
(***************************************************************************)
EXTENDS Selection, FiniteSets

CONSTANTS
  Members,  \* the clients
  MaxClients, \* max_clients (62)
  Lines,    \* bound: how many lines the user of each one types
  UpRoom,   \* bound: lines a socket holds for the server before write blocks
  DownRoom  \* bound: lines it holds for a client

ASSUME SystemAssumption ==
  /\ IsFiniteSet(Members) /\ MaxClients \in Nat /\ Cardinality(Members) <= MaxClients
  /\ Lines \in [Members -> Nat]
  /\ UpRoom \in Nat \ {0} /\ DownRoom \in Nat \ {0}

VARIABLES
  cpc,      \* the call each client makes next
  typed,    \* how many lines it has read from stdin
  out,      \* the lines consume_full(client_fd) has left to write
  heard,    \* poll has reported the socket, and it is not read yet
  screen,   \* what it has written to std::cout
  up,       \* lines on their way to the server
  down,     \* lines on their way to the client
  backlog,  \* connections not accepted yet
  spc,      \* the call the server makes next
  clients,  \* clients, by their place in the vector
  ready,    \* the clients of this poll that are not served yet
  message,  \* what respond_to_client writes, each line with its prefix or not
  j,        \* the line of it that write_full writes next
  k,        \* the client it writes to
  log,      \* history: the lines broadcast
  since     \* history: the length of log when a member was accepted

client  == <<cpc, typed, out, heard, screen>>
server  == <<spc, clients, ready, message, j, k>>
history == <<log, since>>
vars    == <<client, up, down, backlog, server, history>>

\* Line 0 is the name.
Line(c, n) == [from |-> c, n |-> n]
Away == -1

\* A read takes some of the lines that wait at a socket: those that have
\* arrived by then and end within the free space of the buffer.
Taking(lines, n)  == SubSeq(lines, 1, n)
Leaving(lines, n) == SubSeq(lines, n + 1, Len(lines))

-----------------------------------------------------------------------------
(* A client.                                                               *)

\* run(): connect, and the name into an empty socket.
Run(c) ==
  /\ cpc[c] = "run"
  /\ backlog' = Append(backlog, c)
  /\ up' = [up EXCEPT ![c] = <<Line(c, 0)>>]
  /\ cpc' = [cpc EXCEPT ![c] = "poll"]
  /\ UNCHANGED <<typed, out, heard, screen, down, server, history>>

\* poll, and the read of as many lines as there are on stdin.
Poll(c) ==
  /\ cpc[c] = "poll"
  /\ \E n \in 0..(Lines[c] - typed[c]) :
       /\ n > 0 \/ down[c] # << >>
       /\ out' = [out EXCEPT ![c] = [m \in 1..n |-> Line(c, typed[c] + m)]]
       /\ typed' = [typed EXCEPT ![c] = @ + n]
       /\ cpc' = [cpc EXCEPT ![c] = IF n > 0 THEN "write" ELSE "read"]
  /\ heard' = [heard EXCEPT ![c] = down[c] # << >>]
  /\ UNCHANGED <<screen, up, down, backlog, server, history>>

\* consume_full(client_fd) blocks while the socket is full.
WriteLine(c) ==
  /\ cpc[c] = "write" /\ Len(up[c]) < UpRoom
  /\ up' = [up EXCEPT ![c] = Append(@, Head(out[c]))]
  /\ out' = [out EXCEPT ![c] = Tail(@)]
  /\ cpc' = [cpc EXCEPT ![c] = IF Len(out[c]) > 1 THEN "write"
                               ELSE IF heard[c] THEN "read" ELSE "poll"]
  /\ UNCHANGED <<typed, heard, screen, down, backlog, server, history>>

\* What the server has sent goes to the screen.
Read(c) ==
  /\ cpc[c] = "read"
  /\ \E n \in 1..Len(down[c]) :
       /\ screen' = [screen EXCEPT ![c] = @ \o Taking(down[c], n)]
       /\ down' = [down EXCEPT ![c] = Leaving(@, n)]
  /\ heard' = [heard EXCEPT ![c] = FALSE]
  /\ cpc' = [cpc EXCEPT ![c] = "poll"]
  /\ UNCHANGED <<typed, out, up, backlog, server, history>>

-----------------------------------------------------------------------------
(* The server.                                                             *)

\* poll, and one accept: the clients to serve are those ready before it.  The
\* connection is never closed for want of a place: all members have one.
ServerPoll ==
  /\ spc = "poll"
  /\ backlog # << >> \/ \E m \in DOMAIN clients : up[clients[m]] # << >>
  /\ ready' = Only(clients, {c \in Members : up[c] # << >>})
  /\ IF backlog = << >>
     THEN UNCHANGED <<clients, backlog, since>>
     ELSE /\ clients' = Append(clients, Head(backlog))
          /\ backlog' = Tail(backlog)
          /\ since' = [since EXCEPT ![Head(backlog)] = Len(log)]
  /\ spc' = IF ready' = << >> THEN "poll" ELSE "read"
  /\ UNCHANGED <<client, up, down, message, j, k, log>>

PrefixBehind(lines, n) == n = Len(lines)

\* "[name]: " stands in front of all that one read has brought.
Prefix(lines, n) == n = 1

Message(lines) ==
  [n \in 1..Len(lines) |-> [line |-> lines[n], prefix |-> Prefix(lines, n)]]

FirstLineOnly(lines) ==
  LET all == Only(lines, [from : Members, n : Nat \ {0}])
  IN  IF all = << >> THEN << >> ELSE << Head(all) >>

\* get_client_name takes the first line of a connection, the rest is for all.
ForTheRoom(lines) == Only(lines, [from : Members, n : Nat \ {0}])

ServedAlone == ready' = Tail(ready) /\ spc' = "poll"

\* The client is dealt with, and so is the round when it was the last one.
Served ==
  /\ ready' = Tail(ready)
  /\ spc' = IF Len(ready) > 1 THEN "read" ELSE "poll"

ServerRead ==
  /\ spc = "read"
  /\ LET c == Head(ready) IN
     \E n \in 1..Len(up[c]) :
       LET lines == ForTheRoom(Taking(up[c], n)) IN
       /\ up' = [up EXCEPT ![c] = Leaving(@, n)]
       /\ log' = log \o lines
       /\ message' = Message(lines)
       /\ IF lines = << >> THEN Served ELSE spc' = "write" /\ UNCHANGED ready
  /\ UNCHANGED <<client, down, backlog, clients, j, k, since>>

WritesToAll(c) == TRUE

WritesTo(c) == c # Head(ready)

\* respond_to_client: write_full to one client after the other, which blocks
\* while the socket is full.
ServerWrite ==
  /\ spc = "write" /\ k <= Len(clients) /\ WritesTo(clients[k])
  /\ LET c == clients[k] IN
     /\ Len(down[c]) < DownRoom
     /\ down' = [down EXCEPT ![c] = Append(@, message[j])]
  /\ IF j < Len(message)
     THEN j' = j + 1 /\ UNCHANGED k
     ELSE j' = 1 /\ k' = k + 1
  /\ UNCHANGED <<client, up, backlog, spc, clients, ready, message, history>>

SkipSender ==
  /\ spc = "write" /\ k <= Len(clients) /\ ~WritesTo(clients[k])
  /\ k' = k + 1
  /\ UNCHANGED <<client, up, down, backlog, spc, clients, ready, message, j, history>>

ServerWriteEnd ==
  /\ spc = "write" /\ k > Len(clients)
  /\ k' = 1 /\ message' = << >>
  /\ Served
  /\ UNCHANGED <<client, up, down, backlog, clients, j, history>>

-----------------------------------------------------------------------------

Init ==
  /\ cpc = [c \in Members |-> "run"]
  /\ typed = [c \in Members |-> 0] /\ heard = [c \in Members |-> FALSE]
  /\ out = [c \in Members |-> << >>] /\ screen = [c \in Members |-> << >>]
  /\ up = [c \in Members |-> << >>] /\ down = [c \in Members |-> << >>]
  /\ backlog = << >> /\ clients = << >> /\ ready = << >> /\ message = << >>
  /\ spc = "poll" /\ j = 1 /\ k = 1
  /\ log = << >>
  /\ since = [c \in Members |-> Away]

Client(c) == Run(c) \/ Poll(c) \/ WriteLine(c) \/ Read(c)
Server    == ServerPoll \/ ServerRead \/ ServerWrite \/ SkipSender \/ ServerWriteEnd

Next == Server \/ \E c \in Members : Client(c)

(***************************************************************************)
(* Every thread goes on when the call it is in can return.  A client that  *)
(* waits in poll with nothing to read may wait for its user for ever, who  *)
(* need not type; Poll is fair because something is there to be read.      *)
(***************************************************************************)
Fairness ==
  /\ WF_vars(Server)
  /\ \A c \in Members : /\ WF_vars(WriteLine(c) \/ Read(c))
                        /\ WF_vars(down[c] # << >> /\ Poll(c))

Spec == Init /\ [][Next]_vars /\ Fairness

-----------------------------------------------------------------------------

AnyLine == [from : Members, n : Nat]
Entry   == [line : AnyLine, prefix : BOOLEAN]

ClientType ==
  /\ cpc \in [Members -> {"run", "poll", "write", "read"}]
  /\ typed \in [Members -> Nat] /\ heard \in [Members -> BOOLEAN]
  /\ out \in [Members -> Seq(AnyLine)] /\ screen \in [Members -> Seq(Entry)]
  /\ \A c \in Members :
       /\ typed[c] <= Lines[c]
       /\ out[c] \in Seq([from : {c}, n : 1..Lines[c]])
       /\ cpc[c] = "write" <=> out[c] # << >>

SocketType ==
  /\ up \in [Members -> Seq(AnyLine)] /\ down \in [Members -> Seq(Entry)]
  /\ \A c \in Members : /\ up[c] \in Seq([from : {c}, n : 0..Lines[c]])
                        /\ Len(up[c]) <= UpRoom /\ Len(down[c]) <= DownRoom
  /\ backlog \in Seq(Members)

ServerType ==
  /\ spc \in {"poll", "read", "write"}
  /\ clients \in Seq(Members) /\ ready \in Seq(Members)
  /\ spc # "poll" <=> ready # << >>
  /\ message \in Seq(Entry) /\ j \in 1..(Len(message) + 1) /\ k \in 1..(Len(clients) + 1)

HistoryType ==
  /\ log \in Seq(AnyLine)
  /\ since \in [Members -> {Away} \cup (0..Len(log))]

\* The variables have their types and no socket holds more than it has room
\* for; a thread in a loop over lines or clients has some left.
TypeOK == ClientType /\ SocketType /\ ServerType /\ HistoryType

\* The chat is a room: all see the same lines in the same order, none of them
\* twice and none of their own, whatever the server broadcasts to whom while
\* members come and talk.
LinesOf(entries) == [n \in 1..Len(entries) |-> entries[n].line]
SeenLines == [c \in Members |-> LinesOf(screen[c])]
RoomOf == INSTANCE ChatRoom WITH screen <- SeenLines
RefinesRoom == RoomOf!Init /\ [][RoomOf!Next]_RoomOf!vars

\* A reader can tell who has said each line on the screen: one without a name
\* follows a line of the same member.
LinesCanBeAttributed ==
  \A c \in Members : \A n \in 1..Len(screen[c]) :
    screen[c][n].prefix \/ (n > 1 /\ screen[c][n - 1].line.from = screen[c][n].line.from)

\* All that the users have typed is on the screen of c, but for what c itself
\* has typed and what was said before it came.
CaughtUp(c) ==
  /\ \A d \in Members : Len(RoomOf!Said(d)) = typed[d]
  /\ SeenLines[c] = RoomOf!Foreign(c)

\* The server writes to a client that writes to the server, and both sockets
\* are full: nobody will read again.
BothWrite ==
  \E c \in Members :
    /\ spc = "write" /\ k <= Len(clients) /\ clients[k] = c /\ Len(down[c]) = DownRoom
    /\ cpc[c] = "write" /\ Len(up[c]) = UpRoom

\* A thread waits in its poll, or in a write to a full socket.
ServerWaits ==
  \/ /\ spc = "poll" /\ backlog = << >>
     /\ \A m \in 1..Len(clients) : up[clients[m]] = << >>
  \/ /\ spc = "write" /\ k <= Len(clients) /\ WritesTo(clients[k])
     /\ Len(down[clients[k]]) = DownRoom

ClientWaits(c) ==
  \/ cpc[c] = "run"
  \/ cpc[c] = "poll"  /\ down[c] = << >>
  \/ cpc[c] = "write" /\ Len(up[c]) = UpRoom

\* When all of them wait, there is nothing left to do: all that was typed is on
\* all the screens, or one client and the server write to each other.  No other
\* ring of full sockets forms, and none of them waits over a line it has.
WaitsOnlyWhenDone ==
  ServerWaits /\ (\A c \in Members : ClientWaits(c))
    => BothWrite \/ \A c \in Members : since[c] = Away \/ CaughtUp(c)

\* Every line gets to every screen, unless server and client block each other:
\* there is no other way for a line to get stuck, in a buffer, behind a poll
\* that does not report it, or with a client that waits for its turn.
CaughtUpUnlessBlocked ==
  \A c \in Members : []<>(since[c] = Away \/ CaughtUp(c) \/ BothWrite)
=============================================================================
