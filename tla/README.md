# tcpchat: a verification development

TLA+ modules, TLC runs and TLAPS proofs for tcpchat, a chat server and client
on `poll`, `signalfd` and blocking TCP sockets. Line numbers are those of the
repository; `PROJECT.json` maps every definition to the lines it models.

## 1. The system

| Component | Source | State | Operations |
|---|---|---|---|
| Chat server | `src/chat_server.cpp`, `include/chat_server.hpp` | `running`, `listenfd`, `signalfd`, `clients` (fd, name, buffer, connected), `address`; in `event_loop`: `pollfds`, `nready`, `i` | `run`, `stop`, `event_loop`, `respond_to_client`, `get_client_name` |
| `protocol::Buffer` | `src/protocol_buffer.cpp` | a 1024 byte array, `size_` | `append`, `increase_size`, `clear`, copies and moves, `consume_once` and `consume_full`, each returning a string or writing to a descriptor |
| Chat client | `src/chat_client.cpp` | `connected`, `client_fd`, `signalfd`, `client_name`, `read_buffer`, `write_buffer` | `set_name`, `run`, `stop`, `event_loop` |
| Read and write wrappers | `src/net_io.cpp`, `src/net_unix.cpp` | none | `write_full`, `read_full`, `read_fd`, `write_fd`, `close_fd` |
| Socket wrappers | `src/net_socket.cpp` | none | one system call each, throwing on errors; `accept_socket` retries |
| Ownership and addresses | `include/net_utils.hpp` | one descriptor; family, address, port | move, `reset`, `release`; `to_sockaddr` |
| Command line | `src/tcpchat.cpp` | none | builds a server or a client and runs its loop |

`CLI11.hpp` is a vendored option parser. The tests under `tests/` run one component at a time.

**How they interact.** Client and server each are one thread around a `poll`
without timeout. A client sends its name and a newline, then the lines of its
stdin; the server takes the first line of a connection for its name and sends
every later one to all other connections, the name in brackets in front.
Nothing is persisted, nothing is retried, there are no timeouts. All
concurrency is between processes, and it is real: peers connect, send, close
and reset, and signals arrive, between a `poll` and the calls that rely on its
answer; the sockets are in blocking mode.

**What is hard, and what makes each component correct.**

- *Server.* `clients` and `pollfds` are indexed with one `i` and both change
  in the middle of the loop; `nready` is decremented at four places; removal
  moves a descriptor between elements. Correct means: the two stay parallel,
  the count stays exact, each descriptor has one owner, what `poll` said is
  still true when it is used, nobody is cut off without reason, each line
  reaches the others whole and under its sender's name, a signal ends the loop,
  and those who wait are served.
- *Buffer.* The array holds old bytes behind the data, and callers write into
  it directly. Correct means: it is a bounded queue of bytes, for all callers.
- *Client.* Two streams, two buffers, three descriptors in one loop. Correct
  means: what is typed reaches the server in order, what the server sends is
  shown, and the loop stops when either end is gone.
- *Wrappers.* The loops of `writen` and `readn` with partial transfers and
  EINTR. Correct means: all bytes once, in order, or an exception.
- *Ownership.* Each descriptor is closed exactly once, through runs that fail
  half-way, exceptions out of the loop and further runs of the same object.
- *The whole.* Two single threads that write to each other without looking.
  Correct means: everybody sees the same lines in the same order, knows who
  said them, and nothing gets stuck.

`PROJECT.json` lists the hazards one by one, each at its line.

## 2. The modules

| Module | What it is |
|---|---|
| `ProtocolBuffer` | the operations of `protocol::Buffer` as operators on a record `[mem, size]`; no state |
| `ProtocolBufferProofs` | lemmas: what each operation does to the data of a buffer |
| `LineBuffer` | buffers as objects: one action per call, one per round of the `consume_full` loops |
| `ByteQueue` | what a buffer promises: a bounded queue from which whole lines are taken |
| `LineBufferProofs` | type correctness of `LineBuffer`, and that it is a `ByteQueue` |
| `MCLineBuffer` | the chunks and delimiters TLC uses |
| `ChatServer` | `event_loop` with everything it calls, its sockets, peers and signals |
| `Admission` | what the server promises those who connect: places in the order of arrival |
| `MCChatServer` | what peers send at once |
| `ChatServerProofs` | the theorems about `ChatServer`: types, a round of the loop, its count and its end, and that it is an `Admission` |
| `ChatServerRelayProofs` | the theorems about what the others hear of a peer, and what is left unheard |
| `ServerLife` | a server object through `run`, `event_loop`, `stop` and its end, with the numbers of its descriptors |
| `ServerLifeProofs` | its theorems |
| `ChatClient` | construction, `std::cin >> name`, `run`, `event_loop` and `stop` of a client, with its stdin, its server and signals |
| `ChatClientProofs` | its theorems: types, streams, sessions, reads, lines left |
| `MCChatClient` | what is typed and told at once, and a host |
| `NetIO` | a call of a write wrapper at one end of a stream and of a read wrapper at the other |
| `NetIOProofs` | its theorems |
| `Selection` | the elements of a sequence that are in a set |
| `ChatRoom` | what the chat is for its users: one log of lines, and what each member has seen of it |
| `ChatSystem` | the server with its clients over bounded sockets, line by line |
| `ChatSystemProofs` | its theorems: types, attribution, when all wait, and that it is a `ChatRoom` |
| `MCChatSystem` | who talks |

The modules cut the program at three grains. `ChatServer`, `ChatClient`,
`LineBuffer` and `NetIO` follow bytes; `ChatSystem` follows lines and composes
the two loops; `ServerLife` follows descriptors through the whole life of an
object, of which `ChatServer` is one call of `event_loop`.

### ChatServer

Each system call of the thread is a step, so everything outside can happen
between two of them; what runs between two calls is one step with the call
before it. `pc` names the next call:

| `pc` | Code | Actions |
|---|---|---|
| `poll` | 84-98 | `Poll` |
| `accept` | 100-113 | `Accept` (with `Admit` or `Reject`), `NoAccept` |
| `signal` | 115-124, 64-71 | `Signal` (with `stop()`), `NoSignal` |
| `clients` | 126-185 | `PassClient`, `RemoveFailed`, `ReadEnd`, `ReadFails`, `ReadData` (with `get_client_name`) |
| `collect` | 231-233 | `CollectLine`, `CollectEnd` |
| `write` | 235-242 | `SkipSender`, `WriteClient`, `WriteFails`, `WriteEnd` |
| `stopped`, `threw`, `sigpipe` | | the loop was left, or the process ended |

Every `continue` and `break` on `--nready <= 0` is `Handled`, which starts the
next round in the same step. A removal is one operator, `Remove`, as the code
has it three times. The branch for ECONNRESET (149-159) has no action: `read_fd`
throws on every error, so the branch cannot be reached, and `ReadFails` stands
for what happens instead.

`std::vector<ClientInfo>` is split in two. `clients[i].fd =
std::move(clients.back().fd)` moves the descriptor and nothing else, so `fds`
is the sequence of the descriptors and `info` is the rest of each element, by
its place in memory. The constructor reserves the memory (line 23), so nothing
is reallocated and a new element finds the bytes of an earlier one: `Admit`
keeps the array of the buffer. Memory nobody wrote is `Unset`; when a read
makes such a byte part of the data, it becomes an arbitrary byte that is or is
not a newline (`ReadData`, `unknown`).

What is abstracted: a byte is a newline or a byte that names its sender
(`NL`, a member of `Conns`), which is what the properties tell apart; the
prefix of a message is the name in the record `messages`; what a peer has
not read is counted in messages (`unread`); a descriptor is the connection it
belongs to. `POLLERR` also stands for `POLLHUP` and `POLLNVAL`, which share
their branch. `poll` is not interrupted: both signals are blocked.

The peers (`Connect`, `Send`, `Receive`, `Close`, `Reset`, `ResetAnswer`) and
the kernel (`Revents`, `Pending`, `Fin`, `Rst`) are modelled from how the code
uses them: a reset may discard bytes the server has not read; a peer that
closes with unread data resets; what is written to a closed socket is answered
by a reset; writing after that raises SIGPIPE, which ends the process.

`Admission` has a queue of arrivals and a set of places, and no descriptors, no
rounds and no lines: someone arrives, the first of the queue gets a place or is
refused, which happens only when all places are taken, and one who has a place
leaves it. `Door` maps `backlog` and `fds` onto it.

### ServerLife

An object is what holds a descriptor: the members of the server, an element of
`clients` (by its place), `temp_socket` of `run()`, and the temporary of
`signalfd = ScopedFileDescriptor {fd}` and of `push_back`. `fd` is the `fd_` of
each, `kind` what each number stands for, and the kernel gives the lowest number
that is free (`Lowest`), so that a descriptor closed twice or too late is
another's. `Reset`, `Own`, `Move` and `MoveAssign` are the operations of
`ScopedFileDescriptor`; the actions are compositions of them in the order of
the code. `run()` is one step for each system call, and each of them can fail
(`SetupFails`); the loop can be left by an exception (`LoopFails`), which leaves
`running` set and the clients connected. `Signal` is the read of one signal
with `stop()`; both signals stay blocked after it, and one that was not read
waits for the next loop. Before the first `run()` a signal ends the process.
What the clients say is left out, and so is the order of events within a round.

### ChatClient

The same steps as in `ChatServer` for the other end. `pc` names the next call:

| `pc` | Code | Actions |
|---|---|---|
| `cin` | tcpchat.cpp 41-45 | `TakeName` |
| `idle` | without a connection | `Run` (42-59), `NoServer`, `Misuse` (72) |
| `name` | 61-69 | `SendName`, `WriteFails` |
| `connected` | behind `run()` | `EventLoopCall` (71-82), `StopCall` (135-140), `Misuse` (43) |
| `poll` | 83-89 | `Poll` |
| `stdin` | 91-102 | `NoStdin`, `StdinRead`, `StdinEnd` |
| `write` | 105 | `WriteLine`, `WriteEnd`, `WriteFails` |
| `socket` | 108-113 | `NoSocket`, `SocketRead`, `SocketFails` |
| `collect` | 115-119 | `CollectLine`, `CollectEnd` |
| `signal` | 121-130 | `NoSignal`, `Signal` |
| `threw`, `sigpipe` | | the process ended |

`main()` calls `event_loop()` right behind `run()`. The class allows more, and the
tests use it: `stop()` of an object that is connected and not in its loop, and
`run()` or `event_loop()` at the wrong time, which throw (`Misuse`). An exception
or SIGPIPE ends the process, as `main` handles neither; `stop()` leads back to
`idle`, and the object may be run again with the buffers as they are. Both
signals are blocked from the first `run()` on (`SignalsBlocked`) and stay so
behind `stop()`; before it they end the process. `polled` is the answer of
`poll`, an entry dropped once it was looked at. A descriptor is readable in
`polled` when `poll` sets POLLIN: for a socket also when it was closed or reset,
for the end of a terminal, not for the end of a pipe (`stdin`). `typed`, `told`,
`uttered`, `received` and `shown` are the streams at either end, at the level of
bytes. `typed` is every byte of the user, `taken` how many of them are read, by
`std::cin` or by `read`; `named` is where the line with the name ends, and `lost`
counts what the stream buffer of `std::cin` has taken behind it, which `read` on
the descriptor never sees: nothing on a terminal, all that is there on a pipe. A
word is a line that is not empty: there are no blanks in the alphabet.

`address` is `ip_address` by its bytes in memory: zeros when the object is made
as `main()` does, the bytes of the host in their order (`Pton`) when it is made
from an address. `ToSockaddr` is `htonl` of an integer on a machine where the
lowest byte comes first: it reverses them.

### NetIO

Each `read` and `write` moves any part of what it is asked for, fails, or is
interrupted before it has moved any. Byte n of the data is the number n, so the
stream and the reader's memory show where each byte has come from and gone to.
`write_full` and `read_full` retry, `write_fd` and `read_fd` do not.

### ChatSystem and ChatRoom

A line is `[from, n]`, line 0 the name. `up` and `down` are the two directions
of each connection, with room for `UpRoom` and `DownRoom` lines; a write waits
for room, at either end, in the only thread there is. A read, at either end,
takes any number of the lines that wait, from the front (`Taking`): it comes when
some of them have arrived, and has no more room than its buffer, 1024 bytes. The
client is `Run`,
`Poll` (with the read of stdin, which is there in full or not), `WriteLine` and
`Read`; the server is `ServerPoll` (with its one accept), `ServerRead` (with
`get_client_name` and the collection of the lines) and `ServerWrite` to one
client after the other. A message carries the sender's name in front of its
first line only (235), so every line has a mark whether it has a prefix.
The environment is that of `server_whole_lines`: nobody leaves, every read ends
with a line, and no signal comes; and there are no more members than
`max_clients`, so that the close of a connection at the limit (104-105), which is
`Reject` of `ChatServer`, has no step here.

`ChatRoom` has a log, the place in it where each member came, and the screens.
The refinement takes the history variables `log` and `since`, and each screen
without the prefixes. `Post` of the room is the server's read, the one point
where the order of lines is decided.

### LineBuffer and ByteQueue

`mem` is the whole array, so a copy takes `size_` bytes into memory that holds
others, `compact` leaves bytes behind the data, and `append` overwrites them.
`consume_full` is one action per round of its loop. In the forms that write
to a descriptor `write_full` may throw after any part of the line;
then the line stays. The refinement to `ByteQueue` maps a buffer to its data,
and, while `consume_full` collects, to what it has collected and the data:
so the abstract step is the end of the call.

## 3. The runs

| Run | Instance | Shows |
|---|---|---|
| `server_rounds` | 3 peers, 2 places, buffer of 1, bytes one by one | `TypeOK`, `PollfdsParallel`, `ReadyCountExact`, `FdOwnership`, `OnlyPollAndWriteBlock`, `CloseJustified` through accepts, rejections and removals in one round, over buffers that fill and over inherited and unwritten memory; `RoundsEnd`, `SignalEndsRound`: every step brings a round nearer to its end, and a reported signal ends it; `AdmitsInOrder` (refinement) |
| `server_whole_lines` | 2 peers that stay, lines that arrive whole | `Attribution`, `Integrity`, `NoLineWaits`, `EverythingRelayed`: in this environment the server works as meant |
| `server_liveness` | 2 peers, one may leave | `SignalEndsLoop`, `QueuedIsServed`, `LeaverReleased` |
| `server_life` | 3 places, 6 numbers | `TypeOK`, `OwnedOnce`, `RunsOrHoldsNoDescriptor` over any order of calls and failures |
| `buffer` | 2 buffers of 3 bytes, 2 delimiters | `TypeOK`, `IsAQueue` (refinement), `CallsReturn` |
| `client` | 2 sessions on a terminal and on a pipe, buffers of 2, bytes one by one | `TypeOK`, `SentIsTyped`, `ShownIsReceived`, `SessionIsLines`, `ReadsReady`, `NoLineWaits`; and `SessionEnds` (`SignalStops`, `EofStops`) and `LinesGetThrough` (`TypedIsSent`, `ToldIsShown`), also with the server gone and its socket readable for ever |
| `net_io` | 5 bytes through a stream of 3 into 4 | `TypeOK`, `WritesAllOnce`, `ReadsInPlace`, `CallsEnd` |
| `chat_system` | 3 clients, 2 of them talk | `TypeOK`, `LinesCanBeAttributed`, `WaitsOnlyWhenDone`, `RefinesRoom` (refinement), `CaughtUpUnlessBlocked` |

Four runs expect a violation; each shows where the program and what is said of
it disagree.

| Run | Property | What happens |
|---|---|---|
| `server_inherited_name` | `Attribution` | a client leaves, the last one is moved into its element and speaks under its name (163; test_chat_server.cpp:290 shows what is meant) |
| `server_split_line` | `Integrity` | a line arrives in two parts; the second is read over the first (146; README.md:25) |
| `server_reset` | `ReadSurvivesReset` | a reset between `poll` and `read` throws out of the loop; the branch for it is dead (149-157, net_unix.cpp:18; comment 150). The dead branch is certain; the trace needs a kernel that discards queued data with a reset, which Linux does not: it hands the data out, and the next `poll` has POLLERR |
| `client_host` | `ReachesHost` | `--host` is parsed and not used; the client connects to the local host (tcpchat.cpp:39; tcpchat.cpp:21) |

What the models show beside these, without a run of its own:

- A line that fills a buffer makes `read` return 0: the server removes a client
  that is still connected (147, 162) and the client stops as at the end of
  stdin (95, 97); `ReadEnd` and `StdinEnd` have both reasons in their guards.
- A line of the server that does not fit `read_buffer` stops the client from
  ever showing anything again (112). The server puts a name in front of lines
  of up to a full buffer, so such lines exist. `ToldIsShown` excepts this state
  by name, `LineTooLong`.
- With a pipe for stdin the end of it is never noticed: Linux reports it with
  POLLHUP alone, the loop looks for POLLIN (92), and `poll` returns at once for
  ever. `EofStops` is about a terminal. And `std::cin` takes more of a pipe than
  the name (tcpchat.cpp:43): those lines are typed, are never sent, and the
  session goes on. `SentIsTyped` and `TypedIsSent` say of a pipe only that what
  comes behind them is sent (`Meant`).
- A peer that does not read blocks `write_full` (239), and with it every other
  client and the signalfd. `SignalEndsLoop` holds under `PeersRead` and not
  without it.
- A client that writes while the server writes to it can block with it for
  ever: `BothWrite` of `ChatSystem` is reachable. `WaitsOnlyWhenDone` shows that
  there is no other way for all to wait while a line is under way, and
  `CaughtUpUnlessBlocked` that there is none for a line to get stuck.
- An object made from an address connects to its bytes in reverse (`ToSockaddr`
  of `Pton`): with `Constructors = {"address"}` `ReachesHost` is violated too.
  The program never makes one.
- SIGINT and SIGTERM stay blocked after `stop()`; the second of two ends the
  next loop of the object at once, or is never seen. They also stay blocked when
  `signalfd` fails in `run()` (217, 222-225), although the object does not run:
  then nobody reads them and Ctrl-C does nothing. `RunsOrHoldsNoDescriptor`
  speaks of the descriptors and not of the mask.
- `CloseJustified` admits what the code does to a client with a full buffer, and
  the end of the process in the middle of a broadcast, when some of the others
  have the message.

Some operators stand next to the one they are a faulty form of
(`RemoveLastEntry` before `Remove`, `CompactWithoutMove` before `Compact`).
No specification uses them. Each is a mistake a change to the code could make,
and with it in place of the original the run that checks the property it is
paired with in `PROJECT.json` finds a violation.

**Bounds.** `MaxBytes` bounds what a peer sends, `Conns` how often peers
connect; nothing else of `ChatServer` is bounded (`MaxUnread` is the size of a
socket buffer, reached by one unread message; `Cap` and `MaxClients` are
parameters of the program). Two clients suffice for a removal that moves another
client and for a broadcast; a third connection is needed for a rejection and for
an accept in the round of a removal. In `server_rounds` a byte fills the buffer,
so that it is found full and inherited with old bytes in it at once; four bytes
are a name and a message of one whole line each. The two peers of
`server_rounds` that stay are exchanged by symmetry: it has no liveness
property, and nothing tells connections apart but `Leavers`. For the client `MaxTyped`,
`MaxTold` and `MaxRuns` bound the streams and the sessions: two sessions are
enough for one to find what the other left. Besides the line with a name of one
byte a terminal gives three bytes, enough for a full `write_buffer` and a line
that is split, and a pipe two: one that `std::cin` loses and one that is sent, or
two that are. `server_life` has a number for each
descriptor a full server and one more connection need; nothing is counted, so
the calls, failures and signals go on for ever. `net_io` bounds the interrupts;
its sizes make both the stream and the reader's memory run full in the middle of
a write. In `chat_system` `Lines` bounds what users type: two lines each make a
batch of two, whose second line has no prefix, and fill both directions of a
connection, so that `BothWrite` is reached.

Deadlock is checked for `buffer` only. A peer, user or caller need not do
anything, a process may have ended, and a server blocked on a slow reader is
what the code comes to.

**Fairness.** `ServerRuns` is weak fairness of the thread's next step: the
scheduler runs it when its call can return. A call that blocks is a disabled
step. `PeersRead` adds that each peer eventually reads what is in its socket,
and that its kernel answers data for a closed socket; no peer has to send,
leave or connect. `FairSpec` of `ChatClient` likewise assumes the client's
thread, which calls `event_loop()` behind `run()` unless `stop()` comes first, and
a server that reads while it is there; `run()`, `stop()` and wrong calls are the
caller's choice. Each liveness property of the
server holds because one accept, the signal and every ready client are what a
round of the loop deals with. `CallsReturn` assumes that a call on a buffer
proceeds. `Fairness` of `ChatSystem` is that of each thread by itself: no socket
is emptied but by the thread that reads it, and a client in `poll` is woken only
by what the server has sent, since its user need not type. `FairSpec` of `NetIO`
assumes both callers, and that each end is closed some time after its call, as
its owner's destructor does; a write to a closed stream fails.

## 4. The proofs

The proofs hold for all values of the constants under the assumptions of each
module: `ServerAssumption` (positive limits, and names of connections distinct
from those of the two descriptors and the marker bytes), `LifeAssumption`
(descriptors are natural numbers, a positive limit), `NetIOAssumption` (sizes
are natural numbers, some room), `CapAssumption` and `TextAssumption` of a
buffer (some room, and marker bytes that are no text), `CallerAssumption` and
`ClientAssumption` (the inputs are sequences of bytes, the bounds natural
numbers) and `SystemAssumption` (natural numbers of lines, room for one line in
each direction, and no more members than `max_clients`).

`ChatServerProofs`: **`TypeCorrect`**, `Spec => []TypeOK`. `TypeOK` is not
inductive. `TypeInv` adds that the client being served exists while its lines
are collected and written (`InLoop`), and that what `poll` reported of the
listening socket is still in the backlog (`Backed`), without which `Accept`
would take the head of an empty sequence. The lemmas state what a swap-and-pop,
a store, a compaction and a consumed chunk return.

For the rounds of the loop, `RoundInv` adds to `TypeInv`

- `Fresh`: a peer that has not connected has no socket here;
- `Owners`: `fds` lists the accepted connections, `backlog` the queued ones,
  each exactly once (`Lists`, with a lemma each for append, tail and
  swap-and-pop);
- `PollfdsParallel`;
- `Reported`: what `poll` said of every client the loop has not come to yet
  still holds. This is inductive because peers only add data or end the
  connection, because a read takes bytes of its own client only (this needs
  `Owners`), and because a swapped entry moves with its client (this needs
  `PollfdsParallel`);

and proves from this one invariant, `RoundInv`:

- **`RoundsStayParallel`**, `Spec => []PollfdsParallel`;
- **`DescriptorsHaveOneOwner`**, `Spec => []FdOwnership`;
- **`NeverBlocksOutsidePollAndWrite`**, `Spec => []OnlyPollAndWriteBlock`;
- **`ClosesAreJustified`**, `Spec => CloseJustified`, an action property.

The count has an invariant of its own, `CountInv`. `ReadyCountExact` (here
`Counted`, in terms of any table and any place in it) is not inductive: it needs
that the loop starts with the first client (`StartsAtFirst`), that `accept` and `read` of a signal are
tried for an event that is POLLIN (`OnlyPollin`: with any other the code would
pass over the entry and keep the count), and that the client whose message is
handled was a ready one (`HandlesReady`). Five lemmas count: passing an idle
entry, a ready one, appending an idle entry, and replacing a ready one by the
last, which may itself be ready. Then

- **`CountIsExact`**, `Spec => []ReadyCountExact`;
- **`LoopEndsInTime`**, that `clients[i]` exists whenever the loop over the
  clients is at `i`: it is the count that ends that loop in time.

Two more theorems are what the liveness of the server rests on. They say of the
steps what fairness then turns into `SignalEndsLoop` and `QueuedIsServed`:

- **`EveryRoundEnds`**, `Spec => RoundsEnd`. The measure is lexicographic: the
  ready entries still to handle (`nready`), the part of the loop they are in
  (`Stage`), and what is left of that part (`LeftOfStage`: clients, bytes, or
  writes). A removal must bring it down although it leaves `i` as it is, and a
  collected line although it leads back to `collect`; nothing a peer does may
  raise it;
- **`SignalsAreSeen`**, `Spec => SignalEndsRound`. `SignalInv` adds to
  `CountInv` that behind the step of the signalfd none is reported any more
  (`NoSignalBehind`); and while one is reported together with a connection, two
  events are ahead (the lemma `TwoAhead`), so that the accept in front does not
  end the round.

**`ServerAdmitsInOrder`**, `Spec => AdmitsInOrder`, is the refinement of
`Admission` under `Door`: every step is a step of the abstract door or leaves
it. It needs of `RoundInv` that each connection is listed once (`Owners`), so
that a swap-and-pop takes exactly one place, its owner's (`Seated`), and that
there are as many places taken as there are elements (`DoorCounts`), so that a
refusal by `clients.size()` is one with all places taken.

`ChatServerRelayProofs`: **`LinesAreAttributed`** and **`LinesReachTheRoom`**,
`Spec /\ [][LinesArriveWhole]_vars => []Attribution` and `=> []Integrity`. Of the
program alone they are false, as `server_inherited_name` and `server_split_line`
show; `LinesArriveWhole` says of a step what those runs break: a read ends where
a line ends (`WholeReads`), and a removal moves no client to another element
(`InPlace`: the last one may leave). Nothing else is assumed: peers come, leave
and are reset, lines come in any number and are read one or several at once.
`RelayInv` adds to `RoundInv`

- `HeardIsSaid`: the name and its newline, what was broadcast, what is collected
  and what the buffer holds, put together (`Heard`), are what the client sent, as
  far as the server has read it. A read adds to its end and nothing else changes
  it: the steps of `consume_full` and the broadcast only move bytes within;
- `NameIsLine`: a name has no newline in it and comes before all else, so that
  the split of `Heard` is the one at the first newline (`NameAndRest`);
- `Emptied`: between two reads a buffer is empty. This is what the read at
  `data()` relies on, and where a line that arrives in two parts goes wrong;
- `Handling`, of the client whose lines are being collected or written, and
  `Unheard` and `Gone`, of the connections that are not yet, or no longer,
  accepted. A reset may discard what was not read (`Drained`): then what was
  heard is still a front of what was said.

**`ConsideratePeersAreHeard`** derives both, without a condition on the steps,
for peers that stay, write whole lines that arrive as they were written, and
write no more than a buffer holds, which is the environment of
`server_whole_lines`: every step such peers allow is one in which lines arrive
whole (`PeersStayWhole`).

**`NoLineIsLeft`**, `Spec => []NoLineWaits`, has no condition on the peers: a
client whose read came in parts may be heard wrong, but no whole line stays in
its buffer when the server goes back to `poll`, where only that client's next
read would find it. `LinesInv` adds to `TypeInv` the part `LinesTaken`: a
delimiter is in no buffer but that of the client being collected, the buffers
behind the last client included, which later ones inherit. A read leads to
`collect` whenever it leaves a delimiter, and `collect` ends without one; that a buffer without a delimiter has no line is `NoDataNoLine` and
`FindDelimIs`. With the fairness of the thread this is the safety of
`EverythingRelayed`.

`ProtocolBufferProofs` has no state. Its lemmas say of each operation what it
makes of `Contents`, the data of a buffer, whatever else the array holds:
`AppendContents`, `FindDelimIs`, `ConsumeContents`, `ClearContents`,
`CopyContents`; `ChunkOut` puts together what a consumed chunk and the rest are.
The proofs about the server, the objects and the client rest on them.

`LineBufferProofs`: **`BufferTypeCorrect`**, `Spec => []TypeOK`, and
**`ArrayIsAQueue`**, `Spec => IsAQueue`: the array with its copies, compactions
and old bytes is a queue. Its invariant `QueueInv` adds `WholeChunks`: what
`consume_full` has collected so far ends with the delimiter. Without it the end
of the call could not be shown to be the abstract step, which takes all whole
chunks at once: what was collected and what is left must split where the last
delimiter is (`LinesAreLast`).

`ChatClientProofs`, for every user and server, any number of sessions:

- **`ClientTypeCorrect`**, `Spec => []TypeOK`, from `ClientType`, with the fact
  that nothing is read before the loop and that both buffers hold bytes a read
  has put there (`Stored`). The proof showed that a bound the module once stated
  for `lost` is false for a `MaxName` above 1; `lost` is a natural number now;
- **`WhatIsSentWasTyped`** and **`WhatIsShownWasReceived`**, the two stream
  invariants, the first with the exception of what `std::cin` took off a pipe; one
  step moves a line from a buffer to the stream behind it, and
  the concatenation of the two stays (`LineMoves`, `ReadAdds`);
- **`EverySessionIsLines`**, `Spec => []SessionIsLines`, from `Sessions`, which
  adds that the loop is entered with the name sent: the property says nothing of
  a session that has sent nothing;
- **`ReadsAreReady`**, `Spec => []ReadsReady`, from `Polled`: what `poll` said of
  each descriptor is still true when the loop comes to it, and nothing of it is
  left when the object runs again;
- **`NoLineIsLeftWaiting`**, `Spec => []NoLineWaits`: no whole line is in either
  buffer of a client that waits in `poll`, has not yet called `event_loop()`, or
  has no session. `LinesOut` says
  where in the loop there can be one: while lines are written or collected, and
  after a write that threw. It is the safety of `TypedIsSent` and `ToldIsShown`.

`ChatSystemProofs`, for any set of up to `max_clients` members, any number of
lines, sockets of any size, and reads that end with any of the lines that wait:

- **`SystemTypeCorrect`**, `Spec => []TypeOK`, from `SystemType`, with
  `Writing`: a message exists exactly while it is written, and the server is in
  the middle of it only with a client that is to get it;
- **`WhoSaidWhatIsKnown`**, `Spec => []LinesCanBeAttributed`. The property is
  about screens; the invariant `Attribution` is about all that has got to a
  client, the socket included (`Got`), and needs that a message is of one member
  with the name in front (`NameInFront`), and that a client in the middle of one
  has got the line before last (`InTheMiddle`): nobody else writes to it;
- **`ChatIsARoom`**, `Spec => RefinesRoom`: every step is a step of the room or
  changes nothing in it. `ServerPoll` with a connection is `Join`, `ServerRead`
  of lines is `Post`, `Read` of a client is `See`, and all else stutters. The
  invariant behind it is `SystemInv`: a member is in one place (`Places`); what
  it has said, what is in its socket and what it is yet to write are the lines
  it typed, in order (`Saying`), so that what the server posts next is what the
  room expects; and what a member has seen, what is in its socket and what the
  server is still to write to it are the lines of the others since it came
  (`Delivered`), so that what it sees next is next in the log;
- **`NothingElseBlocks`**, `Spec => []WaitsOnlyWhenDone`: when the server and
  all clients wait, a client and the server wait in writes to each other, or all
  that was typed is on every screen. To `SystemInv` it adds `Queued`, that one
  who waits to be accepted is in the backlog, where `poll` sees it. A server that
  waits in a write has filled the socket of a client, which then does not wait in
  its `poll`; with everyone in `poll` all sockets are empty (`AllInPoll`), and
  `Saying` and `Delivered` say what is on the screens then (`AllIsSeen`).

`Only`, which selects from a sequence, is recursive, and its lemmas need
induction over the length. They use it in the form of the least counterexample:
of the lengths that fail, one has no smaller one (`Induction`, from the
well-foundedness of the finite subsets of `Nat`).

`ServerLifeProofs` proves three theorems from `LifeInv`, which adds to `TypeOK`

- `Holdings`: an open number is held by one object or by `connfd`, and a held
  number is open (`Sound`, which is stated of any state of the descriptors, so
  that it can be followed through the moves within a step);
- `Temporaries`: `temp_socket` holds a socket exactly between its creation in
  `run()` and its move, `connfd` a connection exactly after `accept_socket`.
  Without it `Start` could lose a descriptor and `SetupFails` keep one;
- `MembersFit`: which kind of number each member holds while the server runs,
  and that none holds any while it does not.

- **`LifeTypeCorrect`**, `Spec => []TypeOK`, `max_clients` among it;
- **`DescriptorsOwnedOnce`**, `Spec => []OwnedOnce`;
- **`RunsOrNoDescriptor`**, `Spec => []RunsOrHoldsNoDescriptor`.

The lemmas say what each operation of `ScopedFileDescriptor` returns and that it
keeps `Sound`; the chain of operations in an action is proved by citing the
lemma of each link.

`NetIOProofs`: **`IOTypeCorrect`**, **`WritesEverythingOnce`** and
**`ReadsStayInPlace`** follow from `IOInv`, whose part `Loops` ties `ptr` and
`nleft` to the length of the stream, and `rptr` and `rleft` to what was taken of
it: this is what a retry relies on.

Only model-checked: the liveness properties, which are out of the prover's
reach, as is ENABLED: `SignalEndsLoop`, `QueuedIsServed`, `LeaverReleased`,
`EverythingRelayed`, `CallsReturn`, `SessionEnds`, `LinesGetThrough`, `CallsEnd`
and `CaughtUpUnlessBlocked`. Their safety core is proved where it says something:
`EveryRoundEnds` and `SignalsAreSeen` for the first two, `NoLineIsLeft` and
`NoLineIsLeftWaiting` for the lines, `NothingElseBlocks` for the whole. Every
invariant, action property and refinement of a
passing run has a theorem, `Attribution` and `Integrity` of `ChatServer` one
with the environment in its hypothesis.

## 5. What is not modelled, and what is left

Not modelled:

- CLI11, the vendored parser of the options, and with it the port;
- the text of messages and errors, `endpoint()`, the getters, and
  `release()`, `valid()`, `poll_socket` and `is_valid_ip4`, which only the tests
  call and which change nothing else;
- the retry of `accept_socket` after ECONNABORTED, which is part of its one
  step: no other call comes between, and the socket has the next connection or
  the call blocks;
- a `close(2)` that fails, and running out of descriptors other than as an
  exception of the call that needed one;
- an exception that is caught in the client's program: `main()` catches none.
  A caught one would find the signalfd of a failed `run()` still open (63).

Left to prove: that `ChatSystem` abstracts a `ChatServer` and its clients. The
two modules meet in the assumption of `chat_system`, that lines arrive whole, and
in what `LinesReachTheRoom` and `WhatIsSentWasTyped` say of the two ends; no
refinement maps one onto the other.
