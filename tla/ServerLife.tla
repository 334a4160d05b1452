----------------------------- MODULE ServerLife -----------------------------
(***************************************************************************)
(* The life of a chat::ChatServer and of the descriptors it owns: run(),   *)
(* event_loop(), stop() and the destructor, called in any order by a       *)
(* program that may catch their exceptions, with system calls that fail    *)
(* (src/src/chat_server.cpp, src/include/net_utils.hpp).                   *)
(*                                                                         *)
(* A descriptor is the number the kernel gives: the lowest that is free,   *)
(* so that a number closed too often or too late is soon another's.  What  *)
(* the loop does with its clients is reduced to the descriptors that come  *)
(* and go; the order of it is the subject of ChatServer.                   *)
(***************************************************************************)
EXTENDS Integers

CONSTANTS
  Fds,        \* the numbers open to the process
  MaxClients  \* max_clients (62)

ASSUME LifeAssumption == Fds \subseteq Nat /\ MaxClients \in Nat \ {0}

VARIABLES
  pc,       \* the system call run() makes next, or where the caller is
  running,
  fd,       \* fd_ of every ScopedFileDescriptor
  size,     \* clients.size()
  connfd,   \* the result of accept_socket, not owned by an object yet
  kind,     \* what each number stands for
  blocked,  \* SIGINT and SIGTERM are blocked
  pending,  \* those sent and not taken
  result    \* how the last call ended

objects == <<fd, size, connfd, kind>>
signals == <<blocked, pending>>
vars    == <<pc, running, objects, signals, result>>

\* The objects: the elements of clients by their place, the others below 1.
listenfd    == 0
signalfd    == -1
temp_socket == -2
temporary   == -3
Slots   == 1..MaxClients
Members == {listenfd, signalfd} \cup Slots
Locals  == {temp_socket, temporary}
Objects == Members \cup Locals
None    == -1
Signals == {"SIGINT", "SIGTERM"}

-----------------------------------------------------------------------------
(* net::ScopedFileDescriptor, on what objects hold and what numbers mean.  *)

Now       == [fd |-> fd, kind |-> kind]
Become(s) == fd' = s.fd /\ kind' = s.kind

\* reset() and the destructor of the objects of a set.
Reset(s, os) ==
  [fd   |-> [o \in Objects |-> IF o \in os THEN None ELSE s.fd[o]],
   kind |-> [n \in Fds |-> IF \E o \in os : s.fd[o] = n THEN "free" ELSE s.kind[n]]]

\* The constructor from a number.
Own(s, o, n) == [s EXCEPT !.fd = [@ EXCEPT ![o] = n]]

\* The move constructor.
Move(s, to, from) == [s EXCEPT !.fd = [@ EXCEPT ![to] = s.fd[from], ![from] = None]]

MoveAssignNoReset(s, to, from) == IF to = from THEN s ELSE Move(s, to, from)

MoveAssign(s, to, from) ==
  IF to = from THEN s ELSE Move(Reset(s, {to}), to, from)

\* The kernel hands out n.
Lowest(n) == kind[n] = "free" /\ \A m \in Fds : kind[m] = "free" => n <= m
Opened(s, n, what) == [s EXCEPT !.kind = [@ EXCEPT ![n] = what]]

-----------------------------------------------------------------------------
(* run()                                                                   *)

Setup == {"socket", "setsockopt", "bind", "listen", "sigprocmask", "signalfd"}

RunCall ==
  /\ pc = "idle"
  /\ IF running
     THEN result' = "logic_error" /\ UNCHANGED pc
     ELSE pc' = "socket" /\ UNCHANGED result
  /\ UNCHANGED <<running, objects, signals>>

Socket ==
  /\ pc = "socket"
  /\ \E n \in Fds : Lowest(n) /\ Become(Own(Opened(Now, n, "socket"), temp_socket, n))
  /\ pc' = "setsockopt"
  /\ UNCHANGED <<running, size, connfd, signals, result>>

Configure ==
  /\ \/ pc = "setsockopt" /\ pc' = "bind" /\ UNCHANGED <<kind, blocked>>
     \/ pc = "bind" /\ pc' = "listen" /\ UNCHANGED <<kind, blocked>>
     \/ /\ pc = "listen" /\ pc' = "sigprocmask" /\ UNCHANGED blocked
        /\ kind' = [kind EXCEPT ![fd[temp_socket]] = "listening"]
     \/ pc = "sigprocmask" /\ pc' = "signalfd" /\ blocked' = TRUE /\ UNCHANGED kind
  /\ UNCHANGED <<running, fd, size, connfd, pending, result>>

\* signalfd, the end of setup_signal_fd(), and the end of run().
Start ==
  /\ pc = "signalfd"
  /\ \E n \in Fds :
       /\ Lowest(n)
       /\ LET made  == Own(Opened(Now, n, "signalfd"), temporary, n)
              given == MoveAssign(made, signalfd, temporary)
          IN  Become(MoveAssign(given, listenfd, temp_socket))
  /\ running' = TRUE
  /\ pc' = "idle" /\ result' = "ok"
  /\ UNCHANGED <<size, connfd, signals>>

\* A call fails: the exception destroys temp_socket and leaves run().  Behind
\* sigprocmask the signals stay blocked, with no signalfd to read them.
SetupFails ==
  /\ pc \in Setup
  /\ Become(Reset(Now, {temp_socket}))
  /\ pc' = "idle" /\ result' = "system_error"
  /\ UNCHANGED <<running, size, connfd, signals>>

-----------------------------------------------------------------------------
(* event_loop(), stop() and the destructor                                 *)

EventLoopCall ==
  /\ pc = "idle"
  /\ IF running
     THEN pc' = "loop" /\ UNCHANGED result
     ELSE result' = "logic_error" /\ UNCHANGED pc
  /\ UNCHANGED <<running, objects, signals>>

AcceptSocket ==
  /\ pc = "loop"
  /\ \E n \in Fds :
       /\ Lowest(n)
       /\ connfd' = n /\ Become(Opened(Now, n, "connection"))
  /\ pc' = "accepted"
  /\ UNCHANGED <<running, size, signals, result>>

FullPastLimit == size > MaxClients

Full == size >= MaxClients

\* close_fd(connfd)
Reject ==
  /\ pc = "accepted" /\ Full
  /\ kind' = [kind EXCEPT ![connfd] = "free"]
  /\ connfd' = None
  /\ pc' = "loop"
  /\ UNCHANGED <<running, fd, size, signals, result>>

\* push_back of a temporary ClientInfo.
Admit ==
  /\ pc = "accepted" /\ ~Full
  /\ Become(Move(Own(Now, temporary, connfd), size + 1, temporary))
  /\ size' = size + 1
  /\ connfd' = None
  /\ pc' = "loop"
  /\ UNCHANGED <<running, signals, result>>

\* clients[i].fd = std::move(clients.back().fd); clients.pop_back()
Remove(i) ==
  /\ pc = "loop" /\ i <= size
  /\ Become(Reset(MoveAssign(Now, i, size), {size}))
  /\ size' = size - 1
  /\ UNCHANGED <<pc, running, connfd, signals, result>>

\* accept_socket, read_fd, write_full or poll throws out of the loop.
LoopFails ==
  /\ pc = "loop"
  /\ pc' = "idle" /\ result' = "system_error"
  /\ UNCHANGED <<running, objects, signals>>

StopKeepsSignalfd ==
  /\ Become(Reset(Now, Members \ {signalfd}))
  /\ size' = 0 /\ running' = FALSE
  /\ UNCHANGED connfd

\* stop()
Stop ==
  /\ Become(Reset(Now, Members))
  /\ size' = 0 /\ running' = FALSE
  /\ UNCHANGED connfd

\* One signal is read and ends the loop.
Signal ==
  /\ pc = "loop"
  /\ \E s \in pending : pending' = pending \ {s}
  /\ Stop
  /\ pc' = "idle" /\ result' = "ok"
  /\ UNCHANGED blocked

StopCall ==
  /\ pc = "idle"
  /\ Stop
  /\ UNCHANGED <<pc, signals, result>>

Destroy ==
  /\ pc = "idle"
  /\ Become(Reset(Now, Members))
  /\ pc' = "destroyed"
  /\ UNCHANGED <<running, size, connfd, signals, result>>

-----------------------------------------------------------------------------
(* The kernel and whoever sends signals.                                   *)

\* The default action of SIGINT and SIGTERM, or SIGPIPE: the process ends.
Killed ==
  /\ pc' = "killed"
  /\ kind' = [n \in Fds |-> "free"]
  /\ UNCHANGED <<running, fd, size, connfd, signals, result>>

Interrupt(s) ==
  /\ pc # "killed"
  /\ IF blocked
     THEN /\ pending' = pending \cup {s}
          /\ UNCHANGED <<pc, running, objects, blocked, result>>
     ELSE Killed

Sigpipe == pc = "loop" /\ Killed

Init ==
  /\ pc = "idle" /\ running = FALSE
  /\ fd = [o \in Objects |-> None]
  /\ size = 0 /\ connfd = None
  /\ kind = [n \in Fds |-> "free"]
  /\ blocked = FALSE /\ pending = {}
  /\ result = "ok"

Next ==
  \/ RunCall \/ Socket \/ Configure \/ Start \/ SetupFails
  \/ EventLoopCall \/ AcceptSocket \/ Reject \/ Admit \/ LoopFails \/ Signal
  \/ \E i \in Slots : Remove(i)
  \/ StopCall \/ Destroy
  \/ \E s \in Signals : Interrupt(s)
  \/ Sigpipe

Spec == Init /\ [][Next]_vars

-----------------------------------------------------------------------------

Kinds == {"free", "socket", "listening", "signalfd", "connection"}

\* The variables have their types; there are never more than max_clients.
TypeOK ==
  /\ pc \in Setup \cup {"idle", "loop", "accepted", "destroyed", "killed"}
  /\ running \in BOOLEAN /\ blocked \in BOOLEAN
  /\ fd \in [Objects -> Fds \cup {None}] /\ connfd \in Fds \cup {None}
  /\ size \in 0..MaxClients
  /\ kind \in [Fds -> Kinds]
  /\ pending \subseteq Signals
  /\ result \in {"ok", "logic_error", "system_error"}

Open   == {n \in Fds : kind[n] # "free"}
Owners == {o \in Objects : fd[o] # None}

\* Every open descriptor is held by exactly one object, or by connfd, in the
\* middle of run() and after every exception: none leaks, none is closed twice
\* and none is closed for another that has got its number.
OwnedOnce ==
  pc # "killed" =>
    /\ Open = {fd[o] : o \in Owners} \cup ({connfd} \ {None})
    /\ \A o, p \in Owners : fd[o] = fd[p] => o = p
    /\ \A o \in Owners : fd[o] # connfd

\* Whenever the caller is in control the server either runs, with a listening
\* socket, a signalfd and its clients behind the right numbers and the signals
\* blocked, or it holds no descriptor: run() succeeds or leaves none open, and
\* stop() leaves none.  It is not said of the signal mask, which neither undoes:
\* after a signalfd(2) that fails (222-225) and after stop() SIGINT and SIGTERM
\* stay blocked, are read by nobody and no longer end the process.
RunsOrHoldsNoDescriptor ==
  pc \in {"idle", "loop"} =>
    IF running
    THEN /\ \A o \in {listenfd, signalfd} \cup 1..size : fd[o] # None
         /\ kind[fd[listenfd]] = "listening" /\ kind[fd[signalfd]] = "signalfd"
         /\ \A j \in 1..size : kind[fd[j]] = "connection"
         /\ blocked
    ELSE Open = {} /\ size = 0
=============================================================================
