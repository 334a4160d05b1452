------------------------------ MODULE ChatRoom ------------------------------
(***************************************************************************)
(* What the chat is for its users: a room with one log of lines.  A member *)
(* sees on the screen what the others have said since it came, all of it,  *)
(* once, and in the order of the log, which is the same for everybody.     *)
(* There are no sockets, buffers or threads here.                          *)
(***************************************************************************)
EXTENDS Selection

CONSTANTS
  Members,  \* who may come
  Lines     \* how many lines each of them says

VARIABLES
  log,     \* the lines said, [from, n]: the n-th of its member
  since,   \* the length of the log when a member came, Away before
  screen   \* what each member sees

vars == <<log, since, screen>>

Away == -1

Said(m)    == Only(log, [from : {m}, n : Nat])
Foreign(m) == Only(SubSeq(log, since[m] + 1, Len(log)), [from : Members \ {m}, n : Nat])

Join(m) ==
  /\ since[m] = Away
  /\ since' = [since EXCEPT ![m] = Len(log)]
  /\ UNCHANGED <<log, screen>>

\* The next lines of m, together.
Post(m) ==
  /\ since[m] # Away
  /\ \E j \in 1..(Lines[m] - Len(Said(m))) :
       log' = log \o [n \in 1..j |-> [from |-> m, n |-> Len(Said(m)) + n]]
  /\ UNCHANGED <<since, screen>>

See(m) ==
  /\ since[m] # Away
  /\ \E j \in Len(screen[m])..Len(Foreign(m)) :
       screen' = [screen EXCEPT ![m] = SubSeq(Foreign(m), 1, j)]
  /\ UNCHANGED <<log, since>>

Init ==
  /\ log = << >>
  /\ since = [m \in Members |-> Away]
  /\ screen = [m \in Members |-> << >>]

Next == \E m \in Members : Join(m) \/ Post(m) \/ See(m)

Spec == Init /\ [][Next]_vars
=============================================================================
