----------------------------- MODULE Admission ------------------------------
(***************************************************************************)
(* What the server promises to those who come: they wait in one line, take *)
(* a place in the order they came, and are turned away only while all      *)
(* places are taken.  Who is gone does not come back, and nobody comes     *)
(* after the server has closed.  There is no vector, no descriptor and no  *)
(* round of a loop here.                                                   *)
(***************************************************************************)
EXTENDS Integers, Sequences, FiniteSets

CONSTANTS
  Guests,  \* who may come
  Places   \* how many the server has room for

VARIABLES
  line,    \* who waits, in the order they came
  seated,  \* who has a place
  gone,    \* who has left or was turned away
  open     \* the server runs

vars == <<line, seated, gone, open>>

Waiting == {line[n] : n \in 1..Len(line)}

Come(g) ==
  /\ open /\ g \notin Waiting \cup seated \cup gone
  /\ line' = Append(line, g)
  /\ UNCHANGED <<seated, gone, open>>

TakePlace ==
  /\ open /\ line # << >> /\ Cardinality(seated) < Places
  /\ seated' = seated \cup {Head(line)}
  /\ line' = Tail(line)
  /\ UNCHANGED <<gone, open>>

TurnAway ==
  /\ open /\ line # << >> /\ Cardinality(seated) >= Places
  /\ gone' = gone \cup {Head(line)}
  /\ line' = Tail(line)
  /\ UNCHANGED <<seated, open>>

Leave(g) ==
  /\ open /\ g \in seated
  /\ seated' = seated \ {g}
  /\ gone' = gone \cup {g}
  /\ UNCHANGED <<line, open>>

\* Who waits or sits when the server closes goes with it.
CloseDown ==
  /\ open /\ ~open'
  /\ line' = << >> /\ seated' = {}
  /\ gone' = gone \cup seated \cup Waiting

Init ==
  /\ line = << >> /\ seated = {} /\ gone = {}
  /\ open = TRUE

Next ==
  \/ \E g \in Guests : Come(g) \/ Leave(g)
  \/ TakePlace \/ TurnAway \/ CloseDown

Spec == Init /\ [][Next]_vars
=============================================================================
