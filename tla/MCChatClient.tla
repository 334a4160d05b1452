---------------------------- MODULE MCChatClient ----------------------------
(***************************************************************************)
(* Instances of ChatClient for TLC: what is typed and told at once.        *)
(***************************************************************************)
EXTENDS ChatClient

\* Any split of the lines into reads.
Bytewise == {<<"t">>, <<NL>>}

\* A terminal has room to fill the buffer in one session and find it full in
\* the next; a pipe for a line that is lost and one behind it.
ByStdin == [s \in Stdins |-> IF s = "terminal" THEN 3 ELSE 2]

\* What a user gives with --host.
Elsewhere == <<10, 0, 0, 7>>
=============================================================================
