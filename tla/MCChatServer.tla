---------------------------- MODULE MCChatServer ----------------------------
(***************************************************************************)
(* Instances of ChatServer for TLC: what peers send at once.               *)
(***************************************************************************)
EXTENDS ChatServer, TLC

\* TCP keeps no boundaries: any split of the lines may arrive.
Bytewise == {<<"text">>, <<"nl">>}

\* Every write of a peer is one whole line and arrives as one.
WholeLines == {<<"nl">>, <<"text", "nl">>}

\* The shortest lines; they never fill a buffer.
EmptyLines == {<<"nl">>}

\* The connections that do not leave may be exchanged.
Stayers == Permutations(Conns \ Leavers)
=============================================================================
