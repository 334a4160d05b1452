---------------------------- MODULE MCLineBuffer ----------------------------
(***************************************************************************)
(* LineBuffer with two buffers, for TLC.                                   *)
(***************************************************************************)
EXTENDS LineBuffer

\* A part of a line, the end of one, and two lines at once.
SomeChunks == {<<"t">>, <<NL>>, <<"t", NL, NL>>}

\* The delimiter of the program, and another character.
TwoDelims == {NL, "t"}
=============================================================================
