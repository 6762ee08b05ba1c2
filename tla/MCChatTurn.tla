----------------------------- MODULE MCChatTurn -----------------------------
(* A terminal; a pipe that is empty; one with two answers, of which the    *)
(* second may be thrown away with the first.                               *)
EXTENDS ChatTurn

MCInputs == {Terminal, <<>>, <<"yes", "yes">>}
=============================================================================
