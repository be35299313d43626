-------------------------- MODULE MCResponseParser --------------------------
(***************************************************************************)
(* Instances of ResponseGrammar for TLC, with buffers of a few characters. *)
(***************************************************************************)
EXTENDS ResponseGrammar

MCMinors == {<<"0", "digit">>}
MCNumbers == {<<"digit", "0">>}
MCStatusTexts == {<<>>, <<"sp", "print", "sp">>, <<"tab", "high">>}
MCKeys == {<<"print">>}
MCBlanks == {<<"sp">>}
MCValues == {<<>>, <<"1">>}
MCAnnounced == {NoLength, InvalidLength, 2, Chunked, OtherEncoding}
MCPayloads == {<<"cr", "lf">>, <<"cr", "lf", "0", "cr", "lf", "h", "cr", "lf", "sp", "high">>}
=============================================================================
