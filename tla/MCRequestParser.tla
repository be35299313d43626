-------------------------- MODULE MCRequestParser --------------------------
(***************************************************************************)
(* Instances of RequestGrammar for TLC, with buffers of a few characters.  *)
(***************************************************************************)
EXTENDS RequestGrammar

MCWords == {<<"p">>, <<"letter", "h">>}
MCUris == {<<>>, <<"slash", "high">>}
MCMinors == {<<"0">>, <<"1", "digit">>}
MCKeys == {<<"print">>, <<"h", "dot">>}
MCBlanks == {<<>>, <<"sp", "tab">>}
MCValues == {<<>>, <<"1">>, <<"slash", "sp", "high">>}
MCAnnounced == {NoLength, InvalidLength, 2}
=============================================================================
