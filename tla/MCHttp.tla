------------------------------- MODULE MCHttp -------------------------------
(***************************************************************************)
(* Http for TLC: two plain commands, of which one asks for a node, and a    *)
(* prepared query, whose answer may ask for a retry; two sessions, so that  *)
(* a session has had two commands when it is given to the third; one new    *)
(* configuration, which may be without the node.                            *)
(***************************************************************************)
EXTENDS Http

CONSTANTS plain, other, prepared, n1

ThreeCommands == {plain, other, prepared}
OnlyPrepared == {prepared}
OneSticky == [c \in ThreeCommands |-> IF c = plain THEN n1 ELSE none]
=============================================================================
