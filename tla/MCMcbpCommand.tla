--------------------------- MODULE MCMcbpCommand ---------------------------
(***************************************************************************)
(* Small instances of McbpCommand.                                         *)
(***************************************************************************)
EXTENDS McbpCommand

CONSTANTS read, write

NoCommands == {}
OnlyRead == {read}
OnlyWrite == {write}
Both == {read, write}
=============================================================================
