------------------------------ MODULE MCPollLoop ------------------------------
(***************************************************************************)
(* Small instances of PollLoop.                                            *)
(***************************************************************************)
EXTENDS PollLoop
==============================================================================
