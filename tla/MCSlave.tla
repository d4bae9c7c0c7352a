------------------------------- MODULE MCSlave -------------------------------
(***************************************************************************)
(* Instances of Slave for TLC.  The driver mixes its bytes over all four   *)
(* channels.                                                               *)
(***************************************************************************)
EXTENDS Slave

AllQueries == {"b0", "b1", "f0", "f6", "f7", "other"}
AllCommands2 == {"c0", "f0", "82", "other"}
=============================================================================
