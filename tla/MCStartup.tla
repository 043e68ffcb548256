----------------------------- MODULE MCStartup ------------------------------
(***************************************************************************)
(* Startup with three processes, two POSTs for two URLs and two crashes,   *)
(* on an empty database: one process creates, one loses the race, one      *)
(* serves meanwhile.  With one digit and one letter per case, ids 1 and 2  *)
(* share a code.                                                           *)
(***************************************************************************)
EXTENDS Startup
=============================================================================
