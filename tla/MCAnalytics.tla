---------------------------- MODULE MCAnalytics -----------------------------
(***************************************************************************)
(* Analytics with one click, one message that is no event, which may come  *)
(* before or after it, and two workers.  Three faults let a message be     *)
(* redelivered while the worker that lost it is still at work on it, and   *)
(* the other worker die with it in turn.                                   *)
(***************************************************************************)
EXTENDS Analytics
=============================================================================
