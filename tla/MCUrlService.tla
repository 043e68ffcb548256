---------------------------- MODULE MCUrlService ----------------------------
(***************************************************************************)
(* UrlService on two small instances: two GETs racing one POST, and one    *)
(* GET racing two POSTs.  Base 4 with a first id of 2 makes the code of    *)
(* the row a letter, which requests may spell in either case.              *)
(***************************************************************************)
EXTENDS UrlService, TLC

GetSymmetry == Permutations(Gets)
=============================================================================
