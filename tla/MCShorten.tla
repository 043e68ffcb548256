----------------------------- MODULE MCShorten ------------------------------
(***************************************************************************)
(* Shorten with three POST requests for two URLs.  Base 4 (two digits and  *)
(* one letter per case, padded to width 1, ids to 5) puts the interesting  *)
(* ids next to each other: ids 2 and 3 are one letter in its two cases,    *)
(* id 4 needs a second character.                                          *)
(***************************************************************************)
EXTENDS Shorten

\* The ids the table hands out next: codes of one to three characters.
NextIds == next_id..(next_id + 16)

\* Different ids have different codes, since a code can be decoded, and are
\* padded to one width (encoder.py, encode() and decode()).
EncoderRoundTrip == \A id \in NextIds : RoundTrips(id)
=============================================================================
