------------------------------ MODULE UrlStore ------------------------------
(***************************************************************************)
(* The `urls` table of MySQL (app/models.py) and the queries app/crud.py   *)
(* makes on it.  `urls` holds the committed rows; a row inserted by an     *)
(* open transaction lives in the request that inserted it (module Shorten) *)
(* and InnoDB hides it from every other reader.                            *)
(*                                                                         *)
(* The url_hash column is identified with long_url: SHA-256 is taken to be *)
(* injective on the URLs in play.  created_at is left out (nothing reads   *)
(* it but /stats), and click_count is the variable `clicks` of module      *)
(* Redirect.                                                               *)
(***************************************************************************)
EXTENDS Base62

CONSTANTS
  LongUrls,     \* the URLs clients shorten
  Expiries,     \* the expiry times clients ask for
  MaxId,        \* bound: the last AUTO_INCREMENT value of the model
  MaxCodeLen,   \* width of the short_code column, String(10)
  Null          \* SQL NULL and Python None

ASSUME StoreAssumption ==
  /\ MaxId \in Nat \ {0}
  /\ MaxCodeLen \in Nat
  /\ Expiries \subseteq Nat
  /\ Null \notin LongUrls \cup Expiries

VARIABLES
  urls,         \* the committed rows
  next_id       \* the table's AUTO_INCREMENT counter

OrNull(S) == S \cup {Null}

Ids   == 1..MaxId
Codes == {Encode(id) : id \in Ids}

\* None is neither a string nor a number.
ASSUME NullAssumption == Null \notin Codes /\ Null \notin Ids

Row == [id         : Ids,
        short_code : OrNull(Codes),
        long_url   : LongUrls,
        expires_at : OrNull(Expiries)]

\* get_url_by_hash(): the committed rows of a URL (the index is unique, so
\* at most one).
RowsByHash(url) == {row \in urls : row.long_url = url}

\* get_url_by_short_code(): compared as the column's collation compares.
RowsByShortCode(code) ==
  {row \in urls : /\ row.short_code # Null
                  /\ Collate(row.short_code) = Collate(code)}
=============================================================================
