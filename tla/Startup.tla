------------------------------ MODULE Startup -------------------------------
(***************************************************************************)
(* The start of the API service (lifespan() in app/main.py): each of the   *)
(* uvicorn processes runs Base.metadata.create_all() on the one database   *)
(* and then serves, and the supervisor starts a process that died again.   *)
(*                                                                         *)
(* create_all() looks for the table, sends CREATE TABLE, and then one      *)
(* CREATE UNIQUE INDEX for each column declared with unique=True and       *)
(* index=True (app/models.py), in no particular order; MySQL commits each  *)
(* of these statements by itself.  A process that finds the table serves   *)
(* at once, whether or not its indexes are there yet.                      *)
(*                                                                         *)
(* A POST is reduced to what meets the schema: its SELECT by url_hash, the *)
(* transaction of its INSERT as one step, and the end of its session.      *)
(* From its SELECT to the end it keeps the metadata lock of the table,     *)
(* which CREATE INDEX waits for.                                           *)
(***************************************************************************)
EXTENDS UrlStore

CONSTANTS
  Workers,      \* the uvicorn processes (4)
  Posts,        \* the POST requests
  MaxCrashes    \* bound: processes that die by themselves

ASSUME StartupAssumption == Workers # {} /\ MaxCrashes \in Nat

VARIABLES
  table,        \* the urls table exists
  indexes,      \* its unique indexes, by column
  proc,         \* process -> [pc, missing]: where it is in lifespan(), and
                \* the indexes it still has to create
  post,         \* POST request -> [pc, url, at]; at: the process it runs in
  cut,          \* a process stopped between CREATE TABLE and its last index
  crashes

schemaVars  == <<table, indexes>>
startupVars == <<urls, next_id, schemaVars, proc, post, cut, crashes>>

Columns == {"url_hash", "short_code"}

ProcState == [pc      : {"check", "create", "index", "serving", "dead"},
              missing : SUBSET Columns]

PostState == [pc  : {"idle", "insert", "open", "done"},
              url : OrNull(LongUrls),
              at  : OrNull(Workers)]

\* The value of a row in a unique index, as the index compares it.
Key(column, row) ==
  IF column = "url_hash" THEN row.long_url ELSE Collate(row.short_code)

Distinct(column) ==
  \A row, other \in urls : Key(column, row) = Key(column, other) => row = other

Goto(w, to) == proc' = [proc EXCEPT ![w] = [pc |-> to, missing |-> {}]]

\* The process ends; its sessions end with it, rolled back.
Die(w) ==
  /\ Goto(w, "dead")
  /\ post' = [p \in Posts |->
                IF post[p].at = w THEN [post[p] EXCEPT !.pc = "done"] ELSE post[p]]
  /\ cut' = (cut \/ proc[w].missing # {})

-----------------------------------------------------------------------------
\* Mutant: checkfirst=False.
CheckTable_Never(w) ==
  /\ proc[w].pc = "check"
  /\ Goto(w, "create")
  /\ UNCHANGED <<urls, next_id, schemaVars, post, cut, crashes>>

\* create_all(): has_table() first.
CheckTable(w) ==
  /\ proc[w].pc = "check"
  /\ Goto(w, IF table THEN "serving" ELSE "create")
  /\ UNCHANGED <<urls, next_id, schemaVars, post, cut, crashes>>

\* Mutant: short_code declared without an index.
CreateTable_OneIndex(w) ==
  /\ proc[w].pc = "create" /\ ~table
  /\ table' = TRUE
  /\ proc' = [proc EXCEPT ![w] = [pc |-> "index", missing |-> {"url_hash"}]]
  /\ UNCHANGED <<urls, next_id, indexes, post, cut, crashes>>

CreateTable(w) ==
  /\ proc[w].pc = "create" /\ ~table
  /\ table' = TRUE
  /\ proc' = [proc EXCEPT ![w] = [pc |-> "index", missing |-> Columns]]
  /\ UNCHANGED <<urls, next_id, indexes, post, cut, crashes>>

\* Another process was faster: error 1050 leaves lifespan(), and uvicorn ends
\* the process.
TableExists(w) ==
  /\ proc[w].pc = "create" /\ table
  /\ Die(w)
  /\ UNCHANGED <<urls, next_id, schemaVars, crashes>>

LockedByPosts == \E p \in Posts : post[p].pc \in {"insert", "open"}

\* Mutant: index=True without unique=True.
CreateIndex_NotUnique(w, column) ==
  /\ column \in proc[w].missing /\ ~LockedByPosts
  /\ indexes' = indexes \cup {column}
  /\ proc' = [proc EXCEPT ![w].missing = @ \ {column}]
  /\ UNCHANGED <<urls, next_id, table, post, cut, crashes>>

CreateIndex(w, column) ==
  /\ column \in proc[w].missing /\ ~LockedByPosts
  /\ Distinct(column)
  /\ indexes' = indexes \cup {column}
  /\ proc' = [proc EXCEPT ![w].missing = @ \ {column}]
  /\ UNCHANGED <<urls, next_id, table, post, cut, crashes>>

\* The rows inserted so far are no unique index: error 1062.
DuplicateRows(w, column) ==
  /\ column \in proc[w].missing /\ ~LockedByPosts
  /\ ~Distinct(column)
  /\ Die(w)
  /\ UNCHANGED <<urls, next_id, schemaVars, crashes>>

Serve(w) ==
  /\ proc[w].pc = "index" /\ proc[w].missing = {}
  /\ Goto(w, "serving")
  /\ UNCHANGED <<urls, next_id, schemaVars, post, cut, crashes>>

\* The supervisor replaces a child that is not alive.
Restart(w) ==
  /\ proc[w].pc = "dead"
  /\ Goto(w, "check")
  /\ UNCHANGED <<urls, next_id, schemaVars, post, cut, crashes>>

\* A process dies, or a statement of its create_all() fails.
Crash(w) ==
  /\ crashes < MaxCrashes /\ crashes' = crashes + 1
  /\ proc[w].pc # "dead"
  /\ Die(w)
  /\ UNCHANGED <<urls, next_id, schemaVars>>

-----------------------------------------------------------------------------
PostGoes(p, to) == post' = [post EXCEPT ![p].pc = to]

\* A POST reaches a serving process: get_url_by_hash(), which raises when
\* there are two rows (scalar_one_or_none()).
Select(p) ==
  /\ post[p].pc = "idle"
  /\ \E w \in Workers, url \in LongUrls :
       /\ proc[w].pc = "serving"
       /\ post' = [post EXCEPT ![p] =
            [pc |-> IF RowsByHash(url) = {} THEN "insert" ELSE "open",
             url |-> url, at |-> w]]
  /\ UNCHANGED <<urls, next_id, schemaVars, proc, cut, crashes>>

NewRow(p) == [id |-> next_id, short_code |-> Encode(next_id),
              long_url |-> post[p].url, expires_at |-> Null]

\* Mutant: the row is committed before its code is known.
Insert_NoCode(p) ==
  /\ post[p].pc = "insert" /\ next_id \in Ids
  /\ next_id' = next_id + 1
  /\ urls' = urls \cup {[NewRow(p) EXCEPT !.short_code = << >>]}
  /\ PostGoes(p, "open")
  /\ UNCHANGED <<schemaVars, proc, cut, crashes>>

\* The rest of create_short_url(): INSERT, UPDATE and COMMIT, or the error of
\* an index that is there, or of a code wider than its column.
Insert(p) ==
  LET row     == NewRow(p)
      refused == \/ Len(row.short_code) > MaxCodeLen
                 \/ \E column \in indexes, other \in urls :
                      Key(column, row) = Key(column, other)
  IN  /\ post[p].pc = "insert" /\ next_id \in Ids
      /\ next_id' = next_id + 1
      /\ urls' = IF refused THEN urls ELSE urls \cup {row}
      /\ PostGoes(p, "open")
      /\ UNCHANGED <<schemaVars, proc, cut, crashes>>

\* Mutant: the session is closed after an exception only.
EndPost_NoClose(p) ==
  /\ post[p].pc = "insert"
  /\ PostGoes(p, "done")
  /\ UNCHANGED <<urls, next_id, schemaVars, proc, cut, crashes>>

\* get_db() closes the session, after an answer or an exception.
EndPost(p) ==
  /\ post[p].pc \in {"insert", "open"}
  /\ PostGoes(p, "done")
  /\ UNCHANGED <<urls, next_id, schemaVars, proc, cut, crashes>>

-----------------------------------------------------------------------------
Init ==
  /\ urls = {} /\ next_id = 1
  /\ table = FALSE /\ indexes = {}
  /\ proc = [w \in Workers |-> [pc |-> "check", missing |-> {}]]
  /\ post = [p \in Posts |-> [pc |-> "idle", url |-> Null, at |-> Null]]
  /\ cut = FALSE /\ crashes = 0

Boot(w) ==
  \/ CheckTable(w) \/ CreateTable(w) \/ TableExists(w)
  \/ \E column \in Columns : CreateIndex(w, column) \/ DuplicateRows(w, column)
  \/ Serve(w) \/ Restart(w)

AllServing == \A w \in Workers : proc[w].pc = "serving"

Quiet ==
  /\ AllServing /\ \A p \in Posts : post[p].pc = "done"
  /\ UNCHANGED startupVars

Next ==
  \/ \E w \in Workers : Boot(w) \/ Crash(w)
  \/ \E p \in Posts : Select(p) \/ Insert(p) \/ EndPost(p)
  \/ Quiet

\* Processes and handlers go on; nothing is said of arrivals and crashes.
Spec ==
  /\ Init /\ [][Next]_startupVars
  /\ \A w \in Workers : WF_startupVars(Boot(w))
  /\ \A p \in Posts : WF_startupVars(EndPost(p))

-----------------------------------------------------------------------------
\* Every variable keeps its type; a row has its code when it is committed,
\* with or without indexes.
TypeOK ==
  /\ urls \subseteq [id : Ids, short_code : Codes, long_url : LongUrls,
                     expires_at : {Null}]
  /\ next_id \in 1..(MaxId + 1)
  /\ table \in BOOLEAN /\ cut \in BOOLEAN
  /\ indexes \subseteq Columns
  /\ proc \in [Workers -> ProcState]
  /\ post \in [Posts -> PostState]
  /\ crashes \in 0..MaxCrashes

\* Once both indexes are there, no two rows share a URL or a code, though
\* rows were inserted before: the table that create_short_url() relies on.
CompleteSchemaIsSound ==
  indexes = Columns => \A column \in Columns : Distinct(column)

\* The race of the processes by itself costs no index: when all of them
\* serve, an index is missing only if a process was stopped half-way, by a
\* crash or by rows inserted too early (main.py: "creates all tables").
ServingSchemaIsComplete == AllServing /\ ~cut => indexes = Columns

\* The schema is completed, unless its creator is stopped half-way: the
\* requests that are served meanwhile do not hold CREATE INDEX up for ever
\* (database.py, get_db: "Ensures the session is always closed").
SchemaCompleted == <>(indexes = Columns \/ cut)

\* Every process ends up serving, also one that lost the race for the table
\* and died of it (main.py: "idempotent").
EveryWorkerServes == <>[]AllServing
=============================================================================
