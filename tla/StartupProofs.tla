--------------------------- MODULE StartupProofs ----------------------------
(***************************************************************************)
(* Theorems about the start of the service, for any numbers of processes,  *)
(* requests, URLs and crashes: when both unique indexes are there the rows *)
(* respect them, the race of the processes by itself costs no index, and   *)
(* no row is ever committed without its code.                              *)
(***************************************************************************)
EXTENDS Startup, TLAPS

\* What an index that is there says of the rows.
IndexesHold == \A column \in indexes : Distinct(column)

\* At most one process creates indexes, and only once there is a table; while
\* nobody was stopped half-way, what is missing is what it still has to do.
OneCreator ==
  /\ proc \in [Workers -> ProcState]
  /\ indexes \subseteq Columns
  /\ table \in BOOLEAN /\ cut \in BOOLEAN
  /\ \A w \in Workers : proc[w].missing # {} => proc[w].pc = "index"
  /\ ~table => /\ indexes = {}
               /\ \A w \in Workers : proc[w].pc \notin {"index", "serving"}
  /\ \A w, v \in Workers :
       proc[w].pc = "index" /\ proc[v].pc = "index" => w = v
  /\ table /\ ~cut =>
       \/ indexes = Columns
       \/ \E w \in Workers : /\ proc[w].pc = "index"
                             /\ proc[w].missing = Columns \ indexes

-----------------------------------------------------------------------------
\* Rows come in by Insert only, which looks at the indexes there are, and
\* CreateIndex looks at the rows there are.
LEMMA IndexesHoldStep ==
  ASSUME IndexesHold, [Next]_startupVars
  PROVE  IndexesHold'
<1>1. ASSUME NEW w \in Workers, NEW column \in Columns, CreateIndex(w, column)
      PROVE  IndexesHold'
  BY <1>1 DEF CreateIndex, IndexesHold, Distinct, Key
<1>2. ASSUME NEW p \in Posts, Insert(p)
      PROVE  IndexesHold'
  <2>1. indexes' = indexes
    BY <1>2 DEF Insert, schemaVars
  <2>2. CASE urls' = urls
    BY <2>1, <2>2 DEF IndexesHold, Distinct, Key
  <2>3. CASE urls' # urls
    <3>1. /\ urls' = urls \cup {NewRow(p)}
          /\ \A column \in indexes, other \in urls :
               Key(column, NewRow(p)) # Key(column, other)
      BY <1>2, <2>3 DEF Insert
    <3>2. ASSUME NEW column \in indexes, NEW row \in urls', NEW other \in urls',
                 Key(column, row) = Key(column, other)
          PROVE  row = other
      BY <3>1, <3>2 DEF IndexesHold, Distinct
    <3> QED
      BY <2>1, <3>2 DEF IndexesHold, Distinct, Key
  <2> QED
    BY <2>2, <2>3
<1>3. ASSUME UNCHANGED <<urls, indexes>>
      PROVE  IndexesHold'
  BY <1>3 DEF IndexesHold, Distinct, Key
<1> QED
  BY <1>1, <1>2, <1>3
     DEF Next, Boot, CheckTable, CreateTable, TableExists, DuplicateRows, Serve,
         Restart, Crash, Select, EndPost, Quiet, startupVars, schemaVars

-----------------------------------------------------------------------------
\* A process that stops, wherever it is.
LEMMA DieStep ==
  ASSUME OneCreator, NEW w \in Workers, Die(w), UNCHANGED schemaVars
  PROVE  OneCreator'
<1>1. proc' = [proc EXCEPT ![w] = [pc |-> "dead", missing |-> {}]]
  BY DEF Die, Goto
<1>2. table' = table /\ indexes' = indexes /\ cut' = (cut \/ proc[w].missing # {})
  BY DEF Die, schemaVars
<1>3. proc' \in [Workers -> ProcState]
  BY <1>1 DEF OneCreator, ProcState
<1>4. ASSUME table, ~cut'
      PROVE  \/ indexes = Columns
             \/ \E v \in Workers : /\ proc'[v].pc = "index"
                                   /\ proc'[v].missing = Columns \ indexes
  <2>1. ~cut /\ proc[w].missing = {}
    BY <1>2, <1>4 DEF OneCreator
  <2>2. CASE indexes = Columns
    BY <2>2
  <2>3. CASE indexes # Columns
    <3>1. PICK v \in Workers : /\ proc[v].pc = "index"
                               /\ proc[v].missing = Columns \ indexes
      BY <1>4, <2>1, <2>3 DEF OneCreator
    <3>2. v # w
      BY <2>1, <2>3, <3>1 DEF OneCreator
    <3> QED
      BY <1>1, <3>1, <3>2 DEF OneCreator
  <2> QED
    BY <2>2, <2>3
<1>5. \A v \in Workers : v # w => proc'[v] = proc[v]
  BY <1>1 DEF OneCreator
<1>6. proc'[w] = [pc |-> "dead", missing |-> {}]
  BY <1>1 DEF OneCreator
<1> QED
  BY <1>2, <1>3, <1>4, <1>5, <1>6 DEF OneCreator

\* A process that goes on by itself without touching the schema.
LEMMA GotoStep ==
  ASSUME OneCreator, NEW w \in Workers,
         NEW to \in {"check", "create", "serving"}, Goto(w, to),
         proc[w].missing = {}, to = "serving" => table,
         UNCHANGED <<schemaVars, cut>>
  PROVE  OneCreator'
<1>1. proc' \in [Workers -> ProcState]
  BY DEF OneCreator, ProcState, Goto
<1>2. /\ \A v \in Workers : v # w => proc'[v] = proc[v]
      /\ proc'[w] = [pc |-> to, missing |-> {}]
  BY DEF OneCreator, Goto
<1>3. ASSUME table, ~cut
      PROVE  \/ indexes = Columns
             \/ \E v \in Workers : /\ proc'[v].pc = "index"
                                   /\ proc'[v].missing = Columns \ indexes
  <2>1. CASE indexes = Columns
    BY <2>1
  <2>2. CASE indexes # Columns
    <3>1. PICK v \in Workers : /\ proc[v].pc = "index"
                               /\ proc[v].missing = Columns \ indexes
      BY <1>3, <2>2 DEF OneCreator
    <3>2. v # w
      BY <2>2, <3>1 DEF OneCreator
    <3> QED
      BY <1>2, <3>1, <3>2
  <2> QED
    BY <2>1, <2>2
<1> QED
  BY <1>1, <1>2, <1>3 DEF OneCreator, schemaVars

LEMMA CreateTableStep ==
  ASSUME OneCreator, NEW w \in Workers, CreateTable(w)
  PROVE  OneCreator'
<1>1. /\ \A v \in Workers : v # w => proc'[v] = proc[v]
      /\ proc'[w] = [pc |-> "index", missing |-> Columns]
      /\ proc' \in [Workers -> ProcState]
  BY DEF OneCreator, CreateTable, ProcState
<1>2. \A v \in Workers : proc[v].pc \notin {"index", "serving"}
  BY DEF OneCreator, CreateTable
<1>3. table' = TRUE /\ indexes' = indexes /\ cut' = cut
  BY DEF CreateTable
<1> QED
  BY <1>1, <1>2, <1>3 DEF OneCreator

LEMMA CreateIndexStep ==
  ASSUME OneCreator, NEW w \in Workers, NEW column \in Columns,
         CreateIndex(w, column)
  PROVE  OneCreator'
<1>1. /\ \A v \in Workers : v # w => proc'[v] = proc[v]
      /\ proc'[w] = [proc[w] EXCEPT !.missing = proc[w].missing \ {column}]
      /\ proc[w] \in ProcState
      /\ proc' \in [Workers -> ProcState]
  BY DEF OneCreator, CreateIndex, ProcState
<1>2. proc'[w].pc = "index" /\ proc'[w].missing = proc[w].missing \ {column}
  BY <1>1 DEF OneCreator, CreateIndex, ProcState
<1>3. indexes' = indexes \cup {column} /\ table' = table /\ cut' = cut
  BY DEF CreateIndex
<1> QED
  BY <1>1, <1>2, <1>3 DEF OneCreator, CreateIndex

LEMMA OneCreatorStep ==
  ASSUME OneCreator, [Next]_startupVars
  PROVE  OneCreator'
<1>1. ASSUME NEW w \in Workers, Boot(w)
      PROVE  OneCreator'
  <2>1. CASE CheckTable(w)
    BY <2>1, GotoStep DEF CheckTable, OneCreator, ProcState
  <2>2. CASE CreateTable(w)
    BY <2>2, CreateTableStep
  <2>3. CASE TableExists(w)
    BY <2>3, DieStep DEF TableExists
  <2>4. ASSUME NEW column \in Columns, CreateIndex(w, column)
        PROVE  OneCreator'
    BY <2>4, CreateIndexStep
  <2>5. ASSUME NEW column \in Columns, DuplicateRows(w, column)
        PROVE  OneCreator'
    BY <2>5, DieStep DEF DuplicateRows
  <2>6. CASE Serve(w)
    BY <2>6, GotoStep DEF Serve, OneCreator
  <2>7. CASE Restart(w)
    BY <2>7, GotoStep DEF Restart, OneCreator
  <2> QED
    BY <1>1, <2>1, <2>2, <2>3, <2>4, <2>5, <2>6, <2>7 DEF Boot
<1>2. ASSUME NEW w \in Workers, Crash(w)
      PROVE  OneCreator'
  BY <1>2, DieStep DEF Crash
<1>3. ASSUME UNCHANGED <<schemaVars, proc, cut>>
      PROVE  OneCreator'
  BY <1>3 DEF OneCreator, schemaVars
<1> QED
  BY <1>1, <1>2, <1>3 DEF Next, Select, Insert, EndPost, Quiet, startupVars

-----------------------------------------------------------------------------
\* Once both indexes are there, no two rows share a URL or a code (Startup's
\* CompleteSchemaIsSound), for any instance: create_all() and early requests.
THEOREM StartupCompleteSchemaIsSound == Spec => []CompleteSchemaIsSound
<1>1. Init => IndexesHold
  BY DEF Init, IndexesHold
<1>2. IndexesHold /\ [Next]_startupVars => IndexesHold'
  BY IndexesHoldStep
<1>3. IndexesHold => CompleteSchemaIsSound
  BY DEF IndexesHold, CompleteSchemaIsSound
<1> QED
  BY <1>1, <1>2, <1>3, PTL DEF Spec

\* When all processes serve and none was stopped half-way, both indexes are
\* there (Startup's ServingSchemaIsComplete): any number of processes may race
\* through create_all() of app/main.py.
THEOREM StartupServingSchemaIsComplete == Spec => []ServingSchemaIsComplete
<1>1. Init => OneCreator
  <2> SUFFICES ASSUME Init
               PROVE  OneCreator
    OBVIOUS
  <2>1. proc \in [Workers -> ProcState]
    BY DEF Init, ProcState
  <2>2. \A w \in Workers : proc[w].pc = "check" /\ proc[w].missing = {}
    BY DEF Init
  <2> QED
    BY <2>1, <2>2 DEF Init, OneCreator
<1>2. OneCreator /\ [Next]_startupVars => OneCreator'
  BY OneCreatorStep
<1>3. OneCreator => ServingSchemaIsComplete
  <2> SUFFICES ASSUME OneCreator, AllServing, ~cut
               PROVE  indexes = Columns
    BY DEF ServingSchemaIsComplete
  <2>1. PICK w \in Workers : proc[w].pc = "serving"
    BY StartupAssumption DEF AllServing
  <2>2. table
    BY <2>1 DEF OneCreator
  <2>3. \A v \in Workers : proc[v].pc # "index"
    BY DEF AllServing
  <2> QED
    BY <2>2, <2>3 DEF OneCreator
<1> QED
  BY <1>1, <1>2, <1>3, PTL DEF Spec

-----------------------------------------------------------------------------
\* A handler that is about to insert knows what it inserts.
StartupTyped ==
  /\ TypeOK
  /\ \A p \in Posts : post[p].pc = "insert" => post[p].url \in LongUrls

\* The steps of a process that leave the schema alone.
LEMMA GotoTyped ==
  ASSUME StartupTyped, NEW w \in Workers, UNCHANGED <<urls, next_id, schemaVars, crashes>>,
         NEW to \in {"check", "create", "index", "serving", "dead"}, Goto(w, to),
         UNCHANGED <<post, cut>>
  PROVE  StartupTyped'
<1>1. proc' \in [Workers -> ProcState]
  BY DEF StartupTyped, TypeOK, Goto, ProcState
<1> QED
  BY <1>1 DEF StartupTyped, TypeOK, schemaVars

\* A process that stops, and the handlers it takes along.
LEMMA DieTyped ==
  ASSUME StartupTyped, NEW w \in Workers, UNCHANGED <<urls, next_id, schemaVars>>,
         Die(w), crashes' \in 0..MaxCrashes
  PROVE  StartupTyped'
<1>1. proc' \in [Workers -> ProcState]
  BY DEF StartupTyped, TypeOK, Die, Goto, ProcState
<1>2. ASSUME NEW p \in Posts
      PROVE  post'[p] \in PostState /\ (post'[p].pc = "insert" => post'[p].url \in LongUrls)
  <2>1. post[p] \in PostState /\ (post[p].pc = "insert" => post[p].url \in LongUrls)
    BY DEF StartupTyped, TypeOK
  <2>2. post'[p] = IF post[p].at = w THEN [post[p] EXCEPT !.pc = "done"] ELSE post[p]
    BY DEF Die
  <2>3. CASE post[p].at = w
    BY <2>1, <2>2, <2>3 DEF PostState
  <2>4. CASE post[p].at # w
    BY <2>1, <2>2, <2>4
  <2> QED
    BY <2>3, <2>4
<1>3. post' \in [Posts -> PostState]
  BY <1>2 DEF Die
<1>4. cut' \in BOOLEAN
  BY DEF Die, StartupTyped, TypeOK
<1> QED
  BY <1>1, <1>2, <1>3, <1>4 DEF StartupTyped, TypeOK, schemaVars

\* The statements of create_all().
LEMMA SchemaTyped ==
  ASSUME StartupTyped, NEW w \in Workers,
         CreateTable(w) \/ \E column \in Columns : CreateIndex(w, column)
  PROVE  StartupTyped'
<1>1. CASE CreateTable(w)
  <2>1. proc' \in [Workers -> ProcState]
    BY <1>1 DEF StartupTyped, TypeOK, CreateTable, ProcState
  <2> QED
    BY <1>1, <2>1 DEF StartupTyped, TypeOK, CreateTable
<1>2. ASSUME NEW column \in Columns, CreateIndex(w, column)
      PROVE  StartupTyped'
  <2>1. proc[w] \in ProcState
    BY DEF StartupTyped, TypeOK
  <2>2. [proc[w] EXCEPT !.missing = @ \ {column}] \in ProcState
    BY <2>1 DEF ProcState
  <2>3. proc' \in [Workers -> ProcState]
    BY <1>2, <2>2 DEF StartupTyped, TypeOK, CreateIndex
  <2> QED
    BY <1>2, <2>3 DEF StartupTyped, TypeOK, CreateIndex
<1> QED
  BY <1>1, <1>2

\* A handler that moves on.
LEMMA PostGoesTyped ==
  ASSUME StartupTyped, NEW p \in Posts, NEW to \in {"open", "done"}, PostGoes(p, to)
  PROVE  /\ post' \in [Posts -> PostState]
         /\ \A q \in Posts : post'[q].pc = "insert" => post'[q].url \in LongUrls
<1>1. post[p] \in PostState
  BY DEF StartupTyped, TypeOK
<1>2. [post[p] EXCEPT !.pc = to] \in PostState
  BY <1>1 DEF PostState
<1>3. /\ post' \in [Posts -> PostState]
      /\ post'[p].pc = to
      /\ \A q \in Posts : q # p => post'[q] = post[q]
  BY <1>1, <1>2 DEF PostGoes, StartupTyped, TypeOK, PostState
<1> QED
  BY <1>3 DEF StartupTyped

\* A request arrives with a URL.
LEMMA SelectTyped ==
  ASSUME StartupTyped, NEW p \in Posts, Select(p)
  PROVE  StartupTyped'
<1>1. PICK w \in Workers, url \in LongUrls :
        post' = [post EXCEPT ![p] =
          [pc |-> IF RowsByHash(url) = {} THEN "insert" ELSE "open",
           url |-> url, at |-> w]]
  BY DEF Select
<1>2. PICK pc \in {"insert", "open"} :
        post' = [post EXCEPT ![p] = [pc |-> pc, url |-> url, at |-> w]]
  BY <1>1
<1>3. [pc |-> pc, url |-> url, at |-> w] \in PostState
  BY DEF PostState, OrNull
<1>4. /\ post' \in [Posts -> PostState]
      /\ post'[p].url = url
      /\ \A q \in Posts : q # p => post'[q] = post[q]
  BY <1>2, <1>3 DEF StartupTyped, TypeOK
<1> QED
  BY <1>4 DEF StartupTyped, TypeOK, Select, schemaVars

\* A row is committed with the code of its id.
LEMMA InsertTyped ==
  ASSUME StartupTyped, NEW p \in Posts, Insert(p)
  PROVE  StartupTyped'
<1>1. /\ post[p].pc = "insert" /\ next_id \in Ids /\ next_id' = next_id + 1
      /\ urls' = urls \/ urls' = urls \cup {NewRow(p)}
      /\ PostGoes(p, "open")
      /\ UNCHANGED <<schemaVars, proc, cut, crashes>>
  BY DEF Insert
<1>2. post[p].url \in LongUrls
  BY <1>1 DEF StartupTyped
<1>3. NewRow(p) \in [id : Ids, short_code : Codes, long_url : LongUrls,
                     expires_at : {Null}]
  BY <1>1, <1>2 DEF NewRow, Codes
<1>4. next_id' \in 1..(MaxId + 1)
  BY <1>1, StoreAssumption DEF Ids
<1>5. /\ post' \in [Posts -> PostState]
      /\ \A q \in Posts : post'[q].pc = "insert" => post'[q].url \in LongUrls
  BY <1>1, PostGoesTyped
<1> QED
  BY <1>1, <1>3, <1>4, <1>5 DEF StartupTyped, TypeOK, schemaVars

\* Every step keeps the types.
LEMMA StartupTypedStep ==
  ASSUME StartupTyped, [Next]_startupVars
  PROVE  StartupTyped'
<1>1. ASSUME NEW w \in Workers, Boot(w) \/ Crash(w)
      PROVE  StartupTyped'
  <2>1. crashes \in 0..MaxCrashes /\ MaxCrashes \in Nat
    BY StartupAssumption DEF StartupTyped, TypeOK
  <2>2. CASE CheckTable(w)
    BY <2>2, GotoTyped DEF CheckTable
  <2>3. CASE CreateTable(w)
    BY <2>3, SchemaTyped
  <2>4. CASE TableExists(w)
    BY <2>1, <2>4, DieTyped DEF TableExists
  <2>5. ASSUME NEW column \in Columns, CreateIndex(w, column) \/ DuplicateRows(w, column)
        PROVE  StartupTyped'
    BY <2>1, <2>5, SchemaTyped, DieTyped DEF DuplicateRows
  <2>6. CASE Serve(w)
    BY <2>6, GotoTyped DEF Serve
  <2>7. CASE Restart(w)
    BY <2>7, GotoTyped DEF Restart
  <2>8. CASE Crash(w)
    <3>1. crashes' \in 0..MaxCrashes
      BY <2>1, <2>8 DEF Crash
    <3> QED
      BY <2>8, <3>1, DieTyped DEF Crash
  <2> QED
    BY <1>1, <2>2, <2>3, <2>4, <2>5, <2>6, <2>7, <2>8 DEF Boot
<1>2. ASSUME NEW p \in Posts, EndPost(p)
      PROVE  StartupTyped'
  BY <1>2, PostGoesTyped DEF EndPost, StartupTyped, TypeOK, schemaVars
<1>3. CASE Quiet \/ UNCHANGED startupVars
  BY <1>3 DEF Quiet, startupVars, schemaVars, StartupTyped, TypeOK
<1> QED
  BY <1>1, <1>2, <1>3, SelectTyped, InsertTyped DEF Next

\* The rows, the schema, the processes and the handlers have their types
\* whatever the start went through; in particular a row is committed with its
\* code (crud.py), with or without indexes (main.py, lifespan).
THEOREM StartupTypeCorrect == Spec => []TypeOK
<1>1. Init => StartupTyped
  <2> SUFFICES ASSUME Init
               PROVE  StartupTyped
    OBVIOUS
  <2>1. proc \in [Workers -> ProcState]
    BY DEF Init, ProcState
  <2>2. post \in [Posts -> PostState] /\ \A p \in Posts : post[p].pc = "idle"
    BY DEF Init, PostState, OrNull
  <2>3. 1 \in 1..(MaxId + 1) /\ 0 \in 0..MaxCrashes
    BY StoreAssumption, StartupAssumption
  <2> QED
    BY <2>1, <2>2, <2>3 DEF Init, StartupTyped, TypeOK
<1>2. StartupTyped /\ [Next]_startupVars => StartupTyped'
  BY StartupTypedStep
<1>3. StartupTyped => TypeOK
  BY DEF StartupTyped
<1> QED
  BY <1>1, <1>2, <1>3, PTL DEF Spec
=============================================================================
