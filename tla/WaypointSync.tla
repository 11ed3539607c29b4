---------------------------- MODULE WaypointSync ----------------------------
(***************************************************************************)
(* `syncWP`, the import of waypoints (insertWaypointIntoDB of DBManager.cs,*)
(* called by CommandManager.cs), and GET /waypoints (Server.cs), by which  *)
(* a listener task searches the table in the meantime.                     *)
(*                                                                         *)
(* The console thread reads the whole file and executes one statement per  *)
(* item.  What it throws ends the process and leaves the rows there are.   *)
(* An item is its id and its name, as the file has it between its quotation*)
(* marks; its other attributes only travel along.                          *)
(* An item without an id has the id 0, one of Ids.                         *)
(***************************************************************************)
EXTENDS Naturals, Sequences, TextPath, DBManager

CONSTANTS
    Ids,          \* the ids of waypoints
    Files,        \* what waypoints.json may contain: sequences of items, or NotJson
    Keywords,     \* what clients search for: sets of the names that match
    NoRow,        \* no row, and no file
    OtherRow,     \* a row of which a name that left its literal wrote something
    NotJson,      \* the file does not parse
    NotAnObject   \* an item that is no JObject

\* What can be read: another text would make the file NotJson.
Names == {text \in Seq(Characters) : JsonRead(text) # Rejected}

Items == [id : Ids, name : Names]

ASSUME WaypointAssumption ==
    /\ NoRow \notin Files \cup [file : Files, index : Nat]
    /\ OtherRow \notin {NoRow} \cup [file : Files, index : Nat]
    /\ Files \ {NotJson} \subseteq Seq(Items \cup {NotAnObject})

VARIABLES
    table,     \* the table WAYPOINT: a row is the file and the index of its item
    file,      \* waypoints.json
    console,   \* read, in the rows of the file, at the count of rows, or ended
    jArr,      \* the items that have been read
    progress,  \* the number of items the loop has left behind
    task,      \* the listener task: idle, with a search, or ended
    found,     \* the rows of the search, with the names for the client
    base,      \* history: the table when the import started
    skipped    \* history: the indices of statements that met a fault

locals == <<jArr, progress>>
history == <<base, skipped>>
search == <<task, found>>
vars == <<table, file, console, locals, search, history>>

IsRow(r) == r.file \in Files \ {NotJson} /\ r.index \in DOMAIN r.file
ItemOf(r) == r.file[r.index]

TypeOK ==
    /\ \A id \in Ids : table[id] \in {NoRow, OtherRow} \/ IsRow(table[id])
    /\ file \in Files \cup {NoRow}
    /\ console \in {"read", "rows", "count", "ended"}
    /\ jArr \in (Files \ {NotJson}) \cup {<<>>}
    /\ progress \in 0 .. Len(jArr)
    /\ task \in {"idle", "found", "failed", "ended"}
    /\ \A e \in found : e.id \in Ids /\ IsRow(e.row)
    /\ \A id \in Ids : base[id] \in {NoRow, OtherRow} \/ IsRow(base[id])
    /\ skipped \subseteq 1 .. progress

Init ==
    /\ table = [id \in Ids |-> NoRow]
    /\ file = NoRow
    /\ console = "read"
    /\ jArr = <<>> /\ progress = 0
    /\ task = "idle" /\ found = {}
    /\ base = [id \in Ids |-> NoRow]
    /\ skipped = {}

-----------------------------------------------------------------------------
(***************************************************************************)
(* syncWP                                                                  *)
(***************************************************************************)
\* Somebody puts another file in its place.
ReplacesFile(f) == file' = f /\ UNCHANGED <<table, console, locals, search, history>>

\* An exception on the console thread, or anything else, ends the process.
ProcessEnds ==
    /\ console' = "ended"
    /\ task' = "ended" /\ found' = {}

Crashes == console # "ended" /\ ProcessEnds /\ UNCHANGED <<table, file, locals, history>>

\* Deviation: an import goes on where the last one ended.
SyncResumes ==
    /\ console = "read" /\ file \notin {NoRow, NotJson}
    /\ console' = "rows"
    /\ jArr' = file
    /\ progress' = IF progress <= Len(file) THEN progress ELSE 0
    /\ base' = table
    /\ skipped' = {}
    /\ UNCHANGED <<table, file, search>>

SyncStarts ==
    /\ console = "read" /\ file \notin {NoRow, NotJson}
    /\ console' = "rows"
    /\ jArr' = file
    /\ progress' = 0
    /\ base' = table
    /\ skipped' = {}
    /\ UNCHANGED <<table, file, search>>

\* JObject.Parse throws.
ParseThrows ==
    /\ console = "read" /\ file = NotJson
    /\ ProcessEnds
    /\ UNCHANGED <<table, file, locals, history>>

\* The names of the files that stay in their literals.
FileNames ==
    UNION {{f[i].name : i \in {j \in DOMAIN f : f[j] # NotAnObject}} : f \in Files \ {NotJson}}

StoredNames == {name \in FileNames : NameColumn(name) # Rejected}

Stored(item) == item.name \in StoredNames
NextItem == jArr[progress + 1]

\* What a statement may make of the table when its name has left its literal and the
\* rest of it is SQL: mostly nothing, by an error, but it may as well write other
\* rows than that of the item, or delete some.
Strays ==
    {[id \in Ids |->
        IF id \in written THEN OtherRow ELSE IF id \in deleted THEN NoRow ELSE table[id]] :
            written, deleted \in SUBSET Ids}

\* A statement for the next item that reaches the database: an SQL error is
\* written to the console, and the loop goes on.
Statement(outcome, row) ==
    /\ console = "rows" /\ progress < Len(jArr) /\ NextItem # NotAnObject
    /\ ~Throws(outcome)
    /\ \E changed \in IF Stored(NextItem) THEN {row} ELSE Strays :
        table' = ExecuteQuery(outcome, table, changed)
    /\ skipped' = IF outcome = "ok" THEN skipped ELSE skipped \cup {progress + 1}
    /\ UNCHANGED <<file, console, jArr, search, base>>

WithRow(index) == [table EXCEPT ![NextItem.id] = [file |-> jArr, index |-> index]]

\* Deviation: a plain INSERT.
InsertsRow ==
    \E outcome \in Outcomes :
        /\ Statement(outcome, IF table[NextItem.id] = NoRow THEN WithRow(progress + 1) ELSE table)
        /\ progress' = progress + 1

\* Deviation: the statement is repeated until it succeeds.
RetriesRow ==
    \E outcome \in Outcomes :
        /\ Statement(outcome, WithRow(progress + 1))
        /\ progress' = IF outcome = "ok" /\ Stored(NextItem) THEN progress + 1 ELSE progress

\* Deviation: progress is the index of the item, from 0.
UpsertsFromZero ==
    \E outcome \in Outcomes :
        /\ Statement(outcome, WithRow(progress))
        /\ progress' = progress + 1

\* INSERT ... ON DUPLICATE KEY UPDATE.
UpsertsRow ==
    \E outcome \in Outcomes :
        /\ Statement(outcome, WithRow(progress + 1))
        /\ progress' = progress + 1

\* OpenMariaDB throws.
RowThrows ==
    /\ console = "rows" /\ progress < Len(jArr) /\ NextItem # NotAnObject
    /\ \E outcome \in Outcomes : Throws(outcome)
    /\ ProcessEnds
    /\ UNCHANGED <<table, file, locals, history>>

\* The cast of the item to JObject throws.
CastThrows ==
    /\ console = "rows" /\ progress < Len(jArr) /\ NextItem = NotAnObject
    /\ ProcessEnds
    /\ UNCHANGED <<table, file, locals, history>>

RowsEnd ==
    /\ console = "rows" /\ progress = Len(jArr)
    /\ console' = "count"
    /\ UNCHANGED <<table, file, locals, search, history>>

\* The number of rows is printed; a Select that failed has no Tables[0].
Counts ==
    /\ console = "count"
    /\ \E outcome \in Outcomes :
        \/ HasTable(outcome) /\ console' = "read" /\ UNCHANGED search
        \/ ~HasTable(outcome) /\ ProcessEnds
    /\ UNCHANGED <<table, file, locals, history>>

Restarts ==
    /\ console = "ended"
    /\ console' = "read" /\ jArr' = <<>> /\ progress' = 0
    /\ task' = "idle"
    /\ base' = table /\ skipped' = {}
    /\ UNCHANGED <<table, file, found>>

-----------------------------------------------------------------------------
(***************************************************************************)
(* GET /waypoints                                                          *)
(***************************************************************************)
\* The name a row has in the table, and the one a client is sent.
NameOf(r) == NameColumn(ItemOf(r).name)
Sends(r) == Response(NameOf(r))

Found(keyword) ==
    {id \in Ids : table[id] \notin {NoRow, OtherRow} /\ NameOf(table[id]) \in keyword}

\* One Select; every exception is caught, and the answer is empty then.  A row that
\* SQL in a name has written may be in the answer, which is not followed, or may
\* not be converted.
Searches(keyword) ==
    /\ task = "idle"
    /\ \E outcome \in Outcomes :
        \/ /\ HasTable(outcome)
           /\ task' = "found"
           /\ found' = {[id |-> id, row |-> table[id], name |-> Sends(table[id])] :
                            id \in Found(keyword)}
        \/ /\ ~HasTable(outcome) \/ \E id \in Ids : table[id] = OtherRow
           /\ task' = "failed" /\ found' = {}
    /\ UNCHANGED <<table, file, console, locals, history>>

\* The answer is sent, or the client is gone and the task ends.
Replies ==
    /\ task \in {"found", "failed"} /\ task' \in {"idle", "ended"}
    /\ found' = {}
    /\ UNCHANGED <<table, file, console, locals, history>>

\* The operator stops and starts the server: there is a task again.
TaskRestarts ==
    /\ task = "ended" /\ console = "read"
    /\ task' = "idle"
    /\ UNCHANGED <<table, file, console, locals, found, history>>

-----------------------------------------------------------------------------
ConsoleGoesOn == UpsertsRow \/ CastThrows \/ RowsEnd \/ Counts

Next ==
    \/ \E f \in Files : ReplacesFile(f)
    \/ SyncStarts \/ ParseThrows \/ ConsoleGoesOn \/ RowThrows \/ Crashes \/ Restarts
    \/ \E keyword \in Keywords : Searches(keyword)
    \/ Replies \/ TaskRestarts

Spec == Init /\ [][Next]_vars

\* The console thread runs, and its statements return.
FairSpec == Spec /\ WF_vars(ConsoleGoesOn)

-----------------------------------------------------------------------------
(***************************************************************************)
(* Properties                                                              *)
(***************************************************************************)
Done == {i \in 1 .. progress : jArr[i] # NotAnObject}

\* What the SQL in a name may leave of a row.
Astray == {NoRow, OtherRow}

\* At any moment of an import, and where one has been cut off, the table is the
\* one before it with the items up to this moment laid over it: of the items with
\* an id that were stored the last, and what the import did not reach unchanged.
\* Only the SQL of a name that has left its literal may have come over a row, and
\* only of one after the last item of the row.
ImportedPrefix ==
    \A id \in Ids :
        LET Of == {i \in Done \ skipped : jArr[i].id = id /\ Stored(jArr[i])}
            Left == {i \in Done \ skipped : ~Stored(jArr[i])}
        IN  /\ Of = {} => table[id] = base[id] \/ (table[id] \in Astray /\ Left # {})
            /\ \A i \in Of : (\A j \in Of : j <= i) =>
                \/ table[id] = [file |-> jArr, index |-> i]
                \/ table[id] \in Astray /\ \E j \in Left : i < j

\* The name does not have the escapes \\, \u0027 and \' in the file.
Plain(item) ==
    LET units == Units(item.name, {})
    IN  \A i \in DOMAIN units :
            units[i] \notin {<<"backslash", "backslash">>, <<"backslash", "u0027">>, <<"backslash", "quote">>}

\* An import that ends without a fault leaves nothing out, whatever cut off the
\* imports before it: the last item of every id of the file is in the table, if its
\* name is plain and those after it are.  Apostrophes that are written as such,
\* quotation marks and line ends do no harm.  (An apostrophe that the file has as
\* \u0027 does: it is not there yet when the apostrophes of the file are replaced.)
ImportComplete ==
    console = "count" /\ skipped = {} =>
        \A i \in DOMAIN jArr :
            /\ \A j \in DOMAIN jArr : i <= j => Plain(jArr[j])
            /\ \A j \in DOMAIN jArr : i < j => jArr[j].id # jArr[i].id
            => table[jArr[i].id] = [file |-> jArr, index |-> i]

\* A client is sent the name that the file says, with an apostrophe for every u0027,
\* if it is plain: replaced before the file is parsed and restored after the answer
\* is serialized, its apostrophes are the same.
SearchReadsBack ==
    \A e \in found :
        Plain(ItemOf(e.row)) => e.name = Unquote(JsonRead(ItemOf(e.row).name))

\* An import ends, by its last line or with the process.
ImportEnds == console \in {"rows", "count"} ~> console \in {"read", "ended"}
=============================================================================
