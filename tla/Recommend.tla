----------------------------- MODULE Recommend -----------------------------
(***************************************************************************)
(* GET /recommend (Server.cs, convertDataRowToSharedSchedule of            *)
(* ScheduleManager.cs) and the texts it finds in SHAREDSCHEDULE.  POST     *)
(* /sharedschedule is one step here: its statements are in ScheduleManager,*)
(* what they make of its texts in TextPath.                                *)
(*                                                                         *)
(* A post has a title, for the columns that take a text as it is, and a    *)
(* content, for the one that has it in JSON.                               *)
(***************************************************************************)
EXTENDS Naturals, FiniteSets, TextPath, DBManager

CONSTANTS
    SharedIds,       \* the ids of shared schedules
    PostsOf,         \* the posts there may be to every id
    NoRow,           \* no row, and no post
    OtherRow,        \* a row of which a text that left its literal wrote something
    RecommendLimit   \* the 20 of the loop

ASSUME RecommendAssumption ==
    /\ IsFiniteSet(SharedIds)
    /\ \A id \in SharedIds : \A p \in PostsOf[id] :
        p \in [title : Seq(Characters), content : Seq(Characters)] /\ p # NoRow
    /\ OtherRow # NoRow /\ OtherRow \notin [title : Seq(Characters), content : Seq(Characters)]
    /\ RecommendLimit \in Nat

VARIABLES
    shared,    \* the table SHAREDSCHEDULE
    task,      \* the listener task: idle, in /recommend, or ended
    snapshot,  \* the ids of the rows the loop has still to visit
    list,      \* recommendList
    count,     \* the local count
    sent       \* history: the last post to every id that met no fault

locals == <<snapshot, list, count>>
vars == <<shared, task, snapshot, list, count, sent>>

AllPosts == UNION {PostsOf[id] : id \in SharedIds}
IsRow(row) == DOMAIN row = {"title", "content"} /\ Rejected \notin {row.title, row.content}
Rows == {id \in SharedIds : shared[id] # NoRow}

TypeOK ==
    /\ \A id \in SharedIds : shared[id] \in {NoRow, OtherRow} \/ IsRow(shared[id])
    /\ task \in {"idle", "select", "loop", "reply", "ended"}
    /\ snapshot \subseteq SharedIds
    /\ \A e \in list : e.id \in SharedIds
    /\ count \in Nat
    /\ sent \in [SharedIds -> AllPosts \cup {NoRow}]

Init ==
    /\ shared = [id \in SharedIds |-> NoRow]
    /\ task = "idle"
    /\ snapshot = {} /\ list = {} /\ count = 0
    /\ sent = [id \in SharedIds |-> NoRow]

-----------------------------------------------------------------------------
\* The row of a post whose texts stay in their literals.
RowOf(p) == [title |-> PlainColumn(p.title), content |-> JsonColumn(p.content)]

\* Deviation: only the text in JSON is looked at.
FitsContent(p) == JsonColumn(p.content) # Rejected

Fits(p) == PlainColumn(p.title) # Rejected /\ JsonColumn(p.content) # Rejected

\* What a statement may make of the table when a text has left its literal and the
\* rest of it is SQL: mostly nothing, by an error, but it may as well write other
\* rows than that of the post, or all of them, or delete some.
Strays ==
    {[id \in SharedIds |->
        IF id \in written THEN OtherRow ELSE IF id \in deleted THEN NoRow ELSE shared[id]] :
            written, deleted \in SUBSET SharedIds}

\* POST /sharedschedule: whatever fails is swallowed or caught.
PostSharedSchedule(id, p) ==
    /\ task = "idle"
    /\ \E outcome \in Outcomes :
        /\ \E changed \in IF Fits(p) THEN {[shared EXCEPT ![id] = RowOf(p)]} ELSE Strays :
            shared' = ExecuteQuery(outcome, shared, changed)
        /\ sent' = IF outcome = "ok" THEN [sent EXCEPT ![id] = p] ELSE sent
    /\ UNCHANGED <<task, locals>>

\* The handler ends, or an exception ends it and its task.
Leaves(to) ==
    /\ task' = to
    /\ snapshot' = {} /\ list' = {} /\ count' = 0
    /\ UNCHANGED <<shared, sent>>

\* The first Select, of which only the number of rows is printed.
Counts ==
    /\ task = "idle"
    /\ \E outcome \in Outcomes :
        \/ HasTable(outcome) /\ task' = "select" /\ UNCHANGED <<shared, locals, sent>>
        \/ ~HasTable(outcome) /\ Leaves("ended")

\* The second one: all rows, in random order.
Selects ==
    /\ task = "select"
    /\ \E outcome \in Outcomes :
        \/ /\ HasTable(outcome)
           /\ task' = "loop"
           /\ snapshot' = Rows
           /\ UNCHANGED <<shared, list, count, sent>>
        \/ ~HasTable(outcome) /\ Leaves("ended")

\* convertDataRowToSharedSchedule, as far as texts go, and what the client gets
\* of its result.  JArray.Parse throws if there is no JSON in the column (any more):
\* of another row than that of a post nothing is known.
MayConvert(row) == IF row = OtherRow THEN TRUE ELSE JsonRead(row.content) # Rejected
MayThrow(row) == IF row = OtherRow THEN TRUE ELSE JsonRead(row.content) = Rejected

Converts(row) ==
    IF row = OtherRow THEN OtherRow
    ELSE [title |-> Response(row.title), content |-> Response(JsonRead(row.content))]

\* Deviation: count++ >= 20.
VisitsFewer(id) ==
    /\ task = "loop" /\ id \in snapshot
    /\ MayConvert(shared[id])
    /\ list' = list \cup {[id |-> id, sent |-> Converts(shared[id])]}
    /\ count' = count + 1
    /\ snapshot' = snapshot \ {id}
    /\ task' = IF count >= RecommendLimit THEN "reply" ELSE "loop"
    /\ UNCHANGED <<shared, sent>>

\* A row is added to the list before the count is compared.
Visits(id) ==
    /\ task = "loop" /\ id \in snapshot
    /\ MayConvert(shared[id])
    /\ list' = list \cup {[id |-> id, sent |-> Converts(shared[id])]}
    /\ count' = count + 1
    /\ snapshot' = snapshot \ {id}
    /\ task' = IF count > RecommendLimit THEN "reply" ELSE "loop"
    /\ UNCHANGED <<shared, sent>>

VisitThrows(id) ==
    /\ task = "loop" /\ id \in snapshot
    /\ MayThrow(shared[id])
    /\ Leaves("ended")

LoopEnds ==
    /\ task = "loop" /\ snapshot = {}
    /\ task' = "reply"
    /\ UNCHANGED <<shared, locals, sent>>

Replies == task = "reply" /\ Leaves("idle")

\* The client is gone.
ReplyThrows == task = "reply" /\ Leaves("ended")

\* The operator stops and starts the server: there is a task again.
Restarts ==
    /\ task = "ended" /\ task' = "idle"
    /\ UNCHANGED <<shared, locals, sent>>

-----------------------------------------------------------------------------
Next ==
    \/ \E id \in SharedIds : \E p \in PostsOf[id] : PostSharedSchedule(id, p)
    \/ Counts \/ Selects \/ LoopEnds
    \/ \E id \in SharedIds : Visits(id) \/ VisitThrows(id)
    \/ Replies \/ ReplyThrows \/ Restarts

Spec == Init /\ [][Next]_vars

-----------------------------------------------------------------------------
(***************************************************************************)
(* Properties                                                              *)
(***************************************************************************)
Has(text, characters) == \E i \in DOMAIN text : text[i] \in characters

\* `count++ > 20` lets two more rows than 20 into the answer, and never fewer
\* than there are below that.
RecommendsUpTo ==
    task = "reply" =>
        LET all == Cardinality(Rows)
        IN  Cardinality(list) = IF all < RecommendLimit + 2 THEN all ELSE RecommendLimit + 2

\* What is recommended is what was posted, if the texts of the row are those of a
\* post: apostrophes, line ends and the u0027 that stands for an apostrophe survive
\* the way through JSON, SQL and JSON again.  Titles with an apostrophe do not, nor
\* contents with a character that the encoder escapes (a double quote, < > & + `,
\* an emoji), and nothing with a backslash.
SharedReadsBack ==
    \A e \in list :
        LET p == sent[e.id]
        IN  /\ e.sent # OtherRow
            /\ ~Has(p.title, {"quote", "u0027", "backslash"})
            /\ ~Has(p.content, {"dquote", "special", "backslash"})
            => e.sent = [title |-> p.title, content |-> Unquote(p.content)]

\* No row of a post ends the task of everyone who is recommended it, unless there is
\* a backslash in its content: with whatever else its texts are written, they can
\* be converted.  Rows that SQL in a text has written may end it, too.
OrdinaryTextsConvert ==
    [][task = "loop" /\ task' = "ended" =>
        \E id \in snapshot :
            \/ shared[id] = OtherRow
            \/ \E p \in PostsOf[id] : shared[id] = RowOf(p) /\ Has(p.content, {"backslash"})]_vars
=============================================================================
