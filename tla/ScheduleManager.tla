-------------------------- MODULE ScheduleManager --------------------------
(***************************************************************************)
(* Schedules and shared schedules (ScheduleManager.cs with the handlers    *)
(* POST /schedule and POST /sharedschedule of Server.cs).  A post is       *)
(* written to the dictionary and to the database; the first Select, asked  *)
(* twice, decides between INSERT and UPDATE.  `start` reloads the schedule *)
(* dictionary from the database on the console thread.                     *)
(*                                                                         *)
(* Posts are numbered in the order they arrive, and the number stands for  *)
(* all the post contains; 0 is no row and no entry.  The id of a post that *)
(* could not be parsed is one of Ids as well.                              *)
(***************************************************************************)
EXTENDS Naturals, DBManager

CONSTANTS
    Workers,    \* the listener tasks that may be handling a request
    Ids,        \* the ids of schedules
    None,       \* no post
    MaxPosts    \* bound: the number of posts

ASSUME ScheduleAssumption == MaxPosts \in Nat

VARIABLES
    table,       \* the tables SCHEDULE and SHAREDSCHEDULE
    dictionary,  \* scheduleDic and sharedScheduleDic
    blank,       \* the entries of scheduleDic whose waypoints are blank
    posts,       \* how many posts have arrived
    pc, post,    \* every worker: its next statement, the post it handles
    console,     \* syncDBToDictionary: not running, at its Select, in its loop
    rows,        \* the rows the loop has still to load
    loaded,      \* `start` has loaded the dictionary: requests may arrive
    answered,    \* history: the newest post to every id that has been answered
    troubles     \* history: the faults there were, and whether handlers overlapped

handlers == <<posts, pc, post, answered>>
sync == <<console, rows, loaded>>
vars == <<table, dictionary, blank, posts, pc, post, console, rows, loaded, answered, troubles>>

Kinds == {"schedule", "sharedschedule"}
Versions == 0 .. MaxPosts
Posts == [kind : Kinds, id : Ids, version : Versions]
Store == [Kinds -> [Ids -> Versions]]
Empty == [id \in Ids |-> 0]

TypeOK ==
    /\ table \in Store
    /\ dictionary \in Store
    /\ blank \subseteq Ids
    /\ posts \in Versions
    /\ pc \in [Workers -> {"idle", "select", "selectAgain", "addNew", "insert", "addOld", "update"}]
    /\ post \in [Workers -> Posts \cup {None}]
    /\ console \in {"idle", "select", "load"}
    /\ rows \in [Ids -> Versions]
    /\ loaded \in BOOLEAN
    /\ answered \in Store
    /\ troubles \subseteq Faults \cup {"overlap"}

Init ==
    /\ table = [k \in Kinds |-> Empty]
    /\ dictionary = [k \in Kinds |-> Empty]
    /\ blank = {}
    /\ posts = 0
    /\ pc = [w \in Workers |-> "idle"]
    /\ post = [w \in Workers |-> None]
    /\ console = "idle"
    /\ rows = Empty
    /\ loaded = FALSE
    /\ answered = [k \in Kinds |-> Empty]
    /\ troubles = {}

Quiet == \A w \in Workers : pc[w] = "idle"
Acts == troubles' = IF Quiet THEN troubles ELSE troubles \cup {"overlap"}
Meets(outcome) == troubles' = troubles \cup ({outcome} \ {"ok"})
Goes(w, from, to) == pc[w] = from /\ pc' = [pc EXCEPT ![w] = to]
RowOf(p) == table[p.kind][p.id]

-----------------------------------------------------------------------------
(***************************************************************************)
(* addSchedule and addSharedSchedule                                       *)
(***************************************************************************)
Receives(w, kind, id) ==
    /\ loaded /\ console = "idle"
    /\ Acts
    /\ posts < MaxPosts
    /\ posts' = posts + 1
    /\ post' = [post EXCEPT ![w] = [kind |-> kind, id |-> id, version |-> posts + 1]]
    /\ Goes(w, "idle", "select")
    /\ UNCHANGED <<table, dictionary, blank, answered, sync>>

Finishes(w, from) ==
    /\ Goes(w, from, "idle")
    /\ post' = [post EXCEPT ![w] = None]
    /\ UNCHANGED posts

\* The response is closed.
Answers(w, from) ==
    /\ Finishes(w, from)
    /\ answered' = [answered EXCEPT ![post[w].kind][post[w].id] =
                        IF @ < post[w].version THEN post[w].version ELSE @]

\* Deviation: POST /schedule catches every exception as well.
HandlerThrowsCaught(w, from) == Answers(w, from)

\* POST /sharedschedule catches every exception and answers all the same; the
\* exceptions of POST /schedule end the task.
HandlerThrows(w, from) ==
    \/ Answers(w, from) /\ post[w].kind = "sharedschedule"
    \/ Finishes(w, from) /\ post[w].kind = "schedule" /\ UNCHANGED answered

Continues(w, from, to) == Goes(w, from, to) /\ UNCHANGED <<posts, post, answered>>

\* Tables.Count > 0: a Select that failed leads to the UPDATE.
Selects(w) ==
    /\ \E outcome \in Outcomes :
        /\ Meets(outcome)
        /\ \/ HasTable(outcome) /\ Continues(w, "select", "selectAgain")
           \/ ~HasTable(outcome) /\ ~Throws(outcome) /\ Continues(w, "select", "addOld")
           \/ Throws(outcome) /\ HandlerThrows(w, "select")
    /\ UNCHANGED <<table, dictionary, blank, sync>>

\* Tables[0].Rows.Count < 1, of the same query sent again: a Select that
\* failed throws here.
SelectsAgain(w) ==
    /\ \E outcome \in Outcomes :
        /\ Meets(outcome)
        /\ \/ /\ HasTable(outcome)
              /\ Continues(w, "selectAgain", IF RowOf(post[w]) = 0 THEN "addNew" ELSE "addOld")
           \/ ~HasTable(outcome) /\ HandlerThrows(w, "selectAgain")
    /\ UNCHANGED <<table, dictionary, blank, sync>>

\* Deviation: the entry is null until the statement has been executed.
AddsNull(w) ==
    /\ Continues(w, "addNew", "insert") \/ Continues(w, "addOld", "update")
    /\ dictionary' = [dictionary EXCEPT ![post[w].kind][post[w].id] = None]
    /\ UNCHANGED <<table, blank, sync, troubles>>

\* Deviation: only the branch of the INSERT writes the dictionary.
AddsNew(w) ==
    \/ /\ Continues(w, "addNew", "insert")
       /\ dictionary' = [dictionary EXCEPT ![post[w].kind][post[w].id] = post[w].version]
       /\ UNCHANGED <<table, blank, sync, troubles>>
    \/ /\ Continues(w, "addOld", "update")
       /\ UNCHANGED <<table, dictionary, blank, sync, troubles>>

\* Deviation: TryAdd, which keeps an entry that exists.
AddsOnce(w) ==
    /\ Continues(w, "addNew", "insert") \/ Continues(w, "addOld", "update")
    /\ dictionary' = [dictionary EXCEPT ![post[w].kind][post[w].id] =
                        IF @ = 0 THEN post[w].version ELSE @]
    /\ UNCHANGED <<table, blank, sync, troubles>>

\* The entry of the dictionary is replaced before the statement is executed.
Adds(w) ==
    /\ Continues(w, "addNew", "insert") \/ Continues(w, "addOld", "update")
    /\ dictionary' = [dictionary EXCEPT ![post[w].kind][post[w].id] = post[w].version]
    /\ blank' = IF post[w].kind = "schedule" THEN blank \ {post[w].id} ELSE blank
    /\ UNCHANGED <<table, sync, troubles>>

\* INSERT of an id that exists by now is an SQL error; UPDATE of one that
\* does not exist changes no row.
Executes(w) ==
    \E outcome \in Outcomes, statement \in {"insert", "update"} :
        /\ Meets(outcome)
        /\ \/ Throws(outcome) /\ HandlerThrows(w, statement)
           \/ ~Throws(outcome) /\ Answers(w, statement)
        /\ table' = ExecuteQuery(outcome, table,
                        IF (statement = "insert") = (RowOf(post[w]) = 0)
                        THEN [table EXCEPT ![post[w].kind][post[w].id] = post[w].version]
                        ELSE table)
        /\ UNCHANGED <<dictionary, blank, sync>>

-----------------------------------------------------------------------------
(***************************************************************************)
(* syncDBToDictionary                                                      *)
(***************************************************************************)
SyncClears ==
    /\ console = "idle" /\ console' = "select"
    /\ Acts
    /\ dictionary' = [dictionary EXCEPT !["schedule"] = Empty]
    /\ blank' = {}
    /\ UNCHANGED <<table, handlers, rows, loaded>>

\* A Select that failed leaves the dictionary empty.
SyncSelects ==
    /\ console = "select" /\ console' = "load"
    /\ \E outcome \in Outcomes :
        /\ Meets(outcome)
        /\ \/ HasTable(outcome) /\ rows' = table["schedule"]
           \/ ~HasTable(outcome) /\ ~Throws(outcome) /\ rows' = Empty
    /\ UNCHANGED <<table, dictionary, blank, handlers, loaded>>

\* The waypoints were stored under the names of the C# properties ("ID",
\* "Name", ...) and are looked up as "id", "name", ...: all are defaults.
SyncLoads(id) ==
    /\ console = "load" /\ rows[id] # 0
    /\ dictionary' = [dictionary EXCEPT !["schedule"][id] = rows[id]]
    /\ blank' = blank \cup {id}
    /\ rows' = [rows EXCEPT ![id] = 0]
    /\ UNCHANGED <<table, handlers, console, loaded, troubles>>

\* Deviation: the loop ends before the last row.
SyncReturnsEarly ==
    /\ console = "load" /\ console' = "idle"
    /\ rows' = Empty
    /\ loaded' = TRUE
    /\ UNCHANGED <<table, dictionary, blank, handlers, troubles>>

SyncReturns ==
    /\ console = "load" /\ rows = Empty
    /\ console' = "idle"
    /\ loaded' = TRUE
    /\ UNCHANGED <<table, dictionary, blank, handlers, rows, troubles>>

\* The process ends, for instance because syncDBToDictionary threw, and is
\* started again.
Restarts ==
    /\ dictionary' = [k \in Kinds |-> Empty]
    /\ blank' = {}
    /\ pc' = [w \in Workers |-> "idle"]
    /\ post' = [w \in Workers |-> None]
    /\ console' = "idle"
    /\ rows' = Empty
    /\ loaded' = FALSE
    /\ UNCHANGED <<table, posts, answered, troubles>>

-----------------------------------------------------------------------------
Next ==
    \/ \E w \in Workers, kind \in Kinds, id \in Ids : Receives(w, kind, id)
    \/ \E w \in Workers : Selects(w) \/ SelectsAgain(w) \/ Adds(w) \/ Executes(w)
    \/ SyncClears \/ SyncSelects \/ SyncReturns
    \/ \E id \in Ids : SyncLoads(id)
    \/ Restarts

Spec == Init /\ [][Next]_vars

-----------------------------------------------------------------------------
(***************************************************************************)
(* Properties                                                              *)
(***************************************************************************)
Serving == loaded /\ console = "idle"

\* If nothing failed and no handlers overlapped, the dictionaries agree with the
\* tables between requests, whatever was restarted; shared schedules are not
\* reloaded, and may be missing.
WriteThrough ==
    troubles = {} /\ Serving /\ Quiet =>
        /\ dictionary["schedule"] = table["schedule"]
        /\ \A id \in Ids :
            dictionary["sharedschedule"][id] \in {0, table["sharedschedule"][id]}

\* Without overlapping handlers and swallowed errors, lost connections may put a
\* dictionary ahead of its table, and the table ahead of what was answered:
\* no answered post is lost or goes back to an older one.
NotBehind ==
    troubles \subseteq {"noConnection"} /\ Serving =>
        \A id \in Ids :
            /\ answered["schedule"][id] <= table["schedule"][id]
            /\ table["schedule"][id] <= dictionary["schedule"][id]
            /\ dictionary["sharedschedule"][id] # 0 =>
                table["sharedschedule"][id] <= dictionary["sharedschedule"][id]

\* Without overlapping handlers, whatever fails, the only thing ever written to
\* a row is the current entry of the dictionary.
DatabaseFollowsDictionary ==
    [][\A k \in Kinds, id \in Ids :
        "overlap" \notin troubles' /\ table'[k][id] # table[k][id] =>
            table'[k][id] = dictionary[k][id]]_vars

\* As long as no statement has failed with an SQL error, a schedule whose post has
\* been answered has a row, even if two tasks raced to insert it, or the process
\* ended.  Of shared schedules this also needs that every connection was made:
\* their handler hides the exception.
AnsweredIsStored ==
    \A k \in Kinds, id \in Ids :
        /\ answered[k][id] # 0
        /\ "sqlError" \notin troubles
        /\ k = "schedule" \/ "noConnection" \notin troubles
        => table[k][id] # 0

\* ScheduleManager.cs:55 reports the schedules as loaded: what has been loaded
\* has the waypoints that were stored.
LoadReadsBack == Serving => blank = {}
=============================================================================
