--------------------------- MODULE ClientManager ---------------------------
(***************************************************************************)
(* The users (ClientManager.cs with the handler POST /users of Server.cs). *)
(* Unlike a schedule, a user is entered in the dictionary before the first *)
(* query, and no exception is caught.  Nothing ever reads the table back.  *)
(* Tasks that overlap may make two managers (see ImageManager) and lose    *)
(* entries of the dictionary: here an entry is never lost, and what the    *)
(* properties say of the dictionary is limited to handlers in turn.        *)
(*                                                                         *)
(* Posts are numbered in the order they arrive, and the number stands for  *)
(* the name and profile posted; 0 is no row and no entry.                  *)
(***************************************************************************)
EXTENDS Naturals, DBManager

CONSTANTS
    Workers,    \* the listener tasks that may be handling a request
    Uids,       \* the users; one of them is 0, for a post without a uid
    None,       \* no user
    MaxPosts    \* bound: the number of posts

ASSUME ClientAssumption == MaxPosts \in Nat /\ None \notin Uids

VARIABLES
    user,              \* the table USER
    clientDictionary,
    posts,             \* how many posts have arrived
    pc,                \* every worker's next statement
    uid, version,      \* the user it handles
    answered,          \* history: the newest post of every user that was answered
    troubles           \* history: the faults there were, and whether handlers overlapped

vars == <<user, clientDictionary, posts, pc, uid, version, answered, troubles>>

Versions == 0 .. MaxPosts

TypeOK ==
    /\ user \in [Uids -> Versions]
    /\ clientDictionary \in [Uids -> Versions]
    /\ posts \in Versions
    /\ pc \in [Workers -> {"idle", "add", "select", "insert", "update"}]
    /\ uid \in [Workers -> Uids \cup {None}]
    /\ version \in [Workers -> Versions]
    /\ answered \in [Uids -> Versions]
    /\ troubles \subseteq Faults \cup {"overlap"}

Init ==
    /\ user = [u \in Uids |-> 0]
    /\ clientDictionary = [u \in Uids |-> 0]
    /\ posts = 0
    /\ pc = [w \in Workers |-> "idle"]
    /\ uid = [w \in Workers |-> None]
    /\ version = [w \in Workers |-> 0]
    /\ answered = [u \in Uids |-> 0]
    /\ troubles = {}

Quiet == \A w \in Workers : pc[w] = "idle"
Meets(outcome) == troubles' = troubles \cup ({outcome} \ {"ok"})
Goes(w, from, to) == pc[w] = from /\ pc' = [pc EXCEPT ![w] = to]

Receives(w, u) ==
    /\ troubles' = IF Quiet THEN troubles ELSE troubles \cup {"overlap"}
    /\ posts < MaxPosts
    /\ posts' = posts + 1
    /\ Goes(w, "idle", "add")
    /\ uid' = [uid EXCEPT ![w] = u]
    /\ version' = [version EXCEPT ![w] = posts + 1]
    /\ UNCHANGED <<user, clientDictionary, answered>>

Finishes(w, from) ==
    /\ Goes(w, from, "idle")
    /\ uid' = [uid EXCEPT ![w] = None]
    /\ version' = [version EXCEPT ![w] = 0]
    /\ UNCHANGED <<clientDictionary, posts>>

\* Deviation: the entry is null until the statement has been executed.
AddsNull(w) ==
    /\ Goes(w, "add", "select")
    /\ clientDictionary' = [clientDictionary EXCEPT ![uid[w]] = None]
    /\ UNCHANGED <<user, posts, uid, version, answered, troubles>>

\* Deviation: TryAdd, which keeps an entry that exists.
AddsOnce(w) ==
    /\ Goes(w, "add", "select")
    /\ clientDictionary' = [clientDictionary EXCEPT ![uid[w]] = IF @ = 0 THEN version[w] ELSE @]
    /\ UNCHANGED <<user, posts, uid, version, answered, troubles>>

Adds(w) ==
    /\ Goes(w, "add", "select")
    /\ clientDictionary' = [clientDictionary EXCEPT ![uid[w]] = version[w]]
    /\ UNCHANGED <<user, posts, uid, version, answered, troubles>>

\* Deviation: a Select that failed is taken for one that found the user.
SelectsCatching(w) ==
    \E outcome \in Outcomes :
        /\ Goes(w, "select", IF HasTable(outcome) /\ user[uid[w]] = 0 THEN "insert" ELSE "update")
        /\ Meets(outcome)
        /\ UNCHANGED <<user, clientDictionary, posts, uid, version, answered>>

\* A Select that failed has no Tables[0]: the handler throws.
Selects(w) ==
    \E outcome \in Outcomes :
        /\ Meets(outcome)
        /\ \/ /\ HasTable(outcome)
              /\ Goes(w, "select", IF user[uid[w]] # 0 THEN "update" ELSE "insert")
              /\ UNCHANGED <<clientDictionary, posts, uid, version>>
           \/ ~HasTable(outcome) /\ Finishes(w, "select")
        /\ UNCHANGED <<user, answered>>

\* INSERT of a user that exists by now is an SQL error.
Executes(w) ==
    \E outcome \in Outcomes, statement \in {"insert", "update"} :
        /\ Meets(outcome)
        /\ Finishes(w, statement)
        /\ user' = ExecuteQuery(outcome, user,
                        IF (statement = "insert") = (user[uid[w]] = 0)
                        THEN [user EXCEPT ![uid[w]] = version[w]] ELSE user)
        /\ answered' = IF Throws(outcome) \/ version[w] < answered[uid[w]] THEN answered
                       ELSE [answered EXCEPT ![uid[w]] = version[w]]

\* The process ends and is started again.
Restarts ==
    /\ clientDictionary' = [u \in Uids |-> 0]
    /\ pc' = [w \in Workers |-> "idle"]
    /\ uid' = [w \in Workers |-> None]
    /\ version' = [w \in Workers |-> 0]
    /\ UNCHANGED <<user, posts, answered, troubles>>

Next ==
    \/ \E w \in Workers, u \in Uids : Receives(w, u)
    \/ \E w \in Workers : Adds(w) \/ Selects(w) \/ Executes(w)
    \/ Restarts

Spec == Init /\ [][Next]_vars

-----------------------------------------------------------------------------
(***************************************************************************)
(* Properties                                                              *)
(***************************************************************************)

\* Without overlapping handlers the dictionary has the newest post of a user,
\* or none since the restart; failures leave the table behind it, never ahead.
NeverAhead ==
    "overlap" \notin troubles =>
        \A u \in Uids :
            /\ clientDictionary[u] # 0 => user[u] <= clientDictionary[u]
            /\ \A w \in Workers : uid[w] = u => user[u] < version[w]

\* As long as no statement fails half-way, a user whose post has been answered
\* has a row, although two tasks may have decided to insert it; and a row that
\* is no older than that post, if no handlers overlapped.
AnsweredIsStored ==
    "sqlError" \notin troubles =>
        \A u \in Uids :
            /\ answered[u] # 0 => user[u] # 0
            /\ "overlap" \notin troubles => answered[u] <= user[u]
=============================================================================
