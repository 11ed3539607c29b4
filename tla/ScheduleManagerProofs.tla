------------------------ MODULE ScheduleManagerProofs ------------------------
(***************************************************************************)
(* Proofs about ScheduleManager, for every set of workers and ids and any  *)
(* number of posts.                                                        *)
(***************************************************************************)
EXTENDS ScheduleManager, TLAPS

(***************************************************************************)
(* Types                                                                   *)
(***************************************************************************)
\* A handler has a post, and everything stored has been posted.
TypeInv ==
    /\ TypeOK
    /\ \A w \in Workers : pc[w] # "idle" => post[w] \in Posts /\ post[w].version \in 1 .. posts
    /\ \A k \in Kinds, id \in Ids : table[k][id] <= posts /\ dictionary[k][id] <= posts
    /\ \A id \in Ids : rows[id] <= posts

\* The stores differ in the place of one post at most, and there t has the old
\* value or that of the post.
OnlyAt(s, t, p) ==
    /\ t \in Store
    /\ \A k \in Kinds, id \in Ids : k # p.kind \/ id # p.id => t[k][id] = s[k][id]
    /\ t[p.kind][p.id] \in {s[p.kind][p.id], p.version}

\* A handler goes on to another statement, or it ends.
Moves(w, to) == pc' = [pc EXCEPT ![w] = to] /\ UNCHANGED <<post, answered, posts>>

Ends(w) ==
    /\ pc' = [pc EXCEPT ![w] = "idle"]
    /\ post' = [post EXCEPT ![w] = None]
    /\ OnlyAt(answered, answered', post[w])
    /\ UNCHANGED posts

Failed == "noConnection" \in troubles' \/ "sqlError" \in troubles'

\* An assignment to the entry of one post.
LEMMA CellUpdate ==
  ASSUME NEW s \in Store, NEW p \in Posts, NEW v \in {s[p.kind][p.id], p.version},
         NEW t, t = [s EXCEPT ![p.kind][p.id] = v]
  PROVE  OnlyAt(s, t, p) /\ t[p.kind][p.id] = v
  <1>1. /\ p.kind \in Kinds /\ p.id \in Ids /\ p.version \in Versions
        /\ s[p.kind] \in [Ids -> Versions]
    BY DEF Posts, Store
  <1>2. v \in Versions
    BY <1>1
  <1>3. t = [s EXCEPT ![p.kind] = [s[p.kind] EXCEPT ![p.id] = v]]
    OBVIOUS
  <1>4. [s[p.kind] EXCEPT ![p.id] = v] \in [Ids -> Versions]
    BY <1>1, <1>2
  <1>5. t \in Store
    BY <1>1, <1>3, <1>4 DEF Store
  <1>6. QED
    BY <1>1, <1>3, <1>5 DEF OnlyAt, Store

\* Nothing is no change.
LEMMA CellUnchanged ==
  ASSUME NEW s \in Store, NEW p \in Posts
  PROVE  OnlyAt(s, s, p)
  BY DEF OnlyAt

\* The faults of a statement are among those assumed, and are remembered.
LEMMA MeetsType ==
  ASSUME troubles \subseteq Faults \cup {"overlap"}, NEW outcome \in Outcomes, Meets(outcome)
  PROVE  /\ troubles' \subseteq Faults \cup {"overlap"} /\ troubles \subseteq troubles'
         /\ outcome # "ok" => outcome \in troubles'
         /\ outcome \in {"ok", "noConnection", "sqlError"}
  BY FaultsAssumption DEF Meets, Outcomes

\* A handler that is left by an answer or an exception.
LEMMA AnswersEnds ==
  ASSUME TypeInv, NEW w \in Workers, NEW from, from # "idle", Answers(w, from)
  PROVE  Ends(w) /\ pc[w] = from
  <1>1. /\ pc[w] = from /\ pc' = [pc EXCEPT ![w] = "idle"]
        /\ post' = [post EXCEPT ![w] = None] /\ posts' = posts
    BY DEF Answers, Finishes, Goes
  <1>2. post[w] \in Posts /\ answered \in Store
    BY <1>1 DEF TypeInv, TypeOK
  <1>3. OnlyAt(answered, answered', post[w])
    BY <1>2, CellUpdate DEF Answers
  <1>4. QED
    BY <1>1, <1>3 DEF Ends

LEMMA ThrowsEnds ==
  ASSUME TypeInv, NEW w \in Workers, NEW from, from # "idle", HandlerThrows(w, from)
  PROVE  /\ Ends(w) /\ pc[w] = from
         /\ answered' = answered \/ post[w].kind = "sharedschedule"
  <1>1. CASE Answers(w, from) /\ post[w].kind = "sharedschedule"
    BY <1>1, AnswersEnds
  <1>2. CASE Finishes(w, from) /\ UNCHANGED answered
    <2>1. pc[w] = from /\ post[w] \in Posts /\ answered \in Store
      BY <1>2 DEF Finishes, Goes, TypeInv, TypeOK
    <2>2. QED
      BY <1>2, <2>1, CellUnchanged DEF Finishes, Goes, Ends
  <1>3. QED
    BY <1>1, <1>2 DEF HandlerThrows

-----------------------------------------------------------------------------
(***************************************************************************)
(* What the statements of a handler do                                     *)
(***************************************************************************)
\* A Select changes nothing but the way on: only one that failed is taken for a
\* row that is not there, and only a failure of it is answered at once.
LEMMA SelectEffect ==
  ASSUME TypeInv, NEW w \in Workers, Selects(w) \/ SelectsAgain(w)
  PROVE  /\ pc[w] \in {"select", "selectAgain"}
         /\ troubles' \subseteq Faults \cup {"overlap"} /\ troubles \subseteq troubles'
         /\ UNCHANGED <<table, dictionary, blank, console, rows, loaded>>
         /\ \/ Moves(w, "selectAgain")
            \/ Moves(w, "addNew") /\ RowOf(post[w]) = 0
            \/ Moves(w, "addOld") /\ (RowOf(post[w]) # 0 \/ "sqlError" \in troubles')
            \/ /\ Ends(w) /\ Failed
               /\ answered' = answered \/ post[w].kind = "sharedschedule"
  <1>0. troubles \subseteq Faults \cup {"overlap"}
    BY DEF TypeInv, TypeOK
  <1>1. CASE Selects(w)
    <2>1. PICK outcome \in Outcomes :
            /\ Meets(outcome)
            /\ \/ HasTable(outcome) /\ Continues(w, "select", "selectAgain")
               \/ ~HasTable(outcome) /\ ~Throws(outcome) /\ Continues(w, "select", "addOld")
               \/ Throws(outcome) /\ HandlerThrows(w, "select")
      BY <1>1 DEF Selects
    <2>2. UNCHANGED <<table, dictionary, blank, console, rows, loaded>>
      BY <1>1 DEF Selects, sync
    <2>3. CASE Continues(w, "select", "selectAgain")
      BY <1>0, <2>1, <2>2, <2>3, MeetsType DEF Continues, Goes, Moves
    <2>4. CASE ~HasTable(outcome) /\ ~Throws(outcome) /\ Continues(w, "select", "addOld")
      BY <1>0, <2>1, <2>2, <2>4, MeetsType DEF Continues, Goes, Moves, HasTable, Throws
    <2>5. CASE Throws(outcome) /\ HandlerThrows(w, "select")
      BY <1>0, <2>1, <2>2, <2>5, MeetsType, ThrowsEnds DEF Throws, Failed
    <2>6. QED
      BY <2>1, <2>3, <2>4, <2>5
  <1>2. CASE SelectsAgain(w)
    <2>1. PICK outcome \in Outcomes :
            /\ Meets(outcome)
            /\ \/ /\ HasTable(outcome)
                  /\ Continues(w, "selectAgain",
                               IF RowOf(post[w]) = 0 THEN "addNew" ELSE "addOld")
               \/ ~HasTable(outcome) /\ HandlerThrows(w, "selectAgain")
      BY <1>2 DEF SelectsAgain
    <2>2. UNCHANGED <<table, dictionary, blank, console, rows, loaded>>
      BY <1>2 DEF SelectsAgain, sync
    <2>3. CASE Continues(w, "selectAgain", IF RowOf(post[w]) = 0 THEN "addNew" ELSE "addOld")
      BY <1>0, <2>1, <2>2, <2>3, MeetsType DEF Continues, Goes, Moves
    <2>4. CASE ~HasTable(outcome) /\ HandlerThrows(w, "selectAgain")
      BY <1>0, <2>1, <2>2, <2>4, MeetsType, ThrowsEnds DEF HasTable, Failed
    <2>5. QED
      BY <2>1, <2>3, <2>4
  <1>3. QED
    BY <1>1, <1>2

\* The entry of the dictionary is that of the post, before the statement.
LEMMA AddsEffect ==
  ASSUME TypeInv, NEW w \in Workers, Adds(w)
  PROVE  /\ OnlyAt(dictionary, dictionary', post[w])
         /\ dictionary'[post[w].kind][post[w].id] = post[w].version
         /\ UNCHANGED <<table, console, rows, loaded, troubles>>
         /\ \/ pc[w] = "addNew" /\ Moves(w, "insert")
            \/ pc[w] = "addOld" /\ Moves(w, "update")
         /\ blank' \subseteq blank
  <1>1. /\ dictionary' = [dictionary EXCEPT ![post[w].kind][post[w].id] = post[w].version]
        /\ UNCHANGED <<table, console, rows, loaded, troubles>>
        /\ \/ pc[w] = "addNew" /\ Moves(w, "insert")
           \/ pc[w] = "addOld" /\ Moves(w, "update")
        /\ blank' \subseteq blank
    BY DEF Adds, Continues, Goes, Moves, sync
  <1>2. post[w] \in Posts /\ dictionary \in Store
    BY <1>1 DEF TypeInv, TypeOK
  <1>3. QED
    BY <1>1, <1>2, CellUpdate

\* A statement changes the row of its post at most; without a fault it does so
\* unless an INSERT comes too late, or an UPDATE has no row.
Executed(w) ==
    IF (pc[w] = "insert") = (RowOf(post[w]) = 0)
    THEN table'[post[w].kind][post[w].id] = post[w].version
    ELSE table' = table

LEMMA ExecutesEffect ==
  ASSUME TypeInv, NEW w \in Workers, Executes(w)
  PROVE  /\ pc[w] \in {"insert", "update"} /\ post[w] \in Posts
         /\ troubles' \subseteq Faults \cup {"overlap"} /\ troubles \subseteq troubles'
         /\ UNCHANGED <<dictionary, blank, console, rows, loaded>>
         /\ Ends(w)
         /\ OnlyAt(table, table', post[w])
         /\ \/ Executed(w)
            \/ "sqlError" \in troubles' /\ table' = table
            \/ /\ "noConnection" \in troubles' /\ table' = table
               /\ answered' = answered \/ post[w].kind = "sharedschedule"
  <1>1. PICK outcome \in Outcomes, statement \in {"insert", "update"} :
          /\ Meets(outcome)
          /\ \/ Throws(outcome) /\ HandlerThrows(w, statement)
             \/ ~Throws(outcome) /\ Answers(w, statement)
          /\ table' = ExecuteQuery(outcome, table,
                        IF (statement = "insert") = (RowOf(post[w]) = 0)
                        THEN [table EXCEPT ![post[w].kind][post[w].id] = post[w].version]
                        ELSE table)
          /\ UNCHANGED <<dictionary, blank, sync>>
    BY DEF Executes
  <1>2. Ends(w) /\ pc[w] = statement
    BY <1>1, AnswersEnds, ThrowsEnds
  <1>3. /\ troubles \subseteq Faults \cup {"overlap"} /\ post[w] \in Posts /\ table \in Store
        /\ UNCHANGED <<dictionary, blank, console, rows, loaded>>
    BY <1>1, <1>2 DEF TypeInv, TypeOK, sync
  <1>4. /\ troubles' \subseteq Faults \cup {"overlap"} /\ troubles \subseteq troubles'
        /\ outcome # "ok" => outcome \in troubles'
        /\ outcome \in {"ok", "noConnection", "sqlError"}
    BY <1>1, <1>3, MeetsType
  <1>5. CASE outcome = "ok"
    <2>1. CASE (statement = "insert") = (RowOf(post[w]) = 0)
      <3>1. table' = [table EXCEPT ![post[w].kind][post[w].id] = post[w].version]
        BY <1>1, <1>5, <2>1 DEF ExecuteQuery
      <3>2. /\ OnlyAt(table, table', post[w])
            /\ table'[post[w].kind][post[w].id] = post[w].version
        BY <1>3, <3>1, CellUpdate
      <3>3. QED
        BY <1>2, <1>3, <1>4, <2>1, <3>2 DEF Executed
    <2>2. CASE ~((statement = "insert") = (RowOf(post[w]) = 0))
      <3>1. table' = table
        BY <1>1, <1>5, <2>2 DEF ExecuteQuery
      <3>2. QED
        BY <1>2, <1>3, <1>4, <2>2, <3>1, CellUnchanged DEF Executed
    <2>3. QED
      BY <2>1, <2>2
  <1>6. CASE outcome # "ok"
    <2>1. table' = table
      BY <1>1, <1>6 DEF ExecuteQuery
    <2>2. outcome = "noConnection" => answered' = answered \/ post[w].kind = "sharedschedule"
      BY <1>1, ThrowsEnds DEF Throws
    <2>3. QED
      BY <1>2, <1>3, <1>4, <1>6, <2>1, <2>2, CellUnchanged
  <1>7. QED
    BY <1>5, <1>6

-----------------------------------------------------------------------------
(***************************************************************************)
(* Type correctness                                                        *)
(***************************************************************************)
Bounded(s) == \A k \in Kinds, id \in Ids : s[k][id] <= posts

\* Stores without entries.
LEMMA NothingStored ==
  /\ 0 \in Versions /\ Empty \in [Ids -> Versions]
  /\ [k \in Kinds |-> Empty] \in Store
  /\ \A k \in Kinds, id \in Ids : [j \in Kinds |-> Empty][k][id] = 0
  /\ \A id \in Ids : Empty[id] = 0
  BY ScheduleAssumption DEF Empty, Store, Versions

\* The types hold when the server is started for the first time.
LEMMA TypeInit == Init => TypeInv
  <1> SUFFICES ASSUME Init PROVE TypeInv
    OBVIOUS
  <1>1. TypeOK
    BY NothingStored DEF Init, TypeOK
  <1>2. posts = 0 /\ \A w \in Workers : pc[w] = "idle"
    BY DEF Init
  <1>3. \A k \in Kinds, id \in Ids : table[k][id] <= 0 /\ dictionary[k][id] <= 0
    BY NothingStored DEF Init
  <1>4. \A id \in Ids : rows[id] <= 0
    BY NothingStored DEF Init
  <1>5. QED
    BY <1>1, <1>2, <1>3, <1>4 DEF TypeInv

\* A post is stored where there were older posts.
LEMMA BoundKept ==
  ASSUME TypeInv, NEW w \in Workers, pc[w] # "idle", NEW s, NEW t,
         Bounded(s), OnlyAt(s, t, post[w])
  PROVE  t \in Store /\ Bounded(t)
  <1>1. t \in Store
    BY DEF OnlyAt
  <1>2. post[w].version \in 1 .. posts
    BY DEF TypeInv
  <1>3. ASSUME NEW k \in Kinds, NEW id \in Ids PROVE t[k][id] <= posts
    <2>1. CASE k = post[w].kind /\ id = post[w].id
      BY <1>2, <2>1 DEF OnlyAt, Bounded
    <2>2. CASE k # post[w].kind \/ id # post[w].id
      BY <2>2 DEF OnlyAt, Bounded
    <2>3. QED
      BY <2>1, <2>2
  <1>4. QED
    BY <1>1, <1>3 DEF Bounded

\* The way on of a handler keeps the types of its locals.
LEMMA LocalsType ==
  ASSUME TypeInv, NEW w \in Workers, pc[w] # "idle",
         \/ Ends(w)
         \/ \E to \in {"selectAgain", "addNew", "insert", "addOld", "update"} : Moves(w, to)
  PROVE  /\ pc' \in [Workers -> {"idle", "select", "selectAgain", "addNew", "insert", "addOld", "update"}]
         /\ post' \in [Workers -> Posts \cup {None}]
         /\ answered' \in Store
         /\ posts' = posts
         /\ \A v \in Workers : pc'[v] # "idle" => post'[v] \in Posts /\ post'[v].version \in 1 .. posts
  BY DEF TypeInv, TypeOK, Ends, Moves, OnlyAt

\* Every step keeps the types.
LEMMA TypeStep == TypeInv /\ [Next]_vars => TypeInv'
  <1> SUFFICES ASSUME TypeInv, [Next]_vars PROVE TypeInv'
    OBVIOUS
  <1>0. Bounded(table) /\ Bounded(dictionary)
    BY DEF TypeInv, Bounded
  <1>1. ASSUME NEW w \in Workers, NEW kind \in Kinds, NEW id \in Ids, Receives(w, kind, id)
        PROVE  TypeInv'
    <2>1. /\ posts' = posts + 1 /\ posts' \in Versions /\ posts \in Nat
          /\ pc' = [pc EXCEPT ![w] = "select"]
          /\ post' = [post EXCEPT ![w] = [kind |-> kind, id |-> id, version |-> posts + 1]]
          /\ UNCHANGED <<table, dictionary, blank, answered, console, rows, loaded>>
      BY <1>1, ScheduleAssumption DEF Receives, Goes, TypeInv, TypeOK, Versions, sync
    <2>2. troubles' \subseteq Faults \cup {"overlap"}
      BY <1>1 DEF Receives, Acts, TypeInv, TypeOK
    <2>3. [kind |-> kind, id |-> id, version |-> posts + 1] \in Posts
      BY <2>1 DEF Posts
    <2>4. TypeOK'
      BY <2>1, <2>2, <2>3 DEF TypeInv, TypeOK
    <2>5. \A v \in Workers : pc'[v] # "idle" => post'[v] \in Posts /\ post'[v].version \in 1 .. posts'
      BY <2>1, <2>3 DEF TypeInv, TypeOK
    <2>6. /\ \A k \in Kinds, i \in Ids : table'[k][i] <= posts' /\ dictionary'[k][i] <= posts'
          /\ \A i \in Ids : rows'[i] <= posts'
      BY <2>1 DEF TypeInv, TypeOK, Store, Versions
    <2>7. QED
      BY <2>4, <2>5, <2>6 DEF TypeInv
  <1>2. ASSUME NEW w \in Workers, Selects(w) \/ SelectsAgain(w) PROVE TypeInv'
    <2>1. /\ pc[w] # "idle" /\ troubles' \subseteq Faults \cup {"overlap"}
          /\ UNCHANGED <<table, dictionary, blank, console, rows, loaded>>
          /\ Ends(w) \/ \E to \in {"selectAgain", "addNew", "insert", "addOld", "update"} : Moves(w, to)
      BY <1>2, SelectEffect
    <2>2. QED
      BY <2>1, LocalsType DEF TypeInv, TypeOK
  <1>3. ASSUME NEW w \in Workers, Adds(w) PROVE TypeInv'
    <2>1. /\ pc[w] # "idle"
          /\ UNCHANGED <<table, console, rows, loaded, troubles>> /\ blank' \subseteq blank
          /\ \E to \in {"selectAgain", "addNew", "insert", "addOld", "update"} : Moves(w, to)
      BY <1>3, AddsEffect
    <2>2. dictionary' \in Store /\ Bounded(dictionary')
      BY <1>0, <1>3, <2>1, AddsEffect, BoundKept
    <2>3. QED
      BY <2>1, <2>2, LocalsType DEF TypeInv, TypeOK, Bounded
  <1>4. ASSUME NEW w \in Workers, Executes(w) PROVE TypeInv'
    <2>1. /\ pc[w] # "idle" /\ troubles' \subseteq Faults \cup {"overlap"}
          /\ UNCHANGED <<dictionary, blank, console, rows, loaded>>
          /\ Ends(w)
      BY <1>4, ExecutesEffect
    <2>2. table' \in Store /\ Bounded(table')
      BY <1>0, <1>4, <2>1, ExecutesEffect, BoundKept
    <2>3. QED
      BY <2>1, <2>2, LocalsType DEF TypeInv, TypeOK, Bounded
  <1>5. CASE SyncClears
    <2>1. /\ console' = "select" /\ blank' = {}
          /\ dictionary' = [dictionary EXCEPT !["schedule"] = Empty]
          /\ UNCHANGED <<table, posts, pc, post, answered, rows, loaded>>
      BY <1>5 DEF SyncClears, handlers
    <2>2. troubles' \subseteq Faults \cup {"overlap"}
      BY <1>5 DEF SyncClears, Acts, TypeInv, TypeOK
    <2>3. Empty \in [Ids -> Versions] /\ \A id \in Ids : Empty[id] <= posts
      BY ScheduleAssumption DEF Empty, Versions, TypeInv, TypeOK
    <2>4. dictionary' \in Store /\ Bounded(dictionary')
      BY <1>0, <2>1, <2>3 DEF TypeInv, TypeOK, Store, Kinds, Bounded
    <2>5. QED
      BY <2>1, <2>2, <2>4 DEF TypeInv, TypeOK, Bounded
  <1>6. CASE SyncSelects
    <2>1. PICK outcome \in Outcomes : Meets(outcome) /\ (rows' = table["schedule"] \/ rows' = Empty)
      BY <1>6 DEF SyncSelects
    <2>2. /\ console' = "load"
          /\ UNCHANGED <<table, dictionary, blank, posts, pc, post, answered, loaded>>
      BY <1>6 DEF SyncSelects, handlers
    <2>3. troubles' \subseteq Faults \cup {"overlap"}
      BY <2>1, MeetsType DEF TypeInv, TypeOK
    <2>4. rows' \in [Ids -> Versions] /\ \A id \in Ids : rows'[id] <= posts
      BY <2>1, ScheduleAssumption DEF TypeInv, TypeOK, Empty, Versions, Store, Kinds
    <2>5. QED
      BY <2>2, <2>3, <2>4 DEF TypeInv, TypeOK
  <1>7. ASSUME NEW id \in Ids, SyncLoads(id) PROVE TypeInv'
    <2>1. /\ dictionary' = [dictionary EXCEPT !["schedule"][id] = rows[id]]
          /\ blank' = blank \cup {id}
          /\ rows' = [rows EXCEPT ![id] = 0]
          /\ UNCHANGED <<table, posts, pc, post, answered, console, loaded, troubles>>
      BY <1>7 DEF SyncLoads, handlers
    <2>2. rows[id] \in Versions /\ rows[id] <= posts
      BY DEF TypeInv, TypeOK
    <2>3. dictionary' \in Store /\ Bounded(dictionary')
      BY <1>0, <2>1, <2>2 DEF TypeInv, TypeOK, Store, Kinds, Bounded
    <2>4. rows' \in [Ids -> Versions] /\ \A i \in Ids : rows'[i] <= posts
      BY <2>1, ScheduleAssumption DEF TypeInv, TypeOK, Versions
    <2>5. QED
      BY <2>1, <2>3, <2>4 DEF TypeInv, TypeOK, Bounded
  <1>8. CASE SyncReturns
    BY <1>8 DEF SyncReturns, handlers, TypeInv, TypeOK
  <1>9. CASE Restarts
    <2>1. /\ dictionary' = [k \in Kinds |-> Empty] /\ rows' = Empty
          /\ blank' = {} /\ console' = "idle" /\ loaded' = FALSE
          /\ pc' = [w \in Workers |-> "idle"] /\ post' = [w \in Workers |-> None]
          /\ UNCHANGED <<table, posts, answered, troubles>>
      BY <1>9 DEF Restarts
    <2>2. TypeOK'
      BY <2>1, NothingStored DEF TypeInv, TypeOK
    <2>3. posts \in Nat
      BY ScheduleAssumption DEF TypeInv, TypeOK, Versions
    <2>4. /\ \A k \in Kinds, id \in Ids : table'[k][id] <= posts' /\ dictionary'[k][id] <= posts'
          /\ \A id \in Ids : rows'[id] <= posts'
      BY <2>1, <2>3, NothingStored DEF TypeInv
    <2>5. QED
      BY <2>1, <2>2, <2>4 DEF TypeInv
  <1>10. CASE UNCHANGED vars
    BY <1>10 DEF vars, TypeInv, TypeOK
  <1>11. QED
    BY <1>1, <1>2, <1>3, <1>4, <1>5, <1>6, <1>7, <1>8, <1>9, <1>10 DEF Next

\* Every variable of the schedule manager keeps its type, whatever fails.
THEOREM ScheduleTypeCorrect == Spec => []TypeOK
  <1>1. TypeInv => TypeOK
    BY DEF TypeInv
  <1>2. QED
    BY TypeInit, TypeStep, <1>1, PTL DEF Spec

-----------------------------------------------------------------------------
(***************************************************************************)
(* Handlers in turn                                                        *)
(***************************************************************************)
Place(s, p) == s[p.kind][p.id]

OneHandler == \A v, w \in Workers : pc[v] # "idle" /\ pc[w] # "idle" => v = w

\* The post being handled is newer than its row, which stays as the Select found
\* it, and it is in the dictionary before the statement.
Newest(w) ==
    pc[w] # "idle" =>
        /\ Place(table, post[w]) < post[w].version
        /\ pc[w] \in {"addNew", "insert"} => Place(table, post[w]) = 0
        /\ pc[w] \in {"insert", "update"} => Place(dictionary, post[w]) = post[w].version

Serial ==
    /\ OneHandler
    /\ console # "idle" => Quiet
    /\ \A w \in Workers : Newest(w)

SerialInv == "overlap" \notin troubles => Serial

\* Troubles are remembered.
LEMMA TroublesStay == TypeInv /\ [Next]_vars => troubles \subseteq troubles'
  <1> SUFFICES ASSUME TypeInv, [Next]_vars PROVE troubles \subseteq troubles'
    OBVIOUS
  <1>1. CASE \E w \in Workers : Selects(w) \/ SelectsAgain(w)
    BY <1>1, SelectEffect
  <1>2. CASE \E w \in Workers : Executes(w)
    BY <1>2, ExecutesEffect
  <1>3. CASE SyncSelects
    BY <1>3 DEF SyncSelects, Meets
  <1>4. CASE \/ \E w \in Workers : Adds(w) \/ \E kind \in Kinds, id \in Ids : Receives(w, kind, id)
             \/ SyncClears \/ SyncReturns \/ Restarts \/ UNCHANGED vars
             \/ \E id \in Ids : SyncLoads(id)
    BY <1>4 DEF Adds, Receives, Acts, SyncClears, SyncReturns, SyncLoads, Restarts, vars
  <1>5. QED
    BY <1>1, <1>2, <1>3, <1>4 DEF Next

\* A step of the only handler leaves the others idle.
LEMMA SerialAlone ==
  ASSUME TypeInv, Serial, NEW w \in Workers, pc[w] # "idle", console' = console,
         Ends(w) \/ (\E to : Moves(w, to)), Newest(w)'
  PROVE  Serial'
  <1>1. \A v \in Workers \ {w} : pc'[v] = "idle"
    BY DEF Serial, OneHandler, Ends, Moves, TypeInv, TypeOK
  <1>2. ~Quiet
    BY DEF Quiet
  <1>3. QED
    BY <1>1, <1>2 DEF Serial, OneHandler, Newest

\* Quiet before and after: nothing is being handled.
LEMMA SerialQuiet ==
  ASSUME \A w \in Workers : pc'[w] = "idle"
  PROVE  Serial'
  BY DEF Serial, OneHandler, Quiet, Newest

\* The post of a handler is in its place.
LEMMA PlaceType ==
  ASSUME TypeInv, NEW w \in Workers, pc[w] # "idle"
  PROVE  /\ post[w].kind \in Kinds /\ post[w].id \in Ids
         /\ post[w].version \in Nat /\ post[w].version > 0
         /\ Place(table, post[w]) \in Nat /\ Place(dictionary, post[w]) \in Nat
         /\ posts \in Nat
  BY ScheduleAssumption DEF TypeInv, TypeOK, Posts, Store, Versions, Place

\* Every step keeps the invariant.
LEMMA SerialStep == TypeInv /\ SerialInv /\ [Next]_vars => SerialInv'
  <1> SUFFICES ASSUME TypeInv, SerialInv, [Next]_vars, "overlap" \notin troubles' PROVE Serial'
    BY DEF SerialInv
  <1>0. Serial /\ \A w \in Workers : Newest(w)
    BY TroublesStay DEF SerialInv, Serial
  <1>1. ASSUME NEW w \in Workers, NEW kind \in Kinds, NEW id \in Ids, Receives(w, kind, id)
        PROVE  Serial'
    <2>1. /\ Quiet /\ console = "idle" /\ console' = "idle"
          /\ pc' = [pc EXCEPT ![w] = "select"]
          /\ post' = [post EXCEPT ![w] = [kind |-> kind, id |-> id, version |-> posts + 1]]
          /\ UNCHANGED <<table, dictionary>>
      BY <1>1 DEF Receives, Acts, Goes, sync
    <2>2. /\ pc'[w] = "select" /\ \A v \in Workers \ {w} : pc'[v] = "idle"
          /\ post'[w] = [kind |-> kind, id |-> id, version |-> posts + 1]
      BY <2>1 DEF Quiet, TypeInv, TypeOK
    <2>3. table[kind][id] < posts + 1
      <3>1. table[kind][id] \in Nat /\ table[kind][id] <= posts /\ posts \in Nat
        BY ScheduleAssumption DEF TypeInv, TypeOK, Store, Versions
      <3>2. QED
        BY <3>1
    <2>4. Newest(w)'
      BY <2>1, <2>2, <2>3 DEF Newest, Place
    <2>5. QED
      BY <2>1, <2>2, <2>4 DEF Serial, OneHandler, Newest
  <1>2. ASSUME NEW w \in Workers, Selects(w) \/ SelectsAgain(w) PROVE Serial'
    <2>1. /\ pc[w] # "idle" /\ UNCHANGED <<table, dictionary, console>>
          /\ Ends(w) \/ (Moves(w, "addNew") /\ RowOf(post[w]) = 0)
             \/ \E to \in {"selectAgain", "addOld"} : Moves(w, to)
      BY <1>2, SelectEffect
    <2>2. Newest(w)'
      BY <1>0, <2>1 DEF Newest, Ends, Moves, Place, RowOf, TypeInv, TypeOK
    <2>3. QED
      BY <1>0, <2>1, <2>2, SerialAlone
  <1>3. ASSUME NEW w \in Workers, Adds(w) PROVE Serial'
    <2>1. /\ pc[w] \in {"addNew", "addOld"} /\ UNCHANGED <<table, console>>
          /\ Place(dictionary', post[w]) = post[w].version
          /\ (pc[w] = "addNew" /\ Moves(w, "insert")) \/ (pc[w] = "addOld" /\ Moves(w, "update"))
      BY <1>3, AddsEffect DEF Place
    <2>2. Newest(w)'
      BY <1>0, <2>1 DEF Newest, Moves, Place, TypeInv, TypeOK
    <2>3. QED
      BY <1>0, <2>1, <2>2, SerialAlone
  <1>4. ASSUME NEW w \in Workers, Executes(w) PROVE Serial'
    <2>1. pc[w] # "idle" /\ console' = console /\ Ends(w)
      BY <1>4, ExecutesEffect
    <2>2. Newest(w)'
      BY <2>1 DEF Newest, Ends, TypeInv, TypeOK
    <2>3. QED
      BY <1>0, <2>1, <2>2, SerialAlone
  <1>5. CASE SyncClears
    BY <1>5, SerialQuiet DEF SyncClears, Acts, Quiet, handlers
  <1>6. CASE SyncSelects \/ \E id \in Ids : SyncLoads(id)
    <2>1. console # "idle" /\ pc' = pc
      BY <1>6 DEF SyncSelects, SyncLoads, handlers
    <2>2. QED
      BY <1>0, <2>1, SerialQuiet DEF Serial, Quiet
  <1>7. CASE SyncReturns \/ UNCHANGED vars
    BY <1>0, <1>7 DEF SyncReturns, vars, handlers, Serial, OneHandler, Quiet, Newest, Place
  <1>8. CASE Restarts
    BY <1>8, SerialQuiet DEF Restarts
  <1>9. QED
    BY <1>1, <1>2, <1>3, <1>4, <1>5, <1>6, <1>7, <1>8 DEF Next

LEMMA SerialInit == Init => SerialInv
  BY DEF Init, SerialInv, Serial, OneHandler, Quiet, Newest

\* While handlers take turns, a row only ever takes the entry that the dictionary
\* has for it at that moment, whatever fails.
THEOREM RowsFollowDictionary == Spec => DatabaseFollowsDictionary
  <1> DEFINE P == \A k \in Kinds, id \in Ids :
                    "overlap" \notin troubles' /\ table'[k][id] # table[k][id] =>
                        table'[k][id] = dictionary[k][id]
  <1>1. TypeInv /\ SerialInv /\ [Next]_vars => P
    <2> SUFFICES ASSUME TypeInv, SerialInv, [Next]_vars, "overlap" \notin troubles',
                        NEW k \in Kinds, NEW id \in Ids, table'[k][id] # table[k][id]
                 PROVE  table'[k][id] = dictionary[k][id]
      OBVIOUS
    <2>1. Serial
      BY TroublesStay DEF SerialInv
    <2>2. CASE \E w \in Workers : Executes(w)
      <3>1. PICK w \in Workers : Executes(w)
        BY <2>2
      <3>2. /\ pc[w] \in {"insert", "update"} /\ OnlyAt(table, table', post[w])
        BY <3>1, ExecutesEffect
      <3>3. /\ k = post[w].kind /\ id = post[w].id /\ table'[k][id] = post[w].version
        BY <3>2 DEF OnlyAt
      <3>4. Place(dictionary, post[w]) = post[w].version
        BY <2>1, <3>2 DEF Serial, Newest
      <3>5. QED
        BY <3>3, <3>4 DEF Place
    <2>3. CASE \E w \in Workers : Selects(w) \/ SelectsAgain(w)
      BY <2>3, SelectEffect
    <2>4. CASE \/ \E w \in Workers : Adds(w) \/ \E kind \in Kinds, i \in Ids : Receives(w, kind, i)
               \/ SyncClears \/ SyncSelects \/ SyncReturns \/ Restarts \/ UNCHANGED vars
               \/ \E i \in Ids : SyncLoads(i)
      BY <2>4 DEF Adds, Receives, SyncClears, SyncSelects, SyncReturns, SyncLoads, Restarts, vars
    <2>5. QED
      BY <2>2, <2>3, <2>4 DEF Next
  <1>2. QED
    BY TypeInit, TypeStep, SerialInit, SerialStep, <1>1, PTL DEF Spec, DatabaseFollowsDictionary

-----------------------------------------------------------------------------
(***************************************************************************)
(* What was answered is stored                                             *)
(***************************************************************************)
\* Rows never go away: the UPDATE a Select led to finds its row, and an INSERT
\* that comes too late leaves one.
RowThere(w) == pc[w] \in {"addOld", "update"} => Place(table, post[w]) # 0

Promised(k) == k = "schedule" \/ "noConnection" \notin troubles

Stored ==
    /\ \A w \in Workers : RowThere(w)
    /\ \A k \in Kinds, id \in Ids : answered[k][id] # 0 /\ Promised(k) => table[k][id] # 0

StoredInv == "sqlError" \notin troubles => Stored

\* A step that leaves rows and answers alone keeps what they agree on.
LEMMA StoredUnchanged ==
  ASSUME StoredInv, UNCHANGED <<table, answered>>, troubles \subseteq troubles',
         "sqlError" \notin troubles' => \A w \in Workers : RowThere(w) => RowThere(w)'
  PROVE  StoredInv'
  BY DEF StoredInv, Stored, Promised

\* Without SQL errors a statement that is answered leaves a row, which is that of
\* the post if handlers take turns.
LEMMA ExecutesStores ==
  ASSUME TypeInv, NEW w \in Workers, Executes(w), Stored, "sqlError" \notin troubles'
  PROVE  /\ \A k \in Kinds, id \in Ids : table[k][id] # 0 => table'[k][id] # 0
         /\ \/ /\ Place(table', post[w]) # 0
               /\ Newest(w) => Place(table', post[w]) = post[w].version
            \/ /\ "noConnection" \in troubles' /\ table' = table
               /\ answered' = answered \/ post[w].kind = "sharedschedule"
  <1>1. /\ pc[w] \in {"insert", "update"} /\ OnlyAt(table, table', post[w])
        /\ \/ Executed(w)
           \/ /\ "noConnection" \in troubles' /\ table' = table
              /\ answered' = answered \/ post[w].kind = "sharedschedule"
    BY ExecutesEffect
  <1>2. post[w].version # 0 /\ RowThere(w)
    BY <1>1, PlaceType DEF Stored
  <1>3. \A k \in Kinds, id \in Ids : table[k][id] # 0 => table'[k][id] # 0
    BY <1>1, <1>2 DEF OnlyAt
  <1>4. ASSUME Executed(w), pc[w] = "insert"
        PROVE  /\ Place(table', post[w]) # 0
               /\ Newest(w) => Place(table', post[w]) = post[w].version
    BY <1>2, <1>4 DEF Executed, RowOf, Place, Newest
  <1>5. ASSUME Executed(w), pc[w] = "update"
        PROVE  Place(table', post[w]) # 0 /\ Place(table', post[w]) = post[w].version
    BY <1>2, <1>5 DEF Executed, RowOf, Place, RowThere
  <1>6. QED
    BY <1>1, <1>3, <1>4, <1>5

LEMMA StoredExecutes ==
  ASSUME TypeInv, StoredInv, NEW w \in Workers, Executes(w)
  PROVE  StoredInv'
  <1> SUFFICES ASSUME "sqlError" \notin troubles' PROVE Stored'
    BY DEF StoredInv
  <1>1. /\ pc[w] # "idle" /\ troubles \subseteq troubles'
        /\ Ends(w) /\ OnlyAt(answered, answered', post[w])
    BY ExecutesEffect DEF Ends
  <1>2. Stored
    BY <1>1 DEF StoredInv
  <1>3. \A k \in Kinds, id \in Ids : table[k][id] # 0 => table'[k][id] # 0
    BY <1>2, ExecutesStores
  <1>4. ASSUME NEW v \in Workers PROVE RowThere(v)'
    <2>1. CASE v = w
      BY <1>1, <2>1 DEF Ends, RowThere, TypeInv, TypeOK
    <2>2. CASE v # w
      <3>1. RowThere(v) /\ pc'[v] = pc[v] /\ post'[v] = post[v]
        BY <1>1, <1>2, <2>2 DEF Ends, Stored, TypeInv, TypeOK
      <3>2. pc[v] # "idle" => post[v].kind \in Kinds /\ post[v].id \in Ids
        BY PlaceType
      <3>3. QED
        BY <1>3, <3>1, <3>2 DEF RowThere, Place
    <2>3. QED
      BY <2>1, <2>2
  <1>5. ASSUME NEW k \in Kinds, NEW id \in Ids, answered'[k][id] # 0, Promised(k)'
        PROVE  table'[k][id] # 0
    <2>1. Promised(k)
      BY <1>1, <1>5 DEF Promised
    <2>2. CASE answered[k][id] # 0
      BY <1>2, <1>3, <2>1, <2>2 DEF Stored
    <2>3. CASE answered[k][id] = 0
      <3>1. k = post[w].kind /\ id = post[w].id /\ answered' # answered
        BY <1>1, <1>5, <2>3 DEF OnlyAt
      <3>2. Place(table', post[w]) # 0
        BY <1>2, <1>5, <3>1, ExecutesStores DEF Promised
      <3>3. QED
        BY <3>1, <3>2 DEF Place
    <2>4. QED
      BY <2>2, <2>3
  <1>6. QED
    BY <1>4, <1>5 DEF Stored

\* An answer to a post that failed is one that nothing was promised about.
LEMMA StoredSelects ==
  ASSUME TypeInv, StoredInv, NEW w \in Workers, Selects(w) \/ SelectsAgain(w)
  PROVE  StoredInv'
  <1>1. /\ pc[w] \in {"select", "selectAgain"} /\ troubles \subseteq troubles' /\ table' = table
        /\ \/ Moves(w, "selectAgain")
           \/ Moves(w, "addNew") /\ RowOf(post[w]) = 0
           \/ Moves(w, "addOld") /\ (RowOf(post[w]) # 0 \/ "sqlError" \in troubles')
           \/ /\ Ends(w) /\ Failed
              /\ answered' = answered \/ post[w].kind = "sharedschedule"
    BY SelectEffect
  <1>2. CASE \E to \in {"selectAgain", "addNew"} : Moves(w, to)
    BY <1>1, <1>2, StoredUnchanged DEF Moves, RowThere, TypeInv, TypeOK
  <1>3. CASE Moves(w, "addOld") /\ (RowOf(post[w]) # 0 \/ "sqlError" \in troubles')
    BY <1>1, <1>3, StoredUnchanged DEF Moves, RowThere, RowOf, Place, TypeInv, TypeOK
  <1>4. CASE /\ Ends(w) /\ Failed
             /\ answered' = answered \/ post[w].kind = "sharedschedule"
    <2> SUFFICES ASSUME "sqlError" \notin troubles' PROVE Stored'
      BY DEF StoredInv
    <2>1. Stored /\ "noConnection" \in troubles'
      BY <1>1, <1>4 DEF StoredInv, Failed
    <2>2. \A v \in Workers : RowThere(v)'
      BY <1>1, <1>4, <2>1 DEF Stored, Ends, RowThere, Place, TypeInv, TypeOK
    <2>3. \A id \in Ids : answered'["schedule"][id] = answered["schedule"][id]
      BY <1>4 DEF Ends, OnlyAt, Kinds
    <2>4. QED
      BY <1>1, <2>1, <2>2, <2>3 DEF Stored, Promised, Kinds
  <1>5. QED
    BY <1>1, <1>2, <1>3, <1>4

\* Every step keeps the invariant.
LEMMA StoredStep == TypeInv /\ StoredInv /\ [Next]_vars => StoredInv'
  <1> SUFFICES ASSUME TypeInv, StoredInv, [Next]_vars PROVE StoredInv'
    OBVIOUS
  <1>0. troubles \subseteq troubles'
    BY TroublesStay
  <1>1. ASSUME NEW w \in Workers, NEW kind \in Kinds, NEW id \in Ids, Receives(w, kind, id)
        PROVE  StoredInv'
    BY <1>0, <1>1, StoredUnchanged DEF Receives, Goes, RowThere, TypeInv, TypeOK
  <1>2. ASSUME NEW w \in Workers, Adds(w) PROVE StoredInv'
    <2>1. \A v \in Workers : RowThere(v) => RowThere(v)'
      BY <1>2, AddsEffect DEF Moves, RowThere, Place, TypeInv, TypeOK
    <2>2. QED
      BY <1>0, <1>2, <2>1, AddsEffect, StoredUnchanged DEF Moves
  <1>3. CASE \/ SyncClears \/ SyncSelects \/ SyncReturns \/ UNCHANGED vars
             \/ \E id \in Ids : SyncLoads(id)
    BY <1>0, <1>3, StoredUnchanged DEF SyncClears, SyncSelects, SyncReturns, SyncLoads, handlers,
        vars, RowThere, Place
  <1>4. CASE Restarts
    BY <1>0, <1>4, StoredUnchanged DEF Restarts, RowThere
  <1>5. QED
    BY <1>1, <1>2, <1>3, <1>4, StoredSelects, StoredExecutes DEF Next

LEMMA StoredInit == Init => StoredInv
  BY NothingStored DEF Init, StoredInv, Stored, RowThere

\* As long as no statement fails half-way, a schedule whose post was answered has
\* a row, for any number of racing tasks, lost connections and restarts; a shared
\* one, as long as there is a connection.
THEOREM SchedulesStored == Spec => []AnsweredIsStored
  <1>1. StoredInv => AnsweredIsStored
    BY DEF StoredInv, Stored, Promised, AnsweredIsStored
  <1>2. QED
    BY TypeInit, TypeStep, StoredInit, StoredStep, <1>1, PTL DEF Spec

-----------------------------------------------------------------------------
(***************************************************************************)
(* Answered, stored, remembered                                            *)
(***************************************************************************)
\* The row of an id still waits for the loop, or is in the dictionary.
Loading(id) ==
    /\ rows[id] = 0 => dictionary["schedule"][id] = table["schedule"][id]
    /\ rows[id] # 0 => rows[id] = table["schedule"][id]

Kept ==
    /\ \A id \in Ids : answered["schedule"][id] <= table["schedule"][id]
    /\ Serving => \A id \in Ids : table["schedule"][id] <= dictionary["schedule"][id]
    /\ \A id \in Ids : dictionary["sharedschedule"][id] # 0 =>
            table["sharedschedule"][id] <= dictionary["sharedschedule"][id]
    /\ console = "select" => \A id \in Ids : dictionary["schedule"][id] = 0
    /\ console = "load" => \A id \in Ids : Loading(id)

Healthy == "overlap" \notin troubles /\ "sqlError" \notin troubles

KeptInv == Healthy => Kept

\* The numbers there are.
LEMMA Numbers ==
  ASSUME TypeInv, NEW k \in Kinds, NEW id \in Ids
  PROVE  table[k][id] \in Nat /\ dictionary[k][id] \in Nat /\ answered[k][id] \in Nat
  BY ScheduleAssumption DEF TypeInv, TypeOK, Store, Versions

\* The steps of a handler, all while the console thread is elsewhere: in the place
\* of the post the answer is not ahead of the row, nor the row of the dictionary,
\* and elsewhere nothing changes.
LEMMA KeptHandler ==
  ASSUME TypeInv, TypeInv', Kept, NEW w \in Workers, pc[w] # "idle",
         console' = "idle", loaded' = loaded, console = "idle",
         OnlyAt(answered, answered', post[w]), OnlyAt(table, table', post[w]),
         OnlyAt(dictionary, dictionary', post[w]),
         post[w].kind = "schedule" =>
            Place(answered', post[w]) <= Place(table', post[w]),
         Serving \/ post[w].kind = "sharedschedule" =>
            \/ Place(table', post[w]) <= Place(dictionary', post[w])
            \/ UNCHANGED <<table, dictionary>>
  PROVE  Kept'
  <1>1. post[w].kind \in Kinds /\ post[w].id \in Ids
    BY PlaceType
  <1>2. ASSUME NEW id \in Ids PROVE answered'["schedule"][id] <= table'["schedule"][id]
    <2>1. answered["schedule"][id] <= table["schedule"][id]
      BY DEF Kept
    <2>2. QED
      BY <1>1, <2>1 DEF OnlyAt, Place, Kinds
  <1>3. ASSUME NEW id \in Ids, Serving'
        PROVE  table'["schedule"][id] <= dictionary'["schedule"][id]
    <2>1. Serving /\ table["schedule"][id] <= dictionary["schedule"][id]
      BY <1>3 DEF Kept, Serving
    <2>2. QED
      BY <1>1, <2>1 DEF OnlyAt, Place, Kinds
  <1>4. ASSUME NEW id \in Ids, dictionary'["sharedschedule"][id] # 0
        PROVE  table'["sharedschedule"][id] <= dictionary'["sharedschedule"][id]
    <2>1. dictionary["sharedschedule"][id] # 0 =>
            table["sharedschedule"][id] <= dictionary["sharedschedule"][id]
      BY DEF Kept
    <2>2. QED
      BY <1>1, <1>4, <2>1 DEF OnlyAt, Place, Kinds
  <1>5. QED
    BY <1>2, <1>3, <1>4 DEF Kept

\* A step that leaves the stores alone.
LEMMA KeptUnchanged ==
  ASSUME Kept, UNCHANGED <<table, dictionary, answered, console, rows, loaded>>
  PROVE  Kept'
  BY DEF Kept, Serving, Loading

\* The handlers.
LEMMA KeptHandles ==
  ASSUME TypeInv, TypeInv', Kept, Serial, Stored, "sqlError" \notin troubles', NEW w \in Workers,
         Selects(w) \/ SelectsAgain(w) \/ Adds(w) \/ Executes(w)
  PROVE  Kept'
  <1>0. table \in Store /\ dictionary \in Store /\ answered \in Store
    BY DEF TypeInv, TypeOK
  <1>1. CASE Selects(w) \/ SelectsAgain(w)
    <2>1. /\ pc[w] # "idle" /\ UNCHANGED <<table, dictionary, console, rows, loaded>>
          /\ \/ answered' = answered
             \/ OnlyAt(answered, answered', post[w]) /\ post[w].kind = "sharedschedule"
      BY <1>1, SelectEffect DEF Ends, Moves
    <2>2. CASE answered' = answered
      BY <2>1, <2>2, KeptUnchanged
    <2>3. CASE OnlyAt(answered, answered', post[w]) /\ post[w].kind = "sharedschedule"
      <3>1. console = "idle" /\ post[w] \in Posts
        BY <2>1 DEF Serial, Quiet, TypeInv
      <3>2. QED
        BY <1>0, <2>1, <2>3, <3>1, KeptHandler, CellUnchanged
    <2>4. QED
      BY <2>1, <2>2, <2>3
  <1>2. CASE Adds(w)
    <2>1. /\ pc[w] # "idle" /\ OnlyAt(dictionary, dictionary', post[w])
          /\ Place(dictionary', post[w]) = post[w].version
          /\ UNCHANGED <<table, answered, console, rows, loaded>>
      BY <1>2, AddsEffect DEF Moves, Place
    <2>2. /\ console = "idle" /\ post[w] \in Posts
          /\ Place(table, post[w]) < post[w].version
          /\ Place(table, post[w]) \in Nat /\ post[w].version \in Nat
      BY <2>1, PlaceType DEF Serial, Quiet, TypeInv, Newest
    <2>3. Place(table', post[w]) <= Place(dictionary', post[w])
      BY <2>1, <2>2
    <2>4. post[w].kind = "schedule" => Place(answered', post[w]) <= Place(table', post[w])
      BY <2>1, <2>2 DEF Kept, Place, Posts
    <2>5. OnlyAt(table, table', post[w]) /\ OnlyAt(answered, answered', post[w])
      BY <1>0, <2>1, <2>2, CellUnchanged
    <2>6. QED
      BY <2>1, <2>2, <2>3, <2>4, <2>5, KeptHandler
  <1>3. CASE Executes(w)
    <2>1. /\ pc[w] \in {"insert", "update"} /\ post[w] \in Posts
          /\ UNCHANGED <<dictionary, console, rows, loaded>>
          /\ OnlyAt(answered, answered', post[w]) /\ OnlyAt(table, table', post[w])
      BY <1>3, ExecutesEffect DEF Ends
    <2>2. /\ console = "idle"
          /\ Newest(w) /\ Place(table, post[w]) < post[w].version
          /\ Place(dictionary, post[w]) = post[w].version
          /\ Place(table, post[w]) \in Nat /\ post[w].version \in Nat
      BY <2>1, PlaceType DEF Serial, Quiet, Newest
    <2>3. \/ Place(table', post[w]) = post[w].version
          \/ table' = table /\ (answered' = answered \/ post[w].kind = "sharedschedule")
      BY <1>3, <2>2, ExecutesStores
    <2>4. OnlyAt(dictionary, dictionary', post[w])
      BY <1>0, <2>1, CellUnchanged
    <2>5. Place(table', post[w]) <= Place(dictionary', post[w])
      BY <2>1, <2>2, <2>3
    <2>6. ASSUME post[w].kind = "schedule"
          PROVE  Place(answered', post[w]) <= Place(table', post[w])
      <3>1. Place(answered, post[w]) <= Place(table, post[w]) /\ Place(answered, post[w]) \in Nat
        BY <2>1, <2>6, Numbers DEF Kept, Place, Posts
      <3>2. Place(answered', post[w]) \in {Place(answered, post[w]), post[w].version}
        BY <2>1 DEF OnlyAt, Place
      <3>3. QED
        BY <2>2, <2>3, <2>6, <3>1, <3>2
    <2>7. QED
      BY <2>1, <2>2, <2>4, <2>5, <2>6, KeptHandler
  <1>4. QED
    BY <1>1, <1>2, <1>3

\* syncDBToDictionary empties the dictionary of schedules and fills it again with
\* the rows of one Select, which no handler changes in the meantime.
LEMMA KeptSync ==
  ASSUME TypeInv, Kept, "sqlError" \notin troubles',
         SyncClears \/ SyncSelects \/ SyncReturns \/ \E id \in Ids : SyncLoads(id)
  PROVE  Kept'
  <1>0. dictionary \in Store /\ table \in Store /\ rows \in [Ids -> Versions]
    BY DEF TypeInv, TypeOK
  <1>1. CASE SyncClears
    <2>1. /\ dictionary' = [dictionary EXCEPT !["schedule"] = Empty]
          /\ console' = "select" /\ UNCHANGED <<table, answered>>
      BY <1>1 DEF SyncClears, handlers
    <2>2. /\ dictionary'["schedule"] = Empty
          /\ dictionary'["sharedschedule"] = dictionary["sharedschedule"]
      BY <1>0, <2>1 DEF Store, Kinds
    <2>3. QED
      BY <2>1, <2>2, NothingStored DEF Kept, Serving
  <1>2. CASE SyncSelects
    <2>1. PICK outcome \in Outcomes :
            /\ Meets(outcome)
            /\ \/ HasTable(outcome) /\ rows' = table["schedule"]
               \/ ~HasTable(outcome) /\ ~Throws(outcome) /\ rows' = Empty
      BY <1>2 DEF SyncSelects
    <2>2. rows' = table["schedule"]
      BY <2>1, MeetsType DEF HasTable, Throws, TypeInv, TypeOK
    <2>3. /\ console = "select" /\ console' = "load"
          /\ UNCHANGED <<table, dictionary, answered, loaded>>
      BY <1>2 DEF SyncSelects, handlers
    <2>4. \A id \in Ids : Loading(id)'
      BY <2>2, <2>3 DEF Kept, Loading
    <2>5. QED
      BY <2>3, <2>4 DEF Kept, Serving
  <1>3. CASE SyncReturns
    <2>1. /\ console = "load" /\ console' = "idle" /\ rows = Empty
          /\ UNCHANGED <<table, dictionary, answered>>
      BY <1>3 DEF SyncReturns, handlers
    <2>2. \A id \in Ids : dictionary["schedule"][id] = table["schedule"][id]
      BY <2>1, NothingStored DEF Kept, Loading
    <2>3. \A id \in Ids : table["schedule"][id] <= dictionary["schedule"][id]
      BY <2>2, Numbers DEF Kinds
    <2>4. QED
      BY <2>1, <2>3 DEF Kept
  <1>4. ASSUME NEW id \in Ids, SyncLoads(id) PROVE Kept'
    <2>1. /\ console = "load" /\ rows[id] # 0
          /\ dictionary' = [dictionary EXCEPT !["schedule"][id] = rows[id]]
          /\ rows' = [rows EXCEPT ![id] = 0]
          /\ UNCHANGED <<table, answered, console, loaded>>
      BY <1>4 DEF SyncLoads, handlers
    <2>2. /\ dictionary'["schedule"] = [dictionary["schedule"] EXCEPT ![id] = rows[id]]
          /\ dictionary'["sharedschedule"] = dictionary["sharedschedule"]
          /\ dictionary["schedule"] \in [Ids -> Versions]
      BY <1>0, <2>1 DEF Store, Kinds
    <2>3. ASSUME NEW i \in Ids PROVE Loading(i)'
      <3>1. Loading(i)
        BY <2>1 DEF Kept
      <3>2. QED
        BY <1>0, <2>1, <2>2, <3>1 DEF Loading
    <2>4. QED
      BY <2>1, <2>2, <2>3 DEF Kept, Serving
  <1>5. QED
    BY <1>1, <1>2, <1>3, <1>4

\* Every step keeps the invariant.
LEMMA KeptStep ==
  TypeInv /\ SerialInv /\ StoredInv /\ KeptInv /\ [Next]_vars => KeptInv'
  <1> SUFFICES ASSUME TypeInv, SerialInv, StoredInv, KeptInv, [Next]_vars, Healthy' PROVE Kept'
    BY DEF KeptInv
  <1>1. Kept /\ Serial /\ Stored /\ TypeInv'
    BY TroublesStay, TypeStep DEF KeptInv, SerialInv, StoredInv, Healthy
  <1>2. CASE \E w \in Workers : Selects(w) \/ SelectsAgain(w) \/ Adds(w) \/ Executes(w)
    BY <1>1, <1>2, KeptHandles DEF Healthy
  <1>3. CASE SyncClears \/ SyncSelects \/ SyncReturns \/ \E id \in Ids : SyncLoads(id)
    BY <1>1, <1>3, KeptSync DEF Healthy
  <1>4. CASE \/ UNCHANGED vars
             \/ \E w \in Workers, kind \in Kinds, id \in Ids : Receives(w, kind, id)
    BY <1>1, <1>4, KeptUnchanged DEF vars, Receives, sync
  <1>5. CASE Restarts
    <2>1. /\ dictionary' = [k \in Kinds |-> Empty] /\ console' = "idle" /\ loaded' = FALSE
          /\ UNCHANGED <<table, answered>>
      BY <1>5 DEF Restarts
    <2>2. QED
      BY <1>1, <2>1, NothingStored DEF Kept, Serving, Kinds
  <1>6. QED
    BY <1>2, <1>3, <1>4, <1>5 DEF Next

LEMMA KeptInit == Init => KeptInv
  BY NothingStored DEF Init, KeptInv, Kept, Serving, Kinds

\* Handlers in turn and lost connections: no answered schedule is lost or goes
\* back to an older one, and no dictionary is behind its table.
THEOREM SchedulesNotBehind == Spec => []NotBehind
  <1>1. TypeInv /\ KeptInv => NotBehind
    <2> SUFFICES ASSUME TypeInv, KeptInv, troubles \subseteq {"noConnection"}, Serving,
                        NEW id \in Ids
                 PROVE  /\ answered["schedule"][id] <= table["schedule"][id]
                        /\ table["schedule"][id] <= dictionary["schedule"][id]
                        /\ dictionary["sharedschedule"][id] # 0 =>
                            table["sharedschedule"][id] <= dictionary["sharedschedule"][id]
      BY DEF NotBehind
    <2>1. Kept
      BY DEF KeptInv, Healthy
    <2>2. QED
      BY <2>1 DEF Kept
  <1>2. QED
    BY TypeInit, TypeStep, SerialInit, SerialStep, StoredInit, StoredStep, KeptInit, KeptStep,
       <1>1, PTL DEF Spec

-----------------------------------------------------------------------------
(***************************************************************************)
(* Written through                                                         *)
(***************************************************************************)
\* The dictionary is ahead of the table in the place of a post whose statement is
\* to come, and nowhere else.
Writing(k, id) ==
    \E w \in Workers : pc[w] \in {"insert", "update"} /\ post[w].kind = k /\ post[w].id = id

Through ==
    /\ Serving => \A id \in Ids :
        Writing("schedule", id) \/ dictionary["schedule"][id] = table["schedule"][id]
    /\ \A id \in Ids :
        \/ Writing("sharedschedule", id)
        \/ dictionary["sharedschedule"][id] \in {0, table["sharedschedule"][id]}

ThroughInv == troubles = {} => Through

\* A step that leaves the stores alone and no statement out.
LEMMA ThroughUnchanged ==
  ASSUME Through, UNCHANGED <<table, dictionary>>, Serving' => Serving,
         \A k \in Kinds, id \in Ids : Writing(k, id) => Writing(k, id)'
  PROVE  Through'
  BY DEF Through, Kinds

\* One place changes: what holds there holds everywhere.
LEMMA ThroughPlace ==
  ASSUME TypeInv, Through, NEW w \in Workers, pc[w] # "idle", Serving' => Serving,
         OnlyAt(table, table', post[w]), OnlyAt(dictionary, dictionary', post[w]),
         \A v \in Workers \ {w} : pc'[v] = pc[v] /\ post'[v] = post[v],
         \A k \in Kinds, id \in Ids : k = post[w].kind /\ id = post[w].id =>
            Writing(k, id)' \/ dictionary'[k][id] = table'[k][id]
  PROVE  Through'
  <1>1. post[w].kind \in Kinds /\ post[w].id \in Ids
    BY PlaceType
  <1>2. ASSUME NEW k \in Kinds, NEW id \in Ids, k # post[w].kind \/ id # post[w].id
        PROVE  /\ table'[k][id] = table[k][id] /\ dictionary'[k][id] = dictionary[k][id]
               /\ Writing(k, id) => Writing(k, id)'
    BY <1>2 DEF OnlyAt, Writing
  <1>3. ASSUME NEW id \in Ids, Serving'
        PROVE  Writing("schedule", id)' \/ dictionary'["schedule"][id] = table'["schedule"][id]
    <2>1. CASE post[w].kind = "schedule" /\ post[w].id = id
      BY <1>1, <2>1
    <2>2. CASE "schedule" # post[w].kind \/ id # post[w].id
      BY <1>2, <1>3, <2>2 DEF Through, Kinds
    <2>3. QED
      BY <2>1, <2>2
  <1>4. ASSUME NEW id \in Ids
        PROVE  \/ Writing("sharedschedule", id)'
               \/ dictionary'["sharedschedule"][id] \in {0, table'["sharedschedule"][id]}
    <2>1. CASE post[w].kind = "sharedschedule" /\ post[w].id = id
      BY <1>1, <2>1
    <2>2. CASE "sharedschedule" # post[w].kind \/ id # post[w].id
      BY <1>2, <2>2 DEF Through, Kinds
    <2>3. QED
      BY <2>1, <2>2
  <1>5. QED
    BY <1>3, <1>4 DEF Through

\* Every step keeps the invariant.
LEMMA ThroughStep ==
  TypeInv /\ SerialInv /\ StoredInv /\ KeptInv /\ ThroughInv /\ [Next]_vars => ThroughInv'
  <1> SUFFICES ASSUME TypeInv, SerialInv, StoredInv, KeptInv, ThroughInv, [Next]_vars,
                      troubles' = {}
               PROVE  Through'
    BY DEF ThroughInv
  <1>1. troubles = {}
    BY TroublesStay
  <1>2. Through /\ Kept /\ Serial /\ Stored
    BY <1>1 DEF ThroughInv, KeptInv, Healthy, SerialInv, StoredInv
  <1>3. table \in Store /\ dictionary \in Store
    BY DEF TypeInv, TypeOK
  <1>4. ASSUME NEW w \in Workers, NEW kind \in Kinds, NEW id \in Ids, Receives(w, kind, id)
        PROVE  Through'
    <2>1. /\ pc[w] = "idle" /\ pc' = [pc EXCEPT ![w] = "select"]
          /\ \A v \in Workers \ {w} : post'[v] = post[v]
          /\ UNCHANGED <<table, dictionary, console, loaded>>
      BY <1>4 DEF Receives, Goes, sync, TypeInv, TypeOK
    <2>2. \A k \in Kinds, i \in Ids : Writing(k, i) => Writing(k, i)'
      BY <2>1 DEF Writing, TypeInv, TypeOK
    <2>3. QED
      BY <1>2, <2>1, <2>2, ThroughUnchanged DEF Serving
  <1>5. ASSUME NEW w \in Workers, Selects(w) \/ SelectsAgain(w) PROVE Through'
    <2>1. /\ pc[w] \in {"select", "selectAgain"}
          /\ UNCHANGED <<table, dictionary, console, loaded>>
          /\ Ends(w) \/ \E to : Moves(w, to)
      BY <1>5, SelectEffect
    <2>2. \A k \in Kinds, i \in Ids : Writing(k, i) => Writing(k, i)'
      BY <2>1 DEF Writing, Ends, Moves, TypeInv, TypeOK
    <2>3. QED
      BY <1>2, <2>1, <2>2, ThroughUnchanged DEF Serving
  <1>6. ASSUME NEW w \in Workers, Adds(w) PROVE Through'
    <2>1. /\ pc[w] # "idle" /\ OnlyAt(dictionary, dictionary', post[w])
          /\ UNCHANGED <<table, console, loaded>>
          /\ Moves(w, "insert") \/ Moves(w, "update")
      BY <1>6, AddsEffect
    <2>2. OnlyAt(table, table', post[w])
      BY <1>3, <2>1, CellUnchanged DEF TypeInv
    <2>3. /\ \A v \in Workers \ {w} : pc'[v] = pc[v] /\ post'[v] = post[v]
          /\ \A k \in Kinds, id \in Ids :
                k = post[w].kind /\ id = post[w].id => Writing(k, id)'
      BY <2>1 DEF Moves, Writing, TypeInv, TypeOK
    <2>4. QED
      BY <1>2, <2>1, <2>2, <2>3, ThroughPlace DEF Serving
  <1>7. ASSUME NEW w \in Workers, Executes(w) PROVE Through'
    <2>1. /\ pc[w] \in {"insert", "update"} /\ OnlyAt(table, table', post[w]) /\ post[w] \in Posts
          /\ UNCHANGED <<dictionary, console, loaded>> /\ Ends(w)
      BY <1>7, ExecutesEffect
    <2>2. OnlyAt(dictionary, dictionary', post[w])
      BY <1>3, <2>1, CellUnchanged
    <2>3. \A v \in Workers \ {w} : pc'[v] = pc[v] /\ post'[v] = post[v]
      BY <2>1 DEF Ends, TypeInv, TypeOK
    <2>4. Newest(w) /\ Place(dictionary, post[w]) = post[w].version
      BY <1>2, <2>1 DEF Serial, Newest
    <2>5. Place(table', post[w]) = post[w].version
      BY <1>2, <1>7, <2>4, ExecutesStores
    <2>6. \A k \in Kinds, id \in Ids :
            k = post[w].kind /\ id = post[w].id => dictionary'[k][id] = table'[k][id]
      BY <2>1, <2>4, <2>5 DEF Place
    <2>7. QED
      BY <1>2, <2>1, <2>2, <2>3, <2>6, ThroughPlace DEF Serving
  <1>8. CASE SyncClears
    <2>1. /\ dictionary' = [dictionary EXCEPT !["schedule"] = Empty] /\ console' = "select"
          /\ UNCHANGED <<table, pc, post>>
      BY <1>8 DEF SyncClears, handlers
    <2>2. dictionary'["sharedschedule"] = dictionary["sharedschedule"]
      BY <1>3, <2>1 DEF Store, Kinds
    <2>3. QED
      BY <1>2, <2>1, <2>2 DEF Through, Serving, Writing
  <1>9. CASE SyncSelects \/ UNCHANGED vars
    BY <1>2, <1>9, ThroughUnchanged DEF SyncSelects, handlers, vars, Serving, Writing
  <1>10. ASSUME NEW id \in Ids, SyncLoads(id) PROVE Through'
    <2>1. /\ dictionary' = [dictionary EXCEPT !["schedule"][id] = rows[id]]
          /\ console = "load" /\ UNCHANGED <<table, pc, post, console>>
      BY <1>10 DEF SyncLoads, handlers
    <2>2. dictionary'["sharedschedule"] = dictionary["sharedschedule"]
      BY <1>3, <2>1 DEF Store, Kinds
    <2>3. QED
      BY <1>2, <2>1, <2>2 DEF Through, Serving, Writing
  <1>11. CASE SyncReturns
    <2>1. /\ console = "load" /\ rows = Empty /\ UNCHANGED <<table, dictionary, pc, post>>
      BY <1>11 DEF SyncReturns, handlers
    <2>2. \A id \in Ids : dictionary'["schedule"][id] = table'["schedule"][id]
      BY <1>2, <2>1, NothingStored DEF Kept, Loading
    <2>3. QED
      BY <1>2, <2>1, <2>2 DEF Through, Writing
  <1>12. CASE Restarts
    <2>1. dictionary' = [k \in Kinds |-> Empty] /\ loaded' = FALSE
      BY <1>12 DEF Restarts
    <2>2. QED
      BY <2>1, NothingStored DEF Through, Serving, Kinds
  <1>13. QED
    BY <1>4, <1>5, <1>6, <1>7, <1>8, <1>9, <1>10, <1>11, <1>12 DEF Next

LEMMA ThroughInit == Init => ThroughInv
  BY NothingStored DEF Init, ThroughInv, Through, Serving, Kinds

\* If nothing has failed and no handlers have overlapped, the dictionaries agree
\* with the tables between requests, whatever was restarted and reloaded.
THEOREM SchedulesWrittenThrough == Spec => []WriteThrough
  <1>1. TypeInv /\ ThroughInv => WriteThrough
    <2> SUFFICES ASSUME TypeInv, ThroughInv, troubles = {}, Serving, Quiet PROVE
            /\ dictionary["schedule"] = table["schedule"]
            /\ \A id \in Ids :
                dictionary["sharedschedule"][id] \in {0, table["sharedschedule"][id]}
      BY DEF WriteThrough
    <2>1. Through /\ \A k \in Kinds, id \in Ids : ~Writing(k, id)
      BY DEF ThroughInv, Quiet, Writing
    <2>2. \A id \in Ids : dictionary["schedule"][id] = table["schedule"][id]
      BY <2>1 DEF Through, Kinds
    <2>3. QED
      BY <2>1, <2>2 DEF Through, TypeInv, TypeOK, Store, Kinds
  <1>2. QED
    BY TypeInit, TypeStep, SerialInit, SerialStep, StoredInit, StoredStep, KeptInit, KeptStep,
       ThroughInit, ThroughStep, <1>1, PTL DEF Spec
=============================================================================
