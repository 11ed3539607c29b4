------------------------- MODULE ClientManagerProofs -------------------------
(***************************************************************************)
(* Proofs about ClientManager, for every set of workers and users and any  *)
(* number of posts.                                                        *)
(***************************************************************************)
EXTENDS ClientManager, TLAPS

(***************************************************************************)
(* Types                                                                   *)
(***************************************************************************)
\* A handler has a user and a post, and the table has the posts there were.
TypeInv ==
    /\ TypeOK
    /\ \A w \in Workers :
        pc[w] # "idle" => uid[w] \in Uids /\ version[w] \in 1 .. posts
    /\ \A u \in Uids : user[u] <= posts /\ clientDictionary[u] <= posts

\* A statement writes the post of its handler, or nothing.
LEMMA ExecutesUser ==
  ASSUME TypeInv, NEW w \in Workers, Executes(w)
  PROVE  /\ pc[w] \in {"insert", "update"}
         /\ user' \in [Uids -> Versions]
         /\ \A u \in Uids \ {uid[w]} : user'[u] = user[u]
         /\ user'[uid[w]] \in {user[uid[w]], version[w]}
  BY ClientAssumption DEF Executes, ExecuteQuery, Finishes, Goes, TypeInv, TypeOK, Versions

\* It is answered with the version of the post, unless it throws.
LEMMA ExecutesAnswered ==
  ASSUME TypeInv, NEW w \in Workers, Executes(w)
  PROVE  /\ answered' \in [Uids -> Versions]
         /\ \A u \in Uids \ {uid[w]} : answered'[u] = answered[u]
         /\ answered'[uid[w]] \in {answered[uid[w]], version[w]}
  BY DEF Executes, Finishes, Goes, TypeInv, TypeOK

\* The types hold when the server is started for the first time.
LEMMA TypeInit == Init => TypeInv
  BY ClientAssumption DEF Init, TypeInv, TypeOK, Versions

\* The end of a handler keeps the types of its locals.
LEMMA FinishesType ==
  ASSUME TypeInv, NEW w \in Workers, NEW from, Finishes(w, from)
  PROVE  /\ pc' \in [Workers -> {"idle", "add", "select", "insert", "update"}]
         /\ uid' \in [Workers -> Uids \cup {None}]
         /\ version' \in [Workers -> Versions]
         /\ pc'[w] = "idle" /\ uid'[w] = None
         /\ \A v \in Workers \ {w} : pc'[v] = pc[v] /\ uid'[v] = uid[v] /\ version'[v] = version[v]
         /\ UNCHANGED <<clientDictionary, posts>>
  BY ClientAssumption DEF Finishes, Goes, TypeInv, TypeOK, Versions

\* The faults of the statements are among those assumed.
LEMMA MeetsType ==
  ASSUME troubles \subseteq Faults \cup {"overlap"}, NEW outcome \in Outcomes, Meets(outcome)
  PROVE  troubles' \subseteq Faults \cup {"overlap"} /\ troubles \subseteq troubles'
  BY DEF Meets, Outcomes

\* Every step keeps the types.
LEMMA TypeStep == TypeInv /\ [Next]_vars => TypeInv'
  <1> SUFFICES ASSUME TypeInv, [Next]_vars PROVE TypeInv'
    OBVIOUS
  <1> USE ClientAssumption DEF TypeInv, TypeOK, Versions, Goes
  <1>1. ASSUME NEW w \in Workers, NEW u \in Uids, Receives(w, u) PROVE TypeInv'
    <2>1. troubles' \subseteq Faults \cup {"overlap"}
      BY <1>1 DEF Receives
    <2>2. /\ posts' = posts + 1 /\ posts' \in Versions
          /\ pc' = [pc EXCEPT ![w] = "add"]
          /\ uid' = [uid EXCEPT ![w] = u]
          /\ version' = [version EXCEPT ![w] = posts + 1]
          /\ UNCHANGED <<user, clientDictionary, answered>>
      BY <1>1 DEF Receives
    <2>3. QED
      BY <2>1, <2>2
  <1>2. ASSUME NEW w \in Workers, Adds(w) PROVE TypeInv'
    BY <1>2 DEF Adds
  <1>3. ASSUME NEW w \in Workers, Selects(w) PROVE TypeInv'
    <2>1. troubles' \subseteq Faults \cup {"overlap"} /\ UNCHANGED <<user, answered>>
      BY <1>3, MeetsType DEF Selects
    <2>2. CASE Finishes(w, "select")
      BY <2>1, <2>2, FinishesType
    <2>3. CASE ~Finishes(w, "select")
      <3>1. /\ pc[w] = "select"
            /\ \E to \in {"insert", "update"} : pc' = [pc EXCEPT ![w] = to]
            /\ UNCHANGED <<clientDictionary, posts, uid, version>>
        BY <1>3, <2>3 DEF Selects
      <3>2. QED
        BY <2>1, <3>1
    <2>4. QED
      BY <2>2, <2>3
  <1>4. ASSUME NEW w \in Workers, Executes(w) PROVE TypeInv'
    <2>1. troubles' \subseteq Faults \cup {"overlap"}
      BY <1>4, MeetsType DEF Executes
    <2>2. \E statement : Finishes(w, statement)
      BY <1>4 DEF Executes
    <2>3. \A u \in Uids : user'[u] <= posts
      <3>1. uid[w] \in Uids /\ version[w] \in 1 .. posts
        BY <1>4, ExecutesUser
      <3>2. QED
        BY <1>4, <3>1, ExecutesUser
    <2>4. QED
      BY <1>4, <2>1, <2>2, <2>3, FinishesType, ExecutesUser, ExecutesAnswered
  <1>5. CASE Restarts
    BY <1>5 DEF Restarts
  <1>6. CASE UNCHANGED vars
    BY <1>6 DEF vars
  <1>7. QED
    BY <1>1, <1>2, <1>3, <1>4, <1>5, <1>6 DEF Next

\* Every variable of the client manager keeps its type, whatever fails.
THEOREM ClientTypeCorrect == Spec => []TypeOK
  <1>1. TypeInv => TypeOK
    BY DEF TypeInv
  <1>2. QED
    BY TypeInit, TypeStep, <1>1, PTL DEF Spec

-----------------------------------------------------------------------------
(***************************************************************************)
(* Handlers in turn                                                        *)
(***************************************************************************)
OneHandler == \A v, w \in Workers : pc[v] # "idle" /\ pc[w] # "idle" => v = w

\* The post being handled is newer than all there is of its user, and in the
\* dictionary before the first query.
Newest(w) ==
    /\ pc[w] = "idle" => uid[w] = None
    /\ pc[w] # "idle" => user[uid[w]] < version[w]
    /\ pc[w] # "idle" => clientDictionary[uid[w]] <= version[w]
    /\ pc[w] \in {"select", "insert", "update"} => clientDictionary[uid[w]] = version[w]
    /\ pc[w] = "insert" => user[uid[w]] = 0

Behind == \A u \in Uids : clientDictionary[u] # 0 => user[u] <= clientDictionary[u]

Serial == OneHandler /\ Behind /\ \A w \in Workers : Newest(w)

SerialInv == "overlap" \notin troubles => Serial

\* A step of the only handler leaves the others idle.
LEMMA SerialAlone ==
  ASSUME TypeInv, Serial, NEW w \in Workers, pc[w] # "idle",
         \A v \in Workers \ {w} : pc'[v] = pc[v] /\ uid'[v] = uid[v],
         Behind', Newest(w)'
  PROVE  Serial'
  <1>1. \A v \in Workers \ {w} : pc'[v] = "idle" /\ uid'[v] = None
    BY DEF Serial, OneHandler, Newest
  <1>2. QED
    BY <1>1 DEF Serial, OneHandler, Newest

\* Troubles are remembered.
LEMMA TroublesStay == TypeInv /\ [Next]_vars => troubles \subseteq troubles'
  BY DEF Next, vars, Receives, Adds, Selects, Executes, Restarts, Meets

\* Every step keeps the invariant.
LEMMA SerialStep == TypeInv /\ SerialInv /\ [Next]_vars => SerialInv'
  <1> SUFFICES ASSUME TypeInv, SerialInv, [Next]_vars, "overlap" \notin troubles' PROVE Serial'
    BY DEF SerialInv
  <1>0. Serial /\ Behind /\ \A w \in Workers : Newest(w)
    BY TroublesStay DEF SerialInv, Serial
  <1> USE <1>0, ClientAssumption DEF TypeInv, TypeOK, Versions, Goes
  <1>1. ASSUME NEW w \in Workers, NEW u \in Uids, Receives(w, u) PROVE Serial'
    <2>1. Quiet
      BY <1>1 DEF Receives
    <2>2. /\ pc' = [pc EXCEPT ![w] = "add"]
          /\ uid' = [uid EXCEPT ![w] = u]
          /\ version' = [version EXCEPT ![w] = posts + 1]
          /\ UNCHANGED <<user, clientDictionary>>
      BY <1>1 DEF Receives
    <2>3. \A v \in Workers \ {w} : pc'[v] = "idle" /\ uid'[v] = None
      BY <2>1, <2>2 DEF Quiet, Newest
    <2>4. Newest(w)'
      <3>1. user[u] <= posts /\ clientDictionary[u] <= posts /\ posts \in Nat
        OBVIOUS
      <3>2. pc'[w] = "add" /\ uid'[w] = u /\ version'[w] = posts + 1
        BY <2>2
      <3>3. user'[u] < posts + 1 /\ clientDictionary'[u] <= posts + 1
        BY <2>2, <3>1
      <3>4. QED
        BY <3>2, <3>3 DEF Newest
    <2>5. Behind'
      BY <2>2 DEF Behind
    <2>6. QED
      BY <2>2, <2>3, <2>4, <2>5 DEF Serial, OneHandler, Newest
  <1>2. ASSUME NEW w \in Workers, Adds(w) PROVE Serial'
    <2>1. /\ pc[w] = "add" /\ pc' = [pc EXCEPT ![w] = "select"]
          /\ clientDictionary' = [clientDictionary EXCEPT ![uid[w]] = version[w]]
          /\ UNCHANGED <<user, uid, version>>
          /\ uid[w] \in Uids
      BY <1>2 DEF Adds
    <2>2. Behind' /\ Newest(w)'
      BY <2>1 DEF Behind, Newest
    <2>3. QED
      BY <2>1, <2>2, SerialAlone
  <1>3. ASSUME NEW w \in Workers, Selects(w) PROVE Serial'
    <2>1. pc[w] = "select" /\ UNCHANGED <<user, clientDictionary>>
      BY <1>3 DEF Selects, Finishes
    <2>2. Behind'
      BY <2>1 DEF Behind
    <2>3. CASE Finishes(w, "select")
      BY <2>1, <2>2, <2>3, FinishesType, SerialAlone DEF Newest
    <2>4. CASE ~Finishes(w, "select")
      <3>1. /\ pc' = [pc EXCEPT ![w] = IF user[uid[w]] # 0 THEN "update" ELSE "insert"]
            /\ UNCHANGED <<uid, version>>
        BY <1>3, <2>4 DEF Selects
      <3>2. Newest(w)'
        BY <2>1, <3>1 DEF Newest
      <3>3. QED
        BY <2>1, <2>2, <3>1, <3>2, SerialAlone
    <2>5. QED
      BY <2>3, <2>4
  <1>4. ASSUME NEW w \in Workers, Executes(w) PROVE Serial'
    <2>1. \E statement : Finishes(w, statement)
      BY <1>4 DEF Executes
    <2>2. /\ pc[w] \in {"insert", "update"} /\ uid[w] \in Uids
          /\ clientDictionary' = clientDictionary
          /\ clientDictionary[uid[w]] = version[w]
          /\ user[uid[w]] < version[w]
      BY <1>4, <2>1, ExecutesUser, FinishesType DEF Newest
    <2>3. Behind'
      BY <1>4, <2>2, ExecutesUser DEF Behind
    <2>4. QED
      BY <2>1, <2>2, <2>3, FinishesType, SerialAlone DEF Newest
  <1>5. CASE Restarts
    BY <1>5 DEF Restarts, Serial, OneHandler, Behind, Newest
  <1>6. CASE UNCHANGED vars
    BY <1>6 DEF vars, Serial, OneHandler, Behind, Newest
  <1>7. QED
    BY <1>1, <1>2, <1>3, <1>4, <1>5, <1>6 DEF Next

\* While handlers take turns, no row of USER is newer than the dictionary, and
\* none is as new as a post that is being handled, whatever fails and however
\* often the server is started again.
THEOREM UsersNeverAhead == Spec => []NeverAhead
  <1>1. Init => TypeInv /\ SerialInv
    BY TypeInit DEF Init, SerialInv, Serial, OneHandler, Behind, Newest
  <1>2. TypeInv /\ SerialInv /\ [Next]_vars => TypeInv' /\ SerialInv'
    BY TypeStep, SerialStep
  <1>3. TypeInv /\ SerialInv => NeverAhead
    <2> SUFFICES ASSUME TypeInv, SerialInv, "overlap" \notin troubles, NEW u \in Uids
                 PROVE  /\ clientDictionary[u] # 0 => user[u] <= clientDictionary[u]
                        /\ \A w \in Workers : uid[w] = u => user[u] < version[w]
      BY DEF NeverAhead
    <2>1. Behind /\ \A w \in Workers : Newest(w)
      BY DEF SerialInv, Serial
    <2>2. QED
      BY <2>1, ClientAssumption DEF Behind, Newest
  <1>4. QED
    BY <1>1, <1>2, <1>3, PTL DEF Spec

-----------------------------------------------------------------------------
(***************************************************************************)
(* What was answered is stored                                             *)
(***************************************************************************)
\* Rows never go away: the UPDATE a Select led to finds its row, and an INSERT
\* that comes too late leaves one.
RowOK(w) == pc[w] = "update" => user[uid[w]] # 0

Stored ==
    /\ \A u \in Uids : answered[u] # 0 => user[u] # 0
    /\ \A w \in Workers : RowOK(w)

UpToDate == \A u \in Uids : answered[u] <= user[u]

StoredInv ==
    "sqlError" \notin troubles => Stored /\ ("overlap" \notin troubles => UpToDate)

\* A step that leaves rows and answers alone keeps what they agree on.
LEMMA StoredUnchanged ==
  ASSUME StoredInv, UNCHANGED <<user, answered>>, troubles \subseteq troubles',
         \A w \in Workers : RowOK(w) => RowOK(w)'
  PROVE  StoredInv'
  BY DEF StoredInv, Stored, UpToDate

\* Without SQL errors a statement that is answered has left a row: its own post
\* if the table had none, or no handlers overlapped.
LEMMA StoredExecutes ==
  ASSUME TypeInv, SerialInv, StoredInv, NEW w \in Workers, Executes(w)
  PROVE  StoredInv'
  <1> SUFFICES ASSUME "sqlError" \notin troubles'
               PROVE  Stored' /\ ("overlap" \notin troubles' => UpToDate')
    BY DEF StoredInv
  <1> USE ClientAssumption DEF TypeInv, TypeOK, Versions, Goes
  <1>1. PICK outcome \in Outcomes, statement \in {"insert", "update"} :
          /\ Meets(outcome)
          /\ Finishes(w, statement)
          /\ user' = ExecuteQuery(outcome, user,
                        IF (statement = "insert") = (user[uid[w]] = 0)
                        THEN [user EXCEPT ![uid[w]] = version[w]] ELSE user)
          /\ answered' = IF Throws(outcome) \/ version[w] < answered[uid[w]] THEN answered
                         ELSE [answered EXCEPT ![uid[w]] = version[w]]
    BY DEF Executes
  <1>2. /\ pc[w] = statement /\ uid[w] \in Uids /\ version[w] \in 1 .. posts
        /\ outcome # "sqlError" /\ troubles \subseteq troubles'
        /\ pc'[w] = "idle"
        /\ \A v \in Workers \ {w} : pc'[v] = pc[v] /\ uid'[v] = uid[v]
    BY <1>1, MeetsType, FinishesType DEF Finishes, Meets
  <1>3. Stored /\ ("overlap" \notin troubles' => UpToDate)
    BY <1>2 DEF StoredInv
  <1>4. ASSUME Throws(outcome) PROVE user' = user /\ answered' = answered
    BY <1>1, <1>4 DEF Throws, ExecuteQuery
  <1>5. ASSUME ~Throws(outcome)
        PROVE  user' = IF (statement = "insert") = (user[uid[w]] = 0)
                       THEN [user EXCEPT ![uid[w]] = version[w]] ELSE user
    BY <1>1, <1>2, <1>5, FaultsAssumption DEF Throws, ExecuteQuery, Outcomes
  <1>6. \A u \in Uids : user[u] # 0 => user'[u] # 0
    BY <1>2, <1>4, <1>5
  <1>7. Stored'
    <2>1. ASSUME ~Throws(outcome) PROVE user'[uid[w]] # 0
      BY <1>2, <1>3, <1>5, <2>1 DEF Stored, RowOK
    <2>2. \A u \in Uids : answered'[u] # 0 => user'[u] # 0
      BY <1>1, <1>2, <1>3, <1>4, <1>6, <2>1 DEF Stored
    <2>3. ASSUME NEW v \in Workers PROVE RowOK(v)'
      <3>1. CASE v = w
        BY <1>2, <3>1 DEF RowOK
      <3>2. CASE v # w
        <4>1. pc[v] # "idle" => uid[v] \in Uids
          OBVIOUS
        <4>2. QED
          BY <1>2, <1>3, <1>6, <3>2, <4>1 DEF Stored, RowOK
      <3>3. QED
        BY <3>1, <3>2
    <2>4. QED
      BY <2>2, <2>3 DEF Stored
  <1>8. ASSUME "overlap" \notin troubles' PROVE UpToDate'
    <2>1. user[uid[w]] < version[w]
      BY <1>2, <1>8 DEF SerialInv, Serial, Newest
    <2>2. CASE Throws(outcome)
      BY <1>3, <1>4, <1>8, <2>2 DEF UpToDate
    <2>3. CASE ~Throws(outcome)
      <3>1. (statement = "insert") = (user[uid[w]] = 0)
        BY <1>2, <1>3, <1>8 DEF SerialInv, Serial, Newest, Stored, RowOK
      <3>2. QED
        <4>1. user' = [user EXCEPT ![uid[w]] = version[w]]
          BY <1>5, <2>3, <3>1
        <4>2. \A u \in Uids \ {uid[w]} : answered'[u] = answered[u]
          BY <1>2, <1>1
        <4>3. answered'[uid[w]] \in {answered[uid[w]], version[w]}
          BY <1>2, <1>1
        <4>4. UpToDate
          BY <1>3, <1>8
        <4>5. ASSUME NEW u \in Uids PROVE answered'[u] <= user'[u]
          BY <1>2, <2>1, <4>1, <4>2, <4>3, <4>4, <4>5 DEF UpToDate
        <4>6. QED
          BY <4>5 DEF UpToDate
    <2>4. QED
      BY <2>2, <2>3
  <1>9. QED
    BY <1>7, <1>8

\* Every step keeps the invariant.
LEMMA StoredStep ==
  TypeInv /\ SerialInv /\ StoredInv /\ [Next]_vars => StoredInv'
  <1> SUFFICES ASSUME TypeInv, SerialInv, StoredInv, [Next]_vars PROVE StoredInv'
    OBVIOUS
  <1> USE ClientAssumption DEF TypeInv, TypeOK, Goes
  <1>0. troubles \subseteq troubles'
    BY TroublesStay
  <1>1. ASSUME NEW w \in Workers, NEW u \in Uids, Receives(w, u) PROVE StoredInv'
    BY <1>0, <1>1, StoredUnchanged DEF Receives, RowOK
  <1>2. ASSUME NEW w \in Workers, Adds(w) PROVE StoredInv'
    BY <1>0, <1>2, StoredUnchanged DEF Adds, RowOK
  <1>3. ASSUME NEW w \in Workers, Selects(w) PROVE StoredInv'
    <2>1. CASE Finishes(w, "select")
      BY <1>0, <1>3, <2>1, StoredUnchanged DEF Selects, Finishes, RowOK
    <2>2. CASE ~Finishes(w, "select")
      BY <1>0, <1>3, <2>2, StoredUnchanged DEF Selects, RowOK
    <2>3. QED
      BY <2>1, <2>2
  <1>4. ASSUME NEW w \in Workers, Executes(w) PROVE StoredInv'
    BY <1>4, StoredExecutes
  <1>5. CASE Restarts
    BY <1>0, <1>5, StoredUnchanged DEF Restarts, RowOK
  <1>6. CASE UNCHANGED vars
    BY <1>0, <1>6, StoredUnchanged DEF vars, RowOK
  <1>7. QED
    BY <1>1, <1>2, <1>3, <1>4, <1>5, <1>6 DEF Next

\* As long as no statement fails half-way, a user whose post has been answered
\* has a row, for any number of racing tasks, lost connections and restarts; and
\* a row as new as that post, while handlers take turns.
THEOREM UsersStored == Spec => []AnsweredIsStored
  <1>1. Init => TypeInv /\ SerialInv /\ StoredInv
    <2>1. Init => SerialInv
      BY DEF Init, SerialInv, Serial, OneHandler, Behind, Newest
    <2>2. Init => StoredInv
      BY DEF Init, StoredInv, Stored, RowOK, UpToDate
    <2>3. QED
      BY <2>1, <2>2, TypeInit
  <1>2. TypeInv /\ SerialInv /\ StoredInv /\ [Next]_vars => TypeInv' /\ SerialInv' /\ StoredInv'
    BY TypeStep, SerialStep, StoredStep
  <1>3. StoredInv => AnsweredIsStored
    BY DEF StoredInv, Stored, UpToDate, AnsweredIsStored
  <1>4. QED
    BY <1>1, <1>2, <1>3, PTL DEF Spec
=============================================================================
