-------------------------- MODULE RecommendProofs --------------------------
(***************************************************************************)
(* Proofs about Recommend, for any table, any limit and texts of any       *)
(* length.                                                                 *)
(***************************************************************************)
EXTENDS Recommend, TextPathProofs, TLAPS

-----------------------------------------------------------------------------
(***************************************************************************)
(* Types                                                                   *)
(***************************************************************************)
\* The arrays are defined for every id.
TypeInv ==
    /\ TypeOK
    /\ DOMAIN shared = SharedIds /\ DOMAIN sent = SharedIds

\* The row of a post that fits is one.
LEMMA RowsFit ==
  ASSUME NEW p, Fits(p)
  PROVE  IsRow(RowOf(p))
  BY DEF Fits, IsRow, RowOf

\* The table after a post that met no fault: its row is there, or a text of it has
\* left its literal and some rows are others or gone.
Posted(id, p) ==
  \/ Fits(p) /\ shared' = [shared EXCEPT ![id] = RowOf(p)]
  \/ /\ ~Fits(p) /\ DOMAIN shared' = SharedIds
     /\ \A i \in SharedIds : shared'[i] \in {shared[i], OtherRow, NoRow}

\* What a post that met no fault, or one that did, makes of the table.
LEMMA PostEffect ==
  ASSUME TypeInv, NEW id \in SharedIds, NEW p \in PostsOf[id], PostSharedSchedule(id, p)
  PROVE  /\ task = "idle" /\ UNCHANGED <<task, snapshot, list, count>>
         /\ \/ sent' = [sent EXCEPT ![id] = p] /\ Posted(id, p)
            \/ UNCHANGED <<shared, sent>>
  <1>1. PICK outcome \in Outcomes :
          /\ \E changed \in IF Fits(p) THEN {[shared EXCEPT ![id] = RowOf(p)]} ELSE Strays :
                shared' = ExecuteQuery(outcome, shared, changed)
          /\ sent' = IF outcome = "ok" THEN [sent EXCEPT ![id] = p] ELSE sent
    BY DEF PostSharedSchedule
  <1>2. PICK changed \in IF Fits(p) THEN {[shared EXCEPT ![id] = RowOf(p)]} ELSE Strays :
          shared' = ExecuteQuery(outcome, shared, changed)
    BY <1>1
  <1>3. task = "idle" /\ UNCHANGED <<task, snapshot, list, count>>
    BY DEF PostSharedSchedule, locals
  <1>4. CASE outcome = "ok"
    <2>1. shared' = changed /\ sent' = [sent EXCEPT ![id] = p]
      BY <1>1, <1>2, <1>4 DEF ExecuteQuery
    <2>2. CASE Fits(p)
      BY <1>2, <1>3, <2>1, <2>2 DEF Posted
    <2>3. CASE ~Fits(p)
      <3>1. changed \in Strays
        BY <1>2, <2>3
      <3>2. DOMAIN changed = SharedIds /\ \A i \in SharedIds : changed[i] \in {shared[i], OtherRow, NoRow}
        BY <3>1 DEF Strays
      <3>3. QED
        BY <1>3, <2>1, <2>3, <3>2 DEF Posted
    <2>4. QED
      BY <2>2, <2>3
  <1>5. CASE outcome # "ok"
    <2>1. UNCHANGED <<shared, sent>>
      BY <1>1, <1>2, <1>5 DEF ExecuteQuery
    <2>2. QED
      BY <1>3, <2>1
  <1>6. QED
    BY <1>4, <1>5

\* The types hold in the initial state.
LEMMA TypeInit == Init => TypeInv
  BY DEF Init, TypeInv, TypeOK

\* They hold after the end of the handler.
LEMMA LeavesType ==
  ASSUME TypeInv, NEW to \in {"idle", "ended"}, Leaves(to)
  PROVE  TypeInv'
  BY DEF Leaves, TypeInv, TypeOK, IsRow

\* Every step keeps the types.
LEMMA TypeStep == TypeInv /\ [Next]_vars => TypeInv'
  <1> SUFFICES ASSUME TypeInv, [Next]_vars PROVE TypeInv'
    OBVIOUS
  <1>1. ASSUME NEW id \in SharedIds, NEW p \in PostsOf[id], PostSharedSchedule(id, p)
        PROVE  TypeInv'
    <2>1. CASE UNCHANGED <<shared, sent>>
      BY <1>1, <2>1, PostEffect DEF TypeInv, TypeOK, IsRow
    <2>2. CASE sent' = [sent EXCEPT ![id] = p] /\ Posted(id, p)
      <3>1. p \in AllPosts
        BY DEF AllPosts
      <3>2. sent' \in [SharedIds -> AllPosts \cup {NoRow}] /\ DOMAIN sent' = SharedIds
        BY <2>2, <3>1 DEF TypeInv, TypeOK
      <3>3. \A i \in SharedIds : shared'[i] \in {NoRow, OtherRow} \/ IsRow(shared'[i])
        <4> SUFFICES ASSUME NEW i \in SharedIds
                     PROVE  shared'[i] \in {NoRow, OtherRow} \/ IsRow(shared'[i])
          OBVIOUS
        <4>1. shared[i] \in {NoRow, OtherRow} \/ IsRow(shared[i])
          BY DEF TypeInv, TypeOK
        <4>2. CASE Fits(p) /\ shared' = [shared EXCEPT ![id] = RowOf(p)]
          <5>1. shared'[i] = IF i = id THEN RowOf(p) ELSE shared[i]
            BY <4>2 DEF TypeInv
          <5>2. IsRow(RowOf(p))
            BY <4>2, RowsFit
          <5>3. QED
            BY <4>1, <5>1, <5>2
        <4>3. CASE \A k \in SharedIds : shared'[k] \in {shared[k], OtherRow, NoRow}
          <5>1. shared'[i] \in {shared[i], OtherRow, NoRow}
            BY <4>3
          <5>2. QED
            BY <4>1, <5>1
        <4>4. QED
          BY <2>2, <4>2, <4>3 DEF Posted
      <3>4. DOMAIN shared' = SharedIds
        BY <2>2 DEF TypeInv, Posted
      <3>5. QED
        BY <1>1, <3>2, <3>3, <3>4, PostEffect DEF TypeInv, TypeOK, IsRow
    <2>3. QED
      BY <1>1, <2>1, <2>2, PostEffect
  <1>2. CASE Counts
    BY <1>2, LeavesType DEF Counts, TypeInv, TypeOK, IsRow, locals
  <1>3. CASE Selects
    BY <1>3, LeavesType DEF Selects, TypeInv, TypeOK, IsRow, Rows
  <1>4. ASSUME NEW id \in SharedIds, Visits(id) PROVE TypeInv'
    <2>1. \A e \in list' : e.id \in SharedIds
      BY <1>4 DEF Visits, TypeInv, TypeOK
    <2>2. /\ snapshot' \subseteq SharedIds /\ count' \in Nat
          /\ task' \in {"idle", "select", "loop", "reply", "ended"}
          /\ UNCHANGED <<shared, sent>>
      BY <1>4 DEF Visits, TypeInv, TypeOK
    <2>3. QED
      BY <2>1, <2>2 DEF TypeInv, TypeOK, IsRow
  <1>5. ASSUME NEW id \in SharedIds, VisitThrows(id) PROVE TypeInv'
    BY <1>5, LeavesType DEF VisitThrows
  <1>6. CASE LoopEnds \/ Restarts \/ UNCHANGED vars
    BY <1>6 DEF LoopEnds, Restarts, vars, locals, TypeInv, TypeOK, IsRow
  <1>7. CASE Replies \/ ReplyThrows
    BY <1>7, LeavesType DEF Replies, ReplyThrows
  <1>8. QED
    BY <1>1, <1>2, <1>3, <1>4, <1>5, <1>6, <1>7 DEF Next

\* Every variable keeps its type: a row holds texts of a post that stayed in their
\* literals, or is known to be another.
THEOREM RecommendTypeCorrect == Spec => []TypeOK
  <1>1. TypeInv => TypeOK
    BY DEF TypeInv
  <1>2. QED
    BY TypeInit, TypeStep, <1>1, PTL DEF Spec

-----------------------------------------------------------------------------
(***************************************************************************)
(* The number of rows                                                      *)
(***************************************************************************)
\* What has been visited and what has not are all the rows; the loop goes on up
\* to RecommendLimit + 1 rows, and stops with one more or without another.
Visited ==
    /\ IsFiniteSet(list) /\ count = Cardinality(list)
    /\ snapshot \subseteq Rows
    /\ \A e \in list : e.id \notin snapshot
    /\ Cardinality(list) + Cardinality(snapshot) = Cardinality(Rows)

CountInv ==
    /\ Visited \/ task \notin {"loop", "reply"}
    /\ task = "loop" => count <= RecommendLimit + 1
    /\ task = "reply" => \/ count <= RecommendLimit + 1 /\ snapshot = {}
                         \/ count = RecommendLimit + 2
    /\ task \notin {"loop", "reply"} => snapshot = {} /\ list = {} /\ count = 0

\* The table is finite, and so is what is still to be visited.
LEMMA FiniteRows ==
  ASSUME NEW S \in SUBSET SharedIds
  PROVE  IsFiniteSet(S) /\ Cardinality(S) \in Nat
  BY RecommendAssumption, FS_Subset, FS_CardinalityType

\* A visit moves one row from one side to the other.
LEMMA VisitedStep ==
  ASSUME TypeInv, Visited, NEW id \in SharedIds, Visits(id)
  PROVE  Visited' /\ count' = count + 1
  <1> DEFINE e == [id |-> id, sent |-> Converts(shared[id])]
  <1>1. /\ list' = list \cup {e} /\ count' = count + 1 /\ snapshot' = snapshot \ {id}
        /\ id \in snapshot /\ shared' = shared
    BY DEF Visits
  <1>2. e.id = id
    OBVIOUS
  <1> HIDE DEF e
  <1>3. e \notin list
    BY <1>1, <1>2 DEF Visited
  <1>4. IsFiniteSet(list') /\ Cardinality(list') = Cardinality(list) + 1
    BY <1>1, <1>3, FS_AddElement DEF Visited
  <1>5. Cardinality(snapshot') = Cardinality(snapshot) - 1
    BY <1>1, FiniteRows, FS_RemoveElement DEF TypeInv, TypeOK
  <1>6. Cardinality(list) \in Nat /\ Cardinality(snapshot) \in Nat
    BY FiniteRows, FS_CardinalityType DEF Visited, TypeInv, TypeOK
  <1>7. Rows' = Rows
    BY <1>1 DEF Rows
  <1>8. \A x \in list' : x.id \notin snapshot'
    BY <1>1, <1>2 DEF Visited
  <1>9. /\ count' = Cardinality(list') /\ snapshot' \subseteq Rows
        /\ Cardinality(list') + Cardinality(snapshot') = Cardinality(Rows)
    BY <1>1, <1>4, <1>5, <1>6 DEF Visited
  <1>10. QED
    BY <1>1, <1>4, <1>7, <1>8, <1>9 DEF Visited

\* Every step keeps the count.
LEMMA CountStep == TypeInv /\ CountInv /\ [Next]_vars => CountInv'
  <1> SUFFICES ASSUME TypeInv, CountInv, [Next]_vars PROVE CountInv'
    OBVIOUS
  <1>1. ASSUME NEW id \in SharedIds, NEW p \in PostsOf[id], PostSharedSchedule(id, p)
        PROVE  CountInv'
    BY <1>1, PostEffect DEF CountInv
  <1>2. ASSUME NEW to \in {"idle", "ended"}, Leaves(to) PROVE CountInv'
    BY <1>2 DEF Leaves, CountInv
  <1>3. CASE Counts
    BY <1>3, <1>2 DEF Counts, CountInv, locals
  <1>4. CASE Selects
    <2>1. ASSUME task' = "loop", snapshot' = Rows, task = "select", UNCHANGED <<shared, list, count, sent>>
          PROVE  CountInv'
      <3>1. list' = {} /\ count' = 0 /\ Rows' = Rows
        BY <2>1 DEF CountInv, Rows
      <3>2. IsFiniteSet({}) /\ Cardinality({}) = 0 /\ Cardinality(Rows) \in Nat
        BY FS_EmptySet, FiniteRows DEF Rows
      <3>3. Visited'
        BY <2>1, <3>1, <3>2 DEF Visited
      <3>4. QED
        BY <2>1, <3>1, <3>3, RecommendAssumption DEF CountInv
    <2>2. QED
      BY <1>4, <1>2, <2>1 DEF Selects
  <1>5. ASSUME NEW id \in SharedIds, Visits(id) PROVE CountInv'
    <2>1. Visited /\ count <= RecommendLimit + 1 /\ count \in Nat
      BY <1>5 DEF CountInv, Visits, TypeInv, TypeOK
    <2>2. Visited' /\ count' = count + 1
      BY <1>5, <2>1, VisitedStep
    <2>3. task' = IF count > RecommendLimit THEN "reply" ELSE "loop"
      BY <1>5 DEF Visits
    <2>4. QED
      BY <2>1, <2>2, <2>3, RecommendAssumption DEF CountInv
  <1>6. ASSUME NEW id \in SharedIds, VisitThrows(id) PROVE CountInv'
    BY <1>6, <1>2 DEF VisitThrows
  <1>7. CASE LoopEnds \/ Restarts \/ UNCHANGED vars
    BY <1>7 DEF LoopEnds, Restarts, vars, locals, CountInv, Visited, Rows
  <1>8. CASE Replies \/ ReplyThrows
    BY <1>8, <1>2 DEF Replies, ReplyThrows
  <1>9. QED
    BY <1>1, <1>3, <1>4, <1>5, <1>6, <1>7, <1>8 DEF Next

\* An answer has all the rows, or RecommendLimit + 2 of them if there are more.
THEOREM RecommendsAll == Spec => []RecommendsUpTo
  <1>1. Init => CountInv
    BY DEF Init, CountInv
  <1>2. TypeInv /\ CountInv => RecommendsUpTo
    <2> SUFFICES ASSUME TypeInv, CountInv, task = "reply"
                 PROVE  Cardinality(list) = IF Cardinality(Rows) < RecommendLimit + 2
                                            THEN Cardinality(Rows) ELSE RecommendLimit + 2
      BY DEF RecommendsUpTo
    <2>1. /\ Cardinality(list) = count /\ count \in Nat
          /\ Cardinality(list) + Cardinality(snapshot) = Cardinality(Rows)
      BY DEF CountInv, Visited, TypeInv, TypeOK
    <2>2. Cardinality(snapshot) \in Nat
      BY FiniteRows DEF TypeInv, TypeOK
    <2>3. CASE count <= RecommendLimit + 1 /\ snapshot = {}
      <3>1. Cardinality(snapshot) = 0
        BY <2>3, FS_EmptySet
      <3>2. QED
        BY <2>1, <2>3, <3>1, RecommendAssumption
    <2>4. CASE count = RecommendLimit + 2
      BY <2>1, <2>2, <2>4, RecommendAssumption
    <2>5. QED
      BY <2>3, <2>4 DEF CountInv
  <1>3. QED
    BY TypeInit, TypeStep, CountStep, <1>1, <1>2, PTL DEF Spec

-----------------------------------------------------------------------------
(***************************************************************************)
(* The texts of a post                                                     *)
(***************************************************************************)
\* Every post has two texts.
LEMMA PostTexts ==
  ASSUME NEW id \in SharedIds, NEW p \in PostsOf[id]
  PROVE  p.title \in Texts /\ p.content \in Texts
  BY RecommendAssumption DEF Texts

\* Titles without apostrophes and backslashes come into the column as they are.
LEMMA PlainTitles ==
  ASSUME NEW text \in Texts, ~Has(text, {"quote", "u0027", "backslash"})
  PROVE  /\ PlainColumn(text) = text /\ PlainColumn(text) # Rejected
         /\ Response(text) = text
  <1>1. DOMAIN text = 1 .. Len(text) /\ \A i \in DOMAIN text : text[i] \notin {"quote", "u0027", "backslash"}
    BY DEF Has, Texts
  <1>2. Unquote(text) = text
    <2>1. Unquote(text) = [i \in DOMAIN text |-> text[i]]
      BY <1>1 DEF Unquote, Apply
    <2>2. text = [i \in DOMAIN text |-> text[i]]
      BY DEF Texts
    <2>3. QED
      BY <2>1, <2>2
  <1>3. SqlLiteral(text) = text
    BY <1>1, PlainSql
  <1>4. QED
    BY <1>2, <1>3, ResponseReads, TextsAreKept DEF PlainColumn

\* A text in JSON always stays in its literal; it can be read if it has no backslash,
\* and a client reads what was posted if it has no other character that is escaped.
LEMMA JsonTexts ==
  ASSUME NEW text \in Texts
  PROVE  /\ JsonColumn(text) # Rejected
         /\ ~Has(text, {"backslash"}) => JsonRead(JsonColumn(text)) # Rejected
         /\ ~Has(text, {"dquote", "special", "backslash"}) =>
              Response(JsonRead(JsonColumn(text))) = Unquote(text)
  <1> DEFINE t == Unquote(text)
             k == Kept(t)
  <1>1. DOMAIN text = 1 .. Len(text) /\ Len(text) \in Nat /\ \A i \in DOMAIN text : text[i] \in Characters
    BY DEF Texts
  <1>2. t \in Texts /\ t = [i \in 1 .. Len(text) |-> IF text[i] = "u0027" THEN "quote" ELSE text[i]]
    BY <1>1, Unquoted DEF Unquote, Apply
  <1>3. JsonColumn(text) = k
    <2> HIDE DEF k
    <2>1. QED
      BY <1>2, JsonStored DEF JsonColumn, k
  <1>4. DOMAIN k = 1 .. Len(text) /\ \A i \in 1 .. Len(text) : k[i] =
          IF text[i] \in {"quote", "u0027"} THEN "u0027"
          ELSE IF text[i] = "dquote" THEN "u0022"
          ELSE IF text[i] = "special" THEN "uXXXX" ELSE text[i]
    <2> HIDE DEF t
    <2>1. DOMAIN k = 1 .. Len(text) /\ \A i \in 1 .. Len(text) : k[i] =
            CASE t[i] = "quote" -> "u0027"
              [] t[i] = "dquote" -> "u0022"
              [] t[i] = "special" -> "uXXXX"
              [] OTHER -> t[i]
      BY <1>2 DEF Kept
    <2>2. \A i \in 1 .. Len(text) : t[i] = IF text[i] = "u0027" THEN "quote" ELSE text[i]
      BY <1>2
    <2> HIDE DEF k
    <2>3. QED
      BY <2>1, <2>2
  <1> HIDE DEF k
  <1>5. k \in Texts
    <2>1. {"u0027", "u0022", "uXXXX"} \subseteq Characters
      BY DEF Characters
    <2>2. \A i \in 1 .. Len(text) : k[i] \in Characters
      BY <1>1, <1>4, <2>1
    <2>3. k = [i \in 1 .. Len(text) |-> k[i]]
      BY <1>4 DEF k, Kept
    <2>4. QED
      BY <1>1, <2>2, <2>3 DEF Texts
  <1>6. k # Rejected
    BY <1>5, TextsAreKept
  <1>7. ASSUME ~Has(text, {"backslash"}) PROVE JsonRead(k) = k
    <2>1. \A i \in DOMAIN k : k[i] \notin {"backslash", "dquote"}
      BY <1>1, <1>4, <1>7 DEF Has
    <2>2. QED
      BY <1>5, <2>1, PlainJson
  <1>8. ASSUME ~Has(text, {"dquote", "special", "backslash"}) PROVE Response(JsonRead(k)) = t
    <2>1. \A i \in DOMAIN text : text[i] \notin {"dquote", "special", "backslash"}
      BY <1>8 DEF Has
    <2>2. JsonRead(k) = k
      BY <1>7, <2>1 DEF Has
    <2>3. Response(k) = Unquote(k)
      BY <1>5, ResponseReads
    <2>4. Unquote(k) = [i \in 1 .. Len(text) |-> IF k[i] = "u0027" THEN "quote" ELSE k[i]]
      BY <1>4 DEF Unquote, Apply
    <2>5. \A i \in 1 .. Len(text) : (IF k[i] = "u0027" THEN "quote" ELSE k[i]) = t[i]
      BY <1>1, <1>2, <1>4, <2>1
    <2>6. t = [i \in 1 .. Len(text) |-> t[i]]
      BY <1>2
    <2>7. QED
      BY <2>2, <2>3, <2>4, <2>5, <2>6
  <1>9. QED
    BY <1>3, <1>6, <1>7, <1>8

-----------------------------------------------------------------------------
(***************************************************************************)
(* What is recommended                                                     *)
(***************************************************************************)
\* A row is that of a post that fits, of the last one if that does, or one that SQL
\* in a text has written; and what is in the list is what the rows say.
RowOK(id) ==
    shared[id] \notin {NoRow, OtherRow} =>
        /\ sent[id] \in PostsOf[id]
        /\ \E p \in PostsOf[id] : shared[id] = RowOf(p)
        /\ Fits(sent[id]) => shared[id] = RowOf(sent[id])

SharedInv ==
    /\ \A id \in SharedIds : RowOK(id)
    /\ snapshot \subseteq Rows
    /\ \A e \in list : e.id \in Rows /\ e.sent = Converts(shared[e.id])
    /\ task \in {"idle", "select", "ended"} => snapshot = {} /\ list = {}

\* Every step keeps that: nobody posts while there is a list.
LEMMA SharedStep == TypeInv /\ SharedInv /\ [Next]_vars => SharedInv'
  <1> SUFFICES ASSUME TypeInv, SharedInv, [Next]_vars PROVE SharedInv'
    OBVIOUS
  <1>1. ASSUME NEW id \in SharedIds, NEW p \in PostsOf[id], PostSharedSchedule(id, p)
        PROVE  SharedInv'
    <2>1. task' = "idle" /\ snapshot' = {} /\ list' = {}
      BY <1>1, PostEffect DEF SharedInv
    <2>2. ASSUME NEW i \in SharedIds PROVE RowOK(i)'
      <3>1. CASE UNCHANGED <<shared, sent>>
        BY <3>1 DEF SharedInv, RowOK
      <3>2. CASE sent' = [sent EXCEPT ![id] = p] /\ Posted(id, p)
        <4>1. CASE i = id
          <5>1. sent'[i] = p
            BY <3>2, <4>1 DEF TypeInv
          <5>2. CASE Fits(p)
            <6>1. shared'[i] = RowOf(p)
              BY <3>2, <4>1, <5>2 DEF TypeInv, Posted
            <6>2. QED
              BY <4>1, <5>1, <6>1 DEF RowOK
          <5>3. CASE ~Fits(p)
            <6>1. shared'[i] \in {shared[i], OtherRow, NoRow}
              BY <3>2, <5>3 DEF Posted
            <6>2. QED
              BY <4>1, <5>1, <5>3, <6>1 DEF SharedInv, RowOK
          <5>4. QED
            BY <5>2, <5>3
        <4>2. CASE i # id
          <5>1. sent'[i] = sent[i] /\ shared'[i] \in {shared[i], OtherRow, NoRow}
            BY <3>2, <4>2 DEF TypeInv, Posted
          <5>2. QED
            BY <5>1 DEF SharedInv, RowOK
        <4>3. QED
          BY <4>1, <4>2
      <3>3. QED
        BY <1>1, <3>1, <3>2, PostEffect
    <2>3. QED
      BY <2>1, <2>2 DEF SharedInv
  <1>2. ASSUME NEW to \in {"idle", "ended"}, Leaves(to) PROVE SharedInv'
    BY <1>2 DEF Leaves, SharedInv, RowOK
  <1>3. CASE Counts
    BY <1>3, <1>2 DEF Counts, SharedInv, RowOK, Rows, locals
  <1>4. CASE Selects
    BY <1>4, <1>2 DEF Selects, SharedInv, RowOK, Rows
  <1>5. ASSUME NEW id \in SharedIds, Visits(id) PROVE SharedInv'
    <2>1. UNCHANGED <<shared, sent>> /\ snapshot' \subseteq snapshot /\ task' \in {"loop", "reply"}
      BY <1>5 DEF Visits
    <2>2. \A e \in list' : e \in list \/ (e.id = id /\ e.sent = Converts(shared[id]))
      BY <1>5 DEF Visits
    <2>3. id \in Rows
      BY <1>5 DEF Visits, SharedInv
    <2>4. QED
      BY <2>1, <2>2, <2>3 DEF SharedInv, RowOK, Rows
  <1>6. ASSUME NEW id \in SharedIds, VisitThrows(id) PROVE SharedInv'
    BY <1>6, <1>2 DEF VisitThrows
  <1>7. CASE LoopEnds \/ Restarts \/ UNCHANGED vars
    BY <1>7 DEF LoopEnds, Restarts, vars, locals, SharedInv, RowOK, Rows
  <1>8. CASE Replies \/ ReplyThrows
    BY <1>8, <1>2 DEF Replies, ReplyThrows
  <1>9. QED
    BY <1>1, <1>3, <1>4, <1>5, <1>6, <1>7, <1>8 DEF Next

\* They hold when there are no rows.
LEMMA SharedInit == Init => SharedInv
  BY DEF Init, SharedInv, RowOK

\* What is recommended is what was posted, for rows that hold the texts of a post,
\* titles without apostrophes and contents without a character that the encoder
\* escapes, neither with a backslash; apostrophes in a content do come back.
THEOREM RecommendsWhatWasPosted == Spec => []SharedReadsBack
  <1>1. TypeInv /\ SharedInv => SharedReadsBack
    <2> SUFFICES ASSUME TypeInv, SharedInv, NEW e \in list, e.sent # OtherRow,
                        ~Has(sent[e.id].title, {"quote", "u0027", "backslash"}),
                        ~Has(sent[e.id].content, {"dquote", "special", "backslash"})
                 PROVE  e.sent = [title |-> sent[e.id].title, content |-> Unquote(sent[e.id].content)]
      BY DEF SharedReadsBack
    <2> DEFINE id == e.id
               p == sent[id]
    <2>1. id \in SharedIds /\ shared[id] # NoRow /\ e.sent = Converts(shared[id])
      BY DEF SharedInv, Rows
    <2>0. shared[id] # OtherRow
      BY <2>1 DEF Converts
    <2>2. p \in PostsOf[id] /\ (Fits(p) => shared[id] = RowOf(p))
      BY <2>0, <2>1 DEF SharedInv, RowOK
    <2>3. p.title \in Texts /\ p.content \in Texts
      BY <2>1, <2>2, PostTexts
    <2> HIDE DEF p
    <2>4. /\ PlainColumn(p.title) = p.title /\ PlainColumn(p.title) # Rejected
          /\ Response(p.title) = p.title
      BY <2>3, PlainTitles DEF p
    <2>5. /\ JsonColumn(p.content) # Rejected
          /\ Response(JsonRead(JsonColumn(p.content))) = Unquote(p.content)
      BY <2>3, JsonTexts DEF p
    <2>6. shared[id] = RowOf(p)
      BY <2>2, <2>4, <2>5 DEF Fits
    <2>7. RowOf(p).title = PlainColumn(p.title) /\ RowOf(p).content = JsonColumn(p.content)
      BY DEF RowOf
    <2>8. Converts(RowOf(p)) = [title |-> p.title, content |-> Unquote(p.content)]
      BY <2>0, <2>4, <2>5, <2>6, <2>7 DEF Converts
    <2>9. QED
      BY <2>1, <2>6, <2>8 DEF p
  <1>2. QED
    BY TypeInit, TypeStep, SharedInit, SharedStep, <1>1, PTL DEF Spec

\* Of the rows that hold the texts of a post only that of a content with a backslash
\* ends a task, however long the texts are and whatever else they are written with.
THEOREM RecommendThrows == Spec => OrdinaryTextsConvert
  <1> DEFINE Blames == task = "loop" /\ task' = "ended" =>
                \E id \in snapshot :
                    \/ shared[id] = OtherRow
                    \/ \E p \in PostsOf[id] : shared[id] = RowOf(p) /\ Has(p.content, {"backslash"})
  <1>1. TypeInv /\ SharedInv /\ [Next]_vars => Blames
    <2> SUFFICES ASSUME TypeInv, SharedInv, [Next]_vars, task = "loop", task' = "ended"
                 PROVE  \E id \in snapshot :
                    \/ shared[id] = OtherRow
                    \/ \E p \in PostsOf[id] : shared[id] = RowOf(p) /\ Has(p.content, {"backslash"})
      OBVIOUS
    <2>1. PICK id \in SharedIds : VisitThrows(id)
      BY DEF Next, PostSharedSchedule, Counts, Selects, LoopEnds, Visits, Replies, ReplyThrows,
          Restarts, Leaves, vars
    <2>2. id \in snapshot /\ MayThrow(shared[id])
      BY <2>1 DEF VisitThrows
    <2>3. CASE shared[id] = OtherRow
      BY <2>2, <2>3
    <2>4. CASE shared[id] # OtherRow
      <3>1. PICK p \in PostsOf[id] : shared[id] = RowOf(p)
        BY <2>2, <2>4 DEF SharedInv, RowOK, Rows
      <3>2. p.content \in Texts /\ shared[id].content = JsonColumn(p.content)
        BY <3>1, PostTexts DEF RowOf
      <3>3. JsonRead(shared[id].content) = Rejected
        BY <2>2, <2>4 DEF MayThrow
      <3>4. Has(p.content, {"backslash"})
        BY <3>2, <3>3, JsonTexts
      <3>5. QED
        BY <2>2, <3>1, <3>4
    <2>5. QED
      BY <2>3, <2>4
  <1>2. QED
    BY TypeInit, TypeStep, SharedInit, SharedStep, <1>1, PTL DEF Spec, OrdinaryTextsConvert
=============================================================================
