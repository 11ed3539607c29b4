------------------------- MODULE ImageManagerProofs -------------------------
(***************************************************************************)
(* Proofs about ImageManager, for every set of workers and requests.       *)
(***************************************************************************)
EXTENDS ImageManager, FiniteSetTheorems, TLAPS

(***************************************************************************)
(* Type correctness.  The next key is a cardinality: the table is finite.  *)
(***************************************************************************)
TypeInv ==
    /\ TypeOK
    /\ IsFiniteSet(used)
    /\ \A w \in Workers : pc[w] = "reply" => request[w] # None

\* The types hold in the initial state, and after a restart.
LEMMA TypeInit == Init => TypeInv
  BY FS_EmptySet, ImageAssumption DEF Init, TypeInv, TypeOK

\* The end of a handler keeps the types of its locals.
LEMMA FinishesType ==
  ASSUME TypeInv, NEW w \in Workers, NEW from, Finishes(w, from)
  PROVE  /\ pc' \in [Workers -> Statements \cup {"idle"}]
         /\ request' \in [Workers -> Requests \cup {None}]
         /\ self' \in [Workers -> Workers \cup {None}]
         /\ key' \in [Workers -> Nat]
         /\ \A v \in Workers : pc'[v] = "reply" => request'[v] # None
  BY DEF TypeInv, TypeOK, Finishes, Goes

\* imageAdded adds at most one row of status 1 and no row of status 0.
LEMMA AddsRow ==
  ASSUME NEW w \in Workers, Updates(w) \/ Inserts(w)
  PROVE  /\ used' \subseteq used \cup {key[w]}
         /\ free' \subseteq free
  BY DEF Updates, Inserts, ExecuteQuery

\* It keeps the types of the table.
LEMMA TableType ==
  ASSUME TypeInv, NEW w \in Workers, Updates(w) \/ Inserts(w)
  PROVE  used' \subseteq Nat /\ free' \subseteq Nat /\ IsFiniteSet(used')
  <1>1. used \subseteq Nat /\ free \subseteq Nat /\ key[w] \in Nat /\ IsFiniteSet(used)
    BY DEF TypeInv, TypeOK
  <1>2. IsFiniteSet(used \cup {key[w]})
    BY <1>1, FS_AddElement
  <1>3. IsFiniteSet(used')
    BY <1>2, AddsRow, FS_Subset
  <1>4. QED
    BY <1>1, <1>3, AddsRow

\* So does the record of overlaps.
LEMMA ActsType ==
  ASSUME overlaps \subseteq {"handler", "operator"}, NEW who \in {"handler", "operator"}, Acts(who)
  PROVE  overlaps' \subseteq {"handler", "operator"}
  BY DEF Acts

\* Every step keeps the types.
LEMMA TypeStep == TypeInv /\ [Next]_vars => TypeInv'
  <1> SUFFICES ASSUME TypeInv, [Next]_vars PROVE TypeInv'
    OBVIOUS
  <1> USE ImageAssumption DEF TypeInv, TypeOK, table, memory, locals, clients, Goes, Statements
  <1>1. ASSUME NEW w \in Workers, NEW r \in Requests, GetImage(w, r) PROVE TypeInv'
    BY <1>1, ActsType DEF GetImage
  <1>2. ASSUME NEW w \in Workers, NEW k \in HeldKeys \cup StrayIds, PostImageUpload(w, k)
        PROVE  TypeInv'
    <2>1. \A h \in holders : h[1] \in Nat
      OBVIOUS
    <2>2. k \in Nat
      <3>1. HeldKeys \subseteq Nat
        BY <2>1 DEF HeldKeys
      <3>2. QED
        BY <1>2, <3>1
    <2>3. QED
      BY <1>2, <2>2, ActsType DEF PostImageUpload
  <1>3. ASSUME NEW w \in Workers, Handles(w) PROVE TypeInv'
    <2>0. Cardinality(used) \in Nat
      BY FS_CardinalityType
    <2>1. ASSUME NEW from, HandlerThrows(w, from) PROVE TypeInv'
      BY <2>1, FinishesType DEF HandlerThrows
    <2>2. CASE Constructs(w) \/ Publishes(w) \/ ReadsInstance(w)
      <3>1. CASE Constructs(w)
        BY <3>1, <2>1 DEF Constructs
      <3>2. CASE Publishes(w)
        BY <3>2 DEF Publishes
      <3>3. CASE ReadsInstance(w)
        BY <3>3 DEF ReadsInstance
      <3>4. QED
        BY <2>2, <3>1, <3>2, <3>3
    <2>3. CASE SelectsFree(w) \/ CountsUsed(w)
      <3>1. CASE SelectsFree(w)
        <4>1. CASE \E from : HandlerThrows(w, from)
          BY <2>1, <4>1
        <4>2. CASE ~\E from : HandlerThrows(w, from)
          <5>1. /\ UNCHANGED <<used, free, instance, dictionary, request, self, asked, holders, overlaps>>
                /\ pc' = [pc EXCEPT ![w] = "row"] \/ pc' = [pc EXCEPT ![w] = "count"]
                /\ key' = key \/ \E k \in free : key' = [key EXCEPT ![w] = k]
            BY <3>1, <4>2 DEF SelectsFree
          <5>2. QED
            BY <5>1
        <4>3. QED
          BY <4>1, <4>2
      <3>2. CASE CountsUsed(w)
        <4>1. CASE \E from : HandlerThrows(w, from)
          BY <2>1, <4>1
        <4>2. CASE ~\E from : HandlerThrows(w, from)
          <5>1. /\ UNCHANGED <<used, free, instance, dictionary, request, self, asked, holders, overlaps>>
                /\ pc' = [pc EXCEPT ![w] = "row"]
                /\ key' = [key EXCEPT ![w] = Cardinality(used)]
            BY <3>2, <4>2 DEF CountsUsed
          <5>2. QED
            BY <5>1, <2>0
        <4>3. QED
          BY <4>1, <4>2
      <3>3. QED
        BY <2>3, <3>1, <3>2
    <2>4. CASE SelectsRow(w)
      <3>0. /\ dictionary' = [dictionary EXCEPT ![self[w]] = dictionary[self[w]] \cup {key[w]}]
            /\ UNCHANGED <<used, free, instance, asked, holders, overlaps>>
        BY <2>4 DEF SelectsRow
      <3>1. /\ dictionary' \in [Workers -> SUBSET Nat]
            /\ UNCHANGED <<used, free, instance, asked, holders, overlaps>>
        <4>1. key[w] \in Nat /\ self[w] \in Workers \cup {None}
          OBVIOUS
        <4>2. ASSUME NEW v \in Workers PROVE dictionary'[v] \subseteq Nat
          BY <3>0, <4>1
        <4>3. DOMAIN dictionary' = Workers /\ dictionary' = [v \in Workers |-> dictionary'[v]]
          BY <3>0
        <4>4. QED
          BY <3>0, <4>2, <4>3
      <3>2. CASE Finishes(w, "row")
        BY <3>1, <3>2, FinishesType
      <3>3. CASE ~Finishes(w, "row")
        <4>1. /\ pc' = [pc EXCEPT ![w] = "update"] \/ pc' = [pc EXCEPT ![w] = "insert"]
              /\ UNCHANGED <<request, self, key>>
          BY <2>4, <3>3 DEF SelectsRow
        <4>2. QED
          BY <3>1, <4>1
      <3>4. QED
        BY <3>2, <3>3
    <2>5. CASE Updates(w) \/ Inserts(w)
      <3>1. PICK outcome \in Outcomes :
              Executed(w, "update", outcome) \/ Executed(w, "insert", outcome)
        BY <2>5 DEF Updates, Inserts
      <3>2. UNCHANGED <<instance, dictionary, asked, holders, overlaps>>
        BY <3>1 DEF Executed
      <3>3. /\ pc' \in [Workers -> Statements \cup {"idle"}]
            /\ request' \in [Workers -> Requests \cup {None}]
            /\ self' \in [Workers -> Workers \cup {None}]
            /\ key' \in [Workers -> Nat]
            /\ \A v \in Workers : pc'[v] = "reply" => request'[v] # None
        BY <3>1, FinishesType DEF Executed
      <3>4. used' \subseteq Nat /\ free' \subseteq Nat /\ IsFiniteSet(used')
        BY <2>5, TableType
      <3>5. QED
        BY <3>2, <3>3, <3>4
    <2>6. CASE Replies(w) \/ ReplyThrows(w)
      <3>1. dictionary' \in [Workers -> SUBSET Nat]
        BY <2>6 DEF Replies, ReplyThrows
      <3>2. /\ UNCHANGED <<used, free, instance, asked, overlaps>>
            /\ holders' = holders \/ holders' = holders \cup {<<key[w], request[w]>>}
            /\ Finishes(w, "reply")
        BY <2>6 DEF Replies, ReplyThrows
      <3>3. key[w] \in Nat /\ request[w] \in Requests
        BY <3>2 DEF Finishes
      <3>4. QED
        BY <3>1, <3>2, <3>3, FinishesType
    <2>7. QED
      BY <1>3, <2>2, <2>3, <2>4, <2>5, <2>6 DEF Handles
  <1>4. ASSUME NEW k \in used, FreesRow(k) \/ DeletesRow(k) PROVE TypeInv'
    <2>1. IsFiniteSet(used \ {k})
      BY FS_Subset
    <2>2. QED
      BY <1>4, <2>1, ActsType DEF FreesRow, DeletesRow, Forgets
  <1>5. CASE Restarts
    BY <1>5 DEF Restarts
  <1>6. CASE UNCHANGED vars
    BY <1>6 DEF vars
  <1>7. QED
    BY <1>1, <1>2, <1>3, <1>4, <1>5, <1>6 DEF Next

\* Every variable of the image manager keeps its type, whatever the operator,
\* the clients and the database do.
THEOREM ImageTypeCorrect == Spec => []TypeOK
  <1>1. TypeInv => TypeOK
    BY DEF TypeInv
  <1>2. QED
    BY TypeInit, TypeStep, <1>1, PTL DEF Spec

-----------------------------------------------------------------------------
(***************************************************************************)
(* No key is issued twice, as long as nobody acts while a handler is       *)
(* running, if no statement fails half-way, no row is deleted and clients  *)
(* report only the keys they were given.                                   *)
(***************************************************************************)
Orderly ==
    /\ "sqlError" \notin Faults
    /\ "delete" \notin OperatorDoes
    /\ StrayIds = {}
    /\ StatusIsText

\* The ids of the table are 0 .. n - 1: the count of getEmptyKey is a new id.
Contiguous ==
    /\ used \cap free = {}
    /\ \E n \in Nat : used \cup free = 0 .. n - 1

\* What getEmptyKey may choose: a free row, or the next id if there is none.
IsNew(k) ==
    /\ k \notin used
    /\ k \notin free => free = {} /\ used = 0 .. k - 1

OneHandler == \A v, w \in Workers : pc[v] # "idle" /\ pc[w] # "idle" => v = w

HandlerOK(w) ==
    /\ pc[w] = "idle" => request[w] = None
    /\ pc[w] \in {"selectFree", "count", "reply"} => request[w] # None
    /\ pc[w] = "count" => free = {}
    /\ pc[w] # "idle" /\ request[w] = None => key[w] \in used
    /\ pc[w] \in {"row", "update", "insert"} /\ request[w] # None => IsNew(key[w])
    /\ pc[w] = "update" => key[w] \in used \cup free
    /\ pc[w] = "insert" => key[w] \notin used \cup free
    /\ pc[w] = "reply" => key[w] \in used \ HeldKeys

Marked == HeldKeys \subseteq used

Unique == \A g, h \in holders : g[1] = h[1] => g = h

IInv ==
    /\ TypeInv
    /\ Contiguous
    /\ Marked
    /\ Unique
    /\ OneHandler
    /\ \A w \in Workers : HandlerOK(w)

\* Overlaps are remembered; who acts without one meets no handler.
LEMMA NoOverlap ==
  ASSUME TypeInv, [Next]_vars, overlaps' = {}
  PROVE  overlaps = {}
  BY DEF Next, vars, clients, Acts, GetImage, PostImageUpload, Handles, HandlerThrows,
         Constructs, Publishes, ReadsInstance, SelectsFree, CountsUsed, SelectsRow,
         Updates, Inserts, Executed, Replies, ReplyThrows, FreesRow, DeletesRow, Restarts

LEMMA ActsAlone == ASSUME NEW who, Acts(who), overlaps' = {} PROVE Quiet
  BY DEF Acts

\* The key of a new request differs from all those given out.
LEMMA NewKeyNotHeld ==
  ASSUME IInv, NEW k, IsNew(k)
  PROVE  k \notin HeldKeys
  BY DEF IInv, Marked, IsNew

\* With every id below n taken, the number of used rows is the next id.
LEMMA CountIsNew ==
  ASSUME IInv, free = {}
  PROVE  IsNew(Cardinality(used))
  <1>1. PICK n \in Nat : used = 0 .. n - 1
    BY DEF IInv, Contiguous
  <1>2. Cardinality(0 .. n - 1) = n
    BY <1>1, FS_Interval
  <1>3. QED
    BY <1>1, <1>2 DEF IsNew

\* While a handler runs, a step of its own concerns nobody else.
LEMMA Alone ==
  ASSUME IInv, NEW w \in Workers, pc[w] # "idle", NEW to,
         pc' = [pc EXCEPT ![w] = to],
         request' = request \/ request' = [request EXCEPT ![w] = None]
  PROVE  OneHandler' /\ \A v \in Workers \ {w} : HandlerOK(v)'
  <1>1. \A v \in Workers \ {w} : pc[v] = "idle" /\ request[v] = None
    BY DEF IInv, OneHandler, HandlerOK
  <1>2. \A v \in Workers \ {w} : pc'[v] = "idle" /\ request'[v] = None
    BY <1>1 DEF IInv, TypeInv, TypeOK
  <1>3. QED
    BY <1>2 DEF OneHandler, HandlerOK

\* A handler that ends leaves the others, and what it does not touch, alone.
LEMMA AfterFinishes ==
  ASSUME IInv, NEW w \in Workers, NEW from, from # "idle", Finishes(w, from)
  PROVE  OneHandler' /\ \A v \in Workers : HandlerOK(v)'
  <1>1. OneHandler' /\ \A v \in Workers \ {w} : HandlerOK(v)'
    BY Alone DEF Finishes, Goes
  <1>2. pc'[w] = "idle" /\ request'[w] = None
    BY DEF Finishes, Goes, IInv, TypeInv, TypeOK
  <1>3. QED
    BY <1>1, <1>2 DEF HandlerOK

\* An exception that leaves the table alone keeps the invariant.
LEMMA AfterThrows ==
  ASSUME IInv, TypeInv', NEW w \in Workers, NEW from, from # "idle", Finishes(w, from),
         UNCHANGED <<used, free, holders>>
  PROVE  IInv'
  <1>1. Contiguous' /\ Marked' /\ Unique'
    BY DEF IInv, Contiguous, Marked, HeldKeys, Unique
  <1>2. QED
    BY <1>1, AfterFinishes DEF IInv

\* A statement of a handler that leaves the table alone and is followed by
\* another keeps the invariant, if the handler is still right.
LEMMA AfterStatement ==
  ASSUME IInv, TypeInv', NEW w \in Workers, pc[w] # "idle", NEW to,
         pc' = [pc EXCEPT ![w] = to],
         UNCHANGED <<used, free, request, holders>>,
         HandlerOK(w)'
  PROVE  IInv'
  <1>1. Contiguous' /\ Marked' /\ Unique'
    BY DEF IInv, Contiguous, Marked, HeldKeys, Unique
  <1>2. QED
    BY <1>1, Alone DEF IInv

\* A handler's statements keep the invariant.
LEMMA HandlerStep ==
  ASSUME Orderly, IInv, TypeInv', NEW w \in Workers, Handles(w)
  PROVE  IInv'
  <1>0. /\ TypeOK /\ HandlerOK(w) /\ Contiguous /\ Marked /\ Unique
        /\ \A outcome \in Outcomes : HasTable(outcome) \/ Throws(outcome)
    BY FaultsAssumption DEF Orderly, IInv, TypeInv, Outcomes, HasTable, Throws
  <1> USE <1>0 DEF TypeOK, HandlerOK, Goes, table, memory, locals, clients
  <1>1. ASSUME NEW from, from # "idle", HandlerThrows(w, from) PROVE IInv'
    BY <1>1, AfterThrows DEF HandlerThrows
  <1>2. CASE Constructs(w)
    <2>1. CASE HandlerThrows(w, "instance")
      BY <1>1, <2>1
    <2>2. CASE ~HandlerThrows(w, "instance")
      <3>1. /\ pc[w] # "idle" /\ pc' = [pc EXCEPT ![w] = "publish"]
            /\ UNCHANGED <<used, free, request, key, holders>>
        BY <1>2, <2>2 DEF Constructs
      <3>2. HandlerOK(w)'
        BY <3>1
      <3>3. QED
        BY <3>1, <3>2, AfterStatement
    <2>3. QED
      BY <2>1, <2>2
  <1>3. CASE Publishes(w)
    <2>1. /\ pc[w] # "idle" /\ pc' = [pc EXCEPT ![w] = "return"]
          /\ UNCHANGED <<used, free, request, key, holders>>
      BY <1>3 DEF Publishes
    <2>2. HandlerOK(w)'
      BY <2>1
    <2>3. QED
      BY <2>1, <2>2, AfterStatement
  <1>4. CASE ReadsInstance(w)
    <2> DEFINE to == IF request[w] = None THEN "row" ELSE "selectFree"
    <2>1. /\ pc[w] # "idle" /\ pc' = [pc EXCEPT ![w] = to]
          /\ UNCHANGED <<used, free, request, key, holders>>
      BY <1>4 DEF ReadsInstance
    <2>2. HandlerOK(w)'
      BY <2>1
    <2>3. QED
      BY <2>1, <2>2, AfterStatement
  <1>5. CASE SelectsFree(w)
    <2>1. CASE HandlerThrows(w, "selectFree")
      BY <1>1, <2>1
    <2>2. CASE ~HandlerThrows(w, "selectFree")
      <3>1. /\ pc[w] = "selectFree"
            /\ UNCHANGED <<used, free, request, holders>>
        BY <1>5, <2>2 DEF SelectsFree
      <3>2. ASSUME NEW k \in free, pc' = [pc EXCEPT ![w] = "row"], key' = [key EXCEPT ![w] = k]
            PROVE  IInv'
        <4>1. IsNew(k)' /\ key'[w] = k
          BY <3>1, <3>2 DEF IsNew, Contiguous
        <4>2. HandlerOK(w)'
          BY <3>1, <3>2, <4>1
        <4>3. QED
          BY <3>1, <3>2, <4>2, AfterStatement
      <3>3. ASSUME free = {}, pc' = [pc EXCEPT ![w] = "count"], key' = key
            PROVE  IInv'
        <4>1. HandlerOK(w)'
          BY <3>1, <3>3
        <4>2. QED
          BY <3>1, <3>3, <4>1, AfterStatement
      <3>4. QED
        BY <1>5, <2>2, <3>2, <3>3 DEF SelectsFree, Orderly
    <2>3. QED
      BY <2>1, <2>2
  <1>6. CASE CountsUsed(w)
    <2>1. CASE HandlerThrows(w, "count")
      BY <1>1, <2>1
    <2>2. CASE ~HandlerThrows(w, "count")
      <3>1. /\ pc[w] = "count" /\ pc' = [pc EXCEPT ![w] = "row"]
            /\ key' = [key EXCEPT ![w] = Cardinality(used)]
            /\ UNCHANGED <<used, free, request, holders>>
        BY <1>6, <2>2 DEF CountsUsed
      <3>2. key'[w] = Cardinality(used) /\ IsNew(Cardinality(used))
        BY <3>1, CountIsNew
      <3>3. IsNew(key[w])'
        BY <3>1, <3>2 DEF IsNew
      <3>4. HandlerOK(w)'
        BY <3>1, <3>3
      <3>5. QED
        BY <3>1, <3>4, AfterStatement
    <2>3. QED
      BY <2>1, <2>2
  <1>7. CASE SelectsRow(w)
    <2>1. CASE Finishes(w, "row")
      BY <1>7, <2>1, AfterThrows DEF SelectsRow
    <2>2. CASE ~Finishes(w, "row")
      <3> DEFINE to == IF key[w] \in used \cup free THEN "update" ELSE "insert"
      <3>1. /\ pc[w] = "row" /\ pc' = [pc EXCEPT ![w] = to]
            /\ UNCHANGED <<used, free, request, key, holders>>
        BY <1>7, <2>2 DEF SelectsRow
      <3>2. HandlerOK(w)'
        BY <3>1 DEF IsNew
      <3>3. QED
        BY <3>1, <3>2, AfterStatement
    <2>3. QED
      BY <2>1, <2>2
  <1>8. CASE Updates(w) \/ Inserts(w)
    <2>1. PICK outcome \in Outcomes :
            /\ \/ /\ Executed(w, "update", outcome)
                  /\ used' = ExecuteQuery(outcome, used, used \cup ({key[w]} \cap (used \cup free)))
                  /\ free' = ExecuteQuery(outcome, free, free \ ({key[w]} \cap (used \cup free)))
               \/ /\ Executed(w, "insert", outcome)
                  /\ used' = ExecuteQuery(outcome, used, used \cup ({key[w]} \ free))
                  /\ free' = free
      BY <1>8 DEF Updates, Inserts
    <2>2. /\ pc[w] \in {"update", "insert"}
          /\ holders' = holders
          /\ (\E from \in {"update", "insert"} : Finishes(w, from))
             \/ (pc' = [pc EXCEPT ![w] = "reply"] /\ request[w] # None
                 /\ UNCHANGED <<request, key>>)
      BY <2>1 DEF Executed, Finishes
    <2>3. CASE Throws(outcome)
      <3>1. \E from \in {"update", "insert"} : Finishes(w, from)
        BY <2>1, <2>3 DEF Executed
      <3>2. used' = used /\ free' = free
        BY <2>1, <2>3 DEF ExecuteQuery, Throws
      <3>3. QED
        BY <2>2, <3>1, <3>2, AfterThrows
    <2>4. CASE ~Throws(outcome)
      <3>1. used' = used \cup {key[w]} /\ free' = free \ {key[w]}
        BY <2>1, <2>4 DEF ExecuteQuery, Throws, HasTable, Executed, Finishes
      <3>2. Contiguous'
        <4>1. used' \cap free' = {}
          BY <3>1 DEF Contiguous
        <4>2. PICK n \in Nat : used \cup free = 0 .. n - 1
          BY DEF Contiguous
        <4>3. CASE key[w] \in used \cup free
          <5>1. used' \cup free' = 0 .. n - 1
            BY <3>1, <4>2, <4>3
          <5>2. QED
            BY <4>1, <5>1 DEF Contiguous
        <4>4. CASE key[w] \notin used \cup free
          <5>1. key[w] \in Nat /\ free = {} /\ used = 0 .. key[w] - 1
            BY <2>2, <4>4 DEF IsNew
          <5>2. key[w] + 1 \in Nat /\ used' \cup free' = 0 .. (key[w] + 1) - 1
            BY <3>1, <5>1
          <5>3. QED
            BY <4>1, <5>2 DEF Contiguous
        <4>5. QED
          BY <4>3, <4>4
      <3>3. Marked' /\ Unique'
        BY <2>2, <3>1 DEF Marked, HeldKeys, Unique
      <3>4. CASE \E from \in {"update", "insert"} : Finishes(w, from)
        BY <3>2, <3>3, <3>4, AfterFinishes DEF IInv
      <3>5. CASE ~\E from \in {"update", "insert"} : Finishes(w, from)
        <4>1. pc' = [pc EXCEPT ![w] = "reply"] /\ request[w] # None /\ UNCHANGED <<request, key>>
          BY <2>2, <3>5
        <4>2. key[w] \notin HeldKeys
          BY <2>2, <4>1, NewKeyNotHeld
        <4>3. HandlerOK(w)'
          BY <2>2, <3>1, <4>1, <4>2 DEF HeldKeys
        <4>4. OneHandler' /\ \A v \in Workers \ {w} : HandlerOK(v)'
          BY <2>2, <4>1, Alone
        <4>5. QED
          BY <3>2, <3>3, <4>3, <4>4 DEF IInv
      <3>6. QED
        BY <3>4, <3>5
    <2>5. QED
      BY <2>3, <2>4
  <1>9. CASE Replies(w) \/ ReplyThrows(w)
    <2>1. CASE ReplyThrows(w)
      BY <2>1, AfterThrows DEF ReplyThrows
    <2>2. CASE Replies(w)
      <3>1. /\ pc[w] = "reply" /\ Finishes(w, "reply")
            /\ used' = used /\ free' = free
            /\ holders' = holders \cup {<<key[w], request[w]>>}
        BY <2>2 DEF Replies, Finishes
      <3>2. key[w] \in used /\ \A h \in holders : h[1] # key[w]
        BY <3>1 DEF HeldKeys
      <3>3. Contiguous' /\ Marked'
        BY <3>1, <3>2 DEF Contiguous, Marked, HeldKeys
      <3>4. Unique'
        BY <3>1, <3>2 DEF Unique
      <3>5. QED
        BY <3>1, <3>3, <3>4, AfterFinishes DEF IInv
    <2>3. QED
      BY <1>9, <2>1, <2>2
  <1>10. QED
    BY <1>2, <1>3, <1>4, <1>5, <1>6, <1>7, <1>8, <1>9 DEF Handles

\* The invariant holds when the server is started for the first time.
LEMMA InitInv == Init => IInv
  <1> SUFFICES ASSUME Init PROVE IInv
    OBVIOUS
  <1>1. {} = 0 .. 0 - 1
    OBVIOUS
  <1>2. Contiguous
    BY <1>1 DEF Init, Contiguous
  <1>3. Marked /\ Unique /\ OneHandler /\ \A w \in Workers : HandlerOK(w)
    BY DEF Init, Marked, HeldKeys, Unique, OneHandler, HandlerOK
  <1>4. QED
    BY <1>2, <1>3, TypeInit DEF IInv

\* A new request meets no other handler.
LEMMA RequestStep ==
  ASSUME Orderly, IInv, TypeInv', overlaps' = {}, NEW w \in Workers,
         \/ \E r \in Requests : GetImage(w, r)
         \/ \E k \in HeldKeys \cup StrayIds : PostImageUpload(w, k)
  PROVE  IInv'
  <1>1. \A v \in Workers : pc[v] = "idle" /\ request[v] = None
    BY ActsAlone DEF GetImage, PostImageUpload, Quiet, IInv, HandlerOK
  <1>2. /\ pc' = [pc EXCEPT ![w] = "instance"]
        /\ UNCHANGED <<used, free, holders>>
        /\ \/ request'[w] # None
           \/ request'[w] = None /\ key'[w] \in HeldKeys
        /\ \A v \in Workers \ {w} : request'[v] = None
    <2>1. CASE \E r \in Requests : GetImage(w, r)
      BY <2>1, <1>1, ImageAssumption DEF GetImage, Goes, table, IInv, TypeInv, TypeOK
    <2>2. CASE \E k \in HeldKeys \cup StrayIds : PostImageUpload(w, k)
      BY <2>2, <1>1 DEF PostImageUpload, Goes, table, clients, Orderly, IInv, TypeInv, TypeOK
    <2>3. QED
      BY <2>1, <2>2
  <1>3. Contiguous' /\ Marked' /\ Unique'
    BY <1>2 DEF IInv, Contiguous, Marked, HeldKeys, Unique
  <1>4. OneHandler' /\ \A v \in Workers : HandlerOK(v)'
    BY <1>1, <1>2 DEF OneHandler, HandlerOK, IInv, TypeInv, TypeOK, Marked
  <1>5. QED
    BY <1>3, <1>4 DEF IInv

\* A row the operator frees stays in the table and is nobody's any more.
LEMMA OperatorStep ==
  ASSUME Orderly, IInv, TypeInv', overlaps' = {}, NEW k \in used, FreesRow(k) \/ DeletesRow(k)
  PROVE  IInv'
  <1>1. /\ \A v \in Workers : pc[v] = "idle" /\ request[v] = None
        /\ used' = used \ {k} /\ free' = free \cup {k}
        /\ UNCHANGED <<pc, request>>
        /\ holders' = {h \in holders : h[1] # k}
    BY ActsAlone DEF FreesRow, DeletesRow, Forgets, Orderly, Quiet, locals, IInv, HandlerOK
  <1>2. used' \cup free' = used \cup free
    BY <1>1
  <1>3. Contiguous'
    BY <1>1, <1>2 DEF IInv, Contiguous
  <1>4. Marked' /\ Unique'
    BY <1>1 DEF IInv, Marked, HeldKeys, Unique
  <1>5. OneHandler' /\ \A v \in Workers : HandlerOK(v)'
    BY <1>1 DEF OneHandler, HandlerOK
  <1>6. QED
    BY <1>3, <1>4, <1>5 DEF IInv

\* A restart ends every handler, in the middle of whatever it does.
LEMMA RestartStep == ASSUME IInv, TypeInv', Restarts PROVE IInv'
  <1>1. Contiguous' /\ Marked' /\ Unique'
    BY DEF Restarts, table, clients, IInv, Contiguous, Marked, HeldKeys, Unique
  <1>2. OneHandler' /\ \A v \in Workers : HandlerOK(v)'
    BY DEF Restarts, OneHandler, HandlerOK
  <1>3. QED
    BY <1>1, <1>2 DEF IInv

\* Every step without an overlap keeps the invariant.
LEMMA InvStep == ASSUME Orderly, IInv, [Next]_vars, overlaps' = {} PROVE IInv'
  <1>1. TypeInv'
    BY TypeStep DEF IInv
  <1>2. CASE UNCHANGED vars
    <2>1. Contiguous' /\ Marked' /\ Unique'
      BY <1>2 DEF vars, IInv, Contiguous, Marked, HeldKeys, Unique
    <2>2. OneHandler' /\ \A v \in Workers : HandlerOK(v)'
      BY <1>2 DEF vars, IInv, OneHandler, HandlerOK, IsNew, HeldKeys
    <2>3. QED
      BY <1>1, <2>1, <2>2 DEF IInv
  <1>3. QED
    BY <1>1, <1>2, RequestStep, HandlerStep, OperatorStep, RestartStep DEF Next

\* The invariant holds as long as nobody acts while a handler is running.
KeyInv == TypeInv /\ (overlaps = {} => IInv)

LEMMA Inductive == ASSUME Orderly PROVE Spec => []KeyInv
  <1>1. Init => KeyInv
    BY InitInv DEF KeyInv, IInv
  <1>2. KeyInv /\ [Next]_vars => KeyInv'
    BY TypeStep, NoOverlap, InvStep DEF KeyInv
  <1>3. QED
    BY <1>1, <1>2, PTL DEF Spec

\* If statements do not fail half-way, rows are freed and not deleted, and
\* clients report only keys they were given, then no two requests are answered
\* with the same key while handlers and queries take turns, across lost
\* connections, lost answers and restarts.
THEOREM KeysUnique == ASSUME Orderly PROVE Spec => []NoDoubleIssue
  <1>1. KeyInv => NoDoubleIssue
    BY DEF KeyInv, IInv, Unique, NoDoubleIssue
  <1>2. QED
    BY Inductive, <1>1, PTL

-----------------------------------------------------------------------------
(***************************************************************************)
(* Keys in use are marked                                                  *)
(***************************************************************************)
\* Between Select and statement of a handler nobody but the operator takes a
\* row away or frees it, so the statement does what the Select decided.
MarkOK(w) ==
    /\ pc[w] = "update" => key[w] \in used \cup free
    /\ pc[w] = "insert" => key[w] \notin free
    /\ pc[w] = "reply" => key[w] \in used

MarkInv ==
    "operator" \notin overlaps => Marked /\ \A w \in Workers : MarkOK(w)

\* A handler at w that leaves the table and the answers alone keeps the
\* invariant, if its own statement is still right.
LEMMA MarkStatement ==
  ASSUME TypeInv, MarkInv, NEW w \in Workers,
         UNCHANGED <<used, free, holders, overlaps>>,
         \A v \in Workers \ {w} : pc'[v] = pc[v] /\ key'[v] = key[v],
         pc'[w] \notin {"update", "insert", "reply"}
  PROVE  MarkInv'
  BY DEF MarkInv, MarkOK, Marked, HeldKeys

\* The same for its end.
LEMMA MarkFinishes ==
  ASSUME TypeInv, NEW w \in Workers, NEW from, Finishes(w, from)
  PROVE  /\ \A v \in Workers \ {w} : pc'[v] = pc[v] /\ key'[v] = key[v]
         /\ pc'[w] = "idle"
  BY DEF Finishes, Goes, TypeInv, TypeOK

\* A statement of imageAdded that does not fail half-way marks the key.
LEMMA MarkExecutes ==
  ASSUME "sqlError" \notin Faults, TypeInv, MarkInv, NEW w \in Workers,
         Updates(w) \/ Inserts(w)
  PROVE  MarkInv'
  <1> SUFFICES ASSUME "operator" \notin overlaps' PROVE Marked' /\ \A v \in Workers : MarkOK(v)'
    BY DEF MarkInv
  <1>1. PICK outcome \in Outcomes :
          \/ /\ Executed(w, "update", outcome)
             /\ used' = ExecuteQuery(outcome, used, used \cup ({key[w]} \cap (used \cup free)))
             /\ free' = ExecuteQuery(outcome, free, free \ ({key[w]} \cap (used \cup free)))
          \/ /\ Executed(w, "insert", outcome)
             /\ used' = ExecuteQuery(outcome, used, used \cup ({key[w]} \ free))
             /\ free' = free
    BY DEF Updates, Inserts
  <1>2. holders' = holders /\ overlaps' = overlaps /\ pc[w] \in {"update", "insert"}
    BY <1>1 DEF Executed, Finishes, Goes, clients
  <1>3. Marked /\ \A v \in Workers : MarkOK(v)
    BY <1>2 DEF MarkInv
  <1>4. used \subseteq used' /\ free' \subseteq free /\ used \cup free \subseteq used' \cup free'
    BY <1>1 DEF ExecuteQuery
  <1>5. Marked'
    BY <1>2, <1>3, <1>4 DEF Marked, HeldKeys
  <1>6. \A v \in Workers \ {w} : pc'[v] = pc[v] /\ key'[v] = key[v]
    BY <1>1, MarkFinishes DEF Executed, Goes, locals, TypeInv, TypeOK
  <1>7. \A v \in Workers \ {w} : MarkOK(v)'
    BY <1>3, <1>4, <1>6 DEF MarkOK
  <1>8. MarkOK(w)'
    <2>1. CASE \E from : Finishes(w, from)
      BY <2>1, MarkFinishes DEF MarkOK
    <2>2. CASE ~\E from : Finishes(w, from)
      <3>1. outcome = "ok" /\ pc' = [pc EXCEPT ![w] = "reply"] /\ key' = key
        BY <1>1, <2>2, FaultsAssumption DEF Executed, Goes, locals, Outcomes, Throws
      <3>2. key[w] \in used'
        BY <1>1, <1>2, <1>3, <3>1 DEF MarkOK, ExecuteQuery, Executed, Finishes, Goes
      <3>3. QED
        BY <3>1, <3>2 DEF MarkOK, TypeInv, TypeOK
    <2>3. QED
      BY <2>1, <2>2
  <1>9. QED
    BY <1>5, <1>7, <1>8

\* Every step keeps the invariant.
LEMMA MarkStep ==
  ASSUME "sqlError" \notin Faults, TypeInv, MarkInv, [Next]_vars
  PROVE  MarkInv'
  <1> USE DEF TypeInv, TypeOK, table, memory, locals, clients, Goes
  <1>1. ASSUME NEW w \in Workers, NEW r \in Requests, GetImage(w, r) PROVE MarkInv'
    <2>1. /\ UNCHANGED <<used, free, holders, key>>
          /\ pc' = [pc EXCEPT ![w] = "instance"]
          /\ "operator" \notin overlaps' => "operator" \notin overlaps
      BY <1>1 DEF GetImage, Acts
    <2>2. QED
      BY <2>1 DEF MarkInv, MarkOK, Marked, HeldKeys
  <1>2. ASSUME NEW w \in Workers, NEW k \in HeldKeys \cup StrayIds, PostImageUpload(w, k)
        PROVE  MarkInv'
    <2>1. /\ UNCHANGED <<used, free, holders>>
          /\ pc' = [pc EXCEPT ![w] = "instance"]
          /\ key' = [key EXCEPT ![w] = k]
          /\ "operator" \notin overlaps' => "operator" \notin overlaps
      BY <1>2 DEF PostImageUpload, Acts
    <2>2. QED
      BY <2>1 DEF MarkInv, MarkOK, Marked, HeldKeys
  <1>3. ASSUME NEW w \in Workers, Handles(w) PROVE MarkInv'
    <2>1. ASSUME NEW from, HandlerThrows(w, from) PROVE MarkInv'
      BY <2>1, MarkFinishes, MarkStatement DEF HandlerThrows
    <2>2. CASE Constructs(w) \/ Publishes(w) \/ ReadsInstance(w)
      <3>1. CASE HandlerThrows(w, "instance")
        BY <2>1, <3>1
      <3>2. CASE ~HandlerThrows(w, "instance")
        <4>1. /\ UNCHANGED <<used, free, holders, overlaps, key>>
              /\ \E to \in {"publish", "return", "row", "selectFree"} :
                    pc' = [pc EXCEPT ![w] = to]
          BY <2>2, <3>2 DEF Constructs, Publishes, ReadsInstance
        <4>2. QED
          BY <4>1, MarkStatement
      <3>3. QED
        BY <3>1, <3>2
    <2>3. CASE SelectsFree(w) \/ CountsUsed(w)
      <3>1. CASE \E from : HandlerThrows(w, from)
        BY <2>1, <3>1
      <3>2. CASE ~\E from : HandlerThrows(w, from)
        <4>1. /\ UNCHANGED <<used, free, holders, overlaps>>
              /\ \E k : key' = [key EXCEPT ![w] = k] \/ key' = key
              /\ \E to \in {"row", "count"} : pc' = [pc EXCEPT ![w] = to]
          BY <2>3, <3>2 DEF SelectsFree, CountsUsed
        <4>2. QED
          BY <4>1, MarkStatement
      <3>3. QED
        BY <3>1, <3>2
    <2>4. CASE SelectsRow(w)
      <3>1. CASE Finishes(w, "row")
        BY <2>4, <3>1, MarkFinishes, MarkStatement DEF SelectsRow
      <3>2. CASE ~Finishes(w, "row")
        <4>1. /\ UNCHANGED <<used, free, holders, overlaps, key>>
              /\ pc' = [pc EXCEPT ![w] = IF key[w] \in used \cup free THEN "update" ELSE "insert"]
          BY <2>4, <3>2 DEF SelectsRow
        <4>2. QED
          BY <4>1 DEF MarkInv, MarkOK, Marked, HeldKeys
      <3>3. QED
        BY <3>1, <3>2
    <2>5. CASE Updates(w) \/ Inserts(w)
      BY <2>5, MarkExecutes
    <2>6. CASE ReplyThrows(w)
      BY <2>6, MarkFinishes, MarkStatement DEF ReplyThrows
    <2>7. CASE Replies(w)
      <3>1. /\ UNCHANGED <<used, free, overlaps>> /\ pc[w] = "reply"
            /\ holders' = holders \cup {<<key[w], request[w]>>}
            /\ pc'[w] = "idle"
            /\ \A v \in Workers \ {w} : pc'[v] = pc[v] /\ key'[v] = key[v]
        BY <2>7, MarkFinishes DEF Replies, Finishes
      <3>2. HeldKeys' \subseteq HeldKeys \cup {key[w]}
        <4>1. ASSUME NEW h \in holders' PROVE h[1] \in HeldKeys \cup {key[w]}
          BY <3>1, <4>1 DEF HeldKeys
        <4>2. QED
          BY <4>1 DEF HeldKeys
      <3>3. QED
        BY <3>1, <3>2 DEF MarkInv, MarkOK, Marked
    <2>8. QED
      BY <1>3, <2>2, <2>3, <2>4, <2>5, <2>6, <2>7 DEF Handles
  <1>4. ASSUME NEW k \in used, FreesRow(k) \/ DeletesRow(k) PROVE MarkInv'
    <2>1. /\ UNCHANGED <<pc, key>>
          /\ used' = used \ {k} /\ free' \in {free, free \cup {k}}
          /\ holders' = {h \in holders : h[1] # k}
          /\ "operator" \notin overlaps' => "operator" \notin overlaps /\ Quiet
      BY <1>4 DEF FreesRow, DeletesRow, Forgets, Acts
    <2>2. HeldKeys' = HeldKeys \ {k}
      BY <2>1 DEF HeldKeys
    <2>3. QED
      BY <2>1, <2>2 DEF MarkInv, MarkOK, Marked, Quiet
  <1>5. CASE Restarts
    BY <1>5 DEF Restarts, MarkInv, MarkOK, Marked, HeldKeys
  <1>6. CASE UNCHANGED vars
    BY <1>6 DEF vars, MarkInv, MarkOK, Marked, HeldKeys
  <1>7. QED
    BY <1>1, <1>2, <1>3, <1>4, <1>5, <1>6 DEF Next

\* If no statement fails half-way, a key that has been given out is marked in
\* the table, with any number of racing tasks, and lost connections and
\* restarts between any two statements.
THEOREM KeysMarked == ASSUME "sqlError" \notin Faults PROVE Spec => []HeldKeysMarked
  <1>1. Init => TypeInv /\ MarkInv
    BY TypeInit DEF Init, MarkInv, MarkOK, Marked, HeldKeys
  <1>2. TypeInv /\ MarkInv /\ [Next]_vars => TypeInv' /\ MarkInv'
    BY TypeStep, MarkStep
  <1>3. MarkInv => HeldKeysMarked
    BY DEF MarkInv, Marked, HeldKeysMarked
  <1>4. QED
    BY <1>1, <1>2, <1>3, PTL DEF Spec
-----------------------------------------------------------------------------
(***************************************************************************)
(* The dictionary covers the table                                         *)
(***************************************************************************)
Calls == {"selectFree", "count", "row", "update", "insert", "reply"}

\* What the only handler there is knows of the manager it makes or calls: the
\* key is in the dictionary before the statement that marks it.
CoverOK(w) ==
    /\ pc[w] = "publish" => used \subseteq dictionary[w]
    /\ pc[w] \in Calls => instance # None /\ self[w] = instance
    /\ pc[w] \in {"update", "insert"} => key[w] \in dictionary[instance]

Covered == instance # None => used \subseteq dictionary[instance]

Cover == OneHandler /\ Covered /\ \A w \in Workers : CoverOK(w)

CoverInv == "handler" \notin overlaps => Cover

\* A step of the handler at w, the only one, is right for all if it is for w.
LEMMA CoverAlone ==
  ASSUME TypeInv, Cover, NEW w \in Workers, pc[w] # "idle",
         \A v \in Workers \ {w} : pc'[v] = pc[v],
         Covered', CoverOK(w)'
  PROVE  Cover'
  <1>1. \A v \in Workers \ {w} : pc'[v] = "idle"
    BY DEF Cover, OneHandler
  <1>2. QED
    BY <1>1 DEF Cover, OneHandler, CoverOK, Calls

\* A handler that ends: what it leaves behind must cover the table.
LEMMA CoverFinishes ==
  ASSUME TypeInv, Cover, NEW w \in Workers, NEW from, from # "idle", Finishes(w, from), Covered'
  PROVE  Cover'
  <1>1. pc[w] # "idle" /\ pc'[w] = "idle"
    BY DEF Finishes, Goes, TypeInv, TypeOK
  <1>2. CoverOK(w)'
    BY <1>1 DEF CoverOK, Calls
  <1>3. QED
    BY <1>1, <1>2, MarkFinishes, CoverAlone

\* A new request meets no other handler, or an overlap is recorded.
LEMMA CoverRequest ==
  ASSUME TypeInv, CoverInv, NEW w \in Workers, Acts("handler"),
         pc' = [pc EXCEPT ![w] = "instance"],
         UNCHANGED <<used, instance, dictionary>>
  PROVE  CoverInv'
  <1> SUFFICES ASSUME "handler" \notin overlaps' PROVE Cover'
    BY DEF CoverInv
  <1>1. Quiet /\ Cover
    BY DEF Acts, CoverInv
  <1>2. pc'[w] = "instance" /\ \A v \in Workers \ {w} : pc'[v] = "idle"
    BY <1>1 DEF Quiet, TypeInv, TypeOK
  <1>3. QED
    BY <1>1, <1>2 DEF Cover, OneHandler, Covered, CoverOK, Calls

\* A handler's statements keep the dictionary ahead of the table.
LEMMA CoverHandles ==
  ASSUME StatusIsText, TypeInv, CoverInv, NEW w \in Workers, Handles(w)
  PROVE  CoverInv'
  <1> USE DEF TypeInv, TypeOK, table, memory, locals, clients, Goes
  <1>0. overlaps' = overlaps
    BY DEF Handles, HandlerThrows, Constructs, Publishes, ReadsInstance, SelectsFree,
           CountsUsed, SelectsRow, Updates, Inserts, Executed, Replies, ReplyThrows
  <1> SUFFICES ASSUME Cover PROVE Cover'
    BY <1>0 DEF CoverInv
  <1>1. Covered /\ CoverOK(w)
    BY DEF Cover
  <1>2. ASSUME NEW from, from # "idle", HandlerThrows(w, from) PROVE Cover'
    <2>1. Covered'
      BY <1>1, <1>2 DEF HandlerThrows, Covered
    <2>2. QED
      BY <1>2, <2>1, CoverFinishes DEF HandlerThrows
  <1>3. CASE Constructs(w)
    <2>1. CASE HandlerThrows(w, "instance")
      BY <1>2, <2>1
    <2>2. CASE ~HandlerThrows(w, "instance")
      <3>1. /\ pc[w] # "idle" /\ pc' = [pc EXCEPT ![w] = "publish"]
            /\ dictionary' = [dictionary EXCEPT ![w] = used]
            /\ UNCHANGED <<used, instance>> /\ instance = None
        BY <1>3, <2>2 DEF Constructs
      <3>2. Covered' /\ CoverOK(w)'
        BY <3>1 DEF Covered, CoverOK, Calls
      <3>3. QED
        BY <3>1, <3>2, CoverAlone
    <2>3. QED
      BY <2>1, <2>2
  <1>4. CASE Publishes(w)
    <2>1. /\ pc[w] = "publish" /\ pc' = [pc EXCEPT ![w] = "return"]
          /\ instance' = w /\ UNCHANGED <<used, dictionary>>
      BY <1>4 DEF Publishes
    <2>2. Covered' /\ CoverOK(w)'
      BY <1>1, <2>1 DEF Covered, CoverOK, Calls
    <2>3. QED
      BY <2>1, <2>2, CoverAlone
  <1>5. CASE ReadsInstance(w)
    <2>1. /\ pc[w] \in {"instance", "return"}
          /\ \E to \in {"row", "selectFree"} : pc' = [pc EXCEPT ![w] = to]
          /\ instance # None /\ self'[w] = instance
          /\ UNCHANGED <<used, dictionary, instance>>
      BY <1>5 DEF ReadsInstance
    <2>2. Covered' /\ CoverOK(w)'
      BY <1>1, <2>1 DEF Covered, CoverOK, Calls
    <2>3. QED
      BY <2>1, <2>2, CoverAlone
  <1>6. CASE SelectsFree(w) \/ CountsUsed(w)
    <2>1. CASE HandlerThrows(w, "selectFree") \/ HandlerThrows(w, "count")
      BY <1>2, <2>1
    <2>2. CASE ~(HandlerThrows(w, "selectFree") \/ HandlerThrows(w, "count"))
      <3>1. /\ pc[w] \in {"selectFree", "count"}
            /\ \E to \in {"row", "count"} : pc' = [pc EXCEPT ![w] = to]
            /\ UNCHANGED <<used, dictionary, instance, self>>
        BY <1>6, <2>2 DEF SelectsFree, CountsUsed
      <3>2. Covered' /\ CoverOK(w)'
        BY <1>1, <3>1 DEF Covered, CoverOK, Calls
      <3>3. QED
        BY <3>1, <3>2, CoverAlone
    <2>3. QED
      BY <2>1, <2>2
  <1>7. CASE SelectsRow(w)
    <2>1. /\ pc[w] = "row" /\ self[w] = instance /\ instance \in Workers
          /\ UNCHANGED <<used, instance>>
          /\ dictionary' = [dictionary EXCEPT ![self[w]] = dictionary[self[w]] \cup {key[w]}]
      BY <1>1, <1>7 DEF SelectsRow, Finishes, CoverOK, Calls
    <2>2. key[w] \in dictionary'[instance] /\ dictionary[instance] \subseteq dictionary'[instance]
      BY <2>1
    <2>3. Covered'
      BY <1>1, <2>1, <2>2 DEF Covered
    <2>4. CASE Finishes(w, "row")
      BY <2>3, <2>4, CoverFinishes
    <2>5. CASE ~Finishes(w, "row")
      <3>1. /\ \E to \in {"update", "insert"} : pc' = [pc EXCEPT ![w] = to]
            /\ UNCHANGED <<self, key>>
        BY <1>7, <2>5 DEF SelectsRow
      <3>2. CoverOK(w)'
        BY <1>1, <2>1, <2>2, <3>1 DEF CoverOK, Calls
      <3>3. QED
        BY <2>1, <2>3, <3>1, <3>2, CoverAlone
    <2>6. QED
      BY <2>4, <2>5
  <1>8. CASE Updates(w) \/ Inserts(w)
    <2>1. PICK outcome \in Outcomes :
            Executed(w, "update", outcome) \/ Executed(w, "insert", outcome)
      BY <1>8 DEF Updates, Inserts
    <2>2. /\ pc[w] \in {"update", "insert"}
          /\ UNCHANGED <<dictionary, instance>>
          /\ used' \subseteq used \cup {key[w]}
      BY <1>8, <2>1, AddsRow DEF Executed, Finishes
    <2>3. Covered'
      BY <1>1, <2>2 DEF Covered, CoverOK
    <2>4. CASE \E from \in {"update", "insert"} : Finishes(w, from)
      BY <2>3, <2>4, CoverFinishes
    <2>5. CASE ~\E from \in {"update", "insert"} : Finishes(w, from)
      <3>1. pc' = [pc EXCEPT ![w] = "reply"] /\ self' = self
        BY <2>1, <2>5 DEF Executed
      <3>2. CoverOK(w)'
        BY <1>1, <2>2, <3>1 DEF CoverOK, Calls
      <3>3. QED
        BY <2>2, <2>3, <3>1, <3>2, CoverAlone
    <2>6. QED
      BY <2>4, <2>5
  <1>9. CASE Replies(w) \/ ReplyThrows(w)
    <2>1. /\ pc[w] = "reply" /\ instance \in Workers /\ Finishes(w, "reply")
          /\ UNCHANGED <<used, instance>>
          /\ dictionary' = [dictionary EXCEPT ![instance] = dictionary[instance] \cup {key[w]}]
      BY <1>1, <1>9 DEF Replies, ReplyThrows, Finishes, CoverOK, Calls
    <2>2. Covered'
      BY <1>1, <2>1 DEF Covered
    <2>3. QED
      BY <2>1, <2>2, CoverFinishes
  <1>10. QED
    BY <1>3, <1>4, <1>5, <1>6, <1>7, <1>8, <1>9 DEF Handles

\* Every step keeps the invariant.
LEMMA CoverStep ==
  ASSUME StatusIsText, TypeInv, CoverInv, [Next]_vars
  PROVE  CoverInv'
  <1>1. ASSUME NEW w \in Workers,
               \/ \E r \in Requests : GetImage(w, r)
               \/ \E k \in HeldKeys \cup StrayIds : PostImageUpload(w, k)
        PROVE  CoverInv'
    BY <1>1, CoverRequest DEF GetImage, PostImageUpload, Goes, table, memory
  <1>2. ASSUME NEW w \in Workers, Handles(w) PROVE CoverInv'
    BY <1>2, CoverHandles
  <1>3. ASSUME NEW k \in used, FreesRow(k) \/ DeletesRow(k) PROVE CoverInv'
    <2>1. /\ UNCHANGED <<instance, dictionary, pc, self, key>>
          /\ used' \subseteq used
          /\ "handler" \notin overlaps' => "handler" \notin overlaps
      BY <1>3 DEF FreesRow, DeletesRow, Acts, memory, locals
    <2>2. QED
      BY <2>1 DEF CoverInv, Cover, OneHandler, Covered, CoverOK
  <1>4. CASE Restarts
    BY <1>4 DEF Restarts, clients, CoverInv, Cover, OneHandler, Covered, CoverOK, Calls
  <1>5. CASE UNCHANGED vars
    BY <1>5 DEF vars, CoverInv, Cover, OneHandler, Covered, CoverOK
  <1>6. QED
    BY <1>1, <1>2, <1>3, <1>4, <1>5 DEF Next

\* If the status is a text, the dictionary is never behind the table while
\* handlers take turns, whatever statements fail, whatever clients report, and
\* whenever the operator changes the table or the server is started again.
THEOREM DictionaryCovers == ASSUME StatusIsText PROVE Spec => []DictionaryCoversTable
  <1>1. Init => TypeInv /\ CoverInv
    BY TypeInit DEF Init, CoverInv, Cover, OneHandler, Covered, CoverOK, Calls
  <1>2. TypeInv /\ CoverInv /\ [Next]_vars => TypeInv' /\ CoverInv'
    BY TypeStep, CoverStep
  <1>3. CoverInv => DictionaryCoversTable
    BY DEF CoverInv, Cover, Covered, DictionaryCoversTable
  <1>4. QED
    BY <1>1, <1>2, <1>3, PTL DEF Spec

-----------------------------------------------------------------------------
(***************************************************************************)
(* The allocator                                                           *)
(*                                                                         *)
(* As long as nobody acts while a handler is running, ImageManager         *)
(* implements KeyAllocator: every step reserves, hands, loses or releases  *)
(* keys, or changes none of them.                                          *)
(***************************************************************************)
Implements == [Allocator!Next]_(Allocator!vars)

\* The keys being answered are marked, and nobody has them yet.
LEMMA ReservedMarked ==
  ASSUME IInv
  PROVE  Reserved \subseteq used \ HeldKeys
  BY DEF IInv, HandlerOK, Reserved

\* While a handler is running, only its own key can be reserved.
LEMMA ReservedBy ==
  ASSUME OneHandler, NEW w \in Workers, pc[w] # "idle"
  PROVE  Reserved = IF pc[w] = "reply" THEN {key[w]} ELSE {}
  BY DEF OneHandler, Reserved

\* If all handlers are idle, no key is reserved.
LEMMA NoneReserved == ASSUME Quiet PROVE Reserved = {}
  BY DEF Quiet, Reserved

\* After a step of the handler at w it is still the only one.
LEMMA ReservedAfter ==
  ASSUME IInv, NEW w \in Workers, pc[w] # "idle",
         \A v \in Workers \ {w} : pc'[v] = pc[v]
  PROVE  Reserved' = IF pc'[w] = "reply" THEN {key'[w]} ELSE {}
  <1>1. \A v \in Workers \ {w} : pc'[v] = "idle"
    BY DEF IInv, OneHandler
  <1>2. QED
    BY <1>1 DEF Reserved

\* A step that changes neither table nor answers, and is not about the end of
\* GET /image, is a stutter of the allocator.
LEMMA Stutters ==
  ASSUME Reserved' = Reserved, UNCHANGED <<used, holders>>
  PROVE  Implements
  <1>1. HeldKeys' = HeldKeys
    BY DEF HeldKeys
  <1>2. UNCHANGED <<Reserved, HeldKeys, used \ (Reserved \cup HeldKeys)>>
    BY <1>1
  <1>3. QED
    BY <1>2 DEF Implements, Allocator!vars

\* The same for a statement of the handler at w.
LEMMA HandlerStutters ==
  ASSUME IInv, NEW w \in Workers, pc[w] \notin {"idle", "reply"}, pc'[w] # "reply",
         \A v \in Workers \ {w} : pc'[v] = pc[v],
         UNCHANGED <<used, holders>>
  PROVE  Implements
  <1>1. Reserved = {} /\ Reserved' = {}
    BY ReservedBy, ReservedAfter DEF IInv
  <1>2. QED
    BY <1>1, Stutters

\* The statement of imageAdded reserves the key of GET /image.
LEMMA StatementReserves ==
  ASSUME Orderly, IInv, NEW w \in Workers, Updates(w) \/ Inserts(w)
  PROVE  Implements
  <1> USE DEF TypeInv, TypeOK, Goes, locals, clients
  <1>1. PICK outcome \in Outcomes :
          /\ \/ /\ Executed(w, "update", outcome)
                /\ used' = ExecuteQuery(outcome, used, used \cup ({key[w]} \cap (used \cup free)))
             \/ /\ Executed(w, "insert", outcome)
                /\ used' = ExecuteQuery(outcome, used, used \cup ({key[w]} \ free))
    BY DEF Updates, Inserts
  <1>2. /\ pc[w] \in {"update", "insert"} /\ holders' = holders
        /\ TypeOK /\ HandlerOK(w) /\ OneHandler /\ Marked
    BY <1>1 DEF Executed, Finishes, IInv
  <1>3. \A v \in Workers \ {w} : pc'[v] = pc[v]
    BY <1>1, <1>2 DEF Executed, Finishes
  <1>4. CASE Throws(outcome) \/ request[w] = None
    <2>1. pc'[w] = "idle"
      BY <1>1, <1>2, <1>4 DEF Executed, Finishes
    <2>2. used' = used
      <3>1. CASE Throws(outcome)
        BY <1>1, <3>1 DEF ExecuteQuery, Throws
      <3>2. CASE request[w] = None
        BY <1>1, <1>2, <3>2 DEF ExecuteQuery, HandlerOK
      <3>3. QED
        BY <1>4, <3>1, <3>2
    <2>3. QED
      BY <1>2, <1>3, <2>1, <2>2, HandlerStutters
  <1>5. CASE ~Throws(outcome) /\ request[w] # None
    <2>1. pc'[w] = "reply" /\ key' = key
      BY <1>1, <1>2, <1>5 DEF Executed
    <2>2. outcome = "ok"
      BY <1>5, FaultsAssumption DEF Orderly, Outcomes, Throws
    <2>3. used' = used \cup {key[w]} /\ key[w] \notin used
      BY <1>1, <1>2, <1>5, <2>2 DEF ExecuteQuery, HandlerOK, IsNew, Executed, Finishes
    <2>4. Reserved = {} /\ Reserved' = {key[w]}
      BY <1>2, <1>3, <2>1, ReservedBy, ReservedAfter
    <2>5. HeldKeys' = HeldKeys /\ HeldKeys \subseteq used
      BY <1>2 DEF HeldKeys, Marked
    <2>6. (used \ (Reserved \cup HeldKeys))' = used \ (Reserved \cup HeldKeys)
      BY <2>3, <2>4, <2>5
    <2>7. Allocator!Reserve
      BY <2>3, <2>4, <2>5, <2>6 DEF Allocator!Reserve, Allocator!Taken
    <2>8. QED
      BY <2>7 DEF Implements, Allocator!Next
  <1>6. QED
    BY <1>4, <1>5

\* The answer hands the key over, or loses it.
LEMMA ReplyHands ==
  ASSUME IInv, NEW w \in Workers, Replies(w) \/ ReplyThrows(w)
  PROVE  Implements
  <1>1. /\ pc[w] = "reply" /\ pc'[w] = "idle" /\ used' = used
        /\ \A v \in Workers \ {w} : pc'[v] = pc[v]
    BY DEF Replies, ReplyThrows, Finishes, Goes, table, IInv, TypeInv, TypeOK
  <1>2. Reserved = {key[w]} /\ Reserved' = {}
    BY <1>1, ReservedBy, ReservedAfter DEF IInv
  <1>3. key[w] \in used \ HeldKeys
    BY <1>2, ReservedMarked
  <1>4. CASE Replies(w)
    <2>1. HeldKeys' = HeldKeys \cup {key[w]}
      <3>1. holders' = holders \cup {<<key[w], request[w]>>}
        BY <1>4 DEF Replies
      <3>2. HeldKeys' \subseteq HeldKeys \cup {key[w]}
        <4>1. ASSUME NEW h \in holders' PROVE h[1] \in HeldKeys \cup {key[w]}
          BY <3>1, <4>1 DEF HeldKeys
        <4>2. QED
          BY <4>1 DEF HeldKeys
      <3>3. HeldKeys \subseteq HeldKeys'
        BY <3>1 DEF HeldKeys
      <3>4. key[w] \in HeldKeys'
        <4>1. <<key[w], request[w]>> \in holders' /\ <<key[w], request[w]>>[1] = key[w]
          BY <3>1
        <4>2. QED
          BY <4>1 DEF HeldKeys
      <3>5. QED
        BY <3>2, <3>3, <3>4
    <2>2. (used \ (Reserved \cup HeldKeys))' = used \ (Reserved \cup HeldKeys)
      BY <1>1, <1>2, <2>1
    <2>3. Allocator!Hand(key[w])
      BY <1>2, <2>1, <2>2 DEF Allocator!Hand
    <2>4. QED
      BY <1>2, <2>3 DEF Implements, Allocator!Next
  <1>5. CASE ReplyThrows(w)
    <2>1. HeldKeys' = HeldKeys
      BY <1>5 DEF ReplyThrows, clients, HeldKeys
    <2>2. (used \ (Reserved \cup HeldKeys))' = (used \ (Reserved \cup HeldKeys)) \cup {key[w]}
      BY <1>1, <1>2, <1>3, <2>1
    <2>3. Allocator!Lose({key[w]})
      BY <1>2, <2>1, <2>2 DEF Allocator!Lose
    <2>4. QED
      BY <1>2, <2>3 DEF Implements, Allocator!Next
  <1>6. QED
    BY <1>4, <1>5

\* The operator releases a key.
LEMMA OperatorReleases ==
  ASSUME Orderly, IInv, overlaps' = {}, NEW k \in used, FreesRow(k) \/ DeletesRow(k)
  PROVE  Implements
  <1>1. Quiet /\ UNCHANGED pc /\ used' = used \ {k} /\ holders' = {h \in holders : h[1] # k}
    BY ActsAlone DEF FreesRow, DeletesRow, Forgets
  <1>2. Reserved = {} /\ Reserved' = {}
    BY <1>1, NoneReserved DEF Quiet, Reserved
  <1>3. HeldKeys' = HeldKeys \ {k}
    BY <1>1 DEF HeldKeys
  <1>4. (used \ (Reserved \cup HeldKeys))' = (used \ (Reserved \cup HeldKeys)) \ {k}
    BY <1>1, <1>2, <1>3
  <1>5. Allocator!Release(k)
    BY <1>2, <1>3, <1>4 DEF Allocator!Release
  <1>6. k \in HeldKeys \cup (used \ (Reserved \cup HeldKeys))
    BY <1>2
  <1>7. QED
    BY <1>5, <1>6 DEF Implements, Allocator!Next

\* A restart loses the key being answered.
LEMMA RestartLoses == ASSUME IInv, Restarts PROVE Implements
  <1>1. Reserved' = {} /\ used' = used /\ HeldKeys' = HeldKeys
    BY DEF Restarts, Reserved, table, clients, HeldKeys
  <1>2. Reserved \subseteq used \ HeldKeys
    BY ReservedMarked
  <1>3. (used \ (Reserved \cup HeldKeys))' = (used \ (Reserved \cup HeldKeys)) \cup Reserved
    BY <1>1, <1>2
  <1>4. Allocator!Lose(Reserved)
    BY <1>1, <1>3 DEF Allocator!Lose
  <1>5. QED
    BY <1>4 DEF Implements, Allocator!Next

\* A new request reserves nothing yet.
LEMMA RequestStutters ==
  ASSUME IInv, overlaps' = {}, NEW w \in Workers,
         \/ \E r \in Requests : GetImage(w, r)
         \/ \E k \in HeldKeys \cup StrayIds : PostImageUpload(w, k)
  PROVE  Implements
  <1>1. /\ Quiet /\ UNCHANGED <<used, holders>>
        /\ pc' = [pc EXCEPT ![w] = "instance"]
    BY ActsAlone DEF GetImage, PostImageUpload, Goes, table
  <1>2. Reserved = {} /\ Reserved' = {}
    BY <1>1, NoneReserved DEF Quiet, Reserved, IInv, TypeInv, TypeOK
  <1>3. QED
    BY <1>1, <1>2, Stutters

\* Every step without an overlap is a step of the allocator or a stutter.
LEMMA StepImplements ==
  ASSUME Orderly, IInv, [Next]_vars, overlaps' = {}
  PROVE  Implements
  <1>1. ASSUME NEW w \in Workers, Handles(w) PROVE Implements
    <2> USE DEF Goes, table, memory, locals, clients, IInv, TypeInv, TypeOK
    <2>1. CASE Constructs(w) \/ Publishes(w) \/ ReadsInstance(w)
      <3>1. /\ pc[w] \in {"instance", "publish", "return"} /\ pc'[w] # "reply"
            /\ UNCHANGED <<used, holders>>
            /\ \A v \in Workers \ {w} : pc'[v] = pc[v]
        BY <2>1 DEF Constructs, Publishes, ReadsInstance, HandlerThrows, Finishes
      <3>2. QED
        BY <3>1, HandlerStutters
    <2>2. CASE SelectsFree(w) \/ CountsUsed(w) \/ SelectsRow(w)
      <3>1. /\ pc[w] \in {"selectFree", "count", "row"} /\ pc'[w] # "reply"
            /\ UNCHANGED <<used, holders>>
            /\ \A v \in Workers \ {w} : pc'[v] = pc[v]
        BY <2>2 DEF SelectsFree, CountsUsed, SelectsRow, HandlerThrows, Finishes
      <3>2. QED
        BY <3>1, HandlerStutters
    <2>3. CASE Updates(w) \/ Inserts(w)
      BY <2>3, StatementReserves
    <2>4. CASE Replies(w) \/ ReplyThrows(w)
      BY <2>4, ReplyHands
    <2>5. QED
      BY <1>1, <2>1, <2>2, <2>3, <2>4 DEF Handles
  <1>2. CASE UNCHANGED vars
    BY <1>2, Stutters DEF vars, Reserved
  <1>3. QED
    BY <1>1, <1>2, RequestStutters, OperatorReleases, RestartLoses DEF Next

\* Under the conditions of KeysUnique, the handlers of GET /image implement the
\* allocator of KeyAllocator while handlers and queries take turns.
THEOREM KeysAllocated == ASSUME Orderly PROVE Spec => AllocatesKeys
  <1>1. Init => Allocator!Init
    BY DEF Init, Allocator!Init, Reserved, HeldKeys
  <1>2. KeyInv /\ [Next]_vars => (overlaps' = {} => [Allocator!Next]_(Allocator!vars))
    BY NoOverlap, StepImplements DEF KeyInv, Implements
  <1>3. KeyInv /\ [Next]_vars =>
          [overlaps' = {} => [Allocator!Next]_(Allocator!vars)]_vars
    BY <1>2
  <1>4. QED
    BY Inductive, <1>1, <1>3, PTL DEF Spec, AllocatesKeys
=============================================================================
