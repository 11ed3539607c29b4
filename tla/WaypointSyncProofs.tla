------------------------- MODULE WaypointSyncProofs -------------------------
(***************************************************************************)
(* Proofs about WaypointSync, for any waypoints, any files and any names.  *)
(***************************************************************************)
EXTENDS WaypointSync, TextPathProofs, TLAPS

-----------------------------------------------------------------------------
(***************************************************************************)
(* Types                                                                   *)
(***************************************************************************)
\* The arrays are defined for every id.
TypeInv ==
    /\ TypeOK
    /\ DOMAIN table = Ids /\ DOMAIN base = Ids

\* What has been read is a sequence of items.
LEMMA ItemsRead ==
  ASSUME TypeOK
  PROVE  /\ jArr \in Seq(Items \cup {NotAnObject})
         /\ Len(jArr) \in Nat /\ DOMAIN jArr = 1 .. Len(jArr)
         /\ progress \in Nat
  <1>1. jArr \in Seq(Items \cup {NotAnObject})
    <2>1. CASE jArr \in Files \ {NotJson}
      BY <2>1, WaypointAssumption
    <2>2. CASE jArr = <<>>
      BY <2>2
    <2>3. QED
      BY <2>1, <2>2 DEF TypeOK
  <1>2. progress \in 0 .. Len(jArr)
    BY DEF TypeOK
  <1>3. QED
    BY <1>1, <1>2

\* A name of a file is stored if it stays in its literal.
LEMMA NamesOfFiles ==
  ASSUME TypeOK, NEW i \in DOMAIN jArr, jArr[i] # NotAnObject
  PROVE  /\ jArr[i] \in Items
         /\ Stored(jArr[i]) <=> NameColumn(jArr[i].name) # Rejected
  <1>1. jArr[i] \in Items
    BY ItemsRead
  <1>2. jArr \in Files \ {NotJson}
    BY DEF TypeOK
  <1>3. jArr[i].name \in FileNames
    BY <1>2 DEF FileNames
  <1>4. QED
    BY <1>1, <1>3 DEF Stored, StoredNames

\* The table after a statement of which a name has left its literal.
Strayed == DOMAIN table' = Ids /\ \A i \in Ids : table'[i] = table[i] \/ table'[i] \in Astray

\* Whatever was the outcome of a statement, it is left behind and concerns the
\* row of the next item at most, unless the name has left its literal.
LEMMA UpsertEffect ==
  ASSUME TypeInv, UpsertsRow
  PROVE  /\ progress' = progress + 1 /\ progress < Len(jArr)
         /\ NextItem \in Items /\ jArr[progress + 1] = NextItem /\ NextItem # NotAnObject
         /\ UNCHANGED <<file, console, jArr, search, base>>
         /\ \/ skipped' = skipped /\ Stored(NextItem) /\ table' = WithRow(progress + 1)
            \/ skipped' = skipped /\ ~Stored(NextItem) /\ Strayed
            \/ skipped' = skipped \cup {progress + 1} /\ table' = table
  <1>1. PICK outcome \in Outcomes : Statement(outcome, WithRow(progress + 1))
    BY DEF UpsertsRow
  <1>2. /\ progress' = progress + 1 /\ progress < Len(jArr)
        /\ NextItem # NotAnObject
        /\ UNCHANGED <<file, console, jArr, search, base>>
    BY <1>1 DEF UpsertsRow, Statement
  <1>3. NextItem \in Items /\ jArr[progress + 1] = NextItem
    BY <1>2, ItemsRead DEF TypeInv, NextItem
  <1>4. PICK changed \in IF Stored(NextItem) THEN {WithRow(progress + 1)} ELSE Strays :
          table' = ExecuteQuery(outcome, table, changed)
    BY <1>1 DEF Statement
  <1>5. skipped' = IF outcome = "ok" THEN skipped ELSE skipped \cup {progress + 1}
    BY <1>1 DEF Statement
  <1>6. CASE outcome = "ok"
    <2>1. skipped' = skipped /\ table' = changed
      BY <1>4, <1>5, <1>6 DEF ExecuteQuery
    <2>2. CASE Stored(NextItem)
      BY <1>2, <1>3, <1>4, <2>1, <2>2
    <2>3. CASE ~Stored(NextItem)
      <3>1. changed \in Strays
        BY <1>4, <2>3
      <3>2. DOMAIN changed = Ids /\ \A i \in Ids : changed[i] = table[i] \/ changed[i] \in Astray
        BY <3>1 DEF Strays, Astray
      <3>3. QED
        BY <1>2, <1>3, <2>1, <2>3, <3>2 DEF Strayed
    <2>4. QED
      BY <2>2, <2>3
  <1>7. CASE outcome # "ok"
    <2>1. skipped' = skipped \cup {progress + 1} /\ table' = table
      BY <1>4, <1>5, <1>7 DEF ExecuteQuery
    <2>2. QED
      BY <1>2, <1>3, <2>1
  <1>8. QED
    BY <1>6, <1>7

\* The types hold when the server is started for the first time.
LEMMA TypeInit == Init => TypeInv
  BY DEF Init, TypeInv, TypeOK

\* The end of the process ends the search.
LEMMA EndsType ==
  ASSUME TypeInv, ProcessEnds, UNCHANGED <<table, file, locals, history>>
  PROVE  TypeInv'
  BY DEF ProcessEnds, TypeInv, TypeOK, locals, history, IsRow

\* Every step keeps the types.
LEMMA TypeStep == TypeInv /\ [Next]_vars => TypeInv'
  <1> SUFFICES ASSUME TypeInv, [Next]_vars PROVE TypeInv'
    OBVIOUS
  <1> USE DEF TypeInv, TypeOK, IsRow
  <1>1. ASSUME NEW f \in Files, ReplacesFile(f) PROVE TypeInv'
    BY <1>1 DEF ReplacesFile, locals, search, history
  <1>2. CASE SyncStarts
    BY <1>2, WaypointAssumption DEF SyncStarts, search
  <1>3. CASE ParseThrows \/ RowThrows \/ CastThrows \/ Crashes
    BY <1>3, EndsType DEF ParseThrows, RowThrows, CastThrows, Crashes
  <1>4. CASE UpsertsRow
    <2>1. progress' \in 0 .. Len(jArr') /\ skipped' \subseteq 1 .. progress'
      <3>1. /\ progress' = progress + 1 /\ progress < Len(jArr) /\ jArr' = jArr
            /\ progress \in Nat /\ Len(jArr) \in Nat
        BY <1>4, UpsertEffect, ItemsRead
      <3>2. skipped' = skipped \/ skipped' = skipped \cup {progress + 1}
        BY <1>4, UpsertEffect
      <3>3. skipped \subseteq 1 .. progress
        OBVIOUS
      <3> HIDE DEF TypeInv
      <3>4. progress' \in 0 .. Len(jArr')
        BY <3>1
      <3>5. skipped' \subseteq 1 .. progress'
        <4>1. \A i \in skipped : i \in 1 .. progress + 1
          BY <3>1, <3>3
        <4>2. progress + 1 \in 1 .. progress + 1
          BY <3>1
        <4>3. skipped' \subseteq 1 .. progress + 1
          BY <3>2, <4>1, <4>2
        <4>4. QED
          BY <3>1, <4>3
      <3>6. QED
        BY <3>4, <3>5
    <2>2. \A id \in Ids : table'[id] \in {NoRow, OtherRow} \/ IsRow(table'[id])
      <3>1. CASE table' = table
        BY <3>1
      <3>2. CASE table' = WithRow(progress + 1)
        <4>1. NextItem.id \in Ids
          BY <1>4, UpsertEffect DEF Items
        <4>2. jArr \in Files \ {NotJson} /\ progress + 1 \in DOMAIN jArr
          BY <1>4, UpsertEffect, ItemsRead
        <4>3. QED
          BY <3>2, <4>1, <4>2 DEF WithRow
      <3>3. CASE Strayed
        BY <3>3 DEF Strayed, Astray
      <3>4. QED
        BY <1>4, <3>1, <3>2, <3>3, UpsertEffect
    <2>3. DOMAIN table' = Ids
      BY <1>4, UpsertEffect DEF WithRow, Strayed
    <2>4. QED
      BY <1>4, <2>1, <2>2, <2>3, UpsertEffect DEF search
  <1>5. CASE RowsEnd
    BY <1>5 DEF RowsEnd, locals, search, history
  <1>6. CASE Counts
    <2>1. CASE ProcessEnds
      BY <1>6, <2>1, EndsType DEF Counts
    <2>2. CASE ~ProcessEnds
      BY <1>6, <2>2 DEF Counts, locals, search, history
    <2>3. QED
      BY <2>1, <2>2
  <1>7. CASE Restarts
    BY <1>7 DEF Restarts
  <1>8. ASSUME NEW keyword \in Keywords, Searches(keyword) PROVE TypeInv'
    <2>1. UNCHANGED <<table, file, console, jArr, progress, base, skipped>>
      BY <1>8 DEF Searches, locals, history
    <2>2. task' \in {"idle", "found", "failed", "ended"}
      BY <1>8 DEF Searches
    <2>3. \A e \in found' : e.id \in Ids /\ IsRow(e.row)
      BY <1>8 DEF Searches, Found
    <2>4. QED
      BY <2>1, <2>2, <2>3
  <1>9. CASE Replies \/ TaskRestarts
    BY <1>9 DEF Replies, TaskRestarts, locals, history
  <1>10. CASE UNCHANGED vars
    BY <1>10 DEF vars, locals, search, history
  <1>11. QED
    BY <1>1, <1>2, <1>3, <1>4, <1>5, <1>6, <1>7, <1>8, <1>9, <1>10 DEF Next, ConsoleGoesOn

\* Every variable of the import and of the search keeps its type.
THEOREM WaypointTypeCorrect == Spec => []TypeOK
  <1>1. TypeInv => TypeOK
    BY DEF TypeInv
  <1>2. QED
    BY TypeInit, TypeStep, <1>1, PTL DEF Spec

-----------------------------------------------------------------------------
(***************************************************************************)
(* The rows of an import                                                   *)
(***************************************************************************)
\* The stored items of an id among those the loop has left behind.
StoredOf(id) == {i \in Done \ skipped : jArr[i].id = id /\ Stored(jArr[i])}

\* Those whose names have left their literals.
LeftItems == {i \in Done \ skipped : ~Stored(jArr[i])}

\* ImportedPrefix for one id.
Prefixed(id) ==
    /\ StoredOf(id) = {} => table[id] = base[id] \/ (table[id] \in Astray /\ LeftItems # {})
    /\ \A i \in StoredOf(id) : (\A j \in StoredOf(id) : j <= i) =>
        \/ table[id] = [file |-> jArr, index |-> i]
        \/ table[id] \in Astray /\ \E j \in LeftItems : i < j

\* ImportedPrefix speaks of every id by itself.
LEMMA PrefixById == ImportedPrefix <=> \A id \in Ids : Prefixed(id)
  BY DEF ImportedPrefix, Prefixed, StoredOf, LeftItems

\* Before the first item the table is the one before the import.
LEMMA PrefixFresh ==
  ASSUME progress = 0, table = base
  PROVE  ImportedPrefix
  <1>1. Done = {}
    BY DEF Done
  <1>2. QED
    BY <1>1, PrefixById DEF Prefixed, StoredOf

\* A step that does nothing to the import keeps its rows.
LEMMA PrefixUnchanged ==
  ASSUME ImportedPrefix, UNCHANGED <<table, jArr, progress, base, skipped>>
  PROVE  ImportedPrefix'
  BY DEF ImportedPrefix, Done

\* One more item: it is the last one of its id if it is stored, and else there
\* are the stored items there were.
LEMMA PrefixUpsert ==
  ASSUME TypeInv, ImportedPrefix, UpsertsRow
  PROVE  ImportedPrefix'
  <1> DEFINE k == progress + 1
  <1>1. /\ progress \in Nat /\ progress' = k /\ jArr' = jArr /\ base' = base
        /\ skipped \subseteq 1 .. progress
        /\ NextItem = jArr[k] /\ NextItem # NotAnObject /\ NextItem.id \in Ids
    BY UpsertEffect, ItemsRead DEF TypeInv, TypeOK, Items
  <1>2. Done' = Done \cup {k}
    BY <1>1 DEF Done
  <1>3. k \notin skipped /\ \A i \in Done : i < k
    BY <1>1 DEF Done
  <1>4. Done \subseteq Nat
    BY DEF Done
  <1>5. SUFFICES ASSUME NEW id \in Ids PROVE Prefixed(id)'
    BY <1>5 DEF ImportedPrefix, Prefixed, StoredOf, LeftItems
  <1>6. Prefixed(id)
    BY PrefixById
  <1>7. CASE /\ skipped' = skipped /\ Stored(NextItem) /\ NextItem.id = id
             /\ table' = WithRow(k)
    <2>1. StoredOf(id)' = StoredOf(id) \cup {k}
      BY <1>1, <1>2, <1>3, <1>7 DEF StoredOf, Stored
    <2>2. table'[id] = [file |-> jArr, index |-> k]
      BY <1>7 DEF WithRow, TypeInv
    <2>3. \A i \in StoredOf(id)' : (\A j \in StoredOf(id)' : j <= i) => i = k
      <3>1. \A i \in StoredOf(id) : i \in Nat /\ i < k
        BY <1>3, <1>4 DEF StoredOf
      <3>2. k \in Nat /\ k \in StoredOf(id)'
        BY <1>1, <2>1
      <3>3. QED
        BY <2>1, <3>1, <3>2
    <2>4. QED
      BY <1>1, <2>1, <2>2, <2>3 DEF Prefixed
  <1>8. CASE StoredOf(id)' = StoredOf(id) /\ table'[id] = table[id] /\ LeftItems \subseteq LeftItems'
    BY <1>1, <1>6, <1>8 DEF Prefixed
  <1>9. CASE /\ skipped' = skipped /\ Stored(NextItem) /\ NextItem.id # id
             /\ table' = WithRow(k)
    <2>1. StoredOf(id)' = StoredOf(id) /\ LeftItems' = LeftItems
      BY <1>1, <1>2, <1>3, <1>9 DEF StoredOf, LeftItems, Stored
    <2>2. table'[id] = table[id]
      BY <1>1, <1>9 DEF WithRow, TypeInv
    <2>3. QED
      BY <1>8, <2>1, <2>2
  <1>10. CASE skipped' = skipped /\ ~Stored(NextItem) /\ Strayed
    <2>1. StoredOf(id)' = StoredOf(id)
      BY <1>1, <1>2, <1>3, <1>10 DEF StoredOf, Stored
    <2>2. LeftItems' = LeftItems \cup {k}
      BY <1>1, <1>2, <1>3, <1>10 DEF LeftItems, Stored
    <2>3. CASE table'[id] = table[id]
      BY <1>8, <2>1, <2>2, <2>3
    <2>4. CASE table'[id] \in Astray
      <3>1. \A i \in StoredOf(id)' : i < k
        BY <1>3, <2>1 DEF StoredOf
      <3>2. k \in LeftItems'
        BY <2>2
      <3>3. (table[id] \in Astray)'
        BY <2>4 DEF Astray
      <3>4. QED
        BY <3>1, <3>2, <3>3 DEF Prefixed
    <2>5. QED
      BY <1>10, <2>3, <2>4 DEF Strayed
  <1>11. CASE skipped' = skipped \cup {k} /\ table' = table
    <2>1. StoredOf(id)' = StoredOf(id) /\ LeftItems' = LeftItems
      BY <1>1, <1>2, <1>3, <1>11 DEF StoredOf, LeftItems, Stored
    <2>2. QED
      BY <1>8, <1>11, <2>1
  <1>12. QED
    BY <1>7, <1>9, <1>10, <1>11, UpsertEffect

\* Every step keeps them.
LEMMA PrefixStep == TypeInv /\ ImportedPrefix /\ [Next]_vars => ImportedPrefix'
  <1> SUFFICES ASSUME TypeInv, ImportedPrefix, [Next]_vars PROVE ImportedPrefix'
    OBVIOUS
  <1>1. CASE UpsertsRow
    BY <1>1, PrefixUpsert
  <1>2. CASE SyncStarts \/ Restarts
    <2>1. progress' = 0 /\ table' = base'
      BY <1>2 DEF SyncStarts, Restarts
    <2>2. Done' = {}
      BY <2>1 DEF Done
    <2>3. QED
      BY <2>1, <2>2 DEF ImportedPrefix
  <1>3. CASE UNCHANGED <<table, jArr, progress, base, skipped>>
    BY <1>3, PrefixUnchanged
  <1>4. QED
    BY <1>1, <1>2, <1>3 DEF Next, ConsoleGoesOn, ReplacesFile, ParseThrows, RowThrows, CastThrows,
        RowsEnd, Counts, Crashes, Searches, Replies, TaskRestarts, vars, locals, history

\* At any moment of an import, and where one has been cut off, the table is the
\* one before with the stored items of the file up to there laid over it, but for
\* what names that have left their literals did to it after these items.
THEOREM RowsImported == Spec => []ImportedPrefix
  <1>1. Init => ImportedPrefix
    BY PrefixFresh DEF Init
  <1>2. QED
    BY TypeInit, TypeStep, PrefixStep, <1>1, PTL DEF Spec

-----------------------------------------------------------------------------
(***************************************************************************)
(* Names                                                                   *)
(***************************************************************************)
\* The escapes a plain name does not have.
Troubled == {<<"backslash", "backslash">>, <<"backslash", "u0027">>, <<"backslash", "quote">>}

\* Other units are no apostrophes and no backslashes once those of the file have
\* been replaced.
LEMMA PlainUnit ==
  ASSUME NEW u, IsUnit(u), u \notin Troubled, u \notin JsonUnreadable
  PROVE  JsonMeaning(Quote(u)) \notin {"quote", "backslash"}
  <1> DEFINE f == [c \in {"quote"} |-> "u0027"]
  <1>1. IsReplacement(f) /\ \A c \in Characters : Becomes(f, c) = IF c = "quote" THEN "u0027" ELSE c
    BY Replacements DEF Becomes
  <1>2. Quote(u) = Apply(f, u)
    BY DEF Quote
  <1>3. {"quote", "u0027", "backslash"} \subseteq Characters
    BY DEF Characters
  <1> HIDE DEF f
  <1>4. ASSUME NEW c \in Characters, u = <<c>> PROVE JsonMeaning(Quote(u)) \notin {"quote", "backslash"}
    <2>1. c # "backslash"
      BY <1>4, Singles
    <2>2. Quote(u) = <<IF c = "quote" THEN "u0027" ELSE c>>
      BY <1>1, <1>2, <1>4, AppliedUnits
    <2>3. CASE c = "quote"
      BY <1>3, <2>2, <2>3, Singles
    <2>4. CASE c # "quote"
      BY <2>1, <2>2, <2>4, Singles
    <2>5. QED
      BY <2>3, <2>4
  <1>5. ASSUME NEW c \in Characters, u = <<"backslash", c>>
        PROVE  JsonMeaning(Quote(u)) \notin {"quote", "backslash"}
    <2>1. c \notin {"backslash", "u0027", "quote"}
      BY <1>5 DEF Troubled
    <2>2. Quote(u) = <<"backslash", c>>
      <3>1. Apply(f, <<"backslash", c>>) = <<Becomes(f, "backslash"), Becomes(f, c)>>
        BY <1>1, <1>3, AppliedUnits
      <3>2. Becomes(f, "backslash") = "backslash" /\ Becomes(f, c) = c
        BY <1>1, <1>3, <2>1
      <3>3. QED
        BY <1>2, <1>5, <3>1, <3>2
    <2>3. QED
      BY <2>1, <2>2, Pairs
  <1>6. QED
    BY <1>4, <1>5 DEF IsUnit

\* A plain name comes into the table as it is parsed, and a client is sent the name
\* of the file.
LEMMA PlainNames ==
  ASSUME NEW item \in Items, Plain(item)
  PROVE  /\ NameColumn(item.name) # Rejected
         /\ Response(NameColumn(item.name)) = Unquote(JsonRead(item.name))
  <1> DEFINE text == item.name
             units == Units(text, {})
             after == Units(Quote(text), {})
             f == [c \in {"quote"} |-> "u0027"]
  <1>1. text \in Texts /\ JsonRead(text) # Rejected
    BY DEF Items, Names, Texts
  <1>2. \A i \in DOMAIN units : units[i] \notin Troubled
    BY DEF Plain, Troubled
  <1> HIDE DEF text
  <1>3. /\ AreUnits(units) /\ after = [i \in DOMAIN units |-> Quote(units[i])]
        /\ Quote(text) \in Texts
    <2>1. IsReplacement(f) /\ \A u : Quote(u) = Apply(f, u)
      BY Replacements DEF Quote
    <2> HIDE DEF f
    <2>2. QED
      BY <1>1, <2>1, ReplacedUnits, Applied DEF Each
  <1>4. \A i \in DOMAIN units : units[i] \notin JsonUnreadable
    BY <1>1, ReadsTexts
  <1>5. ParsedName(text) # Rejected /\ ParsedName(text) \in Texts
    <2>1. ParsedName(text) # Rejected
      BY <1>1, NamesParsed
    <2>2. QED
      BY <1>3, <2>1, ReadsTexts DEF ParsedName
  <1>6. ParsedName(text) = [i \in DOMAIN after |-> JsonMeaning(after[i])]
    BY <1>5 DEF ParsedName, JsonRead, Reads
  <1> HIDE DEF units, after
  <1>7. \A i \in DOMAIN ParsedName(text) : ParsedName(text)[i] \notin {"backslash", "quote"}
    <2> SUFFICES ASSUME NEW i \in DOMAIN units
                 PROVE  JsonMeaning(Quote(units[i])) \notin {"backslash", "quote"}
      BY <1>3, <1>6
    <2>1. IsUnit(units[i]) /\ units[i] \notin Troubled /\ units[i] \notin JsonUnreadable
      BY <1>2, <1>3, <1>4 DEF AreUnits
    <2>2. QED
      BY <2>1, PlainUnit
  <1>8. NameColumn(text) = ParsedName(text)
    BY <1>5, <1>7, PlainSql DEF NameColumn
  <1>9. Response(ParsedName(text)) = Unquote(JsonRead(text))
    BY <1>1, <1>5, NamesParsed, ResponseReads
  <1>10. QED
    BY <1>5, <1>8, <1>9 DEF text

-----------------------------------------------------------------------------
(***************************************************************************)
(* What a search sends                                                     *)
(***************************************************************************)
\* A row holds an object with its name, and a search sends what the row holds.
HoldsItem(r) == IsRow(r) /\ ItemOf(r) \in Items

NamesInv ==
    /\ \A id \in Ids : table[id] \notin Astray => HoldsItem(table[id])
    /\ \A e \in found : HoldsItem(e.row) /\ e.name = Sends(e.row)

\* Every step keeps that.
LEMMA NamesStep == TypeInv /\ NamesInv /\ [Next]_vars => NamesInv'
  <1> SUFFICES ASSUME TypeInv, NamesInv, [Next]_vars PROVE NamesInv'
    OBVIOUS
  <1> USE DEF NamesInv
  <1>1. CASE UpsertsRow
    <2>1. table' = table \/ table' = WithRow(progress + 1) \/ Strayed
      BY <1>1, UpsertEffect
    <2>2. HoldsItem([file |-> jArr, index |-> progress + 1])
      <3>1. NextItem \in Items /\ jArr[progress + 1] = NextItem /\ progress < Len(jArr)
        BY <1>1, UpsertEffect
      <3>2. progress + 1 \in DOMAIN jArr /\ jArr # <<>>
        BY <3>1, ItemsRead DEF TypeInv
      <3>3. jArr \in Files \ {NotJson}
        BY <3>2 DEF TypeInv, TypeOK
      <3>4. QED
        BY <3>1, <3>2, <3>3 DEF HoldsItem, IsRow, ItemOf
    <2>3. \A id \in Ids : table'[id] \notin Astray => HoldsItem(table'[id])
      BY <2>1, <2>2 DEF WithRow, Strayed, TypeInv
    <2>4. found' = found
      BY <1>1, UpsertEffect DEF search
    <2>5. QED
      BY <2>3, <2>4 DEF HoldsItem, IsRow, ItemOf, Sends, NameOf, Astray
  <1>2. ASSUME NEW keyword \in Keywords, Searches(keyword) PROVE NamesInv'
    <2>1. table' = table
      BY <1>2 DEF Searches
    <2>2. \A e \in found' : \E id \in Ids : /\ table[id] \notin Astray
                                             /\ e.row = table[id] /\ e.name = Sends(table[id])
      BY <1>2 DEF Searches, Found, Astray
    <2>3. QED
      BY <2>1, <2>2 DEF HoldsItem, IsRow, ItemOf, Sends, NameOf, Astray
  <1>3. CASE table' = table /\ (found' = found \/ found' = {})
    BY <1>3 DEF HoldsItem, IsRow, ItemOf, Sends, NameOf, Astray
  <1>4. QED
    BY <1>1, <1>2, <1>3 DEF Next, ConsoleGoesOn, ReplacesFile, SyncStarts, ParseThrows, RowThrows,
        CastThrows, RowsEnd, Counts, Crashes, Restarts, Replies, TaskRestarts, ProcessEnds,
        vars, locals, history, search

\* What a client is sent has the name that the file says, for plain names of any
\* length: by NamesParsed and PlainNames it comes into the table, by ResponseReads
\* out of it.
THEOREM SearchesRead == Spec => []SearchReadsBack
  <1>1. NamesInv => SearchReadsBack
    <2> SUFFICES ASSUME NamesInv, NEW e \in found, Plain(ItemOf(e.row))
                 PROVE  e.name = Unquote(JsonRead(ItemOf(e.row).name))
      BY DEF SearchReadsBack
    <2>1. ItemOf(e.row) \in Items /\ e.name = Response(NameColumn(ItemOf(e.row).name))
      BY DEF NamesInv, HoldsItem, Sends, NameOf
    <2>2. QED
      BY <2>1, PlainNames
  <1>2. Init => NamesInv
    BY DEF Init, NamesInv, Astray
  <1>3. QED
    BY TypeInit, TypeStep, NamesStep, <1>1, <1>2, PTL DEF Spec

-----------------------------------------------------------------------------
(***************************************************************************)
(* Complete imports                                                        *)
(***************************************************************************)
\* The loop leaves no item behind that is no object, and only leaves the last.
LoopInv ==
    /\ \A i \in 1 .. progress : jArr[i] # NotAnObject
    /\ console = "count" => progress = Len(jArr)

\* Every step keeps that.
LEMMA LoopStep == TypeInv /\ LoopInv /\ [Next]_vars => LoopInv'
  <1> SUFFICES ASSUME TypeInv, LoopInv, [Next]_vars PROVE LoopInv'
    OBVIOUS
  <1> USE DEF LoopInv
  <1>1. CASE UpsertsRow
    <2>1. /\ progress' = progress + 1 /\ jArr' = jArr /\ console' = console
          /\ jArr[progress + 1] # NotAnObject /\ progress \in Nat
      BY <1>1, UpsertEffect, ItemsRead DEF TypeInv
    <2>2. console # "count"
      BY <1>1 DEF UpsertsRow, Statement
    <2>3. QED
      BY <2>1, <2>2
  <1>2. CASE SyncStarts \/ Restarts
    <2>1. progress' = 0 /\ console' # "count"
      BY <1>2 DEF SyncStarts, Restarts
    <2>2. QED
      BY <2>1
  <1>3. CASE RowsEnd
    BY <1>3 DEF RowsEnd, locals
  <1>4. CASE UNCHANGED locals /\ (console' = console \/ console' # "count")
    BY <1>4 DEF locals
  <1>5. QED
    BY <1>1, <1>2, <1>3, <1>4 DEF Next, ConsoleGoesOn, ReplacesFile, ParseThrows, RowThrows,
        CastThrows, Counts, Crashes, Searches, Replies, TaskRestarts, ProcessEnds, vars

\* An import without a fault has the last item of an id in the table if its name is
\* plain and those after it are, however long the file and the names are.
THEOREM ImportsComplete == Spec => []ImportComplete
  <1>1. TypeInv /\ ImportedPrefix /\ LoopInv => ImportComplete
    <2> SUFFICES ASSUME TypeInv, ImportedPrefix, LoopInv, console = "count", skipped = {},
                        NEW i \in DOMAIN jArr,
                        \A j \in DOMAIN jArr : i <= j => Plain(jArr[j]),
                        \A j \in DOMAIN jArr : i < j => jArr[j].id # jArr[i].id
                 PROVE  table[jArr[i].id] = [file |-> jArr, index |-> i]
      BY DEF ImportComplete
    <2> DEFINE id == jArr[i].id
    <2>1. /\ DOMAIN jArr = 1 .. progress /\ progress \in Nat
          /\ \A j \in DOMAIN jArr : jArr[j] # NotAnObject /\ jArr[j] \in Items /\ j \in Done
      BY ItemsRead DEF TypeInv, LoopInv, Done
    <2>2. id \in Ids
      BY <2>1 DEF Items
    <2>3. \A j \in DOMAIN jArr : i <= j => Stored(jArr[j])
      <3> SUFFICES ASSUME NEW j \in DOMAIN jArr, i <= j PROVE Stored(jArr[j])
        OBVIOUS
      <3>1. Plain(jArr[j]) /\ jArr[j] \in Items /\ jArr[j] # NotAnObject
        BY <2>1
      <3>2. NameColumn(jArr[j].name) # Rejected
        BY <3>1, PlainNames
      <3>3. QED
        BY <3>1, <3>2, NamesOfFiles DEF TypeInv
    <2>4. \A j \in DOMAIN jArr : j \in Nat /\ i \in Nat
      BY <2>1
    <2>5. i \in StoredOf(id)
      BY <2>1, <2>3, <2>4 DEF StoredOf
    <2>6. \A j \in StoredOf(id) : j \in DOMAIN jArr /\ j <= i
      <3>1. \A j \in StoredOf(id) : j \in DOMAIN jArr /\ jArr[j].id = id
        BY <2>1 DEF StoredOf, Done
      <3>2. QED
        BY <2>4, <3>1
    <2>7. ~\E j \in LeftItems : i < j
      <3>1. \A j \in LeftItems : j \in DOMAIN jArr /\ ~Stored(jArr[j])
        BY <2>1 DEF LeftItems, Done
      <3>2. QED
        BY <2>3, <2>4, <3>1
    <2>8. Prefixed(id)
      BY <2>2, PrefixById
    <2>9. QED
      BY <2>5, <2>6, <2>7, <2>8 DEF Prefixed
  <1>2. Init => LoopInv /\ ImportedPrefix
    BY PrefixFresh DEF Init, LoopInv
  <1>3. QED
    BY TypeInit, TypeStep, PrefixStep, LoopStep, <1>1, <1>2, PTL DEF Spec
=============================================================================
