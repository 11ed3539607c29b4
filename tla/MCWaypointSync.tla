-------------------------- MODULE MCWaypointSync ---------------------------
(***************************************************************************)
(* Instances of WaypointSync for TLC.                                      *)
(***************************************************************************)
EXTENDS WaypointSync

CONSTANTS a, b

Item(id, name) == [id |-> id, name |-> name]

\* An id that comes twice, with another between; names that take two ways through
\* the literal.
Repeats == <<Item(a, <<"word">>), Item(b, <<"quote", "u0027">>),
             Item(a, <<"backslash", "dquote", "quote">>)>>

\* Two names that leave their literal, by a backslash and by an apostrophe, and one
\* that is stored as another.
Escapes == <<Item(b, <<"word">>), Item(a, <<"word", "backslash", "backslash">>),
             Item(a, <<"backslash", "backslash", "n">>), Item(b, <<"backslash", "u0027">>)>>

\* The cast of an item fails after the row of the first.
Breaks == <<Item(b, <<"newline">>), NotAnObject, Item(a, <<"word">>)>>

MCFiles == {Repeats, Escapes, Breaks, NotJson}

\* Everything, and names with an apostrophe, which is u0027 in the table.
MCKeywords ==
    LET columns == {NameColumn(name) : name \in StoredNames}
    IN  {columns, {n \in columns : \E i \in DOMAIN n : n[i] = "u0027"}}
=============================================================================
