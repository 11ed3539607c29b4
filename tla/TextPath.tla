------------------------------ MODULE TextPath ------------------------------
(***************************************************************************)
(* What becomes of a text between a client, the columns of the database    *)
(* and a client again (Server.cs, ScheduleManager.cs, DBManager.cs).       *)
(*                                                                         *)
(* A text is a sequence of characters, reduced to those some step treats   *)
(* in its own way.  "u0027", "u0022" and "uXXXX" are five characters each, *)
(* the last with any other hexadecimal digits; "special" is a character    *)
(* that such an escape stands for, and "word" is any other text.  MySQL's  *)
(* literals and the two JSON libraries are modelled from what the program  *)
(* relies on; the columns take every character.                            *)
(***************************************************************************)
EXTENDS Naturals, Sequences, SequencesExt

Characters == {"word", "n", "quote", "dquote", "newline", "backslash", "special",
               "u0027", "u0022", "uXXXX"}

\* A text that a step does not take for one.
Rejected == <<"rejected">>

Apply(f, text) == [i \in DOMAIN text |-> IF text[i] \in DOMAIN f THEN f[text[i]] ELSE text[i]]

\* Replace("u0027", "'"), of a response and of a body as it was received, before
\* it is parsed.
Unquote(text) == Apply([c \in {"u0027"} |-> "quote"], text)

\* Replace("'", "u0027"), of the file of waypoints, before it is parsed.
Quote(text) == Apply([c \in {"quote"} |-> "u0027"], text)

-----------------------------------------------------------------------------
(***************************************************************************)
(* Literals                                                                *)
(***************************************************************************)
\* The character at i belongs to an escape of two: a backslash makes one with
\* whatever follows, a character of `doubled` with itself.
IsPair(text, doubled, i) ==
    /\ i < Len(text)
    /\ text[i] = "backslash" \/ (text[i] \in doubled /\ text[i + 1] = text[i])

\* What the text from every position on is cut into, escapes of two characters
\* and single ones.
UnitsFrom(text, doubled) ==
    LET from[i \in 1 .. Len(text) + 2] ==
            IF i > Len(text) THEN <<>>
            ELSE IF IsPair(text, doubled, i) THEN <<<<text[i], text[i + 1]>>>> \o from[i + 2]
            ELSE <<<<text[i]>>>> \o from[i + 1]
    IN  from

Units(text, doubled) == UnitsFrom(text, doubled)[1]

\* The text that units stand for, unless one of them cannot be read.
Reads(units, bad, Of(_)) ==
    IF \E i \in DOMAIN units : units[i] \in bad THEN Rejected
    ELSE [i \in DOMAIN units |-> Of(units[i])]

\* What MySQL stores for '...' in a statement: a backslash before a character
\* without a meaning is dropped.  Rejected is a text that leaves its literal, by an
\* apostrophe or a last backslash: what follows it is read as SQL.
SqlMeaning(u) == IF u = <<"backslash", "n">> THEN "newline" ELSE Last(u)

SqlUnreadable == {<<"quote">>, <<"backslash">>}

SqlLiteral(text) == Reads(Units(text, {"quote"}), SqlUnreadable, SqlMeaning)

\* What Newtonsoft.Json, or a client, reads from a string of JSON: a line end
\* and \' are accepted, other letters after a backslash are not.
JsonMeaning(u) ==
    CASE u = <<"backslash", "n">> -> "newline"
      [] u = <<"backslash", "u0027">> -> "quote"
      [] u = <<"backslash", "u0022">> -> "dquote"
      [] u = <<"backslash", "uXXXX">> -> "special"
      [] OTHER -> Last(u)

JsonUnreadable ==
    {<<"dquote">>, <<"backslash">>, <<"backslash", "word">>, <<"backslash", "newline">>,
     <<"backslash", "special">>}

JsonRead(text) == Reads(Units(text, {}), JsonUnreadable, JsonMeaning)

\* System.Text.Json with the encoder for all Unicode ranges: it still escapes <, >,
\* &, + and `, and what lies outside the ranges (emoji): these are "special".
Escape(c) ==
    CASE c = "quote" -> <<"backslash", "u0027">>
      [] c = "dquote" -> <<"backslash", "u0022">>
      [] c = "special" -> <<"backslash", "uXXXX">>
      [] c = "newline" -> <<"backslash", "n">>
      [] c = "backslash" -> <<"backslash", "backslash">>
      [] OTHER -> <<c>>

\* Deviation: an encoder that leaves apostrophes and quotation marks alone.
SerializeRelaxed(text) ==
    FlattenSeq([i \in DOMAIN text |->
        IF text[i] \in {"quote", "dquote"} THEN <<text[i]>> ELSE Escape(text[i])])

Serialize(text) == FlattenSeq([i \in DOMAIN text |-> Escape(text[i])])

-----------------------------------------------------------------------------
(***************************************************************************)
(* The columns                                                             *)
(***************************************************************************)
\* A column that takes the text of a post as it is: titleText, descriptionText.
PlainColumn(text) == SqlLiteral(Unquote(text))

\* A text in a column of JSON: WaypointContent in waypointDescription.
JsonColumn(text) == SqlLiteral(Serialize(Unquote(text)))

\* The names of waypoints come from a file: the text between the quotation marks
\* there, changed before it is parsed, and the name that is put in the statement.
ParsedName(text) == JsonRead(Quote(text))

NameColumn(text) == SqlLiteral(ParsedName(text))

\* Deviation: nothing is done about the u0027 of the table.
ResponseQuoted(text) == JsonRead(Serialize(text))

\* What a client reads of a text in a response.
Response(text) == JsonRead(Unquote(Serialize(text)))
=============================================================================
