---------------------------- MODULE MCRecommend ----------------------------
(***************************************************************************)
(* Instances of Recommend for TLC.                                         *)
(***************************************************************************)
EXTENDS Recommend

CONSTANTS s1, s2, s3

\* Two characters are more than one by one only where a backslash or an
\* apostrophe is the first.
Texts ==
    UNION {[1 .. n -> Characters] : n \in 0 .. 1}
        \cup {<<c, d>> : c \in {"backslash", "word"}, d \in Characters} \cup {<<"quote", "quote">>}
Word == <<"word">>

\* One id is posted to with every text in either place.
EveryText ==
    {[title |-> t, content |-> Word] : t \in Texts} \cup {[title |-> Word, content |-> t] : t \in Texts}

MCPostsOf ==
    [id \in SharedIds |->
        IF id = s1 THEN EveryText
        ELSE {[title |-> Word, content |-> c] : c \in {Word, <<"backslash">>}}]
=============================================================================
