------------------------------ MODULE MCFrontEnd ------------------------------
(* Small instances of FrontEnd for TLC. *)
EXTENDS FrontEnd

LOCAL INSTANCE SequencesExt

MCSpelling ==
    [t \in Singles |-> <<t>>]
    @@ "fn" :> <<"f", "n">> @@ "var" :> <<"v", "a", "r">> @@ "get" :> <<"g", "e", "t">>
    @@ "put" :> <<"p", "u", "t">> @@ "tag" :> <<"t", "a", "g">> @@ "let" :> <<"l", "e", "t">>
    @@ "if" :> <<"i", "f">> @@ "to" :> <<"t", "o">>
    @@ "<=" :> <<"<", "=">> @@ ">=" :> <<">", "=">> @@ "==" :> <<"=", "=">>
    @@ "!=" :> <<"!", "=">> @@ "=>" :> <<"=", ">">>

\* Words are tokens, or names and numbers of one character.
Chars(w) == IF w \in DOMAIN MCSpelling THEN MCSpelling[w] ELSE <<w>>

\* A text of these words, each on a line of its own.
RECURSIVE Written(_)
Written(ws) == IF ws = <<>> THEN <<>> ELSE Chars(Head(ws)) \o <<"nl">> \o Written(Tail(ws))

\* Characters of every class, in any order.
CharTexts ==
    BoundedSeq({"t", "o", "_", "0", "7", ".", "=", "<", "!", ">", "#", " ", "tab", "nl", "eof", "@", "-", ";"}, 3)
      \cup BoundedSeq({"t", "o", "0", "7", ".", "#", "nl", "eof"}, 4)

\* Everything that may stand between put and its semicolon.
ExpTexts ==
    {Written(<<"put">> \o ws \o <<";">>) : ws \in BoundedSeq({"x", "1", "(", ")", "-", "*"}, 5)}

Vocabulary == DOMAIN MCSpelling \cup {"x", "1", "@"}

\* Programs; these with a word more, less or other, or cut there.
Programs == {
    <<"fn", "f", "(", "x", ",", "y", ")", "=>", "x", ";", "fn", "g", "(", ")", "=>", "1", ";", "var", "x", ";">>,
    <<"if", "x", "<", "1", "to", "x", ";", "put", "1", ";", "get", "x", ";", "to", "x", ";", "tag", "x", ";">>,
    <<"var", "x", ";", "let", "x", "=", "f", "(", "x", ",", "1", ")", ";", "put", "x", ";", "put", "1", ";">>,
    <<"if", "f", "(", ";", "put", "1", ";", "get", "x", ";", "to", "x", ";", "tag", "x", ";">>}

Edits(ws) ==
    {SubSeq(ws, 1, i - 1) \o mid \o rest :
        <<i, rest>> \in UNION {{<<i, SubSeq(ws, j, Len(ws))>> : j \in {i, i + 1, Len(ws) + 1}} :
                                   i \in 1 .. Len(ws) + 1},
        mid \in {<<>>} \cup {<<w>> : w \in Vocabulary}}
EditTexts == {Written(ws) : ws \in UNION {Edits(q) : q \in Programs}}

\* Digits and points, and what may separate them.
NumberTexts == BoundedSeq({"0", "7", ".", "nl"}, 4)

MCTexts == CharTexts \cup ExpTexts \cup EditTexts
=============================================================================
