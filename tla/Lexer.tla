-------------------------------- MODULE Lexer ---------------------------------
(***************************************************************************)
(* Class Lexer of libs/tolang/src/lexer.cpp.  A text is a sequence of      *)
(* characters, strings: "nl" and "tab" are those, and "eof" is byte 255,   *)
(* which in the char the code keeps a character in is EOF.  A lexer is the *)
(* text, the position of the next character and the number of its line.    *)
(***************************************************************************)
EXTENDS Syntax, TLC

Digits == {"0", "1", "2", "3", "4", "5", "6", "7", "8", "9"}
Alphas == {"a", "b", "c", "d", "e", "f", "g", "h", "i", "j", "k", "l", "m",
           "n", "o", "p", "q", "r", "s", "t", "u", "v", "w", "x", "y", "z",
           "A", "B", "C", "D", "E", "F", "G", "H", "I", "J", "K", "L", "M",
           "N", "O", "P", "Q", "R", "S", "T", "U", "V", "W", "X", "Y", "Z"}
Blanks == {" ", "tab"}
Starts == Alphas \cup {"_"}
Parts  == Starts \cup Digits

_keywords_table ==
    <<"f", "n">> :> "fn" @@ <<"v", "a", "r">> :> "var" @@ <<"g", "e", "t">> :> "get"
    @@ <<"p", "u", "t">> :> "put" @@ <<"t", "a", "g">> :> "tag" @@ <<"l", "e", "t">> :> "let"
    @@ <<"i", "f">> :> "if" @@ <<"t", "o">> :> "to"

Singles == {"+", "-", "*", "/", "<", ">", "=", ";", ",", "(", ")"}
Doubles == <<"<", "=">> :> "<=" @@ <<">", "=">> :> ">=" @@ <<"=", "=">> :> "=="
           @@ <<"=", ">">> :> "=>" @@ <<"!", "=">> :> "!="

NewLexer(text) == [text |-> text, pos |-> 1, line |-> 1]

\* Past the end get() yields EOF again and again, and unget nothing.
Char(lx, i) == IF i <= Len(lx.text) THEN lx.text[i] ELSE "eof"

\* The position of the first character at or after i that is not of these.
Past(lx, i, chars) ==
    CHOOSE j \in i .. (i + Len(lx.text)) :
        Char(lx, j) \notin chars /\ \A k \in i .. (j - 1) : Char(lx, k) \in chars

\* Mutant: a comment takes the newline with it.
MutLineEnd(lx, i) == Past(lx, i, Parts \cup Blanks \cup {"#"}) + 1

\* The position of the newline or EOF that ends the line of position i.
LineEnd(lx, i) ==
    CHOOSE j \in i .. (i + Len(lx.text)) :
        Char(lx, j) \in {"nl", "eof"} /\ \A k \in i .. (j - 1) : Char(lx, k) \notin {"nl", "eof"}

\* Mutant: digits are read after any first digit.
MutNumberEnd(lx) ==
    LET int == Past(lx, lx.pos, Digits)
    IN  IF Char(lx, int) = "." THEN Past(lx, int + 1, Digits) ELSE int

\* Where the number at the position ends: 0 takes no more digits, a point
\* need not be followed by one (the README's regular expression wants one).
NumberEnd(lx) ==
    LET int == IF Char(lx, lx.pos) = "0" THEN lx.pos + 1 ELSE Past(lx, lx.pos, Digits)
    IN  IF Char(lx, int) = "." THEN Past(lx, int + 1, Digits) ELSE int

\* The token of this type up to position end, errors reported with it.
Take(lx, type, end, errs) ==
    [token |-> Token(type, SubSeq(lx.text, lx.pos, end - 1), lx.line),
     lexer |-> [lx EXCEPT !.pos = end],
     errs  |-> errs]

InvalidCharacter(lx) == {[line |-> lx.line, what |-> "invalid character"]}

RECURSIVE next(_)
next(lx) ==
    LET ch   == Char(lx, lx.pos)
        both == <<ch, Char(lx, lx.pos + 1)>>
        word == Past(lx, lx.pos, Parts)
        text == SubSeq(lx.text, lx.pos, word - 1)
        type == IF text \in DOMAIN _keywords_table THEN _keywords_table[text] ELSE "identifier"
    IN  CASE ch = "#"      -> next([lx EXCEPT !.pos = LineEnd(lx, lx.pos)])
          [] ch = "nl"     -> next([lx EXCEPT !.pos = @ + 1, !.line = @ + 1])
          [] ch \in Blanks -> next([lx EXCEPT !.pos = @ + 1])
          [] ch \in Starts -> Take(lx, type, word, {})
          [] ch \in Digits -> Take(lx, "number", NumberEnd(lx), {})
          [] both \in DOMAIN Doubles -> Take(lx, Doubles[both], lx.pos + 2, {})
          [] ch \in Singles /\ both \notin DOMAIN Doubles -> Take(lx, ch, lx.pos + 1, {})
          [] ch = "eof" -> Take(lx, "eof", IF lx.pos > Len(lx.text) THEN lx.pos ELSE lx.pos + 1, {})
          [] OTHER -> Take(lx, "err", lx.pos + 1, InvalidCharacter(lx))
=============================================================================
