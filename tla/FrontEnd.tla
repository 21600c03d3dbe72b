------------------------------- MODULE FrontEnd -------------------------------
(***************************************************************************)
(* The front end: Parser::parse over a text, then what the driver does     *)
(* with the tree when asked to emit it (bin/main.cpp).  A step is one turn *)
(* of a loop of _parse_comp_unit.                                          *)
(***************************************************************************)
EXTENDS Parser, Grammar

LOCAL INSTANCE SequencesExt
LOCAL INSTANCE FiniteSetsExt

CONSTANT Texts  \* the texts to parse

VARIABLES
    p,      \* the parser
    unit,   \* the tree so far
    phase,  \* which loop of _parse_comp_unit, or what comes after
    out     \* the tokens printed

vars == <<p, unit, phase, out>>

Init ==
    /\ \E text \in Texts : p = NewParser(text)
    /\ unit = CompUnit(p.tok.line)
    /\ phase = "funcs"
    /\ out = <<>>

StmtFirst == {"get", "put", "tag", "let", "if", "to"}
Type      == p.tok.type

Parse(in, got, field) ==
    /\ phase = in
    /\ p' = got.p
    /\ unit' = [unit EXCEPT ![field] = Append(@, got.node)]
    /\ UNCHANGED <<phase, out>>

Skip(in, what) ==
    /\ phase = in
    /\ p' = _recover(Error(p, what))
    /\ UNCHANGED <<unit, phase, out>>

Leave(in, next_) ==
    /\ phase = in
    /\ phase' = next_
    /\ UNCHANGED <<p, unit, out>>

ParseFunc == Type = "fn" /\ Parse("funcs", _parse_func_def(p), "func_defs")
SkipFunc  == Type \notin StmtFirst \cup {"fn", "var", "eof"} /\ Skip("funcs", "function definition")
EndFuncs  == Type \in StmtFirst \cup {"var", "eof"} /\ Leave("funcs", "vars")

ParseVar  == Type = "var" /\ Parse("vars", _parse_var_decl(p), "var_decls")
SkipVar   == Type \notin StmtFirst \cup {"var", "eof"} /\ Skip("vars", "variable declaration")
EndVars   == Type \in StmtFirst \cup {"eof"} /\ Leave("vars", "stmts")

ParseStmt == Type \in StmtFirst /\ Parse("stmts", _parse_stmt(p), "stmts")
SkipStmt  == Type \notin StmtFirst \cup {"eof"} /\ Skip("stmts", "statement")

\* parse() looks once more for the end, which is where the last loop ends.
EndStmts  == Type = "eof" /\ Leave("stmts", "parsed")

\* --emit-ast prints the tree without a look at the errors, up to the first
\* null pointer it follows.
EmitAst ==
    LET all   == PrintUnit(unit)
        fatal == SelectInSeq(all, LAMBDA item : item = Crash)
    IN  /\ phase = "parsed"
        /\ out' = IF fatal = 0 THEN all ELSE SubSeq(all, 1, fatal - 1)
        /\ phase' = IF fatal = 0 THEN "printed" ELSE "crashed"
        /\ UNCHANGED <<p, unit>>

Next ==
    \/ ParseFunc \/ SkipFunc \/ EndFuncs
    \/ ParseVar \/ SkipVar \/ EndVars
    \/ ParseStmt \/ SkipStmt \/ EndStmts
    \/ EmitAst

\* One thread that waits for nothing: a step that can be taken is.
Spec == Init /\ [][Next]_vars /\ WF_vars(Next)

-----------------------------------------------------------------------------
(***************************************************************************)
(* Properties.                                                             *)
(***************************************************************************)
Text   == p.lex.text
Parsed == phase \in {"parsed", "printed", "crashed"}

\* The tokens of the text as the lexer gives them one by one, up to the end.
RECURSIVE TokensFrom(_)
TokensFrom(lx) ==
    LET n == next(lx)
    IN  <<n.token>> \o (IF n.token.type = "eof" THEN <<>> ELSE TokensFrom(n.lexer))
AllTokens == TokensFrom(NewLexer(Text))
Tokens    == Front(AllTokens)

\* The parser's registers have their types, and the lexer is never behind the
\* token it gave: the lines only grow (parser.h, lexer.h, token.h).
TypeOK ==
    /\ {p.tok.type, p.pre.type} \subseteq TokenTypes
    /\ 1 <= p.tok.line /\ p.tok.line <= p.pre.line /\ p.pre.line <= p.lex.line
    /\ p.lex.pos \in 1 .. Len(Text) + 1
    /\ p.lex.line = LineOf(Text, p.lex.pos)
    /\ \A e \in p.errs : e.line \in 1 .. p.lex.line
    /\ phase \in {"funcs", "vars", "stmts", "parsed", "printed", "crashed"}

\* A digit and a point that no digit follows.
BarePoint(text) ==
    \E i \in 2 .. Len(text) : /\ text[i - 1] \in Digits /\ text[i] = "."
                              /\ i = Len(text) \/ text[i + 1] \notin Digits

\* The lexer cuts every text, comments and invalid characters included, into
\* the lexemes the regular expressions of README.md (62, 63) give by longest
\* match, each of its type, and numbers their lines right (lexer.cpp).  Texts
\* with a digit and a bare point are left to NumbersAsDocumented.
LexerExact == phase = "funcs" /\ ~BarePoint(Text) => Tokens = Lexemes(Text)

\* Every number the lexer gives is one to the regular expression of README.md
\* (63): a point in it has a digit on either side (lexer.cpp, Lexer::next).
NumbersAsDocumented ==
    phase = "funcs" =>
        \A t \in ToSet(Tokens) : t.type = "number" => IsNumber(t.content)

ErrorLines == {e.line : e \in {e \in p.errs : e.what # "invalid character"}}

\* A text is parsed without a message exactly if the grammar derives its tokens,
\* and its tree is then the one derived, lines included: precedence,
\* associativity, calls told from variables by one token read ahead
\* (parser.cpp).  After a byte 255 a character may be found invalid that is
\* no part of the text any more.
AcceptsGrammar ==
    phase = "parsed" =>
        LET right == IF "eof" \in ToSet(Text) THEN ErrorLines = {} ELSE p.errs = {}
        IN  CompUnits(Tokens, AllTokens[1].line) = IF right THEN {unit} ELSE {}

\* The first line the dump of the parser's errors names is that of the first
\* token, or the end, with which no program can go on: up to there some
\* program begins like this text (parser.cpp; error.h, which sorts by line).
FirstErrorAtFault ==
    phase = "parsed" /\ ErrorLines # {} =>
        LET ts == AllTokens
            Ends(k) == ts[k].type = "eof" /\ CompUnits(Front(ts), 1) # {}
        IN  \E k \in DOMAIN ts :
                /\ ts[k].line = Min(ErrorLines)
                /\ Viable(SubSeq(ts, 1, k - 1))
                /\ ~(Ends(k) \/ Viable(SubSeq(ts, 1, k)))

\* Recovery loses at most the three statements after a faulty one, however the
\* fault is nested: those after them, if right themselves, are in the tree.
\* (Three are lost by `if ;`: each operand skips one, and the third, if it is
\* a to statement, becomes the end of the if.)
Resynchronises ==
    LET ts    == Tokens
        all   == Pieces(ts)
        Right(i) == Stmts(all[i]) # {}
        wrong == {i \in DOMAIN all : all[i] = <<>> \/ ~Right(i)}
        kept  == SubSeq(all, IF wrong = {} THEN 1 ELSE Max(wrong) + 4, Len(all))
    IN  phase = "parsed" /\ Rest(ts) = <<>> =>
            IsSuffix([i \in DOMAIN kept |-> CHOOSE t \in Stmts(kept[i]) : TRUE], unit.stmts)

\* Without parentheses and the signs that are no operators of two operands.
Bare(items) ==
    LET Signed(i) == /\ items[i].type \in {"+", "-"}
                     /\ i = 1 \/ items[i - 1].type \notin {"identifier", "number", ")"}
        kept == SelectSeq([i \in DOMAIN items |-> i],
                          LAMBDA i : items[i].type \notin {"(", ")"} /\ ~Signed(i))
    IN  [i \in DOMAIN kept |-> items[kept[i]]]

\* The tree of a text without errors is printed to its end, and what is
\* printed is the text, but for grouping parentheses and signs, which the
\* printer drops: a null pointer is followed only where a message is waiting
\* that --emit-ast does not show (ast.cpp, bin/main.cpp).
PrintsText ==
    phase \in {"printed", "crashed"} /\ p.errs = {} =>
        LET ts == Tokens
        IN  /\ phase = "printed"
            /\ Bare(out) = Bare([i \in DOMAIN ts |->
                                   IF ts[i].type = "identifier" THEN Name(ts[i].content)
                                   ELSE Item(ts[i].type)])

\* Whatever the text, parsing ends: every turn of a loop, recovery included,
\* takes a token away (parser.cpp, parser.h).
Terminates == <>Parsed
=============================================================================
