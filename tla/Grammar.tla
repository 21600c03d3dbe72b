------------------------------- MODULE Grammar --------------------------------
(***************************************************************************)
(* The language as its README gives it: the lexemes by their regular       *)
(* expressions, the trees by the rules of the grammar.  The reference the  *)
(* lexer and the parser are checked against.  A phrase is a sequence of    *)
(* tokens; each operator is the set of the trees of a phrase.              *)
(***************************************************************************)
EXTENDS Lexer, FiniteSets

LOCAL INSTANCE SequencesExt
LOCAL INSTANCE FiniteSetsExt

CONSTANT Spelling  \* the characters of each token type that has but one spelling

ASSUME GrammarAssumption ==
    DOMAIN Spelling = TokenTypes \ {"identifier", "number", "err", "eof"}

\* [a-zA-Z_][0-9a-zA-Z_]*
IsIdent(w) == w # <<>> /\ w[1] \in Starts /\ ToSet(w) \subseteq Parts

\* (0|[1-9][0-9]*)(\.[0-9]+)?
IsNumber(w) ==
    \E n \in DOMAIN w :
        /\ ToSet(SubSeq(w, 1, n)) \subseteq Digits
        /\ w[1] # "0" \/ n = 1
        /\ \/ n = Len(w)
           \/ /\ n + 1 < Len(w) /\ w[n + 1] = "."
              /\ ToSet(SubSeq(w, n + 2, Len(w))) \subseteq Digits

IsComment(w) == w # <<>> /\ w[1] = "#" /\ {"nl", "eof"} \cap ToSet(w) = {}
IsSpace(w)   == w \in {<<" ">>, <<"tab">>, <<"nl">>}

Spelled == {Spelling[t] : t \in DOMAIN Spelling}

IsLexeme(w) == IsIdent(w) \/ IsNumber(w) \/ w \in Spelled

TypeOf(w) == CASE w \in Spelled -> CHOOSE t \in DOMAIN Spelling : Spelling[t] = w
               [] IsNumber(w) -> "number"
               [] IsIdent(w) /\ w \notin Spelled -> "identifier"
               [] OTHER -> "err"

LineOf(text, i) == 1 + Cardinality({j \in 1 .. (i - 1) : text[j] = "nl"})

\* The text's lexemes up to its end or the first EOF, each the longest from
\* where it starts; a character that starts none is one of no type.
Lexemes(text) ==
    LET end == CHOOSE n \in 0 .. Len(text) :
                   /\ "eof" \notin ToSet(SubSeq(text, 1, n))
                   /\ n = Len(text) \/ text[n + 1] = "eof"
        from[i \in 1 .. end + 1] ==
            LET line == {j \in i .. end : text[j] = "nl"}
                ends == {j \in i .. (IF line = {} THEN end ELSE Min(line)) : LET w == SubSeq(text, i, j)
                        IN  IsLexeme(w) \/ IsComment(w) \/ IsSpace(w)}
                j    == IF ends = {} THEN i ELSE Max(ends)
                w    == SubSeq(text, i, j)
            IN  IF i > end THEN <<>>
                ELSE IF IsComment(w) \/ IsSpace(w) THEN from[j + 1]
                ELSE <<Token(TypeOf(w), w, LineOf(text, i))>> \o from[j + 1]
    IN  from[1]

-----------------------------------------------------------------------------
Line(ts)        == ts[1].line
Upto(ts, i)     == SubSeq(ts, 1, i - 1)
After(ts, i)    == SubSeq(ts, i + 1, Len(ts))
Places(ts, ops) == {i \in DOMAIN ts : ts[i].type \in ops}
Types(ts)       == [i \in DOMAIN ts |-> ts[i].type]

Idents(ts) == IF Types(ts) = <<"identifier">> THEN {Ident(ts[1])} ELSE {}

RECURSIVE AddExps(_)

RECURSIVE FuncRParams(_)
FuncRParams(ts) ==
    {<<e>> : e \in AddExps(ts)}
      \cup UNION {{Append(es, e) : es \in FuncRParams(Upto(ts, i)), e \in AddExps(After(ts, i))} :
                     i \in Places(ts, {","})}

PrimaryExps(ts) ==
    CASE Types(ts) = <<"identifier">> -> {IdentExp(Line(ts), id) : id \in Idents(ts)}
      [] Types(ts) = <<"number">>     -> {Number(ts[1])}
      [] Len(ts) > 2 /\ ts[1].type = "(" /\ ts[Len(ts)].type = ")" ->
            AddExps(SubSeq(ts, 2, Len(ts) - 1))
      [] OTHER -> {}

Calls(ts) ==
    IF ~(Len(ts) > 2 /\ ts[1].type = "identifier" /\ ts[2].type = "(" /\ ts[Len(ts)].type = ")")
    THEN {}
    ELSE LET inside == SubSeq(ts, 3, Len(ts) - 1)
         IN  {CallExp(Line(ts), Ident(ts[1]), es) :
                 es \in IF inside = <<>> THEN {<<>>} ELSE FuncRParams(inside)}

RECURSIVE UnaryExps(_)
UnaryExps(ts) ==
    PrimaryExps(ts) \cup Calls(ts)
      \cup (IF ts # <<>> /\ ts[1].type \in {"+", "-"}
            THEN {UnaryExp(Line(ts), ts[1].type, e) : e \in UnaryExps(Tail(ts))} ELSE {})

RECURSIVE MulExps(_)
MulExps(ts) ==
    UnaryExps(ts)
      \cup UNION {{BinaryExp(Line(ts), ts[i].type, l, r) :
                      l \in MulExps(Upto(ts, i)), r \in UnaryExps(After(ts, i))} :
                     i \in Places(ts, {"*", "/"})}

AddExps(ts) ==
    MulExps(ts)
      \cup UNION {{BinaryExp(Line(ts), ts[i].type, l, r) :
                      l \in AddExps(Upto(ts, i)), r \in MulExps(After(ts, i))} :
                     i \in Places(ts, {"+", "-"})}

Conds(ts) ==
    UNION {{Cond(Line(ts), ts[i].type, l, r) : l \in AddExps(Upto(ts, i)), r \in AddExps(After(ts, i))} :
              i \in Places(ts, Relations)}

FuncFParams(ts) ==
    IF /\ Len(ts) % 2 = 1
       /\ \A i \in DOMAIN ts : ts[i].type = IF i % 2 = 1 THEN "identifier" ELSE ","
    THEN {[i \in 1 .. (Len(ts) + 1) \div 2 |-> Ident(ts[2 * i - 1])]} ELSE {}

-----------------------------------------------------------------------------
(***************************************************************************)
(* Definitions, declarations and statements, without their semicolon.      *)
(***************************************************************************)
FuncDefs(ts) ==
    IF ~(Len(ts) > 5 /\ ts[1].type = "fn" /\ ts[2].type = "identifier" /\ ts[3].type = "(") THEN {}
    ELSE UNION {{FuncDef(Line(ts), Ident(ts[2]), ps, e) :
                    ps \in IF i = 4 THEN {<<>>} ELSE FuncFParams(SubSeq(ts, 4, i - 1)),
                    e \in IF i < Len(ts) /\ ts[i + 1].type = "=>" THEN AddExps(After(ts, i + 1)) ELSE {}} :
                   i \in Places(ts, {")"}) \ 1 .. 3}

VarDecls(ts) == IF ts[1].type # "var" THEN {} ELSE {VarDecl(Line(ts), id) : id \in Idents(Tail(ts))}

Stmts(ts) ==
    CASE ts[1].type \in {"get", "tag", "to"} ->
            {NameStmt(ts[1].type, Line(ts), id) : id \in Idents(Tail(ts))}
      [] ts[1].type = "put" -> {PutStmt(Line(ts), e) : e \in AddExps(Tail(ts))}
      [] ts[1].type = "let" ->
            UNION {{LetStmt(Line(ts), id, e) :
                       id \in Idents(SubSeq(ts, 2, i - 1)), e \in AddExps(After(ts, i))} :
                      i \in Places(ts, {"="})}
      [] ts[1].type = "if" ->
            UNION {{IfStmt(Line(ts), c, id) :
                       c \in Conds(SubSeq(ts, 2, i - 1)), id \in Idents(After(ts, i))} :
                      i \in Places(ts, {"to"})}
      [] OTHER -> {}

\* What a piece may be, by its first token; none is empty.
Trees(ts) == CASE ts = <<>> -> {}
               [] ts # <<>> /\ ts[1].type = "fn"  -> FuncDefs(ts)
               [] ts # <<>> /\ ts[1].type = "var" -> VarDecls(ts)
               [] OTHER -> Stmts(ts)

\* The phrases the semicolons end; what follows the last one.
Pieces(ts) ==
    LET cuts == Places(ts, {";"})
        Cut(n) == CHOOSE i \in cuts : Cardinality({j \in cuts : j <= i}) = n
    IN  [n \in 1 .. Cardinality(cuts) |->
            SubSeq(ts, IF n = 1 THEN 1 ELSE Cut(n - 1) + 1, Cut(n) - 1)]
Rest(ts) ==
    LET cuts == Places(ts, {";"})
    IN  IF cuts = {} THEN ts ELSE After(ts, Max(cuts))

\* Definitions come before declarations, and these before statements.
Rank(ts) == CASE ts[1].type = "fn" -> 1 [] ts[1].type = "var" -> 2 [] OTHER -> 3

\* The trees of a program with a piece for each.
CompUnits(ts, line) ==
    LET all    == Pieces(ts)
        tree   == [i \in DOMAIN all |-> Trees(all[i])]
        Of(n)  == SelectSeq([i \in DOMAIN all |-> <<Rank(all[i]), CHOOSE t \in tree[i] : TRUE>>],
                            LAMBDA x : x[1] = n)
        Second(s) == [i \in DOMAIN s |-> s[i][2]]
    IN  IF \/ Rest(ts) # <<>>
           \/ \E i \in DOMAIN all : Cardinality(tree[i]) # 1
           \/ \E i, j \in DOMAIN all : i < j /\ Rank(all[i]) > Rank(all[j])
        THEN {}
        ELSE {[line |-> line, func_defs |-> Second(Of(1)), var_decls |-> Second(Of(2)), stmts |-> Second(Of(3))]}

-----------------------------------------------------------------------------
(***************************************************************************)
(* Whether a phrase begins some program: enough ways to complete a piece.  *)
(***************************************************************************)
Opened(ts) == LET open  == Cardinality(Places(ts, {"("}))
                 close == Cardinality(Places(ts, {")"}))
             IN  IF open > close THEN open - close ELSE 0

\* Closing the parentheses, with an operand before them or without.
Closing(ts) ==
    LET close == [i \in 1 .. Opened(ts) |-> ")"] IN {close, <<"identifier">> \o close}

Completions(ts) ==
    CASE ts[1].type = "if" ->
            {c \o d : c \in Closing(ts),
                      d \in {<<>>, <<"to", "identifier">>, <<"<", "identifier", "to", "identifier">>}}
      [] ts[1].type = "let" -> Closing(ts) \cup {<<"identifier", "=", "identifier">>, <<"=", "identifier">>}
      [] ts[1].type = "fn" ->
            Closing(ts) \cup {SubSeq(<<"identifier", "(", ")", "=>", "identifier">>, i, 5) : i \in 1 .. 4}
                        \cup {<<"identifier", ")", "=>", "identifier">>}
      [] OTHER -> Closing(ts)

Viable(ts) ==
    LET rest == Rest(ts)
        done == SubSeq(ts, 1, Len(ts) - Len(rest))
        Tokens(types) == [i \in DOMAIN types |-> Token(types[i], <<>>, 0)]
    IN  /\ CompUnits(done, 0) # {}
        /\ \/ rest = <<>>
           \/ \E c \in Completions(rest) : CompUnits(ts \o Tokens(c) \o Tokens(<<";">>), 0) # {}
=============================================================================
