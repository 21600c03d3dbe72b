# tolangc in TLA+

A TLA+ model of the tolang compiler (`libs/`, `bin/`), model-checked with TLC
and, in part, proved with TLAPS. The compiler turns a small language (numbers,
one-expression functions, `get`/`put`/`let`, tags with `to` and `if .. to`)
either into LLVM IR and from there into MIPS assembly, or into stack code that
it interprets. The back end is chosen when the compiler is built
(`TOLANG_BACKEND`), so the two never meet in one process.

The compiler is sequential and keeps nothing between runs. What is hard in it
is not concurrency but state that is carried from one handler to the next:
a register allocator whose table, pools and frame cursor every instruction
moves; forward jumps that wait for their tag; scopes that share names; two
copies of a jump's target; a stack machine that never looks whether a pop is
legal; a parser that must find its place again after an error and a visitor that
must go on after one.

## 1. Inventory

| component | source | state | operations | what makes it correct |
|---|---|---|---|---|
| lexer | `tolang/lexer.*`, `token.h` | input stream, line | `next` | longest match, line numbers, end of file |
| parser | `tolang/parser.*` | the current token and the next | one function per nonterminal, `_recover` | accepts the grammar and builds its tree; the first message is where the program stops being one; after an error resumes at a statement; ends |
| syntax tree | `tolang/ast.h`, `ast.cpp` | - | printing | the printed tree is the program; no null child is followed |
| error reporter | `tolang/error.h` | list of messages | `error`, `dump` | complete, no message without a fault |
| symbol table | `tolang/symtable.h` | scopes | `add_symbol`, `get_symbol`, push, pop | innermost definition wins, scopes balance |
| semantic analyser and IR generator | `visitor.cpp`, class `Visitor` | current scope, function, block | one visit per node | errors exactly where the program is at fault; blocks well formed; jumps reach their tags; code means what the source does |
| IR | `libs/llvm` | functions, blocks, instructions, operand and user lists | insertion, `SetTarget` | the copies of a fact agree |
| slot tracker, LLVM printer | `ir/SlotTracker.cpp`, `asm/` | numbering | text | a number per value |
| MIPS manager | `mips_manager.*`, `mips_reg.h` | free registers, occupation table, frame offset | `allocReg`, `getReg`, `load`, `push`, `release`, `allocMem` ... | a value is where the table says; no two share a place |
| MIPS translator | `translator.*` | the manager, emitted code | one handler per instruction | operands read where they are; calls save and pass what they must; every label once, jumps to their blocks |
| MIPS printer | `mips_printer.cpp`, `mips_inst.h` | - | text | - |
| stack-code generator | `visitor.cpp`, class `PcodeVisitor` | module maps, current block | one visit per node | stack discipline; code means what the source does |
| stack machine | `libs/pcode` | activity records, current block, variables | one handler per instruction, `run` | no pop of what is not there |
| driver | `bin/main.cpp` | - | `compile` | no code after an error |

Interaction: `compile` parses the file (`Parser` calls `Lexer`), visits the tree
(`Visitor` calls `SymbolTable`, `ErrorReporter` and the IR constructors), stops
if anything was reported, and hands the module to a printer, to `Translator`
(which calls `MipsManager`) or to `PcodeRuntime`. All calls are synchronous.

## 2. Modules

    Syntax --- Lexer --- Parser --- FrontEnd --- MCFrontEnd
        \------ Grammar -----------/

    Program --- Meaning --- SourceMachine (what a program means), an instance
       |            |           in IrSource and in PcodeMachine
       |            \--- TreeProofs (in VisitorProofs and PcodeProofs)
       |--- Visitor --- MCVisitor
       |       |------- VisitorProofs -------------------\
       |       |------- IrMachine --- IrSource --- MCIrMachine
       |       |           |  instance   |  instance     |
       |       \------- MipsMachine --- MipsSource --- MCMipsMachine
       |                   \------------------------- MipsProofs
       |--- IrValues (in MCIrMachine and MCMipsMachine)
       |--- SourceValues (in these and in MCPcode)
       \--- Pcode --- PcodeMachine --- MCPcode
                |           \--------- PcodeSourceProofs
                \--- PcodeProofs ------/

    MipsManager --- Translator --- MCTranslator
         \               \--- TranslatorProofs --- HandlerProofs
          \--- ManagerProofs ---/

Names follow the code: an operator called like a method is that method.
Operators `Mut...` are what a mistake in the code would look like; nothing uses
them but the experiments of `PROJECT.json` that put one in the place of the
operator after it, to see that a property fails then.

### Front end

**Syntax** has the token types, the nodes as the parser makes them, each with the
line it starts on, and the printer of `ast.cpp`: the lines it prints that stand
for a token, up to the first null pointer it follows (`Crash`).

**Lexer** is `Lexer::next` as an operator from a lexer (text, position, line) to a
token, a lexer and messages. A text is a sequence of characters; `eof` in it is
the byte 255, which in the `char` the code keeps it in equals `EOF`.

**Parser** is class `Parser`, an operator per method, from a parser (lexer, current
and next token, messages) to a parser and a node or `Null`. `Then(r, Op)` is `Op`
of the value of `r`: TLC evaluates an argument wherever it is used, and results
of recursive calls are used several times.

**Grammar** does not model code: it is the language, stated without the parser.
Lexemes are the longest matches of the regular expressions of `README.md`, and for a sequence
of tokens and a nonterminal it gives the set of the trees derived, of the
ambiguous chains of operators only the one that associates to the left.
`Viable(ts)` says that some program begins with `ts`.

**FrontEnd** composes them: an action is one turn of one of the loops of
`_parse_comp_unit` (a definition parsed, a token skipped, a loop left), and at
the end `--emit-ast` prints the tree, whatever was reported.

### Back ends

**MipsManager** has the manager's state as one record `mgr` and one pure
operator per method: `pool`/`cursor` are `floatRegPool`/`floatCount`, `tpool`
and `tcursor` the integer ones, `occ` is `occupation`, `off` is `currentOffset`
in words. Next to it the record has what the emitted code will find when it
runs (`freg`, `treg`, `stk`): for each register and word, the value it holds or
junk. So a state holds what the compiler believes and what is true, and the
properties compare them. `status = "dead"` stands for `exit(1)`, a failed
assert or undefined behaviour; `misread` records that an emitted instruction
read something that was not its operand. The order in which the table, a
`std::unordered_map` keyed by pointers, is searched is free: the parameter `first` of the
operators is the entry found first.

**Translator** has one action per instruction handler. IR values are used once
and in stack order, because the visitor walks expressions in post-order; the
variable `stack` is that order, `phase` which instruction the visitor can emit
next, `homes` the allocas in order. A handler includes the `tryRelease` after it
and, when it ends a block, `pushAll`. The call sequence is five actions
(`CallBegin`, `CallArg`, `CallSave`, `CallJump`, `CallReturn`), one per loop body
or stretch of code; `std::set`'s pointer order is free. A callee may change all
registers and every word from its `$sp` down. A comparison has an operator; of the
three outcomes (`less`, `same`, `more`) `Asked` is the set the operator asks for and
`Lowered` the set for which the condition code chosen and `doOpposite` make the
result 1. In `push(valuePtr, getReg(valuePtr),
currentOffset)` C++ leaves open what is evaluated first; the model has clang's
order, the compiler `README.md` asks for.

**Program** has the syntax tree, with null children (`Bad`, `NoIdent`) where the
parser gave up, and which programs mean something (`Legal`). Expressions are trees
of any bounded depth (`Depth`); `Tree` says what one is, and the modules
that visit expressions assume it of theirs. In the runs the depth is 3, as many
as their deepest expressions have.

**Visitor** is class `Visitor` with the symbol table. A behaviour visits one
program, chosen piece by piece, and `src` remembers it. Expressions are visited
by functions over their parts that return a value or null and the errors, as
the code does. Blocks of `main` are sequences of instructions; a jump has both
`target` (the member) and `uses` (the operand list), patched separately as in
`Instructions.cpp`. `Sloppy` lists questionable things that the programs of a
run may contain: a function body at fault (`BadBody`), a `get` of a function or
a tag (`BadGet`), an `if` without a tag (`BadIf`), a tag defined twice
(`RepeatedTag`) or never (`UndefinedTag`).

**SourceMachine** is the meaning of a program: it executes statements in order.
A variable's content is the statement that assigned it last, so an execution
shows which definition reaches which use. Whether a condition holds is free.
**Meaning** has the value of an expression, by recursion over its parts. The value
of a call is its parameter `CallValue`; `CallsMean` is the equation it has to
satisfy, that a call has the value of its function's expression over the arguments.
**SourceValues** has the recursive operator the runs take for it (`Called`), and
`MCPcode` checks that it satisfies the equation.

**IrMachine** composes Visitor with a machine that executes the IR once the
visit has ended without an error (the driver's test). What a term computes is its
parameter `Value`, so that control can be reasoned about without it; **IrValues**
has the value the runs give it (`Run`), over the contents of cells. **IrSource**
maps IrMachine to SourceMachine: the next statement is that of the next instruction.

**MipsMachine** composes Visitor with the other half of the translator: the list
of code with its labels. `asm` is the part of the manager that names labels; the
actions `Translate...` append code, one instruction of the IR at a time, and
`Run...` execute the assembled code. What becomes of registers and the frame is
Translator's subject, so a statement's expression is one item of code here, and
the result of a comparison is loaded by the code that really is there: `bc1t`
over `li 0`, `j`, a label, `li 1`, a label. A name is the sequence of its parts
between underscores: `<<"f", "0">>` is a function `f_0` or the first block of
`f`. Each item knows the IR instruction it belongs to, which is the refinement
mapping to IrMachine (`Ip`). **MipsSource** composes it with that of IrSource.

**Pcode** is `PcodeVisitor` and `PcodeRuntime`. `loops` is the C++ stack of loops
over instructions (`run`'s, then one per `executeCall` under way), `ars` the
stack of activity records; the two are popped at different times, by the end of
a block and by `RET`. **PcodeMachine** maps it to SourceMachine.

## 3. Runs

| run | instance | properties |
|---|---|---|
| `alloc_spill` | 3 allocatable registers, up to 4 live values, calls of up to 2 arguments, one variable, frame of 3 words before the last instruction | `TypeOK` `FrameDisjoint` `RegistersAccounted` `ValuesHeld` `ReadsRight` `HomesHeld` `CallerSaved` |
| `alloc_roomy` | 4 allocatable registers, 2 live values, unary operators | `NeverDead` `ArgsInPlace` `TableExact` |
| `front` | texts of up to 3 characters of 18 that stand for all classes, and of 4 of 8; `put` with up to 5 words of an expression; four programs of up to 19 words with a word more, less or other, or cut there | `TypeOK` `LexerExact` `AcceptsGrammar` `FirstErrorAtFault` `Resynchronises` `PrintsText` `Terminates` |
| `flow` | 5 statements of control flow, 2 tags, from the source to the run of the MIPS code | `PendingExact` `UsesAgree` `Backpatched` `JumpsTargeted` `EmittedKept` `RefinesIr` `RefinesSource` `ForwardEnds` |
| `names` | 1 function, 1 parameter, 2 variables, 2 statements of every kind, 2 names for all of them, faulty programs | `TypeOK` `BlocksEnd` `ErrorsExact` `RefinesSource` |
| `names_funcs` | 2 functions, 2 parameters, 1 variable, 1 statement of every kind, the names `f` and `f_0`, an expression one of the names or a call of either, faulty programs | `ErrorsExact` `LabelsRight` `RefinesIr` |
| `pcode` | 2 functions, 2 parameters, 1 variable, 2 statements, 2 names, nested calls | `OperandsThere` `StacksDrained` `ForwardEnds` `RefinesSource` |

Why the bounds are enough. Spilling needs more live values than registers: with
three registers the fourth live value spills, a call in that state both reloads
and saves, and a frame of a few words lets a spilled value be reloaded and
spilled again at another offset. The offsets of the frame bound the number of
instructions of one function; more of them repeat the same states at lower
offsets. Backpatching needs a tag with several waiting jumps, a second tag
between them, and jumps after the definition: five statements over two tags hold
these and a statement to jump over. Whether a block is named by a jump to it or
by its own label, and the labels of comparisons in between, vary with the same
programs. Scoping mistakes need one name in two roles: two
names over a function, a parameter, variables and tags give every pair. Two
functions are needed for calls between functions and for redefinition, two
parameters for their order; `f` and `f_0` also clash as labels. The lexer's state
is gone after a token and a token's end is seen one character later, so texts of
three and four characters have every pair of neighbours of every class. An
expression of five words has every pair of operators, nested in parentheses, and
every way to break off; mistakes in statements need a valid context before and
after, which the edits of programs have: `Resynchronises` would fail if a fault
cost four statements, and the programs have five. `SYMMETRY` is used in `names`
only, where nothing but the identity of names matters and no property is one of
liveness.

`names` and `names_funcs` are two runs because the product of their instances
is too large.

Deadlock is checked in all runs but `front` and `number_point`, in which a parsed text is the end; in
the other modules the disjunct `Stopped` names the states the system may stop in.

### Fairness

The compiler and what it makes are single threads that wait for nothing but the
input of `get`, which the model takes as given. So a step of the parser that can
be taken is taken (`WF_vars(Next)` in FrontEnd), and a program that runs goes on
(`WF_vars(RunStep)` in MipsMachine, `WF_vars(Execute)` in Pcode). Nothing is
assumed of the visit, which in these modules also chooses the program and may
stop anywhere, nor of the outcome of a condition: `ForwardEnds` holds for every
one. The translation of a finite list needs no liveness property.

### Runs that find the code to differ from what is said of it

| run | what happens |
|---|---|
| `spill_dies` | When no register is free, `getFreeFloat` searches the table for the *index* under the cursor, and finds offsets and integer registers as well, or nothing. The compiler then exits, fails its own assert, or follows an uninitialized pointer. The tutorial says registers are spilled when there are not enough. |
| `spill_args` | The arguments' place is computed before they are loaded; if loading one spills a value the frame moves and the callee finds its arguments one word off. |
| `minus_emits_nothing` | Unary minus allocates a register for its result and emits no instruction: both branches test for an integer type, and there are only floats. |
| `repeated_tag` | A tag defined twice: the jumps before the second definition keep the first block. |
| `number_point` | A number may end in a point (`7.`), which the regular expression of `README.md` excludes: it wants a digit after the point. |

What the passing runs leave to these: `RegistersAccounted` and `ValuesHeld` fail
with a unary plus, so `alloc_spill` has no unary operator: it speaks of spills,
reloads, saves and calls only, and `alloc_roomy` has both operators for the
properties they leave true. `LexerExact` is about the texts without a digit
followed by a bare point. `ErrorsExact` counts neither a repeated nor an
undefined tag as a fault, since the code reports neither.

What was seen and has no run of its own:

- Unary plus binds its result to its operand's register, and `tryRelease` then frees
  that register for the operand (`translator.cpp:133`). When the pool comes round to
  it another value takes the register, and the result is lost.
- A jump to a tag that is never defined is accepted and has no target
  (`visitor.cpp:348`); the printers follow it. `JumpsTargeted` is about programs whose
  tags are all defined.
- A function whose body is at fault leaves its scope pushed (`visitor.cpp:105-112`),
  so later definitions go to the wrong scope and later messages are wrong. The
  passing runs leave such bodies out (`BadBody`).
- `get f` for a function or a tag ends the compiler at an assert
  (`visitor.cpp:156-171`, `Instructions.cpp:43`), and `if a > b to ;` follows a null
  pointer (`visitor.cpp:280`). In `names` both happen and end the behaviour
  (`phase = "crashed"`); the properties hold up to there.
- `_recover` skips the token it stands on before it looks for a semicolon
  (`parser.h:66-72`; its comment says it skips tokens *until* one), so `put ;` swallows
  the statement after it, and `if ;` up to three. `Resynchronises` states the bound.
- `--emit-ast` never shows a message (`main.cpp:137-144`), though `error.h:14` says they
  are printed at the end, and follows null children of a faulty tree.
- A function named `main`, `f_0` beside `f`, or `main_0` is an identifier to the
  language and a second definition of a label in the MIPS code. `LabelsRight` says
  that these are the only ones.
- With a NaN for an operand, `>`, `>=` and `!=` hold in MIPS code, being negations, and
  not in LLVM code, where `fcmp` is ordered. The outcomes of Translator leave
  unordered operands aside.
- In stack code, functions, tags and `_Main` share one map of labels
  (`PcodeModule.h:33`): a jump to a tag that has a function's name enters the
  function. `pcode` leaves such programs out (`Shared`).

## 4. Proofs

### The MIPS back end

`ManagerProofs`, `TranslatorProofs` and `HandlerProofs`, each of which extends the
one before, prove every property the runs check of Translator, for any number of registers, SSA values, variables
and live values, any arity and any number of functions.

| theorem | of every behaviour of `Spec` | hypothesis |
|---|---|---|
| `TypeCorrect` | `TypeOK` | |
| `FrameCorrect` | `FrameDisjoint` | |
| `HandlerCorrect` | `HandlerInv`, the inductive invariant | |
| `TableCorrect` | `TableExact` | |
| `RegistersCorrect` | `RegistersAccounted` | `Single` |
| `SurvivalCorrect` | `NeverDead` | `Roomy` |
| `ArgumentsCorrect` | `ArgsInPlace` | `Roomy`, `Slots = Int` |
| `SavingCorrect` | `CallerSaved` | `Slots = Int` |
| `ValuesCorrect` | `ValuesHeld` | `Plain` |
| `ReadsCorrect` | `ReadsRight` | `Plain` |
| `HomesCorrect` | `HomesHeld` | `Plain` |

The hypotheses are on the program and the machine, none is on the states:

- `Roomy`: four float registers more than the deepest expression has values. The
  code's machine has 32, so it is true of programs whose expressions keep up to 28
  values. Without it the properties are false: `spill_dies` and `spill_args`.
- `Single`: the program has no unary plus, whose result is bound to the register of
  its operand while `tryRelease` returns that register to the pool.
- `Plain`: the program has no unary operator and the machine at least four float
  registers. With a unary operator `ValuesHeld` is false (`minus_emits_nothing`, and
  section 3 on unary plus). With only one register to allocate, the register set
  aside for a zero is the operand's.
  Nothing is assumed of the number of live values: spills, reloads and saves happen.
- `Slots = Int`: the model does not cut the frame off. `Plain` includes it.

The argument. `ManagerProofs` has one lemma per operator of the manager (it maps
managers to managers and keeps words apart), `TranslatorProofs` one step per action
of `Next`. `FrameDisjoint` alone is not inductive: the return from a call moves the
cursor back up by the word of the return address, which keeps it below every bound
word only if there is a word between. `FrameInv` therefore says that during a `jal`
the bound words are above the cursor by more than one.

`HandlerInv` adds to it three parts.

- `Shape`: the operand stack has no value twice, the constants are on it, and the
  locals of `translate(CallInstPtr)` agree with the stack and the phase: the
  arguments are its last values, what is to be saved is below them.
- `Fitted`: the manager fits (`Fit`). The table binds exactly the values in hand, a
  constant only from its first use, only the result of a comparison to an integer
  register, and each variable to its word (`Tabled`). Every register out of the pool
  is some value's, and with `Single` of one value that is not in the pool
  (`Registers`). With `Plain` nothing was misread and every name in hand is held by
  its place (`Holds`). With `Roomy` the manager is alive. A manager that is not alive
  has an empty table.
- `Placed`: while parameters are declared the cursor counts them. During a call a
  value in a register is an argument or still to be saved, the cursor is above the
  words of the arguments, and with `Roomy` it is exactly as many words above them as
  are still to be written and the words written hold the arguments.

None of the parts is inductive alone: that the callee leaves the values alone
(`ValuesHeld`) needs that they are in words (`Placed`) above the return address
(`FrameInv`); that a free register is found (`NeverDead`) needs that each register
taken has a value in hand (`Registers`) and that these are few (`Shape`).
The second half of `TranslatorProofs` proves that each operator of the manager maps a fitting manager to a
fitting one, or to one that is dead. The facts about the round-robin search that
the handlers rely on are lemmas there: it finds a register of the pool, and
started past a register it comes back to it only when there is no other
(`NearestOther`), which is why two registers taken one after the other differ.
`HandlerProofs` has a lemma per handler and puts them together.

Further assumptions are those the modules name: the register counts are positive,
`$f0` and `$f12` are registers, values are integers, names are disjoint from the
markers for junk and the return address, the bounds are numbers. The step of a
comparison is proved for every operator.

### The IR generator

`VisitorProofs` proves every property the runs check of Visitor, for any number of
functions, declarations and statements, any identifiers and expressions of any
bounded depth, and whatever faults a program has (for `ErrorsExact`, but in the
bodies of functions). The two runs `names` and `flow` check these
properties of Visitor composed with a machine that leaves its variables alone.

| theorem | of every behaviour of `Spec` | hypothesis |
|---|---|---|
| `VisitorCorrect` | `VisitorInv`, the inductive invariant | |
| `BlocksCorrect` | `BlocksEnd` | |
| `EmittedCorrect` | `EmittedKept` | |
| `PendingCorrect` | `PendingExact` | |
| `UsesCorrect` | `UsesAgree` | no tag is defined twice |
| `BackpatchCorrect` | `Backpatched` | no tag is defined twice |
| `TargetsCorrect` | `JumpsTargeted` | every tag jumped to is defined |
| `RangedCorrect` | `Ranged`: what jumps and tags refer to exists | |
| `TypesCorrect` | `TypeOK` | |
| `ErrorsCorrect` | `ErrorsExact` | no function body is at fault |

The three hypotheses say which of the questionable things `Sloppy` lists the programs
leave out; without them the properties are false. `repeated_tag` shows it of the
first. A tag that is never defined leaves its jump without a target
(`visitor.cpp:348`), and a function body at fault leaves its scope pushed, so that
what is reported afterwards is wrong (`visitor.cpp:105-112`). So a tag defined twice
and a tag that is not defined are the only reasons for a jump of an accepted program
to lead elsewhere or nowhere.

The argument. None of the properties about jumps is inductive: `Backpatched` needs
that a list holds the jumps it should and no others when the tag is defined.
`VisitorInv` says of every tag (`Lists`) that the jumps in its list end blocks and
that their statements name this tag, and that they have a target exactly when the
tag has, the same unless a tag is defined twice; and that every jump without a
target is in the list of a tag without a block. A jump is in one list at most,
because its statement names one tag. The operands of a jump agree with its members
as long as `SetTarget` is called once for it; that needs the same lists. Statements
given up change nothing, so that errors before or after make no difference.

For `ErrorsExact` an invariant (`NamesInv`) relates the symbol tables to the text of
the program: a name of the global scope is a function already defined, with its
arity, one of main's scope a variable declared, or a tag mentioned by a statement
without a fault. Given scopes that resolve names like this, the visit of an expression
returns a value exactly if no part of it is at fault, and reports something
otherwise (`ExpExact`): an induction over the parts of the expression. `TypeOK` follows
from `Typed`, in which the sets a symbol and an instruction may refer to only grow.

### The labels and jumps of the MIPS code

`MipsProofs` proves that MipsMachine implements IrMachine (`RefinesIr`), which
`flow` and `names_funcs` check, for any number of functions, blocks and statements,
any names, and any `Value`.

| theorem | of every behaviour of `MipsSpec` | hypothesis |
|---|---|---|
| `MipsCorrect` | `MipsInv`, the inductive invariant | every tag jumped to is defined |
| `MipsRefinesIr` | `RefinesIr` | every tag jumped to is defined |

Without the hypothesis a jump has no block to name. No name is excluded: of a
program whose names clash with labels the code is not assembled (`Unique` guards
`Boot`), so it has no run that could differ; which names these are is what
`LabelsRight` says, and only TLC checks that.

The argument. The code of main begins at an item `M` with the label main and is
from there on a list of comparisons, nine items each, and of single items
(`MainCode`). A single label, or instruction that does not jump, is followed by the
item of the instruction it leads to (`Followed`) or, at the end, by that translated
next. A jump has the name of its target (`Called`), which `getLabelName` may have
given it long before the block is reached; each block translated has its label
outside any comparison (`Led`). Names that are given stay, and items are only added
(`Adds`), so all this stays true while code grows (`MainGrows`); `Ranged` and
`TargetsCorrect`'s part of `VisitorInv` say that targets are blocks, and `BlocksEnd`
that what follows a terminator is the next block. At the run the labels are unique,
so a jump to the name of a block goes to the block's one label (`BlockReached`).
Inside a comparison the invariant has to remember what the items before did: the
flag decides between the two labels, and the number loaded agrees with the flag at
`bnez` (`RunsIn`). Two comparisons share no item (`OneComparison`), so the run knows
which one it is in. Then `IrStep` holds of every step by its action: `bnez` is the
step of the branch, and the items before it, the labels, and the `j` after it are
none.

### The stack code

`PcodeProofs` proves what the run `pcode` checks of the stacks, and
`PcodeSourceProofs` that the stack code does what the program means, for any number
of functions, parameters, variables and statements, and expressions of any bounded
depth. The programs are those of the run: legal ones, in which no function calls
itself and no tag has the name of a function (`Promising`).

| theorem | of every behaviour of `PcodeSpec` | hypothesis |
|---|---|---|
| `PcodeCorrect` | `PcodeInv`, the inductive invariant | |
| `OperandsCorrect` | `OperandsThere` | |
| `DrainedCorrect` | `StacksDrained` | |
| `PcodeRefinesSource` | `RefinesSource` | `CallsMean` |

The hypothesis says what the parameter `CallValue` of SourceMachine is, nothing
about the code. There is such an operator: in a legal program a function calls
functions defined before it, or itself, and the equation gives the value of a
call of the n-th function from those of the first n - 1. It is a hypothesis and not an
`ASSUME` because it quantifies over all programs and values, which TLC cannot;
`MCPcode` has TLC check the equation for the operator of the runs, on every program of
two functions of the run's instance.

The argument for the stacks. What an instruction pops and pushes depends on the code alone, a
call's pops being the number its function was declared with. So a block has a
height at every place (`Heights`), if the heights fit together; the code of an
expression, wherever it starts, is one higher at its end and never lower than at its
start (`ExpLeaves`). While the program is compiled each block is such code: a
function's block reaches height one at its only RET, main's blocks are at height zero
wherever one statement's instructions meet another's (`Compiled`). While it runs,
each activity record is as high as its loop's place, a record that waits for a
call one less than after it, and a loop that has executed RET has no record any more
(`Runs`). A jump leads to the start of a block of main because its name is no
function's (`Shared`) and some tag's (`Legal`).

The argument for the refinement. Heights do not say which values are on a stack, nor
which statement main is at, so two more invariants are needed.

- `ShapedInv`, of the compiled code: the code of function i is block i, and that of main
  is laid out statement after statement at the places of one function `Place` (`Layout`):
  a statement's code follows the one before it, and a tag ends a block, to begin the next
  one with its label. It makes the next statement of a run unique: main is at
  statement m (`Pos`) among the instructions of m, before or at its label, or, for the
  first one, still at the declarations. `NextStmt`, the refinement mapping, is that m.
- `Told`, of a run: main is at some statement, and every activity record holds what the
  code of its block before its place has left (`ValuesOk`). What a sequence of
  instructions leaves is a function of the stack it starts on (`Final`); the code of an
  expression, wherever it is, leaves that stack with the value of the expression on top
  (`ExpValue`, `BodyValue`). A record that waits for a call is short of the call's arguments,
  which the record above it has. So what RET hands back is the value of the call, by
  `CallsMean`, and the waiting record holds what its code leaves after the call.

Then every step is one of the source or none: an instruction inside a statement changes
neither the statement nor what it has done, the last one of it (`STORE`, `WRITE`, `JIT`,
`JUMP`) finds the value of its expression alone on the stack and does what the
statement does, a jump enters the block of the one tag of its name (`OneTag`), and the
end of the last block is the end of the program (`Goes`, `SimNext`). The instance of
SourceMachine has its own copy of the definitions of Program and Meaning;
`SourceLegal` and `SourceEval` show that it agrees with the one the proofs use.

Induction over expressions is done without an induction theorem, none of which the
provers here can use: `TreeProofs` shows of a set of the parts of an expression that
contains each part whose children it contains, that it contains the expression. The
depth is a number, and of a nonempty set of numbers there is a least one. The same
way it shows that a function defined over the parts of an expression by its values at
their children is what its definition says.

### Only model-checked

Everything else in the tables above. Liveness under fairness (`Terminates`,
`ForwardEnds`) is out of the prover's reach. `Lexer`, `Parser`, `Grammar` and
`IrValues` are written with recursive operators and are outside what TLAPS handles
here. The refinement of SourceMachine is proved of the stack code; of the IR and of
the MIPS code (`RefinesSource` of `names` and `flow`) it is only checked.
`LabelsRight` rests on the decimal numerals of labels being different, of which
`ToString` says nothing to the prover.

## 5. Not modelled

Text (the LLVM and MIPS printers' formats, messages, names of float constants),
option parsing and files; what float arithmetic computes, and the value of a
number (`stof` throws on one too large); the numbering of `SlotTracker`; the user
lists of IR values and removal of operands, which only their own tests call; the
interning of IR types. `PROJECT.json` lists each part with the reason.

Deliberate abstractions of what is modelled: the operators of expressions (the
analyser treats them alike; in stack code and MIPS they are terms); the
instructions an expression leaves in a block when its statement is given up
(nothing is emitted after an error); the order of messages of one line, and how
often one is repeated; integer operands and logical `not` in the translator,
which the visitor never makes; the branch of `getFreeTmp` for an empty pool, as
no two conditions are ever alive; a platform whose `char` is unsigned, where the
lexer never sees the end of a text; the lines of the syntax printer that name a
grammar rule.

## 6. Plan

1. IR user and operand lists as mirrored bags, with `SetTarget` and
   `RemoveOperand`, and their agreement proved. Slot numbering.
2. The front end and the analyser in one behaviour, with the null nodes of
   faulty texts reaching the visitors: it needs one representation of trees.
3. Proofs: that the IR implements SourceMachine, from `ErrorsExact` and `Backpatched`,
   with the values of terms given by an equation as `CallsMean` gives those of calls;
   with `MipsRefinesIr` it would follow for the MIPS code.
