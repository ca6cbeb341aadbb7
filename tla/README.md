# Verification of meddle

meddle is a compiler: it parses the files of a program, resolves and checks
them, and lowers them to MIR, an SSA-like intermediate code of basic blocks,
which it prints. This directory holds TLA+ models of the parts of it whose
correctness depends on the order of many steps, the TLC runs that check them,
and proofs in TLAPS of some of their invariants for every size of program.

The compiler is one sequential process: no threads, no persistent state, no
messages. What makes it hard is of other kinds. Its passes are recursive
visitors that leave results for each other in members (`m_Value`, `m_Cond`,
`m_Merge`, `m_VC`, `m_Place`, the insertion point), so a handler that runs
between two others can spoil what the first left for the second. Its
data structures (predecessor lists, block lists, scopes, template caches) are
kept in agreement by hand. And it goes through `unordered_map`s while it changes
what later iterations read, so an input has many executions.

## Inventory

| Part | State | Operations | Hard behaviour | What makes it correct |
|---|---|---|---|---|
| CGN, control flow (`cgn/codegen.cpp`, `codegen_binary.cpp`) | `m_Value`, `m_Cond`, `m_Merge`, insertion point, C++ call stack | one `visit` per node kind, `define_function` | handlers interleave through recursion; merge blocks are kept or deleted by looking at predecessor lists; dead code after a terminator | well-formed blocks; the MIR runs as the source is written |
| MIR blocks and builder (`mir/basicblock`, `function`, `builder`) | instruction lists, predecessor and successor lists, linked block list | `append`, `add_pred`/`add_succ`, `build_*` | two representations of the same edges; a block may be appended twice or deleted in use | edges mirror terminators; each block is owned once |
| Units and imports (`tree/unitman`, `scope`, `Context::importType`) | `m_Units`, scopes, exports, uses, imported types | `addUnit`, `resolveUses`, `resolveImports` | unordered map order, cyclic uses, early return | result and verdict do not depend on the order; a unit sees what it uses |
| Parser, top level (`parser/parser.cpp`, `parse_decl.cpp`) | runes, current unit and scope | one item after another | runes survive their item; duplicates | what is exported is what was marked |
| Parser, statements and expressions | token position, scopes, `m_AllowUnresolved`, C++ call stack | a function for each production | reads ahead with one grammar and goes back to parse with another; precedence by recursion; flags set for what is called | nothing is lost or used twice; the tree follows the text; every text is parsed or rejected |
| Lexer | position | `lex` | none beyond its position | tokens are those of the text |
| Types, templates, deferral (`tree/type`, `context`, `substenv`, `decl`) | canonical type tables, deferred types, specializations | `Type::get`, `resolveType`, `sanitate`, `fetchSpecialization` | two passes over an unordered map; specializations made while others are unresolved | one type per meaning; every deferred type resolved; no dependence on order |
| Name resolution (`tree/nameres`) | scope, current function, types in the tree | one `visit` per node kind | lookups through imported units; copies types that are not known yet | every reference names a declaration it may see |
| Sema (`tree/sema`) | function, loop flag, types in the tree | one `visit` per node kind | writes types that others have read already; lists of legal casts that the CGN keeps too | what passes can be lowered, to instructions on operands of their types, with the values that the text means |
| CGN, values and places (`codegen_unary`, parts of `codegen`) | `m_VC`, `m_Place`, `m_Self`, slots | lvalues, aggregates, calls | members left behind by nested expressions | each operand is lowered once, in the form its context needs, and aggregates arrive where they belong |
| Segment, constants, layout (`mir/segment`, `type`) | constant pools, data layout | `get`, sizes and offsets | alignment arithmetic | fields do not overlap; constants unique |
| Printers, options, diagnostics | none | formatting; `fatal` | none | |

The parts meet in `main` (`compiler/meddle.cpp`): the parser builds one
`TranslationUnit` per file, `UnitManager::drive` runs `resolveUses`,
`Context::sanitate`, `NameResolution` and `Sema` over all units, then CGN turns
each unit into an `mir::Segment`. Each of the loops in `drive` goes over the
same unordered map; a pass over one unit reads what earlier passes left in
others.

`PROJECT.json` lists the hazards at their lines, with the properties that
cover them; those without one say why.

## Modules

    Parser <-- MCParser                  Scalars <-- Typing <-- MCTyping
      ^                                                ^
    ParserProofs <-- ParserHolds                  TypingProofs

    UnitManager <-- MCUnitManager        Expressions <-- Delivery
         ^                                    ^             ^ refines
    UnitProofs                                +-------- Places <-- MCPlaces
                                                           ^
                                                      PlacesProofs

    Context <-- MCContext

    Mir  <------- Codegen <------- CodegenRun
     ^              ^                   ^
    MirProofs <-- CodegenProofs <-- RunProofs

(An arrow leads from a module to one it extends.) They follow a program through
the compiler: the text (`Parser`), the units and what they see (`UnitManager`),
the types that are written (`Context`), the types of expressions (`Typing`, over
`Scalars`), the lowering of expressions to values and addresses (`Places`,
which implements `Delivery`) and that of statements to blocks (`Codegen` over
`Mir`), and the execution of what comes out (`CodegenRun`).

**`Mir`**: the body of one function as a record: for each block its
instructions, predecessors and successors; the block list (`layout`), the
deleted blocks and the insertion point. Each operator is one call of the
builder: `Emit`, `AddEdge` (`add_pred` and `add_succ` call each other and stop
when the block is listed, so that one call records both), `BuildJmp`,
`BuildBrif`, `BuildRet`, `AppendBlock`, `FreeBlock`, `HasTerminator`
(*any* instruction of the block, as in the code). Straight-line code is one
`eval` instruction. An instruction names blocks and never the nullptr (`Inst`):
what the handlers could leave null, they do not branch to, and type correctness
says so.

**`Codegen`**: `CGN::define_function` and the visitor for one function body.
The C++ call stack is the variable `stack`; a handler is split at its `accept`
calls and nowhere else, so each action is all the code between two of them:

| Action | Code between |
|---|---|
| `VisitIf`, `IfBranch`, `IfThenEnd`, `IfElseEnd` | condition, then, else of `visit(IfStmt *)` |
| `VisitMatch`, `MatchChains`, `MatchCompare`, `MatchUnsupported`, `MatchCaseEnd`, `MatchDefaultEnd` | scrutinee, patterns, bodies, default of `visit(MatchStmt *)` |
| `VisitUntil`, `UntilBranch`, `UntilBodyEnd` | condition and body of `visit(UntilStmt *)` |
| `VisitLogic`, `LogicLhs`, `LogicRhs` | operands of `cgn_logic_and` and `cgn_logic_or` |
| `VisitRetVoid`, `VisitRet`, `RetValue` | `visit(RetStmt *)` |
| `VisitOp`, `OpEnd`, `VisitLeaf` | every other expression, with and without operands that may branch (`Operands`, lowered in order) |
| `DefineFunction`, `DefineEnd` | `define_function` before and after the body |

The syntax tree is chosen as it is visited: a node is undecided until its
`Visit` frame runs, and the action then decides it. Since every node is visited
once this gives the behaviours of all trees of at most `MaxNodes` nodes. What
the parser and Sema reject is never chosen: `break` and `continue` outside of a
loop (tracked like `Sema::m_Loop`), `ret` with or without a value against the
return type, a `&&` as a returned aggregate. Any expression may be the scrutinee
or a pattern of a `match`; at the first comparison the generator may find that it
cannot compare values of that type (`MatchUnsupported`). `mValue` is the
node whose value was left behind; `mCond` and `mMerge` are `m_Cond` and
`m_Merge`.

**`CodegenRun`**: executes the finished MIR next to the program. The source is
a continuation of things to do, the machine a program counter over blocks;
values are chosen freely and handed to both. They meet at evaluations, copies
and returns, and what each does in between is silent. This is the abstract
meaning of the program, and the properties say that the MIR implements it in
lockstep.

**`UnitManager`**: what the parser registers for each top-level item, then
`resolveUses` over the units in any order. A handler that calls `fatal` is one
step, since nobody sees what it did before. `V` and `S` of `resolveUsesUtil` are
passed by value and a recursive call for a unit already in `V` returns at once,
so the only unit on the stack is the one at work (`OnStack`). `$public` before a
member of a structure is read into the same set of runes (`member` in `ParseDecl`).
Each use also leaves what it asked for in the imports of its unit (`Brought`), which
CGN declares in the unit's segment (`Declared`, `SegmentName`). A name stands in the
list of a use once.

**`Context`**: what becomes of the types that are written in a program. The
parser gives each text a type at once (`ParseType`: `Parser::parse_type` and
`Type::get`), which is a `DeferredType` if nothing of that name is declared
yet; `m_Deferred` keeps one for each text of a unit, with the scope where it
was first met. `ResolveUses` stands for `UnitManager`: it lets each unit see
any declarations of others that do not conflict. Then `Context::sanitate` runs
for the units in any order (`StartUnit`, `EndUnit`), each step of its loops
being an action (`FirstPass`, `SecondPass`): the first loop takes the deferred
types in any order and the second in the same one, since the map is not changed
in between. The functions they call on types are operators that return a type
and the pools they leave: `ResolveType`, `Wrap` (`PointerType::get`,
`ArrayType::get`), `Compare`, `SubstType`, `FetchSpecialization`. A text is a
sequence of tokens, which the code takes apart from the end as it does its
strings. `phase` says how the program ended: with all types, by a diagnostic,
in `exit` (`substParam`), or by the use of a value that is not there.
`UnitManager` and `Context` share no variables: the first says what a unit
sees, the second takes any such outcome.

**`Parser`**: `parse_stmt`, `parse_expr`, `parse_type` and every function that
they call. The C++ call stack is `stack`. A token is chosen when the parser
first reads it, so that every text over an alphabet is tried as far as the
parser follows it, and going back (`restore_pos`) reads the same tokens again.
A function that is a plain sequence of "match or `fatal`, `next`, call" is a
script, interpreted by `ScriptEat`, `ScriptCall`, `ScriptChoose` and
`ScriptDone`; those that loop or look ahead have actions of their own:
`parse_binary` (`BinaryOperator`, `BinaryNested`, `BinaryJoin`, `BinaryDone`),
the prefix and postfix operators, `parse_ident` (`Known`, `PeekAfterName`,
`TryTypeName`, `DecideByPeek`), `parse_use_spec`, lists, blocks and matches. A parenthesis and an operation ask for
the type of their first operand when they are made; that of a cast or an initializer may be
a deferred type, whose assertion then ends the parse (`Unqualified`, one way to reject). A
node of the tree is its tag, the position of its operator, its first and last
token and its kids. Names are a few: variables, an enum variant or function, a
named use. `scopes` is `m_Scope`, `allow` is `m_AllowUnresolved`.

**`Scalars`**: the tables. `CanCastTo`, `CanImplCastTo` and `TypeCheck` are
what Sema goes by; `TypeClass`, `CgnType`, `InjectCmp`, `Convert` and the
`Lower…` operators are what CGN makes of a conversion or an operator; `Build…`
are the builder's functions with their assertions, and `Computed` what an
instruction does with integers. Each gives the value, whether the instruction
has operands that are not of its type, or how the compiler stops: a diagnostic
of the generator (`refused`), a failed assertion, a nullptr followed (`crash`).
Integers keep their width; a value that rests on floats or addresses is not
computed (`known` is FALSE).

**`Typing`**: the four places that touch the type of a node. The parser gives it
one when it makes the node (`Leaf`, `Paren`, `Cast`, `Operator`, `Binary`,
`Assignment`, `Statement`); `NameResolution` copies types upwards (`Resolve`); Sema
reads them, puts casts in and writes others (`Analyse`, `Skip` for what is
inside of a cast, where Sema does not go, `Reject`, `Crash`); CGN reads what is
there then (`Lower`, `Stop`). The tree is in postfix order, the order in which
each visit leaves the nodes. A type that is not known is `None`, the nullptr
that the parser gives to names and unary operators. The properties compare
this with `Meaning`, the value of the expression by the types in the text alone.
Operands of `Binary` are those that `parse_binary` gives it where it groups by
precedence; the trees it groups otherwise are the subject of `Parser`.

**`Expressions`**: the trees that Sema hands to CGN, as rules of a grammar: the
kinds of expressions over a few types (arithmetic, pointer, structures, array),
and what each demands of its operands. A node is a hole until the generator
visits it.

**`Delivery`**: what CGN promises for a statement, without its registers: every
expression is lowered once, after its operands and after everything that stands
before it, as the value or as the address that its context needs, and an
aggregate that has a place arrives there.

**`Places`**: the handlers of `codegen.cpp`, `codegen_unary.cpp`,
`codegen_binary.cpp` and `codegen_rune.cpp`, split at their `accept` calls, with
`m_VC`, `m_Place`, `m_Value` and `m_Self`. An assertion of these files or of
the builder is a guard, so a failed one leaves the statement stuck. `out` is
the history of the forms that were produced and the copies that were made; the
refinement of `Delivery` is over it and the tree, with no other mapping. The
refinement is of safety: `NoFault` says that the handlers come to their end.

Faulty variants (their comments begin with `Faulty:`) are the bugs the properties are shown
to catch; nothing else uses them.

## Runs

| Run | Checks | Bounds |
|---|---|---|
| `codegen_structure` | the generated function is well formed at every step | 8 nodes, 2 statements or cases, all return classes, `&&`/`||` nested anywhere |
| `codegenrun_agree` | the MIR runs as the source is written, and never spins | 7 nodes, no aggregate returns and no `&&`/`||` left of `&&`/`||` (the two known errors) |
| `codegen_nestedlogic` | violation: phi and predecessors | 7 nodes |
| `codegenrun_aggregate` | violation: code after a returned aggregate runs | 7 nodes |
| `unitmanager_resolve` | imports and verdict do not depend on the order | 3 files, 4 items in all and 2 per file, one name, one alias |
| `context_sanitate` | what types become does not depend on the orders | 2 files; 4 declarations and types, 4 deferred types in all; one structure and two templates with own parameter names |
| `context_params` | violation: a template meets the parameter of another | 1 file, 3 items |
| `parser_texts` | every text is parsed or rejected, and its tree is the text | ten alphabets of 6 to 12 tokens, texts of 6 to 10 tokens |
| `parser_precedence` | violation: a looser operator inside of a tighter one | the alphabet of operators, 10 tokens |
| `typing_passes` | scalars are rejected, or lowered and computed as written | nine families, 3 to 7 nodes; bytes of 2 bits, words of 3 |
| `places_lowering` | CGN implements `Delivery` and fails no assertion | seven grammars, 6 to 9 nodes, careful programs |
| `places_operands` | violation: the right operand of an operator is lowered as an address | one grammar, 5 nodes, any operands |

*Structure.* `EdgesMirror`: the predecessor and successor lists say what the
terminators say. `Sealed`: no block is left without a terminator, except that
under construction. `NoDangling`: no branch to a deleted or missing block.
`BlocksOwned`: each block is in the list once, or deleted. `LoopContext`:
`m_Cond` and `m_Merge` are those of the innermost loop, and what Sema takes for
the inside of a loop is inside one here. `ForwardOnly`: the insertion point never returns to a block that
the function already has.

*Execution.* `RunsAsWritten`: what the machine does is what the program does
next. `NeverStuck`: control stays inside the function and a phi has exactly one
entry for the block control came from. `OperandsDefined`: operands are computed
before they are read. `PhiCoversPreds`: the entries of a phi are the
predecessors of its block. `NoSilentLoop`: the machine cannot branch for ever
without executing something of the program.

*Units.* `VerdictOfFiles`: the uses are accepted exactly when each unit is
consistent in itself. `SeesWhatItUses`: the scope, the imports and the imported types
of each unit are determined by its text and what the others export. What they
export is taken as the parser left it: that runes are sticky is in the model, but no
property is against it. `TypesKeptApart`: the diagnostic of `importType` cannot be
reached. `DeclaredApart`: what a unit declares in its segment has a name of its own,
which `Segment` asserts, but for what named uses bring. Two order-dependent variants (sharing the visited list,
comparing only with the unit's own declarations) are found at these bounds.

*Types.* `EveryTypeMeant`: each type in the program is the one that its text
means by the grammar (`Denotation`) where it stands. `VerdictOfTexts`: the types
of a program are accepted exactly if each text means something and is supported,
and the program stops for no other reason than that a template is specialized while
its field has a deferred type without a value (`MetTooEarly`). `OneSpecialization`: one specialization for each argument, also if two units build the argument apart.
`FieldsSubstituted`: the field of a specialization is that of the template with
the argument in the place of the parameter.

`context_sanitate` leaves out the input of the third departure below: its templates have
parameters of different names. Its fields include those that are specializations,
of the other template and of its own. Not supported by the code, and so part of
`VerdictOfTexts`, are templates and arrays in an argument (`Supported`).

*Texts.* `HeldOnce`: nothing that was read is lost or used twice. `InTextOrder`:
operands stand where the tree says. `OperandToTighter`: an operand between two
operators goes to the tighter. `LookaheadAgrees`: what was decided by reading
ahead with `parse_type_name` is what the function that was chosen finds, but for
the call that is chosen in `f<T>*(x)`.
`NothingLeft`: scopes and `m_AllowUnresolved` end with what set them. `EndKept`
and `Ends`: no loop reads beyond the end of the file, or waits there.
(`AccessExpr` drops a list of type arguments; it is excepted in `HeldOnce`.)

*Types of expressions.* Each property has the form "this never goes wrong, but
where the statement has one of these forms", and the forms are named in the
module (see the list of departures below): `NullDeref`, a type that is not known
is never followed (`ReadTooEarly`, `CountsNonNumber`). `LabelsTrue`, the type in the
tree is that of the value (`Mislabels`). `WellTyped`, instructions have operands of
their types, which the builder does not ask (`Causes`, `Complements`).
`ComputesAsWritten`, what is computed is the `Meaning`. `AcceptedIsLowered`, what
passes Sema is lowered (`ConversionGap`, `OperatorGap`). Each exception is as narrow as
the run admits, and a program that avoids all of them is compiled correctly.

*Values and places.* `NoFault`: no assertion fails. `PlaceTakenBack`: `m_Place` is
seen by the operand it was set for and by nothing after it. `Delivers`: the
refinement. `places_lowering` takes *careful* programs only: those in which no
handler relies on what another one left in `m_VC` or `m_Place`. The second group
of demands in `Expressions` (`Calm`, `Plain`, `Still`, `Pure`, `Whole`, `Nested`)
says exactly which operands that excludes where, and is itself a result: everything
outside of it is lowered as promised. It excludes an access to a member, an
increment or a call with an aggregate argument as the *left* operand of an
arithmetic operator or compound assignment, names as the patterns of a `match`
and as fields of an initializer that is an argument, calls with aggregates in an
initializer, effects on the left of a compound assignment, and the value of an
aggregate assignment. It also has no fields in methods that return an aggregate
(`~f.aret` in `Fillers`), where `m_Self` is a nullptr (`DefineSelf`).
`places_operands` drops the demands for one grammar.

*Why the bounds are enough.* Eight nodes (seven where the MIR is executed) hold every statement with a nested one
in each position, a loop in a loop with a `break` after the inner one, a match
with two cases and a default and branching bodies, and `&&` inside every
expression position. A handler only sees its own frame, the insertion point
and three members, so an error needs one handler nested in another, which these
bounds give in all combinations. Three files give a cycle with a third party
that imports from both; four items give two conflicting exports and two uses.
One name suffices because names are only compared; conflicts need two equal
names, and the absence of a conflict is had by the alias or by not exporting.
Four items hold a structure, a template with a field of it or of its parameter,
and the same argument written in both files; four deferred types give a
specialization that comes before, between and after the types it needs, in
its own unit and another one, and those with a field that is one and comes before
or after. A parse function sees the current token, its own
frame and the two flags, so an error needs one function inside of another and a
token that both could take; each alphabet has the tokens of one such matter
(operators, calls and comparisons, brackets and uses, initializers in parentheses, statements, cases) and its
texts hold two such functions nested and something after them. Ten tokens hold five
operators, of which three levels are told apart. Types of expressions go
wrong between a node, its operand and what encloses it: the families have every
operator on every two scalar types, every conversion of every type into every
other and two in a row, and operations in operations, in parentheses and in casts.
The widths are the smallest at which sign extension, zero extension, truncation
and wrapping differ (`i16` and `i32` are treated as `i8` and `i64` in every table
of the code); the values are one, and two more of each integer type, of which
one or both are negative if it is signed. A grammar of `Places` has a statement, an expression of each kind in it, and
in each operand of that another one.

*Deadlock* is checked in every run: a finished compilation stutters
explicitly (`Finished`, `Ended`, `Over`, `Stopped`), in `Typing` also a statement that is
left unwritten; no parse, visit or resolution stops on its way.

*Fairness.* `NoSilentLoop` and `Ends` need it: the program counter moves as long as
it can, and the code generator and the parser likewise. They are sequential code that nothing
preempts. No fairness is assumed about the values: an evaluation may give the
same outcome for ever, so that a loop of the program may run for ever, and only
loops *without* evaluations are excluded.

## Where the code departs from what it says

1. **`&&` and `||` nested to the left** (`codegen_binary.cpp:685`, `:725`): the
   short-circuit block is taken before the left operand is lowered; if that
   branches, the phi names a block that is not a predecessor. Run
   `codegen_nestedlogic`.
2. **`ret` of an aggregate** (`codegen.cpp:645-661`) builds no terminator:
   statements after it are executed, and in an `if` control goes on to the
   merge block. Run `codegenrun_aggregate`.
3. **Templates share deferred types** (`type.cpp:64`): in a file with `B<T> { x:
   T* }` and `P<T> { x: T* }` both fields are one deferred type, that of `B`, and
   specializing `P` ends the compiler in `exit(1)`. Run `context_params`.
4. **Precedence** (`parse_expr.cpp:230`): `a + b * c == d` is grouped as `a + ((b * c)
   == d)`, since the nested call gets the precedence of the caller plus one and
   not that of the operator. Run `parser_precedence`.
5. **The kind of the right operand** (`codegen_binary.cpp:490` and its siblings):
   `m_VC` is set before the left operand only, so that in `s.x + y` the address of
   `y` is added. Run `places_operands`.

Met while modelling, and part of what the passing runs state, not of a run of
their own:

- *Units.* A unit that uses itself leaves its later uses without a unit, since
  `resolveUsesUtil` returns true half-way and nobody looks (`unitman.cpp:96`); the
  exact set is in `SeesWhatItUses`. Runes are never cleared, so all items after a
  `$public` one, or after a structure with a `$public` member, are exported
  (`parser.cpp:289`).
- *Reading ahead.* `parse_ident` skips a type with its suffixes and takes a `(` after it
  for a call (`parse_expr.cpp:97`), so that for `f<T>*(x)` the message is that of a call
  without a `(`: named in `LookaheadAgrees`.
- *Imports in the segment.* Every use adds what it asks for to the imports of its unit, and
  CGN declares all of them in the segment of the unit (`unitman.cpp:50`, `codegen.cpp:306`).
  A declaration that two uses of one unit bring, one of them named, and a structure behind
  a named use beside one of the same name of the unit's own are accepted, and then fail
  the assertions of `Segment::add_function` and `StructType::create`: the exception of
  `DeclaredApart`.
- *Types.* The second loop of `sanitate` specializes templates in the order of an
  `unordered_map`. With `B<T> { x: T }`, `P<U> { y: B<i32> }` and a mention of `P<i32>`, the
  program is accepted if `B<i32>` comes first in it; if `P<i32>` does, the underlying type
  of the field is read before anything was stored in it (`substenv.cpp:10`, `type.h:119`).
  The same happens if a unit comes first that imports a template with any deferred
  field: the exception `MetTooEarly` of `VerdictOfTexts`.
- *Methods.* `define_function` takes `m_Self` from the first argument (`codegen.cpp:280`), which in
  a method that returns an aggregate is the one for the result and has no slot: a field
  named there fails the assertion of `codegen.cpp:1141`, so that `places_lowering` has none.
- *Parsing.* `(P { x: 1 })` and `P { x: 1 } * 2` with a `P` that is declared further on
  fail the assertion of `getType()` (`expr.h:37`), which is asked before types are
  resolved: `Unqualified`.
- *Types of expressions.* `(a + b) * c`, `x: i64 = (a + b)`, `cast<i64> a + b` and
  `mut x = a + b;` follow a nullptr in Sema, as the operation got the type of the
  name `a` when it was parsed and is read before Sema comes to it. `++` of a `bool`
  or `char` stores a nullptr. `&&` and `||` are recorded as their left operand's type,
  and a comparison or `!` in parentheses or a cast as that of what it compares,
  which makes conversions and stores of the wrong width. `~` of a float is built.
  Sema accepts, and CGN does not lower: conversions of `bool` and `char`, `nil` to a
  float, `%`, shifts and bits of floats, orders, products, signs and matches of
  `bool` and `char`, the difference of pointers, `1 + p`, `-p`. In a template, anything
  agrees with the parameter: `x + 1` with `T = i8` adds two widths.


## Proofs

| Theorem | States |
|---|---|
| `TypeCorrect`, `EdgesMirrored`, `LoopsTracked` (`CodegenProofs`) | `TypeOK`, `EdgesMirror`, `LoopContext` of `Codegen` |
| `EveryBlockSealed`, `NoBranchDangles`, `EveryBlockOwned`, `NoBlockLoops`, `NeverBack` (`CodegenProofs`) | `Sealed`, `NoDangling`, `BlocksOwned`, `NoSelfEdge`, `ForwardOnly` |
| `PhisComplete` (`CodegenProofs`), where `LhsPlain` | `PhiCoversPreds` |
| `ControlStays`, and where `LhsPlain` `RunNeverStuck` (`RunProofs`) | `NeverStuck`, and its part that needs no hypothesis |
| `RunOperandsDefined` (`RunProofs`) | `OperandsDefined` of `CodegenRun` |
| `UnitsWellTyped`, `VerdictOfTheFiles`, `EachSeesItsUses`, `TypesApart`, `SegmentNames` (`UnitProofs`) | `TypeOK`, `VerdictOfFiles`, `SeesWhatItUses`, `TypesKeptApart`, `DeclaredApart` of `UnitManager` |
| `TypeCorrect`, `EndIsKept`, `TreeFollowsText` (`ParserProofs`) | `TypeOK`, `EndKept`, `InTextOrder` of `Parser` |
| `EachHeldOnce`, `NothingIsLeft`, `OperandsGoToTighter` (`ParserHolds`) | `HeldOnce`, `NothingLeft`, `OperandToTighter` of `Parser` |
| `TypeCorrect`, `NullDerefs`, `RecordsAreTrue`, `InstructionsFit`, `AcceptedLowers` (`TypingProofs`) | `TypeOK`, `NullDeref`, `LabelsTrue`, `WellTyped`, `AcceptedIsLowered` of `Typing` |
| `TypeCorrect`, `PlacesTakenBack` (`PlacesProofs`) | `TypeOK`, `PlaceTakenBack` of `Places` |

They rest on the invariants `Invariance` (an `IInv` in each of
`CodegenProofs`, `TypingProofs` and `PlacesProofs`), `BlocksTracked` (`BInv`),
`PhisTracked` (`PInv`), `ControlTracked` (`AtInv`), `OperandsTracked` (`DInv`), `ViewsTracked` (`VInv`) and
`StackInOrder` (the `IInv` of `ParserProofs`), which are theorems too.

**The generated function.** For all values of `MaxNodes` and `MaxStmts`, all
sets of return classes and all kinds of left operands (`BoundsAssumption`,
`RetKindsAssumption`, `LhsKindsAssumption`). `MirProofs` has the lemmas about the
operators of `Mir` (what each keeps of `BodyOK` and `Mirror`), `CodegenProofs`
those about the stack and one lemma for each action. The first invariant is

    IInv == TypeOK /\ EdgesMirror /\ LoopContext /\ Bottom

None of the parts is inductive alone. `EdgesMirror` needs `TypeOK`, since a
branch must be built in an allocated block to an allocated block. `TypeOK`
needs `LoopContext`: that `break` jumps to an allocated block holds because
the visitor is then inside a loop, whose blocks are in its frame and in
`mMerge`. `LoopContext` when a loop is left says that the saved members are
those of the next loop out, for which every frame on the stack has to have
saved the right ones (`SavedLoops`). `Bottom` says that the frame of
`define_function` is at the bottom of the stack and only there, so that the
stack is not empty while a handler runs. `TypeOK` contains what a waiting frame
still needs of its handler (`FrameReady`), without which `IfThenEnd` could
append block 0. An action that returns or calls changes the stack in one of
three ways (`ReturnKeeps`, `CallKeeps`, or, for loops, `PushLoop` and
`PopLoop`), and the body by a composition of builder calls.

*Ownership.* That no branch dangles and no block is lost cannot be seen from
the function alone, as a handler keeps blocks that are nowhere yet. `BInv`
therefore says who owns each block: it is in the block list once, or deleted, or
owned by exactly one frame of the stack (`Pending`, `Owned`), and one that was
deleted has no predecessors. With it go the facts that a handler relies on when
it appends or deletes: the alternative is not the merge block; the block a loop
returns to is in the function, and is not the one where its body ends, so that
no block gets itself as a successor; the merge block of a loop has a predecessor,
so that what follows a loop is reachable; within the condition of a loop there
are only expressions, so that nothing but the loop's own handler sees its blocks
before they are used (`FrameFits`, `Nested`). A handler is reduced to one
relation, `Step` of `MirProofs`: so many blocks allocated, these branched to, one appended,
these deleted, these phis added. A lemma for each action (`...Move`) says which
step it is and whose blocks it touches, and a few lemmas on `Moves` that any
such step keeps the invariant. `Sealed`, `ForwardOnly` and the others follow.

*Phis.* `PInv` adds that a phi has one entry for each predecessor, and that the
insertion point stands still while the left operand of `&&` or `||` is lowered.
That is true only if no such operand is itself an `&&` or `||` or an operator
around one: the hypothesis `LhsPlain` of `PhisComplete` and `RunNeverStuck`. The
run `codegen_nestedlogic` shows that it cannot be dropped, since the code is
wrong there (the first departure above); `codegenrun_agree` assumes the same.

*Execution.* `RunGenerates` says that to execute a function does not change it,
so that what is proved of `Spec` holds for `RunSpec`. Then the machine is always
before the terminator of a block of the function that it entered by an edge of
the predecessor lists (`AtInv`); as every block is sealed there is an instruction
to fetch (`ControlStays`), and as a phi has one entry for each predecessor it has
one for the block that control came from (`RunNeverStuck`).

**What a unit sees.** For all files, names, aliases and bounds (`FilesAssumption`:
there is a file, and no unit is the nullptr; `NamesAssumption`: no name and no
alias is empty; `BoundsAssumption`). The invariant is

    VInv == Typed /\ Parsed /\ Parsing /\ Resolving /\ Refusing /\ TypesKeptApart

`Resolving` says of each unit, at any moment, which of its uses were granted
(`Granted`), that these ask for what there is and contradict neither each other
nor the unit (`Sound`), and that it sees what it declares itself and what they
ask for, no less and no more, and has the latter as its imports (`Sees`). This is inductive because exports are fixed
by the parser and only the unit at work writes to its scope, so a unit that is
resolved or waits is not disturbed by others, whichever they are: the order of
the `unordered_map` is nowhere in it. The refusals are then those of single
units (`Refusing`): a conflict that `resolveUses` meets lies between two
uses of one unit or between a use and a declaration, which makes the unit
inconsistent by itself, and if there is none every use is granted at last.
`TypesKeptApart` rests on `Parsed`, two uses of a unit having two aliases: types
that have one key in `importType` have one name in the scope, where
`resolveUses` finds the conflict before (`KeysMeetInScope`). `DeclaredApart` is a
consequence of `Sound` and `Sees` once every use is granted: the imports of unnamed
uses are in the scope, where no two of them have one name.

**The parser.** For all lexicons: texts of any length over any tokens
(`LexiconsAssumption`: a lexicon has a length and starts with an expression or a
block). The invariant is

    IInv == PInv /\ Naming /\ allow \in BOOLEAN
    PInv == Reads /\ Grown /\ Within /\ Stacked

`Reads` is about the tokens, with `EndKept`; `Grown` says of each node what
`InTextOrder` does and that it ends before the current token; `Within` and
`Stacked` are about the call stack. A function of the parser sees its own frame
and the node it gets back, so the invariant says what each frame may rely on:
`Ready` of the function that runs (its nodes are in order and end before the
current token; the two operands of `parse_binary` lie on either side of the
operator and reach up to it; a postfix expression ends right before the current
token), and `Waits` of a function and the one it called (the callee starts after
what the caller holds, and exactly where the caller needs it to: after the
operator, or at the token where the caller itself started). A call turns `Ready`
into `Waits`, a return turns it back, with the new node put where the callee
stood (`StackGrows`). The difficult part is going back: a frame that reads ahead
(`Deciding`) is only below functions that make no nodes, and no node ends after
the token it goes back to, so that `restore_pos` leaves no node that covers a
token yet to be read (`Ahead`, `Nodeless`). `Naming` says that `parse_ident`
remembers the position of a name; without it `next()` in `parse_ref` could be
asked to go on at the end of the file. Each action has a lemma (`...Keeps`)
that says which of the few things that become of a stack (a call, a return, a new
frame in place of the old) it does.

*What is held.* Two more invariants compare counts. `Balanced`: there are as many
scopes as frames of open blocks, plus the first; the flag `m_AllowUnresolved` is set
only if a frame of a specifier is there. `OneHolder`: how often a node is among the
kids of the frames (`Count(stack, m)`) and of the nodes (`Count(nodes, m)`) is
once in all, except for lists of type arguments, which an access drops. As frames
move when the stack does, neither says where a scope or a node is held; the lemmas
on `Depth` and `Count` say what another frame on top, or another node, adds, and
each step is then a sum: a return adds to the caller what the callee gave up, a node
that is made takes its kids from the frame that made it (`HoldsMade`). A node that is
new is held by nobody before (`Unheld`, from `TypeOK`), and a function that goes back
to its first token or returns nothing holds nothing (`HoldsNothing`, from `Childless`
in `Ready`): both are consequences of `PInv`, without which the sums would not be
right.

*What binds tighter.* `OperandToTighter` is about two operators that need not have
been read by the same call of `parse_binary`: the right operand of one may be the
left operand of what another call makes, several frames above or below. The invariant
`Ranks` adds to it what makes it inductive. `Operands`, of each frame: a call that has
eaten an operator (`Acting`) did so because the operator binds tightly enough for it,
none of the operators that have a node yet is that operator or the token that the call
began after, and what is right of the operator begins with operators that bind
tighter. `WasCalled`, of a frame and the one it called: a call that extends the right
operand of another (`Prolongs`) is given the next precedence and will extend it in
fact, because the operator that follows binds tighter; so it returns a binary node
(`Yields`), and the caller need not look at the operator that follows that one, which
the code does not do either. The rest is about places. A frame is strictly after the
operators of those below it (`Under`), and a call of `parse_binary` that starts
right where the right operand of another one does is either the one that extends it
or none (`Apart`), since every function in between has eaten a token (`Late`, and the
scripts of the functions, in `EarlyScript`) or is no call at all. A step replaces the
frame on top (`Replaces`), pushes one or drops one; `RanksReplace`, `RanksPush` and
`RanksDrop` say what that leaves of `Ranks`, and only `BinaryJoin` (`RanksJoin`) makes
an operator's node, for which the frames below have to be asked.

**Types.** For all families of statements (`FamiliesAssumption`: leaves and roots
are of the kinds and types there are) and statements of any size. The invariant is

    IInv  == Shape /\ Progress /\ Typed /\ Outcome
    Typed == \A k : Kept(k) /\ (Early \/ Known(k)) /\ (Even(k) => Steady(k)) /\ Wrapped(k) /\ Given(k)

`Shape` says that the nodes are a forest in the order of the text: the subtree of a
node is an interval, and two of them are apart or nested, so that a visit that has
come to a node has been at all of its operands and at nothing around it. `Typed`
says what the type of a node is by then, in terms of the pass and of the node it has
come to: a type that the parser knew stays until the analysis (`Kept`); after name
resolution, or after the analysis for operators, there is one (`Known`, unless an
operation is read too early); it is that of its operand (`Steady`, unless a comparison
or `!` in a parenthesis or a cast is in the subtree); the cast that was put in is the
one that `Check` asked for (`Wrapped`); and a template's parameter comes from where it
was written (`Given`). None of it is inductive alone: that a parenthesis has the type
of its expression when that is a sum whose type was known from the start needs
`Kept` of the left operands below it.
`Outcome` is the five properties, with `Valued`: each value has a type of the MIR. A
lemma for each function of `Scalars` (`...Is`, `...Fits`) says when it has a result,
of which type, and whether the builder would assert; `Fits` lemmas join them with
what `Typed` says of the operands, which is where the lists of legal casts of the
analysis (`CanImplCastTo`, `CanCastTo`) and of the generator meet. Two exceptions of the properties
were found as the invariant was: casts within a cast are not analysed
(`Gap`), and `~` of a float in a parenthesis is built (`Complements`).

*Operands.* `OperandsDefined` is about a run, and holds because of the order in
which code was generated, so `RunProofs` has two invariants. `DInv` is one of
`Codegen`: while a handler waits for the value of an expression no statement is
lowered (`Waits`, and `CasesSorted` for the patterns of a match), so the
instruction that computed `mValue` is in the insertion block when the handler
goes on (`ValueReady`), in which a right operand left no terminator (`OpenRhs`);
and a block gets no code before it is in the function (`Bare`). Then every
`brif` that was emitted reads what its own block computes before it, and every
entry of a phi what the block it names computes before its terminator
(`Sourced`). `RegInv` is one of the machine: what it has passed in its block, and
in the block it came from, it has computed. Neither needs `LhsPlain`: where an `&&`
stands left of another a phi may lack an entry, but no entry is read too early.
Code is only ever added at the ends of blocks (`Prefixed`), so a handler of a
statement is reduced to `Quiet`: it adds nothing, or one instruction that computes
nothing.

**Values and places.** For all grammars (`GrammarsAssumption`: a bound on the nodes is a
number), careful or not. The invariant is

    IInv == TreeOK /\ StackOK /\ Registers

`TreeOK`: every node that is no hole was made by a rule and its operands are linked to
it, with the type, the obligations and the place that the rule gives them. `StackOK`:
each visit is of a node of the tree and waits for the one above it (`Waits`), which is
of the operand it has come to, with the place and the context that it was given.
`Registers`: `m_Value` is empty or of a node; if a part (a variable, an element, a
member, what a pointer points to) was lowered last, it is that part itself, so that
the left side of an assignment is the very place that its initializer is given; and a
place in `m_Place` has an owner on the stack (`Owns`), a handler that has set it for
the operand it has come to and clears it when that ends. None of them is inductive
alone: that `AssignEnd` clears what `AssignOperands` set needs the value of the left side,
which needs the frame that waits for it, which needs the tree. The lemmas `PushStep`, `StayStep`, `PopStep` and
`FinishStep` say what becomes of a stack when an operand is visited, a frame changes, a
visit ends or the statement does; each action has a lemma that says which it is.

`NoSelfEdge`, the assertion of `add_succ`, is proved and not part of a run.

**Only model-checked.** `RunsAsWritten` of `CodegenRun`;
`LookaheadAgrees` of `Parser`;
`ComputesAsWritten` of `Typing`; everything of `Context`, and the refinement of
`Delivery` by `Places`. Liveness (`NoSilentLoop`, `Ends`) and `NoFault`, which is `ENABLED`,
are out of the prover's reach and stay with TLC, and so are the recursive
operators of `Context`, which take texts and types apart. `ComputesAsWritten` compares with what a recursive function computes,
modulo powers of two, for which the prover would need induction.

## Not modelled, and why

- *Lookups of names* (`NameResolution` through scopes, units and structures;
  `Sema` on calls, fields and mutability). The scopes that the lookups go through are
  in `Parser` and `UnitManager`. What is looked up in the arguments of a specified
  call is a hazard without a property.
- *Arrays and structures in `Typing`*: casts into the elements of an array
  expression, fields. The types of pointers to pointers. `&`, `*`, members,
  subscripts and calls are in `Places` with representative types.
- *Templates* of several parameters or fields, function templates, structures of one
  name in two units, function types.
- *Layout* of arrays and structures, the pools of constants: functions without
  state, recursive in the type.
- *Items in the parser*: the grammar inside of functions, structures, enums and
  uses; `UnitManager` has what they register, `Context` what types they write.
- *Linking*: only the names that are declared in a segment are in `UnitManager`
  (`SegmentName`); two files with one ID, and methods, are not told apart in it.
- `prepend` and `detach` of blocks are called by nothing. Printing is formatting. The
  lexer has no state beyond its position. The samples and the standard library
  (`samples/`, `std/`) are inputs of the compiler.

## Plan

Proof to come: the step of the refinement of `Delivery` by `Places`, which is
model-checked.

Models to come: lookups through scopes (a reference means the innermost visible
declaration; what is found was exported; a slot belongs to one variable),
and templates of several parameters.
