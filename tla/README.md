# Fasel, in TLA+

Fasel is a small compiler and JIT for an imperative language (`*.fsl`).  It is
a sequential pipeline, driven by `main.cpp`:

    source --lexer, parser--> AST --desugar--> AST --NodeConverter--> nodes
      --DeclarationRegistrar, TypeChecker--> typed nodes
      --IrCompiler--> LLVM IR --Jit--> main()

Nothing runs concurrently and nothing is persisted.  What is hard here is
order: declarations may be used before they stand in the text, so that both the
type checker and the IR compiler interrupt what they are doing to deal with
another declaration, with members that must be saved and restored; errors are
collected in a list that tests truncate; and control flow is generated by
recursive functions that share an insert point, loop targets and a list of loop
prologues.  And both sides of the pipeline decide about types by themselves:
the checker infers and casts, the IR compiler trusts what it finds.  Before
that, the parser tries and takes back, on a language without separators, and a
visitor shared by all passes keeps the surrounding block and procedure in
members that every call sets and restores.  The specifications follow the
pipeline from the characters of a file to the running code.

## Inventory

| Component | State | Operations | What makes it correct |
|---|---|---|---|
| Lexer (`lex.*`) | cursor | `next_token`, `peek_token` | the longest token there is, nested comments skipped whole; nothing left out before the end of the file |
| Parser (`parse.*`) | a lexer per attempt, `error_context` | recursive descent with backtracking (`advance`), precedence climbing | the tree the text was written from; every token read is in it; comments change nothing |
| Desugaring (`desugar.cpp`) | memory pool | `desugar` | a `for` behaves as the `while` it stands for; the original AST is not modified |
| Node converter (`typecheck.cpp:73-355`) | `current_block` | `make_node` | the nodes are the tree, `parent_block` chains mirror the text, no node has two places |
| Declaration registrar (`374-431`) | `declarations` of each block, errors | visits of declarations, labels, procedures | every name once per scope, the first one stays; names found lexically; the context that of the node visited |
| Type checker (`442-1221`) | `inferred_type_` of every node, `current_block`, `current_procedure`, `errors` | `typecheck_internal`, one case per node kind | every node typed once; errors independent of order; accepted modules are typed |
| IR compiler (`compile_ir.cpp`) | insert point, `current_prologue`, break and continue targets, `named_value`s | one `generate_code` per node kind | valid IR with the behaviour of the text; each procedure emitted once |
| Memory pool (`memory_pool.cpp`) | `cursor` | `allocate`, `reset` | no allocation beyond the limit, none refused before it |
| JIT, driver | LLVM's | `add_module`, `get_symbol_address`, `main` | errors stop the pipeline before code is generated |
| Test harness, attic, playground | | | scaffolding, a scratch program, and code no target builds |

The components talk by calls and by the node graph: the checker reads what the
registrar wrote into the nodes, and the IR compiler reads the types the checker
wrote, asserting all along that they are there and not poison.  `PROJECT.json`
lists the hazards of each at its line, with the properties that cover them or a
note that says why none does yet.

## Modules

### Lexer, Syntax, Parser

`Lexer` is `lex.cpp` on strings: `NextToken(s, at)` gives type, text and extent
of the token at a position.  Its quirks are kept: a character that starts no
token is reported as the end of the file, a string whose last character is an
escaped backslash does not end there, a number may begin with a point.  Types of
keywords, operators and brackets are their text.

`Syntax` has a constructor for each struct of `parse.h`.  `Parser` has a
function for each one of `parse.cpp`; a parser that has not advanced, which is
how the code says that nothing was parsed, is `Nothing`, and `a | b` is the
second attempt after a failed first one.  A call across the grammar goes
through the argument `P`, so that the recursion of the whole parser is one
recursive function, `Parse[rule, i]`.  What a member function does:

| Definition | Code, `parse.cpp` |
|---|---|
| `PeekToken`, `NextTokenAt`, `Expect` | 52-63, 65-111: peeking sees comments, reading skips them |
| `ParseStatement`, `ParseIf` ... `ParseReturn` | 134-346 |
| `ParseBlock`, `ParseStatements`, `ParseCompilerErrorBlock` | 348-439 |
| `ParseProcSignature`, `ParseParameters`, `ParseProc` | 441-535 |
| `ParsePrimaryExpr`, `ParseExpressionSuffix`, `ParseOperators`, `Parse` | 537-848, precedence climbing |
| `ParseType`, `ParseDecl` | 850-946 |
| actions `ParseDeclaration`, `Reject` | 948-989, the loop of `parse_module` |

Messages are left out, armed, quiet or printed.  The conversion of digits and
escapes is the constant `BadLiterals`, the literals that fail to convert.

### Nodes, NodeConverter, Registrar, Frontend

`Nodes` is the memory all nodes are in: a sequence that only grows, the static
`BuiltinTypes` first, so that a `Node *` is an index and identity is kept.  The
pool's limit is `Capacity`, in nodes.  `NodeConverter!MakeNode` is `make_node`
with the factories of `context.cpp`: it returns the heap, the address, and
"made" or how the program has ended.

`Registrar` is `DeclarationRegistrar` walking by `::visit` (`node.h:380-691`).
One frame of `stack` is one call of `::visit`: the node, what is left to visit
below it, and the two values its `SET_TEMPORARILY` will put back.

| Action | Code |
|---|---|
| `VisitDeclaration` | `typecheck.cpp:374-398`: `containing_block`, the rule on local procedures, `emplace`; then its type and initialiser |
| `VisitLabel` | 401-413: a declaration made on the spot, in the map of the procedure's body |
| `VisitProcedure` | `node.h:596-619`: the assertion, the arguments (416-431), then signature and body under `current_procedure` |
| `VisitBlock` | `node.h:426-444`, sets `current_block` |
| `VisitOther`, `VisitNull` | every other node; a member that is a null pointer |
| `Leave` | the end of a call, `~TempSwap` (`basics.h:48`) |

`Frontend` composes the two as `main.cpp:58-74` does: `Convert`, and, if the
program has not ended, `Register`, a step of `Registrar`.  The end is "done",
"fatal" (the pool is full), "aborted" (an assert of the converter), "asserted"
(that of `::visit`), "undefined" (an array type, whose `AstKind` is that of a
type identifier, `parse.h:131`) or "crashed".

### RegistrarProofs

Theorems about `Registrar`, for any well-formed nodes (see below).

### DeclarationChecking

The order in which `TypeChecker::typecheck_internal` visits a module.  The C++
call stack is the variable `stack`: one frame for each declaration or block
being checked, holding what the C++ frame holds (the position in the statement
loop, the saved `current_block`, `num_errors_before`, the poison seen so far).
The other variables are the members and node fields the walk reads and writes:
`current_block`, `errors`, `entered` (declarations whose own `inferred_type_`
is set) and `inferred` (that of their initialisers).  `status` becomes "assert"
when the assert of line 578 fails, as it does in the debug builds `build.sh`
makes.

| Action | Code |
|---|---|
| `VisitDeclaration` | a declaration statement: skipped if checked already (570-576), else checked |
| `VisitIdentifier` | 793-823: look up in `current_block`; unknown name; check the declaration on the spot in its `containing_block`; or take its type |
| `Fail` | any broken typing rule: `TypeChecker::error` (1212-1221) |
| `VisitBlock`, `LeaveBlock` | 707-737, with the truncation of `__error("typecheck")` blocks |
| `LeaveDeclaration` | 739-791, the initialiser's type becomes visible |

Data is abstracted to what the walk can tell apart.  The contents of a block or
an initialiser are a sequence of items - a name used, a nested declaration, a
nested block, a broken rule - in the order the code visits them.  A broken rule
either poisons its expression or leaves it the type it has anyway (comparisons
and `&&` stay boolean after an error, 650-680).  Three simplifications are
part of this: what the code does not visit after an error is left out of the
items, so an `if` or `while` whose condition is not boolean is one broken rule
and its body is not there; the poison of a name used as a condition or a callee
does not skip anything; and a procedure always has the type of its signature.

`Lexical`, `Needs`, `Inside` and `Report` are the reference: they say by
recursion over the text, with no order and no stack, where an identifier is
looked up, which units depend on which, and what should be reported.  The
programs are assumed to be what the passes before leave: `Registered` (a
declaration's home is the block it is a statement of) and `Nested` (the text is
a tree, copied node by node by `NodeConverter`: each block and declaration
stands at one place, and `parent_block` is the block around).

### DeclarationCheckingProofs, DeclarationErrorsProofs

The theorems about it, for every value of the constants (see below): on the
stack, the scopes and the assert; and on the errors that are left.

### TypeRules

The types of one procedure body on both sides of the pipeline.  A body is its
nodes in the order `typecheck_internal` finishes them, operands before their
operator; `at` is the node the checker, and then the generator, has come to.
The checker's results are `inferred` (`inferred_type_` of each node), `cast`
(the type of the cast node that replaced the node in its parent) and `errors`;
`TypeOf` is the type as the parent reads it, cast included.  The generator's are
`slot` (the type of each declaration's alloca), `value` (the LLVM type of each
node's value) and `faults`, the instructions LLVM's verifier would refuse.
`phase` ends as "rejected", "crashed" (the checker reads a null type),
"compiled" or "aborted" (a failed `ENSURE`, assert or `TODO` of the generator).

| Action | Code, `typecheck.cpp` |
|---|---|
| `CheckLeaf`, `CheckUnknown`, `CheckIdentifier` | 875-923, 793-823 |
| `CheckCallee`, `CheckCall` | 971-1040; an error in the callee or the number of arguments skips the arguments |
| `SpreadPoison` | 62-71, 589-597 |
| `CheckArithmetic`, `CheckComparison`, `CoercionCrashes` | 605-611, 650-658, with `coerce_types` (490-558) |
| `CheckBitwise`, `CheckLogical`, `CheckAssignment` | 613-699 |
| `CheckDeclaration`, `CheckReturn` | 739-791, 1059-1086; cast to the specified or the return type |
| `CheckCondition` | 825-873; without a boolean the block is skipped |
| `EndChecking` | 940-969, the driver's test for errors, and what a body begins with: its signature and its allocas |

| Action | Code, `compile_ir.cpp` |
|---|---|
| `GenerateLeaf`, `GenerateIdentifier`, `GenerateCall` | 593-629, 469-486, 668-691 |
| `GenerateOperator`, `GenerateLogical`, `GenerateAssignment` | 172-375, with the asserts and the instruction tables |
| `GenerateDeclaration`, `GenerateReturn`, `GenerateCondition` | 459-466, 693-704, 488-501 |
| `Emit`, `Abort` | 735-847: the cast around a value, or a `TODO` |

Names are resolved beforehand (that is `DeclarationChecking`'s subject), and so
is what is above a body: a callee comes with the type its declaration has.
`Typed` is the reference: what the language asks of each node, given the types
of all, with no order, no casts made on the way and no errors.  `Supported`
lists what the checker accepts and the generator cannot do yet, five gaps:

1. casts other than between signed integers and to floats
   (`CastsAreSupported`; the `TODO`s at 766 and 780);
2. declarations without initialiser or whose initialiser has no value, and
   those with neither type nor initialiser, `x:`, arguments (`proc(x:)`)
   included, at whose type `convert_type` aborts (`DeclarationsAreSupported`);
3. assignment to something that is neither a variable nor a pointer, a value
   the store takes for an address (`AssignmentsAreSupported`);
4. arguments of type void for a vararg procedure (`CallsAreSupported`);
5. a value returned from a void procedure (`ReturnsAreSupported`).

### TypeRulesProofs, TypeRulesCheckerProofs

Its theorems, for every set of bodies (see below): that accepted bodies are
typed; the other properties of the checker, and those of the generator.

### Lowering

From a procedure body to basic blocks and what they do.  `desugar` turns `for`
into a block with a declaration and a `while` with a prologue; the code does it
to the whole tree beforehand, the model when the generator comes to the loop,
which no one can tell.  `WithReturn` adds the implicit return.

`gen` is the generator: the blocks emitted so far, the insert point, the members
`current_prologue`, `current_break_target` and `current_continue_target`, and
`todo`, the C++ call stack: the nodes `generate_code` is about to be called
with, and a frame for each call that goes on when the one it made returns.

| Operator | Code, `compile_ir.cpp` |
|---|---|
| `GenerateBlock`, `GenerateStatements`, `GeneratePrologue` | 377-414: the statements up to the first jump, and the prologues of all loops around before it or at the end |
| `GenerateIf`, `IfDecided`, `ThenDone`, `ElseDone` | 488-528 |
| `GenerateWhile`, `WhileDecided`, `BodyDone` | 530-573: the frame keeps what `SET_TEMPORARILY` and the `defer` restore |
| `GenerateCondition`, `ShortCircuit`, `LhsDone`, `RhsDone` | 172-269, both operators |
| `GenerateJump` | 575-591; an assert that fails sets `aborted` |
| action `Compile` | one of these, for the top of `todo` |
| action `Enter` | the end of compiling: the procedure is called, unless LLVM would refuse a block (`Malformed`) |

What follows is the running code: one action per kind of IR instruction (LLVM's
meaning of it, modelled from how the compiler uses it), in step with `source`,
the structured program as its text reads.  Whenever the code is about to have an
effect - call something, ask for a condition, return - the text must be about to
have the same one with the same value; if not, `status` becomes "diverged".  A loop
of the text unfolds into its condition, its body and a mark, where `continue`
goes on and the step is run, which `break` skips.  So
the text is the abstract specification and the IR the implementation; lockstep
with a status was chosen over a refinement mapping because a step of the text
would otherwise need a recursive operator in a fairness condition, which TLC
evaluates very slowly.

`Statement` and `Condition` are what programs may consist of, closed under
taking parts and under desugaring (`StatementAssumption`,
`ConditionAssumption`); `Depth` says that a program is finite, some depth at
which nothing nests any more (`ProgramsAssumption`).  Procedure bodies as the
passes before leave them have all three, whatever they do; nothing is asked of
where jumps stand.  `ProgramsAssumption` asks two more things of a body, which
the proof that code does what its text says needs.  It is `Resolved`: whoever
uses the counter of a `for` loop stands in its body (a variable of the model is
one declaration, and the registrar puts that of the counter into the block the
loop is desugared to, so no name outside is resolved to it).  And it is
`Parsed`: no `while` loop of the text has a prologue (only `desugar` makes one,
`desugar.cpp:92-95`).  `Reads` says which variables a condition compares, its
operands included (`ReadsAssumption`).

Expressions are abstracted to calls that show a variable, variables that are
declared, stepped and compared, and conditions the environment answers.
Integers are `2 * Half` values that wrap, as LLVM's do.  Labels and goto are a
TODO that aborts in the code and are left out.

### LoweringProofs, LoweringBehaviourProofs

Its theorems, for every set of programs (see below): that the code is valid, and
that it does what the text says.

### CompiledModules, EmitOnce, OnDemand

How `IrCompiler` generates the procedures of a module.  `CompiledModules` says
what a module is here: the order of the declarations, what each is (procedure,
external procedure, variable), and for each body its *text*, the calls, loop
heads and loop ends it generates, where each step names the calls that begin
before it (`f(g())` begins f, then g, then emits g, then f).

`EmitOnce` is what is promised: every procedure is declared once, its text is
emitted into it once and in order, with the prologues of its own loops, a call
only to a function that exists; at the end nothing is missing.  It leaves open
in which order procedures are begun and how their texts interleave.

`OnDemand` is the code.  The stack has one frame per `IrCompiler`: the one
`compile_to_ir` makes, and one for each call that found no `named_value`.

| Action | Code |
|---|---|
| `VisitStatement` | the statement loop over the module block (384-414) and `generate_code` of a declaration (416-467): skipped if compiled already, created, and entered unless external; a variable fails the `ENSURE` of line 460 |
| `BeginCall` | `generate_code` of a call up to its arguments (654-677): if the callee has no `named_value`, a new `IrCompiler` generates it now |
| `Emit` | anything the body generates, at the insert point and with the prologues of the compiler |
| `EndProcedure` | the end of a body: back to the module block, whose compiler keeps the insert point where it is (the TODO at 452), or to the call |
| `EndModule` | `compile_to_ir` returns |

The mapping is the identity on what both have: the functions named are those
declared, the bodies are the code.

### OnDemandProofs

Its theorems, for every set of modules (see below).

### MC modules

`MCParser`, `MCFrontend`, `MCDeclarationChecking`, `MCTypeRules`, `MCLowering`
and `MCOnDemand` extend the specifications and define the programs their runs
range over.  `MCParser` also has the reference for the grammar, a printer that
puts the fewest parentheses and may leave out the braces of one-statement
blocks, and `Clean`, which says of a tree where two neighbours would *glue*:
`return` and whatever expression comes next, a name and a parenthesis on the
next line, an `if` without `else` before the `else` of another.  `MCFrontend`
has what the nodes and names should be, read off the tree alone.  `MCLowering`
takes `Statement`, `Condition` and `Reads` from the programs, and has the
properties that need recursion over the text: `CountedLoopsEnd`, `ForLoopsEnd`.

## Runs

| Run | Configuration | Shows |
|---|---|---|
| `parser` | `Parser.cfg` | what is printed from a tree is read back as that tree, exactly when no two neighbours glue; a comment changes nothing except before an operator or at the end of the file, where the parser peeks and the module is rejected; every token of an accepted file is in the tree; tokens are the longest ones; comments nest |
| `frontend` | `Frontend.cfg` | the nodes are the tree, with lexical `parent_block`s and no node in two places; of those with the same name in a scope the first is registered and each other reported; identifiers are found lexically; the context is the innermost; the program ends early for the five reasons named and only then, having made exactly the nodes foretold |
| `local_procedures` | `LocalProcedures.cfg` | (violation) a local procedure, just reported as an error, fails the assert of `node.h:598` before the error is printed |
| `declaration_checking` | `DeclarationChecking.cfg` | scopes are lexical, marks only shrink the error list, nothing is entered twice, the assert means a cycle of variables, every error is reported exactly once, accepted modules are typed, checking ends |
| `expected_errors` | `ExpectedErrors.cfg` | (violation) an `__error` block takes away errors of a procedure outside it |
| `type_rules` | `TypeRules.cfg` | accepted bodies are typed at every node; operands meet at the least type both widen to; poison is never there without an error, spreads to operators and calls, and no operator, declaration, return or call reports it again, be it that of an operand, the callee or an argument; generated values have the types the checker gave them; the generator makes valid IR of exactly the accepted bodies without one of the five gaps; the checker reads a null type only for a boolean left of a wider integer |
| `boolean_operands` | `BooleanOperands.cfg` | (violation) such a boolean is not rejected |
| `lowering` | `Lowering.cfg` | the compiled procedure behaves as its text; no assert of the generator fails and basic blocks are valid, unless a jump stands alone in a block or outside of all loops; compiling ends, and so do counted loops |
| `for_diverges` | `ForDiverges.cfg` | (violation) a block nested in a `for` steps the counter once more |
| `empty_for` | `EmptyFor.cfg` | (violation) a `for` with an empty body is endless |
| `loop_after_return` | `LoopAfterReturn.cfg` | (violation) a loop behind `{ return }` fails the assert of `compile_ir.cpp:552` |
| `on_demand` | `OnDemand.cfg` | procedures are compiled once each, into their own functions and with their own prologues; compilers do not pile up; `OnDemand` implements `EmitOnce`; compiling ends |

Bounds.  `MCParser` has 18116 sources.  Trees: every pair of operators in either
nesting, so that every two rungs of the precedence ladder meet; every pair of 22
simple statements, which begin and end in every way a statement can, and each
compound statement around and before them, with braces and without; a
comment of either kind between any two tokens of four samples that have every
construct; the same samples with any token replaced by one of 18 others; all
strings of up to 6 (or fewer) characters over four small alphabets, one each for
numbers, comments, strings and operators.  Glueing is between neighbours, so two
statements are enough.  `MCFrontend` has 1013 modules of up to two declarations:
procedures with each of four signatures and each pair of 14 statements, two
procedures, procedures at every place of a module, and one of each of what ends
the program early.  With two names for arguments, variables and labels every
clash occurs within and across nested blocks, and with `Capacity = 24` the pool
runs full in the converter as well as in the registrar (32 times while it makes
the declaration of a label).  Modules under check have two procedures, a global variable, a local
and a local that shadows it in a nested block which may be an `__error` block,
in three orders at module scope, with bodies that name each other, themselves,
undeclared names, and break rules: every pair of "who is reached first, from
where" occurs, with chains of out-of-order checks up to four deep.  Two
procedures suffice for mutual recursion and one shadowed name for a wrong
scope to show.  The bodies in `MCTypeRules` are 15029: one operator of every category over two
of nine leaves (integers of the smallest and the largest size, both floats, a
boolean, a string, an unknown name) in nine contexts (a statement, returned,
the value of a variable with and without a specified type, a condition whose
block is wrong, right, or holds the only return); two operators nested either
way, over numbers and over a mixture that has errors on every level; variables
declared, used, and assigned to; calls with callees, argument counts and
argument types right and wrong, one of them an argument of another, with
arguments that are poisoned; names without a type that are assigned to, passed
and returned; assignments to pointers that are in no variable.  Sizes
between the smallest and the largest add no case to the rules, which compare
sizes only, and with two operators a parent sees the poison and the casts of
its parts; deeper bodies repeat these pairs, and the theorems hold for all.
The bodies in `MCLowering` have a loop of each kind with one
nested statement (if, while, for, block, `__error` block) before, between or
after plain statements, where each plain statement may be any of the jumps, and
conditions of nested `&&` and `||`: the generator's members are saved and
restored at most two deep in the code that uses them, which this exercises.
Some have the nested statement outside of all loops, so that its jumps fail the
asserts of `compile_ir.cpp:577` and `586`.  `Depth = 8` is more than any of them
nests, which TLC checks.
`Half = 8` is larger than any counted range, and lets a counter that misses its
bound wrap.
The modules in `MCOnDemand` have three procedures that call each other and
themselves and a fourth declaration that is external or a variable, callers
first or callees first: calls are reached before and after the statement of
their callee, in arguments and in loops, with up to three compilers at a time
and every cycle of calls among them.

`CHECK_DEADLOCK FALSE` throughout: the parser, the registrar, the checker, the
compiled procedure and the compiler stop.

Where a property has a proviso, it is the finding that a violation run shows:
`ErrorsExact` and `AcceptedIsSound` ask that an `__error` block names nothing
declared outside it (`SelfContained`), `SameBehaviour` that blocks nested in a
`for` add no step of their own (`StepsOncePerIteration`), `GeneratesValidCode`
that no bare block ends in a jump and no `break` or `continue` stands outside of
all loops, `CountedLoopsEnd` that no counted loop is empty.

`StepsOncePerIteration` lists every way in which a `for` loop does not step its
counter once per iteration, at its end: a body without statements; a block in
the body that has statements and does not end in a jump; another `for` loop in
the body, which is desugared to such a block, even if its own body always
returns (in `for i 0:<2 { for j 2:<2 { return } c(i) }` the block around the
inner loop steps `i` before `c(i)`); a `return` of the counter, which is stepped
first; a `break` or `continue` of an inner `while`, which steps the outer
counter.

Fairness.  `DeclarationChecking`, `Lowering` and `OnDemand` have weak fairness
of the next-state relation and nothing else: there is one thread, it runs until
it returns or aborts, and the environment answers the questions of the compiled
procedure.  `TypeRules`, `Parser` and `Frontend` have none: their properties are
safety properties (each step of `Frontend` visits one more node of a finite
tree), and that checking ends is shown in `DeclarationChecking`.

## Proofs

`RegistrarProofs` proves, for every capacity and for any well-formed nodes, of
which those of the converter are some (`TypeOK` of the run `frontend` includes
`WellFormed`, so TLC checks that what the converter hands over satisfies it):

* `TypeCorrect` (`TypeOK`), `InnermostContext` (`ContextIsInnermost`) and
  `NestedProceduresAssert` (`AssertMeansNested`): the assertion of `::visit`
  fails at a procedure inside of another and nowhere else.

`ContextIsInnermost` is not inductive: `Leave` takes the context from the frame.
The invariant `IInv` adds that each frame holds what was innermost when it was
pushed (`Frames`).  A step that calls `::visit` keeps it by `EnterKeeps`, whatever
the node, given that it sets the context its node demands (`Context`), and nodes
keep their kind and links for good (`NodesStay`), which is what lets frames made
earlier stay right.

`DeclarationCheckingProofs` proves, for every set of programs, from the two
named assumptions (declarations and blocks are different things; programs are
registered and nested):

* `TypeCorrect` (`TypeOK`), `LexicalScope` (`ScopeIsLexical`),
  `NoDeclarationIsReentered` (`NoReentry`), `ResizeOnlyShrinks`
  (`MarksAscend`) and `AssertOnlyOnCycles` (`AssertMeansCycle`);
* all five follow from `Strengthening`, the inductive invariant `IInv`.

None of the five is inductive alone.  That a declaration is not entered twice
needs that it is on the stack only if it was entered (`OnStackIsEntered`); that
the assert means a cycle needs that a declaration which was entered and whose
initialiser still has no type is on the stack (`InProgressIsOnStack`), and that
neighbours on the stack need each other (`StackIsChain`), which in turn needs
`ScopeIsLexical`, because `Needs` speaks of the lexical block and the code looks
names up in `current_block`.  The proof has one lemma per action, over lemmas
about the three things an action does to the stack (advance, call, return).
`IInv` was first checked by TLC on the bounded programs.

`DeclarationErrorsProofs` proves, from the same assumptions:

* `ReportedExactly` (`ErrorsExact`): whatever the text and the order identifiers
  lead the checker through it, every broken rule is reported once, and an
  `__error` block takes away its own errors and no others;
* `AcceptedHasTypes` (`AcceptedIsSound`): an accepted module has types where the
  IR compiler asserts them;
* both follow from `ErrorsAreTracked`, the inductive invariant `WInv`.

The first half is about the text.  `Inside` and `Report` are recursive, and a
recursive function of TLA+ satisfies its equation only if some function does.
Blocks nest no deeper than the deepest (`Nested`), so parts have a smaller
`Rank` than the whole; that gives induction over the text (`TextInduction`) and
the two equations (`InsideUnfolds`, `ReportUnfolds`).  `ReportBySite` then says
without recursion what is reported of a unit: each site where something is
wrong (`Genuine`) inside it that no `__error` block between the two takes away.
`NeededFacts` relates the text to the names in it: what a unit needs is a part
of something around that unit, and, where `__error` blocks are self-contained,
is inside of every `__error` block the unit is in.

The second half follows the walk.  Neither property is inductive: both speak of
the end only, and during an out-of-order check the list has errors of parts the
text has much later.  What the list is at each moment depends on what has been
finished, which no variable records; so `WInv` says that there is a set `W` of
finished units, and

* `Walked`: `W` is a union of whole subtrees, what has been reached is reached
  together with all that is around it, each frame's unit is new and stands below
  everything around it, the blocks a frame has passed are finished and the
  declarations it has passed are at least begun, and what is entered is reached;
* `PoisonHasCause`: poison on a declaration or a frame comes from a broken rule
  that has been passed and is in no other `__error` blocks;
* `Exact`, for self-contained `__error` blocks: above such a block on the stack
  there are only units inside of it; the mark of its frame splits the list into
  the errors outside and inside of it; and the list is, each error once, what is
  wrong up to where the checker has come, less what is in a finished `__error`
  block.

The mark's split is what makes the `resize` of `typecheck.cpp:732` right, and it
holds at a call because a unit that is entered has nothing of it on the list yet
(`RootedHasAll`).  When an `__error` block ends, the errors behind its mark are
all that is wrong in it (`RaisedInside`), so the list is as long as it was just
if there is nothing wrong.  There is one lemma for each way of moving
(`AdvanceTracks`, `CallTracks`, `ReturnTracks`, and `StutterTracks` for the
failing assert), over lemmas that do the same for `Walked`.  At the end `W` is
the whole module.  TLC checked `WInv`, looking for `W` among all sets of units,
before it was proved.

`OnDemandProofs` proves, for every set of modules, from the two named
assumptions of `CompiledModules` (the null pointer is no declaration; in each
module loops nest, calls begin before they are emitted and every declaration is
a statement of the module block):

* `Refinement`: `OnDemand` implements `EmitOnce` (`Implements`);
* `CreatedOnce` (`FunctionsAreUnique`), `InsertPointStays`
  (`InsertPointIsOwn`), `CompilersAreFew` (`OneCompilerEach`) and `TypeCorrect`
  (`TypeOK`).

The inductive invariant says of each compiler on the stack what it has done
(`Fits`: its procedure is named, the body is as long as the text read, all calls
begun so far are named), of neighbours that the lower waits for the upper
(`CallersWait`), and of all other procedures that their body is empty or
complete (`BodiesComplete`).  A call is only emitted to a named function because
it was begun at some earlier step and `Fits` remembers that; nothing is missing
at the end because every declaration is a statement (`StatementsNamed`) and, at
the module block, the stack is empty.  The step simulation has one lemma per
action: creating a function is `Declare`, `Emit` is `EmitNext`, the failed
`ENSURE` is `Abort`, `EndModule` is `Finish`, the rest are stutters.

`TypeRulesProofs` proves, for every set of well-formed bodies:

* `CoercionCommutes`: for numbers `coerce_types` gives the same type, or the
  same error, whichever operand is on the left;
* `CoercedIsLeast`: numbers of agreeing signedness meet at their least upper
  bound in the widening order;
* `AcceptedBodiesAreTyped` (`AcceptedIsTyped`) and `TypeCorrect` (`TypeOK`).

A body is well-formed (the assumption `ProgramsAssumption`) if parts come before
what they are part of and belong to it alone, as in any tree, the parts of
expressions are expressions (only a declaration or a `return` may lack its
value), names refer to earlier declarations, and no block or argument list the
checker may skip has half a call in it, or a part of something behind it.  `AcceptedIsTyped` speaks of the end; the invariant `IInv`
says that as long as there is no error every node before `at` is `Sound`: it has
a type, not poison, the type of nothing only if it is missing, and the type the
rules ask for; and that a cast was made by a parent before `at`.  The difficulty
is that a node's type changes after its turn: its parent casts it, a declaration
gives a missing initialiser its type, and a callee sets the type of a call that
has yet to come.  So every action is first shown to have a limited effect
(`Effect`, and `CleanEffect` if it reports nothing): it infers only its own type
and these two exceptions, casts only its parts, and is itself sound.  Because
each node is part of one other only, the parts of earlier nodes stay as they
were (`PartsStay`), and anything with this effect preserves `IInv`
(`EffectPreserves`).  That nothing was skipped follows too: a clean step goes on
to the next node.

`TypeRulesCheckerProofs` is about all bodies, those with errors included, where
the checker skips, poisons and goes on:

* `NoErrorCascades` (`PoisonIsReportedOnce`): poison is never there without an
  error; it spreads from operands to their operator and from a callee to its
  call; and no operator, declaration, return or call is blamed for the poison of
  an operand, the callee or an argument (a call with a poisoned argument may
  still be blamed for another one);
* `CoercionMeets`: for any two types `coerce_types` finds the least type both
  widen to, or reports an error if there is none or the signedness differs, or
  reads a null type; hence
* `CoercionsAreLeast` (`CoercionIsLeast`): what is on record at the end of a body -
  types, casts and errors - is that, for every operator that was checked;
* `OnlyBooleansCrash` (`CrashNeedsBoolean`): the null type is read only for a
  boolean left of a wider integer.

These rest on `CheckedBodies`, the invariant `CInv`.  `IInv` speaks of clean
bodies, `CInv` of each node by itself: casts are of numbers and made by the node
they are part of (`CastInv`), what has no type was skipped behind an erroneous
condition or callee (`SkipInv`), what has a type had its turn, or is the call of
a callee that had (`VisitInv`), poison spreads from operands and callees
(`SpreadInv`) and not without an error (`PoisonInv`).  An operator is judged by
the types its operands had at its turn, and they keep them because the
`Footprint` of each action is its own node, its parts, and the call a callee
belongs to, whose turn is yet to come; all other steps are `Quiet`.  The errors need two invariants of their own, that what
they are about is in the past (`ErrorInv`) and that what they judge was healthy
(`HealthyInv`).  When a callee is at fault the arguments have no type yet and
never get one (`ArgumentsAreUnchecked`).

Its last part is about the generator, which starts from what the checker left:

* `GeneratedValuesHaveTheirTypes` (`ValuesHaveTheirTypes`) and
  `SupportedBodiesCompile` (`CompilesExactlyIfSupported`): values have the LLVM
  types of the types the checker inferred, and of the accepted bodies exactly
  those become valid IR that have none of the five gaps.

Its invariant `GInv` (`GeneratorFollows`) adds to `CInv` that generating decides
nothing (`Follows`): the value of a node and the slot of a declaration are
functions of the finished types (`ValueOf`, `SlotOf`), the generator does not
stop at any node before `at` (`Generates`), and there are no faults exactly if
those are all `Valid`.  So whether a body compiles is a question about the
checker's result alone, and `SupportedIsValid` answers it: every node is `Valid`
and `Generates` just when the body is `Supported`, which is said without a
generator.

`LoweringProofs` proves, for all programs over any statements and conditions, at
any depth, and integers of any width:

* `ValidCode` (`GeneratesValidCode`): unless a jump stands in a block of its own
  or outside of all loops, no assert of `generate_code` fails and every basic
  block ends in its one terminator;
* `TypeCorrect` (`TypeOK`): branches lead to blocks there are, the machine stays
  within the code, and integers stay within their width.

`GeneratesValidCode` speaks of the end of compiling; `GenInv` says what holds
after each call of `generate_code`, that is of the stack `todo`.  Read from the
top, each node or frame fits the stack under it (`Fits`): the blocks it has made
and not yet filled are its own; only a frame that asks for a terminator before
it adds one (`Ends`), or none, is under something that ends in a jump; all the
statements it holds are among those code is generated for, and outside of all
loops if no loop is under it.  Blocks that wait for a frame are empty, all others
but the insert point are complete (`Settled`); the insert point is open, unless
the top of the stack can cope with a terminated block; and the targets of `break`
and `continue` are null only if no loop is on the stack (`Valid`).  This holds of
tame programs only; that the generator's variables have their types (`GenTyped`)
holds of all, those that fail an assert included.

Every handler pops one element and pushes at most two, so there is one lemma for
each (`GenerateIfStep`, `BodyDoneStep`, ...): from a generator that has popped
an element which fits (`Ready`) to one that is valid again, over lemmas about
what is done to `todo` (`ThenValid`, `OneValid`, `PopValid`) and to the blocks
(`EmitPlain`, `EmitEnd`, `NewBlocksSettled`, `BranchSettled`).  The statements
code is generated for are defined in layers, one per level of nesting
(`Layers`); what is a part of one of them is one too (`WithinIsClosed`), because
by the assumption on `Depth` the last layer is empty.

`RunInv` is about the machine: the instruction after one that does not end its
block is there, because the block is complete; and about the text, which grows
branches and loop marks as it is read, that there is a set of such text which is
closed under taking parts (`Text`).  `UnfoldTyped` finds the larger set after
each step.  TLC checked `GenInv` on some of the programs of the run before it was proved.

`LoweringBehaviourProofs` proves, from the same assumptions:

* `BehavesAsItReads` (`SameBehaviour`): the compiled procedure calls, asks and
  returns what its text says, in the same order and with the same values,
  whatever the environment answers, however `if`, `while`, `for`, `&&`, `||`,
  `break`, `continue` and `return` nest, unless a `for` loop steps its counter
  elsewhere than at the end of its body (`StepsOncePerIteration`, which the run
  `for_diverges` shows to be needed).

It is a compiler correctness proof, by labels.  A label (`Label`) says of a place
in the code what is left of the text when the machine is there, which may depend
on the value computed last or on that of a temporary (`Chosen`), and which
variables the two need not agree about (`Agree`): counters that nobody will read,
because their loop is over, has not begun, or was stepped on the way out.
`Leads` says that the text comes from one such remainder to another without an
effect; a label `Entails` another if what it says leads to what the other says.

* An instruction is `Good` between two labels if, whenever the first is met, the
  text leads to what `Suits` it: the same call, with the second label met
  behind it; for a branch, the label of the block it goes to.  This is proved
  once for each instruction the generator emits (`GoodStore`, `GoodCall`,
  `GoodCondBr`, ...).
* A node or frame of the generator's stack stands between two contexts (`Level`):
  a label, the blocks that wait to be filled, and the place in the text - the
  loops around it, the targets and the remainders of `break` and `continue`, the
  prologues due.  The stack is a chain of such levels (`Chain`) that starts with
  the label of the insert point (`Sound`).  A loop's frame leads back to the place
  around it, which is what makes `SET_TEMPORARILY` and the `defer` of
  `compile_ir.cpp:530-573` right.
* `Lowers` says that such labels and contexts exist, for the blocks so far and for
  what is left to do.  Each handler of `generate_code` preserves it (`Goes`; one
  lemma per handler, `IfGoes`, `BodyDoneGoes`, ...), since it can give labels to
  what it emits and to what it pushes.  What stands behind a terminator in its
  own basic block is not asked to be good (`Live`).  The proviso is used where a
  prologue is emitted: before a `continue` and at the end of the body the step is
  the one the text takes at its loop mark (`AtEnd`); before a `break` or a
  `return` it is one too many (`GoodExtraAdd`), but behind it nobody reads the
  counter, by `Resolved`; there is no other place.
* `BehaviourInv` is the inductive invariant: while compiling `Lowers(gen)`, and
  while running, that the text leads from where it is to what suits the next
  instruction (`Follows`).  The text the code was generated from and the text
  that is run differ by the implicit `return`, so one `Completes` the other.

No such labels are a variable of the model, and their existence cannot be
checked by TLC, which is why this invariant, unlike the others, was not tried on
a run; its consequence `SameBehaviour` is what TLC checks.

Only model-checked: both `Terminates` and `CountedLoopsEnd` (liveness); and, for
the recursion in their operators, everything about `Parser` and about the nodes
`NodeConverter` makes.

## Plan

What could come next, in this order:

1. `Frontend` composed with `DeclarationChecking`: the checker on the nodes and
   maps the registrar leaves, instead of the definition `Registered`, so that
   the fields `parent` of arguments and labels are used as the checker uses them
   (`typecheck.cpp:815`).
2. The poison of conditions and callees in the walk of `DeclarationChecking`.
3. The expressions of `desugar.cpp`, from `Syntax` to `Syntax`, which would join
   `Parser` and `Frontend` to a pipeline from the characters on.

## Not modelled

The JIT (LLVM ORC behind two calls), string utilities, the test harness, and
the playground (a scratch program, `CMakeLists.txt:53`), and the attic (a former
byte-code VM that no target builds).  In the parser, the
text of messages and the values of literals; in the memory pool, bytes,
alignment, the nodes `desugar` allocates, and `reset` and `allocate_span`, which
nobody calls; in the converter, what an array type does (it reads two pointers as
a token: anything may happen); in the visitor, the nodes of arrays, structs and
casts, which nothing makes before the checker.  LLVM's own code generation is
outside the model.
