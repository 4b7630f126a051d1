------------------------------ MODULE Lowering ------------------------------
(***************************************************************************)
(* From the statements of a procedure to basic blocks: the desugaring of   *)
(* for loops (desugar.cpp), the implicit return (typecheck.cpp) and the    *)
(* control flow IrCompiler::generate_code emits (compile_ir.cpp), run by a *)
(* machine for that IR in step with the structured program it came from.   *)
(*                                                                         *)
(* Expressions are abstracted to what control flow can tell apart: calls   *)
(* with an effect, which show the value of a variable; integer variables   *)
(* that are declared, stepped and compared; and conditions that ask the    *)
(* outside world.                                                          *)
(*                                                                         *)
(* generate_code is recursive.  Here it is run one call at a time: what is *)
(* left to generate is a stack of nodes and of frames, the calls that go   *)
(* on when the one they made returns.                                      *)
(***************************************************************************)
EXTENDS Integers, Sequences, SequencesExt

CONSTANTS
  Var,       \* variables; every declaration has one of its own
  NoVar,     \* "no variable": what a void return returns
  Half,      \* integers are -Half .. Half - 1 and wrap around
  Statement, \* statements, with those they consist of and are desugared to
  Condition, \* conditions, with those they consist of
  Reads(_),  \* the variables a condition compares, in its operands too
  Programs,  \* procedure bodies, before desugaring
  Depth      \* how deep the statements of a procedure may nest

ASSUME NoVarAssumption == NoVar \notin Var
ASSUME HalfAssumption == Half \in Nat \ {0}

VARIABLES
  prog,      \* the procedure body being compiled and run
  gen,       \* the generator, see Start; its code is the blocks, entry first
  at,        \* the machine: block and index of the next instruction,
  acc,       \*   the i1 value computed last,
  temp,      \*   the allocas of && and ||,
  env,       \*   the allocas of the variables
  source,    \* the structured program: what is left to run, and its variables
  status     \* "compiling", "running", "returned", or why it went wrong

vars == <<prog, gen, at, acc, temp, env, source, status>>

-----------------------------------------------------------------------------
(* Statements: the nodes of node.h that generate_code tells apart. *)

Block(statements) == [kind |-> "block", statements |-> statements, expects |-> FALSE]
Declaration(v, n) == [kind |-> "declaration", var |-> v, value |-> n]
Assign(v, by)     == [kind |-> "assign", var |-> v, by |-> by]  \* v = v + by
Return(v)         == [kind |-> "return", var |-> v]
While(c, body, prologue) ==
  [kind |-> "while", condition |-> c, body |-> body, prologue |-> prologue]

Compare(v, cmp, n) == [op |-> "compare", var |-> v, cmp |-> cmp, bound |-> n]

Up(cmp) == cmp \in {"<", "<="}

StepOf(for) == Assign(for.var, IF Up(for.cmp) THEN 1 ELSE -1)

(***************************************************************************)
(* desugar(): a for loop is a block that declares the counter, and a while *)
(* loop with the step as its prologue.  A pass over the tree does it to    *)
(* every for loop before code is generated; nothing else depends on it, so *)
(* here it is done to a for loop when the generator comes to it.           *)
(***************************************************************************)
desugar(for) ==
  Block(<<Declaration(for.var, for.begin),
          While(Compare(for.var, for.cmp, for.end), for.body, <<StepOf(for)>>)>>)

Terminators == {"break", "continue", "return"}

(***************************************************************************)
(* A void procedure with no return among the statements of its body gets   *)
(* one at the end; any other procedure without one is rejected.            *)
(***************************************************************************)
WithReturn(body) ==
  IF \E i \in DOMAIN body.statements : body.statements[i].kind = "return" THEN body
  ELSE [body EXCEPT !.statements = Append(@, Return(NoVar))]

(***************************************************************************)
(* Statements and conditions are closed: with a node come its parts.       *)
(***************************************************************************)
Integer     == -Half .. Half - 1
Comparisons == {"<", "<=", ">", ">="}
Blocks      == [kind : {"block"}, statements : Seq(Statement), expects : BOOLEAN]
Assignments == [kind : {"assign"}, var : Var, by : Int]
ForLoops ==
  [kind : {"for"}, var : Var, begin : Integer, cmp : Comparisons, end : Integer, body : Blocks]

Simple ==
  Assignments
    \cup [kind : {"declaration"}, var : Var, value : Integer]
    \cup [kind : {"call"}, id : STRING, var : Var]
    \cup [kind : {"return"}, var : Var \cup {NoVar}]
    \cup [kind : {"break", "continue"}]

Compound ==
  Blocks
    \cup [kind : {"if"}, condition : Condition, then : Blocks, else : Blocks]
    \cup [kind : {"while"}, condition : Condition, body : Blocks, prologue : Seq(Assignments)]
    \cup {s \in ForLoops : desugar(s) \in Blocks}

ASSUME StatementAssumption ==
  Statement \subseteq Simple \cup Compound /\ Return(NoVar) \in Statement

Questions == [op : {"ask"}, id : STRING]
Compares  == [op : {"compare"}, var : Var, cmp : Comparisons, bound : Integer]
Junctions == [op : {"and", "or"}, lhs : Condition, rhs : Condition]

ASSUME ConditionAssumption == Condition \subseteq Questions \cup Compares \cup Junctions

ASSUME ReadsAssumption ==
  \A c \in Condition :
    /\ c.op = "compare" => c.var \in Reads(c)
    /\ c.op \in {"and", "or"} => Reads(c.lhs) \cup Reads(c.rhs) \subseteq Reads(c)

(***************************************************************************)
(* The statements of b that code is generated for: those up to the first   *)
(* terminator; and, through statements of some kinds, those nested in them *)
(* at any depth.                                                           *)
(***************************************************************************)
FirstTerminator(b) == SelectInSeq(b.statements, LAMBDA s : s.kind \in Terminators)

Own(b) ==
  LET k == FirstTerminator(b)
  IN  CASE b.expects -> {}
        [] ~b.expects /\ k = 0 -> ToSet(b.statements)
        [] OTHER -> {b.statements[i] : i \in 1 .. k}

Parts(s) ==
  CASE s.kind = "if" -> {s.then, s.else}
    [] s.kind = "while" -> {s.body}
    [] s.kind = "for" -> {desugar(s)}
    [] s.kind = "block" -> {s}
    [] OTHER -> {}

Below(statements, kinds) ==
  UNION {Own(b) : b \in UNION {Parts(s) : s \in {t \in statements : t.kind \in kinds}}}

Layers(b, kinds) ==
  LET layer[n \in 0 .. Depth] == IF n = 0 THEN Own(b) ELSE Below(layer[n - 1], kinds)
  IN  layer

Within(b, kinds) == UNION {Layers(b, kinds)[n] : n \in 0 .. Depth}

Generated(b)    == Within(b, {"if", "while", "for", "block"})
OutsideLoops(b) == Within(b, {"if", "for", "block"})  \* the while loop is in the for loop
Direct(b)       == Within(b, {"if", "while", "block"})  \* not those in its for loops

(***************************************************************************)
(* Names have been resolved: the counter of a for loop is seen in its body *)
(* alone.  And the parser gives no loop a prologue, only desugar does.     *)
(***************************************************************************)
Uses(s) ==
  CASE s.kind \in {"call", "return", "assign"} -> {s.var}
    [] s.kind \in {"if", "while"} -> Reads(s.condition)
    [] OTHER -> {}

ForLoopsIn(b) == {f \in Generated(b) : f.kind = "for"}
Counters(b)   == {f.var : f \in ForLoopsIn(b)}

Resolved(b) ==
  LET loops    == ForLoopsIn(b)
      counters == Counters(b)
  IN  /\ \A s \in Direct(b) : Uses(s) \cap counters = {}
      /\ \A f \in loops : \A s \in Direct(f.body) : \A v \in Uses(s) \cap counters :
           v = f.var \/ \E o \in loops : v = o.var /\ f \in Generated(o.body)

Parsed(b) ==
  \A q \in {b} \cup {f.body : f \in ForLoopsIn(b)} :
    \A s \in Direct(q) : s.kind = "while" => s.prologue = <<>>

ASSUME ProgramsAssumption ==
  /\ Depth \in Nat
  /\ \A b \in Programs :
       /\ b \in Blocks /\ ~b.expects
       /\ Layers(b, {"if", "while", "for", "block"})[Depth] = {}
       /\ Resolved(b) /\ Parsed(b)

-----------------------------------------------------------------------------
(***************************************************************************)
(* The generator's state: what is left to generate, the blocks emitted so  *)
(* far, the insert point, and the members of IrCompiler that loops save    *)
(* and restore.                                                            *)
(***************************************************************************)
Start(body) ==
  [todo     |-> <<body>>,
   code     |-> <<<<>>>>,
   insert   |-> 1,
   prologue |-> <<>>,   \* current_prologue
   break    |-> 0,      \* current_break_target, 0 when it is null
   continue |-> 0,      \* current_continue_target
   temps    |-> 0,
   aborted  |-> FALSE]  \* an assert has failed

Emit(g, instruction) == [g EXCEPT !.code[g.insert] = Append(@, instruction)]
NewBlocks(g, n) == [g EXCEPT !.code = @ \o [i \in 1 .. n |-> <<>>]]
SetInsertPoint(g, b) == [g EXCEPT !.insert = b]

EndsBlock == {"br", "cbr", "ret"}

Terminated(g) == g.code[g.insert] # <<>> /\ Last(g.code[g.insert]).op \in EndsBlock

Br(b) == [op |-> "br", to |-> b]
CondBr(when, b1, b2) == [op |-> "cbr", when |-> when, to |-> b1, other |-> b2]
Set(t, value) == [op |-> "set", temp |-> t, value |-> value]
Get(t) == [op |-> "get", temp |-> t]
Added(s) == [op |-> "add", var |-> s.var, by |-> s.by]

BrUnlessTerminated(g, b) == IF Terminated(g) THEN g ELSE Emit(g, Br(b))

(* Calls of generate_code: the node comes next, then the frame goes on. *)
GenerateThen(g, node, frame) == [g EXCEPT !.todo = <<node, frame>> \o @]

Evaluate(c) == [kind |-> "condition", condition |-> c]

(***************************************************************************)
(* A condition leaves its value in acc; && and || write it to an alloca    *)
(* that the blocks of both operands share.                                 *)
(***************************************************************************)
GoesOn(c) == c.op = "and"  \* the value of lhs that leaves it to rhs

ShortCircuit(g, c) ==
  LET t == g.temps + 1
  IN  GenerateThen(NewBlocks(Emit([g EXCEPT !.temps = t], Set(t, ~GoesOn(c))), 3), Evaluate(c.lhs),
                   [kind |-> "lhsDone", condition |-> c, blocks |-> Len(g.code), temp |-> t])

LhsDone(g, f) ==
  LET n == f.blocks
  IN  GenerateThen(SetInsertPoint(Emit(g, CondBr(GoesOn(f.condition), n + 1, n + 3)), n + 1),
                   Evaluate(f.condition.rhs), [f EXCEPT !.kind = "rhsDone"])

RhsDone(g, f) ==
  LET n  == f.blocks
      g1 == SetInsertPoint(Emit(g, CondBr(GoesOn(f.condition), n + 2, n + 3)), n + 2)
      g2 == Emit(Emit(g1, Set(f.temp, GoesOn(f.condition))), Br(n + 3))
  IN  Emit(SetInsertPoint(g2, n + 3), Get(f.temp))

GenerateCondition(g, c) ==
  IF c.op \in {"and", "or"} THEN ShortCircuit(g, c) ELSE Emit(g, c)

(***************************************************************************)
(* A block: its statements up to the first terminator, and the prologues   *)
(* of all enclosing loops before that terminator or after the last         *)
(* statement.  Blocks that expect a compiler error generate nothing.       *)
(***************************************************************************)
GenerateBlock(g, b) ==
  IF b.expects \/ b.statements = <<>> THEN g
  ELSE [g EXCEPT !.todo =
         <<[kind |-> "statements", statements |-> b.statements, index |-> 1]>> \o @]

GeneratePrologue(g) ==
  [g EXCEPT !.code[g.insert] = @ \o [i \in DOMAIN g.prologue |-> Added(g.prologue[i])]]

(* Mutant: a terminator is not preceded by the prologues. *)
GenerateStatements_NoPrologueOnJump(g, f) ==
  IF f.index > Len(f.statements) THEN GeneratePrologue(g)
  ELSE LET s == f.statements[f.index]
       IN  IF s.kind \in Terminators THEN [g EXCEPT !.todo = <<s>> \o @]
           ELSE GenerateThen(g, s, [f EXCEPT !.index = @ + 1])

(* Mutant: the statements after a terminator are generated too. *)
GenerateStatements_GoesOn(g, f) ==
  IF f.index > Len(f.statements)
  THEN IF Last(f.statements).kind \in Terminators THEN g ELSE GeneratePrologue(g)
  ELSE GenerateThen(g, f.statements[f.index], [f EXCEPT !.index = @ + 1])

(* One turn of the loop over the statements; behind the last one, the end. *)
GenerateStatements(g, f) ==
  IF f.index > Len(f.statements) THEN GeneratePrologue(g)
  ELSE LET s == f.statements[f.index]
       IN  IF s.kind \in Terminators THEN [GeneratePrologue(g) EXCEPT !.todo = <<s>> \o @]
           ELSE GenerateThen(g, s, [f EXCEPT !.index = @ + 1])

(***************************************************************************)
(* An if statement: the condition, then a block each for the branches and  *)
(* for what comes after them.                                              *)
(***************************************************************************)
GenerateIf(g, s) ==
  GenerateThen(g, Evaluate(s.condition), [kind |-> "ifDecided", then |-> s.then, else |-> s.else])

IfDecided(g, f) ==
  LET n == Len(g.code)
  IN  GenerateThen(SetInsertPoint(Emit(NewBlocks(g, 3), CondBr(TRUE, n + 1, n + 2)), n + 1),
                   f.then, [kind |-> "thenDone", else |-> f.else, blocks |-> n])

ThenDone(g, f) ==
  LET n == f.blocks
  IN  GenerateThen(SetInsertPoint(BrUnlessTerminated(g, n + 3), n + 2),
                   f.else, [kind |-> "elseDone", blocks |-> n])

ElseDone(g, f) == SetInsertPoint(BrUnlessTerminated(g, f.blocks + 3), f.blocks + 3)

(* Mutant: break leaves for a block that does not exist. *)
GenerateWhile_WrongBlock(g, s) ==
  LET n  == Len(g.code)
      g0 == Emit(NewBlocks([g EXCEPT !.aborted = @ \/ Terminated(g)], 3), Br(n + 1))
      g1 == [g0 EXCEPT !.prologue = @ \o s.prologue, !.break = n + 4, !.continue = n + 1]
  IN  GenerateThen(SetInsertPoint(g1, n + 1), Evaluate(s.condition),
                   [kind |-> "whileDecided", body |-> s.body, blocks |-> n,
                    prologue |-> g.prologue, break |-> g.break, continue |-> g.continue])

(***************************************************************************)
(* A while loop: its prologue is added to those of the enclosing loops,    *)
(* and its targets replace theirs, while its body is generated.            *)
(***************************************************************************)
GenerateWhile(g, s) ==
  LET n  == Len(g.code)
      g0 == Emit(NewBlocks([g EXCEPT !.aborted = @ \/ Terminated(g)], 3), Br(n + 1))
      g1 == [g0 EXCEPT !.prologue = @ \o s.prologue, !.break = n + 3, !.continue = n + 1]
  IN  GenerateThen(SetInsertPoint(g1, n + 1), Evaluate(s.condition),
                   [kind |-> "whileDecided", body |-> s.body, blocks |-> n,
                    prologue |-> g.prologue, break |-> g.break, continue |-> g.continue])

WhileDecided(g, f) ==
  LET n == f.blocks
  IN  GenerateThen(SetInsertPoint(Emit(g, CondBr(TRUE, n + 2, n + 3)), n + 2),
                   f.body, [f EXCEPT !.kind = "bodyDone"])

(* Mutant: the targets of the enclosing loop are not restored. *)
BodyDone_KeepsTargets(g, f) ==
  LET n == f.blocks
  IN  [SetInsertPoint(BrUnlessTerminated(g, n + 1), n + 3) EXCEPT !.prologue = f.prologue]

BodyDone(g, f) ==
  LET n == f.blocks
  IN  [SetInsertPoint(BrUnlessTerminated(g, n + 1), n + 3) EXCEPT
         !.prologue = f.prologue, !.break = f.break, !.continue = f.continue]

(***************************************************************************)
(* break and continue: a branch to the target, which must not be null.     *)
(***************************************************************************)
GenerateJump(g, target) ==
  IF target = 0 THEN [g EXCEPT !.aborted = TRUE] ELSE Emit(g, Br(target))

(* Nodes and frames. *)
Generate(g, t) ==
  CASE t.kind = "block"        -> GenerateBlock(g, t)
    [] t.kind = "statements"   -> GenerateStatements(g, t)
    [] t.kind = "if"           -> GenerateIf(g, t)
    [] t.kind = "ifDecided"    -> IfDecided(g, t)
    [] t.kind = "thenDone"     -> ThenDone(g, t)
    [] t.kind = "elseDone"     -> ElseDone(g, t)
    [] t.kind = "for"          -> GenerateBlock(g, desugar(t))
    [] t.kind = "while"        -> GenerateWhile(g, t)
    [] t.kind = "whileDecided" -> WhileDecided(g, t)
    [] t.kind = "bodyDone"     -> BodyDone(g, t)
    [] t.kind = "condition"    -> GenerateCondition(g, t.condition)
    [] t.kind = "lhsDone"      -> LhsDone(g, t)
    [] t.kind = "rhsDone"      -> RhsDone(g, t)
    [] t.kind = "break"        -> GenerateJump(g, g.break)
    [] t.kind = "continue"     -> GenerateJump(g, g.continue)
    [] t.kind = "return"       -> Emit(g, [op |-> "ret", var |-> t.var])
    [] t.kind = "declaration"  -> Emit(g, [op |-> "store", var |-> t.var, value |-> t.value])
    [] t.kind = "assign"       -> Emit(g, Added(t))
    [] t.kind = "call"         -> Emit(g, [op |-> "call", id |-> t.id, var |-> t.var])

(***************************************************************************)
(* LLVM gives no meaning to a block that does not end in its one           *)
(* terminator.                                                             *)
(***************************************************************************)
Complete(instructions) ==
  /\ instructions # <<>>
  /\ \A i \in DOMAIN instructions :
       instructions[i].op \in EndsBlock <=> i = Len(instructions)

Malformed(blocks) == \E b \in DOMAIN blocks : ~Complete(blocks[b])

(***************************************************************************)
(* One call of generate_code, or the rest of one; and when none is left,   *)
(* the compiled procedure is called.                                       *)
(***************************************************************************)
Compile ==
  /\ status = "compiling"
  /\ gen.todo # <<>>
  /\ gen' = Generate([gen EXCEPT !.todo = Tail(@)], Head(gen.todo))
  /\ status' = IF gen'.aborted THEN "aborted" ELSE status
  /\ UNCHANGED <<prog, at, acc, temp, env, source>>

Enter ==
  /\ status = "compiling"
  /\ gen.todo = <<>>
  /\ temp' = [t \in 1 .. gen.temps |-> FALSE]
  /\ status' = IF Malformed(gen.code) THEN "malformed" ELSE "running"
  /\ UNCHANGED <<prog, gen, at, acc, env, source>>

-----------------------------------------------------------------------------
Holds(c, e) ==
  CASE c.cmp = "<"  -> e[c.var] < c.bound
    [] c.cmp = "<=" -> e[c.var] <= c.bound
    [] c.cmp = ">"  -> e[c.var] > c.bound
    [] c.cmp = ">=" -> e[c.var] >= c.bound

Wrap(n) == ((n + Half) % (2 * Half)) - Half

Value(e, v) == IF v = NoVar THEN 0 ELSE e[v]

(***************************************************************************)
(* The structured program, as its text reads, one statement at a time.  A  *)
(* loop is a branch on its condition, and behind its body the mark         *)
(* "again", where continue goes on and which break skips.  The step of a   *)
(* loop is run at the mark, once each time around.                         *)
(***************************************************************************)
Branch(c, yes, no) == [kind |-> "branch", condition |-> c, yes |-> yes, no |-> no]
Loop(c, body, step) == [kind |-> "loop", condition |-> c, body |-> body, step |-> step]

(* The rest from the next mark on: none of it when there is no mark. *)
FromAgain(rest) ==
  LET k == SelectInSeq(rest, LAMBDA s : s.kind = "again")
  IN  IF k = 0 THEN <<>> ELSE SubSeq(rest, k, Len(rest))

(* A branch on any condition but a question, whose answer is an effect. *)
Decide(s, e) ==
  LET c == s.condition
  IN  CASE c.op = "compare" -> IF Holds(c, e) THEN s.yes ELSE s.no
        [] c.op = "and" -> <<Branch(c.lhs, <<Branch(c.rhs, s.yes, s.no)>>, s.no)>>
        [] c.op = "or"  -> <<Branch(c.lhs, s.yes, <<Branch(c.rhs, s.yes, s.no)>>)>>

(* What is left to run after statement s, the rest and the variables e. *)
Unfold(s, rest, e) ==
  CASE s.kind = "branch" -> Decide(s, e) \o rest
    [] s.kind = "block"  -> (IF s.expects THEN <<>> ELSE s.statements) \o rest
    [] s.kind = "if"     -> <<Branch(s.condition, <<s.then>>, <<s.else>>)>> \o rest
    [] s.kind = "while"  -> <<Loop(s.condition, s.body, s.prologue)>> \o rest
    [] s.kind = "for" ->
         <<Declaration(s.var, s.begin),
           While(Compare(s.var, s.cmp, s.end), s.body,
                 <<Assign(s.var, IF Up(s.cmp) THEN 1 ELSE -1)>>)>> \o rest
    [] s.kind = "loop" ->
         <<Branch(s.condition, <<s.body, [s EXCEPT !.kind = "again"]>>, <<>>)>> \o rest
    [] s.kind = "again"    -> Append(s.step, [s EXCEPT !.kind = "loop"]) \o rest
    [] s.kind = "break"    -> SubSeq(FromAgain(rest), 2, Len(FromAgain(rest)))
    [] s.kind = "continue" -> FromAgain(rest)
    [] OTHER               -> rest

After(s, e) ==
  CASE s.kind = "declaration" -> [e EXCEPT ![s.var] = s.value]
    [] s.kind = "assign"      -> [e EXCEPT ![s.var] = Wrap(@ + s.by)]
    [] OTHER                  -> e

HasEffect(s) ==
  \/ s.kind \in {"call", "return"}
  \/ s.kind = "branch" /\ s.condition.op = "ask"

next == source.todo

-----------------------------------------------------------------------------
code == gen.code

instruction == code[at.block][at.index]

AtInstruction(op) ==
  /\ status = "running"
  /\ at.index \in DOMAIN code[at.block]
  /\ instruction.op = op

Effects == {"call", "ask", "ret"}

GoOn == at' = [at EXCEPT !.index = @ + 1]
GoTo(b) == at' = [block |-> b, index |-> 1]

Store ==
  /\ AtInstruction("store")
  /\ env' = [env EXCEPT ![instruction.var] = instruction.value]
  /\ GoOn
  /\ UNCHANGED <<prog, gen, acc, temp, source, status>>

Add ==
  /\ AtInstruction("add")
  /\ env' = [env EXCEPT ![instruction.var] = Wrap(@ + instruction.by)]
  /\ GoOn
  /\ UNCHANGED <<prog, gen, acc, temp, source, status>>

SetTemp ==
  /\ AtInstruction("set")
  /\ temp' = [temp EXCEPT ![instruction.temp] = instruction.value]
  /\ GoOn
  /\ UNCHANGED <<prog, gen, acc, env, source, status>>

GetTemp ==
  /\ AtInstruction("get")
  /\ acc' = temp[instruction.temp]
  /\ GoOn
  /\ UNCHANGED <<prog, gen, temp, env, source, status>>

Comparison ==
  /\ AtInstruction("compare")
  /\ acc' = Holds(instruction, env)
  /\ GoOn
  /\ UNCHANGED <<prog, gen, temp, env, source, status>>

Jump ==
  /\ AtInstruction("br")
  /\ GoTo(instruction.to)
  /\ UNCHANGED <<prog, gen, acc, temp, env, source, status>>

CondJump ==
  /\ AtInstruction("cbr")
  /\ GoTo(IF acc = instruction.when THEN instruction.to ELSE instruction.other)
  /\ UNCHANGED <<prog, gen, acc, temp, env, source, status>>

(***************************************************************************)
(* The text is read up to its next effect when the code is about to have   *)
(* one.                                                                    *)
(***************************************************************************)
Read ==
  /\ \E op \in Effects : AtInstruction(op)
  /\ next # <<>> /\ ~HasEffect(Head(next))
  /\ source' = [todo |-> Unfold(Head(next), Tail(next), source.env),
                env  |-> After(Head(next), source.env)]
  /\ UNCHANGED <<prog, gen, at, acc, temp, env, status>>

AtEffect(op) ==
  /\ AtInstruction(op)
  /\ next # <<>> => HasEffect(Head(next))

(***************************************************************************)
(* What the outside sees.  The structured program must be about to do the  *)
(* same; if it is not, the two have diverged.                              *)
(***************************************************************************)
Diverge ==
  /\ status' = "diverged"
  /\ UNCHANGED <<at, acc, source>>

SourceIsAt(kind) == next # <<>> /\ Head(next).kind = kind

SameValue == Value(source.env, Head(next).var) = Value(env, instruction.var)

Call ==
  /\ AtEffect("call")
  /\ IF SourceIsAt("call") /\ Head(next).id = instruction.id /\ SameValue
     THEN /\ source' = [source EXCEPT !.todo = Tail(@)]
          /\ GoOn
          /\ UNCHANGED <<acc, status>>
     ELSE Diverge
  /\ UNCHANGED <<prog, gen, temp, env>>

Ask ==
  /\ AtEffect("ask")
  /\ IF SourceIsAt("branch") /\ Head(next).condition = instruction
     THEN \E answer \in BOOLEAN :
            /\ acc' = answer
            /\ source' = [source EXCEPT !.todo =
                           (IF answer THEN Head(@).yes ELSE Head(@).no) \o Tail(@)]
            /\ GoOn
            /\ UNCHANGED status
     ELSE Diverge
  /\ UNCHANGED <<prog, gen, temp, env>>

(* The end of the text is a void return. *)
Ret ==
  /\ AtEffect("ret")
  /\ status' = IF \/ next = <<>> /\ instruction.var = NoVar
                  \/ SourceIsAt("return") /\ SameValue
               THEN "returned" ELSE "diverged"
  /\ UNCHANGED <<prog, gen, at, acc, temp, env, source>>

Init ==
  /\ prog \in Programs
  /\ gen = Start(WithReturn(prog))
  /\ at = [block |-> 1, index |-> 1]
  /\ acc = FALSE
  /\ temp = <<>>
  /\ env = [v \in Var |-> 0]
  /\ source = [todo |-> prog.statements, env |-> env]
  /\ status = "compiling"

Next ==
  \/ Compile \/ Enter
  \/ Store \/ Add \/ SetTemp \/ GetTemp \/ Comparison
  \/ Jump \/ CondJump
  \/ Read \/ Call \/ Ask \/ Ret

Spec == Init /\ [][Next]_vars

(***************************************************************************)
(* The compiler and the compiled procedure run on one thread, and every    *)
(* question the procedure asks is answered.                                *)
(***************************************************************************)
FairSpec == Spec /\ WF_vars(Next)

-----------------------------------------------------------------------------
(***************************************************************************)
(* Every variable has its type; the machine stays within the code.         *)
(***************************************************************************)
TypeOK ==
  /\ at.block \in DOMAIN code
  /\ status = "running" => at.index \in DOMAIN code[at.block]
  /\ acc \in BOOLEAN
  /\ temp \in [DOMAIN temp -> BOOLEAN]
  /\ env \in [Var -> Integer]
  /\ source.env \in [Var -> Integer]
  /\ status \in {"compiling", "running", "returned", "diverged", "malformed", "aborted"}

JumpsFromBareBlock ==
  \E s \in Generated(prog) : s.kind = "block" /\ ~s.expects /\ FirstTerminator(s) # 0

StrayJump == \E s \in OutsideLoops(prog) : s.kind \in {"break", "continue"}

(***************************************************************************)
(* The asserts of generate_code hold and every basic block ends in its one *)
(* terminator (compile_ir.cpp:552, 577, 586), whatever dead code follows a *)
(* jump - as long as no jump stands in a block of its own, and none stands *)
(* outside of all loops, which nothing rejects (typecheck.cpp:1166).       *)
(***************************************************************************)
GeneratesValidCode ==
  status \in {"aborted", "malformed"} => JumpsFromBareBlock \/ StrayJump

(***************************************************************************)
(* The prologues of all enclosing loops are emitted at the end of every    *)
(* block, not of the body of the for loop alone.  So a block in that body  *)
(* adds a step, unless it is empty or ends in a jump out of the body; and  *)
(* a for loop in it always adds one, at the end of the block it is         *)
(* desugared to.                                                           *)
(***************************************************************************)
AddsNoStep(p) == p.expects \/ p.statements = <<>> \/ FirstTerminator(p) # 0

StepsAtEndOnly(f) ==
  /\ f.body.statements # <<>> /\ ~f.body.expects
  /\ \A s \in Generated(f.body) :
       /\ s.kind # "for"
       /\ \A p \in Parts(s) : AddsNoStep(p)
       /\ s.kind = "return" => s.var # f.var
       /\ s.kind = "while" => \A t \in Generated(s.body) : t.kind \notin {"break", "continue"}

StepsOncePerIteration == \A f \in ForLoopsIn(prog) : StepsAtEndOnly(f)

(***************************************************************************)
(* The compiled procedure calls, asks and returns what its text says, in   *)
(* the same order and with the same values, wherever the loops, branches,  *)
(* break, continue and short-circuit operators nest - as long as no block  *)
(* in a for loop adds a step of its own (compile_ir.cpp:384-411).          *)
(***************************************************************************)
SameBehaviour == status = "diverged" => ~StepsOncePerIteration

(***************************************************************************)
(* A for loop is a while loop with the step behind its body (the comment   *)
(* of desugar.cpp:19-29), whatever its body is.                            *)
(***************************************************************************)
ForIsWhile == status # "diverged"

(***************************************************************************)
(* The insert point of a loop is not terminated yet: the assert of         *)
(* compile_ir.cpp:552.                                                     *)
(***************************************************************************)
LoopStartsInOpenBlock == status # "aborted"
=============================================================================
