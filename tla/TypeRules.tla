------------------------------ MODULE TypeRules ------------------------------
(***************************************************************************)
(* The typing rules of one procedure body, on both sides of the pipeline:  *)
(* TypeChecker (typecheck.cpp) infers a type for every node, inserts       *)
(* implicit casts, poisons and reports; IrCompiler (compile_ir.cpp) relies *)
(* on the types and casts it finds.                                        *)
(*                                                                         *)
(* A body is its nodes in the order typecheck_internal finishes them:      *)
(* operands before their operator, an initialiser before its declaration.  *)
(* A callee comes before the arguments of its call, and the condition of   *)
(* an if or while before its block, because the checker may skip those.    *)
(***************************************************************************)
EXTENDS Integers, Sequences

CONSTANT Programs  \* the bodies, as parsed and with names resolved

-----------------------------------------------------------------------------
(* Types, node.cpp.  Of pointer types only that of string literals occurs. *)
Basic(k, s) == [kind |-> k, size |-> s]

Void    == Basic("void", -1)
Boolean == Basic("boolean", 1)
Poison  == Basic("poison", -1)
Numbers == {Basic(k, s) : k \in {"signed", "unsigned"}, s \in {1, 2, 4, 8}}
             \cup {Basic("float", s) : s \in {4, 8}}
BuiltinTypes == Numbers \cup {Void, Boolean, Poison}

StringLiteral == Basic("pointer", 8)
Signature     == Basic("procedure_signature", 0)
Nop           == Basic("nop", 0)    \* the type of nothing
None          == Basic("null", 0)   \* inferred_type_ is not set

ValueTypes == Numbers \cup {Boolean, StringLiteral}
Types      == BuiltinTypes \cup {StringLiteral, Signature, Nop}

IsNumerical(t) == t.kind \in {"signed", "unsigned", "float"}

(* Mutant: the smaller of two sizes. *)
Larger_Smaller(a, b) == IF a < b THEN a ELSE b

(* The larger of two sizes. *)
Larger(a, b) == IF a < b THEN b ELSE a

-----------------------------------------------------------------------------
(* The nodes that are part of node n, other than the block a condition guards. *)
Parts(n) ==
  CASE n.form = "operator"               -> {n.lhs, n.rhs}
    [] n.form = "declaration"            -> {n.init}
    [] n.form \in {"return", "condition"} -> {n.expression}
    [] n.form = "call"                   -> {n.arguments[k] : k \in DOMAIN n.arguments}
    [] OTHER                             -> {}

Forms == {"literal", "argument", "nop", "unknown", "identifier", "callee", "call",
          "operator", "declaration", "return", "condition"}

(* A parameter without a type, as in proc(x:), has the type of nothing. *)
Signatures ==
  [arguments : Seq(ValueTypes \cup {Nop}), vararg : BOOLEAN, returns : ValueTypes \cup {Void}]

(* The forms of expressions.  A callee is part of no node but its call. *)
ExpressionForms == {"literal", "argument", "unknown", "identifier", "call", "operator"}

(* A skip from i past e leaves no call half checked. *)
WholeCalls(ns, i, e) == \A k \in (i + 1)..e : ns[k].form = "callee" => ns[k].call <= e

(* The nodes in S, which a skip past e leaves unchecked, are parts of none behind it. *)
WholeParts(ns, S, e) == \A j \in DOMAIN ns : j > e => Parts(ns[j]) \cap S = {}

WellFormedNode(ns, i) ==
  LET n == ns[i]
      N == Len(ns)
  IN  /\ n.form \in Forms
      /\ n.form = "literal" => n.type \in ValueTypes
      /\ n.form = "argument" => n.type \in ValueTypes \cup {Nop}
      /\ n.form = "nop" => n.type = Nop
      /\ n.form = "identifier" => n.of \in 1..(i - 1) /\ ns[n.of].form = "declaration"
      /\ n.form = "callee" =>
           /\ n.type \in Types
           /\ n.signature \in Signatures
           /\ n.call \in (i + 1)..N /\ ns[n.call].form = "call" /\ ns[n.call].callee = i
           /\ WholeCalls(ns, i, n.call)
           /\ WholeParts(ns, (i + 1)..(n.call - 1), n.call)
      /\ n.form = "call" =>
           /\ n.callee \in 1..(i - 1) /\ ns[n.callee].form = "callee" /\ ns[n.callee].call = i
           /\ n.arguments \in Seq((n.callee + 1)..(i - 1))
      /\ n.form = "operator" =>
           /\ n.category \in {"arithmetic", "bitwise", "comparison", "logical", "assignment"}
           /\ n.lhs # n.rhs
      /\ n.form = "declaration" => n.specified \in ValueTypes \cup {None}
      /\ n.form = "condition" =>
           /\ n.end \in i..N
           /\ WholeCalls(ns, i, n.end)
           /\ WholeParts(ns, (i + 1)..n.end, n.end)

(* A body: parts come before what they are part of, and belong to it alone. *)
WellFormed(p) ==
  /\ p.returns \in ValueTypes \cup {Void}
  /\ Len(p.nodes) \in Nat /\ DOMAIN p.nodes = 1..Len(p.nodes)
  /\ \A i \in DOMAIN p.nodes :
       /\ WellFormedNode(p.nodes, i)
       /\ Parts(p.nodes[i]) \subseteq 1..(i - 1)
       /\ \A k \in Parts(p.nodes[i]) :
            \/ p.nodes[k].form \in ExpressionForms
            \/ p.nodes[k].form = "nop" /\ p.nodes[i].form \in {"declaration", "return"}
       /\ \A j \in 1..(i - 1) : Parts(p.nodes[i]) \cap Parts(p.nodes[j]) = {}

ASSUME ProgramsAssumption == \A p \in Programs : WellFormed(p)

-----------------------------------------------------------------------------
(* do_implicit_cast_if_necessary: no cast is needed, or one is possible. *)
CanCast(from, to) == from = to \/ (IsNumerical(from) /\ IsNumerical(to))

(* What coerce_types takes as an operand at all. *)
IsOperand(t) == IsNumerical(t) \/ t.kind = "boolean"

DifferentSignedness(l, r) == {l.kind, r.kind} = {"signed", "unsigned"}

(* Mutant: the coerced type has the size of the left operand. *)
Coerced_LeftSize(l, r) ==
  Basic(IF "float" \in {l.kind, r.kind} THEN "float" ELSE l.kind, l.size)

(* The type both operands are to have; it need not be one of the builtins. *)
Coerced(l, r) ==
  Basic(IF "float" \in {l.kind, r.kind} THEN "float" ELSE l.kind,
        Larger(l.size, r.size))

(* How far coerce_types gets before it returns, or reads a null type. *)
Coercion(l, r) ==
  IF ~IsOperand(l) \/ ~IsOperand(r) THEN "operand"
  ELSE IF DifferentSignedness(l, r) THEN "signedness"
  ELSE IF Coerced(l, r) \notin BuiltinTypes THEN "no type"
  ELSE IF ~CanCast(l, Coerced(l, r)) THEN "left"
  ELSE IF ~CanCast(r, Coerced(l, r)) THEN "right"
  ELSE "coerced"

-----------------------------------------------------------------------------
(* convert_type: signedness is lost.  Null is a null Value pointer. *)
Llvm(c, b) == [class |-> c, bits |-> b]

Null == Llvm("null", 0)
I1   == Llvm("int", 1)
Ptr  == Llvm("ptr", 64)

Convert(t) ==
  CASE t.kind = "boolean"                -> I1
    [] t.kind \in {"signed", "unsigned"} -> Llvm("int", 8 * t.size)
    [] t.kind = "float"                  -> Llvm("fp", 8 * t.size)
    [] t.kind = "pointer"                -> Ptr
    [] OTHER                             -> Llvm("void", 0)

(* The casts generate_code(TypeCastNode) knows; the others are a TODO. *)
CanGenerate(from, to) ==
  \/ from.kind = "signed" /\ to.kind = "signed" /\ from.size # to.size
  \/ from.kind \in {"signed", "unsigned"} /\ to.kind = "float"
  \/ from.kind = "float" /\ to.kind = "float" /\ from.size # to.size

-----------------------------------------------------------------------------
VARIABLES
  program,   \* the body and its return type; never changes
  phase,     \* "checking", "rejected", "crashed", "generating", "compiled", "aborted"
  at,        \* the node the checker or the generator has come to
  inferred,  \* inferred_type_ of each node
  cast,      \* the type of the cast node that took its place in its parent, or None
  errors,    \* the errors, as a node and what is wrong with it
  slot,      \* the type of each declaration's alloca
  value,     \* the type of the Value generated for each node, cast included
  faults     \* instructions that are not valid IR

vars == <<program, phase, at, inferred, cast, errors, slot, value, faults>>
checked == <<inferred, cast, errors>>
generated == <<slot, value, faults>>

nodes == program.nodes
node == nodes[at]
Indices == DOMAIN nodes

(* node->inferred_type() as the parent reads it. *)
TypeOf(i) == IF cast[i] = None THEN inferred[i] ELSE cast[i]

Visiting(f) == phase = "checking" /\ at \in Indices /\ node.form = f
Infer(t) == inferred' = [inferred EXCEPT ![at] = t]
Report(E) == errors' = errors \cup E
GoOn == at' = at + 1 /\ UNCHANGED <<program, phase, generated>>

(* Mutant: the cast is made whether or not it is possible. *)
CastAll_Always(S, t) ==
  cast' = [i \in Indices |-> IF i \in S /\ TypeOf(i) # t THEN t ELSE cast[i]]

(* The nodes of S, whose turn it is, are cast to t where that is necessary *)
(* and possible.                                                           *)
CastAll(S, t) ==
  cast' = [i \in Indices |->
             IF i \in S /\ TypeOf(i) # t /\ CanCast(TypeOf(i), t) THEN t ELSE cast[i]]

-----------------------------------------------------------------------------
(* A literal, an argument of the procedure, or nothing. *)
CheckLeaf ==
  /\ \E f \in {"literal", "argument", "nop"} : Visiting(f)
  /\ Infer(node.type)
  /\ GoOn /\ UNCHANGED <<cast, errors>>

(* A name that is declared nowhere. *)
CheckUnknown ==
  /\ Visiting("unknown")
  /\ Infer(Poison)
  /\ Report({<<at, "unknown">>})
  /\ GoOn /\ UNCHANGED cast

(* Mutant: the type the declaration's initialiser had before it was cast. *)
CheckIdentifier_BeforeCast ==
  /\ Visiting("identifier")
  /\ Infer(inferred[nodes[node.of].init])
  /\ GoOn /\ UNCHANGED <<cast, errors>>

(* A name has the type of its declaration's initialiser. *)
CheckIdentifier ==
  /\ Visiting("identifier")
  /\ Infer(TypeOf(nodes[node.of].init))
  /\ GoOn /\ UNCHANGED <<cast, errors>>

-----------------------------------------------------------------------------
(* The number of arguments of a call is one the signature takes. *)
FitsSignature(call, signature) ==
  IF signature.vararg THEN Len(call.arguments) >= Len(signature.arguments)
  ELSE Len(call.arguments) = Len(signature.arguments)

(***************************************************************************)
(* The callee, and what is checked before the arguments.  An error here    *)
(* leaves the arguments unchecked.  A callee of type Poison is unknown.    *)
(***************************************************************************)
CheckCallee ==
  /\ Visiting("callee")
  /\ LET call == nodes[node.call]
         type == IF node.type = Signature THEN node.signature.returns ELSE Poison
         wrong == CASE node.type = Poison -> {<<at, "unknown">>}
                    [] node.type \notin {Poison, Signature} -> {<<node.call, "callable">>}
                    [] node.type = Signature ->
                         IF FitsSignature(call, node.signature) THEN {}
                         ELSE {<<node.call, "number">>}
     IN  /\ inferred' = [inferred EXCEPT ![at] = node.type, ![node.call] = type]
         /\ Report(wrong)
         /\ at' = IF wrong = {} THEN at + 1 ELSE node.call + 1
  /\ UNCHANGED <<program, phase, cast, generated>>

(* Mutant: an argument that has been reported itself is reported once more. *)
CheckCall_ReportsPoison ==
  /\ Visiting("call")
  /\ LET signature == nodes[node.callee].signature
         mismatch == {k \in DOMAIN signature.arguments :
                        TypeOf(node.arguments[k]) # signature.arguments[k]}
     IN  Report({<<node.arguments[k], "argument">> : k \in mismatch})
  /\ GoOn /\ UNCHANGED <<inferred, cast>>

(* The arguments of a call have the types of the signature, without casts. *)
(* An error of the call names the argument it is about, and is kept there. *)
CheckCall ==
  /\ Visiting("call")
  /\ LET signature == nodes[node.callee].signature
         mismatch == {k \in DOMAIN signature.arguments :
                        TypeOf(node.arguments[k]) \notin {Poison, signature.arguments[k]}}
     IN  Report({<<node.arguments[k], "argument">> : k \in mismatch})
  /\ GoOn /\ UNCHANGED <<inferred, cast>>

-----------------------------------------------------------------------------
left == TypeOf(node.lhs)
right == TypeOf(node.rhs)

Operator(C) == Visiting("operator") /\ node.category \in C

Healthy == Poison \notin {left, right}

(* A poisoned operand poisons the operator, silently. *)
SpreadPoison ==
  /\ Visiting("operator")
  /\ ~Healthy
  /\ Infer(Poison)
  /\ GoOn /\ UNCHANGED <<cast, errors>>

CoercionErrors ==
  CASE Coercion(left, right) \in {"operand", "signedness"} -> {<<at, Coercion(left, right)>>}
    [] Coercion(left, right) = "left"  -> {<<node.lhs, "cast">>}
    [] Coercion(left, right) = "right" -> {<<node.rhs, "cast">>}
    [] OTHER -> {}

(* Mutant: the right operand is not cast. *)
CoerceTypes_LeftOnly ==
  /\ Report(CoercionErrors)
  /\ CastAll(IF Coercion(left, right) = "coerced" THEN {node.lhs} ELSE {},
             Coerced(left, right))

(* coerce_types; the left operand keeps its cast when the right has none. *)
CoerceTypes ==
  /\ Report(CoercionErrors)
  /\ CastAll(IF Coercion(left, right) \in {"coerced", "right"} THEN {node.lhs, node.rhs} ELSE {},
             Coerced(left, right))

CheckArithmetic ==
  /\ Operator({"arithmetic"}) /\ Healthy
  /\ Coercion(left, right) # "no type"
  /\ CoerceTypes
  /\ Infer(IF Coercion(left, right) = "coerced" THEN Coerced(left, right) ELSE Poison)
  /\ GoOn

(* A comparison is boolean even after an error. *)
CheckComparison ==
  /\ Operator({"comparison"}) /\ Healthy
  /\ Coercion(left, right) # "no type"
  /\ CoerceTypes
  /\ Infer(Boolean)
  /\ GoOn

(* No builtin type is the coerced one: a null type is read. *)
CoercionCrashes ==
  /\ Operator({"arithmetic", "comparison"}) /\ Healthy
  /\ Coercion(left, right) = "no type"
  /\ phase' = "crashed"
  /\ UNCHANGED <<program, at, checked, generated>>

CheckBitwise ==
  /\ Operator({"bitwise"}) /\ Healthy
  /\ LET wider == Basic("unsigned", Larger(left.size, right.size))
     IN  IF left.kind = "unsigned" /\ right.kind = "unsigned"
         THEN Infer(wider) /\ CastAll({node.lhs, node.rhs}, wider) /\ UNCHANGED errors
         ELSE Infer(Poison) /\ Report({<<at, "bitwise">>}) /\ UNCHANGED cast
  /\ GoOn

(* Short-circuit operators are boolean even after an error. *)
CheckLogical ==
  /\ Operator({"logical"}) /\ Healthy
  /\ Infer(Boolean)
  /\ Report(IF {left, right} = {Boolean} THEN {} ELSE {<<at, "boolean">>})
  /\ GoOn /\ UNCHANGED cast

(* The right side is cast to the type of the left. *)
CheckAssignment ==
  /\ Operator({"assignment"}) /\ Healthy
  /\ Infer(Void)
  /\ CastAll({node.rhs}, left)
  /\ Report(IF CanCast(right, left) THEN {} ELSE {<<node.rhs, "cast">>, <<at, "assignment">>})
  /\ GoOn

-----------------------------------------------------------------------------
(* A declaration: its initialiser is cast to the specified type, or gets   *)
(* it if there is no initialiser.  With neither, as in x:, the name has    *)
(* the type of nothing, which goes through wherever no type is asked for:  *)
(* parse_decl prints an error, but does not fail.                          *)
CheckDeclaration ==
  /\ Visiting("declaration")
  /\ LET init == TypeOf(node.init)
         specified == node.specified
     IN  \/ /\ specified = None \/ init = Poison
            /\ Infer(Void)
            /\ UNCHANGED <<cast, errors>>
         \/ /\ specified # None
            /\ init # Poison /\ nodes[node.init].form = "nop"
            /\ inferred' = [inferred EXCEPT ![at] = Void, ![node.init] = specified]
            /\ UNCHANGED <<cast, errors>>
         \/ /\ specified # None
            /\ init # Poison /\ nodes[node.init].form # "nop"
            /\ Infer(Void)
            /\ CastAll({node.init}, specified)
            /\ Report(IF CanCast(init, specified) THEN {}
                      ELSE {<<node.init, "cast">>, <<at, "declaration">>})
  /\ GoOn

(* A void procedure may return anything; others cast to the return type. *)
CheckReturn ==
  /\ Visiting("return")
  /\ LET type == TypeOf(node.expression)
     IN  IF type = Poison \/ program.returns = Void THEN UNCHANGED <<cast, errors>>
         ELSE /\ CastAll({node.expression}, program.returns)
              /\ Report(IF CanCast(type, program.returns) THEN {}
                        ELSE {<<node.expression, "cast">>, <<at, "return">>})
  /\ Infer(Void)
  /\ GoOn

(* The condition of an if or while; without a boolean one, the block it    *)
(* guards is not checked.                                                  *)
CheckCondition ==
  /\ Visiting("condition")
  /\ Infer(Void)
  /\ IF TypeOf(node.expression) = Boolean
     THEN at' = at + 1 /\ UNCHANGED errors
     ELSE at' = node.end + 1 /\ Report({<<at, "condition">>})
  /\ UNCHANGED <<program, phase, cast, generated>>

Guarded(i) == \E j \in Indices : nodes[j].form = "condition" /\ i \in (j + 1)..nodes[j].end
GotReturn == \E i \in Indices : nodes[i].form = "return" /\ ~Guarded(i)

(* A name of the procedure has the type of nothing. *)
Untyped ==
  \E i \in Indices :
    \/ nodes[i].form = "declaration" /\ TypeOf(nodes[i].init) = Nop
    \/ nodes[i].form = "argument" /\ nodes[i].type = Nop

(***************************************************************************)
(* The end of the body.  Without errors, main goes on to compile_to_ir,    *)
(* which begins with the procedure's signature and the allocas of its      *)
(* declarations: convert_type aborts at the type of nothing.  (And so it   *)
(* never comes to a call that has passed an argument of that type.)        *)
(***************************************************************************)
EndChecking ==
  /\ phase = "checking"
  /\ at = Len(nodes) + 1
  /\ Report(IF GotReturn \/ program.returns = Void THEN {} ELSE {<<at, "no return">>})
  /\ \/ /\ errors' = {} /\ ~Untyped
        /\ phase' = "generating"
        /\ at' = 1
        /\ slot' = [i \in Indices |->
                      IF nodes[i].form = "declaration" THEN Convert(TypeOf(nodes[i].init)) ELSE Null]
        /\ faults' = {<<i, "alloca">> : i \in {j \in Indices : slot'[j].class = "void"}}
     \/ errors' = {} /\ Untyped /\ phase' = "aborted" /\ at' = 1 /\ UNCHANGED <<slot, faults>>
     \/ errors' # {} /\ phase' = "rejected" /\ UNCHANGED <<at, slot, faults>>
  /\ UNCHANGED <<program, inferred, cast, value>>

-----------------------------------------------------------------------------
Generating(f) == phase = "generating" /\ at \in Indices /\ node.form = f

Abort ==
  /\ phase' = "aborted"
  /\ UNCHANGED <<program, at, checked, generated>>

(* Mutant: the cast is not generated. *)
Emit_NoCast(v, wrong) ==
  /\ value' = [value EXCEPT ![at] = v]
  /\ faults' = faults \cup {<<at, w>> : w \in wrong}
  /\ at' = at + 1
  /\ UNCHANGED <<program, phase, checked, slot>>

(* An instruction with a value of type v, and the cast around it: what is  *)
(* wrong with it, if anything, is kept in faults.                          *)
Emit(v, wrong) ==
  IF cast[at] # None /\ ~CanGenerate(inferred[at], cast[at])
  THEN Abort
  ELSE /\ value' = [value EXCEPT ![at] = IF cast[at] = None THEN v ELSE Convert(cast[at])]
       /\ faults' = faults \cup {<<at, w>> : w \in wrong}
       /\ at' = at + 1
       /\ UNCHANGED <<program, phase, checked, slot>>

GenerateLeaf ==
  /\ \E f \in {"literal", "argument", "nop", "callee"} : Generating(f)
  /\ Emit(IF node.form \in {"literal", "argument"} THEN Convert(inferred[at]) ELSE Null, {})

(* The left side of an assignment is generated as the address it names. *)
IsStore(i) ==
  \E j \in Indices : nodes[j].form = "operator" /\ nodes[j].category = "assignment" /\ nodes[j].lhs = i

GenerateIdentifier ==
  /\ Generating("identifier")
  /\ IF IsStore(at) THEN Emit(Ptr, {})
     ELSE Emit(Convert(inferred[at]),
               {w \in {"load"} : slot[node.of] # Convert(inferred[at])})

GenerateCall ==
  /\ Generating("call")
  /\ LET signature == nodes[node.callee].signature
         given(k) == value[node.arguments[k]]
         wrong(k) == \/ given(k).class \in {"null", "void"}
                     \/ /\ k \in DOMAIN signature.arguments
                        /\ given(k) # Convert(signature.arguments[k])
     IN  Emit(IF signature.returns = Void THEN Null ELSE Convert(signature.returns),
              {w \in {"argument"} : \E k \in DOMAIN node.arguments : wrong(k)})

-----------------------------------------------------------------------------
GeneratingOperator(C) == Generating("operator") /\ node.category \in C

(* generate_code(BinaryOperatorNode): the types of the operands must agree *)
(* (an assert), and both must have a value (an ENSURE).                    *)
OperandsAgree == TypeOf(node.lhs) = TypeOf(node.rhs)
OperandsExist == Null \notin {value[node.lhs], value[node.rhs]}

(* The tables of instructions, by the kind of the left operand. *)
HasInstruction(kind, category) ==
  \/ kind \in {"boolean", "signed", "unsigned"}
  \/ kind = "float" /\ category # "bitwise"

GenerateOperator ==
  /\ GeneratingOperator({"arithmetic", "bitwise", "comparison"})
  /\ IF OperandsAgree /\ OperandsExist /\ HasInstruction(left.kind, node.category)
     THEN Emit(IF node.category = "comparison" THEN I1 ELSE value[node.lhs],
               {w \in {"operands"} : value[node.lhs] # value[node.rhs]})
     ELSE Abort

GenerateLogical ==
  /\ GeneratingOperator({"logical"})
  /\ IF OperandsAgree /\ {value[node.lhs], value[node.rhs]} = {I1} THEN Emit(I1, {}) ELSE Abort

(* The left side of an assignment is a variable of the procedure. *)
IsVariable(i) == nodes[i].form = "identifier"

(* The store, to the address its left side has as its value. *)
GenerateAssignment ==
  /\ GeneratingOperator({"assignment"})
  /\ IF OperandsAgree /\ OperandsExist
     THEN Emit(Convert(Void),
               {w \in {"store"} :
                  \/ value[node.lhs] # Ptr
                  \/ IsVariable(node.lhs) /\ slot[nodes[node.lhs].of] # value[node.rhs]})
     ELSE Abort

(* The store of the initialiser, which reads its null Value if there is none. *)
GenerateDeclaration ==
  /\ Generating("declaration")
  /\ IF value[node.init] = Null THEN Abort
     ELSE Emit(Null, {w \in {"store"} : slot[at] # value[node.init]})

(* CreateRet of a null Value returns void. *)
GenerateReturn ==
  /\ Generating("return")
  /\ Emit(Null, {w \in {"return"} :
                   value[node.expression] #
                     IF program.returns = Void THEN Null ELSE Convert(program.returns)})

GenerateCondition ==
  /\ Generating("condition")
  /\ Emit(Null, {w \in {"condition"} : value[node.expression] # I1})

EndGenerating ==
  /\ phase = "generating"
  /\ at = Len(nodes) + 1
  /\ phase' = "compiled"
  /\ UNCHANGED <<program, at, checked, generated>>

-----------------------------------------------------------------------------
Init ==
  /\ program \in Programs
  /\ phase = "checking"
  /\ at = 1
  /\ inferred = [i \in Indices |-> None]
  /\ cast = [i \in Indices |-> None]
  /\ errors = {}
  /\ slot = [i \in Indices |-> Null]
  /\ value = [i \in Indices |-> Null]
  /\ faults = {}

Check ==
  \/ CheckLeaf \/ CheckUnknown \/ CheckIdentifier \/ CheckCallee \/ CheckCall
  \/ SpreadPoison \/ CheckArithmetic \/ CheckComparison \/ CoercionCrashes
  \/ CheckBitwise \/ CheckLogical \/ CheckAssignment
  \/ CheckDeclaration \/ CheckReturn \/ CheckCondition \/ EndChecking

Generate ==
  \/ GenerateLeaf \/ GenerateIdentifier \/ GenerateCall
  \/ GenerateOperator \/ GenerateLogical \/ GenerateAssignment
  \/ GenerateDeclaration \/ GenerateReturn \/ GenerateCondition \/ EndGenerating

Next == Check \/ Generate

Spec == Init /\ [][Next]_vars

-----------------------------------------------------------------------------
(* Every variable but the program, a constant, has its type. *)
TypeOK ==
  /\ phase \in {"checking", "rejected", "crashed", "generating", "compiled", "aborted"}
  /\ at \in 1..(Len(nodes) + 1)
  /\ inferred \in [Indices -> Types \cup {None}]
  /\ cast \in [Indices -> Numbers \cup {None}]
  /\ \A e \in errors : e[1] \in 1..(Len(nodes) + 1)
  /\ \A i \in Indices : slot[i] = Null \/ nodes[i].form = "declaration"
  /\ DOMAIN value = Indices
  /\ \A f \in faults : f[1] \in Indices

Accepted == phase \in {"generating", "compiled", "aborted"}

(* What the language asks of a node, given the types of all, casts         *)
(* included: the rules without the order they are checked in.              *)
TypedOperator(n, t) ==
  LET l == TypeOf(n.lhs)
  IN  /\ TypeOf(n.rhs) = l
      /\ n.category = "arithmetic" => t = l /\ l \in Numbers \cup {Boolean}
      /\ n.category = "bitwise"    => t = l /\ l \in Numbers /\ l.kind = "unsigned"
      /\ n.category = "comparison" => t = Boolean /\ l \in Numbers \cup {Boolean}
      /\ n.category = "logical"    => t = Boolean /\ l = Boolean
      /\ n.category = "assignment" => t = Void

TypedCall(n, t) ==
  LET signature == nodes[n.callee].signature
  IN  /\ t = signature.returns
      /\ \A k \in DOMAIN signature.arguments :
           TypeOf(n.arguments[k]) = signature.arguments[k]

Typed(i) ==
  LET n == nodes[i]
      t == inferred[i]
  IN  /\ n.form # "unknown"
      /\ n.form \in {"literal", "argument"} => t = n.type
      /\ n.form = "identifier"  => t = TypeOf(nodes[n.of].init)
      /\ n.form = "callee"      => t = Signature
      /\ n.form = "call"        => TypedCall(n, t)
      /\ n.form = "operator"    => TypedOperator(n, t)
      /\ n.form = "declaration" => n.specified \in {None, TypeOf(n.init)}
      /\ n.form = "return"      => program.returns \in {Void, TypeOf(n.expression)}
      /\ n.form = "condition"   => TypeOf(n.expression) = Boolean

(***************************************************************************)
(* A body that reaches compile_to_ir is typed at every node, those in      *)
(* blocks and argument lists the checker may skip included, nothing is     *)
(* poisoned, and casts are between numbers.                                *)
(***************************************************************************)
AcceptedIsTyped ==
  Accepted =>
    \A i \in Indices :
      /\ TypeOf(i) \notin {None, Poison}
      /\ Typed(i)
      /\ cast[i] # None => IsNumerical(inferred[i]) /\ IsNumerical(cast[i])

(***************************************************************************)
(* The widening order: an integer widens to one of its kind or to a float  *)
(* that is no smaller, a float to a larger float.                          *)
(***************************************************************************)
Widens(s, t) ==
  \/ s = t
  \/ s \in Numbers /\ t \in Numbers /\ s.size <= t.size /\ t.kind \in {s.kind, "float"}

LeastUpperBound(t, l, r) ==
  /\ Widens(l, t) /\ Widens(r, t)
  /\ \A u \in Numbers \cup {Boolean} : Widens(l, u) /\ Widens(r, u) => Widens(t, u)

Visited(i) == i \in Indices /\ inferred[i] # None
IsCoercing(i) == nodes[i].form = "operator" /\ nodes[i].category \in {"arithmetic", "comparison"}

CoercionReported(i) ==
  \E e \in errors : e \in {<<i, "operand">>, <<i, "signedness">>,
                         <<nodes[i].lhs, "cast">>, <<nodes[i].rhs, "cast">>}

CoercesToLeast(i) ==
  LET l == inferred[nodes[i].lhs]
      r == inferred[nodes[i].rhs]
      meet == {t \in Numbers \cup {Boolean} : LeastUpperBound(t, l, r)}
  IN  IF DifferentSignedness(l, r) \/ meet = {} THEN CoercionReported(i)
      ELSE ~CoercionReported(i) /\ {TypeOf(nodes[i].lhs), TypeOf(nodes[i].rhs)} \subseteq meet

(***************************************************************************)
(* The operands of an arithmetic operator or comparison meet at the least  *)
(* type both widen to: neither size shrinks, an integer next to a float    *)
(* becomes a float (of its size, so it may be rounded), and no wider type  *)
(* is taken.  coerce_types reports an error exactly if there is no such    *)
(* type, or for mixed signedness.                                          *)
(***************************************************************************)
CoercionIsLeast ==
  \A i \in Indices :
    /\ IsCoercing(i) /\ Visited(i)
    /\ Poison \notin {inferred[nodes[i].lhs], inferred[nodes[i].rhs]}
    => CoercesToLeast(i)

(* The operands i is judged by. *)
Operands(i) ==
  LET n == nodes[i]
  IN  CASE n.form = "operator"    -> {n.lhs, n.rhs}
        [] n.form = "declaration" -> {n.init}
        [] n.form = "return"      -> {n.expression}
        [] n.form = "call"        -> {n.callee} \cup Parts(n)
        [] OTHER                  -> {}

(* The nodes an error judges by their types: the one node that is cast or  *)
(* passed, else the operands.                                              *)
Judged(e) == IF e[2] \in {"cast", "argument"} THEN {e[1]} ELSE Operands(e[1])

(* The operands whose poison i takes over. *)
Carriers(i) ==
  LET n == nodes[i]
  IN  CASE n.form = "operator" -> {n.lhs, n.rhs}
        [] n.form = "call"     -> {n.callee}
        [] OTHER               -> {}

(***************************************************************************)
(* Poison is what an error leaves behind, never without one.  It spreads   *)
(* to the operators above it and from a callee to its call, and keeps      *)
(* them from reporting the same error again: operators, declarations and   *)
(* returns (typecheck.cpp:589-597, 748, 1065), the call of a poisoned      *)
(* callee (975-978), and a call of a poisoned argument, for that argument  *)
(* (1018-1021).  Only conditions report it again.                          *)
(***************************************************************************)
PoisonIsReportedOnce ==
  /\ (\E i \in Indices : TypeOf(i) = Poison) => errors # {}
  /\ \A i \in Indices : Visited(i) /\ (\E o \in Carriers(i) : inferred[o] = Poison) =>
       inferred[i] = Poison
  /\ \A e \in errors : e[1] \in Indices => \A o \in Judged(e) : inferred[o] # Poison

HasValue(i) ==
  /\ nodes[i].form \in {"literal", "argument", "identifier", "call", "operator"}
  /\ TypeOf(i) # Void
  /\ ~IsStore(i)

(***************************************************************************)
(* The generator's values have the types the checker gave their nodes,     *)
(* though each side decides by itself: loads by the use of a variable,     *)
(* allocas by its initialiser, operators by their left operand.            *)
(***************************************************************************)
ValuesHaveTheirTypes ==
  /\ Accepted => \A i \in Indices : i < at /\ HasValue(i) => value[i] = Convert(TypeOf(i))
  /\ \A f \in faults : f[2] \notin {"load", "operands", "condition"}

(***************************************************************************)
(* What the generator cannot do with a body the checker accepts: casts     *)
(* other than between signed integers and to floats; declarations without  *)
(* initialiser, of type void, or of no type at all, arguments included;    *)
(* assignment to what is neither a variable nor a pointer; values of type  *)
(* void as arguments; and values returned from a void procedure (a call of *)
(* one is no value).                                                       *)
(***************************************************************************)
CastsAreSupported ==
  \A i \in Indices : cast[i] # None =>
    cast[i].kind = "float" \/ {inferred[i].kind, cast[i].kind} = {"signed"}

DeclarationsAreSupported ==
  /\ ~Untyped
  /\ \A i \in Indices : nodes[i].form = "declaration" =>
       nodes[nodes[i].init].form # "nop" /\ TypeOf(nodes[i].init) # Void

AssignmentsAreSupported ==
  \A i \in Indices : nodes[i].form = "operator" /\ nodes[i].category = "assignment" =>
    nodes[nodes[i].lhs].form = "identifier" \/ TypeOf(nodes[i].lhs) = StringLiteral

CallsAreSupported ==
  \A i \in Indices : nodes[i].form = "call" =>
    \A k \in DOMAIN nodes[i].arguments : TypeOf(nodes[i].arguments[k]) # Void

ReturnsAreSupported ==
  \A i \in Indices : nodes[i].form = "return" /\ program.returns = Void =>
    nodes[nodes[i].expression].form \in {"nop", "call"} /\ TypeOf(nodes[i].expression) \in {Nop, Void}

Supported ==
  /\ CastsAreSupported /\ DeclarationsAreSupported /\ AssignmentsAreSupported
  /\ CallsAreSupported /\ ReturnsAreSupported

(* These are all its gaps: every other accepted body becomes valid IR. *)
CompilesExactlyIfSupported ==
  /\ phase = "compiled" => (Supported <=> faults = {})
  /\ phase = "aborted"  => ~Supported

(* The checker reads a null type only for a boolean and a wider integer.   *)
CrashNeedsBoolean ==
  phase = "crashed" => left = Boolean /\ right.kind \in {"signed", "unsigned"} /\ right.size > 1

(* Violated: a boolean operand next to a number is an error like any other. *)
(* 000-basics.fsl:66-67 expects one of such an expression, and so does the  *)
(* disabled typecheck_test.cpp:157-163, under "Invalid operands".           *)
OperandsAreRejected == phase # "crashed"
=============================================================================
