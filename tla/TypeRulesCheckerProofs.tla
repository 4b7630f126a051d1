---------------------- MODULE TypeRulesCheckerProofs ----------------------
(***************************************************************************)
(* Theorems about what the checker leaves behind when it does report       *)
(* errors: TypeRulesProofs follows the bodies it accepts, this module all  *)
(* of them.  And about what comes after: the values IrCompiler generates   *)
(* for a body the checker accepts, and which bodies become valid IR.  The  *)
(* checker's invariants say what the generator finds.                      *)
(***************************************************************************)
EXTENDS TypeRulesProofs

-----------------------------------------------------------------------------
(* The invariant. *)

(* Everything before this node has been checked or skipped. *)
Reach == IF Accepted THEN Len(nodes) + 1 ELSE at

(* Node i is in what an error at a condition or a callee made the checker  *)
(* skip before it came to m: a block, or the arguments of a call.          *)
Skipped(i, m) ==
  \E c \in Indices :
    \/ nodes[c].form = "condition" /\ i \in (c + 1)..nodes[c].end /\ nodes[c].end < m
    \/ nodes[c].form = "callee" /\ i \in (c + 1)..(nodes[c].call - 1) /\ nodes[c].call < m

(* Casts are made of a number, by the node it is part of, and never of the *)
(* address an assignment stores to.                                        *)
CastInv ==
  \A i \in Indices : cast[i] # None =>
    /\ IsNumerical(inferred[i]) /\ cast[i] # inferred[i]
    /\ nodes[i].form # "nop" /\ ~IsStore(i)
    /\ \E j \in Indices : j < Reach /\ i \in Parts(nodes[j])

(* Nothing has the type of nothing, unless it is a variable's initialiser. *)
NopInv ==
  \A i \in Indices : nodes[i].form = "nop" =>
    \/ inferred[i] \in {None, Nop}
    \/ \E d \in Indices : d < Reach /\ nodes[d].form = "declaration" /\ nodes[d].init = i

SignatureInv == \A i \in Indices : nodes[i].form # "callee" => inferred[i] # Signature

(* What has a type has been checked, or is the call of a checked callee. *)
VisitInv ==
  \A i \in Indices : inferred[i] # None =>
    i < Reach \/ (nodes[i].form = "call" /\ nodes[i].callee < Reach)

(* What has no type was skipped. *)
SkipInv ==
  \A i \in Indices :
    \/ nodes[i].form = "operator" /\ i < Reach
    \/ nodes[i].form = "call" /\ nodes[i].callee < Reach
    => inferred[i] # None \/ Skipped(i, Reach)

(* The poison of operands and callees reaches the operator or the call. *)
SpreadInv ==
  \A i \in Indices :
    inferred[i] \notin {None, Poison} => \A o \in Carriers(i) : inferred[o] # Poison

(* There is no poison without an error. *)
PoisonInv == (\E i \in Indices : inferred[i] = Poison) => errors # {}

CInv ==
  /\ IInv
  /\ CastInv /\ NopInv /\ SignatureInv /\ VisitInv /\ SkipInv /\ SpreadInv /\ PoisonInv

-----------------------------------------------------------------------------
(* More facts about bodies. *)

LEMMA PartsAreExpressions ==
  ASSUME program \in Programs, NEW i \in Indices, NEW k \in Parts(nodes[i])
  PROVE  \/ nodes[k].form \in ExpressionForms
         \/ nodes[k].form = "nop" /\ nodes[i].form \in {"declaration", "return"}
<1>1. WellFormed(program)
  BY ProgramsAssumption
<1> QED BY <1>1 DEF WellFormed, nodes, Indices

LEMMA PartsAreBefore ==
  ASSUME program \in Programs, NEW i \in Indices, NEW k \in Parts(nodes[i])
  PROVE  k \in Indices /\ k \in Int /\ i \in Int /\ k < i
<1>1. NodeFacts(i) /\ Len(nodes) \in Nat /\ Indices = 1..Len(nodes)
  BY Bodies
<1> QED BY <1>1 DEF NodeFacts

(* The types of what has a value, and Void. *)
LEMMA TypesOfValues ==
  /\ ValueTypes \cup {Void} \subseteq Types
  /\ \A t \in ValueTypes \cup {Void} : t \notin {Poison, None, Nop, Signature}
  /\ Void \notin ValueTypes /\ Nop \in Types /\ Nop \notin {Poison, None, Signature}
<1>1. Void # Signature /\ Boolean \notin {Void, Signature} /\ StringLiteral \notin {Void, Signature}
  BY KindAndSize DEF Void, Signature, Boolean, StringLiteral
<1>2. ASSUME NEW t \in ValueTypes \cup {Void} PROVE t \notin {Poison, None, Nop, Signature}
  <2>1. CASE t \in Numbers
    BY <2>1, DistinctTypes
  <2>2. CASE t \in {Boolean, StringLiteral, Void}
    BY <1>1, <2>2, DistinctTypes
  <2> QED BY <2>1, <2>2 DEF ValueTypes
<1>3. Void \notin ValueTypes
  BY <1>1, DistinctTypes DEF ValueTypes
<1>4. Nop \in Types /\ ValueTypes \cup {Void} \subseteq Types
  BY DEF Types, BuiltinTypes, ValueTypes
<1> QED BY <1>2, <1>3, <1>4, DistinctTypes

-----------------------------------------------------------------------------
(* What a step of the checker changes, with or without errors. *)

(* An error a step may report: about the node at hand when its operands    *)
(* are healthy, about a part of it that is, or about the call of a healthy *)
(* callee, whose arguments are skipped then.                               *)
Fresh(e) ==
  \/ /\ e[1] = at /\ e[2] \notin {"cast", "argument"}
     /\ \A o \in Operands(at) : inferred[o] # Poison
  \/ e[1] \in Parts(node) /\ e[2] \in {"cast", "argument"} /\ inferred[e[1]] # Poison
  \/ /\ node.form = "callee" /\ e[1] = node.call /\ e[2] \in {"callable", "number"}
     /\ node.type # Poison /\ at' = node.call + 1

NewType(j) ==
  \/ j = at /\ node.form # "call"
  \/ nodes[j].form = "call" /\ nodes[j].callee = at
  \/ /\ node.form = "declaration" /\ j = node.init /\ nodes[j].form = "nop"
     /\ inferred[j] # Poison /\ inferred'[j] \in ValueTypes

NewCast(j) ==
  /\ j \in Parts(node) /\ ~IsStore(j)
  /\ IsNumerical(inferred[j]) /\ inferred'[j] = inferred[j] /\ cast'[j] # inferred[j]

GivenType ==
  /\ node.form # "callee" => inferred'[at] # Signature
  /\ node.form = "nop" => inferred'[at] = Nop
  /\ node.form = "operator" /\ inferred'[at] # Poison =>
       inferred'[at] # None /\ Poison \notin {inferred[node.lhs], inferred[node.rhs]}
  /\ node.form = "callee" =>
       /\ inferred'[at] = node.type
       /\ inferred'[node.call] = IF node.type = Signature THEN node.signature.returns ELSE Poison

Footprint ==
  /\ \/ at' = at + 1
     \/ node.form = "condition" /\ at' = node.end + 1
     \/ node.form = "callee" /\ at' = node.call + 1
  /\ \A j \in Indices : inferred'[j] # inferred[j] => NewType(j)
  /\ \A j \in Indices : cast'[j] # cast[j] => NewCast(j)
  /\ GivenType
  /\ (\E j \in Indices : inferred'[j] = Poison) => errors' # {}
  /\ \A e \in errors' : e \in errors \/ Fresh(e)

(* The parts of the node at hand have not been cast. *)
LEMMA PartsAreUncast ==
  ASSUME IType, CastInv, phase = "checking", at \in Indices, NEW k \in Parts(node)
  PROVE  /\ k \in Indices /\ k < at /\ k \in Int /\ at \in Int
         /\ cast[k] = None /\ TypeOf(k) = inferred[k]
<1>1. k \in Indices /\ k < at /\ k \in Int /\ at \in Int
  BY PartsAreBefore DEF IType, node
<1>2. ASSUME cast[k] # None PROVE FALSE
  <2>1. PICK j \in Indices : j < Reach /\ k \in Parts(nodes[j])
    BY <1>1, <1>2 DEF CastInv
  <2>2. j # at
    BY <2>1, <1>1 DEF Reach, Accepted
  <2> QED BY <2>1, <2>2, Bodies DEF IType, node
<1> QED BY <1>1, <1>2 DEF TypeOf

LEMMA OperandsOf ==
  ASSUME NEW i
  PROVE  /\ nodes[i].form = "operator" => Operands(i) = {nodes[i].lhs, nodes[i].rhs}
         /\ nodes[i].form = "declaration" => Operands(i) = {nodes[i].init}
         /\ nodes[i].form = "return" => Operands(i) = {nodes[i].expression}
         /\ nodes[i].form = "call" => Operands(i) = {nodes[i].callee} \cup Parts(nodes[i])
         /\ nodes[i].form \notin {"operator", "declaration", "return", "call"} => Operands(i) = {}
BY DEF Operands

LEMMA CarriersOf ==
  ASSUME NEW i
  PROVE  /\ nodes[i].form = "operator" => Carriers(i) = {nodes[i].lhs, nodes[i].rhs}
         /\ nodes[i].form = "call" => Carriers(i) = {nodes[i].callee}
         /\ nodes[i].form \notin {"operator", "call"} => Carriers(i) = {}
BY DEF Carriers

(* Casting some parts of the node at hand, none of which is stored to. *)
LEMMA CastFootprint ==
  ASSUME IType, CastInv, phase = "checking", at \in Indices,
         NEW S, NEW t, t \in Types \/ S = {}, CastAll(S, t),
         S \subseteq Parts(node), \A k \in S : ~IsStore(k),
         \A j \in Indices : j # at => inferred'[j] = inferred[j]
  PROVE  \A j \in Indices : cast'[j] # cast[j] => NewCast(j)
<1> SUFFICES ASSUME NEW j \in Indices, cast'[j] # cast[j]
             PROVE  NewCast(j)
  OBVIOUS
<1>1. j \in S /\ TypeOf(j) # t /\ CanCast(TypeOf(j), t) /\ cast'[j] = t
  BY DEF CastAll
<1>2. j \in Parts(node) /\ ~IsStore(j) /\ TypeOf(j) = inferred[j] /\ j # at
  BY <1>1, PartsAreUncast
<1> QED BY <1>1, <1>2 DEF CanCast, NewCast

(* The operands of the node at hand are read without casts. *)
LEMMA OperandsAreUncast ==
  ASSUME IType, CastInv, phase = "checking", at \in Indices, node.form = "operator"
  PROVE  /\ left = inferred[node.lhs] /\ right = inferred[node.rhs]
         /\ Operands(at) = {node.lhs, node.rhs}
         /\ Healthy <=> \A o \in Operands(at) : inferred[o] # Poison
         /\ node.lhs # node.rhs
<1>1. Parts(node) = {node.lhs, node.rhs} /\ Operands(at) = {node.lhs, node.rhs}
  BY PartsByForm, OperandsOf DEF node
<1>2. left = inferred[node.lhs] /\ right = inferred[node.rhs]
  BY <1>1, PartsAreUncast DEF left, right
<1>3. node.lhs # node.rhs
  BY Bodies DEF IType, NodeFacts, WellFormedNode, node
<1> QED BY <1>1, <1>2, <1>3 DEF Healthy

(* An operator other than an assignment stores to nothing. *)
LEMMA StoresOf ==
  ASSUME program \in Programs, NEW i \in Indices, NEW k \in Parts(nodes[i])
  PROVE  IsStore(k) <=> /\ nodes[i].form = "operator" /\ nodes[i].category = "assignment"
                        /\ nodes[i].lhs = k
<1>1. ASSUME NEW j \in Indices, nodes[j].form = "operator", nodes[j].lhs = k
      PROVE  j = i
  <2>1. k \in Parts(nodes[j])
    BY <1>1, PartsByForm
  <2> QED BY <2>1, Bodies
<1> QED BY <1>1 DEF IsStore

(* A step that infers one type, casts parts and reports fresh errors. *)
LEMMA PlainFootprint ==
  ASSUME IType, CastInv, phase = "checking", at \in Indices,
         node.form \notin {"call", "callee"}, PoisonInv,
         NEW t \in Types \cup {None}, Infer(t), at' = at + 1,
         t # Signature, node.form = "nop" => t = Nop,
         node.form = "operator" /\ t # Poison => t # None /\ Healthy,
         \A j \in Indices : cast'[j] # cast[j] => NewCast(j),
         NEW E, errors' = errors \cup E, \A e \in E : Fresh(e),
         t = Poison => errors' # {}
  PROVE  Footprint
<1>1. /\ inferred'[at] = t
      /\ \A j \in Indices : j # at => inferred'[j] = inferred[j]
  BY DEF IType, TypeOK, Infer
<1>2. \A j \in Indices : inferred'[j] # inferred[j] => NewType(j)
  BY <1>1 DEF NewType
<1>3. GivenType
  BY <1>1, OperandsAreUncast DEF GivenType, Healthy
<1>4. ASSUME NEW j \in Indices, inferred'[j] = Poison PROVE errors' # {}
  <2>1. CASE j = at
    BY <1>1, <1>4, <2>1
  <2>2. CASE j # at
    BY <1>1, <1>4, <2>2 DEF PoisonInv
  <2> QED BY <2>1, <2>2
<1>5. \A e \in errors' : e \in errors \/ Fresh(e)
  OBVIOUS
<1> QED BY <1>2, <1>3, <1>4, <1>5 DEF Footprint

(* The same without casts and errors. *)
LEMMA QuietFootprint ==
  ASSUME IType, CastInv, phase = "checking", at \in Indices,
         node.form \notin {"call", "callee"}, PoisonInv,
         NEW t \in Types \cup {None}, Infer(t), at' = at + 1,
         t # Signature, node.form = "nop" => t = Nop,
         node.form = "operator" /\ t # Poison => t # None /\ Healthy,
         cast' = cast, errors' = errors, t = Poison => errors # {}
  PROVE  Footprint
<1> DEFINE E == {}
<1>1. errors' = errors \cup E /\ \A e \in E : Fresh(e)
  OBVIOUS
<1>2. \A j \in Indices : cast'[j] # cast[j] => NewCast(j)
  OBVIOUS
<1> HIDE DEF E
<1> QED BY <1>1, <1>2, PlainFootprint

-----------------------------------------------------------------------------
(* One lemma per action of the checker. *)

Ready == IType /\ CastInv /\ SignatureInv /\ PoisonInv

LEMMA LeafFootprint ==
  ASSUME Ready, CheckLeaf
  PROVE  Footprint
<1>1. at \in Indices /\ phase = "checking" /\ node.form \in {"literal", "argument", "nop"}
        /\ Infer(node.type) /\ GoOn /\ cast' = cast /\ errors' = errors
  BY DEF CheckLeaf, Visiting
<1>2. /\ node.type \in ValueTypes \cup {Nop}
      /\ node.form = "nop" => node.type = Nop
  BY <1>1, Bodies DEF Ready, IType, NodeFacts, WellFormedNode, node
<1>3. node.type \in Types /\ node.type \notin {Signature, Poison}
  <2>1. node.type \in Numbers \cup {Boolean, StringLiteral, Nop}
    BY <1>2 DEF ValueTypes
  <2>2. node.type \in Types
    BY <2>1 DEF Types, BuiltinTypes
  <2>3. node.type \notin {Signature, Poison}
    BY <1>2, TypesOfValues
  <2> QED BY <2>2, <2>3
<1>4. node.form \notin {"call", "callee", "operator"} /\ at' = at + 1
  BY <1>1 DEF GoOn
<1> QED BY <1>1, <1>2, <1>3, <1>4, QuietFootprint DEF Ready

LEMMA UnknownFootprint ==
  ASSUME Ready, CheckUnknown
  PROVE  Footprint
<1>1. at \in Indices /\ phase = "checking" /\ node.form = "unknown"
        /\ Infer(Poison) /\ GoOn /\ cast' = cast /\ errors' = errors \cup {<<at, "unknown">>}
  BY DEF CheckUnknown, Visiting, Report
<1>2. Poison \in Types /\ Poison # Signature
  BY DistinctTypes DEF Types, BuiltinTypes
<1>3. \A e \in {<<at, "unknown">>} : Fresh(e)
  <2>1. <<at, "unknown">>[1] = at /\ <<at, "unknown">>[2] = "unknown"
    OBVIOUS
  <2>2. Operands(at) = {}
    BY <1>1, OperandsOf DEF node
  <2> QED BY <2>1, <2>2 DEF Fresh
<1>4. node.form \notin {"call", "callee", "operator", "nop"} /\ at' = at + 1
  BY <1>1 DEF GoOn
<1>5. errors' # {} /\ \A j \in Indices : cast'[j] # cast[j] => NewCast(j)
  BY <1>1
<1> QED BY <1>1, <1>2, <1>3, <1>4, <1>5, PlainFootprint DEF Ready

LEMMA IdentifierFootprint ==
  ASSUME Ready, CheckIdentifier
  PROVE  Footprint
<1> DEFINE init == nodes[node.of].init
<1>1. at \in Indices /\ phase = "checking" /\ node.form = "identifier"
        /\ Infer(TypeOf(init)) /\ GoOn /\ cast' = cast /\ errors' = errors
  BY DEF CheckIdentifier, Visiting
<1>2. node.of \in Indices /\ nodes[node.of].form = "declaration"
  BY <1>1, Bodies DEF Ready, IType, NodeFacts, WellFormedNode, node
<1>3. init \in Parts(nodes[node.of])
  BY <1>2, PartsByForm
<1>4. init \in Indices /\ nodes[init].form # "callee"
  BY <1>2, <1>3, PartsAreBefore, PartsAreExpressions DEF Ready, IType, ExpressionForms
<1>5. cast[init] \in Numbers \cup {None} /\ inferred[init] # Signature
  BY <1>4 DEF Ready, IType, TypeOK, SignatureInv
<1>6. TypeOf(init) \in Types \cup {None} /\ TypeOf(init) # Signature
  BY <1>4, <1>5, DistinctTypes, TypeOfTypes DEF Ready, TypeOf
<1>7. TypeOf(init) = Poison => errors # {}
  BY <1>4, <1>5, DistinctTypes DEF TypeOf, Ready, PoisonInv
<1>8. node.form \notin {"call", "callee", "operator", "nop"} /\ at' = at + 1
  BY <1>1 DEF GoOn
<1> HIDE DEF init
<1> QED BY <1>1, <1>6, <1>7, <1>8, QuietFootprint DEF Ready

LEMMA CalleeFootprint ==
  ASSUME Ready, CheckCallee
  PROVE  Footprint
<1> DEFINE c == node.call
           type == IF node.type = Signature THEN node.signature.returns ELSE Poison
           fits == FitsSignature(nodes[c], node.signature)
           wrong == CASE node.type = Poison -> {<<at, "unknown">>}
                      [] node.type \notin {Poison, Signature} -> {<<c, "callable">>}
                      [] node.type = Signature -> IF fits THEN {} ELSE {<<c, "number">>}
<1>1. /\ at \in Indices /\ phase = "checking" /\ node.form = "callee"
      /\ cast' = cast /\ errors' = errors \cup wrong
      /\ inferred' = [inferred EXCEPT ![at] = node.type, ![c] = type]
      /\ at' = IF wrong = {} THEN at + 1 ELSE c + 1
  BY DEF CheckCallee, Visiting, Report
<1>2. /\ c \in Indices /\ c # at /\ nodes[c].form = "call" /\ nodes[c].callee = at
      /\ node.signature \in Signatures /\ node.type \in Types
  <2>1. Len(nodes) \in Nat /\ Indices = 1..Len(nodes) /\ at \in Int /\ NodeFacts(at)
    BY <1>1, Bodies DEF Ready, IType
  <2> QED BY <1>1, <2>1 DEF NodeFacts, WellFormedNode, node
<1>3. /\ inferred'[at] = node.type /\ inferred'[c] = type
      /\ \A j \in Indices : j \notin {at, c} => inferred'[j] = inferred[j]
  <2> HIDE DEF c, type
  <2>1. inferred \in [Indices -> Types \cup {None}]
    BY DEF Ready, IType, TypeOK
  <2>2. inferred' = [inferred EXCEPT ![at] = node.type, ![c] = type]
    BY <1>1
  <2> QED BY <1>1, <1>2, <2>1, <2>2
<1>4. /\ Poison # Signature
      /\ wrong = {} => node.type = Signature
      /\ \A e \in wrong : \/ e = <<at, "unknown">>
                          \/ /\ e \in {<<c, "callable">>, <<c, "number">>}
                             /\ node.type # Poison /\ at' = c + 1
  <2>1. Poison # Signature
    BY DistinctTypes
  <2>2. CASE node.type = Poison
    BY <2>1, <2>2
  <2>3. CASE node.type = Signature
    BY <1>1, <2>1, <2>3
  <2>4. CASE node.type \notin {Poison, Signature}
    BY <1>1, <2>1, <2>4
  <2> QED BY <2>2, <2>3, <2>4
<1> HIDE DEF wrong
<1>5. \A e \in wrong : Fresh(e)
  <2>1. <<at, "unknown">>[1] = at /\ <<at, "unknown">>[2] = "unknown"
    OBVIOUS
  <2>2. <<c, "callable">>[1] = c /\ <<c, "callable">>[2] = "callable"
    OBVIOUS
  <2>3. <<c, "number">>[1] = c /\ <<c, "number">>[2] = "number"
    OBVIOUS
  <2>4. Operands(at) = {}
    BY <1>1, OperandsOf DEF node
  <2> HIDE DEF c
  <2>5. ASSUME NEW e \in wrong, e = <<at, "unknown">> PROVE Fresh(e)
    BY <2>1, <2>4, <2>5 DEF Fresh
  <2>6. ASSUME NEW e \in wrong, e \in {<<c, "callable">>, <<c, "number">>},
               node.type # Poison, at' = c + 1
        PROVE  Fresh(e)
    <3>1. e[1] = node.call /\ e[2] \in {"callable", "number"} /\ at' = node.call + 1
      BY <2>2, <2>3, <2>6 DEF c
    <3> QED BY <1>1, <2>6, <3>1 DEF Fresh
  <2> QED BY <1>4, <2>5, <2>6
<1>6. ASSUME NEW j \in Indices, inferred'[j] = Poison PROVE errors' # {}
  <2>1. CASE j \in {at, c}
    <3>1. node.type # Signature
      <4>1. ASSUME node.type = Signature PROVE type # Poison
        BY <1>2, <4>1, DistinctTypes DEF Signatures, ValueTypes
      <4> QED BY <1>3, <1>4, <1>6, <2>1, <4>1
    <3> QED BY <1>1, <1>4, <3>1
  <2>2. CASE j \notin {at, c}
    BY <1>1, <1>3, <1>6, <2>2 DEF Ready, PoisonInv
  <2> QED BY <2>1, <2>2
<1>7. \A j \in Indices : inferred'[j] # inferred[j] => NewType(j)
  BY <1>1, <1>2, <1>3 DEF NewType
<1>8. GivenType
  BY <1>1, <1>3 DEF GivenType
<1>9. \A e \in errors' : e \in errors \/ Fresh(e)
  BY <1>1, <1>5
<1> QED BY <1>1, <1>6, <1>7, <1>8, <1>9 DEF Footprint

LEMMA CallFootprint ==
  ASSUME Ready, CheckCall
  PROVE  Footprint
<1> DEFINE signature == nodes[node.callee].signature
           mismatch == {k \in DOMAIN signature.arguments :
                          TypeOf(node.arguments[k]) \notin {Poison, signature.arguments[k]}}
<1>1. /\ at \in Indices /\ phase = "checking" /\ node.form = "call" /\ GoOn
      /\ inferred' = inferred /\ cast' = cast
      /\ errors' = errors \cup {<<node.arguments[k], "argument">> : k \in mismatch}
  BY DEF CheckCall, Visiting, Report
<1>2. \A k \in DOMAIN signature.arguments : node.arguments[k] \in Parts(node)
  <2>1. /\ node.callee \in Indices /\ node.callee < at /\ nodes[node.callee].form = "callee"
        /\ nodes[node.callee].call = at /\ at \in Int
    <3>1. Len(nodes) \in Nat /\ Indices = 1..Len(nodes) /\ at \in Int /\ NodeFacts(at)
      BY <1>1, Bodies DEF Ready, IType
    <3> QED BY <1>1, <3>1 DEF NodeFacts, WellFormedNode, node
  <2>2. FitsSignature(node, signature)
    BY <1>1, <2>1 DEF Ready, IType, CallsPending, node
  <2> QED BY <1>1, <2>2, ArgumentsAreParts DEF Ready, node
<1>3. ASSUME NEW k \in mismatch PROVE Fresh(<<node.arguments[k], "argument">>)
  <2> DEFINE a == node.arguments[k]
  <2>1. a \in Parts(node) /\ TypeOf(a) # Poison
    BY <1>2
  <2>2. inferred[a] # Poison
    BY <1>1, <2>1, PartsAreUncast DEF Ready
  <2>3. <<a, "argument">>[1] = a /\ <<a, "argument">>[2] = "argument"
    OBVIOUS
  <2> HIDE DEF a
  <2>4. Fresh(<<a, "argument">>)
    BY <2>1, <2>2, <2>3 DEF Fresh
  <2> QED BY <2>4 DEF a
<1>4. \A e \in errors' : e \in errors \/ Fresh(e)
  BY <1>1, <1>3
<1>5. GivenType
  <2>1. at \in Indices /\ nodes[at].form # "callee" => inferred[at] # Signature
    BY <1>1 DEF Ready, SignatureInv
  <2> QED BY <1>1, <2>1 DEF GivenType, node
<1>6. (\E j \in Indices : inferred'[j] = Poison) => errors' # {}
  BY <1>1 DEF Ready, PoisonInv
<1> QED BY <1>1, <1>4, <1>5, <1>6 DEF Footprint, GoOn

LEMMA SpreadPoisonFootprint ==
  ASSUME Ready, SpreadPoison
  PROVE  Footprint
<1>1. at \in Indices /\ phase = "checking" /\ node.form = "operator" /\ ~Healthy
        /\ Infer(Poison) /\ at' = at + 1 /\ cast' = cast /\ errors' = errors
  BY DEF SpreadPoison, Visiting, GoOn
<1>2. Poison \in Types /\ Poison # Signature
  BY DistinctTypes DEF Types, BuiltinTypes
<1>3. errors # {}
  <2>1. PICK k \in {node.lhs, node.rhs} : inferred[k] = Poison
    BY <1>1, OperandsAreUncast DEF Ready, Healthy
  <2>2. k \in Indices
    BY <1>1, <2>1, OperatorFacts DEF Ready
  <2> QED BY <2>1, <2>2 DEF Ready, PoisonInv
<1> QED BY <1>1, <1>2, <1>3, QuietFootprint DEF Ready

(* An error about the node at hand, or about casting a part of it. *)
LEMMA FreshErrors ==
  ASSUME NEW e, NEW what,
         \/ /\ e = <<at, what>> /\ what \notin {"cast", "argument"}
            /\ \A o \in Operands(at) : inferred[o] # Poison
         \/ \E k \in Parts(node) : e = <<k, "cast">> /\ inferred[k] # Poison
  PROVE  Fresh(e)
<1>1. CASE /\ e = <<at, what>> /\ what \notin {"cast", "argument"}
           /\ \A o \in Operands(at) : inferred[o] # Poison
  <2>1. e[1] = at /\ e[2] = what
    BY <1>1
  <2> QED BY <1>1, <2>1 DEF Fresh
<1>2. ASSUME NEW k \in Parts(node), e = <<k, "cast">>, inferred[k] # Poison
      PROVE  Fresh(e)
  <2>1. e[1] = k /\ e[2] = "cast"
    BY <1>2
  <2> QED BY <1>2, <2>1 DEF Fresh
<1> QED BY <1>1, <1>2

(* The parts of an operator other than an assignment. *)
LEMMA PartsOfOperators ==
  ASSUME Ready, at \in Indices, phase = "checking", node.form = "operator"
  PROVE  /\ Parts(node) = {node.lhs, node.rhs}
         /\ ~IsStore(node.rhs)
         /\ node.category # "assignment" => ~IsStore(node.lhs)
<1>1. Parts(node) = {node.lhs, node.rhs} /\ node.lhs # node.rhs
  BY OperatorFacts, OperandsAreUncast DEF Ready
<1>2. \A k \in Parts(node) : IsStore(k) <=> node.category = "assignment" /\ node.lhs = k
  BY StoresOf DEF Ready, IType, node
<1> QED BY <1>1, <1>2

LEMMA CoercingFootprint ==
  ASSUME Ready, Operator({"arithmetic", "comparison"}), Healthy, CoerceTypes, GoOn,
         NEW t \in Types, Infer(t), t \notin {None, Signature},
         Coercion(left, right) # "no type",
         Coercion(left, right) = "coerced" => t # Poison
  PROVE  Footprint
<1> DEFINE C == Coerced(left, right)
           outcome == Coercion(left, right)
           S == IF outcome \in {"coerced", "right"} THEN {node.lhs, node.rhs} ELSE {}
<1>1. /\ at \in Indices /\ phase = "checking" /\ node.form = "operator"
      /\ node.category \in {"arithmetic", "comparison"} /\ at' = at + 1
  BY DEF Operator, Visiting, GoOn
<1>2. errors' = errors \cup CoercionErrors /\ CastAll(S, C)
  BY DEF CoerceTypes, Report
<1>3. C \in Types \/ S = {}
  BY CoercionOutcome DEF Types, BuiltinTypes
<1>4. /\ Parts(node) = {node.lhs, node.rhs} /\ \A k \in Parts(node) : ~IsStore(k)
      /\ \A o \in Operands(at) : inferred[o] # Poison
      /\ Operands(at) = {node.lhs, node.rhs}
  BY <1>1, PartsOfOperators, OperandsAreUncast DEF Ready
<1>5. \A j \in Indices : cast'[j] # cast[j] => NewCast(j)
  <2>1. \A j \in Indices : j # at => inferred'[j] = inferred[j]
    BY DEF Ready, IType, TypeOK, Infer
  <2>2. S \subseteq Parts(node)
    BY <1>4
  <2>3. \A k \in S : ~IsStore(k)
    BY <1>4, <2>2
  <2> HIDE DEF S, C
  <2> QED BY <1>1, <1>2, <1>3, <2>1, <2>2, <2>3, CastFootprint DEF Ready
<1>6. \A e \in CoercionErrors :
        \/ e = <<at, outcome>> /\ outcome \notin {"cast", "argument"}
        \/ \E k \in {node.lhs, node.rhs} : e = <<k, "cast">>
  <2>1. CASE outcome \in {"operand", "signedness"}
    BY <2>1 DEF CoercionErrors
  <2>2. CASE outcome = "left"
    BY <2>2 DEF CoercionErrors
  <2>3. CASE outcome = "right"
    BY <2>3 DEF CoercionErrors
  <2>4. CASE outcome \notin {"operand", "signedness", "left", "right"}
    BY <2>4 DEF CoercionErrors
  <2> QED BY <2>1, <2>2, <2>3, <2>4
<1>7. \A e \in CoercionErrors : Fresh(e)
  <2> SUFFICES ASSUME NEW e \in CoercionErrors PROVE Fresh(e)
    OBVIOUS
  <2> HIDE DEF outcome
  <2>1. CASE e = <<at, outcome>> /\ outcome \notin {"cast", "argument"}
    BY <1>4, <2>1, FreshErrors
  <2>2. ASSUME NEW k \in {node.lhs, node.rhs}, e = <<k, "cast">> PROVE Fresh(e)
    BY <1>4, <2>2, FreshErrors
  <2> QED BY <1>6, <2>1, <2>2
<1>8. t = Poison => errors' # {}
  <2>1. outcome # "coerced" => CoercionErrors # {}
    BY CoercionOutcome DEF CoercionErrors
  <2> QED BY <1>2, <2>1
<1> HIDE DEF S, C, outcome
<1> QED BY <1>1, <1>2, <1>5, <1>7, <1>8, PlainFootprint DEF Ready

LEMMA ArithmeticFootprint ==
  ASSUME Ready, CheckArithmetic
  PROVE  Footprint
<1> DEFINE t == IF Coercion(left, right) = "coerced" THEN Coerced(left, right) ELSE Poison
<1>1. Coercion(left, right) = "coerced" => t \in Numbers \cup {Boolean}
  BY CoercionOutcome
<1>2. t \in Types /\ t \notin {None, Signature} /\ (Coercion(left, right) = "coerced" => t # Poison)
  <2>1. t \in Numbers \cup {Boolean, Poison}
    BY <1>1
  <2>2. \A s \in Numbers \cup {Boolean} : s \in Types /\ s \notin {None, Signature, Poison}
    BY TypesOfValues DEF ValueTypes
  <2>3. Poison \in Types /\ Poison \notin {None, Signature}
    BY DistinctTypes DEF Types, BuiltinTypes
  <2> QED BY <1>1, <2>1, <2>2, <2>3
<1>3. Operator({"arithmetic", "comparison"}) /\ Infer(t) /\ Healthy /\ CoerceTypes /\ GoOn
        /\ Coercion(left, right) # "no type"
  BY DEF CheckArithmetic, Operator
<1> HIDE DEF t
<1> QED BY <1>2, <1>3, CoercingFootprint

LEMMA ComparisonFootprint ==
  ASSUME Ready, CheckComparison
  PROVE  Footprint
<1>1. Boolean \in Types /\ Boolean \notin {None, Signature, Poison}
  BY TypesOfValues DEF ValueTypes
<1>2. Operator({"arithmetic", "comparison"})
  BY DEF CheckComparison, Operator
<1> QED BY <1>1, <1>2, CoercingFootprint DEF CheckComparison

LEMMA BitwiseFootprint ==
  ASSUME Ready, CheckBitwise
  PROVE  Footprint
<1> DEFINE wider == Basic("unsigned", Larger(left.size, right.size))
           unsigned == left.kind = "unsigned" /\ right.kind = "unsigned"
           S == {node.lhs, node.rhs}
<1>1. /\ at \in Indices /\ phase = "checking" /\ node.form = "operator" /\ Healthy
      /\ node.category = "bitwise" /\ at' = at + 1
  BY DEF CheckBitwise, Operator, Visiting, GoOn
<1>2. S = Parts(node) /\ (\A k \in S : ~IsStore(k)) /\ \A o \in Operands(at) : inferred[o] # Poison
  BY <1>1, PartsOfOperators, OperandsAreUncast DEF Ready
<1>3. CASE unsigned
  <2>1. Infer(wider) /\ CastAll(S, wider) /\ errors' = errors
    BY <1>3 DEF CheckBitwise
  <2>2. wider \in Numbers
    <3>1. left \in Numbers /\ right \in Numbers
      BY <1>1, <1>3, OperatorFacts, NumericalTypes DEF Ready
    <3>2. left.size \in {1, 2, 4, 8} /\ right.size \in {1, 2, 4, 8}
      BY <1>3, <3>1, NumberParts
    <3> QED BY <3>2, NumbersAre DEF Larger
  <2>3. wider \in Types /\ wider \notin {None, Signature, Poison}
    BY <2>2, TypesOfValues DEF ValueTypes
  <2>4. \A j \in Indices : j # at => inferred'[j] = inferred[j]
    BY <2>1 DEF Ready, IType, TypeOK, Infer
  <2> DEFINE E == {}
  <2>5. errors' = errors \cup E /\ \A e \in E : Fresh(e)
    BY <2>1
  <2> HIDE DEF S, wider, E
  <2>6. \A j \in Indices : cast'[j] # cast[j] => NewCast(j)
    BY <1>1, <1>2, <2>1, <2>3, <2>4, CastFootprint DEF Ready
  <2> QED BY <1>1, <2>1, <2>3, <2>5, <2>6, PlainFootprint DEF Ready
<1>4. CASE ~unsigned
  <2>1. Infer(Poison) /\ cast' = cast /\ errors' = errors \cup {<<at, "bitwise">>}
    BY <1>4 DEF CheckBitwise, Report
  <2>2. Poison \in Types /\ Poison # Signature
    BY DistinctTypes DEF Types, BuiltinTypes
  <2>3. \A e \in {<<at, "bitwise">>} : Fresh(e)
    BY <1>2, FreshErrors
  <2>4. errors' # {} /\ \A j \in Indices : cast'[j] # cast[j] => NewCast(j)
    BY <2>1
  <2> QED BY <1>1, <2>1, <2>2, <2>3, <2>4, PlainFootprint DEF Ready
<1> QED BY <1>3, <1>4

LEMMA LogicalFootprint ==
  ASSUME Ready, CheckLogical
  PROVE  Footprint
<1> DEFINE E == IF {left, right} = {Boolean} THEN {} ELSE {<<at, "boolean">>}
<1>1. /\ at \in Indices /\ phase = "checking" /\ node.form = "operator" /\ Healthy
      /\ at' = at + 1 /\ cast' = cast /\ Infer(Boolean) /\ errors' = errors \cup E
  BY DEF CheckLogical, Operator, Visiting, GoOn, Report
<1>2. Boolean \in Types /\ Boolean \notin {None, Signature, Poison}
  BY TypesOfValues DEF ValueTypes
<1>3. \A o \in Operands(at) : inferred[o] # Poison
  BY <1>1, OperandsAreUncast DEF Ready
<1>4. \A e \in E : e = <<at, "boolean">>
  OBVIOUS
<1> HIDE DEF E
<1>5. \A e \in E : Fresh(e)
  BY <1>3, <1>4, FreshErrors
<1>6. \A j \in Indices : cast'[j] # cast[j] => NewCast(j)
  BY <1>1
<1> QED BY <1>1, <1>2, <1>5, <1>6, PlainFootprint DEF Ready

LEMMA AssignmentFootprint ==
  ASSUME Ready, CheckAssignment
  PROVE  Footprint
<1> DEFINE S == {node.rhs}
           E == IF CanCast(right, left) THEN {} ELSE {<<node.rhs, "cast">>, <<at, "assignment">>}
<1>1. /\ at \in Indices /\ phase = "checking" /\ node.form = "operator" /\ Healthy
      /\ at' = at + 1 /\ Infer(Void) /\ CastAll(S, left) /\ errors' = errors \cup E
  BY DEF CheckAssignment, Operator, Visiting, GoOn, Report
<1>2. Void \in Types /\ Void \notin {None, Signature, Poison}
  BY TypesOfValues
<1>3. /\ Parts(node) = {node.lhs, node.rhs} /\ ~IsStore(node.rhs)
      /\ \A o \in Operands(at) : inferred[o] # Poison
      /\ Operands(at) = {node.lhs, node.rhs}
  BY <1>1, PartsOfOperators, OperandsAreUncast DEF Ready
<1>4. \A e \in E : Fresh(e)
  <2>1. \A e \in E : e = <<at, "assignment">> \/ e = <<node.rhs, "cast">>
    OBVIOUS
  <2> SUFFICES ASSUME NEW e \in E PROVE Fresh(e)
    OBVIOUS
  <2> HIDE DEF E
  <2>2. CASE e = <<at, "assignment">>
    BY <1>3, <2>2, FreshErrors
  <2>3. CASE e = <<node.rhs, "cast">>
    BY <1>3, <2>3, FreshErrors
  <2> QED BY <2>1, <2>2, <2>3
<1>5. \A j \in Indices : cast'[j] # cast[j] => NewCast(j)
  <2> SUFFICES ASSUME NEW j \in Indices, cast'[j] # cast[j] PROVE NewCast(j)
    OBVIOUS
  <2>1. j = node.rhs /\ TypeOf(j) # left /\ CanCast(TypeOf(j), left) /\ cast'[j] = left
    BY <1>1 DEF CastAll
  <2>2. j \in Parts(node) /\ TypeOf(j) = inferred[j] /\ j # at
    BY <1>1, <1>3, <2>1, PartsAreUncast DEF Ready
  <2>3. inferred'[j] = inferred[j]
    BY <1>1, <2>2 DEF Infer, Ready, IType, TypeOK
  <2> QED BY <1>3, <2>1, <2>2, <2>3 DEF CanCast, NewCast
<1> HIDE DEF E, S
<1> QED BY <1>1, <1>2, <1>4, <1>5, PlainFootprint DEF Ready

LEMMA DeclarationFootprint ==
  ASSUME Ready, CheckDeclaration
  PROVE  Footprint
<1> DEFINE k == node.init
           specified == node.specified
           init == TypeOf(k)
           S == {k}
           E == IF CanCast(init, specified) THEN {} ELSE {<<k, "cast">>, <<at, "declaration">>}
<1>1. /\ at \in Indices /\ phase = "checking" /\ node.form = "declaration" /\ at' = at + 1
      /\ \/ Infer(Void) /\ cast' = cast /\ errors' = errors
         \/ /\ specified # None /\ init # Poison /\ nodes[k].form = "nop"
            /\ inferred' = [inferred EXCEPT ![at] = Void, ![k] = specified]
            /\ cast' = cast /\ errors' = errors
         \/ /\ specified # None /\ init # Poison /\ Infer(Void)
            /\ CastAll(S, specified) /\ errors' = errors \cup E
  BY DEF CheckDeclaration, Visiting, GoOn, Report
<1>2. Void \in Types /\ Void \notin {None, Signature, Poison}
  BY TypesOfValues
<1>3. Parts(node) = {k} /\ Operands(at) = {k}
  BY <1>1, PartsByForm, OperandsOf DEF node
<1>4. k \in Indices /\ k # at /\ init = inferred[k] /\ cast[k] = None
  BY <1>1, <1>3, PartsAreUncast DEF Ready
<1>5. specified \in ValueTypes \cup {None}
  BY <1>1, Bodies DEF Ready, IType, NodeFacts, WellFormedNode, node
<1>6. CASE Infer(Void) /\ cast' = cast /\ errors' = errors
  BY <1>1, <1>2, <1>6, QuietFootprint DEF Ready
<1>7. CASE /\ specified # None /\ init # Poison /\ nodes[k].form = "nop"
           /\ inferred' = [inferred EXCEPT ![at] = Void, ![k] = specified]
           /\ cast' = cast /\ errors' = errors
  <2> HIDE DEF k, specified, init
  <2>1. /\ inferred'[at] = Void /\ inferred'[k] = specified
        /\ \A j \in Indices : j \notin {at, k} => inferred'[j] = inferred[j]
    <3>1. inferred \in [Indices -> Types \cup {None}]
      BY DEF Ready, IType, TypeOK
    <3>2. inferred' = [inferred EXCEPT ![at] = Void, ![k] = specified]
      BY <1>7
    <3> QED BY <1>1, <1>4, <3>1, <3>2
  <2>2. specified \in ValueTypes /\ specified # Poison
    BY <1>5, <1>7, TypesOfValues
  <2>3. inferred[k] # Poison
    BY <1>4, <1>7
  <2>4. \A j \in Indices : inferred'[j] # inferred[j] => NewType(j)
    BY <1>1, <1>7, <2>1, <2>2, <2>3 DEF NewType, k
  <2>5. (\E j \in Indices : inferred'[j] = Poison) => errors' # {}
    BY <1>2, <1>7, <2>1, <2>2 DEF Ready, PoisonInv
  <2>6. GivenType
    BY <1>1, <1>2, <2>1 DEF GivenType
  <2> QED BY <1>1, <1>7, <2>4, <2>5, <2>6 DEF Footprint
<1>8. CASE /\ specified # None /\ init # Poison /\ Infer(Void)
           /\ CastAll(S, specified) /\ errors' = errors \cup E
  <2>1. specified \in Types
    BY <1>5, <1>8, TypesOfValues
  <2>2. \A e \in E : e = <<at, "declaration">> \/ e = <<k, "cast">>
    OBVIOUS
  <2>3. inferred[k] # Poison
    BY <1>4, <1>8
  <2>4. \A e \in E : Fresh(e)
    <3> SUFFICES ASSUME NEW e \in E PROVE Fresh(e)
      OBVIOUS
    <3> HIDE DEF E, k
    <3>1. CASE e = <<at, "declaration">>
      BY <1>3, <2>3, <3>1, FreshErrors
    <3>2. CASE e = <<k, "cast">>
      BY <1>3, <2>3, <3>2, FreshErrors
    <3> QED BY <2>2, <3>1, <3>2
  <2>5. \A j \in S : ~IsStore(j)
    BY <1>1, <1>3, StoresOf DEF Ready, IType, node
  <2>6. \A j \in Indices : j # at => inferred'[j] = inferred[j]
    BY <1>8 DEF Ready, IType, TypeOK, Infer
  <2>7. S \subseteq Parts(node)
    BY <1>3
  <2> HIDE DEF S, E, specified
  <2>8. \A j \in Indices : cast'[j] # cast[j] => NewCast(j)
    BY <1>1, <1>8, <2>1, <2>5, <2>6, <2>7, CastFootprint DEF Ready
  <2> QED BY <1>1, <1>2, <1>8, <2>4, <2>8, PlainFootprint DEF Ready
<1> QED BY <1>1, <1>6, <1>7, <1>8

LEMMA ReturnFootprint ==
  ASSUME Ready, CheckReturn
  PROVE  Footprint
<1> DEFINE k == node.expression
           returns == program.returns
           type == TypeOf(k)
           S == {k}
           E == IF CanCast(type, returns) THEN {} ELSE {<<k, "cast">>, <<at, "return">>}
<1>1. /\ at \in Indices /\ phase = "checking" /\ node.form = "return" /\ at' = at + 1
      /\ Infer(Void)
      /\ \/ cast' = cast /\ errors' = errors
         \/ type # Poison /\ CastAll(S, returns) /\ errors' = errors \cup E
  BY DEF CheckReturn, Visiting, GoOn, Report
<1>2. Void \in Types /\ Void \notin {None, Signature, Poison}
  BY TypesOfValues
<1>3. Parts(node) = {k} /\ Operands(at) = {k}
  BY <1>1, PartsByForm, OperandsOf DEF node
<1>4. CASE cast' = cast /\ errors' = errors
  BY <1>1, <1>2, <1>4, QuietFootprint DEF Ready
<1>5. CASE type # Poison /\ CastAll(S, returns) /\ errors' = errors \cup E
  <2>1. returns \in Types
    BY TypesOfValues, Bodies DEF Ready, IType
  <2>2. \A e \in E : e = <<at, "return">> \/ e = <<k, "cast">>
    OBVIOUS
  <2>3. inferred[k] # Poison
    BY <1>1, <1>3, <1>5, PartsAreUncast DEF Ready
  <2>4. \A e \in E : Fresh(e)
    <3> SUFFICES ASSUME NEW e \in E PROVE Fresh(e)
      OBVIOUS
    <3> HIDE DEF E, k
    <3>1. CASE e = <<at, "return">>
      BY <1>3, <2>3, <3>1, FreshErrors
    <3>2. CASE e = <<k, "cast">>
      BY <1>3, <2>3, <3>2, FreshErrors
    <3> QED BY <2>2, <3>1, <3>2
  <2>5. \A j \in S : ~IsStore(j)
    BY <1>1, <1>3, StoresOf DEF Ready, IType, node
  <2>6. \A j \in Indices : j # at => inferred'[j] = inferred[j]
    BY <1>1 DEF Ready, IType, TypeOK, Infer
  <2>7. S \subseteq Parts(node)
    BY <1>3
  <2> HIDE DEF S, E, returns
  <2>8. \A j \in Indices : cast'[j] # cast[j] => NewCast(j)
    BY <1>1, <1>5, <2>1, <2>5, <2>6, <2>7, CastFootprint DEF Ready
  <2> QED BY <1>1, <1>2, <1>5, <2>4, <2>8, PlainFootprint DEF Ready
<1> QED BY <1>1, <1>4, <1>5

LEMMA ConditionFootprint ==
  ASSUME Ready, CheckCondition
  PROVE  Footprint
<1> DEFINE E == IF TypeOf(node.expression) = Boolean THEN {} ELSE {<<at, "condition">>}
<1>1. /\ at \in Indices /\ phase = "checking" /\ node.form = "condition"
      /\ Infer(Void) /\ cast' = cast /\ errors' = errors \cup E
      /\ at' = at + 1 \/ at' = node.end + 1
  BY DEF CheckCondition, Visiting, Report
<1>2. Void \in Types /\ Void \notin {None, Signature, Poison}
  BY TypesOfValues
<1>3. /\ inferred'[at] = Void
      /\ \A j \in Indices : j # at => inferred'[j] = inferred[j]
  BY <1>1 DEF Ready, IType, TypeOK, Infer
<1>4. \A j \in Indices : inferred'[j] # inferred[j] => NewType(j)
  BY <1>1, <1>3 DEF NewType
<1>5. GivenType
  BY <1>1, <1>2, <1>3 DEF GivenType
<1>6. (\E j \in Indices : inferred'[j] = Poison) => errors' # {}
  BY <1>1, <1>2, <1>3 DEF Ready, PoisonInv
<1>7. \A e \in E : e = <<at, "condition">>
  OBVIOUS
<1>8. Operands(at) = {}
  BY <1>1, OperandsOf DEF node
<1> HIDE DEF E
<1>9. \A e \in E : Fresh(e)
  BY <1>7, <1>8, FreshErrors
<1> QED BY <1>1, <1>4, <1>5, <1>6, <1>9 DEF Footprint

-----------------------------------------------------------------------------
(* The invariant is kept: first by the steps from node to node. *)

Step == CInv /\ Effect /\ Footprint

LEMMA StepFacts ==
  ASSUME Step
  PROVE  /\ program' = program /\ nodes' = nodes /\ Indices' = Indices
         /\ phase = "checking" /\ Reach = at /\ Reach' = at'
         /\ Len(nodes) \in Nat /\ Indices = 1..Len(nodes)
         /\ at \in Indices /\ at \in Int /\ at' \in Int /\ at < at'
         /\ IType /\ program \in Programs
<1>1. program' = program /\ phase = "checking" /\ phase' = "checking" /\ at \in Indices
        /\ at' \in (at + 1)..(Len(nodes) + 1) /\ IType
  BY DEF Step, Effect, CInv, IInv
<1>2. nodes' = nodes /\ Indices' = Indices
  BY <1>1 DEF nodes, Indices
<1>3. Len(nodes) \in Nat /\ Indices = 1..Len(nodes) /\ program \in Programs
  BY <1>1, Bodies DEF IType
<1>4. Reach = at /\ Reach' = at'
  BY <1>1, <1>2 DEF Reach, Accepted
<1> QED BY <1>1, <1>2, <1>3, <1>4

(* The body's own notions do not change with the state. *)
LEMMA BodyStays ==
  ASSUME nodes' = nodes, Indices' = Indices
  PROVE  /\ \A i : IsStore(i)' = IsStore(i)
         /\ \A i : Carriers(i)' = Carriers(i)
         /\ \A e : Judged(e)' = Judged(e)
<1>1. \A i : Operands(i)' = Operands(i)
  BY DEF Operands
<1> QED BY <1>1 DEF IsStore, Carriers, Judged

LEMMA SkippedGrows ==
  ASSUME program \in Programs, nodes' = nodes, Indices' = Indices, NEW i, NEW m \in Int,
         NEW n \in Int, m <= n, Skipped(i, m)
  PROVE  Skipped(i, n)
<1>1. \A c \in Indices : /\ nodes[c].form = "condition" => nodes[c].end \in Int
                         /\ nodes[c].form = "callee" => nodes[c].call \in Int
  <2>1. \A c \in Indices : NodeFacts(c) /\ c \in Int
    BY Bodies
  <2>2. Len(nodes) \in Int
    BY Bodies
  <2> QED BY <2>1, <2>2 DEF NodeFacts, WellFormedNode
<1>2. PICK c \in Indices :
        \/ nodes[c].form = "condition" /\ i \in (c + 1)..nodes[c].end /\ nodes[c].end < m
        \/ nodes[c].form = "callee" /\ i \in (c + 1)..(nodes[c].call - 1) /\ nodes[c].call < m
  BY DEF Skipped
<1>3. \/ nodes[c].form = "condition" /\ i \in (c + 1)..nodes[c].end /\ nodes[c].end < n
      \/ nodes[c].form = "callee" /\ i \in (c + 1)..(nodes[c].call - 1) /\ nodes[c].call < n
  BY <1>1, <1>2
<1> QED BY <1>3 DEF Skipped

(* The types of nodes already passed change only from nothing to a type. *)
LEMMA PassedTypes ==
  ASSUME Step, NEW j \in Indices, j < at, inferred'[j] # inferred[j]
  PROVE  /\ node.form = "declaration" /\ j = node.init
         /\ nodes[j].form = "nop" /\ inferred[j] # Poison /\ inferred'[j] \in ValueTypes
<1>1. NewType(j) /\ j \in Int /\ at \in Int /\ NodeFacts(j)
  BY StepFacts, Bodies DEF Step, Footprint
<1>2. ASSUME nodes[j].form = "call", nodes[j].callee = at PROVE FALSE
  BY <1>1, <1>2 DEF NodeFacts, WellFormedNode
<1> QED BY <1>1, <1>2 DEF NewType

LEMMA HealthStays ==
  ASSUME Step, NEW j \in Indices, j < at
  PROVE  inferred'[j] = Poison <=> inferred[j] = Poison
BY PassedTypes, TypesOfValues

(* A call whose callee has been checked is given its type then. *)
LEMMA TypesOfCalls ==
  ASSUME Step, NEW i \in Indices, nodes[i].form = "call", nodes[i].callee = at
  PROVE  /\ node.form = "callee" /\ node.call = i /\ inferred'[at] = node.type
         /\ inferred'[i] \in ValueTypes \cup {Void, Poison}
         /\ inferred'[i] # Poison => node.type = Signature
<1>1. node.form = "callee" /\ node.call = i
  BY StepFacts, Bodies DEF NodeFacts, WellFormedNode, node
<1>2. node.signature.returns \in ValueTypes \cup {Void}
  <2>1. node.signature \in Signatures
    BY <1>1, StepFacts, Bodies DEF NodeFacts, WellFormedNode, node
  <2> QED BY <2>1 DEF Signatures
<1>3. /\ inferred'[at] = node.type
      /\ inferred'[i] = IF node.type = Signature THEN node.signature.returns ELSE Poison
  BY <1>1 DEF Step, Footprint, GivenType
<1> QED BY <1>1, <1>2, <1>3

LEMMA StepKeepsCastInv ==
  ASSUME Step
  PROVE  CastInv'
<1> USE StepFacts
<1> SUFFICES ASSUME NEW i \in Indices, cast'[i] # None
             PROVE  /\ IsNumerical(inferred'[i]) /\ cast'[i] # inferred'[i]
                    /\ nodes[i].form # "nop" /\ ~IsStore(i)
                    /\ \E j \in Indices : j < at' /\ i \in Parts(nodes[j])
  BY BodyStays DEF CastInv
<1>1. CASE cast'[i] = cast[i]
  <2>1. /\ IsNumerical(inferred[i]) /\ cast[i] # inferred[i]
        /\ nodes[i].form # "nop" /\ ~IsStore(i)
    BY <1>1 DEF Step, CInv, CastInv
  <2>2. PICK j \in Indices : j < at /\ i \in Parts(nodes[j])
    BY <1>1 DEF Step, CInv, CastInv
  <2>3. i < at /\ j < at'
    BY <2>2, PartsAreBefore
  <2>4. inferred'[i] = inferred[i]
    BY <2>1, <2>3, PassedTypes, DistinctTypes
  <2> QED BY <1>1, <2>1, <2>2, <2>3, <2>4
<1>2. CASE cast'[i] # cast[i]
  <2>1. NewCast(i)
    BY <1>2 DEF Step, Footprint
  <2>2. ASSUME nodes[i].form = "nop" PROVE FALSE
    <3>1. inferred[i] \notin {None, Nop}
      BY <2>1, DistinctTypes DEF NewCast
    <3>2. PICK d \in Indices : d < at /\ nodes[d].form = "declaration" /\ nodes[d].init = i
      BY <2>2, <3>1 DEF Step, CInv, NopInv
    <3>3. i \in Parts(nodes[d]) /\ i \in Parts(nodes[at]) /\ d # at
      BY <2>1, <3>2, PartsByForm DEF NewCast, node
    <3> QED BY <3>3, Bodies
  <2>3. at \in Indices /\ at < at' /\ i \in Parts(nodes[at])
    BY <2>1 DEF NewCast, node
  <2> QED BY <2>1, <2>2, <2>3 DEF NewCast
<1> QED BY <1>1, <1>2

LEMMA StepKeepsNopInv ==
  ASSUME Step
  PROVE  NopInv'
<1> USE StepFacts
<1> SUFFICES ASSUME NEW i \in Indices, nodes[i].form = "nop", inferred'[i] \notin {None, Nop}
             PROVE  \E d \in Indices : d < at' /\ nodes[d].form = "declaration" /\ nodes[d].init = i
  BY DEF NopInv
<1>1. CASE inferred'[i] = inferred[i]
  BY <1>1 DEF Step, CInv, NopInv
<1>2. CASE inferred'[i] # inferred[i]
  <2>1. NewType(i)
    BY <1>2 DEF Step, Footprint
  <2>2. i # at
    BY DEF Step, Footprint, GivenType, node
  <2> QED BY <2>1, <2>2 DEF NewType, node
<1> QED BY <1>1, <1>2

LEMMA StepKeepsSignatureInv ==
  ASSUME Step
  PROVE  SignatureInv'
<1> USE StepFacts
<1> SUFFICES ASSUME NEW i \in Indices, nodes[i].form # "callee"
             PROVE  inferred'[i] # Signature
  BY DEF SignatureInv
<1>1. CASE inferred'[i] = inferred[i]
  BY <1>1 DEF Step, CInv, SignatureInv
<1>2. CASE inferred'[i] # inferred[i]
  <2>1. NewType(i)
    BY <1>2 DEF Step, Footprint
  <2>2. i = at => inferred'[i] # Signature
    BY DEF Step, Footprint, GivenType, node
  <2>3. nodes[i].form = "call" /\ nodes[i].callee = at => inferred'[i] # Signature
    BY TypesOfCalls, TypesOfValues, DistinctTypes
  <2> QED BY <2>1, <2>2, <2>3, TypesOfValues DEF NewType
<1> QED BY <1>1, <1>2

LEMMA StepKeepsVisitInv ==
  ASSUME Step
  PROVE  VisitInv'
<1> USE StepFacts
<1> SUFFICES ASSUME NEW i \in Indices, inferred'[i] # None
             PROVE  i < at' \/ (nodes[i].form = "call" /\ nodes[i].callee < at')
  BY DEF VisitInv
<1>1. i \in Int /\ (nodes[i].form = "call" => nodes[i].callee \in Int)
  BY Bodies DEF NodeFacts, WellFormedNode
<1>2. CASE inferred'[i] = inferred[i]
  <2>1. i < at \/ (nodes[i].form = "call" /\ nodes[i].callee < at)
    BY <1>2 DEF Step, CInv, VisitInv
  <2> QED BY <1>1, <2>1
<1>3. CASE inferred'[i] # inferred[i]
  <2>1. NewType(i)
    BY <1>3 DEF Step, Footprint
  <2>2. node.form = "declaration" /\ i = node.init => i < at
    BY PartsByForm, PartsAreBefore DEF node
  <2> QED BY <1>1, <2>1, <2>2 DEF NewType
<1> QED BY <1>2, <1>3

LEMMA StepKeepsSkipInv ==
  ASSUME Step
  PROVE  SkipInv'
<1> USE StepFacts
<1> SUFFICES ASSUME NEW i \in Indices,
                    \/ nodes[i].form = "operator" /\ i < at'
                    \/ nodes[i].form = "call" /\ nodes[i].callee < at',
                    inferred'[i] = None
             PROVE  Skipped(i, at')
  BY DEF SkipInv, Skipped
<1>1. NodeFacts(i) /\ NodeFacts(at)
  BY Bodies
<1>2. ~(nodes[i].form = "call" /\ nodes[i].callee = at)
  BY TypesOfCalls, TypesOfValues, DistinctTypes
<1>3. ~(nodes[i].form = "operator" /\ i = at)
  BY DistinctTypes DEF Step, Footprint, GivenType, node
<1>4. inferred[i] = None
  <2>1. inferred'[i] # inferred[i] => NewType(i)
    BY DEF Step, Footprint
  <2> QED BY <1>2, <1>3, <2>1, TypesOfValues DEF NewType, node
<1>5. CASE \/ nodes[i].form = "operator" /\ i < at
           \/ nodes[i].form = "call" /\ nodes[i].callee < at
  <2>1. Skipped(i, at)
    BY <1>4, <1>5 DEF Step, CInv, SkipInv
  <2> QED BY <2>1, SkippedGrows
<1>6. CASE \/ nodes[i].form = "operator" /\ i > at
           \/ nodes[i].form = "call" /\ nodes[i].callee > at
  <2>1. CASE node.form = "condition"
    <3>1. at' = node.end + 1 /\ node.end \in Int /\ WholeCalls(nodes, at, node.end)
      <4>1. node.end \in Int /\ WholeCalls(nodes, at, node.end)
        BY <1>1, <2>1 DEF NodeFacts, WellFormedNode, node
      <4>2. at' # at + 1
        BY <1>1, <1>6 DEF NodeFacts, WellFormedNode
      <4> QED BY <2>1, <4>1, <4>2 DEF Step, Footprint
    <3>2. i > at /\ i <= node.end
      <4>1. CASE nodes[i].form = "operator"
        BY <1>6, <3>1, <4>1
      <4>2. CASE nodes[i].form = "call"
        <5>1. nodes[i].callee \in Int /\ nodes[i].callee < i
                /\ nodes[nodes[i].callee].form = "callee" /\ nodes[nodes[i].callee].call = i
          BY <1>1, <4>2 DEF NodeFacts, WellFormedNode
        <5>2. nodes[i].callee \in (at + 1)..node.end
          BY <1>6, <3>1, <4>2, <5>1
        <5> QED BY <3>1, <5>1, <5>2 DEF WholeCalls
      <4> QED BY <1>6, <4>1, <4>2
    <3>3. i \in (at + 1)..node.end /\ node.end < at'
      BY <3>1, <3>2
    <3> QED BY <2>1, <3>3 DEF Skipped, node
  <2>2. CASE node.form = "callee"
    <3> DEFINE c == node.call
    <3>1. /\ at' = c + 1 /\ c \in Int /\ WholeCalls(nodes, at, c)
          /\ nodes[c].form = "call" /\ nodes[c].callee = at
      <4>1. c \in Int /\ WholeCalls(nodes, at, c) /\ nodes[c].form = "call" /\ nodes[c].callee = at
        BY <1>1, <2>2 DEF NodeFacts, WellFormedNode, node
      <4>2. at' # at + 1
        BY <1>1, <1>6 DEF NodeFacts, WellFormedNode
      <4> QED BY <2>2, <4>1, <4>2 DEF Step, Footprint
    <3>2. i > at /\ i <= c
      <4>1. CASE nodes[i].form = "operator"
        BY <1>6, <3>1, <4>1
      <4>2. CASE nodes[i].form = "call"
        <5>1. nodes[i].callee \in Int /\ nodes[i].callee < i
                /\ nodes[nodes[i].callee].form = "callee" /\ nodes[nodes[i].callee].call = i
          BY <1>1, <4>2 DEF NodeFacts, WellFormedNode
        <5>2. nodes[i].callee \in (at + 1)..c
          BY <1>6, <3>1, <4>2, <5>1
        <5> QED BY <3>1, <5>1, <5>2 DEF WholeCalls
      <4> QED BY <1>6, <4>1, <4>2
    <3>3. i # c
      BY <1>6, <3>1
    <3>4. i \in (at + 1)..(c - 1) /\ c < at'
      BY <3>1, <3>2, <3>3
    <3> QED BY <2>2, <3>4 DEF Skipped, node
  <2>3. CASE node.form \notin {"condition", "callee"}
    BY <1>1, <1>6, <2>3 DEF Step, Footprint, NodeFacts, WellFormedNode
  <2> QED BY <2>1, <2>2, <2>3
<1> QED BY <1>1, <1>2, <1>3, <1>5, <1>6 DEF NodeFacts, WellFormedNode

LEMMA StepKeepsSpreadInv ==
  ASSUME Step
  PROVE  SpreadInv'
<1> USE StepFacts
<1> SUFFICES ASSUME NEW i \in Indices, inferred'[i] \notin {None, Poison}, NEW o \in Carriers(i)
             PROVE  inferred'[o] # Poison
  BY BodyStays DEF SpreadInv
<1>1. ASSUME inferred[i] \notin {None, Poison} PROVE inferred[o] # Poison
  BY <1>1 DEF Step, CInv, SpreadInv
<1>2. CASE nodes[i].form = "operator"
  <2>1. o \in Parts(nodes[i])
    BY <1>2, PartsByForm, CarriersOf
  <2>2. o \in Indices /\ o < i /\ o \in Int /\ i \in Int
    BY <2>1, PartsAreBefore
  <2>3. CASE inferred'[i] = inferred[i]
    <3>1. i < at /\ inferred[i] \notin {None, Poison}
      BY <1>2, <2>3 DEF Step, CInv, VisitInv
    <3> QED BY <1>1, <2>2, <3>1, HealthStays
  <2>4. CASE inferred'[i] # inferred[i]
    <3>1. NewType(i)
      BY <2>4 DEF Step, Footprint
    <3>2. CASE i = at
      <4>1. Poison \notin {inferred[node.lhs], inferred[node.rhs]}
        BY <1>2, <3>2 DEF Step, Footprint, GivenType, node
      <4>2. inferred[o] # Poison
        BY <1>2, <3>2, <4>1, CarriersOf DEF node
      <4> QED BY <2>2, <3>2, <4>2, HealthStays
    <3> QED BY <1>2, <3>1, <3>2 DEF NewType
  <2> QED BY <2>3, <2>4
<1>3. CASE nodes[i].form = "call"
  <2>1. /\ o = nodes[i].callee /\ o \in Indices /\ o \in Int /\ o < i /\ i \in Int
        /\ nodes[o].form = "callee"
    <3>1. NodeFacts(i)
      BY Bodies
    <3> QED BY <1>3, <3>1, CarriersOf DEF NodeFacts, WellFormedNode
  <2>2. CASE o = at
    BY <1>3, <2>1, <2>2, TypesOfCalls, DistinctTypes
  <2>3. CASE o # at
    <3>1. inferred'[i] = inferred[i]
      BY <1>3, <2>1, <2>3 DEF Step, Footprint, NewType, node
    <3>2. inferred[o] # Poison
      BY <1>1, <3>1
    <3>3. inferred'[o] # inferred[o] => inferred'[o] \in ValueTypes
      BY <2>1, <2>3 DEF Step, Footprint, NewType
    <3> QED BY <3>2, <3>3, TypesOfValues
  <2> QED BY <2>2, <2>3
<1> QED BY <1>2, <1>3, CarriersOf

(* The steps that leave all types and casts as they are. *)
LEMMA QuietStep ==
  ASSUME CInv, program' = program, inferred' = inferred, cast' = cast,
         errors \subseteq errors', Reach' = Reach
  PROVE  CastInv' /\ NopInv' /\ SignatureInv' /\ VisitInv' /\ SkipInv' /\ SpreadInv' /\ PoisonInv'
<1>1. nodes' = nodes /\ Indices' = Indices
  BY DEF nodes, Indices
<1>2. CastInv'
  BY <1>1, BodyStays DEF CInv, CastInv
<1>3. NopInv' /\ SignatureInv' /\ VisitInv'
  BY <1>1 DEF CInv, NopInv, SignatureInv, VisitInv
<1>4. SkipInv'
  BY <1>1 DEF CInv, SkipInv, Skipped
<1>5. SpreadInv'
  BY <1>1, BodyStays DEF CInv, SpreadInv
<1>6. PoisonInv'
  BY <1>1 DEF CInv, PoisonInv
<1> QED BY <1>2, <1>3, <1>4, <1>5, <1>6

(* What the other steps do: to the end of the body, or through the code. *)
Quiet ==
  /\ UNCHANGED <<program, inferred, cast>>
  /\ Reach' = Reach
  /\ errors \subseteq errors'
  /\ \A e \in errors' : e \in errors \/ e = <<Len(nodes) + 1, "no return">>

LEMMA OtherStepsAreQuiet ==
  ASSUME CInv, EndChecking \/ CoercionCrashes \/ Generate \/ UNCHANGED vars
  PROVE  Quiet
<1>1. CASE EndChecking
  <2>1. /\ UNCHANGED <<program, inferred, cast>> /\ phase = "checking" /\ at = Len(nodes) + 1
        /\ \/ phase' \in {"generating", "aborted"}
           \/ phase' = "rejected" /\ at' = at
    BY <1>1 DEF EndChecking
  <2>2. nodes' = nodes
    BY <2>1 DEF nodes
  <2>3. Reach' = Reach
    BY <2>1, <2>2 DEF Reach, Accepted
  <2>4. errors \subseteq errors' /\ \A e \in errors' : e \in errors \/ e = <<at, "no return">>
    BY <1>1 DEF EndChecking, Report
  <2> QED BY <2>1, <2>3, <2>4 DEF Quiet
<1>2. CASE CoercionCrashes
  <2>1. UNCHANGED <<program, at, inferred, cast, errors>> /\ phase = "checking" /\ phase' = "crashed"
    BY <1>2 DEF CoercionCrashes, checked, Operator, Visiting
  <2>2. Reach' = Reach
    BY <2>1 DEF Reach, Accepted
  <2> QED BY <2>1, <2>2 DEF Quiet
<1>3. CASE Generate
  <2>1. /\ UNCHANGED <<program, inferred, cast, errors>> /\ phase = "generating"
        /\ phase' \in {"generating", "compiled", "aborted"}
    <3>1. ASSUME NEW v, NEW wrong, Emit(v, wrong), phase = "generating"
          PROVE  UNCHANGED <<program, inferred, cast, errors>> /\ phase' \in {"generating", "aborted"}
      BY <3>1 DEF Emit, Abort, checked
    <3>2. ASSUME Abort
          PROVE  UNCHANGED <<program, inferred, cast, errors>> /\ phase' = "aborted"
      BY <3>2 DEF Abort, checked
    <3>3. CASE GenerateLeaf
      BY <3>1, <3>3 DEF GenerateLeaf, Generating
    <3>4. CASE GenerateIdentifier
      BY <3>1, <3>4 DEF GenerateIdentifier, Generating
    <3>5. CASE GenerateCall
      BY <3>1, <3>5 DEF GenerateCall, Generating
    <3>6. CASE GenerateOperator
      BY <3>1, <3>2, <3>6 DEF GenerateOperator, GeneratingOperator, Generating
    <3>7. CASE GenerateLogical
      BY <3>1, <3>2, <3>7 DEF GenerateLogical, GeneratingOperator, Generating
    <3>8. CASE GenerateAssignment
      BY <3>1, <3>2, <3>8 DEF GenerateAssignment, GeneratingOperator, Generating
    <3>9. CASE GenerateDeclaration
      BY <3>1, <3>2, <3>9 DEF GenerateDeclaration, Generating
    <3>10. CASE GenerateReturn
      BY <3>1, <3>10 DEF GenerateReturn, Generating
    <3>11. CASE GenerateCondition
      BY <3>1, <3>11 DEF GenerateCondition, Generating
    <3>12. CASE EndGenerating
      BY <3>12 DEF EndGenerating, checked
    <3> QED BY <1>3, <3>3, <3>4, <3>5, <3>6, <3>7, <3>8, <3>9, <3>10, <3>11, <3>12 DEF Generate
  <2>2. nodes' = nodes
    BY <2>1 DEF nodes
  <2>3. Reach' = Reach
    BY <2>1, <2>2 DEF Reach, Accepted
  <2> QED BY <2>1, <2>3 DEF Quiet
<1>4. CASE UNCHANGED vars
  <2>1. program' = program /\ phase' = phase /\ at' = at /\ inferred' = inferred /\ cast' = cast
          /\ errors' = errors
    BY <1>4 DEF vars
  <2>2. nodes' = nodes
    BY <2>1 DEF nodes
  <2>3. Reach' = Reach
    BY <2>1, <2>2 DEF Reach, Accepted
  <2> QED BY <2>1, <2>3 DEF Quiet
<1> QED BY <1>1, <1>2, <1>3, <1>4

(* The checker goes from node to node, or makes one of the other steps. *)
LEMMA StepsOfTheChecker ==
  ASSUME CInv, Check
  PROVE  Step \/ EndChecking \/ CoercionCrashes
<1>1. IType /\ Ready
  BY DEF CInv, IInv, Ready
<1>2. ASSUME ~EndChecking, ~CoercionCrashes PROVE Effect
  BY <1>1, <1>2, LeafStep, UnknownStep, IdentifierStep, CalleeStep, CallStep, SpreadPoisonStep,
     ArithmeticStep, ComparisonStep, BitwiseStep, LogicalStep, AssignmentStep,
     DeclarationStep, ReturnStep, ConditionStep DEF Check
<1>3. ASSUME ~EndChecking, ~CoercionCrashes PROVE Footprint
  BY <1>1, <1>3, LeafFootprint, UnknownFootprint, IdentifierFootprint, CalleeFootprint,
     CallFootprint, SpreadPoisonFootprint, ArithmeticFootprint, ComparisonFootprint,
     BitwiseFootprint, LogicalFootprint, AssignmentFootprint, DeclarationFootprint,
     ReturnFootprint, ConditionFootprint DEF Check
<1> QED BY <1>2, <1>3 DEF Step

LEMMA NextKeepsCInv ==
  ASSUME CInv, [Next]_vars
  PROVE  CInv'
<1>1. IInv'
  BY CheckKeepsIInv, GenerateKeepsIInv, StutterKeepsIInv DEF Next, CInv
<1>2. CASE Step
  <2>1. PoisonInv'
    BY <1>2, StepFacts DEF Step, Footprint, PoisonInv
  <2> QED BY <1>1, <1>2, <2>1, StepKeepsCastInv, StepKeepsNopInv, StepKeepsSignatureInv,
             StepKeepsVisitInv, StepKeepsSkipInv, StepKeepsSpreadInv DEF CInv
<1>3. CASE Quiet
  BY <1>1, <1>3, QuietStep DEF CInv, Quiet
<1> QED BY <1>2, <1>3, StepsOfTheChecker, OtherStepsAreQuiet DEF Next

LEMMA InitIsC ==
  ASSUME Init
  PROVE  CInv
<1>1. IInv
  BY InitIsSound
<1>2. \A i \in Indices : inferred[i] = None /\ cast[i] = None
  BY DEF Init
<1>3. Reach = 1 /\ \A i \in Indices : NodeFacts(i) /\ i \in Int /\ 1 <= i
  <2>1. phase = "checking" /\ at = 1 /\ program \in Programs
    BY DEF Init
  <2> QED BY <2>1, Bodies DEF Reach, Accepted
<1>4. CastInv /\ NopInv /\ SignatureInv /\ VisitInv /\ PoisonInv
  BY <1>2, DistinctTypes DEF CastInv, NopInv, SignatureInv, VisitInv, PoisonInv
<1>5. SkipInv
  BY <1>3 DEF SkipInv, NodeFacts, WellFormedNode
<1>6. SpreadInv
  BY <1>2 DEF SpreadInv
<1> QED BY <1>1, <1>4, <1>5, <1>6 DEF CInv

(* What has been checked when errors are about: casts, skips and poison. *)
THEOREM CheckedBodies == Spec => []CInv
BY InitIsC, NextKeepsCInv, PTL DEF Spec

-----------------------------------------------------------------------------
(* The errors, which stay true of what the checker goes on to. *)

(* An error is about nodes the checker has passed, and is not taken back:  *)
(* it judges healthy ones.  A cast is that of a part of a node.            *)
ErrorInv ==
  \A e \in errors :
    /\ e[1] \in Indices => \A o \in Judged(e) : o \in Indices /\ o < Reach
    /\ e[2] = "cast" => \E j \in Indices : j < Reach /\ e[1] \in Parts(nodes[j])
    /\ e[2] \in {"operand", "signedness"} => e[1] < Reach

HealthyInv ==
  \A e \in errors : e[1] \in Indices => \A o \in Judged(e) : inferred[o] # Poison

LEMMA OperandsAreBefore ==
  ASSUME program \in Programs, NEW i \in Indices, NEW o \in Operands(i)
  PROVE  o \in Indices /\ o \in Int /\ i \in Int /\ o < i
<1>1. CASE o \in Parts(nodes[i])
  BY <1>1, PartsAreBefore
<1>2. CASE nodes[i].form = "call" /\ o = nodes[i].callee
  <2>1. NodeFacts(i) /\ Len(nodes) \in Nat /\ Indices = 1..Len(nodes)
    BY Bodies
  <2> QED BY <1>2, <2>1 DEF NodeFacts, WellFormedNode
<1> QED BY <1>1, <1>2, OperandsOf, PartsByForm

(* What an error about node i judges, if it is no cast and no argument. *)
LEMMA JudgedOf ==
  ASSUME NEW e
  PROVE  /\ e[2] \in {"cast", "argument"} => Judged(e) = {e[1]}
         /\ e[2] \notin {"cast", "argument"} => Judged(e) = Operands(e[1])
BY DEF Judged

(* The arguments of the call of the callee at hand have not been checked. *)
LEMMA ArgumentsAreUnchecked ==
  ASSUME Step, node.form = "callee", NEW k \in Parts(nodes[node.call])
  PROVE  /\ k \in Indices /\ k \in Int /\ k < node.call /\ k # at
         /\ inferred'[k] = None
<1> USE StepFacts
<1> DEFINE c == node.call
<1>1. /\ c \in Indices /\ c \in Int /\ nodes[c].form = "call" /\ nodes[c].callee = at
      /\ WholeCalls(nodes, at, c)
  BY Bodies DEF NodeFacts, WellFormedNode, node
<1>2. k \in Indices /\ k \in Int /\ at < k /\ k < c
  <2>1. k \in (at + 1)..(c - 1)
    <3>1. nodes[c].arguments \in Seq((at + 1)..(c - 1))
      BY <1>1, Bodies DEF NodeFacts, WellFormedNode
    <3>2. Parts(nodes[c]) = {nodes[c].arguments[j] : j \in DOMAIN nodes[c].arguments}
      BY <1>1, PartsByForm
    <3>3. PICK j \in DOMAIN nodes[c].arguments : k = nodes[c].arguments[j]
      BY <3>2
    <3>4. \A S : nodes[c].arguments \in Seq(S) => nodes[c].arguments[j] \in S
      BY <3>3
    <3> QED BY <3>1, <3>3, <3>4
  <2> QED BY <1>1, <2>1
<1>3. ASSUME nodes[k].form = "call" PROVE nodes[k].callee \in Int /\ nodes[k].callee > at
  <2>1. /\ nodes[k].callee \in 1..(k - 1) /\ nodes[nodes[k].callee].form = "callee"
        /\ nodes[nodes[k].callee].call = k
    BY <1>2, <1>3, Bodies DEF NodeFacts, WellFormedNode
  <2>2. nodes[k].callee # at
    BY <1>2, <2>1 DEF node
  <2>3. ASSUME nodes[k].callee < at PROVE FALSE
    <3>1. WholeCalls(nodes, nodes[k].callee, k)
      <4>1. nodes[k].callee \in Indices
        BY <1>2, <2>1
      <4> QED BY <2>1, <4>1, Bodies DEF NodeFacts, WellFormedNode
    <3>2. at \in (nodes[k].callee + 1)..k
      BY <1>2, <2>1, <2>3
    <3>3. nodes[at].form = "callee" /\ nodes[at].call > k
      BY <1>1, <1>2 DEF node
    <3> QED BY <1>1, <1>2, <3>1, <3>2, <3>3 DEF WholeCalls, node
  <2> QED BY <1>2, <2>1, <2>2, <2>3
<1>4. inferred[k] = None
  <2>1. ~(k < Reach) /\ ~(nodes[k].form = "call" /\ nodes[k].callee < Reach)
    BY <1>2, <1>3
  <2> QED BY <1>2, <2>1 DEF Step, CInv, VisitInv
<1>5. inferred'[k] = inferred[k]
  <2>1. ~NewType(k)
    BY <1>2, <1>3 DEF NewType
  <2> QED BY <1>2, <2>1 DEF Step, Footprint
<1> QED BY <1>2, <1>4, <1>5

(* What an error judges that a step reports. *)
LEMMA FreshIsHealthy ==
  ASSUME Step, NEW e, Fresh(e), e[1] \in Indices, NEW o \in Judged(e)
  PROVE  o \in Indices /\ o < at' /\ inferred'[o] # Poison
<1> USE StepFacts
<1>1. CASE e[1] = at /\ e[2] \notin {"cast", "argument"} /\ \A p \in Operands(at) : inferred[p] # Poison
  <2>1. o \in Operands(at)
    BY <1>1, JudgedOf
  <2>2. o \in Indices /\ o \in Int /\ o < at
    BY <2>1, OperandsAreBefore
  <2> QED BY <1>1, <2>1, <2>2, HealthStays
<1>2. CASE e[1] \in Parts(node) /\ e[2] \in {"cast", "argument"} /\ inferred[e[1]] # Poison
  <2>1. o = e[1]
    BY <1>2, JudgedOf
  <2>2. o \in Indices /\ o \in Int /\ o < at
    BY <1>2, <2>1, PartsAreBefore DEF node
  <2> QED BY <1>2, <2>1, <2>2, HealthStays
<1>3. CASE /\ node.form = "callee" /\ e[1] = node.call /\ e[2] \in {"callable", "number"}
           /\ node.type # Poison /\ at' = node.call + 1
  <2>1. nodes[e[1]].form = "call" /\ nodes[e[1]].callee = at /\ e[1] \in Int /\ at < e[1]
    BY <1>3, Bodies DEF NodeFacts, WellFormedNode, node
  <2>2. Judged(e) = Operands(e[1])
    BY <1>3, JudgedOf
  <2>3. o = at \/ o \in Parts(nodes[node.call])
    BY <1>3, <2>1, <2>2, OperandsOf
  <2>4. CASE o = at
    BY <1>3, <2>1, <2>4 DEF Step, Footprint, GivenType
  <2>5. CASE o \in Parts(nodes[node.call])
    <3>1. o \in Indices /\ o \in Int /\ o < node.call /\ inferred'[o] = None
      BY <1>3, <2>5, ArgumentsAreUnchecked
    <3> QED BY <1>3, <2>1, <3>1, DistinctTypes
  <2> QED BY <2>3, <2>4, <2>5
<1> QED BY <1>1, <1>2, <1>3 DEF Fresh

LEMMA StepKeepsErrors ==
  ASSUME Step, ErrorInv, HealthyInv
  PROVE  ErrorInv' /\ HealthyInv'
<1> USE StepFacts
<1>1. \A e \in errors' : e \in errors \/ Fresh(e)
  BY DEF Step, Footprint
<1>2. ASSUME NEW e \in errors', e[1] \in Indices, NEW o \in Judged(e)
      PROVE  o \in Indices /\ o < at' /\ inferred'[o] # Poison
  <2>1. CASE e \in errors
    <3>1. o \in Indices /\ o < at /\ o \in Int /\ inferred[o] # Poison
      BY <1>2, <2>1 DEF ErrorInv, HealthyInv
    <3> QED BY <3>1, HealthStays
  <2>2. CASE Fresh(e)
    BY <1>2, <2>2, FreshIsHealthy
  <2> QED BY <1>1, <2>1, <2>2
<1>3. ASSUME NEW e \in errors', e[2] = "cast"
      PROVE  \E j \in Indices : j < at' /\ e[1] \in Parts(nodes[j])
  <2>1. CASE e \in errors
    <3>1. PICK j \in Indices : j < at /\ e[1] \in Parts(nodes[j])
      BY <1>3, <2>1 DEF ErrorInv
    <3> QED BY <3>1
  <2>2. CASE Fresh(e)
    BY <1>3, <2>2 DEF Fresh, node
  <2> QED BY <1>1, <2>1, <2>2
<1>4. ASSUME NEW e \in errors', e[2] \in {"operand", "signedness"}
      PROVE  e[1] < at'
  <2>1. CASE e \in errors
    <3>1. e[1] \in Int /\ e[1] < at
      BY <1>4, <2>1 DEF ErrorInv, IType, TypeOK
    <3> QED BY <3>1
  <2>2. CASE Fresh(e)
    BY <1>4, <2>2 DEF Fresh
  <2> QED BY <1>1, <2>1, <2>2
<1> QED BY <1>2, <1>3, <1>4, BodyStays DEF ErrorInv, HealthyInv

LEMMA QuietKeepsErrors ==
  ASSUME CInv, Quiet, ErrorInv, HealthyInv
  PROVE  ErrorInv' /\ HealthyInv'
<1>1. program' = program /\ inferred' = inferred /\ Reach' = Reach
        /\ nodes' = nodes /\ Indices' = Indices
  BY DEF Quiet, nodes, Indices
<1>2. Len(nodes) \in Nat /\ Indices = 1..Len(nodes)
  BY Bodies DEF CInv, IInv, IType
<1>3. ASSUME NEW e \in errors', e \notin errors
      PROVE  e[1] \notin Indices /\ e[2] = "no return"
  <2>1. e = <<Len(nodes) + 1, "no return">>
    BY <1>3 DEF Quiet
  <2>2. e[1] = Len(nodes) + 1 /\ e[2] = "no return"
    BY <2>1
  <2>3. Len(nodes) + 1 \notin Indices
    BY <1>2
  <2> QED BY <2>2, <2>3
<1>4. \A e : Judged(e)' = Judged(e)
  BY <1>1, BodyStays
<1> QED BY <1>1, <1>3, <1>4 DEF ErrorInv, HealthyInv

LEMMA NextKeepsErrors ==
  ASSUME CInv, ErrorInv, HealthyInv, [Next]_vars
  PROVE  ErrorInv' /\ HealthyInv'
BY StepsOfTheChecker, OtherStepsAreQuiet, StepKeepsErrors, QuietKeepsErrors DEF Next

(***************************************************************************)
(* Errors do not cascade: however an expression nests, poison comes from   *)
(* an error and spreads from operands to operators and from callees to     *)
(* calls, and none of operators, declarations and returns is blamed for a  *)
(* poisoned operand, nor a call for its callee or for any argument.        *)
(***************************************************************************)
THEOREM NoErrorCascades == Spec => []PoisonIsReportedOnce
<1>1. Init => CInv /\ ErrorInv /\ HealthyInv
  <2>1. Init => ErrorInv /\ HealthyInv
    BY DEF Init, ErrorInv, HealthyInv
  <2> QED BY <2>1, InitIsC
<1>2. CInv /\ ErrorInv /\ HealthyInv /\ [Next]_vars => (CInv /\ ErrorInv /\ HealthyInv)'
  BY NextKeepsCInv, NextKeepsErrors
<1>3. CInv /\ ErrorInv /\ HealthyInv => PoisonIsReportedOnce
  <2> SUFFICES ASSUME CInv, ErrorInv, HealthyInv
               PROVE  PoisonIsReportedOnce
    OBVIOUS
  <2>1. ASSUME NEW i \in Indices, TypeOf(i) = Poison PROVE errors # {}
    <3>1. cast[i] \in Numbers \cup {None}
      BY DEF CInv, IInv, IType, TypeOK
    <3>2. inferred[i] = Poison
      BY <2>1, <3>1, DistinctTypes DEF TypeOf
    <3> QED BY <3>2 DEF CInv, PoisonInv
  <2>2. ASSUME NEW i \in Indices, Visited(i), NEW o \in Carriers(i), inferred[o] = Poison
        PROVE  inferred[i] = Poison
    BY <2>2 DEF CInv, SpreadInv, Visited
  <2> QED BY <2>1, <2>2 DEF PoisonIsReportedOnce, HealthyInv
<1> QED BY <1>1, <1>2, <1>3, PTL DEF Spec

-----------------------------------------------------------------------------
(* Coercion of any two types, numbers or not. *)

Meets(l, r) == {t \in Numbers \cup {Boolean} : LeastUpperBound(t, l, r)}

LEMMA OperandTypes ==
  ASSUME NEW t \in Types \cup {None}
  PROVE  /\ IsOperand(t) <=> t \in Numbers \cup {Boolean}
         /\ t \notin Numbers \cup {Boolean} => \A u \in Numbers \cup {Boolean} : ~Widens(t, u)
<1>1. IsOperand(t) => t \in Numbers \cup {Boolean}
  BY NumericalTypes DEF IsOperand
<1>2. t \in Numbers => IsOperand(t)
  BY NumberParts DEF IsOperand
<1>3. IsOperand(Boolean)
  BY KindAndSize DEF IsOperand, Boolean
<1> QED BY <1>1, <1>2, <1>3 DEF Widens

(* A boolean next to a number. *)
LEMMA MixedOperands ==
  ASSUME NEW l, NEW r, \/ l = Boolean /\ r \in Numbers
                       \/ l \in Numbers /\ r = Boolean
  PROVE  /\ Meets(l, r) = {}
         /\ Coercion(l, r) # "coerced"
         /\ Coercion(l, r) = "no type" => l = Boolean /\ r.kind \in {"signed", "unsigned"} /\ r.size > 1
<1>1. Boolean \notin Numbers /\ ~IsNumerical(Boolean)
        /\ Boolean.kind = "boolean" /\ Boolean.size = 1
  BY DistinctTypes, KindAndSize DEF Boolean, IsNumerical
<1>2. Meets(l, r) = {}
  BY <1>1 DEF Meets, LeastUpperBound, Widens
<1>3. Coercion(l, r) # "coerced"
  <2> SUFFICES ASSUME Coercion(l, r) = "coerced" PROVE FALSE
    OBVIOUS
  <2>1. CanCast(l, Coerced(l, r)) /\ CanCast(r, Coerced(l, r))
    BY CoercionOutcome
  <2>2. Coerced(l, r) = Boolean
    BY <1>1, <2>1 DEF CanCast
  <2> QED BY <1>1, <2>1, <2>2 DEF CanCast
<1>4. ASSUME Coercion(l, r) = "no type"
      PROVE  l = Boolean /\ r.kind \in {"signed", "unsigned"} /\ r.size > 1
  <2>1. Coerced(l, r) \notin BuiltinTypes
    BY <1>4 DEF Coercion
  <2>2. CASE l \in Numbers /\ r = Boolean
    <3>1. Larger(l.size, r.size) = l.size
      BY <1>1, <2>2, NumberParts DEF Larger
    <3>2. Coerced(l, r) = Basic(l.kind, l.size)
      BY <1>1, <2>2, <3>1, NumberParts DEF Coerced
    <3>3. Coerced(l, r) \in Numbers
      BY <2>2, <3>2, NumberParts
    <3> QED BY <2>1, <3>3 DEF BuiltinTypes
  <2>3. CASE l = Boolean /\ r \in Numbers
    <3>1. Larger(l.size, r.size) = r.size
      BY <1>1, <2>3, NumberParts DEF Larger
    <3>2. CASE r.kind = "float"
      <4>1. Coerced(l, r) = Basic(r.kind, r.size)
        BY <3>1, <3>2 DEF Coerced
      <4>2. Coerced(l, r) \in Numbers
        BY <2>3, <4>1, NumberParts
      <4> QED BY <2>1, <4>2 DEF BuiltinTypes
    <3>3. CASE r.kind # "float"
      <4>1. Coerced(l, r) = Basic("boolean", r.size)
        BY <1>1, <2>3, <3>1, <3>3 DEF Coerced
      <4>2. r.size # 1
        BY <2>1, <4>1 DEF BuiltinTypes, Boolean
      <4>3. r.kind \in {"signed", "unsigned"} /\ r.size \in {1, 2, 4, 8}
        BY <2>3, <3>3, NumberParts
      <4> QED BY <2>3, <4>2, <4>3
    <3> QED BY <3>2, <3>3
  <2> QED BY <2>2, <2>3
<1> QED BY <1>2, <1>3, <1>4

LEMMA TwoBooleans ==
  /\ Coercion(Boolean, Boolean) = "coerced" /\ Coerced(Boolean, Boolean) = Boolean
  /\ Boolean \in Meets(Boolean, Boolean)
<1>1. Boolean.kind = "boolean" /\ Boolean.size = 1
  BY KindAndSize DEF Boolean
<1>2. Coerced(Boolean, Boolean) = Boolean
  <2>1. Larger(1, 1) = 1
    BY DEF Larger
  <2>2. Coerced(Boolean, Boolean) = Basic("boolean", 1)
    BY <1>1, <2>1 DEF Coerced
  <2> QED BY <2>2 DEF Boolean
<1>3. IsOperand(Boolean) /\ ~DifferentSignedness(Boolean, Boolean)
  BY <1>1 DEF IsOperand, DifferentSignedness
<1>4. Boolean \in BuiltinTypes
  BY DEF BuiltinTypes
<1>5. Coercion(Boolean, Boolean) = "coerced"
  BY <1>2, <1>3, <1>4 DEF Coercion, CanCast
<1>6. Boolean \in Meets(Boolean, Boolean)
  BY DEF Meets, LeastUpperBound, Widens
<1> QED BY <1>2, <1>5, <1>6

(***************************************************************************)
(* For any two types coerce_types finds the least type both widen to, or   *)
(* reports an error if there is none, or one operand is signed and the     *)
(* other unsigned; or it reads a null type, for a boolean on the left and  *)
(* a wider integer on the right.                                           *)
(***************************************************************************)
THEOREM CoercionMeets ==
  ASSUME NEW l \in Types \cup {None}, NEW r \in Types \cup {None}
  PROVE  /\ Coercion(l, r) = "coerced" =>
              ~DifferentSignedness(l, r) /\ Coerced(l, r) \in Meets(l, r)
         /\ Coercion(l, r) \notin {"coerced", "no type"} =>
              DifferentSignedness(l, r) \/ Meets(l, r) = {}
         /\ Coercion(l, r) = "no type" =>
              l = Boolean /\ r.kind \in {"signed", "unsigned"} /\ r.size > 1
<1> DEFINE O == Numbers \cup {Boolean}
<1>1. CASE l \notin O \/ r \notin O
  <2>1. Coercion(l, r) = "operand"
    BY <1>1, OperandTypes DEF Coercion
  <2>2. Meets(l, r) = {}
    BY <1>1, OperandTypes DEF Meets, LeastUpperBound
  <2> QED BY <2>1, <2>2
<1>2. CASE l \in Numbers /\ r \in Numbers /\ DifferentSignedness(l, r)
  <2>1. IsOperand(l) /\ IsOperand(r)
    BY <1>2, OperandTypes
  <2>2. Coercion(l, r) = "signedness"
    BY <1>2, <2>1 DEF Coercion
  <2> QED BY <1>2, <2>2
<1>3. CASE l \in Numbers /\ r \in Numbers /\ ~DifferentSignedness(l, r)
  BY <1>3, CoercedNumber, CoercedIsLeast DEF Meets
<1>4. CASE \/ l = Boolean /\ r \in Numbers
           \/ l \in Numbers /\ r = Boolean
  BY <1>4, MixedOperands
<1>5. CASE l = Boolean /\ r = Boolean
  <2>1. ~DifferentSignedness(l, r)
    BY <1>5, KindAndSize DEF DifferentSignedness, Boolean
  <2> QED BY <1>5, <2>1, TwoBooleans
<1> QED BY <1>1, <1>2, <1>3, <1>4, <1>5

-----------------------------------------------------------------------------
(* The coercions of a body. *)

(* The node at hand is a coercing operator with healthy operands. *)
LEMMA CoercingAction ==
  ASSUME Step, Check, IsCoercing(at), Poison \notin {inferred[node.lhs], inferred[node.rhs]}
  PROVE  Operator({"arithmetic", "comparison"}) /\ CoerceTypes /\ Coercion(left, right) # "no type"
<1> USE StepFacts
<1>1. node.form = "operator" /\ node.category \in {"arithmetic", "comparison"}
  BY DEF IsCoercing, node
<1>2. Healthy
  BY <1>1, OperandsAreUncast DEF Step, CInv, Healthy
<1>3. ~EndChecking
  <2>1. at # Len(nodes) + 1
    OBVIOUS
  <2> QED BY <2>1 DEF EndChecking
<1>4. ~CoercionCrashes
  BY DEF CoercionCrashes, Step, Effect
<1>5. CheckArithmetic \/ CheckComparison
  BY <1>1, <1>2, <1>3, <1>4 DEF Check, CheckLeaf, CheckUnknown, CheckIdentifier, CheckCallee,
     CheckCall, SpreadPoison, CheckBitwise, CheckLogical, CheckAssignment, CheckDeclaration,
     CheckReturn, CheckCondition, Operator, Visiting
<1> QED BY <1>1, <1>5 DEF CheckArithmetic, CheckComparison, Operator

(* No error a step reports is about the coercion of another node. *)
LEMMA OthersErrors ==
  ASSUME Step, NEW i \in Indices, i # at, IsCoercing(i)
  PROVE  CoercionReported(i)' <=> CoercionReported(i)
<1> USE StepFacts
<1> DEFINE l == nodes[i].lhs
           r == nodes[i].rhs
           E == {<<i, "operand">>, <<i, "signedness">>, <<l, "cast">>, <<r, "cast">>}
<1>1. {l, r} = Parts(nodes[i])
  BY PartsByForm DEF IsCoercing
<1>2. Parts(nodes[i]) \cap Parts(node) = {}
  BY Bodies DEF node
<1>3. ASSUME NEW e \in E, Fresh(e) PROVE FALSE
  <2>1. \/ e[1] = i /\ e[2] \in {"operand", "signedness"}
        \/ e[1] \in {l, r} /\ e[2] = "cast"
    <3> HIDE DEF l, r
    <3>1. /\ <<i, "operand">>[1] = i /\ <<i, "operand">>[2] = "operand"
          /\ <<i, "signedness">>[1] = i /\ <<i, "signedness">>[2] = "signedness"
          /\ <<l, "cast">>[1] = l /\ <<l, "cast">>[2] = "cast"
          /\ <<r, "cast">>[1] = r /\ <<r, "cast">>[2] = "cast"
      OBVIOUS
    <3> QED BY <1>3, <3>1
  <2> QED BY <1>1, <1>2, <1>3, <2>1 DEF Fresh
<1>4. errors \subseteq errors' /\ \A e \in errors' : e \in errors \/ Fresh(e)
  BY DEF Step, Effect, Footprint
<1>5. CoercionReported(i)' <=> \E e \in errors' : e \in E
  BY DEF CoercionReported
<1>6. CoercionReported(i) <=> \E e \in errors : e \in E
  BY DEF CoercionReported
<1> HIDE DEF E
<1> QED BY <1>3, <1>4, <1>5, <1>6

LEMMA EarlierStayLeast ==
  ASSUME Step, NEW i \in Indices, i < at, IsCoercing(i), CoercesToLeast(i)
  PROVE  CoercesToLeast(i)'
<1> USE StepFacts
<1>1. ASSUME NEW k \in {nodes[i].lhs, nodes[i].rhs}
      PROVE  inferred'[k] = inferred[k] /\ cast'[k] = cast[k]
  <2>1. k \in Parts(nodes[i])
    BY PartsByForm DEF IsCoercing
  <2>2. k \in Indices /\ k < at /\ k \notin Parts(node)
    <3>1. k \in Indices /\ k < i /\ k \in Int /\ i \in Int
      BY <2>1, PartsAreBefore
    <3>2. i # at
      BY <3>1
    <3>3. k \notin Parts(nodes[at])
      BY <2>1, <3>2, Bodies
    <3> QED BY <3>1, <3>3 DEF node
  <2>3. inferred'[k] = inferred[k]
    BY <2>2, PassedTypes, PartsByForm
  <2>4. cast'[k] = cast[k]
    BY <2>2 DEF Step, Footprint, NewCast
  <2> QED BY <2>3, <2>4
<1>2. /\ inferred'[nodes[i].lhs] = inferred[nodes[i].lhs]
      /\ inferred'[nodes[i].rhs] = inferred[nodes[i].rhs]
      /\ TypeOf(nodes[i].lhs)' = TypeOf(nodes[i].lhs)
      /\ TypeOf(nodes[i].rhs)' = TypeOf(nodes[i].rhs)
  BY <1>1 DEF TypeOf
<1>3. CoercionReported(i)' <=> CoercionReported(i)
  BY OthersErrors
<1> QED BY <1>2, <1>3 DEF CoercesToLeast

LEMMA NewIsLeast ==
  ASSUME Step, Check, ErrorInv, IsCoercing(at),
         Poison \notin {inferred[node.lhs], inferred[node.rhs]}
  PROVE  \A i \in Indices : i = at => CoercesToLeast(i)'
<1> USE StepFacts
<1> SUFFICES ASSUME NEW i \in Indices, i = at
             PROVE  CoercesToLeast(i)'
  OBVIOUS
<1> DEFINE l == nodes[i].lhs
           r == nodes[i].rhs
           C == Coerced(left, right)
           outcome == Coercion(left, right)
           S == IF outcome \in {"coerced", "right"} THEN {l, r} ELSE {}
<1>1. node.form = "operator" /\ CoerceTypes /\ outcome # "no type" /\ l = node.lhs /\ r = node.rhs
  BY CoercingAction DEF IsCoercing, node
<1>2. errors' = errors \cup CoercionErrors /\ CastAll(S, C)
  BY <1>1 DEF CoerceTypes, Report
<1>3. {l, r} = Parts(node) /\ {l, r} \subseteq Indices /\ left \in Types \cup {None}
        /\ right \in Types \cup {None}
  BY <1>1, OperatorFacts
<1>4. /\ left = inferred[l] /\ right = inferred[r] /\ TypeOf(l) = left /\ TypeOf(r) = right
      /\ cast[l] = None /\ cast[r] = None /\ l < at /\ r < at
  BY <1>1, <1>3, PartsAreUncast DEF Step, CInv, left, right
<1>5. inferred'[l] = left /\ inferred'[r] = right
  <2>1. node.form # "declaration"
    BY <1>1
  <2> QED BY <1>3, <1>4, <2>1, PassedTypes
<1>6. ~CoercionReported(i)
  <2>1. ASSUME NEW e \in errors, e \in {<<i, "operand">>, <<i, "signedness">>} PROVE FALSE
    <3>1. e[1] = at /\ e[2] \in {"operand", "signedness"}
      BY <2>1
    <3> QED BY <3>1 DEF ErrorInv
  <2>2. ASSUME NEW e \in errors, NEW k \in {l, r}, e = <<k, "cast">> PROVE FALSE
    <3>1. e[1] = k /\ e[2] = "cast"
      BY <2>2
    <3>2. PICK j \in Indices : j < at /\ k \in Parts(nodes[j])
      BY <3>1 DEF ErrorInv
    <3>3. k \in Parts(nodes[at]) /\ j # at
      BY <1>3, <3>2 DEF node
    <3> QED BY <3>2, <3>3, Bodies
  <2> QED BY <2>1, <2>2 DEF CoercionReported
<1>7. CASE outcome = "coerced"
  <2>1. errors' = errors
    BY <1>2, <1>7 DEF CoercionErrors
  <2>2. ~DifferentSignedness(left, right) /\ C \in Meets(left, right)
    BY <1>3, <1>7, CoercionMeets
  <2>3. CanCast(left, C) /\ CanCast(right, C) /\ C # None
    <3>1. C \in Numbers \cup {Boolean}
      BY <1>7, CoercionOutcome
    <3> QED BY <1>7, <3>1, CoercionOutcome, DistinctTypes
  <2>4. ASSUME NEW k \in {l, r} PROVE (IF cast'[k] = None THEN inferred'[k] ELSE cast'[k]) = C
    <3>1. cast'[k] = IF TypeOf(k) # C THEN C ELSE cast[k]
      <4>1. k \in S /\ CanCast(TypeOf(k), C) /\ k \in Indices
        BY <1>3, <1>4, <1>7, <2>3, <2>4
      <4> HIDE DEF S, C, l, r
      <4> QED BY <1>2, <4>1 DEF CastAll
    <3>2. inferred'[k] = TypeOf(k) /\ cast[k] = None
      BY <1>4, <1>5, <2>4
    <3> HIDE DEF C, l, r
    <3> QED BY <2>3, <3>1, <3>2
  <2>5. TypeOf(l)' = C /\ TypeOf(r)' = C
    BY <2>4 DEF TypeOf
  <2>6. ~CoercionReported(i)'
    BY <1>6, <2>1 DEF CoercionReported
  <2> HIDE DEF C
  <2> QED BY <1>5, <2>2, <2>5, <2>6 DEF CoercesToLeast, Meets
<1>8. CASE outcome # "coerced"
  <2>1. DifferentSignedness(left, right) \/ Meets(left, right) = {}
    BY <1>1, <1>3, <1>8, CoercionMeets
  <2>2. \E e \in CoercionErrors :
          e \in {<<i, "operand">>, <<i, "signedness">>, <<l, "cast">>, <<r, "cast">>}
    <3>1. CASE outcome \in {"operand", "signedness"}
      BY <3>1 DEF CoercionErrors
    <3>2. CASE outcome = "left"
      BY <1>1, <3>2 DEF CoercionErrors
    <3>3. CASE outcome = "right"
      BY <1>1, <3>3 DEF CoercionErrors
    <3> QED BY <1>1, <1>8, <3>1, <3>2, <3>3, CoercionOutcome
  <2>3. CoercionReported(i)'
    BY <1>2, <2>2 DEF CoercionReported
  <2> QED BY <1>5, <2>1, <2>3 DEF CoercesToLeast, Meets
<1> QED BY <1>7, <1>8

LEMMA StepKeepsLeast ==
  ASSUME Step, Check, ErrorInv, CoercionIsLeast
  PROVE  CoercionIsLeast'
<1> USE StepFacts
<1> SUFFICES ASSUME NEW i \in Indices, IsCoercing(i), inferred'[i] # None,
                    Poison \notin {inferred'[nodes[i].lhs], inferred'[nodes[i].rhs]}
             PROVE  CoercesToLeast(i)'
  BY DEF CoercionIsLeast, IsCoercing, Visited
<1>1. {nodes[i].lhs, nodes[i].rhs} = Parts(nodes[i]) /\ nodes[i].form = "operator"
  BY PartsByForm DEF IsCoercing
<1>2. \A k \in Parts(nodes[i]) : k \in Indices /\ k < i /\ k \in Int /\ i \in Int
  BY PartsAreBefore
<1>3. CASE i < at
  <2>1. inferred[i] # None
    BY <1>1, <1>3, PassedTypes
  <2>2. \A k \in Parts(nodes[i]) : k < at
    BY <1>2, <1>3
  <2>3. \A k \in Parts(nodes[i]) : inferred[k] # Poison
    BY <1>1, <1>2, <2>2, HealthStays
  <2>4. CoercesToLeast(i)
    BY <1>1, <2>1, <2>3 DEF CoercionIsLeast, Visited
  <2> QED BY <1>3, <2>4, EarlierStayLeast
<1>4. CASE i = at
  <2>1. \A k \in Parts(nodes[i]) : inferred[k] # Poison
    BY <1>1, <1>2, <1>4, HealthStays
  <2>2. IsCoercing(at) /\ Poison \notin {inferred[node.lhs], inferred[node.rhs]}
    BY <1>1, <1>4, <2>1 DEF node
  <2> QED BY <1>4, <2>2, NewIsLeast
<1>5. CASE i > at
  <2>1. inferred[i] = None
    BY <1>1, <1>5 DEF Step, CInv, VisitInv
  <2>2. NewType(i)
    BY <2>1 DEF Step, Footprint
  <2> QED BY <1>1, <1>5, <2>2 DEF NewType
<1> QED BY <1>2, <1>3, <1>4, <1>5

LEMMA QuietKeepsLeast ==
  ASSUME CInv, Quiet, CoercionIsLeast
  PROVE  CoercionIsLeast'
<1>1. inferred' = inferred /\ cast' = cast /\ nodes' = nodes /\ Indices' = Indices
  BY DEF Quiet, nodes, Indices
<1>2. ASSUME NEW i PROVE CoercionReported(i)' <=> CoercionReported(i)
  <2> DEFINE E == {<<i, "operand">>, <<i, "signedness">>,
                   <<nodes[i].lhs, "cast">>, <<nodes[i].rhs, "cast">>}
  <2>1. <<Len(nodes) + 1, "no return">> \notin E
    <3>1. \A e \in E : e[2] \in {"operand", "signedness", "cast"}
      OBVIOUS
    <3> HIDE DEF E
    <3>2. <<Len(nodes) + 1, "no return">>[2] = "no return"
      OBVIOUS
    <3> QED BY <3>1, <3>2
  <2>2. CoercionReported(i)' <=> \E e \in errors' : e \in E
    BY <1>1 DEF CoercionReported
  <2>3. CoercionReported(i) <=> \E e \in errors : e \in E
    BY DEF CoercionReported
  <2> HIDE DEF E
  <2> QED BY <2>1, <2>2, <2>3 DEF Quiet
<1>3. ASSUME NEW i PROVE /\ TypeOf(nodes[i].lhs)' = TypeOf(nodes[i].lhs)
                         /\ TypeOf(nodes[i].rhs)' = TypeOf(nodes[i].rhs)
  BY <1>1 DEF TypeOf
<1>4. ASSUME NEW i, CoercesToLeast(i) PROVE CoercesToLeast(i)'
  BY <1>1, <1>2, <1>3, <1>4 DEF CoercesToLeast
<1> QED BY <1>1, <1>4 DEF CoercionIsLeast, IsCoercing, Visited

(***************************************************************************)
(* Every coercion in every body ends at the least type that both operands  *)
(* widen to, and a coercion that cannot be made is reported: at once,      *)
(* about it alone, and whatever the checker goes on to.                    *)
(***************************************************************************)
THEOREM CoercionsAreLeast == Spec => []CoercionIsLeast
<1> DEFINE Inv == CInv /\ ErrorInv /\ HealthyInv /\ CoercionIsLeast
<1>1. Init => Inv
  <2>1. Init => ErrorInv /\ HealthyInv
    BY DEF Init, ErrorInv, HealthyInv
  <2>2. Init => CoercionIsLeast
    BY DEF Init, CoercionIsLeast, Visited
  <2> QED BY <2>1, <2>2, InitIsC
<1>2. Inv /\ [Next]_vars => Inv'
  <2> SUFFICES ASSUME Inv, [Next]_vars PROVE Inv'
    OBVIOUS
  <2>1. CInv' /\ ErrorInv' /\ HealthyInv'
    BY NextKeepsCInv, NextKeepsErrors
  <2>2. ASSUME Check, Step PROVE CoercionIsLeast'
    BY <2>2, StepKeepsLeast
  <2>3. ASSUME Quiet PROVE CoercionIsLeast'
    BY <2>3, QuietKeepsLeast
  <2>4. CoercionIsLeast'
    BY <2>2, <2>3, StepsOfTheChecker, OtherStepsAreQuiet DEF Next
  <2> QED BY <2>1, <2>4
<1>3. Inv => CoercionIsLeast
  OBVIOUS
<1> QED BY <1>1, <1>2, <1>3, PTL DEF Spec

-----------------------------------------------------------------------------
(* The null type. *)

(* Only a coercion without a type crashes the checker, which stops there. *)
CrashInv == phase = "crashed" => /\ at \in Indices /\ node.form = "operator"
                                 /\ Coercion(left, right) = "no type"

LEMMA NextKeepsCrashInv ==
  ASSUME CInv, CrashInv, [Next]_vars
  PROVE  CrashInv'
<1> SUFFICES ASSUME phase' = "crashed" PROVE CrashInv'
  BY DEF CrashInv
<1>1. ASSUME UNCHANGED <<program, at, inferred, cast>>
      PROVE  /\ nodes' = nodes /\ Indices' = Indices /\ node' = node
             /\ left' = left /\ right' = right
  <2>1. nodes' = nodes /\ Indices' = Indices /\ node' = node
    BY <1>1 DEF nodes, Indices, node
  <2> QED BY <1>1, <2>1 DEF left, right, TypeOf
<1>2. CASE CoercionCrashes
  <2>1. /\ UNCHANGED <<program, at, inferred, cast>> /\ at \in Indices /\ node.form = "operator"
        /\ Coercion(left, right) = "no type"
    BY <1>2 DEF CoercionCrashes, checked, Operator, Visiting
  <2> QED BY <1>1, <2>1 DEF CrashInv
<1>3. CASE UNCHANGED vars
  <2>1. UNCHANGED <<program, at, inferred, cast>> /\ phase = "crashed"
    BY <1>3 DEF vars
  <2> QED BY <1>1, <2>1 DEF CrashInv
<1>4. ~Step /\ ~EndChecking
  BY DEF Step, Effect, EndChecking
<1>5. ~Generate
  <2>1. ASSUME NEW v, NEW wrong, Emit(v, wrong) PROVE phase' \in {phase, "aborted"}
    BY <2>1 DEF Emit, Abort
  <2>2. Abort => phase' = "aborted"
    BY DEF Abort
  <2> QED BY <2>1, <2>2 DEF Generate, GenerateLeaf, GenerateIdentifier, GenerateCall,
        GenerateOperator, GenerateLogical, GenerateAssignment, GenerateDeclaration, GenerateReturn,
        GenerateCondition, EndGenerating, GeneratingOperator, Generating
<1> QED BY <1>2, <1>3, <1>4, <1>5, StepsOfTheChecker DEF Next

(***************************************************************************)
(* coerce_types reads a null type for a boolean next to a wider integer,   *)
(* and never otherwise: no other body crashes the checker.                 *)
(***************************************************************************)
THEOREM OnlyBooleansCrash == Spec => []CrashNeedsBoolean
<1>1. Init => CInv /\ CrashInv
  <2>1. Init => CrashInv
    BY DEF Init, CrashInv
  <2> QED BY <2>1, InitIsC
<1>2. CInv /\ CrashInv /\ [Next]_vars => (CInv /\ CrashInv)'
  BY NextKeepsCInv, NextKeepsCrashInv
<1>3. CInv /\ CrashInv => CrashNeedsBoolean
  <2> SUFFICES ASSUME CInv, CrashInv, phase = "crashed"
               PROVE  left = Boolean /\ right.kind \in {"signed", "unsigned"} /\ right.size > 1
    BY DEF CrashNeedsBoolean
  <2>1. left \in Types \cup {None} /\ right \in Types \cup {None}
    BY OperatorFacts DEF CrashInv, CInv, IInv
  <2> QED BY <2>1, CoercionMeets DEF CrashInv
<1> QED BY <1>1, <1>2, <1>3, PTL DEF Spec

-----------------------------------------------------------------------------
(* The code of a body, from its types and casts alone. *)

(* The type of the value generated for a node, without its cast. *)
Raw(i) ==
  LET n == nodes[i]
      returns == nodes[n.callee].signature.returns
  IN  CASE n.form \in {"literal", "argument", "operator"} -> Convert(inferred[i])
        [] n.form = "identifier" -> IF IsStore(i) THEN Ptr ELSE Convert(inferred[i])
        [] n.form = "call" -> IF returns = Void THEN Null ELSE Convert(returns)
        [] OTHER -> Null

ValueOf(i) == IF cast[i] = None THEN Raw(i) ELSE Convert(cast[i])

SlotOf(i) == IF nodes[i].form = "declaration" THEN Convert(TypeOf(nodes[i].init)) ELSE Null

(* The generator does not stop at node i. *)
Generates(i) ==
  LET n == nodes[i]
  IN  /\ cast[i] = None \/ CanGenerate(inferred[i], cast[i])
      /\ n.form = "declaration" => ValueOf(n.init) # Null
      /\ n.form = "operator" /\ n.category = "assignment" =>
           Null \notin {ValueOf(n.lhs), ValueOf(n.rhs)}

WrongArgument(n, k) ==
  LET arguments == nodes[n.callee].signature.arguments
      given == ValueOf(n.arguments[k])
  IN  \/ given.class \in {"null", "void"}
      \/ k \in DOMAIN arguments /\ given # Convert(arguments[k])

(* What the generator makes of node i is valid. *)
Valid(i) ==
  LET n == nodes[i]
  IN  /\ n.form = "call" => \A k \in DOMAIN n.arguments : ~WrongArgument(n, k)
      /\ n.form = "operator" /\ n.category = "assignment" =>
           /\ ValueOf(n.lhs) = Ptr
           /\ nodes[n.lhs].form = "identifier" => SlotOf(nodes[n.lhs].of) = ValueOf(n.rhs)
      /\ n.form = "declaration" => SlotOf(i) = ValueOf(n.init)
      /\ n.form = "return" =>
           ValueOf(n.expression) = IF program.returns = Void THEN Null ELSE Convert(program.returns)

NoVoidSlot == \A i \in Indices : SlotOf(i).class # "void"

(* The generator follows the code up to where it has come. *)
Follows ==
  /\ slot = [i \in Indices |-> SlotOf(i)]
  /\ \A i \in Indices : i < at => value[i] = ValueOf(i) /\ Generates(i)
  /\ faults = {} <=> NoVoidSlot /\ \A i \in Indices : i < at => Valid(i)
  /\ \A f \in faults : f[2] \notin {"load", "operands", "condition"}

(* It stops at a node, or before the first one if a name has no type. *)
GInv ==
  /\ CInv
  /\ Accepted /\ ~Untyped => Follows
  /\ Accepted /\ Untyped => phase = "aborted" /\ at = 1 /\ faults = {}
  /\ ~Accepted => faults = {}
  /\ phase = "aborted" /\ ~Untyped => \E i \in Indices : ~Generates(i)
  /\ phase = "compiled" => at = Len(nodes) + 1

-----------------------------------------------------------------------------
(* The types and values of an accepted body whose names all have types. *)

Body == CInv /\ Accepted /\ ~Untyped

LEMMA BodyFacts ==
  ASSUME Body
  PROVE  /\ program \in Programs /\ Len(nodes) \in Nat /\ Indices = 1..Len(nodes)
         /\ \A i \in Indices : Sound(i) /\ NodeFacts(i) /\ i \in Int
         /\ inferred \in [Indices -> Types \cup {None}]
         /\ cast \in [Indices -> Numbers \cup {None}]
         /\ at \in 1..(Len(nodes) + 1) /\ at \in Int /\ DOMAIN value = Indices
<1>1. program \in Programs /\ TypeOK /\ SoundUpTo(Len(nodes) + 1)
  BY DEF Body, CInv, IInv, IType
<1>2. Len(nodes) \in Nat /\ Indices = 1..Len(nodes) /\ \A i \in Indices : NodeFacts(i)
  BY <1>1, Bodies
<1>3. \A i \in Indices : Sound(i) /\ i \in Int
  BY <1>1, <1>2 DEF SoundUpTo
<1>4. at \in 1..(Len(nodes) + 1) /\ at \in Int
  BY <1>1, <1>2 DEF TypeOK
<1> QED BY <1>1, <1>2, <1>3, <1>4 DEF TypeOK

LEMMA ConvertFacts ==
  /\ \A t : Convert(t) # Null
  /\ \A t \in ValueTypes : Convert(t).class \notin {"null", "void"}
  /\ Convert(Void).class = "void" /\ Convert(Boolean) = I1
  /\ Null.class = "null" /\ Ptr # Null
  /\ \A t \in ValueTypes \cup {Void} : Convert(t) = Ptr <=> t = StringLiteral
<1>1. ASSUME NEW c, NEW b PROVE Llvm(c, b).class = c
  BY DEF Llvm
<1>2. ASSUME NEW t
      PROVE  Convert(t).class \in {"int", "fp", "ptr", "void"}
  BY <1>1 DEF Convert, I1, Ptr
<1>3. Null.class = "null" /\ Ptr.class = "ptr"
  BY <1>1 DEF Null, Ptr
<1>4. ASSUME NEW t, t.kind \in {"boolean", "signed", "unsigned", "float", "pointer"}
      PROVE  Convert(t).class \notin {"null", "void"}
  BY <1>1, <1>4 DEF Convert, I1, Ptr
<1>5. \A t \in ValueTypes : t.kind \in {"boolean", "signed", "unsigned", "float", "pointer"}
  BY NumberParts, KindAndSize DEF ValueTypes, Boolean, StringLiteral
<1>6. Convert(Void).class = "void" /\ Convert(Boolean) = I1
  BY <1>1, KindAndSize DEF Convert, Void, Boolean
<1>7. \A t : Convert(t) # Null
  BY <1>2, <1>3
<1>8. Ptr # Null
  BY <1>3
<1>9. ASSUME NEW t \in ValueTypes \cup {Void}
      PROVE  Convert(t) = Ptr <=> t = StringLiteral
  <2>1. CASE t = StringLiteral
    BY <2>1, KindAndSize DEF Convert, StringLiteral
  <2>2. CASE t \in Numbers \cup {Boolean, Void}
    <3>1. t.kind \in {"signed", "unsigned", "float", "boolean", "void"}
      BY <2>2, NumberParts, KindAndSize DEF Boolean, Void
    <3>2. Convert(t).class \in {"int", "fp", "void"}
      BY <1>1, <3>1 DEF Convert, I1
    <3>3. StringLiteral.kind = "pointer"
      BY KindAndSize DEF StringLiteral
    <3> QED BY <1>3, <3>1, <3>2, <3>3
  <2> QED BY <2>1, <2>2 DEF ValueTypes
<1> QED BY <1>3, <1>4, <1>5, <1>6, <1>7, <1>8, <1>9

LEMMA TypesOfExpressions ==
  ASSUME Body, NEW i \in Indices, nodes[i].form \in ExpressionForms
  PROVE  /\ inferred[i] \in ValueTypes \cup {Void} /\ TypeOf(i) \in ValueTypes \cup {Void}
         /\ TypeOf(i) = Void => cast[i] = None /\ inferred[i] = Void
         /\ nodes[i].form \in {"literal", "argument", "identifier", "call", "operator"}
<1>1. inferred[i] \in Types \cup {None} /\ cast[i] \in Numbers \cup {None}
  BY BodyFacts
<1>2. nodes[i].form \notin {"nop", "callee"}
  BY DEF ExpressionForms
<1>3. inferred[i] \notin {None, Poison, Nop, Signature}
  <2>1. Sound(i) /\ NodeFacts(i) /\ Indices = 1..Len(nodes) /\ Len(nodes) \in Nat
    BY BodyFacts
  <2>2. inferred[i] \notin {None, Poison, Signature}
    BY <1>2, <2>1 DEF Sound, SomeType, Body, CInv, SignatureInv
  <2>3. inferred[i] = Nop => nodes[i].form \in {"argument", "identifier"}
    BY <1>2, <2>1 DEF Sound, SomeType
  <2>4. nodes[i].form = "argument" => inferred[i] # Nop
    BY <2>1 DEF Sound, Typed, Body, Untyped
  <2>5. CASE nodes[i].form = "identifier"
    <3>1. nodes[i].of \in Indices /\ nodes[nodes[i].of].form = "declaration"
      BY <2>1, <2>5 DEF NodeFacts, WellFormedNode
    <3>2. inferred[i] = TypeOf(nodes[nodes[i].of].init)
      BY <2>1, <2>5 DEF Sound, Typed
    <3> QED BY <2>2, <3>1, <3>2 DEF Body, Untyped
  <2> QED BY <2>2, <2>3, <2>4, <2>5
<1>4. inferred[i] \in ValueTypes \cup {Void}
  BY <1>1, <1>3 DEF Types, BuiltinTypes, ValueTypes
<1>5. nodes[i].form # "unknown"
  BY BodyFacts DEF Sound, Typed
<1> QED BY <1>1, <1>4, <1>5, DistinctTypes DEF ValueTypes, TypeOf, ExpressionForms

(* What has a value has one of its type. *)
LEMMA ValuesOfTypes ==
  ASSUME Body, NEW i \in Indices, HasValue(i)
  PROVE  ValueOf(i) = Convert(TypeOf(i))
<1>1. CASE cast[i] # None
  BY <1>1 DEF ValueOf, TypeOf
<1>2. CASE cast[i] = None
  <2>1. CASE nodes[i].form = "call"
    <3>1. inferred[i] = nodes[nodes[i].callee].signature.returns
      BY <2>1, BodyFacts DEF Sound, Typed, TypedCall
    <3> QED BY <1>2, <2>1, <3>1 DEF ValueOf, Raw, TypeOf, HasValue
  <2>2. CASE nodes[i].form # "call"
    BY <1>2, <2>2 DEF ValueOf, Raw, TypeOf, HasValue
  <2> QED BY <2>1, <2>2
<1> QED BY <1>1, <1>2

(* The parts of a node that an assignment does not store to. *)
LEMMA PartValues ==
  ASSUME Body, NEW i \in Indices, NEW k \in Parts(nodes[i]),
         nodes[i].form = "operator" /\ nodes[i].category = "assignment" => k # nodes[i].lhs,
         nodes[k].form # "nop"
  PROVE  /\ TypeOf(k) \in ValueTypes \cup {Void}
         /\ TypeOf(k) # Void => /\ ValueOf(k) = Convert(TypeOf(k))
                                /\ ValueOf(k).class \notin {"null", "void"}
         /\ TypeOf(k) = Void =>
              /\ ValueOf(k).class \in {"null", "void"}
              /\ ValueOf(k) = Null <=> nodes[k].form = "call"
<1>1. k \in Indices /\ nodes[k].form \in ExpressionForms /\ ~IsStore(k)
  BY BodyFacts, PartsAreBefore, PartsAreExpressions, StoresOf
<1>2. TypeOf(k) \in ValueTypes \cup {Void}
        /\ nodes[k].form \in {"literal", "argument", "identifier", "call", "operator"}
        /\ (TypeOf(k) = Void => cast[k] = None /\ inferred[k] = Void)
  BY <1>1, TypesOfExpressions
<1>3. ASSUME TypeOf(k) # Void
      PROVE  ValueOf(k) = Convert(TypeOf(k)) /\ ValueOf(k).class \notin {"null", "void"}
  <2>1. ValueOf(k) = Convert(TypeOf(k))
    BY <1>1, <1>2, <1>3, ValuesOfTypes DEF HasValue
  <2> QED BY <1>2, <1>3, <2>1, ConvertFacts
<1>4. ASSUME TypeOf(k) = Void
      PROVE  /\ ValueOf(k).class \in {"null", "void"}
             /\ ValueOf(k) = Null <=> nodes[k].form = "call"
  <2>1. CASE nodes[k].form = "call"
    <3>1. nodes[nodes[k].callee].signature.returns = Void
      BY <1>1, <1>2, <1>4, <2>1, BodyFacts DEF Sound, Typed, TypedCall
    <3>2. ValueOf(k) = Null
      BY <1>2, <1>4, <2>1, <3>1 DEF ValueOf, Raw
    <3> QED BY <2>1, <3>2, ConvertFacts
  <2>2. CASE nodes[k].form # "call"
    <3>1. ValueOf(k) = Convert(Void)
      BY <1>1, <1>2, <1>4, <2>2 DEF ValueOf, Raw
    <3> QED BY <2>2, <3>1, ConvertFacts
  <2> QED BY <2>1, <2>2
<1> QED BY <1>2, <1>3, <1>4

(* Nothing has no value, and no type but that of a variable. *)
LEMMA NopValues ==
  ASSUME Body, NEW i \in Indices, nodes[i].form = "nop"
  PROVE  /\ ValueOf(i) = Null
         /\ \A j \in Indices : nodes[j].form # "declaration" /\ i \in Parts(nodes[j]) => TypeOf(i) = Nop
<1>1. cast[i] = None
  BY DEF Body, CInv, CastInv
<1>2. ValueOf(i) = Null
  BY <1>1 DEF ValueOf, Raw
<1>3. ASSUME NEW j \in Indices, nodes[j].form # "declaration", i \in Parts(nodes[j])
      PROVE  TypeOf(i) = Nop
  <2>1. inferred[i] \in {None, Nop}
           \/ \E d \in Indices : nodes[d].form = "declaration" /\ nodes[d].init = i
    BY DEF Body, CInv, NopInv
  <2>2. ASSUME NEW d \in Indices, nodes[d].form = "declaration", nodes[d].init = i PROVE FALSE
    <3>1. i \in Parts(nodes[d])
      BY <2>2, PartsByForm
    <3> QED BY <1>3, <2>2, <3>1, BodyFacts, Bodies
  <2>3. inferred[i] # None
    BY BodyFacts DEF Sound, SomeType
  <2> QED BY <1>1, <2>1, <2>2, <2>3 DEF TypeOf
<1> QED BY <1>2, <1>3

-----------------------------------------------------------------------------
(* The generator follows the code. *)

(* It changes neither types nor casts, and so none of the code. *)
LEMMA CodeStays ==
  ASSUME UNCHANGED <<program, inferred, cast>>
  PROVE  /\ nodes' = nodes /\ Indices' = Indices
         /\ \A i : ValueOf(i)' = ValueOf(i) /\ SlotOf(i)' = SlotOf(i)
         /\ \A i : (Generates(i)' <=> Generates(i)) /\ (Valid(i)' <=> Valid(i))
         /\ NoVoidSlot' <=> NoVoidSlot
         /\ Untyped' <=> Untyped
<1>1. nodes' = nodes /\ Indices' = Indices
  BY DEF nodes, Indices
<1>2. \A i : IsStore(i)' = IsStore(i)
  BY <1>1, BodyStays
<1>3. \A i : Raw(i)' = Raw(i)
  BY <1>1, <1>2 DEF Raw
<1>4. \A i : ValueOf(i)' = ValueOf(i)
  BY <1>3 DEF ValueOf
<1>5. \A i : SlotOf(i)' = SlotOf(i)
  BY <1>1 DEF SlotOf, TypeOf
<1>6. \A i : Generates(i)' <=> Generates(i)
  BY <1>1, <1>4 DEF Generates
<1>7. \A n, k : WrongArgument(n, k)' <=> WrongArgument(n, k)
  BY <1>1, <1>4 DEF WrongArgument
<1>8. \A i : Valid(i)' <=> Valid(i)
  BY <1>1, <1>4, <1>5, <1>7 DEF Valid
<1>9. NoVoidSlot' <=> NoVoidSlot
  BY <1>1, <1>5 DEF NoVoidSlot
<1>10. Untyped' <=> Untyped
  BY <1>1 DEF Untyped, TypeOf
<1> QED BY <1>1, <1>4, <1>5, <1>6, <1>8, <1>9, <1>10

(* What the generator has at hand, between two nodes of a body. *)
LEMMA Following ==
  ASSUME GInv, phase = "generating"
  PROVE  /\ Body /\ Follows /\ Accepted
         /\ \A k \in Parts(nodes[at]) : at \in Indices =>
              k \in Indices /\ k \in Int /\ k < at /\ value[k] = ValueOf(k)
<1>1. Body /\ Follows /\ Accepted
  BY DEF GInv, Body, Accepted
<1>2. ASSUME at \in Indices, NEW k \in Parts(nodes[at])
      PROVE  k \in Indices /\ k \in Int /\ k < at /\ value[k] = ValueOf(k)
  BY <1>1, <1>2, BodyFacts, PartsAreBefore DEF Follows
<1> QED BY <1>1, <1>2

(* A node done as the code has it. *)
LEMMA Emitted ==
  ASSUME GInv, CInv', phase = "generating", at \in Indices, NEW wrong, Emit(Raw(at), wrong),
         {"load", "operands", "condition"} \cap wrong = {}, wrong = {} <=> Valid(at),
         cast[at] = None \/ CanGenerate(inferred[at], cast[at]) => Generates(at)
  PROVE  GInv'
<1>1. UNCHANGED <<program, inferred, cast, slot>> /\ Body /\ Follows
  BY Following DEF Emit, Abort, checked, generated
<1>2. /\ nodes' = nodes /\ Indices' = Indices
      /\ \A i : ValueOf(i)' = ValueOf(i) /\ SlotOf(i)' = SlotOf(i)
      /\ \A i : (Generates(i)' <=> Generates(i)) /\ (Valid(i)' <=> Valid(i))
      /\ NoVoidSlot' <=> NoVoidSlot
      /\ ~Untyped'
  BY <1>1, CodeStays DEF Body
<1>3. CASE cast[at] # None /\ ~CanGenerate(inferred[at], cast[at])
  <2>1. Abort /\ ~Generates(at)
    BY <1>3 DEF Emit, Generates
  <2>2. phase' = "aborted" /\ UNCHANGED <<at, value, faults>>
    BY <2>1 DEF Abort, generated
  <2>3. Follows'
    BY <1>1, <1>2, <2>2 DEF Follows
  <2> QED BY <1>2, <2>1, <2>2, <2>3 DEF GInv, Accepted
<1>4. CASE cast[at] = None \/ CanGenerate(inferred[at], cast[at])
  <2>1. /\ value' = [value EXCEPT ![at] = ValueOf(at)]
        /\ faults' = faults \cup {<<at, w>> : w \in wrong}
        /\ at' = at + 1 /\ phase' = "generating"
    BY <1>4 DEF Emit, ValueOf
  <2>2. Generates(at) /\ DOMAIN value = Indices /\ \A i \in Indices : i \in Int
    BY <1>1, <1>4, BodyFacts
  <2>3. ASSUME NEW i \in Indices, i < at'
        PROVE  value'[i] = ValueOf(i) /\ Generates(i)
    <3>1. i < at \/ i = at
      BY <2>1, <2>2, <2>3
    <3> QED BY <1>1, <2>1, <2>2, <3>1 DEF Follows
  <2>4. faults' = {} <=> faults = {} /\ wrong = {}
    BY <2>1
  <2>5. (\A i \in Indices : i < at' => Valid(i)) <=> (\A i \in Indices : i < at => Valid(i)) /\ Valid(at)
    <3>1. \A i \in Indices : i < at' <=> i < at \/ i = at
      BY <2>1, <2>2
    <3> QED BY <3>1
  <2>6. faults' = {} <=> NoVoidSlot /\ \A i \in Indices : i < at' => Valid(i)
    BY <1>1, <2>4, <2>5 DEF Follows
  <2>7. \A f \in faults' : f[2] \notin {"load", "operands", "condition"}
    <3>1. \A w \in wrong : <<at, w>>[2] = w
      OBVIOUS
    <3>2. \A f \in faults' : f \in faults \/ f[2] \in wrong
      BY <2>1, <3>1
    <3> QED BY <1>1, <3>2 DEF Follows
  <2>8. slot' = [i \in Indices |-> SlotOf(i)]
    BY <1>1 DEF Follows
  <2>9. Follows'
    <3>1. slot' = [i \in Indices' |-> SlotOf(i)']
      BY <1>2, <2>8
    <3>2. \A i \in Indices' : i < at' => value'[i] = ValueOf(i)' /\ Generates(i)'
      BY <1>2, <2>3
    <3>3. faults' = {} <=> NoVoidSlot' /\ \A i \in Indices' : i < at' => Valid(i)'
      BY <1>2, <2>6
    <3> QED BY <2>7, <3>1, <3>2, <3>3 DEF Follows
  <2> QED BY <1>2, <2>1, <2>9 DEF GInv, Accepted
<1> QED BY <1>3, <1>4

(* A node at which the generator stops. *)
LEMMA Stopped ==
  ASSUME GInv, CInv', phase = "generating", at \in Indices, Abort, ~Generates(at)
  PROVE  GInv'
<1>1. UNCHANGED <<program, inferred, cast, slot, at, value, faults>> /\ phase' = "aborted"
        /\ Follows /\ ~Untyped
  BY Following DEF Abort, checked, generated, Body
<1>2. /\ nodes' = nodes /\ Indices' = Indices
      /\ \A i : ValueOf(i)' = ValueOf(i) /\ SlotOf(i)' = SlotOf(i)
      /\ \A i : (Generates(i)' <=> Generates(i)) /\ (Valid(i)' <=> Valid(i))
      /\ NoVoidSlot' <=> NoVoidSlot
      /\ ~Untyped'
  BY <1>1, CodeStays
<1>3. Follows'
  BY <1>1, <1>2 DEF Follows
<1> QED BY <1>1, <1>2, <1>3 DEF GInv, Accepted

(* One lemma per action of the generator. *)

LEMMA LeafValue ==
  ASSUME GInv, CInv', GenerateLeaf
  PROVE  GInv'
<1>1. /\ phase = "generating" /\ at \in Indices
      /\ nodes[at].form \in {"literal", "argument", "nop", "callee"}
  BY DEF GenerateLeaf, Generating, node
<1>2. Emit(Raw(at), {})
  BY <1>1 DEF GenerateLeaf, Raw, node
<1>3. Valid(at)
  BY <1>1 DEF Valid
<1>4. cast[at] = None \/ CanGenerate(inferred[at], cast[at]) => Generates(at)
  BY <1>1 DEF Generates
<1> QED BY <1>1, <1>2, <1>3, <1>4, Emitted

(* A load has the type of the alloca it reads. *)
LEMMA IdentifierValue ==
  ASSUME GInv, CInv', GenerateIdentifier
  PROVE  GInv'
<1>1. phase = "generating" /\ at \in Indices /\ nodes[at].form = "identifier"
  BY DEF GenerateIdentifier, Generating, node
<1>2. Body /\ Follows
  BY <1>1, Following
<1>3. slot[node.of] = Convert(inferred[at])
  <2>1. /\ nodes[at].of \in Indices /\ nodes[nodes[at].of].form = "declaration"
        /\ inferred[at] = TypeOf(nodes[nodes[at].of].init)
    <3>1. NodeFacts(at) /\ Sound(at) /\ Indices = 1..Len(nodes) /\ Len(nodes) \in Nat
      BY <1>1, <1>2, BodyFacts
    <3> QED BY <1>1, <3>1 DEF NodeFacts, WellFormedNode, Sound, Typed
  <2> QED BY <1>2, <2>1 DEF Follows, SlotOf, node
<1>4. Emit(Raw(at), {})
  <2>1. {w \in {"load"} : slot[node.of] # Convert(inferred[at])} = {}
    BY <1>3
  <2> QED BY <1>1, <2>1 DEF GenerateIdentifier, Raw, node
<1>5. Valid(at)
  BY <1>1 DEF Valid
<1>6. cast[at] = None \/ CanGenerate(inferred[at], cast[at]) => Generates(at)
  BY <1>1 DEF Generates
<1> QED BY <1>1, <1>4, <1>5, <1>6, Emitted

LEMMA CallValue ==
  ASSUME GInv, CInv', GenerateCall
  PROVE  GInv'
<1> DEFINE W == {w \in {"argument"} : \E k \in DOMAIN nodes[at].arguments : WrongArgument(nodes[at], k)}
<1>1. phase = "generating" /\ at \in Indices /\ nodes[at].form = "call"
  BY DEF GenerateCall, Generating, node
<1>2. \A k \in DOMAIN nodes[at].arguments : value[nodes[at].arguments[k]] = ValueOf(nodes[at].arguments[k])
  BY <1>1, Following, PartsByForm
<1>3. Emit(Raw(at), W)
  BY <1>1, <1>2 DEF GenerateCall, Raw, WrongArgument, node
<1>4. W = {} <=> Valid(at)
  BY <1>1 DEF Valid
<1>5. {"load", "operands", "condition"} \cap W = {}
  OBVIOUS
<1>6. cast[at] = None \/ CanGenerate(inferred[at], cast[at]) => Generates(at)
  BY <1>1 DEF Generates
<1> HIDE DEF W
<1> QED BY <1>1, <1>3, <1>4, <1>5, <1>6, Emitted

(* The operands of an operator, unless it is an assignment. *)
LEMMA OperandValues ==
  ASSUME GInv, phase = "generating", at \in Indices, nodes[at].form = "operator",
         nodes[at].category # "assignment"
  PROVE  /\ left \in Numbers \cup {Boolean} /\ OperandsAgree
         /\ value[node.lhs] = Convert(left) /\ value[node.rhs] = Convert(left)
         /\ Convert(left) # Null /\ OperandsExist
         /\ nodes[at].category = "bitwise" => left.kind = "unsigned" /\ inferred[at] = left
         /\ nodes[at].category = "arithmetic" => inferred[at] = left
         /\ nodes[at].category \in {"comparison", "logical"} => inferred[at] = Boolean
         /\ nodes[at].category = "logical" => left = Boolean
<1>1. Body /\ Sound(at) /\ NodeFacts(at)
  BY Following, BodyFacts
<1>2. TypedOperator(node, inferred[at])
  BY <1>1 DEF Sound, Typed, node
<1>3. nodes[at].category \in {"arithmetic", "bitwise", "comparison", "logical"}
  BY <1>1 DEF NodeFacts, WellFormedNode
<1>4. left \in Numbers \cup {Boolean} /\ OperandsAgree
  BY <1>2, <1>3 DEF TypedOperator, left, OperandsAgree, node
<1>5. node.lhs \in Parts(nodes[at]) /\ node.rhs \in Parts(nodes[at])
  BY PartsByForm DEF node
<1>6. nodes[node.lhs].form # "nop" /\ nodes[node.rhs].form # "nop"
  BY <1>1, <1>5, PartsAreExpressions, BodyFacts DEF ExpressionForms
<1>7. left # Void
  BY <1>4, DistinctTypes, KindAndSize DEF Void, Boolean
<1>8. ValueOf(node.lhs) = Convert(left) /\ ValueOf(node.rhs) = Convert(left)
  BY <1>1, <1>4, <1>5, <1>6, <1>7, PartValues DEF left, OperandsAgree
<1>9. value[node.lhs] = Convert(left) /\ value[node.rhs] = Convert(left)
  BY <1>5, <1>8, Following
<1>10. Convert(left) # Null
  BY ConvertFacts
<1>11. OperandsExist
  BY <1>9, <1>10 DEF OperandsExist
<1> QED BY <1>2, <1>4, <1>9, <1>10, <1>11 DEF TypedOperator, left, node

(* The asserts of an operator hold, and its operands are of one type. *)
LEMMA OperatorValue ==
  ASSUME GInv, CInv', GenerateOperator
  PROVE  GInv'
<1>1. /\ phase = "generating" /\ at \in Indices /\ nodes[at].form = "operator"
      /\ nodes[at].category \in {"arithmetic", "bitwise", "comparison"}
  BY DEF GenerateOperator, GeneratingOperator, Generating, node
<1>2. /\ left \in Numbers \cup {Boolean} /\ OperandsAgree /\ OperandsExist
      /\ value[node.lhs] = Convert(left) /\ value[node.rhs] = Convert(left)
      /\ nodes[at].category = "bitwise" => left.kind = "unsigned" /\ inferred[at] = left
      /\ nodes[at].category = "arithmetic" => inferred[at] = left
      /\ nodes[at].category = "comparison" => inferred[at] = Boolean
  BY <1>1, OperandValues
<1>3. left.kind \in {"boolean", "signed", "unsigned", "float"}
  BY <1>2, NumberParts, KindAndSize DEF Boolean
<1>4. HasInstruction(left.kind, node.category)
  BY <1>1, <1>2, <1>3 DEF HasInstruction, node
<1>5. Raw(at) = IF node.category = "comparison" THEN I1 ELSE value[node.lhs]
  <2>1. Raw(at) = Convert(inferred[at])
    BY <1>1 DEF Raw
  <2> QED BY <1>1, <1>2, <2>1, ConvertFacts DEF node
<1>6. Emit(Raw(at), {})
  <2>1. {w \in {"operands"} : value[node.lhs] # value[node.rhs]} = {}
    BY <1>2
  <2> QED BY <1>2, <1>4, <1>5, <2>1 DEF GenerateOperator
<1>7. Valid(at)
  BY <1>1 DEF Valid
<1>8. cast[at] = None \/ CanGenerate(inferred[at], cast[at]) => Generates(at)
  BY <1>1 DEF Generates
<1> QED BY <1>1, <1>6, <1>7, <1>8, Emitted

LEMMA LogicalValue ==
  ASSUME GInv, CInv', GenerateLogical
  PROVE  GInv'
<1>1. /\ phase = "generating" /\ at \in Indices /\ nodes[at].form = "operator"
      /\ nodes[at].category = "logical"
  BY DEF GenerateLogical, GeneratingOperator, Generating, node
<1>2. /\ left = Boolean /\ OperandsAgree /\ inferred[at] = Boolean
      /\ value[node.lhs] = Convert(left) /\ value[node.rhs] = Convert(left)
  BY <1>1, OperandValues
<1>3. Raw(at) = I1 /\ value[node.lhs] = I1 /\ value[node.rhs] = I1
  BY <1>1, <1>2, ConvertFacts DEF Raw
<1>4. Emit(Raw(at), {})
  BY <1>2, <1>3 DEF GenerateLogical
<1>5. Valid(at)
  BY <1>1 DEF Valid
<1>6. cast[at] = None \/ CanGenerate(inferred[at], cast[at]) => Generates(at)
  BY <1>1 DEF Generates
<1> QED BY <1>1, <1>4, <1>5, <1>6, Emitted

(* The types of an assignment agree, but its operands may have no value. *)
LEMMA AssignmentValue ==
  ASSUME GInv, CInv', GenerateAssignment
  PROVE  GInv'
<1> DEFINE lhs == nodes[at].lhs
           W == {w \in {"store"} :
                   \/ value[lhs] # Ptr
                   \/ IsVariable(lhs) /\ slot[nodes[lhs].of] # value[nodes[at].rhs]}
<1>1. /\ phase = "generating" /\ at \in Indices /\ nodes[at].form = "operator"
      /\ nodes[at].category = "assignment"
  BY DEF GenerateAssignment, GeneratingOperator, Generating, node
<1>2. Body /\ Follows /\ Sound(at)
  BY <1>1, Following, BodyFacts
<1>3. OperandsAgree /\ inferred[at] = Void
  BY <1>1, <1>2 DEF Sound, Typed, TypedOperator, OperandsAgree, node
<1>4. lhs \in Indices /\ value[lhs] = ValueOf(lhs) /\ value[nodes[at].rhs] = ValueOf(nodes[at].rhs)
  BY <1>1, Following, PartsByForm
<1>5. CASE OperandsExist
  <2>1. Emit(Raw(at), W)
    BY <1>1, <1>3, <1>5 DEF GenerateAssignment, Raw, node
  <2>2. IsVariable(lhs) => nodes[lhs].of \in Indices
    <3>1. NodeFacts(lhs) /\ Indices = 1..Len(nodes) /\ Len(nodes) \in Nat
      BY <1>2, <1>4, BodyFacts
    <3> QED BY <1>4, <3>1 DEF IsVariable, NodeFacts, WellFormedNode
  <2>3. IsVariable(lhs) => slot[nodes[lhs].of] = SlotOf(nodes[lhs].of)
    BY <1>2, <2>2 DEF Follows
  <2>4. Valid(at) <=> /\ ValueOf(lhs) = Ptr
                      /\ IsVariable(lhs) => SlotOf(nodes[lhs].of) = ValueOf(nodes[at].rhs)
    BY <1>1 DEF Valid, IsVariable
  <2>5. W = {} <=> Valid(at)
    BY <1>4, <2>3, <2>4
  <2>6. {"load", "operands", "condition"} \cap W = {}
    OBVIOUS
  <2>7. cast[at] = None \/ CanGenerate(inferred[at], cast[at]) => Generates(at)
    BY <1>1, <1>4, <1>5 DEF Generates, OperandsExist, node
  <2> HIDE DEF W
  <2> QED BY <1>1, <2>1, <2>5, <2>6, <2>7, Emitted
<1>6. CASE ~OperandsExist
  <2>1. Abort
    BY <1>6 DEF GenerateAssignment
  <2>2. ~Generates(at)
    BY <1>1, <1>4, <1>6 DEF Generates, OperandsExist, node
  <2> QED BY <1>1, <2>1, <2>2, Stopped
<1> QED BY <1>5, <1>6

LEMMA DeclarationValue ==
  ASSUME GInv, CInv', GenerateDeclaration
  PROVE  GInv'
<1> DEFINE W == {w \in {"store"} : slot[at] # value[nodes[at].init]}
<1>1. phase = "generating" /\ at \in Indices /\ nodes[at].form = "declaration"
  BY DEF GenerateDeclaration, Generating, node
<1>2. value[nodes[at].init] = ValueOf(nodes[at].init) /\ slot[at] = SlotOf(at)
  BY <1>1, Following, PartsByForm DEF Follows
<1>3. CASE value[nodes[at].init] # Null
  <2>1. Emit(Raw(at), W)
    BY <1>1, <1>3 DEF GenerateDeclaration, Raw, node
  <2>2. W = {} <=> Valid(at)
    BY <1>1, <1>2 DEF Valid
  <2>3. {"load", "operands", "condition"} \cap W = {}
    OBVIOUS
  <2>4. cast[at] = None \/ CanGenerate(inferred[at], cast[at]) => Generates(at)
    BY <1>1, <1>2, <1>3 DEF Generates
  <2> HIDE DEF W
  <2> QED BY <1>1, <2>1, <2>2, <2>3, <2>4, Emitted
<1>4. CASE value[nodes[at].init] = Null
  <2>1. Abort
    BY <1>4 DEF GenerateDeclaration, node
  <2>2. ~Generates(at)
    BY <1>1, <1>2, <1>4 DEF Generates
  <2> QED BY <1>1, <2>1, <2>2, Stopped
<1> QED BY <1>3, <1>4

LEMMA ReturnValue ==
  ASSUME GInv, CInv', GenerateReturn
  PROVE  GInv'
<1> DEFINE W == {w \in {"return"} : value[nodes[at].expression] #
                   IF program.returns = Void THEN Null ELSE Convert(program.returns)}
<1>1. phase = "generating" /\ at \in Indices /\ nodes[at].form = "return"
  BY DEF GenerateReturn, Generating, node
<1>2. value[nodes[at].expression] = ValueOf(nodes[at].expression)
  BY <1>1, Following, PartsByForm
<1>3. Emit(Raw(at), W)
  BY <1>1 DEF GenerateReturn, Raw, node
<1>4. W = {} <=> Valid(at)
  BY <1>1, <1>2 DEF Valid
<1>5. {"load", "operands", "condition"} \cap W = {}
  OBVIOUS
<1>6. cast[at] = None \/ CanGenerate(inferred[at], cast[at]) => Generates(at)
  BY <1>1 DEF Generates
<1> HIDE DEF W
<1> QED BY <1>1, <1>3, <1>4, <1>5, <1>6, Emitted

(* The condition of a branch has the type of a boolean. *)
LEMMA ConditionValue ==
  ASSUME GInv, CInv', GenerateCondition
  PROVE  GInv'
<1>1. phase = "generating" /\ at \in Indices /\ nodes[at].form = "condition"
  BY DEF GenerateCondition, Generating, node
<1>2. Body /\ Sound(at) /\ program \in Programs
  BY <1>1, Following, BodyFacts
<1>3. nodes[at].expression \in Parts(nodes[at]) /\ TypeOf(nodes[at].expression) = Boolean
  BY <1>1, <1>2, PartsByForm DEF Sound, Typed
<1>4. nodes[nodes[at].expression].form # "nop"
  BY <1>1, <1>2, <1>3, PartsAreExpressions DEF ExpressionForms
<1>5. Boolean # Void
  BY KindAndSize DEF Boolean, Void
<1>6. ValueOf(nodes[at].expression) = I1
  BY <1>1, <1>2, <1>3, <1>4, <1>5, PartValues, ConvertFacts
<1>7. value[nodes[at].expression] = I1
  BY <1>1, <1>3, <1>6, Following
<1>8. Emit(Raw(at), {})
  <2>1. {w \in {"condition"} : value[node.expression] # I1} = {}
    BY <1>7 DEF node
  <2> QED BY <1>1, <2>1 DEF GenerateCondition, Raw, node
<1>9. Valid(at)
  BY <1>1 DEF Valid
<1>10. cast[at] = None \/ CanGenerate(inferred[at], cast[at]) => Generates(at)
  BY <1>1 DEF Generates
<1> QED BY <1>1, <1>8, <1>9, <1>10, Emitted

LEMMA GeneratedValues ==
  ASSUME GInv, CInv', Generate
  PROVE  GInv'
<1>1. CASE EndGenerating
  <2>1. /\ UNCHANGED <<program, inferred, cast, slot, at, value, faults>> /\ phase' = "compiled"
        /\ Follows /\ ~Untyped /\ at = Len(nodes) + 1
    BY <1>1, Following DEF EndGenerating, checked, generated, Body
  <2>2. /\ nodes' = nodes /\ Indices' = Indices
        /\ \A i : ValueOf(i)' = ValueOf(i) /\ SlotOf(i)' = SlotOf(i)
        /\ \A i : (Generates(i)' <=> Generates(i)) /\ (Valid(i)' <=> Valid(i))
        /\ NoVoidSlot' <=> NoVoidSlot
        /\ ~Untyped'
    BY <2>1, CodeStays
  <2>3. Follows'
    BY <2>1, <2>2 DEF Follows
  <2> QED BY <2>1, <2>2, <2>3 DEF GInv, Accepted
<1> QED BY <1>1, LeafValue, IdentifierValue, CallValue, OperatorValue, LogicalValue,
           AssignmentValue, DeclarationValue, ReturnValue, ConditionValue DEF Generate

-----------------------------------------------------------------------------
(* Before the generator, and where it starts. *)

LEMMA AllocasFollow ==
  ASSUME GInv, CInv', EndChecking
  PROVE  GInv'
<1>1. /\ UNCHANGED <<program, inferred, cast, value>> /\ phase = "checking"
      /\ faults = {} /\ ~Accepted
  BY DEF EndChecking, GInv, Accepted
<1>2. /\ nodes' = nodes /\ Indices' = Indices
      /\ \A i : SlotOf(i)' = SlotOf(i)
      /\ NoVoidSlot' <=> NoVoidSlot
      /\ Untyped' <=> Untyped
  BY <1>1, CodeStays
<1>3. CASE errors' # {}
  <2>1. phase' = "rejected" /\ faults' = {}
    BY <1>1, <1>3 DEF EndChecking
  <2> QED BY <2>1 DEF GInv, Accepted
<1>4. CASE errors' = {} /\ Untyped
  <2>1. phase' = "aborted" /\ at' = 1 /\ faults' = {} /\ Untyped'
    BY <1>1, <1>2, <1>4 DEF EndChecking
  <2> QED BY <2>1 DEF GInv, Accepted
<1>5. CASE errors' = {} /\ ~Untyped
  <2>1. /\ phase' = "generating" /\ at' = 1
        /\ slot' = [i \in Indices |-> SlotOf(i)]
        /\ faults' = {<<i, "alloca">> : i \in {j \in Indices : slot'[j].class = "void"}}
    BY <1>5 DEF EndChecking, SlotOf
  <2>2. \A i \in Indices : ~(i < at')
    <3>1. Indices = 1..Len(nodes) /\ Len(nodes) \in Nat
      BY Bodies DEF GInv, CInv, IInv, IType
    <3> QED BY <2>1, <3>1
  <2>3. faults' = {} <=> NoVoidSlot
    <3>1. \A j \in Indices : slot'[j] = SlotOf(j)
      BY <2>1
    <3> QED BY <2>1, <3>1 DEF NoVoidSlot
  <2>4. \A f \in faults' : f[2] \notin {"load", "operands", "condition"}
    <3>1. \A i : <<i, "alloca">>[2] = "alloca"
      OBVIOUS
    <3> QED BY <2>1, <3>1
  <2>5. Follows'
    <3>1. slot' = [i \in Indices' |-> SlotOf(i)']
      BY <1>2, <2>1
    <3>2. \A i \in Indices' : ~(i < at')
      BY <1>2, <2>2
    <3> QED BY <1>2, <2>3, <2>4, <3>1, <3>2 DEF Follows
  <2>6. ~Untyped'
    BY <1>2, <1>5
  <2> QED BY <2>1, <2>5, <2>6 DEF GInv, Accepted
<1> QED BY <1>3, <1>4, <1>5

LEMMA NextKeepsGInv ==
  ASSUME GInv, [Next]_vars
  PROVE  GInv'
<1>1. CInv'
  BY NextKeepsCInv DEF GInv
<1>2. CASE Step \/ CoercionCrashes
  <2>1. /\ ~Accepted /\ faults' = faults /\ phase' \in {"checking", "crashed"}
    BY <1>2 DEF Step, Effect, CoercionCrashes, Operator, Visiting, generated, Accepted
  <2> QED BY <1>1, <2>1 DEF GInv, Accepted
<1>3. CASE UNCHANGED vars
  <2>1. UNCHANGED <<program, phase, inferred, cast, slot, at, value, faults>>
    BY <1>3 DEF vars
  <2>2. /\ nodes' = nodes /\ Indices' = Indices
        /\ \A i : ValueOf(i)' = ValueOf(i) /\ SlotOf(i)' = SlotOf(i)
        /\ \A i : (Generates(i)' <=> Generates(i)) /\ (Valid(i)' <=> Valid(i))
        /\ NoVoidSlot' <=> NoVoidSlot
        /\ Untyped' <=> Untyped
    BY <2>1, CodeStays
  <2>3. Follows => Follows'
    BY <2>1, <2>2 DEF Follows
  <2>4. Accepted' <=> Accepted
    BY <2>1 DEF Accepted
  <2> QED BY <1>1, <2>1, <2>2, <2>3, <2>4 DEF GInv
<1>4. Next => Step \/ CoercionCrashes \/ EndChecking \/ Generate
  BY StepsOfTheChecker DEF Next, GInv
<1> QED BY <1>1, <1>2, <1>3, <1>4, AllocasFollow, GeneratedValues

(***************************************************************************)
(* The generator's state is a function of the types and casts the checker  *)
(* left, up to the node it has come to; and where it stops or goes wrong   *)
(* is one too.                                                             *)
(***************************************************************************)
THEOREM GeneratorFollows == Spec => []GInv
<1>1. Init => GInv
  <2>1. Init => phase = "checking" /\ faults = {}
    BY DEF Init
  <2> QED BY <2>1, InitIsC DEF GInv, Accepted
<1>2. GInv /\ [Next]_vars => GInv'
  BY NextKeepsGInv
<1> QED BY <1>1, <1>2, PTL DEF Spec

(***************************************************************************)
(* Every value the generator makes has the LLVM type of the type the       *)
(* checker gave its node: no load, no operand of an instruction and no     *)
(* condition of a branch in any accepted body is of the wrong type.        *)
(***************************************************************************)
THEOREM GeneratedValuesHaveTheirTypes == Spec => []ValuesHaveTheirTypes
<1>1. GInv => ValuesHaveTheirTypes
  <2> SUFFICES ASSUME GInv PROVE ValuesHaveTheirTypes
    OBVIOUS
  <2>1. ASSUME Accepted, NEW i \in Indices, i < at, HasValue(i)
        PROVE  value[i] = Convert(TypeOf(i))
    <3>1. CASE Untyped
      <4>1. at = 1 /\ Indices = 1..Len(nodes) /\ Len(nodes) \in Nat
        BY <2>1, <3>1, Bodies DEF GInv, CInv, IInv, IType
      <4> QED BY <2>1, <4>1
    <3>2. CASE ~Untyped
      BY <2>1, <3>2, ValuesOfTypes DEF GInv, Follows, Body
    <3> QED BY <3>1, <3>2
  <2>2. \A f \in faults : f[2] \notin {"load", "operands", "condition"}
    BY DEF GInv, Follows
  <2> QED BY <2>1, <2>2 DEF ValuesHaveTheirTypes
<1> QED BY <1>1, GeneratorFollows, PTL

-----------------------------------------------------------------------------
(* What is supported, read off the types and casts, is what is generated. *)

LEMMA SupportedCasts ==
  ASSUME Body, NEW i \in Indices
  PROVE  cast[i] = None \/ CanGenerate(inferred[i], cast[i])
           <=> (cast[i] # None => cast[i].kind = "float" \/ {inferred[i].kind, cast[i].kind} = {"signed"})
<1> SUFFICES ASSUME cast[i] # None
             PROVE  CanGenerate(inferred[i], cast[i])
                      <=> cast[i].kind = "float" \/ {inferred[i].kind, cast[i].kind} = {"signed"}
  OBVIOUS
<1>1. inferred[i] \in Numbers /\ cast[i] \in Numbers /\ cast[i] # inferred[i]
  <2>1. IsNumerical(inferred[i]) /\ cast[i] # inferred[i]
    BY DEF Body, CInv, CastInv
  <2> QED BY <2>1, BodyFacts, NumericalTypes
<1>2. cast[i].kind = inferred[i].kind => cast[i].size # inferred[i].size
  BY <1>1, NumberParts
<1>3. inferred[i].kind \in {"signed", "unsigned", "float"}
  BY <1>1, NumberParts
<1>4. {inferred[i].kind, cast[i].kind} = {"signed"} <=> inferred[i].kind = "signed" /\ cast[i].kind = "signed"
  OBVIOUS
<1> QED BY <1>2, <1>3, <1>4 DEF CanGenerate

LEMMA SupportedDeclarations ==
  ASSUME Body, NEW i \in Indices, nodes[i].form = "declaration"
  PROVE  nodes[nodes[i].init].form # "nop" /\ TypeOf(nodes[i].init) # Void
           <=> /\ SlotOf(i).class # "void" /\ SlotOf(i) = ValueOf(nodes[i].init)
               /\ ValueOf(nodes[i].init) # Null
<1> DEFINE k == nodes[i].init
<1>1. k \in Parts(nodes[i]) /\ k \in Indices /\ SlotOf(i) = Convert(TypeOf(k))
  BY PartsByForm, PartsAreBefore, BodyFacts DEF SlotOf
<1>2. CASE nodes[k].form = "nop"
  BY <1>1, <1>2, NopValues
<1>3. CASE nodes[k].form # "nop" /\ TypeOf(k) # Void
  <2>1. ValueOf(k) = Convert(TypeOf(k)) /\ ValueOf(k).class \notin {"null", "void"}
    BY <1>1, <1>3, PartValues
  <2> QED BY <1>1, <1>3, <2>1, ConvertFacts
<1>4. CASE nodes[k].form # "nop" /\ TypeOf(k) = Void
  BY <1>1, <1>4, ConvertFacts
<1> QED BY <1>2, <1>3, <1>4

(* What an assignment stores to is an address if it is one of a variable   *)
(* or has the type of a pointer.                                           *)
LEMMA StoredTo ==
  ASSUME Body, NEW i \in Indices, nodes[i].form = "operator", nodes[i].category = "assignment"
  PROVE  ValueOf(nodes[i].lhs) = Ptr
           <=> nodes[nodes[i].lhs].form = "identifier" \/ TypeOf(nodes[i].lhs) = StringLiteral
<1> DEFINE l == nodes[i].lhs
<1>1. l \in Parts(nodes[i]) /\ l \in Indices /\ nodes[l].form \in ExpressionForms
  <2>1. program \in Programs
    BY BodyFacts
  <2> QED BY <2>1, PartsByForm, PartsAreBefore, PartsAreExpressions
<1>2. IsStore(l) /\ cast[l] = None
  BY <1>1, BodyFacts, StoresOf DEF Body, CInv, CastInv
<1>3. /\ inferred[l] \in ValueTypes \cup {Void} /\ TypeOf(l) = inferred[l]
      /\ nodes[l].form \in {"literal", "argument", "identifier", "call", "operator"}
  BY <1>1, <1>2, TypesOfExpressions DEF TypeOf
<1>4. CASE nodes[l].form = "identifier"
  BY <1>2, <1>4 DEF ValueOf, Raw
<1>5. CASE nodes[l].form = "call"
  <2>1. inferred[l] = nodes[nodes[l].callee].signature.returns
    BY <1>1, <1>5, BodyFacts DEF Sound, Typed, TypedCall
  <2>2. ValueOf(l) = IF inferred[l] = Void THEN Null ELSE Convert(inferred[l])
    BY <1>2, <1>5, <2>1 DEF ValueOf, Raw
  <2>3. StringLiteral # Void
    BY TypesOfValues DEF ValueTypes
  <2> QED BY <1>3, <1>5, <2>2, <2>3, ConvertFacts
<1>6. CASE nodes[l].form \in {"literal", "argument", "operator"}
  <2>1. ValueOf(l) = Convert(inferred[l])
    BY <1>2, <1>6 DEF ValueOf, Raw
  <2> QED BY <1>3, <1>6, <2>1, ConvertFacts
<1> QED BY <1>3, <1>4, <1>5, <1>6

(* A store has the type of its variable, and a value. *)
LEMMA SupportedAssignments ==
  ASSUME Body, DeclarationsAreSupported, NEW i \in Indices,
         nodes[i].form = "operator", nodes[i].category = "assignment",
         nodes[nodes[i].lhs].form = "identifier" \/ TypeOf(nodes[i].lhs) = StringLiteral
  PROVE  /\ Null \notin {ValueOf(nodes[i].lhs), ValueOf(nodes[i].rhs)}
         /\ ValueOf(nodes[i].lhs) = Ptr
         /\ nodes[nodes[i].lhs].form = "identifier" =>
              SlotOf(nodes[nodes[i].lhs].of) = ValueOf(nodes[i].rhs)
<1> DEFINE l == nodes[i].lhs
           r == nodes[i].rhs
           d == nodes[l].of
<1>1. l \in Parts(nodes[i]) /\ r \in Parts(nodes[i]) /\ l \in Indices /\ l # r
  <2>1. NodeFacts(i) /\ program \in Programs
    BY BodyFacts
  <2> QED BY <2>1, PartsByForm, PartsAreBefore DEF NodeFacts, WellFormedNode
<1>2. IsStore(l) /\ cast[l] = None
  BY <1>1, BodyFacts, StoresOf DEF Body, CInv, CastInv
<1>3. ValueOf(l) = Ptr
  BY StoredTo
<1>4. ASSUME nodes[l].form = "identifier"
      PROVE  d \in Indices /\ nodes[d].form = "declaration" /\ inferred[l] = TypeOf(nodes[d].init)
  <2>1. NodeFacts(l) /\ Sound(l) /\ Indices = 1..Len(nodes) /\ Len(nodes) \in Nat
    BY <1>1, BodyFacts
  <2> QED BY <1>1, <1>4, <2>1 DEF NodeFacts, WellFormedNode, Sound, Typed
<1>5. inferred[l] # Void
  <2>1. CASE nodes[l].form = "identifier"
    BY <1>4, <2>1 DEF DeclarationsAreSupported
  <2>2. CASE TypeOf(l) = StringLiteral
    BY <1>2, <2>2, TypesOfValues DEF TypeOf, ValueTypes
  <2> QED BY <2>1, <2>2
<1>6. TypeOf(r) = inferred[l]
  <2>1. Sound(i)
    BY BodyFacts
  <2> QED BY <1>2, <2>1 DEF Sound, Typed, TypedOperator, TypeOf
<1>7. nodes[r].form # "nop"
  BY <1>1, BodyFacts, PartsAreExpressions DEF ExpressionForms
<1>8. ValueOf(r) = Convert(TypeOf(r))
  BY <1>1, <1>5, <1>6, <1>7, PartValues
<1> QED BY <1>3, <1>4, <1>6, <1>8, ConvertFacts DEF SlotOf

LEMMA SupportedCalls ==
  ASSUME Body, NEW i \in Indices, nodes[i].form = "call", NEW k \in DOMAIN nodes[i].arguments
  PROVE  ~WrongArgument(nodes[i], k) <=> TypeOf(nodes[i].arguments[k]) # Void
<1> DEFINE a == nodes[i].arguments[k]
           arguments == nodes[nodes[i].callee].signature.arguments
<1>1. a \in Parts(nodes[i]) /\ nodes[a].form # "nop"
  <2>1. a \in Parts(nodes[i])
    BY PartsByForm
  <2> QED BY <2>1, BodyFacts, PartsAreExpressions DEF ExpressionForms
<1>2. k \in DOMAIN arguments => TypeOf(a) = arguments[k]
  <2>1. Sound(i)
    BY BodyFacts
  <2> QED BY <2>1 DEF Sound, Typed, TypedCall
<1>3. CASE TypeOf(a) # Void
  <2>1. ValueOf(a) = Convert(TypeOf(a)) /\ ValueOf(a).class \notin {"null", "void"}
    BY <1>1, <1>3, PartValues
  <2> QED BY <1>2, <1>3, <2>1 DEF WrongArgument
<1>4. CASE TypeOf(a) = Void
  <2>1. ValueOf(a).class \in {"null", "void"}
    BY <1>1, <1>4, PartValues
  <2> QED BY <1>4, <2>1 DEF WrongArgument
<1> QED BY <1>3, <1>4

LEMMA SupportedReturns ==
  ASSUME Body, NEW i \in Indices, nodes[i].form = "return"
  PROVE  /\ program.returns = Void =>
              (ValueOf(nodes[i].expression) = Null <=>
                 /\ nodes[nodes[i].expression].form \in {"nop", "call"}
                 /\ TypeOf(nodes[i].expression) \in {Nop, Void})
         /\ program.returns # Void => ValueOf(nodes[i].expression) = Convert(program.returns)
<1> DEFINE e == nodes[i].expression
<1>1. e \in Parts(nodes[i]) /\ e \in Indices /\ program.returns \in ValueTypes \cup {Void}
  BY PartsByForm, PartsAreBefore, BodyFacts, Bodies
<1>2. program.returns # Void => TypeOf(e) = program.returns
  <2>1. Sound(i)
    BY BodyFacts
  <2> QED BY <2>1 DEF Sound, Typed
<1>3. CASE nodes[e].form = "nop"
  <2>1. ValueOf(e) = Null /\ TypeOf(e) = Nop
    BY <1>1, <1>3, NopValues
  <2>2. program.returns = Void
    BY <1>1, <1>2, <2>1, TypesOfValues
  <2> QED BY <1>3, <2>1, <2>2
<1>4. CASE nodes[e].form # "nop"
  <2>1. /\ TypeOf(e) \in ValueTypes \cup {Void}
        /\ TypeOf(e) # Void => /\ ValueOf(e) = Convert(TypeOf(e))
                               /\ ValueOf(e).class \notin {"null", "void"}
        /\ TypeOf(e) = Void => (ValueOf(e) = Null <=> nodes[e].form = "call")
    BY <1>1, <1>4, PartValues
  <2>2. CASE TypeOf(e) = Void
    BY <1>2, <1>4, <2>1, <2>2
  <2>3. CASE TypeOf(e) # Void
    <3>1. TypeOf(e) \notin {Nop, Void} /\ ValueOf(e) # Null
      BY <2>1, <2>3, TypesOfValues, ConvertFacts
    <3> QED BY <1>2, <2>1, <2>3, <3>1
  <2> QED BY <2>2, <2>3
<1> QED BY <1>3, <1>4

(* The language the generator supports is the one it makes valid IR of. *)
LEMMA SupportedIsValid ==
  ASSUME Body
  PROVE  Supported <=> NoVoidSlot /\ \A i \in Indices : Valid(i) /\ Generates(i)
<1>1. ASSUME Supported PROVE NoVoidSlot /\ \A i \in Indices : Valid(i) /\ Generates(i)
  <2>1. NoVoidSlot
    <3> SUFFICES ASSUME NEW i \in Indices PROVE SlotOf(i).class # "void"
      BY DEF NoVoidSlot
    <3>1. CASE nodes[i].form = "declaration"
      BY <1>1, <3>1, SupportedDeclarations DEF Supported, DeclarationsAreSupported
    <3>2. CASE nodes[i].form # "declaration"
      BY <3>2, ConvertFacts DEF SlotOf
    <3> QED BY <3>1, <3>2
  <2>2. ASSUME NEW i \in Indices PROVE Generates(i)
    <3>1. cast[i] = None \/ CanGenerate(inferred[i], cast[i])
      BY <1>1, SupportedCasts DEF Supported, CastsAreSupported
    <3>2. nodes[i].form = "declaration" => ValueOf(nodes[i].init) # Null
      BY <1>1, SupportedDeclarations DEF Supported, DeclarationsAreSupported
    <3>3. nodes[i].form = "operator" /\ nodes[i].category = "assignment" =>
            Null \notin {ValueOf(nodes[i].lhs), ValueOf(nodes[i].rhs)}
      BY <1>1, SupportedAssignments DEF Supported, AssignmentsAreSupported
    <3> QED BY <3>1, <3>2, <3>3 DEF Generates
  <2>3. ASSUME NEW i \in Indices PROVE Valid(i)
    <3>1. nodes[i].form = "call" => \A k \in DOMAIN nodes[i].arguments : ~WrongArgument(nodes[i], k)
      BY <1>1, SupportedCalls DEF Supported, CallsAreSupported
    <3>2. nodes[i].form = "operator" /\ nodes[i].category = "assignment" =>
            /\ ValueOf(nodes[i].lhs) = Ptr
            /\ nodes[nodes[i].lhs].form = "identifier" =>
                 SlotOf(nodes[nodes[i].lhs].of) = ValueOf(nodes[i].rhs)
      BY <1>1, SupportedAssignments DEF Supported, AssignmentsAreSupported
    <3>3. nodes[i].form = "declaration" => SlotOf(i) = ValueOf(nodes[i].init)
      BY <1>1, SupportedDeclarations DEF Supported, DeclarationsAreSupported
    <3>4. nodes[i].form = "return" =>
            ValueOf(nodes[i].expression) =
              IF program.returns = Void THEN Null ELSE Convert(program.returns)
      BY <1>1, SupportedReturns DEF Supported, ReturnsAreSupported
    <3> QED BY <3>1, <3>2, <3>3, <3>4 DEF Valid
  <2> QED BY <2>1, <2>2, <2>3
<1>2. ASSUME NoVoidSlot, \A i \in Indices : Valid(i) /\ Generates(i) PROVE Supported
  <2>1. CastsAreSupported
    BY <1>2, SupportedCasts DEF CastsAreSupported, Generates
  <2>2. DeclarationsAreSupported
    <3> SUFFICES ASSUME NEW i \in Indices, nodes[i].form = "declaration"
                 PROVE  nodes[nodes[i].init].form # "nop" /\ TypeOf(nodes[i].init) # Void
      BY DEF DeclarationsAreSupported, Body
    <3>1. /\ SlotOf(i).class # "void" /\ SlotOf(i) = ValueOf(nodes[i].init)
          /\ ValueOf(nodes[i].init) # Null
      BY <1>2 DEF NoVoidSlot, Valid, Generates
    <3> QED BY <3>1, SupportedDeclarations
  <2>3. AssignmentsAreSupported
    BY <1>2, StoredTo DEF AssignmentsAreSupported, Valid
  <2>4. CallsAreSupported
    <3> SUFFICES ASSUME NEW i \in Indices, nodes[i].form = "call",
                        NEW k \in DOMAIN nodes[i].arguments
                 PROVE  TypeOf(nodes[i].arguments[k]) # Void
      BY DEF CallsAreSupported
    <3>1. ~WrongArgument(nodes[i], k)
      BY <1>2 DEF Valid
    <3> QED BY <3>1, SupportedCalls
  <2>5. ReturnsAreSupported
    <3> SUFFICES ASSUME NEW i \in Indices, nodes[i].form = "return", program.returns = Void
                 PROVE  /\ nodes[nodes[i].expression].form \in {"nop", "call"}
                        /\ TypeOf(nodes[i].expression) \in {Nop, Void}
      BY DEF ReturnsAreSupported
    <3>1. ValueOf(nodes[i].expression) = Null
      BY <1>2 DEF Valid
    <3> QED BY <3>1, SupportedReturns
  <2> QED BY <2>1, <2>2, <2>3, <2>4, <2>5 DEF Supported
<1> QED BY <1>1, <1>2

(***************************************************************************)
(* The five gaps are all there are: an accepted body, however it nests,    *)
(* has them exactly if the generator stops at it or makes invalid IR of    *)
(* it; all others become valid IR.                                         *)
(***************************************************************************)
THEOREM SupportedBodiesCompile == Spec => []CompilesExactlyIfSupported
<1>1. GInv => CompilesExactlyIfSupported
  <2> SUFFICES ASSUME GInv, phase \in {"compiled", "aborted"}
               PROVE  /\ phase = "compiled" => (Supported <=> faults = {})
                      /\ phase = "aborted" => ~Supported
    BY DEF CompilesExactlyIfSupported
  <2>1. CASE Untyped
    <3>1. phase = "aborted"
      BY <2>1 DEF GInv, Accepted
    <3> QED BY <2>1, <3>1 DEF Supported, DeclarationsAreSupported
  <2>2. ASSUME ~Untyped
        PROVE  /\ Body /\ Follows
               /\ Supported <=> NoVoidSlot /\ \A i \in Indices : Valid(i) /\ Generates(i)
    <3>1. Body /\ Follows
      BY <2>2 DEF GInv, Body, Accepted
    <3> QED BY <3>1, SupportedIsValid
  <2>3. CASE ~Untyped /\ phase = "compiled"
    <3>1. \A i \in Indices : i < at
      BY <2>2, <2>3, BodyFacts DEF GInv
    <3>2. (\A i \in Indices : Generates(i)) /\ (faults = {} <=> NoVoidSlot /\ \A i \in Indices : Valid(i))
      BY <2>2, <2>3, <3>1 DEF Follows
    <3> QED BY <2>2, <2>3, <3>2
  <2>4. CASE ~Untyped /\ phase = "aborted"
    BY <2>2, <2>4 DEF GInv
  <2> QED BY <2>1, <2>3, <2>4
<1> QED BY <1>1, GeneratorFollows, PTL
=============================================================================
