-------------------------- MODULE TypeRulesProofs --------------------------
(***************************************************************************)
(* Theorems about TypeRules: what coerce_types computes for any pair of    *)
(* types, and that the bodies the checker accepts are typed.               *)
(***************************************************************************)
EXTENDS TypeRules, TLAPS

-----------------------------------------------------------------------------
(* Coercion, for any two operands. *)

LEMMA NumbersAre ==
  ASSUME NEW t
  PROVE  t \in Numbers <=>
           \E k, s : /\ t = Basic(k, s)
                     /\ \/ k \in {"signed", "unsigned"} /\ s \in {1, 2, 4, 8}
                        \/ k = "float" /\ s \in {4, 8}
BY DEF Numbers

LEMMA KindAndSize ==
  ASSUME NEW k, NEW s
  PROVE  Basic(k, s).kind = k /\ Basic(k, s).size = s
BY DEF Basic

LEMMA SameBasic ==
  ASSUME NEW k, NEW s, NEW l, NEW t
  PROVE  Basic(k, s) = Basic(l, t) <=> k = l /\ s = t
BY DEF Basic

LEMMA NumberParts ==
  ASSUME NEW t \in Numbers
  PROVE  /\ t = Basic(t.kind, t.size)
         /\ IsNumerical(t)
         /\ \/ t.kind \in {"signed", "unsigned"} /\ t.size \in {1, 2, 4, 8}
            \/ t.kind = "float" /\ t.size \in {4, 8}
BY NumbersAre, KindAndSize DEF IsNumerical

(* The meeting of two numbers is a number, of the larger size. *)
LEMMA CoercedNumber ==
  ASSUME NEW l \in Numbers, NEW r \in Numbers, ~DifferentSignedness(l, r)
  PROVE  /\ Coerced(l, r) \in Numbers
         /\ Coercion(l, r) = "coerced"
<1>1. Coerced(l, r).size = Larger(l.size, r.size)
  BY KindAndSize DEF Coerced
<1>2. Coerced(l, r).kind = IF "float" \in {l.kind, r.kind} THEN "float" ELSE l.kind
  BY KindAndSize DEF Coerced
<1>3. Larger(l.size, r.size) \in {l.size, r.size} /\ Larger(l.size, r.size) >= l.size
        /\ Larger(l.size, r.size) >= r.size
  BY NumberParts DEF Larger
<1>4. Coerced(l, r) \in Numbers
  <2>1. CASE "float" \in {l.kind, r.kind}
    <3>1. Larger(l.size, r.size) \in {4, 8}
      BY <2>1, <1>3, NumberParts
    <3> QED BY <2>1, <3>1, NumbersAre DEF Coerced
  <2>2. CASE "float" \notin {l.kind, r.kind}
    BY <2>2, <1>3, NumberParts, NumbersAre DEF Coerced
  <2> QED BY <2>1, <2>2
<1>5. Coerced(l, r) \in BuiltinTypes /\ IsNumerical(Coerced(l, r))
  BY <1>4, NumberParts DEF BuiltinTypes
<1> QED BY <1>4, <1>5, NumberParts DEF Coercion, CanCast, IsOperand

(***************************************************************************)
(* coerce_types does not care which operand is on the left, unless one is  *)
(* a boolean: mixed signedness is an error either way, and all other       *)
(* numbers meet at the same type.                                          *)
(***************************************************************************)
THEOREM CoercionCommutes ==
  ASSUME NEW l \in Numbers, NEW r \in Numbers
  PROVE  /\ Coercion(l, r) = Coercion(r, l)
         /\ Coercion(l, r) = "coerced" => Coerced(l, r) = Coerced(r, l)
<1>1. DifferentSignedness(l, r) <=> DifferentSignedness(r, l)
  BY DEF DifferentSignedness
<1>2. CASE DifferentSignedness(l, r)
  BY <1>1, <1>2, NumberParts DEF Coercion, IsOperand
<1>3. CASE ~DifferentSignedness(l, r)
  <2>1. Coercion(l, r) = "coerced" /\ Coercion(r, l) = "coerced"
    BY <1>1, <1>3, CoercedNumber
  <2>2. Larger(l.size, r.size) = Larger(r.size, l.size)
    BY NumberParts DEF Larger
  <2>3. "float" \notin {l.kind, r.kind} => l.kind = r.kind
    BY <1>3, NumberParts DEF DifferentSignedness
  <2> QED BY <2>1, <2>2, <2>3 DEF Coerced
<1> QED BY <1>2, <1>3

(***************************************************************************)
(* Two numbers meet at the least type both widen to: neither size shrinks, *)
(* and no wider type than necessary is chosen.                             *)
(***************************************************************************)
THEOREM CoercedIsLeast ==
  ASSUME NEW l \in Numbers, NEW r \in Numbers, ~DifferentSignedness(l, r)
  PROVE  LeastUpperBound(Coerced(l, r), l, r)
<1> DEFINE t == Coerced(l, r)
<1>1. t \in Numbers
  BY CoercedNumber
<1>2. t.size = Larger(l.size, r.size)
  BY KindAndSize DEF Coerced
<1>3. t.kind = IF "float" \in {l.kind, r.kind} THEN "float" ELSE l.kind
  BY KindAndSize DEF Coerced
<1>4. "float" \notin {l.kind, r.kind} => l.kind = r.kind
  BY NumberParts DEF DifferentSignedness
<1>5. l.size \in Int /\ r.size \in Int /\ t.size \in Int
  BY <1>1, NumberParts
<1>6. Widens(l, t)
  <2>1. l.size <= t.size /\ t.kind \in {l.kind, "float"}
    BY <1>2, <1>3, <1>4, <1>5 DEF Larger
  <2> QED BY <2>1, <1>1 DEF Widens
<1>7. Widens(r, t)
  <2>1. r.size <= t.size /\ t.kind \in {r.kind, "float"}
    BY <1>2, <1>3, <1>4, <1>5 DEF Larger
  <2> QED BY <2>1, <1>1 DEF Widens
<1>8. ASSUME NEW u \in Numbers \cup {Boolean}, Widens(l, u), Widens(r, u)
      PROVE  Widens(t, u)
  <2>1. u \in Numbers
    BY <1>8 DEF Widens
  <2>2. l.size <= u.size /\ u.kind \in {l.kind, "float"}
    BY <1>8, <1>5 DEF Widens
  <2>3. r.size <= u.size /\ u.kind \in {r.kind, "float"}
    BY <1>8, <1>5 DEF Widens
  <2>4. t.size <= u.size
    BY <1>2, <2>2, <2>3 DEF Larger
  <2>5. u.kind \in {t.kind, "float"}
    BY <1>3, <2>2, <2>3
  <2> QED BY <2>1, <2>4, <2>5, <1>1 DEF Widens
<1> QED BY <1>6, <1>7, <1>8 DEF LeastUpperBound

-----------------------------------------------------------------------------
(* Facts about bodies, which never change. *)

NodeFacts(i) ==
  /\ WellFormedNode(nodes, i)
  /\ Parts(nodes[i]) \subseteq 1..(i - 1)

LEMMA Bodies ==
  ASSUME program \in Programs
  PROVE  /\ Len(nodes) \in Nat /\ Indices = 1..Len(nodes)
         /\ program.returns \in ValueTypes \cup {Void}
         /\ \A i \in Indices : NodeFacts(i)
         /\ \A i \in Indices, j \in Indices :
              i # j => Parts(nodes[i]) \cap Parts(nodes[j]) = {}
<1>1. WellFormed(program)
  BY ProgramsAssumption
<1>2. Len(nodes) \in Nat /\ Indices = 1..Len(nodes) /\ program.returns \in ValueTypes \cup {Void}
  BY <1>1 DEF WellFormed, nodes, Indices
<1>3. \A i \in Indices : NodeFacts(i) /\ \A j \in 1..(i - 1) : Parts(nodes[i]) \cap Parts(nodes[j]) = {}
  BY <1>1 DEF WellFormed, NodeFacts, nodes, Indices
<1>4. ASSUME NEW i \in Indices, NEW j \in Indices, i # j
      PROVE  Parts(nodes[i]) \cap Parts(nodes[j]) = {}
  <2>1. i \in Int /\ j \in Int /\ 1 <= i /\ 1 <= j
    BY <1>2
  <2>2. j < i => j \in 1..(i - 1)
    BY <2>1
  <2>3. i < j => i \in 1..(j - 1)
    BY <2>1
  <2>4. i < j \/ j < i
    BY <2>1, <1>4
  <2>5. j < i => Parts(nodes[i]) \cap Parts(nodes[j]) = {}
    BY <1>3, <2>2
  <2>6. i < j => Parts(nodes[j]) \cap Parts(nodes[i]) = {}
    BY <1>3, <2>3
  <2> QED BY <2>4, <2>5, <2>6
<1> QED BY <1>2, <1>3, <1>4

LEMMA PartsByForm ==
  ASSUME NEW n
  PROVE  /\ n.form = "operator" => Parts(n) = {n.lhs, n.rhs}
         /\ n.form = "declaration" => Parts(n) = {n.init}
         /\ n.form \in {"return", "condition"} => Parts(n) = {n.expression}
         /\ n.form = "call" => Parts(n) = {n.arguments[k] : k \in DOMAIN n.arguments}
BY DEF Parts

(* Of all types only the numbers are numerical. *)
LEMMA NumericalTypes ==
  ASSUME NEW t \in Types \cup {None}
  PROVE  /\ IsNumerical(t) => t \in Numbers
         /\ t.kind = "boolean" => t = Boolean
         /\ t.kind = "unsigned" => t \in Numbers
<1>1. CASE t \in Numbers
  BY <1>1, NumberParts, KindAndSize DEF IsNumerical, Boolean
<1>2. CASE t \in {Void, Boolean, Poison, StringLiteral, Signature, Nop, None}
  BY <1>2, KindAndSize DEF IsNumerical, Void, Boolean, Poison, StringLiteral, Signature, Nop, None
<1> QED BY <1>1, <1>2 DEF Types, BuiltinTypes

LEMMA DistinctTypes ==
  /\ \A t \in Numbers : t \notin {Void, Boolean, Poison, StringLiteral, Signature, Nop, None}
  /\ Poison # None /\ Void \notin {Poison, None, Nop} /\ Boolean \notin {Poison, None, Nop}
  /\ StringLiteral \notin {Poison, None, Nop} /\ Signature \notin {Poison, None, Nop}
  /\ Nop \notin {Poison, None}
  /\ ~IsNumerical(Nop) /\ ~IsNumerical(None) /\ ~IsNumerical(Poison)
<1>1. \A t \in Numbers : t.kind \in {"signed", "unsigned", "float"}
  BY NumberParts
<1> QED BY <1>1, KindAndSize
        DEF Void, Boolean, Poison, StringLiteral, Signature, Nop, None, IsNumerical

-----------------------------------------------------------------------------
(* The inductive invariant. *)

(* A call that has not been checked though its callee has, can be. *)
CallsPending ==
  phase = "checking" =>
    \A c \in Indices :
      nodes[c].form = "callee" /\ c < at /\ at <= nodes[c].call =>
        nodes[c].type = Signature /\ FitsSignature(nodes[nodes[c].call], nodes[c].signature)

CalleeDone(i) ==
  nodes[i].form = "callee" =>
    /\ nodes[i].type = Signature
    /\ FitsSignature(nodes[nodes[i].call], nodes[i].signature)
    /\ inferred[nodes[i].call] = nodes[i].signature.returns

(* Only a missing node, and a name declared with one, have the type of nothing. *)
SomeType(i) ==
  /\ inferred[i] \notin {None, Poison}
  /\ inferred[i] = Nop => nodes[i].form \in {"nop", "argument", "identifier"}

Sound(i) == SomeType(i) /\ Typed(i) /\ CalleeDone(i)

CastByParent(i, m) ==
  cast[i] # None =>
    /\ IsNumerical(inferred[i]) /\ IsNumerical(cast[i])
    /\ \E j \in 1..(m - 1) : i \in Parts(nodes[j])

SoundUpTo(m) ==
  /\ \A i \in Indices : i < m => Sound(i)
  /\ \A i \in Indices : CastByParent(i, m)

IType == program \in Programs /\ TypeOK /\ CallsPending

IInv ==
  /\ IType
  /\ phase = "checking" /\ errors = {} => SoundUpTo(at)
  /\ Accepted => errors = {} /\ SoundUpTo(Len(nodes) + 1)

LEMMA TypeOfTypes ==
  ASSUME IType, NEW i \in Indices
  PROVE  TypeOf(i) \in Types \cup {None}
BY DEF IType, TypeOK, TypeOf, Types, BuiltinTypes

(* The parts of the node at hand have types, and have not been cast. *)
LEMMA PartsAreReady ==
  ASSUME IType, SoundUpTo(at), at \in Indices, NEW k \in Parts(node)
  PROVE  /\ k \in Indices /\ k < at /\ cast[k] = None
         /\ TypeOf(k) = inferred[k] /\ inferred[k] \notin {None, Poison}
<1>1. k \in 1..(at - 1) /\ k \in Indices
  <2>1. NodeFacts(at) /\ Len(nodes) \in Nat /\ Indices = 1..Len(nodes)
    BY Bodies DEF IType
  <2>2. k \in 1..(at - 1)
    BY <2>1 DEF NodeFacts, node
  <2> QED BY <2>1, <2>2
<1>2. ASSUME cast[k] # None PROVE FALSE
  <2>1. PICK j \in 1..(at - 1) : k \in Parts(nodes[j])
    BY <1>1, <1>2 DEF SoundUpTo, CastByParent
  <2>2. j \in Indices /\ j # at
    BY <2>1, Bodies DEF IType
  <2> QED BY <2>1, <2>2, Bodies DEF IType, node
<1>3. inferred[k] \notin {None, Poison}
  <2>1. Sound(k)
    BY <1>1 DEF SoundUpTo
  <2> QED BY <2>1 DEF Sound, SomeType
<1> QED BY <1>1, <1>2, <1>3 DEF TypeOf

-----------------------------------------------------------------------------
(* What a step of the checker may do, and does if it reports no error.  An *)
(* action is shown to have these effects first, and then that anything     *)
(* with these effects keeps the invariant.                                 *)

Effect ==
  /\ program' = program
  /\ phase = "checking" /\ phase' = "checking"
  /\ UNCHANGED generated
  /\ at \in Indices
  /\ at' \in (at + 1)..(Len(nodes) + 1)
  /\ inferred' \in [Indices -> Types \cup {None}]
  /\ cast' \in [Indices -> Numbers \cup {None}]
  /\ errors \subseteq errors'
  /\ \A e \in errors' : e[1] \in 1..(Len(nodes) + 1)
  /\ CallsPending'

MayInfer(j) ==
  \/ j = at /\ node.form # "call"
  \/ nodes[j].form = "call" /\ nodes[j].callee = at
  \/ j \in Parts(node) /\ nodes[j].form = "nop" /\ inferred'[j] \notin {None, Poison}

CleanEffect ==
  errors' = {} /\ SoundUpTo(at) =>
    /\ at' = at + 1
    /\ \A j \in Indices : inferred'[j] # inferred[j] => MayInfer(j)
    /\ \A j \in Indices : cast'[j] # cast[j] =>
         j \in Parts(node) /\ IsNumerical(inferred'[j]) /\ IsNumerical(cast'[j])
    /\ \A i \in Indices : i = at => Sound(i)'

(* A clean step leaves the parts of earlier nodes alone. *)
LEMMA PartsStay ==
  ASSUME IType, SoundUpTo(at), Effect, CleanEffect, errors' = {},
         NEW i \in Indices, i < at, NEW k \in Parts(nodes[i])
  PROVE  k \in Indices /\ k < i /\ inferred'[k] = inferred[k] /\ cast'[k] = cast[k]
<1>1. k \in 1..(i - 1) /\ k \in Indices
  <2>1. NodeFacts(i) /\ Indices = 1..Len(nodes) /\ Len(nodes) \in Nat
    BY Bodies DEF IType
  <2> QED BY <2>1 DEF NodeFacts
<1>2. at \in Indices /\ i # at
  BY Bodies DEF IType, Effect
<1>3. k \notin Parts(node)
  BY <1>2, Bodies DEF IType, node
<1>4. k < i /\ k # at /\ k \in Int /\ i \in Int /\ at \in Int
  BY <1>1, <1>2, Bodies DEF IType
<1>5. ASSUME nodes[k].form = "call", nodes[k].callee = at PROVE FALSE
  BY <1>1, <1>4, <1>5, Bodies DEF IType, NodeFacts, WellFormedNode
<1>6. ~MayInfer(k)
  BY <1>3, <1>4, <1>5 DEF MayInfer
<1> QED BY <1>1, <1>3, <1>4, <1>6 DEF CleanEffect

LEMMA LengthsOfSequences ==
  ASSUME NEW S, NEW s \in Seq(S)
  PROVE  Len(s) \in Nat /\ DOMAIN s = 1..Len(s)
OBVIOUS

(* A call has the arguments its signature asks for. *)
LEMMA ArgumentsAreParts ==
  ASSUME IType, NEW i \in Indices, nodes[i].form = "call",
         FitsSignature(nodes[i], nodes[nodes[i].callee].signature)
  PROVE  \A k \in DOMAIN nodes[nodes[i].callee].signature.arguments :
           k \in DOMAIN nodes[i].arguments /\ nodes[i].arguments[k] \in Parts(nodes[i])
<1> DEFINE n == nodes[i]
           c == nodes[n.callee]
<1>1. NodeFacts(i) /\ Indices = 1..Len(nodes) /\ i \in Int
  BY Bodies DEF IType
<1>2. /\ n.callee \in 1..(i - 1) /\ c.form = "callee" /\ c.call = i
      /\ n.arguments \in Seq((n.callee + 1)..(i - 1))
  BY <1>1 DEF NodeFacts, WellFormedNode
<1>3. NodeFacts(n.callee)
  BY <1>1, <1>2, Bodies DEF IType
<1>4. c.signature.arguments \in Seq(ValueTypes \cup {Nop})
  BY <1>2, <1>3 DEF NodeFacts, WellFormedNode, Signatures
<1>5. FitsSignature(n, c.signature)
  OBVIOUS
<1>6. Len(n.arguments) >= Len(c.signature.arguments)
        /\ Len(n.arguments) \in Nat /\ Len(c.signature.arguments) \in Nat
        /\ DOMAIN n.arguments = 1..Len(n.arguments)
        /\ DOMAIN c.signature.arguments = 1..Len(c.signature.arguments)
  <2>1. Len(n.arguments) \in Nat /\ DOMAIN n.arguments = 1..Len(n.arguments)
    BY <1>2, LengthsOfSequences
  <2>2. Len(c.signature.arguments) \in Nat
          /\ DOMAIN c.signature.arguments = 1..Len(c.signature.arguments)
    BY <1>4, LengthsOfSequences
  <2> QED BY <2>1, <2>2, <1>5 DEF FitsSignature
<1>7. \A k \in DOMAIN c.signature.arguments : k \in DOMAIN n.arguments
  BY <1>6
<1> QED BY <1>7, PartsByForm

LEMMA EarlierStaySound ==
  ASSUME IType, SoundUpTo(at), Effect, CleanEffect, errors' = {},
         NEW i \in Indices, i < at
  PROVE  Sound(i)'
<1> DEFINE n == nodes[i]
<1>1. Sound(i)
  BY DEF SoundUpTo
<1>2. nodes' = nodes /\ program' = program
  BY DEF Effect, nodes
<1>3. i \in Int /\ at \in Int /\ NodeFacts(i) /\ i # at
  BY Bodies DEF IType, Effect
<1>4. \A k \in Parts(n) : k \in Indices /\ inferred'[k] = inferred[k] /\ cast'[k] = cast[k]
  BY PartsStay
<1>5. \A k \in Parts(n) : TypeOf(k)' = TypeOf(k)
  BY <1>4 DEF TypeOf
<1>6. inferred'[i] # inferred[i] => MayInfer(i)
  BY DEF CleanEffect
<1>7. ASSUME n.form = "call", n.callee = at PROVE FALSE
  BY <1>3, <1>7 DEF NodeFacts, WellFormedNode
<1>8. /\ inferred'[i] \notin {None, Poison}
      /\ n.form # "nop" => inferred'[i] = inferred[i]
  BY <1>1, <1>3, <1>6, <1>7 DEF MayInfer, Sound, SomeType
<1>9. n.form = "identifier" => TypeOf(nodes[n.of].init)' = TypeOf(nodes[n.of].init)
  <2> SUFFICES ASSUME n.form = "identifier"
               PROVE  TypeOf(nodes[n.of].init)' = TypeOf(nodes[n.of].init)
    OBVIOUS
  <2>1. n.of \in 1..(i - 1) /\ nodes[n.of].form = "declaration"
    BY <1>3 DEF NodeFacts, WellFormedNode
  <2>2. n.of \in Indices /\ n.of < at
    BY <2>1, <1>3, Bodies DEF IType
  <2>3. nodes[n.of].init \in Parts(nodes[n.of])
    BY <2>1, PartsByForm
  <2>4. inferred'[nodes[n.of].init] = inferred[nodes[n.of].init]
          /\ cast'[nodes[n.of].init] = cast[nodes[n.of].init]
    BY <2>2, <2>3, PartsStay
  <2> QED BY <1>2, <2>4 DEF TypeOf
<1>10. Typed(i)'
  <2>1. Typed(i)
    BY <1>1 DEF Sound
  <2>2. /\ n.form = "operator" => n.lhs \in Parts(n) /\ n.rhs \in Parts(n)
        /\ n.form = "declaration" => n.init \in Parts(n)
        /\ n.form \in {"return", "condition"} => n.expression \in Parts(n)
    BY PartsByForm
  <2>3. n.form = "call" => TypedCall(n, inferred[i])'
    <3> SUFFICES ASSUME n.form = "call"
                 PROVE  TypedCall(n, inferred[i])'
      OBVIOUS
    <3>1. n.callee \in Indices /\ n.callee < at
            /\ nodes[n.callee].form = "callee" /\ nodes[n.callee].call = i
      BY <1>3, Bodies DEF IType, NodeFacts, WellFormedNode
    <3>2. \A k \in DOMAIN nodes[n.callee].signature.arguments : n.arguments[k] \in Parts(n)
      BY <3>1, ArgumentsAreParts DEF SoundUpTo, Sound, CalleeDone
    <3>3. TypedCall(n, inferred[i])
      BY <2>1 DEF Typed
    <3> QED BY <1>2, <1>5, <1>8, <3>2, <3>3 DEF TypedCall
  <2>4. n.form = "operator" => TypedOperator(n, inferred[i])'
    <3> SUFFICES ASSUME n.form = "operator"
                 PROVE  TypedOperator(n, inferred[i])'
      OBVIOUS
    <3>1. TypedOperator(n, inferred[i])
      BY <2>1 DEF Typed
    <3>2. TypeOf(n.lhs)' = TypeOf(n.lhs) /\ TypeOf(n.rhs)' = TypeOf(n.rhs)
      BY <2>2, <1>5, <1>2
    <3> QED BY <1>2, <1>8, <3>1, <3>2 DEF TypedOperator
  <2>5. n.form = "declaration" => TypeOf(n.init)' = TypeOf(n.init)
    BY <2>2, <1>5, <1>2
  <2>6. n.form \in {"return", "condition"} => TypeOf(n.expression)' = TypeOf(n.expression)
    BY <2>2, <1>5, <1>2
  <2> QED BY <1>2, <1>8, <1>9, <2>1, <2>3, <2>4, <2>5, <2>6 DEF Typed
<1>11. CalleeDone(i)'
  <2> SUFFICES ASSUME n.form = "callee"
               PROVE  CalleeDone(i)'
    BY <1>2 DEF CalleeDone
  <2>1. n.call \in (i + 1)..Len(nodes) /\ nodes[n.call].form = "call" /\ nodes[n.call].callee = i
    BY <1>3 DEF NodeFacts, WellFormedNode
  <2>2. n.call \in Indices
    BY <2>1, <1>3, Bodies DEF IType
  <2>3. ~MayInfer(n.call)
    BY <1>3, <2>1 DEF MayInfer, node
  <2>4. inferred'[n.call] = inferred[n.call]
    BY <2>2, <2>3 DEF CleanEffect
  <2> QED BY <1>1, <1>2, <2>4 DEF Sound, CalleeDone
<1> QED BY <1>1, <1>2, <1>8, <1>10, <1>11 DEF Sound, SomeType

LEMMA EffectPreserves ==
  ASSUME IInv, Effect, CleanEffect
  PROVE  IInv'
<1>1. IType /\ program' = program /\ nodes' = nodes /\ Indices' = Indices
  BY DEF IInv, Effect, nodes, Indices
<1>2. at \in Indices /\ Indices = 1..Len(nodes) /\ Len(nodes) \in Nat
  BY <1>1, Bodies DEF Effect, IType
<1>3. at' \in 1..(Len(nodes) + 1) /\ at' > at
  BY <1>2 DEF Effect
<1>4. TypeOK'
  BY <1>1, <1>3 DEF TypeOK, Effect, generated, IType
<1>5. ASSUME errors' = {} PROVE SoundUpTo(at)'
  <2>1. SoundUpTo(at)
    BY <1>5 DEF IInv, Effect
  <2>2. at' = at + 1
    BY <2>1, <1>5 DEF CleanEffect
  <2>3. ASSUME NEW i \in Indices, i < at' PROVE Sound(i)'
    <3>1. i < at => Sound(i)'
      BY <1>1, <1>5, <2>1, EarlierStaySound
    <3>2. i = at => Sound(i)'
      BY <1>5, <2>1 DEF CleanEffect
    <3> QED BY <1>2, <2>2, <2>3, <3>1, <3>2
  <2>4. ASSUME NEW i \in Indices, cast'[i] # None
        PROVE  /\ IsNumerical(inferred'[i]) /\ IsNumerical(cast'[i])
               /\ \E j \in 1..(at' - 1) : i \in Parts(nodes[j])
    <3>1. CASE cast'[i] = cast[i]
      <4>1. PICK j \in 1..(at - 1) : i \in Parts(nodes[j])
        BY <2>1, <2>4, <3>1 DEF SoundUpTo, CastByParent
      <4>2. j \in Indices /\ j < at /\ j \in 1..(at' - 1)
        BY <1>2, <2>2, <4>1
      <4>3. inferred'[i] = inferred[i]
        BY <1>1, <1>5, <2>1, <4>1, <4>2, PartsStay
      <4>4. IsNumerical(inferred[i]) /\ IsNumerical(cast[i])
        BY <2>1, <2>4, <3>1 DEF SoundUpTo, CastByParent
      <4> QED BY <3>1, <4>1, <4>2, <4>3, <4>4
    <3>2. CASE cast'[i] # cast[i]
      <4>1. i \in Parts(node) /\ IsNumerical(inferred'[i]) /\ IsNumerical(cast'[i])
        BY <1>5, <2>1, <3>2 DEF CleanEffect
      <4>2. at \in 1..(at' - 1)
        BY <1>2, <2>2
      <4> QED BY <4>1, <4>2 DEF node
    <3> QED BY <3>1, <3>2
  <2>5. \A i \in Indices : CastByParent(i, at)'
    BY <1>1, <2>4 DEF CastByParent
  <2> QED BY <1>1, <2>3, <2>5 DEF SoundUpTo
<1>6. IType'
  BY <1>1, <1>4 DEF IType, Effect
<1> QED BY <1>5, <1>6 DEF IInv, Accepted, Effect

-----------------------------------------------------------------------------
(* The casts. *)

LEMMA CastsAreTyped ==
  ASSUME IType, NEW S, NEW t, S = {} \/ t \in Types \cup {None}, CastAll(S, t)
  PROVE  cast' \in [Indices -> Numbers \cup {None}]
<1>1. cast \in [Indices -> Numbers \cup {None}]
  BY DEF IType, TypeOK
<1>2. ASSUME NEW i \in Indices, i \in S, TypeOf(i) # t, CanCast(TypeOf(i), t)
      PROVE  t \in Numbers
  BY <1>2, NumericalTypes DEF CanCast
<1> QED BY <1>1, <1>2 DEF CastAll

(* The parts of the node at hand that can be cast are, and nothing else. *)
LEMMA CastsOfParts ==
  ASSUME IType, SoundUpTo(at), at \in Indices, NEW S \in SUBSET Parts(node),
         NEW t \in Types, CastAll(S, t),
         \A j \in Indices : j # at => inferred'[j] = inferred[j]
  PROVE  /\ \A j \in Indices : cast'[j] # cast[j] =>
              j \in Parts(node) /\ IsNumerical(inferred'[j]) /\ IsNumerical(cast'[j])
         /\ \A k \in S : CanCast(TypeOf(k), t) => TypeOf(k)' = t
         /\ \A k \in Parts(node) : k \notin S => TypeOf(k)' = TypeOf(k)
<1>1. \A k \in Parts(node) :
        /\ k \in Indices /\ k # at /\ cast[k] = None /\ TypeOf(k) = inferred[k]
        /\ inferred'[k] = inferred[k]
  <2>1. at \in Int
    BY Bodies DEF IType
  <2> QED BY <2>1, PartsAreReady, Bodies DEF IType
<1>2. \A j \in Indices : cast'[j] # cast[j] =>
        j \in S /\ cast'[j] = t /\ TypeOf(j) # t /\ CanCast(TypeOf(j), t)
  BY DEF CastAll
<1>3. \A j \in Indices : cast'[j] # cast[j] =>
        j \in Parts(node) /\ IsNumerical(inferred'[j]) /\ IsNumerical(cast'[j])
  BY <1>1, <1>2 DEF CanCast
<1>4. ASSUME NEW k \in S, CanCast(TypeOf(k), t) PROVE TypeOf(k)' = t
  <2>1. TypeOf(k) = t => cast'[k] = None
    BY <1>1 DEF CastAll
  <2>2. TypeOf(k) # t => cast'[k] = t
    BY <1>1, <1>4 DEF CastAll
  <2>3. t # None
    BY DistinctTypes DEF Types, BuiltinTypes
  <2> QED BY <1>1, <2>1, <2>2, <2>3 DEF TypeOf
<1>5. ASSUME NEW k \in Parts(node), k \notin S PROVE TypeOf(k)' = TypeOf(k)
  BY <1>1, <1>2, <1>5 DEF TypeOf
<1> QED BY <1>3, <1>4, <1>5

-----------------------------------------------------------------------------
(* One lemma per action of the checker. *)

LEMMA PendingGoesOn ==
  ASSUME IType, phase = "checking", at \in Indices, node.form # "callee", GoOn
  PROVE  CallsPending' /\ at' = at + 1 /\ at' \in (at + 1)..(Len(nodes) + 1)
<1>1. Len(nodes) \in Nat /\ Indices = 1..Len(nodes) /\ at \in Int
  BY Bodies DEF IType
<1>2. at' = at + 1 /\ at' \in (at + 1)..(Len(nodes) + 1)
  BY <1>1 DEF GoOn
<1>3. nodes' = nodes /\ Indices' = Indices
  BY DEF GoOn, nodes, Indices
<1>4. \A c \in Indices : nodes[c].form = "callee" /\ c < at + 1 => c < at
  BY <1>1 DEF node
<1>5. ASSUME NEW c \in Indices, nodes[c].form = "callee", c < at + 1, at + 1 <= nodes[c].call
      PROVE  at <= nodes[c].call
  <2>1. NodeFacts(c)
    BY Bodies DEF IType
  <2>2. nodes[c].call \in Int
    BY <1>1, <1>5, <2>1 DEF NodeFacts, WellFormedNode
  <2> QED BY <1>1, <1>5, <2>2
<1> QED BY <1>2, <1>3, <1>4, <1>5 DEF CallsPending, IType

(* A step that infers the type of the node at hand, and goes on. *)
LEMMA PlainStep ==
  ASSUME IType, phase = "checking", at \in Indices, node.form \notin {"call", "callee"},
         NEW t \in Types \cup {None}, Infer(t), GoOn,
         errors \subseteq errors', \A e \in errors' : e[1] \in 1..(Len(nodes) + 1),
         cast' \in [Indices -> Numbers \cup {None}]
  PROVE  /\ Effect /\ at' = at + 1
         /\ inferred'[at] = t
         /\ \A j \in Indices : j # at => inferred'[j] = inferred[j]
         /\ \A j \in Indices : inferred'[j] # inferred[j] => MayInfer(j)
<1>2. at' = at + 1 /\ at' \in (at + 1)..(Len(nodes) + 1)
  BY PendingGoesOn
<1>3. inferred \in [Indices -> Types \cup {None}]
  BY DEF IType, TypeOK
<1>4. /\ inferred' \in [Indices -> Types \cup {None}] /\ inferred'[at] = t
      /\ \A j \in Indices : j # at => inferred'[j] = inferred[j]
  BY <1>3 DEF Infer
<1>5. CallsPending'
  BY PendingGoesOn
<1> QED BY <1>2, <1>3, <1>4, <1>5 DEF Effect, GoOn, MayInfer

LEMMA LeafStep ==
  ASSUME IType, CheckLeaf
  PROVE  Effect /\ CleanEffect
<1>1. at \in Indices /\ phase = "checking" /\ node.form \in {"literal", "argument", "nop"}
        /\ Infer(node.type) /\ GoOn /\ cast' = cast /\ errors' = errors
  BY DEF CheckLeaf, Visiting
<1>2. /\ node.type \in Types /\ node.type \notin {None, Poison}
      /\ node.type = Nop => node.form \in {"nop", "argument"}
  <2>1. NodeFacts(at)
    BY <1>1, Bodies DEF IType
  <2>2. /\ node.type \in ValueTypes \cup {Nop}
        /\ node.form \notin {"nop", "argument"} => node.type \in ValueTypes
    BY <1>1, <2>1 DEF NodeFacts, WellFormedNode, node
  <2> QED BY <2>2, DistinctTypes DEF ValueTypes, Types, BuiltinTypes
<1>3. /\ Effect /\ at' = at + 1 /\ inferred'[at] = node.type
      /\ \A j \in Indices : inferred'[j] # inferred[j] => MayInfer(j)
  BY <1>1, <1>2, PlainStep DEF IType, TypeOK
<1>4. ASSUME NEW i \in Indices, i = at PROVE Sound(i)'
  <2>1. nodes' = nodes /\ nodes[i] = node /\ inferred'[i] = node.type
    BY <1>1, <1>3, <1>4 DEF GoOn, nodes, node
  <2> QED BY <1>1, <1>2, <2>1 DEF Sound, SomeType, Typed, CalleeDone
<1> QED BY <1>1, <1>3, <1>4 DEF CleanEffect

LEMMA UnknownStep ==
  ASSUME IType, CheckUnknown
  PROVE  Effect /\ CleanEffect
<1>1. at \in Indices /\ phase = "checking" /\ node.form = "unknown"
        /\ Infer(Poison) /\ GoOn /\ cast' = cast /\ errors' = errors \cup {<<at, "unknown">>}
  BY DEF CheckUnknown, Visiting, Report
<1>2. \A e \in errors' : e[1] \in 1..(Len(nodes) + 1)
  <2>1. at \in 1..(Len(nodes) + 1) /\ \A e \in errors : e[1] \in 1..(Len(nodes) + 1)
    BY DEF IType, TypeOK
  <2>2. <<at, "unknown">>[1] = at
    OBVIOUS
  <2> QED BY <1>1, <2>1, <2>2
<1>3. Poison \in Types
  BY DEF Types, BuiltinTypes
<1>4. Effect
  BY <1>1, <1>2, <1>3, PlainStep DEF IType, TypeOK
<1> QED BY <1>1, <1>4 DEF CleanEffect

LEMMA IdentifierStep ==
  ASSUME IType, CheckIdentifier
  PROVE  Effect /\ CleanEffect
<1> DEFINE init == nodes[node.of].init
<1>1. at \in Indices /\ phase = "checking" /\ node.form = "identifier"
        /\ Infer(TypeOf(init)) /\ GoOn /\ cast' = cast /\ errors' = errors
  BY DEF CheckIdentifier, Visiting
<1>2. /\ init \in Indices /\ init < at /\ at \in Int /\ init \in Int
      /\ node.of \in Indices /\ node.of < at /\ nodes[node.of].form = "declaration"
  <2>1. NodeFacts(at) /\ at \in Int
    BY <1>1, Bodies DEF IType
  <2>2. node.of \in 1..(at - 1) /\ nodes[node.of].form = "declaration"
    BY <1>1, <2>1 DEF NodeFacts, WellFormedNode, node
  <2>3. node.of \in Indices /\ NodeFacts(node.of)
    BY <1>1, <2>1, <2>2, Bodies DEF IType
  <2>4. init \in 1..(node.of - 1)
    BY <2>2, <2>3, PartsByForm DEF NodeFacts
  <2> QED BY <2>1, <2>2, <2>3, <2>4, Bodies DEF IType
<1>3. TypeOf(init) \in Types \cup {None}
  BY <1>2, TypeOfTypes
<1>4. /\ Effect /\ at' = at + 1 /\ inferred'[at] = TypeOf(init)
      /\ \A j \in Indices : j # at => inferred'[j] = inferred[j]
      /\ \A j \in Indices : inferred'[j] # inferred[j] => MayInfer(j)
  BY <1>1, <1>3, PlainStep DEF IType, TypeOK
<1>5. ASSUME SoundUpTo(at), NEW i \in Indices, i = at PROVE Sound(i)'
  <2>1. nodes' = nodes /\ nodes[i] = node /\ inferred'[i] = TypeOf(init)
    BY <1>1, <1>4, <1>5 DEF GoOn, nodes, node
  <2>2. TypeOf(nodes[nodes[i].of].init)' = inferred'[i]
    <3>1. inferred'[init] = inferred[init] /\ cast'[init] = cast[init]
      BY <1>1, <1>2, <1>4
    <3> QED BY <2>1, <3>1 DEF TypeOf
  <2>3. TypeOf(init) \notin {None, Poison}
    <3>1. Sound(init)
      BY <1>2, <1>5 DEF SoundUpTo
    <3>2. cast[init] \in Numbers \cup {None}
      BY <1>2 DEF IType, TypeOK
    <3> QED BY <3>1, <3>2, DistinctTypes DEF TypeOf, Sound, SomeType
  <2> QED BY <1>1, <2>1, <2>2, <2>3 DEF Sound, SomeType, Typed, CalleeDone
<1> QED BY <1>1, <1>4, <1>5 DEF CleanEffect

LEMMA CalleeStep ==
  ASSUME IType, CheckCallee
  PROVE  Effect /\ CleanEffect
<1> DEFINE c == node.call
           type == IF node.type = Signature THEN node.signature.returns ELSE Poison
           fits == node.type = Signature /\ FitsSignature(nodes[c], node.signature)
<1>1. /\ at \in Indices /\ phase = "checking" /\ node.form = "callee"
      /\ UNCHANGED <<program, phase, cast, generated>>
      /\ inferred' = [inferred EXCEPT ![at] = node.type, ![c] = type]
  BY DEF CheckCallee, Visiting
<1>2. PICK wrong : /\ wrong \in SUBSET {<<at, "unknown">>, <<c, "callable">>, <<c, "number">>}
                   /\ wrong = {} <=> fits
                   /\ errors' = errors \cup wrong
                   /\ at' = IF wrong = {} THEN at + 1 ELSE c + 1
  <2> DEFINE w == CASE node.type = Poison -> {<<at, "unknown">>}
                    [] node.type \notin {Poison, Signature} -> {<<c, "callable">>}
                    [] node.type = Signature ->
                         IF FitsSignature(nodes[c], node.signature) THEN {}
                         ELSE {<<c, "number">>}
  <2>1. errors' = errors \cup w /\ at' = IF w = {} THEN at + 1 ELSE c + 1
    BY DEF CheckCallee, Report
  <2>2. Poison # Signature
    BY DistinctTypes
  <2>3. w \in SUBSET {<<at, "unknown">>, <<c, "callable">>, <<c, "number">>} /\ (w = {} <=> fits)
    <3>1. CASE node.type = Poison
      BY <2>2, <3>1
    <3>2. CASE node.type = Signature
      BY <2>2, <3>2
    <3>3. CASE node.type \notin {Poison, Signature}
      BY <3>3
    <3> QED BY <3>1, <3>2, <3>3
  <2> QED BY <2>1, <2>3
<1>3. Len(nodes) \in Nat /\ Indices = 1..Len(nodes) /\ at \in Int /\ NodeFacts(at)
  BY <1>1, Bodies DEF IType
<1>4. /\ c \in (at + 1)..Len(nodes) /\ nodes[c].form = "call" /\ nodes[c].callee = at
      /\ WholeCalls(nodes, at, c)
      /\ node.type \in Types /\ node.signature \in Signatures
  BY <1>1, <1>3 DEF NodeFacts, WellFormedNode, node
<1>5. node.signature.returns \in ValueTypes \cup {Void}
  BY <1>4 DEF Signatures
<1>6. type \in Types /\ c \in Indices /\ c \in Int /\ c > at
  <2>1. type \in Types
    BY <1>5 DEF ValueTypes, Types, BuiltinTypes
  <2> QED BY <1>1, <1>3, <1>4, <2>1
<1>7. /\ inferred' \in [Indices -> Types \cup {None}]
      /\ inferred'[at] = node.type /\ inferred'[c] = type
      /\ \A j \in Indices : j \notin {at, c} => inferred'[j] = inferred[j]
  <2> HIDE DEF c, type
  <2>1. inferred \in [Indices -> Types \cup {None}]
    BY DEF IType, TypeOK
  <2>2. inferred' = [inferred EXCEPT ![at] = node.type, ![c] = type]
    BY <1>1 DEF c, type
  <2> QED BY <1>1, <1>3, <1>4, <1>6, <2>1, <2>2
<1>8. nodes' = nodes /\ Indices' = Indices
  BY <1>1 DEF nodes, Indices
<1>9. at' \in (at + 1)..(Len(nodes) + 1)
  BY <1>2, <1>3, <1>4
<1>10. \A e \in errors' : e[1] \in 1..(Len(nodes) + 1)
  <2>1. \A e \in wrong : e[1] \in {at, c}
    BY <1>2
  <2>2. at \in 1..(Len(nodes) + 1) /\ c \in 1..(Len(nodes) + 1)
    BY <1>1, <1>3, <1>6
  <2>3. \A e \in errors : e[1] \in 1..(Len(nodes) + 1)
    BY DEF IType, TypeOK
  <2> HIDE DEF c, fits
  <2> QED BY <1>2, <2>1, <2>2, <2>3
<1>11. CallsPending'
  <2> SUFFICES ASSUME NEW d \in Indices, nodes[d].form = "callee", d < at', at' <= nodes[d].call
               PROVE  nodes[d].type = Signature /\ FitsSignature(nodes[nodes[d].call], nodes[d].signature)
    BY <1>8 DEF CallsPending
  <2>1. d \in Int /\ nodes[d].call \in Int
    <3>1. NodeFacts(d)
      BY Bodies DEF IType
    <3> QED BY <1>3, <3>1 DEF NodeFacts, WellFormedNode
  <2>2. CASE d < at
    <3>1. at <= nodes[d].call
      BY <1>3, <1>9, <2>1
    <3> QED BY <1>1, <2>2, <3>1 DEF CallsPending, IType
  <2>3. CASE d = at
    <3>1. at' # c + 1
      BY <1>6, <2>3 DEF node
    <3> QED BY <1>2, <2>3, <3>1 DEF node
  <2>4. CASE d > at
    <3>1. at' = c + 1
      BY <1>2, <1>3, <2>1, <2>4
    <3>2. d \in (at + 1)..c
      BY <1>3, <1>6, <2>1, <2>4, <3>1
    <3>3. nodes[d].call <= c
      BY <1>4, <3>2 DEF WholeCalls
    <3> QED BY <1>6, <2>1, <3>1, <3>3
  <2> QED BY <1>3, <2>1, <2>2, <2>3, <2>4
<1>12. Effect
  BY <1>1, <1>2, <1>7, <1>9, <1>10, <1>11 DEF Effect, IType, TypeOK
<1>13. ASSUME errors' = {} PROVE fits /\ at' = at + 1
  BY <1>2, <1>13
<1>14. ASSUME errors' = {}, NEW i \in Indices, i = at PROVE Sound(i)'
  <2>1. nodes[i] = node /\ node.type = Signature /\ type = node.signature.returns
    BY <1>13, <1>14 DEF node
  <2>2. Typed(i)' /\ inferred'[i] \notin {None, Poison, Nop}
    BY <1>1, <1>7, <1>8, <1>14, <2>1, DistinctTypes DEF Typed
  <2>3. CalleeDone(i)'
    BY <1>7, <1>8, <1>13, <1>14, <2>1 DEF CalleeDone
  <2> QED BY <2>2, <2>3 DEF Sound, SomeType
<1>15. \A j \in Indices : inferred'[j] # inferred[j] => MayInfer(j)
  BY <1>1, <1>4, <1>7 DEF MayInfer
<1> QED BY <1>1, <1>12, <1>13, <1>14, <1>15 DEF CleanEffect

LEMMA CallStep ==
  ASSUME IType, CheckCall
  PROVE  Effect /\ CleanEffect
<1> DEFINE signature == nodes[node.callee].signature
           mismatch == {k \in DOMAIN signature.arguments :
                          TypeOf(node.arguments[k]) \notin {Poison, signature.arguments[k]}}
<1>1. /\ at \in Indices /\ phase = "checking" /\ node.form = "call" /\ GoOn
      /\ inferred' = inferred /\ cast' = cast
      /\ errors' = errors \cup {<<node.arguments[k], "argument">> : k \in mismatch}
  BY DEF CheckCall, Visiting, Report
<1>2. Len(nodes) \in Nat /\ Indices = 1..Len(nodes) /\ at \in Int /\ NodeFacts(at)
  BY <1>1, Bodies DEF IType
<1>3. /\ node.callee \in 1..(at - 1) /\ nodes[node.callee].form = "callee"
      /\ nodes[node.callee].call = at
  BY <1>1, <1>2 DEF NodeFacts, WellFormedNode, node
<1>4. node.callee \in Indices /\ node.callee < at
  BY <1>1, <1>2, <1>3
<1>5. FitsSignature(node, signature)
  BY <1>1, <1>2, <1>3, <1>4 DEF IType, CallsPending, node
<1>6. \A k \in DOMAIN signature.arguments : node.arguments[k] \in Parts(node)
  BY <1>1, <1>5, ArgumentsAreParts DEF node
<1>7. \A e \in errors' : e[1] \in 1..(Len(nodes) + 1)
  <2>1. \A k \in mismatch : node.arguments[k] \in 1..(Len(nodes) + 1)
    <3>1. \A k \in mismatch : node.arguments[k] \in 1..(at - 1)
      BY <1>2, <1>6 DEF NodeFacts, node
    <3> QED BY <1>1, <1>2, <3>1
  <2> QED BY <1>1, <2>1 DEF IType, TypeOK
<1>8. Effect /\ at' = at + 1
  BY <1>1, <1>7, PendingGoesOn DEF Effect, GoOn, IType, TypeOK
<1>9. ASSUME errors' = {}, SoundUpTo(at), NEW i \in Indices, i = at PROVE Sound(i)'
  <2>1. nodes' = nodes /\ nodes[i] = node
    BY <1>1, <1>9 DEF GoOn, nodes, node
  <2>2. mismatch = {}
    BY <1>1, <1>9
  <2>3. \A k \in DOMAIN signature.arguments : TypeOf(node.arguments[k]) = signature.arguments[k]
    BY <1>1, <1>6, <1>9, <2>2, PartsAreReady
  <2>4. inferred[i] = signature.returns
    BY <1>3, <1>4, <1>9 DEF SoundUpTo, Sound, CalleeDone
  <2>5. signature.returns \in ValueTypes \cup {Void}
    <3>1. NodeFacts(node.callee)
      BY <1>4, Bodies DEF IType
    <3> QED BY <1>3, <3>1 DEF NodeFacts, WellFormedNode, Signatures
  <2>6. inferred[i] \notin {None, Poison, Nop}
    BY <2>4, <2>5, DistinctTypes DEF ValueTypes
  <2>7. TypedCall(nodes[i], inferred[i])'
    BY <1>1, <2>1, <2>3, <2>4 DEF TypedCall, TypeOf
  <2> QED BY <1>1, <2>1, <2>6, <2>7 DEF Sound, SomeType, Typed, CalleeDone
<1> QED BY <1>1, <1>8, <1>9 DEF CleanEffect

LEMMA OperatorFacts ==
  ASSUME IType, at \in Indices, node.form = "operator"
  PROVE  /\ Parts(node) = {node.lhs, node.rhs}
         /\ {node.lhs, node.rhs} \subseteq Indices
         /\ {at, node.lhs, node.rhs} \subseteq 1..(Len(nodes) + 1)
         /\ left \in Types \cup {None} /\ right \in Types \cup {None}
         /\ node.category \in {"arithmetic", "bitwise", "comparison", "logical", "assignment"}
<1>1. Len(nodes) \in Nat /\ Indices = 1..Len(nodes) /\ at \in Int /\ NodeFacts(at)
  BY Bodies DEF IType
<1>2. Parts(node) = {node.lhs, node.rhs} /\ Parts(node) \subseteq 1..(at - 1)
  BY <1>1, PartsByForm DEF NodeFacts, node
<1>3. {node.lhs, node.rhs} \subseteq Indices
  BY <1>1, <1>2
<1>4. {at, node.lhs, node.rhs} \subseteq 1..(Len(nodes) + 1)
  BY <1>1, <1>3
<1>5. left \in Types \cup {None} /\ right \in Types \cup {None}
  BY <1>3, TypeOfTypes DEF left, right
<1>6. node.category \in {"arithmetic", "bitwise", "comparison", "logical", "assignment"}
  BY <1>1 DEF NodeFacts, WellFormedNode, node
<1> QED BY <1>2, <1>3, <1>4, <1>5, <1>6

LEMMA SpreadPoisonStep ==
  ASSUME IType, SpreadPoison
  PROVE  Effect /\ CleanEffect
<1>1. at \in Indices /\ phase = "checking" /\ node.form = "operator" /\ ~Healthy
        /\ Infer(Poison) /\ GoOn /\ cast' = cast /\ errors' = errors
  BY DEF SpreadPoison, Visiting
<1>2. Poison \in Types
  BY DEF Types, BuiltinTypes
<1>3. Effect
  BY <1>1, <1>2, PlainStep DEF IType, TypeOK
<1>4. ~SoundUpTo(at)
  BY <1>1, OperatorFacts, PartsAreReady DEF Healthy, left, right
<1> QED BY <1>3, <1>4 DEF CleanEffect

(* An operator whose operands have been brought to one type. *)
LEMMA TypedOperatorIsSound ==
  ASSUME IType, Effect, SoundUpTo(at), at \in Indices, node.form = "operator",
         NEW t \in Types, inferred'[at] = t, t # Poison,
         NEW l \in Types,
         \A k \in {node.lhs, node.rhs} : TypeOf(k)' = l,
         node.category = "arithmetic" => t = l /\ l \in Numbers \cup {Boolean},
         node.category = "bitwise"    => t = l /\ l \in Numbers /\ l.kind = "unsigned",
         node.category = "comparison" => t = Boolean /\ l \in Numbers \cup {Boolean},
         node.category = "logical"    => t = Boolean /\ l = Boolean,
         node.category = "assignment" => t = Void,
         NEW i \in Indices, i = at
  PROVE  Sound(i)'
<1>1. nodes' = nodes /\ nodes[i] = node
  BY DEF Effect, nodes, node
<1>2. t # None /\ t # Nop
  <2>1. t \in Numbers \cup {Boolean, Void}
    BY OperatorFacts
  <2> QED BY <2>1, DistinctTypes
<1>3. TypedOperator(nodes[i], inferred[i])'
  BY <1>1 DEF TypedOperator
<1> QED BY <1>1, <1>2, <1>3 DEF Sound, SomeType, Typed, CalleeDone

LEMMA CoercionOutcome ==
  ASSUME NEW l, NEW r
  PROVE  /\ Coercion(l, r) \in {"operand", "signedness", "no type", "left", "right", "coerced"}
         /\ Coercion(l, r) \in {"left", "right", "coerced"} => Coerced(l, r) \in Numbers \cup {Boolean}
         /\ Coercion(l, r) = "coerced" => CanCast(l, Coerced(l, r)) /\ CanCast(r, Coerced(l, r))
<1>1. ASSUME IsOperand(l), Coerced(l, r) \in BuiltinTypes
      PROVE  Coerced(l, r) \in Numbers \cup {Boolean}
  <2>1. Coerced(l, r).kind \in {"signed", "unsigned", "float", "boolean"}
    BY <1>1, KindAndSize DEF Coerced, IsOperand, IsNumerical
  <2>2. Coerced(l, r) \notin {Void, Poison}
    BY <2>1, KindAndSize DEF Void, Poison
  <2> QED BY <1>1, <2>2 DEF BuiltinTypes
<1> QED BY <1>1 DEF Coercion

LEMMA CoercingStep ==
  ASSUME IType, Operator({"arithmetic", "comparison"}), Healthy,
         Coercion(left, right) # "no type", CoerceTypes, GoOn,
         NEW t \in Types, Infer(t),
         Coercion(left, right) = "coerced" =>
           t = IF node.category = "comparison" THEN Boolean ELSE Coerced(left, right)
  PROVE  Effect /\ CleanEffect
<1> DEFINE C == Coerced(left, right)
           outcome == Coercion(left, right)
           S == IF outcome \in {"coerced", "right"} THEN {node.lhs, node.rhs} ELSE {}
<1>1. /\ at \in Indices /\ phase = "checking" /\ node.form = "operator"
      /\ node.category \in {"arithmetic", "comparison"}
  BY DEF Operator, Visiting
<1>2. errors' = errors \cup CoercionErrors /\ CastAll(S, C)
  BY DEF CoerceTypes, Report
<1>3. S = {} \/ C \in Types
  BY CoercionOutcome DEF Types, BuiltinTypes
<1>4. \A e \in CoercionErrors : e[1] \in {at, node.lhs, node.rhs}
  <2>1. CASE outcome \in {"operand", "signedness"}
    <3>1. CoercionErrors = {<<at, outcome>>}
      BY <2>1 DEF CoercionErrors
    <3>2. <<at, outcome>>[1] = at
      OBVIOUS
    <3> HIDE DEF outcome
    <3> QED BY <3>1, <3>2
  <2>2. CASE outcome = "left"
    BY <2>2 DEF CoercionErrors
  <2>3. CASE outcome = "right"
    BY <2>3 DEF CoercionErrors
  <2>4. CASE outcome \notin {"operand", "signedness", "left", "right"}
    BY <2>4 DEF CoercionErrors
  <2> QED BY <2>1, <2>2, <2>3, <2>4
<1>5. \A e \in errors' : e[1] \in 1..(Len(nodes) + 1)
  BY <1>1, <1>2, <1>4, OperatorFacts DEF IType, TypeOK
<1>6. cast' \in [Indices -> Numbers \cup {None}]
  BY <1>2, <1>3, CastsAreTyped
<1>7. /\ Effect /\ at' = at + 1 /\ inferred'[at] = t
      /\ \A j \in Indices : j # at => inferred'[j] = inferred[j]
      /\ \A j \in Indices : inferred'[j] # inferred[j] => MayInfer(j)
  <2>1. errors \subseteq errors'
    BY <1>2
  <2> QED BY <1>1, <1>5, <1>6, <2>1, PlainStep
<1>8. ASSUME errors' = {}, SoundUpTo(at)
      PROVE  /\ \A j \in Indices : cast'[j] # cast[j] =>
                  j \in Parts(node) /\ IsNumerical(inferred'[j]) /\ IsNumerical(cast'[j])
             /\ \A i \in Indices : i = at => Sound(i)'
  <2>1. CoercionErrors = {}
    BY <1>2, <1>8
  <2>2. outcome = "coerced"
    BY <2>1, CoercionOutcome DEF CoercionErrors
  <2>3. /\ C \in Numbers \cup {Boolean} /\ CanCast(left, C) /\ CanCast(right, C)
        /\ C \in Types /\ S = {node.lhs, node.rhs}
    BY <2>2, CoercionOutcome DEF Types, BuiltinTypes
  <2>4. S \in SUBSET Parts(node)
    BY <1>1, <2>3, OperatorFacts
  <2>5. \A k \in {node.lhs, node.rhs} : CanCast(TypeOf(k), C)
    BY <2>3 DEF left, right
  <2> HIDE DEF C, S
  <2>6. /\ \A j \in Indices : cast'[j] # cast[j] =>
             j \in Parts(node) /\ IsNumerical(inferred'[j]) /\ IsNumerical(cast'[j])
        /\ \A k \in S : CanCast(TypeOf(k), C) => TypeOf(k)' = C
    BY <1>1, <1>2, <1>7, <1>8, <2>3, <2>4, CastsOfParts
  <2>7. \A k \in {node.lhs, node.rhs} : TypeOf(k)' = C
    BY <2>3, <2>5, <2>6
  <2>8. t = IF node.category = "comparison" THEN Boolean ELSE C
    BY <2>2 DEF C
  <2>9. t # Poison
    BY <2>3, <2>8, DistinctTypes
  <2>10. \A i \in Indices : i = at => Sound(i)'
    BY <1>1, <1>7, <1>8, <2>3, <2>7, <2>8, <2>9, TypedOperatorIsSound
  <2> QED BY <2>6, <2>10
<1> QED BY <1>7, <1>8 DEF CleanEffect

LEMMA ArithmeticStep ==
  ASSUME IType, CheckArithmetic
  PROVE  Effect /\ CleanEffect
<1> DEFINE t == IF Coercion(left, right) = "coerced" THEN Coerced(left, right) ELSE Poison
<1>1. t \in Types
  BY CoercionOutcome DEF Types, BuiltinTypes
<1>2. Operator({"arithmetic", "comparison"}) /\ node.category = "arithmetic"
  BY DEF CheckArithmetic, Operator
<1> QED BY <1>1, <1>2, CoercingStep DEF CheckArithmetic

LEMMA ComparisonStep ==
  ASSUME IType, CheckComparison
  PROVE  Effect /\ CleanEffect
<1>1. Boolean \in Types
  BY DEF Types, BuiltinTypes
<1>2. Operator({"arithmetic", "comparison"}) /\ node.category = "comparison"
  BY DEF CheckComparison, Operator
<1> QED BY <1>1, <1>2, CoercingStep DEF CheckComparison

LEMMA BitwiseStep ==
  ASSUME IType, CheckBitwise
  PROVE  Effect /\ CleanEffect
<1> DEFINE wider == Basic("unsigned", Larger(left.size, right.size))
           unsigned == left.kind = "unsigned" /\ right.kind = "unsigned"
<1>1. /\ at \in Indices /\ phase = "checking" /\ node.form = "operator"
      /\ node.category = "bitwise" /\ GoOn
  BY DEF CheckBitwise, Operator, Visiting
<1>2. CASE unsigned
  <2>1. Infer(wider) /\ CastAll({node.lhs, node.rhs}, wider) /\ errors' = errors
    BY <1>2 DEF CheckBitwise
  <2>2. left \in Numbers /\ right \in Numbers
    BY <1>1, <1>2, OperatorFacts, NumericalTypes
  <2>3. wider \in Numbers /\ wider.kind = "unsigned"
    <3>1. left.size \in {1, 2, 4, 8} /\ right.size \in {1, 2, 4, 8}
      BY <1>2, <2>2, NumberParts
    <3> QED BY <3>1, NumbersAre, KindAndSize DEF Larger
  <2>4. wider \in Types /\ wider # Poison
    BY <2>3, DistinctTypes DEF Types, BuiltinTypes
  <2>5. \A k \in {node.lhs, node.rhs} : CanCast(TypeOf(k), wider)
    BY <2>2, <2>3, NumberParts DEF CanCast, left, right
  <2> HIDE DEF wider
  <2>6. cast' \in [Indices -> Numbers \cup {None}]
    BY <2>1, <2>4, CastsAreTyped
  <2>7. /\ Effect /\ at' = at + 1 /\ inferred'[at] = wider
        /\ \A j \in Indices : j # at => inferred'[j] = inferred[j]
        /\ \A j \in Indices : inferred'[j] # inferred[j] => MayInfer(j)
    BY <1>1, <2>1, <2>4, <2>6, PlainStep DEF IType, TypeOK
  <2>8. ASSUME SoundUpTo(at)
        PROVE  /\ \A j \in Indices : cast'[j] # cast[j] =>
                    j \in Parts(node) /\ IsNumerical(inferred'[j]) /\ IsNumerical(cast'[j])
               /\ \A i \in Indices : i = at => Sound(i)'
    <3> DEFINE S == {node.lhs, node.rhs}
    <3>1. S \in SUBSET Parts(node)
      BY <1>1, OperatorFacts
    <3>2. CastAll(S, wider) /\ \A k \in S : CanCast(TypeOf(k), wider)
      BY <2>1, <2>5
    <3>3. /\ \A j \in Indices : cast'[j] # cast[j] =>
               j \in Parts(node) /\ IsNumerical(inferred'[j]) /\ IsNumerical(cast'[j])
          /\ \A k \in S : CanCast(TypeOf(k), wider) => TypeOf(k)' = wider
      <4> HIDE DEF S
      <4> QED BY <1>1, <2>4, <2>7, <2>8, <3>1, <3>2, CastsOfParts
    <3>4. \A k \in {node.lhs, node.rhs} : TypeOf(k)' = wider
      BY <2>5, <3>3
    <3>5. \A i \in Indices : i = at => Sound(i)'
      BY <1>1, <2>3, <2>4, <2>7, <2>8, <3>4, TypedOperatorIsSound
    <3> QED BY <3>3, <3>5
  <2> QED BY <2>7, <2>8 DEF CleanEffect
<1>3. CASE ~unsigned
  <2>1. Infer(Poison) /\ cast' = cast /\ errors' = errors \cup {<<at, "bitwise">>}
    BY <1>3 DEF CheckBitwise, Report
  <2>2. Poison \in Types
    BY DEF Types, BuiltinTypes
  <2>3. \A e \in errors' : e[1] \in 1..(Len(nodes) + 1)
    BY <1>1, <2>1, OperatorFacts DEF IType, TypeOK
  <2>4. Effect
    BY <1>1, <2>1, <2>2, <2>3, PlainStep DEF IType, TypeOK
  <2> QED BY <2>1, <2>4 DEF CleanEffect
<1> QED BY <1>2, <1>3

LEMMA LogicalStep ==
  ASSUME IType, CheckLogical
  PROVE  Effect /\ CleanEffect
<1>1. /\ at \in Indices /\ phase = "checking" /\ node.form = "operator"
      /\ node.category = "logical" /\ GoOn /\ Infer(Boolean) /\ cast' = cast
      /\ errors' = errors \cup IF {left, right} = {Boolean} THEN {} ELSE {<<at, "boolean">>}
  BY DEF CheckLogical, Operator, Visiting, Report
<1>2. Boolean \in Types /\ Boolean # Poison
  BY DistinctTypes DEF Types, BuiltinTypes
<1>3. \A e \in errors' : e[1] \in 1..(Len(nodes) + 1)
  BY <1>1, OperatorFacts DEF IType, TypeOK
<1>4. /\ Effect /\ at' = at + 1 /\ inferred'[at] = Boolean
      /\ \A j \in Indices : j # at => inferred'[j] = inferred[j]
      /\ \A j \in Indices : inferred'[j] # inferred[j] => MayInfer(j)
  <2>1. errors \subseteq errors'
    BY <1>1
  <2> QED BY <1>1, <1>2, <1>3, <2>1, PlainStep DEF IType, TypeOK
<1>5. ASSUME errors' = {}, SoundUpTo(at), NEW i \in Indices, i = at PROVE Sound(i)'
  <2>1. left = Boolean /\ right = Boolean
    BY <1>1, <1>5
  <2>2. \A k \in {node.lhs, node.rhs} : TypeOf(k)' = Boolean
    <3>1. \A k \in {node.lhs, node.rhs} : k \in Indices /\ k # at
      <4>1. at \in Int
        BY <1>1, Bodies DEF IType
      <4> QED BY <1>1, <1>5, <4>1, OperatorFacts, PartsAreReady
    <3> QED BY <1>1, <1>4, <2>1, <3>1 DEF TypeOf, left, right
  <2> QED BY <1>1, <1>2, <1>4, <1>5, <2>2, TypedOperatorIsSound
<1> QED BY <1>1, <1>4, <1>5 DEF CleanEffect

LEMMA AssignmentStep ==
  ASSUME IType, CheckAssignment
  PROVE  Effect /\ CleanEffect
<1> DEFINE S == {node.rhs}
<1>1. /\ at \in Indices /\ phase = "checking" /\ node.form = "operator"
      /\ node.category = "assignment" /\ GoOn /\ Infer(Void) /\ CastAll(S, left)
      /\ errors' = errors \cup IF CanCast(right, left) THEN {}
                               ELSE {<<node.rhs, "cast">>, <<at, "assignment">>}
  BY DEF CheckAssignment, Operator, Visiting, Report
<1>2. Void \in Types /\ Void # Poison
  BY DistinctTypes DEF Types, BuiltinTypes
<1>3. \A e \in errors' : e[1] \in 1..(Len(nodes) + 1)
  BY <1>1, OperatorFacts DEF IType, TypeOK
<1>4. cast' \in [Indices -> Numbers \cup {None}]
  BY <1>1, OperatorFacts, CastsAreTyped
<1>5. /\ Effect /\ at' = at + 1 /\ inferred'[at] = Void
      /\ \A j \in Indices : j # at => inferred'[j] = inferred[j]
      /\ \A j \in Indices : inferred'[j] # inferred[j] => MayInfer(j)
  <2>1. errors \subseteq errors'
    BY <1>1
  <2> QED BY <1>1, <1>2, <1>3, <1>4, <2>1, PlainStep
<1>6. ASSUME errors' = {}, SoundUpTo(at)
      PROVE  /\ \A j \in Indices : cast'[j] # cast[j] =>
                  j \in Parts(node) /\ IsNumerical(inferred'[j]) /\ IsNumerical(cast'[j])
             /\ \A i \in Indices : i = at => Sound(i)'
  <2>1. CanCast(right, left)
    BY <1>1, <1>6
  <2>2. Parts(node) = {node.lhs, node.rhs} /\ S \in SUBSET Parts(node)
    BY <1>1, OperatorFacts
  <2>3. left \in Types
    BY <1>1, <1>6, <2>2, OperatorFacts, PartsAreReady DEF left
  <2>4. /\ \A j \in Indices : cast'[j] # cast[j] =>
             j \in Parts(node) /\ IsNumerical(inferred'[j]) /\ IsNumerical(cast'[j])
        /\ \A k \in S : CanCast(TypeOf(k), left) => TypeOf(k)' = left
        /\ \A k \in Parts(node) : k \notin S => TypeOf(k)' = TypeOf(k)
    <3> HIDE DEF S
    <3> QED BY <1>1, <1>5, <1>6, <2>2, <2>3, CastsOfParts
  <2>5. \A k \in {node.lhs, node.rhs} : TypeOf(k)' = left
    BY <2>1, <2>2, <2>4 DEF left, right
  <2>6. \A i \in Indices : i = at => Sound(i)'
    BY <1>1, <1>2, <1>5, <1>6, <2>3, <2>5, TypedOperatorIsSound
  <2> QED BY <2>4, <2>6
<1> QED BY <1>5, <1>6 DEF CleanEffect

(* A statement with one expression, or none in its place. *)
LEMMA ExpressionFacts ==
  ASSUME IType, at \in Indices, NEW k, Parts(node) = {k}
  PROVE  /\ k \in Indices /\ k < at /\ k # at
         /\ {at, k} \subseteq 1..(Len(nodes) + 1)
         /\ TypeOf(k) \in Types \cup {None}
<1>1. Len(nodes) \in Nat /\ Indices = 1..Len(nodes) /\ at \in Int /\ NodeFacts(at)
  BY Bodies DEF IType
<1>2. k \in 1..(at - 1)
  BY <1>1 DEF NodeFacts, node
<1>3. k \in Indices /\ k < at /\ k # at /\ {at, k} \subseteq 1..(Len(nodes) + 1)
  BY <1>1, <1>2
<1> QED BY <1>3, TypeOfTypes

LEMMA DeclarationStep ==
  ASSUME IType, CheckDeclaration
  PROVE  Effect /\ CleanEffect
<1> DEFINE k == node.init
           specified == node.specified
<1>1. /\ at \in Indices /\ phase = "checking" /\ node.form = "declaration" /\ GoOn
  BY DEF CheckDeclaration, Visiting
<1>2. Parts(node) = {k}
  BY <1>1, PartsByForm
<1>3. /\ k \in Indices /\ k < at /\ k # at /\ {at, k} \subseteq 1..(Len(nodes) + 1)
      /\ TypeOf(k) \in Types \cup {None}
  BY <1>1, <1>2, ExpressionFacts
<1>4. /\ Void \in Types /\ Void \notin {None, Poison, Nop}
      /\ specified \in ValueTypes \cup {None}
      /\ specified # None => specified \in Types /\ specified \notin {None, Poison, Nop}
  <2>1. specified \in ValueTypes \cup {None}
    <3>1. NodeFacts(at)
      BY <1>1, Bodies DEF IType
    <3> QED BY <1>1, <3>1 DEF NodeFacts, WellFormedNode, node
  <2> QED BY <2>1, DistinctTypes DEF ValueTypes, Types, BuiltinTypes
<1>5. ASSUME SoundUpTo(at)
      PROVE  TypeOf(k) = inferred[k] /\ cast[k] = None /\ TypeOf(k) \notin {None, Poison}
  BY <1>1, <1>2, <1>5, PartsAreReady
<1>6. nodes' = nodes
  BY <1>1 DEF GoOn, nodes
<1>7. ASSUME SoundUpTo(at), inferred'[at] = Void,
             specified = None \/ \A j \in Indices : j = k => TypeOf(j)' = specified,
             NEW i \in Indices, i = at
      PROVE  Sound(i)'
  <2>1. nodes[i] = node /\ nodes'[i] = node
    BY <1>6, <1>7 DEF node
  <2>2. specified \in {None, TypeOf(nodes[i].init)'}
    BY <1>3, <1>6, <1>7, <2>1 DEF TypeOf
  <2> QED BY <1>1, <1>4, <1>7, <2>1, <2>2 DEF Sound, SomeType, Typed, CalleeDone
<1>8. CASE specified = None \/ TypeOf(k) = Poison
  <2>1. Infer(Void) /\ cast' = cast /\ errors' = errors
    BY <1>4, <1>8, DistinctTypes DEF CheckDeclaration
  <2>2. /\ Effect /\ at' = at + 1 /\ inferred'[at] = Void
        /\ \A j \in Indices : inferred'[j] # inferred[j] => MayInfer(j)
    BY <1>1, <1>4, <2>1, PlainStep DEF IType, TypeOK
  <2>3. ASSUME SoundUpTo(at), NEW i \in Indices, i = at PROVE Sound(i)'
    BY <1>5, <1>7, <1>8, <2>2, <2>3
  <2> QED BY <2>1, <2>2, <2>3 DEF CleanEffect
<1>9. CASE specified # None /\ TypeOf(k) # Poison /\ nodes[k].form = "nop"
  <2>1. /\ inferred' = [inferred EXCEPT ![at] = Void, ![k] = specified]
        /\ cast' = cast /\ errors' = errors
    BY <1>9, DistinctTypes DEF CheckDeclaration
  <2>2. inferred \in [Indices -> Types \cup {None}]
    BY DEF IType, TypeOK
  <2>3. /\ inferred' \in [Indices -> Types \cup {None}]
        /\ inferred'[at] = Void /\ inferred'[k] = specified
        /\ \A j \in Indices : j \notin {at, k} => inferred'[j] = inferred[j]
    <3> HIDE DEF k, specified
    <3> QED BY <1>1, <1>3, <1>4, <1>9, <2>1, <2>2
  <2>4. CallsPending' /\ at' = at + 1 /\ at' \in (at + 1)..(Len(nodes) + 1)
    BY <1>1, PendingGoesOn
  <2>5. Effect
    BY <1>1, <2>1, <2>3, <2>4 DEF Effect, GoOn, IType, TypeOK
  <2>6. ASSUME SoundUpTo(at), NEW j \in Indices, inferred'[j] # inferred[j] PROVE MayInfer(j)
    BY <1>1, <1>2, <1>4, <1>5, <1>9, <2>3, <2>6 DEF MayInfer
  <2>7. ASSUME SoundUpTo(at), NEW i \in Indices, i = at PROVE Sound(i)'
    <3>1. cast'[k] = None
      BY <1>5, <1>9, <2>1, <2>7
    <3>2. \A j \in Indices : j = k => TypeOf(j)' = specified
      BY <2>3, <3>1 DEF TypeOf
    <3> QED BY <1>7, <2>3, <2>7, <3>2
  <2> QED BY <2>1, <2>4, <2>5, <2>6, <2>7 DEF CleanEffect
<1>10. CASE specified # None /\ TypeOf(k) # Poison /\ nodes[k].form # "nop"
  <2> DEFINE S == {k}
  <2>1. /\ Infer(Void) /\ CastAll(S, specified)
        /\ errors' = errors \cup IF CanCast(TypeOf(k), specified) THEN {}
                                 ELSE {<<k, "cast">>, <<at, "declaration">>}
    BY <1>10 DEF CheckDeclaration, Report
  <2>2. cast' \in [Indices -> Numbers \cup {None}]
    BY <1>4, <1>10, <2>1, CastsAreTyped
  <2>3. \A e \in errors' : e[1] \in 1..(Len(nodes) + 1)
    BY <1>3, <2>1 DEF IType, TypeOK
  <2>4. /\ Effect /\ at' = at + 1 /\ inferred'[at] = Void
        /\ \A j \in Indices : j # at => inferred'[j] = inferred[j]
        /\ \A j \in Indices : inferred'[j] # inferred[j] => MayInfer(j)
    <3>1. errors \subseteq errors'
      BY <2>1
    <3> QED BY <1>1, <1>4, <2>1, <2>2, <2>3, <3>1, PlainStep
  <2>5. ASSUME errors' = {}, SoundUpTo(at)
        PROVE  /\ \A j \in Indices : cast'[j] # cast[j] =>
                    j \in Parts(node) /\ IsNumerical(inferred'[j]) /\ IsNumerical(cast'[j])
               /\ \A i \in Indices : i = at => Sound(i)'
    <3>1. CanCast(TypeOf(k), specified)
      BY <2>1, <2>5
    <3>2. S \in SUBSET Parts(node)
      BY <1>2
    <3>3. /\ \A j \in Indices : cast'[j] # cast[j] =>
               j \in Parts(node) /\ IsNumerical(inferred'[j]) /\ IsNumerical(cast'[j])
          /\ \A j \in S : CanCast(TypeOf(j), specified) => TypeOf(j)' = specified
      <4> HIDE DEF S, specified
      <4> QED BY <1>1, <1>4, <1>10, <2>1, <2>4, <2>5, <3>2, CastsOfParts
    <3> QED BY <1>7, <2>4, <2>5, <3>1, <3>3
  <2> QED BY <2>4, <2>5 DEF CleanEffect
<1> QED BY <1>8, <1>9, <1>10

LEMMA ReturnStep ==
  ASSUME IType, CheckReturn
  PROVE  Effect /\ CleanEffect
<1> DEFINE k == node.expression
           S == {k}
           returns == program.returns
<1>1. /\ at \in Indices /\ phase = "checking" /\ node.form = "return" /\ GoOn /\ Infer(Void)
  BY DEF CheckReturn, Visiting
<1>2. Parts(node) = {k}
  BY <1>1, PartsByForm
<1>3. /\ k \in Indices /\ k < at /\ k # at /\ {at, k} \subseteq 1..(Len(nodes) + 1)
      /\ TypeOf(k) \in Types \cup {None}
  BY <1>1, <1>2, ExpressionFacts
<1>4. /\ Void \in Types /\ Void \notin {None, Poison, Nop}
      /\ returns \in Types
  <2>1. returns \in ValueTypes \cup {Void}
    BY Bodies DEF IType
  <2> QED BY <2>1, DistinctTypes DEF ValueTypes, Types, BuiltinTypes
<1>5. program' = program /\ nodes' = nodes
  BY <1>1 DEF GoOn, nodes
<1>6. ASSUME SoundUpTo(at), inferred'[at] = Void,
             returns = Void \/ \A j \in Indices : j = k => TypeOf(j)' = returns,
             NEW i \in Indices, i = at
      PROVE  Sound(i)'
  <2>1. nodes[i] = node /\ nodes'[i] = node
    BY <1>5, <1>6 DEF node
  <2>2. returns \in {Void, TypeOf(nodes[i].expression)'}
    BY <1>3, <1>5, <1>6, <2>1 DEF TypeOf
  <2> QED BY <1>1, <1>4, <1>5, <1>6, <2>1, <2>2 DEF Sound, SomeType, Typed, CalleeDone
<1>7. CASE TypeOf(k) = Poison \/ returns = Void
  <2>1. cast' = cast /\ errors' = errors
    BY <1>7 DEF CheckReturn
  <2>2. /\ Effect /\ at' = at + 1 /\ inferred'[at] = Void
        /\ \A j \in Indices : inferred'[j] # inferred[j] => MayInfer(j)
    BY <1>1, <1>4, <2>1, PlainStep DEF IType, TypeOK
  <2>3. ASSUME SoundUpTo(at) PROVE returns = Void
    BY <1>1, <1>2, <1>7, <2>3, PartsAreReady
  <2> QED BY <1>6, <2>1, <2>2, <2>3 DEF CleanEffect
<1>8. CASE ~(TypeOf(k) = Poison \/ returns = Void)
  <2>1. /\ CastAll(S, returns)
        /\ errors' = errors \cup IF CanCast(TypeOf(k), returns) THEN {}
                                 ELSE {<<k, "cast">>, <<at, "return">>}
    BY <1>8 DEF CheckReturn, Report
  <2>2. cast' \in [Indices -> Numbers \cup {None}]
    BY <1>4, <2>1, CastsAreTyped
  <2>3. \A e \in errors' : e[1] \in 1..(Len(nodes) + 1)
    BY <1>3, <2>1 DEF IType, TypeOK
  <2>4. /\ Effect /\ at' = at + 1 /\ inferred'[at] = Void
        /\ \A j \in Indices : j # at => inferred'[j] = inferred[j]
        /\ \A j \in Indices : inferred'[j] # inferred[j] => MayInfer(j)
    <3>1. errors \subseteq errors'
      BY <2>1
    <3> QED BY <1>1, <1>4, <2>2, <2>3, <3>1, PlainStep
  <2>5. ASSUME errors' = {}, SoundUpTo(at)
        PROVE  /\ \A j \in Indices : cast'[j] # cast[j] =>
                    j \in Parts(node) /\ IsNumerical(inferred'[j]) /\ IsNumerical(cast'[j])
               /\ \A i \in Indices : i = at => Sound(i)'
    <3>1. CanCast(TypeOf(k), returns)
      BY <2>1, <2>5
    <3>2. S \in SUBSET Parts(node)
      BY <1>2
    <3>3. /\ \A j \in Indices : cast'[j] # cast[j] =>
               j \in Parts(node) /\ IsNumerical(inferred'[j]) /\ IsNumerical(cast'[j])
          /\ \A j \in S : CanCast(TypeOf(j), returns) => TypeOf(j)' = returns
      <4> HIDE DEF S, returns
      <4> QED BY <1>1, <1>4, <2>1, <2>4, <2>5, <3>2, CastsOfParts
    <3> QED BY <1>6, <2>4, <2>5, <3>1, <3>3
  <2> QED BY <2>4, <2>5 DEF CleanEffect
<1> QED BY <1>7, <1>8

LEMMA ConditionStep ==
  ASSUME IType, CheckCondition
  PROVE  Effect /\ CleanEffect
<1> DEFINE k == node.expression
           boolean == TypeOf(k) = Boolean
<1>1. /\ at \in Indices /\ phase = "checking" /\ node.form = "condition"
      /\ UNCHANGED <<program, phase, cast, generated>>
      /\ inferred' = [inferred EXCEPT ![at] = Void]
      /\ at' = IF boolean THEN at + 1 ELSE node.end + 1
      /\ errors' = errors \cup IF boolean THEN {} ELSE {<<at, "condition">>}
  BY DEF CheckCondition, Visiting, Infer, Report
<1>2. Len(nodes) \in Nat /\ Indices = 1..Len(nodes) /\ at \in Int /\ NodeFacts(at)
  BY <1>1, Bodies DEF IType
<1>3. node.end \in at..Len(nodes) /\ WholeCalls(nodes, at, node.end)
  BY <1>1, <1>2 DEF NodeFacts, WellFormedNode, node
<1>4. Parts(node) = {k}
  BY <1>1, PartsByForm
<1>5. k \in Indices /\ k # at
  BY <1>1, <1>4, ExpressionFacts
<1>6. Void \in Types /\ Void \notin {None, Poison, Nop}
  BY DistinctTypes DEF Types, BuiltinTypes
<1>7. /\ inferred' \in [Indices -> Types \cup {None}] /\ inferred'[at] = Void
      /\ \A j \in Indices : j # at => inferred'[j] = inferred[j]
  BY <1>1, <1>6 DEF IType, TypeOK
<1>8. nodes' = nodes /\ Indices' = Indices
  BY <1>1 DEF nodes, Indices
<1>9. at' \in (at + 1)..(Len(nodes) + 1)
  BY <1>1, <1>2, <1>3
<1>10. \A e \in errors' : e[1] \in 1..(Len(nodes) + 1)
  BY <1>1, <1>2 DEF IType, TypeOK
<1>11. CallsPending'
  <2> SUFFICES ASSUME NEW d \in Indices, nodes[d].form = "callee", d < at', at' <= nodes[d].call
               PROVE  nodes[d].type = Signature /\ FitsSignature(nodes[nodes[d].call], nodes[d].signature)
    BY <1>8 DEF CallsPending
  <2>1. d \in Int /\ nodes[d].call \in Int /\ d # at
    <3>1. NodeFacts(d)
      BY Bodies DEF IType
    <3> QED BY <1>1, <1>2, <3>1 DEF NodeFacts, WellFormedNode, node
  <2>2. CASE d < at
    <3>1. at <= nodes[d].call
      BY <1>2, <1>9, <2>1
    <3> QED BY <1>1, <2>2, <3>1 DEF CallsPending, IType
  <2>3. CASE d > at
    <3>1. at' = node.end + 1
      BY <1>1, <1>2, <2>1, <2>3
    <3>2. d \in (at + 1)..node.end
      BY <1>2, <1>3, <2>1, <2>3, <3>1
    <3>3. nodes[d].call <= node.end
      BY <1>3, <3>2 DEF WholeCalls
    <3> QED BY <1>2, <1>3, <2>1, <3>1, <3>3
  <2> QED BY <1>2, <2>1, <2>2, <2>3
<1>12. Effect
  BY <1>1, <1>7, <1>9, <1>10, <1>11 DEF Effect, IType, TypeOK
<1>13. ASSUME errors' = {} PROVE boolean /\ at' = at + 1
  BY <1>1, <1>13
<1>14. ASSUME errors' = {}, NEW i \in Indices, i = at PROVE Sound(i)'
  <2>1. nodes[i] = node /\ nodes'[i] = node
    BY <1>8, <1>14 DEF node
  <2>2. TypeOf(nodes[i].expression)' = Boolean
    BY <1>1, <1>5, <1>7, <1>8, <1>13, <1>14, <2>1 DEF TypeOf
  <2> QED BY <1>1, <1>6, <1>7, <1>14, <2>1, <2>2 DEF Sound, SomeType, Typed, CalleeDone
<1>15. \A j \in Indices : inferred'[j] # inferred[j] => MayInfer(j)
  BY <1>1, <1>7 DEF MayInfer
<1> QED BY <1>1, <1>12, <1>13, <1>14, <1>15 DEF CleanEffect

-----------------------------------------------------------------------------
(* The other steps, which leave types and casts as they are. *)

LEMMA SoundStays ==
  ASSUME program' = program, inferred' = inferred, cast' = cast
  PROVE  /\ SoundUpTo(Len(nodes) + 1) => SoundUpTo(Len(nodes) + 1)'
         /\ at' = at /\ SoundUpTo(at) => SoundUpTo(at)'
<1>1. nodes' = nodes /\ Indices' = Indices
  BY DEF nodes, Indices
<1>2. \A i : TypeOf(i)' = TypeOf(i)
  BY DEF TypeOf
<1>3. ASSUME NEW i PROVE TypedCall(nodes[i], inferred[i])' = TypedCall(nodes[i], inferred[i])
  BY <1>1, <1>2 DEF TypedCall
<1>4. ASSUME NEW i PROVE TypedOperator(nodes[i], inferred[i])' = TypedOperator(nodes[i], inferred[i])
  BY <1>1, <1>2 DEF TypedOperator
<1>5. ASSUME NEW i PROVE TypeOf(nodes[nodes[i].of].init)' = TypeOf(nodes[nodes[i].of].init)
  BY <1>1 DEF TypeOf
<1>6. ASSUME NEW i PROVE /\ TypeOf(nodes[i].init)' = TypeOf(nodes[i].init)
                         /\ TypeOf(nodes[i].expression)' = TypeOf(nodes[i].expression)
  BY <1>1 DEF TypeOf
<1>7. ASSUME NEW i, Typed(i) PROVE Typed(i)'
  BY <1>1, <1>3, <1>4, <1>5, <1>6, <1>7 DEF Typed
<1>8. ASSUME NEW i \in Indices, Sound(i) PROVE Sound(i)'
  BY <1>1, <1>7, <1>8 DEF Sound, SomeType, CalleeDone
<1> QED BY <1>1, <1>8 DEF SoundUpTo, CastByParent

LEMMA CrashStep ==
  ASSUME IInv, CoercionCrashes
  PROVE  IInv'
<1>1. nodes' = nodes /\ Indices' = Indices
  BY DEF CoercionCrashes, nodes, Indices
<1> QED BY <1>1 DEF IInv, IType, TypeOK, CallsPending, Accepted, CoercionCrashes, checked, generated

LEMMA EndCheckingStep ==
  ASSUME IInv, EndChecking
  PROVE  IInv'
<1>1. /\ program' = program /\ inferred' = inferred /\ cast' = cast /\ value' = value
      /\ phase = "checking" /\ at = Len(nodes) + 1
  BY DEF EndChecking
<1>2. nodes' = nodes /\ Indices' = Indices
  BY <1>1 DEF nodes, Indices
<1>3. Len(nodes) \in Nat /\ IType /\ TypeOK
  BY Bodies DEF IInv, IType
<1>4. errors \subseteq errors' /\ \A e \in errors' : e[1] \in 1..(Len(nodes) + 1)
  <2>1. PICK E \in SUBSET {<<at, "no return">>} : errors' = errors \cup E
    BY DEF EndChecking, Report
  <2>2. \A e \in E : e[1] = at
    <3>1. \A e \in E : e = <<at, "no return">>
      BY <2>1
    <3>2. <<at, "no return">>[1] = at
      OBVIOUS
    <3> QED BY <3>1, <3>2
  <2>3. at \in 1..(Len(nodes) + 1)
    BY <1>3 DEF TypeOK
  <2> QED BY <1>3, <2>1, <2>2, <2>3 DEF TypeOK
<1>5. CASE errors' = {}
  <2>1. \/ /\ phase' = "generating" /\ at' = 1
           /\ slot' = [i \in Indices |->
                         IF nodes[i].form = "declaration" THEN Convert(TypeOf(nodes[i].init)) ELSE Null]
           /\ faults' = {<<i, "alloca">> : i \in {j \in Indices : slot'[j].class = "void"}}
        \/ phase' = "aborted" /\ at' = 1 /\ UNCHANGED <<slot, faults>>
    BY <1>5 DEF EndChecking
  <2>2. \A f \in faults' : f[1] \in Indices
    BY <1>3, <2>1 DEF TypeOK
  <2>3. \A i \in Indices : slot'[i] = Null \/ nodes[i].form = "declaration"
    BY <1>3, <2>1 DEF TypeOK
  <2>4. TypeOK'
    BY <1>1, <1>2, <1>3, <1>4, <2>1, <2>2, <2>3 DEF TypeOK
  <2>5. SoundUpTo(Len(nodes) + 1)'
    <3>1. SoundUpTo(Len(nodes) + 1)
      BY <1>1, <1>4, <1>5 DEF IInv
    <3> QED BY <1>1, <3>1, SoundStays
  <2> QED BY <1>1, <1>3, <1>5, <2>1, <2>4, <2>5 DEF IInv, IType, CallsPending
<1>6. CASE errors' # {}
  <2>1. phase' = "rejected" /\ at' = at /\ slot' = slot /\ faults' = faults
    BY <1>6 DEF EndChecking
  <2>2. TypeOK'
    BY <1>1, <1>2, <1>3, <1>4, <2>1 DEF TypeOK
  <2> QED BY <1>1, <1>3, <2>1, <2>2 DEF IInv, IType, CallsPending, Accepted
<1> QED BY <1>5, <1>6

(* A step of the generator, which changes nothing the checker found. *)
LEMMA GeneratorStep ==
  ASSUME IInv, phase = "generating", UNCHANGED <<program, checked, slot>>,
         phase' \in {"generating", "compiled", "aborted"},
         at' \in 1..(Len(nodes) + 1), DOMAIN value' = DOMAIN value,
         \A f \in faults' : f[1] \in Indices
  PROVE  IInv'
<1>1. nodes' = nodes /\ Indices' = Indices
  BY DEF nodes, Indices
<1>2. TypeOK'
  BY <1>1 DEF IInv, IType, TypeOK, checked
<1>3. errors' = {} /\ SoundUpTo(Len(nodes) + 1)'
  <2>1. errors = {} /\ SoundUpTo(Len(nodes) + 1)
    BY DEF IInv, Accepted
  <2> QED BY <2>1, SoundStays DEF checked
<1> QED BY <1>1, <1>2, <1>3 DEF IInv, IType, CallsPending

LEMMA AbortStep ==
  ASSUME IInv, phase = "generating", Abort
  PROVE  IInv'
BY GeneratorStep DEF IInv, IType, TypeOK, Abort, generated

LEMMA EmitStep ==
  ASSUME IInv, phase = "generating", at \in Indices, NEW v, NEW wrong, Emit(v, wrong)
  PROVE  IInv'
<1>1. CASE Abort
  BY <1>1, AbortStep
<1>2. CASE ~Abort
  <2>1. /\ UNCHANGED <<program, phase, checked, slot>> /\ at' = at + 1
        /\ DOMAIN value' = DOMAIN value
        /\ faults' = faults \cup {<<at, w>> : w \in wrong}
    BY <1>2 DEF Emit
  <2>2. at' \in 1..(Len(nodes) + 1)
    BY <2>1, Bodies DEF IInv, IType
  <2>3. \A f \in faults' : f[1] \in Indices
    BY <2>1 DEF IInv, IType, TypeOK
  <2> QED BY <2>1, <2>2, <2>3, GeneratorStep
<1> QED BY <1>1, <1>2

LEMMA GenerateKeepsIInv ==
  ASSUME IInv, Generate
  PROVE  IInv'
<1>1. CASE GenerateLeaf
  BY <1>1, EmitStep DEF GenerateLeaf, Generating
<1>2. CASE GenerateIdentifier
  BY <1>2, EmitStep DEF GenerateIdentifier, Generating
<1>3. CASE GenerateCall
  BY <1>3, EmitStep DEF GenerateCall, Generating
<1>4. CASE GenerateOperator
  BY <1>4, EmitStep, AbortStep DEF GenerateOperator, GeneratingOperator, Generating
<1>5. CASE GenerateLogical
  BY <1>5, EmitStep, AbortStep DEF GenerateLogical, GeneratingOperator, Generating
<1>6. CASE GenerateAssignment
  BY <1>6, EmitStep, AbortStep DEF GenerateAssignment, GeneratingOperator, Generating
<1>7. CASE GenerateDeclaration
  BY <1>7, EmitStep, AbortStep DEF GenerateDeclaration, Generating
<1>8. CASE GenerateReturn
  BY <1>8, EmitStep DEF GenerateReturn, Generating
<1>9. CASE GenerateCondition
  BY <1>9, EmitStep DEF GenerateCondition, Generating
<1>10. CASE EndGenerating
  BY <1>10, GeneratorStep DEF EndGenerating, generated, IInv, IType, TypeOK
<1> QED BY <1>1, <1>2, <1>3, <1>4, <1>5, <1>6, <1>7, <1>8, <1>9, <1>10 DEF Generate

LEMMA CheckKeepsIInv ==
  ASSUME IInv, Check
  PROVE  IInv'
<1>1. IType
  BY DEF IInv
<1>2. CASE EndChecking
  BY <1>2, EndCheckingStep
<1>3. CASE CoercionCrashes
  BY <1>3, CrashStep
<1>4. CASE ~EndChecking /\ ~CoercionCrashes
  <2>1. Effect /\ CleanEffect
    BY <1>1, <1>4, LeafStep, UnknownStep, IdentifierStep, CalleeStep, CallStep, SpreadPoisonStep,
       ArithmeticStep, ComparisonStep, BitwiseStep, LogicalStep, AssignmentStep,
       DeclarationStep, ReturnStep, ConditionStep DEF Check
  <2> QED BY <2>1, EffectPreserves
<1> QED BY <1>2, <1>3, <1>4

LEMMA StutterKeepsIInv ==
  ASSUME IInv, UNCHANGED vars
  PROVE  IInv'
<1>1. /\ program' = program /\ phase' = phase /\ at' = at /\ inferred' = inferred /\ cast' = cast
      /\ errors' = errors /\ slot' = slot /\ value' = value /\ faults' = faults
  BY DEF vars
<1>2. nodes' = nodes /\ Indices' = Indices
  BY <1>1 DEF nodes, Indices
<1>3. TypeOK' /\ IType'
  BY <1>1, <1>2 DEF IInv, IType, TypeOK, CallsPending
<1>4. Accepted' => errors' = {} /\ SoundUpTo(Len(nodes) + 1)'
  BY <1>1, SoundStays DEF IInv, Accepted
<1>5. phase' = "checking" /\ errors' = {} => SoundUpTo(at)'
  BY <1>1, SoundStays DEF IInv
<1> QED BY <1>3, <1>4, <1>5 DEF IInv

-----------------------------------------------------------------------------
(* The theorems. *)

LEMMA InitIsSound ==
  ASSUME Init
  PROVE  IInv
<1>1. program \in Programs
  BY DEF Init
<1>2. Len(nodes) \in Nat /\ Indices = 1..Len(nodes)
  <2>1. WellFormed(program)
    BY <1>1, ProgramsAssumption
  <2> QED BY <2>1 DEF WellFormed, nodes, Indices
<1>3. TypeOK
  BY <1>2 DEF Init, TypeOK
<1>4. \A i \in Indices : 1 <= i /\ i \in Int
  BY <1>2
<1>5. CallsPending
  BY <1>4 DEF Init, CallsPending
<1>6. SoundUpTo(at)
  BY <1>4 DEF Init, SoundUpTo, CastByParent
<1> QED BY <1>1, <1>3, <1>5, <1>6 DEF IInv, IType, Init, Accepted

THEOREM Strengthening == Spec => []IInv
<1>1. Init => IInv
  BY InitIsSound
<1>2. IInv /\ [Next]_vars => IInv'
  BY CheckKeepsIInv, GenerateKeepsIInv, StutterKeepsIInv DEF Next
<1> QED BY <1>1, <1>2, PTL DEF Spec

(* Every variable has its type, whatever the bodies are. *)
THEOREM TypeCorrect == Spec => []TypeOK
<1>1. IInv => TypeOK
  BY DEF IInv, IType
<1> QED BY <1>1, Strengthening, PTL

(***************************************************************************)
(* No body reaches compile_to_ir untyped: however long it is, and however  *)
(* its operators, calls and conditions nest, a body the checker reports    *)
(* nothing about has a type at every node that the rules give it, and      *)
(* casts only between numbers.                                             *)
(***************************************************************************)
THEOREM AcceptedBodiesAreTyped == Spec => []AcceptedIsTyped
<1>1. IInv => AcceptedIsTyped
  <2> SUFFICES ASSUME IInv, Accepted, NEW i \in Indices
               PROVE  /\ TypeOf(i) \notin {None, Poison}
                      /\ Typed(i)
                      /\ cast[i] # None => IsNumerical(inferred[i]) /\ IsNumerical(cast[i])
    BY DEF AcceptedIsTyped
  <2>1. i < Len(nodes) + 1
    BY Bodies DEF IInv, IType
  <2>2. Sound(i) /\ CastByParent(i, Len(nodes) + 1)
    BY <2>1 DEF IInv, SoundUpTo
  <2>3. cast[i] \in Numbers \cup {None}
    BY DEF IInv, IType, TypeOK
  <2> QED BY <2>2, <2>3, DistinctTypes DEF Sound, SomeType, TypeOf, CastByParent
<1> QED BY <1>1, Strengthening, PTL
=============================================================================
