---------------------------- MODULE LoweringProofs ----------------------------
(***************************************************************************)
(* Lowering, for all statements and conditions and integers of any width:  *)
(* the code that is generated is valid wherever GeneratesValidCode says it *)
(* is, and the machine that runs it stays within the code.                 *)
(*                                                                         *)
(* The stack of the generator is taken apart from the top: what a node or  *)
(* frame asks of the stack under it is Fits, what holds of a whole stack   *)
(* is Stack.  Every handler pops one element that fits, emits instructions *)
(* and pushes at most two that fit.                                        *)
(***************************************************************************)
EXTENDS Lowering, WellFoundedInduction, TLAPS

USE NoVarAssumption, HalfAssumption

-----------------------------------------------------------------------------
(* What the variables may hold. *)

(* Instructions, where there are n blocks and t temporaries. *)
Instructions(n, t) ==
  [op : {"br"}, to : 1 .. n]
    \cup [op : {"cbr"}, when : BOOLEAN, to : 1 .. n, other : 1 .. n]
    \cup [op : {"ret"}, var : Var \cup {NoVar}]
    \cup [op : {"store"}, var : Var, value : Integer]
    \cup [op : {"add"}, var : Var, by : Int]
    \cup [op : {"call"}, id : STRING, var : Var]
    \cup [op : {"set"}, temp : 1 .. t, value : BOOLEAN]
    \cup [op : {"get"}, temp : 1 .. t]
    \cup Questions \cup Compares

(* Nodes and frames. *)
Node == Simple \cup Compound

Frame(n, t) ==
  [kind : {"statements"}, statements : Seq(Statement), index : Nat \ {0}]
    \cup [kind : {"condition"}, condition : Condition]
    \cup [kind : {"lhsDone", "rhsDone"}, condition : Junctions, blocks : 0 .. n - 3, temp : 1 .. t]
    \cup [kind : {"ifDecided"}, then : Blocks, else : Blocks]
    \cup [kind : {"thenDone"}, else : Blocks, blocks : 0 .. n - 3]
    \cup [kind : {"elseDone"}, blocks : 0 .. n - 3]
    \cup [kind : {"whileDecided", "bodyDone"}, body : Blocks, blocks : 0 .. n - 3,
          prologue : Seq(Assignments), break : 0 .. n, continue : 0 .. n]

Task(n, t) == Node \cup Frame(n, t)

Generators(n, t) ==
  [todo : Seq(Task(n, t)), code : Seq(Seq(Instructions(n, t))), insert : 1 .. n,
   prologue : Seq(Assignments), break : 0 .. n, continue : 0 .. n, temps : {t},
   aborted : BOOLEAN]

GenTyped(g) == g.temps \in Nat /\ g \in Generators(Len(g.code), g.temps)

-----------------------------------------------------------------------------
(* What the rest of a call is about. *)

(* The blocks that a frame will fill. *)
Waiting(f) ==
  CASE f.kind = "lhsDone" -> {f.blocks + 1, f.blocks + 2, f.blocks + 3}
    [] f.kind \in {"rhsDone", "thenDone", "whileDecided"} -> {f.blocks + 2, f.blocks + 3}
    [] f.kind \in {"elseDone", "bodyDone"} -> {f.blocks + 3}
    [] OTHER -> {}

AllWaiting(r) == UNION {Waiting(r[i]) : i \in 1 .. Len(r)}

(* Frames that end the block the one above them has filled. *)
Ends(f) == f.kind \in {"thenDone", "elseDone", "bodyDone"}

(* There is a jump among the statements from the i-th on. *)
HasJump(statements, i) == \E j \in i .. Len(statements) : statements[j].kind \in Terminators

(* What leaves the insert point terminated. *)
EndsInJump(t) ==
  \/ t.kind \in Terminators
  \/ t.kind = "block" /\ ~t.expects /\ HasJump(t.statements, 1)
  \/ t.kind = "statements" /\ HasJump(t.statements, t.index)

(* The statements from the i-th on that code is generated for. *)
Upto(statements, i) ==
  {statements[j] : j \in {k \in i .. Len(statements) :
                            \A l \in i .. k - 1 : statements[l].kind \notin Terminators}}

(* All the statements code is generated for are in S. *)
Covered(t, S) ==
  CASE t.kind = "block" -> Own(t) \subseteq S
    [] t.kind = "statements" -> Upto(t.statements, t.index) \subseteq S
    [] t.kind = "ifDecided" -> Own(t.then) \cup Own(t.else) \subseteq S
    [] t.kind = "thenDone" -> Own(t.else) \subseteq S
    [] t.kind = "whileDecided" -> Own(t.body) \subseteq S
    [] t.kind \in {"condition", "lhsDone", "rhsDone", "elseDone", "bodyDone"} -> TRUE
    [] OTHER -> t \in S

All     == Generated(prog) \cup {Return(NoVar)}
Outside == OutsideLoops(prog) \cup {Return(NoVar)}

IsLoop(f) == f.kind \in {"whileDecided", "bodyDone"}

InLoop(r) == \E i \in 1 .. Len(r) : IsLoop(r[i])

(***************************************************************************)
(* What t asks of the stack r under it.                                    *)
(***************************************************************************)
Fits(t, r) ==
  /\ Waiting(t) \cap AllWaiting(r) = {}
  /\ EndsInJump(t) => r = <<>> \/ Ends(Head(r))
  /\ r = <<>> => EndsInJump(t)
  /\ Covered(t, All)
  /\ IsLoop(t) \/ InLoop(r) \/ Covered(t, Outside)
  /\ IsLoop(t) /\ (t.break = 0 \/ t.continue = 0) => ~InLoop(r)

Under(todo, i) == SubSeq(todo, i + 1, Len(todo))

Stack(todo) == \A i \in 1 .. Len(todo) : Fits(todo[i], Under(todo, i))

(* Every block but the insert point is empty if it is waiting, or done. *)
Settled(g, waiting) ==
  /\ waiting \subseteq 1 .. Len(g.code)
  /\ g.insert \notin waiting
  /\ \A b \in 1 .. Len(g.code) :
       /\ b \in waiting => g.code[b] = <<>>
       /\ b \notin waiting /\ b # g.insert => Complete(g.code[b])

Open(instructions) == \A i \in 1 .. Len(instructions) : instructions[i].op \notin EndsBlock

IsOpen(g)   == Open(g.code[g.insert])
IsClosed(g) == Complete(g.code[g.insert])

Valid(g) ==
  /\ ~g.aborted
  /\ Stack(g.todo)
  /\ Settled(g, AllWaiting(g.todo))
  /\ IsOpen(g) \/ IsClosed(g)
  /\ g.todo = <<>> => IsClosed(g)
  /\ g.todo # <<>> /\ ~Ends(Head(g.todo)) => IsOpen(g)
  /\ g.break = 0 \/ g.continue = 0 => ~InLoop(g.todo)

Tame == ~JumpsFromBareBlock /\ ~StrayJump

(***************************************************************************)
(* The invariant of the generator.                                         *)
(***************************************************************************)
GenInv ==
  /\ prog \in Programs
  /\ GenTyped(gen)
  /\ status \in {"compiling", "running", "returned", "diverged", "malformed", "aborted"}
  /\ status # "aborted" => ~gen.aborted
  /\ Tame => Valid(gen)
  /\ Tame => status \notin {"aborted", "malformed"}

-----------------------------------------------------------------------------
(* Numbers. *)

(* A set of numbers has a least one. *)
LEMMA LeastNumber ==
  ASSUME NEW T, T \subseteq Nat, T # {}
  PROVE  \E x \in T : \A y \in T : x <= y
<1> DEFINE Less == {ss \in Nat \X Nat : ss[1] < ss[2]}
<1>1. IsWellFoundedOn(Less, Nat)
  BY NatLessThanWellFounded DEF OpToRel
<1>2. PICK x \in T : \A y \in T : <<y, x>> \notin Less
  <2> HIDE DEF Less
  <2> QED BY <1>1, WFMin
<1>3. ASSUME NEW y \in T PROVE x <= y
  <2>1. <<y, x>> \in Nat \X Nat /\ <<y, x>>[1] = y /\ <<y, x>>[2] = x
    OBVIOUS
  <2> QED BY <1>2, <2>1
<1> QED BY <1>3

(* Induction on a set of numbers. *)
LEMMA SetInduction ==
  ASSUME NEW T, 0 \in T, \A n \in Nat : n \in T => n + 1 \in T
  PROVE  Nat \subseteq T
<1> DEFINE Rest == {n \in Nat : n \notin T}
<1>1. CASE Rest = {}
  BY <1>1
<1>2. CASE Rest # {}
  <2>1. PICK n \in Rest : \A k \in Rest : n <= k
    <3>1. Rest \subseteq Nat
      OBVIOUS
    <3> QED BY <1>2, <3>1, LeastNumber
  <2>2. n \in Nat /\ n # 0 /\ n \notin T
    BY <2>1
  <2>3. n - 1 \in Nat /\ n - 1 \notin Rest /\ (n - 1) + 1 = n
    BY <2>1, <2>2
  <2>4. n - 1 \in T
    BY <2>3
  <2> QED BY <2>2, <2>3, <2>4
<1> QED BY <1>1, <1>2

-----------------------------------------------------------------------------
(* Statements and what they consist of. *)

(* A block ends at its first terminator, if it has one. *)
LEMMA FirstTerminatorIsFirst ==
  ASSUME NEW b, NEW S, b.statements \in Seq(S)
  PROVE  \/ FirstTerminator(b) = 0 /\ ~HasJump(b.statements, 1)
         \/ /\ FirstTerminator(b) \in 1 .. Len(b.statements)
            /\ b.statements[FirstTerminator(b)].kind \in Terminators
            /\ \A l \in 1 .. FirstTerminator(b) - 1 : b.statements[l].kind \notin Terminators
<1> DEFINE I == {i \in 1 .. Len(b.statements) : b.statements[i].kind \in Terminators}
<1>1. FirstTerminator(b) = IF I # {} THEN Min(I) ELSE 0
  BY DEF FirstTerminator, SelectInSeq
<1>2. CASE I = {}
  BY <1>1, <1>2 DEF HasJump
<1>3. CASE I # {}
  <2>1. I \subseteq Nat
    OBVIOUS
  <2>2. Min(I) \in I /\ \A y \in I : Min(I) <= y
    <3>1. \E x \in I : \A y \in I : x <= y
      <4> HIDE DEF I
      <4> QED BY <1>3, <2>1, LeastNumber
    <3> HIDE DEF I
    <3> QED BY <3>1 DEF Min
  <2>3. FirstTerminator(b) \in I /\ \A y \in I : FirstTerminator(b) <= y
    BY <1>1, <1>3, <2>2
  <2>4. ASSUME NEW l \in 1 .. FirstTerminator(b) - 1
        PROVE  b.statements[l].kind \notin Terminators
    <3>1. FirstTerminator(b) \in Nat /\ Len(b.statements) \in Nat
      BY <2>3
    <3>2. l \in 1 .. Len(b.statements) /\ ~(FirstTerminator(b) <= l)
      BY <2>3, <3>1
    <3> QED BY <2>3, <3>2
  <2> QED BY <2>3, <2>4
<1> QED BY <1>2, <1>3

(* The statements of a block that code is generated for. *)
LEMMA OwnIsUpto ==
  ASSUME NEW b, NEW S, b.statements \in Seq(S), b.expects \in BOOLEAN
  PROVE  /\ Own(b) = IF b.expects THEN {} ELSE Upto(b.statements, 1)
         /\ FirstTerminator(b) # 0 <=> HasJump(b.statements, 1)
<1> DEFINE k == FirstTerminator(b)
           n == Len(b.statements)
<1>1. n \in Nat /\ DOMAIN b.statements = 1 .. n
  OBVIOUS
<1>2. CASE k = 0
  <2>1. ~HasJump(b.statements, 1)
    BY <1>2, FirstTerminatorIsFirst
  <2>2. {j \in 1 .. n : \A l \in 1 .. j - 1 : b.statements[l].kind \notin Terminators} = 1 .. n
    BY <1>1, <2>1 DEF HasJump
  <2>3. Upto(b.statements, 1) = ToSet(b.statements)
    BY <1>1, <2>2 DEF Upto, ToSet
  <2> QED BY <1>2, <2>1, <2>3 DEF Own
<1>3. CASE k # 0
  <2>1. /\ k \in 1 .. n
        /\ b.statements[k].kind \in Terminators
        /\ \A l \in 1 .. k - 1 : b.statements[l].kind \notin Terminators
    BY <1>3, FirstTerminatorIsFirst
  <2>2. HasJump(b.statements, 1)
    BY <2>1 DEF HasJump
  <2>3. {j \in 1 .. n : \A l \in 1 .. j - 1 : b.statements[l].kind \notin Terminators} = 1 .. k
    <3>1. ASSUME NEW j \in 1 .. n, \A l \in 1 .. j - 1 : b.statements[l].kind \notin Terminators
          PROVE  j \in 1 .. k
      <4>1. ~(k \in 1 .. j - 1)
        BY <2>1, <3>1
      <4> QED BY <1>1, <2>1, <4>1
    <3>2. ASSUME NEW j \in 1 .. k
          PROVE  j \in 1 .. n /\ \A l \in 1 .. j - 1 : b.statements[l].kind \notin Terminators
      BY <1>1, <2>1
    <3> QED BY <3>1, <3>2
  <2>4. Upto(b.statements, 1) = {b.statements[i] : i \in 1 .. k}
    BY <2>3 DEF Upto
  <2> QED BY <1>3, <2>2, <2>4 DEF Own
<1> QED BY <1>2, <1>3

(* Layers is what its recursive definition says. *)
LEMMA LayersDef ==
  ASSUME NEW b, NEW kinds
  PROVE  \A n \in 0 .. Depth :
           Layers(b, kinds)[n] =
             IF n = 0 THEN Own(b) ELSE Below(Layers(b, kinds)[n - 1], kinds)
<1> DEFINE Next1(F, n) == IF n = 0 THEN Own(b) ELSE Below(F[n - 1], kinds)
           Solves(F, m) == \A n \in 0 .. m : F[n] = Next1(F, n)
           T == {m \in Nat : \E F : Solves(F, m)}
<1>1. Depth \in Nat
  BY ProgramsAssumption
<1>2. 0 \in T
  <2> DEFINE F0 == [n \in {0} |-> Own(b)]
  <2>1. Solves(F0, 0)
    OBVIOUS
  <2> QED BY <2>1
<1>3. ASSUME NEW m \in Nat, m \in T PROVE m + 1 \in T
  <2>1. PICK F : Solves(F, m)
    BY <1>3
  <2> DEFINE G == [n \in 0 .. m + 1 |-> IF n <= m THEN F[n] ELSE Below(F[m], kinds)]
  <2>2. ASSUME NEW n \in 0 .. m + 1 PROVE G[n] = Next1(G, n)
    <3>1. CASE n <= m
      <4>1. G[n] = F[n] /\ F[n] = Next1(F, n)
        BY <2>1, <3>1
      <4>2. n # 0 => n - 1 \in 0 .. m + 1 /\ n - 1 <= m
        BY <3>1
      <4>3. n # 0 => G[n - 1] = F[n - 1]
        BY <4>2
      <4>4. n # 0 => Below(G[n - 1], kinds) = Below(F[n - 1], kinds)
        BY <4>3
      <4> QED BY <4>1, <4>4
    <3>2. CASE ~(n <= m)
      <4>1. n = m + 1 /\ n # 0 /\ n - 1 = m
        BY <3>2
      <4>2. G[n - 1] = F[m]
        BY <4>1
      <4>3. G[n] = Below(F[m], kinds)
        BY <3>2
      <4>4. Below(G[n - 1], kinds) = Below(F[m], kinds)
        BY <4>2
      <4> QED BY <4>1, <4>3, <4>4
    <3> QED BY <3>1, <3>2
  <2>3. Solves(G, m + 1)
    BY <2>2
  <2>4. \E H : Solves(H, m + 1)
    <3> HIDE DEF G, Solves
    <3> QED BY <2>3
  <2> QED BY <2>4
<1>4. Depth \in T
  <2>1. Nat \subseteq T
    <3> HIDE DEF T
    <3> QED BY <1>2, <1>3, SetInduction
  <2> QED BY <1>1, <2>1
<1>5. PICK F : Solves(F, Depth)
  BY <1>4
<1> DEFINE H == [n \in 0 .. Depth |-> F[n]]
           Fix(f) == f = [n \in 0 .. Depth |-> IF n = 0 THEN Own(b) ELSE Below(f[n - 1], kinds)]
<1>6. Fix(H)
  <2>1. ASSUME NEW n \in 0 .. Depth
        PROVE  F[n] = IF n = 0 THEN Own(b) ELSE Below(H[n - 1], kinds)
    <3>1. n # 0 => n - 1 \in 0 .. Depth
      BY <1>1
    <3>2. n # 0 => H[n - 1] = F[n - 1]
      BY <3>1
    <3>3. n # 0 => Below(H[n - 1], kinds) = Below(F[n - 1], kinds)
      BY <3>2
    <3> QED BY <1>5, <3>3
  <2> QED BY <2>1
<1>7. Layers(b, kinds) = CHOOSE f : Fix(f)
  BY DEF Layers
<1>8. Fix(Layers(b, kinds))
  <2> HIDE DEF Fix
  <2> QED BY <1>6, <1>7
<1> QED BY <1>8

(* A set of statements from which statements of these kinds do not lead. *)
Closed(S, kinds) == \A s \in S : s.kind \in kinds => \A p \in Parts(s) : Own(p) \subseteq S

(* Nothing is left out when the last layer is empty. *)
LEMMA WithinIsClosed ==
  ASSUME NEW b, NEW kinds, Layers(b, kinds)[Depth] = {}
  PROVE  Own(b) \subseteq Within(b, kinds) /\ Closed(Within(b, kinds), kinds)
<1>1. Depth \in Nat
  BY ProgramsAssumption
<1>2. Layers(b, kinds)[0] = Own(b)
  BY <1>1, LayersDef
<1>3. ASSUME NEW s \in Within(b, kinds), s.kind \in kinds, NEW p \in Parts(s)
      PROVE  Own(p) \subseteq Within(b, kinds)
  <2>1. PICK n \in 0 .. Depth : s \in Layers(b, kinds)[n]
    BY DEF Within
  <2>2. n # Depth
    BY <2>1
  <2>3. n + 1 \in 0 .. Depth /\ n + 1 # 0 /\ (n + 1) - 1 = n
    BY <1>1, <2>2
  <2>4. Layers(b, kinds)[n + 1] = Below(Layers(b, kinds)[n], kinds)
    BY <2>3, LayersDef
  <2>5. Own(p) \subseteq Below(Layers(b, kinds)[n], kinds)
    BY <1>3, <2>1 DEF Below
  <2> QED BY <2>3, <2>4, <2>5 DEF Within
<1> QED BY <1>1, <1>2, <1>3 DEF Within, Closed

(* Fewer kinds lead to fewer statements. *)
LEMMA LayersAscend ==
  ASSUME NEW b, NEW few, NEW many, few \subseteq many
  PROVE  \A n \in 0 .. Depth : Layers(b, few)[n] \subseteq Layers(b, many)[n]
<1> DEFINE T == {n \in Nat : n <= Depth => Layers(b, few)[n] \subseteq Layers(b, many)[n]}
<1>1. Depth \in Nat
  BY ProgramsAssumption
<1>2. 0 \in T
  BY <1>1, LayersDef
<1>3. ASSUME NEW n \in Nat, n \in T PROVE n + 1 \in T
  <2> SUFFICES ASSUME n + 1 <= Depth
               PROVE  Layers(b, few)[n + 1] \subseteq Layers(b, many)[n + 1]
    OBVIOUS
  <2>1. n + 1 \in 0 .. Depth /\ n + 1 # 0 /\ (n + 1) - 1 = n /\ n <= Depth
    BY <1>1
  <2>2. Layers(b, few)[n] \subseteq Layers(b, many)[n]
    BY <1>3, <2>1
  <2>3. /\ Layers(b, few)[n + 1] = Below(Layers(b, few)[n], few)
        /\ Layers(b, many)[n + 1] = Below(Layers(b, many)[n], many)
    BY <2>1, LayersDef
  <2>4. ASSUME NEW A, NEW B, A \subseteq B PROVE Below(A, few) \subseteq Below(B, many)
    BY <2>4 DEF Below
  <2> QED BY <2>2, <2>3, <2>4
<1>4. Nat \subseteq T
  <2> HIDE DEF T
  <2> QED BY <1>2, <1>3, SetInduction
<1> QED BY <1>1, <1>4

(* The implicit return comes behind the statements of the program. *)
LEMMA WithReturnOwn ==
  ASSUME prog \in Programs
  PROVE  Own(WithReturn(prog)) \subseteq Own(prog) \cup {Return(NoVar)}
<1>1. prog \in Blocks /\ ~prog.expects
  BY ProgramsAssumption
<1>2. Own(WithReturn(prog)) \subseteq Own(prog) \cup {Return(NoVar)}
  <2>1. CASE WithReturn(prog) = prog
    BY <2>1
  <2>2. CASE WithReturn(prog) = [prog EXCEPT !.statements = Append(@, Return(NoVar))]
    <3> DEFINE s == prog.statements
               w == Append(s, Return(NoVar))
               q == WithReturn(prog)
    <3>1. s \in Seq(Statement) /\ w \in Seq(Statement) /\ Return(NoVar) \in Statement
      BY <1>1, StatementAssumption DEF Blocks
    <3>2. q.statements = w /\ q.expects = FALSE
      BY <1>1, <2>2 DEF Blocks
    <3>3. Own(q) = Upto(w, 1)
      BY <3>1, <3>2, OwnIsUpto
    <3>4. Own(prog) = Upto(s, 1)
      BY <1>1, <3>1, OwnIsUpto DEF Blocks
    <3>5. ASSUME NEW j \in 1 .. Len(w), \A l \in 1 .. j - 1 : w[l].kind \notin Terminators
          PROVE  w[j] \in Upto(s, 1) \cup {Return(NoVar)}
      <4>1. Len(w) = Len(s) + 1 /\ w[Len(s) + 1] = Return(NoVar)
        BY <3>1
      <4>2. \A l \in 1 .. Len(s) : w[l] = s[l]
        BY <3>1
      <4>3. CASE j = Len(s) + 1
        BY <4>1, <4>3
      <4>4. CASE j # Len(s) + 1
        <5>1. j \in 1 .. Len(s) /\ \A l \in 1 .. j - 1 : l \in 1 .. Len(s)
          BY <3>1, <4>1, <4>4
        <5>2. \A l \in 1 .. j - 1 : s[l].kind \notin Terminators
          BY <3>5, <4>2, <5>1
        <5> QED BY <4>2, <5>1, <5>2 DEF Upto
      <4> QED BY <4>3, <4>4
    <3>6. Upto(w, 1) \subseteq Upto(s, 1) \cup {Return(NoVar)}
      <4> HIDE DEF w, s
      <4> QED BY <3>5 DEF Upto
    <3> QED BY <3>3, <3>4, <3>6
  <2> QED BY <2>1, <2>2 DEF WithReturn
<1> QED BY <1>2

(* From a program, All and Outside are where its statements lead. *)
LEMMA ProgramIsClosed ==
  ASSUME prog \in Programs
  PROVE  /\ Closed(All, {"if", "while", "for", "block"})
         /\ Closed(Outside, {"if", "for", "block"})
         /\ Own(WithReturn(prog)) \subseteq All \cap Outside
<1> DEFINE every == {"if", "while", "for", "block"}
           other == {"if", "for", "block"}
<1>1. prog \in Blocks /\ ~prog.expects /\ Layers(prog, every)[Depth] = {} /\ Depth \in Nat
  BY ProgramsAssumption
<1>2. Layers(prog, other)[Depth] = {}
  <2>1. other \subseteq every /\ Depth \in 0 .. Depth
    BY <1>1
  <2>2. Layers(prog, other)[Depth] \subseteq Layers(prog, every)[Depth]
    BY <2>1, LayersAscend
  <2> QED BY <1>1, <2>2
<1>3. Own(prog) \subseteq Generated(prog) /\ Closed(Generated(prog), every)
  BY <1>1, WithinIsClosed DEF Generated
<1>4. Own(prog) \subseteq OutsideLoops(prog) /\ Closed(OutsideLoops(prog), other)
  BY <1>2, WithinIsClosed DEF OutsideLoops
<1>5. Return(NoVar).kind \notin every /\ Return(NoVar).kind \notin other
  BY DEF Return
<1>6. Closed(All, every) /\ Closed(Outside, other)
  BY <1>3, <1>4, <1>5 DEF Closed, All, Outside
<1>7. Own(WithReturn(prog)) \subseteq Own(prog) \cup {Return(NoVar)}
  BY WithReturnOwn
<1> QED BY <1>3, <1>4, <1>6, <1>7 DEF All, Outside

-----------------------------------------------------------------------------
(* Stacks. *)

(* A stack with x on top of r. *)
LEMMA PushIndices ==
  ASSUME NEW S, NEW x \in S, NEW r \in Seq(S)
  PROVE  /\ <<x>> \o r \in Seq(S) /\ <<x>> \o r # <<>>
         /\ Len(<<x>> \o r) = Len(r) + 1
         /\ Head(<<x>> \o r) = x /\ Tail(<<x>> \o r) = r
         /\ (<<x>> \o r)[1] = x
         /\ \A i \in 1 .. Len(r) : (<<x>> \o r)[i + 1] = r[i]
         /\ Under(<<x>> \o r, 1) = r
         /\ \A i \in 1 .. Len(r) : Under(<<x>> \o r, i + 1) = Under(r, i)
<1> DEFINE s == <<x>> \o r
<1>1. s \in Seq(S) /\ s # <<>> /\ Len(s) = Len(r) + 1 /\ s[1] = x
  OBVIOUS
<1>2. \A i \in 1 .. Len(r) : s[i + 1] = r[i]
  OBVIOUS
<1>3. Head(s) = x /\ Tail(s) = r
  OBVIOUS
<1>4. Under(s, 1) = r
  <2>1. Under(s, 1) = SubSeq(s, 2, Len(r) + 1)
    BY <1>1 DEF Under
  <2>2. /\ SubSeq(s, 2, Len(r) + 1) \in Seq(S)
        /\ Len(SubSeq(s, 2, Len(r) + 1)) = Len(r)
        /\ \A i \in 1 .. Len(r) : SubSeq(s, 2, Len(r) + 1)[i] = s[i + 1]
    <3> HIDE DEF s
    <3> QED BY <1>1
  <2> HIDE DEF s
  <2> QED BY <1>2, <2>1, <2>2, SMTT(30)
<1>5. ASSUME NEW i \in 1 .. Len(r) PROVE Under(s, i + 1) = Under(r, i)
  <2>1. Under(s, i + 1) = SubSeq(s, i + 2, Len(r) + 1) /\ Under(r, i) = SubSeq(r, i + 1, Len(r))
    BY <1>1 DEF Under
  <2>2. /\ SubSeq(s, i + 2, Len(r) + 1) \in Seq(S)
        /\ Len(SubSeq(s, i + 2, Len(r) + 1)) = Len(r) - i
        /\ \A k \in 1 .. Len(r) - i : SubSeq(s, i + 2, Len(r) + 1)[k] = s[i + k + 1]
    <3> HIDE DEF s
    <3> QED BY <1>1
  <2>3. /\ SubSeq(r, i + 1, Len(r)) \in Seq(S)
        /\ Len(SubSeq(r, i + 1, Len(r))) = Len(r) - i
        /\ \A k \in 1 .. Len(r) - i : SubSeq(r, i + 1, Len(r))[k] = r[i + k]
    OBVIOUS
  <2>4. \A k \in 1 .. Len(r) - i : i + k \in 1 .. Len(r)
    OBVIOUS
  <2> HIDE DEF s
  <2> QED BY <1>2, <2>1, <2>2, <2>3, <2>4
<1> HIDE DEF s
<1> QED BY <1>1, <1>2, <1>3, <1>4, <1>5 DEF s

(* Any stack but the empty one has a top and a rest. *)
LEMMA PopIndices ==
  ASSUME NEW S, NEW s \in Seq(S), s # <<>>
  PROVE  /\ Head(s) \in S /\ Tail(s) \in Seq(S) /\ Len(Tail(s)) = Len(s) - 1
         /\ s = <<Head(s)>> \o Tail(s)
<1>1. Len(s) \in Nat /\ Len(s) # 0
  OBVIOUS
<1>2. Head(s) = s[1] /\ Head(s) \in S
  BY <1>1
<1>3. /\ Tail(s) \in Seq(S) /\ Len(Tail(s)) = Len(s) - 1
      /\ \A i \in 1 .. Len(s) - 1 : Tail(s)[i] = s[i + 1]
  BY <1>1
<1> DEFINE q == <<Head(s)>> \o Tail(s)
<1>4. q \in Seq(S) /\ Len(q) = Len(s) /\ q[1] = s[1]
  BY <1>1, <1>2, <1>3
<1>5. \A i \in 1 .. Len(s) - 1 : q[i + 1] = Tail(s)[i]
  BY <1>2, <1>3
<1>6. ASSUME NEW i \in 1 .. Len(s) PROVE q[i] = s[i]
  <2>1. CASE i = 1
    BY <1>4, <2>1
  <2>2. CASE i # 1
    <3>1. i - 1 \in 1 .. Len(s) - 1 /\ (i - 1) + 1 = i
      BY <1>1, <2>2
    <3> HIDE DEF q
    <3> QED BY <1>3, <1>5, <3>1
  <2> QED BY <2>1, <2>2
<1>7. q = s
  <2> HIDE DEF q
  <2> QED BY <1>4, <1>6
<1> QED BY <1>2, <1>3, <1>7

(* What waits, and whether a loop goes on, with x on top of r. *)
LEMMA PushWaiting ==
  ASSUME NEW S, NEW x \in S, NEW r \in Seq(S)
  PROVE  /\ AllWaiting(<<x>> \o r) = Waiting(x) \cup AllWaiting(r)
         /\ InLoop(<<x>> \o r) <=> IsLoop(x) \/ InLoop(r)
<1> DEFINE s == <<x>> \o r
<1>1. Len(s) = Len(r) + 1 /\ s[1] = x /\ Len(r) \in Nat
  BY PushIndices
<1>2. \A i \in 1 .. Len(r) : s[i + 1] = r[i]
  BY PushIndices
<1>3. \A i \in 1 .. Len(s) : i = 1 \/ (i - 1 \in 1 .. Len(r) /\ (i - 1) + 1 = i)
  BY <1>1
<1>4. \A i \in 1 .. Len(r) : i + 1 \in 1 .. Len(s)
  BY <1>1
<1>5. 1 \in 1 .. Len(s)
  BY <1>1
<1> HIDE DEF s
<1>6. AllWaiting(s) = Waiting(x) \cup AllWaiting(r)
  <2>1. ASSUME NEW i \in 1 .. Len(s) PROVE Waiting(s[i]) \subseteq Waiting(x) \cup AllWaiting(r)
    BY <1>1, <1>2, <1>3 DEF AllWaiting
  <2>2. ASSUME NEW i \in 1 .. Len(r) PROVE Waiting(r[i]) \subseteq AllWaiting(s)
    BY <1>2, <1>4 DEF AllWaiting
  <2>3. Waiting(x) \subseteq AllWaiting(s)
    BY <1>1, <1>5 DEF AllWaiting
  <2> QED BY <2>1, <2>2, <2>3 DEF AllWaiting
<1>7. InLoop(s) <=> IsLoop(x) \/ InLoop(r)
  BY <1>1, <1>2, <1>3, <1>4, <1>5 DEF InLoop
<1> QED BY <1>6, <1>7 DEF s

(* A stack is one whose top fits and whose rest is a stack. *)
LEMMA PushFits ==
  ASSUME NEW S, NEW x \in S, NEW r \in Seq(S)
  PROVE  Stack(<<x>> \o r) <=> Fits(x, r) /\ Stack(r)
<1> DEFINE s == <<x>> \o r
<1>1. Len(s) = Len(r) + 1 /\ s[1] = x /\ Len(r) \in Nat /\ Under(s, 1) = r
  BY PushIndices
<1>2. \A i \in 1 .. Len(r) : s[i + 1] = r[i] /\ Under(s, i + 1) = Under(r, i)
  BY PushIndices
<1>3. \A i \in 1 .. Len(s) : i = 1 \/ (i - 1 \in 1 .. Len(r) /\ (i - 1) + 1 = i)
  BY <1>1
<1>4. \A i \in 1 .. Len(r) : i + 1 \in 1 .. Len(s)
  BY <1>1
<1>5. 1 \in 1 .. Len(s)
  BY <1>1
<1> HIDE DEF s
<1>6. ASSUME Stack(s) PROVE Fits(x, r) /\ Stack(r)
  <2>1. Fits(x, r)
    BY <1>1, <1>5, <1>6 DEF Stack
  <2>2. ASSUME NEW i \in 1 .. Len(r) PROVE Fits(r[i], Under(r, i))
    BY <1>2, <1>4, <1>6 DEF Stack
  <2> QED BY <2>1, <2>2 DEF Stack
<1>7. ASSUME Fits(x, r), Stack(r) PROVE Stack(s)
  <2>1. ASSUME NEW i \in 1 .. Len(s) PROVE Fits(s[i], Under(s, i))
    <3>1. CASE i = 1
      BY <1>1, <1>7, <3>1
    <3>2. CASE i # 1
      <4>1. i - 1 \in 1 .. Len(r) /\ (i - 1) + 1 = i
        BY <1>3, <3>2
      <4>2. s[i] = r[i - 1] /\ Under(s, i) = Under(r, i - 1)
        BY <1>2, <4>1
      <4> QED BY <1>7, <4>1, <4>2 DEF Stack
    <3> QED BY <3>1, <3>2
  <2> QED BY <2>1 DEF Stack
<1> QED BY <1>6, <1>7 DEF s

-----------------------------------------------------------------------------
(* Types. *)

(* More blocks and temporaries take nothing away. *)
LEMMA TypesGrow ==
  ASSUME NEW n \in Nat, NEW m \in Nat, NEW t \in Nat, NEW u \in Nat, n <= m, t <= u
  PROVE  Instructions(n, t) \subseteq Instructions(m, u) /\ Task(n, t) \subseteq Task(m, u)
<1>1. 1 .. n \subseteq 1 .. m /\ 1 .. t \subseteq 1 .. u
  OBVIOUS
<1>2. 0 .. n - 3 \subseteq 0 .. m - 3 /\ 0 .. n \subseteq 0 .. m
  OBVIOUS
<1>3. Instructions(n, t) \subseteq Instructions(m, u)
  BY <1>1 DEF Instructions
<1>4. Frame(n, t) \subseteq Frame(m, u)
  BY <1>1, <1>2 DEF Frame
<1> QED BY <1>3, <1>4 DEF Task

(* The parts of a generator. *)
LEMMA GenFields ==
  ASSUME NEW g, GenTyped(g)
  PROVE  /\ g.temps \in Nat /\ Len(g.code) \in Nat /\ g.insert \in 1 .. Len(g.code)
         /\ g.todo \in Seq(Task(Len(g.code), g.temps))
         /\ g.code \in Seq(Seq(Instructions(Len(g.code), g.temps)))
         /\ g.prologue \in Seq(Assignments)
         /\ g.break \in 0 .. Len(g.code) /\ g.continue \in 0 .. Len(g.code)
         /\ g.aborted \in BOOLEAN
         /\ g = [todo |-> g.todo, code |-> g.code, insert |-> g.insert, prologue |-> g.prologue,
                 break |-> g.break, continue |-> g.continue, temps |-> g.temps,
                 aborted |-> g.aborted]
<1>1. g \in Generators(Len(g.code), g.temps) /\ g.temps \in Nat
  BY DEF GenTyped
<1>2. g.code \in Seq(Seq(Instructions(Len(g.code), g.temps)))
  BY <1>1 DEF Generators
<1>3. Len(g.code) \in Nat
  BY <1>2
<1> QED BY <1>1, <1>2, <1>3 DEF Generators

(* A record with these parts is a generator. *)
LEMMA MakeGen ==
  ASSUME NEW g, NEW n, n = Len(g.code),
         g.temps \in Nat, g.insert \in 1 .. n,
         g.todo \in Seq(Task(n, g.temps)),
         g.code \in Seq(Seq(Instructions(n, g.temps))),
         g.prologue \in Seq(Assignments),
         g.break \in 0 .. n, g.continue \in 0 .. n, g.aborted \in BOOLEAN,
         g = [todo |-> g.todo, code |-> g.code, insert |-> g.insert, prologue |-> g.prologue,
              break |-> g.break, continue |-> g.continue, temps |-> g.temps,
              aborted |-> g.aborted]
  PROVE  GenTyped(g)
BY DEF GenTyped, Generators

(* Two generators that differ in their code and insert point alone. *)
SameRest(g, h) ==
  /\ h.todo = g.todo /\ h.prologue = g.prologue /\ h.break = g.break
  /\ h.continue = g.continue /\ h.temps = g.temps /\ h.aborted = g.aborted

-----------------------------------------------------------------------------
(* What the builder does. *)

(* An instruction goes to the end of the block at the insert point. *)
LEMMA EmitTyped ==
  ASSUME NEW g, GenTyped(g), NEW i \in Instructions(Len(g.code), g.temps)
  PROVE  /\ GenTyped(Emit(g, i)) /\ SameRest(g, Emit(g, i))
         /\ Emit(g, i).insert = g.insert /\ Len(Emit(g, i).code) = Len(g.code)
         /\ Emit(g, i).code = [g.code EXCEPT ![g.insert] = Append(@, i)]
<1> DEFINE h == Emit(g, i)
           n == Len(g.code)
           I == Instructions(n, g.temps)
           c == [g.code EXCEPT ![g.insert] = Append(@, i)]
<1>1. /\ g.code \in Seq(Seq(I)) /\ g.insert \in 1 .. n /\ g.temps \in Nat
      /\ g = [todo |-> g.todo, code |-> g.code, insert |-> g.insert, prologue |-> g.prologue,
              break |-> g.break, continue |-> g.continue, temps |-> g.temps,
              aborted |-> g.aborted]
  BY GenFields
<1>2. h = [todo |-> g.todo, code |-> c, insert |-> g.insert, prologue |-> g.prologue,
           break |-> g.break, continue |-> g.continue, temps |-> g.temps,
           aborted |-> g.aborted]
  <2> HIDE DEF c
  <2>1. h = [g EXCEPT !.code = c]
    BY <1>1 DEF Emit, c
  <2> QED BY <1>1, <2>1
<1>3. g.code[g.insert] \in Seq(I)
  BY <1>1
<1>4. Append(g.code[g.insert], i) \in Seq(I)
  <2> HIDE DEF I
  <2>1. i \in I
    BY DEF I
  <2> QED BY <1>3, <2>1
<1>5. c \in Seq(Seq(I)) /\ Len(c) = n
  <2> HIDE DEF I
  <2> QED BY <1>1, <1>4
<1> HIDE DEF c, h
<1>6. /\ h.todo = g.todo /\ h.code = c /\ h.insert = g.insert /\ h.prologue = g.prologue
      /\ h.break = g.break /\ h.continue = g.continue /\ h.temps = g.temps
      /\ h.aborted = g.aborted
  BY <1>2
<1>7. GenTyped(h)
  BY <1>2, <1>5, <1>6, GenFields, MakeGen
<1> QED BY <1>5, <1>6, <1>7 DEF c, h, SameRest

(* The block at the insert point after Emit, and the others. *)
LEMMA EmitBlocks ==
  ASSUME NEW g, GenTyped(g), NEW i \in Instructions(Len(g.code), g.temps)
  PROVE  /\ Len(Emit(g, i).code[g.insert]) = Len(g.code[g.insert]) + 1
         /\ Emit(g, i).code[g.insert][Len(g.code[g.insert]) + 1] = i
         /\ \A k \in 1 .. Len(g.code[g.insert]) :
              Emit(g, i).code[g.insert][k] = g.code[g.insert][k]
         /\ \A b \in 1 .. Len(g.code) : b # g.insert => Emit(g, i).code[b] = g.code[b]
         /\ Len(g.code[g.insert]) \in Nat
         /\ Emit(g, i).code[g.insert] # <<>>
         /\ DOMAIN Emit(g, i).code[g.insert] = 1 .. Len(g.code[g.insert]) + 1
<1> DEFINE I == Instructions(Len(g.code), g.temps)
           q == g.code[g.insert]
<1>1. g.code \in Seq(Seq(I)) /\ g.insert \in 1 .. Len(g.code)
  BY GenFields
<1>2. q \in Seq(I) /\ i \in I
  BY <1>1
<1>3. Emit(g, i).code = [g.code EXCEPT ![g.insert] = Append(@, i)]
  BY EmitTyped
<1>4. Emit(g, i).code[g.insert] = Append(q, i)
  BY <1>1, <1>3
<1>5. \A b \in 1 .. Len(g.code) : b # g.insert => Emit(g, i).code[b] = g.code[b]
  BY <1>1, <1>3
<1> HIDE DEF I, q
<1>6. /\ Len(Append(q, i)) = Len(q) + 1 /\ Append(q, i)[Len(q) + 1] = i
      /\ \A k \in 1 .. Len(q) : Append(q, i)[k] = q[k]
      /\ Len(q) \in Nat /\ Append(q, i) # <<>>
      /\ DOMAIN Append(q, i) = 1 .. Len(q) + 1
  BY <1>2
<1> QED BY <1>4, <1>5, <1>6 DEF q

(* Any instruction that does not end the block leaves it open. *)
LEMMA EmitPlain ==
  ASSUME NEW g, GenTyped(g), NEW i \in Instructions(Len(g.code), g.temps), i.op \notin EndsBlock,
         NEW waiting, IsOpen(g), Settled(g, waiting)
  PROVE  IsOpen(Emit(g, i)) /\ Settled(Emit(g, i), waiting)
<1>1. Emit(g, i).insert = g.insert /\ Len(Emit(g, i).code) = Len(g.code)
  BY EmitTyped
<1>2. \A b \in 1 .. Len(g.code) : b # g.insert => Emit(g, i).code[b] = g.code[b]
  BY EmitBlocks
<1>3. IsOpen(Emit(g, i))
  <2> DEFINE q == g.code[g.insert]
             p == Emit(g, i).code[g.insert]
  <2>1. /\ Len(p) = Len(q) + 1 /\ p[Len(q) + 1] = i /\ Len(q) \in Nat
        /\ \A k \in 1 .. Len(q) : p[k] = q[k]
    BY EmitBlocks
  <2>2. \A k \in 1 .. Len(q) : q[k].op \notin EndsBlock
    BY DEF IsOpen, Open
  <2>3. ASSUME NEW k \in 1 .. Len(p) PROVE p[k].op \notin EndsBlock
    <3>1. CASE k = Len(q) + 1
      BY <2>1, <3>1
    <3>2. CASE k # Len(q) + 1
      <4>1. k \in 1 .. Len(q)
        BY <2>1, <3>2
      <4> QED BY <2>1, <2>2, <4>1
    <3> QED BY <3>1, <3>2
  <2> QED BY <1>1, <2>3 DEF IsOpen, Open
<1>4. Settled(Emit(g, i), waiting)
  <2> HIDE DEF IsOpen
  <2>1. g.insert \notin waiting
    BY DEF Settled
  <2> QED BY <1>1, <1>2, <2>1 DEF Settled
<1> QED BY <1>3, <1>4

(* An instruction that ends an open block completes it. *)
LEMMA EmitEnd ==
  ASSUME NEW g, GenTyped(g), NEW i \in Instructions(Len(g.code), g.temps), i.op \in EndsBlock,
         NEW waiting, IsOpen(g), Settled(g, waiting)
  PROVE  IsClosed(Emit(g, i)) /\ Settled(Emit(g, i), waiting)
<1>1. Emit(g, i).insert = g.insert /\ Len(Emit(g, i).code) = Len(g.code)
  BY EmitTyped
<1>2. \A b \in 1 .. Len(g.code) : b # g.insert => Emit(g, i).code[b] = g.code[b]
  BY EmitBlocks
<1>3. IsClosed(Emit(g, i))
  <2> DEFINE q == g.code[g.insert]
             p == Emit(g, i).code[g.insert]
  <2>1. /\ Len(p) = Len(q) + 1 /\ p[Len(q) + 1] = i /\ Len(q) \in Nat
        /\ \A k \in 1 .. Len(q) : p[k] = q[k]
        /\ p # <<>> /\ DOMAIN p = 1 .. Len(q) + 1
    BY EmitBlocks
  <2>2. \A k \in 1 .. Len(q) : q[k].op \notin EndsBlock
    BY DEF IsOpen, Open
  <2>3. ASSUME NEW k \in DOMAIN p PROVE p[k].op \in EndsBlock <=> k = Len(p)
    <3>1. CASE k = Len(q) + 1
      BY <2>1, <3>1
    <3>2. CASE k # Len(q) + 1
      <4>1. k \in 1 .. Len(q) /\ k # Len(p)
        BY <2>1, <3>2
      <4> QED BY <2>1, <2>2, <4>1
    <3> QED BY <3>1, <3>2
  <2> HIDE DEF p, q
  <2>4. Complete(p)
    BY <2>1, <2>3 DEF Complete
  <2> QED BY <1>1, <2>4 DEF IsClosed, p
<1>4. Settled(Emit(g, i), waiting)
  <2> HIDE DEF IsOpen
  <2>1. g.insert \notin waiting
    BY DEF Settled
  <2> QED BY <1>1, <1>2, <2>1 DEF Settled
<1> QED BY <1>3, <1>4

(* Only the code and the insert point matter to what is settled. *)
LEMMA SettledDependsOn ==
  ASSUME NEW g, NEW h, h.code = g.code, h.insert = g.insert
  PROVE  /\ IsOpen(h) <=> IsOpen(g)
         /\ IsClosed(h) <=> IsClosed(g)
         /\ \A waiting : Settled(h, waiting) <=> Settled(g, waiting)
         /\ Terminated(h) <=> Terminated(g)
BY DEF IsOpen, IsClosed, Settled, Terminated

(* One sequence behind another. *)
LEMMA ConcatFacts ==
  ASSUME NEW S, NEW a \in Seq(S), NEW b \in Seq(S)
  PROVE  /\ a \o b \in Seq(S) /\ Len(a \o b) = Len(a) + Len(b)
         /\ Len(a) \in Nat /\ Len(b) \in Nat
         /\ \A i \in 1 .. Len(a) : (a \o b)[i] = a[i]
         /\ \A i \in Len(a) + 1 .. Len(a) + Len(b) : (a \o b)[i] = b[i - Len(a)]
OBVIOUS

(* New blocks are empty, and wait. *)
LEMMA NewBlocksFacts ==
  ASSUME NEW g, GenTyped(g)
  PROVE  LET n == Len(g.code)
             h == NewBlocks(g, 3)
         IN  /\ GenTyped(h) /\ SameRest(g, h)
             /\ h.insert = g.insert /\ Len(h.code) = n + 3 /\ n \in Nat
             /\ \A b \in 1 .. n : h.code[b] = g.code[b]
             /\ \A b \in n + 1 .. n + 3 : h.code[b] = <<>>
<1> DEFINE n == Len(g.code)
           h == NewBlocks(g, 3)
           I == Instructions(n, g.temps)
           J == Instructions(n + 3, g.temps)
           e == [i \in 1 .. 3 |-> <<>>]
           c == g.code \o e
<1>1. /\ g.code \in Seq(Seq(I)) /\ g.insert \in 1 .. n /\ g.temps \in Nat /\ n \in Nat
      /\ g.todo \in Seq(Task(n, g.temps)) /\ g.break \in 0 .. n /\ g.continue \in 0 .. n
      /\ g = [todo |-> g.todo, code |-> g.code, insert |-> g.insert, prologue |-> g.prologue,
              break |-> g.break, continue |-> g.continue, temps |-> g.temps,
              aborted |-> g.aborted]
  BY GenFields
<1>2. h = [todo |-> g.todo, code |-> c, insert |-> g.insert, prologue |-> g.prologue,
           break |-> g.break, continue |-> g.continue, temps |-> g.temps,
           aborted |-> g.aborted]
  <2>1. h = [g EXCEPT !.code = c]
    BY DEF NewBlocks
  <2> HIDE DEF c, h
  <2> QED BY <1>1, <2>1
<1>3. I \subseteq J /\ Task(n, g.temps) \subseteq Task(n + 3, g.temps)
  <2>1. n + 3 \in Nat /\ n <= n + 3 /\ g.temps <= g.temps
    BY <1>1
  <2> HIDE DEF n
  <2> QED BY <1>1, <2>1, TypesGrow
<1>4. g.code \in Seq(Seq(J))
  <2> HIDE DEF I, J
  <2>1. Seq(I) \subseteq Seq(J)
    BY <1>3
  <2> QED BY <1>1, <2>1
<1>5. e \in Seq(Seq(J)) /\ Len(e) = 3
  <2> HIDE DEF J
  <2>1. <<>> \in Seq(J)
    OBVIOUS
  <2> QED BY <2>1
<1> DEFINE d == g.code
           K == Seq(J)
<1>6. /\ d \o e \in Seq(K) /\ Len(d \o e) = Len(d) + 3 /\ Len(d) \in Nat
      /\ \A b \in 1 .. Len(d) : (d \o e)[b] = d[b]
      /\ \A b \in Len(d) + 1 .. Len(d) + 3 : (d \o e)[b] = e[b - Len(d)]
  <2>1. d \in Seq(K) /\ e \in Seq(K)
    BY <1>4, <1>5
  <2>2. Len(e) = 3
    BY <1>4, <1>5
  <2> HIDE DEF n, h, I, J, c, d, e, K
  <2>3. /\ d \o e \in Seq(K) /\ Len(d \o e) = Len(d) + Len(e) /\ Len(d) \in Nat
        /\ \A b \in 1 .. Len(d) : (d \o e)[b] = d[b]
        /\ \A b \in Len(d) + 1 .. Len(d) + Len(e) : (d \o e)[b] = e[b - Len(d)]
    BY <2>1, ConcatFacts
  <2> QED BY <2>2, <2>3
<1>7. \A b \in Len(d) + 1 .. Len(d) + 3 : (d \o e)[b] = <<>>
  <2>1. \A b \in Len(d) + 1 .. Len(d) + 3 : b - Len(d) \in 1 .. 3
    <3>1. Len(d) \in Nat
      BY <1>6
    <3> HIDE DEF d
    <3> QED BY <3>1
  <2>2. \A k \in 1 .. 3 : e[k] = <<>>
    OBVIOUS
  <2> HIDE DEF d, e
  <2> QED BY <1>6, <2>1, <2>2
<1>8. /\ c \in Seq(Seq(J)) /\ Len(c) = n + 3
      /\ \A b \in 1 .. n : c[b] = g.code[b]
      /\ \A b \in n + 1 .. n + 3 : c[b] = <<>>
  <2> HIDE DEF e, J
  <2> QED BY <1>6, <1>7
<1> HIDE DEF c, h
<1>9. /\ h.todo = g.todo /\ h.code = c /\ h.insert = g.insert /\ h.prologue = g.prologue
      /\ h.break = g.break /\ h.continue = g.continue /\ h.temps = g.temps
      /\ h.aborted = g.aborted
  BY <1>2
<1>10. h.todo \in Seq(Task(n + 3, h.temps))
  <2> DEFINE A == Task(n, g.temps)
             B == Task(n + 3, g.temps)
  <2>1. g.todo \in Seq(A) /\ A \subseteq B
    BY <1>1, <1>3
  <2>2. g.todo \in Seq(B)
    <3> HIDE DEF A, B
    <3> QED BY <2>1
  <2> QED BY <1>9, <2>2
<1>11. h.insert \in 1 .. n + 3 /\ h.break \in 0 .. n + 3 /\ h.continue \in 0 .. n + 3
  BY <1>1, <1>9
<1>12. GenTyped(h)
  BY <1>1, <1>2, <1>8, <1>9, <1>10, <1>11, GenFields, MakeGen
<1> QED BY <1>1, <1>8, <1>9, <1>12 DEF h, SameRest

LEMMA NewBlocksSettled ==
  ASSUME NEW g, GenTyped(g), NEW waiting, Settled(g, waiting)
  PROVE  LET n == Len(g.code)
             h == NewBlocks(g, 3)
         IN  /\ Settled(h, {n + 1, n + 2, n + 3} \cup waiting)
             /\ {n + 1, n + 2, n + 3} \cap waiting = {}
             /\ IsOpen(h) <=> IsOpen(g)
<1> DEFINE n == Len(g.code)
           h == NewBlocks(g, 3)
<1>1. /\ h.insert = g.insert /\ Len(h.code) = n + 3 /\ n \in Nat
      /\ \A b \in 1 .. n : h.code[b] = g.code[b]
      /\ \A b \in n + 1 .. n + 3 : h.code[b] = <<>>
  BY NewBlocksFacts
<1>2. g.insert \in 1 .. n
  BY GenFields
<1>3. IsOpen(h) <=> IsOpen(g)
  BY <1>1, <1>2 DEF IsOpen
<1>4. waiting \subseteq 1 .. n /\ g.insert \notin waiting
  BY DEF Settled
<1>5. {n + 1, n + 2, n + 3} \cap waiting = {} /\ h.insert \notin {n + 1, n + 2, n + 3}
  BY <1>1, <1>2, <1>4
<1>6. {n + 1, n + 2, n + 3} = n + 1 .. n + 3
  BY <1>1
<1>7. {n + 1, n + 2, n + 3} \cup waiting \subseteq 1 .. Len(h.code)
  <2> HIDE DEF h, n
  <2> QED BY <1>1, <1>4
<1>8. ASSUME NEW b \in 1 .. Len(h.code)
      PROVE  /\ b \in {n + 1, n + 2, n + 3} \cup waiting => h.code[b] = <<>>
             /\ b \notin {n + 1, n + 2, n + 3} \cup waiting /\ b # h.insert => Complete(h.code[b])
  <2>1. CASE b \in 1 .. n
    <3>1. b \notin n + 1 .. n + 3 /\ h.code[b] = g.code[b]
      BY <1>1, <2>1
    <3> HIDE DEF h
    <3> QED BY <1>1, <1>6, <2>1, <3>1 DEF Settled
  <2>2. CASE b \notin 1 .. n
    <3>1. b \in n + 1 .. n + 3
      BY <1>1, <2>2
    <3> HIDE DEF h, n
    <3> QED BY <1>1, <1>6, <3>1
  <2> QED BY <2>1, <2>2
<1>9. Settled(h, {n + 1, n + 2, n + 3} \cup waiting)
  <2> HIDE DEF h, n
  <2> QED BY <1>1, <1>4, <1>5, <1>7, <1>8 DEF Settled
<1> QED BY <1>3, <1>5, <1>9

LEMMA SetInsertPointTyped ==
  ASSUME NEW g, GenTyped(g), NEW b \in 1 .. Len(g.code)
  PROVE  /\ GenTyped(SetInsertPoint(g, b)) /\ SameRest(g, SetInsertPoint(g, b))
         /\ SetInsertPoint(g, b).insert = b /\ SetInsertPoint(g, b).code = g.code
<1> DEFINE h == SetInsertPoint(g, b)
<1>1. h = [todo |-> g.todo, code |-> g.code, insert |-> b, prologue |-> g.prologue,
           break |-> g.break, continue |-> g.continue, temps |-> g.temps,
           aborted |-> g.aborted]
  <2>1. g = [todo |-> g.todo, code |-> g.code, insert |-> g.insert, prologue |-> g.prologue,
             break |-> g.break, continue |-> g.continue, temps |-> g.temps,
             aborted |-> g.aborted]
    BY GenFields
  <2>2. h = [g EXCEPT !.insert = b]
    BY DEF SetInsertPoint
  <2> HIDE DEF h
  <2> QED BY <2>1, <2>2
<1> HIDE DEF h
<1>2. /\ h.todo = g.todo /\ h.code = g.code /\ h.insert = b /\ h.prologue = g.prologue
      /\ h.break = g.break /\ h.continue = g.continue /\ h.temps = g.temps
      /\ h.aborted = g.aborted
  BY <1>1
<1>3. GenTyped(h)
  BY <1>1, <1>2, GenFields, MakeGen
<1> QED BY <1>2, <1>3 DEF h, SameRest

(* From a complete block the insert point goes to one that waits. *)
LEMMA MoveOn ==
  ASSUME NEW g, GenTyped(g), NEW b, NEW waiting, b \in waiting,
         IsClosed(g), Settled(g, waiting)
  PROVE  /\ IsOpen(SetInsertPoint(g, b)) /\ Settled(SetInsertPoint(g, b), waiting \ {b})
         /\ b \in 1 .. Len(g.code)
<1>1. b \in 1 .. Len(g.code) /\ g.code[b] = <<>> /\ b # g.insert
  BY DEF Settled
<1>2. SetInsertPoint(g, b).insert = b /\ SetInsertPoint(g, b).code = g.code
  BY <1>1, SetInsertPointTyped
<1>3. IsOpen(SetInsertPoint(g, b))
  BY <1>1, <1>2 DEF IsOpen, Open
<1>4. ASSUME NEW a \in 1 .. Len(g.code)
      PROVE  /\ a \in waiting \ {b} => g.code[a] = <<>>
             /\ a \notin waiting \ {b} /\ a # b => Complete(g.code[a])
  BY DEF Settled, IsClosed
<1>5. Settled(SetInsertPoint(g, b), waiting \ {b})
  <2> HIDE DEF IsClosed
  <2>1. waiting \ {b} \subseteq 1 .. Len(g.code)
    BY DEF Settled
  <2> QED BY <1>2, <1>4, <2>1 DEF Settled
<1> QED BY <1>1, <1>3, <1>5

(* A block that is not terminated yet gets its branch. *)
LEMMA BranchTyped ==
  ASSUME NEW g, GenTyped(g), NEW b \in 1 .. Len(g.code)
  PROVE  /\ GenTyped(BrUnlessTerminated(g, b)) /\ SameRest(g, BrUnlessTerminated(g, b))
         /\ BrUnlessTerminated(g, b).insert = g.insert
         /\ Len(BrUnlessTerminated(g, b).code) = Len(g.code)
<1>1. Br(b) \in Instructions(Len(g.code), g.temps)
  BY DEF Instructions, Br
<1>2. CASE Terminated(g)
  BY <1>2 DEF BrUnlessTerminated, SameRest
<1>3. CASE ~Terminated(g)
  BY <1>1, <1>3, EmitTyped DEF BrUnlessTerminated
<1> QED BY <1>2, <1>3

LEMMA BranchSettled ==
  ASSUME NEW g, GenTyped(g), NEW b \in 1 .. Len(g.code), NEW waiting,
         IsOpen(g) \/ IsClosed(g), Settled(g, waiting)
  PROVE  IsClosed(BrUnlessTerminated(g, b)) /\ Settled(BrUnlessTerminated(g, b), waiting)
<1> DEFINE q == g.code[g.insert]
<1>1. Br(b) \in Instructions(Len(g.code), g.temps) /\ Br(b).op \in EndsBlock
  BY DEF Instructions, Br, EndsBlock
<1>2. Len(q) \in Nat /\ (q # <<>> => Len(q) # 0) /\ DOMAIN q = 1 .. Len(q)
  <2>1. q \in Seq(Instructions(Len(g.code), g.temps))
    BY GenFields
  <2> HIDE DEF q
  <2> QED BY <2>1
<1>3. CASE IsClosed(g)
  <2>1. q # <<>> /\ \A i \in DOMAIN q : q[i].op \in EndsBlock <=> i = Len(q)
    BY <1>3 DEF IsClosed, Complete
  <2>2. Len(q) \in DOMAIN q
    BY <1>2, <2>1
  <2>3. Terminated(g)
    BY <2>1, <2>2 DEF Terminated, Last
  <2> QED BY <1>3, <2>3 DEF BrUnlessTerminated
<1>4. CASE IsOpen(g)
  <2>1. ~Terminated(g)
    <3>1. SUFFICES ASSUME Terminated(g) PROVE FALSE
      OBVIOUS
    <3>2. q # <<>> /\ q[Len(q)].op \in EndsBlock
      BY <3>1 DEF Terminated, Last
    <3>3. Len(q) \in 1 .. Len(q)
      BY <1>2, <3>2
    <3> QED BY <1>4, <3>2, <3>3 DEF IsOpen, Open
  <2> QED BY <1>1, <1>4, <2>1, EmitEnd DEF BrUnlessTerminated
<1> QED BY <1>3, <1>4

(* An open block is not terminated. *)
LEMMA OpenIsNotTerminated ==
  ASSUME NEW g, GenTyped(g), IsOpen(g)
  PROVE  ~Terminated(g)
<1> DEFINE q == g.code[g.insert]
<1>1. Len(q) \in Nat /\ (q # <<>> => Len(q) # 0)
  <2>1. q \in Seq(Instructions(Len(g.code), g.temps))
    BY GenFields
  <2> HIDE DEF q
  <2> QED BY <2>1
<1>2. SUFFICES ASSUME Terminated(g) PROVE FALSE
  OBVIOUS
<1>3. q # <<>> /\ q[Len(q)].op \in EndsBlock
  BY <1>2 DEF Terminated, Last
<1>4. Len(q) \in 1 .. Len(q)
  BY <1>1, <1>3
<1> QED BY <1>3, <1>4 DEF IsOpen, Open

(* The prologues are steps, which end no block. *)
LEMMA PrologueTyped ==
  ASSUME NEW g, GenTyped(g)
  PROVE  /\ GenTyped(GeneratePrologue(g)) /\ SameRest(g, GeneratePrologue(g))
         /\ GeneratePrologue(g).insert = g.insert
         /\ Len(GeneratePrologue(g).code) = Len(g.code)
         /\ \A waiting : IsOpen(g) /\ Settled(g, waiting) =>
              IsOpen(GeneratePrologue(g)) /\ Settled(GeneratePrologue(g), waiting)
<1> DEFINE h == GeneratePrologue(g)
           n == Len(g.code)
           I == Instructions(n, g.temps)
           q == g.code[g.insert]
           a == [i \in DOMAIN g.prologue |-> Added(g.prologue[i])]
           c == [g.code EXCEPT ![g.insert] = @ \o a]
<1>1. /\ g.code \in Seq(Seq(I)) /\ g.insert \in 1 .. n /\ g.temps \in Nat
      /\ g.prologue \in Seq(Assignments)
      /\ g = [todo |-> g.todo, code |-> g.code, insert |-> g.insert, prologue |-> g.prologue,
              break |-> g.break, continue |-> g.continue, temps |-> g.temps,
              aborted |-> g.aborted]
  BY GenFields
<1>2. h = [todo |-> g.todo, code |-> c, insert |-> g.insert, prologue |-> g.prologue,
           break |-> g.break, continue |-> g.continue, temps |-> g.temps,
           aborted |-> g.aborted]
  <2>1. h = [g EXCEPT !.code = c]
    BY DEF GeneratePrologue
  <2> HIDE DEF c, h
  <2> QED BY <1>1, <2>1
<1>3. /\ DOMAIN g.prologue = 1 .. Len(g.prologue) /\ Len(g.prologue) \in Nat
      /\ \A i \in 1 .. Len(g.prologue) : g.prologue[i] \in Assignments
  BY <1>1
<1>4. \A s \in Assignments : Added(s) \in I /\ Added(s).op = "add"
  BY DEF Assignments, Added, Instructions
<1>5. a \in Seq(I) /\ Len(a) = Len(g.prologue) /\ \A i \in 1 .. Len(a) : a[i].op = "add"
  <2> HIDE DEF I
  <2> QED BY <1>3, <1>4
<1>6. q \in Seq(I)
  BY <1>1
<1>7. /\ q \o a \in Seq(I) /\ Len(q \o a) = Len(q) + Len(a) /\ Len(q) \in Nat /\ Len(a) \in Nat
      /\ \A i \in 1 .. Len(q) : (q \o a)[i] = q[i]
      /\ \A i \in Len(q) + 1 .. Len(q) + Len(a) : (q \o a)[i] = a[i - Len(q)]
  <2>1. a \in Seq(I)
    BY <1>5
  <2> HIDE DEF a, q, I
  <2> QED BY <1>6, <2>1, ConcatFacts
<1>8. c \in Seq(Seq(I)) /\ Len(c) = n /\ c[g.insert] = q \o a
      /\ \A b \in 1 .. n : b # g.insert => c[b] = g.code[b]
  <2> DEFINE d == g.code
             k == g.insert
             r == q \o a
             K == Seq(I)
  <2>1. d \in Seq(K) /\ k \in 1 .. Len(d) /\ r \in K
    BY <1>1, <1>7
  <2>2. c = [d EXCEPT ![k] = r]
    OBVIOUS
  <2> HIDE DEF d, k, r, K, c
  <2>3. c \in Seq(K) /\ Len(c) = Len(d) /\ c[k] = r
        /\ \A b \in 1 .. Len(d) : b # k => c[b] = d[b]
    BY <2>1, <2>2
  <2> QED BY <2>3 DEF d, k, r, K
<1> HIDE DEF c, h
<1>9. /\ h.todo = g.todo /\ h.code = c /\ h.insert = g.insert /\ h.prologue = g.prologue
      /\ h.break = g.break /\ h.continue = g.continue /\ h.temps = g.temps
      /\ h.aborted = g.aborted
  BY <1>2
<1>10. GenTyped(h) /\ SameRest(g, h)
  BY <1>2, <1>8, <1>9, GenFields, MakeGen DEF SameRest
<1>11. ASSUME NEW waiting, IsOpen(g), Settled(g, waiting)
       PROVE  IsOpen(h) /\ Settled(h, waiting)
  <2> DEFINE p == q \o a
  <2>1. \A i \in 1 .. Len(q) : q[i].op \notin EndsBlock
    BY <1>11 DEF IsOpen, Open
  <2>2. ASSUME NEW i \in 1 .. Len(p) PROVE p[i].op \notin EndsBlock
    <3>1. CASE i \in 1 .. Len(q)
      BY <1>7, <2>1, <3>1
    <3>2. CASE i \notin 1 .. Len(q)
      <4>1. i \in Len(q) + 1 .. Len(q) + Len(a) /\ i - Len(q) \in 1 .. Len(a)
        BY <1>7, <3>2
      <4>2. p[i].op = "add"
        <5> HIDE DEF a, q
        <5> QED BY <1>5, <1>7, <4>1
      <4> QED BY <4>2 DEF EndsBlock
    <3> QED BY <3>1, <3>2
  <2>3. IsOpen(h)
    <3> HIDE DEF a, q
    <3> QED BY <1>8, <1>9, <2>2 DEF IsOpen, Open
  <2>4. Settled(h, waiting)
    <3> HIDE DEF IsOpen, q
    <3>1. g.insert \notin waiting
      BY <1>11 DEF Settled
    <3> QED BY <1>8, <1>9, <1>11, <3>1 DEF Settled
  <2> QED BY <2>3, <2>4
<1>12. h.insert = g.insert /\ Len(h.code) = Len(g.code)
  BY <1>8, <1>9
<1> QED BY <1>10, <1>11, <1>12 DEF h

-----------------------------------------------------------------------------
(* Nodes and frames by their kind. *)

NodeKinds ==
  {"assign", "declaration", "call", "return", "break", "continue", "block", "if", "while", "for"}

(* What is known of a node of some kind. *)
LEMMA NodeParts ==
  ASSUME NEW x \in Node
  PROVE  /\ x.kind \in NodeKinds
         /\ x.kind = "block" => x \in Blocks
         /\ x.kind = "if" => x.condition \in Condition /\ x.then \in Blocks /\ x.else \in Blocks
         /\ x.kind = "while" =>
              x.condition \in Condition /\ x.body \in Blocks /\ x.prologue \in Seq(Assignments)
         /\ x.kind = "for" => desugar(x) \in Blocks
         /\ x.kind = "return" => x.var \in Var \cup {NoVar}
         /\ x.kind = "declaration" => x.var \in Var /\ x.value \in Integer
         /\ x.kind = "assign" => x.var \in Var /\ x.by \in Int
         /\ x.kind = "call" => x.id \in STRING /\ x.var \in Var
<1>1. x.kind \in NodeKinds
  BY DEF Node, Simple, Compound, NodeKinds, Blocks, Assignments, ForLoops
<1>2. x.kind = "block" => x \in Blocks
  BY DEF Node, Simple, Compound, Assignments, ForLoops
<1>3. x.kind = "if" => x.condition \in Condition /\ x.then \in Blocks /\ x.else \in Blocks
  <2>1. x.kind = "if" => x \in [kind : {"if"}, condition : Condition, then : Blocks, else : Blocks]
    BY DEF Node, Simple, Compound, Assignments, ForLoops, Blocks
  <2> QED BY <2>1
<1>4. x.kind = "while" =>
        x.condition \in Condition /\ x.body \in Blocks /\ x.prologue \in Seq(Assignments)
  <2>1. x.kind = "while" =>
          x \in [kind : {"while"}, condition : Condition, body : Blocks, prologue : Seq(Assignments)]
    BY DEF Node, Simple, Compound, Assignments, ForLoops, Blocks
  <2> QED BY <2>1
<1>5. x.kind = "for" => desugar(x) \in Blocks
  <2>1. x.kind = "for" => x \in {s \in ForLoops : desugar(s) \in Blocks}
    BY DEF Node, Simple, Compound, Assignments, Blocks
  <2> QED BY <2>1
<1>6. x.kind = "return" => x.var \in Var \cup {NoVar}
  BY DEF Node, Simple, Compound, Assignments, ForLoops, Blocks
<1>7. x.kind = "declaration" => x.var \in Var /\ x.value \in Integer
  BY DEF Node, Simple, Compound, Assignments, ForLoops, Blocks
<1>8. x.kind = "assign" => x.var \in Var /\ x.by \in Int
  BY DEF Node, Simple, Compound, Assignments, ForLoops, Blocks
<1>9. x.kind = "call" => x.id \in STRING /\ x.var \in Var
  BY DEF Node, Simple, Compound, Assignments, ForLoops, Blocks
<1> QED BY <1>1, <1>2, <1>3, <1>4, <1>5, <1>6, <1>7, <1>8, <1>9

FrameKinds ==
  {"statements", "condition", "lhsDone", "rhsDone", "ifDecided", "thenDone", "elseDone",
   "whileDecided", "bodyDone"}

(* What is known of a frame of some kind. *)
LEMMA FrameParts ==
  ASSUME NEW n, NEW t, NEW x \in Frame(n, t)
  PROVE  /\ x.kind \in FrameKinds
         /\ x.kind = "statements" =>
              x \in [kind : {"statements"}, statements : Seq(Statement), index : Nat \ {0}]
         /\ x.kind = "condition" => x.condition \in Condition
         /\ x.kind \in {"lhsDone", "rhsDone"} =>
              x \in [kind : {"lhsDone", "rhsDone"}, condition : Junctions,
                     blocks : 0 .. n - 3, temp : 1 .. t]
         /\ x.kind = "ifDecided" => x.then \in Blocks /\ x.else \in Blocks
         /\ x.kind = "thenDone" => x.else \in Blocks /\ x.blocks \in 0 .. n - 3
         /\ x.kind = "elseDone" => x.blocks \in 0 .. n - 3
         /\ x.kind \in {"whileDecided", "bodyDone"} =>
              x \in [kind : {"whileDecided", "bodyDone"}, body : Blocks, blocks : 0 .. n - 3,
                     prologue : Seq(Assignments), break : 0 .. n, continue : 0 .. n]
<1>1. x.kind \in FrameKinds
  BY DEF Frame, FrameKinds
<1>2. x.kind = "statements" =>
        x \in [kind : {"statements"}, statements : Seq(Statement), index : Nat \ {0}]
  BY DEF Frame
<1>3. x.kind = "condition" => x.condition \in Condition
  <2>1. x.kind = "condition" => x \in [kind : {"condition"}, condition : Condition]
    BY DEF Frame
  <2> QED BY <2>1
<1>4. x.kind \in {"lhsDone", "rhsDone"} =>
        x \in [kind : {"lhsDone", "rhsDone"}, condition : Junctions, blocks : 0 .. n - 3,
               temp : 1 .. t]
  BY DEF Frame
<1>5. x.kind = "ifDecided" => x.then \in Blocks /\ x.else \in Blocks
  BY DEF Frame
<1>6. x.kind = "thenDone" => x.else \in Blocks /\ x.blocks \in 0 .. n - 3
  BY DEF Frame
<1>7. x.kind = "elseDone" => x.blocks \in 0 .. n - 3
  BY DEF Frame
<1>8. x.kind \in {"whileDecided", "bodyDone"} =>
        x \in [kind : {"whileDecided", "bodyDone"}, body : Blocks, blocks : 0 .. n - 3,
               prologue : Seq(Assignments), break : 0 .. n, continue : 0 .. n]
  BY DEF Frame
<1> QED BY <1>1, <1>2, <1>3, <1>4, <1>5, <1>6, <1>7, <1>8

LEMMA TaskIsNodeOrFrame ==
  ASSUME NEW n, NEW t, NEW x \in Task(n, t)
  PROVE  /\ x.kind \in NodeKinds => x \in Node
         /\ x.kind \in FrameKinds => x \in Frame(n, t)
         /\ x.kind \in NodeKinds \cup FrameKinds
<1>1. x \in Node \/ x \in Frame(n, t)
  BY DEF Task
<1>2. NodeKinds \cap FrameKinds = {}
  BY DEF NodeKinds, FrameKinds
<1> QED BY <1>1, <1>2, NodeParts, FrameParts

(* Nodes and conditions wait for nothing and are not about loops. *)
LEMMA NodesAreNoFrames ==
  ASSUME NEW x, x.kind \in NodeKinds \cup {"condition", "statements"}
  PROVE  Waiting(x) = {} /\ ~Ends(x) /\ ~IsLoop(x)
BY DEF NodeKinds, Waiting, Ends, IsLoop

LEMMA BlockParts ==
  ASSUME NEW b \in Blocks
  PROVE  /\ b \in Node /\ b.kind = "block" /\ b.kind \in NodeKinds
         /\ b.statements \in Seq(Statement) /\ b.expects \in BOOLEAN
         /\ Own(b) = IF b.expects THEN {} ELSE Upto(b.statements, 1)
         /\ FirstTerminator(b) # 0 <=> HasJump(b.statements, 1)
<1>1. b.kind = "block" /\ b.statements \in Seq(Statement) /\ b.expects \in BOOLEAN
  BY DEF Blocks
<1>2. b \in Node
  BY DEF Node, Compound
<1> QED BY <1>1, <1>2, OwnIsUpto DEF NodeKinds

LEMMA StatementParts ==
  ASSUME NEW s \in Statement
  PROVE  s \in Node /\ s.kind \in NodeKinds
<1>1. s \in Node
  BY StatementAssumption DEF Node
<1> QED BY <1>1, NodeParts

-----------------------------------------------------------------------------
(* Pushing and popping. *)

LEMMA ThenTyped ==
  ASSUME NEW g, GenTyped(g),
         NEW x \in Task(Len(g.code), g.temps), NEW y \in Task(Len(g.code), g.temps)
  PROVE  LET h == GenerateThen(g, x, y)
         IN  /\ GenTyped(h)
             /\ h.todo = <<x>> \o (<<y>> \o g.todo)
             /\ h.code = g.code /\ h.insert = g.insert /\ h.prologue = g.prologue
             /\ h.break = g.break /\ h.continue = g.continue /\ h.temps = g.temps
             /\ h.aborted = g.aborted
<1> DEFINE h == GenerateThen(g, x, y)
           T == Task(Len(g.code), g.temps)
           q == <<x, y>> \o g.todo
<1>1. /\ g.todo \in Seq(T)
      /\ g = [todo |-> g.todo, code |-> g.code, insert |-> g.insert, prologue |-> g.prologue,
              break |-> g.break, continue |-> g.continue, temps |-> g.temps,
              aborted |-> g.aborted]
  BY GenFields
<1>2. q \in Seq(T) /\ q = <<x>> \o (<<y>> \o g.todo)
  <2>1. x \in T /\ y \in T
    OBVIOUS
  <2> HIDE DEF T
  <2>2. <<x, y>> \o g.todo \in Seq(T)
    BY <1>1, <2>1
  <2> DEFINE b == <<y>> \o g.todo
  <2>3. /\ b \in Seq(T) /\ Len(b) = Len(g.todo) + 1 /\ b[1] = y
        /\ \A i \in 1 .. Len(g.todo) : b[i + 1] = g.todo[i]
    BY <1>1, <2>1
  <2> DEFINE a == <<x>> \o b
  <2>4. /\ a \in Seq(T) /\ Len(a) = Len(b) + 1 /\ a[1] = x
        /\ \A i \in 1 .. Len(b) : a[i + 1] = b[i]
    <3> HIDE DEF b
    <3> QED BY <2>1, <2>3
  <2>5. /\ Len(q) = Len(g.todo) + 2 /\ q[1] = x /\ q[2] = y
        /\ \A i \in 1 .. Len(g.todo) : q[i + 2] = g.todo[i]
    BY <1>1, <2>1
  <2>6. Len(g.todo) \in Nat
    BY <1>1
  <2>7. ASSUME NEW i \in 1 .. Len(g.todo) + 2 PROVE q[i] = a[i]
    <3>1. CASE i = 1
      <4> HIDE DEF q, a
      <4> QED BY <2>4, <2>5, <3>1
    <3>2. CASE i = 2
      <4>1. a[1 + 1] = b[1]
        <5> HIDE DEF a, b
        <5> QED BY <2>3, <2>4, <2>6
      <4> HIDE DEF q, a, b
      <4> QED BY <2>3, <2>5, <3>2, <4>1
    <3>3. CASE i \notin {1, 2}
      <4>1. i - 2 \in 1 .. Len(g.todo) /\ i - 1 \in 1 .. Len(b)
            /\ (i - 2) + 2 = i /\ (i - 1) + 1 = i /\ (i - 2) + 1 = i - 1
        <5> HIDE DEF b
        <5> QED BY <2>3, <2>6, <3>3
      <4> HIDE DEF q, a, b
      <4>2. q[i] = g.todo[i - 2]
        BY <2>5, <4>1
      <4>3. a[i] = b[i - 1]
        BY <2>4, <4>1
      <4>4. b[i - 1] = g.todo[i - 2]
        BY <2>3, <4>1
      <4> QED BY <4>2, <4>3, <4>4
    <3> QED BY <3>1, <3>2, <3>3
  <2>8. Len(a) = Len(q)
    <3> HIDE DEF q, a, b
    <3> QED BY <2>3, <2>4, <2>5, <2>6
  <2>9. q = a
    <3>1. q \in Seq(T)
      BY <2>2
    <3>2. a \in Seq(T)
      BY <2>4
    <3>3. Len(q) = Len(g.todo) + 2
      BY <2>5
    <3> DEFINE m == Len(g.todo) + 2
    <3>4. \A i \in 1 .. m : q[i] = a[i]
      BY <2>7
    <3> HIDE DEF q, a, b, T, m
    <3>5. q = [i \in 1 .. Len(q) |-> q[i]]
      BY <3>1
    <3>6. a = [i \in 1 .. Len(a) |-> a[i]]
      BY <3>2
    <3>7. Len(q) = m
      BY <3>3 DEF m
    <3>8. Len(a) = m
      BY <2>8, <3>7
    <3>9. q = [i \in 1 .. m |-> q[i]] /\ a = [i \in 1 .. m |-> a[i]]
      BY <3>5, <3>6, <3>7, <3>8
    <3> QED BY <3>4, <3>9
  <2> QED BY <2>2, <2>9
<1>3. h = [todo |-> q, code |-> g.code, insert |-> g.insert, prologue |-> g.prologue,
           break |-> g.break, continue |-> g.continue, temps |-> g.temps,
           aborted |-> g.aborted]
  <2>1. h = [g EXCEPT !.todo = q]
    BY DEF GenerateThen
  <2> HIDE DEF h, q
  <2> QED BY <1>1, <2>1
<1> HIDE DEF h, q
<1>4. /\ h.todo = q /\ h.code = g.code /\ h.insert = g.insert /\ h.prologue = g.prologue
      /\ h.break = g.break /\ h.continue = g.continue /\ h.temps = g.temps
      /\ h.aborted = g.aborted
  BY <1>3
<1>5. h = [todo |-> h.todo, code |-> h.code, insert |-> h.insert, prologue |-> h.prologue,
           break |-> h.break, continue |-> h.continue, temps |-> h.temps,
           aborted |-> h.aborted]
  BY <1>3, <1>4
<1>6. GenTyped(h)
  BY <1>2, <1>4, <1>5, GenFields, MakeGen
<1> QED BY <1>2, <1>4, <1>6 DEF h

(* One task goes on top. *)
LEMMA OneTyped ==
  ASSUME NEW g, GenTyped(g), NEW x \in Task(Len(g.code), g.temps)
  PROVE  LET h == [g EXCEPT !.todo = <<x>> \o @]
         IN  /\ GenTyped(h)
             /\ h.todo = <<x>> \o g.todo
             /\ h.code = g.code /\ h.insert = g.insert /\ h.prologue = g.prologue
             /\ h.break = g.break /\ h.continue = g.continue /\ h.temps = g.temps
             /\ h.aborted = g.aborted
<1> DEFINE h == [g EXCEPT !.todo = <<x>> \o @]
           T == Task(Len(g.code), g.temps)
           q == <<x>> \o g.todo
<1>1. /\ g.todo \in Seq(T)
      /\ g = [todo |-> g.todo, code |-> g.code, insert |-> g.insert, prologue |-> g.prologue,
              break |-> g.break, continue |-> g.continue, temps |-> g.temps,
              aborted |-> g.aborted]
  BY GenFields
<1>2. q \in Seq(T)
  <2>1. x \in T
    OBVIOUS
  <2> HIDE DEF T
  <2> QED BY <1>1, <2>1
<1>3. h = [todo |-> q, code |-> g.code, insert |-> g.insert, prologue |-> g.prologue,
           break |-> g.break, continue |-> g.continue, temps |-> g.temps,
           aborted |-> g.aborted]
  <2>1. h = [g EXCEPT !.todo = q]
    OBVIOUS
  <2> HIDE DEF h, q
  <2> QED BY <1>1, <2>1
<1> HIDE DEF h, q
<1>4. /\ h.todo = q /\ h.code = g.code /\ h.insert = g.insert /\ h.prologue = g.prologue
      /\ h.break = g.break /\ h.continue = g.continue /\ h.temps = g.temps
      /\ h.aborted = g.aborted
  BY <1>3
<1>5. h = [todo |-> h.todo, code |-> h.code, insert |-> h.insert, prologue |-> h.prologue,
           break |-> h.break, continue |-> h.continue, temps |-> h.temps,
           aborted |-> h.aborted]
  BY <1>3, <1>4
<1>6. GenTyped(h)
  BY <1>2, <1>4, <1>5, GenFields, MakeGen
<1> QED BY <1>4, <1>6 DEF h, q

(* The next task has been taken off the stack. *)
LEMMA PopTyped ==
  ASSUME NEW g, GenTyped(g), g.todo # <<>>
  PROVE  LET h == [g EXCEPT !.todo = Tail(@)]
         IN  /\ GenTyped(h)
             /\ h.todo = Tail(g.todo)
             /\ h.code = g.code /\ h.insert = g.insert /\ h.prologue = g.prologue
             /\ h.break = g.break /\ h.continue = g.continue /\ h.temps = g.temps
             /\ h.aborted = g.aborted
             /\ Head(g.todo) \in Task(Len(g.code), g.temps)
             /\ g.todo = <<Head(g.todo)>> \o h.todo
<1> DEFINE h == [g EXCEPT !.todo = Tail(@)]
           T == Task(Len(g.code), g.temps)
           q == Tail(g.todo)
<1>1. /\ g.todo \in Seq(T)
      /\ g = [todo |-> g.todo, code |-> g.code, insert |-> g.insert, prologue |-> g.prologue,
              break |-> g.break, continue |-> g.continue, temps |-> g.temps,
              aborted |-> g.aborted]
  BY GenFields
<1>2. q \in Seq(T) /\ Head(g.todo) \in T /\ g.todo = <<Head(g.todo)>> \o q
  <2> HIDE DEF T
  <2> QED BY <1>1, PopIndices
<1>3. h = [todo |-> q, code |-> g.code, insert |-> g.insert, prologue |-> g.prologue,
           break |-> g.break, continue |-> g.continue, temps |-> g.temps,
           aborted |-> g.aborted]
  <2>1. h = [g EXCEPT !.todo = q]
    OBVIOUS
  <2> HIDE DEF h, q
  <2> QED BY <1>1, <2>1
<1> HIDE DEF h, q
<1>4. /\ h.todo = q /\ h.code = g.code /\ h.insert = g.insert /\ h.prologue = g.prologue
      /\ h.break = g.break /\ h.continue = g.continue /\ h.temps = g.temps
      /\ h.aborted = g.aborted
  BY <1>3
<1>5. h = [todo |-> h.todo, code |-> h.code, insert |-> h.insert, prologue |-> h.prologue,
           break |-> h.break, continue |-> h.continue, temps |-> h.temps,
           aborted |-> h.aborted]
  BY <1>3, <1>4
<1>6. GenTyped(h)
  BY <1>2, <1>4, <1>5, GenFields, MakeGen
<1> QED BY <1>2, <1>4, <1>6 DEF h, q

(***************************************************************************)
(* What holds when t has been taken off the stack of a valid generator.    *)
(***************************************************************************)
Ready(g, t) ==
  /\ ~g.aborted
  /\ Fits(t, g.todo) /\ Stack(g.todo)
  /\ Settled(g, Waiting(t) \cup AllWaiting(g.todo))
  /\ IsOpen(g) \/ IsClosed(g)
  /\ ~Ends(t) => IsOpen(g)
  /\ g.break = 0 \/ g.continue = 0 => ~IsLoop(t) /\ ~InLoop(g.todo)

LEMMA PopReady ==
  ASSUME NEW g, GenTyped(g), g.todo # <<>>, Valid(g)
  PROVE  Ready([g EXCEPT !.todo = Tail(@)], Head(g.todo))
<1> DEFINE h == [g EXCEPT !.todo = Tail(@)]
           t == Head(g.todo)
           T == Task(Len(g.code), g.temps)
<1>1. /\ h.todo = Tail(g.todo)
      /\ h.code = g.code /\ h.insert = g.insert
      /\ h.break = g.break /\ h.continue = g.continue /\ h.aborted = g.aborted
      /\ t \in T /\ g.todo = <<t>> \o h.todo
  BY PopTyped
<1>2. h.todo \in Seq(T)
  <2>1. g.todo \in Seq(T)
    BY GenFields
  <2> HIDE DEF T, h
  <2> QED BY <1>1, <2>1, PopIndices
<1> HIDE DEF h, t, T
<1>3. AllWaiting(g.todo) = Waiting(t) \cup AllWaiting(h.todo)
      /\ (InLoop(g.todo) <=> IsLoop(t) \/ InLoop(h.todo))
  <2>1. /\ AllWaiting(<<t>> \o h.todo) = Waiting(t) \cup AllWaiting(h.todo)
        /\ InLoop(<<t>> \o h.todo) <=> IsLoop(t) \/ InLoop(h.todo)
    BY <1>1, <1>2, PushWaiting
  <2> QED BY <1>1, <2>1
<1>4. Fits(t, h.todo) /\ Stack(h.todo)
  <2>1. Stack(<<t>> \o h.todo) <=> Fits(t, h.todo) /\ Stack(h.todo)
    BY <1>1, <1>2, PushFits
  <2> QED BY <1>1, <2>1 DEF Valid
<1>5. /\ IsOpen(h) <=> IsOpen(g)
      /\ IsClosed(h) <=> IsClosed(g)
      /\ Settled(h, AllWaiting(g.todo)) <=> Settled(g, AllWaiting(g.todo))
  BY <1>1, SettledDependsOn
<1> QED BY <1>1, <1>3, <1>4, <1>5 DEF Valid, Ready, h, t

(* A valid generator that has nothing to push. *)
LEMMA PopValid ==
  ASSUME NEW h, ~h.aborted, Stack(h.todo), Settled(h, AllWaiting(h.todo)),
         \/ IsOpen(h) /\ h.todo # <<>>
         \/ IsClosed(h) /\ (h.todo = <<>> \/ Ends(Head(h.todo))),
         h.break = 0 \/ h.continue = 0 => ~InLoop(h.todo)
  PROVE  Valid(h)
BY DEF Valid

(* A valid generator that comes to x, and then goes on with y. *)
LEMMA ThenValid ==
  ASSUME NEW g, GenTyped(g), ~g.aborted, IsOpen(g), Stack(g.todo),
         NEW x \in Task(Len(g.code), g.temps), NEW y \in Task(Len(g.code), g.temps),
         Settled(g, Waiting(y) \cup AllWaiting(g.todo)),
         Waiting(x) = {}, ~Ends(x), ~IsLoop(x),
         EndsInJump(x) => Ends(y),
         Covered(x, All), IsLoop(y) \/ InLoop(g.todo) \/ Covered(x, Outside),
         Fits(y, g.todo),
         g.break = 0 \/ g.continue = 0 => ~IsLoop(y) /\ ~InLoop(g.todo)
  PROVE  Valid(GenerateThen(g, x, y))
<1> DEFINE h == GenerateThen(g, x, y)
           T == Task(Len(g.code), g.temps)
           r == <<y>> \o g.todo
<1>1. /\ h.todo = <<x>> \o r
      /\ h.code = g.code /\ h.insert = g.insert
      /\ h.break = g.break /\ h.continue = g.continue /\ h.aborted = g.aborted
  BY ThenTyped
<1>2. g.todo \in Seq(T) /\ x \in T /\ y \in T
  BY GenFields
<1> HIDE DEF h, T
<1>3. r \in Seq(T) /\ r # <<>> /\ Head(r) = y
  BY <1>2, PushIndices
<1>4. AllWaiting(r) = Waiting(y) \cup AllWaiting(g.todo) /\ (InLoop(r) <=> IsLoop(y) \/ InLoop(g.todo))
  BY <1>2, PushWaiting
<1>5. Stack(r)
  BY <1>2, PushFits
<1> HIDE DEF r
<1>6. AllWaiting(h.todo) = Waiting(x) \cup AllWaiting(r) /\ (InLoop(h.todo) <=> IsLoop(x) \/ InLoop(r))
  <2>1. /\ AllWaiting(<<x>> \o r) = Waiting(x) \cup AllWaiting(r)
        /\ InLoop(<<x>> \o r) <=> IsLoop(x) \/ InLoop(r)
    BY <1>2, <1>3, PushWaiting
  <2> QED BY <1>1, <2>1
<1>7. h.todo # <<>> /\ Head(h.todo) = x
  BY <1>1, <1>2, <1>3, PushIndices
<1>8. Fits(x, r)
  BY <1>3, <1>4 DEF Fits
<1>9. Stack(h.todo)
  BY <1>1, <1>2, <1>3, <1>5, <1>8, PushFits
<1>10. IsOpen(h) /\ Settled(h, AllWaiting(h.todo))
  <2>1. AllWaiting(h.todo) = Waiting(y) \cup AllWaiting(g.todo)
    BY <1>4, <1>6
  <2>2. IsOpen(h) /\ Settled(h, Waiting(y) \cup AllWaiting(g.todo))
    BY <1>1, SettledDependsOn
  <2> QED BY <2>1, <2>2
<1> QED BY <1>1, <1>4, <1>6, <1>7, <1>9, <1>10 DEF Valid, h

(* A valid generator that comes to x. *)
LEMMA OneValid ==
  ASSUME NEW g, GenTyped(g), ~g.aborted, IsOpen(g), Stack(g.todo),
         NEW x \in Task(Len(g.code), g.temps),
         Settled(g, AllWaiting(g.todo)),
         Waiting(x) = {}, ~Ends(x), ~IsLoop(x), Fits(x, g.todo),
         g.break = 0 \/ g.continue = 0 => ~InLoop(g.todo)
  PROVE  Valid([g EXCEPT !.todo = <<x>> \o @])
<1> DEFINE h == [g EXCEPT !.todo = <<x>> \o @]
           T == Task(Len(g.code), g.temps)
<1>1. /\ h.todo = <<x>> \o g.todo
      /\ h.code = g.code /\ h.insert = g.insert
      /\ h.break = g.break /\ h.continue = g.continue /\ h.aborted = g.aborted
  BY OneTyped
<1>2. g.todo \in Seq(T) /\ x \in T
  BY GenFields
<1> HIDE DEF h, T
<1>3. AllWaiting(h.todo) = AllWaiting(g.todo) /\ (InLoop(h.todo) <=> InLoop(g.todo))
  <2>1. /\ AllWaiting(<<x>> \o g.todo) = Waiting(x) \cup AllWaiting(g.todo)
        /\ InLoop(<<x>> \o g.todo) <=> IsLoop(x) \/ InLoop(g.todo)
    BY <1>2, PushWaiting
  <2> QED BY <1>1, <2>1
<1>4. h.todo # <<>> /\ Head(h.todo) = x
  BY <1>1, <1>2, PushIndices
<1>5. Stack(h.todo)
  BY <1>1, <1>2, PushFits
<1>6. IsOpen(h) /\ Settled(h, AllWaiting(h.todo))
  BY <1>1, <1>3, SettledDependsOn
<1> QED BY <1>1, <1>3, <1>4, <1>5, <1>6 DEF Valid, h

-----------------------------------------------------------------------------
(* The handlers, one by one: statements without parts. *)

(* The generator goes on as it should. *)
Steps(g, t, h) == GenTyped(h) /\ (prog \in Programs /\ Tame /\ Ready(g, t) => Valid(h))

(* An instruction that does not end the block. *)
LEMMA PlainStep ==
  ASSUME NEW g, GenTyped(g), NEW t, t.kind \in NodeKinds \cup {"condition"}, ~EndsInJump(t),
         NEW i \in Instructions(Len(g.code), g.temps), i.op \notin EndsBlock
  PROVE  Steps(g, t, Emit(g, i))
<1> DEFINE h == Emit(g, i)
<1>1. GenTyped(h) /\ SameRest(g, h)
  BY EmitTyped
<1>2. Waiting(t) = {} /\ ~Ends(t) /\ ~IsLoop(t)
  BY NodesAreNoFrames
<1>3. ASSUME Ready(g, t) PROVE Valid(h)
  <2>1. IsOpen(g) /\ Settled(g, AllWaiting(g.todo))
    BY <1>2, <1>3 DEF Ready
  <2>2. IsOpen(h) /\ Settled(h, AllWaiting(g.todo))
    BY <2>1, EmitPlain
  <2>3. g.todo # <<>>
    BY <1>3 DEF Ready, Fits
  <2> HIDE DEF h
  <2> QED BY <1>1, <1>3, <2>2, <2>3, PopValid DEF Ready, SameRest
<1> QED BY <1>1, <1>3 DEF Steps

(* One that does. *)
LEMMA JumpStep ==
  ASSUME NEW g, GenTyped(g), NEW t, t.kind \in Terminators,
         NEW i \in Instructions(Len(g.code), g.temps), i.op \in EndsBlock
  PROVE  Steps(g, t, Emit(g, i))
<1> DEFINE h == Emit(g, i)
<1>1. GenTyped(h) /\ SameRest(g, h)
  BY EmitTyped
<1>2. Waiting(t) = {} /\ ~Ends(t) /\ ~IsLoop(t)
  BY NodesAreNoFrames DEF NodeKinds, Terminators
<1>3. ASSUME Ready(g, t) PROVE Valid(h)
  <2>1. IsOpen(g) /\ Settled(g, AllWaiting(g.todo))
    BY <1>2, <1>3 DEF Ready
  <2>2. IsClosed(h) /\ Settled(h, AllWaiting(g.todo))
    BY <2>1, EmitEnd
  <2>3. g.todo = <<>> \/ Ends(Head(g.todo))
    BY <1>3 DEF Ready, Fits, EndsInJump
  <2> HIDE DEF h
  <2> QED BY <1>1, <1>3, <2>2, <2>3, PopValid DEF Ready, SameRest
<1> QED BY <1>1, <1>3 DEF Steps

(* break and continue have a target, or there is a jump outside of loops. *)
LEMMA JumpHasTarget ==
  ASSUME NEW g, GenTyped(g), NEW t, t.kind \in {"break", "continue"}, Tame, Ready(g, t)
  PROVE  g.break # 0 /\ g.continue # 0
<1>1. Waiting(t) = {} /\ ~Ends(t) /\ ~IsLoop(t)
  BY NodesAreNoFrames DEF NodeKinds
<1>2. ~Covered(t, Outside)
  <2>1. t \notin OutsideLoops(prog)
    BY DEF Tame, StrayJump
  <2>2. t # Return(NoVar)
    BY DEF Return
  <2> QED BY <2>1, <2>2 DEF Covered, Outside
<1>3. InLoop(g.todo)
  BY <1>1, <1>2 DEF Ready, Fits
<1> QED BY <1>3 DEF Ready

LEMMA GenerateJumpStep ==
  ASSUME NEW g, GenTyped(g), NEW t, t.kind \in {"break", "continue"},
         NEW target, target \in {g.break, g.continue}
  PROVE  Steps(g, t, GenerateJump(g, target))
<1>1. CASE target = 0
  <2>1. GenerateJump(g, target) = [g EXCEPT !.aborted = TRUE]
    BY <1>1 DEF GenerateJump
  <2>2. GenTyped([g EXCEPT !.aborted = TRUE])
    <3>1. g = [todo |-> g.todo, code |-> g.code, insert |-> g.insert, prologue |-> g.prologue,
               break |-> g.break, continue |-> g.continue, temps |-> g.temps,
               aborted |-> g.aborted]
      BY GenFields
    <3> DEFINE h == [g EXCEPT !.aborted = TRUE]
    <3>2. h = [todo |-> g.todo, code |-> g.code, insert |-> g.insert, prologue |-> g.prologue,
               break |-> g.break, continue |-> g.continue, temps |-> g.temps,
               aborted |-> TRUE]
      <4>1. h = [g EXCEPT !.aborted = TRUE]
        OBVIOUS
      <4> HIDE DEF h
      <4> QED BY <3>1, <4>1
    <3> HIDE DEF h
    <3>3. /\ h.todo = g.todo /\ h.code = g.code /\ h.insert = g.insert /\ h.prologue = g.prologue
          /\ h.break = g.break /\ h.continue = g.continue /\ h.temps = g.temps /\ h.aborted = TRUE
      BY <3>2
    <3>4. GenTyped(h)
      BY <3>2, <3>3, GenFields, MakeGen
    <3> QED BY <3>4 DEF h
  <2>3. ~(Tame /\ Ready(g, t))
    BY <1>1, JumpHasTarget
  <2> QED BY <2>1, <2>2, <2>3 DEF Steps
<1>2. CASE target # 0
  <2>1. target \in 1 .. Len(g.code)
    BY <1>2, GenFields
  <2>2. Br(target) \in Instructions(Len(g.code), g.temps) /\ Br(target).op \in EndsBlock
    BY <2>1 DEF Br, Instructions, EndsBlock
  <2>3. t.kind \in Terminators
    BY DEF Terminators
  <2>4. GenerateJump(g, target) = Emit(g, Br(target))
    BY <1>2 DEF GenerateJump
  <2> QED BY <2>2, <2>3, <2>4, JumpStep
<1> QED BY <1>1, <1>2

(* return, a declaration, a step, a call. *)
LEMMA SimpleStep ==
  ASSUME NEW g, GenTyped(g), NEW t \in Node
  PROVE  /\ t.kind = "return" => Steps(g, t, Emit(g, [op |-> "ret", var |-> t.var]))
         /\ t.kind = "declaration" =>
              Steps(g, t, Emit(g, [op |-> "store", var |-> t.var, value |-> t.value]))
         /\ t.kind = "assign" => Steps(g, t, Emit(g, Added(t)))
         /\ t.kind = "call" =>
              Steps(g, t, Emit(g, [op |-> "call", id |-> t.id, var |-> t.var]))
<1>1. CASE t.kind = "return"
  <2> DEFINE i == [op |-> "ret", var |-> t.var]
  <2>1. i \in Instructions(Len(g.code), g.temps) /\ i.op \in EndsBlock
    BY <1>1, NodeParts DEF Instructions, EndsBlock
  <2>2. t.kind \in Terminators
    BY <1>1 DEF Terminators
  <2> HIDE DEF i
  <2>3. Steps(g, t, Emit(g, i))
    BY <2>1, <2>2, JumpStep
  <2> QED BY <1>1, <2>3 DEF i
<1>2. CASE t.kind = "declaration"
  <2> DEFINE i == [op |-> "store", var |-> t.var, value |-> t.value]
  <2>1. i \in Instructions(Len(g.code), g.temps) /\ i.op \notin EndsBlock
    BY <1>2, NodeParts DEF Instructions, EndsBlock
  <2>2. t.kind \in NodeKinds /\ ~EndsInJump(t)
    BY <1>2 DEF NodeKinds, EndsInJump, Terminators
  <2> HIDE DEF i
  <2>3. Steps(g, t, Emit(g, i))
    BY <2>1, <2>2, PlainStep
  <2> QED BY <1>2, <2>3 DEF i
<1>3. CASE t.kind = "assign"
  <2>1. Added(t) \in Instructions(Len(g.code), g.temps) /\ Added(t).op \notin EndsBlock
    BY <1>3, NodeParts DEF Instructions, EndsBlock, Added
  <2>2. t.kind \in NodeKinds /\ ~EndsInJump(t)
    BY <1>3 DEF NodeKinds, EndsInJump, Terminators
  <2> QED BY <1>3, <2>1, <2>2, PlainStep
<1>4. CASE t.kind = "call"
  <2> DEFINE i == [op |-> "call", id |-> t.id, var |-> t.var]
  <2>1. i \in Instructions(Len(g.code), g.temps) /\ i.op \notin EndsBlock
    BY <1>4, NodeParts DEF Instructions, EndsBlock
  <2>2. t.kind \in NodeKinds /\ ~EndsInJump(t)
    BY <1>4 DEF NodeKinds, EndsInJump, Terminators
  <2> HIDE DEF i
  <2>3. Steps(g, t, Emit(g, i))
    BY <2>1, <2>2, PlainStep
  <2> QED BY <1>4, <2>3 DEF i
<1> QED BY <1>1, <1>2, <1>3, <1>4

-----------------------------------------------------------------------------
(* Blocks and their statements. *)

(* A for loop is desugared to a block without jumps of its own. *)
LEMMA DesugaredHasNoJump ==
  ASSUME NEW s
  PROVE  ~HasJump(desugar(s).statements, 1)
<1> DEFINE d == Declaration(s.var, s.begin)
           w == While(Compare(s.var, s.cmp, s.end), s.body, <<StepOf(s)>>)
<1>1. desugar(s).statements = <<d, w>>
  BY DEF desugar, Block
<1>2. d.kind = "declaration" /\ w.kind = "while"
  BY DEF Declaration, While
<1> HIDE DEF d, w
<1>3. Len(<<d, w>>) = 2 /\ \A j \in 1 .. 2 : <<d, w>>[j] = d \/ <<d, w>>[j] = w
  OBVIOUS
<1>4. ASSUME NEW j \in 1 .. 2 PROVE <<d, w>>[j].kind \notin Terminators
  BY <1>2, <1>3 DEF Terminators
<1> QED BY <1>1, <1>3, <1>4 DEF HasJump

(* What covers a statement covers its parts, if the set is closed. *)
LEMMA CoveredParts ==
  ASSUME NEW S, NEW kinds, Closed(S, kinds), NEW s \in Node, s.kind \in kinds
  PROVE  /\ s \in S => \A p \in Parts(s) : Own(p) \subseteq S
         /\ s.kind = "block" /\ s \in S => Own(s) \subseteq S
BY DEF Closed, Parts

LEMMA StatementCovered ==
  ASSUME NEW S, NEW kinds, Closed(S, kinds), "block" \in kinds, NEW s \in Node, s \in S
  PROVE  Covered(s, S)
<1>1. CASE s.kind = "block"
  BY <1>1, CoveredParts DEF Covered
<1>2. CASE s.kind # "block"
  BY <1>2, NodeParts DEF Covered, NodeKinds
<1> QED BY <1>1, <1>2

LEMMA GenerateBlockStep ==
  ASSUME NEW g, GenTyped(g), NEW t \in Node, NEW b \in Blocks,
         (t.kind = "block" /\ b = t) \/ (t.kind = "for" /\ b = desugar(t))
  PROVE  Steps(g, t, GenerateBlock(g, b))
<1>1. /\ b.statements \in Seq(Statement) /\ b.expects \in BOOLEAN
      /\ Own(b) = IF b.expects THEN {} ELSE Upto(b.statements, 1)
  BY BlockParts
<1>2. t.kind \in NodeKinds /\ Waiting(t) = {} /\ ~Ends(t) /\ ~IsLoop(t)
  BY NodesAreNoFrames DEF NodeKinds
<1>3. EndsInJump(t) <=> ~b.expects /\ HasJump(b.statements, 1)
  <2>1. CASE t.kind = "block" /\ b = t
    BY <2>1 DEF EndsInJump, Terminators
  <2>2. CASE t.kind = "for" /\ b = desugar(t)
    BY <2>2, DesugaredHasNoJump DEF EndsInJump, Terminators
  <2> QED BY <2>1, <2>2
<1>4. CASE b.expects \/ b.statements = <<>>
  <2>1. GenerateBlock(g, b) = g
    BY <1>4 DEF GenerateBlock
  <2>2. ~EndsInJump(t)
    BY <1>3, <1>4 DEF HasJump
  <2>3. ASSUME Ready(g, t) PROVE Valid(g)
    <3>1. g.todo # <<>> /\ IsOpen(g) /\ Settled(g, AllWaiting(g.todo))
      BY <1>2, <2>2, <2>3 DEF Ready, Fits
    <3> QED BY <2>3, <3>1, PopValid DEF Ready
  <2> QED BY <2>1, <2>3 DEF Steps
<1>5. CASE ~(b.expects \/ b.statements = <<>>)
  <2> DEFINE x == [kind |-> "statements", statements |-> b.statements, index |-> 1]
             h == [g EXCEPT !.todo = <<x>> \o @]
  <2>1. GenerateBlock(g, b) = h
    BY <1>5 DEF GenerateBlock
  <2>2. x \in Task(Len(g.code), g.temps)
    <3>1. x \in [kind : {"statements"}, statements : Seq(Statement), index : Nat \ {0}]
      BY <1>1
    <3> HIDE DEF x
    <3> QED BY <3>1 DEF Task, Frame
  <2>3. x.kind = "statements" /\ x.statements = b.statements /\ x.index = 1
    OBVIOUS
  <2> HIDE DEF x
  <2>4. Waiting(x) = {} /\ ~Ends(x) /\ ~IsLoop(x)
    BY <2>3, NodesAreNoFrames
  <2>5. EndsInJump(x) <=> EndsInJump(t)
    BY <1>3, <1>5, <2>3 DEF EndsInJump, Terminators
  <2>6. ASSUME NEW S, NEW kinds, Closed(S, kinds), {"block", "for"} \subseteq kinds, Covered(t, S)
        PROVE  Covered(x, S)
    <3>1. Own(b) \subseteq S
      <4>1. CASE t.kind = "block" /\ b = t
        BY <2>6, <4>1 DEF Covered
      <4>2. CASE t.kind = "for" /\ b = desugar(t)
        <5>1. t \in S
          BY <2>6, <4>2 DEF Covered
        <5>2. b \in Parts(t)
          BY <4>2 DEF Parts
        <5> QED BY <2>6, <4>2, <5>1, <5>2 DEF Closed
      <4> QED BY <4>1, <4>2
    <3> QED BY <1>1, <1>5, <2>3, <3>1 DEF Covered
  <2>7. ASSUME prog \in Programs, Ready(g, t) PROVE Valid(h)
    <3>1. Closed(All, {"if", "while", "for", "block"}) /\ Closed(Outside, {"if", "for", "block"})
      BY <2>7, ProgramIsClosed
    <3>2. Covered(t, All) => Covered(x, All)
      BY <2>6, <3>1
    <3>3. Covered(t, Outside) => Covered(x, Outside)
      BY <2>6, <3>1
    <3>4. Fits(x, g.todo)
      BY <1>2, <2>4, <2>5, <2>7, <3>2, <3>3 DEF Ready, Fits
    <3>5. IsOpen(g) /\ Settled(g, AllWaiting(g.todo))
      BY <1>2, <2>7 DEF Ready
    <3>6. ~g.aborted /\ Stack(g.todo) /\ (g.break = 0 \/ g.continue = 0 => ~InLoop(g.todo))
      BY <2>7 DEF Ready
    <3> HIDE DEF h
    <3> QED BY <2>2, <2>4, <3>4, <3>5, <3>6, OneValid DEF h
  <2>8. GenTyped(h)
    BY <2>2, OneTyped
  <2> QED BY <2>1, <2>7, <2>8 DEF Steps
<1> QED BY <1>4, <1>5

(* A statement that is no jump, and what follows it. *)
LEMMA OneStatement ==
  ASSUME NEW q, NEW i \in Nat \ {0}, i <= Len(q), Len(q) \in Nat
  PROVE  /\ q[i] \in Upto(q, i)
         /\ q[i].kind \in Terminators => HasJump(q, i)
         /\ q[i].kind \notin Terminators =>
              /\ HasJump(q, i) <=> HasJump(q, i + 1)
              /\ Upto(q, i + 1) \subseteq Upto(q, i)
<1>1. i \in i .. Len(q)
  OBVIOUS
<1>2. q[i] \in Upto(q, i)
  <2>1. \A l \in i .. i - 1 : q[l].kind \notin Terminators
    OBVIOUS
  <2> QED BY <1>1, <2>1 DEF Upto
<1>3. ASSUME q[i].kind \notin Terminators
      PROVE  /\ HasJump(q, i) <=> HasJump(q, i + 1)
             /\ Upto(q, i + 1) \subseteq Upto(q, i)
  <2>1. \A j \in i .. Len(q) : j = i \/ j \in i + 1 .. Len(q)
    OBVIOUS
  <2>2. \A j \in i + 1 .. Len(q) : j \in i .. Len(q)
    OBVIOUS
  <2>3. HasJump(q, i) <=> HasJump(q, i + 1)
    BY <1>3, <2>1, <2>2 DEF HasJump
  <2>4. ASSUME NEW k \in i + 1 .. Len(q), \A l \in i + 1 .. k - 1 : q[l].kind \notin Terminators
        PROVE  \A l \in i .. k - 1 : q[l].kind \notin Terminators
    <3>1. \A l \in i .. k - 1 : l = i \/ l \in i + 1 .. k - 1
      OBVIOUS
    <3> QED BY <1>3, <2>4, <3>1
  <2> QED BY <2>2, <2>3, <2>4 DEF Upto
<1> QED BY <1>1, <1>2, <1>3 DEF HasJump

(* A bare block with a jump would be one of those that are excluded. *)
LEMMA NoJumpFromBareBlock ==
  ASSUME NEW s \in Node, s \in All, Tame, s.kind \notin Terminators
  PROVE  ~EndsInJump(s)
<1>1. SUFFICES ASSUME EndsInJump(s) PROVE FALSE
  OBVIOUS
<1>2. s.kind = "block" /\ ~s.expects /\ HasJump(s.statements, 1)
  BY <1>1, NodeParts DEF EndsInJump, NodeKinds
<1>3. s \in Blocks
  BY <1>2, NodeParts
<1>4. FirstTerminator(s) # 0
  BY <1>2, <1>3, BlockParts
<1>5. s # Return(NoVar)
  BY <1>2 DEF Return
<1>6. s \in Generated(prog)
  BY <1>5 DEF All
<1> QED BY <1>2, <1>4, <1>6 DEF Tame, JumpsFromBareBlock

(* One turn of the loop over the statements of a block. *)
LEMMA GenerateStatementsStep ==
  ASSUME NEW g, GenTyped(g), NEW t \in Frame(Len(g.code), g.temps), t.kind = "statements"
  PROVE  Steps(g, t, GenerateStatements(g, t))
<1> DEFINE q == t.statements
           i == t.index
           F == [kind : {"statements"}, statements : Seq(Statement), index : Nat \ {0}]
<1>1. t \in F
  BY FrameParts
<1>2. q \in Seq(Statement) /\ i \in Nat \ {0} /\ Len(q) \in Nat
  <2>1. q \in Seq(Statement) /\ i \in Nat \ {0}
    BY <1>1
  <2> QED BY <2>1
<1>3. Waiting(t) = {} /\ ~Ends(t) /\ ~IsLoop(t)
  BY NodesAreNoFrames
<1>4. (EndsInJump(t) <=> HasJump(q, i)) /\ \A S : Covered(t, S) <=> Upto(q, i) \subseteq S
  BY DEF EndsInJump, Covered, Terminators
<1> DEFINE p == GeneratePrologue(g)
<1>5. /\ GenTyped(p) /\ SameRest(g, p) /\ p.insert = g.insert /\ Len(p.code) = Len(g.code)
      /\ \A waiting : IsOpen(g) /\ Settled(g, waiting) => IsOpen(p) /\ Settled(p, waiting)
  BY PrologueTyped
<1>6. Ready(g, t) => /\ IsOpen(g) /\ Settled(g, AllWaiting(g.todo))
                     /\ IsOpen(p) /\ Settled(p, AllWaiting(g.todo))
                     /\ ~g.aborted /\ Stack(g.todo) /\ Fits(t, g.todo)
                     /\ (g.break = 0 \/ g.continue = 0 => ~InLoop(g.todo))
  BY <1>3, <1>5 DEF Ready
<1>7. CASE i > Len(q)
  <2>1. GenerateStatements(g, t) = p
    BY <1>7 DEF GenerateStatements
  <2>2. ~EndsInJump(t)
    BY <1>2, <1>4, <1>7 DEF HasJump
  <2>3. ASSUME Ready(g, t) PROVE Valid(p)
    <3>1. g.todo # <<>>
      BY <1>6, <2>2, <2>3 DEF Fits
    <3> HIDE DEF p
    <3> QED BY <1>5, <1>6, <2>3, <3>1, PopValid DEF SameRest
  <2> QED BY <1>5, <2>1, <2>3 DEF Steps
<1>8. CASE i <= Len(q)
  <2> DEFINE s == q[i]
  <2>1. s \in Statement
    BY <1>2, <1>8
  <2>2. s \in Node /\ s.kind \in NodeKinds /\ s \in Task(Len(g.code), g.temps)
    BY <2>1, StatementParts DEF Task
  <2>3. Waiting(s) = {} /\ ~Ends(s) /\ ~IsLoop(s)
    BY <2>2, NodesAreNoFrames
  <2>4. /\ s \in Upto(q, i)
        /\ s.kind \in Terminators => HasJump(q, i)
        /\ s.kind \notin Terminators =>
             (HasJump(q, i) <=> HasJump(q, i + 1)) /\ Upto(q, i + 1) \subseteq Upto(q, i)
    BY <1>2, <1>8, OneStatement
  <2>5. ASSUME prog \in Programs
        PROVE  /\ Covered(t, All) => s \in All /\ Covered(s, All)
               /\ Covered(t, Outside) => Covered(s, Outside)
    <3>1. Closed(All, {"if", "while", "for", "block"}) /\ Closed(Outside, {"if", "for", "block"})
      BY <2>5, ProgramIsClosed
    <3> HIDE DEF s
    <3> QED BY <1>4, <2>2, <2>4, <3>1, StatementCovered
  <2>6. CASE s.kind \in Terminators
    <3> DEFINE h == [p EXCEPT !.todo = <<s>> \o @]
    <3>1. GenerateStatements(g, t) = h
      BY <1>2, <1>8, <2>6 DEF GenerateStatements
    <3>2. p.temps = g.temps /\ p.todo = g.todo /\ p.aborted = g.aborted
          /\ p.break = g.break /\ p.continue = g.continue
      BY <1>5 DEF SameRest
    <3>3. s \in Task(Len(p.code), p.temps)
      BY <1>5, <2>2, <3>2
    <3> HIDE DEF s, p
    <3>4. GenTyped(h)
      BY <1>5, <3>3, OneTyped
    <3>5. ASSUME prog \in Programs, Ready(g, t) PROVE Valid(h)
      <4>1. EndsInJump(t)
        BY <1>4, <2>4, <2>6
      <4>2. Fits(s, g.todo)
        <5>1. /\ Covered(t, All) /\ (InLoop(g.todo) \/ Covered(t, Outside))
              /\ (g.todo = <<>> \/ Ends(Head(g.todo)))
          BY <1>3, <1>6, <3>5, <4>1 DEF Fits
        <5>2. Covered(s, All) /\ (InLoop(g.todo) \/ Covered(s, Outside))
          BY <2>5, <3>5, <5>1
        <5>3. EndsInJump(s)
          BY <2>6 DEF EndsInJump
        <5> QED BY <2>3, <5>1, <5>2, <5>3 DEF Fits
      <4>3. Fits(s, p.todo)
        BY <3>2, <4>2
      <4> HIDE DEF h
      <4> QED BY <1>5, <1>6, <2>3, <3>2, <3>3, <3>5, <4>3, OneValid DEF h
    <3> HIDE DEF h
    <3> QED BY <3>1, <3>4, <3>5 DEF Steps
  <2>7. CASE s.kind \notin Terminators
    <3> DEFINE y == [t EXCEPT !.index = @ + 1]
    <3>1. GenerateStatements(g, t) = GenerateThen(g, s, y)
      BY <1>2, <1>8, <2>7 DEF GenerateStatements
    <3>2. y \in F /\ y.kind = "statements" /\ y.statements = q /\ y.index = i + 1
      BY <1>1
    <3>3. y \in Task(Len(g.code), g.temps)
      BY <3>2 DEF Task, Frame
    <3> HIDE DEF y, s, q, i, F
    <3>4. Waiting(y) = {} /\ ~Ends(y) /\ ~IsLoop(y)
      BY <3>2, NodesAreNoFrames
    <3>5. (EndsInJump(y) <=> HasJump(q, i + 1)) /\ \A S : Covered(y, S) <=> Upto(q, i + 1) \subseteq S
      BY <3>2 DEF EndsInJump, Covered, Terminators
    <3>6. ASSUME prog \in Programs, Tame, Ready(g, t) PROVE Valid(GenerateThen(g, s, y))
      <4>1. Covered(t, All) /\ (InLoop(g.todo) \/ Covered(t, Outside))
        BY <1>3, <1>6, <3>6 DEF Fits
      <4>2. s \in All /\ Covered(s, All) /\ (InLoop(g.todo) \/ Covered(s, Outside))
        BY <2>5, <3>6, <4>1
      <4>3. ~EndsInJump(s)
        BY <2>2, <2>7, <3>6, <4>2, NoJumpFromBareBlock
      <4>4. (EndsInJump(y) <=> EndsInJump(t)) /\ \A S : Covered(t, S) => Covered(y, S)
        BY <1>4, <2>4, <2>7, <3>5
      <4>5. Fits(y, g.todo)
        BY <1>3, <1>6, <3>4, <3>6, <4>4 DEF Fits
      <4>6. Settled(g, Waiting(y) \cup AllWaiting(g.todo))
        BY <1>6, <3>4, <3>6
      <4> QED BY <1>6, <2>2, <2>3, <3>3, <3>4, <3>6, <4>2, <4>3, <4>5, <4>6, ThenValid
    <3>7. GenTyped(GenerateThen(g, s, y))
      BY <2>2, <3>3, ThenTyped
    <3> QED BY <3>1, <3>6, <3>7 DEF Steps
  <2> QED BY <2>6, <2>7
<1> QED BY <1>2, <1>7, <1>8

-----------------------------------------------------------------------------
(* Branching, and going on in a block that waits. *)

LEMMA EndAndMoveOn ==
  ASSUME NEW g, GenTyped(g), NEW i \in Instructions(Len(g.code), g.temps), i.op \in EndsBlock,
         NEW b \in 1 .. Len(g.code)
  PROVE  LET h == SetInsertPoint(Emit(g, i), b)
         IN  /\ GenTyped(h) /\ SameRest(g, h) /\ h.insert = b /\ Len(h.code) = Len(g.code)
             /\ \A waiting : IsOpen(g) /\ Settled(g, waiting) /\ b \in waiting =>
                  IsOpen(h) /\ Settled(h, waiting \ {b})
<1> DEFINE e == Emit(g, i)
           h == SetInsertPoint(e, b)
<1>1. GenTyped(e) /\ SameRest(g, e) /\ Len(e.code) = Len(g.code)
  BY EmitTyped
<1>2. ASSUME NEW waiting, IsOpen(g), Settled(g, waiting), b \in waiting
      PROVE  IsClosed(e) /\ Settled(e, waiting)
  BY <1>2, EmitEnd
<1> HIDE DEF e
<1>3. GenTyped(h) /\ SameRest(e, h) /\ h.insert = b /\ h.code = e.code
  BY <1>1, SetInsertPointTyped
<1>4. ASSUME NEW waiting, IsOpen(g), Settled(g, waiting), b \in waiting
      PROVE  IsOpen(h) /\ Settled(h, waiting \ {b})
  BY <1>1, <1>2, <1>4, MoveOn
<1> HIDE DEF h
<1>5. SameRest(g, h)
  BY <1>1, <1>3 DEF SameRest
<1> QED BY <1>1, <1>3, <1>4, <1>5 DEF e, h

LEMMA BranchAndMoveOn ==
  ASSUME NEW g, GenTyped(g), NEW a \in 1 .. Len(g.code), NEW b \in 1 .. Len(g.code)
  PROVE  LET h == SetInsertPoint(BrUnlessTerminated(g, a), b)
         IN  /\ GenTyped(h) /\ SameRest(g, h) /\ h.insert = b /\ Len(h.code) = Len(g.code)
             /\ \A waiting : (IsOpen(g) \/ IsClosed(g)) /\ Settled(g, waiting) /\ b \in waiting =>
                  IsOpen(h) /\ Settled(h, waiting \ {b})
<1> DEFINE e == BrUnlessTerminated(g, a)
           h == SetInsertPoint(e, b)
<1>1. GenTyped(e) /\ SameRest(g, e) /\ Len(e.code) = Len(g.code)
  BY BranchTyped
<1>2. ASSUME NEW waiting, IsOpen(g) \/ IsClosed(g), Settled(g, waiting), b \in waiting
      PROVE  IsClosed(e) /\ Settled(e, waiting)
  BY <1>2, BranchSettled
<1> HIDE DEF e
<1>3. GenTyped(h) /\ SameRest(e, h) /\ h.insert = b /\ h.code = e.code
  BY <1>1, SetInsertPointTyped
<1>4. ASSUME NEW waiting, IsOpen(g) \/ IsClosed(g), Settled(g, waiting), b \in waiting
      PROVE  IsOpen(h) /\ Settled(h, waiting \ {b})
  BY <1>1, <1>2, <1>4, MoveOn
<1> HIDE DEF h
<1>5. SameRest(g, h)
  BY <1>1, <1>3 DEF SameRest
<1> QED BY <1>1, <1>3, <1>4, <1>5 DEF e, h

(* Three blocks in a row. *)
LEMMA BlockNumbers ==
  ASSUME NEW m \in Nat, NEW n \in 0 .. m - 3
  PROVE  n \in Nat /\ n + 1 \in 1 .. m /\ n + 2 \in 1 .. m /\ n + 3 \in 1 .. m
OBVIOUS

LEMMA NewNumbers ==
  ASSUME NEW n \in Nat
  PROVE  /\ n \in 0 .. (n + 3) - 3
         /\ n + 1 \in 1 .. n + 3 /\ n + 2 \in 1 .. n + 3 /\ n + 3 \in 1 .. n + 3
<1>1. n + 3 \in Nat /\ n \in 0 .. (n + 3) - 3
  OBVIOUS
<1> DEFINE m == n + 3
<1>2. m \in Nat /\ n \in 0 .. m - 3
  BY <1>1
<1> HIDE DEF m
<1>3. n + 1 \in 1 .. m /\ n + 2 \in 1 .. m /\ n + 3 \in 1 .. m
  BY <1>2, BlockNumbers
<1> QED BY <1>1, <1>3 DEF m

(* They are filled one by one. *)
LEMMA Filled ==
  ASSUME NEW n \in Nat, NEW w
  PROVE  /\ {n + 1, n + 2, n + 3} \cap w = {} =>
              ({n + 1, n + 2, n + 3} \cup w) \ {n + 1} = {n + 2, n + 3} \cup w
         /\ {n + 2, n + 3} \cap w = {} =>
              ({n + 2, n + 3} \cup w) \ {n + 2} = {n + 3} \cup w
         /\ {n + 3} \cap w = {} => ({n + 3} \cup w) \ {n + 3} = w
<1>1. n + 1 # n + 2 /\ n + 1 # n + 3 /\ n + 2 # n + 3
  OBVIOUS
<1> DEFINE a == n + 1
           b == n + 2
           c == n + 3
<1>2. a # b /\ a # c /\ b # c
  BY <1>1
<1> HIDE DEF a, b, c
<1>3. /\ {a, b, c} \cap w = {} => ({a, b, c} \cup w) \ {a} = {b, c} \cup w
      /\ {b, c} \cap w = {} => ({b, c} \cup w) \ {b} = {c} \cup w
      /\ {c} \cap w = {} => ({c} \cup w) \ {c} = w
  BY <1>2
<1> QED BY <1>3 DEF a, b, c

(* A condition to evaluate asks nothing of the stack but that it goes on. *)
LEMMA EvaluateFacts ==
  ASSUME NEW c \in Condition, NEW n, NEW t
  PROVE  LET x == Evaluate(c)
         IN  /\ x \in Task(n, t) /\ Waiting(x) = {} /\ ~Ends(x) /\ ~IsLoop(x) /\ ~EndsInJump(x)
             /\ \A S : Covered(x, S)
<1> DEFINE x == Evaluate(c)
<1>1. x.kind = "condition" /\ x \in [kind : {"condition"}, condition : Condition]
  BY DEF Evaluate
<1> HIDE DEF x
<1>2. x \in Task(n, t)
  BY <1>1 DEF Task, Frame
<1>3. Waiting(x) = {} /\ ~Ends(x) /\ ~IsLoop(x)
  BY <1>1, NodesAreNoFrames
<1>4. ~EndsInJump(x) /\ \A S : Covered(x, S)
  BY <1>1 DEF EndsInJump, Covered, Terminators
<1> QED BY <1>2, <1>3, <1>4 DEF x

(* The operands of && and || are conditions. *)
LEMMA JunctionParts ==
  ASSUME NEW c \in Junctions
  PROVE  c.lhs \in Condition /\ c.rhs \in Condition /\ GoesOn(c) \in BOOLEAN
BY DEF Junctions, GoesOn

-----------------------------------------------------------------------------
(* Conditions. *)

LEMMA TempTyped ==
  ASSUME NEW g, GenTyped(g)
  PROVE  LET h == [g EXCEPT !.temps = g.temps + 1]
         IN  /\ GenTyped(h) /\ h.temps = g.temps + 1
             /\ h.todo = g.todo /\ h.code = g.code /\ h.insert = g.insert
             /\ h.prologue = g.prologue
             /\ h.break = g.break /\ h.continue = g.continue /\ h.aborted = g.aborted
<1> DEFINE h == [g EXCEPT !.temps = g.temps + 1]
           n == Len(g.code)
           u == g.temps + 1
<1>1. /\ g.temps \in Nat /\ n \in Nat
      /\ g = [todo |-> g.todo, code |-> g.code, insert |-> g.insert, prologue |-> g.prologue,
              break |-> g.break, continue |-> g.continue, temps |-> g.temps,
              aborted |-> g.aborted]
      /\ g.todo \in Seq(Task(n, g.temps)) /\ g.code \in Seq(Seq(Instructions(n, g.temps)))
  BY GenFields
<1>2. h = [todo |-> g.todo, code |-> g.code, insert |-> g.insert, prologue |-> g.prologue,
           break |-> g.break, continue |-> g.continue, temps |-> u,
           aborted |-> g.aborted]
  <2>1. h = [g EXCEPT !.temps = u]
    OBVIOUS
  <2> HIDE DEF h, u
  <2> QED BY <1>1, <2>1
<1>3. u \in Nat /\ g.temps <= u /\ n <= n
  BY <1>1
<1> DEFINE A == Task(n, g.temps)
           B == Task(n, u)
           I == Instructions(n, g.temps)
           J == Instructions(n, u)
<1>4. A \subseteq B /\ I \subseteq J
  <2> HIDE DEF n, u
  <2> QED BY <1>1, <1>3, TypesGrow
<1>5. g.todo \in Seq(B)
  <2>1. g.todo \in Seq(A)
    BY <1>1
  <2> HIDE DEF A, B
  <2> QED BY <1>4, <2>1
<1>6. g.code \in Seq(Seq(J))
  <2>1. g.code \in Seq(Seq(I))
    BY <1>1
  <2> HIDE DEF I, J
  <2>2. Seq(I) \subseteq Seq(J)
    BY <1>4
  <2> DEFINE K == Seq(I)
             L == Seq(J)
  <2>3. g.code \in Seq(K) /\ K \subseteq L
    BY <2>1, <2>2
  <2> HIDE DEF K, L
  <2>4. g.code \in Seq(L)
    BY <2>3
  <2> QED BY <2>4 DEF L
<1> HIDE DEF h, u
<1>7. /\ h.todo = g.todo /\ h.code = g.code /\ h.insert = g.insert /\ h.prologue = g.prologue
      /\ h.break = g.break /\ h.continue = g.continue /\ h.temps = u
      /\ h.aborted = g.aborted
  BY <1>2
<1>8. h.todo \in Seq(Task(n, h.temps)) /\ h.code \in Seq(Seq(Instructions(n, h.temps)))
  BY <1>5, <1>6, <1>7
<1>9. GenTyped(h)
  BY <1>2, <1>3, <1>7, <1>8, GenFields, MakeGen
<1> QED BY <1>7, <1>9 DEF h, u

LEMMA ShortCircuitStep ==
  ASSUME NEW g, GenTyped(g), NEW t, t.kind = "condition", NEW c \in Junctions
  PROVE  Steps(g, t, ShortCircuit(g, c))
<1> DEFINE n == Len(g.code)
           u == g.temps + 1
           g0 == [g EXCEPT !.temps = u]
           i == Set(u, ~GoesOn(c))
           g1 == Emit(g0, i)
           g2 == NewBlocks(g1, 3)
           x == Evaluate(c.lhs)
           y == [kind |-> "lhsDone", condition |-> c, blocks |-> n, temp |-> u]
<1>1. ShortCircuit(g, c) = GenerateThen(g2, x, y)
  BY DEF ShortCircuit
<1>2. /\ GenTyped(g0) /\ g0.temps = u
      /\ g0.todo = g.todo /\ g0.code = g.code /\ g0.insert = g.insert
      /\ g0.break = g.break /\ g0.continue = g.continue /\ g0.aborted = g.aborted
  BY TempTyped
<1>3. u \in Nat /\ u \in 1 .. u /\ n \in Nat /\ n \in 0 .. (n + 3) - 3
  <2>1. g.temps \in Nat /\ n \in Nat
    BY GenFields
  <2> QED BY <2>1
<1>4. i \in Instructions(n, u) /\ i.op \notin EndsBlock
  <2>1. i \in [op : {"set"}, temp : 1 .. u, value : BOOLEAN]
    BY <1>3 DEF Set
  <2> HIDE DEF i
  <2> QED BY <2>1 DEF Instructions, EndsBlock
<1> HIDE DEF g0, i
<1>5. i \in Instructions(Len(g0.code), g0.temps)
  BY <1>2, <1>4
<1>6. GenTyped(g1) /\ SameRest(g0, g1) /\ Len(g1.code) = n
  <2>1. GenTyped(g0)
    BY <1>2
  <2>2. GenTyped(Emit(g0, i)) /\ SameRest(g0, Emit(g0, i)) /\ Len(Emit(g0, i).code) = Len(g0.code)
    BY <1>5, <2>1, EmitTyped
  <2> QED BY <1>2, <2>2
<1> HIDE DEF g1
<1>7. GenTyped(g2) /\ SameRest(g1, g2) /\ Len(g2.code) = n + 3
  BY <1>6, NewBlocksFacts
<1>8. /\ g2.todo = g.todo /\ g2.temps = u /\ g2.break = g.break /\ g2.continue = g.continue
      /\ g2.aborted = g.aborted
  BY <1>2, <1>6, <1>7 DEF SameRest
<1>9. ASSUME NEW waiting, IsOpen(g), Settled(g, waiting)
      PROVE  /\ IsOpen(g2) /\ Settled(g2, {n + 1, n + 2, n + 3} \cup waiting)
             /\ {n + 1, n + 2, n + 3} \cap waiting = {}
  <2>1. IsOpen(g0) /\ Settled(g0, waiting)
    BY <1>2, <1>9, SettledDependsOn
  <2>2. IsOpen(g1) /\ Settled(g1, waiting)
    BY <1>2, <1>4, <1>5, <2>1, EmitPlain DEF g1
  <2> QED BY <1>6, <2>2, NewBlocksSettled
<1> HIDE DEF g2, x
<1>10. /\ x \in Task(n + 3, u) /\ Waiting(x) = {} /\ ~Ends(x) /\ ~IsLoop(x) /\ ~EndsInJump(x)
       /\ \A S : Covered(x, S)
  BY JunctionParts, EvaluateFacts DEF x
<1>11. y \in Task(n + 3, u)
  <2>1. y \in [kind : {"lhsDone", "rhsDone"}, condition : Junctions,
               blocks : 0 .. (n + 3) - 3, temp : 1 .. u]
    <3> HIDE DEF n, u
    <3> QED BY <1>3
  <2> HIDE DEF y
  <2> QED BY <2>1 DEF Task, Frame
<1>12. y.kind = "lhsDone" /\ y.blocks = n
  OBVIOUS
<1> HIDE DEF y, n, u
<1>13. /\ Waiting(y) = {n + 1, n + 2, n + 3} /\ ~IsLoop(y) /\ ~EndsInJump(y)
       /\ \A S : Covered(y, S)
  BY <1>12 DEF Waiting, IsLoop, EndsInJump, Covered, Terminators
<1>14. x \in Task(Len(g2.code), g2.temps) /\ y \in Task(Len(g2.code), g2.temps)
  BY <1>7, <1>8, <1>10, <1>11
<1>15. ASSUME Ready(g, t) PROVE Valid(GenerateThen(g2, x, y))
  <2>1. Waiting(t) = {} /\ ~Ends(t) /\ ~IsLoop(t)
    BY NodesAreNoFrames
  <2>2. IsOpen(g) /\ Settled(g, AllWaiting(g.todo))
    BY <1>15, <2>1 DEF Ready
  <2>3. g.todo # <<>>
    BY <1>15 DEF Ready, Fits, EndsInJump, Terminators
  <2>4. /\ IsOpen(g2) /\ Settled(g2, Waiting(y) \cup AllWaiting(g2.todo))
        /\ Waiting(y) \cap AllWaiting(g2.todo) = {}
    BY <1>8, <1>9, <1>13, <2>2
  <2>5. Fits(y, g2.todo)
    BY <1>8, <1>13, <2>3, <2>4 DEF Fits
  <2>6. /\ ~g2.aborted /\ Stack(g2.todo)
        /\ (g2.break = 0 \/ g2.continue = 0 => ~IsLoop(y) /\ ~InLoop(g2.todo))
    BY <1>8, <1>13, <1>15 DEF Ready
  <2> QED BY <1>7, <1>10, <1>14, <2>4, <2>5, <2>6, ThenValid
<1>16. GenTyped(GenerateThen(g2, x, y))
  BY <1>7, <1>14, ThenTyped
<1> QED BY <1>1, <1>15, <1>16 DEF Steps

LEMMA LhsDoneStep ==
  ASSUME NEW g, GenTyped(g), NEW t \in Frame(Len(g.code), g.temps), t.kind = "lhsDone"
  PROVE  Steps(g, t, LhsDone(g, t))
<1> DEFINE m == Len(g.code)
           n == t.blocks
           F == [kind : {"lhsDone", "rhsDone"}, condition : Junctions, blocks : 0 .. m - 3,
                 temp : 1 .. g.temps]
           i == CondBr(GoesOn(t.condition), n + 1, n + 3)
           h == SetInsertPoint(Emit(g, i), n + 1)
           x == Evaluate(t.condition.rhs)
           y == [t EXCEPT !.kind = "rhsDone"]
<1>1. LhsDone(g, t) = GenerateThen(h, x, y)
  BY DEF LhsDone
<1>2. t \in F /\ m \in Nat
  BY FrameParts, GenFields
<1>3. t.condition \in Junctions /\ n \in Nat /\ n + 1 \in 1 .. m /\ n + 2 \in 1 .. m /\ n + 3 \in 1 .. m
  <2>1. t.condition \in Junctions /\ n \in 0 .. m - 3
    BY <1>2
  <2> HIDE DEF m, n
  <2> QED BY <1>2, <2>1, BlockNumbers
<1>4. i \in Instructions(m, g.temps) /\ i.op \in EndsBlock
  <2>1. i \in [op : {"cbr"}, when : BOOLEAN, to : 1 .. m, other : 1 .. m]
    BY <1>3, JunctionParts DEF CondBr
  <2> HIDE DEF i
  <2> QED BY <2>1 DEF Instructions, EndsBlock
<1> HIDE DEF i
<1>5. /\ GenTyped(h) /\ SameRest(g, h) /\ Len(h.code) = m
      /\ \A waiting : IsOpen(g) /\ Settled(g, waiting) /\ n + 1 \in waiting =>
           IsOpen(h) /\ Settled(h, waiting \ {n + 1})
  BY <1>3, <1>4, EndAndMoveOn
<1>6. /\ h.todo = g.todo /\ h.temps = g.temps /\ h.break = g.break /\ h.continue = g.continue
      /\ h.aborted = g.aborted
  BY <1>5 DEF SameRest
<1>7. /\ x \in Task(m, g.temps) /\ Waiting(x) = {} /\ ~Ends(x) /\ ~IsLoop(x) /\ ~EndsInJump(x)
      /\ \A S : Covered(x, S)
  BY <1>3, JunctionParts, EvaluateFacts
<1>8. y \in F /\ y.kind = "rhsDone" /\ y.blocks = n
  BY <1>2
<1>9. y \in Task(m, g.temps)
  <2> HIDE DEF y
  <2> QED BY <1>8 DEF Task, Frame
<1> HIDE DEF h, x, y, F
<1>10. /\ Waiting(y) = {n + 2, n + 3} /\ ~IsLoop(y) /\ ~EndsInJump(y)
       /\ \A S : Covered(y, S)
  BY <1>8 DEF Waiting, IsLoop, EndsInJump, Covered, Terminators
<1>11. x \in Task(Len(h.code), h.temps) /\ y \in Task(Len(h.code), h.temps)
  BY <1>5, <1>6, <1>7, <1>9
<1>12. Waiting(t) = {n + 1, n + 2, n + 3} /\ ~Ends(t) /\ ~EndsInJump(t)
  BY DEF Waiting, Ends, EndsInJump, Terminators
<1> HIDE DEF n
<1>13. ASSUME Ready(g, t) PROVE Valid(GenerateThen(h, x, y))
  <2>1. /\ IsOpen(g) /\ Settled(g, {n + 1, n + 2, n + 3} \cup AllWaiting(g.todo))
        /\ {n + 1, n + 2, n + 3} \cap AllWaiting(g.todo) = {} /\ g.todo # <<>>
    BY <1>12, <1>13 DEF Ready, Fits
  <2>2. ({n + 1, n + 2, n + 3} \cup AllWaiting(g.todo)) \ {n + 1}
          = {n + 2, n + 3} \cup AllWaiting(g.todo)
    BY <1>3, <2>1, Filled
  <2>3. IsOpen(h) /\ Settled(h, {n + 2, n + 3} \cup AllWaiting(g.todo))
    <3>1. n + 1 \in {n + 1, n + 2, n + 3} \cup AllWaiting(g.todo)
      OBVIOUS
    <3> QED BY <1>5, <2>1, <2>2, <3>1
  <2>4. Settled(h, Waiting(y) \cup AllWaiting(h.todo))
    BY <1>6, <1>10, <2>3
  <2>5. Fits(y, h.todo)
    BY <1>6, <1>10, <2>1 DEF Fits
  <2>6. /\ ~h.aborted /\ Stack(h.todo)
        /\ (h.break = 0 \/ h.continue = 0 => ~IsLoop(y) /\ ~InLoop(h.todo))
    BY <1>6, <1>10, <1>13 DEF Ready
  <2> QED BY <1>5, <1>7, <1>11, <2>3, <2>4, <2>5, <2>6, <1>10, ThenValid
<1>14. GenTyped(GenerateThen(h, x, y))
  BY <1>5, <1>11, ThenTyped
<1> QED BY <1>1, <1>13, <1>14 DEF Steps

LEMMA RhsDoneStep ==
  ASSUME NEW g, GenTyped(g), NEW t \in Frame(Len(g.code), g.temps), t.kind = "rhsDone"
  PROVE  Steps(g, t, RhsDone(g, t))
<1> DEFINE m == Len(g.code)
           n == t.blocks
           F == [kind : {"lhsDone", "rhsDone"}, condition : Junctions, blocks : 0 .. m - 3,
                 temp : 1 .. g.temps]
           i == CondBr(GoesOn(t.condition), n + 2, n + 3)
           j == Set(t.temp, GoesOn(t.condition))
           g1 == SetInsertPoint(Emit(g, i), n + 2)
           g2 == Emit(g1, j)
           g3 == SetInsertPoint(Emit(g2, Br(n + 3)), n + 3)
           h == Emit(g3, Get(t.temp))
<1>1. RhsDone(g, t) = h
  BY DEF RhsDone
<1>2. t \in F /\ m \in Nat
  BY FrameParts, GenFields
<1>3. /\ t.condition \in Junctions /\ n \in Nat /\ n + 2 \in 1 .. m /\ n + 3 \in 1 .. m
      /\ t.temp \in 1 .. g.temps
  <2>1. t.condition \in Junctions /\ n \in 0 .. m - 3 /\ t.temp \in 1 .. g.temps
    BY <1>2
  <2> HIDE DEF m, n
  <2> QED BY <1>2, <2>1, BlockNumbers
<1> HIDE DEF n, m, F
<1>4. i \in Instructions(m, g.temps) /\ i.op \in EndsBlock
  <2>1. i \in [op : {"cbr"}, when : BOOLEAN, to : 1 .. m, other : 1 .. m]
    BY <1>3, JunctionParts DEF CondBr
  <2> HIDE DEF i
  <2> QED BY <2>1 DEF Instructions, EndsBlock
<1>5. j \in Instructions(m, g.temps) /\ j.op \notin EndsBlock
  <2>1. j \in [op : {"set"}, temp : 1 .. g.temps, value : BOOLEAN]
    BY <1>3, JunctionParts DEF Set
  <2> HIDE DEF j
  <2> QED BY <2>1 DEF Instructions, EndsBlock
<1>6. Br(n + 3) \in Instructions(m, g.temps) /\ Br(n + 3).op \in EndsBlock
  BY <1>3 DEF Br, Instructions, EndsBlock
<1>7. Get(t.temp) \in Instructions(m, g.temps) /\ Get(t.temp).op \notin EndsBlock
  BY <1>3 DEF Get, Instructions, EndsBlock
<1> DEFINE i3 == Br(n + 3)
           i4 == Get(t.temp)
<1> HIDE DEF i, j
<1>8. /\ GenTyped(g1) /\ SameRest(g, g1) /\ Len(g1.code) = m
      /\ \A waiting : IsOpen(g) /\ Settled(g, waiting) /\ n + 2 \in waiting =>
           IsOpen(g1) /\ Settled(g1, waiting \ {n + 2})
  BY <1>3, <1>4, EndAndMoveOn DEF m
<1>9. j \in Instructions(Len(g1.code), g1.temps)
  BY <1>5, <1>8 DEF SameRest
<1> HIDE DEF g1
<1>10. /\ GenTyped(g2) /\ SameRest(g1, g2) /\ Len(g2.code) = m
       /\ \A waiting : IsOpen(g1) /\ Settled(g1, waiting) => IsOpen(g2) /\ Settled(g2, waiting)
  <2>1. GenTyped(g2) /\ SameRest(g1, g2) /\ Len(g2.code) = Len(g1.code)
    BY <1>8, <1>9, EmitTyped
  <2>2. ASSUME NEW waiting, IsOpen(g1), Settled(g1, waiting)
        PROVE  IsOpen(g2) /\ Settled(g2, waiting)
    BY <1>5, <1>8, <1>9, <2>2, EmitPlain
  <2> QED BY <1>8, <2>1, <2>2
<1>11. i3 \in Instructions(Len(g2.code), g2.temps) /\ i3.op \in EndsBlock
       /\ n + 3 \in 1 .. Len(g2.code)
  BY <1>3, <1>6, <1>8, <1>10 DEF SameRest
<1> HIDE DEF g2, i3
<1>12. /\ GenTyped(g3) /\ SameRest(g2, g3) /\ Len(g3.code) = m
       /\ \A waiting : IsOpen(g2) /\ Settled(g2, waiting) /\ n + 3 \in waiting =>
            IsOpen(g3) /\ Settled(g3, waiting \ {n + 3})
  <2>1. g3 = SetInsertPoint(Emit(g2, i3), n + 3)
    BY DEF i3
  <2> HIDE DEF g3
  <2> QED BY <1>10, <1>11, <2>1, EndAndMoveOn
<1>13. i4 \in Instructions(Len(g3.code), g3.temps) /\ i4.op \notin EndsBlock
  BY <1>7, <1>8, <1>10, <1>12 DEF SameRest
<1> HIDE DEF g3, i4
<1>14. /\ GenTyped(h) /\ SameRest(g3, h)
       /\ \A waiting : IsOpen(g3) /\ Settled(g3, waiting) => IsOpen(h) /\ Settled(h, waiting)
  <2>1. h = Emit(g3, i4)
    BY DEF i4
  <2> HIDE DEF h
  <2>2. GenTyped(h) /\ SameRest(g3, h)
    BY <1>12, <1>13, <2>1, EmitTyped
  <2>3. ASSUME NEW waiting, IsOpen(g3), Settled(g3, waiting)
        PROVE  IsOpen(h) /\ Settled(h, waiting)
    BY <1>12, <1>13, <2>1, <2>3, EmitPlain
  <2> QED BY <2>2, <2>3
<1> HIDE DEF h
<1>15. /\ h.todo = g.todo /\ h.break = g.break /\ h.continue = g.continue
       /\ h.aborted = g.aborted
  BY <1>8, <1>10, <1>12, <1>14 DEF SameRest
<1>16. Waiting(t) = {n + 2, n + 3} /\ ~Ends(t) /\ ~EndsInJump(t)
  BY DEF Waiting, Ends, EndsInJump, Terminators, n
<1>17. ASSUME Ready(g, t) PROVE Valid(h)
  <2> DEFINE w == AllWaiting(g.todo)
  <2>1. /\ IsOpen(g) /\ Settled(g, {n + 2, n + 3} \cup w)
        /\ {n + 2, n + 3} \cap w = {} /\ g.todo # <<>>
    BY <1>16, <1>17 DEF Ready, Fits
  <2> HIDE DEF w
  <2>2. /\ ({n + 2, n + 3} \cup w) \ {n + 2} = {n + 3} \cup w
        /\ ({n + 3} \cup w) \ {n + 3} = w
    <3>1. {n + 3} \cap w = {}
      BY <2>1
    <3> QED BY <1>3, <2>1, <3>1, Filled
  <2>3. IsOpen(g1) /\ Settled(g1, {n + 3} \cup w)
    <3>1. n + 2 \in {n + 2, n + 3} \cup w
      OBVIOUS
    <3> QED BY <1>8, <2>1, <2>2, <3>1
  <2>4. IsOpen(g2) /\ Settled(g2, {n + 3} \cup w)
    BY <1>10, <2>3
  <2>5. IsOpen(g3) /\ Settled(g3, w)
    <3>1. n + 3 \in {n + 3} \cup w
      OBVIOUS
    <3> QED BY <1>12, <2>2, <2>4, <3>1
  <2>6. IsOpen(h) /\ Settled(h, AllWaiting(h.todo))
    BY <1>14, <1>15, <2>5 DEF w
  <2> QED BY <1>15, <1>17, <2>1, <2>6, PopValid DEF Ready
<1> QED BY <1>1, <1>14, <1>17 DEF Steps

LEMMA GenerateConditionStep ==
  ASSUME NEW g, GenTyped(g), NEW t, t.kind = "condition", t.condition \in Condition
  PROVE  Steps(g, t, GenerateCondition(g, t.condition))
<1> DEFINE c == t.condition
<1>1. c \in Questions \cup Compares \cup Junctions
  BY ConditionAssumption
<1>2. CASE c.op \in {"and", "or"}
  <2>1. c \in Junctions
    BY <1>1, <1>2 DEF Questions, Compares
  <2>2. GenerateCondition(g, c) = ShortCircuit(g, c)
    BY <1>2 DEF GenerateCondition
  <2> QED BY <2>1, <2>2, ShortCircuitStep
<1>3. CASE c.op \notin {"and", "or"}
  <2>1. c \in Questions \cup Compares
    BY <1>1, <1>3 DEF Junctions
  <2>2. c \in Instructions(Len(g.code), g.temps)
    BY <2>1 DEF Instructions
  <2>3. c.op \notin EndsBlock
    BY <2>1 DEF Questions, Compares, EndsBlock
  <2>4. GenerateCondition(g, c) = Emit(g, c)
    BY <1>3 DEF GenerateCondition
  <2>5. ~EndsInJump(t)
    BY DEF EndsInJump, Terminators
  <2> QED BY <2>2, <2>3, <2>4, <2>5, PlainStep
<1> QED BY <1>2, <1>3

-----------------------------------------------------------------------------
(* If statements. *)

LEMMA GenerateIfStep ==
  ASSUME NEW g, GenTyped(g), NEW t \in Node, t.kind = "if"
  PROVE  Steps(g, t, GenerateIf(g, t))
<1> DEFINE x == Evaluate(t.condition)
           y == [kind |-> "ifDecided", then |-> t.then, else |-> t.else]
           T == Task(Len(g.code), g.temps)
<1>1. GenerateIf(g, t) = GenerateThen(g, x, y)
  BY DEF GenerateIf
<1>2. t.condition \in Condition /\ t.then \in Blocks /\ t.else \in Blocks
  BY NodeParts
<1>3. /\ x \in T /\ Waiting(x) = {} /\ ~Ends(x) /\ ~IsLoop(x) /\ ~EndsInJump(x)
      /\ \A S : Covered(x, S)
  BY <1>2, EvaluateFacts
<1>4. y \in T
  <2>1. y \in [kind : {"ifDecided"}, then : Blocks, else : Blocks]
    BY <1>2
  <2> HIDE DEF y
  <2> QED BY <2>1 DEF Task, Frame
<1>5. y.kind = "ifDecided" /\ y.then = t.then /\ y.else = t.else
  OBVIOUS
<1> HIDE DEF x, y
<1>6. /\ Waiting(y) = {} /\ ~IsLoop(y) /\ ~EndsInJump(y)
      /\ \A S : Covered(y, S) <=> Own(t.then) \cup Own(t.else) \subseteq S
  BY <1>5 DEF Waiting, IsLoop, EndsInJump, Covered, Terminators
<1>7. Waiting(t) = {} /\ ~Ends(t) /\ ~IsLoop(t) /\ ~EndsInJump(t)
  BY NodesAreNoFrames DEF NodeKinds, EndsInJump, Terminators
<1>8. ASSUME NEW S, NEW kinds, Closed(S, kinds), "if" \in kinds, Covered(t, S)
      PROVE  Covered(y, S)
  <2>1. t \in S
    BY <1>8 DEF Covered
  <2>2. t.then \in Parts(t) /\ t.else \in Parts(t)
    BY DEF Parts
  <2>3. Own(t.then) \subseteq S /\ Own(t.else) \subseteq S
    BY <1>8, <2>1, <2>2 DEF Closed
  <2> QED BY <1>6, <2>3
<1>9. ASSUME prog \in Programs, Ready(g, t) PROVE Valid(GenerateThen(g, x, y))
  <2>1. Closed(All, {"if", "while", "for", "block"}) /\ Closed(Outside, {"if", "for", "block"})
    BY <1>9, ProgramIsClosed
  <2>2. (Covered(t, All) => Covered(y, All)) /\ (Covered(t, Outside) => Covered(y, Outside))
    BY <1>8, <2>1
  <2>3. IsOpen(g) /\ Settled(g, AllWaiting(g.todo)) /\ g.todo # <<>>
    BY <1>7, <1>9 DEF Ready, Fits
  <2>4. Covered(y, All) /\ (InLoop(g.todo) \/ Covered(y, Outside))
    BY <1>7, <1>9, <2>2 DEF Ready, Fits
  <2>5. Fits(y, g.todo) /\ Settled(g, Waiting(y) \cup AllWaiting(g.todo))
    BY <1>6, <2>3, <2>4 DEF Fits
  <2>6. /\ ~g.aborted /\ Stack(g.todo)
        /\ (g.break = 0 \/ g.continue = 0 => ~IsLoop(y) /\ ~InLoop(g.todo))
    BY <1>6, <1>9 DEF Ready
  <2> QED BY <1>3, <1>4, <2>3, <2>5, <2>6, ThenValid
<1>10. GenTyped(GenerateThen(g, x, y))
  BY <1>3, <1>4, ThenTyped
<1> QED BY <1>1, <1>9, <1>10 DEF Steps

(* A block whose statements are covered is. *)
LEMMA BlockFacts ==
  ASSUME NEW b \in Blocks, NEW n, NEW t
  PROVE  /\ b \in Task(n, t) /\ Waiting(b) = {} /\ ~Ends(b) /\ ~IsLoop(b)
         /\ \A S : Covered(b, S) <=> Own(b) \subseteq S
<1>1. b \in Node /\ b.kind = "block" /\ b.kind \in NodeKinds
  BY BlockParts
<1> QED BY <1>1, NodesAreNoFrames DEF Task, Covered

LEMMA IfDecidedStep ==
  ASSUME NEW g, GenTyped(g), NEW t \in Frame(Len(g.code), g.temps), t.kind = "ifDecided"
  PROVE  Steps(g, t, IfDecided(g, t))
<1> DEFINE n == Len(g.code)
           g1 == NewBlocks(g, 3)
           i == CondBr(TRUE, n + 1, n + 2)
           h == SetInsertPoint(Emit(g1, i), n + 1)
           x == t.then
           y == [kind |-> "thenDone", else |-> t.else, blocks |-> n]
<1>1. IfDecided(g, t) = GenerateThen(h, x, y)
  BY DEF IfDecided
<1>2. t.then \in Blocks /\ t.else \in Blocks /\ n \in Nat
  BY FrameParts, GenFields
<1>3. /\ GenTyped(g1) /\ SameRest(g, g1) /\ Len(g1.code) = n + 3
      /\ \A waiting : IsOpen(g) /\ Settled(g, waiting) =>
           /\ IsOpen(g1) /\ Settled(g1, {n + 1, n + 2, n + 3} \cup waiting)
           /\ {n + 1, n + 2, n + 3} \cap waiting = {}
  BY NewBlocksFacts, NewBlocksSettled
<1> HIDE DEF g1, n
<1>4. n \in 0 .. (n + 3) - 3 /\ n + 1 \in 1 .. n + 3 /\ n + 2 \in 1 .. n + 3 /\ n + 3 \in 1 .. n + 3
  BY <1>2, NewNumbers
<1>5. i \in Instructions(Len(g1.code), g1.temps) /\ i.op \in EndsBlock
  <2>1. i \in [op : {"cbr"}, when : BOOLEAN, to : 1 .. n + 3, other : 1 .. n + 3]
    BY <1>4 DEF CondBr
  <2> HIDE DEF i
  <2> QED BY <1>3, <2>1 DEF Instructions, EndsBlock
<1> HIDE DEF i
<1>6. n + 1 \in 1 .. Len(g1.code)
  BY <1>3, <1>4
<1>7. /\ GenTyped(h) /\ SameRest(g1, h) /\ Len(h.code) = n + 3
      /\ \A waiting : IsOpen(g1) /\ Settled(g1, waiting) /\ n + 1 \in waiting =>
           IsOpen(h) /\ Settled(h, waiting \ {n + 1})
  BY <1>3, <1>5, <1>6, EndAndMoveOn
<1> HIDE DEF h
<1>8. /\ h.todo = g.todo /\ h.temps = g.temps /\ h.break = g.break /\ h.continue = g.continue
      /\ h.aborted = g.aborted
  BY <1>3, <1>7 DEF SameRest
<1>9. /\ x \in Task(Len(h.code), h.temps) /\ Waiting(x) = {} /\ ~Ends(x) /\ ~IsLoop(x)
      /\ \A S : Covered(x, S) <=> Own(t.then) \subseteq S
  BY <1>2, BlockFacts
<1>10. y \in Task(Len(h.code), h.temps)
  <2>1. y \in [kind : {"thenDone"}, else : Blocks, blocks : 0 .. (n + 3) - 3]
    BY <1>2, <1>4
  <2> HIDE DEF y
  <2> QED BY <1>7, <2>1 DEF Task, Frame
<1>11. y.kind = "thenDone" /\ y.blocks = n /\ y.else = t.else
  OBVIOUS
<1> HIDE DEF x, y
<1>12. /\ Waiting(y) = {n + 2, n + 3} /\ ~IsLoop(y) /\ ~EndsInJump(y) /\ Ends(y)
       /\ \A S : Covered(y, S) <=> Own(t.else) \subseteq S
  BY <1>11 DEF Waiting, IsLoop, Ends, EndsInJump, Covered, Terminators
<1>13. /\ Waiting(t) = {} /\ ~Ends(t) /\ ~EndsInJump(t) /\ ~IsLoop(t)
       /\ \A S : Covered(t, S) <=> Own(t.then) \cup Own(t.else) \subseteq S
  BY DEF Waiting, Ends, EndsInJump, Terminators, Covered, IsLoop
<1>14. ASSUME Ready(g, t) PROVE Valid(GenerateThen(h, x, y))
  <2> DEFINE w == AllWaiting(g.todo)
  <2>1. IsOpen(g) /\ Settled(g, w) /\ g.todo # <<>>
    BY <1>13, <1>14 DEF Ready, Fits
  <2>2. Covered(t, All) /\ (InLoop(g.todo) \/ Covered(t, Outside))
    BY <1>13, <1>14 DEF Ready, Fits
  <2>3. /\ Covered(x, All) /\ (InLoop(g.todo) \/ Covered(x, Outside))
        /\ Covered(y, All) /\ (InLoop(g.todo) \/ Covered(y, Outside))
    BY <1>9, <1>12, <1>13, <2>2
  <2> HIDE DEF w
  <2>4. /\ IsOpen(g1) /\ Settled(g1, {n + 1, n + 2, n + 3} \cup w)
        /\ {n + 1, n + 2, n + 3} \cap w = {}
    BY <1>3, <2>1
  <2>5. ({n + 1, n + 2, n + 3} \cup w) \ {n + 1} = {n + 2, n + 3} \cup w
    BY <1>2, <2>4, Filled
  <2>6. IsOpen(h) /\ Settled(h, {n + 2, n + 3} \cup w)
    <3>1. n + 1 \in {n + 1, n + 2, n + 3} \cup w
      OBVIOUS
    <3> QED BY <1>7, <2>4, <2>5, <3>1
  <2>7. Settled(h, Waiting(y) \cup AllWaiting(h.todo)) /\ Waiting(y) \cap AllWaiting(h.todo) = {}
    BY <1>8, <1>12, <2>4, <2>6 DEF w
  <2>8. Fits(y, h.todo)
    BY <1>8, <1>12, <2>1, <2>3, <2>7 DEF Fits
  <2>9. /\ ~h.aborted /\ Stack(h.todo)
        /\ (h.break = 0 \/ h.continue = 0 => ~IsLoop(y) /\ ~InLoop(h.todo))
    BY <1>8, <1>12, <1>14 DEF Ready
  <2>10. InLoop(h.todo) \/ Covered(x, Outside)
    BY <1>8, <2>3
  <2> QED BY <1>7, <1>9, <1>10, <1>12, <2>3, <2>6, <2>7, <2>8, <2>9, <2>10, ThenValid
<1>15. GenTyped(GenerateThen(h, x, y))
  BY <1>7, <1>9, <1>10, ThenTyped
<1> QED BY <1>1, <1>14, <1>15 DEF Steps

LEMMA ThenDoneStep ==
  ASSUME NEW g, GenTyped(g), NEW t \in Frame(Len(g.code), g.temps), t.kind = "thenDone"
  PROVE  Steps(g, t, ThenDone(g, t))
<1> DEFINE m == Len(g.code)
           n == t.blocks
           h == SetInsertPoint(BrUnlessTerminated(g, n + 3), n + 2)
           x == t.else
           y == [kind |-> "elseDone", blocks |-> n]
<1>1. ThenDone(g, t) = GenerateThen(h, x, y)
  BY DEF ThenDone
<1>2. t.else \in Blocks /\ n \in 0 .. m - 3 /\ m \in Nat
  BY FrameParts, GenFields
<1>3. /\ Waiting(t) = {n + 2, n + 3} /\ ~EndsInJump(t) /\ ~IsLoop(t)
      /\ \A S : Covered(t, S) <=> Own(t.else) \subseteq S
  BY DEF Waiting, EndsInJump, Terminators, Covered, IsLoop
<1> HIDE DEF n
<1>4. n \in Nat /\ n + 2 \in 1 .. m /\ n + 3 \in 1 .. m
  <2> HIDE DEF m
  <2> QED BY <1>2, BlockNumbers
<1>5. /\ GenTyped(h) /\ SameRest(g, h) /\ Len(h.code) = m
      /\ \A waiting : (IsOpen(g) \/ IsClosed(g)) /\ Settled(g, waiting) /\ n + 2 \in waiting =>
           IsOpen(h) /\ Settled(h, waiting \ {n + 2})
  BY <1>4, BranchAndMoveOn
<1> HIDE DEF h
<1>6. /\ h.todo = g.todo /\ h.temps = g.temps /\ h.break = g.break /\ h.continue = g.continue
      /\ h.aborted = g.aborted
  BY <1>5 DEF SameRest
<1>7. /\ x \in Task(Len(h.code), h.temps) /\ Waiting(x) = {} /\ ~Ends(x) /\ ~IsLoop(x)
      /\ \A S : Covered(x, S) <=> Own(t.else) \subseteq S
  BY <1>2, BlockFacts
<1>8. y \in Task(Len(h.code), h.temps)
  <2>1. y \in [kind : {"elseDone"}, blocks : 0 .. m - 3]
    BY <1>2
  <2> HIDE DEF y
  <2> QED BY <1>5, <2>1 DEF Task, Frame
<1>9. y.kind = "elseDone" /\ y.blocks = n
  OBVIOUS
<1> HIDE DEF x, y
<1>10. /\ Waiting(y) = {n + 3} /\ ~IsLoop(y) /\ ~EndsInJump(y) /\ Ends(y)
       /\ \A S : Covered(y, S)
  BY <1>9 DEF Waiting, IsLoop, Ends, EndsInJump, Covered, Terminators
<1>11. ASSUME Ready(g, t) PROVE Valid(GenerateThen(h, x, y))
  <2> DEFINE w == AllWaiting(g.todo)
  <2>1. /\ IsOpen(g) \/ IsClosed(g)
        /\ Settled(g, {n + 2, n + 3} \cup w)
        /\ {n + 2, n + 3} \cap w = {} /\ g.todo # <<>>
    BY <1>3, <1>11 DEF Ready, Fits
  <2>2. Covered(x, All) /\ (InLoop(g.todo) \/ Covered(x, Outside))
    BY <1>3, <1>7, <1>11 DEF Ready, Fits
  <2> HIDE DEF w
  <2>3. ({n + 2, n + 3} \cup w) \ {n + 2} = {n + 3} \cup w
    BY <1>4, <2>1, Filled
  <2>4. IsOpen(h) /\ Settled(h, {n + 3} \cup w)
    <3>1. n + 2 \in {n + 2, n + 3} \cup w
      OBVIOUS
    <3> QED BY <1>5, <2>1, <2>3, <3>1
  <2>5. Settled(h, Waiting(y) \cup AllWaiting(h.todo)) /\ Waiting(y) \cap AllWaiting(h.todo) = {}
    BY <1>6, <1>10, <2>1, <2>4 DEF w
  <2>6. Fits(y, h.todo)
    BY <1>6, <1>10, <2>1, <2>5 DEF Fits
  <2>7. /\ ~h.aborted /\ Stack(h.todo)
        /\ (h.break = 0 \/ h.continue = 0 => ~IsLoop(y) /\ ~InLoop(h.todo))
    BY <1>6, <1>10, <1>11 DEF Ready
  <2>8. InLoop(h.todo) \/ Covered(x, Outside)
    BY <1>6, <2>2
  <2> QED BY <1>5, <1>7, <1>8, <1>10, <2>2, <2>4, <2>5, <2>6, <2>7, <2>8, ThenValid
<1>12. GenTyped(GenerateThen(h, x, y))
  BY <1>5, <1>7, <1>8, ThenTyped
<1> QED BY <1>1, <1>11, <1>12 DEF Steps

LEMMA ElseDoneStep ==
  ASSUME NEW g, GenTyped(g), NEW t \in Frame(Len(g.code), g.temps), t.kind = "elseDone"
  PROVE  Steps(g, t, ElseDone(g, t))
<1> DEFINE m == Len(g.code)
           n == t.blocks
           h == SetInsertPoint(BrUnlessTerminated(g, n + 3), n + 3)
<1>1. ElseDone(g, t) = h
  BY DEF ElseDone
<1>2. n \in 0 .. m - 3 /\ m \in Nat
  BY FrameParts, GenFields
<1>3. Waiting(t) = {n + 3} /\ ~EndsInJump(t)
  BY DEF Waiting, EndsInJump, Terminators
<1> HIDE DEF n
<1>4. n \in Nat /\ n + 3 \in 1 .. m
  <2> HIDE DEF m
  <2> QED BY <1>2, BlockNumbers
<1>5. /\ GenTyped(h) /\ SameRest(g, h)
      /\ \A waiting : (IsOpen(g) \/ IsClosed(g)) /\ Settled(g, waiting) /\ n + 3 \in waiting =>
           IsOpen(h) /\ Settled(h, waiting \ {n + 3})
  BY <1>4, BranchAndMoveOn
<1> HIDE DEF h
<1>6. ASSUME Ready(g, t) PROVE Valid(h)
  <2> DEFINE w == AllWaiting(g.todo)
  <2>1. /\ IsOpen(g) \/ IsClosed(g)
        /\ Settled(g, {n + 3} \cup w)
        /\ {n + 3} \cap w = {} /\ g.todo # <<>>
    BY <1>3, <1>6 DEF Ready, Fits
  <2> HIDE DEF w
  <2>2. ({n + 3} \cup w) \ {n + 3} = w
    BY <1>4, <2>1, Filled
  <2>3. IsOpen(h) /\ Settled(h, w)
    <3>1. n + 3 \in {n + 3} \cup w
      OBVIOUS
    <3> QED BY <1>5, <2>1, <2>2, <3>1
  <2>4. h.todo = g.todo /\ h.aborted = g.aborted /\ h.break = g.break /\ h.continue = g.continue
    BY <1>5 DEF SameRest
  <2> QED BY <1>6, <2>1, <2>3, <2>4, PopValid DEF Ready, w
<1> QED BY <1>1, <1>5, <1>6 DEF Steps

-----------------------------------------------------------------------------
(* While loops. *)

(* The members that a loop sets. *)
LEMMA TargetsTyped ==
  ASSUME NEW g, GenTyped(g), NEW p \in Seq(Assignments),
         NEW a \in 0 .. Len(g.code), NEW b \in 0 .. Len(g.code),
         NEW h, h = [todo |-> g.todo, code |-> g.code, insert |-> g.insert, prologue |-> p,
                     break |-> a, continue |-> b, temps |-> g.temps, aborted |-> g.aborted]
  PROVE  /\ GenTyped(h)
         /\ h.prologue = p /\ h.break = a /\ h.continue = b
         /\ h.todo = g.todo /\ h.code = g.code /\ h.insert = g.insert
         /\ h.temps = g.temps /\ h.aborted = g.aborted
<1>1. /\ h.todo = g.todo /\ h.code = g.code /\ h.insert = g.insert /\ h.prologue = p
      /\ h.break = a /\ h.continue = b /\ h.temps = g.temps
      /\ h.aborted = g.aborted
  OBVIOUS
<1>2. GenTyped(h)
  BY <1>1, GenFields, MakeGen
<1> QED BY <1>1, <1>2

(* The assert at the start of a loop. *)
LEMMA AbortTyped ==
  ASSUME NEW g, GenTyped(g), NEW a \in BOOLEAN
  PROVE  LET h == [g EXCEPT !.aborted = @ \/ a]
         IN  /\ GenTyped(h) /\ (~a => h = g)
             /\ h.todo = g.todo /\ h.code = g.code /\ h.insert = g.insert
             /\ h.prologue = g.prologue /\ h.break = g.break /\ h.continue = g.continue
             /\ h.temps = g.temps
<1> DEFINE h == [g EXCEPT !.aborted = @ \/ a]
           v == g.aborted \/ a
<1>1. g = [todo |-> g.todo, code |-> g.code, insert |-> g.insert, prologue |-> g.prologue,
           break |-> g.break, continue |-> g.continue, temps |-> g.temps,
           aborted |-> g.aborted]
      /\ g.aborted \in BOOLEAN
  BY GenFields
<1>2. h = [todo |-> g.todo, code |-> g.code, insert |-> g.insert, prologue |-> g.prologue,
           break |-> g.break, continue |-> g.continue, temps |-> g.temps,
           aborted |-> v]
  <2>1. h = [g EXCEPT !.aborted = v]
    OBVIOUS
  <2> HIDE DEF h, v
  <2> QED BY <1>1, <2>1
<1>3. v \in BOOLEAN /\ (~a => v = g.aborted)
  BY <1>1
<1> HIDE DEF h, v
<1>4. /\ h.todo = g.todo /\ h.code = g.code /\ h.insert = g.insert /\ h.prologue = g.prologue
      /\ h.break = g.break /\ h.continue = g.continue /\ h.temps = g.temps
      /\ h.aborted = v
  BY <1>2
<1>5. GenTyped(h)
  BY <1>2, <1>3, <1>4, GenFields, MakeGen
<1>6. ~a => h = g
  BY <1>1, <1>2, <1>3
<1> QED BY <1>4, <1>5, <1>6 DEF h

LEMMA GenerateWhileStep ==
  ASSUME NEW g, GenTyped(g), NEW t \in Node, t.kind = "while"
  PROVE  Steps(g, t, GenerateWhile(g, t))
<1> DEFINE n == Len(g.code)
           a == [g EXCEPT !.aborted = @ \/ Terminated(g)]
           b == NewBlocks(a, 3)
           e == Emit(b, Br(n + 1))
           p == e.prologue \o t.prologue
           g1 == [e EXCEPT !.prologue = p, !.break = n + 3, !.continue = n + 1]
           h == SetInsertPoint(g1, n + 1)
           x == Evaluate(t.condition)
           y == [kind |-> "whileDecided", body |-> t.body, blocks |-> n,
                 prologue |-> g.prologue, break |-> g.break, continue |-> g.continue]
<1>1. GenerateWhile(g, t) = GenerateThen(h, x, y)
  BY DEF GenerateWhile
<1>2. /\ t.condition \in Condition /\ t.body \in Blocks /\ t.prologue \in Seq(Assignments)
      /\ n \in Nat /\ g.prologue \in Seq(Assignments) /\ g.break \in 0 .. n /\ g.continue \in 0 .. n
  BY NodeParts, GenFields
<1>3. /\ GenTyped(a) /\ (~Terminated(g) => a = g)
      /\ a.todo = g.todo /\ a.code = g.code /\ a.insert = g.insert
      /\ a.prologue = g.prologue /\ a.break = g.break /\ a.continue = g.continue
      /\ a.temps = g.temps
  <2>1. Terminated(g) \in BOOLEAN
    BY DEF Terminated
  <2> QED BY <2>1, AbortTyped
<1> HIDE DEF a, n
<1>4. Len(a.code) = n
  BY <1>3 DEF n
<1>5. GenTyped(b) /\ SameRest(a, b) /\ Len(b.code) = n + 3
  BY <1>3, <1>4, NewBlocksFacts
<1>6. ASSUME NEW waiting, IsOpen(a), Settled(a, waiting)
      PROVE  /\ IsOpen(b) /\ Settled(b, {n + 1, n + 2, n + 3} \cup waiting)
             /\ {n + 1, n + 2, n + 3} \cap waiting = {}
  BY <1>3, <1>4, <1>6, NewBlocksSettled
<1>7. n \in 0 .. (n + 3) - 3 /\ n + 1 \in 1 .. n + 3 /\ n + 2 \in 1 .. n + 3 /\ n + 3 \in 1 .. n + 3
  BY <1>2, NewNumbers
<1> HIDE DEF b
<1>8. Br(n + 1) \in Instructions(Len(b.code), b.temps) /\ Br(n + 1).op \in EndsBlock
  BY <1>5, <1>7 DEF Br, Instructions, EndsBlock
<1>9. GenTyped(e) /\ SameRest(b, e) /\ Len(e.code) = n + 3
  BY <1>5, <1>8, EmitTyped
<1>10. ASSUME NEW waiting, IsOpen(b), Settled(b, waiting)
       PROVE  IsClosed(e) /\ Settled(e, waiting)
  BY <1>5, <1>8, <1>10, EmitEnd
<1> HIDE DEF e
<1>11. p \in Seq(Assignments)
  <2>1. e.prologue \in Seq(Assignments)
    BY <1>9, GenFields
  <2> QED BY <1>2, <2>1, ConcatFacts
<1> HIDE DEF p
<1>12. n + 3 \in 0 .. Len(e.code) /\ n + 1 \in 0 .. Len(e.code) /\ n + 1 # 0 /\ n + 3 # 0
  BY <1>2, <1>9
<1>13. /\ GenTyped(g1)
       /\ g1.break = n + 3 /\ g1.continue = n + 1
       /\ g1.todo = e.todo /\ g1.code = e.code /\ g1.insert = e.insert
       /\ g1.temps = e.temps /\ g1.aborted = e.aborted
  <2>1. e = [todo |-> e.todo, code |-> e.code, insert |-> e.insert, prologue |-> e.prologue,
             break |-> e.break, continue |-> e.continue, temps |-> e.temps,
             aborted |-> e.aborted]
    BY <1>9, GenFields
  <2>2. g1 = [e EXCEPT !.prologue = p, !.break = n + 3, !.continue = n + 1]
    OBVIOUS
  <2> HIDE DEF g1
  <2>3. g1 = [todo |-> e.todo, code |-> e.code, insert |-> e.insert, prologue |-> p,
              break |-> n + 3, continue |-> n + 1, temps |-> e.temps,
              aborted |-> e.aborted]
    BY <2>1, <2>2
  <2> QED BY <1>9, <1>11, <1>12, <2>3, TargetsTyped
<1> HIDE DEF g1
<1>14. n + 1 \in 1 .. Len(g1.code) /\ Len(g1.code) = n + 3
  BY <1>7, <1>9, <1>13
<1>15. GenTyped(h) /\ SameRest(g1, h) /\ h.insert = n + 1 /\ h.code = g1.code
  BY <1>13, <1>14, SetInsertPointTyped
<1>16. ASSUME NEW waiting, IsClosed(e), Settled(e, waiting), n + 1 \in waiting
       PROVE  IsOpen(h) /\ Settled(h, waiting \ {n + 1})
  <2>1. IsClosed(g1) /\ Settled(g1, waiting)
    BY <1>13, <1>16, SettledDependsOn
  <2> QED BY <1>13, <1>16, <2>1, MoveOn DEF h
<1> HIDE DEF h
<1>17. /\ h.todo = g.todo /\ h.temps = g.temps /\ h.break # 0 /\ h.continue # 0
       /\ (~Terminated(g) => h.aborted = g.aborted) /\ Len(h.code) = n + 3
  BY <1>3, <1>5, <1>9, <1>12, <1>13, <1>14, <1>15 DEF SameRest
<1>18. /\ x \in Task(Len(h.code), h.temps) /\ Waiting(x) = {} /\ ~Ends(x) /\ ~IsLoop(x)
       /\ ~EndsInJump(x) /\ \A S : Covered(x, S)
  BY <1>2, EvaluateFacts
<1>19. y \in Task(Len(h.code), h.temps)
  <2>1. y \in [kind : {"whileDecided", "bodyDone"}, body : Blocks, blocks : 0 .. (n + 3) - 3,
               prologue : Seq(Assignments), break : 0 .. n + 3, continue : 0 .. n + 3]
    <3>1. g.break \in 0 .. n + 3 /\ g.continue \in 0 .. n + 3
      BY <1>2
    <3> QED BY <1>2, <1>7, <3>1
  <2> HIDE DEF y
  <2> QED BY <1>17, <2>1 DEF Task, Frame
<1>20. y.kind = "whileDecided" /\ y.body = t.body /\ y.blocks = n
       /\ y.break = g.break /\ y.continue = g.continue
  OBVIOUS
<1> HIDE DEF x, y
<1>21. /\ Waiting(y) = {n + 2, n + 3} /\ IsLoop(y) /\ ~EndsInJump(y)
       /\ \A S : Covered(y, S) <=> Own(t.body) \subseteq S
  BY <1>20 DEF Waiting, IsLoop, EndsInJump, Covered, Terminators
<1>22. Waiting(t) = {} /\ ~Ends(t) /\ ~IsLoop(t) /\ ~EndsInJump(t)
  BY NodesAreNoFrames DEF NodeKinds, EndsInJump, Terminators
<1>23. ASSUME prog \in Programs, Ready(g, t) PROVE Valid(GenerateThen(h, x, y))
  <2> DEFINE w == AllWaiting(g.todo)
  <2>1. IsOpen(g) /\ Settled(g, w) /\ g.todo # <<>> /\ ~g.aborted
    BY <1>22, <1>23 DEF Ready, Fits
  <2>2. a = g
    BY <1>3, <2>1, OpenIsNotTerminated
  <2>3. Covered(y, All)
    <3>1. t \in All
      BY <1>23 DEF Ready, Fits, Covered
    <3>2. t.body \in Parts(t)
      BY DEF Parts
    <3>3. Closed(All, {"if", "while", "for", "block"})
      BY <1>23, ProgramIsClosed
    <3> QED BY <1>21, <3>1, <3>2, <3>3 DEF Closed
  <2> HIDE DEF w
  <2>4. /\ IsOpen(b) /\ Settled(b, {n + 1, n + 2, n + 3} \cup w)
        /\ {n + 1, n + 2, n + 3} \cap w = {}
    BY <1>6, <2>1, <2>2
  <2>5. IsClosed(e) /\ Settled(e, {n + 1, n + 2, n + 3} \cup w)
    BY <1>10, <2>4
  <2>6. ({n + 1, n + 2, n + 3} \cup w) \ {n + 1} = {n + 2, n + 3} \cup w
    BY <1>2, <2>4, Filled
  <2>7. IsOpen(h) /\ Settled(h, {n + 2, n + 3} \cup w)
    <3>1. n + 1 \in {n + 1, n + 2, n + 3} \cup w
      OBVIOUS
    <3> QED BY <1>16, <2>5, <2>6, <3>1
  <2>8. Settled(h, Waiting(y) \cup AllWaiting(h.todo)) /\ Waiting(y) \cap AllWaiting(h.todo) = {}
    BY <1>17, <1>21, <2>4, <2>7 DEF w
  <2>9. g.break = 0 \/ g.continue = 0 => ~InLoop(g.todo)
    BY <1>23 DEF Ready
  <2>10. Fits(y, h.todo)
    BY <1>17, <1>20, <1>21, <2>1, <2>3, <2>8, <2>9 DEF Fits
  <2>11. ~h.aborted /\ Stack(h.todo)
    BY <1>17, <1>23, <2>1, OpenIsNotTerminated DEF Ready
  <2> QED BY <1>15, <1>17, <1>18, <1>19, <1>21, <2>7, <2>8, <2>10, <2>11, ThenValid
<1>24. GenTyped(GenerateThen(h, x, y))
  BY <1>15, <1>18, <1>19, ThenTyped
<1> QED BY <1>1, <1>23, <1>24 DEF Steps

LEMMA WhileDecidedStep ==
  ASSUME NEW g, GenTyped(g), NEW t \in Frame(Len(g.code), g.temps), t.kind = "whileDecided"
  PROVE  Steps(g, t, WhileDecided(g, t))
<1> DEFINE m == Len(g.code)
           n == t.blocks
           F == [kind : {"whileDecided", "bodyDone"}, body : Blocks, blocks : 0 .. m - 3,
                 prologue : Seq(Assignments), break : 0 .. m, continue : 0 .. m]
           i == CondBr(TRUE, n + 2, n + 3)
           h == SetInsertPoint(Emit(g, i), n + 2)
           x == t.body
           y == [t EXCEPT !.kind = "bodyDone"]
<1>1. WhileDecided(g, t) = GenerateThen(h, x, y)
  BY DEF WhileDecided
<1>2. t \in F /\ m \in Nat
  BY FrameParts, GenFields
<1>3. y \in F /\ y.kind = "bodyDone" /\ y.blocks = n /\ y.break = t.break /\ y.continue = t.continue
  BY <1>2
<1>4. t.body \in Blocks /\ n \in 0 .. m - 3
  BY <1>2
<1>5. y \in Task(m, g.temps)
  <2> HIDE DEF y
  <2> QED BY <1>3 DEF Task, Frame
<1>6. /\ Waiting(t) = {n + 2, n + 3} /\ ~Ends(t) /\ ~EndsInJump(t) /\ IsLoop(t)
      /\ \A S : Covered(t, S) <=> Own(t.body) \subseteq S
  BY DEF Waiting, Ends, EndsInJump, Terminators, Covered, IsLoop
<1> HIDE DEF n, y, F
<1>7. n \in Nat /\ n + 2 \in 1 .. m /\ n + 3 \in 1 .. m
  <2> HIDE DEF m
  <2> QED BY <1>2, <1>4, BlockNumbers
<1>8. i \in Instructions(m, g.temps) /\ i.op \in EndsBlock
  <2>1. i \in [op : {"cbr"}, when : BOOLEAN, to : 1 .. m, other : 1 .. m]
    BY <1>7 DEF CondBr
  <2> HIDE DEF i
  <2> QED BY <2>1 DEF Instructions, EndsBlock
<1> HIDE DEF i
<1>9. /\ GenTyped(h) /\ SameRest(g, h) /\ Len(h.code) = m
      /\ \A waiting : IsOpen(g) /\ Settled(g, waiting) /\ n + 2 \in waiting =>
           IsOpen(h) /\ Settled(h, waiting \ {n + 2})
  BY <1>7, <1>8, EndAndMoveOn
<1> HIDE DEF h
<1>10. /\ h.todo = g.todo /\ h.temps = g.temps /\ h.break = g.break /\ h.continue = g.continue
       /\ h.aborted = g.aborted
  BY <1>9 DEF SameRest
<1>11. /\ x \in Task(Len(h.code), h.temps) /\ Waiting(x) = {} /\ ~Ends(x) /\ ~IsLoop(x)
       /\ \A S : Covered(x, S) <=> Own(t.body) \subseteq S
  BY <1>4, BlockFacts
<1>12. y \in Task(Len(h.code), h.temps)
  BY <1>5, <1>9, <1>10
<1> HIDE DEF x
<1>13. /\ Waiting(y) = {n + 3} /\ IsLoop(y) /\ ~EndsInJump(y) /\ Ends(y)
       /\ \A S : Covered(y, S)
  BY <1>3 DEF Waiting, IsLoop, Ends, EndsInJump, Covered, Terminators
<1>14. ASSUME Ready(g, t) PROVE Valid(GenerateThen(h, x, y))
  <2> DEFINE w == AllWaiting(g.todo)
  <2>1. /\ IsOpen(g) /\ Settled(g, {n + 2, n + 3} \cup w)
        /\ {n + 2, n + 3} \cap w = {} /\ g.todo # <<>>
    BY <1>6, <1>14 DEF Ready, Fits
  <2>2. Covered(x, All)
    BY <1>6, <1>11, <1>14 DEF Ready, Fits
  <2> HIDE DEF w
  <2>3. ({n + 2, n + 3} \cup w) \ {n + 2} = {n + 3} \cup w
    BY <1>7, <2>1, Filled
  <2>4. IsOpen(h) /\ Settled(h, {n + 3} \cup w)
    <3>1. n + 2 \in {n + 2, n + 3} \cup w
      OBVIOUS
    <3> QED BY <1>9, <2>1, <2>3, <3>1
  <2>5. Settled(h, Waiting(y) \cup AllWaiting(h.todo)) /\ Waiting(y) \cap AllWaiting(h.todo) = {}
    BY <1>10, <1>13, <2>1, <2>4 DEF w
  <2>6. t.break = 0 \/ t.continue = 0 => ~InLoop(g.todo)
    BY <1>6, <1>14 DEF Ready, Fits
  <2>7. Fits(y, h.todo)
    BY <1>3, <1>10, <1>13, <2>1, <2>5, <2>6 DEF Fits
  <2>8. g.break # 0 /\ g.continue # 0 /\ ~g.aborted /\ Stack(g.todo)
    BY <1>6, <1>14 DEF Ready
  <2> QED BY <1>9, <1>10, <1>11, <1>12, <1>13, <2>2, <2>4, <2>5, <2>7, <2>8, ThenValid
<1>15. GenTyped(GenerateThen(h, x, y))
  BY <1>9, <1>11, <1>12, ThenTyped
<1> QED BY <1>1, <1>14, <1>15 DEF Steps

LEMMA BodyDoneStep ==
  ASSUME NEW g, GenTyped(g), NEW t \in Frame(Len(g.code), g.temps), t.kind = "bodyDone"
  PROVE  Steps(g, t, BodyDone(g, t))
<1> DEFINE m == Len(g.code)
           n == t.blocks
           F == [kind : {"whileDecided", "bodyDone"}, body : Blocks, blocks : 0 .. m - 3,
                 prologue : Seq(Assignments), break : 0 .. m, continue : 0 .. m]
           e == SetInsertPoint(BrUnlessTerminated(g, n + 1), n + 3)
           h == [e EXCEPT !.prologue = t.prologue, !.break = t.break, !.continue = t.continue]
<1>1. BodyDone(g, t) = h
  BY DEF BodyDone
<1>2. t \in F /\ m \in Nat
  BY FrameParts, GenFields
<1>3. /\ n \in 0 .. m - 3 /\ t.prologue \in Seq(Assignments)
      /\ t.break \in 0 .. m /\ t.continue \in 0 .. m
  BY <1>2
<1>4. Waiting(t) = {n + 3} /\ ~EndsInJump(t) /\ IsLoop(t)
  BY DEF Waiting, EndsInJump, Terminators, IsLoop
<1> HIDE DEF n, F
<1>5. n \in Nat /\ n + 1 \in 1 .. m /\ n + 3 \in 1 .. m
  <2> HIDE DEF m
  <2> QED BY <1>2, <1>3, BlockNumbers
<1>6. /\ GenTyped(e) /\ SameRest(g, e) /\ Len(e.code) = m
      /\ \A waiting : (IsOpen(g) \/ IsClosed(g)) /\ Settled(g, waiting) /\ n + 3 \in waiting =>
           IsOpen(e) /\ Settled(e, waiting \ {n + 3})
  BY <1>5, BranchAndMoveOn
<1> HIDE DEF e
<1>7. t.break \in 0 .. Len(e.code) /\ t.continue \in 0 .. Len(e.code)
  BY <1>3, <1>6
<1>8. /\ GenTyped(h) /\ h.break = t.break /\ h.continue = t.continue
      /\ h.todo = e.todo /\ h.code = e.code /\ h.insert = e.insert /\ h.aborted = e.aborted
  <2>1. e = [todo |-> e.todo, code |-> e.code, insert |-> e.insert, prologue |-> e.prologue,
             break |-> e.break, continue |-> e.continue, temps |-> e.temps,
             aborted |-> e.aborted]
    BY <1>6, GenFields
  <2>2. h = [e EXCEPT !.prologue = t.prologue, !.break = t.break, !.continue = t.continue]
    OBVIOUS
  <2> HIDE DEF h
  <2>3. h = [todo |-> e.todo, code |-> e.code, insert |-> e.insert, prologue |-> t.prologue,
             break |-> t.break, continue |-> t.continue, temps |-> e.temps,
             aborted |-> e.aborted]
    BY <2>1, <2>2
  <2>4. /\ h.todo = e.todo /\ h.code = e.code /\ h.insert = e.insert
        /\ h.prologue = t.prologue /\ h.break = t.break /\ h.continue = t.continue
        /\ h.temps = e.temps /\ h.aborted = e.aborted
    BY <2>3
  <2>5. /\ h.prologue \in Seq(Assignments)
        /\ h.break \in 0 .. Len(h.code) /\ h.continue \in 0 .. Len(h.code)
    BY <1>3, <1>7, <2>4
  <2>6. h = [todo |-> h.todo, code |-> h.code, insert |-> h.insert, prologue |-> h.prologue,
             break |-> h.break, continue |-> h.continue, temps |-> h.temps,
             aborted |-> h.aborted]
    BY <2>3, <2>4
  <2>7. /\ h.temps \in Nat /\ h.insert \in 1 .. Len(h.code)
        /\ h.todo \in Seq(Task(Len(h.code), h.temps))
        /\ h.code \in Seq(Seq(Instructions(Len(h.code), h.temps)))
        /\ h.aborted \in BOOLEAN
    BY <1>6, <2>4, GenFields
  <2>8. GenTyped(h)
    BY <2>5, <2>6, <2>7, MakeGen
  <2> QED BY <2>4, <2>8
<1> HIDE DEF h
<1>9. ASSUME Ready(g, t) PROVE Valid(h)
  <2> DEFINE w == AllWaiting(g.todo)
  <2>1. /\ IsOpen(g) \/ IsClosed(g)
        /\ Settled(g, {n + 3} \cup w)
        /\ {n + 3} \cap w = {} /\ g.todo # <<>>
    BY <1>4, <1>9 DEF Ready, Fits
  <2> HIDE DEF w
  <2>2. ({n + 3} \cup w) \ {n + 3} = w
    BY <1>5, <2>1, Filled
  <2>3. IsOpen(e) /\ Settled(e, w)
    <3>1. n + 3 \in {n + 3} \cup w
      OBVIOUS
    <3> QED BY <1>6, <2>1, <2>2, <3>1
  <2>4. h.todo = g.todo /\ h.aborted = g.aborted
    BY <1>6, <1>8 DEF SameRest
  <2>5. IsOpen(h) /\ Settled(h, AllWaiting(h.todo))
    BY <1>8, <2>3, <2>4, SettledDependsOn DEF w
  <2>6. h.break = 0 \/ h.continue = 0 => ~InLoop(h.todo)
    BY <1>4, <1>8, <1>9, <2>4 DEF Ready, Fits
  <2>7. ~g.aborted /\ Stack(g.todo)
    BY <1>9 DEF Ready
  <2> QED BY <2>1, <2>4, <2>5, <2>6, <2>7, PopValid
<1> QED BY <1>1, <1>8, <1>9 DEF Steps

-----------------------------------------------------------------------------
(* One call of generate_code, whatever it is for. *)
LEMMA GenerateStep ==
  ASSUME NEW g, GenTyped(g), NEW t \in Task(Len(g.code), g.temps)
  PROVE  Steps(g, t, Generate(g, t))
<1> DEFINE F == Frame(Len(g.code), g.temps)
<1>1. /\ t.kind \in NodeKinds => t \in Node
      /\ t.kind \in FrameKinds => t \in F
      /\ t.kind \in NodeKinds \cup FrameKinds
  BY TaskIsNodeOrFrame
<1>2. CASE t.kind = "block"
  <2>1. Generate(g, t) = GenerateBlock(g, t) /\ t \in Node
    BY <1>1, <1>2 DEF Generate, NodeKinds
  <2>2. t \in Blocks
    BY <1>2, <2>1, NodeParts
  <2>3. PICK b \in Blocks : b = t
    BY <2>2
  <2>4. Steps(g, t, GenerateBlock(g, b))
    BY <1>2, <2>1, <2>3, GenerateBlockStep
  <2> QED BY <2>1, <2>3, <2>4
<1>3. CASE t.kind = "for"
  <2>1. Generate(g, t) = GenerateBlock(g, desugar(t)) /\ t \in Node
    BY <1>1, <1>3 DEF Generate, NodeKinds
  <2>2. desugar(t) \in Blocks
    BY <1>3, <2>1, NodeParts
  <2> QED BY <1>3, <2>1, <2>2, GenerateBlockStep
<1>4. CASE t.kind = "statements"
  <2>1. Generate(g, t) = GenerateStatements(g, t) /\ t \in F
    BY <1>1, <1>4 DEF Generate, FrameKinds
  <2> QED BY <1>4, <2>1, GenerateStatementsStep
<1>5. CASE t.kind = "if"
  <2>1. Generate(g, t) = GenerateIf(g, t) /\ t \in Node
    BY <1>1, <1>5 DEF Generate, NodeKinds
  <2> QED BY <1>5, <2>1, GenerateIfStep
<1>6. CASE t.kind = "ifDecided"
  <2>1. Generate(g, t) = IfDecided(g, t) /\ t \in F
    BY <1>1, <1>6 DEF Generate, FrameKinds
  <2> QED BY <1>6, <2>1, IfDecidedStep
<1>7. CASE t.kind = "thenDone"
  <2>1. Generate(g, t) = ThenDone(g, t) /\ t \in F
    BY <1>1, <1>7 DEF Generate, FrameKinds
  <2> QED BY <1>7, <2>1, ThenDoneStep
<1>8. CASE t.kind = "elseDone"
  <2>1. Generate(g, t) = ElseDone(g, t) /\ t \in F
    BY <1>1, <1>8 DEF Generate, FrameKinds
  <2> QED BY <1>8, <2>1, ElseDoneStep
<1>9. CASE t.kind = "while"
  <2>1. Generate(g, t) = GenerateWhile(g, t) /\ t \in Node
    BY <1>1, <1>9 DEF Generate, NodeKinds
  <2> QED BY <1>9, <2>1, GenerateWhileStep
<1>10. CASE t.kind = "whileDecided"
  <2>1. Generate(g, t) = WhileDecided(g, t) /\ t \in F
    BY <1>1, <1>10 DEF Generate, FrameKinds
  <2> QED BY <1>10, <2>1, WhileDecidedStep
<1>11. CASE t.kind = "bodyDone"
  <2>1. Generate(g, t) = BodyDone(g, t) /\ t \in F
    BY <1>1, <1>11 DEF Generate, FrameKinds
  <2> QED BY <1>11, <2>1, BodyDoneStep
<1>12. CASE t.kind = "condition"
  <2>1. Generate(g, t) = GenerateCondition(g, t.condition) /\ t \in F
    BY <1>1, <1>12 DEF Generate, FrameKinds
  <2>2. t.condition \in Condition
    BY <1>12, <2>1, FrameParts
  <2> QED BY <1>12, <2>1, <2>2, GenerateConditionStep
<1>13. CASE t.kind = "lhsDone"
  <2>1. Generate(g, t) = LhsDone(g, t) /\ t \in F
    BY <1>1, <1>13 DEF Generate, FrameKinds
  <2> QED BY <1>13, <2>1, LhsDoneStep
<1>14. CASE t.kind = "rhsDone"
  <2>1. Generate(g, t) = RhsDone(g, t) /\ t \in F
    BY <1>1, <1>14 DEF Generate, FrameKinds
  <2> QED BY <1>14, <2>1, RhsDoneStep
<1>15. CASE t.kind = "break"
  <2>1. Generate(g, t) = GenerateJump(g, g.break)
    BY <1>15 DEF Generate
  <2> QED BY <1>15, <2>1, GenerateJumpStep
<1>16. CASE t.kind = "continue"
  <2>1. Generate(g, t) = GenerateJump(g, g.continue)
    BY <1>16 DEF Generate
  <2> QED BY <1>16, <2>1, GenerateJumpStep
<1>17. CASE t.kind \in {"return", "declaration", "assign", "call"}
  <2>1. t \in Node
    BY <1>1, <1>17 DEF NodeKinds
  <2>2. /\ t.kind = "return" => Generate(g, t) = Emit(g, [op |-> "ret", var |-> t.var])
        /\ t.kind = "declaration" =>
             Generate(g, t) = Emit(g, [op |-> "store", var |-> t.var, value |-> t.value])
        /\ t.kind = "assign" => Generate(g, t) = Emit(g, Added(t))
        /\ t.kind = "call" => Generate(g, t) = Emit(g, [op |-> "call", id |-> t.id, var |-> t.var])
    BY DEF Generate
  <2> QED BY <1>17, <2>1, <2>2, SimpleStep
<1>18. \/ t.kind = "block" \/ t.kind = "for" \/ t.kind = "statements" \/ t.kind = "if"
       \/ t.kind = "ifDecided" \/ t.kind = "thenDone" \/ t.kind = "elseDone"
       \/ t.kind = "while" \/ t.kind = "whileDecided" \/ t.kind = "bodyDone"
       \/ t.kind = "condition" \/ t.kind = "lhsDone" \/ t.kind = "rhsDone"
       \/ t.kind = "break" \/ t.kind = "continue"
       \/ t.kind \in {"return", "declaration", "assign", "call"}
  BY <1>1 DEF NodeKinds, FrameKinds
<1> DEFINE Goal == Steps(g, t, Generate(g, t))
<1> HIDE DEF Goal
<1>19. Goal
  BY <1>2, <1>3, <1>4, <1>5, <1>6, <1>7, <1>8, <1>9, <1>10, <1>11, <1>12, <1>13, <1>14,
     <1>15, <1>16, <1>17, <1>18 DEF Goal
<1> QED BY <1>19 DEF Goal

-----------------------------------------------------------------------------
(* The start. *)

(* A body with its return is a block that ends in a jump. *)
LEMMA WithReturnParts ==
  ASSUME prog \in Programs
  PROVE  WithReturn(prog) \in Blocks /\ EndsInJump(WithReturn(prog))
<1> DEFINE s == prog.statements
           w == Append(s, Return(NoVar))
           q == WithReturn(prog)
<1>1. prog \in Blocks /\ ~prog.expects /\ s \in Seq(Statement) /\ prog.kind = "block"
  BY ProgramsAssumption DEF Blocks
<1>2. Return(NoVar) \in Statement /\ Return(NoVar).kind = "return"
  BY StatementAssumption DEF Return
<1>3. CASE \E i \in DOMAIN s : s[i].kind = "return"
  <2>1. q = prog
    BY <1>3 DEF WithReturn
  <2>2. PICK i \in DOMAIN s : s[i].kind = "return"
    BY <1>3
  <2>3. i \in 1 .. Len(s)
    BY <1>1
  <2>4. HasJump(s, 1)
    BY <2>2, <2>3 DEF HasJump, Terminators
  <2> QED BY <1>1, <2>1, <2>4 DEF EndsInJump
<1>4. CASE ~ \E i \in DOMAIN s : s[i].kind = "return"
  <2>1. q = [prog EXCEPT !.statements = w]
    BY <1>4 DEF WithReturn
  <2>2. /\ w \in Seq(Statement) /\ Len(w) = Len(s) + 1 /\ w[Len(s) + 1] = Return(NoVar)
        /\ Len(s) \in Nat
    BY <1>1, <1>2
  <2>3. HasJump(w, 1)
    BY <1>2, <2>2 DEF HasJump, Terminators
  <2> HIDE DEF w, q
  <2>4. q \in Blocks /\ q.statements = w /\ q.expects = FALSE /\ q.kind = "block"
    BY <1>1, <2>1, <2>2 DEF Blocks
  <2> QED BY <2>3, <2>4 DEF EndsInJump, q
<1> QED BY <1>3, <1>4

LEMMA StartTyped ==
  ASSUME prog \in Programs
  PROVE  GenTyped(Start(WithReturn(prog)))
<1> DEFINE g == Start(WithReturn(prog))
           b == WithReturn(prog)
<1>1. b \in Blocks
  BY WithReturnParts
<1>2. b \in Task(1, 0)
  BY <1>1, BlockFacts
<1> HIDE DEF b
<1>3. g = [todo |-> <<b>>, code |-> <<<<>>>>, insert |-> 1, prologue |-> <<>>, break |-> 0,
           continue |-> 0, temps |-> 0, aborted |-> FALSE]
  BY DEF Start, b
<1> HIDE DEF g
<1>4. /\ g.todo = <<b>> /\ g.code = <<<<>>>> /\ g.insert = 1 /\ g.prologue = <<>> /\ g.break = 0
      /\ g.continue = 0 /\ g.temps = 0 /\ g.aborted = FALSE
  BY <1>3
<1>5. Len(g.code) = 1 /\ g.prologue \in Seq(Assignments)
  BY <1>4
<1>6. g.todo \in Seq(Task(1, 0))
  <2> DEFINE T == Task(1, 0)
  <2>1. b \in T
    BY <1>2
  <2> HIDE DEF T
  <2>2. <<b>> \in Seq(T)
    BY <2>1
  <2> QED BY <1>4, <2>2 DEF T
<1>7. g.code \in Seq(Seq(Instructions(1, 0)))
  <2> DEFINE I == Instructions(1, 0)
  <2> HIDE DEF I
  <2>1. <<>> \in Seq(I)
    OBVIOUS
  <2> DEFINE K == Seq(I)
             z == <<>>
  <2>2. z \in K
    BY <2>1
  <2> HIDE DEF K, z
  <2>3. <<z>> \in Seq(K)
    BY <2>2
  <2>4. g.code = <<z>>
    BY <1>4 DEF z
  <2> QED BY <2>3, <2>4 DEF K, I
<1>8. g.temps \in Nat /\ g.insert \in 1 .. 1 /\ g.break \in 0 .. 1 /\ g.continue \in 0 .. 1
      /\ g.aborted \in BOOLEAN
  <2>1. g.temps = 0 /\ g.insert = 1 /\ g.break = 0 /\ g.continue = 0 /\ g.aborted = FALSE
    BY <1>4
  <2>2. g.temps \in Nat /\ g.insert \in 1 .. 1
    BY <2>1
  <2>3. g.break \in 0 .. 1 /\ g.continue \in 0 .. 1
    BY <2>1
  <2>4. g.aborted \in BOOLEAN
    BY <2>1
  <2> QED BY <2>2, <2>3, <2>4
<1>9. g = [todo |-> g.todo, code |-> g.code, insert |-> g.insert, prologue |-> g.prologue,
           break |-> g.break, continue |-> g.continue, temps |-> g.temps,
           aborted |-> g.aborted]
  BY <1>3, <1>4
<1>10. g.todo \in Seq(Task(1, g.temps)) /\ g.code \in Seq(Seq(Instructions(1, g.temps)))
  BY <1>4, <1>6, <1>7
<1>11. GenTyped(g)
  BY <1>5, <1>8, <1>9, <1>10, MakeGen
<1> QED BY <1>11 DEF g, b

LEMMA StartValid ==
  ASSUME prog \in Programs
  PROVE  Valid(Start(WithReturn(prog)))
<1> DEFINE g == Start(WithReturn(prog))
           b == WithReturn(prog)
<1>1. b \in Blocks /\ EndsInJump(b)
  BY WithReturnParts
<1>2. Waiting(b) = {} /\ ~Ends(b) /\ ~IsLoop(b) /\ \A S : Covered(b, S) <=> Own(b) \subseteq S
  BY <1>1, BlockFacts
<1>3. Own(b) \subseteq All \cap Outside
  BY ProgramIsClosed
<1>4. /\ g.todo = <<b>> /\ g.code = <<<<>>>> /\ g.insert = 1 /\ g.break = 0
      /\ g.continue = 0 /\ g.aborted = FALSE
  BY DEF Start
<1> HIDE DEF g, b
<1> DEFINE r == <<>>
<1>5. r \in Seq({b}) /\ b \in {b} /\ g.todo = <<b>> \o r
  BY <1>4
<1>6. AllWaiting(r) = {} /\ ~InLoop(r) /\ Stack(r)
  BY DEF AllWaiting, InLoop, Stack
<1>7. Fits(b, r)
  BY <1>1, <1>2, <1>3, <1>6 DEF Fits
<1> HIDE DEF r
<1>8. AllWaiting(<<b>> \o r) = {} /\ ~InLoop(<<b>> \o r) /\ Stack(<<b>> \o r)
      /\ <<b>> \o r # <<>> /\ Head(<<b>> \o r) = b
  BY <1>2, <1>5, <1>6, <1>7, PushIndices, PushWaiting, PushFits
<1>9. AllWaiting(g.todo) = {} /\ ~InLoop(g.todo) /\ Stack(g.todo) /\ g.todo # <<>>
  BY <1>5, <1>8
<1>10. Len(g.code) = 1 /\ g.code[1] = <<>>
  BY <1>4
<1>11. IsOpen(g) /\ Settled(g, {})
  BY <1>4, <1>10 DEF IsOpen, Open, Settled
<1>12. Valid(g)
  BY <1>4, <1>9, <1>11, PopValid
<1> QED BY <1>12 DEF g, b

-----------------------------------------------------------------------------
(* The invariant. *)

(***************************************************************************)
(* When nothing is left to generate, every block is complete.              *)
(***************************************************************************)
LEMMA ValidIsWellFormed ==
  ASSUME NEW g, GenTyped(g), Valid(g), g.todo = <<>>
  PROVE  ~Malformed(g.code)
<1>1. DOMAIN g.code = 1 .. Len(g.code)
  BY GenFields
<1>2. AllWaiting(g.todo) = {}
  BY DEF AllWaiting
<1>3. ASSUME NEW b \in 1 .. Len(g.code) PROVE Complete(g.code[b])
  <2>1. CASE b = g.insert
    BY <2>1 DEF Valid, IsClosed
  <2>2. CASE b # g.insert
    BY <1>2, <2>2 DEF Valid, Settled
  <2> QED BY <2>1, <2>2
<1> QED BY <1>1, <1>3 DEF Malformed

LEMMA InitGenInv == Init => GenInv
<1> SUFFICES ASSUME Init PROVE GenInv
  OBVIOUS
<1>1. prog \in Programs /\ gen = Start(WithReturn(prog)) /\ status = "compiling"
  BY DEF Init
<1>2. GenTyped(gen) /\ Valid(gen)
  BY <1>1, StartTyped, StartValid
<1>3. ~gen.aborted
  BY <1>2 DEF Valid
<1> QED BY <1>1, <1>2, <1>3 DEF GenInv

(* Compile, with the generator before and after it as g and h. *)
LEMMA CompileGen ==
  ASSUME NEW g, GenTyped(g), g.todo # <<>>,
         NEW h, h = Generate([g EXCEPT !.todo = Tail(@)], Head(g.todo))
  PROVE  GenTyped(h) /\ (prog \in Programs /\ Tame /\ Valid(g) => Valid(h))
<1> DEFINE p == [g EXCEPT !.todo = Tail(@)]
           t == Head(g.todo)
<1>1. GenTyped(p) /\ t \in Task(Len(g.code), g.temps) /\ p.code = g.code
  BY PopTyped
<1>2. p.temps = g.temps
  BY PopTyped
<1>3. Valid(g) => Ready(p, t)
  BY PopReady
<1> HIDE DEF p, t
<1>4. t \in Task(Len(p.code), p.temps)
  <2>1. Len(p.code) = Len(g.code)
    BY <1>1
  <2> QED BY <1>1, <1>2, <2>1
<1>5. Steps(p, t, Generate(p, t))
  BY <1>1, <1>4, GenerateStep
<1>6. h = Generate(p, t)
  BY DEF p, t
<1> QED BY <1>3, <1>5, <1>6 DEF Steps

(* The same said of the next state: only gen and prog are read. *)
LEMMA TamePrime == ASSUME prog' = prog PROVE Tame' <=> Tame
BY DEF Tame, JumpsFromBareBlock, StrayJump

LEMMA ValidPrime ==
  ASSUME prog' = prog, NEW h, h = gen', Valid(h)
  PROVE  Valid(gen)'
<1>1. All' = All /\ Outside' = Outside
  BY DEF All, Outside
<1>2. Stack(gen.todo)'
  <2>1. ASSUME NEW i \in 1 .. Len(h.todo) PROVE Fits(h.todo[i], Under(h.todo, i))'
    <3>1. Fits(h.todo[i], Under(h.todo, i))
      BY DEF Valid, Stack
    <3> QED BY <1>1, <3>1 DEF Fits
  <2> QED BY <2>1 DEF Stack
<1> QED BY <1>2 DEF Valid

LEMMA NextGenInv == GenInv /\ [Next]_vars => GenInv'
<1> SUFFICES ASSUME GenInv, [Next]_vars PROVE GenInv'
  OBVIOUS
<1>1. CASE Compile
  <2>1. /\ status = "compiling" /\ gen.todo # <<>> /\ prog' = prog
        /\ gen' = Generate([gen EXCEPT !.todo = Tail(@)], Head(gen.todo))
        /\ status' = IF gen'.aborted THEN "aborted" ELSE status
    BY <1>1 DEF Compile
  <2>2. PICK g : g = gen
    OBVIOUS
  <2>3. PICK h : h = gen'
    OBVIOUS
  <2>4. h = Generate([g EXCEPT !.todo = Tail(@)], Head(g.todo))
    BY <2>1, <2>2, <2>3
  <2>5. GenTyped(h) /\ (prog \in Programs /\ Tame /\ Valid(g) => Valid(h))
    <3>1. GenTyped(g) /\ g.todo # <<>>
      BY <2>1, <2>2 DEF GenInv
    <3> QED BY <2>4, <3>1, CompileGen
  <2>6. GenTyped(gen)'
    BY <2>3, <2>5 DEF GenTyped, Generators
  <2>7. prog' \in Programs
    BY <2>1 DEF GenInv
  <2>8. ASSUME Tame' PROVE Valid(gen)' /\ ~gen'.aborted
    <3>1. Tame
      BY <2>1, <2>8, TamePrime
    <3>2. Valid(h)
      BY <2>2, <2>5, <3>1 DEF GenInv
    <3> QED BY <2>1, <2>3, <3>2, ValidPrime DEF Valid
  <2>9. /\ status' \in {"compiling", "running", "returned", "diverged", "malformed", "aborted"}
        /\ status' # "aborted" => ~gen'.aborted
        /\ ~gen'.aborted => status' = "compiling"
    BY <2>1
  <2> QED BY <2>6, <2>7, <2>8, <2>9 DEF GenInv
<1>2. CASE Enter
  <2>1. /\ status = "compiling" /\ gen.todo = <<>> /\ prog' = prog /\ gen' = gen
        /\ status' = IF Malformed(gen.code) THEN "malformed" ELSE "running"
    BY <1>2 DEF Enter
  <2>2. PICK g : g = gen
    OBVIOUS
  <2>3. Tame => ~Malformed(gen.code)
    <3>1. GenTyped(g) /\ g.todo = <<>> /\ (Tame => Valid(g))
      BY <2>1, <2>2 DEF GenInv
    <3>2. Tame => ~Malformed(g.code)
      BY <3>1, ValidIsWellFormed
    <3> QED BY <2>2, <3>2
  <2>4. GenTyped(gen)' /\ prog' \in Programs /\ ~gen'.aborted
    BY <2>1 DEF GenInv, GenTyped, Generators
  <2>5. ASSUME Tame' PROVE Valid(gen)' /\ status' = "running"
    <3>1. Tame
      BY <2>1, <2>5, TamePrime
    <3>2. Valid(g) /\ g = gen'
      BY <2>1, <2>2, <3>1 DEF GenInv
    <3> QED BY <2>1, <2>3, <3>1, <3>2, ValidPrime
  <2> QED BY <2>1, <2>4, <2>5 DEF GenInv
<1>3. CASE \/ UNCHANGED vars
           \/ Store \/ Add \/ SetTemp \/ GetTemp \/ Comparison
           \/ Jump \/ CondJump
           \/ Read \/ Call \/ Ask \/ Ret
  <2>1. gen' = gen /\ prog' = prog
    BY <1>3 DEF vars, Store, Add, SetTemp, GetTemp, Comparison, Jump, CondJump, Read, Call, Ask, Ret
  <2>2. status' = status \/ (status = "running" /\ status' \in {"returned", "diverged"})
    BY <1>3 DEF vars, Store, Add, SetTemp, GetTemp, Comparison, Jump, CondJump, Read, Call, Ask, Ret,
                AtEffect, AtInstruction, Diverge
  <2>3. PICK g : g = gen
    OBVIOUS
  <2>4. GenTyped(gen)' /\ prog' \in Programs
    BY <2>1 DEF GenInv, GenTyped, Generators
  <2>5. ASSUME Tame' PROVE Valid(gen)' /\ status' \notin {"aborted", "malformed"}
    <3>1. Tame
      BY <2>1, <2>5, TamePrime
    <3>2. Valid(g) /\ g = gen' /\ status \notin {"aborted", "malformed"}
      BY <2>1, <2>3, <3>1 DEF GenInv
    <3> QED BY <2>1, <2>2, <3>2, ValidPrime
  <2>6. /\ status' \in {"compiling", "running", "returned", "diverged", "malformed", "aborted"}
        /\ status' # "aborted" => ~gen'.aborted
    BY <2>1, <2>2 DEF GenInv
  <2> QED BY <2>4, <2>5, <2>6 DEF GenInv
<1> QED BY <1>1, <1>2, <1>3 DEF Next

LEMMA GenInvHolds == Spec => []GenInv
BY InitGenInv, NextGenInv, PTL DEF Spec

(***************************************************************************)
(* The asserts of generate_code hold and every basic block ends in its one *)
(* terminator, for all programs without a jump in a block of its own or    *)
(* outside of all loops.                                                   *)
(***************************************************************************)
THEOREM ValidCode == Spec => []GeneratesValidCode
<1>1. GenInv => GeneratesValidCode
  BY DEF GenInv, GeneratesValidCode, Tame
<1> QED BY <1>1, GenInvHolds, PTL

-----------------------------------------------------------------------------
(***************************************************************************)
(* Running: the text consists of statements, loops and branches whose      *)
(* parts are again such text.                                              *)
(***************************************************************************)
LoopMarks == [kind : {"loop", "again"}, condition : Condition, body : Blocks, step : Seq(Assignments)]

Branches(X) == [kind : {"branch"}, condition : Condition, yes : Seq(X), no : Seq(X)]

Text(X) == Node \cup LoopMarks \subseteq X /\ X \subseteq Node \cup LoopMarks \cup Branches(X)

RunInv ==
  /\ at \in [block : 1 .. Len(code), index : Nat \ {0}]
  /\ status = "compiling" => at = [block |-> 1, index |-> 1]
  /\ status = "running" =>
       /\ ~Malformed(code)
       /\ at.index <= Len(code[at.block])
       /\ temp \in [1 .. gen.temps -> BOOLEAN]
  /\ acc \in BOOLEAN
  /\ temp \in [DOMAIN temp -> BOOLEAN]
  /\ env \in [Var -> Integer]
  /\ source = [todo |-> source.todo, env |-> source.env]
  /\ source.env \in [Var -> Integer]
  /\ \E X : Text(X) /\ source.todo \in Seq(X)

(* Integers wrap around. *)
LEMMA WrapTyped ==
  ASSUME NEW n \in Int
  PROVE  Wrap(n) \in Integer
<1> DEFINE m == 2 * Half
<1>1. Half \in Nat /\ Half # 0
  BY HalfAssumption
<1>2. m \in Nat /\ m > 0 /\ m = Half + Half
  BY <1>1
<1> HIDE DEF m
<1>3. n + Half \in Int
  BY <1>1
<1>4. (n + Half) % m \in 0 .. m - 1
  BY <1>2, <1>3
<1>5. Wrap(n) = ((n + Half) % m) - Half
  BY DEF Wrap, m
<1> QED BY <1>1, <1>2, <1>4, <1>5 DEF Integer

(* The kinds of items in a text. *)
LEMMA TextParts ==
  ASSUME NEW X, Text(X), NEW s \in X
  PROVE  /\ s.kind \in NodeKinds \cup {"loop", "again", "branch"}
         /\ s.kind \in NodeKinds => s \in Node
         /\ s.kind \in {"loop", "again"} => s \in LoopMarks
         /\ s.kind = "branch" => s \in Branches(X)
<1>1. s \in Node \/ s \in LoopMarks \/ s \in Branches(X)
  BY DEF Text
<1>2. CASE s \in Node
  BY <1>2, NodeParts DEF NodeKinds
<1>3. CASE s \in LoopMarks
  BY <1>3 DEF LoopMarks, NodeKinds
<1>4. CASE s \in Branches(X)
  BY <1>4 DEF Branches, NodeKinds
<1> QED BY <1>1, <1>2, <1>3, <1>4

(* Every node is text. *)
LEMMA TextOfNodes == Text(Node \cup LoopMarks)
BY DEF Text

(* A new branch may be added to the text. *)
LEMMA AddBranch ==
  ASSUME NEW X, Text(X), NEW c \in Condition, NEW yes \in Seq(X), NEW no \in Seq(X)
  PROVE  LET Y == X \cup {Branch(c, yes, no)}
         IN  Text(Y) /\ Branch(c, yes, no) \in Y /\ X \subseteq Y /\ Seq(X) \subseteq Seq(Y)
<1> DEFINE b == Branch(c, yes, no)
           Y == X \cup {b}
<1>1. Seq(X) \subseteq Seq(Y)
  <2>1. X \subseteq Y
    OBVIOUS
  <2> HIDE DEF Y
  <2> QED BY <2>1
<1>2. b \in Branches(Y)
  <2>1. yes \in Seq(Y) /\ no \in Seq(Y)
    BY <1>1
  <2> HIDE DEF Y
  <2> QED BY <2>1 DEF Branch, Branches
<1>3. Branches(X) \subseteq Branches(Y)
  <2> HIDE DEF Y
  <2> QED BY <1>1 DEF Branches
<1> HIDE DEF b
<1>4. Text(Y)
  BY <1>2, <1>3 DEF Text
<1> QED BY <1>1, <1>4 DEF b

(* The rest from the next mark on is part of the rest. *)
LEMMA FromAgainTyped ==
  ASSUME NEW X, NEW rest \in Seq(X)
  PROVE  /\ FromAgain(rest) \in Seq(X)
         /\ SubSeq(FromAgain(rest), 2, Len(FromAgain(rest))) \in Seq(X)
<1> DEFINE I == {i \in 1 .. Len(rest) : rest[i].kind = "again"}
           k == SelectInSeq(rest, LAMBDA s : s.kind = "again")
<1>1. k = IF I # {} THEN Min(I) ELSE 0
  BY DEF SelectInSeq
<1>2. k = 0 \/ k \in 1 .. Len(rest)
  <2>1. CASE I = {}
    BY <1>1, <2>1
  <2>2. CASE I # {}
    <3>1. I \subseteq Nat /\ I \subseteq 1 .. Len(rest)
      OBVIOUS
    <3>2. \E x \in I : \A y \in I : x <= y
      <4> HIDE DEF I
      <4> QED BY <2>2, <3>1, LeastNumber
    <3>3. Min(I) \in I
      <4> HIDE DEF I
      <4> QED BY <3>2 DEF Min
    <3> HIDE DEF I
    <3> QED BY <1>1, <2>2, <3>1, <3>3
  <2> QED BY <2>1, <2>2
<1>3. FromAgain(rest) = IF k = 0 THEN <<>> ELSE SubSeq(rest, k, Len(rest))
  BY DEF FromAgain
<1> HIDE DEF k
<1>4. FromAgain(rest) \in Seq(X)
  BY <1>2, <1>3
<1> DEFINE q == FromAgain(rest)
<1> HIDE DEF q
<1>5. q \in Seq(X) => SubSeq(q, 2, Len(q)) \in Seq(X)
  OBVIOUS
<1> QED BY <1>4, <1>5 DEF q

(* What is left of the text after a statement is text. *)
LEMMA UnfoldTyped ==
  ASSUME NEW X, Text(X), NEW s \in X, NEW rest \in Seq(X), NEW e, ~HasEffect(s)
  PROVE  \E Y : Text(Y) /\ Unfold(s, rest, e) \in Seq(Y)
<1> DEFINE Goal == \E Y : Text(Y) /\ Unfold(s, rest, e) \in Seq(Y)
<1>1. /\ s.kind \in NodeKinds \cup {"loop", "again", "branch"}
      /\ s.kind \in NodeKinds => s \in Node
      /\ s.kind \in {"loop", "again"} => s \in LoopMarks
      /\ s.kind = "branch" => s \in Branches(X)
  BY TextParts
<1>2. ASSUME Unfold(s, rest, e) \in Seq(X) PROVE Goal
  BY <1>2
<1>3. ASSUME NEW first \in Seq(X), Unfold(s, rest, e) = first \o rest PROVE Goal
  <2>1. first \o rest \in Seq(X)
    OBVIOUS
  <2> QED BY <1>2, <1>3, <2>1
<1>4. ASSUME NEW Y, Text(Y), X \subseteq Y, NEW b \in Y, Unfold(s, rest, e) = <<b>> \o rest PROVE Goal
  <2>1. rest \in Seq(Y)
    BY <1>4
  <2>2. <<b>> \o rest \in Seq(Y)
    BY <1>4, <2>1
  <2> QED BY <1>4, <2>2
<1>5. Node \subseteq X /\ LoopMarks \subseteq X
  BY DEF Text
<1>6. CASE s.kind = "branch"
  <2> DEFINE c == s.condition
             yes == s.yes
             no == s.no
  <2>1. c \in Condition /\ yes \in Seq(X) /\ no \in Seq(X)
    BY <1>1, <1>6 DEF Branches
  <2>2. Unfold(s, rest, e) = Decide(s, e) \o rest
    BY <1>6 DEF Unfold
  <2>3. c.op \in {"compare", "and", "or"} /\ (c.op # "compare" => c.lhs \in Condition /\ c.rhs \in Condition)
    <3>1. c \in Questions \cup Compares \cup Junctions /\ c.op # "ask"
      BY <1>6, <2>1, ConditionAssumption DEF HasEffect
    <3> HIDE DEF c
    <3> QED BY <3>1 DEF Questions, Compares, Junctions
  <2>4. CASE c.op = "compare"
    <3>1. Decide(s, e) = IF Holds(c, e) THEN yes ELSE no
      BY <2>4 DEF Decide
    <3>2. Decide(s, e) \in Seq(X)
      BY <2>1, <3>1
    <3> HIDE DEF Goal
    <3> QED BY <1>3, <2>2, <3>2
  <2>5. CASE c.op = "and"
    <3> DEFINE b == Branch(c.rhs, yes, no)
               Y == X \cup {b}
               d == Branch(c.lhs, <<b>>, no)
               Z == Y \cup {d}
    <3>1. Decide(s, e) = <<d>>
      BY <2>5 DEF Decide
    <3>2. Text(Y) /\ b \in Y /\ X \subseteq Y /\ Seq(X) \subseteq Seq(Y)
      BY <2>1, <2>3, <2>5, AddBranch
    <3> HIDE DEF b, Y
    <3>3. <<b>> \in Seq(Y) /\ no \in Seq(Y)
      BY <2>1, <3>2
    <3>4. Text(Z) /\ d \in Z /\ Y \subseteq Z
      BY <2>3, <2>5, <3>2, <3>3, AddBranch
    <3> HIDE DEF d, Z, Goal
    <3> QED BY <1>4, <2>2, <3>1, <3>2, <3>4
  <2>6. CASE c.op = "or"
    <3> DEFINE b == Branch(c.rhs, yes, no)
               Y == X \cup {b}
               d == Branch(c.lhs, yes, <<b>>)
               Z == Y \cup {d}
    <3>1. Decide(s, e) = <<d>>
      BY <2>6 DEF Decide
    <3>2. Text(Y) /\ b \in Y /\ X \subseteq Y /\ Seq(X) \subseteq Seq(Y)
      BY <2>1, <2>3, <2>6, AddBranch
    <3> HIDE DEF b, Y
    <3>3. <<b>> \in Seq(Y) /\ yes \in Seq(Y)
      BY <2>1, <3>2
    <3>4. Text(Z) /\ d \in Z /\ Y \subseteq Z
      BY <2>3, <2>6, <3>2, <3>3, AddBranch
    <3> HIDE DEF d, Z, Goal
    <3> QED BY <1>4, <2>2, <3>1, <3>2, <3>4
  <2> HIDE DEF Goal
  <2> QED BY <2>3, <2>4, <2>5, <2>6
<1>7. CASE s.kind = "block"
  <2>1. s \in Blocks
    BY <1>1, <1>7, NodeParts DEF NodeKinds
  <2>2. s.statements \in Seq(Statement) /\ s.expects \in BOOLEAN
    BY <2>1, BlockParts
  <2>3. Statement \subseteq X
    BY <1>5, StatementParts
  <2> DEFINE first == IF s.expects THEN <<>> ELSE s.statements
  <2>4. first \in Seq(X)
    <3>1. s.statements \in Seq(X)
      BY <2>2, <2>3
    <3> QED BY <2>2, <3>1
  <2>5. Unfold(s, rest, e) = first \o rest
    BY <1>7 DEF Unfold
  <2> HIDE DEF first, Goal
  <2> QED BY <1>3, <2>4, <2>5
<1>8. CASE s.kind = "if"
  <2>1. s.condition \in Condition /\ s.then \in Blocks /\ s.else \in Blocks
    BY <1>1, <1>8, NodeParts DEF NodeKinds
  <2>2. s.then \in X /\ s.else \in X
    BY <1>5, <2>1, BlockParts
  <2> DEFINE yes == <<s.then>>
             no == <<s.else>>
             b == Branch(s.condition, yes, no)
             Y == X \cup {b}
  <2>3. Unfold(s, rest, e) = <<b>> \o rest
    BY <1>8 DEF Unfold
  <2>4. yes \in Seq(X) /\ no \in Seq(X)
    BY <2>2
  <2> HIDE DEF yes, no
  <2>5. Text(Y) /\ b \in Y /\ X \subseteq Y
    BY <2>1, <2>4, AddBranch
  <2> HIDE DEF b, Y, Goal
  <2> QED BY <1>4, <2>3, <2>5
<1>9. CASE s.kind = "while"
  <2>1. s.condition \in Condition /\ s.body \in Blocks /\ s.prologue \in Seq(Assignments)
    BY <1>1, <1>9, NodeParts DEF NodeKinds
  <2> DEFINE b == Loop(s.condition, s.body, s.prologue)
  <2>2. b \in X
    <3>1. b \in LoopMarks
      BY <2>1 DEF Loop, LoopMarks
    <3> QED BY <1>5, <3>1
  <2>3. Unfold(s, rest, e) = <<b>> \o rest
    BY <1>9 DEF Unfold
  <2> HIDE DEF b, Goal
  <2> QED BY <1>4, <2>2, <2>3
<1>10. CASE s.kind = "for"
  <2> DEFINE first == desugar(s).statements
  <2>1. desugar(s) \in Blocks
    BY <1>1, <1>10, NodeParts DEF NodeKinds
  <2>2. Statement \subseteq X
    BY <1>5, StatementParts
  <2>3. first \in Seq(X)
    <3>1. first \in Seq(Statement)
      BY <2>1, BlockParts
    <3> HIDE DEF first
    <3> QED BY <2>2, <3>1
  <2>4. Unfold(s, rest, e) = first \o rest
    BY <1>10 DEF Unfold, desugar, Block, StepOf
  <2> HIDE DEF first, Goal
  <2> QED BY <1>3, <2>3, <2>4
<1>11. CASE s.kind = "loop"
  <2>1. s \in LoopMarks
    BY <1>1, <1>11
  <2> DEFINE again == [s EXCEPT !.kind = "again"]
             yes == <<s.body, again>>
             no == <<>>
             b == Branch(s.condition, yes, no)
             Y == X \cup {b}
  <2>2. again \in X
    <3>1. again \in LoopMarks
      BY <2>1 DEF LoopMarks
    <3> QED BY <1>5, <3>1
  <2>3. s.body \in X /\ s.condition \in Condition
    <3>1. s.body \in Blocks /\ s.condition \in Condition
      BY <2>1 DEF LoopMarks
    <3> QED BY <1>5, <3>1, BlockParts
  <2>4. Unfold(s, rest, e) = <<b>> \o rest
    BY <1>11 DEF Unfold
  <2> HIDE DEF again
  <2>5. yes \in Seq(X) /\ no \in Seq(X)
    BY <2>2, <2>3
  <2> HIDE DEF yes, no
  <2>6. Text(Y) /\ b \in Y /\ X \subseteq Y
    BY <2>3, <2>5, AddBranch
  <2> HIDE DEF b, Y, Goal
  <2> QED BY <1>4, <2>4, <2>6
<1>12. CASE s.kind = "again"
  <2>1. s \in LoopMarks
    BY <1>1, <1>12
  <2> DEFINE loop == [s EXCEPT !.kind = "loop"]
             first == Append(s.step, loop)
  <2>2. loop \in X
    <3>1. loop \in LoopMarks
      BY <2>1 DEF LoopMarks
    <3> QED BY <1>5, <3>1
  <2>3. s.step \in Seq(X)
    <3>1. s.step \in Seq(Assignments)
      BY <2>1 DEF LoopMarks
    <3>2. Assignments \subseteq X
      BY <1>5 DEF Node, Simple
    <3> QED BY <3>1, <3>2
  <2>4. Unfold(s, rest, e) = first \o rest
    BY <1>12 DEF Unfold
  <2> HIDE DEF loop
  <2>5. first \in Seq(X)
    BY <2>2, <2>3
  <2> HIDE DEF first, Goal
  <2> QED BY <1>3, <2>4, <2>5
<1>13. CASE s.kind \notin {"branch", "block", "if", "while", "for", "loop", "again"}
  <2>1. \/ Unfold(s, rest, e) = SubSeq(FromAgain(rest), 2, Len(FromAgain(rest)))
        \/ Unfold(s, rest, e) = FromAgain(rest)
        \/ Unfold(s, rest, e) = rest
    BY <1>13 DEF Unfold
  <2>2. Unfold(s, rest, e) \in Seq(X)
    BY <2>1, FromAgainTyped
  <2> HIDE DEF Goal
  <2> QED BY <1>2, <2>2
<1> HIDE DEF Goal
<1>14. Goal
  BY <1>6, <1>7, <1>8, <1>9, <1>10, <1>11, <1>12, <1>13 DEF Goal
<1> QED BY <1>14 DEF Goal

(* Variables keep integers. *)
LEMMA AfterTyped ==
  ASSUME NEW X, Text(X), NEW s \in X, NEW e \in [Var -> Integer]
  PROVE  After(s, e) \in [Var -> Integer]
<1>1. s.kind \in {"declaration", "assign"} => s \in Node
  BY TextParts DEF NodeKinds
<1>2. CASE s.kind = "declaration"
  <2>1. s.value \in Integer
    BY <1>1, <1>2, NodeParts
  <2> QED BY <1>2, <2>1 DEF After
<1>3. CASE s.kind = "assign"
  <2>1. s.by \in Int /\ s.var \in Var
    BY <1>1, <1>3, NodeParts
  <2>2. e[s.var] \in Integer /\ e[s.var] + s.by \in Int
    BY <2>1 DEF Integer
  <2>3. Wrap(e[s.var] + s.by) \in Integer
    BY <2>2, WrapTyped
  <2> QED BY <1>3, <2>3 DEF After
<1>4. CASE s.kind \notin {"declaration", "assign"}
  BY <1>4 DEF After
<1> QED BY <1>2, <1>3, <1>4

-----------------------------------------------------------------------------
(* The machine. *)

(* What there is to run, as long as it runs. *)
LEMMA RunningFacts ==
  ASSUME GenInv, RunInv, status = "running"
  PROVE  /\ Len(code) \in Nat /\ at.block \in 1 .. Len(code) /\ at.index \in Nat \ {0}
         /\ Len(code[at.block]) \in Nat /\ at.index \in 1 .. Len(code[at.block])
         /\ instruction \in Instructions(Len(code), gen.temps)
         /\ instruction.op \notin EndsBlock => at.index + 1 \in 1 .. Len(code[at.block])
         /\ \A b \in 1 .. Len(code) : 1 \in 1 .. Len(code[b])
<1> DEFINE n == Len(code)
           I == Instructions(n, gen.temps)
           q == code[at.block]
<1>1. code \in Seq(Seq(I)) /\ n \in Nat
  BY GenFields DEF GenInv, code
<1>2. at.block \in 1 .. n /\ at.index \in Nat \ {0} /\ at.index <= Len(q) /\ ~Malformed(code)
  BY DEF RunInv
<1> HIDE DEF I, n
<1>3. \A b \in 1 .. n : code[b] \in Seq(I) /\ Complete(code[b])
  <2>1. DOMAIN code = 1 .. n
    BY <1>1 DEF n
  <2>2. \A b \in 1 .. n : code[b] \in Seq(I)
    BY <1>1, <2>1
  <2>3. \A b \in 1 .. n : Complete(code[b])
    BY <1>2, <2>1, Zenon DEF Malformed
  <2> QED BY <2>2, <2>3
<1>4. \A b \in 1 .. n : 1 \in 1 .. Len(code[b])
  BY <1>3 DEF Complete
<1>5. q \in Seq(I) /\ Complete(q)
  BY <1>2, <1>3
<1> HIDE DEF q
<1>6. Len(q) \in Nat /\ at.index \in 1 .. Len(q) /\ DOMAIN q = 1 .. Len(q)
  BY <1>2, <1>5
<1>7. q[at.index] \in I
  BY <1>5, <1>6
<1>8. q[at.index].op \notin EndsBlock => at.index # Len(q)
  BY <1>5, <1>6 DEF Complete
<1>9. q[at.index].op \notin EndsBlock => at.index + 1 \in 1 .. Len(q)
  BY <1>6, <1>8
<1> QED BY <1>1, <1>2, <1>4, <1>6, <1>7, <1>9 DEF n, I, q, instruction

(* What instructions of each kind consist of. *)
LEMMA InstructionParts ==
  ASSUME NEW n, NEW t, NEW i \in Instructions(n, t)
  PROVE  /\ i.op = "store" => i.var \in Var /\ i.value \in Integer
         /\ i.op = "add" => i.var \in Var /\ i.by \in Int
         /\ i.op = "set" => i.temp \in 1 .. t /\ i.value \in BOOLEAN
         /\ i.op = "get" => i.temp \in 1 .. t
         /\ i.op = "compare" => i.cmp \in Comparisons
         /\ i.op = "br" => i.to \in 1 .. n
         /\ i.op = "cbr" => i.to \in 1 .. n /\ i.other \in 1 .. n
<1>1. i.op = "store" => i.var \in Var /\ i.value \in Integer
  BY DEF Instructions, Questions, Compares
<1>2. i.op = "add" => i.var \in Var /\ i.by \in Int
  BY DEF Instructions, Questions, Compares
<1>3. i.op = "set" => i.temp \in 1 .. t /\ i.value \in BOOLEAN
  BY DEF Instructions, Questions, Compares
<1>4. i.op = "get" => i.temp \in 1 .. t
  BY DEF Instructions, Questions, Compares
<1>5. i.op = "compare" => i.cmp \in Comparisons
  BY DEF Instructions, Questions, Compares
<1>6. i.op = "br" => i.to \in 1 .. n
  BY DEF Instructions, Questions, Compares
<1>7. i.op = "cbr" => i.to \in 1 .. n /\ i.other \in 1 .. n
  BY DEF Instructions, Questions, Compares
<1> QED BY <1>1, <1>2, <1>3, <1>4, <1>5, <1>6, <1>7

LEMMA InitRunInv == Init => RunInv
<1> SUFFICES ASSUME Init PROVE RunInv
  OBVIOUS
<1>1. /\ prog \in Programs /\ gen = Start(WithReturn(prog))
      /\ at = [block |-> 1, index |-> 1] /\ acc = FALSE /\ temp = <<>>
      /\ env = [v \in Var |-> 0] /\ source = [todo |-> prog.statements, env |-> env]
      /\ status = "compiling"
  BY DEF Init
<1>2. Len(code) = 1
  BY <1>1 DEF code, Start
<1>3. at \in [block : 1 .. Len(code), index : Nat \ {0}]
  BY <1>1, <1>2
<1>4. 0 \in Integer
  BY HalfAssumption DEF Integer
<1>5. env \in [Var -> Integer] /\ source.env = env /\ source.todo = prog.statements
      /\ source = [todo |-> source.todo, env |-> source.env]
  BY <1>1, <1>4
<1>6. temp \in [DOMAIN temp -> BOOLEAN]
  BY <1>1
<1>7. \E X : Text(X) /\ source.todo \in Seq(X)
  <2> DEFINE X == Node \cup LoopMarks
  <2>1. prog.statements \in Seq(Statement)
    BY <1>1, ProgramsAssumption DEF Blocks
  <2>2. Statement \subseteq X
    BY StatementParts
  <2>3. Text(X)
    BY TextOfNodes
  <2> HIDE DEF X
  <2>4. source.todo \in Seq(X)
    BY <1>5, <2>1, <2>2
  <2> QED BY <2>3, <2>4
<1> QED BY <1>1, <1>3, <1>5, <1>6, <1>7 DEF RunInv

(* A step of the machine that leaves the text alone. *)
LEMMA MachineStep ==
  ASSUME GenInv, RunInv, status = "running",
         UNCHANGED <<prog, gen, source, status>>,
         at' \in [block : 1 .. Len(code), index : Nat \ {0}],
         at'.index <= Len(code[at'.block]),
         acc' \in BOOLEAN, temp' \in [1 .. gen.temps -> BOOLEAN], env' \in [Var -> Integer]
  PROVE  RunInv'
<1>1. code' = code
  BY DEF code
<1>2. temp' \in [DOMAIN temp' -> BOOLEAN]
  OBVIOUS
<1>3. ~Malformed(code)' /\ status' # "compiling"
  BY <1>1 DEF RunInv, Malformed
<1>4. /\ source' = [todo |-> source'.todo, env |-> source'.env]
      /\ source'.env \in [Var -> Integer]
      /\ \E X : Text(X) /\ source'.todo \in Seq(X)
  BY DEF RunInv
<1> QED BY <1>1, <1>2, <1>3, <1>4 DEF RunInv

(* A step of the text, after which the machine has gone on or not. *)
LEMMA TextStep ==
  ASSUME GenInv, RunInv, status = "running",
         UNCHANGED <<prog, gen, temp, env>>,
         status' \in {"running", "returned", "diverged"},
         at' = at \/ at' = [at EXCEPT !.index = @ + 1],
         instruction.op \in EndsBlock => at' = at,
         acc' \in BOOLEAN,
         source' = [todo |-> source'.todo, env |-> source'.env],
         source'.env \in [Var -> Integer],
         \E X : Text(X) /\ source'.todo \in Seq(X)
  PROVE  RunInv'
<1>1. code' = code
  BY DEF code
<1>2. ~Malformed(code)' /\ status' # "compiling"
  BY <1>1 DEF RunInv, Malformed
<1>3. /\ at \in [block : 1 .. Len(code), index : Nat \ {0}]
      /\ at.index \in 1 .. Len(code[at.block])
      /\ instruction.op \notin EndsBlock => at.index + 1 \in 1 .. Len(code[at.block])
  BY RunningFacts DEF RunInv
<1>4. at' \in [block : 1 .. Len(code), index : Nat \ {0}] /\ at'.index <= Len(code[at'.block])
  <2>1. CASE at' = at
    BY <1>3, <2>1
  <2>2. CASE at' # at
    <3>1. /\ at' = [at EXCEPT !.index = @ + 1] /\ instruction.op \notin EndsBlock
          /\ at.block \in 1 .. Len(code)
      BY <1>3, <2>2
    <3>2. at' = [block |-> at.block, index |-> at.index + 1]
      BY <1>3, <3>1
    <3>3. at'.block = at.block /\ at'.index = at.index + 1
      BY <3>2
    <3>4. at.index + 1 \in 1 .. Len(code[at.block]) /\ at.index + 1 \in Nat \ {0}
      BY <1>3, <3>1
    <3>5. at' \in [block : 1 .. Len(code), index : Nat \ {0}]
      BY <3>1, <3>2, <3>4
    <3> DEFINE m == Len(code[at.block])
    <3>6. m \in Nat /\ at.index + 1 \in 1 .. m
      BY <3>4, RunningFacts
    <3>7. at'.index <= Len(code[at'.block])
      <4> HIDE DEF m
      <4>1. at.index + 1 <= m
        BY <3>6
      <4> QED BY <3>3, <4>1 DEF m
    <3> QED BY <3>5, <3>7
  <2> QED BY <2>1, <2>2
<1>5. temp' \in [1 .. gen.temps -> BOOLEAN] /\ env' \in [Var -> Integer]
      /\ temp' \in [DOMAIN temp' -> BOOLEAN] /\ gen'.temps = gen.temps
  BY DEF RunInv
<1> QED BY <1>1, <1>2, <1>4, <1>5 DEF RunInv

(* The instruction after this one, or the first of another block. *)
LEMMA StaysInCode ==
  ASSUME GenInv, RunInv, status = "running"
  PROVE  /\ GoOn /\ instruction.op \notin EndsBlock =>
              /\ at' \in [block : 1 .. Len(code), index : Nat \ {0}]
              /\ at'.index <= Len(code[at'.block])
         /\ \A b \in 1 .. Len(code) : GoTo(b) =>
              /\ at' \in [block : 1 .. Len(code), index : Nat \ {0}]
              /\ at'.index <= Len(code[at'.block])
<1>1. /\ at \in [block : 1 .. Len(code), index : Nat \ {0}]
      /\ instruction.op \notin EndsBlock => at.index + 1 \in 1 .. Len(code[at.block])
      /\ Len(code[at.block]) \in Nat
      /\ \A b \in 1 .. Len(code) : 1 \in 1 .. Len(code[b])
  BY RunningFacts DEF RunInv
<1>2. ASSUME GoOn, instruction.op \notin EndsBlock
      PROVE  /\ at' \in [block : 1 .. Len(code), index : Nat \ {0}]
             /\ at'.index <= Len(code[at'.block])
  <2>1. at' = [block |-> at.block, index |-> at.index + 1]
    BY <1>1, <1>2 DEF GoOn
  <2>2. at'.block = at.block /\ at'.index = at.index + 1
    BY <2>1
  <2> DEFINE m == Len(code[at.block])
  <2>3. m \in Nat /\ at.index + 1 \in 1 .. m
    BY <1>1, <1>2
  <2>4. at.index + 1 <= m /\ at.index + 1 \in Nat \ {0}
    <3> HIDE DEF m
    <3> QED BY <2>3
  <2> QED BY <1>1, <2>1, <2>2, <2>4
<1>3. ASSUME NEW b \in 1 .. Len(code), GoTo(b)
      PROVE  /\ at' \in [block : 1 .. Len(code), index : Nat \ {0}]
             /\ at'.index <= Len(code[at'.block])
  <2>1. at' = [block |-> b, index |-> 1]
    BY <1>3 DEF GoTo
  <2>2. at'.block = b /\ at'.index = 1
    BY <2>1
  <2>3. Len(code[b]) \in Nat
    <3>1. code \in Seq(Seq(Instructions(Len(code), gen.temps)))
      BY GenFields DEF GenInv, code
    <3> DEFINE I == Instructions(Len(code), gen.temps)
    <3>2. code[b] \in Seq(I)
      BY <3>1
    <3> HIDE DEF I
    <3> QED BY <3>2
  <2> DEFINE m == Len(code[b])
  <2>4. 1 <= m
    <3>1. 1 \in 1 .. m
      BY <1>1
    <3> HIDE DEF m
    <3> QED BY <2>3, <3>1 DEF m
  <2> QED BY <2>1, <2>2, <2>4
<1> QED BY <1>2, <1>3

(* A comparison holds or it does not. *)
LEMMA HoldsBoolean ==
  ASSUME NEW c, NEW e, c.cmp \in Comparisons
  PROVE  Holds(c, e) \in BOOLEAN
<1>1. CASE c.cmp = "<"
  <2>1. Holds(c, e) = (e[c.var] < c.bound)
    BY <1>1 DEF Holds
  <2> QED BY <2>1
<1>2. CASE c.cmp = "<="
  <2>1. Holds(c, e) = (e[c.var] <= c.bound)
    BY <1>2 DEF Holds
  <2> QED BY <2>1
<1>3. CASE c.cmp = ">"
  <2>1. Holds(c, e) = (e[c.var] > c.bound)
    BY <1>3 DEF Holds
  <2> QED BY <2>1
<1>4. CASE c.cmp = ">="
  <2>1. Holds(c, e) = (e[c.var] >= c.bound)
    BY <1>4 DEF Holds
  <2> QED BY <2>1
<1> QED BY <1>1, <1>2, <1>3, <1>4 DEF Comparisons

LEMMA MachineSteps ==
  ASSUME GenInv, RunInv, Store \/ Add \/ SetTemp \/ GetTemp \/ Comparison \/ Jump \/ CondJump
  PROVE  RunInv'
<1> DEFINE n == Len(code)
           Fine == /\ at' \in [block : 1 .. Len(code), index : Nat \ {0}]
                   /\ at'.index <= Len(code[at'.block])
<1>1. status = "running"
  BY DEF Store, Add, SetTemp, GetTemp, Comparison, Jump, CondJump, AtInstruction
<1>2. instruction \in Instructions(n, gen.temps)
  BY <1>1, RunningFacts
<1>3. /\ acc \in BOOLEAN /\ temp \in [1 .. gen.temps -> BOOLEAN] /\ env \in [Var -> Integer]
  BY <1>1 DEF RunInv
<1>4. GoOn /\ instruction.op \notin EndsBlock => Fine
  BY <1>1, StaysInCode
<1>5. \A b \in 1 .. n : GoTo(b) => Fine
  BY <1>1, StaysInCode
<1> HIDE DEF n, Fine
<1>6. CASE Store
  <2>1. instruction.op = "store" /\ GoOn /\ UNCHANGED <<prog, gen, acc, temp, source, status>>
        /\ env' = [env EXCEPT ![instruction.var] = instruction.value]
    BY <1>6 DEF Store, AtInstruction
  <2>2. instruction.value \in Integer
    BY <1>2, <2>1, InstructionParts
  <2>3. env' \in [Var -> Integer]
    BY <1>3, <2>1, <2>2
  <2>4. Fine
    BY <1>4, <2>1 DEF EndsBlock
  <2> QED BY <1>1, <1>3, <2>1, <2>3, <2>4, MachineStep DEF Fine
<1>7. CASE Add
  <2>1. instruction.op = "add" /\ GoOn /\ UNCHANGED <<prog, gen, acc, temp, source, status>>
        /\ env' = [env EXCEPT ![instruction.var] = Wrap(@ + instruction.by)]
    BY <1>7 DEF Add, AtInstruction
  <2>2. instruction.var \in Var /\ instruction.by \in Int
    BY <1>2, <2>1, InstructionParts
  <2>3. Wrap(env[instruction.var] + instruction.by) \in Integer
    <3>1. env[instruction.var] + instruction.by \in Int
      BY <1>3, <2>2 DEF Integer
    <3> QED BY <3>1, WrapTyped
  <2>4. env' \in [Var -> Integer]
    BY <1>3, <2>1, <2>3
  <2>5. Fine
    BY <1>4, <2>1 DEF EndsBlock
  <2> QED BY <1>1, <1>3, <2>1, <2>4, <2>5, MachineStep DEF Fine
<1>8. CASE SetTemp
  <2>1. instruction.op = "set" /\ GoOn /\ UNCHANGED <<prog, gen, acc, env, source, status>>
        /\ temp' = [temp EXCEPT ![instruction.temp] = instruction.value]
    BY <1>8 DEF SetTemp, AtInstruction
  <2>2. instruction.value \in BOOLEAN
    BY <1>2, <2>1, InstructionParts
  <2>3. temp' \in [1 .. gen.temps -> BOOLEAN]
    BY <1>3, <2>1, <2>2
  <2>4. Fine
    BY <1>4, <2>1 DEF EndsBlock
  <2> QED BY <1>1, <1>3, <2>1, <2>3, <2>4, MachineStep DEF Fine
<1>9. CASE GetTemp
  <2>1. instruction.op = "get" /\ GoOn /\ UNCHANGED <<prog, gen, temp, env, source, status>>
        /\ acc' = temp[instruction.temp]
    BY <1>9 DEF GetTemp, AtInstruction
  <2>2. instruction.temp \in 1 .. gen.temps
    BY <1>2, <2>1, InstructionParts
  <2>3. acc' \in BOOLEAN
    BY <1>3, <2>1, <2>2
  <2>4. Fine
    BY <1>4, <2>1 DEF EndsBlock
  <2> QED BY <1>1, <1>3, <2>1, <2>3, <2>4, MachineStep DEF Fine
<1>10. CASE Comparison
  <2>1. instruction.op = "compare" /\ GoOn /\ UNCHANGED <<prog, gen, temp, env, source, status>>
        /\ acc' = Holds(instruction, env)
    BY <1>10 DEF Comparison, AtInstruction
  <2>2. instruction.cmp \in Comparisons
    BY <1>2, <2>1, InstructionParts
  <2>3. acc' \in BOOLEAN
    BY <2>1, <2>2, HoldsBoolean
  <2>4. Fine
    BY <1>4, <2>1 DEF EndsBlock
  <2> QED BY <1>1, <1>3, <2>1, <2>3, <2>4, MachineStep DEF Fine
<1>11. CASE Jump
  <2>1. instruction.op = "br" /\ GoTo(instruction.to)
        /\ UNCHANGED <<prog, gen, acc, temp, env, source, status>>
    BY <1>11 DEF Jump, AtInstruction
  <2>2. Fine
    BY <1>2, <1>5, <2>1, InstructionParts
  <2> QED BY <1>1, <1>3, <2>1, <2>2, MachineStep DEF Fine
<1>12. CASE CondJump
  <2>1. instruction.op = "cbr"
        /\ GoTo(IF acc = instruction.when THEN instruction.to ELSE instruction.other)
        /\ UNCHANGED <<prog, gen, acc, temp, env, source, status>>
    BY <1>12 DEF CondJump, AtInstruction
  <2>2. GoTo(instruction.to) \/ GoTo(instruction.other)
    BY <2>1
  <2>3. Fine
    BY <1>2, <1>5, <2>1, <2>2, InstructionParts
  <2> QED BY <1>1, <1>3, <2>1, <2>3, MachineStep DEF Fine
<1> QED BY <1>6, <1>7, <1>8, <1>9, <1>10, <1>11, <1>12

LEMMA TextSteps ==
  ASSUME GenInv, RunInv, Read \/ Call \/ Ask \/ Ret
  PROVE  RunInv'
<1>1. status = "running"
  BY DEF Read, Call, Ask, Ret, AtEffect, AtInstruction
<1>2. /\ acc \in BOOLEAN
      /\ source = [todo |-> source.todo, env |-> source.env]
      /\ source.env \in [Var -> Integer]
  BY DEF RunInv
<1>3. PICK X : Text(X) /\ source.todo \in Seq(X)
  BY DEF RunInv
<1>4. ASSUME source' = source
      PROVE  /\ source' = [todo |-> source'.todo, env |-> source'.env]
             /\ source'.env \in [Var -> Integer]
             /\ \E Y : Text(Y) /\ source'.todo \in Seq(Y)
  BY <1>2, <1>3, <1>4
<1>5. ASSUME NEW Y, Text(Y), NEW todo \in Seq(Y), NEW e \in [Var -> Integer],
             source' = [todo |-> todo, env |-> e]
      PROVE  /\ source' = [todo |-> source'.todo, env |-> source'.env]
             /\ source'.env \in [Var -> Integer]
             /\ \E Z : Text(Z) /\ source'.todo \in Seq(Z)
  <2>1. source'.todo = todo /\ source'.env = e
    BY <1>5
  <2> QED BY <1>5, <2>1
<1>6. ASSUME next # <<>>
      PROVE  Head(next) \in X /\ Tail(next) \in Seq(X)
  <2>1. next \in Seq(X)
    BY <1>3 DEF next
  <2> QED BY <1>6, <2>1, PopIndices
<1>7. CASE Read
  <2>1. /\ next # <<>> /\ ~HasEffect(Head(next))
        /\ source' = [todo |-> Unfold(Head(next), Tail(next), source.env),
                      env  |-> After(Head(next), source.env)]
        /\ UNCHANGED <<prog, gen, at, acc, temp, env, status>>
    BY <1>7 DEF Read
  <2> DEFINE s == Head(next)
             rest == Tail(next)
             e == source.env
  <2>2. s \in X /\ rest \in Seq(X) /\ e \in [Var -> Integer]
    BY <1>2, <1>6, <2>1
  <2>3. ~HasEffect(s) /\ source' = [todo |-> Unfold(s, rest, e), env |-> After(s, e)]
    BY <2>1
  <2> HIDE DEF s, rest, e
  <2>4. PICK Y : Text(Y) /\ Unfold(s, rest, e) \in Seq(Y)
    BY <1>3, <2>2, <2>3, UnfoldTyped
  <2>5. After(s, e) \in [Var -> Integer]
    BY <1>3, <2>2, AfterTyped
  <2>6. /\ source' = [todo |-> source'.todo, env |-> source'.env]
        /\ source'.env \in [Var -> Integer]
        /\ \E Z : Text(Z) /\ source'.todo \in Seq(Z)
    BY <1>5, <2>3, <2>4, <2>5
  <2> QED BY <1>1, <1>2, <2>1, <2>6, TextStep
<1>8. ASSUME Diverge, UNCHANGED <<prog, gen, temp, env>>
      PROVE  RunInv'
  <2>1. status' = "diverged" /\ at' = at /\ acc' = acc /\ source' = source
    BY <1>8 DEF Diverge
  <2> QED BY <1>1, <1>2, <1>4, <1>8, <2>1, TextStep
<1>9. CASE Call
  <2>1. UNCHANGED <<prog, gen, temp, env>> /\ instruction.op = "call"
    BY <1>9 DEF Call, AtEffect, AtInstruction
  <2>2. CASE Diverge
    BY <1>8, <2>1, <2>2
  <2>3. CASE ~Diverge
    <3>1. /\ next # <<>> /\ source' = [source EXCEPT !.todo = Tail(@)] /\ GoOn
          /\ UNCHANGED <<acc, status>>
      BY <1>9, <2>3 DEF Call, SourceIsAt
    <3>2. source' = [todo |-> Tail(next), env |-> source.env]
      BY <1>2, <3>1 DEF next
    <3>3. Tail(next) \in Seq(X)
      BY <1>6, <3>1
    <3>4. /\ source' = [todo |-> source'.todo, env |-> source'.env]
          /\ source'.env \in [Var -> Integer]
          /\ \E Z : Text(Z) /\ source'.todo \in Seq(Z)
      BY <1>2, <1>3, <1>5, <3>2, <3>3
    <3>5. at' = [at EXCEPT !.index = @ + 1] /\ instruction.op \notin EndsBlock
      BY <2>1, <3>1, SMTT(30) DEF GoOn, EndsBlock
    <3> QED BY <1>1, <1>2, <2>1, <3>1, <3>4, <3>5, TextStep
  <2> QED BY <2>2, <2>3
<1>10. CASE Ask
  <2>1. UNCHANGED <<prog, gen, temp, env>> /\ instruction.op = "ask"
    BY <1>10 DEF Ask, AtEffect, AtInstruction
  <2>2. CASE Diverge
    BY <1>8, <2>1, <2>2
  <2>3. CASE ~Diverge
    <3>1. next # <<>> /\ Head(next).kind = "branch" /\ GoOn /\ status' = status
      BY <1>10, <2>3 DEF Ask, SourceIsAt
    <3>2. PICK answer \in BOOLEAN :
            /\ acc' = answer
            /\ source' = [source EXCEPT !.todo =
                           (IF answer THEN Head(@).yes ELSE Head(@).no) \o Tail(@)]
      BY <1>10, <2>3 DEF Ask
    <3> DEFINE first == IF answer THEN Head(next).yes ELSE Head(next).no
               todo == first \o Tail(next)
    <3>3. source' = [todo |-> todo, env |-> source.env]
      BY <1>2, <3>2 DEF next
    <3>4. Head(next) \in X /\ Tail(next) \in Seq(X)
      BY <1>6, <3>1
    <3>5. first \in Seq(X)
      <4>1. Head(next) \in Branches(X)
        BY <1>3, <3>1, <3>4, TextParts
      <4>2. Head(next).yes \in Seq(X) /\ Head(next).no \in Seq(X)
        BY <4>1 DEF Branches
      <4> QED BY <4>2
    <3> HIDE DEF first
    <3>6. todo \in Seq(X)
      BY <3>4, <3>5
    <3> HIDE DEF todo
    <3>7. /\ source' = [todo |-> source'.todo, env |-> source'.env]
          /\ source'.env \in [Var -> Integer]
          /\ \E Z : Text(Z) /\ source'.todo \in Seq(Z)
      BY <1>2, <1>3, <1>5, <3>3, <3>6
    <3>8. at' = [at EXCEPT !.index = @ + 1] /\ instruction.op \notin EndsBlock
      BY <2>1, <3>1 DEF GoOn, EndsBlock
    <3>9. acc' \in BOOLEAN /\ status' = "running"
      BY <1>1, <3>1, <3>2
    <3> QED BY <2>1, <3>7, <3>8, <3>9, <1>1, TextStep, SMTT(30)
  <2> QED BY <2>2, <2>3
<1>11. CASE Ret
  <2>1. /\ status' \in {"returned", "diverged"} /\ UNCHANGED <<prog, gen, at, acc, temp, env, source>>
    BY <1>11 DEF Ret
  <2> QED BY <1>1, <1>2, <1>4, <2>1, TextStep
<1> QED BY <1>7, <1>9, <1>10, <1>11

LEMMA NextRunInv == GenInv /\ GenInv' /\ RunInv /\ [Next]_vars => RunInv'
<1> SUFFICES ASSUME GenInv, GenInv', RunInv, [Next]_vars PROVE RunInv'
  OBVIOUS
<1>1. /\ acc \in BOOLEAN /\ temp \in [DOMAIN temp -> BOOLEAN] /\ env \in [Var -> Integer]
      /\ source = [todo |-> source.todo, env |-> source.env] /\ source.env \in [Var -> Integer]
      /\ \E X : Text(X) /\ source.todo \in Seq(X)
      /\ at \in [block : 1 .. Len(code), index : Nat \ {0}]
      /\ status = "compiling" => at = [block |-> 1, index |-> 1]
  BY DEF RunInv
<1>2. CASE Compile
  <2>1. /\ status = "compiling" /\ status' \in {"compiling", "aborted"}
        /\ at' = at /\ acc' = acc /\ temp' = temp /\ env' = env /\ source' = source
    BY <1>2 DEF Compile
  <2>2. PICK h : h = gen'
    OBVIOUS
  <2>3. GenTyped(h)
    BY <2>2 DEF GenInv, GenTyped, Generators
  <2>4. Len(h.code) \in Nat /\ h.insert \in 1 .. Len(h.code)
    BY <2>3, GenFields
  <2>5. 1 \in 1 .. Len(h.code)
    BY <2>4
  <2>6. code' = h.code
    BY <2>2 DEF code
  <2>7. at' \in [block : 1 .. Len(code'), index : Nat \ {0}]
        /\ at' = [block |-> 1, index |-> 1]
    BY <1>1, <2>1, <2>5, <2>6
  <2>8. (\E X : Text(X) /\ source.todo \in Seq(X))'
    BY <1>1, <2>1 DEF Text, Node, LoopMarks, Branches, Simple, Compound
  <2> QED BY <1>1, <2>1, <2>7, <2>8 DEF RunInv
<1>3. CASE Enter
  <2>1. /\ status = "compiling" /\ status' = IF Malformed(gen.code) THEN "malformed" ELSE "running"
        /\ temp' = [t \in 1 .. gen.temps |-> FALSE]
        /\ gen' = gen /\ at' = at /\ acc' = acc /\ env' = env /\ source' = source
    BY <1>3 DEF Enter
  <2>2. code' = code
    BY <2>1 DEF code
  <2>3. temp' \in [1 .. gen'.temps -> BOOLEAN] /\ temp' \in [DOMAIN temp' -> BOOLEAN]
    BY <2>1
  <2>4. at' = [block |-> 1, index |-> 1] /\ at' \in [block : 1 .. Len(code'), index : Nat \ {0}]
    BY <1>1, <2>1, <2>2
  <2>5. ASSUME status' = "running"
        PROVE  ~Malformed(code)' /\ at'.index <= Len(code'[at'.block])
    <3>1. ~Malformed(code)
      BY <2>1, <2>5 DEF code
    <3>2. code \in Seq(Seq(Instructions(Len(code), gen.temps)))
      BY GenFields DEF GenInv, code
    <3>3. 1 \in 1 .. Len(code) /\ at'.block = 1 /\ at'.index = 1
      BY <1>1, <2>1, <2>4
    <3> DEFINE I == Instructions(Len(code), gen.temps)
               q == code[1]
    <3>4. q \in Seq(I) /\ Complete(q)
      BY <3>1, <3>2, <3>3 DEF Malformed
    <3> HIDE DEF I, q
    <3>5. 1 <= Len(q)
      BY <3>4 DEF Complete
    <3> QED BY <2>2, <3>1, <3>3, <3>5 DEF q, Malformed
  <2>6. (\E X : Text(X) /\ source.todo \in Seq(X))'
    BY <1>1, <2>1 DEF Text, Node, LoopMarks, Branches, Simple, Compound
  <2>7. status' # "compiling"
    BY <2>1
  <2> QED BY <1>1, <2>1, <2>3, <2>4, <2>5, <2>6, <2>7 DEF RunInv
<1>4. CASE Store \/ Add \/ SetTemp \/ GetTemp \/ Comparison \/ Jump \/ CondJump
  BY <1>4, MachineSteps
<1>5. CASE Read \/ Call \/ Ask \/ Ret
  BY <1>5, TextSteps
<1>6. CASE UNCHANGED vars
  <2>1. UNCHANGED <<gen, at, acc, temp, env, source, status>>
    BY <1>6 DEF vars
  <2>2. code' = code
    BY <2>1 DEF code
  <2>3. (\E X : Text(X) /\ source.todo \in Seq(X))'
    BY <1>1, <2>1 DEF Text, Node, LoopMarks, Branches, Simple, Compound
  <2> QED BY <2>1, <2>2, <2>3 DEF RunInv, Malformed
<1> QED BY <1>2, <1>3, <1>4, <1>5, <1>6 DEF Next

LEMMA RunInvHolds == Spec => [](GenInv /\ RunInv)
<1>1. Init => GenInv /\ RunInv
  BY InitGenInv, InitRunInv
<1>2. (GenInv /\ RunInv) /\ [Next]_vars => (GenInv /\ RunInv)'
  BY NextGenInv, NextRunInv
<1> QED BY <1>1, <1>2, PTL DEF Spec

(***************************************************************************)
(* Every variable has its type, and the compiled procedure stays within    *)
(* its blocks: the next instruction is one of them as long as it runs.     *)
(***************************************************************************)
THEOREM TypeCorrect == Spec => []TypeOK
<1>1. ASSUME GenInv, RunInv PROVE TypeOK
  <2>1. code \in Seq(Seq(Instructions(Len(code), gen.temps)))
    BY <1>1, GenFields DEF GenInv, code
  <2>2. DOMAIN code = 1 .. Len(code) /\ at.block \in 1 .. Len(code)
    BY <1>1, <2>1 DEF RunInv
  <2>3. ASSUME status = "running" PROVE at.index \in DOMAIN code[at.block]
    <3> DEFINE I == Instructions(Len(code), gen.temps)
               q == code[at.block]
    <3>1. q \in Seq(I) /\ at.index \in 1 .. Len(q)
      BY <1>1, <2>1, <2>2, <2>3, RunningFacts
    <3> HIDE DEF I, q
    <3>2. DOMAIN q = 1 .. Len(q)
      BY <3>1
    <3> QED BY <3>1, <3>2 DEF q
  <2> QED BY <1>1, <2>2, <2>3 DEF GenInv, RunInv, TypeOK
<1> QED BY <1>1, RunInvHolds, PTL
=============================================================================
