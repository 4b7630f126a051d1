--------------------------- MODULE OnDemandProofs ---------------------------
(***************************************************************************)
(* For every module of any number of procedures: OnDemand keeps its types, *)
(* FunctionsAreUnique, InsertPointIsOwn and OneCompilerEach, and           *)
(* implements EmitOnce.                                                    *)
(***************************************************************************)
EXTENDS OnDemand, TLAPS

(***************************************************************************)
(* The strengthening.  A compiler c at work in module m is in a procedure  *)
(* that has been named, has emitted what lies before the step it has come  *)
(* to, and has seen to the calls begun so far (nm: the declarations named, *)
(* bd: the bodies).                                                        *)
(***************************************************************************)
Fits(m, nm, bd, c) ==
  LET t == m.text[c.proc]
  IN  /\ c.proc \in nm
      /\ m.kind[c.proc] = "procedure"
      /\ c.insert = c.proc
      /\ c.loops = LoopsAt(t, c.at)
      /\ c.at \in 1 .. Len(t) + 1
      /\ c.need \in Nat \ {0}
      /\ Len(bd[c.proc]) = c.at - 1
      /\ \A j \in 1 .. c.at - 1 : \A k \in DOMAIN t[j].needs : t[j].needs[k] \in nm
      /\ c.at \in DOMAIN t =>
           /\ c.need <= Len(t[c.at].needs) + 1
           /\ \A k \in 1 .. c.need - 1 : t[c.at].needs[k] \in nm

(* A compiler that waits until p has been compiled. *)
WaitsFor(m, c, p) ==
  LET t == m.text[c.proc]
  IN  /\ c.proc # NoProc
      /\ c.at \in DOMAIN t
      /\ c.need \in DOMAIN t[c.at].needs
      /\ t[c.at].needs[c.need] = p

(* At the module block, a compiler has no loops. *)
CompilersFit ==
  \A i \in 1 .. Len(stack) :
    IF stack[i].proc = NoProc
    THEN i = 1 /\ stack[i].loops = 0
    ELSE Fits(prog, named, body, stack[i])

CallersWait ==
  \A i \in 1 .. Len(stack) - 1 : WaitsFor(prog, stack[i], stack[i + 1].proc)

(* Elsewhere, a body is empty or complete. *)
BodiesComplete ==
  \A p \in Proc :
    /\ p \notin named => body[p] = <<>>
    /\ p \in named /\ prog.kind[p] = "procedure"
         => \/ Len(body[p]) = Len(prog.text[p])
            \/ \E i \in 1 .. Len(stack) : stack[i].proc = p

NoVariableNamed == \A p \in named : prog.kind[p] # "variable"

(* The statements up to the current one have been seen to. *)
StatementsNamed ==
  /\ \A j \in 1 .. statement - 1 : j \in DOMAIN prog.order => prog.order[j] \in named
  /\ stack[1].proc # NoProc =>
       /\ statement \in DOMAIN prog.order
       /\ prog.order[statement] = stack[1].proc

FunctionsAreNamed == \A i \in DOMAIN functions : functions[i] \in named

IInv ==
  /\ TypeOK
  /\ CompilersFit
  /\ OneCompilerEach
  /\ CallersWait
  /\ BodiesComplete
  /\ NoVariableNamed
  /\ StatementsNamed
  /\ FunctionsAreNamed
  /\ FunctionsAreUnique
-----------------------------------------------------------------------------
(* What the ways of changing the stack do to it. *)

LEMMA PutFacts ==
  ASSUME NEW S, NEW s \in Seq(S), s # <<>>, NEW e \in S,
         NEW r, r = [s EXCEPT ![Len(s)] = e]
  PROVE  /\ r \in Seq(S) /\ r # <<>>
         /\ Len(r) = Len(s)
         /\ r[Len(s)] = e
         /\ \A i \in 1 .. Len(s) - 1 : r[i] = s[i]
  OBVIOUS

LEMMA AppendFacts ==
  ASSUME NEW S, NEW s \in Seq(S), NEW e \in S
  PROVE  /\ Append(s, e) \in Seq(S) /\ Append(s, e) # <<>>
         /\ Len(Append(s, e)) = Len(s) + 1
         /\ Append(s, e)[Len(s) + 1] = e
         /\ \A i \in 1 .. Len(s) : Append(s, e)[i] = s[i]
  OBVIOUS

LEMMA PrefixFacts ==
  ASSUME NEW S, NEW s \in Seq(S), NEW n \in 0 .. Len(s)
  PROVE  /\ SubSeq(s, 1, n) \in Seq(S)
         /\ Len(SubSeq(s, 1, n)) = n
         /\ \A i \in 1 .. n : SubSeq(s, 1, n)[i] = s[i]
  OBVIOUS

-----------------------------------------------------------------------------
(***************************************************************************)
(* A compiler that is left alone fits, whatever else is named and emitted. *)
(***************************************************************************)
LEMMA FitsStays ==
  ASSUME NEW m, NEW nm, NEW nm2, NEW bd, NEW bd2, NEW c,
         Fits(m, nm, bd, c), nm \subseteq nm2, bd2[c.proc] = bd[c.proc]
  PROVE  Fits(m, nm2, bd2, c)
  BY DEF Fits

(***************************************************************************)
(* The module of a well-typed state is one of those compile_to_ir is given.*)
(***************************************************************************)
LEMMA TextFacts ==
  ASSUME TypeOK, NEW p \in Proc
  PROVE  /\ prog.text[p] \in Seq(Step)
         /\ WellNested(prog.text[p])
         /\ CallsBegin(prog.text[p])
  BY DEF TypeOK, Module, WellFormed

(***************************************************************************)
(* A compiler that has just entered a procedure that was not named fits.   *)
(***************************************************************************)
LEMMA EnteredFits ==
  ASSUME TypeOK, BodiesComplete, NEW p \in Proc, p \notin named,
         prog.kind[p] = "procedure", NEW nm, p \in nm, NEW c,
         c.proc = p, c.at = 1, c.need = 1, c.insert = p, c.loops = 0
  PROVE  Fits(prog, nm, body, c)
  <1>1. prog.text[p] \in Seq(Step) /\ LoopsAt(prog.text[p], 1) = 0
    BY TextFacts DEF WellNested
  <1>2. Len(body[p]) = 0
    BY DEF BodiesComplete
  <1>3. 1 \in DOMAIN prog.text[p] => Len(prog.text[p][1].needs) \in Nat
    BY <1>1 DEF Step
  <1>. QED
    BY <1>1, <1>2, <1>3 DEF Fits

(***************************************************************************)
(* Creating a function for a declaration that was not named.               *)
(***************************************************************************)
LEMMA CreateFacts ==
  ASSUME TypeOK, FunctionsAreNamed, FunctionsAreUnique,
         NEW p \in Proc, p \notin named, CreateFunction(p)
  PROVE  /\ functions' \in Seq(Proc)
         /\ named' \in SUBSET Proc
         /\ named' = named \cup {p}
         /\ FunctionsAreNamed'
         /\ FunctionsAreUnique'
  <1>1. functions \in Seq(Proc) /\ named \in SUBSET Proc
    BY DEF TypeOK
  <1>2. functions' = Append(functions, p) /\ named' = named \cup {p}
    BY DEF CreateFunction
  <1>3. /\ functions' \in Seq(Proc)
        /\ Len(functions') = Len(functions) + 1
        /\ functions'[Len(functions) + 1] = p
        /\ \A i \in 1 .. Len(functions) : functions'[i] = functions[i]
    BY <1>1, <1>2, AppendFacts
  <1>4. \A i \in 1 .. Len(functions) : functions[i] \in named
    BY <1>1 DEF FunctionsAreNamed
  <1>5. FunctionsAreNamed'
    BY <1>1, <1>2, <1>3, <1>4 DEF FunctionsAreNamed
  <1>6. FunctionsAreUnique'
    <2>. SUFFICES ASSUME NEW i \in DOMAIN functions', NEW j \in DOMAIN functions',
                         functions'[i] = functions'[j]
                  PROVE  i = j
      BY DEF FunctionsAreUnique
    <2>1. i \in 1 .. Len(functions) + 1 /\ j \in 1 .. Len(functions) + 1
      BY <1>1, <1>3
    <2>. QED
      BY <1>1, <1>3, <1>4, <2>1 DEF FunctionsAreUnique
  <1>. QED
    BY <1>1, <1>2, <1>3, <1>5, <1>6

(***************************************************************************)
(* The compiler at the top.                                                *)
(***************************************************************************)
LEMMA TopFacts ==
  ASSUME TypeOK
  PROVE  /\ stack \in Seq(Compiler) /\ stack # <<>>
         /\ Len(stack) \in Nat \ {0}
         /\ top = stack[Len(stack)]
         /\ top \in Compiler
  BY DEF TypeOK, top

LEMMA AtModuleFacts ==
  ASSUME IInv, AtModule
  PROVE  Len(stack) = 1 /\ top = stack[1] /\ top.proc = NoProc /\ top.loops = 0
  <1>1. TypeOK /\ top.proc = NoProc
    BY DEF IInv, AtModule
  <1>2. Len(stack) \in Nat \ {0} /\ top = stack[Len(stack)]
    BY <1>1, TopFacts
  <1>3. Len(stack) \in 1 .. Len(stack) /\ stack[Len(stack)].proc = NoProc
    BY <1>1, <1>2
  <1>4. Len(stack) = 1 /\ stack[Len(stack)].loops = 0
    BY <1>3 DEF IInv, CompilersFit
  <1>. QED
    BY <1>1, <1>2, <1>4

LEMMA WorkingFacts ==
  ASSUME IInv, Working
  PROVE  /\ top.proc \in Proc
         /\ Fits(prog, named, body, top)
         /\ text = prog.text[top.proc]
         /\ text \in Seq(Step)
         /\ WellNested(text)
         /\ CallsBegin(text)
         /\ top.at \in DOMAIN text => step = text[top.at] /\ step \in Step
  <1>1. top \in Compiler /\ top.proc \in Proc
    BY TopFacts DEF IInv, Working, Compiler
  <1>2. Fits(prog, named, body, top)
    BY TopFacts DEF IInv, Working, CompilersFit
  <1>3. /\ text = prog.text[top.proc]
        /\ text \in Seq(Step)
        /\ WellNested(text)
        /\ CallsBegin(text)
    BY <1>1, TextFacts DEF IInv, text
  <1>. QED
    BY <1>1, <1>2, <1>3 DEF step

(***************************************************************************)
(* A compiler that has seen to one more call fits.                         *)
(***************************************************************************)
LEMMA NeedSeen ==
  ASSUME NEW m, NEW nm, NEW nm2, NEW bd, NEW c \in Compiler, NEW p,
         Fits(m, nm, bd, c), WaitsFor(m, c, p), nm \subseteq nm2, p \in nm2,
         m.text[c.proc] \in Seq(Step),
         NEW e, e.proc = c.proc, e.at = c.at, e.need = c.need + 1,
         e.insert = c.insert, e.loops = c.loops
  PROVE  Fits(m, nm2, bd, e)
  <1>. DEFINE t == m.text[c.proc]
              needs == t[c.at].needs
  <1>1. Len(needs) \in Nat /\ c.need \in 1 .. Len(needs)
    <2>1. t[c.at] \in Step
      BY DEF WaitsFor
    <2>2. needs \in Seq(Proc) /\ c.need \in DOMAIN needs
      BY <2>1 DEF Step, WaitsFor
    <2>. HIDE DEF needs
    <2>. QED
      BY <2>2
  <1>2. \A k \in 1 .. c.need - 1 : needs[k] \in nm
    BY DEF Fits, WaitsFor
  <1>3. needs[c.need] = p
    BY DEF WaitsFor
  <1>. HIDE DEF needs
  <1>4. e.need \in Nat \ {0} /\ e.need <= Len(needs) + 1
    BY <1>1
  <1>5. \A k \in 1 .. e.need - 1 : needs[k] \in nm2
    BY <1>1, <1>2, <1>3
  <1>. QED
    BY <1>4, <1>5 DEF Fits, needs

LEMMA NextNeed ==
  ASSUME NEW c \in Compiler
  PROVE  LET e == [c EXCEPT !.need = @ + 1]
         IN  /\ e \in Compiler /\ e.proc = c.proc /\ e.at = c.at /\ e.need = c.need + 1
             /\ e.insert = c.insert /\ e.loops = c.loops
  BY DEF Compiler

(* A compiler that goes on to the step at a. *)
GoesTo(c, a, l) == [c EXCEPT !.at = a, !.need = 1, !.loops = l]

LEMMA NextStep ==
  ASSUME NEW c \in Compiler, NEW a \in Nat, NEW l \in Nat
  PROVE  /\ GoesTo(c, a, l) \in Compiler
         /\ GoesTo(c, a, l).proc = c.proc /\ GoesTo(c, a, l).at = a
         /\ GoesTo(c, a, l).need = 1
         /\ GoesTo(c, a, l).insert = c.insert /\ GoesTo(c, a, l).loops = l
  BY DEF Compiler, GoesTo

LEMMA NeedAdvances ==
  ASSUME IInv, Working, prog' = prog, body' = body, named \subseteq named',
         top.at \in DOMAIN text, top.need \in DOMAIN step.needs,
         step.needs[top.need] \in named',
         stack' = [stack EXCEPT ![Len(stack)] = [top EXCEPT !.need = @ + 1]]
  PROVE  /\ stack' \in Seq(Compiler) /\ stack' # <<>>
         /\ Len(stack') = Len(stack)
         /\ \A i \in 1 .. Len(stack) : stack'[i].proc = stack[i].proc
         /\ CompilersFit' /\ OneCompilerEach' /\ CallersWait'
  <1>. DEFINE n == Len(stack)
              e == [top EXCEPT !.need = @ + 1]
  <1>1. TypeOK /\ CompilersFit /\ OneCompilerEach /\ CallersWait
    BY DEF IInv
  <1>2. /\ stack \in Seq(Compiler) /\ stack # <<>> /\ n \in Nat \ {0}
        /\ top = stack[n] /\ top \in Compiler
    BY <1>1, TopFacts
  <1>3. /\ Fits(prog, named, body, top)
        /\ text = prog.text[top.proc] /\ text \in Seq(Step) /\ step = text[top.at]
        /\ top.proc \in Proc
    BY WorkingFacts
  <1>4. e \in Compiler /\ e.proc = top.proc /\ Fits(prog, named', body, e)
    <2>1. WaitsFor(prog, top, step.needs[top.need])
      BY <1>3, NoProcAssumption DEF WaitsFor
    <2>2. /\ e \in Compiler /\ e.proc = top.proc /\ e.at = top.at /\ e.need = top.need + 1
          /\ e.insert = top.insert /\ e.loops = top.loops
      BY <1>2, NextNeed
    <2>. HIDE DEF e
    <2>3. Fits(prog, named', body, e)
      BY <1>2, <1>3, <2>1, <2>2, NeedSeen
    <2>. QED
      BY <2>2, <2>3
  <1>. HIDE DEF e
  <1>5. /\ stack' \in Seq(Compiler) /\ stack' # <<>> /\ Len(stack') = n
        /\ stack'[n] = e /\ \A i \in 1 .. n - 1 : stack'[i] = stack[i]
    BY <1>2, <1>4, PutFacts DEF e
  <1>6. \A i \in 1 .. n : stack'[i].proc = stack[i].proc
    BY <1>2, <1>4, <1>5
  <1>7. CompilersFit'
    <2>. SUFFICES ASSUME NEW i \in 1 .. n
                  PROVE  IF stack'[i].proc = NoProc
                         THEN i = 1 /\ stack'[i].loops = 0
                         ELSE Fits(prog', named', body', stack'[i])
      BY <1>5 DEF CompilersFit
    <2>1. CASE i = n
      BY <1>3, <1>4, <1>5, <2>1, NoProcAssumption
    <2>2. CASE i # n
      <3>1. stack'[i] = stack[i]
        BY <1>2, <1>5, <2>2
      <3>. QED
        BY <1>1, <3>1, FitsStays DEF CompilersFit
    <2>. QED
      BY <2>1, <2>2
  <1>8. OneCompilerEach'
    BY <1>1, <1>2, <1>5, <1>6 DEF OneCompilerEach
  <1>9. CallersWait'
    BY <1>1, <1>2, <1>5, <1>6 DEF CallersWait
  <1>. QED
    BY <1>5, <1>6, <1>7, <1>8, <1>9

-----------------------------------------------------------------------------
(* Each action preserves the strengthening. *)

LEMMA VisitStatementKeeps ==
  ASSUME IInv, VisitStatement
  PROVE  IInv'
  <1>. DEFINE p == prog.order[statement]
              c == Enter(top, p)
  <1>1. /\ TypeOK /\ CompilersFit /\ OneCompilerEach /\ CallersWait /\ BodiesComplete
        /\ NoVariableNamed /\ StatementsNamed /\ FunctionsAreNamed /\ FunctionsAreUnique
    BY DEF IInv
  <1>2. Len(stack) = 1 /\ top = stack[1] /\ top.proc = NoProc /\ top.loops = 0
    BY AtModuleFacts DEF VisitStatement
  <1>3. /\ statement \in Nat \ {0} /\ statement <= Len(prog.order)
        /\ prog.order \in Seq(Proc) /\ prog' = prog
    BY <1>1 DEF VisitStatement, TypeOK, Module
  <1>4. p \in Proc /\ statement \in DOMAIN prog.order
    BY <1>3
  <1>5. \/ /\ p \in named
           /\ statement' = statement + 1
           /\ UNCHANGED <<stack, named, functions, body, status>>
        \/ p \notin named /\ Fails(p)
        \/ /\ p \notin named
           /\ prog.kind[p] = "external"
           /\ CreateFunction(p)
           /\ statement' = statement + 1
           /\ UNCHANGED <<stack, body, status>>
        \/ /\ p \notin named
           /\ prog.kind[p] = "procedure"
           /\ CreateFunction(p)
           /\ stack' = [stack EXCEPT ![Len(stack)] = c]
           /\ UNCHANGED <<statement, body, status>>
    BY DEF VisitStatement, SetTop
  <1>. HIDE DEF p
  <1>6. CASE p \in named /\ statement' = statement + 1
             /\ UNCHANGED <<stack, named, functions, body, status>>
    <2>1. TypeOK'
      BY <1>1, <1>3, <1>6 DEF TypeOK
    <2>2. StatementsNamed'
      BY <1>1, <1>2, <1>3, <1>6 DEF StatementsNamed, p
    <2>. QED
      BY <1>1, <1>3, <1>6, <2>1, <2>2 DEF IInv, CompilersFit, OneCompilerEach, CallersWait,
         BodiesComplete, NoVariableNamed, FunctionsAreNamed, FunctionsAreUnique
  <1>7. CASE p \notin named /\ Fails(p)
    <2>1. status' = "abort" /\ UNCHANGED <<statement, stack, named, functions, body>>
      BY <1>7 DEF Fails
    <2>2. TypeOK'
      BY <1>1, <1>3, <2>1 DEF TypeOK
    <2>. QED
      BY <1>1, <1>3, <2>1, <2>2 DEF IInv, CompilersFit, OneCompilerEach, CallersWait,
         BodiesComplete, NoVariableNamed, StatementsNamed, FunctionsAreNamed, FunctionsAreUnique
  <1>8. CASE /\ p \notin named
             /\ prog.kind[p] = "external"
             /\ CreateFunction(p)
             /\ statement' = statement + 1
             /\ UNCHANGED <<stack, body, status>>
    <2>1. /\ functions' \in Seq(Proc) /\ named' \in SUBSET Proc
          /\ named' = named \cup {p} /\ FunctionsAreNamed' /\ FunctionsAreUnique'
      BY <1>1, <1>4, <1>8, CreateFacts
    <2>2. TypeOK'
      BY <1>1, <1>3, <1>8, <2>1 DEF TypeOK
    <2>3. StatementsNamed'
      BY <1>1, <1>2, <1>3, <1>8, <2>1 DEF StatementsNamed, p
    <2>4. CompilersFit'
      <3>1. Len(stack') = 1 /\ stack'[1].proc = NoProc /\ stack'[1].loops = 0
        BY <1>2, <1>8
      <3>. QED
        BY <3>1 DEF CompilersFit
    <2>5. BodiesComplete' /\ NoVariableNamed'
      BY <1>1, <1>3, <1>8, <2>1 DEF BodiesComplete, NoVariableNamed
    <2>6. OneCompilerEach' /\ CallersWait'
      BY <1>1, <1>3, <1>8 DEF OneCompilerEach, CallersWait
    <2>. QED
      BY <2>1, <2>2, <2>3, <2>4, <2>5, <2>6 DEF IInv
  <1>9. CASE /\ p \notin named
             /\ prog.kind[p] = "procedure"
             /\ CreateFunction(p)
             /\ stack' = [stack EXCEPT ![Len(stack)] = c]
             /\ UNCHANGED <<statement, body, status>>
    <2>1. /\ functions' \in Seq(Proc) /\ named' \in SUBSET Proc
          /\ named' = named \cup {p} /\ FunctionsAreNamed' /\ FunctionsAreUnique'
      BY <1>1, <1>4, <1>9, CreateFacts
    <2>2. stack \in Seq(Compiler) /\ stack # <<>> /\ top \in Compiler
      BY <1>1, TopFacts
    <2>3. /\ c \in Compiler
          /\ c.proc = p /\ c.at = 1 /\ c.need = 1 /\ c.insert = p /\ c.loops = 0
      BY <1>2, <1>4, <2>2 DEF Compiler, Enter
    <2>4. p # NoProc
      BY <1>4, NoProcAssumption
    <2>. HIDE DEF c
    <2>5. /\ stack' \in Seq(Compiler) /\ stack' # <<>>
          /\ Len(stack') = 1 /\ stack'[1] = c
      BY <1>2, <1>9, <2>2, <2>3, PutFacts
    <2>6. TypeOK'
      BY <1>1, <1>3, <1>9, <2>1, <2>5 DEF TypeOK
    <2>7. StatementsNamed'
      BY <1>1, <1>3, <1>4, <1>9, <2>1, <2>3, <2>5 DEF StatementsNamed, p
    <2>8. CompilersFit'
      <3>1. Fits(prog', named', body', c)
        BY <1>1, <1>3, <1>4, <1>9, <2>1, <2>3, EnteredFits
      <3>. QED
        BY <2>3, <2>4, <2>5, <3>1 DEF CompilersFit
    <2>9. BodiesComplete' /\ NoVariableNamed'
      BY <1>1, <1>2, <1>3, <1>9, <2>1, <2>3, <2>5, NoProcAssumption
         DEF BodiesComplete, NoVariableNamed
    <2>10. OneCompilerEach' /\ CallersWait'
      BY <2>5 DEF OneCompilerEach, CallersWait
    <2>. QED
      BY <2>1, <2>6, <2>7, <2>8, <2>9, <2>10 DEF IInv
  <1>. QED
    BY <1>5, <1>6, <1>7, <1>8, <1>9

LEMMA BeginCallKeeps ==
  ASSUME IInv, BeginCall
  PROVE  IInv'
  <1>. DEFINE n == Len(stack)
              p == step.needs[top.need]
              c == NewCompiler(p)
  <1>1. /\ TypeOK /\ CompilersFit /\ OneCompilerEach /\ CallersWait /\ BodiesComplete
        /\ NoVariableNamed /\ StatementsNamed /\ FunctionsAreNamed /\ FunctionsAreUnique
    BY DEF IInv
  <1>2. /\ Working /\ top.at \in DOMAIN text /\ top.need \in DOMAIN step.needs /\ prog' = prog
    BY DEF BeginCall
  <1>3. /\ Fits(prog, named, body, top)
        /\ text = prog.text[top.proc] /\ text \in Seq(Step)
        /\ step = text[top.at] /\ step \in Step
        /\ top.proc \in Proc
    BY <1>2, WorkingFacts
  <1>4. p \in Proc
    <2>1. step.needs \in Seq(Proc)
      BY <1>3 DEF Step
    <2>. QED
      BY <1>2, <2>1
  <1>5. /\ stack \in Seq(Compiler) /\ stack # <<>> /\ n \in Nat \ {0}
        /\ top = stack[n] /\ top \in Compiler
    BY <1>1, TopFacts
  <1>6. \/ /\ p \in named
           /\ stack' = [stack EXCEPT ![n] = [top EXCEPT !.need = @ + 1]]
           /\ UNCHANGED <<statement, named, functions, body, status>>
        \/ p \notin named /\ Fails(p)
        \/ /\ p \notin named
           /\ prog.kind[p] = "external"
           /\ CreateFunction(p)
           /\ stack' = [stack EXCEPT ![n] = [top EXCEPT !.need = @ + 1]]
           /\ UNCHANGED <<statement, body, status>>
        \/ /\ p \notin named
           /\ prog.kind[p] = "procedure"
           /\ CreateFunction(p)
           /\ stack' = Append(stack, c)
           /\ UNCHANGED <<statement, body, status>>
    BY DEF BeginCall, SetTop
  <1>7. CASE /\ p \in named
             /\ stack' = [stack EXCEPT ![n] = [top EXCEPT !.need = @ + 1]]
             /\ UNCHANGED <<statement, named, functions, body, status>>
    <2>1. /\ stack' \in Seq(Compiler) /\ stack' # <<>>
          /\ Len(stack') = n
          /\ \A i \in 1 .. n : stack'[i].proc = stack[i].proc
          /\ CompilersFit' /\ OneCompilerEach' /\ CallersWait'
      BY <1>2, <1>7, NeedAdvances
    <2>2. TypeOK'
      BY <1>1, <1>2, <1>7, <2>1 DEF TypeOK
    <2>3. BodiesComplete'
      BY <1>1, <1>2, <1>7, <2>1 DEF BodiesComplete
    <2>4. StatementsNamed'
      BY <1>1, <1>2, <1>5, <1>7, <2>1 DEF StatementsNamed
    <2>. QED
      BY <1>1, <1>2, <1>7, <2>1, <2>2, <2>3, <2>4
         DEF IInv, NoVariableNamed, FunctionsAreNamed, FunctionsAreUnique
  <1>8. CASE p \notin named /\ Fails(p)
    <2>1. status' = "abort" /\ UNCHANGED <<statement, stack, named, functions, body>>
      BY <1>8 DEF Fails
    <2>2. TypeOK'
      BY <1>1, <1>2, <2>1 DEF TypeOK
    <2>. QED
      BY <1>1, <1>2, <2>1, <2>2 DEF IInv, CompilersFit, OneCompilerEach, CallersWait,
         BodiesComplete, NoVariableNamed, StatementsNamed, FunctionsAreNamed, FunctionsAreUnique
  <1>9. CASE /\ p \notin named
             /\ prog.kind[p] = "external"
             /\ CreateFunction(p)
             /\ stack' = [stack EXCEPT ![n] = [top EXCEPT !.need = @ + 1]]
             /\ UNCHANGED <<statement, body, status>>
    <2>1. /\ functions' \in Seq(Proc) /\ named' \in SUBSET Proc
          /\ named' = named \cup {p} /\ FunctionsAreNamed' /\ FunctionsAreUnique'
      BY <1>1, <1>4, <1>9, CreateFacts
    <2>2. /\ stack' \in Seq(Compiler) /\ stack' # <<>>
          /\ Len(stack') = n
          /\ \A i \in 1 .. n : stack'[i].proc = stack[i].proc
          /\ CompilersFit' /\ OneCompilerEach' /\ CallersWait'
      <3>1. named \subseteq named' /\ p \in named'
        BY <2>1
      <3>. QED
        BY <1>2, <1>9, <3>1, NeedAdvances
    <2>3. TypeOK'
      BY <1>1, <1>2, <1>9, <2>1, <2>2 DEF TypeOK
    <2>4. BodiesComplete' /\ NoVariableNamed'
      BY <1>1, <1>2, <1>9, <2>1, <2>2 DEF BodiesComplete, NoVariableNamed
    <2>5. StatementsNamed'
      BY <1>1, <1>2, <1>5, <1>9, <2>1, <2>2 DEF StatementsNamed
    <2>. QED
      BY <2>1, <2>2, <2>3, <2>4, <2>5 DEF IInv
  <1>10. CASE /\ p \notin named
              /\ prog.kind[p] = "procedure"
              /\ CreateFunction(p)
              /\ stack' = Append(stack, c)
              /\ UNCHANGED <<statement, body, status>>
    <2>1. /\ functions' \in Seq(Proc) /\ named' \in SUBSET Proc
          /\ named' = named \cup {p} /\ FunctionsAreNamed' /\ FunctionsAreUnique'
      BY <1>1, <1>4, <1>10, CreateFacts
    <2>2. /\ c \in Compiler
          /\ c.proc = p /\ c.at = 1 /\ c.need = 1 /\ c.insert = p /\ c.loops = 0
      BY <1>4 DEF Compiler, NewCompiler, Enter, Idle
    <2>3. p # NoProc
      BY <1>4, NoProcAssumption
    <2>. HIDE DEF c
    <2>4. /\ stack' \in Seq(Compiler) /\ stack' # <<>>
          /\ Len(stack') = n + 1 /\ stack'[n + 1] = c
          /\ \A i \in 1 .. n : stack'[i] = stack[i]
      BY <1>5, <1>10, <2>2, AppendFacts
    <2>5. TypeOK'
      BY <1>1, <1>2, <1>10, <2>1, <2>4 DEF TypeOK
    <2>6. CompilersFit'
      <3>. SUFFICES ASSUME NEW i \in 1 .. n + 1
                    PROVE  IF stack'[i].proc = NoProc
                           THEN i = 1 /\ stack'[i].loops = 0
                           ELSE Fits(prog', named', body', stack'[i])
        BY <2>4 DEF CompilersFit
      <3>1. CASE i = n + 1
        <4>1. Fits(prog, named', body, c)
          BY <1>1, <1>4, <1>10, <2>1, <2>2, EnteredFits
        <4>. QED
          BY <1>2, <1>10, <2>2, <2>3, <2>4, <3>1, <4>1
      <3>2. CASE i # n + 1
        <4>1. i \in 1 .. n /\ stack'[i] = stack[i]
          BY <1>5, <2>4, <3>2
        <4>2. named \subseteq named'
          BY <2>1
        <4>. QED
          BY <1>1, <1>2, <1>10, <4>1, <4>2, FitsStays DEF CompilersFit
      <3>. QED
        BY <3>1, <3>2
    <2>7. \A i \in 1 .. n : stack[i].proc # p
      BY <1>1, <1>10, <2>3 DEF CompilersFit, Fits
    <2>8. OneCompilerEach'
      BY <1>1, <1>5, <2>2, <2>4, <2>7 DEF OneCompilerEach
    <2>9. CallersWait'
      <3>. SUFFICES ASSUME NEW i \in 1 .. n
                    PROVE  WaitsFor(prog', stack'[i], stack'[i + 1].proc)
        BY <1>5, <2>4 DEF CallersWait
      <3>1. CASE i = n
        BY <1>2, <1>3, <1>5, <2>2, <2>4, <3>1, NoProcAssumption DEF WaitsFor
      <3>2. CASE i # n
        BY <1>1, <1>2, <1>5, <2>4, <3>2 DEF CallersWait
      <3>. QED
        BY <3>1, <3>2
    <2>10. BodiesComplete' /\ NoVariableNamed'
      BY <1>1, <1>2, <1>5, <1>10, <2>1, <2>2, <2>4 DEF BodiesComplete, NoVariableNamed
    <2>11. StatementsNamed'
      BY <1>1, <1>2, <1>5, <1>10, <2>1, <2>4 DEF StatementsNamed
    <2>. QED
      BY <2>1, <2>5, <2>6, <2>8, <2>9, <2>10, <2>11 DEF IInv
  <1>. QED
    BY <1>6, <1>7, <1>8, <1>9, <1>10

LEMMA EmitKeeps ==
  ASSUME IInv, Emit
  PROVE  IInv'
  <1>. DEFINE n == Len(stack)
              p == top.proc
              i == [op |-> step.op, callee |-> step.callee, loops |-> top.loops]
              c == [top EXCEPT !.at = @ + 1, !.need = 1, !.loops = LoopsNow]
  <1>1. /\ TypeOK /\ CompilersFit /\ OneCompilerEach /\ CallersWait /\ BodiesComplete
        /\ NoVariableNamed /\ StatementsNamed /\ FunctionsAreNamed /\ FunctionsAreUnique
    BY DEF IInv
  <1>2. /\ Working /\ top.at \in DOMAIN text /\ top.need \notin DOMAIN step.needs
        /\ stack' = [stack EXCEPT ![n] = c]
        /\ body' = [body EXCEPT ![top.insert] = Append(@, i)]
        /\ UNCHANGED <<prog, statement, named, functions, status>>
    BY DEF Emit, SetTop
  <1>3. /\ Fits(prog, named, body, top)
        /\ text = prog.text[p] /\ text \in Seq(Step) /\ WellNested(text)
        /\ step = text[top.at] /\ step \in Step
        /\ p \in Proc
    BY <1>2, WorkingFacts
  <1>4. /\ stack \in Seq(Compiler) /\ stack # <<>> /\ n \in Nat \ {0}
        /\ top = stack[n] /\ top \in Compiler
    BY <1>1, TopFacts
  <1>5. p # NoProc
    BY <1>3, NoProcAssumption
  <1>6. LoopsNow = LoopsAt(text, top.at + 1) /\ LoopsNow \in Nat
    <2>1. top.loops = step.loops /\ step.loops \in Nat
      BY <1>2, <1>3 DEF Fits, LoopsAt, Step
    <2>2. LoopsNow = LoopsAfter(step)
      BY <2>1 DEF LoopsNow, LoopsAfter
    <2>3. /\ step.op = "leave" => step.loops > 0
          /\ LoopsAt(text, top.at + 1) = LoopsAfter(step)
      BY <1>2, <1>3 DEF WellNested
    <2>. QED
      BY <2>1, <2>2, <2>3 DEF LoopsAfter
  <1>7. /\ c \in Compiler /\ c.proc = p /\ c.at = top.at + 1 /\ c.need = 1
        /\ c.insert = top.insert /\ c.loops = LoopsNow
    <2>1. top.at + 1 \in Nat
      BY <1>4 DEF Compiler
    <2>2. c = GoesTo(top, top.at + 1, LoopsNow)
      BY DEF GoesTo
    <2>3. top \in Compiler /\ LoopsNow \in Nat
      BY <1>4, <1>6
    <2>. HIDE DEF c
    <2>4. c \in Compiler
      BY <2>1, <2>2, <2>3, NextStep
    <2>5. c.proc = top.proc /\ c.insert = top.insert
      BY <2>1, <2>2, <2>3, NextStep
    <2>6. c.at = top.at + 1 /\ c.need = 1 /\ c.loops = LoopsNow
      BY <2>1, <2>2, <2>3, NextStep
    <2>. QED
      BY <2>4, <2>5, <2>6
  <1>8. i \in Instr
    BY <1>3, <1>4 DEF Instr, Step, Compiler
  <1>. HIDE DEF c, i
  <1>9. /\ body' = [body EXCEPT ![p] = Append(@, i)]
        /\ body \in [Proc -> Seq(Instr)]
    BY <1>1, <1>2, <1>3 DEF Fits, TypeOK
  <1>10. /\ body' \in [Proc -> Seq(Instr)]
         /\ Len(body'[p]) = Len(body[p]) + 1
         /\ \A q \in Proc : q # p => body'[q] = body[q]
    <2>1. body[p] \in Seq(Instr)
      BY <1>3, <1>9
    <2>2. Append(body[p], i) \in Seq(Instr) /\ Len(Append(body[p], i)) = Len(body[p]) + 1
      BY <1>8, <2>1, AppendFacts
    <2>. QED
      BY <1>3, <1>9, <2>2
  <1>11. /\ stack' \in Seq(Compiler) /\ stack' # <<>> /\ Len(stack') = n
         /\ stack'[n] = c /\ \A k \in 1 .. n - 1 : stack'[k] = stack[k]
    BY <1>2, <1>4, <1>7, PutFacts
  <1>12. \A k \in 1 .. n : stack'[k].proc = stack[k].proc
    BY <1>4, <1>7, <1>11
  <1>13. TypeOK'
    BY <1>1, <1>2, <1>10, <1>11 DEF TypeOK
  <1>14. Fits(prog, named, body', c)
    <2>. DEFINE t == prog.text[p]
    <2>1. /\ p \in named /\ prog.kind[p] = "procedure" /\ top.insert = p
          /\ top.at \in 1 .. Len(t) + 1
          /\ Len(body[p]) = top.at - 1
          /\ \A j \in 1 .. top.at - 1 : \A k \in DOMAIN t[j].needs : t[j].needs[k] \in named
          /\ top.need \in Nat \ {0} /\ top.need <= Len(step.needs) + 1
          /\ \A k \in 1 .. top.need - 1 : step.needs[k] \in named
      BY <1>2, <1>3 DEF Fits
    <2>2. step.needs \in Seq(Proc)
      BY <1>3 DEF Step
    <2>3. \A k \in DOMAIN step.needs : step.needs[k] \in named
      BY <1>2, <2>1, <2>2
    <2>4. \A j \in 1 .. top.at : \A k \in DOMAIN t[j].needs : t[j].needs[k] \in named
      BY <1>3, <2>1, <2>3
    <2>5. top.at + 1 \in 1 .. Len(t) + 1
      BY <1>2, <1>3
    <2>6. t \in Seq(Step) /\ LoopsNow = LoopsAt(t, c.at) /\ c.proc = p
      BY <1>3, <1>6, <1>7
    <2>7. Len(body'[p]) = c.at - 1
      BY <1>7, <1>10, <2>1
    <2>8. c.at \in DOMAIN t => 1 <= Len(t[c.at].needs) + 1
      <3>. HIDE DEF t
      <3>1. c.at \in DOMAIN t => t[c.at] \in Step
        BY <2>6
      <3>2. c.at \in DOMAIN t => Len(t[c.at].needs) \in Nat
        BY <3>1 DEF Step
      <3>. QED
        BY <3>2
    <2>. HIDE DEF t
    <2>. QED
      BY <1>7, <2>1, <2>4, <2>5, <2>6, <2>7, <2>8 DEF Fits, t
  <1>15. CompilersFit'
    <2>. SUFFICES ASSUME NEW k \in 1 .. n
                  PROVE  IF stack'[k].proc = NoProc
                         THEN k = 1 /\ stack'[k].loops = 0
                         ELSE Fits(prog, named, body', stack'[k])
      BY <1>2, <1>11 DEF CompilersFit
    <2>1. CASE k = n
      BY <1>5, <1>7, <1>11, <1>14, <2>1
    <2>2. CASE k # n
      <3>1. stack'[k] = stack[k] /\ stack[k] \in Compiler /\ stack[k].proc # p
        BY <1>1, <1>4, <1>11, <2>2 DEF OneCompilerEach
      <3>2. CASE stack[k].proc = NoProc
        BY <1>1, <3>1, <3>2 DEF CompilersFit
      <3>3. CASE stack[k].proc # NoProc
        <4>1. Fits(prog, named, body, stack[k])
          BY <1>1, <3>3 DEF CompilersFit
        <4>2. body'[stack[k].proc] = body[stack[k].proc]
          BY <1>10, <3>1, <3>3 DEF Compiler
        <4>3. Fits(prog, named, body', stack[k])
          BY <4>1, <4>2, FitsStays
        <4>. QED
          BY <3>1, <3>3, <4>3
      <3>. QED
        BY <3>2, <3>3
    <2>. QED
      BY <2>1, <2>2
  <1>16. OneCompilerEach'
    BY <1>1, <1>4, <1>11, <1>12 DEF OneCompilerEach
  <1>17. CallersWait'
    <2>. SUFFICES ASSUME NEW k \in 1 .. n - 1
                  PROVE  WaitsFor(prog, stack'[k], stack'[k + 1].proc)
      BY <1>2, <1>11 DEF CallersWait
    <2>1. stack'[k] = stack[k] /\ stack'[k + 1].proc = stack[k + 1].proc
      BY <1>4, <1>11, <1>12
    <2>. QED
      BY <1>1, <2>1 DEF CallersWait
  <1>18. BodiesComplete'
    <2>. SUFFICES ASSUME NEW q \in Proc
                  PROVE  /\ q \notin named => body'[q] = <<>>
                         /\ q \in named /\ prog.kind[q] = "procedure"
                              => \/ Len(body'[q]) = Len(prog.text[q])
                                 \/ \E k \in 1 .. n : stack'[k].proc = q
      BY <1>2, <1>11 DEF BodiesComplete
    <2>1. CASE q = p
      <3>1. p \in named
        BY <1>3 DEF Fits
      <3>2. n \in 1 .. n /\ stack'[n].proc = p
        BY <1>4, <1>7, <1>11
      <3>. QED
        BY <2>1, <3>1, <3>2
    <2>2. CASE q # p
      BY <1>1, <1>10, <1>12, <2>2 DEF BodiesComplete
    <2>. QED
      BY <2>1, <2>2
  <1>19. StatementsNamed'
    BY <1>1, <1>2, <1>4, <1>12 DEF StatementsNamed
  <1>. QED
    BY <1>1, <1>2, <1>13, <1>15, <1>16, <1>17, <1>18, <1>19
       DEF IInv, NoVariableNamed, FunctionsAreNamed, FunctionsAreUnique

(* A body that has come to its end is complete. *)
LEMMA EndFacts ==
  ASSUME IInv, Working, top.at \notin DOMAIN text
  PROVE  /\ Len(body[top.proc]) = Len(prog.text[top.proc])
         /\ top.proc \in named
         /\ top.loops = 0
  <1>1. /\ Fits(prog, named, body, top) /\ text = prog.text[top.proc] /\ text \in Seq(Step)
    BY WorkingFacts
  <1>2. /\ top.at \in 1 .. Len(text) + 1 /\ Len(body[top.proc]) = top.at - 1
        /\ top.proc \in named /\ top.loops = LoopsAt(text, top.at)
    BY <1>1 DEF Fits
  <1>3. DOMAIN text = 1 .. Len(text) /\ Len(text) \in Nat
    BY <1>1
  <1>. QED
    BY <1>1, <1>2, <1>3 DEF LoopsAt

(***************************************************************************)
(* Back to the module block: the statement has been seen to.               *)
(***************************************************************************)
LEMMA ReturnToModuleKeeps ==
  ASSUME IInv, Working, top.at \notin DOMAIN text, Len(stack) = 1,
         SetTop([top EXCEPT !.proc = NoProc]),
         statement' = statement + 1,
         UNCHANGED <<prog, named, functions, body, status>>
  PROVE  IInv'
  <1>. DEFINE p == top.proc
              c == [top EXCEPT !.proc = NoProc]
  <1>1. /\ TypeOK /\ BodiesComplete
        /\ NoVariableNamed /\ StatementsNamed /\ FunctionsAreNamed /\ FunctionsAreUnique
    BY DEF IInv
  <1>2. /\ Len(body[p]) = Len(prog.text[p]) /\ p \in named /\ top.loops = 0
    BY EndFacts
  <1>3. stack \in Seq(Compiler) /\ stack # <<>> /\ top = stack[1] /\ top \in Compiler
    BY <1>1, TopFacts
  <1>4. c \in Compiler /\ c.proc = NoProc /\ c.loops = top.loops
    BY <1>3 DEF Compiler
  <1>. HIDE DEF c
  <1>5. /\ stack' \in Seq(Compiler) /\ stack' # <<>> /\ Len(stack') = 1 /\ stack'[1] = c
    BY <1>3, <1>4, PutFacts DEF c, SetTop
  <1>6. p # NoProc
    BY DEF Working
  <1>7. TypeOK'
    BY <1>1, <1>5 DEF TypeOK
  <1>8. CompilersFit' /\ OneCompilerEach' /\ CallersWait'
    <2>1. CompilersFit'
      BY <1>2, <1>4, <1>5 DEF CompilersFit
    <2>2. OneCompilerEach'
      BY <1>5 DEF OneCompilerEach
    <2>3. CallersWait'
      BY <1>5 DEF CallersWait
    <2>. QED
      BY <2>1, <2>2, <2>3
  <1>9. BodiesComplete'
    BY <1>1, <1>2, <1>3 DEF BodiesComplete
  <1>10. StatementsNamed'
    <2>1. /\ statement \in DOMAIN prog.order /\ prog.order[statement] = p
          /\ \A j \in 1 .. statement - 1 : j \in DOMAIN prog.order => prog.order[j] \in named
          /\ statement \in Nat \ {0}
      BY <1>1, <1>3, <1>6 DEF StatementsNamed, TypeOK
    <2>. QED
      BY <1>2, <1>4, <1>5, <2>1 DEF StatementsNamed
  <1>. QED
    BY <1>1, <1>7, <1>8, <1>9, <1>10
       DEF IInv, NoVariableNamed, FunctionsAreNamed, FunctionsAreUnique

(* The compiler at n, which is next to the top, goes on. *)
Resume(n) ==
  stack' = Append(SubSeq(stack, 1, n - 1), [stack[n] EXCEPT !.need = @ + 1])

(***************************************************************************)
(* Back to the caller, which has waited for this procedure.                *)
(***************************************************************************)
LEMMA ReturnToCallerKeeps ==
  ASSUME IInv, Working, top.at \notin DOMAIN text,
         NEW n \in Nat, n # 0, Len(stack) = n + 1,
         Resume(n),
         UNCHANGED <<prog, statement, named, functions, body, status>>
  PROVE  IInv'
  <1>. DEFINE p == top.proc
              c == stack[n]
              e == [c EXCEPT !.need = @ + 1]
              below == SubSeq(stack, 1, n - 1)
  <1>1. /\ TypeOK /\ CompilersFit /\ OneCompilerEach /\ CallersWait /\ BodiesComplete
        /\ NoVariableNamed /\ StatementsNamed /\ FunctionsAreNamed /\ FunctionsAreUnique
    BY DEF IInv
  <1>2. /\ Len(body[p]) = Len(prog.text[p]) /\ p \in named
    BY EndFacts
  <1>3. stack \in Seq(Compiler) /\ stack # <<>> /\ top = stack[n + 1] /\ c \in Compiler
    BY <1>1, TopFacts
  <1>4. WaitsFor(prog, c, p)
    BY <1>1, <1>3 DEF CallersWait
  <1>5. c.proc # NoProc /\ c.proc \in Proc /\ Fits(prog, named, body, c)
    <2>1. c.proc # NoProc
      BY <1>4 DEF WaitsFor
    <2>. QED
      BY <1>1, <1>3, <2>1 DEF CompilersFit, Compiler
  <1>6. prog.text[c.proc] \in Seq(Step)
    BY <1>1, <1>5, TextFacts
  <1>7. /\ e \in Compiler /\ e.proc = c.proc /\ e.at = c.at /\ e.need = c.need + 1
        /\ e.insert = c.insert /\ e.loops = c.loops
    BY <1>3, NextNeed
  <1>8. stack' = Append(below, e)
    BY DEF Resume
  <1>9. /\ below \in Seq(Compiler)
        /\ Len(below) = n - 1
        /\ \A i \in 1 .. n - 1 : below[i] = stack[i]
    BY <1>3, n - 1 \in 0 .. Len(stack), PrefixFacts
  <1>. HIDE DEF e, below
  <1>10. /\ stack' \in Seq(Compiler) /\ stack' # <<>>
         /\ Len(stack') = n /\ stack'[n] = e
         /\ \A i \in 1 .. n - 1 : stack'[i] = stack[i]
    <2>1. /\ stack' \in Seq(Compiler) /\ stack' # <<>>
          /\ Len(stack') = Len(below) + 1
          /\ stack'[Len(below) + 1] = e
          /\ \A i \in 1 .. Len(below) : stack'[i] = below[i]
      BY <1>7, <1>8, <1>9, AppendFacts
    <2>. QED
      BY <1>9, <2>1
  <1>11. \A i \in 1 .. n : stack'[i].proc = stack[i].proc
    BY <1>7, <1>10
  <1>12. Fits(prog, named, body, e)
    <2>. HIDE DEF c
    <2>. QED
      BY <1>2, <1>3, <1>4, <1>5, <1>6, <1>7, NeedSeen
  <1>13. TypeOK'
    BY <1>1, <1>10 DEF TypeOK
  <1>14. CompilersFit'
    <2>. SUFFICES ASSUME NEW i \in 1 .. n
                  PROVE  IF stack'[i].proc = NoProc
                         THEN i = 1 /\ stack'[i].loops = 0
                         ELSE Fits(prog, named, body, stack'[i])
      BY <1>10 DEF CompilersFit
    <2>1. CASE i = n
      BY <1>5, <1>7, <1>10, <1>12, <2>1
    <2>2. CASE i # n
      BY <1>1, <1>10, <2>2 DEF CompilersFit
    <2>. QED
      BY <2>1, <2>2
  <1>15. OneCompilerEach'
    BY <1>1, <1>3, <1>10, <1>11 DEF OneCompilerEach
  <1>16. CallersWait'
    <2>. SUFFICES ASSUME NEW i \in 1 .. n - 1
                  PROVE  WaitsFor(prog, stack'[i], stack'[i + 1].proc)
      BY <1>10 DEF CallersWait
    <2>1. stack'[i] = stack[i] /\ stack'[i + 1].proc = stack[i + 1].proc
      BY <1>10, <1>11
    <2>. QED
      BY <1>1, <2>1 DEF CallersWait
  <1>17. BodiesComplete'
    <2>. SUFFICES ASSUME NEW q \in Proc
                  PROVE  /\ q \notin named => body[q] = <<>>
                         /\ q \in named /\ prog.kind[q] = "procedure"
                              => \/ Len(body[q]) = Len(prog.text[q])
                                 \/ \E k \in 1 .. n : stack'[k].proc = q
      BY <1>10 DEF BodiesComplete
    <2>1. CASE q = p
      BY <1>2, <2>1
    <2>2. CASE q # p
      BY <1>1, <1>3, <1>11, <2>2 DEF BodiesComplete
    <2>. QED
      BY <2>1, <2>2
  <1>18. StatementsNamed'
    BY <1>1, <1>11 DEF StatementsNamed
  <1>. QED
    BY <1>1, <1>13, <1>14, <1>15, <1>16, <1>17, <1>18
       DEF IInv, NoVariableNamed, FunctionsAreNamed, FunctionsAreUnique

LEMMA EndProcedureKeeps ==
  ASSUME IInv, EndProcedure
  PROVE  IInv'
  <1>. DEFINE n == Len(stack) - 1
  <1>1. TypeOK
    BY DEF IInv
  <1>2. Len(stack) = n + 1 /\ n \in Nat
    BY <1>1, TopFacts
  <1>. HIDE DEF n
  <1>3. CASE n = 0
    BY <1>2, <1>3, ReturnToModuleKeeps DEF EndProcedure, n
  <1>4. CASE n # 0
    BY <1>2, <1>4, ReturnToCallerKeeps DEF EndProcedure, Resume, n
  <1>. QED
    BY <1>3, <1>4

-----------------------------------------------------------------------------
(***************************************************************************)
(* The strengthening is inductive.                                         *)
(***************************************************************************)
LEMMA InitEstablishes == Init => IInv
  <1>. SUFFICES ASSUME Init
                PROVE  IInv
    OBVIOUS
  <1>1. /\ stack = <<Idle>> /\ Idle \in Compiler
        /\ Idle.proc = NoProc /\ Idle.loops = 0
    BY DEF Init, Idle, Compiler
  <1>. HIDE DEF Idle
  <1>2. Len(stack) = 1 /\ stack[1] = Idle /\ stack \in Seq(Compiler) /\ stack # <<>>
    BY <1>1
  <1>3. prog \in Module /\ WellFormed(prog)
    BY ModulesAssumption DEF Init
  <1>4. TypeOK
    BY <1>2, <1>3 DEF Init, TypeOK
  <1>5. CompilersFit /\ OneCompilerEach /\ CallersWait
    BY <1>1, <1>2 DEF CompilersFit, OneCompilerEach, CallersWait
  <1>. QED
    BY <1>1, <1>2, <1>4, <1>5 DEF Init, IInv, BodiesComplete, NoVariableNamed, StatementsNamed,
       FunctionsAreNamed, FunctionsAreUnique

LEMMA StepKeeps == IInv /\ [Next]_vars => IInv'
  <1>. SUFFICES ASSUME IInv, [Next]_vars
                PROVE  IInv'
    OBVIOUS
  <1>1. CASE VisitStatement
    BY <1>1, VisitStatementKeeps
  <1>2. CASE BeginCall
    BY <1>2, BeginCallKeeps
  <1>3. CASE Emit
    BY <1>3, EmitKeeps
  <1>4. CASE EndProcedure
    BY <1>4, EndProcedureKeeps
  <1>5. CASE EndModule
    BY <1>5 DEF EndModule, IInv, TypeOK, CompilersFit, OneCompilerEach, CallersWait,
       BodiesComplete, NoVariableNamed, StatementsNamed, FunctionsAreNamed, FunctionsAreUnique
  <1>6. CASE UNCHANGED vars
    BY <1>6 DEF vars, IInv, TypeOK, CompilersFit, OneCompilerEach, CallersWait,
       BodiesComplete, NoVariableNamed, StatementsNamed, FunctionsAreNamed, FunctionsAreUnique
  <1>. QED
    BY <1>1, <1>2, <1>3, <1>4, <1>5, <1>6 DEF Next

(***************************************************************************)
(* The compilers on the stack of compile_ir.cpp:654-691, the functions     *)
(* named and the bodies emitted fit together in every state.               *)
(***************************************************************************)
THEOREM Strengthening == Spec => []IInv
  BY InitEstablishes, StepKeeps, PTL DEF Spec

(***************************************************************************)
(* Type correctness, for any modules.                                      *)
(***************************************************************************)
THEOREM TypeCorrect == Spec => []TypeOK
  <1>1. IInv => TypeOK
    BY DEF IInv
  <1>. QED
    BY <1>1, Strengthening, PTL

(***************************************************************************)
(* A procedure is created once, whether its statement or a call, alone or  *)
(* within the compilation of another procedure, comes first                *)
(* (compile_ir.cpp:418, 659).                                              *)
(***************************************************************************)
THEOREM CreatedOnce == Spec => []FunctionsAreUnique
  <1>1. IInv => FunctionsAreUnique
    BY DEF IInv
  <1>. QED
    BY <1>1, Strengthening, PTL

(***************************************************************************)
(* A compiler's insert point stays in its own procedure and its prologues  *)
(* are those of its own loops, without compile_ir.cpp:452 ever restoring   *)
(* the insert point.                                                       *)
(***************************************************************************)
THEOREM InsertPointStays == Spec => []InsertPointIsOwn
  <1>1. IInv => InsertPointIsOwn
    <2>. SUFFICES ASSUME IInv, NEW i \in DOMAIN stack, stack[i].proc # NoProc
                  PROVE  /\ stack[i].insert = stack[i].proc
                         /\ stack[i].loops = LoopsAt(prog.text[stack[i].proc], stack[i].at)
      BY DEF InsertPointIsOwn
    <2>1. i \in 1 .. Len(stack)
      BY DEF IInv, TypeOK
    <2>2. Fits(prog, named, body, stack[i])
      BY <2>1 DEF IInv, CompilersFit
    <2>. QED
      BY <2>2 DEF Fits
  <1>. QED
    BY <1>1, Strengthening, PTL

(***************************************************************************)
(* However procedures call each other, the IrCompilers of                  *)
(* compile_ir.cpp:662 are never more than the procedures and one.          *)
(***************************************************************************)
THEOREM CompilersAreFew == Spec => []OneCompilerEach
  <1>1. IInv => OneCompilerEach
    BY DEF IInv
  <1>. QED
    BY <1>1, Strengthening, PTL

-----------------------------------------------------------------------------
(* The refinement: the functions named are those declared, the bodies are  *)
(* the code; everything else is left open by EmitOnce.                     *)

LEMMA InitRefines == Init => Promise!Init
  BY DEF Init, Promise!Init

LEMMA VisitStatementRefines ==
  ASSUME IInv, VisitStatement
  PROVE  [Promise!Next]_(Promise!vars)
  <1>. DEFINE p == prog.order[statement]
  <1>1. p \in Proc
    BY DEF IInv, TypeOK, Module, VisitStatement
  <1>2. status = "running" /\ prog' = prog
    BY DEF VisitStatement, AtModule
  <1>3. \/ UNCHANGED <<named, body, status>>
        \/ Fails(p)
        \/ /\ p \notin named
           /\ prog.kind[p] # "variable"
           /\ CreateFunction(p)
           /\ UNCHANGED <<body, status>>
    BY DEF VisitStatement
  <1>. HIDE DEF p
  <1>4. CASE UNCHANGED <<named, body, status>>
    BY <1>2, <1>4 DEF Promise!vars
  <1>5. CASE Fails(p)
    BY <1>1, <1>2, <1>5 DEF Fails, Promise!Next, Promise!Abort
  <1>6. CASE /\ p \notin named
             /\ prog.kind[p] # "variable"
             /\ CreateFunction(p)
             /\ UNCHANGED <<body, status>>
    BY <1>1, <1>2, <1>6 DEF CreateFunction, Promise!Next, Promise!Declare
  <1>. QED
    BY <1>3, <1>4, <1>5, <1>6

LEMMA BeginCallRefines ==
  ASSUME IInv, BeginCall
  PROVE  [Promise!Next]_(Promise!vars)
  <1>. DEFINE p == step.needs[top.need]
  <1>1. Working /\ top.at \in DOMAIN text /\ top.need \in DOMAIN step.needs /\ prog' = prog
    BY DEF BeginCall
  <1>2. p \in Proc /\ status = "running"
    <2>1. step \in Step
      BY <1>1, WorkingFacts
    <2>2. step.needs \in Seq(Proc)
      BY <2>1 DEF Step
    <2>. QED
      BY <1>1, <2>2 DEF Working
  <1>3. \/ UNCHANGED <<named, body, status>>
        \/ Fails(p)
        \/ /\ p \notin named
           /\ prog.kind[p] # "variable"
           /\ CreateFunction(p)
           /\ UNCHANGED <<body, status>>
    BY DEF BeginCall
  <1>. HIDE DEF p
  <1>4. CASE UNCHANGED <<named, body, status>>
    BY <1>1, <1>4 DEF Promise!vars
  <1>5. CASE Fails(p)
    BY <1>1, <1>2, <1>5 DEF Fails, Promise!Next, Promise!Abort
  <1>6. CASE /\ p \notin named
             /\ prog.kind[p] # "variable"
             /\ CreateFunction(p)
             /\ UNCHANGED <<body, status>>
    BY <1>1, <1>2, <1>6 DEF CreateFunction, Promise!Next, Promise!Declare
  <1>. QED
    BY <1>3, <1>4, <1>5, <1>6

(***************************************************************************)
(* The callee of a call has been needed by then, and so is named.          *)
(***************************************************************************)
LEMMA EmitRefines ==
  ASSUME IInv, Emit
  PROVE  [Promise!Next]_(Promise!vars)
  <1>. DEFINE p == top.proc
              t == prog.text[p]
              i == [op |-> step.op, callee |-> step.callee, loops |-> top.loops]
  <1>1. /\ Working /\ top.at \in DOMAIN text /\ top.need \notin DOMAIN step.needs
        /\ body' = [body EXCEPT ![top.insert] = Append(@, i)]
        /\ UNCHANGED <<prog, named, status>>
    BY DEF Emit
  <1>2. /\ Fits(prog, named, body, top)
        /\ text = t /\ t \in Seq(Step) /\ CallsBegin(t)
        /\ step = t[top.at] /\ step \in Step
        /\ p \in Proc
    BY <1>1, WorkingFacts
  <1>3. /\ p \in named /\ prog.kind[p] = "procedure" /\ top.insert = p
        /\ top.at \in 1 .. Len(t) /\ Len(body[p]) = top.at - 1
        /\ top.loops = step.loops
        /\ \A j \in 1 .. top.at - 1 : \A k \in DOMAIN t[j].needs : t[j].needs[k] \in named
        /\ top.need \in Nat \ {0} /\ top.need <= Len(step.needs) + 1
        /\ \A k \in 1 .. top.need - 1 : step.needs[k] \in named
    <2>1. /\ p \in named /\ prog.kind[p] = "procedure" /\ top.insert = p
          /\ Len(body[p]) = top.at - 1
          /\ \A j \in 1 .. top.at - 1 : \A k \in DOMAIN t[j].needs : t[j].needs[k] \in named
          /\ top.need \in Nat \ {0} /\ top.need <= Len(step.needs) + 1
          /\ \A k \in 1 .. top.need - 1 : step.needs[k] \in named
      BY <1>1, <1>2 DEF Fits
    <2>2. top.at \in 1 .. Len(t)
      BY <1>1, <1>2
    <2>3. top.loops = step.loops
      BY <1>1, <1>2 DEF Fits, LoopsAt
    <2>. QED
      BY <2>1, <2>2, <2>3
  <1>4. i = InstrOf(step)
    BY <1>3 DEF InstrOf
  <1>5. \A j \in 1 .. top.at : \A k \in DOMAIN t[j].needs : t[j].needs[k] \in named
    <2>1. step.needs \in Seq(Proc)
      BY <1>2 DEF Step
    <2>2. \A k \in DOMAIN step.needs : step.needs[k] \in named
      BY <1>1, <1>3, <2>1
    <2>. SUFFICES ASSUME NEW j \in 1 .. top.at, NEW k \in DOMAIN t[j].needs
                  PROVE  t[j].needs[k] \in named
      OBVIOUS
    <2>3. CASE j = top.at
      BY <1>2, <2>2, <2>3
    <2>4. CASE j # top.at
      <3>1. j \in 1 .. top.at - 1
        BY <1>3, <2>4
      <3>. QED
        BY <1>3, <3>1
    <2>. QED
      BY <2>3, <2>4
  <1>6. step.op = "call" => step.callee \in named
    <2>. SUFFICES ASSUME step.op = "call"
                  PROVE  step.callee \in named
      OBVIOUS
    <2>1. PICK j \in 1 .. top.at : \E k \in DOMAIN t[j].needs : t[j].needs[k] = step.callee
      BY <1>1, <1>2 DEF CallsBegin
    <2>. QED
      BY <1>5, <2>1
  <1>7. status = "running"
    BY <1>1 DEF Working
  <1>. HIDE DEF i
  <1>8. Promise!EmitNext(p)
    <2>1. prog.text[p][Len(body[p]) + 1] = step /\ Len(body[p]) < Len(prog.text[p])
      BY <1>2, <1>3
    <2>2. body' = [body EXCEPT ![p] = Append(@, InstrOf(step))]
      BY <1>1, <1>3, <1>4
    <2>. QED
      BY <1>1, <1>3, <1>6, <1>7, <2>1, <2>2 DEF Promise!EmitNext, Promise!InstrOf, InstrOf
  <1>. QED
    BY <1>2, <1>8 DEF Promise!Next

(***************************************************************************)
(* When the module block has been gone through, every procedure is         *)
(* complete.                                                               *)
(***************************************************************************)
LEMMA EndModuleRefines ==
  ASSUME IInv, EndModule
  PROVE  [Promise!Next]_(Promise!vars)
  <1>1. /\ TypeOK /\ BodiesComplete /\ StatementsNamed /\ NoVariableNamed
        /\ AtModule /\ statement > Len(prog.order) /\ status = "running" /\ status' = "done"
        /\ UNCHANGED <<prog, named, body>>
    BY DEF IInv, EndModule, AtModule
  <1>2. Len(stack) = 1 /\ stack[1].proc = NoProc
    BY <1>1, AtModuleFacts
  <1>3. ASSUME NEW p \in Proc
        PROVE  Promise!Complete(p)
    <2>1. PICK j \in DOMAIN prog.order : prog.order[j] = p
      BY <1>1 DEF TypeOK, WellFormed
    <2>2. j \in 1 .. statement - 1
      <3>1. prog.order \in Seq(Proc) /\ statement \in Nat
        BY <1>1 DEF TypeOK, Module
      <3>. QED
        BY <1>1, <2>1, <3>1
    <2>3. p \in named
      BY <1>1, <2>1, <2>2 DEF StatementsNamed
    <2>4. prog.kind[p] = "procedure" => Len(body[p]) = Len(prog.text[p])
      BY <1>1, <1>2, <2>3, NoProcAssumption DEF BodiesComplete
    <2>. QED
      BY <2>3, <2>4 DEF Promise!Complete
  <1>. QED
    BY <1>1, <1>3 DEF Promise!Next, Promise!Finish

LEMMA StepRefines == IInv /\ [Next]_vars => [Promise!Next]_(Promise!vars)
  <1>. SUFFICES ASSUME IInv, [Next]_vars
                PROVE  [Promise!Next]_(Promise!vars)
    OBVIOUS
  <1>1. CASE VisitStatement
    BY <1>1, VisitStatementRefines
  <1>2. CASE BeginCall
    BY <1>2, BeginCallRefines
  <1>3. CASE Emit
    BY <1>3, EmitRefines
  <1>4. CASE EndProcedure
    BY <1>4 DEF EndProcedure, Promise!vars
  <1>5. CASE EndModule
    BY <1>5, EndModuleRefines
  <1>6. CASE UNCHANGED vars
    BY <1>6 DEF vars, Promise!vars
  <1>. QED
    BY <1>1, <1>2, <1>3, <1>4, <1>5, <1>6 DEF Next

(***************************************************************************)
(* Compiling on demand (compile_ir.cpp:416-467, 654-691) does what         *)
(* EmitOnce promises, for every module.                                    *)
(***************************************************************************)
THEOREM Refinement == Spec => Implements
  BY InitRefines, StepRefines, Strengthening, PTL DEF Spec, Implements, Promise!Spec
=============================================================================
