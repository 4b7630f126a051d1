--------------------- MODULE DeclarationCheckingProofs ---------------------
(***************************************************************************)
(* For every module, whatever its declarations and the order they stand    *)
(* in: type correctness of DeclarationChecking, ScopeIsLexical, NoReentry  *)
(* and AssertMeansCycle.                                                   *)
(***************************************************************************)
EXTENDS DeclarationChecking, TLAPS

(***************************************************************************)
(* The strengthening.  A declaration that has been entered and whose       *)
(* initialiser has no type yet is a variable, and is on the stack; what is *)
(* on the stack has been entered; and each frame's unit needs the next.    *)
(***************************************************************************)
InProgressIsOnStack ==
  \A d \in entered : inferred[d] = "null" =>
    d \notin prog.proc /\ \E k \in DOMAIN stack : stack[k].unit = d

OnStackIsEntered ==
  \A k \in DOMAIN stack : stack[k].unit \in Decl => stack[k].unit \in entered

StackIsChain ==
  \A i \in 1 .. Len(stack) - 1 : Needs(prog, stack[i].unit, stack[i + 1].unit)

IInv ==
  /\ TypeOK
  /\ MarksAscend
  /\ ScopeIsLexical
  /\ InProgressIsOnStack
  /\ OnStackIsEntered
  /\ NoReentry
  /\ StackIsChain
  /\ AssertMeansCycle

-----------------------------------------------------------------------------
(* What the ways of changing the stack do to it. *)

LEMMA AppendFacts ==
  ASSUME NEW S, NEW s \in Seq(S), NEW e \in S
  PROVE  /\ Append(s, e) \in Seq(S)
         /\ Append(s, e) # <<>>
         /\ Len(Append(s, e)) = Len(s) + 1
         /\ Append(s, e)[Len(s) + 1] = e
         /\ \A i \in 1 .. Len(s) : Append(s, e)[i] = s[i]
  OBVIOUS

LEMMA PrefixFacts ==
  ASSUME NEW S, NEW s \in Seq(S), NEW n \in 0 .. Len(s)
  PROVE  /\ SubSeq(s, 1, n) \in Seq(S)
         /\ Len(SubSeq(s, 1, n)) = n
         /\ \A i \in 1 .. n : SubSeq(s, 1, n)[i] = s[i]
  OBVIOUS

(***************************************************************************)
(* find_declaration yields a declaration or the null pointer.              *)
(***************************************************************************)
LEMMA FindDeclarationType ==
  ASSUME NEW p, NEW b, NEW n
  PROVE  find_declaration(p, b, n) \in Decl \cup {NoDecl}
  BY DEF find_declaration

LEMMA TopFacts ==
  ASSUME TypeOK, status = "checking"
  PROVE  /\ Len(stack) \in Nat \ {0}
         /\ top = stack[Len(stack)]
         /\ top \in Frame
         /\ prog \in Program
         /\ items \in Seq(Item)
  <1>1. stack \in Seq(Frame) /\ stack # <<>>
    BY DEF TypeOK
  <1>2. Len(stack) \in Nat \ {0} /\ top \in Frame
    BY <1>1 DEF top
  <1>3. prog \in Program
    BY ProgramsAssumption DEF TypeOK
  <1>4. items \in Seq(Item)
    BY <1>2, <1>3 DEF items, Program, Frame
  <1>. QED
    BY <1>2, <1>3, <1>4 DEF top

(***************************************************************************)
(* Advancing moves to the next item and leaves every unit where it is.     *)
(***************************************************************************)
LEMMA AdvanceFacts ==
  ASSUME TypeOK, status = "checking", NEW type, Advance(type)
  PROVE  /\ stack' \in Seq(Frame)
         /\ stack' # <<>>
         /\ Len(stack') = Len(stack)
         /\ \A i \in 1 .. Len(stack) : /\ stack'[i].unit = stack[i].unit
                                       /\ stack'[i].saved = stack[i].saved
                                       /\ stack'[i].mark = stack[i].mark
  <1>. DEFINE n == Len(stack)
              e == After(type)
              moved == [top EXCEPT !.at = top.at + 1]
  <1>1. stack \in Seq(Frame) /\ n \in Nat \ {0} /\ top \in Frame /\ top = stack[n]
    BY TopFacts DEF TypeOK
  <1>2. moved \in Frame /\ moved.unit = top.unit /\ moved.saved = top.saved /\ moved.mark = top.mark
    BY <1>1 DEF Frame
  <1>3. e = moved \/ e = [moved EXCEPT !.type = "poison"]
    BY DEF After
  <1>4. e \in Frame /\ e.unit = top.unit /\ e.saved = top.saved /\ e.mark = top.mark
    <2>. HIDE DEF moved
    <2>. QED
      BY <1>2, <1>3 DEF Frame
  <1>5. stack' = [stack EXCEPT ![n] = e]
    BY DEF Advance
  <1>. HIDE DEF e
  <1>6. stack' \in Seq(Frame) /\ Len(stack') = n
    BY <1>1, <1>4, <1>5
  <1>7. \A i \in 1 .. n : stack'[i] = IF i = n THEN e ELSE stack[i]
    BY <1>1, <1>5
  <1>. QED
    BY <1>1, <1>4, <1>6, <1>7

(***************************************************************************)
(* A call puts one frame on top and leaves those below untouched.          *)
(***************************************************************************)
LEMMA CallFacts ==
  ASSUME TypeOK, status = "checking", NEW u \in Unit, NEW b \in Block, Call(u, b)
  PROVE  /\ stack' \in Seq(Frame)
         /\ stack' # <<>>
         /\ Len(stack') = Len(stack) + 1
         /\ stack'[Len(stack) + 1].unit = u
         /\ stack'[Len(stack) + 1].saved = current_block
         /\ stack'[Len(stack) + 1].mark = Len(errors)
         /\ \A i \in 1 .. Len(stack) : stack'[i] = stack[i]
         /\ current_block' = b
         /\ status' = status
  <1>. DEFINE e == [unit |-> u, at |-> 1, saved |-> current_block,
                    mark |-> Len(errors), type |-> "ok"]
  <1>1. stack \in Seq(Frame) /\ current_block \in Block /\ errors \in Seq(Site)
    BY DEF TypeOK
  <1>2. e \in Frame
    BY <1>1 DEF Frame
  <1>3. stack' = Append(stack, e)
    BY DEF Call
  <1>4. e.unit = u /\ e.saved = current_block /\ e.mark = Len(errors)
    OBVIOUS
  <1>. HIDE DEF e
  <1>5. current_block' = b /\ status' = status
    BY DEF Call
  <1>. QED
    BY <1>1, <1>2, <1>3, <1>4, <1>5, AppendFacts

(***************************************************************************)
(* A return takes the top frame away and leaves the units below untouched. *)
(***************************************************************************)
LEMMA ReturnFacts ==
  ASSUME TypeOK, status = "checking", Return
  PROVE  /\ stack' \in Seq(Frame)
         /\ Len(stack') = Len(stack) - 1
         /\ \A i \in 1 .. Len(stack) - 1 : /\ stack'[i].unit = stack[i].unit
                                           /\ stack'[i].saved = stack[i].saved
                                           /\ stack'[i].mark = stack[i].mark
         /\ current_block' = top.saved
         /\ \/ Len(stack) = 1 /\ status' = "done"
            \/ Len(stack) > 1 /\ status' = "checking" /\ stack' # <<>>
  <1>. DEFINE n == Len(stack) - 1
              caller == stack[n]
              next == IF top.unit \in Block THEN caller.at + 1 ELSE caller.at
              e == [caller EXCEPT !.at = next]
              below == SubSeq(stack, 1, n - 1)
  <1>1. stack \in Seq(Frame) /\ n \in Nat /\ Len(stack) = n + 1
    BY TopFacts DEF TypeOK
  <1>2. current_block' = top.saved
    BY DEF Return
  <1>. HIDE DEF n
  <1>3. CASE n = 0
    <2>1. stack' = <<>> /\ status' = "done"
      BY <1>3 DEF Return, n
    <2>2. stack' \in Seq(Frame) /\ Len(stack') = 0
      BY <2>1
    <2>3. Len(stack) = 1
      BY <1>1, <1>3
    <2>. QED
      BY <1>2, <2>1, <2>2, <2>3
  <1>4. CASE n # 0
    <2>1. caller \in Frame
      BY <1>1, <1>4
    <2>2. next \in Nat
      BY <2>1 DEF Frame
    <2>3. e \in Frame /\ e.unit = caller.unit /\ e.saved = caller.saved /\ e.mark = caller.mark
      <3>. HIDE DEF next
      <3>. QED
        BY <2>1, <2>2 DEF Frame
    <2>4. stack' = Append(below, e) /\ status' = status
      BY <1>4 DEF Return, n
    <2>5. /\ below \in Seq(Frame)
          /\ Len(below) = n - 1
          /\ \A i \in 1 .. n - 1 : below[i] = stack[i]
      BY <1>1, <1>4, n - 1 \in 0 .. Len(stack), PrefixFacts
    <2>. HIDE DEF e, below
    <2>6. /\ stack' \in Seq(Frame)
          /\ stack' # <<>>
          /\ Len(stack') = Len(below) + 1
          /\ stack'[Len(below) + 1] = e
          /\ \A i \in 1 .. Len(below) : stack'[i] = below[i]
      BY <2>3, <2>4, <2>5, AppendFacts
    <2>7. ASSUME NEW i \in 1 .. n
          PROVE  /\ stack'[i].unit = stack[i].unit
                 /\ stack'[i].saved = stack[i].saved
                 /\ stack'[i].mark = stack[i].mark
      <3>1. CASE i = n
        BY <1>1, <3>1, <2>3, <2>5, <2>6
      <3>2. CASE i \in 1 .. n - 1
        BY <1>1, <3>2, <2>5, <2>6
      <3>. QED
        BY <1>1, <3>1, <3>2
    <2>8. Len(stack') = n
      BY <1>1, <2>5, <2>6
    <2>. QED
      BY <1>1, <1>2, <1>4, <2>4, <2>6, <2>7, <2>8
  <1>. QED
    BY <1>3, <1>4

-----------------------------------------------------------------------------
(* Each effect of a step preserves IInv. *)

LEMMA AdvancePreserves ==
  ASSUME IInv, status = "checking", NEW type, Advance(type),
         UNCHANGED <<prog, current_block, entered, inferred, status>>,
         errors' \in Seq(Site), Len(errors') >= Len(errors)
  PROVE  IInv'
  <1>. DEFINE n == Len(stack)
  <1>1. /\ stack' \in Seq(Frame) /\ stack' # <<>> /\ Len(stack') = n
        /\ \A i \in 1 .. n : /\ stack'[i].unit = stack[i].unit
                             /\ stack'[i].saved = stack[i].saved
                             /\ stack'[i].mark = stack[i].mark
    BY AdvanceFacts DEF IInv
  <1>2. n \in Nat \ {0} /\ DOMAIN stack = 1 .. n /\ DOMAIN stack' = 1 .. n
    BY <1>1, TopFacts DEF IInv, TypeOK
  <1>. HIDE DEF n
  <1>3. TypeOK'
    BY <1>1 DEF IInv, TypeOK
  <1>4. ScopeIsLexical'
    BY <1>1, <1>2 DEF IInv, ScopeIsLexical, top, n
  <1>5. InProgressIsOnStack'
    BY <1>1, <1>2 DEF IInv, InProgressIsOnStack
  <1>6. OnStackIsEntered'
    BY <1>1, <1>2 DEF IInv, OnStackIsEntered
  <1>7. NoReentry'
    <2>1. SUFFICES ASSUME NEW i \in 1 .. n, NEW j \in 1 .. n,
                          stack'[i].unit \in Decl, stack'[i].unit = stack'[j].unit
                   PROVE  i = j
      BY <1>2 DEF NoReentry
    <2>2. stack[i].unit \in Decl /\ stack[i].unit = stack[j].unit
      BY <1>1, <2>1
    <2>. QED
      BY <1>2, <2>2 DEF IInv, NoReentry
  <1>8. StackIsChain'
    BY <1>1, <1>2 DEF IInv, StackIsChain, n
  <1>9. AssertMeansCycle'
    BY DEF AssertMeansCycle
  <1>10. MarksAscend'
    <2>1. SUFFICES ASSUME NEW j \in 1 .. n
                   PROVE  /\ stack'[j].mark <= Len(errors')
                          /\ \A i \in 1 .. j : stack'[i].mark <= stack'[j].mark
      BY <1>2 DEF MarksAscend
    <2>2. /\ stack[j].mark <= Len(errors)
          /\ \A i \in 1 .. j : stack[i].mark <= stack[j].mark
      BY <1>2 DEF IInv, MarksAscend
    <2>3. \A i \in 1 .. j : i \in 1 .. n
      BY <1>2
    <2>4. stack[j].mark \in Nat /\ Len(errors) \in Nat /\ Len(errors') \in Nat
      <3>1. stack[j] \in Frame /\ errors \in Seq(Site)
        BY <1>2 DEF IInv, TypeOK
      <3>2. stack[j].mark \in Nat
        BY <3>1 DEF Frame
      <3>. QED
        BY <3>1, <3>2
    <2>. QED
      BY <1>1, <2>2, <2>3, <2>4
  <1>. QED
    BY <1>3, <1>4, <1>5, <1>6, <1>7, <1>8, <1>9, <1>10 DEF IInv

(***************************************************************************)
(* Calling typecheck on a unit that the current one needs, in its lexical  *)
(* block; a declaration is new, and its types are recorded as it is        *)
(* entered.                                                                *)
(***************************************************************************)
LEMMA CallPreserves ==
  ASSUME IInv, status = "checking", NEW u \in Unit, NEW b \in Block, Call(u, b),
         UNCHANGED <<prog, errors>>,
         Needs(prog, top.unit, u), b = Lexical(prog, u),
         u \in Decl => u \notin entered,
         entered' = IF u \in Decl THEN entered \cup {u} ELSE entered,
         inferred' \in [Decl -> {"null", "ok", "poison"}],
         \A d \in Decl : d # u => inferred'[d] = inferred[d],
         u \in prog.proc => inferred'[u] # "null"
  PROVE  IInv'
  <1>. DEFINE n == Len(stack)
  <1>1. /\ stack' \in Seq(Frame) /\ stack' # <<>> /\ Len(stack') = n + 1
        /\ stack'[n + 1].unit = u /\ stack'[n + 1].saved = current_block
        /\ stack'[n + 1].mark = Len(errors)
        /\ \A i \in 1 .. n : stack'[i] = stack[i]
        /\ current_block' = b /\ status' = status
    BY CallFacts DEF IInv
  <1>2. /\ n \in Nat \ {0} /\ DOMAIN stack = 1 .. n /\ DOMAIN stack' = 1 .. n + 1
        /\ top = stack[n]
    BY <1>1, TopFacts DEF IInv, TypeOK
  <1>. HIDE DEF n
  <1>3. TypeOK'
    BY <1>1 DEF IInv, TypeOK
  <1>4. ScopeIsLexical'
    <2>1. current_block' = Lexical(prog', top'.unit)
      BY <1>1 DEF top
    <2>2. ASSUME NEW i \in 2 .. Len(stack')
          PROVE  stack'[i].saved = Lexical(prog', stack'[i - 1].unit)
      <3>1. CASE i = n + 1
        BY <1>1, <1>2, <3>1 DEF IInv, ScopeIsLexical
      <3>2. CASE i \in 2 .. n
        BY <1>1, <1>2, <3>2 DEF IInv, ScopeIsLexical, n
      <3>. QED
        BY <1>1, <1>2, <3>1, <3>2
    <2>. QED
      BY <2>1, <2>2 DEF ScopeIsLexical
  <1>5. InProgressIsOnStack'
    <2>1. SUFFICES ASSUME NEW d \in entered', inferred'[d] = "null"
                   PROVE  /\ d \notin prog.proc
                          /\ \E k \in 1 .. n + 1 : stack'[k].unit = d
      BY <1>2 DEF InProgressIsOnStack
    <2>2. CASE d = u
      BY <1>1, <1>2, <2>1, <2>2
    <2>3. CASE d # u
      <3>1. d \in entered /\ d \in Decl
        BY <2>3 DEF IInv, TypeOK
      <3>. QED
        BY <1>1, <1>2, <2>1, <2>3, <3>1 DEF IInv, InProgressIsOnStack
    <2>. QED
      BY <2>2, <2>3
  <1>6. OnStackIsEntered'
    <2>1. SUFFICES ASSUME NEW k \in 1 .. n + 1, stack'[k].unit \in Decl
                   PROVE  stack'[k].unit \in entered'
      BY <1>2 DEF OnStackIsEntered
    <2>2. CASE k = n + 1
      BY <1>1, <2>1, <2>2
    <2>3. CASE k \in 1 .. n
      BY <1>1, <1>2, <2>1, <2>3 DEF IInv, OnStackIsEntered
    <2>. QED
      BY <1>2, <2>2, <2>3
  <1>7. NoReentry'
    <2>1. SUFFICES ASSUME NEW i \in 1 .. n + 1, NEW j \in 1 .. n + 1,
                          stack'[i].unit \in Decl, stack'[i].unit = stack'[j].unit
                   PROVE  i = j
      BY <1>2 DEF NoReentry
    <2>2. ASSUME NEW k \in 1 .. n, stack[k].unit \in Decl
          PROVE  stack[k].unit # u
      BY <1>2, <2>2 DEF IInv, OnStackIsEntered
    <2>3. CASE i \in 1 .. n /\ j \in 1 .. n
      BY <1>1, <1>2, <2>1, <2>3 DEF IInv, NoReentry
    <2>4. CASE i = n + 1 /\ j \in 1 .. n
      BY <1>1, <2>1, <2>2, <2>4
    <2>5. CASE i \in 1 .. n /\ j = n + 1
      BY <1>1, <2>1, <2>2, <2>5
    <2>. QED
      BY <1>2, <2>3, <2>4, <2>5
  <1>8. StackIsChain'
    <2>1. SUFFICES ASSUME NEW i \in 1 .. n
                   PROVE  Needs(prog, stack'[i].unit, stack'[i + 1].unit)
      BY <1>1, <1>2 DEF StackIsChain
    <2>2. CASE i = n
      BY <1>1, <1>2, <2>2
    <2>3. CASE i \in 1 .. n - 1
      <3>1. stack'[i] = stack[i] /\ stack'[i + 1] = stack[i + 1]
        BY <1>1, <1>2, <2>3
      <3>. QED
        BY <1>2, <2>3, <3>1 DEF IInv, StackIsChain, n
    <2>. QED
      BY <1>2, <2>2, <2>3
  <1>9. AssertMeansCycle'
    BY <1>1 DEF AssertMeansCycle
  <1>10. MarksAscend'
    <2>1. SUFFICES ASSUME NEW j \in 1 .. n + 1
                   PROVE  /\ stack'[j].mark <= Len(errors)
                          /\ \A i \in 1 .. j : stack'[i].mark <= stack'[j].mark
      BY <1>2 DEF MarksAscend
    <2>2. \A k \in 1 .. n : /\ stack[k].mark <= Len(errors)
                            /\ \A i \in 1 .. k : stack[i].mark <= stack[k].mark
      BY <1>2 DEF IInv, MarksAscend
    <2>3. Len(errors) \in Nat
      BY DEF IInv, TypeOK
    <2>4. CASE j = n + 1
      BY <1>1, <1>2, <2>2, <2>3, <2>4
    <2>5. CASE j \in 1 .. n
      <3>1. \A i \in 1 .. j : i \in 1 .. n
        BY <1>2, <2>5
      <3>. QED
        BY <1>1, <2>2, <2>5, <3>1
    <2>. QED
      BY <1>2, <2>4, <2>5
  <1>. QED
    BY <1>3, <1>4, <1>5, <1>6, <1>7, <1>8, <1>9, <1>10 DEF IInv

(***************************************************************************)
(* Returning from the top frame; a variable has its type from then on.     *)
(***************************************************************************)
LEMMA ReturnPreserves ==
  ASSUME IInv, status = "checking", Return, UNCHANGED <<prog, entered>>,
         errors' \in Seq(Site), Len(errors') >= top.mark,
         inferred' \in [Decl -> {"null", "ok", "poison"}],
         \A d \in Decl : inferred'[d] = "null" => inferred[d] = "null",
         top.unit \in Decl => inferred'[top.unit] # "null"
  PROVE  IInv'
  <1>. DEFINE n == Len(stack)
  <1>1. /\ stack' \in Seq(Frame)
        /\ Len(stack') = n - 1
        /\ \A i \in 1 .. n - 1 : /\ stack'[i].unit = stack[i].unit
                                 /\ stack'[i].saved = stack[i].saved
                                 /\ stack'[i].mark = stack[i].mark
        /\ current_block' = top.saved
        /\ \/ n = 1 /\ status' = "done"
           \/ n > 1 /\ status' = "checking" /\ stack' # <<>>
    BY ReturnFacts DEF IInv
  <1>2. /\ n \in Nat \ {0} /\ DOMAIN stack = 1 .. n /\ DOMAIN stack' = 1 .. n - 1
        /\ top = stack[n] /\ top \in Frame
    BY <1>1, TopFacts DEF IInv, TypeOK
  <1>3. top' = stack'[n - 1]
    BY <1>1 DEF top
  <1>. HIDE DEF n
  <1>4. TypeOK'
    <2>1. current_block' \in Block
      BY <1>1, <1>2 DEF Frame
    <2>2. entered' \in SUBSET Decl /\ prog' \in Program /\ Registered(prog')
      BY DEF IInv, TypeOK
    <2>. QED
      BY <1>1, <2>1, <2>2 DEF TypeOK
  <1>5. ScopeIsLexical'
    <2>1. SUFFICES ASSUME status' # "done"
                   PROVE  /\ current_block' = Lexical(prog, stack'[n - 1].unit)
                          /\ \A i \in 2 .. n - 1 :
                               stack'[i].saved = Lexical(prog, stack'[i - 1].unit)
      BY <1>1, <1>3 DEF ScopeIsLexical
    <2>2. n > 1
      BY <1>1, <2>1
    <2>3. \A i \in 2 .. n : stack[i].saved = Lexical(prog, stack[i - 1].unit)
      BY DEF IInv, ScopeIsLexical, n
    <2>4. current_block' = Lexical(prog, stack'[n - 1].unit)
      <3>1. top.saved = Lexical(prog, stack[n - 1].unit)
        BY <1>2, <2>2, <2>3
      <3>2. stack'[n - 1].unit = stack[n - 1].unit
        BY <1>1, <1>2, <2>2
      <3>. QED
        BY <1>1, <3>1, <3>2
    <2>5. ASSUME NEW i \in 2 .. n - 1
          PROVE  stack'[i].saved = Lexical(prog, stack'[i - 1].unit)
      <3>1. i \in 1 .. n - 1 /\ i - 1 \in 1 .. n - 1 /\ i \in 2 .. n
        BY <1>2
      <3>2. stack'[i].saved = stack[i].saved /\ stack'[i - 1].unit = stack[i - 1].unit
        BY <1>1, <3>1
      <3>. QED
        BY <2>3, <3>1, <3>2
    <2>. QED
      BY <2>4, <2>5
  <1>6. InProgressIsOnStack'
    <2>1. SUFFICES ASSUME NEW d \in entered, inferred'[d] = "null"
                   PROVE  /\ d \notin prog.proc
                          /\ \E k \in 1 .. n - 1 : stack'[k].unit = d
      BY <1>2 DEF InProgressIsOnStack
    <2>2. d \in Decl /\ inferred[d] = "null"
      BY <2>1 DEF IInv, TypeOK
    <2>3. PICK k \in 1 .. n : stack[k].unit = d
      BY <1>2, <2>2 DEF IInv, InProgressIsOnStack
    <2>4. k # n
      BY <1>2, <2>1, <2>2, <2>3
    <2>5. k \in 1 .. n - 1
      BY <1>2, <2>4
    <2>. QED
      BY <1>1, <2>2, <2>3, <2>5 DEF IInv, InProgressIsOnStack
  <1>7. OnStackIsEntered'
    <2>1. SUFFICES ASSUME NEW k \in 1 .. n - 1, stack'[k].unit \in Decl
                   PROVE  stack'[k].unit \in entered
      BY <1>2 DEF OnStackIsEntered
    <2>2. k \in DOMAIN stack /\ stack'[k].unit = stack[k].unit
      BY <1>1, <1>2
    <2>. QED
      BY <2>1, <2>2 DEF IInv, OnStackIsEntered
  <1>8. NoReentry'
    <2>1. SUFFICES ASSUME NEW i \in 1 .. n - 1, NEW j \in 1 .. n - 1,
                          stack'[i].unit \in Decl, stack'[i].unit = stack'[j].unit
                   PROVE  i = j
      BY <1>2 DEF NoReentry
    <2>2. /\ i \in DOMAIN stack /\ j \in DOMAIN stack
          /\ stack[i].unit \in Decl /\ stack[i].unit = stack[j].unit
      BY <1>1, <1>2, <2>1
    <2>. QED
      BY <2>2 DEF IInv, NoReentry
  <1>9. StackIsChain'
    <2>1. SUFFICES ASSUME NEW i \in 1 .. n - 1 - 1
                   PROVE  Needs(prog, stack'[i].unit, stack'[i + 1].unit)
      BY <1>1 DEF StackIsChain
    <2>2. i \in 1 .. n - 1 /\ i + 1 \in 1 .. n - 1
      BY <1>2
    <2>3. stack'[i].unit = stack[i].unit /\ stack'[i + 1].unit = stack[i + 1].unit
      BY <1>1, <2>2
    <2>. QED
      BY <2>2, <2>3 DEF IInv, StackIsChain, n
  <1>10. AssertMeansCycle'
    BY <1>1 DEF AssertMeansCycle
  <1>11. MarksAscend'
    <2>1. SUFFICES ASSUME NEW j \in 1 .. n - 1
                   PROVE  /\ stack'[j].mark <= Len(errors')
                          /\ \A i \in 1 .. j : stack'[i].mark <= stack'[j].mark
      BY <1>2 DEF MarksAscend
    <2>2. \A k \in 1 .. n : \A i \in 1 .. k : stack[i].mark <= stack[k].mark
      BY <1>2 DEF IInv, MarksAscend
    <2>3. j \in 1 .. n /\ \A i \in 1 .. j : i \in 1 .. n - 1
      BY <1>2
    <2>4. stack[j].mark \in Nat /\ top.mark \in Nat /\ Len(errors') \in Nat
      <3>1. stack[j] \in Frame
        BY <1>2, <2>3 DEF IInv, TypeOK
      <3>2. stack[j].mark \in Nat /\ top.mark \in Nat
        BY <1>2, <3>1 DEF Frame
      <3>. QED
        BY <3>2
    <2>5. stack[j].mark <= top.mark
      BY <1>2, <2>2, <2>3
    <2>6. stack'[j].mark <= Len(errors')
      BY <1>1, <2>4, <2>5
    <2>. QED
      BY <1>1, <2>2, <2>3, <2>6
  <1>. QED
    BY <1>4, <1>5, <1>6, <1>7, <1>8, <1>9, <1>10, <1>11 DEF IInv

(***************************************************************************)
(* The failing assert: the declaration has been entered and has no type,   *)
(* so it is on the stack, and the frames above it make up the cycle.       *)
(***************************************************************************)
LEMMA AssertPreserves ==
  ASSUME IInv, status = "checking", status' = "assert",
         UNCHANGED <<prog, stack, current_block, entered, inferred, errors>>,
         NEW d \in entered, inferred[d] = "null", Needs(prog, top.unit, d)
  PROVE  IInv'
  <1>1. TypeOK'
    BY DEF IInv, TypeOK
  <1>2. ScopeIsLexical'
    BY DEF IInv, ScopeIsLexical, top
  <1>3. InProgressIsOnStack' /\ OnStackIsEntered' /\ NoReentry' /\ StackIsChain'
        /\ MarksAscend'
    BY DEF IInv, InProgressIsOnStack, OnStackIsEntered, NoReentry, StackIsChain, MarksAscend
  <1>4. AssertMeansCycle'
    <2>1. PICK k \in DOMAIN stack : stack[k].unit = d
      BY DEF IInv, InProgressIsOnStack
    <2>2. stack[k].unit \in Decl \ prog.proc
      BY <2>1 DEF IInv, InProgressIsOnStack, TypeOK
    <2>3. Len(stack) \in Nat /\ k \in 1 .. Len(stack)
      BY <2>1 DEF IInv, TypeOK
    <2>4. \A i \in k .. Len(stack) - 1 : Needs(prog, stack[i].unit, stack[i + 1].unit)
      BY <2>3 DEF IInv, StackIsChain
    <2>5. Needs(prog, top.unit, stack[k].unit)
      BY <2>1
    <2>. QED
      BY <2>2, <2>4, <2>5 DEF AssertMeansCycle, top
  <1>. QED
    BY <1>1, <1>2, <1>3, <1>4 DEF IInv

-----------------------------------------------------------------------------
(* Each action preserves IInv. *)

(***************************************************************************)
(* An item of a unit of the program: the blocks and names it mentions      *)
(* exist, and the unit needs what the item leads to.                       *)
(***************************************************************************)
LEMMA ItemFacts ==
  ASSUME IInv, status = "checking", top.at \in DOMAIN items
  PROVE  /\ items[top.at] \in Item
         /\ items[top.at].op = "block" =>
              items[top.at].block \in Block /\ Needs(prog, top.unit, items[top.at].block)
         /\ items[top.at].op = "decl" =>
              /\ items[top.at].decl \in Decl
              /\ Needs(prog, top.unit, items[top.at].decl)
              /\ prog.home[items[top.at].decl] = current_block
         /\ items[top.at].op = "use" =>
              LET d == find_declaration(prog, current_block, items[top.at].name)
              IN  d # NoDecl => d \in Decl /\ Needs(prog, top.unit, d)
  <1>1. items \in Seq(Item) /\ top \in Frame /\ prog \in Program /\ Registered(prog)
    BY TopFacts DEF IInv, TypeOK
  <1>2. items[top.at] \in Item
    BY <1>1
  <1>3. top.unit \in Unit /\ current_block = Lexical(prog, top.unit)
    BY <1>1 DEF IInv, ScopeIsLexical, Frame
  <1>4. items[top.at].op = "block" => items[top.at].block \in Block
    BY <1>2 DEF Item
  <1>5. items[top.at].op = "decl" => items[top.at].decl \in Decl
    BY <1>2 DEF Item
  <1>6. items[top.at].op = "block" => Needs(prog, top.unit, items[top.at].block)
    BY DEF Needs, Contains, items
  <1>7. items[top.at].op = "decl" => Needs(prog, top.unit, items[top.at].decl)
    BY DEF Needs, Contains, items
  <1>8. items[top.at].op = "decl" => prog.home[items[top.at].decl] = current_block
    <2>1. items[top.at].op = "decl" =>
            top.unit \in Block /\ prog.home[items[top.at].decl] = top.unit
      BY <1>1, <1>3 DEF Registered, items
    <2>. QED
      BY <1>3, <2>1, UnitsAssumption DEF Lexical
  <1>9. ASSUME NEW d, d = find_declaration(prog, current_block, items[top.at].name),
               d # NoDecl, items[top.at].op = "use"
        PROVE  d \in Decl /\ Needs(prog, top.unit, d)
    <2>1. d \in Decl
      BY <1>9, FindDeclarationType
    <2>. QED
      BY <1>3, <1>9, <2>1 DEF Needs, items
  <1>. QED
    BY <1>2, <1>4, <1>5, <1>6, <1>7, <1>8, <1>9

(***************************************************************************)
(* Checking a declaration that the current unit needs and that has no type *)
(* yet, in the block it belongs to.                                        *)
(***************************************************************************)
LEMMA CheckDeclarationPreserves ==
  ASSUME IInv, status = "checking", NEW d \in Decl, inferred[d] = "null",
         Needs(prog, top.unit, d), CheckDeclaration(d, prog.home[d]),
         UNCHANGED <<prog, errors>>
  PROVE  IInv'
  <1>1. CASE d \in entered
    BY <1>1, AssertPreserves DEF CheckDeclaration
  <1>2. CASE d \notin entered
    <2>1. Call(d, prog.home[d]) /\ entered' = entered \cup {d}
      BY <1>2 DEF CheckDeclaration
    <2>2. inferred' = IF d \in prog.proc THEN [inferred EXCEPT ![d] = "ok"] ELSE inferred
      BY <1>2 DEF CheckDeclaration, TypedOnEntry
    <2>3. inferred \in [Decl -> {"null", "ok", "poison"}]
      BY DEF IInv, TypeOK
    <2>4. /\ inferred' \in [Decl -> {"null", "ok", "poison"}]
          /\ \A e \in Decl : e # d => inferred'[e] = inferred[e]
          /\ d \in prog.proc => inferred'[d] # "null"
      BY <2>2, <2>3
    <2>5. prog.home[d] \in Block /\ d \in Unit /\ prog.home[d] = Lexical(prog, d)
      <3>1. prog.home \in [Decl -> Block]
        BY DEF IInv, TypeOK, Program
      <3>. QED
        BY <3>1 DEF Unit, Lexical
    <2>. QED
      BY <1>2, <2>1, <2>4, <2>5, CallPreserves
  <1>. QED
    BY <1>1, <1>2

LEMMA VisitDeclarationPreserves ==
  ASSUME IInv, VisitDeclaration
  PROVE  IInv'
  <1>. DEFINE d == items[top.at].decl
  <1>1. /\ status = "checking" /\ top.at \in DOMAIN items /\ items[top.at].op = "decl"
        /\ UNCHANGED <<prog, errors>>
    BY DEF VisitDeclaration, AtItem
  <1>2. d \in Decl /\ Needs(prog, top.unit, d) /\ prog.home[d] = current_block
    BY <1>1, ItemFacts
  <1>3. errors \in Seq(Site) /\ Len(errors) >= Len(errors)
    BY DEF IInv, TypeOK
  <1>4. CASE inferred[d] # "null"
    <2>1. Advance("ok") /\ UNCHANGED <<current_block, entered, inferred, status>>
      BY <1>4 DEF VisitDeclaration
    <2>. QED
      BY <1>1, <1>3, <2>1, AdvancePreserves
  <1>5. CASE inferred[d] = "null"
    <2>1. CheckDeclaration(d, prog.home[d])
      BY <1>2, <1>5 DEF VisitDeclaration
    <2>. QED
      BY <1>1, <1>2, <1>5, <2>1, CheckDeclarationPreserves
  <1>. QED
    BY <1>4, <1>5

(***************************************************************************)
(* An error is appended and the walk goes on.                              *)
(***************************************************************************)
LEMMA RaisePreserves ==
  ASSUME IInv, status = "checking", NEW type, Advance(type), errors' = Append(errors, here),
         UNCHANGED <<prog, current_block, entered, inferred, status>>
  PROVE  IInv'
  <1>1. top \in Frame /\ errors \in Seq(Site)
    BY TopFacts DEF IInv, TypeOK
  <1>2. here \in Site
    BY <1>1 DEF here, Site, Frame
  <1>3. errors' \in Seq(Site) /\ Len(errors') = Len(errors) + 1
    BY <1>1, <1>2, AppendFacts
  <1>4. Len(errors') >= Len(errors)
    BY <1>1, <1>3
  <1>. QED
    BY <1>3, <1>4, AdvancePreserves

LEMMA VisitIdentifierPreserves ==
  ASSUME IInv, VisitIdentifier
  PROVE  IInv'
  <1>. DEFINE d == find_declaration(prog, current_block, items[top.at].name)
  <1>1. /\ status = "checking" /\ top.at \in DOMAIN items /\ items[top.at].op = "use"
        /\ UNCHANGED prog
    BY DEF VisitIdentifier, AtItem
  <1>2. d # NoDecl => d \in Decl /\ Needs(prog, top.unit, d)
    BY <1>1, ItemFacts
  <1>3. errors \in Seq(Site) /\ Len(errors) >= Len(errors)
    BY DEF IInv, TypeOK
  <1>. HIDE DEF d
  <1>4. CASE d = NoDecl
    <2>1. /\ errors' = Append(errors, here) /\ Advance("poison")
          /\ UNCHANGED <<current_block, entered, inferred, status>>
      BY <1>4 DEF VisitIdentifier, d
    <2>. QED
      BY <1>1, <2>1, RaisePreserves
  <1>5. CASE d # NoDecl /\ inferred[d] = "null"
    <2>1. CheckDeclaration(d, prog.home[d]) /\ UNCHANGED errors
      BY <1>5 DEF VisitIdentifier, d
    <2>. QED
      BY <1>1, <1>2, <1>5, <2>1, CheckDeclarationPreserves
  <1>6. CASE d # NoDecl /\ inferred[d] # "null"
    <2>1. Advance(inferred[d]) /\ UNCHANGED <<current_block, entered, inferred, errors, status>>
      BY <1>6 DEF VisitIdentifier, d
    <2>. QED
      BY <1>1, <1>3, <2>1, AdvancePreserves
  <1>. QED
    BY <1>4, <1>5, <1>6

LEMMA VisitBlockPreserves ==
  ASSUME IInv, VisitBlock
  PROVE  IInv'
  <1>. DEFINE b == items[top.at].block
  <1>1. /\ status = "checking" /\ top.at \in DOMAIN items /\ items[top.at].op = "block"
        /\ Call(b, b) /\ UNCHANGED <<prog, entered, inferred, errors>>
    BY DEF VisitBlock, AtItem
  <1>2. b \in Block /\ Needs(prog, top.unit, b)
    BY <1>1, ItemFacts
  <1>3. b \in Unit /\ b \notin Decl /\ b = Lexical(prog, b)
    BY <1>2, UnitsAssumption DEF Unit, Lexical
  <1>4. b \notin prog.proc /\ inferred \in [Decl -> {"null", "ok", "poison"}]
    BY <1>3 DEF IInv, TypeOK, Program
  <1>. HIDE DEF b
  <1>. QED
    BY <1>1, <1>2, <1>3, <1>4, CallPreserves

(***************************************************************************)
(* Leaving an __error block truncates the list to where it was on entry:   *)
(* the list is at least that long.                                         *)
(***************************************************************************)
LEMMA ErrorsAfterType ==
  ASSUME IInv, status = "checking", NEW b \in Block
  PROVE  ErrorsAfter(b, top.mark) \in Seq(Site) /\ Len(ErrorsAfter(b, top.mark)) >= top.mark
  <1>. DEFINE e == [unit |-> b, at |-> 0]
  <1>1. errors \in Seq(Site) /\ top \in Frame
    BY TopFacts DEF IInv, TypeOK
  <1>2. top.mark \in Nat
    BY <1>1 DEF Frame
  <1>3. top.mark <= Len(errors)
    BY TopFacts DEF IInv, TypeOK, MarksAscend
  <1>4. e \in Site
    BY DEF Site, Unit
  <1>. HIDE DEF e
  <1>5. Append(errors, e) \in Seq(Site) /\ Len(Append(errors, e)) = Len(errors) + 1
    BY <1>1, <1>4, AppendFacts
  <1>6. /\ SubSeq(errors, 1, top.mark) \in Seq(Site)
        /\ Len(SubSeq(errors, 1, top.mark)) = top.mark
    BY <1>1, <1>2, <1>3, top.mark \in 0 .. Len(errors), PrefixFacts
  <1>7. Len(errors) \in Nat
    BY <1>1
  <1>8. CASE ErrorsAfter(b, top.mark) = errors
    BY <1>1, <1>2, <1>3, <1>7, <1>8
  <1>9. CASE ErrorsAfter(b, top.mark) = Append(errors, e)
    <2>1. Len(Append(errors, e)) >= top.mark
      BY <1>2, <1>3, <1>5, <1>7
    <2>. QED
      BY <1>5, <1>9, <2>1
  <1>10. CASE ErrorsAfter(b, top.mark) = SubSeq(errors, 1, top.mark)
    <2>1. Len(SubSeq(errors, 1, top.mark)) >= top.mark
      BY <1>2, <1>6
    <2>. QED
      BY <1>6, <1>10, <2>1
  <1>. QED
    BY <1>8, <1>9, <1>10 DEF ErrorsAfter, e

LEMMA LeaveBlockPreserves ==
  ASSUME IInv, LeaveBlock
  PROVE  IInv'
  <1>1. /\ status = "checking" /\ top.unit \in Block /\ Return
        /\ errors' = ErrorsAfter(top.unit, top.mark)
        /\ UNCHANGED <<prog, entered, inferred>>
    BY DEF LeaveBlock, AtEnd
  <1>2. errors' \in Seq(Site) /\ Len(errors') >= top.mark
    BY <1>1, ErrorsAfterType
  <1>3. top.unit \notin Decl /\ inferred \in [Decl -> {"null", "ok", "poison"}]
    BY <1>1, UnitsAssumption DEF IInv, TypeOK
  <1>. QED
    BY <1>1, <1>2, <1>3, ReturnPreserves

LEMMA LeaveDeclarationPreserves ==
  ASSUME IInv, LeaveDeclaration
  PROVE  IInv'
  <1>. DEFINE d == top.unit
  <1>1. /\ status = "checking" /\ d \in Decl /\ Return
        /\ UNCHANGED <<prog, entered, errors>>
        /\ inferred' = IF d \in prog.proc THEN inferred ELSE [inferred EXCEPT ![d] = top.type]
    BY DEF LeaveDeclaration, AtEnd
  <1>2. /\ errors \in Seq(Site) /\ inferred \in [Decl -> {"null", "ok", "poison"}]
        /\ top \in Frame /\ Len(stack) \in DOMAIN stack /\ top = stack[Len(stack)]
    BY <1>1, TopFacts DEF IInv, TypeOK
  <1>3. top.mark \in Nat /\ top.type \in {"ok", "poison"}
    BY <1>2 DEF Frame
  <1>4. top.mark <= Len(errors)
    BY <1>2 DEF IInv, MarksAscend
  <1>5. d \in entered
    BY <1>1, <1>2 DEF IInv, OnStackIsEntered
  <1>6. inferred[d] = "null" => d \notin prog.proc
    BY <1>5 DEF IInv, InProgressIsOnStack
  <1>. HIDE DEF d
  <1>7. /\ inferred' \in [Decl -> {"null", "ok", "poison"}]
        /\ \A e \in Decl : inferred'[e] = "null" => inferred[e] = "null"
        /\ inferred'[d] # "null"
    BY <1>1, <1>2, <1>3, <1>6
  <1>. QED
    BY <1>1, <1>2, <1>4, <1>7, ReturnPreserves DEF d

LEMMA InitIInv ==
  ASSUME Init
  PROVE  IInv
  <1>. DEFINE f == [unit |-> prog.module, at |-> 1, saved |-> prog.module,
                    mark |-> 0, type |-> "ok"]
  <1>1. prog \in Program /\ Registered(prog)
    BY ProgramsAssumption DEF Init
  <1>2. prog.module \in Block /\ prog.module \notin Decl
    BY <1>1, UnitsAssumption DEF Program
  <1>3. f \in Frame /\ f.unit = prog.module /\ f.mark = 0
    BY <1>2 DEF Frame, Unit
  <1>4. stack = <<f>>
    BY DEF Init
  <1>. HIDE DEF f
  <1>5. stack \in Seq(Frame) /\ Len(stack) = 1 /\ stack[1] = f /\ stack # <<>>
    BY <1>3, <1>4
  <1>6. TypeOK
    <2>1. entered \in SUBSET Decl /\ errors \in Seq(Site) /\ status = "checking"
      BY DEF Init
    <2>2. inferred \in [Decl -> {"null", "ok", "poison"}]
      BY DEF Init
    <2>. QED
      BY <1>1, <1>2, <1>5, <2>1, <2>2 DEF Init, TypeOK
  <1>7. ScopeIsLexical
    BY <1>2, <1>3, <1>5 DEF Init, ScopeIsLexical, Lexical, top
  <1>8. InProgressIsOnStack /\ AssertMeansCycle
    BY DEF Init, InProgressIsOnStack, AssertMeansCycle
  <1>9. OnStackIsEntered /\ NoReentry
    BY <1>2, <1>3, <1>5 DEF OnStackIsEntered, NoReentry
  <1>10. StackIsChain
    BY <1>5 DEF StackIsChain
  <1>11. MarksAscend
    <2>1. Len(errors) = 0
      BY DEF Init
    <2>. QED
      BY <1>3, <1>5, <2>1 DEF MarksAscend
  <1>. QED
    BY <1>6, <1>7, <1>8, <1>9, <1>10, <1>11 DEF IInv

LEMMA NextIInv ==
  ASSUME IInv, [Next]_vars
  PROVE  IInv'
  <1>1. CASE VisitDeclaration
    BY <1>1, VisitDeclarationPreserves
  <1>2. CASE VisitIdentifier
    BY <1>2, VisitIdentifierPreserves
  <1>3. CASE Fail
    BY <1>3, RaisePreserves DEF Fail, AtItem
  <1>4. CASE VisitBlock
    BY <1>4, VisitBlockPreserves
  <1>5. CASE LeaveBlock
    BY <1>5, LeaveBlockPreserves
  <1>6. CASE LeaveDeclaration
    BY <1>6, LeaveDeclarationPreserves
  <1>7. CASE UNCHANGED vars
    BY <1>7 DEF vars, IInv, TypeOK, MarksAscend, ScopeIsLexical, InProgressIsOnStack,
                OnStackIsEntered, NoReentry, StackIsChain, AssertMeansCycle, top
  <1>. QED
    BY <1>1, <1>2, <1>3, <1>4, <1>5, <1>6, <1>7 DEF Next

-----------------------------------------------------------------------------
(***************************************************************************)
(* The strengthening is an invariant of every module.                      *)
(***************************************************************************)
THEOREM Strengthening == Spec => []IInv
  <1>1. Init => IInv
    BY InitIInv
  <1>2. IInv /\ [Next]_vars => IInv'
    BY NextIInv
  <1>. QED
    BY <1>1, <1>2, PTL DEF Spec

(***************************************************************************)
(* Every variable keeps the type of its C++ counterpart.                   *)
(***************************************************************************)
THEOREM TypeCorrect == Spec => []TypeOK
  <1>1. IInv => TypeOK
    BY DEF IInv
  <1>. QED
    BY <1>1, Strengthening, PTL

(***************************************************************************)
(* The resize of the error list at the end of an __error block             *)
(* (typecheck.cpp:732) never grows it, however the blocks nest.            *)
(***************************************************************************)
THEOREM ResizeOnlyShrinks == Spec => []MarksAscend
  <1>1. IInv => MarksAscend
    BY DEF IInv
  <1>. QED
    BY <1>1, Strengthening, PTL

(***************************************************************************)
(* Out-of-order checking never looks an identifier up in the scope of the  *)
(* identifier that caused it (typecheck.cpp:815).                          *)
(***************************************************************************)
THEOREM LexicalScope == Spec => []ScopeIsLexical
  <1>1. IInv => ScopeIsLexical
    BY DEF IInv
  <1>. QED
    BY <1>1, Strengthening, PTL

(***************************************************************************)
(* No declaration is checked while it is being checked.                    *)
(***************************************************************************)
THEOREM NoDeclarationIsReentered == Spec => []NoReentry
  <1>1. IInv => NoReentry
    BY DEF IInv
  <1>. QED
    BY <1>1, Strengthening, PTL

(***************************************************************************)
(* The assert of typecheck.cpp:578 fails for nothing but a variable whose  *)
(* initialiser needs itself, and so never for recursive procedures.        *)
(***************************************************************************)
THEOREM AssertOnlyOnCycles == Spec => []AssertMeansCycle
  <1>1. IInv => AssertMeansCycle
    BY DEF IInv
  <1>. QED
    BY <1>1, Strengthening, PTL

=============================================================================
