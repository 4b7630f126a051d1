------------------------ MODULE DeclarationChecking ------------------------
(***************************************************************************)
(* The order in which TypeChecker::typecheck visits the declarations of a  *)
(* module (typecheck.cpp).  The checker walks the module block statement   *)
(* by statement, but an identifier whose declaration has no type yet makes *)
(* it check that declaration on the spot, in the block the declaration     *)
(* belongs to, and come back.  The C++ call stack is the variable stack:   *)
(* one frame for every declaration or block being checked.                 *)
(*                                                                         *)
(* The typing rules are abstracted to what the walk can tell apart: a      *)
(* statement or an operand that breaks one is an item "fail", with what    *)
(* would have been walked after it left out (an if or while whose          *)
(* condition is not boolean is one "fail": its body is not visited).  What *)
(* stays is every assignment of Node::inferred_type_ to a declaration and  *)
(* its initialiser, the scope an identifier is looked up in, and the error *)
(* list and its truncation by __error("typecheck") blocks.                 *)
(***************************************************************************)
EXTENDS Naturals, Sequences

CONSTANTS
  Decl,      \* DeclarationNodes: procedures and variables
  Block,     \* BlockNodes: the module, procedure bodies, nested blocks
  Name,      \* identifiers
  Programs,  \* the programs that may be checked
  NoDecl     \* the nullptr of BlockNode::find_declaration

Unit == Decl \cup Block

(***************************************************************************)
(* What a unit contains, in the order typecheck_internal visits it: the    *)
(* statements of a block, the initialiser of a declaration.  An identifier *)
(* is "use", a nested declaration statement "decl", a nested block "block" *)
(* (the body of a procedure is the first item of its declaration).  A      *)
(* broken rule poisons the expression or leaves it the type it has anyway. *)
(***************************************************************************)
Item ==
  [op : {"use"}, name : Name] \cup [op : {"decl"}, decl : Decl]
    \cup [op : {"block"}, block : Block] \cup [op : {"fail"}, poisons : BOOLEAN]

Program ==
  [items   : [Unit -> Seq(Item)],
   scopes  : [Block -> Seq(Block)],  \* a block, then its parent_block chain
   home    : [Decl -> Block],        \* containing_block
   name    : [Decl -> Name],
   proc    : SUBSET Decl,            \* init_expression is a ProcedureNode
   expects : SUBSET Block,           \* __error("typecheck") blocks
   module  : Block]

(***************************************************************************)
(* A declaration statement stands in the block it was registered in: what  *)
(* DeclarationRegistrar::visit(DeclarationNode) establishes before.        *)
(***************************************************************************)
Registered(p) ==
  \A u \in Unit : \A i \in DOMAIN p.items[u] :
    LET item == p.items[u][i]
    IN  item.op = "decl" => u \in Block /\ p.home[item.decl] = u

Declares(p, b, n) == {d \in Decl : p.home[d] = b /\ p.name[d] = n}

(***************************************************************************)
(* The declaration of n on the parent_block chain of b, innermost first.   *)
(***************************************************************************)
find_declaration(p, b, n) ==
  LET chain == p.scopes[b]
      found == {d \in Decl : \E i \in DOMAIN chain :
                  /\ d \in Declares(p, chain[i], n)
                  /\ \A j \in 1 .. i - 1 : Declares(p, chain[j], n) = {}}
  IN  IF found = {} THEN NoDecl ELSE CHOOSE d \in found : TRUE

(***************************************************************************)
(* The block an identifier inside unit u is written in.                    *)
(***************************************************************************)
Lexical(p, u) == IF u \in Decl THEN p.home[u] ELSE u

(***************************************************************************)
(* Item i of unit u is the declaration or the block v.                     *)
(***************************************************************************)
Contains(p, u, i, v) ==
  LET item == p.items[u][i]
  IN  \/ item.op = "block" /\ v = item.block
      \/ item.op = "decl" /\ v = item.decl

(***************************************************************************)
(* Unit u needs unit v: it contains v, or names the declaration v.         *)
(***************************************************************************)
Needs(p, u, v) ==
  \E i \in DOMAIN p.items[u] :
    \/ Contains(p, u, i, v)
    \/ /\ p.items[u][i].op = "use" /\ v \in Decl
       /\ v = find_declaration(p, Lexical(p, u), p.items[u][i].name)

(***************************************************************************)
(* The text is a tree: what the parser reads and NodeConverter copies node *)
(* by node.  Every declaration is a statement of its block, a declaration  *)
(* or a block stands at one place and the module at none, parent_block is  *)
(* the block around, and some block is nested the deepest.                 *)
(***************************************************************************)
Nested(p) ==
  /\ p.scopes[p.module] = <<p.module>>
  /\ \A u, v \in Unit : \A i \in DOMAIN p.items[u] : Contains(p, u, i, v) =>
       /\ v # p.module
       /\ v \in Block => p.scopes[v] = <<v>> \o p.scopes[Lexical(p, u)]
       /\ \A w \in Unit : \A j \in DOMAIN p.items[w] :
            Contains(p, w, j, v) => w = u /\ j = i
  /\ \A d \in Decl : \E i \in DOMAIN p.items[p.home[d]] : Contains(p, p.home[d], i, d)
  /\ \E b \in Block : \A c \in Block : Len(p.scopes[c]) <= Len(p.scopes[b])

ASSUME UnitsAssumption == Decl \cap Block = {} /\ NoDecl \notin Decl
ASSUME ProgramsAssumption ==
  \A p \in Programs : p \in Program /\ Registered(p) /\ Nested(p)

VARIABLES
  prog,           \* the module under compilation; never changes
  stack,          \* the active typecheck_internal calls, innermost last
  current_block,  \* TypeChecker::current_block
  entered,        \* declarations whose own inferred_type_ is set
  inferred,       \* the inferred_type_ of each init_expression
  errors,         \* TypeChecker::errors, each as the item that raised it
  status          \* "checking", "done", or "assert" once an assert fails

vars == <<prog, stack, current_block, entered, inferred, errors, status>>

Site == [unit : Unit, at : Nat]

Frame ==
  [unit  : Unit,
   at    : Nat,    \* the next item
   saved : Block,  \* what SET_TEMPORARILY restores current_block to
   mark  : Nat,    \* num_errors_before
   type  : {"ok", "poison"}]  \* of the initialiser, as far as it was read

-----------------------------------------------------------------------------
top == stack[Len(stack)]
items == prog.items[top.unit]
here == [unit |-> top.unit, at |-> top.at]

AtItem(op) ==
  /\ status = "checking"
  /\ top.at \in DOMAIN items
  /\ items[top.at].op = op

(* Mutant: the loop over the statements ends one too late. *)
AtEnd_OffByOne ==
  /\ status = "checking"
  /\ top.at > Len(items) + 1

AtEnd ==
  /\ status = "checking"
  /\ top.at \notin DOMAIN items

(***************************************************************************)
(* Go on to the next item after one of the given type (spread_poison).     *)
(***************************************************************************)
After(type) ==
  LET moved == [top EXCEPT !.at = @ + 1]
  IN  IF type = "poison" THEN [moved EXCEPT !.type = "poison"] ELSE moved

Advance(type) == stack' = [stack EXCEPT ![Len(stack)] = After(type)]

(* Mutant: returning from the module block is not the end. *)
Return_NeverDone ==
  LET n      == Len(stack) - 1
      caller == stack[n]
      next   == IF top.unit \in Block THEN caller.at + 1 ELSE caller.at
  IN  /\ current_block' = top.saved
      /\ stack' = IF n = 0 THEN <<>>
                  ELSE Append(SubSeq(stack, 1, n - 1), [caller EXCEPT !.at = next])
      /\ UNCHANGED status

(***************************************************************************)
(* Return to the caller.  A block statement is over when its block is; an  *)
(* identifier or a declaration statement is looked at again, and finds its *)
(* declaration typed.                                                      *)
(***************************************************************************)
Return ==
  LET n      == Len(stack) - 1
      caller == stack[n]
      next   == IF top.unit \in Block THEN caller.at + 1 ELSE caller.at
  IN  /\ current_block' = top.saved
      /\ IF n = 0
         THEN stack' = <<>> /\ status' = "done"
         ELSE /\ stack' = Append(SubSeq(stack, 1, n - 1), [caller EXCEPT !.at = next])
              /\ UNCHANGED status

Call(u, block) ==
  /\ stack' = Append(stack,
       [unit |-> u, at |-> 1, saved |-> current_block,
        mark |-> Len(errors), type |-> "ok"])
  /\ current_block' = block
  /\ UNCHANGED status

(***************************************************************************)
(* A procedure has the type of its signature before its body is checked.   *)
(***************************************************************************)
TypedOnEntry(d) ==
  IF d \in prog.proc THEN [inferred EXCEPT ![d] = "ok"] ELSE inferred

(* Mutant: the identifier case does not switch current_block. *)
CheckDeclaration_CallersBlock(d, block) ==
  IF d \in entered
  THEN /\ status' = "assert"
       /\ UNCHANGED <<stack, current_block, entered, inferred>>
  ELSE /\ Call(d, current_block)
       /\ entered' = entered \cup {d}
       /\ inferred' = TypedOnEntry(d)

(* Mutant: nothing notices that the declaration is being checked. *)
CheckDeclaration_Reenters(d, block) ==
  /\ Call(d, block)
  /\ entered' = entered \cup {d}
  /\ inferred' = TypedOnEntry(d)

(* Mutant: a procedure has no type before its body has been checked. *)
CheckDeclaration_BodyFirst(d, block) ==
  IF d \in entered
  THEN /\ status' = "assert"
       /\ UNCHANGED <<stack, current_block, entered, inferred>>
  ELSE /\ Call(d, block)
       /\ entered' = entered \cup {d}
       /\ UNCHANGED inferred

(***************************************************************************)
(* typecheck(d) for a declaration whose initialiser has no type: the       *)
(* assert that no node is checked twice, then the declaration's own type,  *)
(* and for a procedure its signature's type before its body.               *)
(***************************************************************************)
CheckDeclaration(d, block) ==
  IF d \in entered
  THEN /\ status' = "assert"
       /\ UNCHANGED <<stack, current_block, entered, inferred>>
  ELSE /\ Call(d, block)
       /\ entered' = entered \cup {d}
       /\ inferred' = TypedOnEntry(d)

-----------------------------------------------------------------------------
VisitDeclaration ==
  /\ AtItem("decl")
  /\ LET d == items[top.at].decl
     IN  IF inferred[d] # "null"
         THEN /\ Advance("ok")  \* already checked out of order
              /\ UNCHANGED <<current_block, entered, inferred, status>>
         ELSE CheckDeclaration(d, current_block)
  /\ UNCHANGED <<prog, errors>>

VisitIdentifier ==
  /\ AtItem("use")
  /\ LET d == find_declaration(prog, current_block, items[top.at].name)
     IN  \/ /\ d = NoDecl
            /\ errors' = Append(errors, here)
            /\ Advance("poison")
            /\ UNCHANGED <<current_block, entered, inferred, status>>
         \/ /\ d # NoDecl
            /\ inferred[d] = "null"
            /\ CheckDeclaration(d, prog.home[d])
            /\ UNCHANGED errors
         \/ /\ d # NoDecl
            /\ inferred[d] # "null"
            /\ Advance(inferred[d])
            /\ UNCHANGED <<current_block, entered, inferred, errors, status>>
  /\ UNCHANGED prog

Poisoned(item) == IF item.poisons THEN "poison" ELSE "ok"

(* Mutant: an expression is poisoned and no error is reported. *)
Fail_Silent ==
  /\ AtItem("fail")
  /\ Advance(Poisoned(items[top.at]))
  /\ UNCHANGED <<prog, current_block, entered, inferred, errors, status>>

(***************************************************************************)
(* A typing rule is broken: TypeChecker::error.                            *)
(***************************************************************************)
Fail ==
  /\ AtItem("fail")
  /\ errors' = Append(errors, here)
  /\ Advance(Poisoned(items[top.at]))
  /\ UNCHANGED <<prog, current_block, entered, inferred, status>>

VisitBlock ==
  /\ AtItem("block")
  /\ Call(items[top.at].block, items[top.at].block)
  /\ UNCHANGED <<prog, entered, inferred, errors>>

(* Mutant: the block truncates to one error more than it should. *)
ErrorsAfter_KeepsFirst(b, mark) ==
  IF b \notin prog.expects THEN errors
  ELSE IF Len(errors) = mark THEN Append(errors, [unit |-> b, at |-> 0])
       ELSE SubSeq(errors, 1, mark + 1)

(* Mutant: the block clears the list, earlier errors included. *)
ErrorsAfter_Clears(b, mark) ==
  IF b \notin prog.expects THEN errors
  ELSE IF Len(errors) = mark THEN Append(errors, [unit |-> b, at |-> 0])
       ELSE <<>>

(***************************************************************************)
(* The errors left when block b ends.                                      *)
(***************************************************************************)
ErrorsAfter(b, mark) ==
  IF b \notin prog.expects THEN errors
  ELSE IF Len(errors) = mark THEN Append(errors, [unit |-> b, at |-> 0])
       ELSE SubSeq(errors, 1, mark)

LeaveBlock ==
  /\ AtEnd
  /\ top.unit \in Block
  /\ errors' = ErrorsAfter(top.unit, top.mark)
  /\ Return
  /\ UNCHANGED <<prog, entered, inferred>>

LeaveDeclaration ==
  /\ AtEnd
  /\ top.unit \in Decl
  /\ inferred' = IF top.unit \in prog.proc THEN inferred
                 ELSE [inferred EXCEPT ![top.unit] = top.type]
  /\ Return
  /\ UNCHANGED <<prog, entered, errors>>

(***************************************************************************)
(* typecheck(module): the module block, then run_compiler looks at errors. *)
(***************************************************************************)
Init ==
  /\ prog \in Programs
  /\ stack = <<[unit |-> prog.module, at |-> 1, saved |-> prog.module,
                mark |-> 0, type |-> "ok"]>>
  /\ current_block = prog.module
  /\ entered = {}
  /\ inferred = [d \in Decl |-> "null"]
  /\ errors = <<>>
  /\ status = "checking"

Next ==
  \/ VisitDeclaration
  \/ VisitIdentifier
  \/ Fail
  \/ VisitBlock
  \/ LeaveBlock
  \/ LeaveDeclaration

Spec == Init /\ [][Next]_vars

(***************************************************************************)
(* The checker is a single thread that runs until it returns or aborts.    *)
(***************************************************************************)
FairSpec == Spec /\ WF_vars(Next)

-----------------------------------------------------------------------------
(***************************************************************************)
(* Every variable has the type its C++ counterpart has.                    *)
(***************************************************************************)
TypeOK ==
  /\ prog \in Program /\ Registered(prog)
  /\ stack \in Seq(Frame)
  /\ current_block \in Block
  /\ entered \in SUBSET Decl
  /\ inferred \in [Decl -> {"null", "ok", "poison"}]
  /\ errors \in Seq(Site)
  /\ status \in {"checking", "done", "assert"}
  /\ status # "done" => stack # <<>>

(***************************************************************************)
(* An identifier is looked up in the block it is written in, however deep  *)
(* the chain of out-of-order checks that led to it: current_block is the   *)
(* lexical block of the unit being checked, and every frame restores that  *)
(* of its caller (SET_TEMPORARILY, typecheck.cpp:714 and 815).             *)
(***************************************************************************)
ScopeIsLexical ==
  status # "done" =>
    /\ current_block = Lexical(prog, top.unit)
    /\ \A i \in 2 .. Len(stack) : stack[i].saved = Lexical(prog, stack[i - 1].unit)

(***************************************************************************)
(* The error list never shrinks below the length a frame noted on entry,   *)
(* however the __error blocks of out-of-order checks nest, so that the     *)
(* resize at their end (typecheck.cpp:732) only ever takes errors away.    *)
(***************************************************************************)
MarksAscend ==
  \A j \in DOMAIN stack :
    /\ stack[j].mark <= Len(errors)
    /\ \A i \in 1 .. j : stack[i].mark <= stack[j].mark

(***************************************************************************)
(* No declaration is being checked twice at once.                          *)
(***************************************************************************)
NoReentry ==
  \A i, j \in DOMAIN stack :
    stack[i].unit \in Decl /\ stack[i].unit = stack[j].unit => i = j

(***************************************************************************)
(* The assert of typecheck.cpp:578 (no node is checked twice) fails only   *)
(* for a variable whose initialiser needs the variable itself: the active  *)
(* calls from that variable on are a cycle of Needs.  A procedure is never *)
(* on both ends, since its type is set before its body is checked.         *)
(***************************************************************************)
AssertMeansCycle ==
  status = "assert" =>
    \E k \in DOMAIN stack :
      /\ stack[k].unit \in Decl \ prog.proc
      /\ \A i \in k .. Len(stack) - 1 : Needs(prog, stack[i].unit, stack[i + 1].unit)
      /\ Needs(prog, top.unit, stack[k].unit)
-----------------------------------------------------------------------------
(***************************************************************************)
(* What a reader of the program expects to be reported, by recursion over  *)
(* its text and with no notion of an order: the units inside a unit, the   *)
(* items that break a rule, and for an __error("typecheck") block nothing  *)
(* if something inside it is wrong, and the block itself otherwise.        *)
(***************************************************************************)
Children(u) == {v \in Unit : \E i \in DOMAIN prog.items[u] : Contains(prog, u, i, v)}

Inside[u \in Unit] == {u} \cup UNION {Inside[v] : v \in Children(u)}

Breaks(u, i) ==
  LET item == prog.items[u][i]
  IN  \/ item.op = "fail"
      \/ item.op = "use" /\ find_declaration(prog, Lexical(prog, u), item.name) = NoDecl

OwnErrors(u) ==
  {s \in [unit : {u}, at : DOMAIN prog.items[u]] : Breaks(u, s.at)}

Report[u \in Unit] ==
  LET all == OwnErrors(u) \cup UNION {Report[v] : v \in Children(u)}
  IN  IF u \notin prog.expects THEN all
      ELSE IF all = {} THEN {[unit |-> u, at |-> 0]}
      ELSE {}

Raised == {errors[i] : i \in DOMAIN errors}

(***************************************************************************)
(* No identifier inside an __error block names a declaration outside it.   *)
(***************************************************************************)
SelfContained ==
  \A b \in prog.expects : \A u \in Inside[b] : \A i \in DOMAIN prog.items[u] :
    prog.items[u][i].op = "use" =>
      find_declaration(prog, Lexical(prog, u), prog.items[u][i].name) \in Inside[b] \cup {NoDecl}

(***************************************************************************)
(* Whatever the order the declarations are reached in, every broken rule   *)
(* is reported exactly once, and an __error block takes away the errors of *)
(* its own text and no others (typecheck.cpp:716-734) - provided nothing   *)
(* inside it reaches for a declaration outside.                            *)
(***************************************************************************)
ErrorsExact ==
  status = "done" /\ SelfContained =>
    /\ Raised = Report[prog.module]
    /\ \A i, j \in DOMAIN errors : errors[i] = errors[j] => i = j

(***************************************************************************)
(* A program without errors goes on to compile_to_ir (main.cpp): then      *)
(* every declaration outside the __error blocks, which the IR compiler     *)
(* skips, has a type that is not poison, which it asserts all over.        *)
(***************************************************************************)
AcceptedIsSound ==
  status = "done" /\ errors = <<>> /\ SelfContained =>
    \A d \in Inside[prog.module] \cap Decl :
      inferred[d] = "ok" \/ \E b \in prog.expects : d \in Inside[b]

(***************************************************************************)
(* The same with no proviso: "Not getting an expected error is also an     *)
(* error" (integration-tests/000-basics.fsl), so an accepted program has   *)
(* no ill-typed text outside its __error blocks.                           *)
(***************************************************************************)
AcceptedIsClean ==
  status = "done" /\ errors = <<>> => Report[prog.module] = {}

(***************************************************************************)
(* The checker returns or aborts: out-of-order checks cannot chase each    *)
(* other for ever.                                                         *)
(***************************************************************************)
Terminates == <>(status \in {"done", "assert"})
=============================================================================
