------------------------------ MODULE OnDemand ------------------------------
(***************************************************************************)
(* How the IR compiler generates the procedures of a module                *)
(* (compile_ir.cpp): the statements of the module block one by one, and a  *)
(* procedure that is called before its turn on the spot, by an IrCompiler  *)
(* of its own, in the middle of its caller.  The stack holds the           *)
(* IrCompilers in existence, the one compile_to_ir makes first.            *)
(***************************************************************************)
EXTENDS CompiledModules

VARIABLES
  prog,       \* the module; never changes
  statement,  \* the loop of generate_code(BlockNode *) over the module block
  stack,      \* the IrCompilers, innermost last
  named,      \* declarations whose named_value is set
  functions,  \* the functions of the LLVM module, in order of creation
  body,       \* the instructions of each
  status      \* "running", "done", or "abort" once an ENSURE fails

vars == <<prog, statement, stack, named, functions, body, status>>

Compiler ==
  [proc   : Proc \cup {NoProc},  \* the declaration it generates, if any
   at     : Nat,                 \* the step of the text it has come to,
   need   : Nat,                 \*   and the call it begins there
   insert : Proc \cup {NoProc},  \* the function its insert point is in
   loops  : Nat]                 \* the size of current_prologue

Idle == [proc |-> NoProc, at |-> 1, need |-> 1, insert |-> NoProc, loops |-> 0]

-----------------------------------------------------------------------------
top == stack[Len(stack)]
text == prog.text[top.proc]
step == text[top.at]

Working == status = "running" /\ top.proc # NoProc
AtModule == status = "running" /\ top.proc = NoProc

SetTop(c) == stack' = [stack EXCEPT ![Len(stack)] = c]

(* Mutant: named_value is not set before the body is generated. *)
CreateFunction_Unnamed(p) ==
  /\ functions' = Append(functions, p)
  /\ UNCHANGED named

(***************************************************************************)
(* Function::Create: a declaration gets its named_value.                   *)
(***************************************************************************)
CreateFunction(p) ==
  /\ functions' = Append(functions, p)
  /\ named' = named \cup {p}

(* The insert point goes to the entry block of p. *)
Enter(c, p) == [c EXCEPT !.proc = p, !.at = 1, !.need = 1, !.insert = p]

(* Mutant: the callee is generated by the compiler of its caller. *)
NewCompiler_Callers(p) == Enter(top, p)

(* An IrCompiler of its own for a declaration compiled on demand. *)
NewCompiler(p) == Enter(Idle, p)

Fails(p) ==
  /\ prog.kind[p] = "variable"
  /\ status' = "abort"
  /\ UNCHANGED <<statement, stack, named, functions, body>>

(***************************************************************************)
(* The next statement of the module block, unless it has been compiled out *)
(* of order: generate_code of a declaration.                               *)
(***************************************************************************)
VisitStatement ==
  /\ AtModule
  /\ statement <= Len(prog.order)
  /\ LET p == prog.order[statement]
     IN  \/ /\ p \in named
            /\ statement' = statement + 1
            /\ UNCHANGED <<stack, named, functions, body, status>>
         \/ p \notin named /\ Fails(p)
         \/ /\ p \notin named
            /\ prog.kind[p] = "external"
            /\ CreateFunction(p)
            /\ statement' = statement + 1
            /\ UNCHANGED <<stack, body, status>>
         \/ /\ p \notin named
            /\ prog.kind[p] = "procedure"
            /\ CreateFunction(p)
            /\ SetTop(Enter(top, p))
            /\ UNCHANGED <<statement, body, status>>
  /\ UNCHANGED prog

(* Mutant: the callee is always generated. *)
BeginCall_Again ==
  /\ Working
  /\ top.at \in DOMAIN text
  /\ top.need \in DOMAIN step.needs
  /\ LET p == step.needs[top.need]
     IN  \/ Fails(p)
         \/ /\ prog.kind[p] = "external"
            /\ CreateFunction(p)
            /\ SetTop([top EXCEPT !.need = @ + 1])
            /\ UNCHANGED <<statement, body, status>>
         \/ /\ prog.kind[p] = "procedure"
            /\ CreateFunction(p)
            /\ stack' = Append(stack, NewCompiler(p))
            /\ UNCHANGED <<statement, body, status>>
  /\ UNCHANGED prog

(***************************************************************************)
(* A call begins: its procedure is compiled now if it has not been yet.    *)
(***************************************************************************)
BeginCall ==
  /\ Working
  /\ top.at \in DOMAIN text
  /\ top.need \in DOMAIN step.needs
  /\ LET p == step.needs[top.need]
     IN  \/ /\ p \in named
            /\ SetTop([top EXCEPT !.need = @ + 1])
            /\ UNCHANGED <<statement, named, functions, body, status>>
         \/ p \notin named /\ Fails(p)
         \/ /\ p \notin named
            /\ prog.kind[p] = "external"
            /\ CreateFunction(p)
            /\ SetTop([top EXCEPT !.need = @ + 1])
            /\ UNCHANGED <<statement, body, status>>
         \/ /\ p \notin named
            /\ prog.kind[p] = "procedure"
            /\ CreateFunction(p)
            /\ stack' = Append(stack, NewCompiler(p))
            /\ UNCHANGED <<statement, body, status>>
  /\ UNCHANGED prog

(* Mutant: a loop does not push its prologue. *)
LoopsNow_NoPush == IF step.op = "leave" THEN top.loops - 1 ELSE top.loops

(* A loop pushes its prologue, and takes it back at its end. *)
LoopsNow ==
  CASE step.op = "enter" -> top.loops + 1
    [] step.op = "leave" -> top.loops - 1
    [] OTHER             -> top.loops

(***************************************************************************)
(* A step of the text is emitted at the insert point, with the prologues   *)
(* of the compiler.                                                        *)
(***************************************************************************)
Emit ==
  /\ Working
  /\ top.at \in DOMAIN text
  /\ top.need \notin DOMAIN step.needs
  /\ body' = [body EXCEPT ![top.insert] = Append(@,
                [op |-> step.op, callee |-> step.callee, loops |-> top.loops])]
  /\ SetTop([top EXCEPT !.at = @ + 1, !.need = 1, !.loops = LoopsNow])
  /\ UNCHANGED <<prog, statement, named, functions, status>>

(* Mutant: a call is not finished when its procedure has been compiled. *)
EndProcedure_Stuck ==
  /\ Working
  /\ top.at \notin DOMAIN text
  /\ IF Len(stack) = 1
     THEN SetTop([top EXCEPT !.proc = NoProc]) /\ UNCHANGED statement
     ELSE UNCHANGED <<statement, stack>>
  /\ UNCHANGED <<prog, named, functions, body, status>>

(* Mutant: caller and callee share one insert point. *)
EndProcedure_SharedInsert ==
  /\ Working
  /\ top.at \notin DOMAIN text
  /\ LET n == Len(stack) - 1
     IN  IF n = 0
         THEN /\ SetTop([top EXCEPT !.proc = NoProc])
              /\ statement' = statement + 1
         ELSE /\ stack' = Append(SubSeq(stack, 1, n - 1),
                                 [stack[n] EXCEPT !.need = @ + 1, !.insert = top.insert])
              /\ UNCHANGED statement
  /\ UNCHANGED <<prog, named, functions, body, status>>

(***************************************************************************)
(* The end of a body: back to the module block, or to the call that asked  *)
(* for it.                                                                 *)
(***************************************************************************)
EndProcedure ==
  /\ Working
  /\ top.at \notin DOMAIN text
  /\ LET n == Len(stack) - 1
     IN  IF n = 0
         THEN /\ SetTop([top EXCEPT !.proc = NoProc])
              /\ statement' = statement + 1
         ELSE /\ stack' = Append(SubSeq(stack, 1, n - 1), [stack[n] EXCEPT !.need = @ + 1])
              /\ UNCHANGED statement
  /\ UNCHANGED <<prog, named, functions, body, status>>

EndModule ==
  /\ AtModule
  /\ statement > Len(prog.order)
  /\ status' = "done"
  /\ UNCHANGED <<prog, statement, stack, named, functions, body>>

Init ==
  /\ prog \in Modules
  /\ statement = 1
  /\ stack = <<Idle>>
  /\ named = {}
  /\ functions = <<>>
  /\ body = [p \in Proc |-> <<>>]
  /\ status = "running"

Next ==
  \/ VisitStatement
  \/ BeginCall
  \/ Emit
  \/ EndProcedure
  \/ EndModule

Spec == Init /\ [][Next]_vars

(***************************************************************************)
(* The compiler is a single thread that runs until it returns or aborts.   *)
(***************************************************************************)
FairSpec == Spec /\ WF_vars(Next)

-----------------------------------------------------------------------------
(***************************************************************************)
(* Every variable has the type its C++ counterpart has.                    *)
(***************************************************************************)
TypeOK ==
  /\ prog \in Module /\ WellFormed(prog)
  /\ statement \in Nat \ {0}
  /\ stack \in Seq(Compiler) /\ stack # <<>>
  /\ named \in SUBSET Proc
  /\ functions \in Seq(Proc)
  /\ body \in [Proc -> Seq(Instr)]
  /\ status \in {"running", "done", "abort"}

(***************************************************************************)
(* However calls and statements race for a procedure, it is created once:  *)
(* LLVM would rename a second function, and the callers of the first would *)
(* call an empty one (the named_value tests of compile_ir.cpp:418 and      *)
(* 659, and its setting before the body at 438).                           *)
(***************************************************************************)
FunctionsAreUnique ==
  \A i, j \in DOMAIN functions : functions[i] = functions[j] => i = j

(***************************************************************************)
(* A compiler emits into the procedure it generates and with the loops of  *)
(* that procedure, whatever was compiled in the middle of it: neither the  *)
(* insert point (which compile_ir.cpp:452 does not restore) nor            *)
(* current_prologue leaks from caller to callee or back.                   *)
(***************************************************************************)
InsertPointIsOwn ==
  \A i \in DOMAIN stack :
    LET c == stack[i]
    IN  c.proc # NoProc =>
          /\ c.insert = c.proc
          /\ c.loops = LoopsAt(prog.text[c.proc], c.at)

(***************************************************************************)
(* No two compilers in existence work at the same procedure, so that their *)
(* number, and with it the C++ stack, is bounded by that of the            *)
(* procedures.                                                             *)
(***************************************************************************)
OneCompilerEach ==
  \A i, j \in DOMAIN stack : stack[i].proc = stack[j].proc => i = j

Promise == INSTANCE EmitOnce WITH declared <- named, code <- body

(***************************************************************************)
(* The order procedures are compiled in does not show: each becomes one    *)
(* function with its text emitted once and in order, no call is emitted    *)
(* before its callee exists, and nothing is missing at the end             *)
(* (compile_ir.cpp:416-467, 654-691).                                      *)
(***************************************************************************)
Implements == Promise!Spec

(***************************************************************************)
(* Mutual recursion does not make the compiler chase its own tail.         *)
(***************************************************************************)
Terminates == <>(status \in {"done", "abort"})
=============================================================================
