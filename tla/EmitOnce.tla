------------------------------ MODULE EmitOnce ------------------------------
(***************************************************************************)
(* What the IR compiler promises of a module: every procedure becomes one  *)
(* function, its text is emitted once and in order, with the prologues of  *)
(* the loops it stands in and no others, and a call is only emitted to a   *)
(* function that exists.  In which order the procedures are begun and how  *)
(* their texts interleave is left open.                                    *)
(***************************************************************************)
EXTENDS CompiledModules

VARIABLES
  prog,      \* the module
  declared,  \* the functions that exist
  code,      \* what has been emitted into each
  status     \* "running", "done" or "abort"

vars == <<prog, declared, code, status>>

Complete(p) ==
  /\ p \in declared
  /\ prog.kind[p] = "procedure" => Len(code[p]) = Len(prog.text[p])

Init ==
  /\ prog \in Modules
  /\ declared = {}
  /\ code = [p \in Proc |-> <<>>]
  /\ status = "running"

Declare(p) ==
  /\ status = "running"
  /\ p \notin declared
  /\ prog.kind[p] # "variable"
  /\ declared' = declared \cup {p}
  /\ UNCHANGED <<prog, code, status>>

EmitNext(p) ==
  /\ status = "running"
  /\ p \in declared
  /\ prog.kind[p] = "procedure"
  /\ Len(code[p]) < Len(prog.text[p])
  /\ LET step == prog.text[p][Len(code[p]) + 1]
     IN  /\ step.op = "call" => step.callee \in declared
         /\ code' = [code EXCEPT ![p] = Append(@, InstrOf(step))]
  /\ UNCHANGED <<prog, declared, status>>

Finish ==
  /\ status = "running"
  /\ \A p \in Proc : Complete(p)
  /\ status' = "done"
  /\ UNCHANGED <<prog, declared, code>>

(* There are no global variables yet. *)
Abort ==
  /\ status = "running"
  /\ \E p \in Proc : prog.kind[p] = "variable"
  /\ status' = "abort"
  /\ UNCHANGED <<prog, declared, code>>

Next ==
  \/ \E p \in Proc : Declare(p) \/ EmitNext(p)
  \/ Finish
  \/ Abort

Spec == Init /\ [][Next]_vars
=============================================================================
