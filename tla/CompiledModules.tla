-------------------------- MODULE CompiledModules --------------------------
(***************************************************************************)
(* The modules compile_to_ir is given, as far as the order in which their  *)
(* procedures are generated depends on them (node.h).                      *)
(***************************************************************************)
EXTENDS Naturals, Sequences

CONSTANTS
  Proc,     \* the DeclarationNodes of the module block
  NoProc,   \* a nullptr
  Modules   \* the modules that may be compiled

Kind == {"procedure", "external", "variable"}

(***************************************************************************)
(* What is generated for a body, in order: the head of a loop, its end, a  *)
(* call, anything else.  Each step names the calls that generate_code      *)
(* begins since the step before: f(g()) is two calls, the first for g with *)
(* needs <<f, g>>, since f is looked at before its arguments, the second   *)
(* for f with none.  loops is the number of loops around the step, those   *)
(* that have a prologue.                                                   *)
(***************************************************************************)
Step ==
  [op     : {"enter", "leave", "call", "plain"},
   needs  : Seq(Proc),
   callee : Proc \cup {NoProc},
   loops  : Nat]

(* The instructions of a step, and the prologues that go with them. *)
Instr ==
  [op : {"enter", "leave", "call", "plain"}, callee : Proc \cup {NoProc}, loops : Nat]

InstrOf(step) == [op |-> step.op, callee |-> step.callee, loops |-> step.loops]

Module ==
  [order : Seq(Proc),        \* the statements of the module block
   kind  : [Proc -> Kind],   \* what init_expression is
   text  : [Proc -> Seq(Step)]]

LoopsAfter(step) ==
  CASE step.op = "enter" -> step.loops + 1
    [] step.op = "leave" -> step.loops - 1
    [] OTHER             -> step.loops

LoopsAt(text, i) == IF i \in DOMAIN text THEN text[i].loops ELSE 0

(***************************************************************************)
(* The loops of a text nest and end within it.                             *)
(***************************************************************************)
WellNested(text) ==
  /\ LoopsAt(text, 1) = 0
  /\ \A i \in DOMAIN text :
       /\ text[i].op = "leave" => text[i].loops > 0
       /\ LoopsAt(text, i + 1) = LoopsAfter(text[i])

(***************************************************************************)
(* generate_code(ProcedureCallNode) begins before it emits the call.       *)
(***************************************************************************)
CallsBegin(text) ==
  \A i \in DOMAIN text :
    text[i].op = "call" =>
      /\ text[i].callee \in Proc
      /\ \E j \in 1 .. i : \E k \in DOMAIN text[j].needs : text[j].needs[k] = text[i].callee

(***************************************************************************)
(* Every declaration is a statement of the module block: the checker has   *)
(* found each name there (procedures can only be defined at module scope). *)
(***************************************************************************)
WellFormed(m) ==
  /\ \A p \in Proc : WellNested(m.text[p]) /\ CallsBegin(m.text[p])
  /\ \A p \in Proc : \E i \in DOMAIN m.order : m.order[i] = p

ASSUME NoProcAssumption == NoProc \notin Proc
ASSUME ModulesAssumption == \A m \in Modules : m \in Module /\ WellFormed(m)
=============================================================================
