------------------------------ MODULE Registrar ------------------------------
(***************************************************************************)
(* DeclarationRegistrar (typecheck.cpp) walking over the nodes of a module *)
(* by ::visit (node.h).  A frame of the stack is a call of ::visit: the    *)
(* node, what is left to be visited below it, and the values that its      *)
(* SET_TEMPORARILY puts back into current_block and current_procedure.     *)
(***************************************************************************)
EXTENDS Nodes

VARIABLES
  nodes,              \* the nodes of the module, and of the labels' declarations
  stack,              \* the calls of ::visit, innermost last
  current_block, current_procedure,
  declarations,       \* the maps of all blocks: [block, name, declaration]
  errors,             \* the nodes an error has been reported for
  status              \* how far the program is

vars ==
  <<nodes, stack, current_block, current_procedure, declarations, errors, status>>

Frame(node, todo) ==
  [node |-> node, todo |-> todo, block |-> current_block, procedure |-> current_procedure]

-----------------------------------------------------------------------------
top     == stack[Len(stack)]
visited == Head(top.todo)
here    == nodes[visited]

Visiting(kinds) ==
  /\ status = "visiting"
  /\ top.todo # <<>>
  /\ visited \in DOMAIN nodes
  /\ here.kind \in kinds

(* ::visit goes through every link but the prologue of a loop. *)
Children(node) ==
  IF node.kind = "while_loop" THEN SubSeq(node.links, 1, 2) ELSE node.links

(* The call of ::visit for the visited node, with these values set. *)
Enter(block, procedure) ==
  /\ stack' = Append([stack EXCEPT ![Len(stack)].todo = Tail(@)],
                     Frame(visited, Children(here)))
  /\ current_block' = block
  /\ current_procedure' = procedure

(* unordered_map::emplace in the map of a block: what is there stays there. *)
Emplace(block, declaration, name) ==
  IF \E e \in declarations : e.block = block /\ e.name = name
  THEN errors' = errors \cup {visited} /\ UNCHANGED declarations
  ELSE /\ declarations' = declarations
                            \cup {[block |-> block, name |-> name, declaration |-> declaration]}
       /\ UNCHANGED errors

Stop(why) ==
  /\ status' = why
  /\ UNCHANGED <<nodes, stack, current_block, current_procedure, declarations, errors>>

VisitNull ==
  /\ status = "visiting"
  /\ top.todo # <<>>
  /\ visited \notin DOMAIN nodes
  /\ stack' = [stack EXCEPT ![Len(stack)].todo = Tail(@)]
  /\ UNCHANGED <<nodes, current_block, current_procedure, declarations, errors, status>>

IsLocalProcedure ==
  /\ nodes[here.links[2]].kind = "procedure"
  /\ nodes[current_block].parent # Null

(***************************************************************************)
(* An argument belongs to its procedure, which has registered it; a        *)
(* procedure that is not in the module block is reported and not           *)
(* registered, and visited all the same.                                   *)
(***************************************************************************)
VisitDeclaration ==
  /\ Visiting({"declaration"})
  /\ IF ~here.flag /\ current_block = Null THEN Stop("crashed")
     ELSE /\ nodes' = [nodes EXCEPT ![visited].parent = current_block]
          /\ IF here.flag THEN UNCHANGED <<declarations, errors>>
             ELSE IF IsLocalProcedure
             THEN errors' = errors \cup {visited} /\ UNCHANGED declarations
             ELSE Emplace(current_block, visited, here.name)
          /\ Enter(current_block, current_procedure)
          /\ UNCHANGED status

Body(procedure) == nodes[procedure].links[2]

(* Mutant: a label is registered in the block it stands in. *)
VisitLabel_InBlock ==
  /\ Visiting({"label"})
  /\ IF Full(nodes) THEN Stop("fatal")
     ELSE /\ nodes' = Append(nodes, NewDeclaration(here.name, <<LabelType, visited>>, FALSE))
          /\ Emplace(current_block, Len(nodes) + 1, here.name)
          /\ Enter(current_block, current_procedure)
          /\ UNCHANGED status

(***************************************************************************)
(* A label is registered for the whole body of its procedure, wherever it  *)
(* stands, by a declaration made here, which has no containing block.      *)
(***************************************************************************)
VisitLabel ==
  /\ Visiting({"label"})
  /\ IF Full(nodes) THEN Stop("fatal")
     ELSE IF current_procedure = Null \/ nodes[current_procedure].flag THEN Stop("crashed")
     ELSE /\ nodes' = Append(nodes, NewDeclaration(here.name, <<LabelType, visited>>, FALSE))
          /\ Emplace(Body(current_procedure), Len(nodes) + 1, here.name)
          /\ Enter(current_block, current_procedure)
          /\ UNCHANGED status

Arguments(procedure) ==
  LET signature == nodes[nodes[procedure].links[1]]
  IN  SubSeq(signature.links, 1, Len(signature.links) - 1)

NamedBefore(arguments, k) ==
  \/ \E e \in declarations : e.block = Body(visited) /\ e.name = nodes[arguments[k]].name
  \/ \E j \in 1 .. k - 1 : nodes[arguments[j]].name = nodes[arguments[k]].name

(* In the body of the procedure, before anything in there. *)
RegisterArguments(arguments) ==
  LET new == {k \in DOMAIN arguments : ~NamedBefore(arguments, k)}
  IN  /\ declarations' = declarations \cup
           {[block |-> Body(visited), name |-> nodes[arguments[k]].name,
             declaration |-> arguments[k]] : k \in new}
      /\ errors' = errors \cup {arguments[k] : k \in DOMAIN arguments \ new}

(* Mutant: procedures may nest. *)
VisitProcedure_NoAssert ==
  /\ Visiting({"procedure"})
  /\ IF here.flag THEN UNCHANGED <<declarations, errors>>
     ELSE RegisterArguments(Arguments(visited))
  /\ Enter(current_block, visited)
  /\ UNCHANGED <<nodes, status>>

(***************************************************************************)
(* ::visit asserts that procedures do not nest.  The signature is visited  *)
(* while the block around the procedure is current.                        *)
(***************************************************************************)
VisitProcedure ==
  /\ Visiting({"procedure"})
  /\ IF current_procedure # Null THEN Stop("asserted")
     ELSE /\ IF here.flag THEN UNCHANGED <<declarations, errors>>
             ELSE RegisterArguments(Arguments(visited))
          /\ Enter(current_block, visited)
          /\ UNCHANGED <<nodes, status>>

VisitBlock ==
  /\ Visiting({"block"})
  /\ Enter(visited, current_procedure)
  /\ UNCHANGED <<nodes, declarations, errors, status>>

VisitOther ==
  /\ Visiting(Kind \ {"declaration", "label", "procedure", "block"})
  /\ Enter(current_block, current_procedure)
  /\ UNCHANGED <<nodes, declarations, errors, status>>

(* Mutant: the procedure is not reset when it has been visited. *)
Leave_KeepsProcedure ==
  /\ status = "visiting"
  /\ top.todo = <<>>
  /\ stack' = SubSeq(stack, 1, Len(stack) - 1)
  /\ current_block' = top.block
  /\ status' = IF Len(stack) = 1 THEN "done" ELSE "visiting"
  /\ UNCHANGED <<nodes, current_procedure, declarations, errors>>

(* The end of a call of ::visit: ~TempSwap puts the old values back. *)
Leave ==
  /\ status = "visiting"
  /\ top.todo = <<>>
  /\ stack' = SubSeq(stack, 1, Len(stack) - 1)
  /\ current_block' = top.block
  /\ current_procedure' = top.procedure
  /\ status' = IF Len(stack) = 1 THEN "done" ELSE "visiting"
  /\ UNCHANGED <<nodes, declarations, errors>>

Next ==
  \/ VisitNull
  \/ VisitDeclaration
  \/ VisitLabel
  \/ VisitProcedure
  \/ VisitBlock
  \/ VisitOther
  \/ Leave

(***************************************************************************)
(* register_declarations(root), for nodes that NodeConverter may have      *)
(* made: the links are those the members of node.h allow.                  *)
(***************************************************************************)
IsA(n, kind) == n \in DOMAIN nodes /\ nodes[n].kind = kind

Links(n) == nodes[n].links

Shaped(n) ==
  /\ \A k \in DOMAIN Links(n) : Links(n)[k] \in {Null} \cup DOMAIN nodes
  /\ nodes[n].kind = "declaration" => Len(Links(n)) = 2 /\ Null \notin {Links(n)[1], Links(n)[2]}
  /\ nodes[n].kind = "while_loop" => Len(Links(n)) = 3
  /\ nodes[n].kind = "procedure" =>
       /\ Len(Links(n)) = 2
       /\ IsA(Links(n)[1], "procedure_signature")
       /\ IF nodes[n].flag THEN Links(n)[2] = Null ELSE IsA(Links(n)[2], "block")
  /\ nodes[n].kind = "procedure_signature" =>
       /\ Links(n) # <<>>
       /\ \A k \in 1 .. Len(Links(n)) - 1 : IsA(Links(n)[k], "declaration")

WellFormed ==
  /\ nodes \in Seq(Node)
  /\ Len(nodes) >= Len(BuiltinTypes)
  /\ \A n \in DOMAIN nodes : Shaped(n)

Start(root) == <<[node |-> Null, todo |-> <<root>>, block |-> Null, procedure |-> Null]>>

Init ==
  /\ WellFormed
  /\ \E root \in DOMAIN nodes : stack = Start(root)
  /\ current_block = Null
  /\ current_procedure = Null
  /\ declarations = {}
  /\ errors = {}
  /\ status = "visiting"

Spec == Init /\ [][Next]_vars

-----------------------------------------------------------------------------

NodesOf(kind) == {n \in DOMAIN nodes : nodes[n].kind = kind}

Address      == {Null} \cup DOMAIN nodes
BlockOrNull  == {Null} \cup NodesOf("block")
ProcOrNull   == {Null} \cup NodesOf("procedure")
Visits       == [node : Address, todo : Seq(Address), block : BlockOrNull, procedure : ProcOrNull]
Registration == [block : NodesOf("block"), name : STRING, declaration : NodesOf("declaration")]

TypeOK ==
  /\ WellFormed
  /\ stack \in Seq(Visits)
  /\ current_block \in BlockOrNull
  /\ current_procedure \in ProcOrNull
  /\ declarations \subseteq Registration
  /\ errors \subseteq DOMAIN nodes
  /\ status \in Status
  /\ status = "visiting" => stack # <<>>

(* x is the innermost node of this kind that the first depth calls of      *)
(* ::visit are in, or Null.                                                *)
Innermost(x, kind, depth) ==
  \/ x = Null /\ \A k \in 1 .. depth : ~IsA(stack[k].node, kind)
  \/ \E k \in 1 .. depth :
       /\ stack[k].node = x
       /\ IsA(x, kind)
       /\ \A j \in k + 1 .. depth : ~IsA(stack[j].node, kind)

(***************************************************************************)
(* current_block and current_procedure are those of the node visited, in   *)
(* whatever order calls of ::visit have set them and put them back.        *)
(***************************************************************************)
ContextIsInnermost ==
  /\ Innermost(current_block, "block", Len(stack))
  /\ Innermost(current_procedure, "procedure", Len(stack))

(***************************************************************************)
(* The assertion of ::visit fails only at a procedure that stands in the   *)
(* signature or the body of another one.                                   *)
(***************************************************************************)
AssertMeansNested ==
  status = "asserted" =>
    /\ IsA(visited, "procedure")
    /\ \E k \in DOMAIN stack : IsA(stack[k].node, "procedure")

==============================================================================
