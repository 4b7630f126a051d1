------------------------------ MODULE Frontend ------------------------------
(***************************************************************************)
(* The middle of main.cpp: the tree that desugar returns goes through      *)
(* NodeConverter, and the nodes through DeclarationRegistrar.  Where       *)
(* either ends the program, nothing comes after it.                        *)
(***************************************************************************)
EXTENDS NodeConverter, Registrar

VARIABLE
  tree  \* the AstModule

frontend == <<tree, vars>>

FrontendInit ==
  /\ tree.kind = "module"
  /\ nodes = BuiltinTypes
  /\ stack = <<>>
  /\ current_block = Null
  /\ current_procedure = Null
  /\ declarations = {}
  /\ errors = {}
  /\ status = "parsed"

Convert ==
  /\ status = "parsed"
  /\ LET made == MakeNode(EmptyHeap, tree, Null)
     IN  /\ nodes' = made.nodes
         /\ IF made.status = "made"
            THEN status' = "visiting" /\ stack' = Start(made.at)
            ELSE status' = made.status /\ UNCHANGED stack
  /\ UNCHANGED <<tree, current_block, current_procedure, declarations, errors>>

Register == Next /\ UNCHANGED tree

FrontendNext == Convert \/ Register

FrontendSpec == FrontendInit /\ [][FrontendNext]_frontend

(* BlockNode::find_declaration (node.cpp): up the blocks, to Null. *)
RECURSIVE FindDeclaration(_, _)
FindDeclaration(block, name) ==
  LET found == {e \in declarations : e.block = block /\ e.name = name}
  IN  IF found # {} THEN (CHOOSE e \in found : TRUE).declaration
      ELSE IF nodes[block].parent # Null THEN FindDeclaration(nodes[block].parent, name)
      ELSE Null

=============================================================================
