---------------------------- MODULE NodeConverter ----------------------------
(***************************************************************************)
(* NodeConverter::make_node: from the desugared syntax tree to nodes, with *)
(* the factories of context.cpp.  A heap holds the nodes made so far, the  *)
(* address make_node returns, and "made", or how the program has ended:    *)
(* "fatal" for a full pool, "aborted" for a failed assert, "undefined" for *)
(* an array type, whose AstKind says that it is a type identifier          *)
(* (parse.h) and whose members are then read as if they were a token.      *)
(*                                                                         *)
(* make_node calls itself: this module is for TLC.                         *)
(***************************************************************************)
EXTENDS Syntax, Nodes, SequencesExt

EmptyHeap == [nodes |-> BuiltinTypes, at |-> Null, status |-> "made"]

ModuleOf(declarations) == [kind |-> "module", block |-> Block(declarations)]

(* What stands where the source says nothing. *)
OrNop(ast) == IF ast = None THEN [kind |-> "nop"] ELSE ast

(* operator new of the Context, which is MemoryPool::allocate. *)
Allocate(heap, node) ==
  IF heap.status # "made" THEN heap
  ELSE IF Full(heap.nodes) THEN [heap EXCEPT !.status = "fatal"]
  ELSE [heap EXCEPT !.nodes = Append(@, node), !.at = Len(heap.nodes) + 1]

RECURSIVE MakeNode(_, _, _)

(* Mutant: a block does not become the current one while its statements are made. *)
MakeBlock_Flat(heap, ast, current_block) ==
  LET block == Allocate(heap, [NewNode("block", ast.expects) EXCEPT !.parent = current_block])
      parts == FoldLeft(LAMBDA p, s : LET made == MakeNode(p.heap, s, current_block)
                                      IN  [heap |-> made, links |-> Append(p.links, made.at)],
                        [heap |-> block, links |-> <<>>], ast.statements)
  IN  IF parts.heap.status # "made" THEN parts.heap
      ELSE [parts.heap EXCEPT !.nodes[block.at].links = parts.links, !.at = block.at]

(* The nodes of several trees, one after the other. *)
MakeNodes(heap, asts, current_block) ==
  FoldLeft(LAMBDA p, ast : LET made == MakeNode(p.heap, ast, current_block)
                           IN  [heap |-> made, links |-> Append(p.links, made.at)],
           [heap |-> heap, links |-> <<>>], asts)

(* The block is made before its statements and is current while they are. *)
MakeBlock(heap, ast, current_block) ==
  LET block == Allocate(heap, [NewNode("block", ast.expects) EXCEPT !.parent = current_block])
      parts == MakeNodes(block, ast.statements, block.at)
  IN  IF parts.heap.status # "made" THEN parts.heap
      ELSE [parts.heap EXCEPT !.nodes[block.at].links = parts.links, !.at = block.at]

(* Mutant: a declaration without an initialiser shares the nop of its type. *)
MakeDeclaration_Shares(heap, ast, current_block) ==
  LET parts == MakeNodes(heap, <<OrNop(ast.type)>>, current_block)
      init  == IF ast.init = None THEN parts ELSE MakeNodes(parts.heap, <<ast.init>>, current_block)
  IN  Allocate(init.heap, NewDeclaration(ast.name, parts.links \o init.links, ast.argument))

(* Mutant: the type stays a nullptr. *)
MakeDeclaration_KeepsNull(heap, ast, current_block) ==
  LET parts == MakeNodes(heap, <<OrNop(ast.type), OrNop(ast.init)>>, current_block)
  IN  Allocate(parts.heap, NewDeclaration(ast.name, parts.links, ast.argument))

(* A type whose name is unknown is a nullptr, which make_declaration, after *)
(* a message, takes for a type left out.                                    *)
MakeDeclaration(heap, ast, current_block) ==
  LET parts == MakeNodes(heap, <<OrNop(ast.type), OrNop(ast.init)>>, current_block)
      nop   == Allocate(parts.heap, NewNode("nop", ""))
  IN  IF parts.links[1] # Null
      THEN Allocate(parts.heap, NewDeclaration(ast.name, parts.links, ast.argument))
      ELSE Allocate(nop, NewDeclaration(ast.name, <<nop.at, parts.links[2]>>, ast.argument))

(* The node of a kind the factories of context.cpp only fill in. *)
MakeInner(heap, ast, current_block, name, flag, asts) ==
  LET parts == MakeNodes(heap, asts, current_block)
  IN  Allocate(parts.heap, [NewNode(ast.kind, name) EXCEPT !.links = parts.links, !.flag = flag])

(* Here the factory first asserts that the type, the last link, is not nullptr. *)
MakeOfType(heap, ast, current_block, flag, asts) ==
  LET parts == MakeNodes(heap, asts, current_block)
  IN  IF parts.heap.status = "made" /\ Last(parts.links) = Null
      THEN [parts.heap EXCEPT !.status = "aborted"]
      ELSE MakeInner(heap, ast, current_block, "", flag, asts)

FindType(name) ==
  IF Contains(TypeNames, name) THEN SelectInSeq(TypeNames, LAMBDA n : n = name) ELSE Null

MakeNode(heap, ast, current_block) ==
  LET Leaf(kind, name)        == Allocate(heap, NewNode(kind, name))
      Inner(name, flag, asts) == MakeInner(heap, ast, current_block, name, flag, asts)
      OfType(flag, asts)      == MakeOfType(heap, ast, current_block, flag, asts)
  IN  IF heap.status # "made" THEN heap
      ELSE CASE ast.kind = "none"        -> [heap EXCEPT !.at = Null]
             [] ast.kind = "nop"         -> Leaf("nop", "")
             [] ast.kind = "module"      -> Inner("", FALSE, <<ast.block>>)
             [] ast.kind = "block"       -> MakeBlock(heap, ast, current_block)
             [] ast.kind = "declaration" -> MakeDeclaration(heap, ast, current_block)
             [] ast.kind \in {"identifier", "label", "goto_statement"} -> Leaf(ast.kind, ast.name)
             [] ast.kind = "literal"     -> Leaf("literal", ast.text)
             [] ast.kind \in {"break_statement", "continue_statement"} -> Leaf(ast.kind, "")
             [] ast.kind = "binary_operator" -> Inner(ast.op, FALSE, <<ast.lhs, ast.rhs>>)
             [] ast.kind = "if_statement" ->
                  Inner("", FALSE, <<ast.condition, ast.then, ast.else>>)
             [] ast.kind = "while_loop"  ->
                  Inner("", FALSE, <<ast.condition, ast.body, OrNop(ast.prologue)>>)
             [] ast.kind = "return_statement" -> Inner("", FALSE, <<OrNop(ast.expression)>>)
             [] ast.kind = "procedure"   ->
                  Inner("", ast.body = None, <<ast.signature, ast.body>>)
             [] ast.kind = "procedure_call" -> Inner("", FALSE, <<ast.procedure>> \o ast.arguments)
             [] ast.kind = "procedure_signature" ->
                  OfType(ast.vararg, Append(ast.arguments, ast.result))
             [] ast.kind = "pointer_type" -> OfType(FALSE, <<ast.target>>)
             [] ast.kind = "type_identifier" -> [heap EXCEPT !.at = FindType(ast.name)]
             [] ast.kind = "array_type"  -> [heap EXCEPT !.status = "undefined"]
             [] ast.kind = "for_loop"    -> [heap EXCEPT !.status = "aborted"]

==============================================================================
