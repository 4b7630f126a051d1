----------------------------- MODULE MCFrontend -----------------------------
(***************************************************************************)
(* Modules for Frontend, and what the nodes and the declarations should    *)
(* be, read off the tree and off the links between the nodes.              *)
(***************************************************************************)
EXTENDS Frontend, TLC

-----------------------------------------------------------------------------
(* Trees: a procedure f of two statements and a variable; two procedures;  *)
(* what ends the program; procedures at every place of the module block.   *)

A == Identifier("a")
I32 == TypeIdentifier("i32")
Argument(name, type, init) == [Declaration(name, type, init) EXCEPT !.argument = TRUE]
Void == Signature(<<>>, FALSE, TypeIdentifier("void"))
Inner == Procedure(Void, Block(<<>>))
Loop(body) == [While(A, body) EXCEPT !.prologue = BinaryOperator("=", A, A)]

Signatures ==
  {Void,
   Signature(<<Argument("a", I32, None), Argument("b", None, A)>>, FALSE, I32),
   Signature(<<Argument("a", I32, None), Argument("a", PointerType(I32), None)>>, TRUE, I32),
   Signature(<<Argument("a", Signature(<<Argument("b", I32, None)>>, FALSE, I32), None)>>,
             FALSE, PointerType(I32))}

Statements ==
  {A, Label("a"), Declaration("a", I32, None), Declaration("b", TypeIdentifier("c"), A),
   Declaration("b", None, Inner), Return(None), Return(Call(A, <<Identifier("b")>>)), Break,
   Block(<<Declaration("a", None, A), A>>), Block(<<Block(<<Label("a")>>), A>>),
   If(A, Block(<<Label("b")>>), None), If(A, Block(<<Goto("b")>>), Block(<<Continue>>)),
   Loop(Block(<<Declaration("b", None, Literal("1"))>>)),
   [Block(<<Declaration("a", None, A)>>) EXCEPT !.expects = "typecheck"]}

(* One of each is enough for what ends the program. *)
Ends ==
  {Return(Inner), Declaration("b", PointerType(TypeIdentifier("c")), None),
   Declaration("b", Signature(<<>>, FALSE, TypeIdentifier("c")), None),
   Declaration("b", ArrayType(A, I32), None), For("b", A, "<", A, None, Block(<<>>))}

F(signature, statements) == Declaration("f", None, Procedure(signature, Block(statements)))
X(init) == Declaration("a", None, init)

Programs ==
  \/ \E signature \in Signatures, s1, s2 \in Statements :
       tree = ModuleOf(<<F(signature, <<s1, s2>>), X(Literal("1"))>>)
  \/ \E s1, s2 \in Statements :
       tree = ModuleOf(<<F(Void, <<s1>>), X(Procedure(Void, Block(<<s2>>)))>>)
  \/ \E s \in Ends : tree = ModuleOf(<<F(Void, <<s>>)>>)
  \/ \E signature \in Signatures, init \in {Inner, Procedure(Void, None), Call(Inner, <<>>), A} :
       \E module \in
            {<<X(init), Declaration("f", signature, None)>>, <<X(init), X(A)>>,
             <<Declaration("f", None, Procedure(signature, None)), X(A)>>,
             <<F(Signature(<<Argument("c", None, init)>>, FALSE, I32), <<A>>)>>} :
         tree = ModuleOf(module)

MCInit == Programs /\ FrontendInit
MCSpec == MCInit /\ [][FrontendNext]_frontend

-----------------------------------------------------------------------------
(* The tree, generically: its parts in the order of a node's links. *)

Slots(ast) ==
  CASE ast.kind = "module"              -> <<ast.block>>
    [] ast.kind = "block"               -> ast.statements
    [] ast.kind = "declaration"         -> <<ast.type, ast.init>>
    [] ast.kind = "binary_operator"     -> <<ast.lhs, ast.rhs>>
    [] ast.kind = "if_statement"        -> <<ast.condition, ast.then, ast.else>>
    [] ast.kind = "while_loop"          -> <<ast.condition, ast.body, ast.prologue>>
    [] ast.kind = "return_statement"    -> <<ast.expression>>
    [] ast.kind = "procedure"           -> <<ast.signature, ast.body>>
    [] ast.kind = "procedure_call"      -> <<ast.procedure>> \o ast.arguments
    [] ast.kind = "procedure_signature" -> Append(ast.arguments, ast.result)
    [] ast.kind = "pointer_type"        -> <<ast.target>>
    [] ast.kind = "array_type"          -> <<ast.length, ast.element>>
    [] OTHER                            -> <<>>

RECURSIVE Subtrees(_)
Subtrees(ast) ==  \* as a sequence: equal ones are counted
  FoldLeft(LAMBDA trees, part : trees \o Subtrees(part), <<ast>>, Slots(ast))

Unknown(ast) == ast.kind = "type_identifier" /\ ~Contains(TypeNames, ast.name)

(* Where a member is left out and is a nullptr; elsewhere it is a nop. *)
MayLack(ast) == ast.kind \in {"if_statement", "procedure"}

Weight(ast) ==
  LET Omitted(part) == part = None \/ (ast.kind = "declaration" /\ Unknown(part))
  IN  CASE ast.kind \in {"none", "type_identifier"} -> 0
        [] ast.kind = "label" -> 2  \* and its declaration
        [] MayLack(ast)       -> 1
        [] OTHER              -> 1 + Len(SelectSeq(Slots(ast), Omitted))
Needed == FoldLeft(LAMBDA sum, ast : sum + Weight(ast), 0, Subtrees(tree))

Some(P(_)) == \E ast \in Range(Subtrees(tree)) : P(ast)
Nested == Some(LAMBDA ast : ast.kind = "procedure"
                 /\ \E inner \in Range(Tail(Subtrees(ast))) : inner.kind = "procedure")
Unresolved == Some(LAMBDA ast : \/ ast.kind = "pointer_type" /\ Unknown(ast.target)
                                \/ ast.kind = "procedure_signature" /\ Unknown(ast.result)
                                \/ ast.kind = "for_loop")
HasArray == Some(LAMBDA ast : ast.kind = "array_type")

-----------------------------------------------------------------------------
(* The nodes, by their links alone. *)

IsLabelDeclaration(d) == IsA(nodes[d].links[2], "label")

(* The declaration made for a label links to it and is not above it. *)
Up(n) ==
  CHOOSE m \in DOMAIN nodes :
    /\ \E k \in DOMAIN nodes[m].links : nodes[m].links[k] = n
    /\ nodes[m].kind = "declaration" => ~IsLabelDeclaration(m)

RECURSIVE Around(_, _)
Around(n, kind) ==
  IF nodes[n].kind = "module" THEN Null
  ELSE IF nodes[Up(n)].kind = kind THEN Up(n) ELSE Around(Up(n), kind)

NameOf(ast) ==
  CASE ast.kind \in {"identifier", "label", "goto_statement", "declaration"} -> ast.name
    [] ast.kind = "literal"         -> ast.text
    [] ast.kind = "binary_operator" -> ast.op
    [] ast.kind = "block"           -> ast.expects
    [] OTHER                        -> ""
FlagOf(ast) ==
  CASE ast.kind = "declaration"         -> ast.argument
    [] ast.kind = "procedure"           -> ast.body = None
    [] ast.kind = "procedure_signature" -> ast.vararg
    [] OTHER                            -> FALSE

RECURSIVE Same(_, _)
Same(ast, n) ==
  IF ast.kind = "type_identifier"
  THEN nodes[n].kind = "basic_type" /\ nodes[n].name = ast.name
  ELSE LET node  == nodes[n]
           slots == Slots(ast)
       IN  /\ node.kind = ast.kind
           /\ node.name = NameOf(ast)
           /\ node.flag = FlagOf(ast)
           /\ Len(node.links) = Len(slots)
           /\ \A k \in DOMAIN slots :
                IF slots[k] = None /\ MayLack(ast) THEN node.links[k] = Null
                ELSE IF slots[k] = None \/ Unknown(slots[k])
                THEN IsA(node.links[k], "nop")
                ELSE Same(slots[k], node.links[k])

(***************************************************************************)
(* NodeConverter keeps the tree: what is handed to the registrar has the   *)
(* module's shape, names and marks, a nop for whatever was left out where  *)
(* later phases do not ask, and in each block the block directly around    *)
(* it.  No node but a built-in type is in two places.                      *)
(***************************************************************************)
HeapIsTheTree ==
  status = "visiting" /\ Len(stack) = 1 /\ top.todo # <<>> =>
    /\ Same(tree, visited)
    /\ \A n \in NodesOf("block") : nodes[n].parent = Around(n, "block")
    /\ \A n \in DOMAIN nodes \ DOMAIN BuiltinTypes :
         Cardinality({<<m, k>> \in (DOMAIN nodes) \X (1 .. 4) :
                        k \in DOMAIN nodes[m].links /\ nodes[m].links[k] = n})
           = IF n = visited THEN 0 ELSE 1

(***************************************************************************)
(* The program ends early for the reasons given and for no other, and      *)
(* otherwise with a node for each part of the tree, one for each part left *)
(* out and one for the declaration of each label.                          *)
(***************************************************************************)
OutcomeIsForetold ==
  CASE status = "fatal"     -> Needed > Capacity
    [] status = "aborted"   -> Unresolved
    [] status = "undefined" -> HasArray
    [] status = "asserted"  -> Nested
    [] status = "crashed"   -> FALSE
    [] status = "done"      -> /\ ~Unresolved /\ ~HasArray /\ ~Nested
                               /\ Len(nodes) = Len(BuiltinTypes) + Needed
                               /\ Needed <= Capacity
    [] OTHER                -> TRUE

-----------------------------------------------------------------------------
(* Who names what.  A node that comes earlier in the source has a smaller  *)
(* address, blocks apart.                                                  *)

(* What names something, in the block Scope: Null for an argument that has *)
(* no body to be seen in.                                                  *)
Naming == {d \in NodesOf("declaration") : ~IsLabelDeclaration(d)} \cup NodesOf("label")

Scope(d) ==
  IF IsA(d, "label") THEN Body(Around(d, "procedure"))
  ELSE IF ~nodes[d].flag THEN Up(d)
  ELSE IF IsA(Up(Up(d)), "procedure") THEN Body(Up(Up(d))) ELSE Null

First(b, name) ==
  LET candidates == {d \in Naming : nodes[d].name = name /\ Scope(d) = b}
  IN  IF candidates = {} THEN Null ELSE Min(candidates)

Source(d) == IF IsLabelDeclaration(d) THEN nodes[d].links[2] ELSE d

(***************************************************************************)
(* Of those that name the same thing in a block, the first in the source   *)
(* is registered, arguments before everything in the body and labels with  *)
(* the body of their procedure, and an error is reported for each other.   *)
(***************************************************************************)
NamesAreExact ==
  status = "done" =>
    LET named == {d \in Naming : Scope(d) # Null}
        first == {d \in named : First(Scope(d), nodes[d].name) = d}
    IN  /\ {<<e.block, e.name, Source(e.declaration)>> : e \in declarations}
             = {<<Scope(d), nodes[d].name, d>> : d \in first}
        /\ errors = named \ first

RECURSIVE Lexical(_, _)
Lexical(b, name) ==
  IF b = Null THEN Null
  ELSE IF First(b, name) # Null THEN First(b, name) ELSE Lexical(Around(b, "block"), name)

(***************************************************************************)
(* In a module without errors an identifier is found in the innermost      *)
(* block around it that names it; and its declaration knows the block it   *)
(* stands in, save that for an argument this is the block around the       *)
(* procedure, where its initialiser may look, and for a label there is     *)
(* none.                                                                   *)
(***************************************************************************)
ResolvesLexically ==
  status = "done" /\ errors = {} =>
    \A n \in NodesOf("identifier") :
      LET b == Around(n, "block")
          d == FindDeclaration(b, nodes[n].name)
      IN  IF d = Null THEN Lexical(b, nodes[n].name) = Null
          ELSE /\ Source(d) = Lexical(b, nodes[n].name)
               /\ nodes[d].parent = IF IsLabelDeclaration(d) THEN Null ELSE Around(d, "block")

(***************************************************************************)
(* A procedure that has been reported as defined inside of a block does    *)
(* not also fail the assertion of node.h that procedures do not nest: the  *)
(* error is there to be printed.                                           *)
(***************************************************************************)
LocalProceduresAreReported == status = "asserted" => top.node \notin errors

=============================================================================
