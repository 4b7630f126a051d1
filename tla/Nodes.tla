-------------------------------- MODULE Nodes --------------------------------
(***************************************************************************)
(* The nodes the later phases work on (node.h) and where they live: the    *)
(* memory pool of the Context (memory_pool.cpp), which never gives a node  *)
(* back.  A Node * is an index into the sequence of all nodes, the static  *)
(* BuiltinTypes first; Null is nullptr.                                    *)
(***************************************************************************)
EXTENDS Naturals, Sequences

CONSTANT
  Capacity  \* the nodes the pool has room for; bytes are not told apart

ASSUME CapacityAssumption == Capacity \in Nat

Null == 0

Kind ==
  {"binary_operator", "block", "break_statement", "continue_statement", "declaration",
   "goto_statement", "identifier", "if_statement", "label", "literal", "module", "procedure",
   "procedure_call", "procedure_signature", "return_statement", "while_loop", "basic_type",
   "pointer_type", "nop"}

(***************************************************************************)
(* links holds the members that are Node * or vectors of them, in the      *)
(* order node.h declares them, save that a signature's return type is its  *)
(* last one.  The nodes of types, casts and arrays the parser cannot write *)
(* are left out.                                                           *)
(***************************************************************************)
Node ==
  [kind   : Kind,
   name   : STRING,    \* identifier, operator_kind, value, expected_compiler_error_kind
   links  : Seq(Nat),
   parent : Nat,       \* parent_block of a block, containing_block of a declaration
   flag   : BOOLEAN]   \* is_procedure_argument, is_external, is_vararg

NewNode(kind, name) ==
  [kind |-> kind, name |-> name, links |-> <<>>, parent |-> Null, flag |-> FALSE]

TypeNames ==
  <<"void", "i64", "i32", "i16", "i8", "u64", "u32", "u16", "u8", "f32", "f64", "bool",
    "type", "label", "poison">>
LabelType == 14

BuiltinTypes == [k \in 1 .. 15 |-> NewNode("basic_type", TypeNames[k])]

(* MemoryPool::allocate calls FATAL when the cursor would leave the pool. *)
Full(nodes) == Len(nodes) - Len(BuiltinTypes) >= Capacity

(* make_declaration, with its type and its initialiser. *)
NewDeclaration(name, links, argument) ==
  [kind |-> "declaration", name |-> name, links |-> links, parent |-> Null, flag |-> argument]

(* Before NodeConverter, in DeclarationRegistrar, behind it, or how the     *)
(* program has ended: FATAL, an assertion of the converter or of ::visit,   *)
(* an array type, a nullptr.                                                *)
Status ==
  {"parsed", "visiting", "done", "fatal", "aborted", "asserted", "undefined", "crashed"}

==============================================================================
