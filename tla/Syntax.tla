------------------------------- MODULE Syntax -------------------------------
(***************************************************************************)
(* The nodes of the syntax tree (parse.h).  A nullptr is None.  An omitted *)
(* argument below is a member the parser leaves at its default: prologue   *)
(* is set by desugar alone, expects and argument where the parser says so. *)
(***************************************************************************)

None == [kind |-> "none"]  \* nullptr

Identifier(name)              == [kind |-> "identifier", name |-> name]
Literal(text)                 == [kind |-> "literal", text |-> text]
BinaryOperator(op, lhs, rhs)  == [kind |-> "binary_operator", op |-> op, lhs |-> lhs, rhs |-> rhs]
Call(procedure, arguments)    ==
  [kind |-> "procedure_call", procedure |-> procedure, arguments |-> arguments]
Signature(arguments, vararg, result) ==
  [kind |-> "procedure_signature", arguments |-> arguments, vararg |-> vararg, result |-> result]
Procedure(signature, body)    == [kind |-> "procedure", signature |-> signature, body |-> body]
TypeIdentifier(name)          == [kind |-> "type_identifier", name |-> name]
PointerType(target)           == [kind |-> "pointer_type", target |-> target]
ArrayType(length, element)    == [kind |-> "array_type", length |-> length, element |-> element]
Declaration(name, type, init) ==
  [kind |-> "declaration", name |-> name, type |-> type, init |-> init, argument |-> FALSE]
Block(statements)             == [kind |-> "block", statements |-> statements, expects |-> "none"]
If(condition, then, else)     ==
  [kind |-> "if_statement", condition |-> condition, then |-> then, else |-> else]
While(condition, body)        ==
  [kind |-> "while_loop", condition |-> condition, body |-> body, prologue |-> None]
For(name, begin, cmp, end, step, body) ==
  [kind |-> "for_loop", name |-> name, begin |-> begin, cmp |-> cmp, end |-> end,
   step |-> step, body |-> body]
Return(expression)            == [kind |-> "return_statement", expression |-> expression]
Label(name)                   == [kind |-> "label", name |-> name]
Goto(name)                    == [kind |-> "goto_statement", name |-> name]
Break                         == [kind |-> "break_statement"]
Continue                      == [kind |-> "continue_statement"]

=============================================================================
