------------------------------- MODULE Parser -------------------------------
(***************************************************************************)
(* parse.cpp: from tokens to the syntax tree.  A Parser is a position in   *)
(* the sequence of tokens.  A parse function returns where it stopped and  *)
(* the node it built; the code says "nothing parsed" by returning a parser *)
(* that has not advanced (Parser::advance), which is position 0 here, from *)
(* which nothing can be parsed.  Messages are left out.                    *)
(*                                                                         *)
(* The parse functions call each other.  A call across the grammar goes    *)
(* through P, P[rule, i] being what the parse function of rule returns at  *)
(* i; Parse, below, is the P they are run with.  For TLC only: the loops   *)
(* of the parse functions are RECURSIVE.                                   *)
(***************************************************************************)
EXTENDS Lexer, Syntax

CONSTANT
  BadLiterals  \* number and string tokens that fail to convert: an escape that is
               \*   unknown, digits that strtod or from_chars does not read to the end

VARIABLES
  source,      \* the file
  tokens,      \* its tokens, Tokens(source)
  at,          \* the parser of parse_module: index of the next token
  module,      \* the declarations parsed so far
  status       \* "parsing", "accepted" or "rejected"

vars == <<source, tokens, at, module, status>>

-----------------------------------------------------------------------------
(* The members of Parser. *)

Token(i) == IF i = 0 THEN [type |-> "none", text |-> ""] ELSE tokens[i]

PeekToken(i) == Token(i).type  \* a comment is a token like any other

(* Where next_token finds its token: behind the comments. *)
NextTokenAt(i) ==
  IF i = 0 THEN 0
  ELSE CHOOSE j \in i .. Len(tokens) :
         tokens[j].type # "comment" /\ \A k \in i .. j - 1 : tokens[k].type = "comment"

Nothing         == [at |-> 0, node |-> None]
Parsed(i, node) == IF i = 0 THEN Nothing ELSE [at |-> i, node |-> node]

(* parse_token and parse_keyword: the text of the token as the node. *)
Expect(i, type) ==
  LET j == NextTokenAt(i)
  IN  IF Token(j).type = type THEN Parsed(j + 1, Token(j).text) ELSE Nothing

a | b == IF a.at # 0 THEN a ELSE b

Precedence(op) ==
  CASE op \in {"*", "/", "%"}        -> 110
    [] op \in {"+", "-"}             -> 100
    [] op \in {"<<", ">>"}           -> 90
    [] op \in {"<", ">", "<=", ">="} -> 80
    [] op \in {"==", "!="}           -> 70
    [] op = "&"                      -> 50
    [] op = "^"                      -> 40
    [] op = "|"                      -> 30
    [] op = "&&"                     -> 20
    [] op = "||"                     -> 10
    [] op = "="                      -> 5
    [] OTHER                         -> 0

RECURSIVE ParseBinaryExpr(_, _, _), ParseOperators(_, _, _)
RECURSIVE ParseArguments(_, _, _), ParseParameters(_, _, _), ParseStatements(_, _, _)

-----------------------------------------------------------------------------
(* Expressions. *)

(* What follows the opening parenthesis of a call, a trailing comma included. *)
ParseArguments(P, i, arguments) ==
  LET close    == Expect(i, ")")
      argument == P["expr", i]
      comma    == Expect(argument.at, ",")
      more     == Append(arguments, argument.node)
  IN  Parsed(close.at, arguments)
      | IF comma.at # 0 THEN ParseArguments(P, comma.at, more)
        ELSE Parsed(Expect(argument.at, ")").at, more)

(* Mutant: an opening parenthesis behind a comment starts no call. *)
ParseExpressionSuffix_Peeks(P, i, lhs) ==
  LET arguments == IF PeekToken(i) = "(" THEN ParseArguments(P, i + 1, <<>>) ELSE Nothing
  IN  Parsed(arguments.at, Call(lhs, arguments.node))

(* One call: there is none of the result of a call. *)
ParseExpressionSuffix(P, i, lhs) ==
  LET open      == Expect(i, "(")
      arguments == IF open.at = 0 THEN Nothing ELSE ParseArguments(P, open.at, <<>>)
  IN  Parsed(arguments.at, Call(lhs, arguments.node))

(* proc(...) and a type; what follows "(" is read like arguments. *)
ParseParameters(P, i, parameters) ==
  LET close == Expect(i, ")")
      dots  == Expect(i, "...")
      decl  == P["decl", i]
      comma == Expect(decl.at, ",")
      more  == Append(parameters, [decl.node EXCEPT !.argument = TRUE])
  IN  Parsed(close.at, Signature(parameters, FALSE, None))
      | IF dots.at # 0 THEN Parsed(Expect(dots.at, ")").at, Signature(parameters, TRUE, None))
        ELSE IF comma.at # 0 THEN ParseParameters(P, comma.at, more)
        ELSE Parsed(Expect(decl.at, ")").at, Signature(more, FALSE, None))

ParseProcSignature(P, i) ==
  LET open == Expect(Expect(i, "proc").at, "(")
      list == IF open.at = 0 THEN Nothing ELSE ParseParameters(P, open.at, <<>>)
      type == P["type", list.at]
  IN  Parsed(type.at, [list.node EXCEPT !.result = type.node])

ParseProc(P, i) ==
  LET signature == ParseProcSignature(P, i)
      external  == Expect(signature.at, "external")
      body      == P["body", signature.at]
  IN  Parsed(external.at, Procedure(signature.node, None))
      | Parsed(body.at, Procedure(signature.node, body.node))

Converts(literal) == literal.text \notin BadLiterals

ParsePrimaryExpr(P, i) ==
  LET j     == NextTokenAt(i)
      token == Token(j)
      inner == P["expr", j + 1]
  IN  CASE token.type \in {"number", "string"} ->
             IF Converts(token) THEN Parsed(j + 1, Literal(token.text)) ELSE Nothing
        [] token.type = "identifier"      -> Parsed(j + 1, Identifier(token.text))
        [] token.type \in {"true", "false"} -> Parsed(j + 1, Literal(token.text))
        [] token.type = "("               -> Parsed(Expect(inner.at, ")").at, inner.node)
        [] token.type = "proc"            -> ParseProc(P, i)
        [] OTHER                          -> Nothing

(* Mutant: operators of the same level associate to the right. *)
ParseOperators_ToTheRight(P, lhs, prevPrec) ==
  LET op   == PeekToken(lhs.at)
      prec == Precedence(op)
      rhs  == ParseBinaryExpr(P, NextTokenAt(lhs.at) + 1, prec - 1)
  IN  IF prec = 0 \/ prec <= prevPrec THEN lhs
      ELSE ParseOperators(P, Parsed(rhs.at, BinaryOperator(op, lhs.node, rhs.node)), prevPrec)

(***************************************************************************)
(* Precedence climbing: lhs has been parsed and takes the operators that   *)
(* bind more strongly than the one to its left.  The operator is only      *)
(* peeked at, so a comment before it ends the expression.                  *)
(***************************************************************************)
ParseOperators(P, lhs, prevPrec) ==
  LET op   == PeekToken(lhs.at)
      prec == Precedence(op)
      rhs  == ParseBinaryExpr(P, NextTokenAt(lhs.at) + 1, prec)
  IN  IF prec = 0 \/ prec <= prevPrec THEN lhs
      ELSE ParseOperators(P, Parsed(rhs.at, BinaryOperator(op, lhs.node, rhs.node)), prevPrec)

ParseBinaryExpr(P, i, prevPrec) ==
  LET primary == ParsePrimaryExpr(P, i)
  IN  ParseOperators(P, ParseExpressionSuffix(P, primary.at, primary.node) | primary, prevPrec)

-----------------------------------------------------------------------------
(* Types and declarations. *)

ParseType(P, i) ==
  LET j       == NextTokenAt(i)
      type    == Token(j).type
      target  == P["type", j + 1]
      length  == P["expr", j + 1]
      element == P["type", Expect(length.at, "]").at]
  IN  CASE type = "identifier" -> Parsed(j + 1, TypeIdentifier(Token(j).text))
        [] type = "*"          -> Parsed(target.at, PointerType(target.node))
        [] type = "["          -> Parsed(element.at, ArrayType(length.node, element.node))
        [] type = "proc"       -> ParseProcSignature(P, i)
        [] OTHER               -> Nothing

(* Mutant: the initialiser of a declaration with a type is parsed and dropped. *)
ParseDecl_DropsInit(P, i) ==
  LET name   == Expect(i, "identifier")
      colon  == Expect(name.at, ":")
      type   == P["type", colon.at] | Parsed(colon.at, None)
      init   == P["expr", Expect(type.at, "=").at]
  IN  Parsed(init.at, Declaration(name.node, type.node,
                                  IF type.node = None THEN init.node ELSE None))
      | Parsed(type.at, Declaration(name.node, type.node, None))

(* A declaration with neither a type nor an initialiser is complained about *)
(* and parsed all the same.                                                 *)
ParseDecl(P, i) ==
  LET name   == Expect(i, "identifier")
      colon  == Expect(name.at, ":")
      type   == P["type", colon.at] | Parsed(colon.at, None)
      assign == Expect(type.at, "=")
      init   == P["expr", assign.at]
  IN  IF assign.at # 0 THEN Parsed(init.at, Declaration(name.node, type.node, init.node))
      ELSE Parsed(type.at, Declaration(name.node, type.node, None))

-----------------------------------------------------------------------------
(* Statements, each from behind its keyword. *)

ParseIf(P, i) ==
  LET condition == P["expr", i]
      then      == P["body", condition.at]
      else      == Expect(then.at, "else")
      other     == P["body", else.at]
  IN  IF else.at = 0 THEN Parsed(then.at, If(condition.node, then.node, None))
      ELSE Parsed(other.at, If(condition.node, then.node, other.node))

ParseWhile(P, i) ==
  LET condition == P["expr", i]
      body      == P["body", condition.at]
  IN  Parsed(body.at, While(condition.node, body.node))

(* The colon that stands for a missing range begin is read and then asked  *)
(* for again.                                                              *)
ParseFor(P, i) ==
  LET name    == Expect(i, "identifier")
      noBegin == Expect(name.at, ":")
      begin   == Parsed(noBegin.at, None) | P["expr", name.at]
      cmp     == NextTokenAt(Expect(begin.at, ":").at)
      end     == IF Token(cmp).type \in {"<", "<=", ">", ">="} THEN P["expr", cmp + 1] ELSE Nothing
      colon   == Expect(end.at, ":")
      step    == IF colon.at # 0 THEN P["expr", colon.at] ELSE Parsed(end.at, None)
      body    == P["body", step.at]
  IN  Parsed(body.at, For(name.node, begin.node, Token(cmp).type, end.node, step.node, body.node))

(* Whatever expression comes next is returned, on the next line or not. *)
ParseReturn(P, i) ==
  LET expression == P["expr", i]
  IN  Parsed(expression.at, Return(expression.node)) | Parsed(i, Return(None))

(* __error("declaration") or __error("typecheck") and a block. *)
ParseCompilerErrorBlock(P, i) ==
  LET name  == Expect(i, "identifier")
      mode  == Expect(Expect(name.at, "(").at, "string")
      block == P["block", Expect(mode.at, ")").at]
  IN  IF /\ name.at # 0 /\ name.node = "__error"
         /\ mode.at # 0 /\ mode.node \in {"\"declaration\"", "\"typecheck\""}
      THEN Parsed(block.at, [block.node EXCEPT !.expects = mode.node])
      ELSE Nothing

ParseStatement(P, i) ==
  LET decl == P["decl", i]
      word == Token(NextTokenAt(i)).type
      j    == NextTokenAt(i) + 1
      name == Expect(j, "identifier")
  IN  IF i = 0 THEN Nothing
      ELSE IF decl.at # 0 THEN decl
      ELSE CASE word = "if"       -> ParseIf(P, j)
             [] word = "while"    -> ParseWhile(P, j)
             [] word = "for"      -> ParseFor(P, j)
             [] word = "break"    -> Parsed(j, Break)
             [] word = "continue" -> Parsed(j, Continue)
             [] word = "return"   -> ParseReturn(P, j)
             [] word = ":"        -> Parsed(name.at, Label(name.node))
             [] word = "goto"     -> Parsed(name.at, Goto(name.node))
             [] OTHER -> P["block", i] | ParseCompilerErrorBlock(P, i) | P["expr", i]

(* Up to the closing brace. *)
ParseStatements(P, i, statements) ==
  LET close     == Expect(i, "}")
      statement == P["statement", i]
  IN  IF close.at # 0 THEN Parsed(close.at, Block(statements))
      ELSE IF statement.at = 0 THEN Nothing
      ELSE ParseStatements(P, statement.at, Append(statements, statement.node))

(* A single statement may stand for a block where raw says so. *)
ParseBlock(P, i, raw) ==
  LET open      == Expect(i, "{")
      statement == P["statement", i]
  IN  IF open.at # 0 THEN ParseStatements(P, open.at, <<>>)
      ELSE IF raw THEN Parsed(statement.at, Block(<<statement.node>>))
      ELSE Nothing

(* Which parse function a rule stands for. *)
Rules == {"expr", "type", "decl", "statement", "block", "body"}

Parse[rule \in Rules, i \in Nat] ==
  CASE rule = "expr"      -> ParseBinaryExpr(Parse, i, -1)
    [] rule = "type"      -> ParseType(Parse, i)
    [] rule = "decl"      -> ParseDecl(Parse, i)
    [] rule = "statement" -> ParseStatement(Parse, i)
    [] rule = "block"     -> ParseBlock(Parse, i, FALSE)
    [] rule = "body"      -> ParseBlock(Parse, i, TRUE)

-----------------------------------------------------------------------------
(* parse_module: declarations until the next token, comments included, is  *)
(* the end of the file.                                                    *)

Init ==
  /\ source \in STRING
  /\ tokens = Tokens(source)
  /\ at = 1
  /\ module = <<>>
  /\ status = "parsing"

ParseDeclaration ==
  /\ status = "parsing"
  /\ LET decl == Parse["decl", at]
     IN  /\ decl.at # 0
         /\ at' = decl.at
         /\ module' = Append(module, decl.node)
         /\ status' = IF PeekToken(decl.at) = "eof" THEN "accepted" ELSE "parsing"
  /\ UNCHANGED <<source, tokens>>

(* Mutant: the parser goes back to where the failed attempt left it. *)
Reject_GoesBack ==
  /\ status = "parsing"
  /\ Parse["decl", at].at = 0
  /\ status' = "rejected"
  /\ at' = Parse["decl", at].at
  /\ UNCHANGED <<source, tokens, module>>

(* The module is given up; so it is where the lexer aborts on a string. *)
Reject ==
  /\ status = "parsing"
  /\ Parse["decl", at].at = 0
  /\ status' = "rejected"
  /\ UNCHANGED <<source, tokens, at, module>>

Next == ParseDeclaration \/ Reject

Spec == Init /\ [][Next]_vars

TypeOK ==
  /\ source \in STRING
  /\ at \in DOMAIN tokens
  /\ \A k \in DOMAIN module : module[k].kind = "declaration"
  /\ status \in {"parsing", "accepted", "rejected"}

=============================================================================
