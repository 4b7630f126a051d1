------------------------------ MODULE MCParser ------------------------------
(***************************************************************************)
(* Sources for Parser.  A source is either printed from a tree, with the   *)
(* fewest parentheses, perhaps with a comment between two of its tokens;   *)
(* or such a print with one token replaced or removed; or a short string   *)
(* over one of a few alphabets.  What was printed is kept in written.      *)
(***************************************************************************)
EXTENDS Parser, TLC

VARIABLE written  \* [tree, raw, comment, text]; tree is <<>> where there is none

-----------------------------------------------------------------------------
(* The printer: a reference for the grammar that knows nothing of Parser's *)
(* operators.  "infix" marks an operator of an expression.                 *)

Ladder ==  \* from weak to strong
  <<{"="}, {"||"}, {"&&"}, {"|"}, {"^"}, {"&"}, {"==", "!="}, {"<", ">", "<=", ">="},
    {"<<", ">>"}, {"+", "-"}, {"*", "/", "%"}>>
Rung(op) == CHOOSE r \in DOMAIN Ladder : op \in Ladder[r]

Commas(lists) ==
  FoldLeft(LAMBDA x, y : IF x = <<>> THEN y ELSE x \o <<",">> \o y, <<>>, lists)
Parens(x) == <<"(">> \o x \o <<")">>

RECURSIVE Expression(_, _, _), Type(_, _), Typed(_, _), Statement(_, _), Braced(_, _)

SignatureText(s, raw) ==
  LET dots == IF s.vararg THEN <<<<"...">>>> ELSE <<>>
  IN  <<"proc">>
      \o Parens(Commas([k \in DOMAIN s.arguments |-> Typed(s.arguments[k], raw)] \o dots))
      \o Type(s.result, raw)

(* A block of one statement may be printed without its braces. *)
IsRaw(b, raw) ==
  raw /\ b.expects = "none" /\ Len(b.statements) = 1 /\ b.statements[1].kind # "block"
Body(b, raw) == IF IsRaw(b, raw) THEN Statement(b.statements[1], raw) ELSE Braced(b, raw)

(* Where only an operator of rung r or above may stand without parentheses. *)
Expression(e, r, raw) ==
  CASE e.kind = "identifier" -> <<e.name>>
    [] e.kind = "literal"    -> <<e.text>>
    [] e.kind = "procedure"  ->
         SignatureText(e.signature, raw)
         \o IF e.body = None THEN <<"external">> ELSE Body(e.body, raw)
    [] e.kind = "procedure_call" ->
         LET f == Expression(e.procedure, 99, raw)
         IN  (IF e.procedure.kind = "procedure_call" THEN Parens(f) ELSE f)
             \o Parens(Commas([k \in DOMAIN e.arguments |-> Expression(e.arguments[k], 1, raw)]))
    [] e.kind = "binary_operator" ->
         LET k == Rung(e.op)
             x == Expression(e.lhs, k, raw) \o <<"infix", e.op>> \o Expression(e.rhs, k + 1, raw)
         IN  IF k < r THEN Parens(x) ELSE x

Type(t, raw) ==
  CASE t.kind = "type_identifier" -> <<t.name>>
    [] t.kind = "pointer_type"    -> <<"*">> \o Type(t.target, raw)
    [] t.kind = "array_type"      ->
         <<"[">> \o Expression(t.length, 1, raw) \o <<"]">> \o Type(t.element, raw)
    [] t.kind = "procedure_signature" -> SignatureText(t, raw)

Typed(d, raw) ==
  <<d.name, ":">>
  \o (IF d.type = None THEN <<>> ELSE Type(d.type, raw))
  \o (IF d.init = None THEN <<>> ELSE <<"=">> \o Expression(d.init, 1, raw))

Lines(statements, raw) ==
  FoldLeft(LAMBDA words, s : words \o Statement(s, raw), <<>>, statements)

Braced(b, raw) == <<"{">> \o Lines(b.statements, raw) \o <<"}">>

Statement(s, raw) ==
  CASE s.kind = "declaration" -> Typed(s, raw)
    [] s.kind = "if_statement" ->
         <<"if">> \o Expression(s.condition, 1, raw) \o Body(s.then, raw)
         \o IF s.else = None THEN <<>> ELSE <<"else">> \o Body(s.else, raw)
    [] s.kind = "while_loop" -> <<"while">> \o Expression(s.condition, 1, raw) \o Body(s.body, raw)
    [] s.kind = "for_loop" ->
         <<"for", s.name>>
         \o (IF s.begin = None THEN <<":">> ELSE Expression(s.begin, 1, raw))
         \o <<":", s.cmp>> \o Expression(s.end, 1, raw)
         \o (IF s.step = None THEN <<>> ELSE <<":">> \o Expression(s.step, 1, raw))
         \o Body(s.body, raw)
    [] s.kind = "break_statement"    -> <<"break">>
    [] s.kind = "continue_statement" -> <<"continue">>
    [] s.kind = "return_statement"   ->
         <<"return">> \o IF s.expression = None THEN <<>> ELSE Expression(s.expression, 1, raw)
    [] s.kind = "label"          -> <<":", s.name>>
    [] s.kind = "goto_statement" -> <<"goto", s.name>>
    [] s.kind = "block"          ->
         (IF s.expects = "none" THEN <<>> ELSE <<"__error", "(", s.expects, ")">>)
         \o Braced(s, raw)
    [] OTHER -> Expression(s, 1, raw)

-----------------------------------------------------------------------------
(* What follows a statement or a condition may be read as part of it: the  *)
(* language has neither separators nor line ends.                          *)

RECURSIVE Trail(_, _), Clean(_, _)

(* What the text of node n ends with: an operand a call may follow, an     *)
(* empty return, an if without else, a name that is a statement, or a      *)
(* declaration with neither type nor initialiser.                          *)
Trail(n, raw) ==
  LET OfBody(b) ==
        IF ~IsRaw(b, raw) THEN {}
        ELSE LET s == b.statements[1]
             IN  Trail(s, raw) \cup IF s.kind = "identifier" THEN {"name"} ELSE {}
  IN  CASE n.kind \in {"identifier", "literal"} -> {"operand"}
        [] n.kind = "binary_operator" ->
             IF n.rhs.kind = "binary_operator" /\ Rung(n.rhs.op) <= Rung(n.op) THEN {"operand"}
             ELSE Trail(n.rhs, raw)
        [] n.kind = "procedure" -> {"operand"} \cup IF n.body = None THEN {} ELSE OfBody(n.body)
        [] n.kind = "declaration" ->
             IF n.init # None THEN Trail(n.init, raw)
             ELSE IF n.type = None THEN {"untyped"} ELSE {}
        [] n.kind = "return_statement" ->
             IF n.expression = None THEN {"return"} ELSE Trail(n.expression, raw)
        [] n.kind = "if_statement" ->
             IF n.else = None THEN {"if"} \cup OfBody(n.then) ELSE OfBody(n.else)
        [] n.kind \in {"while_loop", "for_loop"} -> OfBody(n.body)
        [] OTHER -> {}

Literals == {"1", "2", "\"s\"", "true"}
Names    == {"a", "b", "f", "x", "i32", "__error"}

(* Token t, behind such an end, is taken for its continuation. *)
Glues(trail, t) ==
  \/ "operand" \in trail /\ t = "("
  \/ "return"  \in trail /\ t \in Names \cup Literals \cup {"(", "proc"}
  \/ "name"    \in trail /\ t = ":"
  \/ "untyped" \in trail /\ t \in Names \cup {"*", "[", "proc"}
  \/ "if"      \in trail /\ t = "else"

(* No two neighbours in node n glue. *)
Clean(n, raw) ==
  LET CleanBody(header, b) ==
        Clean(b, raw) /\ (IsRaw(b, raw) => ~Glues(header, Head(Statement(b.statements[1], raw))))
  IN  CASE n.kind = "block" ->
             /\ \A k \in DOMAIN n.statements : Clean(n.statements[k], raw)
             /\ \A k \in 1 .. Len(n.statements) - 1 :
                  LET s == n.statements[k]
                  IN  ~Glues(Trail(s, raw) \cup IF s.kind = "identifier" THEN {"name"} ELSE {},
                             Head(Statement(n.statements[k + 1], raw)))
        [] n.kind = "if_statement" ->
             /\ CleanBody(Trail(n.condition, raw), n.then)
             /\ n.else # None =>
                  /\ CleanBody({}, n.else)
                  /\ IsRaw(n.then, raw) => ~Glues(Trail(n.then.statements[1], raw), "else")
        [] n.kind = "while_loop" -> CleanBody(Trail(n.condition, raw), n.body)
        [] n.kind = "for_loop" ->
             CleanBody(IF n.step = None THEN Trail(n.end, raw) \cup {"name"}
                       ELSE Trail(n.step, raw), n.body)
        [] n.kind = "declaration" -> n.init.kind = "procedure" => Clean(n.init, raw)
        [] n.kind = "procedure" ->
             n.body # None => CleanBody({}, n.body)
        [] OTHER -> TRUE

-----------------------------------------------------------------------------
(* Trees. *)

A == Identifier("a")
F == Identifier("f")
One == Literal("1")
I32 == TypeIdentifier("i32")
Atoms == {A, One}

SmallExpressions ==
  Atoms \cup {BinaryOperator(op, A, One) : op \in {"*", "+", "-", "<", "="}}
        \cup {Call(F, <<>>), Call(Call(F, <<A>>), <<>>), Call(BinaryOperator("+", F, A), <<One, A>>),
              Call(F, <<BinaryOperator("=", A, One)>>)}
AllOperators == UNION {Ladder[r] : r \in DOMAIN Ladder}
Expressions ==
  {BinaryOperator(op, l, r) : op \in {"*", "-", "<", "="}, l, r \in SmallExpressions}
  \cup {BinaryOperator(o1, BinaryOperator(o2, A, One), A) : o1, o2 \in AllOperators}
  \cup {BinaryOperator(o1, A, BinaryOperator(o2, A, One)) : o1, o2 \in AllOperators}

Parameter(name, type, init) == [Declaration(name, type, init) EXCEPT !.argument = TRUE]
Types ==
  {I32, PointerType(I32), ArrayType(BinaryOperator("+", One, A), PointerType(I32)),
   Signature(<<>>, TRUE, I32), Signature(<<Parameter("a", PointerType(I32), None)>>, FALSE, I32),
   Signature(<<Parameter("a", I32, One), Parameter("b", None, A)>>, TRUE,
             Signature(<<>>, FALSE, I32))}

Void == Signature(<<>>, FALSE, I32)
Main(statements) == Declaration("f", None, Procedure(Void, Block(statements)))

(* Statements that begin or end in every way there is. *)
Simple ==
  {A, Call(F, <<>>), BinaryOperator("=", A, One), BinaryOperator("+", BinaryOperator("+", A, A), A),
   Call(BinaryOperator("+", A, A), <<>>), BinaryOperator("*", BinaryOperator("+", A, A), A),
   BinaryOperator("*", A, BinaryOperator("+", A, A)), Literal("\"s\""),
   Declaration("x", None, A), Declaration("x", I32, None), Declaration("x", None, None),
   Declaration("x", None, Procedure(Void, None)),
   Return(None), Return(A), Return(Call(F, <<>>)), Break, Continue, Label("b"), Goto("b"),
   Block(<<>>), Block(<<A>>), [Block(<<A>>) EXCEPT !.expects = "\"typecheck\""]}
Small == {A, Return(None), Label("b"), Call(BinaryOperator("+", A, A), <<>>), Block(<<>>)}
Nested(c, b) ==
  {While(c, b), If(c, b, None), If(c, b, b),
   For("x", None, "<", c, None, b), For("x", A, ">=", c, One, b)}
Compound ==
  UNION {Nested(A, Block(<<s>>)) : s \in Simple}
  \cup UNION {Nested(Call(F, <<>>), Block(<<s, t>>)) : s \in {A}, t \in Small}
  \cup {If(A, Block(<<s>>), Block(<<t>>)) :
          s \in {If(A, Block(<<x>>), e) : x \in Small, e \in {None, Block(<<A>>)}}, t \in Small}
  \cup {Declaration("x", None, Procedure(Void, Block(<<s>>))) : s \in Small}

Trees ==
  {<<Declaration("x", t, i)>> : t \in Types \cup {None}, i \in Atoms \cup {None}}
  \cup {<<Declaration("x", None, e)>> : e \in Expressions}
  \cup {<<Main(<<s, t>>)>> : s, t \in Simple}
  \cup {<<Main(<<s>>)>> : s \in Compound}
  \cup {<<Main(<<s, t>>)>> : s \in Compound, t \in Small}
  \cup {<<Main(<<t>>), Declaration("x", I32, A)>> : t \in Small}

(* Trees whose tokens a comment is put between, and one is replaced. *)
Samples ==
  {<<Declaration("x", I32, BinaryOperator("+", A, Call(F, <<One, A>>))), Main(<<Return(None)>>)>>,
   <<Declaration("x", Signature(<<Parameter("a", I32, One)>>, TRUE, ArrayType(A, I32)), None)>>,
   <<Main(<<For("x", BinaryOperator("+", A, One), "<", A, One, Block(<<Break>>)),
            If(A, Block(<<BinaryOperator("=", A, One)>>), Block(<<Goto("b")>>)), Label("b")>>)>>,
   <<Main(<<[Block(<<Call(F, <<>>)>>) EXCEPT !.expects = "\"declaration\""]>>)>>}

-----------------------------------------------------------------------------
(* Sources. *)

Text(words) == FoldLeft(LAMBDA x, y : x \o y \o " ", "", SelectSeq(words, LAMBDA w : w # "infix"))

Written(tree, raw, comment, words) ==
  [tree |-> tree, raw |-> raw, comment |-> comment, text |-> Text(words)]

(* ";" starts no token, 0x is a number that does not convert. *)
Vocabulary == {"a", "1", "0x", "+", "=", ":", "(", ")", "{", "}", ",", "...", "return", "if",
               "proc", ";", "\"s\"", "infix"}
Comments == {"/* /* */ */", "//a\n"}

Strings(alphabet, n) == UNION {[1 .. k -> alphabet] : k \in 0 .. n}

Printed(w) == \E t \in Trees, raw \in BOOLEAN : w = Written(t, raw, 0, Lines(t, raw))

(* comment is the place among the words, markers included, that it precedes. *)
Commented(w) ==
  \E t \in Samples, c \in Comments :
    LET words == Lines(t, FALSE)
    IN  \E k \in 1 .. Len(words) + 1 : w = Written(t, FALSE, k, InsertAt(words, k, c))

Garbled(w) ==
  \E t \in Samples, x \in Vocabulary :
    LET words == Lines(t, TRUE)
    IN  \E k \in DOMAIN words : w = Written(<<>>, FALSE, 0, ReplaceAt(words, k, x))

Scribbled(w) ==
  \E alphabet \in {<<5, {"0", "x", "f", ".", "u"}>>, <<6, {"/", "*", "\n", "a"}>>,
                   <<4, {"\"", "\\", "a", "/"}>>,
                   <<3, {"<", "=", "!", "&", "|", ">", ".", "1", "a", " "}>>} :
    \E x \in Strings(alphabet[2], alphabet[1]) :
      w = [tree |-> <<>>, raw |-> FALSE, comment |-> 0, text |-> FoldLeft(LAMBDA s, c : s \o c, "", x)]

MCBadLiterals == {"0x"}

MCInit ==
  /\ \/ Printed(written)
     \/ Commented(written)
     \/ Garbled(written)
     \/ Scribbled(written)
  /\ source = written.text
  /\ Init

MCSpec == MCInit /\ [][Next /\ UNCHANGED written]_<<vars, written>>

-----------------------------------------------------------------------------

(***************************************************************************)
(* A printed program is read back as the tree it came from exactly when no *)
(* two of its neighbours glue.  Precedence climbing, the single call       *)
(* suffix, blocks without braces and the lookahead of every parse function *)
(* all bear on it.                                                         *)
(***************************************************************************)
ReadsBack ==
  written.tree # <<>> /\ written.comment = 0 /\ status # "parsing" =>
    (Clean(Block(written.tree), written.raw)
       <=> status = "accepted" /\ module = written.tree)

(***************************************************************************)
(* A comment changes nothing, except where the parser peeks: one before an *)
(* operator of an expression, or behind the last declaration of the file,  *)
(* makes it give the module up.                                            *)
(***************************************************************************)
CommentsAreTransparent ==
  written.comment # 0 /\ status # "parsing" =>
    LET words == Lines(written.tree, FALSE)
        k     == written.comment
    IN  IF \/ k > Len(words)
           \/ words[k] = "infix"
           \/ k > 1 /\ words[k - 1] = "infix"
        THEN status = "rejected"
        ELSE status = "accepted" /\ module = written.tree

Skeleton(words) ==
  SelectSeq(words, LAMBDA w : w \notin {"infix", "(", ")", "{", "}", ","})

(***************************************************************************)
(* Every token of an accepted file is in the tree, parentheses, braces,    *)
(* commas and comments apart, up to the first character that starts no     *)
(* token: the parser backtracks and drops what it has built, and must not  *)
(* drop what it has read.  Behind that character nothing is read at all.   *)
(***************************************************************************)
NothingIsDropped ==
  status = "accepted" =>
    LET read == SelectSeq(tokens, LAMBDA t : t.type \notin {"comment", "eof", "abort"})
    IN  Skeleton([k \in DOMAIN read |-> read[k].text]) = Skeleton(Lines(module, FALSE))

-----------------------------------------------------------------------------
(* The texts of tokens, as a language. *)

IsWord(x) ==
  /\ Char(x, 1) \in Letters
  /\ \A j \in 1 .. Len(x) : Char(x, j) \in Letters \cup Digits
IsNumber(x) ==
  \E p \in 1 .. 2, q \in 1 .. Len(x) :
    /\ Char(x, 1) \in Digits \cup {"."}
    /\ p = 2 => Char(x, 2) = "x"
    /\ p <= q
    /\ \A j \in p + 1 .. q : Char(x, j) \in HexDigits \cup {"."}
    /\ q < Len(x) => q = Len(x) - 1 /\ Char(x, Len(x)) \in {"u", "f"}
    /\ \A j, k \in 1 .. q : Char(x, j) = "." /\ Char(x, k) = "." => j = k
IsString(x) ==
  /\ Len(x) > 1
  /\ Char(x, 1) = "\""
  /\ \A j \in 2 .. Len(x) - 1 : Char(x, j) = "\"" => Char(x, j - 1) = "\\"
  /\ Char(x, Len(x)) = "\""
  /\ Char(x, Len(x) - 1) # "\\"
IsToken(x) == IsWord(x) \/ IsNumber(x) \/ IsString(x) \/ Contains(SimpleTokens, x)

(***************************************************************************)
(* Where no comment starts, the next token is the longest prefix of what   *)
(* is left that is a token, and only where there is none the file is said  *)
(* to end.  The one exception are two points, which start no number.       *)
(***************************************************************************)
MaximalMunch ==
  status = "parsing" /\ at = 1 /\ Len(source) <= 6 =>
    \A k \in DOMAIN tokens :
      LET t == tokens[k]
          prefixes == {n \in 1 .. Len(source) - t.start + 1 :
                         IsToken(SubSeq(source, t.start, t.start + n - 1))}
      IN  CASE t.type = "comment"           -> TRUE
            [] t.type \in {"eof", "abort"}  ->
                 prefixes = {} \/ StartsWith(source, t.start, "..")
            [] OTHER -> t.end - t.start = Max(prefixes)

TypesOf(s) == [k \in DOMAIN Tokens(s) |-> Tokens(s)[k].type]

(***************************************************************************)
(* A closed comment is a comment within a comment, and ends where it ends: *)
(* commenting out a text that holds comments comments out all of it.       *)
(***************************************************************************)
CommentsNest ==
  status = "parsing" /\ at = 1 =>
    \A k \in DOMAIN tokens :
      LET c == tokens[k].text
          closed == StartsWith(c, 1, "/*") /\ NextToken(c \o "a", 1).text = c
      IN  closed => /\ TypesOf("/*" \o c \o "*/") = <<"comment", "eof">>
                    /\ TypesOf(c \o c) = <<"comment", "comment", "eof">>

=============================================================================
