----------------------- MODULE MCDeclarationChecking -----------------------
(***************************************************************************)
(* Programs over two procedures f and g, a global variable y, a local x of *)
(* f, and a block n inside f that declares another x, which shadows it:    *)
(*                                                                         *)
(*   f := proc() void { ... x := ... { ... x := ... ... } ... }            *)
(*   g := proc() void { ... }                                              *)
(*   y := ...                                                              *)
(*                                                                         *)
(* in every order of the three at module scope, where the dots name each   *)
(* other, an identifier nobody declares, or break a typing rule.           *)
(***************************************************************************)
EXTENDS DeclarationChecking, TLC

MCDecl == {"f", "g", "y", "x", "z"}
MCBlock == {"module", "body_f", "body_g", "nested"}
MCName == {"f", "g", "y", "x", "undeclared"}

use(n) == [op |-> "use", name |-> n]
decl(d) == [op |-> "decl", decl |-> d]
block(b) == [op |-> "block", block |-> b]
fail == [op |-> "fail", poisons |-> TRUE]
mismatch == [op |-> "fail", poisons |-> FALSE]

ModuleTexts == {<<decl("f"), decl("g"), decl("y")>>,
                <<decl("y"), decl("f"), decl("g")>>,
                <<decl("g"), decl("y"), decl("f")>>}
BodyFTexts == {<<decl("x"), block("nested")>>,
               <<block("nested"), decl("x")>>,
               <<use("x"), decl("x"), block("nested"), use("g")>>}
BodyGTexts == {<<>>, <<use("f")>>, <<use("y")>>, <<fail>>}
NestedTexts == {<<decl("z")>>, <<use("x"), decl("z")>>,
                <<use("g"), decl("z")>>, <<mismatch, decl("z"), use("undeclared")>>}
InitX == {<<use("y")>>, <<use("x")>>, <<use("f"), fail>>}
InitY == {<<>>, <<use("f")>>, <<use("g"), use("undeclared")>>, <<use("y")>>}
InitZ == {<<>>, <<use("x")>>, <<use("y")>>}
InitG == {<<block("body_g")>>, <<block("body_g"), mismatch>>}

MCPrograms ==
  {[items |-> "module" :> m @@ "body_f" :> bf @@ "body_g" :> bg @@ "nested" :> n
               @@ "f" :> <<block("body_f")>> @@ "g" :> g @@ "y" :> y @@ "x" :> x @@ "z" :> z,
    scopes |-> "module" :> <<"module">> @@ "body_f" :> <<"body_f", "module">>
               @@ "body_g" :> <<"body_g", "module">>
               @@ "nested" :> <<"nested", "body_f", "module">>,
    home |-> "f" :> "module" @@ "g" :> "module" @@ "y" :> "module"
               @@ "x" :> "body_f" @@ "z" :> "nested",
    name |-> "f" :> "f" @@ "g" :> "g" @@ "y" :> "y" @@ "x" :> "x" @@ "z" :> "x",
    proc |-> {"f", "g"},
    expects |-> e,
    module |-> "module"] :
   m \in ModuleTexts, bf \in BodyFTexts, bg \in BodyGTexts, n \in NestedTexts,
   g \in InitG, y \in InitY, x \in InitX, z \in InitZ, e \in {{}, {"nested"}}}
=============================================================================
