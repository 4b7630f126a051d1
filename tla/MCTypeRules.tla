----------------------------- MODULE MCTypeRules -----------------------------
(***************************************************************************)
(* Bodies of five families: expressions of up to two operators in every    *)
(* kind of statement, declarations and the uses of what they declare,      *)
(* calls, also those that are wrong, names without a type, and stores to   *)
(* pointers.                                                               *)
(***************************************************************************)
EXTENDS TypeRules

literal(t) == [form |-> "literal", type |-> t]
argument(t) == [form |-> "argument", type |-> t]
nop == [form |-> "nop", type |-> Nop]
unknown == [form |-> "unknown"]
identifier(d) == [form |-> "identifier", of |-> d]
operator(c, l, r) == [form |-> "operator", category |-> c, lhs |-> l, rhs |-> r]
declaration(t, i) == [form |-> "declaration", specified |-> t, init |-> i]
return(i) == [form |-> "return", expression |-> i]
condition(i, e) == [form |-> "condition", expression |-> i, end |-> e]
callee(t, s, c) == [form |-> "callee", type |-> t, signature |-> s, call |-> c]
call(c, args) == [form |-> "call", callee |-> c, arguments |-> args]
signature(args, vararg, t) == [arguments |-> args, vararg |-> vararg, returns |-> t]

I8  == Basic("signed", 1)
I64 == Basic("signed", 8)
U8  == Basic("unsigned", 1)
U64 == Basic("unsigned", 8)
F32 == Basic("float", 4)
F64 == Basic("float", 8)

Categories == {"arithmetic", "bitwise", "comparison", "logical", "assignment"}
NumberLeaves == {argument(I8), literal(I64), literal(F32)}
FewLeaves == {argument(I8), argument(U8), literal(F32), literal(Boolean), unknown}
Leaves == FewLeaves \cup {literal(I64), literal(U64), literal(F64), literal(StringLiteral)}

One(S) == {<<l, r, operator(c, 1, 2)>> : l \in S, r \in S, c \in Categories}

Two(S) ==
  {<<l, m>> \o (IF left_first THEN <<operator(c, 1, 2), r, operator(d, 3, 4)>>
                ELSE <<r, operator(c, 2, 3), operator(d, 1, 4)>>) :
     left_first \in BOOLEAN, l \in S, m \in S, r \in S, c \in Categories, d \in Categories}

(* An expression as a statement, a returned value, the value of a variable *)
(* that is returned, and the condition of a block.                         *)
Body(ns, t) == [nodes |-> ns, returns |-> t]

Contexts == {"statement", "void", "return", "missing", "infer", "specify", "guard", "body", "only"}

Statement(k, e) ==
  LET n == Len(e)
  IN  CASE k = "statement" -> Body(e \o <<nop, return(n + 1)>>, Void)
        [] k = "void"      -> Body(e \o <<return(n)>>, Void)
        [] k = "return"    -> Body(e \o <<return(n)>>, U64)
        [] k = "missing"   -> Body(e, F32)
        [] k = "infer"     -> Body(e \o <<declaration(None, n), identifier(n + 1), return(n + 2)>>, Boolean)
        [] k = "specify"   -> Body(e \o <<declaration(I8, n), identifier(n + 1), return(n + 2)>>, F32)
        [] k = "guard"     -> Body(e \o <<condition(n, n + 4), unknown, literal(I64),
                                          operator("arithmetic", n + 2, n + 3)>>, Void)
        [] k = "body"      -> Body(e \o <<condition(n, n + 3), literal(F64), declaration(F32, n + 2),
                                          nop, return(n + 4)>>, Void)
        [] k = "only"      -> Body(e \o <<condition(n, n + 3), literal(I64), return(n + 2)>>, I64)

Expressions ==
  {Statement(k, e) : k \in Contexts, e \in One(Leaves)}
    \cup {Statement(k, e) : k \in {"statement", "body", "specify"}, e \in Two(NumberLeaves)}
    \cup {Statement("specify", e) : e \in Two(FewLeaves)}

(* x: s = e; y := x c r; x = y *)
Uses ==
  {Body(<<l, declaration(s, 1), identifier(2), r, operator(c, 3, 4), declaration(None, 5),
          identifier(2), identifier(6), operator("assignment", 7, 8), nop, return(10)>>, Void) :
     l \in Leaves \cup {nop}, s \in {I8, I64, F32, Boolean, U64, StringLiteral, None},
     r \in {argument(I8), literal(I64), literal(F64), literal(Boolean)},
     c \in {"arithmetic", "bitwise", "comparison"}}

(* x := f(a, b); return x, where f may be no procedure, or of another type. *)
MCSignatures ==
  {signature(args, vararg, t) :
     args \in {<<>>, <<I64>>, <<I64, F32>>}, vararg \in BOOLEAN, t \in {Void, I64}}

Calls ==
  {Body(<<callee(f, s, 4), a, b, call(1, <<2, 3>>), declaration(None, 4), identifier(5), return(6)>>, t) :
     f \in {Signature, I64, Poison}, s \in MCSignatures,
     a \in {literal(I64), argument(I8), unknown}, b \in {literal(F32), unknown}, t \in {Void, I64}}
    \cup
  {Body(<<callee(Signature, signature(<<>>, TRUE, Void), 4), callee(Signature, signature(<<>>, FALSE, t), 3),
          call(2, <<>>), call(1, <<3>>), return(4)>>, Void) : t \in {Void, I64}}
    \cup
  (* return f(g(a c b)), where the healthy call of g has an argument that may be poisoned. *)
  {Body(<<callee(Signature, signature(<<s>>, FALSE, I64), 7),
          callee(Signature, signature(<<t>>, v, r), 6),
          a, b, operator(c, 3, 4), call(2, <<5>>), call(1, <<6>>), return(7)>>, I64) :
     s \in {I64, F32}, t \in {I64, F32}, v \in BOOLEAN, r \in {I64, Void},
     a \in {literal(I64), unknown}, b \in {literal(U64), literal(I64)}, c \in {"arithmetic", "comparison"}}

(* x:; x = y; f(x); return x, where x and y may have the type of nothing. *)
Nothings ==
  {Body(<<nop, declaration(s, 1), identifier(2), argument(t), operator("assignment", 3, 4),
          callee(Signature, signature(<<u>>, v, Void), 8), identifier(2), call(6, <<7>>),
          identifier(2), return(9)>>, r) :
     s \in {None, I8, StringLiteral}, t \in {Nop, I8, I64}, u \in {Nop, I8},
     v \in BOOLEAN, r \in {Void, I8}}

(* e = f, where e may be a pointer that is not in a variable. *)
Pointers ==
  {Body(<<l, r, operator("assignment", 1, 2), nop, return(4)>>, Void) :
     l \in {argument(StringLiteral), argument(I8), argument(Nop), literal(StringLiteral)},
     r \in {argument(StringLiteral), argument(I8), argument(Nop)}}

MCPrograms == Expressions \cup (Uses \cup Calls) \cup (Nothings \cup Pointers)
=============================================================================
