----------------------------- MODULE MCOnDemand -----------------------------
(***************************************************************************)
(* Modules of three procedures that call each other and themselves in      *)
(* every way the texts allow, alone, in arguments and in loops, and of a   *)
(* fourth declaration that is external or a variable; the declarations     *)
(* stand in callers-first or callees-first order.                          *)
(***************************************************************************)
EXTENDS OnDemand

CONSTANTS main, f, g, e

MCProc == {main, f, g, e}

plain(l) == [op |-> "plain", needs |-> <<>>, callee |-> NoProc, loops |-> l]
call(needs, p, l) == [op |-> "call", needs |-> needs, callee |-> p, loops |-> l]
enter == [op |-> "enter", needs |-> <<>>, callee |-> NoProc, loops |-> 0]
leave == [op |-> "leave", needs |-> <<>>, callee |-> NoProc, loops |-> 1]

(* p(q()) *)
nested(p, q) == <<call(<<p, q>>, q, 0), call(<<>>, p, 0)>>

(* for ... { p() } *)
looped(p) == <<enter, call(<<p>>, p, 1), plain(1), leave>>

Texts ==
  {<<>>}
    \cup {<<plain(0), call(<<p>>, p, 0)>> : p \in {f, g, e}}
    \cup {nested(p[1], p[2]) : p \in {<<f, g>>, <<g, f>>, <<e, f>>}}
    \cup {looped(p) : p \in {main, f, g}}

MCOrders == {<<main, f, g, e>>, <<e, g, f, main>>}

MCModules ==
  {[order |-> o,
    kind  |-> [p \in MCProc |-> IF p = e THEN k ELSE "procedure"],
    text  |-> [p \in MCProc |-> IF p = e THEN <<>> ELSE t[p]]] :
     o \in MCOrders, k \in {"external", "variable"}, t \in [{main, f, g} -> Texts]}
=============================================================================
