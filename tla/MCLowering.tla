----------------------------- MODULE MCLowering -----------------------------
(***************************************************************************)
(* Procedures with one loop or none, and in it one nested statement (an    *)
(* if, a while, a for, a block) before, after or between plain statements, *)
(* each of which may be a jump.                                            *)
(***************************************************************************)
EXTENDS Lowering

CONSTANTS i, j, x

MCVar == {i, j, x}

ask(id) == [op |-> "ask", id |-> id]
both(c, d) == [op |-> "and", lhs |-> c, rhs |-> d]
either(c, d) == [op |-> "or", lhs |-> c, rhs |-> d]
show(id, v) == [kind |-> "call", id |-> id, var |-> v]
break == [kind |-> "break"]
continue == [kind |-> "continue"]
if(c, b, e) == [kind |-> "if", condition |-> c, then |-> b, else |-> e]
for(v, b, cmp, e, body) ==
  [kind |-> "for", var |-> v, begin |-> b, cmp |-> cmp, end |-> e, body |-> body]
while(c, body) == [kind |-> "while", condition |-> c, body |-> body, prologue |-> <<>>]
error(b) == [b EXCEPT !.expects = TRUE]

Plain == {show("a", i), break, continue, Return(i)}

(* The blocks of nested statements. *)
Small ==
  {Block(<<>>)} \cup {Block(<<s>>) : s \in Plain}
    \cup {Block(<<show("b", j), s>>) : s \in Plain}
    \cup {Block(<<s, while(ask("q"), Block(<<>>))>>) : s \in Plain}
    \cup {Block(<<if(ask("q"), Block(<<s>>), Block(<<>>)), show("b", i)>>) : s \in Plain}

Conditions ==
  {both(ask("p"), Compare(i, "<", 1)),
   either(both(ask("p"), ask("q")), both(ask("r"), ask("p")))}

Nested ==
  {if(c, b, e) : c \in Conditions, b \in Small, e \in {Block(<<>>), Block(<<break>>)}}
    \cup {while(ask("p"), b) : b \in Small}
    \cup {for(j, 0, "<", 2, b) : b \in Small}
    \cup Small
    \cup {error(Block(<<Return(i)>>))}

Bodies ==
  {Block(<<>>)}
    \cup {Block(<<n>>) : n \in Nested}
    \cup {Block(<<n, s>>) : n \in Nested, s \in {show("c", i), continue}}

Outer ==
  {for(i, 0, "<", 2, b) : b \in Bodies} \cup {for(i, 1, ">=", 0, b) : b \in Bodies}
    \cup {while(either(Compare(x, ">", 0), ask("r")), b) : b \in Bodies}

MCPrograms ==
  {Block(<<Declaration(x, 0), o, Return(x)>>) : o \in Outer}

(* What runs before, between and after two loops, and returns implicitly. *)
Straight ==
  {Block(<<Declaration(i, 0), for(x, 0, "<=", 1, Block(<<show("a", x)>>)), s, show("b", i)>>) :
     s \in Nested \cup {Return(NoVar)}}

(* Void procedures: none returns a value. *)
IsVoid(b) == \A s \in Generated(b) : s.kind = "return" => s.var = NoVar

AllPrograms == MCPrograms \cup {b \in Straight : IsVoid(b)}

(* Programs, and all the statements and conditions they consist of. *)
RECURSIVE PartsOf(_)
PartsOf(s) ==
  LET blocks == IF s.kind = "block" THEN {} ELSE Parts(s)
      nested == IF s.kind = "block" THEN ToSet(s.statements) ELSE {}
  IN  {s} \cup UNION {PartsOf(p) : p \in blocks \cup nested}

RECURSIVE OperandsOf(_)
OperandsOf(c) ==
  {c} \cup IF c.op \in {"and", "or"} THEN OperandsOf(c.lhs) \cup OperandsOf(c.rhs) ELSE {}

MCStatement ==
  {Return(NoVar)} \cup UNION {PartsOf(b) : b \in Programs}

MCCondition ==
  UNION {OperandsOf(s.condition) : s \in {t \in Statement : t.kind \in {"if", "while"}}}

MCReads(c) == {d.var : d \in {o \in OperandsOf(c) : o.op = "compare"}}

(* for i 0:<2 { if p() { a(i) } c(i) } *)
NestedBlockInFor ==
  {Block(<<for(i, 0, "<", 2, Block(<<if(ask("p"), Block(<<show("a", i)>>), Block(<<>>)),
                                     show("c", i)>>))>>)}

(* for i 0:<2 { } *)
EmptyFor == {Block(<<for(i, 0, "<", 2, Block(<<>>))>>)}

(* { return } while p() { a(i) } *)
LoopAfterReturn ==
  {Block(<<Block(<<Return(NoVar)>>), while(ask("p"), Block(<<show("a", i)>>))>>)}

-----------------------------------------------------------------------------
(* The blocks nested in a statement, as its text reads. *)
BlocksOf(s) == IF s.kind = "for" THEN {s.body} ELSE IF s.kind = "block" /\ s.expects THEN {} ELSE Parts(s)

(***************************************************************************)
(* A procedure whose loops are all counted returns (or has diverged by a   *)
(* step too many): however its body jumps, no iteration goes unstepped,    *)
(* unless the body has no statement.                                       *)
(***************************************************************************)
RECURSIVE OnlyCounts(_, _)
OnlyCounts(b, emptyToo) ==
  \A s \in ToSet(b.statements) :
    /\ s.kind # "while"
    /\ s.kind = "for" => emptyToo \/ s.body.statements # <<>>
    /\ \A p \in BlocksOf(s) : OnlyCounts(p, emptyToo)

CountedLoopsEnd == <>(status \in {"compiling", "running"} => ~OnlyCounts(prog, FALSE))

(***************************************************************************)
(* The same for every for loop: its counter reaches the end of the range.  *)
(***************************************************************************)
ForLoopsEnd == <>(status \in {"compiling", "running"} => ~OnlyCounts(prog, TRUE))
=============================================================================
