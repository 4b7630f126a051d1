--------------------------- MODULE RegistrarProofs ---------------------------
(***************************************************************************)
(* Proofs about Registrar, for any well-formed nodes: trees or not, from   *)
(* the converter or not, and for any capacity of the pool.                 *)
(***************************************************************************)
EXTENDS Registrar, TLAPS

(* A sequence over a set is one over every larger set. *)
LEMMA SeqOfLarger == ASSUME NEW S, NEW T, S \subseteq T, NEW s \in Seq(S) PROVE s \in Seq(T)
  OBVIOUS

LEMMA TailIsSeq == ASSUME NEW S, NEW s \in Seq(S), s # <<>> PROVE Tail(s) \in Seq(S) /\ Head(s) \in S
  OBVIOUS

LEMMA Shorter ==
  ASSUME NEW S, NEW s \in Seq(S), NEW n \in Nat, Len(s) = n + 1, NEW t, t = SubSeq(s, 1, n)
  PROVE  t \in Seq(S) /\ Len(t) = n /\ \A i \in 1 .. n : t[i] = s[i]
<1>1. t = [i \in 1 .. n |-> s[i]]
  OBVIOUS
<1>2. \A i \in 1 .. n : s[i] \in S
  OBVIOUS
<1>3. t \in Seq(S)
  BY <1>1, <1>2
<1>4. Len(t) = n
  BY <1>1, <1>3
<1> QED
  BY <1>1, <1>3, <1>4

LEMMA DeclarationIsNode ==
  ASSUME NEW name \in STRING, NEW links \in Seq(Nat)
  PROVE  [kind |-> "declaration", name |-> name, links |-> links, parent |-> 0, flag |-> FALSE]
           \in Node
  BY DEF Node, Kind

LEMMA NodeNames ==
  ASSUME WellFormed, NEW n \in DOMAIN nodes
  PROVE  nodes[n].name \in STRING /\ nodes[n].links \in Seq(Nat) /\ Shaped(n)
<1>1. nodes[n] \in Node
  BY DEF WellFormed
<1> QED
  BY <1>1 DEF Node, WellFormed

(* Nodes are never taken away, and only their parent changes. *)
Keeps ==
  /\ DOMAIN nodes \subseteq DOMAIN nodes'
  /\ \A n \in DOMAIN nodes :
       /\ nodes'[n].kind = nodes[n].kind
       /\ nodes'[n].links = nodes[n].links
       /\ nodes'[n].flag = nodes[n].flag

(***************************************************************************)
(* Every step leaves well-formed nodes, and those there were as they were. *)
(***************************************************************************)
LEMMA NodesStay == TypeOK /\ [Next]_vars => WellFormed' /\ Keeps
<1> SUFFICES ASSUME TypeOK, [Next]_vars PROVE WellFormed' /\ Keeps
  OBVIOUS
<1> USE DEF Null
<1>1. CASE UNCHANGED nodes
  BY <1>1 DEF TypeOK, WellFormed, Shaped, Links, IsA, Keeps
<1>2. CASE nodes' # nodes /\ VisitDeclaration
  <2>1. /\ visited \in DOMAIN nodes
        /\ nodes' = [nodes EXCEPT ![visited].parent = current_block]
    BY <1>2 DEF VisitDeclaration, Visiting, Stop
  <2>2. current_block \in Nat /\ nodes \in Seq(Node)
    BY DEF TypeOK, WellFormed, BlockOrNull, NodesOf
  <2>3. nodes' \in Seq(Node) /\ Len(nodes') = Len(nodes)
    <3>1. nodes[visited] \in Node
      BY <2>1, <2>2
    <3>2. [nodes[visited] EXCEPT !.parent = current_block] \in Node
      BY <2>2, <3>1 DEF Node
    <3> QED
      BY <2>1, <2>2, <3>2
  <2>4. \A n \in DOMAIN nodes :
          /\ nodes'[n].kind = nodes[n].kind
          /\ nodes'[n].links = nodes[n].links
          /\ nodes'[n].flag = nodes[n].flag
    BY <2>1, <2>2, SMTT(30) DEF Node
  <2>5. Keeps /\ DOMAIN nodes' = DOMAIN nodes
    BY <2>1, <2>4 DEF Keeps
  <2>6. \A n, kind : IsA(n, kind)' <=> IsA(n, kind)
    BY <2>4, <2>5 DEF IsA
  <2> QED
    BY <2>3, <2>4, <2>5, <2>6, SMTT(30) DEF TypeOK, WellFormed, Shaped, Links
<1>3. CASE nodes' # nodes /\ VisitLabel
  <2> DEFINE new == NewDeclaration(here.name, <<LabelType, visited>>, FALSE)
  <2>1. visited \in DOMAIN nodes /\ nodes' = Append(nodes, new)
    BY <1>3 DEF VisitLabel, Visiting, Stop
  <2>2. nodes \in Seq(Node) /\ Len(nodes) >= 15
    BY DEF TypeOK, WellFormed, BuiltinTypes
  <2>3. here.name \in STRING
    <3>1. here \in Node
      BY <2>1, <2>2 DEF here
    <3> QED
      BY <3>1 DEF Node
  <2>4. /\ new = [kind |-> "declaration", name |-> here.name, links |-> <<14, visited>>,
                  parent |-> 0, flag |-> FALSE]
        /\ new \in Node
    <3>1. new = [kind |-> "declaration", name |-> here.name, links |-> <<14, visited>>,
                 parent |-> 0, flag |-> FALSE]
      BY DEF NewDeclaration, LabelType
    <3>2. <<14, visited>> \in Seq(Nat)
      BY <2>1
    <3> QED
      BY <2>3, <3>1, <3>2, DeclarationIsNode
  <2> HIDE DEF new
  <2>5. /\ nodes' \in Seq(Node) /\ Len(nodes') = Len(nodes) + 1
        /\ DOMAIN nodes' = DOMAIN nodes \cup {Len(nodes) + 1}
        /\ \A n \in DOMAIN nodes : nodes'[n] = nodes[n]
        /\ nodes'[Len(nodes) + 1] = new
    BY <2>1, <2>2, <2>4
  <2>6. Keeps
    BY <2>5 DEF Keeps
  <2>7. \A n, kind : IsA(n, kind) => IsA(n, kind)'
    BY <2>5 DEF IsA
  <2>8. \A n \in DOMAIN nodes' : n \in DOMAIN nodes \/ nodes'[n] = new
    BY <2>5
  <2>9. 14 \in DOMAIN nodes
    BY <2>2
  <2> QED
    <3>1. Len(nodes') >= Len(BuiltinTypes)
      BY <2>5 DEF TypeOK, WellFormed
    <3>2. ASSUME NEW n \in DOMAIN nodes' PROVE Shaped(n)'
      <4>1. CASE n \in DOMAIN nodes
        BY <2>5, <2>7, <4>1 DEF TypeOK, WellFormed, Shaped, Links
      <4>2. CASE nodes'[n] = new
        BY <2>1, <2>4, <2>5, <2>9, <4>2 DEF Shaped, Links
      <4> QED
        BY <2>8, <4>1, <4>2
    <3> QED
      BY <2>5, <2>6, <3>1, <3>2 DEF WellFormed
<1> QED
  BY <1>1, <1>2, <1>3 DEF Next, vars, VisitNull, VisitProcedure, VisitBlock, VisitOther, Leave, Stop

-----------------------------------------------------------------------------
(* TypeOK is inductive. *)

LEMMA VisitsStay ==
  ASSUME TypeOK, [Next]_vars
  PROVE  /\ Address \subseteq Address' /\ BlockOrNull \subseteq BlockOrNull'
         /\ ProcOrNull \subseteq ProcOrNull' /\ Visits \subseteq Visits'
         /\ Registration \subseteq Registration'
         /\ \A s \in Seq(Visits) : s \in Seq(Visits')
         /\ \A n \in Address : \A kind : IsA(n, kind)' <=> IsA(n, kind)
<1>1. Keeps
  BY NodesStay
<1>2. /\ Address \subseteq Address'
      /\ \A kind : NodesOf(kind) \subseteq NodesOf(kind)'
  BY <1>1 DEF Keeps, Address, NodesOf
<1>3. \A s \in Seq(Address) : s \in Seq(Address')
  BY <1>2, SeqOfLarger
<1>4. /\ BlockOrNull \subseteq BlockOrNull'
      /\ ProcOrNull \subseteq ProcOrNull'
  BY <1>2 DEF BlockOrNull, ProcOrNull
<1>5. Visits \subseteq Visits'
  BY <1>2, <1>3, <1>4 DEF Visits
<1>6. Registration \subseteq Registration'
  BY <1>2 DEF Registration
<1>7. \A s \in Seq(Visits) : s \in Seq(Visits')
  BY <1>5, SeqOfLarger
<1>8. Null \notin DOMAIN nodes'
  BY NodesStay DEF WellFormed, Null
<1>9. \A n \in Address : \A kind : IsA(n, kind)' <=> IsA(n, kind)
  BY <1>1, <1>8 DEF Keeps, IsA, Address
<1> QED
  BY <1>2, <1>4, <1>5, <1>6, <1>7, <1>9

(* What the top frame holds. *)
LEMMA TopFrame ==
  ASSUME TypeOK, status = "visiting"
  PROVE  /\ Len(stack) \in Nat \ {0}
         /\ top \in Visits
         /\ top.todo # <<>> => visited \in Address /\ Tail(top.todo) \in Seq(Address)
<1>1. stack \in Seq(Visits) /\ stack # <<>>
  BY DEF TypeOK
<1>2. Len(stack) \in Nat \ {0} /\ top \in Visits
  BY <1>1 DEF top
<1>3. top.todo \in Seq(Address)
  BY <1>2 DEF Visits
<1> QED
  BY <1>2, <1>3, TailIsSeq DEF visited

(* The frame a call of ::visit returns to, its child taken off. *)
LEMMA Taken ==
  ASSUME TypeOK, status = "visiting", top.todo # <<>>
  PROVE  LET s == [stack EXCEPT ![Len(stack)].todo = Tail(@)]
         IN  /\ s \in Seq(Visits)
             /\ Len(s) = Len(stack)
             /\ \A i \in 1 .. Len(stack) : /\ s[i].node = stack[i].node
                                           /\ s[i].block = stack[i].block
                                           /\ s[i].procedure = stack[i].procedure
<1>1. stack \in Seq(Visits) /\ Len(stack) \in Nat \ {0}
  BY TopFrame DEF TypeOK
<1>2. top \in Visits /\ Tail(top.todo) \in Seq(Address)
  BY TopFrame
<1>3. [top EXCEPT !.todo = Tail(@)] \in Visits
  BY <1>2 DEF Visits
<1>4. [stack EXCEPT ![Len(stack)].todo = Tail(@)]
        = [stack EXCEPT ![Len(stack)] = [top EXCEPT !.todo = Tail(@)]]
  BY <1>1 DEF top
<1>5. \A i \in 1 .. Len(stack) : stack[i] \in Visits
  BY <1>1
<1> QED
  BY <1>1, <1>2, <1>3, <1>4, <1>5 DEF Visits, top

(* The stack after a call of ::visit for the visited node. *)
LEMMA Entered ==
  ASSUME TypeOK, [Next]_vars, NEW kinds, Visiting(kinds), NEW b, NEW p, Enter(b, p),
         b \in BlockOrNull', p \in ProcOrNull'
  PROVE  /\ stack' \in Seq(Visits') /\ stack' # <<>>
         /\ Len(stack) \in Nat \ {0} /\ Len(stack') = Len(stack) + 1
         /\ \A i \in 1 .. Len(stack) : /\ stack'[i].node = stack[i].node
                                       /\ stack'[i].block = stack[i].block
                                       /\ stack'[i].procedure = stack[i].procedure
         /\ stack'[Len(stack) + 1].node = visited
         /\ stack'[Len(stack) + 1].block = current_block
         /\ stack'[Len(stack) + 1].procedure = current_procedure
<1> DEFINE s == [stack EXCEPT ![Len(stack)].todo = Tail(@)]
           f == Frame(visited, Children(here))
<1>1. /\ status = "visiting" /\ top.todo # <<>> /\ visited \in DOMAIN nodes
      /\ Len(stack) \in Nat \ {0} /\ visited \in Address
  BY TopFrame DEF Visiting
<1>2. /\ s \in Seq(Visits) /\ Len(s) = Len(stack)
      /\ \A i \in 1 .. Len(stack) : /\ s[i].node = stack[i].node
                                    /\ s[i].block = stack[i].block
                                    /\ s[i].procedure = stack[i].procedure
  BY <1>1, Taken
<1>3. Children(here) \in Seq(Address)
  <2>1. /\ here.links \in Seq(Nat)
        /\ \A k \in DOMAIN here.links : here.links[k] \in Address
        /\ here.kind = "while_loop" => Len(here.links) = 3
    <3>1. here \in Node /\ Shaped(visited)
      BY <1>1 DEF TypeOK, WellFormed, here
    <3> QED
      BY <3>1 DEF Shaped, Links, here, Node, Address
  <2>2. here.links \in Seq(Address)
    BY <2>1
  <2> QED
    BY <2>1, <2>2 DEF Children
<1>4. f \in Visits
  BY <1>1, <1>3 DEF Frame, Visits, TypeOK
<1>5. stack' = Append(s, f)
  BY DEF Enter
<1>6. f.node = visited /\ f.block = current_block /\ f.procedure = current_procedure
  BY DEF Frame
<1> HIDE DEF s, f
<1>7. Append(s, f) \in Seq(Visits')
  BY <1>2, <1>4, VisitsStay
<1> QED
  BY <1>1, <1>2, <1>5, <1>6, <1>7

(* What stands around a node, in the frames that are left as they were. *)
LEMMA InnermostStays ==
  ASSUME TypeOK, [Next]_vars, NEW depth \in 0 .. Len(stack), stack \in Seq(Visits),
         \A i \in 1 .. depth : stack'[i].node = stack[i].node
  PROVE  \A x, kind : Innermost(x, kind, depth) => Innermost(x, kind, depth)'
<1>1. \A i \in 1 .. depth : stack[i].node \in Address
  <2>1. \A i \in 1 .. depth : stack[i] \in Visits
    OBVIOUS
  <2> QED
    BY <2>1 DEF Visits
<1>2. \A n \in Address : \A kind : IsA(n, kind)' <=> IsA(n, kind)
  BY VisitsStay
<1>3. ASSUME NEW x, NEW kind, Innermost(x, kind, depth) PROVE Innermost(x, kind, depth)'
  <2>1. \A i \in 1 .. depth : IsA(stack[i].node, kind)' <=> IsA(stack[i].node, kind)
    BY <1>1, <1>2 DEF IsA
  <2>2. CASE x = Null /\ \A k \in 1 .. depth : ~IsA(stack[k].node, kind)
    BY <2>1, <2>2 DEF Innermost, IsA
  <2>3. CASE \E k \in 1 .. depth :
               /\ stack[k].node = x
               /\ IsA(x, kind)
               /\ \A j \in k + 1 .. depth : ~IsA(stack[j].node, kind)
    <3>1. PICK k \in 1 .. depth :
            /\ stack[k].node = x
            /\ IsA(x, kind)
            /\ \A j \in k + 1 .. depth : ~IsA(stack[j].node, kind)
      BY <2>3
    <3>2. stack'[k].node = x /\ IsA(x, kind)'
      BY <1>1, <1>2, <3>1
    <3>3. \A j \in k + 1 .. depth : j \in 1 .. depth
      BY <3>1
    <3>4. \A j \in k + 1 .. depth : ~IsA(stack[j].node, kind)'
      BY <2>1, <3>1, <3>3
    <3> QED
      BY <3>1, <3>2, <3>4 DEF Innermost, IsA
  <2> QED
    BY <1>3, <2>2, <2>3 DEF Innermost
<1> QED
  BY <1>3

(***************************************************************************)
(* The inductive invariant.  ContextIsInnermost alone is not inductive:    *)
(* Leave takes the values from the frame, so each frame must hold what was *)
(* innermost when it was pushed.                                           *)
(***************************************************************************)
Frames ==
  \A i \in DOMAIN stack : /\ Innermost(stack[i].block, "block", i - 1)
                          /\ Innermost(stack[i].procedure, "procedure", i - 1)

IInv == TypeOK /\ Frames /\ ContextIsInnermost /\ AssertMeansNested

Context(b, p) ==
  /\ b = IF here.kind = "block" THEN visited ELSE current_block
  /\ p = IF here.kind = "procedure" THEN visited ELSE current_procedure

(* A call of ::visit that sets the context as its node demands. *)
LEMMA EnterKeeps ==
  ASSUME IInv, [Next]_vars, NEW kinds, Visiting(kinds), NEW b, NEW p, Enter(b, p), Context(b, p)
  PROVE  /\ stack' \in Seq(Visits') /\ stack' # <<>>
         /\ current_block' \in BlockOrNull' /\ current_procedure' \in ProcOrNull'
         /\ Frames' /\ ContextIsInnermost'
<1> DEFINE n == Len(stack)
<1>1. /\ visited \in DOMAIN nodes /\ visited \in Address
      /\ current_block' = b /\ current_procedure' = p
  BY DEF Visiting, Address, Enter
<1>2. b \in BlockOrNull /\ p \in ProcOrNull
  BY <1>1 DEF IInv, TypeOK, Context, BlockOrNull, ProcOrNull, NodesOf, here
<1>3. b \in BlockOrNull' /\ p \in ProcOrNull'
  BY <1>2, VisitsStay DEF IInv
<1>4. /\ stack' \in Seq(Visits') /\ stack' # <<>>
      /\ n \in Nat \ {0} /\ Len(stack') = n + 1
      /\ \A i \in 1 .. n : /\ stack'[i].node = stack[i].node
                           /\ stack'[i].block = stack[i].block
                           /\ stack'[i].procedure = stack[i].procedure
      /\ stack'[n + 1].node = visited
      /\ stack'[n + 1].block = current_block
      /\ stack'[n + 1].procedure = current_procedure
  BY <1>3, Entered DEF IInv
<1>5. \A d \in 0 .. n : \A x, kind : Innermost(x, kind, d) => Innermost(x, kind, d)'
  BY <1>4, InnermostStays DEF IInv, TypeOK
<1>6. \A kind : IsA(visited, kind) <=> here.kind = kind
  BY <1>1 DEF IsA, here
<1>7. ASSUME NEW v, v = visited, NEW kind PROVE IsA(v, kind)' <=> here.kind = kind
  BY <1>1, <1>6, <1>7, VisitsStay DEF IInv
<1>8. ASSUME NEW x, NEW y, NEW kind, Innermost(x, kind, n),
             y = IF here.kind = kind THEN visited ELSE x
      PROVE  \A d : d = n + 1 => Innermost(y, kind, d)'
  <2> SUFFICES ASSUME NEW d, d = n + 1 PROVE Innermost(y, kind, d)'
    OBVIOUS
  <2> DEFINE v == stack'[d].node
  <2>1. v = visited /\ (IsA(stack[d].node, kind)' <=> here.kind = kind)
    BY <1>4, <1>7 DEF IsA
  <2>2. CASE here.kind = kind
    <3>1. stack'[d].node = y /\ IsA(y, kind)'
      BY <1>7, <1>8, <2>1, <2>2
    <3> QED
      BY <1>4, <3>1 DEF Innermost
  <2>3. CASE here.kind # kind
    <3>1. \A e : e = n => Innermost(y, kind, e)'
      BY <1>4, <1>5, <1>8, <2>3
    <3>2. PICK e : e = n /\ Innermost(y, kind, e)'
      BY <3>1
    <3> QED
      BY <1>4, <2>1, <2>3, <3>2 DEF Innermost
  <2> QED
    BY <2>2, <2>3
<1> HIDE DEF n
<1>9. PICK d : d = n + 1 /\ d = Len(stack') /\ n \in Nat /\ d \in Nat
  BY <1>4
<1>10. ContextIsInnermost'
  BY <1>1, <1>8, <1>9 DEF IInv, ContextIsInnermost, Context, n
<1>11. Frames'
  BY <1>4, <1>5, <1>9 DEF IInv, Frames, ContextIsInnermost, n
<1> QED
  BY <1>1, <1>3, <1>4, <1>10, <1>11

LEMMA InitInv == Init => IInv
<1> SUFFICES ASSUME Init PROVE IInv
  OBVIOUS
<1>1. PICK root \in DOMAIN nodes : stack = Start(root)
  BY DEF Init
<1>2. /\ <<root>> \in Seq(Address)
      /\ Null \in Address /\ Null \in BlockOrNull /\ Null \in ProcOrNull
  BY DEF Address, BlockOrNull, ProcOrNull
<1>3. Start(root)[1] \in Visits /\ Start(root) \in Seq(Visits) /\ Len(Start(root)) = 1
  BY <1>2 DEF Start, Visits
<1>4. TypeOK
  <2>1. stack \in Seq(Visits) /\ stack # <<>>
    BY <1>1, <1>3
  <2>2. /\ WellFormed
        /\ current_block \in BlockOrNull /\ current_procedure \in ProcOrNull
        /\ declarations \subseteq Registration /\ errors \subseteq DOMAIN nodes
        /\ status \in Status
    BY <1>2 DEF Init, Status
  <2> QED
    BY <2>1, <2>2 DEF TypeOK
<1>5. ~IsA(Null, "block") /\ ~IsA(Null, "procedure")
  BY DEF IsA, Null, Init, WellFormed
<1>6. /\ DOMAIN stack = {1} /\ Len(stack) = 1
      /\ stack[1].node = Null /\ stack[1].block = Null /\ stack[1].procedure = Null
  BY <1>1 DEF Start
<1>7. Frames /\ ContextIsInnermost
  BY <1>5, <1>6 DEF Frames, ContextIsInnermost, Innermost, Init
<1> QED
  BY <1>4, <1>7 DEF IInv, AssertMeansNested, Init

(* A declaration that is registered, or an error in its place. *)
LEMMA EmplaceTypes ==
  ASSUME TypeOK, [Next]_vars, NEW b, NEW d, NEW name \in STRING, Emplace(b, d, name),
         b \in NodesOf("block")', d \in NodesOf("declaration")', visited \in DOMAIN nodes
  PROVE  declarations' \subseteq Registration' /\ errors' \subseteq DOMAIN nodes'
<1>1. declarations \subseteq Registration' /\ errors \subseteq DOMAIN nodes'
  BY NodesStay, VisitsStay DEF TypeOK, Keeps
<1>2. [block |-> b, name |-> name, declaration |-> d] \in Registration'
  BY DEF Registration
<1>3. visited \in DOMAIN nodes'
  BY NodesStay DEF Keeps
<1> QED
  BY <1>1, <1>2, <1>3 DEF Emplace

(* What stays when a step only stops the program. *)
LEMMA StopKeeps ==
  ASSUME IInv, NEW why \in Status \ {"visiting", "asserted"}, Stop(why)
  PROVE  IInv'
<1>1. UNCHANGED <<nodes, stack, current_block, current_procedure, declarations, errors>>
      /\ status' = why
  BY DEF Stop
<1>2. TypeOK'
  BY <1>1 DEF IInv, TypeOK, WellFormed, Shaped, Links, IsA, Visits, Registration, Address,
              BlockOrNull, ProcOrNull, NodesOf
<1>3. Frames' /\ ContextIsInnermost'
  BY <1>1 DEF IInv, Frames, ContextIsInnermost, Innermost, IsA
<1> QED
  BY <1>1, <1>2, <1>3 DEF IInv, AssertMeansNested

(* What is left to show of a step that calls ::visit. *)
LEMMA CallKeeps ==
  ASSUME IInv, [Next]_vars, NEW kinds, Visiting(kinds), NEW b, NEW p, Enter(b, p), Context(b, p),
         status' = status,
         declarations' \subseteq Registration', errors' \subseteq DOMAIN nodes'
  PROVE  IInv'
<1>1. /\ stack' \in Seq(Visits') /\ stack' # <<>>
      /\ current_block' \in BlockOrNull' /\ current_procedure' \in ProcOrNull'
      /\ Frames' /\ ContextIsInnermost'
  BY EnterKeeps
<1>2. WellFormed'
  BY NodesStay DEF IInv
<1>3. status' = "visiting"
  BY DEF Visiting
<1> QED
  BY <1>1, <1>2, <1>3 DEF IInv, TypeOK, AssertMeansNested, Status

-----------------------------------------------------------------------------
(* Each action preserves the invariant. *)

LEMMA NullKeeps == ASSUME IInv, [Next]_vars, VisitNull PROVE IInv'
<1> DEFINE s == [stack EXCEPT ![Len(stack)].todo = Tail(@)]
<1>1. /\ status = "visiting" /\ top.todo # <<>> /\ stack' = s
      /\ UNCHANGED <<nodes, current_block, current_procedure, declarations, errors, status>>
  BY DEF VisitNull
<1>2. /\ s \in Seq(Visits) /\ Len(s) = Len(stack) /\ Len(stack) \in Nat \ {0}
      /\ \A i \in 1 .. Len(stack) : /\ s[i].node = stack[i].node
                                    /\ s[i].block = stack[i].block
                                    /\ s[i].procedure = stack[i].procedure
  BY <1>1, Taken, TopFrame DEF IInv
<1> HIDE DEF s
<1>3. TypeOK'
  <2>1. stack' \in Seq(Visits') /\ stack' # <<>>
    BY <1>1, <1>2, VisitsStay DEF IInv
  <2>2. /\ current_block' \in BlockOrNull' /\ current_procedure' \in ProcOrNull'
        /\ declarations' \subseteq Registration' /\ errors' \subseteq DOMAIN nodes'
    BY <1>1, VisitsStay DEF IInv, TypeOK
  <2> QED
    BY <1>1, <2>1, <2>2, NodesStay DEF IInv, TypeOK
<1>4. \A d \in 0 .. Len(stack) : \A x, kind : Innermost(x, kind, d) => Innermost(x, kind, d)'
  BY <1>1, <1>2, InnermostStays DEF IInv, TypeOK
<1>5. Frames' /\ ContextIsInnermost'
  BY <1>1, <1>2, <1>4 DEF IInv, Frames, ContextIsInnermost
<1> QED
  BY <1>1, <1>3, <1>5 DEF IInv, AssertMeansNested

LEMMA LeaveKeeps == ASSUME IInv, [Next]_vars, Leave PROVE IInv'
<1>1. /\ status = "visiting" /\ stack' = SubSeq(stack, 1, Len(stack) - 1)
      /\ current_block' = top.block /\ current_procedure' = top.procedure
      /\ status' = IF Len(stack) = 1 THEN "done" ELSE "visiting"
      /\ UNCHANGED <<nodes, declarations, errors>>
  BY DEF Leave
<1>2. stack \in Seq(Visits) /\ Len(stack) \in Nat \ {0} /\ top \in Visits
  BY <1>1, TopFrame DEF IInv, TypeOK
<1>3. /\ stack' \in Seq(Visits) /\ Len(stack') = Len(stack) - 1
      /\ \A i \in 1 .. Len(stack) - 1 : stack'[i] = stack[i]
  <2>1. PICK n \in Nat : Len(stack) = n + 1
    BY <1>2
  <2>2. stack' = SubSeq(stack, 1, n) /\ n = Len(stack) - 1
    BY <1>1, <2>1
  <2>3. stack' \in Seq(Visits) /\ Len(stack') = n /\ \A i \in 1 .. n : stack'[i] = stack[i]
    BY <1>2, <2>1, <2>2, Shorter
  <2> QED
    BY <2>2, <2>3
<1>4. TypeOK'
  <2>1. stack' \in Seq(Visits')
    BY <1>1, <1>3, VisitsStay DEF IInv
  <2>2. status' \in Status /\ (status' = "visiting" => stack' # <<>>)
    <3>1. status' \in Status /\ (status' = "visiting" => Len(stack) # 1)
      BY <1>1 DEF Status
    <3>2. Len(stack) # 1 => Len(stack') # 0
      BY <1>2, <1>3
    <3> QED
      BY <3>1, <3>2
  <2>3. /\ current_block' \in BlockOrNull' /\ current_procedure' \in ProcOrNull'
        /\ declarations' \subseteq Registration' /\ errors' \subseteq DOMAIN nodes'
    BY <1>1, <1>2, VisitsStay DEF IInv, TypeOK, Visits
  <2> QED
    BY <2>1, <2>2, <2>3, NodesStay DEF IInv, TypeOK
<1>5. \A d \in 0 .. Len(stack) - 1 : \A x, kind : Innermost(x, kind, d) => Innermost(x, kind, d)'
  BY <1>1, <1>2, <1>3, InnermostStays DEF IInv
<1>6. Frames'
  <2>1. ASSUME NEW i \in DOMAIN stack'
        PROVE  Innermost(stack[i].block, "block", i - 1)'
               /\ Innermost(stack[i].procedure, "procedure", i - 1)'
    <3>1. i \in DOMAIN stack /\ stack'[i] = stack[i] /\ i - 1 \in 0 .. Len(stack) - 1
      BY <1>1, <1>2, <1>3
    <3>2. PICK d : d = i - 1 /\ d \in 0 .. Len(stack) - 1
      BY <3>1
    <3>3. Innermost(stack[i].block, "block", d) /\ Innermost(stack[i].procedure, "procedure", d)
      BY <3>1, <3>2 DEF IInv, Frames
    <3> QED
      BY <1>5, <3>1, <3>2, <3>3
  <2> QED
    BY <2>1 DEF Frames
<1>7. /\ Innermost(top.block, "block", Len(stack) - 1)
      /\ Innermost(top.procedure, "procedure", Len(stack) - 1)
  BY <1>2 DEF IInv, Frames, top
<1>8. ContextIsInnermost'
  BY <1>1, <1>2, <1>3, <1>5, <1>7 DEF ContextIsInnermost
<1> QED
  BY <1>1, <1>4, <1>6, <1>8 DEF IInv, AssertMeansNested

LEMMA BlockKeeps ==
  ASSUME IInv, [Next]_vars, VisitBlock \/ VisitOther PROVE IInv'
<1>1. declarations' \subseteq Registration' /\ errors' \subseteq DOMAIN nodes' /\ status' = status
  BY NodesStay, VisitsStay DEF IInv, TypeOK, Keeps, VisitBlock, VisitOther
<1>2. CASE VisitBlock
  BY <1>1, <1>2, CallKeeps DEF VisitBlock, Visiting, Context
<1>3. CASE VisitOther
  BY <1>1, <1>3, CallKeeps DEF VisitOther, Visiting, Context
<1> QED
  BY <1>2, <1>3

LEMMA DeclarationKeeps == ASSUME IInv, [Next]_vars, VisitDeclaration PROVE IInv'
<1>1. CASE ~here.flag /\ current_block = Null
  BY <1>1, StopKeeps DEF VisitDeclaration, Status
<1>2. CASE ~(~here.flag /\ current_block = Null)
  <2>1. /\ Visiting({"declaration"}) /\ Enter(current_block, current_procedure)
        /\ status' = status
        /\ \/ UNCHANGED <<declarations, errors>>
           \/ errors' = errors \cup {visited} /\ UNCHANGED declarations
           \/ ~here.flag /\ Emplace(current_block, visited, here.name)
    BY <1>2 DEF VisitDeclaration
  <2>2. /\ visited \in DOMAIN nodes /\ here.kind = "declaration"
        /\ visited \in NodesOf("declaration") /\ here.name \in STRING
    <3>1. visited \in DOMAIN nodes /\ here.kind = "declaration"
      BY <2>1 DEF Visiting
    <3> QED
      BY <3>1, NodeNames DEF NodesOf, here, IInv, TypeOK
  <2>3. /\ DOMAIN nodes \subseteq DOMAIN nodes' /\ TypeOK
        /\ NodesOf("declaration") \subseteq NodesOf("declaration")'
        /\ NodesOf("block") \subseteq NodesOf("block")'
    BY NodesStay DEF IInv, Keeps, NodesOf
  <2>4. declarations' \subseteq Registration' /\ errors' \subseteq DOMAIN nodes'
    <3>1. declarations \subseteq Registration' /\ errors \subseteq DOMAIN nodes'
      BY <2>3, VisitsStay DEF TypeOK
    <3>2. CASE Emplace(current_block, visited, here.name) /\ ~here.flag
      <4>1. current_block \in NodesOf("block")
        BY <1>2, <2>3, <3>2 DEF TypeOK, BlockOrNull
      <4> QED
        BY <2>2, <2>3, <3>2, <4>1, EmplaceTypes
    <3> QED
      BY <2>1, <2>2, <2>3, <3>1, <3>2
  <2> QED
    BY <2>1, <2>2, <2>4, CallKeeps DEF Context
<1> QED
  BY <1>1, <1>2

LEMMA LabelKeeps == ASSUME IInv, [Next]_vars, VisitLabel PROVE IInv'
<1>1. CASE Full(nodes) \/ current_procedure = Null \/ nodes[current_procedure].flag
  <2>1. Stop("fatal") \/ Stop("crashed")
    BY <1>1 DEF VisitLabel
  <2> QED
    BY <2>1, StopKeeps DEF Status
<1>2. CASE ~(Full(nodes) \/ current_procedure = Null \/ nodes[current_procedure].flag)
  <2> DEFINE new == NewDeclaration(here.name, <<LabelType, visited>>, FALSE)
  <2>1. /\ Visiting({"label"}) /\ Enter(current_block, current_procedure)
        /\ status' = status /\ nodes' = Append(nodes, new)
        /\ Emplace(Body(current_procedure), Len(nodes) + 1, here.name)
    BY <1>2 DEF VisitLabel
  <2>2. /\ visited \in DOMAIN nodes /\ here.kind = "label" /\ here.name \in STRING
        /\ nodes \in Seq(Node)
    <3>1. visited \in DOMAIN nodes /\ here.kind = "label"
      BY <2>1 DEF Visiting
    <3> QED
      BY <3>1, NodeNames DEF here, IInv, TypeOK, WellFormed
  <2>3. new.kind = "declaration"
    BY DEF NewDeclaration
  <2> HIDE DEF new
  <2>4. Len(nodes) + 1 \in DOMAIN nodes' /\ nodes'[Len(nodes) + 1] = new
    BY <2>1, <2>2
  <2>5. Len(nodes) + 1 \in NodesOf("declaration")'
    BY <2>3, <2>4 DEF NodesOf
  <2>6. Body(current_procedure) \in NodesOf("block")
    <3>1. current_procedure \in DOMAIN nodes /\ nodes[current_procedure].kind = "procedure"
      BY <1>2 DEF IInv, TypeOK, ProcOrNull, NodesOf
    <3>2. Shaped(current_procedure)
      BY <3>1 DEF IInv, TypeOK, WellFormed
    <3> QED
      BY <1>2, <3>1, <3>2 DEF Shaped, Links, IsA, Body, NodesOf
  <2>7. NodesOf("block") \subseteq NodesOf("block")'
    BY NodesStay DEF IInv, Keeps, NodesOf
  <2>8. declarations' \subseteq Registration' /\ errors' \subseteq DOMAIN nodes'
    BY <2>1, <2>2, <2>5, <2>6, <2>7, EmplaceTypes DEF IInv
  <2> QED
    BY <2>1, <2>2, <2>8, CallKeeps DEF Context
<1> QED
  BY <1>1, <1>2

LEMMA ProcedureKeeps == ASSUME IInv, [Next]_vars, VisitProcedure PROVE IInv'
<1>1. visited \in DOMAIN nodes /\ here.kind = "procedure"
  BY DEF VisitProcedure, Visiting
<1>2. CASE current_procedure # Null
  <2>1. /\ UNCHANGED <<nodes, stack, current_block, current_procedure, declarations, errors>>
        /\ status' = "asserted"
    BY <1>2 DEF VisitProcedure, Stop
  <2>2. TypeOK'
    BY <2>1 DEF IInv, TypeOK, WellFormed, Shaped, Links, IsA, Visits, Registration, Address,
                BlockOrNull, ProcOrNull, NodesOf, Status
  <2>3. Frames' /\ ContextIsInnermost'
    BY <2>1 DEF IInv, Frames, ContextIsInnermost, Innermost, IsA
  <2>4. \E k \in DOMAIN stack : IsA(stack[k].node, "procedure")
    <3>1. \E k \in 1 .. Len(stack) : IsA(stack[k].node, "procedure")
      BY <1>2 DEF IInv, ContextIsInnermost, Innermost
    <3> QED
      BY <3>1 DEF IInv, TypeOK
  <2>5. AssertMeansNested'
    BY <1>1, <2>1, <2>4 DEF AssertMeansNested, IsA, visited, top, here
  <2> QED
    BY <2>2, <2>3, <2>5 DEF IInv
<1>3. CASE current_procedure = Null
  <2>1. /\ Visiting({"procedure"}) /\ Enter(current_block, visited) /\ status' = status
        /\ UNCHANGED nodes
        /\ \/ UNCHANGED <<declarations, errors>>
           \/ ~here.flag /\ RegisterArguments(Arguments(visited))
    BY <1>3 DEF VisitProcedure
  <2>2. /\ declarations \subseteq Registration' /\ errors \subseteq DOMAIN nodes'
        /\ Registration' = Registration /\ DOMAIN nodes' = DOMAIN nodes
    BY <2>1, VisitsStay DEF IInv, TypeOK, Registration, NodesOf
  <2>3. CASE ~here.flag /\ RegisterArguments(Arguments(visited))
    <3> DEFINE arguments == Arguments(visited)
    <3>1. Shaped(visited)
      BY <1>1 DEF IInv, TypeOK, WellFormed
    <3>2. Body(visited) \in NodesOf("block")
      BY <1>1, <2>3, <3>1 DEF Shaped, Links, IsA, Body, NodesOf, here
    <3>3. PICK signature \in DOMAIN nodes :
            /\ signature = nodes[visited].links[1]
            /\ nodes[signature].kind = "procedure_signature"
      BY <1>1, <3>1 DEF Shaped, Links, IsA, here
    <3>4. /\ \A k \in 1 .. Len(nodes[signature].links) - 1 :
               nodes[signature].links[k] \in NodesOf("declaration")
          /\ nodes[signature].links \in Seq(Nat) /\ Len(nodes[signature].links) \in Nat \ {0}
      <4>1. Shaped(signature) /\ nodes[signature].links \in Seq(Nat)
        BY <3>3, NodeNames DEF IInv, TypeOK
      <4>2. nodes[signature].links # <<>>
            /\ \A k \in 1 .. Len(nodes[signature].links) - 1 :
                 IsA(nodes[signature].links[k], "declaration")
        BY <3>3, <4>1 DEF Shaped, Links
      <4>3. Len(nodes[signature].links) \in Nat \ {0}
        BY <4>1, <4>2
      <4> QED
        BY <4>1, <4>2, <4>3 DEF IsA, NodesOf
    <3>5. arguments = SubSeq(nodes[signature].links, 1, Len(nodes[signature].links) - 1)
      BY <3>3 DEF Arguments
    <3> HIDE DEF arguments
    <3>6. /\ DOMAIN arguments = 1 .. Len(nodes[signature].links) - 1
          /\ \A k \in DOMAIN arguments : arguments[k] = nodes[signature].links[k]
      <4>1. PICK n \in Nat : Len(nodes[signature].links) = n + 1
        <5>1. \A m \in Nat \ {0} : m - 1 \in Nat /\ m = (m - 1) + 1
          OBVIOUS
        <5>2. Len(nodes[signature].links) \in Nat \ {0}
          BY <3>4
        <5> QED
          BY <5>1, <5>2, Zenon
      <4>2. arguments = SubSeq(nodes[signature].links, 1, n) /\ n = Len(nodes[signature].links) - 1
        BY <3>4, <3>5, <4>1
      <4>3. arguments \in Seq(Nat) /\ Len(arguments) = n
            /\ \A k \in 1 .. n : arguments[k] = nodes[signature].links[k]
        BY <3>4, <4>1, <4>2, Shorter
      <4> QED
        BY <4>2, <4>3
    <3>7. \A k \in DOMAIN arguments :
            arguments[k] \in NodesOf("declaration") /\ nodes[arguments[k]].name \in STRING
      <4>1. \A k \in DOMAIN arguments : arguments[k] \in NodesOf("declaration")
        BY <3>4, <3>6
      <4> QED
        BY <4>1, NodeNames DEF NodesOf, IInv, TypeOK
    <3>8. \A k \in DOMAIN arguments :
            [block |-> Body(visited), name |-> nodes[arguments[k]].name,
             declaration |-> arguments[k]] \in Registration
      BY <3>2, <3>7 DEF Registration
    <3>9. \A k \in DOMAIN arguments : arguments[k] \in DOMAIN nodes
      BY <3>7 DEF NodesOf
    <3>10. RegisterArguments(arguments)
      BY <2>3 DEF arguments
    <3> QED
      BY <2>1, <2>2, <2>3, <3>8, <3>9, <3>10, CallKeeps, <1>1 DEF RegisterArguments, Context
  <2>4. CASE UNCHANGED <<declarations, errors>>
    BY <1>1, <2>1, <2>2, <2>4, CallKeeps DEF Context
  <2> QED
    BY <2>1, <2>3, <2>4
<1> QED
  BY <1>2, <1>3

LEMMA Inductive == IInv /\ [Next]_vars => IInv'
<1> SUFFICES ASSUME IInv, [Next]_vars PROVE IInv'
  OBVIOUS
<1>1. CASE UNCHANGED vars
  <2>1. /\ nodes' = nodes /\ stack' = stack /\ status' = status
        /\ current_block' = current_block /\ current_procedure' = current_procedure
        /\ declarations' = declarations /\ errors' = errors
    BY <1>1 DEF vars
  <2>2. TypeOK'
    BY <2>1 DEF IInv, TypeOK, WellFormed, Shaped, Links, IsA, Visits, Registration, Address,
                BlockOrNull, ProcOrNull, NodesOf
  <2>3. Frames' /\ ContextIsInnermost'
    BY <2>1 DEF IInv, Frames, ContextIsInnermost, Innermost, IsA
  <2>4. AssertMeansNested'
    BY <2>1 DEF IInv, AssertMeansNested, visited, top, IsA
  <2> QED
    BY <2>2, <2>3, <2>4 DEF IInv
<1>2. CASE Next
  BY <1>2, NullKeeps, LeaveKeeps, BlockKeeps, DeclarationKeeps, LabelKeeps, ProcedureKeeps
  DEF Next
<1> QED
  BY <1>1, <1>2

-----------------------------------------------------------------------------
(***************************************************************************)
(* DeclarationRegistrar only ever follows links to nodes there are, and    *)
(* registers declarations in blocks, by the names of declarations.         *)
(***************************************************************************)
THEOREM TypeCorrect == Spec => []TypeOK
<1>1. IInv => TypeOK
  BY DEF IInv
<1> QED
  BY <1>1, InitInv, Inductive, PTL DEF Spec

(***************************************************************************)
(* SET_TEMPORARILY in ::visit: however the nodes nest, current_block and   *)
(* current_procedure are the innermost ones around the node visited.       *)
(***************************************************************************)
THEOREM InnermostContext == Spec => []ContextIsInnermost
<1>1. IInv => ContextIsInnermost
  BY DEF IInv
<1> QED
  BY <1>1, InitInv, Inductive, PTL DEF Spec

(***************************************************************************)
(* The assertion in ::visit (node.h) fails for no module whose procedures  *)
(* are not inside of one another.                                          *)
(***************************************************************************)
THEOREM NestedProceduresAssert == Spec => []AssertMeansNested
<1>1. IInv => AssertMeansNested
  BY DEF IInv
<1> QED
  BY <1>1, InitInv, Inductive, PTL DEF Spec

==============================================================================
