---------------------- MODULE DeclarationErrorsProofs ----------------------
(***************************************************************************)
(* For every module, whatever its text and the order its declarations are  *)
(* reached in: the errors left at the end are those of the text            *)
(* (ErrorsExact), and what is accepted has types (AcceptedIsSound).        *)
(*                                                                         *)
(* The first half is about the text: the recursive functions Inside and    *)
(* Report, which TLA+ defines by CHOOSE, satisfy their equations because   *)
(* blocks do not nest without end, and Report is what is reported of one   *)
(* error at a time (ReportBySite).  The second half follows the walk.      *)
(***************************************************************************)
EXTENDS DeclarationCheckingProofs, WellFoundedInduction

-----------------------------------------------------------------------------
(* Numbers. *)

(* A set of numbers has a least one. *)
LEMMA LeastNumber ==
  ASSUME NEW T, T \subseteq Nat, T # {}
  PROVE  \E x \in T : \A y \in T : x <= y
<1> DEFINE Below == {ss \in Nat \X Nat : ss[1] < ss[2]}
<1>1. IsWellFoundedOn(Below, Nat)
  BY NatLessThanWellFounded DEF OpToRel
<1>2. PICK x \in T : \A y \in T : <<y, x>> \notin Below
  <2> HIDE DEF Below
  <2> QED BY <1>1, WFMin
<1>3. ASSUME NEW y \in T PROVE x <= y
  <2>1. <<y, x>> \in Nat \X Nat /\ <<y, x>>[1] = y /\ <<y, x>>[2] = x
    OBVIOUS
  <2> QED BY <1>2, <2>1
<1> QED BY <1>3

(* Induction on a set of numbers. *)
LEMMA SetInduction ==
  ASSUME NEW T, 0 \in T, \A n \in Nat : n \in T => n + 1 \in T
  PROVE  Nat \subseteq T
<1> DEFINE Rest == {n \in Nat : n \notin T}
<1>1. CASE Rest = {}
  BY <1>1
<1>2. CASE Rest # {}
  <2>1. PICK n \in Rest : \A k \in Rest : n <= k
    <3>1. Rest \subseteq Nat
      OBVIOUS
    <3> QED BY <1>2, <3>1, LeastNumber
  <2>2. n \in Nat /\ n # 0 /\ n \notin T
    BY <2>1
  <2>3. n - 1 \in Nat /\ n - 1 \notin Rest /\ (n - 1) + 1 = n
    BY <2>1, <2>2
  <2>4. n - 1 \in T
    BY <2>3
  <2> QED BY <2>2, <2>3, <2>4
<1> QED BY <1>1, <1>2

-----------------------------------------------------------------------------
(* The text is a tree. *)

(* How deep things can get below u. *)
Deepest == CHOOSE b \in Block : \A c \in Block : Len(prog.scopes[c]) <= Len(prog.scopes[b])
Rank(u) ==
  2 * (Len(prog.scopes[Deepest]) - Len(prog.scopes[Lexical(prog, u)]))
    + IF u \in Decl THEN 0 ELSE 1

LEMMA TextFacts ==
  ASSUME prog \in Programs
  PROVE  /\ prog \in Program /\ Registered(prog) /\ Nested(prog)
         /\ prog.module \in Block /\ prog.expects \subseteq Block
         /\ prog.scopes \in [Block -> Seq(Block)]
         /\ prog.home \in [Decl -> Block]
         /\ prog.items \in [Unit -> Seq(Item)]
         /\ \A u \in Unit : prog.items[u] \in Seq(Item) /\ Lexical(prog, u) \in Block
<1>1. prog \in Program /\ Registered(prog) /\ Nested(prog)
  BY ProgramsAssumption
<1>2. prog.home \in [Decl -> Block] /\ prog.items \in [Unit -> Seq(Item)]
  BY <1>1 DEF Program
<1>3. \A u \in Unit : prog.items[u] \in Seq(Item) /\ Lexical(prog, u) \in Block
  BY <1>2 DEF Lexical, Unit
<1> QED BY <1>1, <1>2, <1>3 DEF Program

LEMMA OnePlace ==
  ASSUME prog \in Programs, NEW x \in Unit, NEW y \in Unit, NEW v \in Unit,
         NEW i \in DOMAIN prog.items[x], NEW j \in DOMAIN prog.items[y],
         Contains(prog, x, i, v), Contains(prog, y, j, v)
  PROVE  x = y /\ i = j
<1>1. Nested(prog)
  BY TextFacts
<1> QED BY <1>1, Zenon DEF Nested

LEMMA ChildFacts ==
  ASSUME prog \in Programs, NEW u \in Unit, NEW v \in Children(u)
  PROVE  /\ v \in Unit /\ v # prog.module
         /\ \A w \in Unit : v \in Children(w) => w = u
         /\ v \in Decl => u \in Block /\ prog.home[v] = u /\ Lexical(prog, v) = Lexical(prog, u)
         /\ v \in Block => /\ Lexical(prog, v) = v
                           /\ prog.scopes[v] = <<v>> \o prog.scopes[Lexical(prog, u)]
<1>1. PICK i \in DOMAIN prog.items[u] : Contains(prog, u, i, v)
  BY DEF Children
<1>2. v \in Unit /\ Nested(prog) /\ Registered(prog)
  BY TextFacts DEF Children
<1>3. v # prog.module /\ \A w \in Unit : v \in Children(w) => w = u
  BY <1>1, <1>2 DEF Nested, Children
<1>4. v \in Decl => u \in Block /\ prog.home[v] = u
  <2>1. prog.items[u][i] \in Item
    BY <1>1, TextFacts
  <2>2. prog.items[u][i].op = "block" => prog.items[u][i].block \in Block
    BY <2>1 DEF Item
  <2> QED BY <1>1, <1>2, <2>2, UnitsAssumption DEF Contains, Registered
<1>5. v \in Decl => Lexical(prog, v) = Lexical(prog, u)
  BY <1>4, UnitsAssumption DEF Lexical
<1>6. v \in Block => Lexical(prog, v) = v /\ prog.scopes[v] = <<v>> \o prog.scopes[Lexical(prog, u)]
  BY <1>1, <1>2, UnitsAssumption DEF Nested, Lexical
<1> QED BY <1>2, <1>3, <1>4, <1>5, <1>6

LEMMA RankDecreases ==
  ASSUME prog \in Programs, NEW u \in Unit
  PROVE  /\ Rank(u) \in Nat
         /\ \A v \in Children(u) : Rank(v) < Rank(u)
<1> DEFINE L(b) == Len(prog.scopes[b])
<1>1. \A b \in Block : L(b) \in Nat
  BY TextFacts
<1>2. Deepest \in Block /\ \A c \in Block : L(c) <= L(Deepest)
  <2>1. \E b \in Block : \A c \in Block : L(c) <= L(b)
    BY TextFacts DEF Nested
  <2> QED BY <2>1 DEF Deepest
<1>3. Lexical(prog, u) \in Block
  BY TextFacts
<1>4. \A w : Rank(w) = 2 * (L(Deepest) - L(Lexical(prog, w))) + IF w \in Decl THEN 0 ELSE 1
  BY DEF Rank
<1>5. Rank(u) \in Nat
  <2>1. L(Lexical(prog, u)) \in Nat /\ L(Deepest) \in Nat /\ L(Lexical(prog, u)) <= L(Deepest)
    BY <1>1, <1>2, <1>3
  <2> HIDE DEF L
  <2> QED BY <1>4, <2>1
<1>6. ASSUME NEW v \in Children(u) PROVE Rank(v) < Rank(u)
  <2>1. L(Lexical(prog, u)) \in Nat /\ L(Deepest) \in Nat
    BY <1>1, <1>2, <1>3
  <2>2. CASE v \in Decl
    <3>1. Lexical(prog, v) = Lexical(prog, u) /\ u \notin Decl
      BY <2>2, ChildFacts, UnitsAssumption
    <3> HIDE DEF L
    <3> QED BY <1>4, <2>1, <2>2, <3>1
  <2>3. CASE v \in Block
    <3>1. Lexical(prog, v) = v /\ prog.scopes[v] = <<v>> \o prog.scopes[Lexical(prog, u)]
      BY <2>3, ChildFacts
    <3>2. prog.scopes[Lexical(prog, u)] \in Seq(Block) /\ <<v>> \in Seq(Block)
      BY <1>3, <2>3, TextFacts
    <3>3. L(Lexical(prog, v)) = L(Lexical(prog, u)) + 1
      BY <3>1, <3>2
    <3>4. v \notin Decl
      BY <2>3, UnitsAssumption
    <3> HIDE DEF L
    <3> QED BY <1>4, <2>1, <3>3, <3>4
  <2> QED BY <2>2, <2>3, ChildFacts DEF Unit
<1> QED BY <1>5, <1>6

(* Induction from the leaves up. *)
LEMMA TextInduction ==
  ASSUME prog \in Programs, NEW Good,
         \A u \in Unit : Children(u) \subseteq Good => u \in Good
  PROVE  Unit \subseteq Good
<1> DEFINE Ranks == {Rank(u) : u \in {v \in Unit : v \notin Good}}
<1>1. CASE Ranks = {}
  BY <1>1
<1>2. CASE Ranks # {}
  <2>1. Ranks \subseteq Nat
    BY RankDecreases
  <2>2. PICK n \in Ranks : \A k \in Ranks : n <= k
    <3> HIDE DEF Ranks
    <3> QED BY <1>2, <2>1, LeastNumber
  <2>3. PICK u \in Unit : u \notin Good /\ Rank(u) = n
    BY <2>2
  <2>4. ASSUME NEW v \in Children(u) PROVE v \in Good
    <3>1. v \in Unit /\ Rank(v) < n /\ n \in Nat /\ Rank(v) \in Nat
      BY <2>3, RankDecreases DEF Children
    <3>2. v \notin Good => n <= Rank(v)
      BY <2>2, <3>1
    <3> QED BY <3>1, <3>2
  <2> QED BY <2>3, <2>4
<1> QED BY <1>1, <1>2

-----------------------------------------------------------------------------
(* What is inside what. *)

Closed(T) == \A u \in T : Children(u) \subseteq T

(* The units every closed set with u in it has, which solve the equation   *)
(* that defines Inside.                                                    *)
Descendants(u) == {v \in Unit : \A T \in SUBSET Unit : u \in T /\ Closed(T) => v \in T}

LEMMA DescendantsUnfold ==
  ASSUME NEW u \in Unit
  PROVE  Descendants(u) = {u} \cup UNION {Descendants(v) : v \in Children(u)}
<1> DEFINE All == {u} \cup UNION {Descendants(v) : v \in Children(u)}
<1>1. Children(u) \subseteq Unit
  BY DEF Children
<1>2. All \subseteq Descendants(u)
  <2>1. u \in Descendants(u)
    BY DEF Descendants
  <2>2. ASSUME NEW v \in Children(u), NEW w \in Descendants(v) PROVE w \in Descendants(u)
    <3>1. ASSUME NEW T \in SUBSET Unit, u \in T, Closed(T) PROVE w \in T
      BY <2>2, <3>1 DEF Closed, Descendants
    <3> QED BY <2>2, <3>1 DEF Descendants
  <2> QED BY <2>1, <2>2
<1>3. All \in SUBSET Unit
  BY DEF Descendants
<1>4. Closed(All)
  <2>1. \A v \in Children(u) : v \in Descendants(v)
    BY <1>1 DEF Descendants
  <2>2. Children(u) \subseteq All
    BY <2>1
  <2>3. ASSUME NEW v \in Children(u), NEW w \in Descendants(v), NEW x \in Children(w)
        PROVE  x \in Descendants(v)
    <3>1. x \in Unit
      BY DEF Children
    <3>2. ASSUME NEW T \in SUBSET Unit, v \in T, Closed(T) PROVE x \in T
      BY <2>3, <3>2 DEF Closed, Descendants
    <3> QED BY <3>1, <3>2 DEF Descendants
  <2>4. ASSUME NEW w \in All PROVE Children(w) \subseteq All
    <3>1. CASE w = u
      BY <2>2, <3>1
    <3>2. CASE w # u
      <4>1. PICK v \in Children(u) : w \in Descendants(v)
        BY <3>2
      <4> QED BY <2>3, <4>1
    <3> QED BY <3>1, <3>2
  <2> HIDE DEF All
  <2> QED BY <2>4 DEF Closed
<1>5. u \in All
  OBVIOUS
<1>6. Descendants(u) \subseteq All
  <2> HIDE DEF All
  <2> QED BY <1>3, <1>4, <1>5 DEF Descendants
<1> QED BY <1>2, <1>6

LEMMA InsideUnfolds ==
  Inside = [u \in Unit |-> {u} \cup UNION {Inside[v] : v \in Children(u)}]
<1> DEFINE F == [u \in Unit |-> Descendants(u)]
<1>1. ASSUME NEW u \in Unit PROVE F[u] = {u} \cup UNION {F[v] : v \in Children(u)}
  <2>1. Children(u) \subseteq Unit
    BY DEF Children
  <2>2. {F[v] : v \in Children(u)} = {Descendants(v) : v \in Children(u)}
    BY <2>1
  <2> QED BY <2>2, DescendantsUnfold
<1>2. F = [u \in Unit |-> {u} \cup UNION {F[v] : v \in Children(u)}]
  BY <1>1
<1>3. \E G : G = [u \in Unit |-> {u} \cup UNION {G[v] : v \in Children(u)}]
  <2> HIDE DEF F
  <2> QED BY <1>2
<1> QED BY <1>3, Zenon DEF Inside

LEMMA InsideFacts ==
  ASSUME NEW u \in Unit
  PROVE  /\ Inside[u] = {u} \cup UNION {Inside[v] : v \in Children(u)}
         /\ u \in Inside[u]
         /\ \A v \in Children(u) : v \in Unit /\ Inside[v] \subseteq Inside[u]
<1>1. Inside[u] = {u} \cup UNION {Inside[v] : v \in Children(u)}
  BY InsideUnfolds
<1> QED BY <1>1 DEF Children

(* Everything inside u is in every closed set that u is in. *)
LEMMA InsideIsLeast ==
  ASSUME prog \in Programs, NEW T \in SUBSET Unit, Closed(T), NEW u \in T
  PROVE  Inside[u] \subseteq T
<1> DEFINE Good == {x \in Unit : x \in T => Inside[x] \subseteq T}
<1>1. ASSUME NEW x \in Unit, Children(x) \subseteq Good PROVE x \in Good
  <2>1. x \in T => \A v \in Children(x) : Inside[v] \subseteq T
    BY <1>1 DEF Closed
  <2> QED BY <2>1, InsideFacts
<1>2. Unit \subseteq Good
  <2> HIDE DEF Good
  <2> QED BY <1>1, TextInduction
<1> QED BY <1>2

LEMMA InsideIsClosed ==
  ASSUME prog \in Programs, NEW u \in Unit
  PROVE  /\ u \in Inside[u] /\ Inside[u] \in SUBSET Unit
         /\ Closed(Inside[u])
         /\ \A v \in Inside[u] : Inside[v] \subseteq Inside[u]
<1>1. Inside[u] \subseteq Unit
  <2>1. Closed(Unit)
    BY DEF Closed, Children
  <2> QED BY <2>1, InsideIsLeast
<1> DEFINE Good == {x \in Unit : Closed(Inside[x])}
<1>2. ASSUME NEW x \in Unit, Children(x) \subseteq Good PROVE x \in Good
  <2>1. ASSUME NEW y \in Inside[x] PROVE Children(y) \subseteq Inside[x]
    <3>1. CASE y = x
      BY <3>1, InsideFacts
    <3>2. CASE y # x
      <4>1. PICK v \in Children(x) : y \in Inside[v]
        BY <3>2, InsideFacts
      <4> QED BY <1>2, <4>1, InsideFacts DEF Closed
    <3> QED BY <3>1, <3>2
  <2> QED BY <2>1 DEF Closed
<1>3. Closed(Inside[u])
  <2>1. Unit \subseteq Good
    <3> HIDE DEF Good
    <3> QED BY <1>2, TextInduction
  <2> QED BY <2>1
<1>4. \A v \in Inside[u] : Inside[v] \subseteq Inside[u]
  BY <1>1, <1>3, InsideIsLeast
<1> QED BY <1>1, <1>3, <1>4, InsideFacts

(* What is inside b and not b itself is there with what it is part of. *)
LEMMA AroundInside ==
  ASSUME prog \in Programs, NEW b \in Unit, NEW v \in Inside[b], v # b
  PROVE  /\ \E u \in Unit : v \in Children(u)
         /\ \A u \in Unit : v \in Children(u) => u \in Inside[b]
<1> DEFINE T == {x \in Inside[b] : x # b =>
                   /\ \E u \in Unit : x \in Children(u)
                   /\ \A u \in Unit : x \in Children(u) => u \in Inside[b]}
<1>1. Inside[b] \in SUBSET Unit /\ Closed(Inside[b]) /\ b \in Inside[b]
  BY InsideIsClosed
<1>2. ASSUME NEW x \in T, NEW y \in Children(x) PROVE y \in T
  <2>1. x \in Unit /\ x \in Inside[b] /\ y \in Inside[b]
    BY <1>1 DEF Closed
  <2>2. \A u \in Unit : y \in Children(u) => u = x
    BY <2>1, ChildFacts
  <2> QED BY <2>1, <2>2
<1>3. Inside[b] \subseteq T
  <2>1. T \in SUBSET Unit /\ b \in T
    BY <1>1
  <2> HIDE DEF T
  <2> QED BY <1>2, <2>1, InsideIsLeast DEF Closed
<1> QED BY <1>3

LEMMA ChildrenAreBelow ==
  ASSUME prog \in Programs, NEW u \in Unit, NEW v \in Children(u)
  PROVE  u \notin Inside[v]
<1> DEFINE T == {x \in Unit : Rank(x) < Rank(u)}
<1>1. ASSUME NEW x \in T, NEW y \in Children(x) PROVE y \in T
  <2>1. x \in Unit /\ y \in Unit /\ Rank(y) < Rank(x) /\ Rank(x) < Rank(u)
    BY RankDecreases DEF Children
  <2>2. Rank(y) \in Nat /\ Rank(x) \in Nat /\ Rank(u) \in Nat
    BY <2>1, RankDecreases
  <2> QED BY <2>1, <2>2
<1>2. v \in T /\ T \in SUBSET Unit
  BY RankDecreases DEF Children
<1>3. Inside[v] \subseteq T
  <2> HIDE DEF T
  <2> QED BY <1>1, <1>2, InsideIsLeast DEF Closed
<1>4. u \notin T
  BY RankDecreases
<1> QED BY <1>3, <1>4

(* A set that has, with anything, what it is part of. *)
Rooted(T) == \A u \in Unit : \A v \in Children(u) : v \in T => u \in T

LEMMA RootedHasAll ==
  ASSUME prog \in Programs, NEW T, Rooted(T), NEW b \in Unit, NEW v \in Inside[b], v \in T
  PROVE  b \in T
<1> DEFINE S == {x \in Unit : x \notin T}
<1>1. ASSUME b \notin T PROVE FALSE
  <2>1. S \in SUBSET Unit /\ b \in S /\ Closed(S)
    BY <1>1 DEF Rooted, Closed, Children
  <2>2. Inside[b] \subseteq S
    <3> HIDE DEF S
    <3> QED BY <2>1, InsideIsLeast
  <2> QED BY <2>2
<1> QED BY <1>1

LEMMA ModuleIsRooted ==
  ASSUME prog \in Programs
  PROVE  /\ prog.module \in Unit /\ prog.module \in Inside[prog.module]
         /\ Inside[prog.module] \in SUBSET Unit
         /\ Closed(Inside[prog.module]) /\ Rooted(Inside[prog.module])
         /\ \A b \in Unit : prog.module \in Inside[b] => b = prog.module
<1>1. prog.module \in Unit /\ \A u \in Unit : prog.module \notin Children(u)
  BY TextFacts, ChildFacts DEF Unit
<1>2. \A b \in Unit : prog.module \in Inside[b] => b = prog.module
  BY <1>1, AroundInside
<1>3. Rooted(Inside[prog.module])
  BY <1>1, AroundInside DEF Rooted
<1> QED BY <1>1, <1>2, <1>3, InsideIsClosed

-----------------------------------------------------------------------------
(* What a unit names. *)

Chain(u) == {prog.scopes[Lexical(prog, u)][i] : i \in DOMAIN prog.scopes[Lexical(prog, u)]}

(* The blocks on a parent_block chain are those around. *)
LEMMA ChainIsAround ==
  ASSUME prog \in Programs, NEW u \in Inside[prog.module], NEW h \in Chain(u)
  PROVE  h \in Block /\ u \in Inside[h]
<1> DEFINE T == {x \in Unit : \A c \in Chain(x) : c \in Block /\ x \in Inside[c]}
<1>1. prog.module \in T
  <2>1. Lexical(prog, prog.module) = prog.module /\ prog.scopes[prog.module] = <<prog.module>>
    BY TextFacts, UnitsAssumption DEF Lexical, Nested
  <2>2. Chain(prog.module) = {prog.module}
    BY <2>1 DEF Chain
  <2> QED BY <2>2, TextFacts, ModuleIsRooted
<1>2. ASSUME NEW x \in T, NEW y \in Children(x) PROVE y \in T
  <2>1. x \in Unit /\ y \in Unit
    BY DEF Children
  <2>2. \A c \in Block : x \in Inside[c] => y \in Inside[c]
    BY <2>1, InsideIsClosed DEF Closed, Unit
  <2>3. Chain(y) \subseteq Chain(x) \cup {y} /\ (y \in Chain(y) => y \in Block)
    <3>1. CASE y \in Decl
      <4>1. Lexical(prog, y) = Lexical(prog, x)
        BY <2>1, <3>1, ChildFacts
      <4> QED BY <4>1 DEF Chain
    <3>2. CASE y \in Block
      <4>1. Lexical(prog, y) = y /\ prog.scopes[y] = <<y>> \o prog.scopes[Lexical(prog, x)]
        BY <2>1, <3>2, ChildFacts
      <4>2. prog.scopes[Lexical(prog, x)] \in Seq(Block)
        BY <2>1, TextFacts
      <4>3. \A i \in DOMAIN prog.scopes[y] :
              \/ prog.scopes[y][i] = y
              \/ /\ i - 1 \in DOMAIN prog.scopes[Lexical(prog, x)]
                 /\ prog.scopes[y][i] = prog.scopes[Lexical(prog, x)][i - 1]
        BY <3>2, <4>1, <4>2
      <4> QED BY <3>2, <4>1, <4>3 DEF Chain
    <3> QED BY <2>1, <3>1, <3>2 DEF Unit
  <2>4. y \in Inside[y]
    BY <2>1, InsideIsClosed
  <2>5. \A c \in Chain(x) : c \in Block /\ x \in Inside[c]
    OBVIOUS
  <2>6. \A c \in Chain(y) : c \in Block /\ y \in Inside[c]
    BY <2>2, <2>3, <2>4, <2>5
  <2> QED BY <2>1, <2>6
<1>3. Inside[prog.module] \subseteq T
  <2>1. T \in SUBSET Unit
    OBVIOUS
  <2> HIDE DEF T
  <2> QED BY <1>1, <1>2, <2>1, InsideIsLeast DEF Closed
<1> QED BY <1>3

LEMMA NamedFacts ==
  ASSUME prog \in Programs, NEW u \in Inside[prog.module], NEW n,
         NEW d, d = find_declaration(prog, Lexical(prog, u), n), d # NoDecl
  PROVE  /\ d \in Decl /\ prog.home[d] \in Block
         /\ d \in Children(prog.home[d]) /\ u \in Inside[prog.home[d]]
<1>1. d \in Decl /\ prog.home[d] \in Chain(u)
  <2> DEFINE chain == prog.scopes[Lexical(prog, u)]
             found == {x \in Decl : \E i \in DOMAIN chain :
                  /\ x \in Declares(prog, chain[i], n)
                  /\ \A j \in 1 .. i - 1 : Declares(prog, chain[j], n) = {}}
  <2>1. found # {} /\ d = CHOOSE x \in found : TRUE
    BY DEF find_declaration
  <2>2. d \in found
    <3> HIDE DEF found
    <3> QED BY <2>1
  <2>3. \E i \in DOMAIN chain : d \in Declares(prog, chain[i], n)
    BY <2>2
  <2> QED BY <2>2, <2>3 DEF Declares, Chain
<1>2. prog.home[d] \in Block /\ u \in Inside[prog.home[d]]
  BY <1>1, ChainIsAround
<1>3. d \in Children(prog.home[d])
  BY <1>1, TextFacts DEF Nested, Children, Unit
<1> QED BY <1>1, <1>2, <1>3

(* What a unit needs is in the module, and near. *)
LEMMA NeededFacts ==
  ASSUME prog \in Programs, NEW u \in Inside[prog.module], NEW v \in Unit, Needs(prog, u, v)
  PROVE  /\ v \in Inside[prog.module]
         /\ \A w \in Unit : v \in Children(w) => u \in Inside[w]
         /\ \A b \in Block : v \in Inside[b] => u \in Inside[b] \/ v = b
         /\ SelfContained => \A b \in prog.expects : u \in Inside[b] => v \in Inside[b]
<1>1. u \in Unit /\ Closed(Inside[prog.module])
  BY ModuleIsRooted
<1>2. CASE v \in Children(u)
  <2>1. v \in Inside[prog.module] /\ u \in Inside[u]
    BY <1>1, <1>2, InsideIsClosed DEF Closed
  <2>2. \A w \in Unit : v \in Children(w) => w = u
    BY <1>1, <1>2, ChildFacts
  <2>3. \A b \in Block : v \in Inside[b] /\ v # b => u \in Inside[b]
    BY <1>1, <1>2, AroundInside DEF Unit
  <2>4. \A b \in Block : u \in Inside[b] => v \in Inside[b]
    BY <1>1, <1>2, InsideIsClosed DEF Closed, Unit
  <2> QED BY <2>1, <2>2, <2>3, <2>4, TextFacts
<1>3. CASE v \notin Children(u)
  <2>1. PICK i \in DOMAIN prog.items[u] :
          /\ prog.items[u][i].op = "use" /\ v \in Decl
          /\ v = find_declaration(prog, Lexical(prog, u), prog.items[u][i].name)
    BY <1>1, <1>3 DEF Needs, Children
  <2>2. v # NoDecl
    BY <2>1, UnitsAssumption
  <2>3. /\ v \in Decl /\ prog.home[v] \in Block
        /\ v \in Children(prog.home[v]) /\ u \in Inside[prog.home[v]]
    BY <2>1, <2>2, NamedFacts
  <2>4. prog.home[v] \in Unit /\ prog.home[v] \in Inside[prog.module]
    BY <2>3, ModuleIsRooted, RootedHasAll DEF Unit
  <2>5. v \in Inside[prog.module]
    BY <1>1, <2>3, <2>4 DEF Closed
  <2>6. \A w \in Unit : v \in Children(w) => w = prog.home[v]
    BY <2>3, <2>4, ChildFacts
  <2>7. ASSUME NEW b \in Block, v \in Inside[b] PROVE u \in Inside[b]
    <3>1. v # b
      BY <2>3, UnitsAssumption
    <3>2. prog.home[v] \in Inside[b]
      BY <2>3, <2>4, <2>7, <3>1, AroundInside DEF Unit
    <3> QED BY <2>3, <3>2, InsideIsClosed DEF Unit
  <2>8. SelfContained => \A b \in prog.expects : u \in Inside[b] => v \in Inside[b]
    BY <2>1, <2>2 DEF SelfContained
  <2> QED BY <2>3, <2>5, <2>6, <2>7, <2>8
<1> QED BY <1>2, <1>3

-----------------------------------------------------------------------------
(* What should be reported. *)

ReportOf(u, F) ==
  LET all == OwnErrors(u) \cup UNION {F[v] : v \in Children(u)}
  IN  IF u \notin prog.expects THEN all
      ELSE IF all = {} THEN {[unit |-> u, at |-> 0]}
      ELSE {}

(* The equation of Report has a solution, found rank by rank. *)
LEMMA ReportExists ==
  ASSUME prog \in Programs
  PROVE  \E F : F = [u \in Unit |-> ReportOf(u, F)]
<1> DEFINE Solves(F, n) == \A u \in Unit : Rank(u) < n => F[u] = ReportOf(u, F)
           T == {n \in Nat : \E F : Solves(F, n)}
<1>1. \A u \in Unit : Rank(u) \in Nat /\ \A v \in Children(u) : v \in Unit /\ Rank(v) < Rank(u)
  BY RankDecreases DEF Children
<1>2. 0 \in T
  <2>1. \A F : Solves(F, 0)
    BY <1>1
  <2> QED BY <2>1
<1>3. ASSUME NEW n \in Nat, n \in T PROVE n + 1 \in T
  <2>1. PICK F : Solves(F, n)
    BY <1>3
  <2> DEFINE G == [u \in Unit |-> IF Rank(u) < n THEN F[u] ELSE ReportOf(u, F)]
  <2>2. ASSUME NEW u \in Unit, Rank(u) < n + 1 PROVE G[u] = ReportOf(u, G)
    <3>1. G[u] = ReportOf(u, F)
      BY <2>1
    <3>2. \A v \in Children(u) : G[v] = F[v]
      BY <1>1, <2>2
    <3>3. {G[v] : v \in Children(u)} = {F[v] : v \in Children(u)}
      BY <3>2
    <3>4. ReportOf(u, G) = ReportOf(u, F)
      <4> HIDE DEF G
      <4> QED BY <3>3 DEF ReportOf
    <3> QED BY <3>1, <3>4
  <2>3. Solves(G, n + 1)
    BY <2>2
  <2>4. \E H : Solves(H, n + 1)
    <3> HIDE DEF G, Solves
    <3> QED BY <2>3
  <2> QED BY <2>4
<1>4. PICK top_rank \in Nat : \A u \in Unit : Rank(u) < top_rank
  <2> DEFINE L(b) == Len(prog.scopes[b])
  <2>1. \A b \in Block : L(b) \in Nat
    BY TextFacts
  <2>2. L(Deepest) \in Nat
    <3>1. Deepest \in Block
      BY TextFacts DEF Deepest, Nested
    <3> QED BY <2>1, <3>1
  <2>3. ASSUME NEW u \in Unit PROVE Rank(u) < 2 * L(Deepest) + 2
    <3>1. L(Lexical(prog, u)) \in Nat
      BY <2>1, TextFacts
    <3>2. Rank(u) = 2 * (L(Deepest) - L(Lexical(prog, u))) + IF u \in Decl THEN 0 ELSE 1
      BY DEF Rank
    <3> HIDE DEF L
    <3> QED BY <2>2, <3>1, <3>2
  <2>4. 2 * L(Deepest) + 2 \in Nat
    BY <2>2
  <2> QED BY <2>3, <2>4
<1>5. top_rank \in T
  <2>1. Nat \subseteq T
    <3> HIDE DEF T
    <3> QED BY <1>2, <1>3, SetInduction
  <2> QED BY <2>1
<1>6. PICK F : \A u \in Unit : F[u] = ReportOf(u, F)
  <2>1. PICK F : Solves(F, top_rank)
    BY <1>5
  <2> QED BY <1>4, <2>1
<1> DEFINE G == [u \in Unit |-> F[u]]
<1>7. ASSUME NEW u \in Unit PROVE G[u] = ReportOf(u, G)
  <2>1. \A v \in Children(u) : G[v] = F[v]
    BY <1>1
  <2>2. {G[v] : v \in Children(u)} = {F[v] : v \in Children(u)}
    BY <2>1
  <2>3. ReportOf(u, G) = ReportOf(u, F)
    <3> HIDE DEF G
    <3> QED BY <2>2 DEF ReportOf
  <2> QED BY <1>6, <2>3
<1>8. G = [u \in Unit |-> ReportOf(u, G)]
  BY <1>7
<1> HIDE DEF G
<1> QED BY <1>8

LEMMA ReportUnfolds ==
  ASSUME prog \in Programs, NEW u \in Unit
  PROVE  Report[u] = ReportOf(u, Report)
<1>1. \E F : F = [x \in Unit |->
         LET all == OwnErrors(x) \cup UNION {F[v] : v \in Children(x)}
         IN  IF x \notin prog.expects THEN all
             ELSE IF all = {} THEN {[unit |-> x, at |-> 0]}
             ELSE {}]
  BY ReportExists DEF ReportOf
<1>2. Report = [x \in Unit |->
         LET all == OwnErrors(x) \cup UNION {Report[v] : v \in Children(x)}
         IN  IF x \notin prog.expects THEN all
             ELSE IF all = {} THEN {[unit |-> x, at |-> 0]}
             ELSE {}]
  BY <1>1, Zenon DEF Report
<1>3. Report[u] = LET all == OwnErrors(u) \cup UNION {Report[v] : v \in Children(u)}
                  IN  IF u \notin prog.expects THEN all
                      ELSE IF all = {} THEN {[unit |-> u, at |-> 0]}
                      ELSE {}
  <2> DEFINE R(x) == LET all == OwnErrors(x) \cup UNION {Report[v] : v \in Children(x)}
                     IN  IF x \notin prog.expects THEN all
                         ELSE IF all = {} THEN {[unit |-> x, at |-> 0]}
                         ELSE {}
  <2>1. Report = [x \in Unit |-> R(x)]
    BY <1>2
  <2>2. Report[u] = R(u)
    <3> HIDE DEF R
    <3> QED BY <2>1
  <2> QED BY <2>2
<1> QED BY <1>3 DEF ReportOf

(* All that is wrong in u, whether or not u expects it. *)
All(u) == OwnErrors(u) \cup UNION {Report[v] : v \in Children(u)}

(* A site at which something is wrong: a broken rule, or an __error block  *)
(* with nothing wrong in it.                                               *)
Genuine(s) ==
  IF s.at = 0 THEN s.unit \in prog.expects /\ All(s.unit) = {}
  ELSE s.at \in DOMAIN prog.items[s.unit] /\ Breaks(s.unit, s.at)

(* The __error blocks around u, and those that take away an error at s.    *)
Enclosing(u) == {b \in prog.expects : u \in Inside[b]}
Around(s) == {b \in Enclosing(s.unit) : s # [unit |-> b, at |-> 0]}

LEMMA AroundFacts ==
  ASSUME prog \in Programs, NEW s \in Site
  PROVE  /\ s.unit \in Unit /\ s.at \in Nat /\ s = [unit |-> s.unit, at |-> s.at]
         /\ Around(s) = IF s.at = 0 THEN Enclosing(s.unit) \ {s.unit} ELSE Enclosing(s.unit)
<1>1. s.unit \in Unit /\ s.at \in Nat /\ s = [unit |-> s.unit, at |-> s.at]
  BY DEF Site
<1>2. \A b : s = [unit |-> b, at |-> 0] <=> s.at = 0 /\ s.unit = b
  <2>1. ASSUME NEW b, s = [unit |-> b, at |-> 0] PROVE s.at = 0 /\ s.unit = b
    BY <2>1
  <2> QED BY <1>1, <2>1
<1>3. Around(s) = IF s.at = 0 THEN Enclosing(s.unit) \ {s.unit} ELSE Enclosing(s.unit)
  BY <1>2 DEF Around
<1> QED BY <1>1, <1>3

(* The __error blocks around a part are those around the whole. *)
LEMMA EnclosingParts ==
  ASSUME prog \in Programs, NEW u \in Unit, NEW v \in Children(u)
  PROVE  Enclosing(v) \ {v} = Enclosing(u)
<1>1. v \in Unit /\ prog.expects \subseteq Unit
  BY TextFacts DEF Children, Unit
<1>2. ASSUME NEW b \in prog.expects, v \in Inside[b], v # b PROVE u \in Inside[b]
  BY <1>1, <1>2, AroundInside
<1>3. ASSUME NEW b \in prog.expects, u \in Inside[b] PROVE v \in Inside[b] /\ v # b
  BY <1>1, <1>3, InsideIsClosed, ChildrenAreBelow DEF Closed
<1> QED BY <1>2, <1>3 DEF Enclosing

LEMMA OwnErrorSites ==
  ASSUME prog \in Programs, NEW u \in Unit
  PROVE  OwnErrors(u) = {s \in Site : Genuine(s) /\ s.unit = u /\ s.at # 0}
<1>1. prog.items[u] \in Seq(Item)
  BY TextFacts
<1>2. DOMAIN prog.items[u] \subseteq Nat \ {0}
  BY <1>1
<1>3. ASSUME NEW s \in OwnErrors(u) PROVE s \in Site /\ Genuine(s) /\ s.unit = u /\ s.at # 0
  <2>1. s \in [unit : {u}, at : DOMAIN prog.items[u]] /\ Breaks(u, s.at)
    BY DEF OwnErrors
  <2>2. s.unit = u /\ s.at \in DOMAIN prog.items[u] /\ s \in Site
    BY <1>2, <2>1 DEF Site
  <2> QED BY <1>2, <2>1, <2>2 DEF Genuine
<1>4. ASSUME NEW s \in Site, Genuine(s), s.unit = u, s.at # 0 PROVE s \in OwnErrors(u)
  <2>1. s.at \in DOMAIN prog.items[u] /\ Breaks(u, s.at)
    BY <1>4 DEF Genuine
  <2>2. s \in [unit : {u}, at : DOMAIN prog.items[u]]
    BY <1>4, <2>1 DEF Site
  <2> QED BY <2>1, <2>2 DEF OwnErrors
<1> QED BY <1>3, <1>4

(* What is reported of u, one site at a time: nothing around it inside of  *)
(* u takes it away.                                                        *)
LEMMA ReportBySite ==
  ASSUME prog \in Programs, NEW u \in Unit
  PROVE  /\ All(u) = {s \in Site : Genuine(s) /\ s.unit \in Inside[u] /\ Around(s) = Enclosing(u)}
         /\ Report[u] = {s \in Site : Genuine(s) /\ s.unit \in Inside[u]
                                        /\ Around(s) = Enclosing(u) \ {u}}
<1> DEFINE Wrong(x, E) == {s \in Site : Genuine(s) /\ s.unit \in Inside[x] /\ Around(s) = E}
           Good == {x \in Unit : Report[x] = Wrong(x, Enclosing(x) \ {x})}
<1>1. ASSUME NEW x \in Unit, Children(x) \subseteq Good PROVE All(x) = Wrong(x, Enclosing(x))
  <2>1. \A v \in Children(x) : v \in Unit /\ Report[v] = Wrong(v, Enclosing(x))
    BY <1>1, EnclosingParts DEF Children
  <2>2. ASSUME NEW s \in All(x) PROVE s \in Wrong(x, Enclosing(x))
    <3>1. CASE s \in OwnErrors(x)
      <4>1. s \in Site /\ Genuine(s) /\ s.unit = x /\ s.at # 0
        BY <3>1, OwnErrorSites
      <4> QED BY <4>1, AroundFacts, InsideFacts
    <3>2. CASE s \notin OwnErrors(x)
      <4>1. PICK v \in Children(x) : s \in Report[v]
        BY <3>2 DEF All
      <4> QED BY <2>1, <4>1, InsideFacts
    <3> QED BY <3>1, <3>2
  <2>3. ASSUME NEW s \in Wrong(x, Enclosing(x)) PROVE s \in All(x)
    <3>1. s \in Site /\ Genuine(s) /\ s.unit \in Inside[x] /\ Around(s) = Enclosing(x)
      OBVIOUS
    <3>2. CASE s.unit = x
      <4>1. s.at # 0
        <5>1. SUFFICES ASSUME s.at = 0 PROVE FALSE
          OBVIOUS
        <5>2. x \in prog.expects /\ Around(s) = Enclosing(x) \ {x}
          BY <3>1, <3>2, <5>1, AroundFacts DEF Genuine
        <5>3. x \in Enclosing(x)
          BY <5>2, InsideFacts DEF Enclosing
        <5> QED BY <3>1, <5>2, <5>3
      <4> QED BY <3>1, <3>2, <4>1, OwnErrorSites DEF All
    <3>3. CASE s.unit # x
      <4>1. PICK v \in Children(x) : s.unit \in Inside[v]
        BY <3>1, <3>3, InsideFacts
      <4> QED BY <2>1, <3>1, <4>1 DEF All
    <3> QED BY <3>2, <3>3
  <2> QED BY <2>2, <2>3
<1>2. ASSUME NEW x \in Unit, All(x) = Wrong(x, Enclosing(x)) PROVE x \in Good
  <2>1. Report[x] = IF x \notin prog.expects THEN All(x)
                    ELSE IF All(x) = {} THEN {[unit |-> x, at |-> 0]}
                    ELSE {}
    BY ReportUnfolds DEF ReportOf, All
  <2>2. CASE x \notin prog.expects
    <3>1. Enclosing(x) \ {x} = Enclosing(x)
      BY <2>2 DEF Enclosing
    <3> QED BY <1>2, <2>1, <2>2, <3>1
  <2>3. CASE x \in prog.expects
    <3> DEFINE e == [unit |-> x, at |-> 0]
    <3>1. x \in Enclosing(x)
      BY <2>3, InsideFacts DEF Enclosing
    <3>2. e \in Site /\ e.unit = x /\ e.at = 0
      BY DEF Site
    <3>3. ASSUME NEW s \in Site, s.unit \in Inside[x], Around(s) = Enclosing(x) \ {x} PROVE s = e
      <4>1. x \in Enclosing(s.unit)
        BY <2>3, <3>3 DEF Enclosing
      <4> QED BY <3>3, <4>1 DEF Around
    <3>4. Around(e) = Enclosing(x) \ {x} /\ x \in Inside[x]
      BY <3>2, AroundFacts, InsideFacts
    <3>5. Genuine(e) <=> All(x) = {}
      BY <2>3, <3>2 DEF Genuine
    <3>6. Report[x] = IF All(x) = {} THEN {e} ELSE {}
      BY <2>1, <2>3
    <3> HIDE DEF e
    <3>7. Wrong(x, Enclosing(x) \ {x}) = IF All(x) = {} THEN {e} ELSE {}
      BY <3>2, <3>3, <3>4, <3>5
    <3> QED BY <3>6, <3>7
  <2> QED BY <2>2, <2>3
<1>3. Unit \subseteq Good
  <2>1. ASSUME NEW x \in Unit, Children(x) \subseteq Good PROVE x \in Good
    <3> HIDE DEF Good, Wrong
    <3> QED BY <1>1, <1>2, <2>1
  <2> HIDE DEF Good
  <2> QED BY <2>1, TextInduction
<1>4. All(u) = Wrong(u, Enclosing(u)) /\ u \in Good
  <2>1. Children(u) \subseteq Good
    BY <1>3 DEF Children
  <2> HIDE DEF Good, Wrong
  <2> QED BY <1>1, <1>3, <2>1
<1> QED BY <1>4

-----------------------------------------------------------------------------
(* How far the checker has come: W are the units it has finished. *)

OnStack == {stack[k].unit : k \in DOMAIN stack}
Reached(W) == W \cup OnStack

(* The frames are different units of the module, what is around each is    *)
(* below it, and a block is the item its caller has come to.               *)
FramesNest(W) ==
  /\ status = "done" => stack = <<>>
  /\ IF stack = <<>> THEN prog.module \in W ELSE stack[1].unit = prog.module
  /\ \A k \in DOMAIN stack : stack[k].at # 0 /\ stack[k].unit \in Inside[prog.module] \ W
  /\ \A j, k \in DOMAIN stack : stack[j].unit = stack[k].unit => j = k
  /\ \A k \in DOMAIN stack : \A u \in Unit :
       stack[k].unit \in Children(u) => \E j \in 1 .. k - 1 : stack[j].unit = u
  /\ \A k \in DOMAIN stack : k + 1 \in DOMAIN stack /\ stack[k + 1].unit \in Block =>
       /\ stack[k].at \in DOMAIN prog.items[stack[k].unit]
       /\ prog.items[stack[k].unit][stack[k].at].op = "block"
       /\ prog.items[stack[k].unit][stack[k].at].block = stack[k + 1].unit

(* What is finished is finished with all its parts, and whatever has been  *)
(* reached, what is around it has.                                         *)
FinishedWhole(W) ==
  /\ W \subseteq Inside[prog.module]
  /\ Closed(W)
  /\ Rooted(Reached(W))

(* The blocks a frame has passed are the finished ones, the declarations   *)
(* it has passed have been reached.                                        *)
PassedItems(W) ==
  \A k \in DOMAIN stack : \A i \in DOMAIN prog.items[stack[k].unit] : \A v \in Unit :
    Contains(prog, stack[k].unit, i, v) =>
      /\ v \in Block => (v \in W <=> i < stack[k].at)
      /\ v \in Decl /\ i < stack[k].at => v \in Reached(W)

EnteredIsReached(W) ==
  \A d \in Decl : (d \in entered <=> d \in Reached(W)) /\ (inferred[d] # "null" => d \in entered)

Walked(W) == FramesNest(W) /\ FinishedWhole(W) /\ PassedItems(W) /\ EnteredIsReached(W)

-----------------------------------------------------------------------------
(* The errors on the way. *)

Passed(W, s) ==
  \/ s.unit \in W
  \/ s.at # 0 /\ \E k \in DOMAIN stack : stack[k].unit = s.unit /\ s.at < stack[k].at

(* While an __error block is checked, nothing outside of it is.            *)
AboveIsInside ==
  \A i, k \in DOMAIN stack :
    i <= k /\ stack[i].unit \in prog.expects => stack[k].unit \in Inside[stack[i].unit]

(* The errors behind its mark are those inside of it.                      *)
MarksSplit ==
  \A k \in DOMAIN stack : stack[k].unit \in prog.expects =>
    \A j \in DOMAIN errors : errors[j].unit \in Inside[stack[k].unit] <=> stack[k].mark < j

(* On the list is what is wrong up to where the checker has come, and not  *)
(* in an __error block that is finished.                                   *)
Expected(W) == {s \in Site : Genuine(s) /\ Passed(W, s) /\ Around(s) \cap W = {}}

Exact(W) ==
  /\ AboveIsInside
  /\ MarksSplit
  /\ Raised = Expected(W)
  /\ \A i, j \in DOMAIN errors : errors[i] = errors[j] => i = j

(* Poison comes from a broken rule in no other __error blocks.             *)
Cause(W, u) ==
  \E s \in Site : /\ s.at # 0 /\ Genuine(s) /\ Passed(W, s)
                  /\ Enclosing(s.unit) \subseteq Enclosing(u)

PoisonHasCause(W) ==
  /\ \A d \in Decl : inferred[d] = "poison" => Cause(W, d)
  /\ \A k \in DOMAIN stack : stack[k].type = "poison" => Cause(W, stack[k].unit)

Tracked(W) == Walked(W) /\ PoisonHasCause(W) /\ (SelfContained => Exact(W))

WInv == IInv /\ prog \in Programs /\ \E W \in SUBSET Unit : Tracked(W)

-----------------------------------------------------------------------------
(* The text stays, and the stack changes at its top. *)

LEMMA TextStays ==
  ASSUME prog' = prog
  PROVE  /\ Inside' = Inside /\ Report' = Report
         /\ \A u : Children(u)' = Children(u)
         /\ \A u : Enclosing(u)' = Enclosing(u)
         /\ \A s : Around(s)' = Around(s)
         /\ \A s : Genuine(s)' = Genuine(s)
         /\ SelfContained' = SelfContained
<1>1. \A u : Children(u)' = Children(u)
  BY DEF Children
<1>2. Inside' = Inside
  BY DEF Inside, Children
<1>3. \A u : OwnErrors(u)' = OwnErrors(u)
  BY DEF OwnErrors, Breaks
<1>4. Report' = Report
  BY <1>1, <1>3 DEF Report
<1>5. \A u : All(u)' = All(u)
  BY <1>1, <1>3, <1>4 DEF All
<1>6. \A u, i : Breaks(u, i)' = Breaks(u, i)
  BY DEF Breaks
<1>7. \A s : Genuine(s)' = Genuine(s)
  BY <1>5, <1>6 DEF Genuine
<1>8. \A u : Enclosing(u)' = Enclosing(u)
  BY <1>2 DEF Enclosing
<1>9. \A s : Around(s)' = Around(s)
  BY <1>8 DEF Around
<1>10. SelfContained' = SelfContained
  BY <1>2 DEF SelfContained
<1> QED BY <1>1, <1>2, <1>4, <1>7, <1>8, <1>9, <1>10

LEMMA StackFacts ==
  ASSUME TypeOK, status = "checking"
  PROVE  /\ Len(stack) \in Nat \ {0} /\ DOMAIN stack = 1 .. Len(stack) /\ stack # <<>>
         /\ top = stack[Len(stack)] /\ Len(stack) \in DOMAIN stack
         /\ items = prog.items[top.unit]
         /\ \A k \in DOMAIN stack :
              /\ stack[k] \in Frame /\ stack[k].unit \in Unit
              /\ stack[k].at \in Nat /\ stack[k].mark \in Nat
<1>1. stack \in Seq(Frame) /\ stack # <<>>
  BY DEF TypeOK
<1>2. Len(stack) \in Nat \ {0} /\ DOMAIN stack = 1 .. Len(stack)
  BY <1>1
<1>3. \A k \in DOMAIN stack : stack[k] \in Frame
  BY <1>1
<1> QED BY <1>1, <1>2, <1>3 DEF Frame, top, items

LEMMA AdvanceFrames ==
  ASSUME TypeOK, status = "checking", NEW type, Advance(type)
  PROVE  /\ stack' # <<>> /\ DOMAIN stack' = DOMAIN stack
         /\ \A k \in DOMAIN stack :
              /\ stack'[k].unit = stack[k].unit
              /\ stack'[k].mark = stack[k].mark
              /\ stack'[k].at = IF k = Len(stack) THEN stack[k].at + 1 ELSE stack[k].at
              /\ stack'[k].type = IF k = Len(stack) /\ type = "poison" THEN "poison" ELSE stack[k].type
<1> DEFINE moved == [top EXCEPT !.at = top.at + 1]
           e == After(type)
<1>1. /\ Len(stack) \in Nat \ {0} /\ DOMAIN stack = 1 .. Len(stack)
      /\ top = stack[Len(stack)] /\ top \in Frame /\ stack \in Seq(Frame)
  BY StackFacts DEF TypeOK
<1>2. /\ moved.unit = top.unit /\ moved.mark = top.mark
      /\ moved.at = top.at + 1 /\ moved.type = top.type
      /\ moved \in Frame
  BY <1>1 DEF Frame
<1>3. e = IF type = "poison" THEN [moved EXCEPT !.type = "poison"] ELSE moved
  BY DEF After
<1>4. /\ e.unit = top.unit /\ e.mark = top.mark /\ e.at = top.at + 1
      /\ e.type = IF type = "poison" THEN "poison" ELSE top.type
  <2> HIDE DEF moved
  <2> QED BY <1>2, <1>3 DEF Frame
<1>5. stack' = [stack EXCEPT ![Len(stack)] = e]
  BY DEF Advance
<1> HIDE DEF e
<1>6. /\ DOMAIN stack' = DOMAIN stack
      /\ \A k \in DOMAIN stack : stack'[k] = IF k = Len(stack) THEN e ELSE stack[k]
  BY <1>1, <1>5
<1>7. stack' # <<>>
  BY AdvanceFacts
<1> QED BY <1>1, <1>4, <1>6, <1>7

LEMMA CallFrames ==
  ASSUME TypeOK, status = "checking", NEW u \in Unit, NEW b \in Block, Call(u, b)
  PROVE  /\ stack' # <<>> /\ DOMAIN stack' = DOMAIN stack \cup {Len(stack) + 1}
         /\ Len(stack) + 1 \notin DOMAIN stack
         /\ \A k \in DOMAIN stack : stack'[k] = stack[k] /\ k < Len(stack) + 1
         /\ stack'[Len(stack) + 1].unit = u
         /\ stack'[Len(stack) + 1].mark = Len(errors)
         /\ stack'[Len(stack) + 1].at = 1
         /\ stack'[Len(stack) + 1].type = "ok"
<1> DEFINE e == [unit |-> u, at |-> 1, saved |-> current_block, mark |-> Len(errors), type |-> "ok"]
<1>1. /\ stack' \in Seq(Frame) /\ stack' # <<>> /\ Len(stack') = Len(stack) + 1
      /\ \A k \in 1 .. Len(stack) : stack'[k] = stack[k]
  BY CallFacts
<1>2. Len(stack) \in Nat \ {0} /\ DOMAIN stack = 1 .. Len(stack) /\ stack \in Seq(Frame)
  BY StackFacts DEF TypeOK
<1>3. DOMAIN stack' = 1 .. Len(stack) + 1
  BY <1>1, <1>2
<1>4. stack'[Len(stack) + 1] = e
  <2>1. stack' = Append(stack, e)
    BY DEF Call
  <2> HIDE DEF e
  <2> QED BY <1>2, <2>1
<1> QED BY <1>1, <1>2, <1>3, <1>4

LEMMA ReturnFrames ==
  ASSUME TypeOK, status = "checking", Return
  PROVE  /\ DOMAIN stack' = DOMAIN stack \ {Len(stack)}
         /\ stack' = <<>> <=> Len(stack) = 1
         /\ status' = "done" => stack' = <<>>
         /\ \A k \in DOMAIN stack' :
              /\ stack'[k].unit = stack[k].unit
              /\ stack'[k].mark = stack[k].mark
              /\ stack'[k].type = stack[k].type
              /\ stack'[k].at = IF k + 1 = Len(stack) /\ top.unit \in Block
                                THEN stack[k].at + 1 ELSE stack[k].at
<1> DEFINE n == Len(stack) - 1
           caller == stack[n]
           next == IF top.unit \in Block THEN caller.at + 1 ELSE caller.at
           e == [caller EXCEPT !.at = next]
           below == SubSeq(stack, 1, n - 1)
<1>1. stack \in Seq(Frame) /\ n \in Nat /\ Len(stack) = n + 1 /\ DOMAIN stack = 1 .. n + 1
  BY StackFacts DEF TypeOK
<1> HIDE DEF n
<1>2. CASE n = 0
  <2>1. stack' = <<>> /\ status' = "done"
    BY <1>2 DEF Return, n
  <2>2. DOMAIN stack' = {}
    BY <2>1
  <2> QED BY <1>1, <1>2, <2>1, <2>2
<1>3. CASE n # 0
  <2>1. stack' = Append(below, e) /\ status' = status
    BY <1>3 DEF Return, n
  <2>2. caller \in Frame
    BY <1>1, <1>3
  <2>3. e.unit = caller.unit /\ e.mark = caller.mark /\ e.type = caller.type /\ e.at = next
    BY <2>2 DEF Frame
  <2>4. /\ below \in Seq(Frame) /\ Len(below) = n - 1
        /\ \A k \in 1 .. n - 1 : below[k] = stack[k]
    BY <1>1, <1>3, n - 1 \in 0 .. Len(stack), PrefixFacts
  <2> HIDE DEF e, below
  <2>5. /\ DOMAIN stack' = 1 .. n /\ stack' # <<>> /\ stack'[n] = e
        /\ \A k \in 1 .. n - 1 : stack'[k] = stack[k]
    BY <1>1, <1>3, <2>1, <2>4
  <2>6. status' # "done"
    BY <2>1
  <2>7. ASSUME NEW k \in DOMAIN stack'
        PROVE  /\ stack'[k].unit = stack[k].unit
               /\ stack'[k].mark = stack[k].mark
               /\ stack'[k].type = stack[k].type
               /\ stack'[k].at = IF k + 1 = Len(stack) /\ top.unit \in Block
                                 THEN stack[k].at + 1 ELSE stack[k].at
    <3>1. CASE k = n
      BY <1>1, <2>3, <2>5, <3>1
    <3>2. CASE k # n
      BY <1>1, <2>5, <2>7, <3>2
    <3> QED BY <3>1, <3>2
  <2> QED BY <1>1, <1>3, <2>5, <2>6, <2>7
<1> QED BY <1>2, <1>3

-----------------------------------------------------------------------------
(* Each change of the stack keeps to the order of the text. *)

LEMMA AdvanceWalks ==
  ASSUME IInv, prog \in Programs, NEW W \in SUBSET Unit, Walked(W), status = "checking",
         top.at \in DOMAIN items, NEW type, Advance(type),
         UNCHANGED <<prog, entered, inferred, status>>,
         items[top.at].op # "block",
         items[top.at].op = "decl" => items[top.at].decl \in entered
  PROVE  Walked(W)' /\ OnStack' = OnStack
<1> DEFINE n == Len(stack)
<1>1. /\ n \in Nat \ {0} /\ DOMAIN stack = 1 .. n /\ stack # <<>>
      /\ top = stack[n] /\ n \in DOMAIN stack /\ items = prog.items[top.unit]
      /\ \A k \in DOMAIN stack : stack[k].unit \in Unit /\ stack[k].at \in Nat
  BY StackFacts DEF IInv
<1>2. /\ stack' # <<>> /\ DOMAIN stack' = DOMAIN stack
      /\ \A k \in DOMAIN stack :
           /\ stack'[k].unit = stack[k].unit
           /\ stack'[k].at = IF k = n THEN stack[k].at + 1 ELSE stack[k].at
  BY AdvanceFrames DEF IInv
<1>3. prog' = prog /\ Inside' = Inside /\ \A u : Children(u)' = Children(u)
  BY TextStays
<1>4. OnStack' = OnStack /\ Reached(W)' = Reached(W)
  BY <1>2 DEF OnStack, Reached
<1> HIDE DEF n
<1>5. FramesNest(W)'
  <2>1. status' # "done"
    OBVIOUS
  <2>2. stack'[1].unit = prog'.module
    BY <1>1, <1>2, <1>3 DEF Walked, FramesNest
  <2>3. \A k \in DOMAIN stack' : stack'[k].at # 0 /\ stack'[k].unit \in Inside'[prog'.module] \ W
    BY <1>1, <1>2, <1>3 DEF Walked, FramesNest
  <2>4. \A j, k \in DOMAIN stack' : stack'[j].unit = stack'[k].unit => j = k
    BY <1>2 DEF Walked, FramesNest
  <2>5. ASSUME NEW k \in DOMAIN stack', NEW u \in Unit, stack'[k].unit \in Children(u)'
        PROVE  \E j \in 1 .. k - 1 : stack'[j].unit = u
    <3>1. PICK j \in 1 .. k - 1 : stack[j].unit = u
      BY <1>2, <1>3, <2>5 DEF Walked, FramesNest
    <3>2. j \in DOMAIN stack
      BY <1>1, <1>2
    <3> QED BY <1>2, <3>1, <3>2
  <2>6. ASSUME NEW k \in DOMAIN stack', k + 1 \in DOMAIN stack', stack'[k + 1].unit \in Block
        PROVE  /\ stack'[k].at \in DOMAIN prog'.items[stack'[k].unit]
               /\ prog'.items[stack'[k].unit][stack'[k].at].op = "block"
               /\ prog'.items[stack'[k].unit][stack'[k].at].block = stack'[k + 1].unit
    <3>1. k # n /\ k \in DOMAIN stack /\ k + 1 \in DOMAIN stack
      BY <1>1, <1>2, <2>6
    <3>2. stack'[k].at = stack[k].at /\ stack'[k].unit = stack[k].unit
          /\ stack'[k + 1].unit = stack[k + 1].unit
      BY <1>2, <3>1
    <3>3. /\ stack[k].at \in DOMAIN prog.items[stack[k].unit]
          /\ prog.items[stack[k].unit][stack[k].at].op = "block"
          /\ prog.items[stack[k].unit][stack[k].at].block = stack[k + 1].unit
      BY <2>6, <3>1, <3>2 DEF Walked, FramesNest
    <3> QED BY <1>3, <3>2, <3>3
  <2> QED BY <1>2, <2>1, <2>2, <2>3, <2>4, <2>5, <2>6 DEF FramesNest
<1>6. FinishedWhole(W)'
  <2>1. Closed(W)'
    BY <1>3 DEF Walked, FinishedWhole, Closed
  <2>2. Rooted(Reached(W))'
    BY <1>3, <1>4 DEF Walked, FinishedWhole, Rooted
  <2> QED BY <1>3, <2>1, <2>2 DEF Walked, FinishedWhole
<1>7. PassedItems(W)'
  <2>1. SUFFICES ASSUME NEW k \in DOMAIN stack, NEW i \in DOMAIN prog.items[stack[k].unit],
                        NEW v \in Unit, Contains(prog, stack[k].unit, i, v)
                 PROVE  /\ v \in Block => (v \in W <=> i < stack'[k].at)
                        /\ v \in Decl /\ i < stack'[k].at => v \in Reached(W)
    BY <1>2, <1>3, <1>4 DEF PassedItems
  <2>2. /\ v \in Block => (v \in W <=> i < stack[k].at)
        /\ v \in Decl /\ i < stack[k].at => v \in Reached(W)
    BY <2>1 DEF Walked, PassedItems
  <2>3. CASE k # n
    BY <1>2, <2>2, <2>3
  <2>4. CASE k = n /\ i # top.at
    <3>1. i \in Nat /\ stack[k].at \in Nat
      BY <1>1, TextFacts
    <3>2. i < stack[k].at + 1 <=> i < stack[k].at
      BY <1>1, <2>4, <3>1
    <3> QED BY <1>2, <2>2, <2>4, <3>2
  <2>5. CASE k = n /\ i = top.at
    <3>1. v = items[top.at].decl /\ v \in entered
      BY <1>1, <2>1, <2>5 DEF Contains
    <3>2. v \in Decl /\ v \notin Block
      BY <3>1, UnitsAssumption DEF IInv, TypeOK
    <3> QED BY <3>1, <3>2 DEF Walked, EnteredIsReached
  <2> QED BY <2>3, <2>4, <2>5
<1>8. EnteredIsReached(W)'
  BY <1>4 DEF Walked, EnteredIsReached
<1> QED BY <1>4, <1>5, <1>6, <1>7, <1>8 DEF Walked

LEMMA CallWalks ==
  ASSUME IInv, prog \in Programs, NEW W \in SUBSET Unit, Walked(W), status = "checking",
         top.at \in DOMAIN items, NEW u \in Unit, NEW b \in Block, Call(u, b), prog' = prog,
         Needs(prog, top.unit, u),
         u \in Block => items[top.at].op = "block" /\ items[top.at].block = u,
         u \in Decl => u \notin entered,
         entered' = IF u \in Decl THEN entered \cup {u} ELSE entered,
         \A d \in Decl : d # u => inferred'[d] = inferred[d]
  PROVE  /\ Walked(W)' /\ OnStack' = OnStack \cup {u}
         /\ u \notin Reached(W) /\ top.unit \in Inside[prog.module]
<1> DEFINE n == Len(stack)
           m == n + 1
<1>1. /\ n \in Nat \ {0} /\ DOMAIN stack = 1 .. n /\ stack # <<>>
      /\ top = stack[n] /\ n \in DOMAIN stack /\ items = prog.items[top.unit]
      /\ \A k \in DOMAIN stack : stack[k].unit \in Unit /\ stack[k].at \in Nat
  BY StackFacts DEF IInv
<1>2. /\ stack' # <<>> /\ DOMAIN stack' = DOMAIN stack \cup {m} /\ m \notin DOMAIN stack
      /\ \A k \in DOMAIN stack : stack'[k] = stack[k] /\ k < m
      /\ stack'[m].unit = u /\ stack'[m].at = 1
  BY CallFrames DEF IInv
<1>3. prog' = prog /\ Inside' = Inside /\ \A x : Children(x)' = Children(x)
  BY TextStays
<1>4. OnStack' = OnStack \cup {u} /\ Reached(W)' = Reached(W) \cup {u}
  BY <1>2 DEF OnStack, Reached
<1>5. status' = "checking"
  BY DEF Call
<1>6. /\ top.unit \in Inside[prog.module] /\ top.unit \notin W
      /\ top.unit \in OnStack /\ top.unit \in Unit
  BY <1>1 DEF Walked, FramesNest, OnStack
<1>7. u \notin Reached(W)
  <2>1. CASE u \in Decl
    BY <2>1 DEF Walked, EnteredIsReached
  <2>2. CASE u \in Block
    <3>1. Contains(prog, stack[n].unit, stack[n].at, u) /\ stack[n].at \in DOMAIN prog.items[stack[n].unit]
      BY <1>1, <2>2 DEF Contains
    <3>2. u \notin W
      <4>1. u \in W <=> stack[n].at < stack[n].at
        BY <1>1, <2>2, <3>1 DEF Walked, PassedItems
      <4> QED BY <1>1, <4>1
    <3>3. ASSUME NEW k \in DOMAIN stack, stack[k].unit = u PROVE FALSE
      <4>1. u \in Children(top.unit)
        BY <1>1, <3>1 DEF Children
      <4>2. PICK j \in 1 .. k - 1 : stack[j].unit = top.unit
        BY <1>6, <3>3, <4>1 DEF Walked, FramesNest
      <4>3. j \in DOMAIN stack /\ j # n
        <5>1. n \in Nat /\ k \in 1 .. n
          BY <1>1
        <5> HIDE DEF n
        <5> QED BY <1>1, <5>1
      <4> QED BY <1>1, <4>2, <4>3 DEF Walked, FramesNest
    <3> QED BY <3>2, <3>3 DEF Reached, OnStack
  <2> QED BY <2>1, <2>2 DEF Unit
<1>8. u \in Inside[prog.module] /\ \A w \in Unit : u \in Children(w) => top.unit \in Inside[w]
  BY <1>6, NeededFacts
<1>9. ASSUME NEW w \in Unit, u \in Children(w) PROVE w \in OnStack
  <2>1. w \in Reached(W)
    <3>1. Rooted(Reached(W)) /\ top.unit \in Reached(W) /\ top.unit \in Inside[w]
      BY <1>6, <1>8, <1>9 DEF Walked, FinishedWhole, Reached
    <3> QED BY <3>1, RootedHasAll
  <2>2. w \notin W
    <3>1. SUFFICES ASSUME w \in W PROVE FALSE
      OBVIOUS
    <3>2. Inside[w] \subseteq W
      BY <3>1, InsideIsLeast DEF Walked, FinishedWhole
    <3> QED BY <1>6, <1>8, <1>9, <3>2
  <2> QED BY <2>1, <2>2 DEF Reached
<1> HIDE DEF n, m
<1>10. FramesNest(W)'
  <2>1. status' # "done"
    BY <1>5
  <2>2. stack'[1].unit = prog'.module
    <3>1. 1 \in DOMAIN stack
      BY <1>1
    <3> QED BY <1>1, <1>2, <1>3, <3>1 DEF Walked, FramesNest
  <2>3. ASSUME NEW k \in DOMAIN stack'
        PROVE  stack'[k].at # 0 /\ stack'[k].unit \in Inside'[prog'.module] \ W
    <3>1. CASE k = m
      BY <1>2, <1>3, <1>7, <1>8, <3>1 DEF Reached
    <3>2. CASE k # m
      BY <1>2, <1>3, <3>2 DEF Walked, FramesNest
    <3> QED BY <3>1, <3>2
  <2>4. ASSUME NEW j \in DOMAIN stack', NEW k \in DOMAIN stack', stack'[j].unit = stack'[k].unit
        PROVE  j = k
    <3>1. \A i \in DOMAIN stack : stack'[i].unit = stack[i].unit /\ stack[i].unit # u
      BY <1>2, <1>7 DEF Reached, OnStack
    <3> QED BY <1>2, <2>4, <3>1 DEF Walked, FramesNest
  <2>5. ASSUME NEW k \in DOMAIN stack', NEW w \in Unit, stack'[k].unit \in Children(w)'
        PROVE  \E j \in 1 .. k - 1 : stack'[j].unit = w
    <3>1. CASE k = m
      <4>1. w \in OnStack
        BY <1>2, <1>3, <1>9, <2>5, <3>1
      <4>2. PICK j \in DOMAIN stack : stack[j].unit = w
        BY <4>1 DEF OnStack
      <4>3. j \in 1 .. k - 1
        BY <1>1, <3>1 DEF m
      <4> QED BY <1>2, <4>2, <4>3
    <3>2. CASE k # m
      <4>1. k \in DOMAIN stack /\ stack[k].unit \in Children(w)
        BY <1>2, <1>3, <2>5, <3>2
      <4>2. PICK j \in 1 .. k - 1 : stack[j].unit = w
        BY <4>1 DEF Walked, FramesNest
      <4>3. j \in DOMAIN stack
        BY <1>1, <4>1
      <4> QED BY <1>2, <4>2, <4>3
    <3> QED BY <3>1, <3>2
  <2>6. ASSUME NEW k \in DOMAIN stack', k + 1 \in DOMAIN stack', stack'[k + 1].unit \in Block
        PROVE  /\ stack'[k].at \in DOMAIN prog'.items[stack'[k].unit]
               /\ prog'.items[stack'[k].unit][stack'[k].at].op = "block"
               /\ prog'.items[stack'[k].unit][stack'[k].at].block = stack'[k + 1].unit
    <3>1. CASE k + 1 = m
      <4>1. k = n
        BY <1>1, <1>2, <2>6, <3>1 DEF m
      <4>2. stack'[k] = top /\ stack'[k + 1].unit = u
        BY <1>1, <1>2, <3>1, <4>1
      <4> QED BY <1>1, <1>3, <2>6, <4>2
    <3>2. CASE k + 1 # m
      <4>1. k \in DOMAIN stack /\ k + 1 \in DOMAIN stack
        BY <1>1, <1>2, <2>6, <3>2 DEF m
      <4>2. stack'[k] = stack[k] /\ stack'[k + 1] = stack[k + 1]
        BY <1>2, <4>1
      <4> QED BY <1>3, <2>6, <4>1, <4>2 DEF Walked, FramesNest
    <3> QED BY <3>1, <3>2
  <2> QED BY <1>2, <2>1, <2>2, <2>3, <2>4, <2>5, <2>6 DEF FramesNest
<1>11. FinishedWhole(W)'
  <2>1. Closed(W)'
    BY <1>3 DEF Walked, FinishedWhole, Closed
  <2>2. Rooted(Reached(W) \cup {u})
    BY <1>9 DEF Walked, FinishedWhole, Rooted, Reached
  <2>3. Rooted(Reached(W))'
    BY <1>3, <1>4, <2>2 DEF Rooted
  <2> QED BY <1>3, <2>1, <2>3 DEF Walked, FinishedWhole
<1>12. PassedItems(W)'
  <2>1. SUFFICES ASSUME NEW k \in DOMAIN stack', NEW i \in DOMAIN prog.items[stack'[k].unit],
                        NEW v \in Unit, Contains(prog, stack'[k].unit, i, v)
                 PROVE  /\ v \in Block => (v \in W <=> i < stack'[k].at)
                        /\ v \in Decl /\ i < stack'[k].at => v \in Reached(W) \cup {u}
    BY <1>3, <1>4 DEF PassedItems
  <2>2. CASE k = m
    <3>1. i \in Nat \ {0}
      BY <1>2, <2>2, TextFacts
    <3>2. ~(i < stack'[k].at)
      BY <1>2, <2>2, <3>1
    <3>3. v \notin W
      <4>1. v \in Children(u)
        BY <1>2, <2>1, <2>2 DEF Children
      <4> QED BY <1>7, <4>1 DEF Walked, FinishedWhole, Rooted, Reached
    <3> QED BY <3>2, <3>3
  <2>3. CASE k # m
    BY <1>2, <2>1, <2>3 DEF Walked, PassedItems
  <2> QED BY <2>2, <2>3
<1>13. EnteredIsReached(W)'
  BY <1>4 DEF Walked, EnteredIsReached
<1> QED BY <1>4, <1>6, <1>7, <1>10, <1>11, <1>12, <1>13 DEF Walked

(* When a unit is left, its parts are finished. *)
LEMMA PartsAreFinished ==
  ASSUME IInv, prog \in Programs, NEW W \in SUBSET Unit, Walked(W), AtEnd
  PROVE  /\ Children(top.unit) \subseteq W
         /\ \A i \in DOMAIN prog.items[top.unit] : i < top.at
         /\ \A v \in Inside[top.unit] : v = top.unit \/ v \in W
<1> DEFINE n == Len(stack)
<1>1. status = "checking" /\ top.at \notin DOMAIN items
  BY DEF AtEnd
<1>2. /\ n \in Nat \ {0} /\ DOMAIN stack = 1 .. n /\ stack # <<>>
      /\ top = stack[n] /\ n \in DOMAIN stack /\ items = prog.items[top.unit]
      /\ top.unit \in Unit /\ top.at \in Nat
  BY <1>1, StackFacts DEF IInv
<1> HIDE DEF n
<1>3. \A i \in DOMAIN prog.items[top.unit] : i < top.at
  <2>1. prog.items[top.unit] \in Seq(Item) /\ top.at # 0
    BY <1>2, TextFacts DEF Walked, FramesNest
  <2> QED BY <1>1, <1>2, <2>1
<1>4. ASSUME NEW v \in Children(top.unit) PROVE v \in W
  <2>1. PICK i \in DOMAIN prog.items[top.unit] : Contains(prog, top.unit, i, v)
    BY DEF Children
  <2>2. v \in Unit /\ i < top.at
    BY <1>3 DEF Children
  <2>3. CASE v \in Block
    BY <1>2, <2>1, <2>2, <2>3 DEF Walked, PassedItems
  <2>4. CASE v \in Decl
    <3>1. v \in Reached(W)
      BY <1>2, <2>1, <2>2, <2>4 DEF Walked, PassedItems
    <3>2. ASSUME NEW k \in DOMAIN stack, stack[k].unit = v PROVE FALSE
      <4>1. PICK j \in 1 .. k - 1 : stack[j].unit = top.unit
        BY <1>2, <3>2 DEF Walked, FramesNest
      <4>2. j \in DOMAIN stack /\ j # n
        BY <1>2
      <4> QED BY <1>2, <4>1, <4>2 DEF Walked, FramesNest
    <3> QED BY <3>1, <3>2 DEF Reached, OnStack
  <2> QED BY <2>2, <2>3, <2>4 DEF Unit
<1>5. ASSUME NEW v \in Inside[top.unit], v # top.unit PROVE v \in W
  <2>1. PICK w \in Children(top.unit) : v \in Inside[w]
    BY <1>2, <1>5, InsideFacts
  <2> QED BY <1>4, <2>1, InsideIsLeast DEF Walked, FinishedWhole
<1> QED BY <1>3, <1>4, <1>5

LEMMA ReturnWalks ==
  ASSUME IInv, prog \in Programs, NEW W \in SUBSET Unit, Walked(W), AtEnd, Return,
         prog' = prog, entered' = entered,
         NEW u, u = top.unit, NEW V, V = W \cup {u},
         \A d \in Decl : d # u => inferred'[d] = inferred[d]
  PROVE  /\ Walked(V)'
         /\ u \in OnStack /\ u \notin W /\ OnStack' = OnStack \ {u}
<1> DEFINE n == Len(stack)
<1>1. status = "checking"
  BY DEF AtEnd
<1>2. /\ n \in Nat \ {0} /\ DOMAIN stack = 1 .. n /\ stack # <<>>
      /\ top = stack[n] /\ n \in DOMAIN stack /\ items = prog.items[top.unit]
      /\ \A k \in DOMAIN stack : stack[k].unit \in Unit /\ stack[k].at \in Nat
  BY <1>1, StackFacts DEF IInv
<1>3. /\ DOMAIN stack' = DOMAIN stack \ {n}
      /\ stack' = <<>> <=> n = 1
      /\ status' = "done" => stack' = <<>>
      /\ \A k \in DOMAIN stack' :
           /\ stack'[k].unit = stack[k].unit
           /\ stack'[k].at = IF k + 1 = n /\ u \in Block THEN stack[k].at + 1 ELSE stack[k].at
  BY <1>1, ReturnFrames DEF IInv
<1>4. prog' = prog /\ Inside' = Inside /\ \A x : Children(x)' = Children(x)
  BY TextStays
<1>5. /\ u \in Unit /\ u \in OnStack /\ u \notin W /\ u \in Inside[prog.module]
      /\ \A k \in DOMAIN stack' : stack[k].unit # u
  BY <1>2, <1>3 DEF Walked, FramesNest, OnStack
<1> HIDE DEF n
<1>6. OnStack' = OnStack \ {u}
  <2>1. \A x \in OnStack : x = u \/ \E k \in DOMAIN stack' : stack[k].unit = x
    BY <1>2, <1>3 DEF OnStack
  <2> QED BY <1>3, <1>5, <2>1 DEF OnStack
<1>7. Reached(W) = V \cup OnStack'
  BY <1>5, <1>6 DEF Reached
<1>8. FramesNest(V)'
  <2>1. status' = "done" => stack' = <<>>
    BY <1>3
  <2>2. IF stack' = <<>> THEN prog'.module \in V ELSE stack'[1].unit = prog'.module
    <3>1. stack[1].unit = prog.module
      BY <1>2 DEF Walked, FramesNest
    <3>2. CASE n = 1
      BY <1>2, <1>3, <1>4, <3>1, <3>2
    <3>3. CASE n # 1
      <4>1. 1 \in DOMAIN stack'
        BY <1>2, <1>3, <3>3
      <4> QED BY <1>3, <1>4, <3>1, <3>3, <4>1
    <3> QED BY <3>2, <3>3
  <2>3. ASSUME NEW k \in DOMAIN stack'
        PROVE  stack'[k].at # 0 /\ stack'[k].unit \in Inside'[prog'.module] \ V
    <3>1. /\ k \in DOMAIN stack /\ stack[k].at \in Nat /\ stack[k].at # 0
          /\ stack[k].unit \in Inside[prog.module] \ W
      BY <1>2, <1>3 DEF Walked, FramesNest
    <3>2. stack'[k].at # 0
      BY <1>3, <3>1
    <3> QED BY <1>3, <1>4, <1>5, <3>1, <3>2
  <2>4. \A j, k \in DOMAIN stack' : stack'[j].unit = stack'[k].unit => j = k
    BY <1>3 DEF Walked, FramesNest
  <2>5. ASSUME NEW k \in DOMAIN stack', NEW w \in Unit, stack'[k].unit \in Children(w)'
        PROVE  \E j \in 1 .. k - 1 : stack'[j].unit = w
    <3>1. PICK j \in 1 .. k - 1 : stack[j].unit = w
      BY <1>3, <1>4, <2>5 DEF Walked, FramesNest
    <3>2. j \in DOMAIN stack'
      BY <1>2, <1>3
    <3> QED BY <1>3, <3>1, <3>2
  <2>6. ASSUME NEW k \in DOMAIN stack', k + 1 \in DOMAIN stack', stack'[k + 1].unit \in Block
        PROVE  /\ stack'[k].at \in DOMAIN prog'.items[stack'[k].unit]
               /\ prog'.items[stack'[k].unit][stack'[k].at].op = "block"
               /\ prog'.items[stack'[k].unit][stack'[k].at].block = stack'[k + 1].unit
    <3>1. /\ k \in DOMAIN stack /\ k + 1 \in DOMAIN stack /\ k + 1 # n
          /\ stack'[k].at = stack[k].at /\ stack'[k].unit = stack[k].unit
          /\ stack'[k + 1].unit = stack[k + 1].unit
      BY <1>3, <2>6
    <3> QED BY <1>4, <2>6, <3>1 DEF Walked, FramesNest
  <2> QED BY <1>3, <2>1, <2>2, <2>3, <2>4, <2>5, <2>6 DEF FramesNest
<1>9. FinishedWhole(V)'
  <2>1. Children(u) \subseteq W
    BY PartsAreFinished
  <2>2. Closed(V)'
    BY <1>4, <2>1 DEF Walked, FinishedWhole, Closed
  <2>3. Rooted(V \cup OnStack')
    BY <1>7 DEF Walked, FinishedWhole
  <2>4. Rooted(Reached(V))'
    BY <1>4, <2>3 DEF Rooted, Reached
  <2> QED BY <1>4, <1>5, <2>2, <2>4 DEF Walked, FinishedWhole
<1>10. PassedItems(V)'
  <2>1. SUFFICES ASSUME NEW k \in DOMAIN stack', NEW i \in DOMAIN prog.items[stack[k].unit],
                        NEW v \in Unit, Contains(prog, stack[k].unit, i, v)
                 PROVE  /\ v \in Block => (v \in V <=> i < stack'[k].at)
                        /\ v \in Decl /\ i < stack'[k].at => v \in Reached(W)
    BY <1>3, <1>4, <1>7 DEF PassedItems, Reached
  <2>2. /\ v \in Block => (v \in W <=> i < stack[k].at)
        /\ v \in Decl /\ i < stack[k].at => v \in Reached(W)
    BY <1>3, <2>1 DEF Walked, PassedItems
  <2>3. i \in Nat /\ stack[k].at \in Nat /\ stack[k].unit \in Unit /\ k \in DOMAIN stack
    BY <1>2, <1>3, TextFacts
  <2>4. CASE u \in Block
    <3>1. CASE k + 1 = n
      <4>1. /\ stack[k].at \in DOMAIN prog.items[stack[k].unit]
            /\ prog.items[stack[k].unit][stack[k].at].op = "block"
            /\ prog.items[stack[k].unit][stack[k].at].block = u
        BY <1>2, <2>3, <2>4, <3>1 DEF Walked, FramesNest
      <4>2. i = stack[k].at <=> v = u
        <5>1. i = stack[k].at => v = u
          BY <2>1, <4>1 DEF Contains
        <5>2. Contains(prog, stack[k].unit, stack[k].at, u)
          BY <4>1 DEF Contains
        <5>3. v = u => i = stack[k].at
          BY <1>5, <2>1, <2>3, <4>1, <5>2, OnePlace
        <5> QED BY <5>1, <5>3
      <4>3. i < stack'[k].at <=> i < stack[k].at \/ i = stack[k].at
        BY <1>3, <2>3, <2>4, <3>1
      <4>4. v = u => v \notin Decl
        BY <2>4, UnitsAssumption
      <4> QED BY <2>2, <4>2, <4>3, <4>4
    <3>2. CASE k + 1 # n
      <4>1. v # u
        <5>1. SUFFICES ASSUME v = u PROVE FALSE
          OBVIOUS
        <5>2. u \in Children(stack[k].unit)
          BY <1>5, <2>1, <5>1 DEF Children
        <5>3. PICK j \in 1 .. n - 1 : stack[j].unit = stack[k].unit
          BY <1>2, <2>3, <5>2 DEF Walked, FramesNest
        <5>4. n - 1 \in DOMAIN stack /\ (n - 1) + 1 = n
          BY <1>2, <5>3
        <5>5. /\ stack[n - 1].at \in DOMAIN prog.items[stack[n - 1].unit]
              /\ Contains(prog, stack[n - 1].unit, stack[n - 1].at, u)
          BY <1>2, <2>4, <5>4 DEF Walked, FramesNest, Contains
        <5>6. stack[n - 1].unit \in Unit
          BY <1>2, <5>4
        <5>7. stack[n - 1].unit = stack[k].unit
          BY <1>5, <2>1, <2>3, <5>1, <5>5, <5>6, OnePlace
        <5>8. n - 1 = k
          BY <2>3, <5>4, <5>7 DEF Walked, FramesNest
        <5> QED BY <1>2, <3>2, <5>8
      <4>2. stack'[k].at = stack[k].at
        BY <1>3, <3>2
      <4> QED BY <2>2, <4>1, <4>2
    <3> QED BY <3>1, <3>2
  <2>5. CASE u \notin Block
    <3>1. stack'[k].at = stack[k].at
      BY <1>3, <2>5
    <3> QED BY <2>2, <2>5, <3>1
  <2> QED BY <2>4, <2>5
<1>11. EnteredIsReached(V)'
  <2>1. u \in Decl => u \in entered
    BY <1>5 DEF Walked, EnteredIsReached, Reached
  <2>2. \A d \in Decl : inferred'[d] # "null" => d \in entered
    BY <2>1 DEF Walked, EnteredIsReached
  <2>3. \A d \in Decl : d \in entered <=> d \in V \cup OnStack'
    BY <1>7 DEF Walked, EnteredIsReached
  <2> QED BY <2>2, <2>3 DEF EnteredIsReached, Reached
<1>12. Walked(V)'
  BY <1>8, <1>9, <1>10, <1>11 DEF Walked
<1> QED BY <1>5, <1>6, <1>12

-----------------------------------------------------------------------------
(* Each change of the error list keeps it exact. *)

(* What is passed stays passed, so that poison keeps its cause.            *)
CauseNext(W, u) ==
  \E s \in Site : /\ s.at # 0 /\ Genuine(s) /\ Passed(W, s)'
                  /\ Enclosing(s.unit) \subseteq Enclosing(u)

LEMMA CauseStays ==
  ASSUME NEW W, NEW V, \A s \in Site : s.at # 0 /\ Passed(W, s) => Passed(V, s)'
  PROVE  \A u : Cause(W, u) => CauseNext(V, u)
BY DEF Cause, CauseNext

LEMMA PoisonNext ==
  ASSUME prog' = prog, NEW V,
         \A d \in Decl : inferred'[d] = "poison" => CauseNext(V, d),
         \A k \in DOMAIN stack' : stack'[k].type = "poison" => CauseNext(V, stack'[k].unit)
  PROVE  PoisonHasCause(V)'
<1>1. (\A u : Enclosing(u)' = Enclosing(u)) /\ (\A s : Genuine(s)' = Genuine(s))
  BY TextStays
<1>2. \A u : CauseNext(V, u) => \E s \in Site : /\ s.at # 0 /\ Genuine(s)' /\ Passed(V, s)'
                                            /\ Enclosing(s.unit)' \subseteq Enclosing(u)'
  BY <1>1 DEF CauseNext
<1> QED BY <1>2 DEF PoisonHasCause, Cause

(* Nothing finished is around a unit that is being checked. *)
LEMMA NothingFinishedAround ==
  ASSUME prog \in Programs, NEW W \in SUBSET Unit, Walked(W), NEW u \in OnStack
  PROVE  /\ u \in Unit /\ u \notin W /\ u \in Inside[prog.module]
         /\ Enclosing(u) \cap W = {}
<1>1. u \notin W /\ u \in Inside[prog.module]
  BY DEF Walked, FramesNest, OnStack
<1>2. ASSUME NEW b \in Enclosing(u), b \in W PROVE FALSE
  <2>1. Inside[b] \subseteq W
    BY <1>2, InsideIsLeast DEF Walked, FinishedWhole
  <2> QED BY <1>1, <2>1 DEF Enclosing
<1> QED BY <1>1, <1>2, ModuleIsRooted

LEMMA AppendedError ==
  ASSUME errors \in Seq(Site), NEW e \in Site, errors' = Append(errors, e)
  PROVE  /\ Len(errors) \in Nat
         /\ DOMAIN errors = 1 .. Len(errors)
         /\ DOMAIN errors' = DOMAIN errors \cup {Len(errors) + 1}
         /\ errors'[Len(errors) + 1] = e
         /\ \A j \in DOMAIN errors : errors'[j] = errors[j]
         /\ Raised' = Raised \cup {e}
<1>1. Len(errors) \in Nat /\ DOMAIN errors = 1 .. Len(errors)
  OBVIOUS
<1>2. /\ DOMAIN errors' = DOMAIN errors \cup {Len(errors) + 1}
      /\ errors'[Len(errors) + 1] = e
      /\ \A j \in DOMAIN errors : errors'[j] = errors[j]
  BY <1>1
<1>3. Raised' = Raised \cup {e}
  BY <1>2 DEF Raised
<1> QED BY <1>1, <1>2, <1>3

LEMMA AdvanceTracks ==
  ASSUME IInv, prog \in Programs, NEW W \in SUBSET Unit, Tracked(W), status = "checking",
         top.at \in DOMAIN items, NEW type, Advance(type),
         UNCHANGED <<prog, entered, inferred, status>>,
         items[top.at].op # "block",
         items[top.at].op = "decl" => items[top.at].decl \in entered,
         errors' = IF Breaks(top.unit, top.at) THEN Append(errors, here) ELSE errors,
         type = "poison" =>
           \/ Breaks(top.unit, top.at)
           \/ \E d \in Decl : Needs(prog, top.unit, d) /\ inferred[d] = "poison"
  PROVE  Tracked(W)'
<1> DEFINE n == Len(stack)
<1>1. /\ n \in Nat \ {0} /\ DOMAIN stack = 1 .. n /\ stack # <<>>
      /\ top = stack[n] /\ n \in DOMAIN stack /\ items = prog.items[top.unit]
      /\ \A k \in DOMAIN stack :
           stack[k].unit \in Unit /\ stack[k].at \in Nat /\ stack[k].mark \in Nat
  BY StackFacts DEF IInv
<1>2. /\ stack' # <<>> /\ DOMAIN stack' = DOMAIN stack
      /\ \A k \in DOMAIN stack :
           /\ stack'[k].unit = stack[k].unit
           /\ stack'[k].mark = stack[k].mark
           /\ stack'[k].at = IF k = n THEN stack[k].at + 1 ELSE stack[k].at
           /\ stack'[k].type = IF k = n /\ type = "poison" THEN "poison" ELSE stack[k].type
  BY AdvanceFrames DEF IInv
<1>3. /\ prog' = prog /\ Inside' = Inside
      /\ (\A u : Enclosing(u)' = Enclosing(u)) /\ (\A s : Around(s)' = Around(s))
      /\ (\A s : Genuine(s)' = Genuine(s)) /\ SelfContained' = SelfContained
  BY TextStays
<1> HIDE DEF n
<1>4. Walked(W) /\ Walked(W)'
  BY AdvanceWalks DEF Tracked
<1>5. /\ top.unit \in OnStack /\ top.unit \in Unit /\ top.unit \notin W
      /\ top.unit \in Inside[prog.module] /\ Enclosing(top.unit) \cap W = {}
  <2>1. top.unit \in OnStack
    BY <1>1 DEF OnStack
  <2> QED BY <1>4, <2>1, NothingFinishedAround
<1>6. here \in Site /\ here.unit = top.unit /\ here.at = top.at /\ here.at # 0
  <2>1. top.at # 0
    BY <1>1, <1>4 DEF Walked, FramesNest
  <2> QED BY <1>1, <1>5, <2>1 DEF here, Site
<1>7. Genuine(here) <=> Breaks(top.unit, top.at)
  BY <1>1, <1>6 DEF Genuine
<1>8. ~Passed(W, here)
  <2>1. ASSUME NEW k \in DOMAIN stack, stack[k].unit = top.unit PROVE k = n
    BY <1>1, <1>4, <2>1 DEF Walked, FramesNest
  <2> QED BY <1>1, <1>5, <1>6, <2>1 DEF Passed
<1>9. ASSUME NEW s \in Site PROVE Passed(W, s)' <=> Passed(W, s) \/ s = here
  <2>1. s.unit = top.unit /\ s.at = top.at <=> s = here
    BY <1>6, AroundFacts DEF here
  <2>2. s.at \in Nat
    BY DEF Site
  <2>3. \A k \in DOMAIN stack : s.at < stack'[k].at <=> s.at < stack[k].at \/ (k = n /\ s.at = top.at)
    BY <1>1, <1>2, <2>2
  <2> QED BY <1>1, <1>2, <1>6, <2>1, <2>3 DEF Passed
<1>10. PoisonHasCause(W)'
  <2>1. \A u : Cause(W, u) => CauseNext(W, u)
    BY <1>9, CauseStays
  <2>2. PoisonHasCause(W)
    BY DEF Tracked
  <2>3. ASSUME type = "poison" PROVE CauseNext(W, top.unit)
    <3>1. CASE Breaks(top.unit, top.at)
      BY <1>3, <1>6, <1>7, <1>9, <3>1 DEF CauseNext
    <3>2. CASE \E d \in Decl : Needs(prog, top.unit, d) /\ inferred[d] = "poison"
      <4>1. PICK d \in Decl : Needs(prog, top.unit, d) /\ inferred[d] = "poison"
        BY <3>2
      <4>2. CauseNext(W, d)
        BY <2>1, <2>2, <4>1 DEF PoisonHasCause
      <4>3. Enclosing(d) \subseteq Enclosing(top.unit)
        <5>1. ASSUME NEW b \in Enclosing(d) PROVE b \in Enclosing(top.unit)
          <6>1. b \in Block /\ b \in prog.expects /\ d \in Inside[b] /\ d # b
            BY TextFacts, UnitsAssumption DEF Enclosing
          <6>2. top.unit \in Inside[b]
            BY <1>5, <4>1, <6>1, NeededFacts DEF Unit
          <6> QED BY <6>1, <6>2 DEF Enclosing
        <5> QED BY <5>1
      <4> QED BY <1>3, <4>2, <4>3 DEF CauseNext
    <3> QED BY <2>3, <3>1, <3>2
  <2>4. ASSUME NEW k \in DOMAIN stack', stack'[k].type = "poison" PROVE CauseNext(W, stack'[k].unit)
    <3>1. CASE k = n /\ type = "poison"
      BY <1>1, <1>2, <2>3, <3>1
    <3>2. CASE ~(k = n /\ type = "poison")
      <4>1. Cause(W, stack[k].unit)
        BY <1>2, <2>2, <2>4, <3>2 DEF PoisonHasCause
      <4> QED BY <1>2, <2>1, <4>1
    <3> QED BY <3>1, <3>2
  <2>5. \A d \in Decl : inferred'[d] = "poison" => CauseNext(W, d)
    BY <2>1, <2>2 DEF PoisonHasCause
  <2> QED BY <1>3, <2>4, <2>5, PoisonNext
<1>11. ASSUME SelfContained PROVE Exact(W)'
  <2>1. Exact(W)
    BY <1>11 DEF Tracked
  <2>2. AboveIsInside'
    BY <1>2, <1>3, <2>1 DEF Exact, AboveIsInside
  <2>3. errors \in Seq(Site) /\ \A k \in DOMAIN stack : stack[k].mark <= Len(errors)
    BY DEF IInv, TypeOK, MarksAscend
  <2>4. CASE ~Breaks(top.unit, top.at)
    <3>1. errors' = errors /\ Raised' = Raised
      BY <2>4 DEF Raised
    <3>2. MarksSplit'
      BY <1>2, <1>3, <2>1, <3>1 DEF Exact, MarksSplit
    <3>3. Expected(W)' = Expected(W)
      BY <1>3, <1>7, <1>9, <2>4 DEF Expected
    <3> QED BY <2>1, <2>2, <3>1, <3>2, <3>3 DEF Exact
  <2>5. CASE Breaks(top.unit, top.at)
    <3>1. /\ Len(errors) \in Nat
          /\ DOMAIN errors = 1 .. Len(errors)
          /\ DOMAIN errors' = DOMAIN errors \cup {Len(errors) + 1}
          /\ errors'[Len(errors) + 1] = here
          /\ \A j \in DOMAIN errors : errors'[j] = errors[j]
          /\ Raised' = Raised \cup {here}
      BY <1>6, <2>3, <2>5, AppendedError
    <3>2. MarksSplit'
      <4>1. SUFFICES ASSUME NEW k \in DOMAIN stack, stack[k].unit \in prog.expects,
                            NEW j \in DOMAIN errors'
                     PROVE  errors'[j].unit \in Inside[stack[k].unit] <=> stack[k].mark < j
        BY <1>2, <1>3 DEF MarksSplit
      <4>2. CASE j \in DOMAIN errors
        BY <2>1, <3>1, <4>1, <4>2 DEF Exact, MarksSplit
      <4>3. CASE j = Len(errors) + 1
        <5>1. k <= n
          BY <1>1
        <5>2. here.unit \in Inside[stack[k].unit]
          BY <1>1, <1>6, <2>1, <4>1, <5>1 DEF Exact, AboveIsInside
        <5>3. stack[k].mark < j
          BY <1>1, <2>3, <3>1, <4>3
        <5> QED BY <3>1, <4>3, <5>2, <5>3
      <4> QED BY <3>1, <4>2, <4>3
    <3>3. Around(here) \cap W = {}
      BY <1>5, <1>6 DEF Around
    <3>4. Expected(W)' = Expected(W) \cup {here}
      BY <1>3, <1>6, <1>7, <1>9, <2>5, <3>3 DEF Expected
    <3>5. here \notin Raised
      BY <1>8, <2>1 DEF Exact, Expected
    <3>6. ASSUME NEW i \in DOMAIN errors', NEW j \in DOMAIN errors', errors'[i] = errors'[j]
          PROVE  i = j
      <4>1. \A k \in DOMAIN errors : errors[k] # here
        BY <3>5 DEF Raised
      <4> QED BY <2>1, <3>1, <3>6, <4>1 DEF Exact
    <3> QED BY <2>1, <2>2, <3>1, <3>2, <3>4, <3>6 DEF Exact
  <2> QED BY <2>4, <2>5
<1> QED BY <1>3, <1>4, <1>10, <1>11 DEF Tracked

LEMMA PassedIsReached ==
  ASSUME NEW W, NEW s, Passed(W, s)
  PROVE  s.unit \in Reached(W)
BY DEF Passed, Reached, OnStack

LEMMA CallTracks ==
  ASSUME IInv, prog \in Programs, NEW W \in SUBSET Unit, Tracked(W), status = "checking",
         top.at \in DOMAIN items, NEW u \in Unit, NEW b \in Block, Call(u, b),
         UNCHANGED <<prog, errors>>,
         Needs(prog, top.unit, u),
         u \in Block => items[top.at].op = "block" /\ items[top.at].block = u,
         u \in Decl => u \notin entered,
         entered' = IF u \in Decl THEN entered \cup {u} ELSE entered,
         \A d \in Decl : d # u => inferred'[d] = inferred[d],
         u \in Decl => inferred'[u] # "poison"
  PROVE  Tracked(W)'
<1> DEFINE n == Len(stack)
           m == n + 1
<1>1. /\ n \in Nat \ {0} /\ DOMAIN stack = 1 .. n
      /\ top = stack[n] /\ n \in DOMAIN stack
      /\ \A k \in DOMAIN stack : stack[k].unit \in Unit
  BY StackFacts DEF IInv
<1>2. /\ DOMAIN stack' = DOMAIN stack \cup {m} /\ m \notin DOMAIN stack
      /\ \A k \in DOMAIN stack : stack'[k] = stack[k] /\ k < m
      /\ stack'[m].unit = u /\ stack'[m].at = 1
      /\ stack'[m].type = "ok" /\ stack'[m].mark = Len(errors)
  BY CallFrames DEF IInv
<1>3. /\ prog' = prog /\ Inside' = Inside
      /\ (\A s : Around(s)' = Around(s)) /\ (\A s : Genuine(s)' = Genuine(s))
      /\ SelfContained' = SelfContained
  BY TextStays
<1>4. /\ Walked(W) /\ Walked(W)' /\ u \notin Reached(W)
      /\ top.unit \in Inside[prog.module]
  BY CallWalks DEF Tracked
<1> HIDE DEF n, m
<1>5. ASSUME NEW s \in Site PROVE Passed(W, s)' <=> Passed(W, s)
  <2>1. s.at # 0 => ~(s.at < 1)
    BY DEF Site
  <2> QED BY <1>2, <2>1 DEF Passed
<1>6. PoisonHasCause(W)'
  <2>1. \A x : Cause(W, x) => CauseNext(W, x)
    BY <1>5, CauseStays
  <2>2. PoisonHasCause(W)
    BY DEF Tracked
  <2>3. \A d \in Decl : inferred'[d] = "poison" => CauseNext(W, d)
    BY <2>1, <2>2 DEF PoisonHasCause
  <2>4. \A k \in DOMAIN stack' : stack'[k].type = "poison" => CauseNext(W, stack'[k].unit)
    BY <1>2, <2>1, <2>2 DEF PoisonHasCause
  <2> QED BY <1>3, <2>3, <2>4, PoisonNext
<1>7. ASSUME SelfContained PROVE Exact(W)'
  <2>1. Exact(W)
    BY <1>7 DEF Tracked
  <2>2. AboveIsInside'
    <3>1. SUFFICES ASSUME NEW i \in DOMAIN stack', NEW k \in DOMAIN stack', i <= k,
                          stack'[i].unit \in prog.expects
                   PROVE  stack'[k].unit \in Inside[stack'[i].unit]
      BY <1>3 DEF AboveIsInside
    <3>2. CASE k # m
      <4>1. i # m /\ i \in DOMAIN stack /\ k \in DOMAIN stack
        BY <1>1, <1>2, <3>1, <3>2 DEF m
      <4> QED BY <1>2, <2>1, <3>1, <4>1 DEF Exact, AboveIsInside
    <3>3. CASE k = m /\ i = m
      BY <1>2, <3>3, InsideIsClosed
    <3>4. CASE k = m /\ i # m
      <4>1. i \in DOMAIN stack /\ i <= n /\ stack'[i].unit = stack[i].unit
        BY <1>1, <1>2, <3>4
      <4>2. top.unit \in Inside[stack[i].unit]
        BY <1>1, <2>1, <3>1, <4>1 DEF Exact, AboveIsInside
      <4>3. u \in Inside[stack[i].unit]
        BY <1>4, <1>7, <3>1, <4>1, <4>2, NeededFacts
      <4> QED BY <1>2, <3>4, <4>1, <4>3
    <3> QED BY <3>2, <3>3, <3>4
  <2>3. MarksSplit'
    <3>1. SUFFICES ASSUME NEW k \in DOMAIN stack', stack'[k].unit \in prog.expects,
                          NEW j \in DOMAIN errors
                   PROVE  errors[j].unit \in Inside[stack'[k].unit] <=> stack'[k].mark < j
      BY <1>3 DEF MarksSplit
    <3>2. CASE k # m
      BY <1>2, <2>1, <3>1, <3>2 DEF Exact, MarksSplit
    <3>3. CASE k = m
      <4>1. ~(Len(errors) < j)
        BY DEF IInv, TypeOK
      <4>2. errors[j].unit \in Reached(W)
        <5>1. errors[j] \in Raised
          BY DEF Raised
        <5>2. Passed(W, errors[j])
          BY <2>1, <5>1 DEF Exact, Expected
        <5> QED BY <5>2, PassedIsReached
      <4>3. errors[j].unit \notin Inside[u]
        BY <1>4, <4>2, RootedHasAll DEF Walked, FinishedWhole
      <4> QED BY <1>2, <3>3, <4>1, <4>3
    <3> QED BY <3>2, <3>3
  <2>4. Raised' = Raised /\ Expected(W)' = Expected(W)
    BY <1>3, <1>5 DEF Raised, Expected
  <2> QED BY <2>1, <2>2, <2>3, <2>4 DEF Exact
<1> QED BY <1>3, <1>4, <1>6, <1>7 DEF Tracked

(* A return passes nothing that is wrong, except that the __error block it *)
(* leaves may have had nothing wrong in it.                                *)
LEMMA ReturnPasses ==
  ASSUME IInv, prog \in Programs, NEW W \in SUBSET Unit, Walked(W), AtEnd, Return,
         NEW u, u = top.unit, NEW V, V = W \cup {u}, NEW s \in Site
  PROVE  /\ Passed(W, s) => Passed(V, s)'
         /\ Genuine(s) => (Passed(V, s)' <=> Passed(W, s) \/ (s.unit = u /\ s.at = 0))
<1> DEFINE n == Len(stack)
<1>1. status = "checking"
  BY DEF AtEnd
<1>2. /\ n \in Nat \ {0} /\ DOMAIN stack = 1 .. n
      /\ top = stack[n] /\ n \in DOMAIN stack
      /\ \A k \in DOMAIN stack : stack[k].at \in Nat
  BY <1>1, StackFacts DEF IInv
<1>3. /\ DOMAIN stack' = DOMAIN stack \ {n}
      /\ \A k \in DOMAIN stack' :
           /\ stack'[k].unit = stack[k].unit
           /\ stack'[k].at = IF k + 1 = n /\ u \in Block THEN stack[k].at + 1 ELSE stack[k].at
  BY <1>1, ReturnFrames DEF IInv
<1>4. s.at \in Nat
  BY DEF Site
<1> HIDE DEF n
<1>5. ASSUME Passed(W, s) PROVE Passed(V, s)'
  <2>1. CASE s.unit \in V
    BY <2>1 DEF Passed
  <2>2. CASE s.unit \notin V
    <3>1. s.at # 0 /\ \E k \in DOMAIN stack : stack[k].unit = s.unit /\ s.at < stack[k].at
      BY <1>5, <2>2 DEF Passed
    <3>2. PICK k \in DOMAIN stack : stack[k].unit = s.unit /\ s.at < stack[k].at
      BY <3>1
    <3>3. k \in DOMAIN stack'
      BY <1>2, <1>3, <2>2, <3>2
    <3>4. stack'[k].unit = s.unit /\ s.at < stack'[k].at
      BY <1>2, <1>3, <1>4, <3>2, <3>3
    <3> QED BY <3>1, <3>3, <3>4 DEF Passed
  <2> QED BY <2>1, <2>2
<1>6. ASSUME Genuine(s), Passed(V, s)', ~(s.unit = u /\ s.at = 0) PROVE Passed(W, s)
  <2>1. CASE s.unit \in W
    BY <2>1 DEF Passed
  <2>2. CASE s.unit = u
    <3>1. s.at # 0 /\ s.at \in DOMAIN prog.items[u]
      BY <1>6, <2>2 DEF Genuine
    <3>2. s.at < top.at
      BY <3>1, PartsAreFinished
    <3> QED BY <1>2, <2>2, <3>1, <3>2 DEF Passed
  <2>3. CASE s.unit \notin V
    <3>1. s.at # 0 /\ \E k \in DOMAIN stack' : stack'[k].unit = s.unit /\ s.at < stack'[k].at
      BY <1>6, <2>3 DEF Passed
    <3>2. PICK k \in DOMAIN stack' : stack'[k].unit = s.unit /\ s.at < stack'[k].at
      BY <3>1
    <3>3. k \in DOMAIN stack /\ stack[k].unit = s.unit /\ stack[k].at \in Nat
      BY <1>2, <1>3, <3>2
    <3>4. ASSUME s.at = stack[k].at, k + 1 = n, u \in Block PROVE FALSE
      <4>1. prog.items[s.unit][s.at].op = "block"
        BY <1>2, <3>3, <3>4 DEF Walked, FramesNest
      <4>2. Breaks(s.unit, s.at)
        BY <1>6, <3>1 DEF Genuine
      <4> QED BY <4>1, <4>2 DEF Breaks
    <3>5. s.at < stack[k].at
      BY <1>3, <1>4, <3>2, <3>3, <3>4
    <3> QED BY <3>1, <3>3, <3>5 DEF Passed
  <2> QED BY <2>1, <2>2, <2>3
<1>7. ASSUME s.unit = u PROVE Passed(V, s)'
  BY <1>7 DEF Passed
<1> QED BY <1>5, <1>6, <1>7

(* When an __error block is left, the errors inside of it are those that   *)
(* are wrong in it.                                                        *)
LEMMA RaisedInside ==
  ASSUME IInv, prog \in Programs, NEW W \in SUBSET Unit, Walked(W), Exact(W), AtEnd,
         NEW u, u = top.unit, u \in prog.expects
  PROVE  All(u) = {s \in Raised : s.unit \in Inside[u]}
<1> DEFINE n == Len(stack)
<1>1. status = "checking"
  BY DEF AtEnd
<1>2. /\ n \in Nat \ {0} /\ DOMAIN stack = 1 .. n
      /\ top = stack[n] /\ n \in DOMAIN stack
      /\ u \in Unit /\ u \in OnStack
  BY <1>1, StackFacts DEF IInv, OnStack
<1> HIDE DEF n
<1>3. u \notin W /\ Enclosing(u) \cap W = {} /\ u \in Enclosing(u)
  BY <1>2, NothingFinishedAround, InsideIsClosed DEF Enclosing
<1>4. Rooted(Reached(W)) /\ u \in Reached(W)
  BY <1>2 DEF Walked, FinishedWhole, Reached
<1>5. prog.expects \subseteq Unit
  BY TextFacts DEF Unit
<1>6. \A b \in Enclosing(u) : b \in OnStack
  <2>1. ASSUME NEW b \in Enclosing(u) PROVE b \in Reached(W)
    BY <1>4, <1>5, RootedHasAll DEF Enclosing
  <2> QED BY <1>3, <2>1 DEF Reached
<1>7. \A b \in prog.expects : b \in OnStack => b \in Enclosing(u)
  <2>1. ASSUME NEW b \in prog.expects, NEW k \in DOMAIN stack, stack[k].unit = b
        PROVE  u \in Inside[b]
    BY <1>2, <2>1 DEF Exact, AboveIsInside
  <2> QED BY <2>1 DEF Enclosing, OnStack
<1>8. ASSUME NEW s \in Site, Genuine(s), s.unit \in Inside[u], Passed(W, s), Around(s) \cap W = {}
      PROVE  Around(s) = Enclosing(u)
  <2>1. ASSUME NEW b \in Around(s) PROVE b \in Enclosing(u)
    <3>1. b \in prog.expects /\ s.unit \in Inside[b] /\ b \notin W
      BY <1>8, <2>1 DEF Around, Enclosing
    <3>2. s.unit \in Reached(W)
      BY <1>8, PassedIsReached
    <3>3. b \in Reached(W)
      BY <1>4, <1>5, <3>1, <3>2, RootedHasAll
    <3> QED BY <1>7, <3>1, <3>3 DEF Reached
  <2>2. ASSUME NEW b \in Enclosing(u) PROVE b \in Around(s)
    <3>1. b \in prog.expects /\ b \in Unit /\ u \in Inside[b] /\ b \notin W
      BY <1>3, <1>5 DEF Enclosing
    <3>2. s.unit \in Inside[b]
      BY <1>8, <3>1, InsideIsClosed
    <3>3. s # [unit |-> b, at |-> 0]
      <4>1. SUFFICES ASSUME s = [unit |-> b, at |-> 0] PROVE FALSE
        OBVIOUS
      <4>2. s.unit = b /\ s.at = 0
        BY <4>1
      <4> QED BY <1>8, <3>1, <4>2 DEF Passed
    <3> QED BY <3>1, <3>2, <3>3 DEF Around, Enclosing
  <2> QED BY <2>1, <2>2
<1>9. ASSUME NEW s \in Site, Genuine(s), s.unit \in Inside[u], Around(s) = Enclosing(u)
      PROVE  Passed(W, s) /\ Around(s) \cap W = {}
  <2>1. Around(s) \cap W = {}
    BY <1>3, <1>9
  <2>2. CASE s.unit # u
    BY <1>9, <2>1, <2>2, PartsAreFinished DEF Passed
  <2>3. CASE s.unit = u
    <3>1. s.at # 0
      <4>1. SUFFICES ASSUME s.at = 0 PROVE FALSE
        OBVIOUS
      <4>2. Around(s) = Enclosing(u) \ {u}
        BY <2>3, <4>1, AroundFacts
      <4> QED BY <1>3, <1>9, <4>2
    <3>2. s.at \in DOMAIN prog.items[u]
      BY <1>9, <2>3, <3>1 DEF Genuine
    <3>3. s.at < top.at
      BY <3>2, PartsAreFinished
    <3> QED BY <1>2, <2>1, <2>3, <3>1, <3>3 DEF Passed
  <2> QED BY <2>2, <2>3
<1>10. Raised = {s \in Site : Genuine(s) /\ Passed(W, s) /\ Around(s) \cap W = {}}
  BY DEF Exact, Expected
<1>11. All(u) = {s \in Site : Genuine(s) /\ s.unit \in Inside[u] /\ Around(s) = Enclosing(u)}
  BY <1>2, ReportBySite
<1> QED BY <1>8, <1>9, <1>10, <1>11

LEMMA ReturnTracks ==
  ASSUME IInv, prog \in Programs, NEW W \in SUBSET Unit, Tracked(W), AtEnd, Return,
         prog' = prog, entered' = entered,
         NEW u, u = top.unit, NEW V, V = W \cup {u},
         errors' = ErrorsAfter(u, top.mark),
         \A d \in Decl : d # u => inferred'[d] = inferred[d],
         u \in Decl /\ inferred'[u] = "poison" => inferred[u] = "poison" \/ top.type = "poison"
  PROVE  Tracked(V)' /\ V \in SUBSET Unit
<1> DEFINE n == Len(stack)
<1>1. status = "checking"
  BY DEF AtEnd
<1>2. /\ n \in Nat \ {0} /\ DOMAIN stack = 1 .. n
      /\ top = stack[n] /\ n \in DOMAIN stack
      /\ u \in Unit /\ u \in OnStack /\ top.mark \in Nat
  BY <1>1, StackFacts DEF IInv, OnStack
<1>3. /\ DOMAIN stack' = DOMAIN stack \ {n}
      /\ \A k \in DOMAIN stack' :
           /\ stack'[k].unit = stack[k].unit
           /\ stack'[k].mark = stack[k].mark
           /\ stack'[k].type = stack[k].type
  BY <1>1, ReturnFrames DEF IInv
<1>4. /\ prog' = prog /\ Inside' = Inside
      /\ (\A s : Around(s)' = Around(s)) /\ (\A s : Genuine(s)' = Genuine(s))
      /\ SelfContained' = SelfContained
  BY TextStays
<1>5. Walked(W) /\ Walked(V)'
  BY ReturnWalks DEF Tracked
<1> HIDE DEF n
<1>6. u \notin W /\ Enclosing(u) \cap W = {} /\ u \in Inside[u]
  BY <1>2, <1>5, NothingFinishedAround, InsideIsClosed
<1>7. ASSUME NEW s \in Site
      PROVE  /\ Passed(W, s) => Passed(V, s)'
             /\ Genuine(s) => (Passed(V, s)' <=> Passed(W, s) \/ (s.unit = u /\ s.at = 0))
  BY <1>5, ReturnPasses
<1>8. PoisonHasCause(V)'
  <2>1. \A x : Cause(W, x) => CauseNext(V, x)
    BY <1>7, CauseStays
  <2>2. PoisonHasCause(W)
    BY DEF Tracked
  <2>3. \A d \in Decl : inferred'[d] = "poison" => CauseNext(V, d)
    <3>1. top.type = "poison" => Cause(W, u)
      BY <1>2, <2>2 DEF PoisonHasCause
    <3> QED BY <2>1, <2>2, <3>1 DEF PoisonHasCause
  <2>4. \A k \in DOMAIN stack' : stack'[k].type = "poison" => CauseNext(V, stack'[k].unit)
    BY <1>3, <2>1, <2>2 DEF PoisonHasCause
  <2> QED BY <1>4, <2>3, <2>4, PoisonNext
<1>9. ASSUME SelfContained PROVE Exact(V)'
  <2>1. Exact(W)
    BY <1>9 DEF Tracked
  <2>2. AboveIsInside'
    BY <1>3, <1>4, <2>1 DEF Exact, AboveIsInside
  <2>3. errors \in Seq(Site) /\ Len(errors) \in Nat /\ DOMAIN errors = 1 .. Len(errors)
        /\ \A k \in DOMAIN stack : stack[k].mark \in Nat /\ stack[k].mark <= Len(errors)
    BY <1>1, StackFacts DEF IInv, TypeOK, MarksAscend
  <2>4. \A s \in Site : u \in Around(s) <=> u \in prog.expects /\ s.unit \in Inside[u]
                                              /\ ~(s.unit = u /\ s.at = 0)
    <3>1. ASSUME NEW s \in Site
          PROVE  s = [unit |-> u, at |-> 0] <=> s.unit = u /\ s.at = 0
      <4>1. s = [unit |-> s.unit, at |-> s.at]
        BY AroundFacts
      <4>2. s = [unit |-> u, at |-> 0] => s.unit = u /\ s.at = 0
        OBVIOUS
      <4> QED BY <4>1, <4>2
    <3> QED BY <3>1 DEF Around, Enclosing
  <2>5. Raised = {s \in Site : Genuine(s) /\ Passed(W, s) /\ Around(s) \cap W = {}}
    BY <2>1 DEF Exact, Expected
  <2>6. Expected(V)' = {s \in Site : Genuine(s) /\ (Passed(W, s) \/ (s.unit = u /\ s.at = 0))
                                       /\ Around(s) \cap W = {} /\ u \notin Around(s)}
    BY <1>4, <1>7 DEF Expected
  <2>7. CASE u \notin prog.expects
    <3>1. errors' = errors
      BY <2>7 DEF ErrorsAfter
    <3>2. Raised' = Raised
      BY <3>1 DEF Raised
    <3>3. MarksSplit'
      BY <1>3, <1>4, <2>1, <3>1 DEF Exact, MarksSplit
    <3>4. Raised' = Expected(V)'
      <4>1. \A s : Genuine(s) => ~(s.unit = u /\ s.at = 0)
        BY <2>7 DEF Genuine
      <4> QED BY <2>4, <2>5, <2>6, <2>7, <3>2, <4>1
    <3> QED BY <2>1, <2>2, <3>1, <3>3, <3>4 DEF Exact
  <2>8. CASE u \in prog.expects
    <3> DEFINE e == [unit |-> u, at |-> 0]
    <3>1. e \in Site /\ e.unit = u /\ e.at = 0
      BY <1>2 DEF Site
    <3>2. \A s \in Site : s.unit = u /\ s.at = 0 => s = e
      BY AroundFacts
    <3>3. errors' = IF Len(errors) = top.mark THEN Append(errors, e) ELSE SubSeq(errors, 1, top.mark)
      BY <2>8 DEF ErrorsAfter
    <3>4. All(u) = {s \in Raised : s.unit \in Inside[u]}
      BY <1>5, <2>1, <2>8, RaisedInside
    <3>5. \A j \in DOMAIN errors : errors[j].unit \in Inside[u] <=> top.mark < j
      BY <1>2, <2>1, <2>8 DEF Exact, MarksSplit
    <3>6. Genuine(e) <=> All(u) = {}
      BY <2>8, <3>1 DEF Genuine
    <3>7. top.mark <= Len(errors)
      BY <1>2, <2>3
    <3> HIDE DEF e
    <3>8. CASE All(u) = {}
      <4>1. Len(errors) = top.mark
        <5>1. SUFFICES ASSUME Len(errors) # top.mark PROVE FALSE
          OBVIOUS
        <5>2. Len(errors) \in DOMAIN errors /\ top.mark < Len(errors)
          BY <1>2, <2>3, <3>7, <5>1
        <5>3. errors[Len(errors)] \in Raised
          BY <5>2 DEF Raised
        <5> QED BY <3>4, <3>5, <3>8, <5>2, <5>3
      <4>2. /\ DOMAIN errors' = DOMAIN errors \cup {Len(errors) + 1}
            /\ errors'[Len(errors) + 1] = e
            /\ \A j \in DOMAIN errors : errors'[j] = errors[j]
            /\ Raised' = Raised \cup {e}
        BY <2>3, <3>1, <3>3, <4>1, AppendedError
      <4>3. e \notin Raised
        BY <1>6, <3>1, <3>4, <3>8
      <4>4. Around(e) \cap W = {} /\ u \notin Around(e)
        BY <1>6, <2>4, <3>1 DEF Around
      <4>5. Expected(V)' = Raised \cup {e}
        <5>1. \A s \in Raised : u \notin Around(s)
          BY <2>4, <2>5, <3>4, <3>8
        <5> QED BY <2>5, <2>6, <3>1, <3>2, <3>6, <3>8, <4>4, <5>1
      <4>6. MarksSplit'
        <5>1. SUFFICES ASSUME NEW k \in DOMAIN stack', stack[k].unit \in prog.expects,
                              NEW j \in DOMAIN errors'
                       PROVE  errors'[j].unit \in Inside[stack[k].unit] <=> stack[k].mark < j
          BY <1>3, <1>4 DEF MarksSplit
        <5>2. k \in DOMAIN stack /\ k <= n
          BY <1>2, <1>3
        <5>3. CASE j \in DOMAIN errors
          BY <2>1, <4>2, <5>1, <5>2, <5>3 DEF Exact, MarksSplit
        <5>4. CASE j = Len(errors) + 1
          <6>1. u \in Inside[stack[k].unit]
            BY <1>2, <2>1, <5>1, <5>2 DEF Exact, AboveIsInside
          <6>2. stack[k].mark < j
            BY <2>3, <5>2, <5>4
          <6> QED BY <3>1, <4>2, <5>4, <6>1, <6>2
        <5> QED BY <4>2, <5>3, <5>4
      <4>7. ASSUME NEW i \in DOMAIN errors', NEW j \in DOMAIN errors', errors'[i] = errors'[j]
            PROVE  i = j
        <5>1. \A k \in DOMAIN errors : errors[k] # e
          BY <4>3 DEF Raised
        <5> QED BY <2>1, <4>2, <4>7, <5>1 DEF Exact
      <4> QED BY <2>2, <4>2, <4>5, <4>6, <4>7 DEF Exact
    <3>9. CASE All(u) # {}
      <4>1. Len(errors) # top.mark
        <5>1. PICK s \in Raised : s.unit \in Inside[u]
          BY <3>4, <3>9
        <5>2. PICK j \in DOMAIN errors : errors[j] = s
          BY DEF Raised
        <5>3. top.mark < j
          BY <3>5, <5>1, <5>2
        <5> QED BY <1>2, <2>3, <5>3
      <4>2. /\ DOMAIN errors' = 1 .. top.mark
            /\ \A j \in 1 .. top.mark : errors'[j] = errors[j]
        <5>1. errors' = SubSeq(errors, 1, top.mark)
          BY <3>3, <4>1
        <5>2. top.mark \in 0 .. Len(errors)
          BY <1>2, <2>3, <3>7
        <5>3. /\ errors' \in Seq(Site) /\ Len(errors') = top.mark
              /\ \A j \in 1 .. top.mark : errors'[j] = errors[j]
          BY <2>3, <5>1, <5>2, PrefixFacts
        <5> QED BY <5>3
      <4>3. \A j : j \in 1 .. top.mark <=> j \in DOMAIN errors /\ ~(top.mark < j)
        BY <1>2, <2>3, <3>7
      <4>4. Raised' = {s \in Raised : s.unit \notin Inside[u]}
        <5>1. ASSUME NEW s \in Raised' PROVE s \in Raised /\ s.unit \notin Inside[u]
          <6>1. PICK j \in 1 .. top.mark : s = errors[j]
            BY <4>2 DEF Raised
          <6> QED BY <3>5, <4>3, <6>1 DEF Raised
        <5>2. ASSUME NEW s \in Raised, s.unit \notin Inside[u] PROVE s \in Raised'
          <6>1. PICK j \in DOMAIN errors : s = errors[j]
            BY DEF Raised
          <6>2. j \in DOMAIN errors' /\ errors'[j] = s
            BY <3>5, <4>2, <4>3, <5>2, <6>1
          <6> QED BY <6>2 DEF Raised
        <5> QED BY <5>1, <5>2
      <4>5. Expected(V)' = {s \in Raised : s.unit \notin Inside[u]}
        <5>1. \A s \in Site : Genuine(s) => ~(s.unit = u /\ s.at = 0)
          BY <3>2, <3>6, <3>9
        <5> QED BY <2>4, <2>5, <2>6, <2>8, <5>1
      <4>6. MarksSplit'
        BY <1>3, <1>4, <2>1, <4>2, <4>3 DEF Exact, MarksSplit
      <4>7. \A i, j \in DOMAIN errors' : errors'[i] = errors'[j] => i = j
        BY <2>1, <4>2, <4>3 DEF Exact
      <4> QED BY <2>2, <4>4, <4>5, <4>6, <4>7 DEF Exact
    <3> QED BY <3>8, <3>9
  <2> QED BY <2>7, <2>8
<1> QED BY <1>2, <1>4, <1>5, <1>8, <1>9 DEF Tracked

(* Where nothing moves, nothing changes. *)
LEMMA StutterTracks ==
  ASSUME NEW W, Tracked(W), UNCHANGED <<prog, stack, entered, inferred, errors>>,
         status' = status \/ status' = "assert"
  PROVE  Tracked(W)'
<1>1. /\ prog' = prog /\ Inside' = Inside
      /\ (\A u : Children(u)' = Children(u)) /\ (\A u : Enclosing(u)' = Enclosing(u))
      /\ (\A s : Around(s)' = Around(s)) /\ (\A s : Genuine(s)' = Genuine(s))
      /\ SelfContained' = SelfContained
  BY TextStays
<1>2. Reached(W)' = Reached(W)
  BY DEF Reached, OnStack
<1>3. FramesNest(W)'
  <2>1. FramesNest(W)
    BY DEF Tracked, Walked
  <2>2. status' = "done" => stack' = <<>>
    BY <2>1 DEF FramesNest
  <2> QED BY <1>1, <2>1, <2>2 DEF FramesNest
<1>4. FinishedWhole(W)'
  BY <1>1, <1>2 DEF Tracked, Walked, FinishedWhole, Closed, Rooted
<1>5. PassedItems(W)'
  BY <1>1, <1>2 DEF Tracked, Walked, PassedItems
<1>6. EnteredIsReached(W)'
  BY <1>2 DEF Tracked, Walked, EnteredIsReached
<1>7. \A s : Passed(W, s)' <=> Passed(W, s)
  BY DEF Passed
<1>8. PoisonHasCause(W)'
  BY <1>1, <1>7 DEF Tracked, PoisonHasCause, Cause
<1>9. SelfContained => Exact(W)'
  <2>1. AboveIsInside' <=> AboveIsInside
    BY <1>1 DEF AboveIsInside
  <2>2. MarksSplit' <=> MarksSplit
    BY <1>1 DEF MarksSplit
  <2>3. Raised' = Raised /\ Expected(W)' = Expected(W)
    BY <1>1, <1>7 DEF Raised, Expected
  <2> QED BY <2>1, <2>2, <2>3 DEF Tracked, Exact
<1> QED BY <1>1, <1>3, <1>4, <1>5, <1>6, <1>8, <1>9 DEF Tracked, Walked

-----------------------------------------------------------------------------
(* Each action keeps track. *)

LEMMA CheckDeclarationTracks ==
  ASSUME IInv, prog \in Programs, NEW W \in SUBSET Unit, Tracked(W), status = "checking",
         top.at \in DOMAIN items, NEW d \in Decl, NEW b \in Block, inferred[d] = "null",
         Needs(prog, top.unit, d), CheckDeclaration(d, b),
         UNCHANGED <<prog, errors>>
  PROVE  Tracked(W)'
<1>1. CASE d \in entered
  <2>1. status' = "assert" /\ UNCHANGED <<stack, entered, inferred>>
    BY <1>1 DEF CheckDeclaration
  <2> QED BY <2>1, StutterTracks
<1>2. CASE d \notin entered
  <2>1. Call(d, b) /\ entered' = entered \cup {d}
    BY <1>2 DEF CheckDeclaration
  <2>2. inferred' = IF d \in prog.proc THEN [inferred EXCEPT ![d] = "ok"] ELSE inferred
    BY <1>2 DEF CheckDeclaration, TypedOnEntry
  <2>3. inferred \in [Decl -> {"null", "ok", "poison"}]
    BY DEF IInv, TypeOK
  <2>4. (\A x \in Decl : x # d => inferred'[x] = inferred[x]) /\ inferred'[d] # "poison"
    BY <2>2, <2>3
  <2>5. d \in Unit /\ d \notin Block
    BY UnitsAssumption DEF Unit
  <2> QED BY <1>2, <2>1, <2>4, <2>5, CallTracks
<1> QED BY <1>1, <1>2

LEMMA VisitDeclarationTracks ==
  ASSUME IInv, prog \in Programs, NEW W \in SUBSET Unit, Tracked(W), VisitDeclaration
  PROVE  Tracked(W)'
<1> DEFINE d == items[top.at].decl
<1>1. /\ status = "checking" /\ top.at \in DOMAIN items /\ items[top.at].op = "decl"
      /\ UNCHANGED <<prog, errors>>
  BY DEF VisitDeclaration, AtItem
<1>2. d \in Decl /\ Needs(prog, top.unit, d)
  BY <1>1, ItemFacts
<1>3. CASE inferred[d] # "null"
  <2>1. Advance("ok") /\ UNCHANGED <<entered, inferred, status>>
    BY <1>3 DEF VisitDeclaration
  <2>2. d \in entered
    BY <1>2, <1>3 DEF Tracked, Walked, EnteredIsReached
  <2>3. ~Breaks(top.unit, top.at)
    BY <1>1 DEF Breaks, items
  <2> QED BY <1>1, <2>1, <2>2, <2>3, AdvanceTracks
<1>4. CASE inferred[d] = "null"
  <2>1. CheckDeclaration(d, current_block) /\ current_block \in Block
    BY <1>4 DEF VisitDeclaration, IInv, TypeOK
  <2> QED BY <1>1, <1>2, <1>4, <2>1, CheckDeclarationTracks
<1> QED BY <1>3, <1>4

LEMMA VisitIdentifierTracks ==
  ASSUME IInv, prog \in Programs, NEW W \in SUBSET Unit, Tracked(W), VisitIdentifier
  PROVE  Tracked(W)'
<1> DEFINE d == find_declaration(prog, current_block, items[top.at].name)
<1>1. /\ status = "checking" /\ top.at \in DOMAIN items /\ items[top.at].op = "use"
      /\ UNCHANGED prog
  BY DEF VisitIdentifier, AtItem
<1>2. d # NoDecl => d \in Decl /\ Needs(prog, top.unit, d)
  BY <1>1, ItemFacts
<1>3. Breaks(top.unit, top.at) <=> d = NoDecl
  <2>1. current_block = Lexical(prog, top.unit)
    BY <1>1 DEF IInv, ScopeIsLexical
  <2> QED BY <1>1, <2>1 DEF Breaks, items
<1>4. items[top.at].op # "block" /\ items[top.at].op # "decl"
  BY <1>1
<1> HIDE DEF d
<1>5. CASE d = NoDecl
  <2>1. /\ errors' = Append(errors, here) /\ Advance("poison")
        /\ UNCHANGED <<entered, inferred, status>>
    BY <1>5 DEF VisitIdentifier, d
  <2> QED BY <1>1, <1>3, <1>4, <1>5, <2>1, AdvanceTracks
<1>6. CASE d # NoDecl /\ inferred[d] = "null"
  <2>1. CheckDeclaration(d, prog.home[d]) /\ UNCHANGED errors
    BY <1>6 DEF VisitIdentifier, d
  <2>2. prog.home[d] \in Block
    BY <1>2, <1>6, TextFacts
  <2> QED BY <1>1, <1>2, <1>6, <2>1, <2>2, CheckDeclarationTracks
<1>7. CASE d # NoDecl /\ inferred[d] # "null"
  <2>1. Advance(inferred[d]) /\ UNCHANGED <<entered, inferred, errors, status>>
    BY <1>7 DEF VisitIdentifier, d
  <2> QED BY <1>1, <1>2, <1>3, <1>4, <1>7, <2>1, AdvanceTracks
<1> QED BY <1>5, <1>6, <1>7

LEMMA FailTracks ==
  ASSUME IInv, prog \in Programs, NEW W \in SUBSET Unit, Tracked(W), Fail
  PROVE  Tracked(W)'
<1>1. /\ status = "checking" /\ top.at \in DOMAIN items /\ items[top.at].op = "fail"
      /\ errors' = Append(errors, here) /\ Advance(Poisoned(items[top.at]))
      /\ UNCHANGED <<prog, entered, inferred, status>>
  BY DEF Fail, AtItem
<1>2. Breaks(top.unit, top.at)
  BY <1>1 DEF Breaks, items
<1> QED BY <1>1, <1>2, AdvanceTracks

LEMMA VisitBlockTracks ==
  ASSUME IInv, prog \in Programs, NEW W \in SUBSET Unit, Tracked(W), VisitBlock
  PROVE  Tracked(W)'
<1> DEFINE b == items[top.at].block
<1>1. /\ status = "checking" /\ top.at \in DOMAIN items /\ items[top.at].op = "block"
      /\ Call(b, b) /\ UNCHANGED <<prog, entered, inferred, errors>>
  BY DEF VisitBlock, AtItem
<1>2. b \in Block /\ Needs(prog, top.unit, b)
  BY <1>1, ItemFacts
<1>3. b \in Unit /\ b \notin Decl
  BY <1>2, UnitsAssumption DEF Unit
<1> QED BY <1>1, <1>2, <1>3, CallTracks

LEMMA LeaveBlockTracks ==
  ASSUME IInv, prog \in Programs, NEW W \in SUBSET Unit, Tracked(W), LeaveBlock
  PROVE  \E V \in SUBSET Unit : Tracked(V)'
<1>1. PICK u : u = top.unit
  OBVIOUS
<1>2. PICK V : V = W \cup {u}
  OBVIOUS
<1>3. /\ AtEnd /\ Return /\ u \in Block /\ errors' = ErrorsAfter(u, top.mark)
      /\ UNCHANGED <<prog, entered, inferred>>
  BY <1>1 DEF LeaveBlock
<1>4. Tracked(V)' /\ V \in SUBSET Unit
  BY <1>1, <1>2, <1>3, UnitsAssumption, ReturnTracks
<1> QED BY <1>4

LEMMA LeaveDeclarationTracks ==
  ASSUME IInv, prog \in Programs, NEW W \in SUBSET Unit, Tracked(W), LeaveDeclaration
  PROVE  \E V \in SUBSET Unit : Tracked(V)'
<1>1. PICK u : u = top.unit
  OBVIOUS
<1>2. PICK V : V = W \cup {u}
  OBVIOUS
<1>3. /\ AtEnd /\ Return /\ u \in Decl /\ UNCHANGED <<prog, entered, errors>>
      /\ inferred' = IF u \in prog.proc THEN inferred ELSE [inferred EXCEPT ![u] = top.type]
  BY <1>1 DEF LeaveDeclaration
<1>4. errors' = ErrorsAfter(u, top.mark)
  BY <1>3, TextFacts, UnitsAssumption DEF ErrorsAfter
<1>5. inferred \in [Decl -> {"null", "ok", "poison"}]
  BY DEF IInv, TypeOK
<1>6. /\ \A d \in Decl : d # u => inferred'[d] = inferred[d]
      /\ inferred'[u] = "poison" => inferred[u] = "poison" \/ top.type = "poison"
  BY <1>3, <1>5
<1>7. Tracked(V)' /\ V \in SUBSET Unit
  BY <1>1, <1>2, <1>3, <1>4, <1>6, ReturnTracks
<1> QED BY <1>7

LEMMA InitTracks ==
  ASSUME Init
  PROVE  Tracked({})
<1> DEFINE f == [unit |-> prog.module, at |-> 1, saved |-> prog.module,
                 mark |-> 0, type |-> "ok"]
<1>1. prog \in Programs /\ stack = <<f>> /\ entered = {} /\ errors = <<>>
      /\ inferred = [d \in Decl |-> "null"] /\ status = "checking"
  BY DEF Init
<1>2. f.unit = prog.module /\ f.at = 1 /\ f.mark = 0 /\ f.type = "ok"
  OBVIOUS
<1> HIDE DEF f
<1>3. DOMAIN stack = {1} /\ stack[1] = f /\ stack # <<>>
  BY <1>1
<1>4. /\ prog.module \in Unit /\ prog.module \notin Decl
      /\ prog.module \in Inside[prog.module]
      /\ \A u \in Unit : prog.module \notin Children(u)
  BY <1>1, TextFacts, ModuleIsRooted, ChildFacts, UnitsAssumption
<1>5. Reached({}) = {prog.module}
  BY <1>2, <1>3 DEF Reached, OnStack
<1>6. FramesNest({})
  BY <1>1, <1>2, <1>3, <1>4 DEF FramesNest
<1>7. FinishedWhole({})
  BY <1>4, <1>5 DEF FinishedWhole, Closed, Rooted
<1>8. PassedItems({})
  <2>1. \A i \in DOMAIN prog.items[prog.module] : i \in Nat \ {0}
    BY <1>1, <1>4, TextFacts
  <2>2. \A i \in DOMAIN prog.items[prog.module] : ~(i < 1)
    BY <2>1
  <2> QED BY <1>2, <1>3, <2>2 DEF PassedItems
<1>9. EnteredIsReached({})
  BY <1>1, <1>4, <1>5 DEF EnteredIsReached
<1>10. PoisonHasCause({})
  BY <1>1, <1>2, <1>3 DEF PoisonHasCause
<1>11. Exact({})
  <2>1. AboveIsInside
    BY <1>2, <1>3, <1>4 DEF AboveIsInside
  <2>2. DOMAIN errors = {}
    BY <1>1
  <2>3. Expected({}) = {}
    <3>1. \A s \in Site : s.at # 0 => ~(s.at < 1)
      BY DEF Site
    <3> QED BY <1>2, <1>3, <3>1 DEF Expected, Passed
  <2>4. MarksSplit /\ Raised = {}
    BY <2>2 DEF MarksSplit, Raised
  <2> QED BY <2>1, <2>2, <2>3, <2>4 DEF Exact
<1> QED BY <1>6, <1>7, <1>8, <1>9, <1>10, <1>11 DEF Tracked, Walked

LEMMA NextTracks ==
  ASSUME IInv, prog \in Programs, NEW W \in SUBSET Unit, Tracked(W), [Next]_vars
  PROVE  \E V \in SUBSET Unit : Tracked(V)'
<1>1. CASE VisitDeclaration
  BY <1>1, VisitDeclarationTracks
<1>2. CASE VisitIdentifier
  BY <1>2, VisitIdentifierTracks
<1>3. CASE Fail
  BY <1>3, FailTracks
<1>4. CASE VisitBlock
  BY <1>4, VisitBlockTracks
<1>5. CASE LeaveBlock
  BY <1>5, LeaveBlockTracks
<1>6. CASE LeaveDeclaration
  BY <1>6, LeaveDeclarationTracks
<1>7. CASE UNCHANGED vars
  BY <1>7, StutterTracks DEF vars
<1> QED BY <1>1, <1>2, <1>3, <1>4, <1>5, <1>6, <1>7 DEF Next

-----------------------------------------------------------------------------
(***************************************************************************)
(* At every moment there are the units the checker has finished, each with *)
(* all of its parts; and, in a module whose __error blocks are             *)
(* self-contained, the error list is what is wrong up to where the checker *)
(* has come, less what the finished __error blocks expected - whatever the *)
(* order in which identifiers led it through the declarations.             *)
(***************************************************************************)
THEOREM ErrorsAreTracked == Spec => []WInv
<1>1. Init => WInv
  <2> SUFFICES ASSUME Init PROVE WInv
    OBVIOUS
  <2>1. prog \in Programs /\ {} \in SUBSET Unit
    BY DEF Init
  <2> QED BY <2>1, InitIInv, InitTracks DEF WInv
<1>2. WInv /\ [Next]_vars => WInv'
  <2> SUFFICES ASSUME WInv, [Next]_vars PROVE WInv'
    OBVIOUS
  <2>1. PICK W \in SUBSET Unit : Tracked(W)
    BY DEF WInv
  <2>2. PICK V \in SUBSET Unit : Tracked(V)'
    BY <2>1, NextTracks DEF WInv
  <2>3. IInv'
    BY NextIInv DEF WInv
  <2>4. prog' = prog
    BY DEF Next, VisitDeclaration, VisitIdentifier, Fail, VisitBlock, LeaveBlock,
           LeaveDeclaration, vars
  <2> QED BY <2>2, <2>3, <2>4 DEF WInv
<1> QED BY <1>1, <1>2, PTL DEF Spec

(* When the checker returns it has finished the module and nothing else.   *)
LEMMA DoneFacts ==
  ASSUME prog \in Programs, NEW W \in SUBSET Unit, Walked(W), status = "done"
  PROVE  /\ W = Inside[prog.module] /\ DOMAIN stack = {}
         /\ \A s \in Site : Passed(W, s) <=> s.unit \in W
         /\ \A s \in Site : s.unit \in W => (Around(s) \cap W = {} <=> Around(s) = {})
<1>1. stack = <<>> /\ prog.module \in W
  BY DEF Walked, FramesNest
<1>2. DOMAIN stack = {}
  BY <1>1
<1>3. W = Inside[prog.module]
  BY <1>1, InsideIsLeast DEF Walked, FinishedWhole
<1>4. \A s \in Site : Passed(W, s) <=> s.unit \in W
  BY <1>2 DEF Passed
<1>5. ASSUME NEW s \in Site, s.unit \in W, NEW b \in Around(s) PROVE b \in W
  <2>1. b \in Unit /\ s.unit \in Inside[b]
    BY TextFacts DEF Around, Enclosing, Unit
  <2> QED BY <1>3, <1>5, <2>1, ModuleIsRooted, RootedHasAll
<1> QED BY <1>2, <1>3, <1>4, <1>5

(***************************************************************************)
(* Every broken rule is reported exactly once, and an __error block takes  *)
(* away the errors of its own text and no others (typecheck.cpp:716-734):  *)
(* what is left at the end is what the text alone says, for every module   *)
(* whose __error blocks are self-contained.                                *)
(***************************************************************************)
THEOREM ReportedExactly == Spec => []ErrorsExact
<1>1. WInv => ErrorsExact
  <2> SUFFICES ASSUME WInv, status = "done", SelfContained
               PROVE  /\ Raised = Report[prog.module]
                      /\ \A i, j \in DOMAIN errors : errors[i] = errors[j] => i = j
    BY DEF ErrorsExact
  <2>1. PICK W \in SUBSET Unit : Tracked(W)
    BY DEF WInv
  <2>2. prog \in Programs /\ Walked(W) /\ Exact(W)
    BY <2>1 DEF WInv, Tracked
  <2>3. Enclosing(prog.module) \ {prog.module} = {}
    BY <2>2, ModuleIsRooted, TextFacts DEF Enclosing, Unit
  <2>4. Report[prog.module]
          = {s \in Site : Genuine(s) /\ s.unit \in Inside[prog.module] /\ Around(s) = {}}
    BY <2>2, <2>3, ModuleIsRooted, ReportBySite
  <2>5. Raised = {s \in Site : Genuine(s) /\ Passed(W, s) /\ Around(s) \cap W = {}}
    BY <2>2 DEF Exact, Expected
  <2>6. Raised = Report[prog.module]
    BY <2>2, <2>4, <2>5, DoneFacts
  <2> QED BY <2>2, <2>6 DEF Exact
<1> QED BY <1>1, ErrorsAreTracked, PTL

(***************************************************************************)
(* A module without errors goes on to compile_to_ir with a type, and not   *)
(* poison, on every declaration outside its __error blocks (main.cpp).     *)
(***************************************************************************)
THEOREM AcceptedHasTypes == Spec => []AcceptedIsSound
<1>1. WInv => AcceptedIsSound
  <2> SUFFICES ASSUME WInv, status = "done", errors = <<>>, SelfContained,
                      NEW d \in Inside[prog.module] \cap Decl,
                      \A b \in prog.expects : d \notin Inside[b]
               PROVE  inferred[d] = "ok"
    BY DEF AcceptedIsSound
  <2>1. PICK W \in SUBSET Unit : Tracked(W)
    BY DEF WInv
  <2>2. prog \in Programs /\ Walked(W) /\ Exact(W) /\ PoisonHasCause(W) /\ IInv
    BY <2>1 DEF WInv, Tracked
  <2>3. /\ W = Inside[prog.module] /\ DOMAIN stack = {}
        /\ \A s \in Site : Passed(W, s) <=> s.unit \in W
    BY <2>2, DoneFacts
  <2>4. d \in entered
    BY <2>2, <2>3 DEF Walked, EnteredIsReached, Reached
  <2>5. inferred[d] \in {"ok", "poison"}
    BY <2>2, <2>3, <2>4 DEF IInv, TypeOK, InProgressIsOnStack
  <2>6. ASSUME inferred[d] = "poison" PROVE FALSE
    <3>1. Enclosing(d) = {}
      BY DEF Enclosing
    <3>2. PICK s \in Site : s.at # 0 /\ Genuine(s) /\ Passed(W, s) /\ Enclosing(s.unit) = {}
      BY <2>2, <2>6, <3>1 DEF PoisonHasCause, Cause
    <3>3. Around(s) = {}
      BY <3>2 DEF Around
    <3>4. s \in Raised
      BY <2>2, <3>2, <3>3 DEF Exact, Expected
    <3>5. Raised = {}
      BY DEF Raised
    <3> QED BY <3>4, <3>5
  <2> QED BY <2>5, <2>6
<1> QED BY <1>1, ErrorsAreTracked, PTL
=============================================================================
