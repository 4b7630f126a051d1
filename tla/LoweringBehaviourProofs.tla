------------------------ MODULE LoweringBehaviourProofs -----------------------
(***************************************************************************)
(* The compiled procedure behaves as its text, for all statements and      *)
(* conditions and integers of any width.                                   *)
(*                                                                         *)
(* Every place in the code has a label, which says what is left of the     *)
(* text when the machine is there, and which variables the two still agree *)
(* about.  An instruction is good between two labels if it does what the   *)
(* text does between them.  The generator emits good instructions alone:   *)
(* each node and each frame on its stack stands between two labels, and a  *)
(* handler gives labels to what it emits and to what it pushes.            *)
(***************************************************************************)
EXTENDS LoweringProofs

-----------------------------------------------------------------------------
(* Texts: sequences of whatever statements, loops and branches. *)

IsText(T) == \E S : T \in Seq(S)

LEMMA InText ==
  ASSUME NEW S, NEW T \in Seq(S)
  PROVE  IsText(T) /\ Len(T) \in Nat /\ DOMAIN T = 1 .. Len(T)
BY DEF IsText

(* Two texts are sequences over one set. *)
LEMMA CommonText ==
  ASSUME NEW A, IsText(A), NEW B, IsText(B), NEW C, IsText(C)
  PROVE  \E S : A \in Seq(S) /\ B \in Seq(S) /\ C \in Seq(S)
<1>1. PICK S : A \in Seq(S)
  BY DEF IsText
<1>2. PICK T : B \in Seq(T)
  BY DEF IsText
<1>3. PICK V : C \in Seq(V)
  BY DEF IsText
<1> DEFINE W == S \cup T \cup V
<1>4. S \subseteq W /\ T \subseteq W /\ V \subseteq W
  OBVIOUS
<1> HIDE DEF W
<1>5. Seq(S) \subseteq Seq(W) /\ Seq(T) \subseteq Seq(W) /\ Seq(V) \subseteq Seq(W)
  BY <1>4
<1>6. A \in Seq(W) /\ B \in Seq(W) /\ C \in Seq(W)
  BY <1>1, <1>2, <1>3, <1>5
<1> QED BY <1>6

LEMMA ConcatText ==
  ASSUME NEW A, IsText(A), NEW B, IsText(B)
  PROVE  IsText(A \o B)
<1>1. PICK S : A \in Seq(S) /\ B \in Seq(S) /\ B \in Seq(S)
  BY CommonText
<1>2. A \o B \in Seq(S)
  BY <1>1
<1> QED BY <1>2 DEF IsText

LEMMA OneText ==
  ASSUME NEW a, NEW b
  PROVE  IsText(<<>>) /\ IsText(<<a>>) /\ IsText(<<a, b>>)
<1> DEFINE S == {a, b}
<1>1. a \in S /\ b \in S
  OBVIOUS
<1> HIDE DEF S
<1>2. <<>> \in Seq(S) /\ <<a>> \in Seq(S) /\ <<a, b>> \in Seq(S)
  BY <1>1
<1> QED BY <1>2 DEF IsText

(* Two sequences with the same elements. *)
LEMMA SameSequence ==
  ASSUME NEW S, NEW A \in Seq(S), NEW B \in Seq(S), Len(A) = Len(B),
         \A i \in 1 .. Len(A) : A[i] = B[i]
  PROVE  A = B
<1>1. A = [i \in 1 .. Len(A) |-> A[i]] /\ B = [i \in 1 .. Len(B) |-> B[i]]
  OBVIOUS
<1> QED BY <1>1

(* Concatenation is associative, whatever the texts consist of. *)
LEMMA Associate ==
  ASSUME NEW A, IsText(A), NEW B, IsText(B), NEW C, IsText(C)
  PROVE  (A \o B) \o C = A \o (B \o C)
<1>1. PICK S : A \in Seq(S) /\ B \in Seq(S) /\ C \in Seq(S)
  BY CommonText
<1> DEFINE L == (A \o B) \o C
           R == A \o (B \o C)
           a == Len(A)
           b == Len(B)
           c == Len(C)
<1>2. /\ A \o B \in Seq(S) /\ Len(A \o B) = a + b /\ a \in Nat /\ b \in Nat
      /\ \A i \in 1 .. a : (A \o B)[i] = A[i]
      /\ \A i \in a + 1 .. a + b : (A \o B)[i] = B[i - a]
  BY <1>1, ConcatFacts
<1>3. /\ B \o C \in Seq(S) /\ Len(B \o C) = b + c /\ c \in Nat
      /\ \A i \in 1 .. b : (B \o C)[i] = B[i]
      /\ \A i \in b + 1 .. b + c : (B \o C)[i] = C[i - b]
  BY <1>1, ConcatFacts
<1>4. /\ L \in Seq(S) /\ Len(L) = (a + b) + c
      /\ \A i \in 1 .. a + b : L[i] = (A \o B)[i]
      /\ \A i \in (a + b) + 1 .. (a + b) + c : L[i] = C[i - (a + b)]
  <2> DEFINE D == A \o B
  <2>1. D \in Seq(S) /\ C \in Seq(S) /\ Len(D) = a + b
    BY <1>1, <1>2
  <2> HIDE DEF D, a, b, c
  <2>2. /\ D \o C \in Seq(S) /\ Len(D \o C) = Len(D) + Len(C)
        /\ \A i \in 1 .. Len(D) : (D \o C)[i] = D[i]
        /\ \A i \in Len(D) + 1 .. Len(D) + Len(C) : (D \o C)[i] = C[i - Len(D)]
    BY <2>1, ConcatFacts
  <2> QED BY <2>1, <2>2 DEF D, c
<1>5. /\ R \in Seq(S) /\ Len(R) = a + (b + c)
      /\ \A i \in 1 .. a : R[i] = A[i]
      /\ \A i \in a + 1 .. a + (b + c) : R[i] = (B \o C)[i - a]
  <2> DEFINE D == B \o C
  <2>1. D \in Seq(S) /\ A \in Seq(S) /\ Len(D) = b + c
    BY <1>1, <1>3
  <2> HIDE DEF D, a, b, c
  <2>2. /\ A \o D \in Seq(S) /\ Len(A \o D) = Len(A) + Len(D)
        /\ \A i \in 1 .. Len(A) : (A \o D)[i] = A[i]
        /\ \A i \in Len(A) + 1 .. Len(A) + Len(D) : (A \o D)[i] = D[i - Len(A)]
    BY <2>1, ConcatFacts
  <2> QED BY <2>1, <2>2 DEF D, a
<1> DEFINE n == a + (b + c)
<1>6. Len(L) = n /\ Len(R) = n
  BY <1>2, <1>3, <1>4, <1>5
<1>7. ASSUME NEW i \in 1 .. n PROVE L[i] = R[i]
  <2>1. CASE i <= a
    <3>1. i \in 1 .. a /\ i \in 1 .. a + b
      BY <1>2, <1>3, <2>1
    <3> HIDE DEF L, R, a, b, c, n
    <3> QED BY <1>2, <1>4, <1>5, <3>1
  <2>2. CASE a < i /\ i <= a + b
    <3>1. i \in 1 .. a + b /\ i \in a + 1 .. a + b /\ i \in a + 1 .. a + (b + c) /\ i - a \in 1 .. b
      BY <1>2, <1>3, <2>2
    <3> HIDE DEF L, R, a, b, c, n
    <3>2. L[i] = B[i - a]
      BY <1>2, <1>4, <3>1
    <3>3. R[i] = B[i - a]
      BY <1>3, <1>5, <3>1
    <3> QED BY <3>2, <3>3
  <2>3. CASE a + b < i
    <3>1. /\ i \in (a + b) + 1 .. (a + b) + c /\ i \in a + 1 .. a + (b + c)
          /\ i - a \in b + 1 .. b + c /\ i - (a + b) = (i - a) - b
      BY <1>2, <1>3, <2>3
    <3> HIDE DEF L, R, a, b, c, n
    <3>2. L[i] = C[(i - a) - b]
      BY <1>4, <3>1
    <3>3. R[i] = C[(i - a) - b]
      BY <1>3, <1>5, <3>1
    <3> QED BY <3>2, <3>3
  <2> QED BY <1>2, <1>3, <2>1, <2>2, <2>3
<1> HIDE DEF L, R, n
<1>8. L = R
  BY <1>4, <1>5, <1>6, <1>7, SameSequence
<1> QED BY <1>8 DEF L, R

(* A text with s in front. *)
LEMMA InFront ==
  ASSUME NEW s, NEW R, IsText(R)
  PROVE  /\ IsText(<<s>> \o R) /\ <<s>> \o R # <<>>
         /\ Head(<<s>> \o R) = s /\ Tail(<<s>> \o R) = R
         /\ <<>> \o R = R
<1>1. IsText(<<s>>)
  BY OneText
<1>2. PICK S : <<s>> \in Seq(S) /\ R \in Seq(S) /\ R \in Seq(S)
  BY <1>1, CommonText
<1> DEFINE T == <<s>> \o R
<1>3. /\ T \in Seq(S) /\ Len(T) = 1 + Len(R) /\ Len(R) \in Nat
      /\ T[1] = s /\ \A i \in 2 .. Len(R) + 1 : T[i] = R[i - 1]
  BY <1>2
<1> HIDE DEF T
<1>4. T # <<>> /\ Head(T) = s
  BY <1>3
<1>5. Tail(T) = R
  <2>1. Tail(T) \in Seq(S) /\ Len(Tail(T)) = Len(R)
    BY <1>3, <1>4
  <2>2. \A i \in 1 .. Len(R) : Tail(T)[i] = T[i + 1]
    BY <1>3, <1>4
  <2>3. \A i \in 1 .. Len(R) : i + 1 \in 2 .. Len(R) + 1 /\ (i + 1) - 1 = i
    BY <1>3
  <2>4. \A i \in 1 .. Len(Tail(T)) : Tail(T)[i] = R[i]
    BY <1>3, <2>1, <2>2, <2>3
  <2> QED BY <1>2, <2>1, <2>4, SameSequence
<1>6. <<>> \o R = R
  <2> DEFINE E == <<>> \o R
  <2>1. E \in Seq(S) /\ Len(E) = Len(R) /\ \A i \in 1 .. Len(R) : E[i] = R[i]
    BY <1>2
  <2> HIDE DEF E
  <2>2. E = R
    BY <1>2, <2>1, SameSequence
  <2> QED BY <2>2 DEF E
<1>7. IsText(T)
  BY <1>3 DEF IsText
<1> QED BY <1>4, <1>5, <1>6, <1>7 DEF T

(* Two statements in front. *)
LEMMA TwoInFront ==
  ASSUME NEW s, NEW t, NEW R, IsText(R)
  PROVE  <<s, t>> \o R = <<s>> \o (<<t>> \o R)
<1>1. <<s, t>> = <<s>> \o <<t>>
  <2> DEFINE S == {s, t}
             A == <<s, t>>
             B == <<s>> \o <<t>>
  <2>1. s \in S /\ t \in S
    OBVIOUS
  <2> HIDE DEF S
  <2>2. A \in Seq(S) /\ Len(A) = 2 /\ A[1] = s /\ A[2] = t
    BY <2>1
  <2>3. B \in Seq(S) /\ Len(B) = 2 /\ B[1] = s /\ B[2] = t
    BY <2>1
  <2> HIDE DEF A, B
  <2>4. \A i \in 1 .. 2 : i = 1 \/ i = 2
    OBVIOUS
  <2>5. A = B
    BY <2>2, <2>3, <2>4, SameSequence
  <2> QED BY <2>5 DEF A, B
<1>2. IsText(<<s>>) /\ IsText(<<t>>)
  BY OneText
<1> QED BY <1>1, <1>2, Associate

(* The statements from the i-th on. *)
From(q, i) == SubSeq(q, i, Len(q))

LEMMA FromParts ==
  ASSUME NEW S, NEW q \in Seq(S), NEW i \in Nat \ {0}
  PROVE  /\ IsText(From(q, i))
         /\ i <= Len(q) => From(q, i) = <<q[i]>> \o From(q, i + 1)
         /\ i > Len(q) => From(q, i) = <<>>
         /\ From(q, 1) = q
<1>1. Len(q) \in Nat
  OBVIOUS
<1>2. ASSUME NEW k \in Nat \ {0}
      PROVE  /\ From(q, k) \in Seq(S)
             /\ Len(From(q, k)) = IF k <= Len(q) THEN Len(q) - k + 1 ELSE 0
             /\ \A j \in 1 .. Len(From(q, k)) : From(q, k)[j] = q[k + j - 1]
  BY <1>1 DEF From
<1>3. IsText(From(q, i))
  BY <1>2 DEF IsText
<1>4. ASSUME i <= Len(q) PROVE From(q, i) = <<q[i]>> \o From(q, i + 1)
  <2> DEFINE A == From(q, i)
             C == From(q, i + 1)
             B == <<q[i]>> \o C
  <2>1. i + 1 \in Nat \ {0}
    OBVIOUS
  <2>2. A \in Seq(S) /\ Len(A) = Len(q) - i + 1 /\ \A j \in 1 .. Len(A) : A[j] = q[i + j - 1]
    BY <1>2, <1>4
  <2>3. C \in Seq(S) /\ Len(C) = Len(q) - i
    <3>1. C \in Seq(S) /\ Len(C) = IF i + 1 <= Len(q) THEN Len(q) - (i + 1) + 1 ELSE 0
      BY <1>2, <2>1
    <3> HIDE DEF C
    <3> QED BY <1>1, <1>4, <3>1
  <2>4. \A j \in 1 .. Len(C) : C[j] = q[(i + 1) + j - 1]
    BY <1>2, <2>1
  <2>5. q[i] \in S
    BY <1>1, <1>4
  <2> HIDE DEF A, C
  <2>6. B \in Seq(S) /\ Len(B) = 1 + Len(C) /\ B[1] = q[i] /\ \A j \in 2 .. Len(C) + 1 : B[j] = C[j - 1]
    BY <2>3, <2>5
  <2> HIDE DEF B
  <2>7. Len(A) = Len(B)
    BY <1>1, <1>4, <2>2, <2>3, <2>6
  <2>8. ASSUME NEW j \in 1 .. Len(A) PROVE A[j] = B[j]
    <3>1. CASE j = 1
      <4>1. i + j - 1 = i
        BY <3>1
      <4> QED BY <2>2, <2>6, <3>1, <4>1
    <3>2. CASE j # 1
      <4>1. j \in 2 .. Len(C) + 1 /\ j - 1 \in 1 .. Len(C) /\ (i + 1) + (j - 1) - 1 = i + j - 1
        BY <1>1, <1>4, <2>2, <2>3, <3>2
      <4>2. B[j] = q[i + j - 1]
        BY <2>4, <2>6, <4>1
      <4> QED BY <2>2, <4>2
    <3> QED BY <3>1, <3>2
  <2>9. A = B
    BY <2>2, <2>6, <2>7, <2>8, SameSequence
  <2> QED BY <2>9 DEF A, B, C
<1>5. ASSUME i > Len(q) PROVE From(q, i) = <<>>
  <2>1. From(q, i) \in Seq(S) /\ Len(From(q, i)) = 0
    BY <1>1, <1>2, <1>5
  <2> QED BY <2>1
<1>6. From(q, 1) = q
  <2>1. From(q, 1) \in Seq(S) /\ Len(From(q, 1)) = Len(q)
        /\ \A j \in 1 .. Len(q) : From(q, 1)[j] = q[j]
    BY <1>1 DEF From
  <2> QED BY <2>1, SameSequence
<1> QED BY <1>3, <1>4, <1>5, <1>6

-----------------------------------------------------------------------------
(***************************************************************************)
(* Reading the text: Leads(T, e, U, d) when text T with the variables e    *)
(* becomes U with d by steps without an effect.                            *)
(***************************************************************************)
Silent(T) == T # <<>> /\ ~HasEffect(Head(T))

ReadsOn(S) ==
  \A x \in S : Silent(x[1]) => <<Unfold(Head(x[1]), Tail(x[1]), x[2]), After(Head(x[1]), x[2])>> \in S

Leads(T, e, U, d) == \A S : ReadsOn(S) /\ <<T, e>> \in S => <<U, d>> \in S

LEMMA LeadsBack ==
  ASSUME NEW T, NEW e
  PROVE  Leads(T, e, T, e)
BY DEF Leads

(* To lead somewhere is reflexive and transitive. *)
LEMMA LeadsOn ==
  ASSUME NEW T, NEW e, NEW U, NEW d, NEW V, NEW f, Leads(T, e, U, d), Leads(U, d, V, f)
  PROVE  Leads(T, e, V, f)
BY DEF Leads

LEMMA LeadsOneStep ==
  ASSUME NEW T, NEW e, Silent(T)
  PROVE  Leads(T, e, Unfold(Head(T), Tail(T), e), After(Head(T), e))
<1> SUFFICES ASSUME NEW S, ReadsOn(S), <<T, e>> \in S
             PROVE  <<Unfold(Head(T), Tail(T), e), After(Head(T), e)>> \in S
  BY DEF Leads
<1> DEFINE x == <<T, e>>
<1>1. x[1] = T /\ x[2] = e
  OBVIOUS
<1> HIDE DEF x
<1>2. x \in S
  BY DEF x
<1> QED BY <1>1, <1>2 DEF ReadsOn

(* The first step, if there is one. *)
LEMMA LeadsFirst ==
  ASSUME NEW T, NEW e, NEW U, NEW d, Leads(T, e, U, d), Silent(T), T # U \/ e # d
  PROVE  Leads(Unfold(Head(T), Tail(T), e), After(Head(T), e), U, d)
<1> DEFINE y == <<Unfold(Head(T), Tail(T), e), After(Head(T), e)>>
<1> SUFFICES ASSUME NEW S, ReadsOn(S), y \in S PROVE <<U, d>> \in S
  BY DEF Leads
<1> DEFINE R == S \cup {<<T, e>>}
<1>1. ASSUME NEW x \in R, Silent(x[1])
      PROVE  <<Unfold(Head(x[1]), Tail(x[1]), x[2]), After(Head(x[1]), x[2])>> \in R
  <2>1. CASE x \in S
    BY <1>1, <2>1 DEF ReadsOn
  <2>2. CASE x = <<T, e>>
    <3>1. x[1] = T /\ x[2] = e
      BY <2>2
    <3> HIDE DEF R
    <3>2. y \in R
      BY DEF R
    <3> QED BY <3>1, <3>2
  <2> QED BY <1>1, <2>1, <2>2
<1>2. ReadsOn(R) /\ <<T, e>> \in R
  <2> HIDE DEF R
  <2>1. ReadsOn(R)
    BY <1>1 DEF ReadsOn
  <2> QED BY <2>1 DEF R
<1>3. <<U, d>> \in R
  <2> HIDE DEF R
  <2> QED BY <1>2 DEF Leads
<1>4. <<U, d>> # <<T, e>>
  OBVIOUS
<1> QED BY <1>3, <1>4

(* There is none from a text with an effect next. *)
LEMMA LeadsStuck ==
  ASSUME NEW T, NEW e, NEW U, NEW d, Leads(T, e, U, d), ~Silent(T)
  PROVE  U = T /\ d = e
<1> DEFINE S == {<<T, e>>}
<1>1. ReadsOn(S)
  <2>1. ASSUME NEW x \in S PROVE ~Silent(x[1])
    <3>1. x[1] = T
      OBVIOUS
    <3> HIDE DEF S
    <3> QED BY <3>1
  <2> HIDE DEF S
  <2> QED BY <2>1 DEF ReadsOn
<1>2. <<T, e>> \in S
  OBVIOUS
<1>3. <<U, d>> \in S
  <2> HIDE DEF S
  <2> QED BY <1>1, <1>2 DEF Leads
<1> QED BY <1>3

-----------------------------------------------------------------------------
(***************************************************************************)
(* Labels.  What is left of the text may depend on the value computed last *)
(* or on that of a temporary; machine and text agree about the variables   *)
(* but the dead ones, and temporaries that have been set are pinned.       *)
(***************************************************************************)
Label(T, dead, pins) ==
  [sel |-> "text", temp |-> 0, yes |-> T, no |-> T, dead |-> dead, pins |-> pins]

AccLabel(Y, N, dead, pins) ==
  [sel |-> "acc", temp |-> 0, yes |-> Y, no |-> N, dead |-> dead, pins |-> pins]

TempLabel(t, Y, N, dead, pins) ==
  [sel |-> "temp", temp |-> t, yes |-> Y, no |-> N, dead |-> dead, pins |-> pins]

Envs     == [Var -> Integer]
Machines == [acc : BOOLEAN, temp : [Nat -> BOOLEAN], env : Envs]

Chosen(l, m) ==
  CASE l.sel = "text" -> l.yes
    [] l.sel = "acc"  -> IF m.acc THEN l.yes ELSE l.no
    [] l.sel = "temp" -> IF m.temp[l.temp] THEN l.yes ELSE l.no

Agree(l, m, e) ==
  /\ \A v \in Var \ l.dead : m.env[v] = e[v]
  /\ \A p \in l.pins : m.temp[p[1]] = p[2]

Sat(l, m, T, e) == T = Chosen(l, m) /\ Agree(l, m, e)

(* What a machine at l and the text may go on from at k. *)
Entails(l, k) ==
  \A m \in Machines, e \in Envs :
    Agree(l, m, e) =>
      \E d \in Envs : Leads(Chosen(l, m), e, Chosen(k, m), d) /\ Agree(k, m, d)

LEMMA EntailsItself ==
  ASSUME NEW l
  PROVE  Entails(l, l)
BY LeadsBack DEF Entails

(* To entail is reflexive and transitive. *)
LEMMA EntailsOn ==
  ASSUME NEW l, NEW k, NEW n, Entails(l, k), Entails(k, n)
  PROVE  Entails(l, n)
<1> SUFFICES ASSUME NEW m \in Machines, NEW e \in Envs, Agree(l, m, e)
             PROVE  \E d \in Envs : Leads(Chosen(l, m), e, Chosen(n, m), d) /\ Agree(n, m, d)
  BY DEF Entails
<1>1. PICK d \in Envs : Leads(Chosen(l, m), e, Chosen(k, m), d) /\ Agree(k, m, d)
  BY DEF Entails
<1>2. PICK f \in Envs : Leads(Chosen(k, m), d, Chosen(n, m), f) /\ Agree(n, m, f)
  BY <1>1 DEF Entails
<1>3. Leads(Chosen(l, m), e, Chosen(n, m), f)
  BY <1>1, <1>2, LeadsOn
<1> QED BY <1>2, <1>3

(* The fields of labels. *)
LEMMA LabelFields ==
  ASSUME NEW T, NEW Y, NEW N, NEW t, NEW dead, NEW pins, NEW m
  PROVE  /\ Chosen(Label(T, dead, pins), m) = T
         /\ Chosen(AccLabel(Y, N, dead, pins), m) = IF m.acc THEN Y ELSE N
         /\ Chosen(TempLabel(t, Y, N, dead, pins), m) = IF m.temp[t] THEN Y ELSE N
         /\ Label(T, dead, pins).dead = dead /\ Label(T, dead, pins).pins = pins
         /\ AccLabel(Y, N, dead, pins).dead = dead /\ AccLabel(Y, N, dead, pins).pins = pins
         /\ TempLabel(t, Y, N, dead, pins).dead = dead /\ TempLabel(t, Y, N, dead, pins).pins = pins
<1>1. Chosen(Label(T, dead, pins), m) = T
  BY DEF Chosen, Label
<1>2. Chosen(AccLabel(Y, N, dead, pins), m) = IF m.acc THEN Y ELSE N
  BY DEF Chosen, AccLabel
<1>3. Chosen(TempLabel(t, Y, N, dead, pins), m) = IF m.temp[t] THEN Y ELSE N
  BY DEF Chosen, TempLabel
<1> QED BY <1>1, <1>2, <1>3 DEF Label, AccLabel, TempLabel

(* More dead variables and fewer pins. *)
LEMMA EntailsLess ==
  ASSUME NEW T, NEW dead, NEW more, NEW pins, NEW fewer, dead \subseteq more, fewer \subseteq pins
  PROVE  Entails(Label(T, dead, pins), Label(T, more, fewer))
<1> DEFINE l == Label(T, dead, pins)
           k == Label(T, more, fewer)
<1>1. l.dead = dead /\ l.pins = pins /\ k.dead = more /\ k.pins = fewer
  BY LabelFields
<1>2. \A m : Chosen(l, m) = T /\ Chosen(k, m) = T
  BY LabelFields
<1> HIDE DEF l, k
<1>3. \A m, e : Agree(l, m, e) => Agree(k, m, e)
  BY <1>1 DEF Agree
<1>4. Entails(l, k)
  BY <1>2, <1>3, LeadsBack DEF Entails
<1> QED BY <1>4 DEF l, k

(* A step of the text that touches no variable. *)
LEMMA EntailsStep ==
  ASSUME NEW s, NEW R, IsText(R), NEW U, NEW dead, NEW pins, ~HasEffect(s),
         \A e \in Envs : Unfold(s, R, e) = U /\ After(s, e) = e
  PROVE  Entails(Label(<<s>> \o R, dead, pins), Label(U, dead, pins))
<1> DEFINE T == <<s>> \o R
           l == Label(T, dead, pins)
           k == Label(U, dead, pins)
<1>1. T # <<>> /\ Head(T) = s /\ Tail(T) = R
  BY InFront
<1> HIDE DEF T
<1>2. Silent(T)
  BY <1>1 DEF Silent
<1>3. \A e \in Envs : Leads(T, e, U, e)
  BY <1>1, <1>2, LeadsOneStep, ZenonT(40)
<1>4. l.dead = dead /\ l.pins = pins /\ k.dead = dead /\ k.pins = pins
  BY LabelFields
<1>5. \A m : Chosen(l, m) = T /\ Chosen(k, m) = U
  BY LabelFields
<1> HIDE DEF l, k
<1>6. \A m, e : Agree(l, m, e) => Agree(k, m, e)
  BY <1>4 DEF Agree
<1>7. Entails(l, k)
  BY <1>3, <1>5, <1>6 DEF Entails
<1> QED BY <1>7 DEF l, k, T

-----------------------------------------------------------------------------
(***************************************************************************)
(* What instruction i does at a machine that is at its label, when the     *)
(* text is U with the variables d; n is the label behind the instruction,  *)
(* E those of the blocks.                                                  *)
(***************************************************************************)
Exec(i, m) ==
  CASE i.op = "store"   -> [m EXCEPT !.env = [m.env EXCEPT ![i.var] = i.value]]
    [] i.op = "add"     -> [m EXCEPT !.env = [m.env EXCEPT ![i.var] = Wrap(@ + i.by)]]
    [] i.op = "set"     -> [m EXCEPT !.temp = [m.temp EXCEPT ![i.temp] = i.value]]
    [] i.op = "get"     -> [m EXCEPT !.acc = m.temp[i.temp]]
    [] i.op = "compare" -> [m EXCEPT !.acc = Holds(i, m.env)]

Target(i, m) == IF i.op = "br" \/ m.acc = i.when THEN i.to ELSE i.other

Quiet == {"store", "add", "set", "get", "compare"}

Suits(i, m, U, d, n, E) ==
  /\ i.op \in Quiet => Sat(n, Exec(i, m), U, d)
  /\ i.op \in {"br", "cbr"} =>
       Target(i, m) \in 1 .. Len(E) /\ Sat(E[Target(i, m)], m, U, d)
  /\ i.op \in Effects => U # <<>> /\ HasEffect(Head(U))
  /\ i.op = "call" =>
       /\ Head(U).kind = "call" /\ Head(U).id = i.id
       /\ Value(d, Head(U).var) = Value(m.env, i.var)
       /\ Sat(n, m, Tail(U), d)
  /\ i.op = "ask" =>
       /\ Head(U).kind = "branch" /\ Head(U).condition = i
       /\ \A answer \in BOOLEAN :
            Sat(n, [m EXCEPT !.acc = answer],
                (IF answer THEN Head(U).yes ELSE Head(U).no) \o Tail(U), d)
  /\ i.op = "ret" =>
       /\ Head(U).kind = "return" /\ Head(U).var = i.var
       /\ Value(d, Head(U).var) = Value(m.env, i.var)

Good(i, l, n, E) ==
  \A m \in Machines, e \in Envs :
    Agree(l, m, e) =>
      \E U : \E d \in Envs : Leads(Chosen(l, m), e, U, d) /\ Suits(i, m, U, d, n, E)

(* What a label entails may stand in its place. *)
LEMMA GoodBehind ==
  ASSUME NEW i, NEW l, NEW k, NEW n, NEW E, Entails(l, k), Good(i, k, n, E)
  PROVE  Good(i, l, n, E)
<1> SUFFICES ASSUME NEW m \in Machines, NEW e \in Envs, Agree(l, m, e)
             PROVE  \E U : \E d \in Envs :
                      Leads(Chosen(l, m), e, U, d) /\ Suits(i, m, U, d, n, E)
  BY DEF Good
<1>1. PICK f \in Envs : Leads(Chosen(l, m), e, Chosen(k, m), f) /\ Agree(k, m, f)
  BY DEF Entails
<1>2. PICK U : \E d \in Envs : Leads(Chosen(k, m), f, U, d) /\ Suits(i, m, U, d, n, E)
  BY <1>1 DEF Good
<1>3. PICK d \in Envs : Leads(Chosen(k, m), f, U, d) /\ Suits(i, m, U, d, n, E)
  BY <1>2
<1>4. Leads(Chosen(l, m), e, U, d)
  BY <1>1, <1>3, LeadsOn
<1> QED BY <1>3, <1>4

(* There may be more blocks. *)
LEMMA GoodWithMore ==
  ASSUME NEW i, NEW l, NEW n, NEW E, NEW F, IsText(E), IsText(F), Good(i, l, n, E)
  PROVE  Good(i, l, n, E \o F)
<1> DEFINE D == E \o F
<1>1. Len(E) \in Nat /\ Len(E) <= Len(D) /\ Len(D) \in Nat /\ \A b \in 1 .. Len(E) : D[b] = E[b]
  <2>1. PICK S : E \in Seq(S) /\ F \in Seq(S) /\ F \in Seq(S)
    BY CommonText
  <2> QED BY <2>1
<1> HIDE DEF D
<1>2. \A b \in 1 .. Len(E) : b \in 1 .. Len(D)
  BY <1>1
<1>3. \A m, U, d : Suits(i, m, U, d, n, E) => Suits(i, m, U, d, n, D)
  BY <1>1, <1>2 DEF Suits
<1>4. Good(i, l, n, D)
  BY <1>3 DEF Good
<1> QED BY <1>4 DEF D

(* The parts of a machine that has changed. *)
LEMMA MachineParts ==
  ASSUME NEW m \in Machines, NEW x
  PROVE  /\ m.acc \in BOOLEAN /\ m.temp \in [Nat -> BOOLEAN] /\ m.env \in Envs
         /\ [m EXCEPT !.acc = x].acc = x /\ [m EXCEPT !.acc = x].temp = m.temp
         /\ [m EXCEPT !.acc = x].env = m.env
         /\ [m EXCEPT !.temp = x].acc = m.acc /\ [m EXCEPT !.temp = x].temp = x
         /\ [m EXCEPT !.temp = x].env = m.env
         /\ [m EXCEPT !.env = x].acc = m.acc /\ [m EXCEPT !.env = x].temp = m.temp
         /\ [m EXCEPT !.env = x].env = x
BY DEF Machines

(* A quiet instruction and the statement it stands for. *)
LEMMA GoodQuiet ==
  ASSUME NEW i, NEW T, NEW dead, NEW pins, NEW n, NEW E, i.op \in Quiet,
         \A m \in Machines, e \in Envs :
           Agree(Label(T, dead, pins), m, e) =>
             \E d \in Envs : Leads(T, e, Chosen(n, Exec(i, m)), d) /\ Agree(n, Exec(i, m), d)
  PROVE  Good(i, Label(T, dead, pins), n, E)
<1> DEFINE l == Label(T, dead, pins)
<1>1. \A m : Chosen(l, m) = T
  BY LabelFields
<1> HIDE DEF l
<1> SUFFICES ASSUME NEW m \in Machines, NEW e \in Envs, Agree(l, m, e)
             PROVE  \E U : \E d \in Envs :
                      Leads(Chosen(l, m), e, U, d) /\ Suits(i, m, U, d, n, E)
  BY DEF Good, l
<1> DEFINE U == Chosen(n, Exec(i, m))
<1>2. PICK d \in Envs : Leads(T, e, U, d) /\ Agree(n, Exec(i, m), d)
  BY DEF l
<1>3. Suits(i, m, U, d, n, E)
  <2>1. i.op \notin {"br", "cbr"} /\ i.op \notin Effects
    BY DEF Quiet, Effects
  <2>2. i.op # "call" /\ i.op # "ask" /\ i.op # "ret"
    BY DEF Quiet
  <2>3. Sat(n, Exec(i, m), U, d)
    BY <1>2 DEF Sat
  <2> QED BY <2>1, <2>2, <2>3 DEF Suits
<1> HIDE DEF U
<1> QED BY <1>1, <1>2, <1>3

(* A declaration brings its variable to life. *)
LEMMA GoodStore ==
  ASSUME NEW s, s.kind = "declaration", s.var \in Var, s.value \in Integer,
         NEW R, IsText(R), NEW dead, NEW more, dead \ {s.var} \subseteq more, NEW E
  PROVE  Good([op |-> "store", var |-> s.var, value |-> s.value],
              Label(<<s>> \o R, dead, {}), Label(R, more, {}), E)
<1> DEFINE i == [op |-> "store", var |-> s.var, value |-> s.value]
           T == <<s>> \o R
           n == Label(R, more, {})
<1>1. T # <<>> /\ Head(T) = s /\ Tail(T) = R
  BY InFront
<1>2. i.op = "store" /\ i.op \in Quiet /\ i.var = s.var /\ i.value = s.value
  BY DEF Quiet
<1> HIDE DEF T, i
<1>3. Silent(T)
  BY <1>1 DEF Silent, HasEffect
<1>4. ASSUME NEW m \in Machines, NEW e \in Envs, Agree(Label(T, dead, {}), m, e)
      PROVE  \E d \in Envs : Leads(T, e, Chosen(n, Exec(i, m)), d) /\ Agree(n, Exec(i, m), d)
  <2> DEFINE d == [e EXCEPT ![s.var] = s.value]
             x == [m.env EXCEPT ![s.var] = s.value]
             k == Exec(i, m)
  <2>1. Unfold(s, R, e) = R /\ After(s, e) = d
    BY DEF Unfold, After
  <2>2. Leads(T, e, R, d)
    <3>1. Leads(T, e, Unfold(Head(T), Tail(T), e), After(Head(T), e))
      BY <1>3, LeadsOneStep
    <3> HIDE DEF d
    <3> QED BY <1>1, <2>1, <3>1
  <2>3. k.env = x /\ k.temp = m.temp
    <3>1. k = [m EXCEPT !.env = x]
      BY <1>2 DEF Exec
    <3> HIDE DEF k, x
    <3> QED BY <3>1, MachineParts
  <2>4. d \in Envs
    BY DEF Envs
  <2>5. \A v \in Var \ dead : m.env[v] = e[v]
    BY <1>4, LabelFields DEF Agree
  <2>6. ASSUME NEW v \in Var \ more PROVE x[v] = d[v]
    <3>1. m.env \in Envs
      BY MachineParts
    <3> QED BY <2>5, <3>1 DEF Envs
  <2> HIDE DEF d, x, k
  <2>7. Chosen(n, k) = R /\ n.dead = more /\ n.pins = {}
    BY LabelFields
  <2> HIDE DEF n
  <2>8. Agree(n, k, d)
    BY <2>3, <2>6, <2>7 DEF Agree
  <2> QED BY <2>2, <2>4, <2>7, <2>8 DEF k
<1> HIDE DEF n
<1>5. Good(i, Label(T, dead, {}), n, E)
  BY <1>2, <1>4, GoodQuiet
<1> QED BY <1>5 DEF i, T, n

(* A step does the same to a variable both agree about. *)
LEMMA GoodAdd ==
  ASSUME NEW s, s.kind = "assign", s.var \in Var, s.by \in Int,
         NEW R, IsText(R), NEW dead, NEW more, dead \subseteq more, NEW E
  PROVE  Good(Added(s), Label(<<s>> \o R, dead, {}), Label(R, more, {}), E)
<1> DEFINE i == Added(s)
           T == <<s>> \o R
           n == Label(R, more, {})
<1>1. T # <<>> /\ Head(T) = s /\ Tail(T) = R
  BY InFront
<1>2. i.op = "add" /\ i.op \in Quiet /\ i.var = s.var /\ i.by = s.by
  BY DEF Quiet, Added
<1> HIDE DEF T, i
<1>3. Silent(T)
  BY <1>1 DEF Silent, HasEffect
<1>4. ASSUME NEW m \in Machines, NEW e \in Envs, Agree(Label(T, dead, {}), m, e)
      PROVE  \E d \in Envs : Leads(T, e, Chosen(n, Exec(i, m)), d) /\ Agree(n, Exec(i, m), d)
  <2> DEFINE d == [e EXCEPT ![s.var] = Wrap(@ + s.by)]
             x == [m.env EXCEPT ![s.var] = Wrap(@ + s.by)]
             k == Exec(i, m)
  <2>1. Unfold(s, R, e) = R /\ After(s, e) = d
    BY DEF Unfold, After
  <2>2. Leads(T, e, R, d)
    <3>1. Leads(T, e, Unfold(Head(T), Tail(T), e), After(Head(T), e))
      BY <1>3, LeadsOneStep
    <3> HIDE DEF d
    <3> QED BY <1>1, <2>1, <3>1
  <2>3. k.env = x /\ k.temp = m.temp
    <3>1. k = [m EXCEPT !.env = x]
      BY <1>2 DEF Exec
    <3> HIDE DEF k, x
    <3> QED BY <3>1, MachineParts
  <2>4. d \in Envs
    <3>1. e[s.var] + s.by \in Int
      BY HalfAssumption DEF Envs, Integer
    <3>2. Wrap(e[s.var] + s.by) \in Integer
      BY <3>1, WrapTyped
    <3> QED BY <3>2 DEF Envs
  <2>5. \A v \in Var \ dead : m.env[v] = e[v]
    BY <1>4, LabelFields DEF Agree
  <2>6. ASSUME NEW v \in Var \ more PROVE x[v] = d[v]
    <3>1. m.env \in Envs
      BY MachineParts
    <3>2. m.env[v] = e[v]
      BY <2>5
    <3>3. x[v] = IF v = s.var THEN Wrap(m.env[v] + s.by) ELSE m.env[v]
      BY <3>1 DEF Envs
    <3>4. d[v] = IF v = s.var THEN Wrap(e[v] + s.by) ELSE e[v]
      BY DEF Envs
    <3> QED BY <3>2, <3>3, <3>4
  <2> HIDE DEF d, x, k
  <2>7. Chosen(n, k) = R /\ n.dead = more /\ n.pins = {}
    BY LabelFields
  <2> HIDE DEF n
  <2>8. Agree(n, k, d)
    BY <2>3, <2>6, <2>7 DEF Agree
  <2> QED BY <2>2, <2>4, <2>7, <2>8 DEF k
<1> HIDE DEF n
<1>5. Good(i, Label(T, dead, {}), n, E)
  BY <1>2, <1>4, GoodQuiet
<1> QED BY <1>5 DEF i, T, n

(* A step the text does not take leaves its variable dead. *)
LEMMA GoodExtraAdd ==
  ASSUME NEW s, s.var \in Var, NEW T, NEW dead, NEW E
  PROVE  Good(Added(s), Label(T, dead, {}), Label(T, dead \cup {s.var}, {}), E)
<1> DEFINE i == Added(s)
           n == Label(T, dead \cup {s.var}, {})
<1>1. i.op = "add" /\ i.op \in Quiet /\ i.var = s.var /\ i.by = s.by
  BY DEF Quiet, Added
<1> HIDE DEF i
<1>2. ASSUME NEW m \in Machines, NEW e \in Envs, Agree(Label(T, dead, {}), m, e)
      PROVE  \E d \in Envs : Leads(T, e, Chosen(n, Exec(i, m)), d) /\ Agree(n, Exec(i, m), d)
  <2> DEFINE x == [m.env EXCEPT ![s.var] = Wrap(@ + s.by)]
             k == Exec(i, m)
  <2>1. k.env = x /\ k.temp = m.temp
    <3>1. k = [m EXCEPT !.env = x]
      BY <1>1 DEF Exec
    <3> HIDE DEF k, x
    <3> QED BY <3>1, MachineParts
  <2>2. \A v \in Var \ dead : m.env[v] = e[v]
    BY <1>2, LabelFields DEF Agree
  <2>3. ASSUME NEW v \in Var \ (dead \cup {s.var}) PROVE x[v] = e[v]
    <3>1. m.env \in Envs
      BY MachineParts
    <3> QED BY <2>2, <3>1 DEF Envs
  <2> HIDE DEF x, k
  <2>4. Chosen(n, k) = T /\ n.dead = dead \cup {s.var} /\ n.pins = {}
    BY LabelFields
  <2> HIDE DEF n
  <2>5. Agree(n, k, e)
    BY <2>1, <2>3, <2>4 DEF Agree
  <2> QED BY <2>4, <2>5, LeadsBack DEF k
<1> HIDE DEF n
<1>3. Good(i, Label(T, dead, {}), n, E)
  BY <1>1, <1>2, GoodQuiet
<1> QED BY <1>3 DEF i, n

(* A temporary is pinned when it is set. *)
LEMMA GoodSet ==
  ASSUME NEW t \in Nat, NEW value \in BOOLEAN, NEW T, NEW dead, NEW pins, NEW E,
         \A p \in pins : p[1] # t
  PROVE  Good(Set(t, value), Label(T, dead, pins), Label(T, dead, pins \cup {<<t, value>>}), E)
<1> DEFINE i == Set(t, value)
           more == pins \cup {<<t, value>>}
           n == Label(T, dead, more)
<1>1. i.op = "set" /\ i.op \in Quiet /\ i.temp = t /\ i.value = value
  BY DEF Quiet, Set
<1> HIDE DEF i
<1>2. ASSUME NEW m \in Machines, NEW e \in Envs, Agree(Label(T, dead, pins), m, e)
      PROVE  \E d \in Envs : Leads(T, e, Chosen(n, Exec(i, m)), d) /\ Agree(n, Exec(i, m), d)
  <2> DEFINE x == [m.temp EXCEPT ![t] = value]
             k == Exec(i, m)
  <2>1. k.env = m.env /\ k.temp = x
    <3>1. k = [m EXCEPT !.temp = x]
      BY <1>1 DEF Exec
    <3> HIDE DEF k, x
    <3> QED BY <3>1, MachineParts
  <2>2. /\ \A v \in Var \ dead : m.env[v] = e[v]
        /\ \A p \in pins : m.temp[p[1]] = p[2]
    BY <1>2, LabelFields DEF Agree
  <2>3. ASSUME NEW p \in more PROVE x[p[1]] = p[2]
    <3>1. m.temp \in [Nat -> BOOLEAN]
      BY MachineParts
    <3>2. CASE p \in pins
      <4>1. p[1] # t
        BY <3>2
      <4>2. x[p[1]] = m.temp[p[1]]
        BY <3>1, <4>1
      <4> HIDE DEF x
      <4> QED BY <2>2, <3>2, <4>2
    <3>3. CASE p = <<t, value>>
      <4>1. p[1] = t /\ p[2] = value
        BY <3>3
      <4> QED BY <3>1, <4>1
    <3> QED BY <3>2, <3>3
  <2> HIDE DEF x, k
  <2>4. Chosen(n, k) = T /\ n.dead = dead /\ n.pins = more
    BY LabelFields
  <2> HIDE DEF n, more
  <2>5. Agree(n, k, e)
    BY <2>1, <2>2, <2>3, <2>4 DEF Agree
  <2> QED BY <2>4, <2>5, LeadsBack DEF k
<1> HIDE DEF n
<1>3. Good(i, Label(T, dead, pins), n, E)
  BY <1>1, <1>2, GoodQuiet
<1> QED BY <1>3 DEF i, n, more

(* A temporary decides as it did. *)
LEMMA GoodGet ==
  ASSUME NEW t \in Nat, NEW Y, NEW N, NEW dead, NEW pins, NEW E
  PROVE  Good(Get(t), TempLabel(t, Y, N, dead, pins), AccLabel(Y, N, dead, pins), E)
<1> DEFINE i == Get(t)
           l == TempLabel(t, Y, N, dead, pins)
           n == AccLabel(Y, N, dead, pins)
<1>1. /\ i.op = "get" /\ i.op \in Quiet /\ i.temp = t
      /\ i.op \notin {"br", "cbr"} /\ i.op \notin Effects
      /\ i.op # "call" /\ i.op # "ask" /\ i.op # "ret"
  BY DEF Quiet, Effects, Get
<1>2. l.dead = dead /\ l.pins = pins /\ n.dead = dead /\ n.pins = pins
  BY LabelFields
<1>3. \A m : Chosen(l, m) = IF m.temp[t] THEN Y ELSE N
  BY LabelFields
<1>4. \A m : Chosen(n, m) = IF m.acc THEN Y ELSE N
  BY LabelFields
<1> HIDE DEF i, l, n
<1>5. ASSUME NEW m \in Machines, NEW e \in Envs, Agree(l, m, e)
      PROVE  \E U : \E d \in Envs : Leads(Chosen(l, m), e, U, d) /\ Suits(i, m, U, d, n, E)
  <2> DEFINE k == Exec(i, m)
  <2>1. k.acc = m.temp[t] /\ k.temp = m.temp /\ k.env = m.env
    <3>1. k = [m EXCEPT !.acc = m.temp[t]]
      BY <1>1 DEF Exec
    <3> HIDE DEF k
    <3> QED BY <3>1, MachineParts
  <2> HIDE DEF k
  <2>2. Chosen(n, k) = Chosen(l, m)
    BY <1>3, <1>4, <2>1
  <2>3. Agree(n, k, e)
    BY <1>2, <1>5, <2>1 DEF Agree
  <2>4. Sat(n, Exec(i, m), Chosen(l, m), e)
    BY <2>2, <2>3 DEF Sat, k
  <2>5. Suits(i, m, Chosen(l, m), e, n, E)
    BY <1>1, <2>4 DEF Suits
  <2> QED BY <2>5, LeadsBack
<1>6. Good(i, l, n, E)
  BY <1>5 DEF Good
<1> QED BY <1>6 DEF i, l, n

-----------------------------------------------------------------------------
(* A call shows a variable both agree about. *)
LEMMA GoodCall ==
  ASSUME NEW s, s.kind = "call", s.var \in Var, NEW R, IsText(R),
         NEW dead, NEW more, dead \subseteq more, s.var \notin dead, NEW E
  PROVE  Good([op |-> "call", id |-> s.id, var |-> s.var],
              Label(<<s>> \o R, dead, {}), Label(R, more, {}), E)
<1> DEFINE i == [op |-> "call", id |-> s.id, var |-> s.var]
           T == <<s>> \o R
           l == Label(T, dead, {})
           n == Label(R, more, {})
<1>1. T # <<>> /\ Head(T) = s /\ Tail(T) = R
  BY InFront
<1>2. /\ i.op = "call" /\ i.id = s.id /\ i.var = s.var
      /\ i.op \notin Quiet /\ i.op \notin {"br", "cbr"} /\ i.op # "ask" /\ i.op # "ret"
  BY DEF Quiet
<1> HIDE DEF T, i
<1>3. l.dead = dead /\ l.pins = {} /\ n.dead = more /\ n.pins = {}
  BY LabelFields
<1>4. \A m : Chosen(l, m) = T
  BY LabelFields
<1>0. \A m : Chosen(n, m) = R
  BY LabelFields
<1> HIDE DEF l, n
<1>5. HasEffect(s)
  BY DEF HasEffect
<1>6. ASSUME NEW m \in Machines, NEW e \in Envs, Agree(l, m, e)
      PROVE  Suits(i, m, T, e, n, E)
  <2>1. m.env[s.var] = e[s.var]
    BY <1>3, <1>6 DEF Agree
  <2>2. Value(e, s.var) = Value(m.env, i.var)
    BY <1>2, <2>1 DEF Value
  <2>3. Sat(n, m, R, e)
    BY <1>3, <1>0, <1>6 DEF Sat, Agree
  <2> QED BY <1>1, <1>2, <1>5, <2>2, <2>3 DEF Suits
<1>7. Good(i, l, n, E)
  BY <1>4, <1>6, LeadsBack DEF Good
<1> QED BY <1>7 DEF T, i, l, n

(* So does a return. *)
LEMMA GoodReturn ==
  ASSUME NEW s, s.kind = "return", s.var \in Var \cup {NoVar}, NEW R, IsText(R),
         NEW dead, s.var \notin dead, NEW n, NEW E
  PROVE  Good([op |-> "ret", var |-> s.var], Label(<<s>> \o R, dead, {}), n, E)
<1> DEFINE i == [op |-> "ret", var |-> s.var]
           T == <<s>> \o R
           l == Label(T, dead, {})
<1>1. T # <<>> /\ Head(T) = s /\ Tail(T) = R
  BY InFront
<1>2. /\ i.op = "ret" /\ i.var = s.var
      /\ i.op \notin Quiet /\ i.op \notin {"br", "cbr"} /\ i.op # "ask" /\ i.op # "call"
  BY DEF Quiet
<1> HIDE DEF T, i
<1>3. l.dead = dead
  BY LabelFields
<1>4. \A m : Chosen(l, m) = T
  BY LabelFields
<1> HIDE DEF l
<1>5. HasEffect(s)
  BY DEF HasEffect
<1>6. ASSUME NEW m \in Machines, NEW e \in Envs, Agree(l, m, e)
      PROVE  Suits(i, m, T, e, n, E)
  <2>1. s.var \in Var => m.env[s.var] = e[s.var]
    BY <1>3, <1>6 DEF Agree
  <2>2. Value(e, s.var) = Value(m.env, i.var)
    BY <1>2, <2>1 DEF Value
  <2> QED BY <1>1, <1>2, <1>5, <2>2 DEF Suits
<1>7. Good(i, l, n, E)
  BY <1>4, <1>6, LeadsBack DEF Good
<1> QED BY <1>7 DEF T, i, l

(* The fields of a branch. *)
LEMMA BranchFields ==
  ASSUME NEW c, NEW Y, NEW N
  PROVE  LET b == Branch(c, Y, N)
         IN  b.kind = "branch" /\ b.condition = c /\ b.yes = Y /\ b.no = N
BY DEF Branch

(* A question and the branch on it. *)
LEMMA GoodQuestion ==
  ASSUME NEW c, c.op = "ask", NEW Y, NEW N, NEW R, IsText(R), NEW dead, NEW pins, NEW E
  PROVE  Good(c, Label(<<Branch(c, Y, N)>> \o R, dead, pins),
              AccLabel(Y \o R, N \o R, dead, pins), E)
<1> DEFINE b == Branch(c, Y, N)
           T == <<b>> \o R
           yes == Y \o R
           no == N \o R
           l == Label(T, dead, pins)
           n == AccLabel(yes, no, dead, pins)
<1>1. T # <<>> /\ Head(T) = b /\ Tail(T) = R
  BY InFront
<1>6. b.kind = "branch" /\ b.condition = c /\ b.yes = Y /\ b.no = N
  BY BranchFields
<1> HIDE DEF T, b, yes, no
<1>2. /\ c.op \notin Quiet /\ c.op \notin {"br", "cbr"} /\ c.op # "call" /\ c.op # "ret"
  BY DEF Quiet
<1>3. l.dead = dead /\ l.pins = pins /\ n.dead = dead /\ n.pins = pins
  BY LabelFields
<1>4. \A m : Chosen(l, m) = T
  BY LabelFields
<1>5. \A m : Chosen(n, m) = IF m.acc THEN yes ELSE no
  BY LabelFields
<1> HIDE DEF l, n
<1>7. HasEffect(b)
  BY <1>6 DEF HasEffect
<1>8. ASSUME NEW m \in Machines, NEW e \in Envs, Agree(l, m, e)
      PROVE  Suits(c, m, T, e, n, E)
  <2>1. ASSUME NEW answer \in BOOLEAN
        PROVE  Sat(n, [m EXCEPT !.acc = answer],
                   (IF answer THEN Head(T).yes ELSE Head(T).no) \o Tail(T), e)
    <3> DEFINE k == [m EXCEPT !.acc = answer]
    <3>1. k.acc = answer /\ k.temp = m.temp /\ k.env = m.env
      BY MachineParts
    <3> HIDE DEF k
    <3>2. Agree(n, k, e)
      BY <1>3, <1>8, <3>1 DEF Agree
    <3>3. Chosen(n, k) = IF answer THEN Y \o R ELSE N \o R
      BY <1>5, <3>1 DEF yes, no
    <3>4. (IF answer THEN Head(T).yes ELSE Head(T).no) \o Tail(T) = Chosen(n, k)
      <4>1. CASE answer
        BY <1>1, <1>6, <3>3, <4>1
      <4>2. CASE ~answer
        BY <1>1, <1>6, <3>3, <4>2
      <4> QED BY <4>1, <4>2
    <3>5. Sat(n, k, (IF answer THEN Head(T).yes ELSE Head(T).no) \o Tail(T), e)
      BY <3>2, <3>4 DEF Sat
    <3> QED BY <3>5 DEF k
  <2> QED BY <1>1, <1>2, <1>6, <1>7, <2>1 DEF Suits
<1>9. Good(c, l, n, E)
  BY <1>4, <1>8, LeadsBack DEF Good
<1> QED BY <1>9 DEF T, l, n, b, yes, no

(* A comparison of a variable both agree about. *)
LEMMA GoodCompare ==
  ASSUME NEW c \in Compares, NEW Y, NEW N, NEW R, IsText(R), NEW dead, c.var \notin dead,
         NEW pins, NEW E
  PROVE  Good(c, Label(<<Branch(c, Y, N)>> \o R, dead, pins),
              AccLabel(Y \o R, N \o R, dead, pins), E)
<1> DEFINE b == Branch(c, Y, N)
           T == <<b>> \o R
           yes == Y \o R
           no == N \o R
           l == Label(T, dead, pins)
           n == AccLabel(yes, no, dead, pins)
<1>1. T # <<>> /\ Head(T) = b /\ Tail(T) = R
  BY InFront
<1>5. b.kind = "branch" /\ b.condition = c /\ b.yes = Y /\ b.no = N
  BY BranchFields
<1> HIDE DEF T, b, yes, no
<1>2. c.op = "compare" /\ c.op \in Quiet /\ c.var \in Var
  BY DEF Quiet, Compares
<1>3. n.dead = dead /\ n.pins = pins
  BY LabelFields
<1>4. \A m : Chosen(n, m) = IF m.acc THEN yes ELSE no
  BY LabelFields
<1>6. l.dead = dead /\ l.pins = pins
  BY LabelFields
<1> HIDE DEF n, l
<1>7. Silent(T)
  BY <1>1, <1>2, <1>5 DEF Silent, HasEffect
<1>8. ASSUME NEW m \in Machines, NEW e \in Envs, Agree(l, m, e)
      PROVE  \E d \in Envs : Leads(T, e, Chosen(n, Exec(c, m)), d) /\ Agree(n, Exec(c, m), d)
  <2> DEFINE x == Holds(c, m.env)
             k == Exec(c, m)
  <2>1. k.acc = x /\ k.temp = m.temp /\ k.env = m.env
    <3>1. k = [m EXCEPT !.acc = x]
      BY <1>2 DEF Exec
    <3> HIDE DEF k, x
    <3> QED BY <3>1, MachineParts
  <2>2. Holds(c, e) = x
    <3>1. m.env[c.var] = e[c.var]
      BY <1>2, <1>6, <1>8 DEF Agree
    <3> QED BY <3>1 DEF Holds
  <2>3. Agree(n, k, e)
    <3> HIDE DEF x, k
    <3> QED BY <1>3, <1>6, <1>8, <2>1 DEF Agree
  <2>4. x \in BOOLEAN
    BY HoldsBoolean DEF Compares
  <2> HIDE DEF x, k
  <2>5. Unfold(b, R, e) = Chosen(n, k)
    <3>1. Unfold(b, R, e) = Decide(b, e) \o R
      BY <1>5 DEF Unfold
    <3>2. Decide(b, e) = IF x THEN Y ELSE N
      BY <1>2, <1>5, <2>2 DEF Decide
    <3>3. Chosen(n, k) = IF x THEN Y \o R ELSE N \o R
      BY <1>4, <2>1 DEF yes, no
    <3>4. CASE x
      BY <3>1, <3>2, <3>3, <3>4
    <3>5. CASE ~x
      BY <3>1, <3>2, <3>3, <3>5
    <3> QED BY <3>4, <3>5
  <2>6. After(b, e) = e
    BY <1>5 DEF After
  <2>7. Leads(T, e, Unfold(Head(T), Tail(T), e), After(Head(T), e))
    BY <1>7, LeadsOneStep
  <2>8. Leads(T, e, Chosen(n, k), e)
    BY <1>1, <2>5, <2>6, <2>7
  <2> QED BY <2>3, <2>8 DEF k
<1>9. Good(c, Label(T, dead, pins), n, E)
  BY <1>2, <1>8, GoodQuiet DEF l
<1> QED BY <1>9 DEF T, n, b, yes, no

(* A branch to a block whose label is entailed. *)
LEMMA GoodBr ==
  ASSUME NEW E, NEW b \in 1 .. Len(E), NEW l, NEW n, Entails(l, E[b])
  PROVE  Good(Br(b), l, n, E)
<1> DEFINE i == Br(b)
<1>1. /\ i.op = "br" /\ i.to = b /\ i.op \notin Quiet /\ i.op \notin Effects
      /\ i.op # "call" /\ i.op # "ask" /\ i.op # "ret"
  BY DEF Br, Quiet, Effects
<1> HIDE DEF i
<1>2. \A m : Target(i, m) = b
  BY <1>1 DEF Target
<1>3. ASSUME NEW m \in Machines, NEW e \in Envs, Agree(l, m, e)
      PROVE  \E U : \E d \in Envs : Leads(Chosen(l, m), e, U, d) /\ Suits(i, m, U, d, n, E)
  <2>1. PICK d \in Envs : Leads(Chosen(l, m), e, Chosen(E[b], m), d) /\ Agree(E[b], m, d)
    BY <1>3 DEF Entails
  <2>2. Suits(i, m, Chosen(E[b], m), d, n, E)
    BY <1>1, <1>2, <2>1 DEF Suits, Sat
  <2> QED BY <2>1, <2>2
<1>4. Good(i, l, n, E)
  BY <1>3 DEF Good
<1> QED BY <1>4 DEF i

(* A branch on the value computed last. *)
LEMMA GoodCondBr ==
  ASSUME NEW E, NEW when \in BOOLEAN, NEW b1 \in 1 .. Len(E), NEW b2 \in 1 .. Len(E),
         NEW Y, NEW N, NEW dead, NEW pins, NEW n,
         Entails(Label(IF when THEN Y ELSE N, dead, pins), E[b1]),
         Entails(Label(IF when THEN N ELSE Y, dead, pins), E[b2])
  PROVE  Good(CondBr(when, b1, b2), AccLabel(Y, N, dead, pins), n, E)
<1> DEFINE i == CondBr(when, b1, b2)
           l == AccLabel(Y, N, dead, pins)
<1>1. /\ i.op = "cbr" /\ i.when = when /\ i.to = b1 /\ i.other = b2
      /\ i.op \notin Quiet /\ i.op \notin Effects
      /\ i.op # "call" /\ i.op # "ask" /\ i.op # "ret"
  BY DEF CondBr, Quiet, Effects
<1>2. l.dead = dead /\ l.pins = pins
  BY LabelFields
<1>3. \A m : Chosen(l, m) = IF m.acc THEN Y ELSE N
  BY LabelFields
<1> HIDE DEF i, l
<1>4. ASSUME NEW m \in Machines, NEW e \in Envs, Agree(l, m, e)
      PROVE  \E U : \E d \in Envs : Leads(Chosen(l, m), e, U, d) /\ Suits(i, m, U, d, n, E)
  <2> DEFINE b == IF m.acc = when THEN b1 ELSE b2
             T == Chosen(l, m)
  <2>1. Target(i, m) = b
    BY <1>1 DEF Target
  <2>2. b \in 1 .. Len(E)
    OBVIOUS
  <2>3. m.acc \in BOOLEAN
    BY MachineParts
  <2>4. Entails(Label(T, dead, pins), E[b])
    <3>1. CASE m.acc = when
      <4>1. T = IF when THEN Y ELSE N
        BY <1>3, <3>1
      <4> QED BY <3>1, <4>1
    <3>2. CASE m.acc # when
      <4>1. T = IF when THEN N ELSE Y
        BY <1>3, <2>3, <3>2
      <4> QED BY <3>2, <4>1
    <3> QED BY <3>1, <3>2
  <2> HIDE DEF b, T
  <2> DEFINE k == Label(T, dead, pins)
  <2>5. Chosen(k, m) = T /\ k.dead = dead /\ k.pins = pins
    BY LabelFields
  <2> HIDE DEF k
  <2>6. Agree(k, m, e)
    BY <1>2, <1>4, <2>5 DEF Agree
  <2>7. PICK d \in Envs : Leads(T, e, Chosen(E[b], m), d) /\ Agree(E[b], m, d)
    BY <2>4, <2>5, <2>6 DEF Entails, k
  <2>8. Suits(i, m, Chosen(E[b], m), d, n, E)
    BY <1>1, <2>1, <2>2, <2>7 DEF Suits, Sat
  <2> QED BY <2>7, <2>8 DEF T
<1>5. Good(i, l, n, E)
  BY <1>4 DEF Good
<1> QED BY <1>5 DEF i, l

(* A pinned temporary is known. *)
LEMMA EntailsTemp ==
  ASSUME NEW t, NEW value \in BOOLEAN, NEW Y, NEW N, NEW dead, NEW pins, NEW fewer,
         fewer \subseteq pins, <<t, value>> \in pins
  PROVE  Entails(Label(IF value THEN Y ELSE N, dead, pins), TempLabel(t, Y, N, dead, fewer))
<1> DEFINE T == IF value THEN Y ELSE N
           l == Label(T, dead, pins)
           k == TempLabel(t, Y, N, dead, fewer)
<1> HIDE DEF T
<1>0. k.dead = dead /\ k.pins = fewer
  BY LabelFields
<1>1. l.dead = dead /\ l.pins = pins
  BY LabelFields
<1>2. \A m : Chosen(l, m) = T
  BY LabelFields
<1>3. \A m : Chosen(k, m) = IF m.temp[t] THEN Y ELSE N
  BY LabelFields
<1> HIDE DEF l, k
<1>4. ASSUME NEW m \in Machines, NEW e \in Envs, Agree(l, m, e)
      PROVE  Chosen(k, m) = Chosen(l, m) /\ Agree(k, m, e)
  <2>1. \A p \in pins : m.temp[p[1]] = p[2]
    BY <1>1, <1>4 DEF Agree
  <2>2. m.temp[t] = value
    <3> DEFINE p == <<t, value>>
    <3>1. p[1] = t /\ p[2] = value /\ p \in pins
      OBVIOUS
    <3> HIDE DEF p
    <3> QED BY <2>1, <3>1
  <2>3. Agree(k, m, e)
    BY <1>0, <1>1, <1>4 DEF Agree
  <2> QED BY <1>2, <1>3, <2>2, <2>3 DEF T
<1>5. Entails(l, k)
  BY <1>4, LeadsBack DEF Entails
<1> QED BY <1>5 DEF l, k, T

-----------------------------------------------------------------------------
(***************************************************************************)
(* Code.  Instructions behind one that ends their block are never run, so  *)
(* only the others are good.                                               *)
(***************************************************************************)
Live(q, k) == \A j \in 1 .. k - 1 : q[j].op \notin EndsBlock

Labelled(q, w, E) == \A k \in 1 .. Len(q) : Live(q, k) => Good(q[k], w[k], w[k + 1], E)

(* From label l instructions q run, and arrive at k. *)
Ran(q, E, l) == \E w : w[1] = l /\ Labelled(q, w, E)

Run(q, E, l, k) ==
  \E w : w[1] = l /\ Labelled(q, w, E) /\ (Live(q, Len(q) + 1) => Entails(w[Len(q) + 1], k))

(* The blocks have labels E, and the insert point has arrived at l. *)
CodeRuns(g, E, l, waits) ==
  /\ IsText(E) /\ Len(E) = Len(g.code)
  /\ waits \subseteq 1 .. Len(g.code) /\ g.insert \notin waits
  /\ \A b \in waits : g.code[b] = <<>>
  /\ Run(g.code[g.insert], E, E[g.insert], l)
  /\ \A b \in 1 .. Len(g.code) : b # g.insert => Ran(g.code[b], E, E[b])

LEMMA LabelledWithMore ==
  ASSUME NEW q, NEW w, NEW E, NEW F, IsText(E), IsText(F), Labelled(q, w, E)
  PROVE  Labelled(q, w, E \o F)
BY GoodWithMore DEF Labelled

(* The labels of three new blocks. *)
WithThree(E, a, b, c) == E \o <<a, b, c>>

LEMMA LabelledWithThree ==
  ASSUME NEW q, NEW w, NEW E, IsText(E), Labelled(q, w, E), NEW a, NEW b, NEW c
  PROVE  Labelled(q, w, WithThree(E, a, b, c))
<1>1. IsText(<<a, b, c>>)
  <2>1. <<a, b, c>> \in Seq({a, b, c})
    OBVIOUS
  <2> QED BY <2>1 DEF IsText
<1> QED BY <1>1, LabelledWithMore DEF WithThree

(* A run of instructions grows at its end. *)
LEMMA RunAppended ==
  ASSUME NEW S, NEW q \in Seq(S), NEW i \in S, NEW E, NEW l, NEW k, NEW n,
         Run(q, E, l, k), Good(i, k, n, E)
  PROVE  Run(Append(q, i), E, l, n)
<1> DEFINE m == Len(q)
           p == Append(q, i)
<1>1. PICK w : w[1] = l /\ Labelled(q, w, E) /\ (Live(q, m + 1) => Entails(w[m + 1], k))
  BY DEF Run
<1> DEFINE x == [j \in 1 .. m + 2 |-> IF j <= m + 1 THEN w[j] ELSE n]
<1>2. /\ m \in Nat /\ Len(p) = m + 1 /\ p[m + 1] = i
      /\ \A j \in 1 .. m : p[j] = q[j]
  OBVIOUS
<1>3. x[1] = l /\ x[m + 2] = n /\ \A j \in 1 .. m + 1 : x[j] = w[j]
  BY <1>1, <1>2
<1> HIDE DEF m, p, x
<1>4. ASSUME NEW j \in 1 .. m + 1 PROVE Live(p, j) <=> Live(q, j)
  <2>1. \A y \in 1 .. j - 1 : y \in 1 .. m
    BY <1>2
  <2> QED BY <1>2, <2>1 DEF Live
<1>5. ASSUME NEW j \in 1 .. Len(p), Live(p, j) PROVE Good(p[j], x[j], x[j + 1], E)
  <2>1. CASE j \in 1 .. m
    <3>1. j \in 1 .. m + 1 /\ j + 1 \in 1 .. m + 1
      BY <1>2, <2>1
    <3>2. Live(q, j)
      BY <1>4, <1>5, <3>1
    <3>3. Good(q[j], w[j], w[j + 1], E)
      BY <1>1, <2>1, <3>2 DEF Labelled, m
    <3> QED BY <1>2, <1>3, <2>1, <3>1, <3>3
  <2>2. CASE j = m + 1
    <3>1. m + 1 \in 1 .. m + 1 /\ (m + 1) + 1 = m + 2
      BY <1>2
    <3>2. Entails(w[m + 1], k)
      BY <1>1, <1>4, <1>5, <2>2, <3>1
    <3>3. Good(i, w[m + 1], n, E)
      BY <3>2, GoodBehind
    <3> QED BY <1>2, <1>3, <2>2, <3>1, <3>3
  <2>3. j \in 1 .. m \/ j = m + 1
    BY <1>2
  <2> QED BY <2>1, <2>2, <2>3
<1>6. Labelled(p, x, E)
  BY <1>5 DEF Labelled
<1>7. Entails(x[Len(p) + 1], n)
  <2>1. Len(p) + 1 = m + 2
    BY <1>2
  <2> QED BY <1>3, <2>1, EntailsItself
<1> QED BY <1>3, <1>6, <1>7 DEF Run, p

(* An instruction that does what the text does. *)
LEMMA RunsEmit ==
  ASSUME NEW g, GenTyped(g), NEW i \in Instructions(Len(g.code), g.temps),
         NEW E, NEW l, NEW n, NEW waits, CodeRuns(g, E, l, waits), Good(i, l, n, E)
  PROVE  CodeRuns(Emit(g, i), E, n, waits)
<1> DEFINE h == Emit(g, i)
           S == Instructions(Len(g.code), g.temps)
           q == g.code[g.insert]
<1>1. /\ h.insert = g.insert /\ Len(h.code) = Len(g.code)
      /\ h.code = [g.code EXCEPT ![g.insert] = Append(@, i)]
  BY EmitTyped
<1>2. g.code \in Seq(Seq(S)) /\ g.insert \in 1 .. Len(g.code)
  BY GenFields
<1>3. h.code[g.insert] = Append(q, i)
  BY <1>1, <1>2
<1>4. \A b \in 1 .. Len(g.code) : b # g.insert => h.code[b] = g.code[b]
  BY <1>1, <1>2
<1>5. q \in Seq(S) /\ i \in S
  BY <1>2
<1>6. Run(q, E, E[g.insert], l)
  BY DEF CodeRuns
<1> HIDE DEF h, S, q
<1>7. Run(Append(q, i), E, E[g.insert], n)
  BY <1>5, <1>6, RunAppended
<1> HIDE DEF Run, Ran
<1>8. CodeRuns(h, E, n, waits)
  BY <1>1, <1>2, <1>3, <1>4, <1>7 DEF CodeRuns
<1> QED BY <1>8 DEF h

(* Arriving at l is arriving at what l entails. *)
LEMMA RunsOn ==
  ASSUME NEW g, NEW E, NEW l, NEW k, NEW waits, CodeRuns(g, E, l, waits), Entails(l, k)
  PROVE  CodeRuns(g, E, k, waits)
<1>1. Run(g.code[g.insert], E, E[g.insert], k)
  <2> DEFINE q == g.code[g.insert]
  <2>1. PICK w : /\ w[1] = E[g.insert] /\ Labelled(q, w, E)
                 /\ Live(q, Len(q) + 1) => Entails(w[Len(q) + 1], l)
    BY DEF CodeRuns, Run
  <2>2. Live(q, Len(q) + 1) => Entails(w[Len(q) + 1], k)
    BY <2>1, EntailsOn
  <2> QED BY <2>1, <2>2 DEF Run
<1> QED BY <1>1 DEF CodeRuns

(* A block that is terminated arrives nowhere. *)
LEMMA RunsDead ==
  ASSUME NEW g, GenTyped(g), Terminated(g), NEW E, NEW l, NEW k, NEW waits, CodeRuns(g, E, l, waits)
  PROVE  CodeRuns(g, E, k, waits)
<1> DEFINE q == g.code[g.insert]
<1>1. ~Live(q, Len(q) + 1)
  <2>1. q \in Seq(Instructions(Len(g.code), g.temps))
    BY GenFields
  <2>2. q # <<>> /\ q[Len(q)].op \in EndsBlock
    BY DEF Terminated, Last
  <2> HIDE DEF q
  <2>3. Len(q) \in Nat /\ Len(q) # 0
    BY <2>1, <2>2
  <2>4. Len(q) \in 1 .. (Len(q) + 1) - 1
    BY <2>3
  <2> QED BY <2>2, <2>4 DEF Live
<1>2. Run(q, E, E[g.insert], k)
  BY <1>1 DEF CodeRuns, Run
<1> QED BY <1>2 DEF CodeRuns

(* Only the code and the insert point matter. *)
LEMMA RunsSame ==
  ASSUME NEW g, NEW h, h.code = g.code, h.insert = g.insert,
         NEW E, NEW l, NEW waits, CodeRuns(g, E, l, waits)
  PROVE  CodeRuns(h, E, l, waits)
BY DEF CodeRuns

(* The insert point moves to a block that waits. *)
LEMMA RunsMove ==
  ASSUME NEW g, GenTyped(g), NEW E, NEW l, NEW waits, NEW b \in waits, CodeRuns(g, E, l, waits)
  PROVE  CodeRuns(SetInsertPoint(g, b), E, E[b], waits \ {b})
<1> DEFINE h == SetInsertPoint(g, b)
<1>1. b \in 1 .. Len(g.code) /\ g.code[b] = <<>>
  BY DEF CodeRuns
<1>2. h.insert = b /\ h.code = g.code
  BY <1>1, SetInsertPointTyped
<1> HIDE DEF h
<1>3. Run(<<>>, E, E[b], E[b])
  <2> DEFINE w == [j \in {1} |-> E[b]]
  <2>1. w[1] = E[b]
    OBVIOUS
  <2>2. Len(<<>>) = 0
    OBVIOUS
  <2> HIDE DEF w
  <2>3. Labelled(<<>>, w, E)
    BY <2>2 DEF Labelled
  <2>4. Entails(w[Len(<<>>) + 1], E[b])
    BY <2>1, <2>2, EntailsItself
  <2> QED BY <2>1, <2>3, <2>4 DEF Run
<1>4. Ran(g.code[g.insert], E, E[g.insert])
  BY DEF CodeRuns, Run, Ran
<1> HIDE DEF Run, Ran
<1>5. CodeRuns(h, E, E[b], waits \ {b})
  BY <1>1, <1>2, <1>3, <1>4 DEF CodeRuns
<1> QED BY <1>5 DEF h

(* The blocks of a sequence and three more. *)
LEMMA ThreeMore ==
  ASSUME NEW E, IsText(E), NEW a, NEW b, NEW c
  PROVE  LET n == Len(E)
             D == WithThree(E, a, b, c)
         IN  /\ IsText(D) /\ Len(D) = n + 3 /\ n \in Nat
             /\ D[n + 1] = a /\ D[n + 2] = b /\ D[n + 3] = c
             /\ \A i \in 1 .. n : D[i] = E[i]
<1> DEFINE n == Len(E)
           F == <<a, b, c>>
           D == E \o F
<1>1. F \in Seq({a, b, c}) /\ Len(F) = 3 /\ F[1] = a /\ F[2] = b /\ F[3] = c
  OBVIOUS
<1>2. IsText(F)
  BY <1>1 DEF IsText
<1>3. PICK S : E \in Seq(S) /\ F \in Seq(S) /\ F \in Seq(S)
  BY <1>2, CommonText
<1> HIDE DEF F
<1>4. /\ D \in Seq(S) /\ Len(D) = n + Len(F) /\ n \in Nat
      /\ \A i \in 1 .. n : D[i] = E[i]
      /\ \A i \in n + 1 .. n + Len(F) : D[i] = F[i - n]
  BY <1>3, ConcatFacts
<1> HIDE DEF D, n
<1>5. /\ n + 1 \in n + 1 .. n + 3 /\ n + 2 \in n + 1 .. n + 3 /\ n + 3 \in n + 1 .. n + 3
      /\ (n + 1) - n = 1 /\ (n + 2) - n = 2 /\ (n + 3) - n = 3
  BY <1>4
<1>6. D[n + 1] = a /\ D[n + 2] = b /\ D[n + 3] = c
  BY <1>1, <1>4, <1>5
<1>7. IsText(D) /\ Len(D) = n + 3
  BY <1>1, <1>4 DEF IsText
<1> QED BY <1>4, <1>6, <1>7 DEF D, n, F, WithThree

(* New blocks get labels. *)
LEMMA RunsMore ==
  ASSUME NEW g, GenTyped(g), NEW E, NEW l, NEW waits, CodeRuns(g, E, l, waits),
         NEW a, NEW b, NEW c
  PROVE  LET n == Len(g.code)
             D == WithThree(E, a, b, c)
         IN  CodeRuns(NewBlocks(g, 3), D, l, {n + 1, n + 2, n + 3} \cup waits)
<1> DEFINE n == Len(g.code)
           D == WithThree(E, a, b, c)
           h == NewBlocks(g, 3)
           more == {n + 1, n + 2, n + 3} \cup waits
<1>1. /\ h.insert = g.insert /\ Len(h.code) = n + 3 /\ n \in Nat
      /\ \A x \in 1 .. n : h.code[x] = g.code[x]
      /\ \A x \in n + 1 .. n + 3 : h.code[x] = <<>>
  BY NewBlocksFacts
<1>2. IsText(E) /\ Len(E) = n
  BY DEF CodeRuns
<1>3. IsText(D) /\ Len(D) = n + 3 /\ \A x \in 1 .. n : D[x] = E[x]
  BY <1>2, ThreeMore
<1>4. g.insert \in 1 .. n
  BY GenFields
<1> HIDE DEF h, n, D
<1>5. n + 1 \in n + 1 .. n + 3 /\ n + 2 \in n + 1 .. n + 3 /\ n + 3 \in n + 1 .. n + 3
  BY <1>1
<1>6. \A x \in n + 1 .. n + 3 : x \notin 1 .. n /\ x \in 1 .. n + 3
  BY <1>1
<1>7. \A x \in 1 .. n : x \in 1 .. n + 3
  BY <1>1
<1>8. waits \subseteq 1 .. n /\ g.insert \notin waits /\ \A x \in waits : g.code[x] = <<>>
  BY DEF CodeRuns, n
<1>9. /\ more \subseteq 1 .. n + 3 /\ h.insert \notin more
      /\ \A x \in more : h.code[x] = <<>>
  BY <1>1, <1>4, <1>5, <1>6, <1>7, <1>8
<1>14. ASSUME NEW q, NEW w, Labelled(q, w, E) PROVE Labelled(q, w, D)
  BY <1>2, <1>14, LabelledWithThree DEF D
<1>10. ASSUME NEW q, NEW k PROVE Ran(q, E, k) => Ran(q, D, k)
  BY <1>14 DEF Ran
<1>11. Run(g.code[g.insert], D, E[g.insert], l)
  <2>1. Run(g.code[g.insert], E, E[g.insert], l)
    BY DEF CodeRuns
  <2> QED BY <1>14, <2>1 DEF Run
<1>12. ASSUME NEW x \in 1 .. n + 3, x # g.insert PROVE Ran(h.code[x], D, D[x])
  <2>1. CASE x \in 1 .. n
    <3>1. Ran(g.code[x], E, E[x])
      BY <1>12, <2>1 DEF CodeRuns, n
    <3> QED BY <1>1, <1>3, <1>10, <2>1, <3>1
  <2>2. CASE x \in n + 1 .. n + 3
    <3>1. h.code[x] = <<>> /\ Len(<<>>) = 0
      BY <1>1, <2>2
    <3> DEFINE w == [j \in {1} |-> D[x]]
    <3>2. w[1] = D[x]
      OBVIOUS
    <3> HIDE DEF w
    <3>3. Labelled(<<>>, w, D)
      BY <3>1 DEF Labelled
    <3>4. w[Len(<<>>) + 1] = w[1]
      BY <3>1
    <3>5. Entails(D[x], D[x])
      BY EntailsItself
    <3> QED BY <3>1, <3>2, <3>3, <3>4, <3>5 DEF Ran
  <2>3. x \in 1 .. n \/ x \in n + 1 .. n + 3
    BY <1>1
  <2> QED BY <2>1, <2>2, <2>3
<1> HIDE DEF more, Run, Ran
<1>13. CodeRuns(h, D, l, more)
  <2>1. Run(h.code[h.insert], D, D[h.insert], l)
    <3>1. h.code[h.insert] = g.code[g.insert] /\ D[h.insert] = E[g.insert]
      BY <1>1, <1>3, <1>4
    <3> QED BY <1>11, <3>1
  <2> QED BY <1>1, <1>3, <1>9, <1>12, <2>1 DEF CodeRuns
<1> QED BY <1>13 DEF h, n, more, D

(* The branch at the end of a block. *)
LEMMA RunsBranch ==
  ASSUME NEW g, GenTyped(g), NEW E, NEW l, NEW waits, CodeRuns(g, E, l, waits),
         NEW b \in 1 .. Len(g.code), Entails(l, E[b]), NEW k
  PROVE  CodeRuns(BrUnlessTerminated(g, b), E, k, waits)
<1>1. CASE Terminated(g)
  BY <1>1, RunsDead DEF BrUnlessTerminated
<1>2. CASE ~Terminated(g)
  <2>1. Br(b) \in Instructions(Len(g.code), g.temps)
    BY DEF Instructions, Br
  <2>2. Len(E) = Len(g.code)
    BY DEF CodeRuns
  <2>3. b \in 1 .. Len(E)
    BY <2>2
  <2>4. Good(Br(b), l, k, E)
    BY <2>3, GoodBr
  <2>5. CodeRuns(Emit(g, Br(b)), E, k, waits)
    BY <2>1, <2>4, RunsEmit
  <2> QED BY <1>2, <2>5 DEF BrUnlessTerminated
<1> QED BY <1>1, <1>2

-----------------------------------------------------------------------------
(* Where the text goes on from the next mark. *)
LEMMA FromAgainParts ==
  ASSUME NEW S, NEW T \in Seq(S)
  PROVE  /\ (\A i \in 1 .. Len(T) : T[i].kind # "again") => FromAgain(T) = <<>>
         /\ \A j \in 1 .. Len(T) :
              T[j].kind = "again" /\ (\A i \in 1 .. j - 1 : T[i].kind # "again")
                => FromAgain(T) = From(T, j)
<1> DEFINE I == {i \in 1 .. Len(T) : T[i].kind = "again"}
           k == IF I # {} THEN Min(I) ELSE 0
<1>1. FromAgain(T) = IF k = 0 THEN <<>> ELSE SubSeq(T, k, Len(T))
  BY DEF FromAgain, SelectInSeq
<1>2. ASSUME \A i \in 1 .. Len(T) : T[i].kind # "again" PROVE FromAgain(T) = <<>>
  <2>1. k = 0
    BY <1>2
  <2> HIDE DEF k
  <2> QED BY <1>1, <2>1
<1>3. ASSUME NEW j \in 1 .. Len(T), T[j].kind = "again",
             \A i \in 1 .. j - 1 : T[i].kind # "again"
      PROVE  FromAgain(T) = From(T, j)
  <2>1. I \subseteq Nat /\ j \in I
    BY <1>3
  <2>2. Min(I) \in I /\ \A y \in I : Min(I) <= y
    <3>1. \E x \in I : \A y \in I : x <= y
      <4> HIDE DEF I
      <4> QED BY <2>1, LeastNumber
    <3> HIDE DEF I
    <3> QED BY <3>1 DEF Min
  <2> DEFINE n == Min(I)
  <2>3. k = n
    BY <2>1
  <2>4. n \in Nat /\ n \in 1 .. Len(T) /\ T[n].kind = "again" /\ n <= j
    BY <2>1, <2>2
  <2> HIDE DEF I, k, n
  <2>5. n = j
    <3>1. ~(n \in 1 .. j - 1)
      BY <1>3, <2>4
    <3> QED BY <2>4, <3>1
  <2> QED BY <1>1, <2>3, <2>4, <2>5 DEF From
<1> QED BY <1>2, <1>3

(* continue skips what has no loop mark. *)
LEMMA FromAgainBehind ==
  ASSUME NEW A, IsText(A), NEW R, IsText(R), \A i \in 1 .. Len(A) : A[i].kind # "again"
  PROVE  FromAgain(A \o R) = FromAgain(R)
<1>1. PICK S : A \in Seq(S) /\ R \in Seq(S) /\ R \in Seq(S)
  BY CommonText
<1> DEFINE T == A \o R
           a == Len(A)
           r == Len(R)
<1>2. /\ T \in Seq(S) /\ Len(T) = a + r /\ a \in Nat /\ r \in Nat
      /\ \A i \in 1 .. a : T[i] = A[i]
      /\ \A i \in a + 1 .. a + r : T[i] = R[i - a]
  BY <1>1, ConcatFacts
<1> HIDE DEF T, a, r
<1>3. \A i \in 1 .. a : T[i].kind # "again"
  BY <1>2 DEF a
<1>4. \A i \in 1 .. a + r : i \in 1 .. a \/ (i \in a + 1 .. a + r /\ i - a \in 1 .. r)
  BY <1>2
<1>5. CASE \A i \in 1 .. r : R[i].kind # "again"
  <2>1. \A i \in 1 .. Len(T) : T[i].kind # "again"
    BY <1>2, <1>3, <1>4, <1>5
  <2>2. FromAgain(T) = <<>>
    BY <1>2, <2>1, FromAgainParts
  <2>3. FromAgain(R) = <<>>
    BY <1>1, <1>5, FromAgainParts DEF r
  <2> QED BY <2>2, <2>3 DEF T
<1>6. CASE \E i \in 1 .. r : R[i].kind = "again"
  <2> DEFINE I == {i \in 1 .. r : R[i].kind = "again"}
  <2>1. PICK j \in I : \A y \in I : j <= y
    <3>1. I \subseteq Nat /\ \E x : x \in I
      BY <1>2, <1>6
    <3> HIDE DEF I
    <3> QED BY <3>1, LeastNumber
  <2>2. j \in Nat /\ j \in 1 .. r /\ R[j].kind = "again"
    BY <1>2, <2>1
  <2>3. \A i \in 1 .. j - 1 : R[i].kind # "again"
    <3>1. \A i \in 1 .. j - 1 : i \in 1 .. r /\ ~(j <= i)
      BY <1>2, <2>2
    <3> QED BY <2>1, <3>1
  <2> DEFINE n == a + j
  <2>4. n \in 1 .. Len(T) /\ n \in a + 1 .. a + r /\ n - a = j /\ n \in Nat \ {0}
    BY <1>2, <2>2
  <2>5. T[n].kind = "again"
    <3>1. T[n] = R[n - a]
      BY <1>2, <2>4
    <3> QED BY <2>2, <2>4, <3>1
  <2>6. ASSUME NEW i \in 1 .. n - 1 PROVE T[i].kind # "again"
    <3>1. i \in 1 .. a \/ (i \in a + 1 .. a + r /\ i - a \in 1 .. j - 1)
      BY <1>2, <2>2
    <3> HIDE DEF n, I
    <3>2. CASE i \in 1 .. a
      BY <1>3, <3>2
    <3>3. CASE i \in a + 1 .. a + r /\ i - a \in 1 .. j - 1
      <4>1. T[i] = R[i - a]
        BY <1>2, <3>3
      <4> QED BY <2>3, <3>3, <4>1
    <3> QED BY <3>1, <3>2, <3>3
  <2> HIDE DEF n, I
  <2>7. FromAgain(T) = From(T, n)
    BY <1>2, <2>4, <2>5, <2>6, FromAgainParts
  <2>8. FromAgain(R) = From(R, j)
    <3>1. j \in 1 .. Len(R)
      BY <2>2 DEF r
    <3> QED BY <1>1, <2>2, <2>3, <3>1, FromAgainParts
  <2>9. From(T, n) = From(R, j)
    <3> DEFINE B == From(T, n)
               C == From(R, j)
    <3>1. B \in Seq(S) /\ Len(B) = (a + r) - n + 1 /\ \A i \in 1 .. Len(B) : B[i] = T[n + i - 1]
      BY <1>2, <2>4 DEF From
    <3>2. C \in Seq(S) /\ Len(C) = r - j + 1 /\ \A i \in 1 .. Len(C) : C[i] = R[j + i - 1]
      BY <1>1, <1>2, <2>2 DEF From, r
    <3> HIDE DEF B, C
    <3>3. Len(B) = Len(C)
      BY <1>2, <2>2, <3>1, <3>2 DEF n
    <3>4. ASSUME NEW i \in 1 .. Len(B) PROVE B[i] = C[i]
      <4>1. /\ n + i - 1 \in a + 1 .. a + r /\ (n + i - 1) - a = j + i - 1
        BY <1>2, <2>2, <3>1, <3>2, <3>3 DEF n
      <4>2. T[n + i - 1] = R[j + i - 1]
        BY <1>2, <4>1
      <4> QED BY <3>1, <3>2, <3>3, <4>2
    <3>5. B = C
      BY <3>1, <3>2, <3>3, <3>4, SameSequence
    <3> QED BY <3>5 DEF B, C
  <2> QED BY <2>7, <2>8, <2>9 DEF T
<1> QED BY <1>5, <1>6

(* A mark in front. *)
LEMMA FromMark ==
  ASSUME NEW mark, mark.kind = "again", NEW R, IsText(R)
  PROVE  /\ FromAgain(<<mark>> \o R) = <<mark>> \o R
         /\ SubSeq(<<mark>> \o R, 2, Len(<<mark>> \o R)) = R
<1> DEFINE T == <<mark>> \o R
<1>1. IsText(T) /\ T # <<>> /\ Head(T) = mark /\ Tail(T) = R
  BY InFront
<1> HIDE DEF T
<1>2. PICK S : T \in Seq(S)
  BY <1>1 DEF IsText
<1>3. 1 \in 1 .. Len(T) /\ T[1].kind = "again"
  BY <1>1, <1>2
<1>4. FromAgain(T) = From(T, 1)
  <2>1. \A i \in 1 .. 1 - 1 : T[i].kind # "again"
    OBVIOUS
  <2> QED BY <1>2, <1>3, <2>1, FromAgainParts
<1>5. From(T, 1) = T
  <2>1. 1 \in Nat \ {0}
    OBVIOUS
  <2> QED BY <1>2, <2>1, FromParts
<1>6. SubSeq(T, 2, Len(T)) = R
  BY <1>1, <1>2
<1> QED BY <1>4, <1>5, <1>6 DEF T

(* One statement in front that is no mark. *)
LEMMA FromAgainNext ==
  ASSUME NEW s, s.kind # "again", NEW R, IsText(R)
  PROVE  FromAgain(<<s>> \o R) = FromAgain(R)
<1> DEFINE A == <<s>>
<1>1. IsText(A)
  BY OneText
<1>2. \A i \in 1 .. Len(A) : A[i].kind # "again"
  <2>1. Len(A) = 1 /\ A[1] = s
    OBVIOUS
  <2>2. \A i \in 1 .. 1 : i = 1
    OBVIOUS
  <2> HIDE DEF A
  <2> QED BY <2>1, <2>2
<1> HIDE DEF A
<1>3. FromAgain(A \o R) = FromAgain(R)
  BY <1>1, <1>2, FromAgainBehind
<1> QED BY <1>3 DEF A

-----------------------------------------------------------------------------
(* A step of a for loop leaves its counter alone until it has been taken. *)
Dead(P) == Counters(prog) \ {P[i].var : i \in 1 .. Len(P)}

(* What is nested in a part of a block is nested in the block. *)
LEMMA Nested ==
  ASSUME NEW b, NEW kinds, Layers(b, kinds)[Depth] = {},
         NEW s \in Within(b, kinds), s.kind \in kinds, NEW p \in Parts(s)
  PROVE  Within(p, kinds) \subseteq Within(b, kinds) /\ Layers(p, kinds)[Depth] = {}
<1> DEFINE L(n) == Layers(b, kinds)[n]
           M(n) == Layers(p, kinds)[n]
<1>1. Depth \in Nat
  BY ProgramsAssumption
<1>2. \A n \in 0 .. Depth : L(n) = IF n = 0 THEN Own(b) ELSE Below(L(n - 1), kinds)
  BY LayersDef
<1>3. \A n \in 0 .. Depth : M(n) = IF n = 0 THEN Own(p) ELSE Below(M(n - 1), kinds)
  BY LayersDef
<1>4. PICK n \in 0 .. Depth : s \in L(n)
  BY DEF Within
<1>5. L(Depth) = {}
  OBVIOUS
<1>6. \A i \in 0 .. Depth : L(i) \subseteq Within(b, kinds)
  BY DEF Within
<1>7. Within(p, kinds) = UNION {M(i) : i \in 0 .. Depth}
  BY DEF Within
<1>8. ASSUME NEW A, NEW B, A \subseteq B PROVE Below(A, kinds) \subseteq Below(B, kinds)
  BY <1>8 DEF Below
<1>9. Below({}, kinds) = {}
  BY DEF Below
<1>10. ASSUME NEW A, s \in A PROVE Own(p) \subseteq Below(A, kinds)
  BY <1>10 DEF Below
<1> HIDE DEF L, M
<1> DEFINE m == n + 1
           r == Depth - m
<1>11. m \in 0 .. Depth /\ m # 0 /\ m - 1 = n /\ r \in 0 .. Depth /\ m + r = Depth
  <2>1. n # Depth
    BY <1>4, <1>5
  <2> QED BY <1>1, <2>1
<1>12. Own(p) \subseteq L(m)
  BY <1>2, <1>4, <1>10, <1>11
<1> HIDE DEF m, r
<1>13. \A i \in 0 .. r : M(i) \subseteq L(m + i)
  <2> DEFINE T == {i \in Nat : i <= r => M(i) \subseteq L(m + i)}
  <2>1. 0 \in T
    <3>1. M(0) = Own(p) /\ m + 0 = m
      BY <1>1, <1>3, <1>11
    <3> QED BY <1>12, <3>1
  <2>2. ASSUME NEW i \in Nat, i \in T PROVE i + 1 \in T
    <3> SUFFICES ASSUME i + 1 <= r PROVE M(i + 1) \subseteq L(m + (i + 1))
      OBVIOUS
    <3>1. i <= r /\ i + 1 \in 0 .. Depth /\ i + 1 # 0 /\ (i + 1) - 1 = i
      BY <1>1, <1>11
    <3>2. /\ m + (i + 1) \in 0 .. Depth /\ m + (i + 1) # 0
          /\ (m + (i + 1)) - 1 = m + i
      BY <1>1, <1>11
    <3>3. M(i) \subseteq L(m + i)
      BY <2>2, <3>1
    <3>4. M(i + 1) = Below(M(i), kinds)
      BY <1>3, <3>1
    <3>5. L(m + (i + 1)) = Below(L(m + i), kinds)
      BY <1>2, <3>2
    <3> QED BY <1>8, <3>3, <3>4, <3>5
  <2>3. Nat \subseteq T
    <3> HIDE DEF T
    <3> QED BY <2>1, <2>2, SetInduction
  <2> QED BY <1>11, <2>3
<1>14. \A i \in r .. Depth : M(i) = {}
  <2> DEFINE T == {i \in Nat : i <= m => M(r + i) = {}}
  <2>1. 0 \in T
    <3>1. r \in 0 .. r /\ r + 0 = r
      BY <1>11
    <3>2. M(r) \subseteq L(Depth)
      BY <1>11, <1>13, <3>1
    <3> QED BY <1>5, <3>1, <3>2
  <2>2. ASSUME NEW i \in Nat, i \in T PROVE i + 1 \in T
    <3> SUFFICES ASSUME i + 1 <= m PROVE M(r + (i + 1)) = {}
      OBVIOUS
    <3>1. i <= m
      BY <1>11
    <3>2. /\ r + (i + 1) \in 0 .. Depth /\ r + (i + 1) # 0
          /\ (r + (i + 1)) - 1 = r + i
      BY <1>1, <1>11
    <3>3. M(r + i) = {}
      BY <2>2, <3>1
    <3>4. M(r + (i + 1)) = Below(M(r + i), kinds)
      BY <1>3, <3>2
    <3> QED BY <1>9, <3>3, <3>4
  <2>3. Nat \subseteq T
    <3> HIDE DEF T
    <3> QED BY <2>1, <2>2, SetInduction
  <2>4. ASSUME NEW i \in r .. Depth PROVE M(i) = {}
    <3>1. i - r \in Nat /\ i - r <= m /\ r + (i - r) = i
      BY <1>1, <1>11
    <3>2. M(r + (i - r)) = {}
      BY <2>3, <3>1
    <3> QED BY <3>1, <3>2
  <2> QED BY <2>4
<1>15. M(Depth) = {}
  <2>1. Depth \in r .. Depth
    BY <1>1, <1>11
  <2> QED BY <1>14, <2>1
<1>16. ASSUME NEW i \in 0 .. Depth PROVE M(i) \subseteq Within(b, kinds)
  <2>1. CASE i \in 0 .. r
    <3>1. m + i \in 0 .. Depth
      BY <1>1, <1>11, <2>1
    <3> QED BY <1>6, <1>13, <2>1, <3>1
  <2>2. CASE i \in r .. Depth
    BY <1>14, <2>2
  <2>3. i \in 0 .. r \/ i \in r .. Depth
    BY <1>1, <1>11
  <2> QED BY <2>1, <2>2, <2>3
<1>17. Within(p, kinds) \subseteq Within(b, kinds)
  BY <1>7, <1>16
<1> QED BY <1>15, <1>17 DEF M

(* The parts of statements are blocks, and what is nested in them statements. *)
LEMMA PartsTyped ==
  ASSUME NEW s \in Statement, NEW p \in Parts(s)
  PROVE  p \in Blocks
<1>1. s \in Node
  BY StatementParts
<1> QED BY <1>1, NodeParts DEF Parts

LEMMA OwnTyped ==
  ASSUME NEW b \in Blocks
  PROVE  Own(b) \subseteq Statement
<1>1. b.statements \in Seq(Statement)
  BY BlockParts
<1>2. ASSUME NEW j \in 1 .. Len(b.statements) PROVE b.statements[j] \in Statement
  BY <1>1
<1>3. Upto(b.statements, 1) \subseteq Statement
  BY <1>2 DEF Upto
<1> QED BY <1>3, BlockParts

LEMMA WithinTyped ==
  ASSUME NEW b \in Blocks, NEW kinds
  PROVE  Within(b, kinds) \subseteq Statement
<1> DEFINE L(n) == Layers(b, kinds)[n]
           T == {n \in Nat : n <= Depth => L(n) \subseteq Statement}
<1>1. Depth \in Nat
  BY ProgramsAssumption
<1>2. \A n \in 0 .. Depth : L(n) = IF n = 0 THEN Own(b) ELSE Below(L(n - 1), kinds)
  BY LayersDef
<1>3. 0 \in T
  <2>1. L(0) = Own(b)
    BY <1>1, <1>2
  <2> QED BY <2>1, OwnTyped
<1>4. ASSUME NEW n \in Nat, n \in T PROVE n + 1 \in T
  <2> SUFFICES ASSUME n + 1 <= Depth PROVE L(n + 1) \subseteq Statement
    OBVIOUS
  <2>1. n <= Depth /\ n + 1 \in 0 .. Depth /\ n + 1 # 0 /\ (n + 1) - 1 = n
    BY <1>1
  <2> HIDE DEF L
  <2>2. L(n) \subseteq Statement
    BY <1>4, <2>1
  <2>3. L(n + 1) = Below(L(n), kinds)
    BY <1>2, <2>1
  <2>4. ASSUME NEW s \in L(n), NEW p \in Parts(s) PROVE Own(p) \subseteq Statement
    BY <2>2, PartsTyped, OwnTyped
  <2> QED BY <2>3, <2>4 DEF Below
<1>5. Nat \subseteq T
  <2> HIDE DEF T
  <2> QED BY <1>3, <1>4, SetInduction
<1>6. \A n \in 0 .. Depth : L(n) \subseteq Statement
  <2> HIDE DEF L
  <2> QED BY <1>1, <1>5
<1> QED BY <1>6 DEF Within

-----------------------------------------------------------------------------
(***************************************************************************)
(* Regions: the statements outside of all for loops; and those nested in a *)
(* block of the body of one, where P, its step, is the prologue.           *)
(***************************************************************************)
Shallow(b) == Layers(b, {"if", "while", "for", "block"})[Depth] = {}

Inside(q, c) == Shallow(q) /\ Generated(q) \subseteq Generated(c) /\ Direct(q) \subseteq Direct(c)

Region(S, P) ==
  \/ P = <<>> /\ S = Direct(prog) \cup {Return(NoVar)}
  \/ \E f \in ForLoopsIn(prog) : \E q \in Blocks :
       P = <<StepOf(f)>> /\ S = Direct(q) /\ Inside(q, f.body)

Jumps == {"break", "continue"}

Clear(c, dead) == (c.op = "compare" /\ c.var \notin dead) \/ Reads(c) \cap dead = {}

(* What is known of a loop where P is the prologue of those around it. *)
LoopFits(s, P) ==
  /\ Clear(s.condition, Dead(P \o s.prologue))
  /\ P = <<>> \/ s.prologue = <<>>
  /\ s.prologue # <<>> => s.body.statements # <<>> /\ ~s.body.expects
  /\ P # <<>> => AddsNoStep(s.body)
  /\ \E X : /\ Region(X, P \o s.prologue) /\ Own(s.body) \subseteq X
            /\ P # <<>> => \A t \in X : t.kind \notin Jumps

LoopOf(f) == While(Compare(f.var, f.cmp, f.end), f.body, <<StepOf(f)>>)

LEMMA DirectFacts ==
  ASSUME NEW b, Shallow(b)
  PROVE  /\ Layers(b, {"if", "while", "block"})[Depth] = {}
         /\ Own(b) \subseteq Direct(b) /\ Closed(Direct(b), {"if", "while", "block"})
         /\ Direct(b) \subseteq Generated(b)
<1> DEFINE few == {"if", "while", "block"}
           many == {"if", "while", "for", "block"}
<1>1. Depth \in Nat /\ few \subseteq many
  BY ProgramsAssumption
<1>2. \A n \in 0 .. Depth : Layers(b, few)[n] \subseteq Layers(b, many)[n]
  BY <1>1, LayersAscend
<1>3. Layers(b, few)[Depth] = {}
  BY <1>1, <1>2 DEF Shallow
<1>4. Own(b) \subseteq Within(b, few) /\ Closed(Within(b, few), few)
  <2> HIDE DEF few
  <2> QED BY <1>3, WithinIsClosed
<1>5. Within(b, few) \subseteq Within(b, many)
  <2> HIDE DEF few, many
  <2> QED BY <1>2 DEF Within
<1> QED BY <1>3, <1>4, <1>5 DEF Direct, Generated

(* Parts of a statement inside of a block are inside of it. *)
LEMMA InsideParts ==
  ASSUME NEW b, Shallow(b), NEW s \in Direct(b), s.kind \in {"if", "while", "block"},
         NEW p \in Parts(s)
  PROVE  Inside(p, b)
<1> DEFINE few == {"if", "while", "block"}
           many == {"if", "while", "for", "block"}
<1>1. Layers(b, few)[Depth] = {} /\ Layers(b, many)[Depth] = {}
  BY DirectFacts DEF Shallow
<1>2. s \in Within(b, few) /\ s \in Within(b, many)
  BY DirectFacts DEF Direct, Generated
<1>3. s.kind \in few /\ s.kind \in many
  OBVIOUS
<1> HIDE DEF few, many
<1>4. Within(p, few) \subseteq Within(b, few)
  BY <1>1, <1>2, <1>3, Nested
<1>5. Within(p, many) \subseteq Within(b, many) /\ Layers(p, many)[Depth] = {}
  BY <1>1, <1>2, <1>3, Nested
<1> QED BY <1>4, <1>5 DEF Inside, Shallow, Direct, Generated, few, many

(* What a for loop is desugared to. *)
LEMMA LoopParts ==
  ASSUME NEW f
  PROVE  /\ desugar(f).statements = <<Declaration(f.var, f.begin), LoopOf(f)>>
         /\ ~desugar(f).expects /\ desugar(f).kind = "block"
         /\ LoopOf(f).kind = "while" /\ LoopOf(f).body = f.body
         /\ LoopOf(f).prologue = <<StepOf(f)>>
         /\ LoopOf(f).condition = Compare(f.var, f.cmp, f.end)
         /\ Declaration(f.var, f.begin).kind = "declaration"
         /\ Declaration(f.var, f.begin).var = f.var /\ Declaration(f.var, f.begin).value = f.begin
         /\ StepOf(f).kind = "assign" /\ StepOf(f).var = f.var
<1>1. /\ desugar(f).statements = <<Declaration(f.var, f.begin), LoopOf(f)>>
      /\ ~desugar(f).expects /\ desugar(f).kind = "block"
  BY DEF desugar, Block, LoopOf
<1>2. /\ LoopOf(f).kind = "while" /\ LoopOf(f).body = f.body
      /\ LoopOf(f).prologue = <<StepOf(f)>>
      /\ LoopOf(f).condition = Compare(f.var, f.cmp, f.end)
  BY DEF LoopOf, While
<1>3. /\ Declaration(f.var, f.begin).kind = "declaration"
      /\ Declaration(f.var, f.begin).var = f.var /\ Declaration(f.var, f.begin).value = f.begin
  BY DEF Declaration
<1>4. StepOf(f).kind = "assign" /\ StepOf(f).var = f.var
  BY DEF StepOf, Assign
<1> QED BY <1>1, <1>2, <1>3, <1>4

(* What is known of a for loop in the program. *)
LEMMA ForFacts ==
  ASSUME prog \in Programs, NEW f \in Generated(prog), f.kind = "for"
  PROVE  /\ f \in ForLoopsIn(prog) /\ f.var \in Counters(prog) /\ f.var \in Var
         /\ desugar(f) \in Blocks /\ f.body \in Blocks /\ Shallow(f.body)
         /\ StepOf(f) \in Assignments /\ f.begin \in Integer
<1> DEFINE many == {"if", "while", "for", "block"}
           d == Declaration(f.var, f.begin)
           w == LoopOf(f)
<1>1. f \in ForLoopsIn(prog) /\ f.var \in Counters(prog)
  BY DEF ForLoopsIn, Counters
<1>2. prog \in Blocks /\ Layers(prog, many)[Depth] = {}
  BY ProgramsAssumption
<1>3. f \in Statement
  BY <1>2, WithinTyped DEF Generated
<1>4. f \in ForLoops /\ desugar(f) \in Blocks
  BY <1>3, StatementAssumption DEF Simple, Compound, Assignments, Blocks
<1>5. f.var \in Var /\ f.body \in Blocks /\ f.begin \in Integer
  BY <1>4 DEF ForLoops
<1>6. StepOf(f) \in Assignments
  <2>1. StepOf(f) = Assign(f.var, IF Up(f.cmp) THEN 1 ELSE -1)
    BY DEF StepOf
  <2>2. (IF Up(f.cmp) THEN 1 ELSE -1) \in Int
    OBVIOUS
  <2> QED BY <1>5, <2>1, <2>2 DEF Assign, Assignments
<1>7. Parts(f) = {desugar(f)}
  BY DEF Parts
<1>8. f \in Within(prog, many) /\ f.kind \in many
  BY DEF Generated
<1> HIDE DEF many
<1>9. Layers(desugar(f), many)[Depth] = {}
  BY <1>2, <1>7, <1>8, Nested
<1>10. w \in Own(desugar(f))
  <2>1. Own(desugar(f)) = Upto(desugar(f).statements, 1)
    BY <1>4, LoopParts, BlockParts
  <2>2. desugar(f).statements = <<d, w>> /\ d.kind = "declaration"
    BY LoopParts
  <2> HIDE DEF d, w
  <2> DEFINE q == <<d, w>>
  <2>3. Len(q) = 2 /\ q[1] = d /\ q[2] = w
    OBVIOUS
  <2> HIDE DEF q
  <2>4. 2 \in 1 .. 2 /\ \A l \in 1 .. 2 - 1 : l = 1
    OBVIOUS
  <2>5. \A l \in 1 .. 2 - 1 : q[l].kind \notin Terminators
    BY <2>2, <2>3, <2>4 DEF Terminators
  <2>6. q[2] \in Upto(q, 1)
    BY <2>3, <2>4, <2>5 DEF Upto
  <2> QED BY <2>1, <2>2, <2>3, <2>6 DEF q
<1>11. w \in Within(desugar(f), many)
  BY <1>9, <1>10, WithinIsClosed
<1>12. w.kind \in many /\ f.body \in Parts(w)
  BY LoopParts DEF Parts, many
<1> HIDE DEF w
<1>13. Layers(f.body, many)[Depth] = {}
  BY <1>9, <1>11, <1>12, Nested
<1> QED BY <1>1, <1>4, <1>5, <1>6, <1>13 DEF Shallow, many

(* The prologue in a region is one step of a counter, or none. *)
LEMMA RegionSteps ==
  ASSUME prog \in Programs, NEW S, NEW P, Region(S, P)
  PROVE  \/ P = <<>> /\ Dead(P) = Counters(prog)
         \/ \E s \in Assignments : /\ P = <<s>> /\ s.kind = "assign"
                                   /\ s.var \in Counters(prog) /\ s.var \in Var
                                   /\ Dead(P) = Counters(prog) \ {s.var}
                                   /\ Dead(P) \cup {s.var} = Counters(prog)
<1>1. CASE P = <<>>
  <2>1. Len(<<>>) = 0
    OBVIOUS
  <2> QED BY <1>1, <2>1 DEF Dead
<1>2. CASE P # <<>>
  <2>1. PICK f \in ForLoopsIn(prog) : P = <<StepOf(f)>>
    BY <1>2 DEF Region
  <2>2. f \in Generated(prog) /\ f.kind = "for"
    BY DEF ForLoopsIn
  <2>3. StepOf(f) \in Assignments /\ f.var \in Counters(prog) /\ f.var \in Var
    BY <2>2, ForFacts
  <2> DEFINE s == StepOf(f)
  <2>4. s.kind = "assign" /\ s.var = f.var
    BY LoopParts
  <2> HIDE DEF s
  <2>5. Len(<<s>>) = 1 /\ <<s>>[1] = s /\ \A i \in 1 .. 1 : i = 1
    OBVIOUS
  <2>6. Dead(<<s>>) = Counters(prog) \ {s.var}
    <3>1. {<<s>>[i].var : i \in 1 .. Len(<<s>>)} = {s.var}
      BY <2>5
    <3> QED BY <3>1 DEF Dead
  <2>7. P = <<s>> /\ s \in Assignments /\ s.var \in Counters(prog) /\ s.var \in Var
    BY <2>1, <2>3, <2>4 DEF s
  <2> QED BY <2>4, <2>6, <2>7
<1> QED BY <1>1, <1>2

(* Outside of all for loops. *)
LEMMA OuterParts ==
  ASSUME prog \in Programs, StepsOncePerIteration,
         NEW s \in Direct(prog) \cup {Return(NoVar)}
  PROVE  LET S == Direct(prog) \cup {Return(NoVar)}
         IN  /\ s \in Statement /\ Uses(s) \cap Dead(<<>>) = {}
             /\ s.kind = "return" => s.var \notin Counters(prog)
             /\ s.kind \in {"if", "block"} => \A p \in Parts(s) : Own(p) \subseteq S
             /\ s.kind = "while" => LoopFits(s, <<>>)
             /\ s.kind = "for" => s \in ForLoopsIn(prog) /\ LoopFits(LoopOf(s), <<>>)
<1> DEFINE S == Direct(prog) \cup {Return(NoVar)}
           C == Counters(prog)
<1>1. prog \in Blocks /\ Shallow(prog) /\ Resolved(prog) /\ Parsed(prog)
  BY ProgramsAssumption DEF Shallow
<1>2. Region(S, <<>>)
  BY DEF Region
<1>3. Dead(<<>>) = C
  <2>1. Len(<<>>) = 0
    OBVIOUS
  <2> QED BY <2>1 DEF Dead
<1>4. /\ Closed(Direct(prog), {"if", "while", "block"})
      /\ Direct(prog) \subseteq Generated(prog)
  BY <1>1, DirectFacts
<1>5. \A p : p = <<>> => <<>> \o p = <<>>
  BY InFront, OneText
<1>6. CASE s = Return(NoVar)
  <2>1. s.kind = "return" /\ s.var = NoVar
    BY <1>6 DEF Return
  <2>2. s \in Statement
    BY <1>6, StatementAssumption
  <2>3. Uses(s) = {NoVar}
    BY <2>1 DEF Uses
  <2>4. NoVar \notin C
    <3>1. \A f \in ForLoopsIn(prog) : f.var \in Var
      BY ForFacts DEF ForLoopsIn
    <3> QED BY <3>1, NoVarAssumption DEF Counters
  <2> QED BY <1>3, <2>1, <2>2, <2>3, <2>4
<1>7. CASE s \in Direct(prog)
  <2>1. s \in Statement
    BY <1>1, <1>7, WithinTyped DEF Direct
  <2>2. Uses(s) \cap C = {}
    BY <1>1, <1>7 DEF Resolved
  <2>3. s.kind = "return" => s.var \notin C
    BY <2>2 DEF Uses
  <2>4. s.kind \in {"if", "while", "block"} => \A p \in Parts(s) : Own(p) \subseteq S
    BY <1>4, <1>7 DEF Closed
  <2>5. ASSUME s.kind = "while" PROVE LoopFits(s, <<>>)
    <3>1. s.prologue = <<>>
      BY <1>1, <1>7, <2>5 DEF Parsed
    <3>2. <<>> \o s.prologue = <<>>
      BY <1>5, <3>1
    <3>3. Clear(s.condition, Dead(<<>>))
      BY <1>3, <2>2, <2>5 DEF Clear, Uses
    <3>4. Own(s.body) \subseteq S
      BY <2>4, <2>5 DEF Parts
    <3> HIDE DEF S
    <3> QED BY <1>2, <3>1, <3>2, <3>3, <3>4 DEF LoopFits
  <2>6. ASSUME s.kind = "for" PROVE s \in ForLoopsIn(prog) /\ LoopFits(LoopOf(s), <<>>)
    <3> DEFINE w == LoopOf(s)
               P == <<StepOf(s)>>
               c == Compare(s.var, s.cmp, s.end)
               X == Direct(s.body)
    <3>1. s \in Generated(prog)
      BY <1>4, <1>7
    <3>2. s \in ForLoopsIn(prog) /\ s.body \in Blocks /\ Shallow(s.body)
      BY <2>6, <3>1, ForFacts
    <3>3. w.condition = c /\ w.body = s.body /\ w.prologue = P
      BY LoopParts
    <3>4. c.op = "compare" /\ c.var = s.var
      BY DEF Compare
    <3>5. <<>> \o P = P /\ P # <<>>
      BY InFront, OneText
    <3>6. s.var \notin Dead(P)
      <4>1. Len(P) = 1 /\ P[1].var = s.var /\ 1 \in 1 .. 1
        BY LoopParts
      <4> HIDE DEF P
      <4> QED BY <4>1 DEF Dead
    <3>7. s.body.statements # <<>> /\ ~s.body.expects
      BY <3>2 DEF StepsOncePerIteration, StepsAtEndOnly
    <3>8. Region(X, P)
      BY <3>2 DEF Region, Inside
    <3>9. Own(s.body) \subseteq X
      BY <3>2, DirectFacts
    <3> HIDE DEF w, P, c, X
    <3>10. LoopFits(w, <<>>)
      BY <3>3, <3>4, <3>5, <3>6, <3>7, <3>8, <3>9 DEF LoopFits, Clear
    <3> QED BY <3>2, <3>10 DEF w
  <2> QED BY <1>3, <2>1, <2>2, <2>3, <2>4, <2>5, <2>6
<1> QED BY <1>6, <1>7

LEMMA EmptyBehind ==
  ASSUME NEW P, IsText(P)
  PROVE  P \o <<>> = P
<1>1. PICK S : P \in Seq(S)
  BY DEF IsText
<1> DEFINE Q == P \o <<>>
<1>2. Q \in Seq(S) /\ Len(Q) = Len(P) /\ \A i \in 1 .. Len(Q) : Q[i] = P[i]
  BY <1>1
<1> HIDE DEF Q
<1>3. Q = P
  BY <1>1, <1>2, SameSequence
<1> QED BY <1>3 DEF Q

(* In a for loop. *)
LEMMA InnerParts ==
  ASSUME prog \in Programs, StepsOncePerIteration, NEW f \in ForLoopsIn(prog),
         NEW q \in Blocks, Inside(q, f.body), NEW s \in Direct(q)
  PROVE  LET P == <<StepOf(f)>>
         IN  /\ s \in Statement /\ Uses(s) \cap Dead(P) = {}
             /\ s.kind = "return" => s.var \notin Counters(prog)
             /\ s.kind \in {"if", "block"} =>
                  \A p \in Parts(s) : Own(p) \subseteq Direct(q) /\ AddsNoStep(p)
             /\ s.kind = "while" => LoopFits(s, P)
             /\ s.kind # "for"
<1> DEFINE P == <<StepOf(f)>>
           C == Counters(prog)
<1>1. prog \in Blocks /\ Resolved(prog) /\ Parsed(prog)
  BY ProgramsAssumption
<1>2. /\ Closed(Direct(q), {"if", "while", "block"})
      /\ Direct(q) \subseteq Generated(q)
  BY DirectFacts DEF Inside
<1>3. s \in Direct(f.body) /\ s \in Generated(f.body)
  BY <1>2 DEF Inside
<1>4. s \in Statement
  BY WithinTyped DEF Direct
<1>5. StepsAtEndOnly(f)
  BY DEF StepsOncePerIteration
<1>6. /\ s.kind # "for"
      /\ \A p \in Parts(s) : AddsNoStep(p)
      /\ s.kind = "return" => s.var # f.var
      /\ s.kind = "while" => \A t \in Generated(s.body) : t.kind \notin Jumps
  BY <1>3, <1>5 DEF StepsAtEndOnly, Jumps
<1>7. Dead(P) = C \ {f.var}
  <2>1. Len(P) = 1 /\ P[1].var = f.var /\ \A i \in 1 .. 1 : i = 1
    BY LoopParts
  <2> HIDE DEF P
  <2>2. {P[i].var : i \in 1 .. Len(P)} = {f.var}
    BY <2>1
  <2> QED BY <2>2 DEF Dead
<1>8. ASSUME NEW v \in Uses(s) \cap C PROVE v = f.var
  <2>1. v = f.var \/ \E o \in ForLoopsIn(prog) : v = o.var /\ f \in Generated(o.body)
    BY <1>1, <1>3 DEF Resolved
  <2>2. ASSUME NEW o \in ForLoopsIn(prog) PROVE f \notin Generated(o.body)
    <3>1. f.kind = "for"
      BY DEF ForLoopsIn
    <3> QED BY <3>1 DEF StepsOncePerIteration, StepsAtEndOnly
  <2> QED BY <2>1, <2>2
<1>9. Uses(s) \cap Dead(P) = {}
  BY <1>7, <1>8
<1>10. s.kind = "return" => s.var \notin C
  BY <1>6, <1>8 DEF Uses
<1>11. s.kind \in {"if", "while", "block"} => \A p \in Parts(s) : Own(p) \subseteq Direct(q)
  BY <1>2 DEF Closed
<1>12. ASSUME s.kind = "while" PROVE LoopFits(s, P)
  <2>1. s.prologue = <<>>
    BY <1>1, <1>3, <1>12 DEF Parsed
  <2>2. P \o s.prologue = P /\ P # <<>>
    BY <2>1, OneText, EmptyBehind
  <2>3. Clear(s.condition, Dead(P))
    BY <1>9, <1>12 DEF Clear, Uses
  <2>4. s.body \in Parts(s)
    BY <1>12 DEF Parts
  <2>5. s.body \in Blocks
    BY <1>4, <2>4, PartsTyped
  <2>6. Inside(s.body, q)
    <3>1. Shallow(q)
      BY DEF Inside
    <3> QED BY <1>12, <2>4, <3>1, InsideParts
  <2>7. Inside(s.body, f.body)
    BY <2>6 DEF Inside
  <2> DEFINE X == Direct(s.body)
  <2>8. Region(X, P)
    BY <2>5, <2>7 DEF Region
  <2>9. Own(s.body) \subseteq X /\ X \subseteq Generated(s.body)
    BY <2>6, DirectFacts DEF Inside
  <2>10. \A t \in X : t.kind \notin Jumps
    BY <1>6, <1>12, <2>9
  <2>11. AddsNoStep(s.body)
    BY <1>6, <2>4
  <2> HIDE DEF X, P
  <2> QED BY <2>1, <2>2, <2>3, <2>8, <2>9, <2>10, <2>11 DEF LoopFits
<1> QED BY <1>4, <1>6, <1>9, <1>10, <1>11, <1>12

(* What is known of the statements of a region. *)
LEMMA RegionParts ==
  ASSUME prog \in Programs, StepsOncePerIteration, NEW S, NEW P, Region(S, P), NEW s \in S
  PROVE  /\ s \in Statement /\ Uses(s) \cap Dead(P) = {}
         /\ s.kind = "return" => s.var \notin Counters(prog)
         /\ s.kind \in {"if", "block"} =>
              \A p \in Parts(s) : Own(p) \subseteq S /\ (P # <<>> => AddsNoStep(p))
         /\ s.kind = "while" => LoopFits(s, P)
         /\ s.kind = "for" => P = <<>> /\ s \in ForLoopsIn(prog) /\ LoopFits(LoopOf(s), <<>>)
<1>1. CASE P = <<>>
  <2>1. S = Direct(prog) \cup {Return(NoVar)}
    BY <1>1 DEF Region
  <2> QED BY <1>1, <2>1, OuterParts
<1>2. CASE P # <<>>
  <2>1. PICK f \in ForLoopsIn(prog) : \E q \in Blocks :
          P = <<StepOf(f)>> /\ S = Direct(q) /\ Inside(q, f.body)
    BY <1>2 DEF Region
  <2>2. PICK q \in Blocks : P = <<StepOf(f)>> /\ S = Direct(q) /\ Inside(q, f.body)
    BY <2>1
  <2> QED BY <1>2, <2>2, InnerParts
<1> QED BY <1>1, <1>2

-----------------------------------------------------------------------------
(***************************************************************************)
(* The stack.  A task stands between two contexts: what has been reached   *)
(* when it is taken, and what is to be reached when it has been done.  A   *)
(* context is a label, the blocks that wait, and a place: a region, the    *)
(* members of the generator that are about loops, and the text from the    *)
(* mark of the innermost loop on.                                          *)
(***************************************************************************)
Again(mark) == [mark EXCEPT !.kind = "loop"]

(* Where break and continue go on in the text their blocks do. *)
JumpsLead(p, E) ==
  \/ p.break = 0 /\ p.continue = 0 /\ p.prologue = <<>>
  \/ \E mark, R :
       /\ mark.kind = "again" /\ mark.step = p.prologue /\ IsText(R) /\ p.again = <<mark>> \o R
       /\ p.break \in 1 .. Len(E) /\ E[p.break] = Label(R, Counters(prog), {})
       /\ p.continue \in 1 .. Len(E)
       /\ E[p.continue] = Label(<<Again(mark)>> \o R, Dead(p.prologue), {})

InPlace(p, E) ==
  Region(p.in, p.prologue) /\ ((\E s \in p.in : s.kind \in Jumps) => JumpsLead(p, E))

(* The text behind a task. *)
Behind(R, p) == IsText(R) /\ FromAgain(R) = p.again

(* A block that adds no step where it should not. *)
Placed(q, p) == Own(q) \subseteq p.in /\ (p.prologue = <<>> \/ AddsNoStep(q))

(* The step at the end of a body has been taken. *)
AtEnd(R, P, l) ==
  \E mark, Q : /\ mark.kind = "again" /\ mark.step = P /\ P # <<>>
               /\ IsText(Q) /\ R = <<mark>> \o Q
               /\ l = Label(<<Again(mark)>> \o Q, Dead(P), {})

Opened(q) == IF q.expects THEN <<>> ELSE q.statements

SimpleLevel(s, a, b) ==
  \E R, dead, more :
    /\ IsText(R) /\ a.lab = Label(<<s>> \o R, dead, {}) /\ b.lab = Label(R, more, {})
    /\ s.kind = "declaration" => dead \ {s.var} \subseteq more
    /\ s.kind # "declaration" => dead \subseteq more
    /\ s.kind = "call" => s.var \notin dead

ReturnLevel(s, a) ==
  /\ s.var \notin Counters(prog)
  /\ \E R : IsText(R) /\ a.lab = Label(<<s>> \o R, Counters(prog), {})

JumpLevel(to, a, E) == to # 0 => to \in 1 .. Len(E) /\ Entails(a.lab, E[to])

BlockLevel(q, a, b) ==
  LET P == a.place.prologue
  IN  /\ Own(q) \subseteq a.place.in
      /\ \E R : /\ Behind(R, a.place)
                /\ Entails(a.lab, Label(Opened(q) \o R, Dead(P), {}))
                /\ \/ b.lab = Label(R, Dead(P), {}) /\ Placed(q, a.place)
                   \/ q.statements # <<>> /\ ~q.expects /\ AtEnd(R, P, b.lab)

ListLevel(q, i, a, b) ==
  LET P == a.place.prologue
  IN  /\ Upto(q, i) \subseteq a.place.in
      /\ \E R : /\ Behind(R, a.place)
                /\ a.lab = Label(From(q, i) \o R, Dead(P), {})
                /\ \/ b.lab = Label(R, Dead(P), {}) /\ (P = <<>> \/ HasJump(q, i))
                   \/ AtEnd(R, P, b.lab)

(* The counter of a for loop comes to life between its two statements. *)
ForListLevel(q, i, a, b) ==
  LET C == Counters(prog)
  IN  /\ a.place.prologue = <<>> /\ i \in 1 .. 3
      /\ \E f \in ForLoopsIn(prog) : \E R :
           /\ q = desugar(f).statements /\ LoopFits(LoopOf(f), <<>>)
           /\ Behind(R, a.place)
           /\ a.lab = Label(From(q, i) \o R, IF i = 2 THEN C \ {f.var} ELSE C, {})
           /\ b.lab = Label(R, C, {})

ForLevel(f, a, b) ==
  /\ a.place.prologue = <<>> /\ f \in ForLoopsIn(prog) /\ LoopFits(LoopOf(f), <<>>)
  /\ \E R : /\ Behind(R, a.place)
            /\ a.lab = Label(<<f>> \o R, Counters(prog), {}) /\ b.lab = Label(R, Counters(prog), {})

IfLevel(s, a, b) ==
  LET dead == Dead(a.place.prologue)
  IN  /\ Placed(s.then, a.place) /\ Placed(s.else, a.place) /\ Clear(s.condition, dead)
      /\ \E R : /\ Behind(R, a.place)
                /\ a.lab = Label(<<s>> \o R, dead, {}) /\ b.lab = Label(R, dead, {})

IfDecidedLevel(f, a, b) ==
  LET dead == Dead(a.place.prologue)
  IN  /\ Placed(f.then, a.place) /\ Placed(f.else, a.place)
      /\ \E R : /\ Behind(R, a.place)
                /\ a.lab = AccLabel(<<f.then>> \o R, <<f.else>> \o R, dead, {})
                /\ b.lab = Label(R, dead, {})

ThenDoneLevel(f, a, b, E) ==
  LET dead == Dead(a.place.prologue)
      n    == f.blocks
  IN  /\ Placed(f.else, a.place) /\ E[n + 3] = b.lab /\ Entails(a.lab, b.lab)
      /\ \E R : /\ Behind(R, a.place)
                /\ E[n + 2] = Label(<<f.else>> \o R, dead, {}) /\ b.lab = Label(R, dead, {})

ElseDoneLevel(f, a, b, E) == E[f.blocks + 3] = b.lab /\ Entails(a.lab, b.lab)

WhileLevel(s, a, b) ==
  LET P == a.place.prologue
  IN  /\ LoopFits(s, P)
      /\ \E R : /\ Behind(R, a.place)
                /\ a.lab = Label(<<s>> \o R, Dead(P \o s.prologue), {})
                /\ b.lab = Label(R, Dead(P), {})

WhileDecidedLevel(f, a, b, E) ==
  LET P    == a.place.prologue
      dead == Dead(P)
      n    == f.blocks
  IN  \E mark, R, more :
        /\ mark.kind = "again" /\ IsText(R) /\ a.place.again = <<mark>> \o R
        /\ Own(f.body) \subseteq a.place.in
        /\ \/ mark.step = <<>> /\ Placed(f.body, a.place)
           \/ mark.step = P /\ P # <<>> /\ f.body.statements # <<>> /\ ~f.body.expects
        /\ a.lab = AccLabel(<<f.body, mark>> \o R, R, dead, {})
        /\ E[n + 1] = Label(<<Again(mark)>> \o R, dead, {})
        /\ E[n + 2] = Label(<<f.body, mark>> \o R, dead, {})
        /\ dead \subseteq more /\ E[n + 3] = Label(R, more, {}) /\ b.lab = Label(R, more, {})

BodyDoneLevel(f, a, b, E) == Entails(a.lab, E[f.blocks + 1]) /\ E[f.blocks + 3] = b.lab

ConditionLevel(c, a, b) ==
  \E Y, N, R, dead :
    /\ IsText(Y) /\ IsText(N) /\ IsText(R) /\ Clear(c, dead)
    /\ a.lab = Label(<<Branch(c, Y, N)>> \o R, dead, a.lab.pins)
    /\ b.lab = AccLabel(Y \o R, N \o R, dead, a.lab.pins)

(* The blocks of && and ||, whose value is that of temporary t. *)
JunctionBlocks(c, n, t, Y, N, R, dead, pins, E) ==
  /\ IsText(Y) /\ IsText(N) /\ IsText(R) /\ \A p \in pins : p[1] # t
  /\ E[n + 2] = Label((IF GoesOn(c) THEN Y ELSE N) \o R, dead, pins)
  /\ E[n + 3] = TempLabel(t, Y \o R, N \o R, dead, pins)

LhsDoneLevel(f, a, b, E) ==
  \E Y, N, R, dead, pins :
    LET c    == f.condition
        X    == <<Branch(c.rhs, Y, N)>> \o R
        more == pins \cup {<<f.temp, ~GoesOn(c)>>}
    IN  /\ JunctionBlocks(c, f.blocks, f.temp, Y, N, R, dead, pins, E) /\ Clear(c.rhs, dead)
        /\ a.lab = AccLabel(IF GoesOn(c) THEN X ELSE Y \o R,
                            IF GoesOn(c) THEN N \o R ELSE X, dead, more)
        /\ E[f.blocks + 1] = Label(X, dead, more)
        /\ b.lab = AccLabel(Y \o R, N \o R, dead, pins)

RhsDoneLevel(f, a, b, E) ==
  \E Y, N, R, dead, pins :
    LET c == f.condition
    IN  /\ JunctionBlocks(c, f.blocks, f.temp, Y, N, R, dead, pins, E)
        /\ a.lab = AccLabel(Y \o R, N \o R, dead, pins \cup {<<f.temp, ~GoesOn(c)>>})
        /\ b.lab = AccLabel(Y \o R, N \o R, dead, pins)

Stands(t, a, b, E) ==
  CASE t.kind \in {"assign", "declaration", "call"} -> SimpleLevel(t, a, b)
    [] t.kind = "return"       -> ReturnLevel(t, a)
    [] t.kind = "break"        -> JumpLevel(a.place.break, a, E)
    [] t.kind = "continue"     -> JumpLevel(a.place.continue, a, E)
    [] t.kind = "block"        -> BlockLevel(t, a, b)
    [] t.kind = "statements"   -> \/ ListLevel(t.statements, t.index, a, b)
                                  \/ ForListLevel(t.statements, t.index, a, b)
    [] t.kind = "for"          -> ForLevel(t, a, b)
    [] t.kind = "if"           -> IfLevel(t, a, b)
    [] t.kind = "ifDecided"    -> IfDecidedLevel(t, a, b)
    [] t.kind = "thenDone"     -> ThenDoneLevel(t, a, b, E)
    [] t.kind = "elseDone"     -> ElseDoneLevel(t, a, b, E)
    [] t.kind = "while"        -> WhileLevel(t, a, b)
    [] t.kind = "whileDecided" -> WhileDecidedLevel(t, a, b, E)
    [] t.kind = "bodyDone"     -> BodyDoneLevel(t, a, b, E)
    [] t.kind = "condition"    -> ConditionLevel(t.condition, a, b)
    [] t.kind = "lhsDone"      -> LhsDoneLevel(t, a, b, E)
    [] t.kind = "rhsDone"      -> RhsDoneLevel(t, a, b, E)

Level(t, a, b, E) ==
  /\ a.waits = Waiting(t) \cup b.waits /\ Waiting(t) \cap b.waits = {}
  /\ b.lab.pins \subseteq a.lab.pins
  /\ InPlace(a.place, E)
  /\ ~IsLoop(t) => b.place = a.place
  /\ IsLoop(t) => /\ InPlace(b.place, E) /\ b.place.prologue = t.prologue
                  /\ b.place.break = t.break /\ b.place.continue = t.continue
  /\ Stands(t, a, b, E)

(* The labels of the blocks remain when there are more. *)
Extends(E, D) ==
  IsText(D) /\ Len(E) \in Nat /\ Len(E) <= Len(D) /\ \A i \in 1 .. Len(E) : D[i] = E[i]

LEMMA ExtendsItself ==
  ASSUME NEW E, IsText(E)
  PROVE  Extends(E, E)
<1>1. Len(E) \in Nat
  BY InText DEF IsText
<1> QED BY <1>1 DEF Extends

LEMMA ExtendsInside ==
  ASSUME NEW E, NEW D, Extends(E, D), NEW i \in 1 .. Len(E)
  PROVE  i \in 1 .. Len(D) /\ D[i] = E[i]
<1>1. Len(D) \in Nat
  BY InText DEF Extends, IsText
<1> QED BY <1>1 DEF Extends

LEMMA InPlaceExtends ==
  ASSUME NEW p, NEW E, NEW D, Extends(E, D), InPlace(p, E)
  PROVE  InPlace(p, D)
<1>1. ASSUME JumpsLead(p, E) PROVE JumpsLead(p, D)
  <2>1. CASE p.break = 0 /\ p.continue = 0 /\ p.prologue = <<>>
    BY <2>1 DEF JumpsLead
  <2>2. CASE ~(p.break = 0 /\ p.continue = 0 /\ p.prologue = <<>>)
    <3>1. PICK mark, R :
            /\ mark.kind = "again" /\ mark.step = p.prologue /\ IsText(R)
            /\ p.again = <<mark>> \o R
            /\ p.break \in 1 .. Len(E) /\ E[p.break] = Label(R, Counters(prog), {})
            /\ p.continue \in 1 .. Len(E)
            /\ E[p.continue] = Label(<<Again(mark)>> \o R, Dead(p.prologue), {})
      BY <1>1, <2>2 DEF JumpsLead
    <3>2. p.break \in 1 .. Len(D) /\ D[p.break] = E[p.break]
      BY <3>1, ExtendsInside
    <3>3. p.continue \in 1 .. Len(D) /\ D[p.continue] = E[p.continue]
      BY <3>1, ExtendsInside
    <3> QED BY <3>1, <3>2, <3>3 DEF JumpsLead
  <2> QED BY <2>1, <2>2
<1> QED BY <1>1 DEF InPlace

LEMMA JunctionExtends ==
  ASSUME NEW c, NEW n, NEW t, NEW Y, NEW N, NEW R, NEW dead, NEW pins, NEW E, NEW D,
         D[n + 2] = E[n + 2], D[n + 3] = E[n + 3], JunctionBlocks(c, n, t, Y, N, R, dead, pins, E)
  PROVE  JunctionBlocks(c, n, t, Y, N, R, dead, pins, D)
BY Zenon DEF JunctionBlocks

(* Levels and chains stay right when blocks get labels. *)
LEMMA LevelExtends ==
  ASSUME NEW E, NEW D, Extends(E, D), NEW k, NEW t \in Task(Len(E), k), NEW a, NEW b,
         Level(t, a, b, E)
  PROVE  Level(t, a, b, D)
<1>1. t.kind \in NodeKinds \cup FrameKinds /\ (t.kind \in FrameKinds => t \in Frame(Len(E), k))
  BY TaskIsNodeOrFrame
<1>2. Len(E) \in Nat
  BY DEF Extends
<1>3. ASSUME t.kind \in {"lhsDone", "rhsDone", "thenDone", "elseDone", "whileDecided",
                         "bodyDone"}
      PROVE  /\ D[t.blocks + 1] = E[t.blocks + 1] /\ D[t.blocks + 2] = E[t.blocks + 2]
             /\ D[t.blocks + 3] = E[t.blocks + 3]
  <2>1. t.kind \in FrameKinds
    BY <1>3 DEF FrameKinds
  <2>2. t \in Frame(Len(E), k)
    BY <1>1, <2>1
  <2> DEFINE m == Len(E)
             n == t.blocks
  <2>3. n \in 0 .. m - 3
    BY <1>3, <2>2, FrameParts
  <2> HIDE DEF m, n
  <2>4. n + 1 \in 1 .. m /\ n + 2 \in 1 .. m /\ n + 3 \in 1 .. m
    BY <1>2, <2>3, BlockNumbers DEF m
  <2> QED BY <2>4, ExtendsInside DEF m, n
<1>4. ASSUME NEW to, JumpLevel(to, a, E) PROVE JumpLevel(to, a, D)
  BY <1>4, ExtendsInside DEF JumpLevel
<1>5. Stands(t, a, b, E)
  BY DEF Level
<1>6. Stands(t, a, b, D)
  <2>1. CASE t.kind \in {"break", "continue"}
    BY <1>4, <1>5, <2>1 DEF Stands
  <2>2. CASE t.kind = "lhsDone"
    <3>1. LhsDoneLevel(t, a, b, E)
      BY <1>5, <2>2 DEF Stands
    <3>2. LhsDoneLevel(t, a, b, D)
      <4>1. /\ D[t.blocks + 1] = E[t.blocks + 1] /\ D[t.blocks + 2] = E[t.blocks + 2]
            /\ D[t.blocks + 3] = E[t.blocks + 3]
        BY <1>3, <2>2
      <4> DEFINE c == t.condition
                 X(Y, N, R) == <<Branch(c.rhs, Y, N)>> \o R
                 pin == <<t.temp, ~GoesOn(c)>>
      <4>2. PICK Y, N, R, dead, pins :
              /\ JunctionBlocks(c, t.blocks, t.temp, Y, N, R, dead, pins, E) /\ Clear(c.rhs, dead)
              /\ a.lab = AccLabel(IF GoesOn(c) THEN X(Y, N, R) ELSE Y \o R,
                                  IF GoesOn(c) THEN N \o R ELSE X(Y, N, R), dead, pins \cup {pin})
              /\ E[t.blocks + 1] = Label(X(Y, N, R), dead, pins \cup {pin})
              /\ b.lab = AccLabel(Y \o R, N \o R, dead, pins)
        BY <3>1, Zenon DEF LhsDoneLevel
      <4>3. JunctionBlocks(c, t.blocks, t.temp, Y, N, R, dead, pins, D)
        BY <4>1, <4>2, JunctionExtends
      <4>4. D[t.blocks + 1] = Label(X(Y, N, R), dead, pins \cup {pin})
        BY <4>1, <4>2
      <4> QED BY <4>2, <4>3, <4>4, Zenon DEF LhsDoneLevel
    <3> QED BY <2>2, <3>2 DEF Stands
  <2>3. CASE t.kind = "rhsDone"
    <3>1. RhsDoneLevel(t, a, b, E)
      BY <1>5, <2>3 DEF Stands
    <3>2. RhsDoneLevel(t, a, b, D)
      <4>1. D[t.blocks + 2] = E[t.blocks + 2] /\ D[t.blocks + 3] = E[t.blocks + 3]
        BY <1>3, <2>3
      <4> QED BY <3>1, <4>1, JunctionExtends DEF RhsDoneLevel
    <3> QED BY <2>3, <3>2 DEF Stands
  <2>4. CASE t.kind = "thenDone"
    <3>1. ThenDoneLevel(t, a, b, E)
      BY <1>5, <2>4 DEF Stands
    <3>2. ThenDoneLevel(t, a, b, D)
      BY <1>3, <2>4, <3>1 DEF ThenDoneLevel
    <3> QED BY <2>4, <3>2 DEF Stands
  <2>5. CASE t.kind = "elseDone"
    <3>1. ElseDoneLevel(t, a, b, E)
      BY <1>5, <2>5 DEF Stands
    <3>2. ElseDoneLevel(t, a, b, D)
      BY <1>3, <2>5, <3>1 DEF ElseDoneLevel
    <3> QED BY <2>5, <3>2 DEF Stands
  <2>6. CASE t.kind = "whileDecided"
    <3>1. WhileDecidedLevel(t, a, b, E)
      BY <1>5, <2>6 DEF Stands
    <3>2. WhileDecidedLevel(t, a, b, D)
      BY <1>3, <2>6, <3>1 DEF WhileDecidedLevel
    <3> QED BY <2>6, <3>2 DEF Stands
  <2>7. CASE t.kind = "bodyDone"
    <3>1. BodyDoneLevel(t, a, b, E)
      BY <1>5, <2>7 DEF Stands
    <3>2. BodyDoneLevel(t, a, b, D)
      BY <1>3, <2>7, <3>1 DEF BodyDoneLevel
    <3> QED BY <2>7, <3>2 DEF Stands
  <2>8. CASE t.kind \in {"assign", "declaration", "call", "return", "block", "statements", "for",
                         "if", "ifDecided", "while", "condition"}
    BY <1>5, <2>8 DEF Stands
  <2> QED BY <1>1, <2>1, <2>2, <2>3, <2>4, <2>5, <2>6, <2>7, <2>8 DEF NodeKinds, FrameKinds
<1>7. InPlace(a.place, D) /\ (IsLoop(t) => InPlace(b.place, D))
  BY InPlaceExtends DEF Level
<1> QED BY <1>6, <1>7 DEF Level

-----------------------------------------------------------------------------
(* All tasks of the stack stand between contexts, the first one at a. *)
Chain(todo, a, E) ==
  \E K : K[1] = a /\ \A i \in 1 .. Len(todo) : Level(todo[i], K[i], K[i + 1], E)

LEMMA ChainExtends ==
  ASSUME NEW E, NEW D, Extends(E, D), NEW k, NEW todo \in Seq(Task(Len(E), k)), NEW a,
         Chain(todo, a, E)
  PROVE  Chain(todo, a, D)
<1>1. PICK K : K[1] = a /\ \A i \in 1 .. Len(todo) : Level(todo[i], K[i], K[i + 1], E)
  BY DEF Chain
<1> DEFINE T == Task(Len(E), k)
<1>2. \A i \in 1 .. Len(todo) : todo[i] \in T
  <2>1. todo \in Seq(T)
    OBVIOUS
  <2> HIDE DEF T
  <2> QED BY <2>1
<1>3. \A i \in 1 .. Len(todo) : Level(todo[i], K[i], K[i + 1], D)
  BY <1>1, <1>2, LevelExtends
<1> QED BY <1>1, <1>3 DEF Chain

(* A chain grows and shrinks at its top. *)
LEMMA ChainPush ==
  ASSUME NEW S, NEW r \in Seq(S), NEW t \in S, NEW E, NEW a, NEW b,
         Level(t, a, b, E), Chain(r, b, E)
  PROVE  Chain(<<t>> \o r, a, E)
<1>1. PICK K : K[1] = b /\ \A i \in 1 .. Len(r) : Level(r[i], K[i], K[i + 1], E)
  BY DEF Chain
<1> DEFINE q == <<t>> \o r
           L == [i \in Nat |-> IF i = 1 THEN a ELSE K[i - 1]]
<1>2. /\ Len(q) = Len(r) + 1 /\ Len(r) \in Nat /\ q[1] = t
      /\ \A i \in 2 .. Len(r) + 1 : q[i] = r[i - 1]
  OBVIOUS
<1>3. L[1] = a /\ \A i \in Nat \ {0, 1} : L[i] = K[i - 1]
  OBVIOUS
<1> HIDE DEF q, L
<1>4. L[2] = b
  <2>1. 2 \in Nat \ {0, 1} /\ 2 - 1 = 1
    OBVIOUS
  <2> QED BY <1>1, <1>3, <2>1
<1>5. ASSUME NEW i \in 1 .. Len(q) PROVE Level(q[i], L[i], L[i + 1], E)
  <2>1. CASE i = 1
    <3>1. i + 1 = 2
      BY <2>1
    <3> QED BY <1>2, <1>3, <1>4, <2>1, <3>1
  <2>2. CASE i # 1
    <3>1. /\ i \in 2 .. Len(r) + 1 /\ i - 1 \in 1 .. Len(r) /\ i \in Nat \ {0, 1}
          /\ i + 1 \in Nat \ {0, 1} /\ (i - 1) + 1 = i /\ (i + 1) - 1 = i
      BY <1>2, <2>2
    <3>2. L[i] = K[i - 1] /\ L[i + 1] = K[i] /\ q[i] = r[i - 1]
      BY <1>2, <1>3, <3>1
    <3>3. Level(r[i - 1], K[i - 1], K[(i - 1) + 1], E)
      BY <1>1, <3>1
    <3> QED BY <3>1, <3>2, <3>3
  <2> QED BY <2>1, <2>2
<1> QED BY <1>3, <1>5 DEF Chain, q

LEMMA ChainPop ==
  ASSUME NEW S, NEW r \in Seq(S), NEW t \in S, NEW E, NEW a, Chain(<<t>> \o r, a, E)
  PROVE  \E b : Level(t, a, b, E) /\ Chain(r, b, E)
<1> DEFINE q == <<t>> \o r
<1>1. PICK K : K[1] = a /\ \A i \in 1 .. Len(q) : Level(q[i], K[i], K[i + 1], E)
  BY DEF Chain
<1>2. /\ Len(q) = Len(r) + 1 /\ Len(r) \in Nat /\ q[1] = t
      /\ \A i \in 1 .. Len(r) : q[i + 1] = r[i]
  OBVIOUS
<1> HIDE DEF q
<1> DEFINE L == [i \in Nat |-> K[i + 1]]
<1>3. L[1] = K[2]
  OBVIOUS
<1>4. \A i \in Nat : L[i] = K[i + 1]
  OBVIOUS
<1> HIDE DEF L
<1>5. Level(t, a, K[2], E)
  <2>1. 1 \in 1 .. Len(q) /\ 1 + 1 = 2
    BY <1>2
  <2>2. Level(q[1], K[1], K[1 + 1], E)
    BY <1>1, <2>1
  <2> QED BY <1>1, <1>2, <2>1, <2>2
<1>6. ASSUME NEW i \in 1 .. Len(r) PROVE Level(r[i], L[i], L[i + 1], E)
  <2>1. i + 1 \in 1 .. Len(q) /\ i \in Nat /\ i + 1 \in Nat
    BY <1>2
  <2>2. Level(q[i + 1], K[i + 1], K[(i + 1) + 1], E)
    BY <1>1, <2>1
  <2>3. L[i] = K[i + 1] /\ L[i + 1] = K[(i + 1) + 1]
    BY <1>4, <2>1
  <2> QED BY <1>2, <2>2, <2>3
<1>7. Chain(r, K[2], E)
  BY <1>3, <1>6 DEF Chain
<1> QED BY <1>5, <1>7

(***************************************************************************)
(* The generator has arrived at context a.                                 *)
(***************************************************************************)
Sound(g, a, E) ==
  /\ CodeRuns(g, E, a.lab, a.waits)
  /\ g.prologue = a.place.prologue
  /\ g.break = a.place.break /\ g.continue = a.place.continue
  /\ \A p \in a.lab.pins : p[1] \in 1 .. g.temps

(* From g a handler goes to h, which still has b to reach. *)
Goes(g, h, b, E) ==
  h.aborted \/
  \E D : Extends(E, D) /\
    \/ h.todo = g.todo /\ Sound(h, b, D)
    \/ \E x, a : /\ h.todo = <<x>> \o g.todo
                 /\ Sound(h, a, D) /\ Level(x, a, b, D)
    \/ \E x, y, a, c : /\ h.todo = <<x>> \o (<<y>> \o g.todo)
                       /\ Sound(h, a, D) /\ Level(x, a, c, D) /\ Level(y, c, b, D)

-----------------------------------------------------------------------------
(***************************************************************************)
(* What the handlers do.                                                   *)
(***************************************************************************)
LEMMA NodeLevel ==
  ASSUME NEW t, t.kind \in NodeKinds \cup {"condition", "statements"}, NEW a, NEW b, NEW E
  PROVE  Level(t, a, b, E) <=>
           /\ a.waits = b.waits /\ b.place = a.place /\ b.lab.pins \subseteq a.lab.pins
           /\ InPlace(a.place, E) /\ Stands(t, a, b, E)
<1>1. Waiting(t) = {} /\ ~IsLoop(t)
  BY NodesAreNoFrames
<1>2. \A w : {} \cup w = w /\ {} \cap w = {}
  OBVIOUS
<1> QED BY <1>1, <1>2 DEF Level

(* The next context has been reached. *)
LEMMA Arrives ==
  ASSUME NEW g, NEW h, NEW a, NEW b, NEW E, NEW D, Extends(E, D), Sound(g, a, E),
         h.todo = g.todo, CodeRuns(h, D, b.lab, b.waits),
         h.prologue = b.place.prologue, h.break = b.place.break, h.continue = b.place.continue,
         g.temps \in Nat, h.temps \in Nat, g.temps <= h.temps, b.lab.pins \subseteq a.lab.pins
  PROVE  Goes(g, h, b, E)
<1>1. \A p \in b.lab.pins : p[1] \in 1 .. h.temps
  <2>1. 1 .. g.temps \subseteq 1 .. h.temps
    OBVIOUS
  <2> QED BY <2>1 DEF Sound
<1>2. Sound(h, b, D)
  BY <1>1 DEF Sound
<1> QED BY <1>2 DEF Goes

(* A node that is one instruction. *)
LEMMA OneInstruction ==
  ASSUME NEW g, GenTyped(g), NEW a, NEW b, NEW E, Sound(g, a, E), b.place = a.place,
         b.waits = a.waits, b.lab.pins \subseteq a.lab.pins,
         NEW i \in Instructions(Len(g.code), g.temps), Good(i, a.lab, b.lab, E)
  PROVE  Goes(g, Emit(g, i), b, E)
<1> DEFINE h == Emit(g, i)
<1>1. SameRest(g, h)
  BY EmitTyped
<1>2. CodeRuns(g, E, a.lab, a.waits)
  BY DEF Sound
<1>3. CodeRuns(h, E, b.lab, b.waits)
  BY <1>2, RunsEmit
<1>4. Extends(E, E)
  BY <1>2, ExtendsItself DEF CodeRuns
<1>5. g.temps \in Nat /\ g.temps <= g.temps
  BY GenFields
<1> HIDE DEF h
<1>6. Goes(g, h, b, E)
  BY <1>1, <1>3, <1>4, <1>5, Arrives DEF SameRest, Sound
<1> QED BY <1>6 DEF h

(* Nodes that become one instruction. *)
LEMMA SimpleGoes ==
  ASSUME NEW g, GenTyped(g), NEW t \in Task(Len(g.code), g.temps),
         t.kind \in {"assign", "declaration", "call", "return"},
         NEW a, NEW b, NEW E, Sound(g, a, E), Level(t, a, b, E)
  PROVE  Goes(g, Generate(g, t), b, E)
<1>1. t \in Node
  BY TaskIsNodeOrFrame DEF NodeKinds
<1>2. t.kind \in NodeKinds
  BY DEF NodeKinds
<1>3. /\ a.waits = b.waits /\ b.place = a.place /\ b.lab.pins \subseteq a.lab.pins
      /\ Stands(t, a, b, E)
  BY <1>2, NodeLevel
<1>4. CASE t.kind = "declaration"
  <2> DEFINE i == [op |-> "store", var |-> t.var, value |-> t.value]
  <2>1. t.var \in Var /\ t.value \in Integer
    BY <1>1, <1>4, NodeParts
  <2>2. i \in Instructions(Len(g.code), g.temps)
    BY <2>1 DEF Instructions
  <2>3. Generate(g, t) = Emit(g, i)
    BY <1>4 DEF Generate
  <2>4. SimpleLevel(t, a, b)
    BY <1>3, <1>4 DEF Stands
  <2>5. PICK R, dead, more :
          /\ IsText(R) /\ a.lab = Label(<<t>> \o R, dead, {}) /\ b.lab = Label(R, more, {})
          /\ dead \ {t.var} \subseteq more
    BY <1>4, <2>4 DEF SimpleLevel
  <2>6. Good(i, Label(<<t>> \o R, dead, {}), Label(R, more, {}), E)
    BY <1>4, <2>1, <2>5, GoodStore
  <2> HIDE DEF i
  <2> QED BY <1>3, <2>2, <2>3, <2>5, <2>6, OneInstruction
<1>5. CASE t.kind = "assign"
  <2> DEFINE i == Added(t)
  <2>1. t.var \in Var /\ t.by \in Int
    BY <1>1, <1>5, NodeParts
  <2>2. i \in Instructions(Len(g.code), g.temps)
    BY <2>1 DEF Instructions, Added
  <2>3. Generate(g, t) = Emit(g, i)
    BY <1>5 DEF Generate
  <2>4. SimpleLevel(t, a, b)
    BY <1>3, <1>5 DEF Stands
  <2>5. PICK R, dead, more :
          /\ IsText(R) /\ a.lab = Label(<<t>> \o R, dead, {}) /\ b.lab = Label(R, more, {})
          /\ dead \subseteq more
    BY <1>5, <2>4 DEF SimpleLevel
  <2>6. Good(i, Label(<<t>> \o R, dead, {}), Label(R, more, {}), E)
    BY <1>5, <2>1, <2>5, GoodAdd
  <2> HIDE DEF i
  <2> QED BY <1>3, <2>2, <2>3, <2>5, <2>6, OneInstruction
<1>6. CASE t.kind = "call"
  <2> DEFINE i == [op |-> "call", id |-> t.id, var |-> t.var]
  <2>1. t.var \in Var /\ t.id \in STRING
    BY <1>1, <1>6, NodeParts
  <2>2. i \in Instructions(Len(g.code), g.temps)
    BY <2>1 DEF Instructions
  <2>3. Generate(g, t) = Emit(g, i)
    BY <1>6 DEF Generate
  <2>4. SimpleLevel(t, a, b)
    BY <1>3, <1>6 DEF Stands
  <2>5. PICK R, dead, more :
          /\ IsText(R) /\ a.lab = Label(<<t>> \o R, dead, {}) /\ b.lab = Label(R, more, {})
          /\ dead \subseteq more /\ t.var \notin dead
    BY <1>6, <2>4 DEF SimpleLevel
  <2>6. Good(i, Label(<<t>> \o R, dead, {}), Label(R, more, {}), E)
    BY <1>6, <2>1, <2>5, GoodCall
  <2> HIDE DEF i
  <2> QED BY <1>3, <2>2, <2>3, <2>5, <2>6, OneInstruction
<1>7. CASE t.kind = "return"
  <2> DEFINE i == [op |-> "ret", var |-> t.var]
  <2>1. t.var \in Var \cup {NoVar}
    BY <1>1, <1>7, NodeParts
  <2>2. i \in Instructions(Len(g.code), g.temps)
    BY <2>1 DEF Instructions
  <2>3. Generate(g, t) = Emit(g, i)
    BY <1>7 DEF Generate
  <2>4. ReturnLevel(t, a)
    BY <1>3, <1>7 DEF Stands
  <2>5. PICK R : IsText(R) /\ a.lab = Label(<<t>> \o R, Counters(prog), {})
    BY <2>4 DEF ReturnLevel
  <2>6. Good(i, Label(<<t>> \o R, Counters(prog), {}), b.lab, E)
    BY <1>7, <2>1, <2>4, <2>5, GoodReturn DEF ReturnLevel
  <2> HIDE DEF i
  <2> QED BY <1>3, <2>2, <2>3, <2>5, <2>6, OneInstruction
<1> QED BY <1>4, <1>5, <1>6, <1>7

(* break and continue. *)
LEMMA JumpGoes ==
  ASSUME NEW g, GenTyped(g), NEW t \in Task(Len(g.code), g.temps), t.kind \in Jumps,
         NEW a, NEW b, NEW E, Sound(g, a, E), Level(t, a, b, E)
  PROVE  Goes(g, Generate(g, t), b, E)
<1>1. t.kind \in NodeKinds
  BY DEF NodeKinds, Jumps
<1>2. /\ a.waits = b.waits /\ b.place = a.place /\ b.lab.pins \subseteq a.lab.pins
      /\ Stands(t, a, b, E)
  BY <1>1, NodeLevel
<1> DEFINE to == IF t.kind = "break" THEN g.break ELSE g.continue
<1>3. Generate(g, t) = GenerateJump(g, to)
  BY DEF Generate, Jumps
<1>4. JumpLevel(to, a, E)
  BY <1>2 DEF Stands, Sound, Jumps
<1> HIDE DEF to
<1>5. CASE to = 0
  <2>1. Generate(g, t).aborted = TRUE
    <3>1. Generate(g, t) = [g EXCEPT !.aborted = TRUE]
      BY <1>3, <1>5 DEF GenerateJump
    <3>2. [g EXCEPT !.aborted = TRUE].aborted = TRUE
      BY GenFields
    <3> QED BY <3>1, <3>2
  <2> QED BY <2>1 DEF Goes
<1>6. CASE to # 0
  <2>1. to \in 1 .. Len(E) /\ Entails(a.lab, E[to])
    BY <1>4, <1>6 DEF JumpLevel
  <2>2. Len(E) = Len(g.code)
    BY DEF Sound, CodeRuns
  <2>3. Br(to) \in Instructions(Len(g.code), g.temps)
    BY <2>1, <2>2 DEF Instructions, Br
  <2>4. Good(Br(to), a.lab, b.lab, E)
    BY <2>1, GoodBr
  <2>5. Generate(g, t) = Emit(g, Br(to))
    BY <1>3, <1>6 DEF GenerateJump
  <2> QED BY <1>2, <2>3, <2>4, <2>5, OneInstruction
<1> QED BY <1>5, <1>6

(* One task is pushed that stands between what has been reached and b. *)
LEMMA PushesOne ==
  ASSUME NEW g, GenTyped(g), NEW x \in Task(Len(g.code), g.temps),
         x.kind \in NodeKinds \cup {"condition", "statements"},
         NEW a, NEW b, NEW E, Sound(g, a, E), InPlace(a.place, E),
         b.place = a.place, b.waits = a.waits,
         NEW l, Entails(a.lab, l), l.pins \subseteq a.lab.pins, b.lab.pins \subseteq l.pins,
         Stands(x, [lab |-> l, waits |-> a.waits, place |-> a.place], b, E)
  PROVE  Goes(g, [g EXCEPT !.todo = <<x>> \o @], b, E)
<1> DEFINE h == [g EXCEPT !.todo = <<x>> \o @]
           c == [lab |-> l, waits |-> a.waits, place |-> a.place]
<1>1. /\ h.todo = <<x>> \o g.todo
      /\ h.code = g.code /\ h.insert = g.insert /\ h.prologue = g.prologue
      /\ h.break = g.break /\ h.continue = g.continue /\ h.temps = g.temps
  BY OneTyped
<1>2. c.lab = l /\ c.waits = a.waits /\ c.place = a.place
  OBVIOUS
<1> HIDE DEF h
<1>3. Level(x, c, b, E)
  <2>1. Stands(x, c, b, E)
    OBVIOUS
  <2> HIDE DEF c
  <2> QED BY <1>2, <2>1, NodeLevel
<1> HIDE DEF c
<1>4. CodeRuns(g, E, a.lab, a.waits)
  BY DEF Sound
<1>5. CodeRuns(h, E, l, a.waits)
  BY <1>1, <1>4, RunsOn, RunsSame
<1>6. Sound(h, c, E)
  BY <1>1, <1>2, <1>5 DEF Sound
<1>7. Extends(E, E)
  BY <1>4, ExtendsItself DEF CodeRuns
<1>8. Goes(g, h, b, E)
  BY <1>1, <1>3, <1>6, <1>7 DEF Goes
<1> QED BY <1>8 DEF h

(* A block: its statements come next. *)
LEMMA BlockGoes ==
  ASSUME NEW g, GenTyped(g), NEW t \in Task(Len(g.code), g.temps), t.kind = "block",
         NEW a, NEW b, NEW E, Sound(g, a, E), Level(t, a, b, E)
  PROVE  Goes(g, Generate(g, t), b, E)
<1>1. t \in Blocks
  <2>1. t \in Node
    BY TaskIsNodeOrFrame DEF NodeKinds
  <2> QED BY <2>1, NodeParts
<1>2. /\ t.statements \in Seq(Statement) /\ t.expects \in BOOLEAN
      /\ Own(t) = IF t.expects THEN {} ELSE Upto(t.statements, 1)
      /\ FirstTerminator(t) # 0 <=> HasJump(t.statements, 1)
  BY <1>1, BlockParts
<1>3. /\ a.waits = b.waits /\ b.place = a.place /\ b.lab.pins \subseteq a.lab.pins
      /\ InPlace(a.place, E) /\ Stands(t, a, b, E)
  BY NodeLevel DEF NodeKinds
<1> DEFINE P == a.place.prologue
<1>4. BlockLevel(t, a, b)
  BY <1>3 DEF Stands
<1>5. PICK R : /\ Behind(R, a.place)
               /\ Entails(a.lab, Label(Opened(t) \o R, Dead(P), {}))
               /\ \/ b.lab = Label(R, Dead(P), {}) /\ Placed(t, a.place)
                  \/ t.statements # <<>> /\ ~t.expects /\ AtEnd(R, P, b.lab)
  BY <1>4 DEF BlockLevel
<1>6. Generate(g, t) = GenerateBlock(g, t)
  BY DEF Generate
<1>7. IsText(R)
  BY <1>5 DEF Behind
<1>8. CASE t.expects \/ t.statements = <<>>
  <2>1. Generate(g, t) = g
    BY <1>6, <1>8 DEF GenerateBlock
  <2>2. Opened(t) \o R = R
    BY <1>7, <1>8, InFront DEF Opened
  <2>3. Entails(a.lab, b.lab)
    BY <1>5, <1>8, <2>2
  <2>4. CodeRuns(g, E, a.lab, a.waits)
    BY DEF Sound
  <2>5. CodeRuns(g, E, b.lab, b.waits)
    BY <1>3, <2>3, <2>4, RunsOn
  <2>6. Extends(E, E)
    BY <2>4, ExtendsItself DEF CodeRuns
  <2>7. g.temps \in Nat /\ g.temps <= g.temps
    BY GenFields
  <2>8. /\ g.prologue = b.place.prologue /\ g.break = b.place.break
        /\ g.continue = b.place.continue
    BY <1>3 DEF Sound
  <2>9. Goes(g, g, b, E)
    BY <1>3, <2>5, <2>6, <2>7, <2>8, Arrives
  <2> QED BY <2>1, <2>9
<1>9. CASE ~t.expects /\ t.statements # <<>>
  <2> DEFINE x == [kind |-> "statements", statements |-> t.statements, index |-> 1]
             l == Label(From(t.statements, 1) \o R, Dead(P), {})
             c == [lab |-> l, waits |-> a.waits, place |-> a.place]
  <2>1. Generate(g, t) = [g EXCEPT !.todo = <<x>> \o @]
    BY <1>6, <1>9 DEF GenerateBlock
  <2>2. From(t.statements, 1) = t.statements
    <3>1. 1 \in Nat \ {0}
      OBVIOUS
    <3> QED BY <1>2, <3>1, FromParts
  <2>3. Opened(t) = t.statements
    BY <1>9 DEF Opened
  <2>4. Entails(a.lab, l)
    BY <1>5, <2>2, <2>3
  <2>5. x \in Task(Len(g.code), g.temps)
    <3>1. x \in [kind : {"statements"}, statements : Seq(Statement), index : Nat \ {0}]
      BY <1>2
    <3> HIDE DEF x
    <3> QED BY <3>1 DEF Task, Frame
  <2>6. l.pins = {}
    BY LabelFields
  <2>7. b.lab.pins = {}
    <3> HIDE DEF P, x, l, c
    <3>1. CASE b.lab = Label(R, Dead(P), {})
      BY <3>1, LabelFields
    <3>2. CASE AtEnd(R, P, b.lab)
      <4>1. PICK mark, Q : b.lab = Label(<<Again(mark)>> \o Q, Dead(P), {})
        BY <3>2 DEF AtEnd
      <4> QED BY <4>1, LabelFields
    <3> QED BY <1>5, <3>1, <3>2 DEF P
  <2>8. c.lab = l /\ c.place = a.place
    OBVIOUS
  <2>9. x.kind = "statements" /\ x.statements = t.statements /\ x.index = 1
    OBVIOUS
  <2>10. Own(t) = Upto(t.statements, 1) /\ Own(t) \subseteq a.place.in
    BY <1>2, <1>4, <1>9 DEF BlockLevel
  <2>11. Placed(t, a.place) => P = <<>> \/ HasJump(t.statements, 1)
    BY <1>2, <1>9 DEF Placed, AddsNoStep
  <2> HIDE DEF x, c
  <2>12. ListLevel(t.statements, 1, c, b)
    BY <1>5, <2>8, <2>10, <2>11 DEF ListLevel
  <2>13. Stands(x, c, b, E)
    BY <2>9, <2>12 DEF Stands
  <2> HIDE DEF l
  <2>14. Goes(g, [g EXCEPT !.todo = <<x>> \o @], b, E)
    <3>1. x.kind \in NodeKinds \cup {"condition", "statements"}
      BY <2>9
    <3>2. l.pins \subseteq a.lab.pins /\ b.lab.pins \subseteq l.pins
      BY <2>6, <2>7
    <3> QED BY <1>3, <2>4, <2>5, <2>13, <3>1, <3>2, PushesOne DEF c
  <2> QED BY <2>1, <2>14
<1> QED BY <1>2, <1>8, <1>9

-----------------------------------------------------------------------------
(* One task is pushed. *)
LEMMA PushesTop ==
  ASSUME NEW g, GenTyped(g), NEW x \in Task(Len(g.code), g.temps),
         NEW g0, g.todo = g0.todo, NEW E, NEW D, Extends(E, D),
         NEW a, NEW b, Sound(g, a, D), Level(x, a, b, D)
  PROVE  Goes(g0, [g EXCEPT !.todo = <<x>> \o @], b, E)
<1> DEFINE h == [g EXCEPT !.todo = <<x>> \o @]
<1>1. /\ h.todo = <<x>> \o g.todo
      /\ h.code = g.code /\ h.insert = g.insert /\ h.prologue = g.prologue
      /\ h.break = g.break /\ h.continue = g.continue /\ h.temps = g.temps
  BY OneTyped
<1> HIDE DEF h
<1>2. CodeRuns(h, D, a.lab, a.waits)
  BY <1>1, RunsSame DEF Sound
<1>3. Sound(h, a, D)
  BY <1>1, <1>2 DEF Sound
<1>4. h.todo = <<x>> \o g0.todo
  BY <1>1
<1>5. Goes(g0, h, b, E)
  BY <1>3, <1>4 DEF Goes
<1> QED BY <1>5 DEF h

(* Two tasks are pushed. *)
LEMMA PushesTwo ==
  ASSUME NEW g, GenTyped(g), NEW x \in Task(Len(g.code), g.temps),
         NEW y \in Task(Len(g.code), g.temps),
         NEW g0, g.todo = g0.todo, NEW E, NEW D, Extends(E, D),
         NEW a, NEW b, NEW c, Sound(g, a, D), Level(x, a, c, D), Level(y, c, b, D)
  PROVE  Goes(g0, GenerateThen(g, x, y), b, E)
<1> DEFINE h == GenerateThen(g, x, y)
<1>1. /\ h.todo = <<x>> \o (<<y>> \o g.todo)
      /\ h.code = g.code /\ h.insert = g.insert /\ h.prologue = g.prologue
      /\ h.break = g.break /\ h.continue = g.continue /\ h.temps = g.temps
  BY ThenTyped
<1> HIDE DEF h
<1>2. CodeRuns(h, D, a.lab, a.waits)
  BY <1>1, RunsSame DEF Sound
<1>3. Sound(h, a, D)
  BY <1>1, <1>2 DEF Sound
<1>4. h.todo = <<x>> \o (<<y>> \o g0.todo)
  BY <1>1
<1>5. Goes(g0, h, b, E)
  BY <1>3, <1>4 DEF Goes
<1> QED BY <1>5 DEF h

(* Loops in a region have no prologue: those of for loops are not in it. *)
LEMMA RegionLoops ==
  ASSUME prog \in Programs, NEW S, NEW P, Region(S, P), NEW s \in S, s.kind = "while"
  PROVE  s.prologue = <<>>
<1>1. Parsed(prog)
  BY ProgramsAssumption
<1>2. CASE P = <<>> /\ S = Direct(prog) \cup {Return(NoVar)}
  <2>1. Return(NoVar).kind = "return"
    BY DEF Return
  <2>2. s \in Direct(prog)
    BY <1>2, <2>1
  <2> QED BY <1>1, <2>2 DEF Parsed
<1>3. CASE \E f \in ForLoopsIn(prog) : \E q \in Blocks :
             P = <<StepOf(f)>> /\ S = Direct(q) /\ Inside(q, f.body)
  <2>1. PICK f \in ForLoopsIn(prog) : \E q \in Blocks : S = Direct(q) /\ Inside(q, f.body)
    BY <1>3
  <2>2. s \in Direct(f.body)
    BY <2>1 DEF Inside
  <2> QED BY <1>1, <2>2 DEF Parsed
<1> QED BY <1>2, <1>3 DEF Region

(* No prologue, no code. *)
LEMMA NoPrologue ==
  ASSUME NEW g, GenTyped(g), g.prologue = <<>>
  PROVE  GeneratePrologue(g).code = g.code
<1> DEFINE a == [i \in DOMAIN g.prologue |-> Added(g.prologue[i])]
           q == g.code[g.insert]
           c == [g.code EXCEPT ![g.insert] = @ \o a]
<1>1. GeneratePrologue(g).code = c
  <2>1. GeneratePrologue(g) = [g EXCEPT !.code = c]
    BY DEF GeneratePrologue
  <2>2. \A x : [g EXCEPT !.code = x].code = x
    BY GenFields
  <2> HIDE DEF c
  <2> QED BY <2>1, <2>2
<1>2. a = <<>>
  <2>1. DOMAIN g.prologue = {}
    OBVIOUS
  <2> QED BY <2>1
<1>3. g.code \in Seq(Seq(Instructions(Len(g.code), g.temps))) /\ g.insert \in 1 .. Len(g.code)
  BY GenFields
<1>4. q \o a = q
  <2>1. IsText(q)
    BY <1>3 DEF IsText
  <2> HIDE DEF a, q
  <2> QED BY <1>2, <2>1, EmptyBehind
<1>5. c = [g.code EXCEPT ![g.insert] = q \o a]
  OBVIOUS
<1>6. c = [g.code EXCEPT ![g.insert] = q]
  BY <1>4, <1>5
<1>7. [g.code EXCEPT ![g.insert] = q] = g.code
  BY <1>3
<1> HIDE DEF c
<1> QED BY <1>1, <1>6, <1>7

(* A prologue of one step is that step. *)
LEMMA OneStepPrologue ==
  ASSUME NEW g, GenTyped(g), NEW s \in Assignments, g.prologue = <<s>>
  PROVE  /\ GeneratePrologue(g).code = Emit(g, Added(s)).code
         /\ Added(s) \in Instructions(Len(g.code), g.temps)
<1> DEFINE a == [i \in DOMAIN g.prologue |-> Added(g.prologue[i])]
           q == g.code[g.insert]
           c == [g.code EXCEPT ![g.insert] = @ \o a]
           I == Instructions(Len(g.code), g.temps)
<1>1. GeneratePrologue(g).code = c
  <2>1. GeneratePrologue(g) = [g EXCEPT !.code = c]
    BY DEF GeneratePrologue
  <2>2. \A x : [g EXCEPT !.code = x].code = x
    BY GenFields
  <2> HIDE DEF c
  <2> QED BY <2>1, <2>2
<1>2. Added(s) \in I
  BY DEF Assignments, Added, Instructions
<1>3. a = <<Added(s)>>
  <2>1. DOMAIN g.prologue = 1 .. 1 /\ g.prologue[1] = s
    OBVIOUS
  <2>2. a = [i \in 1 .. 1 |-> Added(s)]
    BY <2>1
  <2> QED BY <2>2
<1>4. g.code \in Seq(Seq(I)) /\ g.insert \in 1 .. Len(g.code)
  BY GenFields
<1>5. q \in Seq(I)
  BY <1>4
<1>6. q \o <<Added(s)>> = Append(q, Added(s))
  <2> DEFINE x == Added(s)
  <2> HIDE DEF q, I, x
  <2> QED BY <1>2, <1>5 DEF x
<1>7. c = [g.code EXCEPT ![g.insert] = q \o a]
  OBVIOUS
<1>8. Emit(g, Added(s)).code = [g.code EXCEPT ![g.insert] = Append(q, Added(s))]
  BY <1>2, EmitTyped
<1> HIDE DEF c, a
<1>9. c = [g.code EXCEPT ![g.insert] = Append(q, Added(s))]
  BY <1>3, <1>6, <1>7
<1> QED BY <1>1, <1>2, <1>8, <1>9

(* What is arrived at behind the prologue. *)
LEMMA PrologueRuns ==
  ASSUME NEW g, GenTyped(g), NEW E, NEW k, NEW waits, CodeRuns(g, E, k, waits), NEW l,
         \/ g.prologue = <<>> /\ Entails(k, l)
         \/ \E s \in Assignments : g.prologue = <<s>> /\ Good(Added(s), k, l, E)
  PROVE  CodeRuns(GeneratePrologue(g), E, l, waits)
<1> DEFINE h == GeneratePrologue(g)
<1>1. h.insert = g.insert
  BY PrologueTyped
<1>2. CASE g.prologue = <<>> /\ Entails(k, l)
  <2>1. h.code = g.code
    BY <1>2, NoPrologue
  <2> HIDE DEF h
  <2>2. CodeRuns(h, E, l, waits)
    BY <1>1, <1>2, <2>1, RunsOn, RunsSame
  <2> QED BY <2>2 DEF h
<1>3. CASE \E s \in Assignments : g.prologue = <<s>> /\ Good(Added(s), k, l, E)
  <2>1. PICK s \in Assignments : g.prologue = <<s>> /\ Good(Added(s), k, l, E)
    BY <1>3
  <2> DEFINE i == Added(s)
             f == Emit(g, i)
  <2>2. h.code = f.code /\ i \in Instructions(Len(g.code), g.temps)
    BY <2>1, OneStepPrologue
  <2>3. f.insert = g.insert
    BY <2>2, EmitTyped
  <2>4. CodeRuns(f, E, l, waits)
    BY <2>1, <2>2, RunsEmit
  <2> HIDE DEF f, h
  <2>5. CodeRuns(h, E, l, waits)
    BY <1>1, <2>2, <2>3, <2>4, RunsSame
  <2> QED BY <2>5 DEF h
<1> QED BY <1>2, <1>3

(* Two elements, one after the other. *)
LEMMA AppendOne ==
  ASSUME NEW a, NEW b
  PROVE  Append(<<a>>, b) = <<a, b>>
<1> DEFINE S == {a, b}
           A == <<a>>
           B == Append(A, b)
           C == <<a, b>>
           n == Len(A)
<1>1. A \in Seq(S) /\ n = Len(A) /\ b \in S /\ A[1] = a
  OBVIOUS
<1>2. n = 1
  OBVIOUS
<1>3. C \in Seq(S) /\ Len(C) = 2 /\ C[1] = a /\ C[2] = b
  OBVIOUS
<1>4. Len(C) = n + 1 
  BY <1>2
<1> HIDE DEF A, S, n, C
<1>5. /\ Append(A, b) \in Seq(S) /\ Len(Append(A, b)) = n + 1
      /\ Append(A, b)[n + 1] = b
      /\ \A i \in 1 .. n : Append(A, b)[i] = A[i]
  BY <1>1
<1> HIDE DEF B
<1>6. \A i \in 1 .. Len(B) : B[i] = C[i]
  <2>1. \A i \in 1 .. n + 1 : i = 1 \/ i = n + 1
    BY <1>2
  <2>2. B[1] = a /\ B[2] = b /\ Len(B) = n + 1
    BY <1>1, <1>2, <1>5 DEF B
  <2> QED BY <1>2, <1>3, <2>1, <2>2
<1>7. B = C
  BY <1>3, <1>4, <1>5, <1>6, SameSequence DEF B
<1> QED BY <1>7 DEF A, B, C

(* From a mark the text goes on to the loop, with a step or without. *)
LEMMA MarkEntails ==
  ASSUME NEW mark, mark.kind = "again", NEW Q, IsText(Q), NEW dead, NEW pins
  PROVE  /\ mark.step = <<>> =>
              Entails(Label(<<mark>> \o Q, dead, pins), Label(<<Again(mark)>> \o Q, dead, pins))
         /\ \A s : mark.step = <<s>> =>
              Entails(Label(<<mark>> \o Q, dead, pins),
                      Label(<<s>> \o (<<Again(mark)>> \o Q), dead, pins))
<1> DEFINE L == Again(mark)
           U == Append(mark.step, L) \o Q
<1>1. ~HasEffect(mark)
  BY DEF HasEffect
<1>2. \A e \in Envs : Unfold(mark, Q, e) = U /\ After(mark, e) = e
  BY DEF Unfold, After, Again
<1> HIDE DEF U
<1>3. Entails(Label(<<mark>> \o Q, dead, pins), Label(U, dead, pins))
  BY <1>1, <1>2, EntailsStep
<1> HIDE DEF L
<1>4. ASSUME mark.step = <<>> PROVE U = <<L>> \o Q
  <2>1. Append(<<>>, L) = <<L>>
    OBVIOUS
  <2> QED BY <1>4, <2>1 DEF U
<1>5. ASSUME NEW s, mark.step = <<s>> PROVE U = <<s>> \o (<<L>> \o Q)
  <2>1. Append(<<s>>, L) = <<s, L>>
    BY AppendOne
  <2>2. <<s, L>> \o Q = <<s>> \o (<<L>> \o Q)
    BY TwoInFront
  <2> QED BY <1>5, <2>1, <2>2 DEF U
<1> QED BY <1>3, <1>4, <1>5 DEF L

(* Statements are no marks. *)
LEMMA StatementsBehind ==
  ASSUME NEW q \in Seq(Statement), NEW i \in Nat \ {0}, NEW R, NEW p, Behind(R, p)
  PROVE  Behind(From(q, i) \o R, p)
<1>1. From(q, i) \in Seq(Statement)
  BY DEF From
<1> DEFINE F == From(q, i)
<1>2. IsText(F)
  BY <1>1 DEF IsText
<1> HIDE DEF F
<1>3. \A j \in 1 .. Len(F) : F[j] \in Statement
  BY <1>1 DEF F
<1>4. \A j \in 1 .. Len(F) : F[j].kind # "again"
  BY <1>3, StatementParts DEF NodeKinds
<1>5. IsText(R) /\ FromAgain(R) = p.again
  BY DEF Behind
<1>6. Behind(F \o R, p)
  BY <1>2, <1>4, <1>5, ConcatText, FromAgainBehind DEF Behind
<1> QED BY <1>6 DEF F

-----------------------------------------------------------------------------
(* Past the last statement of a block. *)
LEMMA ListEnds ==
  ASSUME prog \in Programs, NEW g, GenTyped(g), NEW q \in Seq(Statement), NEW i \in Nat \ {0},
         i > Len(q), NEW a, NEW b, NEW E, Sound(g, a, E), InPlace(a.place, E),
         b.place = a.place, b.waits = a.waits, b.lab.pins \subseteq a.lab.pins,
         ListLevel(q, i, a, b)
  PROVE  Goes(g, GeneratePrologue(g), b, E)
<1> DEFINE P == a.place.prologue
           h == GeneratePrologue(g)
<1>1. PICK R : /\ IsText(R) /\ a.lab = Label(From(q, i) \o R, Dead(P), {})
               /\ \/ b.lab = Label(R, Dead(P), {}) /\ (P = <<>> \/ HasJump(q, i))
                  \/ AtEnd(R, P, b.lab)
  BY DEF ListLevel, Behind
<1>2. a.lab = Label(R, Dead(P), {})
  <2>1. From(q, i) = <<>> /\ <<>> \o R = R
    BY <1>1, FromParts, InFront
  <2> QED BY <1>1, <2>1
<1>3. ~HasJump(q, i)
  <2>1. Len(q) \in Nat
    OBVIOUS
  <2> QED BY <2>1 DEF HasJump
<1>4. g.prologue = P /\ CodeRuns(g, E, a.lab, a.waits)
  BY DEF Sound
<1>5. Region(a.place.in, P)
  BY DEF InPlace
<1> HIDE DEF P
<1>6. \/ P = <<>> /\ Entails(a.lab, b.lab)
      \/ \E s \in Assignments : P = <<s>> /\ Good(Added(s), a.lab, b.lab, E)
  <2>1. CASE AtEnd(R, P, b.lab)
    <3>1. PICK mark, Q :
            /\ mark.kind = "again" /\ mark.step = P /\ P # <<>> /\ IsText(Q) /\ R = <<mark>> \o Q
            /\ b.lab = Label(<<Again(mark)>> \o Q, Dead(P), {})
      BY <2>1 DEF AtEnd
    <3>2. PICK s \in Assignments : P = <<s>> /\ s.kind = "assign" /\ s.var \in Var
      BY <1>5, <3>1, RegionSteps
    <3>3. s.by \in Int
      BY DEF Assignments
    <3> DEFINE U == <<Again(mark)>> \o Q
    <3>4. IsText(U)
      BY <3>1, InFront
    <3>5. Entails(Label(<<mark>> \o Q, Dead(P), {}), Label(<<s>> \o U, Dead(P), {}))
      BY <3>1, <3>2, MarkEntails
    <3> HIDE DEF U
    <3>6. Good(Added(s), Label(<<s>> \o U, Dead(P), {}), Label(U, Dead(P), {}), E)
      BY <3>2, <3>3, <3>4, GoodAdd
    <3>7. Good(Added(s), a.lab, b.lab, E)
      BY <1>2, <3>1, <3>5, <3>6, GoodBehind DEF U
    <3> QED BY <3>2, <3>7
  <2>2. CASE ~AtEnd(R, P, b.lab)
    <3>1. P = <<>> /\ b.lab = a.lab
      BY <1>1, <1>2, <1>3, <2>2
    <3> QED BY <3>1, EntailsItself
  <2> QED BY <2>1, <2>2
<1>7. SameRest(g, h)
  BY PrologueTyped
<1>8. CodeRuns(h, E, b.lab, a.waits)
  BY <1>4, <1>6, PrologueRuns
<1>9. Extends(E, E) /\ g.temps \in Nat /\ g.temps <= g.temps
  BY <1>4, GenFields, ExtendsItself DEF CodeRuns
<1>10. /\ g.prologue = b.place.prologue /\ g.break = b.place.break
       /\ g.continue = b.place.continue
  BY DEF Sound
<1> HIDE DEF h
<1>11. Goes(g, h, b, E)
  BY <1>7, <1>8, <1>9, <1>10, Arrives DEF SameRest
<1> QED BY <1>11 DEF h

(***************************************************************************)
(* A terminator, and what is arrived at behind the prologue before it: a   *)
(* step too many, whose counter is dead outside of the loop; or the step   *)
(* of the iteration that continue ends.                                    *)
(***************************************************************************)
LEMMA TerminatorStands ==
  ASSUME prog \in Programs, StepsOncePerIteration, NEW p, NEW E, InPlace(p, E),
         NEW s \in p.in, s.kind \in Terminators, NEW R, Behind(R, p), NEW b
  PROVE  LET k == Label(<<s>> \o R, Dead(p.prologue), {})
         IN  \E l : /\ l.pins = {}
                    /\ \/ p.prologue = <<>> /\ Entails(k, l)
                       \/ \E st \in Assignments : p.prologue = <<st>> /\ Good(Added(st), k, l, E)
                    /\ \A w : Stands(s, [lab |-> l, waits |-> w, place |-> p], b, E)
<1> DEFINE P == p.prologue
           C == Counters(prog)
           k == Label(<<s>> \o R, Dead(P), {})
           c == Label(<<s>> \o R, C, {})
<1>1. Region(p.in, P) /\ IsText(R) /\ FromAgain(R) = p.again
  BY DEF InPlace, Behind
<1>2. s.kind = "return" => s.var \notin C
  BY <1>1, RegionParts
<1>3. \/ P = <<>> /\ Dead(P) = C
      \/ \E st \in Assignments : /\ P = <<st>> /\ st.kind = "assign" /\ st.var \in Var
                                 /\ Dead(P) \cup {st.var} = C
  BY <1>1, RegionSteps
<1>4. c.pins = {}
  BY LabelFields
<1>5. \/ P = <<>> /\ Entails(k, c)
      \/ \E st \in Assignments : P = <<st>> /\ Good(Added(st), k, c, E)
  <2> DEFINE T == <<s>> \o R
  <2> HIDE DEF T
  <2>1. k = Label(T, Dead(P), {}) /\ c = Label(T, C, {})
    BY DEF T
  <2> HIDE DEF k, c, C, P
  <2>2. CASE P = <<>> /\ Dead(P) = C
    BY <2>1, <2>2, EntailsItself
  <2>3. CASE \E st \in Assignments : P = <<st>> /\ st.var \in Var /\ Dead(P) \cup {st.var} = C
    <3>1. PICK st \in Assignments : P = <<st>> /\ st.var \in Var /\ Dead(P) \cup {st.var} = C
      BY <2>3
    <3>2. Good(Added(st), Label(T, Dead(P), {}), Label(T, Dead(P) \cup {st.var}, {}), E)
      BY <3>1, GoodExtraAdd
    <3> QED BY <2>1, <3>1, <3>2
  <2> QED BY <1>3, <2>2, <2>3
<1>6. CASE s.kind = "return"
  <2>1. ASSUME NEW w PROVE Stands(s, [lab |-> c, waits |-> w, place |-> p], b, E)
    <3> DEFINE x == [lab |-> c, waits |-> w, place |-> p]
    <3>1. x.lab = Label(<<s>> \o R, C, {})
      OBVIOUS
    <3> HIDE DEF x
    <3>2. ReturnLevel(s, x)
      BY <1>1, <1>2, <1>6, <3>1 DEF ReturnLevel
    <3>3. Stands(s, x, b, E)
      BY <1>6, <3>2 DEF Stands
    <3> QED BY <3>3 DEF x
  <2> HIDE DEF c, k
  <2> QED BY <1>4, <1>5, <2>1 DEF k, c
<1>7. ASSUME s.kind \in Jumps PROVE JumpsLead(p, E)
  BY <1>7 DEF InPlace
<1>8. CASE s.kind = "break"
  <2>1. JumpsLead(p, E)
    BY <1>7, <1>8 DEF Jumps
  <2>2. p.break # 0 => p.break \in 1 .. Len(E) /\ Entails(c, E[p.break])
    <3>1. CASE p.break = 0
      BY <3>1
    <3>2. CASE p.break # 0
      <4>1. PICK mark, Q :
              /\ mark.kind = "again" /\ IsText(Q) /\ p.again = <<mark>> \o Q
              /\ p.break \in 1 .. Len(E) /\ E[p.break] = Label(Q, C, {})
        BY <2>1, <3>2 DEF JumpsLead
      <4>2. FromAgain(R) = <<mark>> \o Q
        BY <1>1, <4>1
      <4> DEFINE M == <<mark>> \o Q
      <4>3. SubSeq(M, 2, Len(M)) = Q
        BY <4>1, FromMark
      <4> HIDE DEF M
      <4>4. \A e \in Envs : Unfold(s, R, e) = Q /\ After(s, e) = e
        BY <1>8, <4>2, <4>3 DEF Unfold, After, M
      <4>5. ~HasEffect(s)
        BY <1>8 DEF HasEffect
      <4>6. Entails(Label(<<s>> \o R, C, {}), Label(Q, C, {}))
        BY <1>1, <4>4, <4>5, EntailsStep
      <4> QED BY <4>1, <4>6
    <3> QED BY <3>1, <3>2
  <2>3. ASSUME NEW w PROVE Stands(s, [lab |-> c, waits |-> w, place |-> p], b, E)
    <3> DEFINE x == [lab |-> c, waits |-> w, place |-> p]
    <3>1. x.lab = c /\ x.place = p
      OBVIOUS
    <3> HIDE DEF x, c
    <3>2. JumpLevel(x.place.break, x, E)
      BY <2>2, <3>1 DEF JumpLevel
    <3>3. Stands(s, x, b, E)
      BY <1>8, <3>2 DEF Stands
    <3> QED BY <3>3 DEF x
  <2> HIDE DEF c, k
  <2> QED BY <1>4, <1>5, <2>3 DEF k, c
<1>9. CASE s.kind = "continue"
  <2>1. JumpsLead(p, E)
    BY <1>7, <1>9 DEF Jumps
  <2>2. CASE p.continue = 0 /\ P = <<>>
    <3>1. ASSUME NEW w PROVE Stands(s, [lab |-> c, waits |-> w, place |-> p], b, E)
      <4> DEFINE x == [lab |-> c, waits |-> w, place |-> p]
      <4>1. x.place = p
        OBVIOUS
      <4> HIDE DEF x
      <4>2. JumpLevel(x.place.continue, x, E)
        BY <2>2, <4>1 DEF JumpLevel
      <4>3. Stands(s, x, b, E)
        BY <1>9, <4>2 DEF Stands
      <4> QED BY <4>3 DEF x
    <3> HIDE DEF c, k
    <3> QED BY <1>4, <1>5, <3>1 DEF k, c
  <2>3. CASE ~(p.continue = 0 /\ P = <<>>)
    <3>1. PICK mark, Q :
            /\ mark.kind = "again" /\ mark.step = P /\ IsText(Q) /\ p.again = <<mark>> \o Q
            /\ p.continue \in 1 .. Len(E)
            /\ E[p.continue] = Label(<<Again(mark)>> \o Q, Dead(P), {})
      BY <2>1, <2>3 DEF JumpsLead
    <3> DEFINE U == <<Again(mark)>> \o Q
               l == Label(U, Dead(P), {})
               M == <<mark>> \o Q
    <3>2. \A e \in Envs : Unfold(s, R, e) = M /\ After(s, e) = e
      BY <1>1, <1>9, <3>1 DEF Unfold, After
    <3>3. ~HasEffect(s)
      BY <1>9 DEF HasEffect
    <3> HIDE DEF M
    <3>4. Entails(k, Label(M, Dead(P), {}))
      BY <1>1, <3>2, <3>3, EntailsStep
    <3>5. l.pins = {}
      <4> HIDE DEF U
      <4> QED BY LabelFields
    <3>6. \/ P = <<>> /\ Entails(k, l)
          \/ \E st \in Assignments : P = <<st>> /\ Good(Added(st), k, l, E)
      <4>1. CASE P = <<>>
        <5>1. Entails(Label(<<mark>> \o Q, Dead(P), {}), Label(<<Again(mark)>> \o Q, Dead(P), {}))
          BY <3>1, <4>1, MarkEntails
        <5> HIDE DEF k, P
        <5> QED BY <3>4, <4>1, <5>1, EntailsOn DEF M
      <4>2. CASE P # <<>>
        <5>1. PICK st \in Assignments : P = <<st>> /\ st.kind = "assign" /\ st.var \in Var
          BY <1>3, <4>2
        <5>2. st.by \in Int
          BY DEF Assignments
        <5>3. Entails(Label(<<mark>> \o Q, Dead(P), {}), Label(<<st>> \o U, Dead(P), {}))
          BY <3>1, <5>1, MarkEntails
        <5>4. IsText(U)
          BY <3>1, InFront
        <5> HIDE DEF U, k, P
        <5>5. Good(Added(st), Label(<<st>> \o U, Dead(P), {}), Label(U, Dead(P), {}), E)
          BY <5>1, <5>2, <5>4, GoodAdd
        <5>6. Good(Added(st), k, Label(U, Dead(P), {}), E)
          BY <3>4, <5>3, <5>5, EntailsOn, GoodBehind DEF M
        <5> QED BY <5>1, <5>6
      <4> QED BY <4>1, <4>2
    <3>7. ASSUME NEW w PROVE Stands(s, [lab |-> l, waits |-> w, place |-> p], b, E)
      <4> DEFINE x == [lab |-> l, waits |-> w, place |-> p]
      <4>1. x.lab = l /\ x.place = p
        OBVIOUS
      <4>2. E[p.continue] = l
        BY <3>1
      <4> HIDE DEF x, l
      <4>3. JumpLevel(x.place.continue, x, E)
        BY <3>1, <4>1, <4>2, EntailsItself DEF JumpLevel
      <4>4. Stands(s, x, b, E)
        BY <1>9, <4>3 DEF Stands
      <4> QED BY <4>4 DEF x
    <3> HIDE DEF l, k
    <3> QED BY <3>5, <3>6, <3>7 DEF k
  <2> QED BY <2>2, <2>3
<1> QED BY <1>6, <1>8, <1>9 DEF Terminators

-----------------------------------------------------------------------------
(* A statement that is no terminator, between the text with it and without. *)
LEMMA StatementStands ==
  ASSUME prog \in Programs, StepsOncePerIteration, NEW a, NEW c, NEW E, InPlace(a.place, E),
         c.place = a.place, c.waits = a.waits,
         NEW s \in a.place.in, s.kind \notin Terminators, NEW R, Behind(R, a.place),
         a.lab = Label(<<s>> \o R, Dead(a.place.prologue), {}),
         c.lab = Label(R, Dead(a.place.prologue), {})
  PROVE  Level(s, a, c, E)
<1> DEFINE P == a.place.prologue
           S == a.place.in
<1>1. Region(S, P) /\ IsText(R)
  BY DEF InPlace, Behind
<1>2. /\ s \in Statement /\ Uses(s) \cap Dead(P) = {}
      /\ s.kind \in {"if", "block"} =>
           \A p \in Parts(s) : Own(p) \subseteq S /\ (P # <<>> => AddsNoStep(p))
      /\ s.kind = "while" => LoopFits(s, P)
      /\ s.kind = "for" => P = <<>> /\ s \in ForLoopsIn(prog) /\ LoopFits(LoopOf(s), <<>>)
  BY <1>1, RegionParts
<1>3. s.kind \in NodeKinds
  BY <1>2, StatementParts
<1>4. c.lab.pins = {} /\ a.lab.pins = {}
  <2> DEFINE T == <<s>> \o R
  <2> HIDE DEF T
  <2>1. a.lab = Label(T, Dead(P), {})
    BY DEF T
  <2> HIDE DEF P
  <2>2. Label(T, Dead(P), {}).pins = {}
    BY LabelFields
  <2>3. Label(R, Dead(P), {}).pins = {}
    BY LabelFields
  <2>4. c.lab = Label(R, Dead(P), {})
    BY DEF P
  <2> QED BY <2>1, <2>2, <2>3, <2>4
<1> HIDE DEF P, S
<1>5. a.lab = Label(<<s>> \o R, Dead(P), {}) /\ c.lab = Label(R, Dead(P), {})
  BY DEF P
<1>6. Stands(s, a, c, E)
  <2>1. CASE s.kind \in {"assign", "declaration", "call"}
    <3>1. s.kind = "call" => s.var \notin Dead(P)
      BY <1>2 DEF Uses
    <3>2. Dead(P) \ {s.var} \subseteq Dead(P) /\ Dead(P) \subseteq Dead(P)
      OBVIOUS
    <3>3. SimpleLevel(s, a, c)
      BY <1>1, <1>5, <3>1, <3>2 DEF SimpleLevel
    <3> QED BY <2>1, <3>3 DEF Stands
  <2>2. CASE s.kind = "block"
    <3>1. Own(s) \subseteq S /\ (P # <<>> => AddsNoStep(s))
      BY <1>2, <2>2 DEF Parts
    <3> DEFINE U == Opened(s) \o R
    <3>2. \A e \in Envs : Unfold(s, R, e) = U /\ After(s, e) = e
      BY <2>2 DEF Unfold, After, Opened
    <3>3. ~HasEffect(s)
      BY <2>2 DEF HasEffect
    <3> HIDE DEF U
    <3>4. Entails(a.lab, Label(U, Dead(P), {}))
      BY <1>1, <1>5, <3>2, <3>3, EntailsStep
    <3>5. Placed(s, a.place)
      BY <3>1 DEF Placed, P, S
    <3>6. BlockLevel(s, a, c)
      BY <1>5, <3>1, <3>4, <3>5 DEF BlockLevel, P, S, U
    <3> QED BY <2>2, <3>6 DEF Stands
  <2>3. CASE s.kind = "if"
    <3>1. \A p \in {s.then, s.else} : Own(p) \subseteq S /\ (P # <<>> => AddsNoStep(p))
      BY <1>2, <2>3 DEF Parts
    <3>2. Placed(s.then, a.place) /\ Placed(s.else, a.place)
      BY <3>1 DEF Placed, P, S
    <3>3. Clear(s.condition, Dead(P))
      BY <1>2, <2>3 DEF Clear, Uses
    <3>4. IfLevel(s, a, c)
      BY <1>5, <3>2, <3>3 DEF IfLevel, P
    <3> QED BY <2>3, <3>4 DEF Stands
  <2>4. CASE s.kind = "while"
    <3>1. s.prologue = <<>>
      BY <1>1, <2>4, RegionLoops DEF S
    <3>2. P \o s.prologue = P
      <4>1. IsText(P)
        <5>1. P = <<>> \/ \E st \in Assignments : P = <<st>>
          BY <1>1, RegionSteps
        <5> QED BY <5>1, OneText
      <4> QED BY <3>1, <4>1, EmptyBehind
    <3>3. LoopFits(s, P)
      BY <1>2, <2>4
    <3>4. WhileLevel(s, a, c)
      BY <1>5, <3>2, <3>3 DEF WhileLevel, P
    <3> QED BY <2>4, <3>4 DEF Stands
  <2>5. CASE s.kind = "for"
    <3>1. P = <<>> /\ Dead(P) = Counters(prog)
      <4>1. P = <<>>
        BY <1>2, <2>5
      <4>2. \A st : P # <<st>>
        BY <4>1
      <4> QED BY <1>1, <4>1, <4>2, RegionSteps
    <3>2. ForLevel(s, a, c)
      BY <1>2, <1>5, <2>5, <3>1 DEF ForLevel, P
    <3> QED BY <2>5, <3>2 DEF Stands
  <2> QED BY <1>3, <2>1, <2>2, <2>3, <2>4, <2>5 DEF NodeKinds, Terminators
<1> QED BY <1>3, <1>4, <1>6, NodeLevel

(* A terminator among the statements of a block. *)
LEMMA TerminatorGoes ==
  ASSUME prog \in Programs, StepsOncePerIteration, NEW g, GenTyped(g), NEW a, NEW b, NEW E,
         Sound(g, a, E), InPlace(a.place, E), b.place = a.place, b.waits = a.waits,
         b.lab.pins = {},
         NEW s \in a.place.in, s \in Task(Len(g.code), g.temps), s.kind \in Terminators,
         NEW R, Behind(R, a.place), a.lab = Label(<<s>> \o R, Dead(a.place.prologue), {})
  PROVE  Goes(g, [GeneratePrologue(g) EXCEPT !.todo = <<s>> \o @], b, E)
<1> DEFINE h == GeneratePrologue(g)
           p == a.place
<1>1. PICK l : /\ l.pins = {}
               /\ \/ p.prologue = <<>> /\ Entails(a.lab, l)
                  \/ \E st \in Assignments : p.prologue = <<st>> /\ Good(Added(st), a.lab, l, E)
               /\ \A w : Stands(s, [lab |-> l, waits |-> w, place |-> p], b, E)
  <2> DEFINE k == Label(<<s>> \o R, Dead(p.prologue), {})
             Pays(l, x) == /\ l.pins = {}
                           /\ \/ p.prologue = <<>> /\ Entails(x, l)
                              \/ \E st \in Assignments : p.prologue = <<st>> /\ Good(Added(st), x, l, E)
                           /\ \A w : Stands(s, [lab |-> l, waits |-> w, place |-> p], b, E)
  <2>1. InPlace(p, E) /\ s \in p.in /\ Behind(R, p)
    OBVIOUS
  <2> HIDE DEF p
  <2>2. \E l : Pays(l, k)
    BY <2>1, TerminatorStands
  <2>3. k = a.lab
    BY DEF p
  <2> HIDE DEF k, Pays
  <2>4. \E l : Pays(l, a.lab)
    BY <2>2, <2>3
  <2> QED BY <2>4 DEF Pays
<1> DEFINE c == [lab |-> l, waits |-> a.waits, place |-> p]
<1>2. c.lab = l /\ c.waits = a.waits /\ c.place = p
  OBVIOUS
<1>3. Stands(s, c, b, E)
  BY <1>1
<1>4. /\ GenTyped(h) /\ h.todo = g.todo /\ h.prologue = g.prologue /\ h.break = g.break
      /\ h.continue = g.continue /\ h.temps = g.temps /\ Len(h.code) = Len(g.code)
  BY PrologueTyped DEF SameRest
<1>5. /\ CodeRuns(g, E, a.lab, a.waits) /\ g.prologue = p.prologue /\ g.break = p.break
      /\ g.continue = p.continue
  BY DEF Sound
<1>6. CodeRuns(h, E, l, a.waits)
  BY <1>1, <1>5, PrologueRuns
<1>7. Extends(E, E)
  BY <1>5, ExtendsItself DEF CodeRuns
<1> HIDE DEF h, c
<1>8. Sound(h, c, E)
  BY <1>1, <1>2, <1>4, <1>5, <1>6 DEF Sound
<1>9. Level(s, c, b, E)
  <2>1. s.kind \in NodeKinds
    BY DEF NodeKinds, Terminators
  <2> QED BY <1>1, <1>2, <1>3, <2>1, NodeLevel
<1>10. s \in Task(Len(h.code), h.temps)
  BY <1>4
<1>11. Goes(g, [h EXCEPT !.todo = <<s>> \o @], b, E)
  BY <1>4, <1>7, <1>8, <1>9, <1>10, PushesTop
<1> QED BY <1>11 DEF h

(* The statements of a block, one by one. *)
LEMMA ListGoes ==
  ASSUME prog \in Programs, StepsOncePerIteration, NEW g, GenTyped(g),
         NEW t \in Task(Len(g.code), g.temps), t.kind = "statements",
         NEW a, NEW b, NEW E, Sound(g, a, E), Level(t, a, b, E),
         ListLevel(t.statements, t.index, a, b)
  PROVE  Goes(g, Generate(g, t), b, E)
<1> DEFINE q == t.statements
           i == t.index
           P == a.place.prologue
           F == [kind : {"statements"}, statements : Seq(Statement), index : Nat \ {0}]
<1>1. t \in F
  <2>1. t \in Frame(Len(g.code), g.temps)
    BY TaskIsNodeOrFrame DEF FrameKinds
  <2> QED BY <2>1, FrameParts
<1>2. q \in Seq(Statement) /\ i \in Nat \ {0} /\ Len(q) \in Nat
  <2>1. q \in Seq(Statement) /\ i \in Nat \ {0}
    BY <1>1
  <2> QED BY <2>1
<1>3. /\ a.waits = b.waits /\ b.place = a.place /\ b.lab.pins \subseteq a.lab.pins
      /\ InPlace(a.place, E)
  BY NodeLevel
<1>4. Generate(g, t) = GenerateStatements(g, t)
  BY DEF Generate
<1>5. CASE i > Len(q)
  <2>1. GenerateStatements(g, t) = GeneratePrologue(g)
    BY <1>5 DEF GenerateStatements
  <2>2. ListLevel(q, i, a, b)
    OBVIOUS
  <2> HIDE DEF q, i
  <2>3. Goes(g, GeneratePrologue(g), b, E)
    BY <1>2, <1>3, <1>5, <2>2, ListEnds
  <2> QED BY <1>4, <2>1, <2>3
<1>6. CASE i <= Len(q)
  <2> DEFINE s == q[i]
  <2>1. s \in Statement /\ s \in Task(Len(g.code), g.temps)
    <3>1. s \in Statement
      BY <1>2, <1>6
    <3> HIDE DEF s
    <3> QED BY <3>1, StatementParts DEF Task
  <2>2. /\ s \in Upto(q, i)
        /\ s.kind \notin Terminators =>
             (HasJump(q, i) <=> HasJump(q, i + 1)) /\ Upto(q, i + 1) \subseteq Upto(q, i)
    BY <1>2, <1>6, OneStatement
  <2>3. PICK R : /\ Behind(R, a.place) /\ a.lab = Label(From(q, i) \o R, Dead(P), {})
                 /\ \/ b.lab = Label(R, Dead(P), {}) /\ (P = <<>> \/ HasJump(q, i))
                    \/ AtEnd(R, P, b.lab)
    BY DEF ListLevel
  <2>4. s \in a.place.in /\ Upto(q, i) \subseteq a.place.in
    BY <2>2 DEF ListLevel
  <2> DEFINE G == From(q, i + 1)
             T == G \o R
  <2>5. i + 1 \in Nat \ {0}
    BY <1>2
  <2>6. From(q, i) = <<s>> \o G /\ IsText(G)
    <3>1. From(q, i) = <<s>> \o G
      BY <1>2, <1>6, FromParts
    <3>2. IsText(From(q, i + 1))
      BY <1>2, <2>5, FromParts
    <3> QED BY <3>1, <3>2
  <2>7. Behind(T, a.place)
    BY <1>2, <2>3, <2>5, StatementsBehind
  <2> HIDE DEF G, s
  <2>8. From(q, i) \o R = <<s>> \o T
    <3>1. IsText(R) /\ IsText(<<s>>)
      BY <2>3, OneText DEF Behind
    <3>2. (<<s>> \o G) \o R = <<s>> \o (G \o R)
      BY <2>6, <3>1, Associate
    <3> QED BY <2>6, <3>2
  <2>9. a.lab = Label(<<s>> \o T, Dead(P), {})
    BY <2>3, <2>8
  <2>10. b.lab.pins = {}
    <3> HIDE DEF P
    <3>1. CASE b.lab = Label(R, Dead(P), {})
      BY <3>1, LabelFields
    <3>2. CASE AtEnd(R, P, b.lab)
      <4>1. PICK mark, Q : b.lab = Label(<<Again(mark)>> \o Q, Dead(P), {})
        BY <3>2 DEF AtEnd
      <4> QED BY <4>1, LabelFields
    <3> QED BY <2>3, <3>1, <3>2
  <2> HIDE DEF T
  <2>11. CASE s.kind \in Terminators
    <3>1. GenerateStatements(g, t) = [GeneratePrologue(g) EXCEPT !.todo = <<s>> \o @]
      <4>1. ~(t.index > Len(t.statements)) /\ s = t.statements[t.index]
        BY <1>2, <1>6 DEF s
      <4> QED BY <2>11, <4>1 DEF GenerateStatements
    <3>2. Goes(g, [GeneratePrologue(g) EXCEPT !.todo = <<s>> \o @], b, E)
      BY <1>3, <2>1, <2>4, <2>7, <2>9, <2>10, <2>11, TerminatorGoes
    <3> QED BY <1>4, <3>1, <3>2
  <2>12. CASE s.kind \notin Terminators
    <3> DEFINE f == [t EXCEPT !.index = @ + 1]
               c == [lab |-> Label(T, Dead(P), {}), waits |-> a.waits, place |-> a.place]
    <3>1. GenerateStatements(g, t) = GenerateThen(g, s, f)
      <4>1. ~(t.index > Len(t.statements)) /\ s = t.statements[t.index]
        BY <1>2, <1>6 DEF s
      <4> QED BY <2>12, <4>1 DEF GenerateStatements
    <3>2. /\ f \in Task(Len(g.code), g.temps)
          /\ f.kind = "statements" /\ f.statements = q /\ f.index = i + 1
      <4>1. f \in F /\ f.kind = "statements" /\ f.statements = q /\ f.index = i + 1
        BY <1>1, <1>2
      <4> HIDE DEF f
      <4> QED BY <4>1 DEF Task, Frame
    <3>3. c.lab = Label(T, Dead(P), {}) /\ c.waits = a.waits /\ c.place = a.place
      OBVIOUS
    <3> HIDE DEF f, c
    <3>4. Level(s, a, c, E)
      BY <1>3, <2>4, <2>7, <2>9, <2>12, <3>3, StatementStands
    <3>5. ListLevel(q, i + 1, c, b)
      <4>1. Upto(q, i + 1) \subseteq c.place.in
        BY <2>2, <2>4, <2>12, <3>3
      <4>2. HasJump(q, i) <=> HasJump(q, i + 1)
        BY <2>2, <2>12
      <4>3. c.lab = Label(From(q, i + 1) \o R, Dead(c.place.prologue), {})
        BY <3>3 DEF T, G
      <4> HIDE DEF q, i
      <4> QED BY <2>3, <3>3, <4>1, <4>2, <4>3 DEF ListLevel
    <3>6. Level(f, c, b, E)
      <4>1. Stands(f, c, b, E)
        BY <3>2, <3>5 DEF Stands
      <4>2. c.lab.pins = {}
        <5> HIDE DEF P
        <5> QED BY <3>3, LabelFields
      <4> QED BY <1>3, <2>10, <3>2, <3>3, <4>1, <4>2, NodeLevel
    <3>7. Extends(E, E)
      BY ExtendsItself DEF Sound, CodeRuns
    <3>8. Goes(g, GenerateThen(g, s, f), b, E)
      BY <2>1, <3>2, <3>4, <3>6, <3>7, PushesTwo
    <3> QED BY <1>4, <3>1, <3>8
  <2> QED BY <2>11, <2>12
<1> QED BY <1>2, <1>5, <1>6

-----------------------------------------------------------------------------
(* A for loop is what it is desugared to. *)
LEMMA ForGoes ==
  ASSUME NEW g, GenTyped(g), NEW t \in Task(Len(g.code), g.temps), t.kind = "for",
         NEW a, NEW b, NEW E, Sound(g, a, E), Level(t, a, b, E)
  PROVE  Goes(g, Generate(g, t), b, E)
<1> DEFINE q == desugar(t).statements
           C == Counters(prog)
           x == [kind |-> "statements", statements |-> q, index |-> 1]
<1>1. desugar(t) \in Blocks
  <2>1. t \in Node
    BY TaskIsNodeOrFrame DEF NodeKinds
  <2> QED BY <2>1, NodeParts
<1>2. q = <<Declaration(t.var, t.begin), LoopOf(t)>> /\ ~desugar(t).expects
  BY LoopParts
<1>3. q \in Seq(Statement)
  <2> DEFINE d == desugar(t)
  <2> HIDE DEF d
  <2>1. d \in Blocks
    BY <1>1 DEF d
  <2>2. d.statements \in Seq(Statement)
    BY <2>1, BlockParts
  <2> QED BY <2>2 DEF d
<1>4. /\ a.waits = b.waits /\ b.place = a.place /\ b.lab.pins \subseteq a.lab.pins
      /\ InPlace(a.place, E) /\ Stands(t, a, b, E)
  BY NodeLevel DEF NodeKinds
<1>5. ForLevel(t, a, b)
  BY <1>4 DEF Stands
<1>6. PICK R : /\ Behind(R, a.place)
               /\ a.lab = Label(<<t>> \o R, C, {}) /\ b.lab = Label(R, C, {})
  BY <1>5 DEF ForLevel
<1>7. Generate(g, t) = [g EXCEPT !.todo = <<x>> \o @]
  <2>1. q # <<>>
    BY <1>2
  <2>2. GenerateBlock(g, desugar(t)) = [g EXCEPT !.todo = <<x>> \o @]
    BY <1>2, <2>1 DEF GenerateBlock
  <2> QED BY <2>2 DEF Generate
<1> HIDE DEF q
<1>8. x \in Task(Len(g.code), g.temps)
  <2>1. x \in [kind : {"statements"}, statements : Seq(Statement), index : Nat \ {0}]
    BY <1>3
  <2> HIDE DEF x
  <2> QED BY <2>1 DEF Task, Frame
<1>9. From(q, 1) = q
  <2>1. 1 \in Nat \ {0}
    OBVIOUS
  <2> QED BY <1>3, <2>1, FromParts
<1> DEFINE U == From(q, 1) \o R
           l == Label(U, C, {})
           c == [lab |-> l, waits |-> a.waits, place |-> a.place]
<1>10. Entails(a.lab, l)
  <2>1. IsText(R)
    BY <1>6 DEF Behind
  <2>2. \A e \in Envs : Unfold(t, R, e) = U /\ After(t, e) = e
    BY <1>2, <1>9 DEF Unfold, After, LoopOf, StepOf
  <2>3. ~HasEffect(t)
    BY DEF HasEffect
  <2> HIDE DEF U
  <2> QED BY <1>6, <2>1, <2>2, <2>3, EntailsStep
<1>11. l.pins = {} /\ b.lab.pins = {}
  <2> HIDE DEF U, C
  <2>1. l.pins = {}
    BY LabelFields
  <2>2. Label(R, C, {}).pins = {}
    BY LabelFields
  <2> QED BY <1>6, <2>1, <2>2
<1>12. c.lab = Label(From(q, 1) \o R, C, {}) /\ c.place = a.place
  OBVIOUS
<1>13. x.kind = "statements" /\ x.statements = q /\ x.index = 1
  OBVIOUS
<1> HIDE DEF x, c
<1>14. ForListLevel(q, 1, c, b)
  <2>1. 1 \in 1 .. 3 /\ 1 # 2
    OBVIOUS
  <2> QED BY <1>5, <1>6, <1>12, <2>1 DEF ForListLevel, ForLevel, q
<1>15. Stands(x, c, b, E)
  BY <1>13, <1>14 DEF Stands
<1> HIDE DEF l
<1>16. x.kind \in NodeKinds \cup {"condition", "statements"}
  BY <1>13
<1>17. l.pins \subseteq a.lab.pins /\ b.lab.pins \subseteq l.pins
  BY <1>11
<1>18. Stands(x, [lab |-> l, waits |-> a.waits, place |-> a.place], b, E)
  BY <1>15 DEF c
<1>19. Goes(g, [g EXCEPT !.todo = <<x>> \o @], b, E)
  BY <1>4, <1>8, <1>10, <1>16, <1>17, <1>18, PushesOne
<1> QED BY <1>7, <1>19

(* The declaration of its counter, and then the loop. *)
LEMMA ForListGoes ==
  ASSUME prog \in Programs, NEW g, GenTyped(g),
         NEW t \in Task(Len(g.code), g.temps), t.kind = "statements",
         NEW a, NEW b, NEW E, Sound(g, a, E), Level(t, a, b, E),
         ForListLevel(t.statements, t.index, a, b)
  PROVE  Goes(g, Generate(g, t), b, E)
<1> DEFINE q == t.statements
           i == t.index
           C == Counters(prog)
           X == [kind : {"statements"}, statements : Seq(Statement), index : Nat \ {0}]
<1>1. t \in X
  <2>1. t \in Frame(Len(g.code), g.temps)
    BY TaskIsNodeOrFrame DEF FrameKinds
  <2> QED BY <2>1, FrameParts
<1>2. q \in Seq(Statement) /\ i \in Nat \ {0} /\ Len(q) \in Nat
  <2>1. q \in Seq(Statement) /\ i \in Nat \ {0}
    BY <1>1
  <2> QED BY <2>1
<1>3. /\ a.waits = b.waits /\ b.place = a.place /\ b.lab.pins \subseteq a.lab.pins
      /\ InPlace(a.place, E)
  BY NodeLevel
<1>4. Generate(g, t) = GenerateStatements(g, t)
  BY DEF Generate
<1>5. PICK f, R :
        /\ f \in ForLoopsIn(prog)
        /\ q = desugar(f).statements /\ LoopFits(LoopOf(f), <<>>) /\ Behind(R, a.place)
        /\ a.lab = Label(From(q, i) \o R, IF i = 2 THEN C \ {f.var} ELSE C, {})
        /\ b.lab = Label(R, C, {})
  BY DEF ForListLevel
<1>6. a.place.prologue = <<>> /\ i \in 1 .. 3 /\ IsText(R)
  BY <1>5 DEF ForListLevel, Behind
<1> DEFINE d == Declaration(f.var, f.begin)
           w == LoopOf(f)
<1>7. /\ q = <<d, w>> /\ d.kind = "declaration" /\ d.var = f.var
      /\ w.kind = "while" /\ w.prologue = <<StepOf(f)>>
  BY <1>5, LoopParts
<1>8. Len(q) = 2 /\ q[1] = d /\ q[2] = w
  BY <1>7
<1>9. Extends(E, E)
  BY ExtendsItself DEF Sound, CodeRuns
<1> HIDE DEF d, w
<1>10. CASE i = 3
  <2> DEFINE h == GeneratePrologue(g)
  <2>1. GenerateStatements(g, t) = h
    BY <1>8, <1>10 DEF GenerateStatements
  <2>2. From(q, i) = <<>>
    <3>1. i > Len(q)
      BY <1>8, <1>10
    <3> HIDE DEF q, i
    <3> QED BY <1>2, <3>1, FromParts
  <2>3. a.lab = b.lab
    <3>1. From(q, i) \o R = R
      BY <1>6, <2>2, InFront
    <3>2. (IF i = 2 THEN C \ {f.var} ELSE C) = C
      BY <1>10
    <3> HIDE DEF q, i, C
    <3> QED BY <1>5, <3>1, <3>2
  <2>4. g.prologue = <<>> /\ CodeRuns(g, E, a.lab, a.waits)
    BY <1>6 DEF Sound
  <2>5. CodeRuns(h, E, b.lab, b.waits)
    BY <1>3, <2>3, <2>4, EntailsItself, PrologueRuns
  <2>6. /\ h.todo = g.todo /\ h.prologue = g.prologue /\ h.break = g.break
        /\ h.continue = g.continue /\ h.temps = g.temps
    BY PrologueTyped DEF SameRest
  <2>7. g.temps \in Nat /\ g.temps <= g.temps
    BY GenFields
  <2>8. /\ g.prologue = b.place.prologue /\ g.break = b.place.break
        /\ g.continue = b.place.continue
    BY <1>3 DEF Sound
  <2> HIDE DEF h
  <2>9. Goes(g, h, b, E)
    BY <1>3, <1>9, <2>5, <2>6, <2>7, <2>8, Arrives
  <2> QED BY <1>4, <2>1, <2>9
<1>11. CASE i \in 1 .. 2
  <2> DEFINE s == q[i]
             F == From(q, i + 1)
             T == F \o R
             dead == IF i = 1 THEN C \ {f.var} ELSE C
             x == [t EXCEPT !.index = @ + 1]
             c == [lab |-> Label(T, dead, {}), waits |-> a.waits, place |-> a.place]
  <2>1. s \in Statement /\ i <= Len(q)
    BY <1>2, <1>8, <1>11
  <2>2. s \in Task(Len(g.code), g.temps) /\ s.kind \in NodeKinds
    <3> HIDE DEF s
    <3> QED BY <2>1, StatementParts DEF Task
  <2>3. s.kind \notin Terminators
    BY <1>7, <1>8, <1>11 DEF Terminators
  <2>4. GenerateStatements(g, t) = GenerateThen(g, s, x)
    <3>1. ~(t.index > Len(t.statements)) /\ s = t.statements[t.index]
      BY <1>2, <2>1
    <3> HIDE DEF s
    <3> QED BY <2>3, <3>1 DEF GenerateStatements
  <2>5. i + 1 \in Nat \ {0} /\ i + 1 \in 1 .. 3
    BY <1>11
  <2>6. From(q, i) = <<s>> \o F /\ IsText(F)
    <3>1. From(q, i) = <<q[i]>> \o From(q, i + 1)
      BY <1>2, <2>1, FromParts
    <3>2. IsText(From(q, i + 1))
      BY <1>2, <2>5, FromParts
    <3> QED BY <3>1, <3>2
  <2>7. Behind(T, a.place)
    BY <1>2, <1>5, <2>5, StatementsBehind
  <2>8. /\ x \in Task(Len(g.code), g.temps)
        /\ x.kind = "statements" /\ x.statements = q /\ x.index = i + 1
    <3>1. x \in X /\ x.kind = "statements" /\ x.statements = q /\ x.index = i + 1
      BY <1>1, <1>2
    <3> HIDE DEF x
    <3> QED BY <3>1 DEF Task, Frame
  <2>9. c.lab = Label(T, dead, {}) /\ c.waits = a.waits /\ c.place = a.place
    OBVIOUS
  <2> HIDE DEF x, c, F, s
  <2>10. From(q, i) \o R = <<s>> \o T
    <3>1. IsText(R) /\ IsText(<<s>>)
      BY <1>6, OneText
    <3>2. (<<s>> \o F) \o R = <<s>> \o (F \o R)
      BY <2>6, <3>1, Associate
    <3> QED BY <2>6, <3>2
  <2>11. IsText(T) /\ FromAgain(T) = a.place.again
    BY <2>7 DEF Behind
  <2> HIDE DEF T
  <2>12. Stands(s, a, c, E)
    <3>1. CASE i = 1
      <4>1. s = d /\ s.kind = "declaration" /\ s.var = f.var
        BY <1>7, <1>8, <3>1 DEF s
      <4>2. a.lab = Label(<<s>> \o T, C, {}) /\ c.lab = Label(T, C \ {f.var}, {})
        BY <1>5, <2>9, <2>10, <3>1
      <4>3. C \ {s.var} \subseteq C \ {f.var}
        BY <4>1
      <4>4. SimpleLevel(s, a, c)
        BY <2>11, <4>1, <4>2, <4>3 DEF SimpleLevel
      <4> QED BY <4>1, <4>4 DEF Stands
    <3>2. CASE i = 2
      <4>1. s = w /\ s.kind = "while" /\ s.prologue = <<StepOf(f)>>
        BY <1>7, <1>8, <3>2 DEF s
      <4>2. a.lab = Label(<<s>> \o T, C \ {f.var}, {}) /\ c.lab = Label(T, C, {})
        BY <1>5, <2>9, <2>10, <3>2
      <4>3. <<>> \o s.prologue = s.prologue
        <5>1. IsText(<<StepOf(f)>>)
          BY OneText
        <5> QED BY <4>1, <5>1, InFront
      <4>4. Dead(<<>>) = C
        <5>1. Len(<<>>) = 0
          OBVIOUS
        <5> QED BY <5>1 DEF Dead
      <4>5. Dead(s.prologue) = C \ {f.var}
        <5> DEFINE P == s.prologue
        <5>1. P = <<StepOf(f)>> /\ StepOf(f).var = f.var
          BY <4>1, LoopParts
        <5>2. 1 .. Len(P) = {1} /\ P[1].var = f.var
          BY <5>1
        <5> HIDE DEF P
        <5>3. Dead(P) = C \ {f.var}
          BY <5>2 DEF Dead
        <5> QED BY <5>3 DEF P
      <4>6. LoopFits(s, <<>>)
        BY <1>5, <4>1 DEF w
      <4> HIDE DEF C
      <4>7. WhileLevel(s, a, c)
        BY <1>6, <2>7, <4>2, <4>3, <4>4, <4>5, <4>6 DEF WhileLevel
      <4> QED BY <4>1, <4>7 DEF Stands
    <3> QED BY <1>11, <3>1, <3>2
  <2>13. ForListLevel(q, i + 1, c, b)
    <3>1. (IF i + 1 = 2 THEN C \ {f.var} ELSE C) = dead
      BY <1>11
    <3>2. c.lab = Label(From(q, i + 1) \o R, IF i + 1 = 2 THEN C \ {f.var} ELSE C, {})
      BY <2>9, <3>1 DEF T, F
    <3> DEFINE j == i + 1
    <3> HIDE DEF q, i, C, dead, j
    <3>3. c.lab = Label(From(q, j) \o R, IF j = 2 THEN C \ {f.var} ELSE C, {}) /\ j \in 1 .. 3
      BY <2>5, <3>2 DEF j
    <3>4. ForListLevel(q, j, c, b)
      BY <1>5, <1>6, <2>9, <3>3 DEF ForListLevel, C
    <3> QED BY <3>4 DEF j
  <2>14. a.lab.pins = {} /\ c.lab.pins = {} /\ b.lab.pins = {}
    <3> DEFINE T0 == From(q, i) \o R
               e0 == IF i = 2 THEN C \ {f.var} ELSE C
    <3>1. a.lab = Label(T0, e0, {})
      BY <1>5
    <3> HIDE DEF T0, e0, C, dead
    <3>2. a.lab.pins = {}
      BY <3>1, LabelFields
    <3>3. c.lab.pins = {}
      BY <2>9, LabelFields
    <3>4. b.lab.pins = {}
      BY <1>5, LabelFields DEF C
    <3> QED BY <3>2, <3>3, <3>4
  <2>15. Level(s, a, c, E)
    BY <1>3, <2>2, <2>9, <2>12, <2>14, NodeLevel
  <2>16. Level(x, c, b, E)
    <3>1. Stands(x, c, b, E)
      BY <2>8, <2>13 DEF Stands
    <3> QED BY <1>3, <2>8, <2>9, <2>14, <3>1, NodeLevel
  <2>17. Goes(g, GenerateThen(g, s, x), b, E)
    BY <1>9, <2>2, <2>8, <2>15, <2>16, PushesTwo
  <2> QED BY <1>4, <2>4, <2>17
<1>12. i = 3 \/ i \in 1 .. 2
  BY <1>6
<1> QED BY <1>10, <1>11, <1>12

(* The statements of a block: the next one, a prologue before a jump or at *)
(* the end, or nothing.                                                    *)
LEMMA StatementsGo ==
  ASSUME prog \in Programs, StepsOncePerIteration, NEW g, GenTyped(g),
         NEW t \in Task(Len(g.code), g.temps), t.kind = "statements",
         NEW a, NEW b, NEW E, Sound(g, a, E), Level(t, a, b, E)
  PROVE  Goes(g, Generate(g, t), b, E)
<1>1. Stands(t, a, b, E)
  BY DEF Level
<1>2. \/ ListLevel(t.statements, t.index, a, b)
      \/ ForListLevel(t.statements, t.index, a, b)
  BY <1>1 DEF Stands
<1> QED BY <1>2, ListGoes, ForListGoes

-----------------------------------------------------------------------------
(* A block ends, and the insert point moves to one that waits. *)
LEMMA RunsEndAndMove ==
  ASSUME NEW g, GenTyped(g), NEW i \in Instructions(Len(g.code), g.temps),
         NEW E, NEW l, NEW n, NEW waits, CodeRuns(g, E, l, waits), Good(i, l, n, E),
         NEW b \in waits
  PROVE  CodeRuns(SetInsertPoint(Emit(g, i), b), E, E[b], waits \ {b})
<1>1. CodeRuns(Emit(g, i), E, n, waits) /\ GenTyped(Emit(g, i))
  BY RunsEmit, EmitTyped
<1> QED BY <1>1, RunsMove

LEMMA RunsBranchAndMove ==
  ASSUME NEW g, GenTyped(g), NEW E, NEW l, NEW waits, CodeRuns(g, E, l, waits),
         NEW to \in 1 .. Len(g.code), Entails(l, E[to]), NEW b \in waits
  PROVE  CodeRuns(SetInsertPoint(BrUnlessTerminated(g, to), b), E, E[b], waits \ {b})
<1>1. CodeRuns(BrUnlessTerminated(g, to), E, l, waits) /\ GenTyped(BrUnlessTerminated(g, to))
  BY RunsBranch, BranchTyped
<1> QED BY <1>1, RunsMove

(* The generator after the two moves. *)
LEMMA EndedAndMoved ==
  ASSUME NEW g, GenTyped(g), NEW i \in Instructions(Len(g.code), g.temps),
         NEW b \in 1 .. Len(g.code)
  PROVE  LET h == SetInsertPoint(Emit(g, i), b)
         IN  GenTyped(h) /\ SameRest(g, h) /\ Len(h.code) = Len(g.code)
<1> DEFINE e == Emit(g, i)
<1>1. GenTyped(e) /\ SameRest(g, e) /\ Len(e.code) = Len(g.code)
  BY EmitTyped
<1>2. b \in 1 .. Len(e.code)
  BY <1>1
<1> HIDE DEF e
<1>3. /\ GenTyped(SetInsertPoint(e, b)) /\ SameRest(e, SetInsertPoint(e, b))
      /\ Len(SetInsertPoint(e, b).code) = Len(e.code)
  BY <1>1, <1>2, SetInsertPointTyped
<1>4. SameRest(g, SetInsertPoint(e, b))
  BY <1>1, <1>3 DEF SameRest
<1> QED BY <1>1, <1>3, <1>4 DEF e

(* To end a block and go on in another. *)
LEMMA BranchedAndMoved ==
  ASSUME NEW g, GenTyped(g), NEW a \in 1 .. Len(g.code), NEW b \in 1 .. Len(g.code)
  PROVE  LET h == SetInsertPoint(BrUnlessTerminated(g, a), b)
         IN  GenTyped(h) /\ SameRest(g, h) /\ Len(h.code) = Len(g.code)
<1> DEFINE h == SetInsertPoint(BrUnlessTerminated(g, a), b)
<1>1. /\ GenTyped(h) /\ SameRest(g, h) /\ h.insert = b /\ Len(h.code) = Len(g.code)
      /\ \A waiting : (IsOpen(g) \/ IsClosed(g)) /\ Settled(g, waiting) /\ b \in waiting =>
           IsOpen(h) /\ Settled(h, waiting \ {b})
  BY BranchAndMoveOn
<1> HIDE DEF h
<1>2. GenTyped(h) /\ SameRest(g, h) /\ Len(h.code) = Len(g.code)
  BY <1>1
<1> QED BY <1>2 DEF h

(* What a label pins. *)
LEMMA LabelPins ==
  ASSUME NEW T, NEW Y, NEW N, NEW t, NEW dead, NEW pins
  PROVE  /\ Label(T, dead, pins).pins = pins
         /\ AccLabel(Y, N, dead, pins).pins = pins
         /\ TempLabel(t, Y, N, dead, pins).pins = pins
BY DEF Label, AccLabel, TempLabel

(* Three new blocks, and their labels. *)
LEMMA NewLabels ==
  ASSUME NEW g, GenTyped(g), NEW E, NEW l, NEW waits, CodeRuns(g, E, l, waits),
         NEW a, NEW b, NEW c
  PROVE  LET n == Len(g.code)
         IN  /\ CodeRuns(NewBlocks(g, 3), WithThree(E, a, b, c), l,
                         {n + 1, n + 2, n + 3} \cup waits)
             /\ {n + 1, n + 2, n + 3} \cap waits = {}
<1> DEFINE n == Len(g.code)
           D == WithThree(E, a, b, c)
<1>1. CodeRuns(NewBlocks(g, 3), D, l, {n + 1, n + 2, n + 3} \cup waits)
  BY RunsMore
<1>2. n \in Nat /\ waits \subseteq 1 .. n
  BY GenFields DEF CodeRuns
<1> HIDE DEF n, D
<1>3. {n + 1, n + 2, n + 3} \cap waits = {}
  BY <1>2
<1> QED BY <1>1, <1>3 DEF n, D

(* Labels of three new blocks. *)
LEMMA ThreeLabels ==
  ASSUME NEW E, IsText(E), NEW a, NEW b, NEW c, NEW n, n = Len(E)
  PROVE  LET D == WithThree(E, a, b, c)
         IN  /\ Extends(E, D) /\ Len(D) = n + 3
             /\ D[n + 1] = a /\ D[n + 2] = b /\ D[n + 3] = c
<1> DEFINE D == WithThree(E, a, b, c)
<1>1. /\ IsText(D) /\ Len(D) = n + 3 /\ n \in Nat
      /\ D[n + 1] = a /\ D[n + 2] = b /\ D[n + 3] = c
      /\ \A i \in 1 .. n : D[i] = E[i]
  BY ThreeMore
<1> HIDE DEF D
<1>2. Extends(E, D)
  BY <1>1 DEF Extends
<1> QED BY <1>1, <1>2 DEF D

(* What has been reached may be read on. *)
LEMMA SoundOn ==
  ASSUME NEW g, NEW a, NEW E, Sound(g, a, E), NEW l, Entails(a.lab, l), l.pins \subseteq a.lab.pins
  PROVE  Sound(g, [lab |-> l, waits |-> a.waits, place |-> a.place], E)
<1> DEFINE c == [lab |-> l, waits |-> a.waits, place |-> a.place]
<1>1. c.lab = l /\ c.waits = a.waits /\ c.place = a.place
  OBVIOUS
<1> HIDE DEF c
<1>2. CodeRuns(g, E, l, a.waits)
  BY RunsOn DEF Sound
<1>3. Sound(g, c, E)
  BY <1>1, <1>2 DEF Sound
<1> QED BY <1>3 DEF c

(* An arm of a branch stands between the text with it and without. *)
LEMMA ArmStands ==
  ASSUME NEW q \in Blocks, NEW a, NEW c, NEW E, InPlace(a.place, E), Placed(q, a.place),
         c.place = a.place, c.waits = a.waits, NEW R, Behind(R, a.place),
         a.lab = Label(<<q>> \o R, Dead(a.place.prologue), {}),
         c.lab = Label(R, Dead(a.place.prologue), {})
  PROVE  Level(q, a, c, E)
<1> DEFINE dead == Dead(a.place.prologue)
           U == Opened(q) \o R
           T == <<q>> \o R
<1>1. q.kind = "block" /\ q.kind \in NodeKinds
  BY BlockParts
<1>2. IsText(R)
  BY DEF Behind
<1>3. \A e \in Envs : Unfold(q, R, e) = U /\ After(q, e) = e
  BY <1>1 DEF Unfold, After, Opened
<1>4. ~HasEffect(q)
  BY <1>1 DEF HasEffect
<1>5. a.lab = Label(T, dead, {}) /\ c.lab = Label(R, dead, {})
  OBVIOUS
<1> HIDE DEF U, dead
<1>6. Entails(Label(<<q>> \o R, dead, {}), Label(U, dead, {}))
  BY <1>2, <1>3, <1>4, EntailsStep
<1> HIDE DEF T
<1>7. a.lab.pins = {} /\ c.lab.pins = {}
  <2>1. a.lab.pins = {}
    BY <1>5, LabelFields
  <2>2. c.lab.pins = {}
    BY <1>5, LabelFields
  <2> QED BY <2>1, <2>2
<1>8. BlockLevel(q, a, c)
  BY <1>5, <1>6 DEF BlockLevel, Placed, U, dead, T
<1>9. Stands(q, a, c, E)
  BY <1>1, <1>8 DEF Stands
<1> QED BY <1>1, <1>7, <1>9, NodeLevel

(* An if statement: first its condition. *)
LEMMA IfGoes ==
  ASSUME NEW g, GenTyped(g), NEW t \in Task(Len(g.code), g.temps), t.kind = "if",
         NEW a, NEW b, NEW E, Sound(g, a, E), Level(t, a, b, E)
  PROVE  Goes(g, Generate(g, t), b, E)
<1> DEFINE x == Evaluate(t.condition)
           y == [kind |-> "ifDecided", then |-> t.then, else |-> t.else]
           dead == Dead(a.place.prologue)
<1>1. Generate(g, t) = GenerateThen(g, x, y)
  BY DEF Generate, GenerateIf
<1>2. t.condition \in Condition /\ t.then \in Blocks /\ t.else \in Blocks
  <2>1. t \in Node
    BY TaskIsNodeOrFrame DEF NodeKinds
  <2> QED BY <2>1, NodeParts
<1>3. x \in Task(Len(g.code), g.temps) /\ x.kind = "condition" /\ x.condition = t.condition
  BY <1>2, EvaluateFacts DEF Evaluate
<1>4. y \in Task(Len(g.code), g.temps)
  <2>1. y \in [kind : {"ifDecided"}, then : Blocks, else : Blocks]
    BY <1>2
  <2> HIDE DEF y
  <2> QED BY <2>1 DEF Task, Frame
<1>5. y.kind = "ifDecided" /\ y.then = t.then /\ y.else = t.else
  OBVIOUS
<1>6. /\ a.waits = b.waits /\ b.place = a.place /\ b.lab.pins \subseteq a.lab.pins
      /\ InPlace(a.place, E) /\ Stands(t, a, b, E)
  BY NodeLevel DEF NodeKinds
<1>7. IfLevel(t, a, b)
  BY <1>6 DEF Stands
<1>8. PICK R : /\ Behind(R, a.place)
               /\ a.lab = Label(<<t>> \o R, dead, {}) /\ b.lab = Label(R, dead, {})
  BY <1>7 DEF IfLevel
<1> DEFINE Y == <<t.then>>
           N == <<t.else>>
           U == <<Branch(t.condition, Y, N)>> \o R
           l == Label(U, dead, {})
           k == AccLabel(Y \o R, N \o R, dead, {})
           c == [lab |-> l, waits |-> a.waits, place |-> a.place]
           d == [lab |-> k, waits |-> a.waits, place |-> a.place]
<1>9. c.lab = l /\ c.waits = a.waits /\ c.place = a.place
  OBVIOUS
<1>10. d.lab = k /\ d.waits = a.waits /\ d.place = a.place
  OBVIOUS
<1>11. IsText(R) /\ IsText(Y) /\ IsText(N)
  BY <1>8, OneText DEF Behind
<1>12. Entails(a.lab, l)
  <2>1. \A e \in Envs : Unfold(t, R, e) = U /\ After(t, e) = e
    BY DEF Unfold, After
  <2>2. ~HasEffect(t)
    BY DEF HasEffect
  <2> HIDE DEF U, dead
  <2> QED BY <1>8, <1>11, <2>1, <2>2, EntailsStep
<1> HIDE DEF x, y, c, d
<1>13. l.pins = {} /\ k.pins = {} /\ b.lab.pins = {}
  <2> DEFINE A == Y \o R
             B == N \o R
  <2> HIDE DEF U, dead, A, B
  <2>1. l.pins = {}
    BY LabelFields
  <2>2. AccLabel(A, B, dead, {}).pins = {}
    BY LabelFields
  <2>3. Label(R, dead, {}).pins = {}
    BY LabelFields
  <2> QED BY <1>8, <2>1, <2>2, <2>3 DEF A, B
<1> HIDE DEF l, k
<1>14. Sound(g, c, E)
  <2>1. l.pins \subseteq a.lab.pins
    BY <1>13
  <2> QED BY <1>12, <2>1, SoundOn DEF c
<1>15. Level(x, c, d, E)
  <2>1. Clear(t.condition, dead)
    BY <1>7 DEF IfLevel
  <2>2. c.lab = Label(<<Branch(t.condition, Y, N)>> \o R, dead, c.lab.pins)
    BY <1>9, <1>13 DEF l, U
  <2>3. d.lab = AccLabel(Y \o R, N \o R, dead, c.lab.pins)
    BY <1>9, <1>10, <1>13 DEF k
  <2> HIDE DEF Y, N, dead
  <2>4. ConditionLevel(t.condition, c, d)
    BY <1>11, <2>1, <2>2, <2>3 DEF ConditionLevel
  <2>5. Stands(x, c, d, E)
    BY <1>3, <2>4 DEF Stands
  <2> QED BY <1>3, <1>6, <1>9, <1>10, <1>13, <2>5, NodeLevel
<1>16. Level(y, d, b, E)
  <2>1. Waiting(y) = {} /\ ~IsLoop(y)
    BY <1>5 DEF Waiting, IsLoop
  <2>2. IfDecidedLevel(y, d, b)
    BY <1>5, <1>7, <1>8, <1>10 DEF IfDecidedLevel, IfLevel, k
  <2>3. Stands(y, d, b, E)
    BY <1>5, <2>2 DEF Stands
  <2> QED BY <1>6, <1>10, <1>13, <2>1, <2>3 DEF Level
<1>17. Extends(E, E)
  BY ExtendsItself DEF Sound, CodeRuns
<1>18. Goes(g, GenerateThen(g, x, y), b, E)
  BY <1>3, <1>4, <1>14, <1>15, <1>16, <1>17, PushesTwo
<1> QED BY <1>1, <1>18

(* Then the branch on it. *)
LEMMA IfDecidedGoes ==
  ASSUME NEW g, GenTyped(g), NEW t \in Task(Len(g.code), g.temps), t.kind = "ifDecided",
         NEW a, NEW b, NEW E, Sound(g, a, E), Level(t, a, b, E)
  PROVE  Goes(g, Generate(g, t), b, E)
<1> DEFINE n == Len(g.code)
           g1 == NewBlocks(g, 3)
           i == CondBr(TRUE, n + 1, n + 2)
           h == SetInsertPoint(Emit(g1, i), n + 1)
           x == t.then
           y == [kind |-> "thenDone", else |-> t.else, blocks |-> n]
           dead == Dead(a.place.prologue)
           w == b.waits
<1>1. Generate(g, t) = GenerateThen(h, x, y)
  BY DEF Generate, IfDecided
<1>2. x \in Blocks /\ t.else \in Blocks /\ n \in Nat
  <2>1. t \in Frame(n, g.temps)
    BY TaskIsNodeOrFrame DEF FrameKinds
  <2> QED BY <2>1, FrameParts, GenFields
<1>3. GenTyped(g1) /\ SameRest(g, g1) /\ Len(g1.code) = n + 3
  BY NewBlocksFacts
<1>4. /\ a.waits = w /\ b.place = a.place /\ InPlace(a.place, E) /\ IfDecidedLevel(t, a, b)
      /\ b.lab.pins \subseteq a.lab.pins
  <2>1. Waiting(t) = {} /\ ~IsLoop(t)
    BY DEF Waiting, IsLoop
  <2> QED BY <2>1 DEF Level, Stands
<1>5. PICK R : /\ Behind(R, a.place) /\ a.lab = AccLabel(<<x>> \o R, <<t.else>> \o R, dead, {})
               /\ b.lab = Label(R, dead, {})
  BY <1>4 DEF IfDecidedLevel
<1> DEFINE Y == <<x>> \o R
           N == <<t.else>> \o R
           L1 == Label(Y, dead, {})
           L2 == Label(N, dead, {})
           D == WithThree(E, L1, L2, b.lab)
<1>6. CodeRuns(g, E, a.lab, w) /\ g.prologue = a.place.prologue /\ g.break = a.place.break
      /\ g.continue = a.place.continue
  BY <1>4 DEF Sound
<1> HIDE DEF L1, L2, w
<1>7. /\ CodeRuns(g1, D, a.lab, {n + 1, n + 2, n + 3} \cup w)
      /\ {n + 1, n + 2, n + 3} \cap w = {}
      /\ Extends(E, D) /\ Len(D) = n + 3
      /\ D[n + 1] = L1 /\ D[n + 2] = L2 /\ D[n + 3] = b.lab
  <2>1. CodeRuns(g1, D, a.lab, {n + 1, n + 2, n + 3} \cup w)
    BY <1>6, NewLabels
  <2>2. {n + 1, n + 2, n + 3} \cap w = {}
    BY <1>6, NewLabels
  <2>3. IsText(E) /\ Len(E) = n
    BY <1>6 DEF CodeRuns
  <2>4. /\ Extends(E, D) /\ Len(D) = n + 3
        /\ D[n + 1] = L1 /\ D[n + 2] = L2 /\ D[n + 3] = b.lab
    <3> HIDE DEF n
    <3> QED BY <2>3, ThreeLabels
  <2> QED BY <2>1, <2>2, <2>4
<1> USE DEF L1, L2, w
<1> HIDE DEF g1, n, D, Y, N
<1>8. n \in 0 .. (n + 3) - 3 /\ n + 1 \in 1 .. n + 3 /\ n + 2 \in 1 .. n + 3 /\ n + 3 \in 1 .. n + 3
  BY <1>2, NewNumbers
<1>9. i \in Instructions(Len(g1.code), g1.temps)
  <2>1. i \in [op : {"cbr"}, when : BOOLEAN, to : 1 .. n + 3, other : 1 .. n + 3]
    BY <1>8 DEF CondBr
  <2> HIDE DEF i
  <2> QED BY <1>3, <2>1 DEF Instructions
<1>10. Good(i, AccLabel(Y, N, dead, {}), b.lab, D)
  <2>1. Entails(Label(IF TRUE THEN Y ELSE N, dead, {}), D[n + 1])
    BY <1>7, EntailsItself
  <2>2. Entails(Label(IF TRUE THEN N ELSE Y, dead, {}), D[n + 2])
    BY <1>7, EntailsItself
  <2> HIDE DEF dead
  <2>3. n + 1 \in 1 .. Len(D) /\ n + 2 \in 1 .. Len(D) /\ TRUE \in BOOLEAN
    BY <1>7, <1>8
  <2> QED BY <2>1, <2>2, <2>3, GoodCondBr
<1> HIDE DEF i, L1, L2
<1>11. CodeRuns(h, D, L1, {n + 2, n + 3} \cup w)
  <2>1. a.lab = AccLabel(Y, N, dead, {})
    BY <1>5 DEF Y, N
  <2>2. n + 1 \in {n + 1, n + 2, n + 3} \cup w
    OBVIOUS
  <2>3. CodeRuns(h, D, D[n + 1], ({n + 1, n + 2, n + 3} \cup w) \ {n + 1})
    BY <1>3, <1>7, <1>9, <1>10, <2>1, <2>2, RunsEndAndMove
  <2>4. ({n + 1, n + 2, n + 3} \cup w) \ {n + 1} = {n + 2, n + 3} \cup w
    BY <1>2, <1>7, Filled
  <2> HIDE DEF w
  <2> QED BY <1>7, <2>3, <2>4
<1>12. GenTyped(h) /\ SameRest(g1, h) /\ Len(h.code) = n + 3
  <2>1. n + 1 \in 1 .. Len(g1.code)
    BY <1>3, <1>8
  <2> QED BY <1>3, <1>9, <2>1, EndedAndMoved
<1> HIDE DEF h
<1>13. /\ h.todo = g.todo /\ h.prologue = g.prologue /\ h.break = g.break
       /\ h.continue = g.continue /\ h.temps = g.temps
  BY <1>3, <1>12 DEF SameRest
<1>14. x \in Task(Len(h.code), h.temps)
  BY <1>2, BlockFacts
<1>15. y \in Task(Len(h.code), h.temps)
  <2>1. y \in [kind : {"thenDone"}, else : Blocks, blocks : 0 .. (n + 3) - 3]
    BY <1>2, <1>8
  <2> HIDE DEF y
  <2> QED BY <1>12, <2>1 DEF Task, Frame
<1>16. y.kind = "thenDone" /\ y.blocks = n /\ y.else = t.else
  OBVIOUS
<1> DEFINE c == [lab |-> L1, waits |-> {n + 2, n + 3} \cup w, place |-> a.place]
           d == [lab |-> b.lab, waits |-> {n + 2, n + 3} \cup w, place |-> a.place]
<1>17. c.lab = L1 /\ c.waits = {n + 2, n + 3} \cup w /\ c.place = a.place
  OBVIOUS
<1>18. d.lab = b.lab /\ d.waits = {n + 2, n + 3} \cup w /\ d.place = a.place
  OBVIOUS
<1> HIDE DEF x, y, c, d
<1>19. L1.pins = {}
  BY LabelPins DEF L1
<1>20. Sound(h, c, D)
  BY <1>6, <1>11, <1>13, <1>17, <1>19 DEF Sound
<1>21. InPlace(a.place, D)
  BY <1>4, <1>7, InPlaceExtends
<1>22. Level(x, c, d, D)
  <2>1. Placed(x, c.place)
    BY <1>4, <1>17 DEF IfDecidedLevel, x
  <2>2. c.lab = Label(<<x>> \o R, Dead(c.place.prologue), {})
    BY <1>17 DEF L1, Y
  <2>3. d.lab = Label(R, Dead(c.place.prologue), {})
    BY <1>5, <1>17, <1>18
  <2> QED BY <1>2, <1>5, <1>17, <1>18, <1>21, <2>1, <2>2, <2>3, ArmStands
<1>23. Level(y, d, b, D)
  <2>1. Waiting(y) = {n + 2, n + 3} /\ ~IsLoop(y)
    BY <1>16 DEF Waiting, IsLoop
  <2>2. {n + 2, n + 3} \cap w = {}
    BY <1>7
  <2>3. D[n + 2] = Label(<<y.else>> \o R, dead, {})
    BY <1>7, <1>16 DEF L2, N
  <2>4. Entails(d.lab, b.lab)
    BY <1>18, EntailsItself
  <2>5. Placed(y.else, d.place)
    BY <1>4, <1>16, <1>18 DEF IfDecidedLevel
  <2> HIDE DEF dead, w
  <2>6. ThenDoneLevel(y, d, b, D)
    BY <1>5, <1>7, <1>16, <1>18, <2>3, <2>4, <2>5 DEF ThenDoneLevel, dead
  <2>7. Stands(y, d, b, D)
    BY <1>16, <2>6 DEF Stands
  <2> QED BY <1>4, <1>18, <1>21, <2>1, <2>2, <2>7 DEF Level, w
<1>24. Goes(g, GenerateThen(h, x, y), b, E)
  BY <1>7, <1>12, <1>13, <1>14, <1>15, <1>20, <1>22, <1>23, PushesTwo
<1> QED BY <1>1, <1>24

-----------------------------------------------------------------------------
(* What a frame knows of its blocks and of those that wait. *)
LEMMA FrameWaits ==
  ASSUME NEW g, GenTyped(g), NEW t \in Task(Len(g.code), g.temps), t.kind \in FrameKinds,
         NEW a, NEW b, NEW E, Sound(g, a, E), Level(t, a, b, E)
  PROVE  /\ t \in Frame(Len(g.code), g.temps) /\ Len(g.code) \in Nat /\ Len(E) = Len(g.code)
         /\ a.waits = Waiting(t) \cup b.waits /\ Waiting(t) \cap b.waits = {}
         /\ InPlace(a.place, E) /\ Stands(t, a, b, E) /\ b.lab.pins \subseteq a.lab.pins
         /\ CodeRuns(g, E, a.lab, a.waits) /\ Extends(E, E)
         /\ g.prologue = a.place.prologue /\ g.break = a.place.break
         /\ g.continue = a.place.continue
<1>1. t \in Frame(Len(g.code), g.temps)
  BY TaskIsNodeOrFrame
<1>2. CodeRuns(g, E, a.lab, a.waits)
  BY DEF Sound
<1>3. Extends(E, E) /\ Len(E) = Len(g.code)
  BY <1>2, ExtendsItself DEF CodeRuns
<1>4. Len(g.code) \in Nat
  BY GenFields
<1> QED BY <1>1, <1>2, <1>3, <1>4 DEF Level, Sound

(* The end of the first arm. *)
LEMMA ThenDoneGoes ==
  ASSUME NEW g, GenTyped(g), NEW t \in Task(Len(g.code), g.temps), t.kind = "thenDone",
         NEW a, NEW b, NEW E, Sound(g, a, E), Level(t, a, b, E)
  PROVE  Goes(g, Generate(g, t), b, E)
<1> DEFINE m == Len(g.code)
           n == t.blocks
           h == SetInsertPoint(BrUnlessTerminated(g, n + 3), n + 2)
           x == t.else
           y == [kind |-> "elseDone", blocks |-> n]
           dead == Dead(a.place.prologue)
           w == b.waits
<1>1. Generate(g, t) = GenerateThen(h, x, y)
  BY DEF Generate, ThenDone
<1>2. /\ t \in Frame(m, g.temps) /\ m \in Nat /\ Len(E) = m
      /\ a.waits = Waiting(t) \cup w /\ Waiting(t) \cap w = {}
      /\ InPlace(a.place, E) /\ Stands(t, a, b, E)
      /\ CodeRuns(g, E, a.lab, a.waits) /\ Extends(E, E)
      /\ g.prologue = a.place.prologue /\ g.break = a.place.break
      /\ g.continue = a.place.continue
  BY FrameWaits DEF FrameKinds
<1>3. Waiting(t) = {n + 2, n + 3} /\ b.place = a.place
  BY DEF Waiting, Level, IsLoop
<1>4. ThenDoneLevel(t, a, b, E)
  BY <1>2 DEF Stands
<1>5. x \in Blocks /\ n \in 0 .. m - 3
  BY <1>2, FrameParts
<1> HIDE DEF n
<1>6. n \in Nat /\ n + 2 \in 1 .. m /\ n + 3 \in 1 .. m
  <2> HIDE DEF m
  <2> QED BY <1>2, <1>5, BlockNumbers
<1>7. PICK R : Behind(R, a.place) /\ E[n + 2] = Label(<<x>> \o R, dead, {}) /\ b.lab = Label(R, dead, {})
  BY <1>4 DEF ThenDoneLevel, n
<1>8. GenTyped(h) /\ SameRest(g, h) /\ Len(h.code) = m
  BY <1>6, BranchAndMoveOn
<1>9. CodeRuns(h, E, E[n + 2], {n + 3} \cup w)
  <2>1. Entails(a.lab, E[n + 3])
    BY <1>4 DEF ThenDoneLevel, n
  <2>2. n + 2 \in a.waits
    BY <1>2, <1>3
  <2>3. CodeRuns(h, E, E[n + 2], a.waits \ {n + 2})
    BY <1>2, <1>6, <2>1, <2>2, RunsBranchAndMove
  <2>4. ({n + 2, n + 3} \cup w) \ {n + 2} = {n + 3} \cup w
    BY <1>2, <1>3, <1>6, Filled
  <2> HIDE DEF h, w
  <2> QED BY <1>2, <1>3, <2>3, <2>4
<1> HIDE DEF h
<1>10. /\ h.todo = g.todo /\ h.prologue = g.prologue /\ h.break = g.break
       /\ h.continue = g.continue /\ h.temps = g.temps
  BY <1>8 DEF SameRest
<1>11. x \in Task(Len(h.code), h.temps)
  BY <1>5, BlockFacts
<1>12. y \in Task(Len(h.code), h.temps)
  <2>1. y \in [kind : {"elseDone"}, blocks : 0 .. m - 3]
    BY <1>5
  <2> HIDE DEF y
  <2> QED BY <1>8, <2>1 DEF Task, Frame
<1>13. y.kind = "elseDone" /\ y.blocks = n
  OBVIOUS
<1> DEFINE l == Label(<<x>> \o R, dead, {})
           c == [lab |-> l, waits |-> {n + 3} \cup w, place |-> a.place]
           d == [lab |-> b.lab, waits |-> {n + 3} \cup w, place |-> a.place]
<1>14. c.lab = l /\ c.waits = {n + 3} \cup w /\ c.place = a.place
  OBVIOUS
<1>15. d.lab = b.lab /\ d.waits = {n + 3} \cup w /\ d.place = a.place
  OBVIOUS
<1>16. l.pins = {}
  <2> DEFINE T == <<x>> \o R
  <2> HIDE DEF dead, T
  <2>1. Label(T, dead, {}).pins = {}
    BY LabelFields
  <2> QED BY <2>1 DEF T
<1> HIDE DEF x, y, c, d
<1>17. Sound(h, c, E)
  BY <1>2, <1>7, <1>9, <1>10, <1>14, <1>16 DEF Sound
<1>18. Level(x, c, d, E)
  <2>1. Placed(x, c.place)
    BY <1>4, <1>14 DEF ThenDoneLevel, x
  <2> QED BY <1>2, <1>5, <1>7, <1>14, <1>15, <2>1, ArmStands
<1>19. Level(y, d, b, E)
  <2>1. Waiting(y) = {n + 3} /\ ~IsLoop(y)
    BY <1>13 DEF Waiting, IsLoop
  <2>2. {n + 3} \cap w = {}
    BY <1>2, <1>3
  <2>3. E[n + 3] = b.lab /\ Entails(d.lab, b.lab)
    BY <1>4, <1>15, EntailsItself DEF ThenDoneLevel, n
  <2>4. ElseDoneLevel(y, d, b, E)
    BY <1>13, <2>3 DEF ElseDoneLevel
  <2>5. Stands(y, d, b, E)
    BY <1>13, <2>4 DEF Stands
  <2> QED BY <1>2, <1>3, <1>15, <2>1, <2>2, <2>5 DEF Level, w
<1>20. Goes(g, GenerateThen(h, x, y), b, E)
  BY <1>2, <1>8, <1>10, <1>11, <1>12, <1>17, <1>18, <1>19, PushesTwo
<1> QED BY <1>1, <1>20

(* The end of the second one. *)
LEMMA ElseDoneGoes ==
  ASSUME NEW g, GenTyped(g), NEW t \in Task(Len(g.code), g.temps), t.kind = "elseDone",
         NEW a, NEW b, NEW E, Sound(g, a, E), Level(t, a, b, E)
  PROVE  Goes(g, Generate(g, t), b, E)
<1> DEFINE m == Len(g.code)
           n == t.blocks
           h == SetInsertPoint(BrUnlessTerminated(g, n + 3), n + 3)
           w == b.waits
<1>1. Generate(g, t) = h
  BY DEF Generate, ElseDone
<1>2. /\ t \in Frame(m, g.temps) /\ m \in Nat /\ Len(E) = m
      /\ a.waits = Waiting(t) \cup w /\ Waiting(t) \cap w = {}
      /\ InPlace(a.place, E) /\ Stands(t, a, b, E) /\ b.lab.pins \subseteq a.lab.pins
      /\ CodeRuns(g, E, a.lab, a.waits) /\ Extends(E, E)
      /\ g.prologue = a.place.prologue /\ g.break = a.place.break
      /\ g.continue = a.place.continue
  BY FrameWaits DEF FrameKinds
<1>3. Waiting(t) = {n + 3} /\ b.place = a.place
  BY DEF Waiting, Level, IsLoop
<1>4. Entails(a.lab, E[n + 3]) /\ E[n + 3] = b.lab
  BY <1>2 DEF Stands, ElseDoneLevel
<1>5. n \in 0 .. m - 3
  BY <1>2, FrameParts
<1> HIDE DEF n
<1>6. n \in Nat /\ n + 3 \in 1 .. m
  <2> HIDE DEF m
  <2> QED BY <1>2, <1>5, BlockNumbers
<1>7. SameRest(g, h)
  BY <1>6, BranchAndMoveOn
<1>8. CodeRuns(h, E, b.lab, w)
  <2>1. n + 3 \in a.waits
    BY <1>2, <1>3
  <2>2. CodeRuns(h, E, E[n + 3], a.waits \ {n + 3})
    BY <1>2, <1>4, <1>6, <2>1, RunsBranchAndMove
  <2>3. ({n + 3} \cup w) \ {n + 3} = w
    BY <1>2, <1>3, <1>6, Filled
  <2> HIDE DEF h, w
  <2> QED BY <1>2, <1>3, <1>4, <2>2, <2>3
<1> HIDE DEF h
<1>9. g.temps \in Nat /\ g.temps <= g.temps
  BY GenFields
<1>10. Goes(g, h, b, E)
  BY <1>2, <1>3, <1>7, <1>8, <1>9, Arrives DEF SameRest
<1> QED BY <1>1, <1>10

(* The end of the body of a loop: the members are those before it again. *)
LEMMA BodyDoneGoes ==
  ASSUME NEW g, GenTyped(g), NEW t \in Task(Len(g.code), g.temps), t.kind = "bodyDone",
         NEW a, NEW b, NEW E, Sound(g, a, E), Level(t, a, b, E)
  PROVE  Goes(g, Generate(g, t), b, E)
<1> DEFINE m == Len(g.code)
           n == t.blocks
           f == SetInsertPoint(BrUnlessTerminated(g, n + 1), n + 3)
           h == [f EXCEPT !.prologue = t.prologue, !.break = t.break, !.continue = t.continue]
           w == b.waits
<1>1. Generate(g, t) = h
  BY DEF Generate, BodyDone
<1>2. /\ t \in Frame(m, g.temps) /\ m \in Nat /\ Len(E) = m
      /\ a.waits = Waiting(t) \cup w /\ Waiting(t) \cap w = {}
      /\ InPlace(a.place, E) /\ Stands(t, a, b, E) /\ b.lab.pins \subseteq a.lab.pins
      /\ CodeRuns(g, E, a.lab, a.waits) /\ Extends(E, E)
  BY FrameWaits DEF FrameKinds
<1>3. Waiting(t) = {n + 3}
  BY DEF Waiting
<1>4. /\ b.place.prologue = t.prologue /\ b.place.break = t.break
      /\ b.place.continue = t.continue
  BY DEF Level, IsLoop
<1>5. Entails(a.lab, E[n + 1]) /\ E[n + 3] = b.lab
  BY <1>2 DEF Stands, BodyDoneLevel
<1>6. n \in 0 .. m - 3
  <2>1. t \in [kind : {"whileDecided", "bodyDone"}, body : Blocks, blocks : 0 .. m - 3,
               prologue : Seq(Assignments), break : 0 .. m, continue : 0 .. m]
    BY <1>2, FrameParts
  <2> HIDE DEF m
  <2> QED BY <2>1
<1> HIDE DEF n
<1>7. n \in Nat /\ n + 1 \in 1 .. m /\ n + 3 \in 1 .. m
  <2> HIDE DEF m
  <2> QED BY <1>2, <1>6, BlockNumbers
<1>8. GenTyped(f) /\ SameRest(g, f)
  BY <1>7, BranchAndMoveOn
<1>9. CodeRuns(f, E, b.lab, w)
  <2>1. n + 3 \in a.waits
    BY <1>2, <1>3
  <2>2. CodeRuns(f, E, E[n + 3], a.waits \ {n + 3})
    BY <1>2, <1>5, <1>7, <2>1, RunsBranchAndMove
  <2>3. ({n + 3} \cup w) \ {n + 3} = w
    BY <1>2, <1>3, <1>7, Filled
  <2> HIDE DEF f, w
  <2> QED BY <1>2, <1>3, <1>5, <2>2, <2>3
<1> HIDE DEF f
<1>10. /\ h.todo = f.todo /\ h.code = f.code /\ h.insert = f.insert /\ h.temps = f.temps
       /\ h.prologue = t.prologue /\ h.break = t.break /\ h.continue = t.continue
  BY <1>8, GenFields
<1> HIDE DEF h
<1>11. CodeRuns(h, E, b.lab, w)
  BY <1>9, <1>10, RunsSame
<1>12. g.temps \in Nat /\ g.temps <= g.temps
  BY GenFields
<1>13. Goes(g, h, b, E)
  BY <1>2, <1>4, <1>8, <1>10, <1>11, <1>12, Arrives DEF SameRest
<1> QED BY <1>1, <1>13

-----------------------------------------------------------------------------
(* A block opens. *)
LEMMA BlockOpens ==
  ASSUME NEW q \in Blocks, NEW R, IsText(R), NEW dead
  PROVE  Entails(Label(<<q>> \o R, dead, {}), Label(Opened(q) \o R, dead, {}))
<1> DEFINE U == Opened(q) \o R
<1>1. q.kind = "block"
  BY BlockParts
<1>2. \A e \in Envs : Unfold(q, R, e) = U /\ After(q, e) = e
  BY <1>1 DEF Unfold, After, Opened
<1>3. ~HasEffect(q)
  BY <1>1 DEF HasEffect
<1> HIDE DEF U
<1>4. Entails(Label(<<q>> \o R, dead, {}), Label(U, dead, {}))
  BY <1>2, <1>3, EntailsStep
<1> QED BY <1>4 DEF U

(* The condition of a loop has been decided: its body comes next. *)
LEMMA WhileDecidedGoes ==
  ASSUME NEW g, GenTyped(g), NEW t \in Task(Len(g.code), g.temps), t.kind = "whileDecided",
         NEW a, NEW b, NEW E, Sound(g, a, E), Level(t, a, b, E)
  PROVE  Goes(g, Generate(g, t), b, E)
<1> DEFINE m == Len(g.code)
           n == t.blocks
           F == [kind : {"whileDecided", "bodyDone"}, body : Blocks, blocks : 0 .. m - 3,
                 prologue : Seq(Assignments), break : 0 .. m, continue : 0 .. m]
           i == CondBr(TRUE, n + 2, n + 3)
           h == SetInsertPoint(Emit(g, i), n + 2)
           x == t.body
           y == [t EXCEPT !.kind = "bodyDone"]
           P == a.place.prologue
           dead == Dead(P)
           w == b.waits
<1>1. Generate(g, t) = GenerateThen(h, x, y)
  BY DEF Generate, WhileDecided
<1>2. /\ t \in Frame(m, g.temps) /\ m \in Nat /\ Len(E) = m
      /\ a.waits = Waiting(t) \cup w /\ Waiting(t) \cap w = {}
      /\ InPlace(a.place, E) /\ Stands(t, a, b, E)
      /\ CodeRuns(g, E, a.lab, a.waits) /\ Extends(E, E)
      /\ g.prologue = P /\ g.break = a.place.break /\ g.continue = a.place.continue
  BY FrameWaits DEF FrameKinds
<1>3. t \in F
  BY <1>2, FrameParts
<1>4. /\ y \in F /\ y.kind = "bodyDone" /\ y.blocks = n /\ y.break = t.break
      /\ y.continue = t.continue /\ y.prologue = t.prologue
  BY <1>3
<1>5. x \in Blocks /\ n \in 0 .. m - 3
  BY <1>3
<1>6. Waiting(t) = {n + 2, n + 3}
  BY DEF Waiting
<1>7. /\ InPlace(b.place, E) /\ b.place.prologue = t.prologue
      /\ b.place.break = t.break /\ b.place.continue = t.continue
  BY DEF Level, IsLoop
<1>8. y \in Task(m, g.temps)
  <2> HIDE DEF y
  <2> QED BY <1>4 DEF Task, Frame
<1>9. PICK mark, R, more :
        /\ mark.kind = "again" /\ IsText(R) /\ a.place.again = <<mark>> \o R
        /\ Own(x) \subseteq a.place.in
        /\ \/ mark.step = <<>> /\ Placed(x, a.place)
           \/ mark.step = P /\ P # <<>> /\ x.statements # <<>> /\ ~x.expects
        /\ a.lab = AccLabel(<<x, mark>> \o R, R, dead, {})
        /\ E[n + 1] = Label(<<Again(mark)>> \o R, dead, {})
        /\ E[n + 2] = Label(<<x, mark>> \o R, dead, {})
        /\ dead \subseteq more /\ E[n + 3] = Label(R, more, {}) /\ b.lab = Label(R, more, {})
  <2>1. WhileDecidedLevel(t, a, b, E)
    BY <1>2 DEF Stands
  <2> QED BY <2>1 DEF WhileDecidedLevel
<1> HIDE DEF n, y, F, P
<1>10. n \in Nat /\ n + 1 \in 1 .. m /\ n + 2 \in 1 .. m /\ n + 3 \in 1 .. m
  <2> HIDE DEF m
  <2> QED BY <1>2, <1>5, BlockNumbers
<1>11. i \in Instructions(m, g.temps)
  <2>1. i \in [op : {"cbr"}, when : BOOLEAN, to : 1 .. m, other : 1 .. m]
    BY <1>10 DEF CondBr
  <2> HIDE DEF i
  <2> QED BY <2>1 DEF Instructions
<1> DEFINE M == <<mark>> \o R
           Y == <<x>> \o M
<1>12. <<x, mark>> \o R = Y
  BY <1>9, TwoInFront
<1> HIDE DEF Y, dead
<1>13. Good(i, AccLabel(Y, R, dead, {}), b.lab, E)
  <2>1. Entails(Label(IF TRUE THEN Y ELSE R, dead, {}), E[n + 2])
    BY <1>9, <1>12, EntailsItself
  <2>2. Entails(Label(IF TRUE THEN R ELSE Y, dead, {}), E[n + 3])
    BY <1>9, EntailsLess
  <2>3. n + 2 \in 1 .. Len(E) /\ n + 3 \in 1 .. Len(E) /\ TRUE \in BOOLEAN
    BY <1>2, <1>10
  <2> QED BY <2>1, <2>2, <2>3, GoodCondBr
<1> HIDE DEF i
<1>14. CodeRuns(h, E, E[n + 2], {n + 3} \cup w)
  <2>1. n + 2 \in a.waits
    BY <1>2, <1>6
  <2>2. a.lab = AccLabel(Y, R, dead, {})
    BY <1>9, <1>12
  <2>3. CodeRuns(h, E, E[n + 2], a.waits \ {n + 2})
    BY <1>2, <1>11, <1>13, <2>1, <2>2, RunsEndAndMove
  <2>4. ({n + 2, n + 3} \cup w) \ {n + 2} = {n + 3} \cup w
    BY <1>2, <1>6, <1>10, Filled
  <2> HIDE DEF h, w
  <2> QED BY <1>2, <1>6, <2>3, <2>4
<1>15. GenTyped(h) /\ SameRest(g, h) /\ Len(h.code) = m
  BY <1>10, <1>11, EndedAndMoved
<1> HIDE DEF h
<1>16. /\ h.todo = g.todo /\ h.prologue = g.prologue /\ h.break = g.break
       /\ h.continue = g.continue /\ h.temps = g.temps
  BY <1>15 DEF SameRest
<1>17. x \in Task(Len(h.code), h.temps) /\ y \in Task(Len(h.code), h.temps)
  <2>1. x \in Task(Len(h.code), h.temps)
    BY <1>5, BlockFacts
  <2>2. y \in Task(Len(h.code), h.temps)
    BY <1>8, <1>15, <1>16
  <2> QED BY <2>1, <2>2
<1> DEFINE l == Label(Y, dead, {})
           k == IF mark.step = <<>> THEN Label(M, dead, {})
                ELSE Label(<<Again(mark)>> \o R, dead, {})
           c == [lab |-> l, waits |-> {n + 3} \cup w, place |-> a.place]
           d == [lab |-> k, waits |-> {n + 3} \cup w, place |-> a.place]
<1>18. c.lab = l /\ c.waits = {n + 3} \cup w /\ c.place = a.place
  OBVIOUS
<1>19. d.lab = k /\ d.waits = {n + 3} \cup w /\ d.place = a.place
  OBVIOUS
<1> HIDE DEF x, c, d
<1>20. Behind(M, a.place)
  <2>1. IsText(M) /\ FromAgain(M) = M
    BY <1>9, InFront, FromMark
  <2> QED BY <1>9, <2>1 DEF Behind
<1> HIDE DEF M
<1>21. l.pins = {} /\ k.pins = {} /\ b.lab.pins = {}
  <2> DEFINE Z == <<Again(mark)>> \o R
  <2> HIDE DEF Z
  <2>1. l.pins = {}
    BY LabelFields
  <2>2. Label(M, dead, {}).pins = {}
    BY LabelFields
  <2>3. Label(Z, dead, {}).pins = {}
    BY LabelFields
  <2>4. Label(R, more, {}).pins = {}
    BY LabelFields
  <2> QED BY <1>9, <2>1, <2>2, <2>3, <2>4 DEF Z
<1>22. Sound(h, c, E)
  BY <1>2, <1>9, <1>12, <1>14, <1>16, <1>18, <1>21 DEF Sound, P
<1>23. Level(x, c, d, E) /\ Entails(k, E[n + 1])
  <2>1. CASE mark.step = <<>>
    <3>1. k = Label(M, dead, {})
      BY <2>1
    <3>2. Placed(x, c.place)
      BY <1>9, <1>18, <2>1
    <3>3. c.lab = Label(<<x>> \o M, Dead(c.place.prologue), {})
      BY <1>18 DEF Y, dead, P
    <3>4. d.lab = Label(M, Dead(c.place.prologue), {})
      BY <1>18, <1>19, <3>1 DEF dead, P
    <3> HIDE DEF l, k
    <3>5. Level(x, c, d, E)
      BY <1>2, <1>5, <1>18, <1>19, <1>20, <3>2, <3>3, <3>4, ArmStands
    <3>6. Entails(k, E[n + 1])
      BY <1>9, <2>1, <3>1, MarkEntails DEF M
    <3> QED BY <3>5, <3>6
  <2>2. CASE mark.step # <<>>
    <3>1. k = Label(<<Again(mark)>> \o R, dead, {})
      BY <2>2
    <3>2. mark.step = P /\ P # <<>> /\ x.statements # <<>> /\ ~x.expects
      BY <1>9, <2>2
    <3>3. Entails(k, E[n + 1])
      BY <1>9, <3>1, EntailsItself
    <3>4. AtEnd(M, P, d.lab)
      BY <1>9, <1>19, <3>1, <3>2 DEF AtEnd, M, dead
    <3>5. Entails(c.lab, Label(Opened(x) \o M, Dead(P), {}))
      <4>1. IsText(M)
        BY <1>20 DEF Behind
      <4>2. Entails(Label(<<x>> \o M, Dead(P), {}), Label(Opened(x) \o M, Dead(P), {}))
        BY <1>5, <4>1, BlockOpens
      <4> QED BY <1>18, <4>2 DEF Y, dead
    <3> HIDE DEF l, k
    <3>6. BlockLevel(x, c, d)
      BY <1>9, <1>18, <1>20, <3>2, <3>4, <3>5 DEF BlockLevel, P
    <3>7. x.kind = "block" /\ x.kind \in NodeKinds
      BY <1>5, BlockParts
    <3>8. Stands(x, c, d, E)
      BY <3>6, <3>7 DEF Stands
    <3>9. Level(x, c, d, E)
      <4>1. x.kind \in NodeKinds \cup {"condition", "statements"}
        BY <3>7
      <4>2. c.waits = d.waits /\ d.place = c.place /\ d.lab.pins \subseteq c.lab.pins
            /\ InPlace(c.place, E)
        BY <1>2, <1>18, <1>19, <1>21
      <4> QED BY <3>8, <4>1, <4>2, NodeLevel
    <3> QED BY <3>3, <3>9
  <2> QED BY <2>1, <2>2
<1> HIDE DEF l, k
<1>24. Level(y, d, b, E)
  <2>1. Waiting(y) = {n + 3} /\ IsLoop(y)
    BY <1>4 DEF Waiting, IsLoop
  <2>2. {n + 3} \cap w = {}
    BY <1>2, <1>6
  <2>3. E[n + 3] = b.lab
    BY <1>9
  <2>4. BodyDoneLevel(y, d, b, E)
    BY <1>4, <1>19, <1>23, <2>3 DEF BodyDoneLevel
  <2>5. Stands(y, d, b, E)
    BY <1>4, <2>4 DEF Stands
  <2> QED BY <1>2, <1>4, <1>7, <1>19, <1>21, <2>1, <2>2, <2>5 DEF Level, w
<1>25. Goes(g, GenerateThen(h, x, y), b, E)
  BY <1>2, <1>15, <1>16, <1>17, <1>22, <1>23, <1>24, PushesTwo
<1> QED BY <1>1, <1>25 DEF x, y

-----------------------------------------------------------------------------
(* The prologue in a loop is the one around it, or its own. *)
LEMMA LoopPrologue ==
  ASSUME prog \in Programs, NEW S, NEW P, Region(S, P), NEW t, t.prologue \in Seq(Assignments),
         LoopFits(t, P)
  PROVE  /\ t.prologue = <<>> => P \o t.prologue = P
         /\ t.prologue # <<>> => P = <<>> /\ P \o t.prologue = t.prologue
         /\ Dead(P \o t.prologue) \subseteq Dead(P)
         /\ P = <<>> => Dead(P) = Counters(prog) /\ P \o t.prologue = t.prologue
<1> DEFINE r == t.prologue
<1>1. P = <<>> \/ r = <<>>
  BY DEF LoopFits
<1>2. IsText(P) /\ IsText(r)
  <2>1. P = <<>> \/ \E st \in Assignments : P = <<st>>
    BY RegionSteps
  <2>2. IsText(P)
    BY <2>1, OneText
  <2> QED BY <2>2 DEF IsText
<1> HIDE DEF r
<1>3. r = <<>> => P \o r = P
  BY <1>2, EmptyBehind
<1>4. P = <<>> => P \o r = r
  BY <1>2, InFront
<1>5. P = <<>> => Dead(P) = Counters(prog)
  <2>1. P = <<>> => 1 .. Len(P) = {}
    OBVIOUS
  <2> QED BY <2>1 DEF Dead
<1>6. Dead(P \o r) \subseteq Counters(prog)
  BY DEF Dead
<1>7. Dead(P \o r) \subseteq Dead(P)
  BY <1>1, <1>3, <1>5, <1>6
<1> QED BY <1>1, <1>3, <1>4, <1>5, <1>7 DEF r

(* A while loop: first its condition, in a block of its own. *)
LEMMA WhileGoes ==
  ASSUME prog \in Programs, NEW g, GenTyped(g), NEW t \in Task(Len(g.code), g.temps),
         t.kind = "while", NEW a, NEW b, NEW E, Sound(g, a, E), Level(t, a, b, E)
  PROVE  Goes(g, Generate(g, t), b, E)
<1> DEFINE n == Len(g.code)
           g0 == [g EXCEPT !.aborted = @ \/ Terminated(g)]
           g1 == NewBlocks(g0, 3)
           e == Emit(g1, Br(n + 1))
           g2 == [e EXCEPT !.prologue = @ \o t.prologue, !.break = n + 3, !.continue = n + 1]
           h == SetInsertPoint(g2, n + 1)
           x == Evaluate(t.condition)
           y == [kind |-> "whileDecided", body |-> t.body, blocks |-> n,
                 prologue |-> g.prologue, break |-> g.break, continue |-> g.continue]
           P == a.place.prologue
           r == t.prologue
           Q == P \o r
           dead == Dead(Q)
           w == b.waits
<1>1. Generate(g, t) = GenerateThen(h, x, y)
  BY DEF Generate, GenerateWhile
<1>2. /\ t.condition \in Condition /\ t.body \in Blocks /\ r \in Seq(Assignments)
      /\ n \in Nat /\ g.prologue \in Seq(Assignments) /\ g.break \in 0 .. n /\ g.continue \in 0 .. n
  <2>1. t \in Node
    BY TaskIsNodeOrFrame DEF NodeKinds
  <2> QED BY <2>1, NodeParts, GenFields
<1>3. /\ GenTyped(g0) /\ g0.todo = g.todo /\ g0.code = g.code /\ g0.insert = g.insert
      /\ g0.prologue = g.prologue /\ g0.break = g.break /\ g0.continue = g.continue
      /\ g0.temps = g.temps
  <2>1. Terminated(g) \in BOOLEAN
    BY DEF Terminated
  <2> QED BY <2>1, AbortTyped
<1>4. /\ a.waits = w /\ b.place = a.place /\ InPlace(a.place, E) /\ WhileLevel(t, a, b)
      /\ b.lab.pins \subseteq a.lab.pins
  <2>1. Stands(t, a, b, E)
    BY NodeLevel DEF NodeKinds
  <2> QED BY <2>1, NodeLevel, ZenonT(40) DEF NodeKinds, Stands
<1>5. LoopFits(t, P) /\ Region(a.place.in, P)
  BY <1>4 DEF WhileLevel, InPlace
<1>6. PICK R : /\ IsText(R) /\ FromAgain(R) = a.place.again
               /\ a.lab = Label(<<t>> \o R, dead, {}) /\ b.lab = Label(R, Dead(P), {})
  BY <1>4 DEF WhileLevel, Behind
<1>7. PICK X : /\ Region(X, Q) /\ Own(t.body) \subseteq X
               /\ P # <<>> => \A s \in X : s.kind \notin Jumps
  BY <1>5 DEF LoopFits
<1> HIDE DEF dead
<1>8. /\ r = <<>> => Q = P
      /\ r # <<>> => P = <<>> /\ Q = r
      /\ dead \subseteq Dead(P)
      /\ P = <<>> => Dead(P) = Counters(prog) /\ Q = r
  BY <1>2, <1>5, LoopPrologue DEF dead
<1>9. CodeRuns(g, E, a.lab, w) /\ g.prologue = P /\ g.break = a.place.break
      /\ g.continue = a.place.continue
  BY <1>4 DEF Sound
<1>10. CodeRuns(g0, E, a.lab, w)
  <2> HIDE DEF g0
  <2> QED BY <1>3, <1>9, RunsSame
<1> DEFINE loop == Loop(t.condition, t.body, r)
           mark == [loop EXCEPT !.kind = "again"]
           S == <<loop>> \o R
           M == <<mark>> \o R
           Y == <<t.body, mark>>
           B == <<t.body, mark>> \o R
           U == <<Branch(t.condition, Y, <<>>)>> \o R
           L1 == Label(S, dead, {})
           L2 == Label(B, dead, {})
           D == WithThree(E, L1, L2, b.lab)
<1>11. /\ loop.kind = "loop" /\ loop.condition = t.condition /\ loop.body = t.body /\ loop.step = r
       /\ mark.kind = "again" /\ mark.step = r /\ Again(mark) = loop
  <2>1. /\ loop = [kind |-> "loop", condition |-> t.condition, body |-> t.body, step |-> r]
        /\ mark = [kind |-> "again", condition |-> t.condition, body |-> t.body, step |-> r]
    BY DEF Loop
  <2> HIDE DEF loop, mark
  <2>2. /\ loop.kind = "loop" /\ loop.condition = t.condition /\ loop.body = t.body
        /\ loop.step = r /\ mark.kind = "again" /\ mark.step = r
    BY <2>1
  <2>3. [mark EXCEPT !.kind = "loop"] = loop
    BY <2>1
  <2> QED BY <2>2, <2>3 DEF Again
<1>12. Unfold(loop, R, [v \in Var |-> 0]) = U /\ \A d \in Envs : Unfold(loop, R, d) = U
  BY <1>11 DEF Unfold
<1>13. \A d \in Envs : Unfold(t, R, d) = S
  BY DEF Unfold
<1> HIDE DEF loop, mark, U, S
<1>14. /\ CodeRuns(g1, D, a.lab, {n + 1, n + 2, n + 3} \cup w)
       /\ {n + 1, n + 2, n + 3} \cap w = {}
       /\ Extends(E, D) /\ Len(D) = n + 3
       /\ D[n + 1] = L1 /\ D[n + 2] = L2 /\ D[n + 3] = b.lab
  <2>1. Len(g0.code) = n
    BY <1>3
  <2> HIDE DEF g0, L1, L2, n, w
  <2>2. CodeRuns(g1, D, a.lab, {n + 1, n + 2, n + 3} \cup w)
    BY <1>3, <1>10, <2>1, NewLabels
  <2>3. {n + 1, n + 2, n + 3} \cap w = {}
    BY <1>3, <1>10, <2>1, NewLabels
  <2>4. IsText(E) /\ Len(E) = n
    BY <1>10, <2>1 DEF CodeRuns
  <2>5. /\ Extends(E, D) /\ Len(D) = n + 3
        /\ D[n + 1] = L1 /\ D[n + 2] = L2 /\ D[n + 3] = b.lab
    BY <2>4, ThreeLabels
  <2> QED BY <2>2, <2>3, <2>5
<1>15. GenTyped(g1) /\ SameRest(g0, g1) /\ Len(g1.code) = n + 3
  <2>1. Len(g0.code) = n
    BY <1>3
  <2> HIDE DEF g0, n
  <2> QED BY <1>3, <2>1, NewBlocksFacts
<1> HIDE DEF g1, n, D, B
<1>16. n \in 0 .. (n + 3) - 3 /\ n + 1 \in 1 .. n + 3 /\ n + 2 \in 1 .. n + 3 /\ n + 3 \in 1 .. n + 3
  BY <1>2, NewNumbers
<1>17. Br(n + 1) \in Instructions(Len(g1.code), g1.temps)
  BY <1>15, <1>16 DEF Br, Instructions
<1>18. GenTyped(e) /\ SameRest(g1, e) /\ Len(e.code) = n + 3 /\ e.insert = g1.insert
  BY <1>15, <1>17, EmitTyped
<1>19. Entails(a.lab, L1)
  <2>1. \A d \in Envs : Unfold(t, R, d) = S /\ After(t, d) = d
    BY <1>13 DEF After
  <2>2. ~HasEffect(t)
    BY DEF HasEffect
  <2> QED BY <1>6, <2>1, <2>2, EntailsStep
<1>20. CodeRuns(SetInsertPoint(e, n + 1), D, L1, {n + 2, n + 3} \cup w)
  <2>1. Entails(a.lab, D[n + 1])
    BY <1>14, <1>19
  <2> HIDE DEF L1, L2, w
  <2>2. n + 1 \in 1 .. Len(D)
    BY <1>14, <1>16
  <2>3. Good(Br(n + 1), a.lab, a.lab, D)
    BY <2>1, <2>2, GoodBr
  <2>4. n + 1 \in {n + 1, n + 2, n + 3} \cup w
    OBVIOUS
  <2>5. CodeRuns(SetInsertPoint(Emit(g1, Br(n + 1)), n + 1), D, D[n + 1],
                 ({n + 1, n + 2, n + 3} \cup w) \ {n + 1})
    BY <1>14, <1>15, <1>17, <2>3, <2>4, RunsEndAndMove
  <2>6. ({n + 1, n + 2, n + 3} \cup w) \ {n + 1} = {n + 2, n + 3} \cup w
    BY <1>2, <1>14, Filled
  <2> QED BY <1>14, <2>5, <2>6
<1> HIDE DEF e
<1>21. /\ g2.todo = e.todo /\ g2.code = e.code /\ g2.insert = e.insert /\ g2.temps = e.temps
       /\ g2.aborted = e.aborted /\ g2.prologue = e.prologue \o r
       /\ g2.break = n + 3 /\ g2.continue = n + 1 /\ GenTyped(g2)
  <2> DEFINE p == e.prologue \o r
  <2>1. e = [todo |-> e.todo, code |-> e.code, insert |-> e.insert, prologue |-> e.prologue,
             break |-> e.break, continue |-> e.continue, temps |-> e.temps,
             aborted |-> e.aborted]
    BY <1>18, GenFields
  <2>2. g2 = [e EXCEPT !.prologue = p, !.break = n + 3, !.continue = n + 1]
    OBVIOUS
  <2>3. p \in Seq(Assignments)
    <3>1. e.prologue \in Seq(Assignments)
      BY <1>18, GenFields
    <3> HIDE DEF r
    <3> QED BY <1>2, <3>1, ConcatFacts
  <2> HIDE DEF g2, p
  <2>4. g2 = [todo |-> e.todo, code |-> e.code, insert |-> e.insert, prologue |-> p,
              break |-> n + 3, continue |-> n + 1, temps |-> e.temps,
              aborted |-> e.aborted]
    BY <2>1, <2>2
  <2>5. n + 3 \in 0 .. Len(e.code) /\ n + 1 \in 0 .. Len(e.code)
    BY <1>2, <1>18
  <2>6. GenTyped(g2)
    BY <1>18, <2>3, <2>4, <2>5, TargetsTyped
  <2>7. /\ g2.todo = e.todo /\ g2.code = e.code /\ g2.insert = e.insert /\ g2.temps = e.temps
        /\ g2.aborted = e.aborted /\ g2.prologue = p
        /\ g2.break = n + 3 /\ g2.continue = n + 1
    BY <2>4
  <2> HIDE DEF r
  <2> QED BY <2>6, <2>7 DEF p
<1> HIDE DEF g2
<1>22. GenTyped(h) /\ SameRest(g2, h) /\ h.insert = n + 1 /\ h.code = g2.code
  <2>1. n + 1 \in 1 .. Len(g2.code)
    BY <1>16, <1>18, <1>21
  <2> QED BY <1>21, <2>1, SetInsertPointTyped
<1>23. CodeRuns(h, D, L1, {n + 2, n + 3} \cup w)
  <2>1. SetInsertPoint(e, n + 1).code = e.code /\ SetInsertPoint(e, n + 1).insert = n + 1
    <3>1. n + 1 \in 1 .. Len(e.code)
      BY <1>16, <1>18
    <3> QED BY <1>18, <3>1, SetInsertPointTyped
  <2> HIDE DEF h, L1, w
  <2> QED BY <1>20, <1>21, <1>22, <2>1, RunsSame
<1> HIDE DEF h
<1>24. /\ h.todo = g.todo /\ h.temps = g.temps /\ h.break = n + 3 /\ h.continue = n + 1
       /\ h.prologue = Q /\ Len(h.code) = n + 3 /\ h.aborted = g0.aborted
  <2> HIDE DEF g0, r
  <2>1. /\ e.todo = g.todo /\ e.temps = g.temps /\ e.prologue = P
        /\ Len(e.code) = n + 3 /\ e.aborted = g0.aborted
    BY <1>3, <1>9, <1>15, <1>18 DEF SameRest
  <2>2. /\ g2.todo = g.todo /\ g2.temps = g.temps /\ g2.prologue = P \o r
        /\ Len(g2.code) = n + 3 /\ g2.aborted = g0.aborted
        /\ g2.break = n + 3 /\ g2.continue = n + 1
    BY <1>21, <2>1
  <2> QED BY <1>22, <2>2 DEF SameRest
<1>25. x \in Task(Len(h.code), h.temps) /\ x.kind = "condition" /\ x.condition = t.condition
  BY <1>2, EvaluateFacts DEF Evaluate
<1>26. y \in Task(Len(h.code), h.temps)
  <2>1. y \in [kind : {"whileDecided", "bodyDone"}, body : Blocks, blocks : 0 .. (n + 3) - 3,
               prologue : Seq(Assignments), break : 0 .. n + 3, continue : 0 .. n + 3]
    <3>1. g.break \in 0 .. n + 3 /\ g.continue \in 0 .. n + 3
      BY <1>2
    <3> QED BY <1>2, <1>16, <3>1
  <2> HIDE DEF y
  <2> QED BY <1>24, <2>1 DEF Task, Frame
<1>27. /\ y.kind = "whileDecided" /\ y.body = t.body /\ y.blocks = n
       /\ y.prologue = g.prologue /\ y.break = g.break /\ y.continue = g.continue
  OBVIOUS
<1> DEFINE p == [in |-> X, prologue |-> Q, break |-> n + 3, continue |-> n + 1, again |-> M]
           l == Label(U, dead, {})
           k == AccLabel(B, R, dead, {})
           c == [lab |-> l, waits |-> {n + 2, n + 3} \cup w, place |-> p]
           d == [lab |-> k, waits |-> {n + 2, n + 3} \cup w, place |-> p]
<1>28. /\ p.in = X /\ p.prologue = Q /\ p.break = n + 3 /\ p.continue = n + 1 /\ p.again = M
  OBVIOUS
<1>29. c.lab = l /\ c.waits = {n + 2, n + 3} \cup w /\ c.place = p
  OBVIOUS
<1>30. d.lab = k /\ d.waits = {n + 2, n + 3} \cup w /\ d.place = p
  OBVIOUS
<1> HIDE DEF x, y, c, d, p, Q, P
<1>31. l.pins = {} /\ k.pins = {} /\ b.lab.pins = {}
  <2>1. l.pins = {}
    BY LabelFields
  <2>2. k.pins = {}
    BY LabelFields
  <2>3. Label(R, Dead(P), {}).pins = {}
    BY LabelFields
  <2> QED BY <1>6, <2>1, <2>2, <2>3
<1>32. Entails(L1, l)
  <2>1. \A f \in Envs : Unfold(loop, R, f) = U /\ After(loop, f) = f
    BY <1>11, <1>12 DEF After
  <2>2. ~HasEffect(loop)
    BY <1>11 DEF HasEffect
  <2> QED BY <1>6, <2>1, <2>2, EntailsStep DEF S
<1> HIDE DEF L1, L2, l, k
<1>33. Sound(h, c, D)
  <2>1. CodeRuns(h, D, l, {n + 2, n + 3} \cup w)
    BY <1>23, <1>32, RunsOn
  <2> QED BY <1>24, <1>28, <1>29, <1>31, <2>1 DEF Sound
<1>34. InPlace(p, D)
  <2>1. ASSUME \E s \in X : s.kind \in Jumps PROVE JumpsLead(p, D)
    <3>1. P = <<>>
      BY <1>7, <2>1
    <3>2. Q = r /\ Dead(P) = Counters(prog)
      BY <1>8, <3>1
    <3>3. mark.step = p.prologue /\ p.again = <<mark>> \o R
      BY <1>11, <1>28, <3>2
    <3>4. p.break \in 1 .. Len(D) /\ D[p.break] = Label(R, Counters(prog), {})
      BY <1>6, <1>14, <1>16, <1>28, <3>2
    <3>5. p.continue \in 1 .. Len(D) /\ D[p.continue] = Label(<<Again(mark)>> \o R, Dead(p.prologue), {})
      BY <1>11, <1>14, <1>16, <1>28 DEF L1, S, dead
    <3> QED BY <1>6, <1>11, <3>3, <3>4, <3>5 DEF JumpsLead
  <2> QED BY <1>7, <1>28, <2>1 DEF InPlace
<1>35. Level(x, c, d, D)
  <2>1. Clear(t.condition, dead)
    BY <1>5 DEF LoopFits, dead, Q
  <2>2. IsText(Y) /\ IsText(<<>>)
    BY OneText
  <2>3. <<>> \o R = R
    BY <1>6, InFront
  <2>4. c.lab = Label(<<Branch(t.condition, Y, <<>>)>> \o R, dead, c.lab.pins)
    BY <1>29, <1>31 DEF l, U
  <2>5. d.lab = AccLabel(Y \o R, <<>> \o R, dead, c.lab.pins)
    BY <1>29, <1>30, <1>31, <2>3 DEF k, B
  <2> HIDE DEF Y
  <2>6. ConditionLevel(t.condition, c, d)
    BY <1>6, <2>1, <2>2, <2>4, <2>5 DEF ConditionLevel
  <2>7. Stands(x, c, d, D)
    BY <1>25, <2>6 DEF Stands
  <2>8. x.kind \in NodeKinds \cup {"condition", "statements"}
    BY <1>25
  <2>9. c.waits = d.waits /\ d.place = c.place /\ d.lab.pins \subseteq c.lab.pins
        /\ InPlace(c.place, D)
    BY <1>29, <1>30, <1>31, <1>34
  <2> QED BY <2>7, <2>8, <2>9, NodeLevel
<1>36. Level(y, d, b, D)
  <2>1. Waiting(y) = {n + 2, n + 3} /\ IsLoop(y)
    BY <1>27 DEF Waiting, IsLoop
  <2>2. {n + 2, n + 3} \cap w = {}
    BY <1>14
  <2>3. \/ mark.step = <<>> /\ Placed(y.body, d.place)
        \/ /\ mark.step = d.place.prologue /\ d.place.prologue # <<>>
           /\ y.body.statements # <<>> /\ ~y.body.expects
    <3>1. CASE r = <<>>
      <4>1. Q = P
        BY <1>8, <3>1
      <4>2. P # <<>> => AddsNoStep(t.body)
        BY <1>5 DEF LoopFits
      <4>3. Placed(y.body, d.place)
        BY <1>7, <1>27, <1>28, <1>30, <4>1, <4>2 DEF Placed
      <4> QED BY <1>11, <3>1, <4>3
    <3>2. CASE r # <<>>
      <4>1. Q = r
        BY <1>8, <3>2
      <4>2. t.body.statements # <<>> /\ ~t.body.expects
        BY <1>5, <3>2 DEF LoopFits
      <4> QED BY <1>11, <1>27, <1>28, <1>30, <3>2, <4>1, <4>2
    <3> QED BY <3>1, <3>2
  <2>4. dead = Dead(d.place.prologue)
    BY <1>28, <1>30 DEF dead
  <2>5. d.place.again = <<mark>> \o R /\ Own(y.body) \subseteq d.place.in
    BY <1>7, <1>27, <1>28, <1>30
  <2>6. d.lab = AccLabel(<<y.body, mark>> \o R, R, dead, {})
    BY <1>27, <1>30 DEF k, B
  <2>7. D[n + 1] = Label(<<Again(mark)>> \o R, dead, {})
    BY <1>11, <1>14 DEF L1, S
  <2>8. D[n + 2] = Label(<<y.body, mark>> \o R, dead, {})
    BY <1>14, <1>27 DEF L2, B
  <2>9. /\ dead \subseteq Dead(P) /\ D[n + 3] = Label(R, Dead(P), {})
        /\ b.lab = Label(R, Dead(P), {})
    BY <1>6, <1>8, <1>14
  <2>10. WhileDecidedLevel(y, d, b, D)
    BY <1>6, <1>11, <1>27, <2>3, <2>4, <2>5, <2>6, <2>7, <2>8, <2>9, ZenonT(40) DEF WhileDecidedLevel
  <2>11. Stands(y, d, b, D)
    BY <1>27, <2>10 DEF Stands
  <2>12. InPlace(b.place, D)
    BY <1>4, <1>14, InPlaceExtends
  <2>13. /\ b.place.prologue = y.prologue /\ b.place.break = y.break
         /\ b.place.continue = y.continue
    BY <1>4, <1>9, <1>27 DEF P
  <2> QED BY <1>30, <1>31, <1>34, <2>1, <2>2, <2>11, <2>12, <2>13 DEF Level, w
<1>37. Goes(g, GenerateThen(h, x, y), b, E)
  BY <1>14, <1>22, <1>24, <1>25, <1>26, <1>33, <1>35, <1>36, PushesTwo
<1> QED BY <1>1, <1>37 DEF x, y, Q

-----------------------------------------------------------------------------
(* A question or a comparison is one instruction. *)
LEMMA AtomGoes ==
  ASSUME NEW g, GenTyped(g), NEW t \in Task(Len(g.code), g.temps), t.kind = "condition",
         t.condition \in Questions \cup Compares,
         NEW a, NEW b, NEW E, Sound(g, a, E), Level(t, a, b, E)
  PROVE  Goes(g, Emit(g, t.condition), b, E)
<1> DEFINE c == t.condition
           pins == a.lab.pins
<1>1. /\ a.waits = b.waits /\ b.place = a.place /\ b.lab.pins \subseteq pins
      /\ Stands(t, a, b, E)
  BY NodeLevel
<1>2. PICK Y, N, R, dead :
        /\ IsText(Y) /\ IsText(N) /\ IsText(R) /\ Clear(c, dead)
        /\ a.lab = Label(<<Branch(c, Y, N)>> \o R, dead, pins)
        /\ b.lab = AccLabel(Y \o R, N \o R, dead, pins)
  BY <1>1 DEF Stands, ConditionLevel
<1>3. c \in Instructions(Len(g.code), g.temps)
  BY DEF Instructions
<1>4. c \in Condition
  <2>1. t \in Frame(Len(g.code), g.temps)
    BY TaskIsNodeOrFrame DEF FrameKinds
  <2> QED BY <2>1, FrameParts
<1> HIDE DEF c, pins
<1>5. CASE c \in Questions
  <2>1. c.op = "ask"
    BY <1>5 DEF Questions
  <2>2. Good(c, a.lab, b.lab, E)
    BY <1>2, <2>1, GoodQuestion
  <2> QED BY <1>1, <1>3, <2>2, OneInstruction DEF c, pins
<1>6. CASE c \in Compares
  <2>1. c.op = "compare"
    BY <1>6 DEF Compares
  <2>2. c.var \in Reads(c)
    BY <1>4, <2>1, ReadsAssumption
  <2>3. c.var \notin dead
    BY <1>2, <2>1, <2>2 DEF Clear
  <2>4. Good(c, a.lab, b.lab, E)
    BY <1>2, <1>6, <2>3, GoodCompare
  <2> QED BY <1>1, <1>3, <2>4, OneInstruction DEF c, pins
<1> QED BY <1>5, <1>6 DEF c

(* The operands read no more than their operator does. *)
LEMMA OperandsClear ==
  ASSUME NEW c \in Junctions, c \in Condition, NEW dead, Clear(c, dead)
  PROVE  Clear(c.lhs, dead) /\ Clear(c.rhs, dead) /\ c.op \in {"and", "or"}
<1>1. c.op \in {"and", "or"}
  BY DEF Junctions
<1>2. Reads(c) \cap dead = {}
  BY <1>1 DEF Clear
<1>3. Reads(c.lhs) \cup Reads(c.rhs) \subseteq Reads(c)
  BY <1>1, ReadsAssumption
<1> QED BY <1>1, <1>2, <1>3 DEF Clear

(* The text decides the operator by its first operand. *)
LEMMA JunctionEntails ==
  ASSUME NEW c \in Junctions, NEW Y, IsText(Y), NEW N, IsText(N), NEW R, IsText(R),
         NEW dead, NEW pins
  PROVE  LET Z == <<Branch(c.rhs, Y, N)>>
             A == IF GoesOn(c) THEN Z ELSE Y
             B == IF GoesOn(c) THEN N ELSE Z
         IN  Entails(Label(<<Branch(c, Y, N)>> \o R, dead, pins),
                     Label(<<Branch(c.lhs, A, B)>> \o R, dead, pins))
<1> DEFINE Z == <<Branch(c.rhs, Y, N)>>
           A == IF GoesOn(c) THEN Z ELSE Y
           B == IF GoesOn(c) THEN N ELSE Z
           s == Branch(c, Y, N)
           U == <<Branch(c.lhs, A, B)>> \o R
<1>1. s.kind = "branch" /\ s.condition = c /\ s.yes = Y /\ s.no = N
  BY BranchFields
<1> HIDE DEF s
<1>2. c.op \in {"and", "or"}
  BY DEF Junctions
<1>3. ~HasEffect(s)
  BY <1>1, <1>2 DEF HasEffect
<1>4. ASSUME NEW e PROVE Decide(s, e) = <<Branch(c.lhs, A, B)>>
  <2>1. CASE c.op = "and"
    <3>1. GoesOn(c)
      BY <2>1 DEF GoesOn
    <3>2. Decide(s, e) = <<Branch(c.lhs, <<Branch(c.rhs, Y, N)>>, N)>>
      BY <1>1, <2>1 DEF Decide
    <3> QED BY <3>1, <3>2
  <2>2. CASE c.op = "or"
    <3>1. ~GoesOn(c)
      BY <2>2 DEF GoesOn
    <3>2. Decide(s, e) = <<Branch(c.lhs, Y, <<Branch(c.rhs, Y, N)>>)>>
      BY <1>1, <2>2 DEF Decide
    <3> QED BY <3>1, <3>2
  <2> QED BY <1>2, <2>1, <2>2
<1>5. \A e \in Envs : Unfold(s, R, e) = U /\ After(s, e) = e
  <2> TAKE e \in Envs
  <2>1. Unfold(s, R, e) = Decide(s, e) \o R
    BY <1>1 DEF Unfold
  <2>2. After(s, e) = e
    BY <1>1 DEF After
  <2> HIDE DEF A, B
  <2> QED BY <1>4, <2>1, <2>2
<1> HIDE DEF U
<1>6. Entails(Label(<<s>> \o R, dead, pins), Label(U, dead, pins))
  BY <1>3, <1>5, EntailsStep
<1> QED BY <1>6 DEF U, s

(* An operator: its first operand comes next. *)
LEMMA ShortCircuitGoes ==
  ASSUME NEW g, GenTyped(g), NEW t \in Task(Len(g.code), g.temps), t.kind = "condition",
         t.condition \in Junctions,
         NEW a, NEW b, NEW E, Sound(g, a, E), Level(t, a, b, E)
  PROVE  Goes(g, ShortCircuit(g, t.condition), b, E)
<1> DEFINE q == t.condition
           n == Len(g.code)
           u == g.temps + 1
           g0 == [g EXCEPT !.temps = u]
           i == Set(u, ~GoesOn(q))
           g1 == Emit(g0, i)
           g2 == NewBlocks(g1, 3)
           x == Evaluate(q.lhs)
           y == [kind |-> "lhsDone", condition |-> q, blocks |-> n, temp |-> u]
           w == b.waits
           pins == a.lab.pins
           more == pins \cup {<<u, ~GoesOn(q)>>}
<1>1. ShortCircuit(g, q) = GenerateThen(g2, x, y)
  BY DEF ShortCircuit
<1>2. /\ GenTyped(g0) /\ g0.temps = u
      /\ g0.todo = g.todo /\ g0.code = g.code /\ g0.insert = g.insert
      /\ g0.prologue = g.prologue /\ g0.break = g.break /\ g0.continue = g.continue
  BY TempTyped
<1>3. g.temps \in Nat /\ u \in Nat /\ u \in 1 .. u /\ u \notin 1 .. g.temps
      /\ n \in Nat /\ n \in 0 .. (n + 3) - 3
  <2>1. g.temps \in Nat /\ n \in Nat
    BY GenFields
  <2> QED BY <2>1
<1>4. i \in Instructions(n, u)
  <2>1. i \in [op : {"set"}, temp : 1 .. u, value : BOOLEAN]
    BY <1>3 DEF Set
  <2> HIDE DEF i
  <2> QED BY <2>1 DEF Instructions
<1>5. q \in Condition
  <2>1. t \in Frame(Len(g.code), g.temps)
    BY TaskIsNodeOrFrame DEF FrameKinds
  <2> QED BY <2>1, FrameParts
<1>6. /\ a.waits = w /\ b.place = a.place /\ b.lab.pins \subseteq pins
      /\ InPlace(a.place, E) /\ Stands(t, a, b, E)
  BY NodeLevel
<1>7. PICK Y, N, R, dead :
        /\ IsText(Y) /\ IsText(N) /\ IsText(R) /\ Clear(q, dead)
        /\ a.lab = Label(<<Branch(q, Y, N)>> \o R, dead, pins)
        /\ b.lab = AccLabel(Y \o R, N \o R, dead, pins)
  BY <1>6 DEF Stands, ConditionLevel
<1> DEFINE Z == <<Branch(q.rhs, Y, N)>>
           A == IF GoesOn(q) THEN Z ELSE Y
           B == IF GoesOn(q) THEN N ELSE Z
           T == <<Branch(q.lhs, A, B)>> \o R
           X == Z \o R
           L1 == Label(X, dead, more)
           L2 == Label((IF GoesOn(q) THEN Y ELSE N) \o R, dead, pins)
           L3 == TempLabel(u, Y \o R, N \o R, dead, pins)
           D == WithThree(E, L1, L2, L3)
           l == Label(T, dead, more)
           k == AccLabel(A \o R, B \o R, dead, more)
<1>8. GoesOn(q) \in BOOLEAN
  BY JunctionParts
<1>9. Entails(a.lab, Label(T, dead, pins))
  BY <1>7, JunctionEntails
<1>10. CodeRuns(g, E, a.lab, w) /\ g.prologue = a.place.prologue /\ g.break = a.place.break
       /\ g.continue = a.place.continue /\ \A p \in pins : p[1] \in 1 .. g.temps
  BY <1>6 DEF Sound
<1>11. \A p \in pins : p[1] # u
  BY <1>3, <1>10
<1> HIDE DEF g0, i
<1>12. CodeRuns(g0, E, Label(T, dead, pins), w)
  <2> DEFINE m == Label(T, dead, pins)
  <2>1. Entails(a.lab, m)
    BY <1>9
  <2> HIDE DEF m
  <2>2. CodeRuns(g, E, m, w)
    BY <1>10, <2>1, RunsOn
  <2>3. CodeRuns(g0, E, m, w)
    BY <1>2, <2>2, RunsSame
  <2> QED BY <2>3 DEF m
<1>13. i \in Instructions(Len(g0.code), g0.temps)
  BY <1>2, <1>4
<1>14. GenTyped(g1) /\ SameRest(g0, g1) /\ Len(g1.code) = n
  <2>1. GenTyped(Emit(g0, i)) /\ SameRest(g0, Emit(g0, i)) /\ Len(Emit(g0, i).code) = Len(g0.code)
    BY <1>2, <1>13, EmitTyped
  <2> QED BY <1>2, <2>1
<1>15. CodeRuns(g1, E, l, w)
  <2> HIDE DEF T, u, pins
  <2>1. (~GoesOn(q)) \in BOOLEAN
    BY <1>8
  <2>2. Good(Set(u, ~GoesOn(q)), Label(T, dead, pins),
             Label(T, dead, pins \cup {<<u, ~GoesOn(q)>>}), E)
    BY <1>3, <1>11, <2>1, GoodSet
  <2>3. Good(i, Label(T, dead, pins), l, E)
    BY <2>2 DEF i
  <2> HIDE DEF l
  <2> QED BY <1>2, <1>12, <1>13, <2>3, RunsEmit
<1> HIDE DEF g1
<1>16. GenTyped(g2) /\ SameRest(g1, g2) /\ Len(g2.code) = n + 3
  BY <1>14, NewBlocksFacts
<1>17. /\ g2.todo = g.todo /\ g2.temps = u /\ g2.prologue = g.prologue
       /\ g2.break = g.break /\ g2.continue = g.continue
  BY <1>2, <1>14, <1>16 DEF SameRest
<1>18. /\ CodeRuns(g2, D, l, {n + 1, n + 2, n + 3} \cup w)
       /\ {n + 1, n + 2, n + 3} \cap w = {}
       /\ Extends(E, D) /\ Len(D) = n + 3
       /\ D[n + 1] = L1 /\ D[n + 2] = L2 /\ D[n + 3] = L3
  <2> HIDE DEF l, L1, L2, L3, w, n
  <2>1. n = Len(g1.code)
    BY <1>14
  <2>2. CodeRuns(g2, D, l, {n + 1, n + 2, n + 3} \cup w)
    BY <1>14, <1>15, <2>1, NewLabels
  <2>3. {n + 1, n + 2, n + 3} \cap w = {}
    BY <1>14, <1>15, <2>1, NewLabels
  <2>4. IsText(E) /\ Len(E) = n
    BY <1>15, <2>1 DEF CodeRuns
  <2>5. /\ Extends(E, D) /\ Len(D) = n + 3
        /\ D[n + 1] = L1 /\ D[n + 2] = L2 /\ D[n + 3] = L3
    BY <2>4, ThreeLabels
  <2> QED BY <2>2, <2>3, <2>5
<1> HIDE DEF g2, D
<1>19. x \in Task(n + 3, u) /\ x.kind = "condition" /\ x.condition = q.lhs
  BY JunctionParts, EvaluateFacts DEF Evaluate
<1>20. y \in Task(n + 3, u)
  <2>1. y \in [kind : {"lhsDone", "rhsDone"}, condition : Junctions,
               blocks : 0 .. (n + 3) - 3, temp : 1 .. u]
    <3> HIDE DEF n, u
    <3> QED BY <1>3
  <2> HIDE DEF y
  <2> QED BY <2>1 DEF Task, Frame
<1>21. y.kind = "lhsDone" /\ y.blocks = n /\ y.condition = q /\ y.temp = u
  OBVIOUS
<1> DEFINE c == [lab |-> l, waits |-> {n + 1, n + 2, n + 3} \cup w, place |-> a.place]
           d == [lab |-> k, waits |-> {n + 1, n + 2, n + 3} \cup w, place |-> a.place]
<1>22. c.lab = l /\ c.waits = {n + 1, n + 2, n + 3} \cup w /\ c.place = a.place
  OBVIOUS
<1>23. d.lab = k /\ d.waits = {n + 1, n + 2, n + 3} \cup w /\ d.place = a.place
  OBVIOUS
<1> HIDE DEF x, y, c, d
<1>24. l.pins = more /\ k.pins = more
  <2> DEFINE V == A \o R
             W == B \o R
  <2>1. k = AccLabel(V, W, dead, more)
    OBVIOUS
  <2> HIDE DEF T, V, W, more, k
  <2>2. l.pins = more
    BY LabelFields
  <2>3. AccLabel(V, W, dead, more).pins = more
    BY LabelFields
  <2> QED BY <2>1, <2>2, <2>3
<1>25. \A p \in more : p[1] \in 1 .. u
  <2>1. 1 .. g.temps \subseteq 1 .. u
    BY <1>3
  <2>2. <<u, ~GoesOn(q)>>[1] = u
    OBVIOUS
  <2> QED BY <1>3, <1>10, <2>1, <2>2
<1>26. Clear(q.lhs, dead) /\ Clear(q.rhs, dead)
  BY <1>5, <1>7, OperandsClear
<1>27. IsText(Z) /\ IsText(A) /\ IsText(B)
  <2>1. IsText(Z)
    BY OneText
  <2> HIDE DEF Z
  <2> QED BY <1>7, <2>1
<1> HIDE DEF A, B, Z, u, n, more, pins, L1, L2, L3, l, k
<1>28. Sound(g2, c, D)
  BY <1>10, <1>17, <1>18, <1>22, <1>24, <1>25 DEF Sound
<1>29. InPlace(a.place, D)
  BY <1>6, <1>18, InPlaceExtends
<1>30. Level(x, c, d, D)
  <2>1. c.lab = Label(<<Branch(q.lhs, A, B)>> \o R, dead, c.lab.pins)
    BY <1>22, <1>24 DEF l
  <2>2. d.lab = AccLabel(A \o R, B \o R, dead, c.lab.pins)
    BY <1>22, <1>23, <1>24 DEF k
  <2>3. ConditionLevel(q.lhs, c, d)
    BY <1>7, <1>26, <1>27, <2>1, <2>2 DEF ConditionLevel
  <2>4. Stands(x, c, d, D)
    BY <1>19, <2>3 DEF Stands
  <2>5. d.lab.pins \subseteq c.lab.pins
    BY <1>22, <1>23, <1>24
  <2> QED BY <1>19, <1>22, <1>23, <1>29, <2>4, <2>5, NodeLevel
<1>31. Level(y, d, b, D)
  <2>1. Waiting(y) = {n + 1, n + 2, n + 3} /\ ~IsLoop(y)
    BY <1>21 DEF Waiting, IsLoop
  <2>2. JunctionBlocks(q, n, u, Y, N, R, dead, pins, D)
    BY <1>7, <1>11, <1>18 DEF JunctionBlocks, L2, L3
  <2>3. d.lab = AccLabel(IF GoesOn(q) THEN X ELSE Y \o R,
                         IF GoesOn(q) THEN N \o R ELSE X, dead, more)
    <3>1. A \o R = (IF GoesOn(q) THEN X ELSE Y \o R)
      BY DEF A
    <3>2. B \o R = (IF GoesOn(q) THEN N \o R ELSE X)
      BY DEF B
    <3> HIDE DEF X
    <3> QED BY <1>23, <3>1, <3>2 DEF k
  <2>4. D[n + 1] = Label(X, dead, more)
    BY <1>18 DEF L1
  <2>5. LhsDoneLevel(y, d, b, D)
    BY <1>7, <1>21, <1>26, <2>2, <2>3, <2>4 DEF LhsDoneLevel, more, Z
  <2>6. Stands(y, d, b, D)
    BY <1>21, <2>5 DEF Stands
  <2>7. b.lab.pins \subseteq d.lab.pins
    BY <1>6, <1>23, <1>24 DEF more
  <2> QED BY <1>6, <1>18, <1>23, <1>29, <2>1, <2>6, <2>7 DEF Level
<1>32. Goes(g, GenerateThen(g2, x, y), b, E)
  <2>1. x \in Task(Len(g2.code), g2.temps) /\ y \in Task(Len(g2.code), g2.temps)
    BY <1>16, <1>17, <1>19, <1>20
  <2> QED BY <1>16, <1>17, <1>18, <1>28, <1>30, <1>31, <2>1, PushesTwo
<1> QED BY <1>1, <1>32

(* A condition: one instruction, or the left operand of && or ||. *)
LEMMA ConditionGoes ==
  ASSUME NEW g, GenTyped(g), NEW t \in Task(Len(g.code), g.temps), t.kind = "condition",
         NEW a, NEW b, NEW E, Sound(g, a, E), Level(t, a, b, E)
  PROVE  Goes(g, Generate(g, t), b, E)
<1> DEFINE q == t.condition
<1>1. q \in Questions \cup Compares \cup Junctions
  <2>1. t \in Frame(Len(g.code), g.temps)
    BY TaskIsNodeOrFrame DEF FrameKinds
  <2> QED BY <2>1, FrameParts, ConditionAssumption
<1>2. Generate(g, t) = GenerateCondition(g, q)
  BY DEF Generate
<1>3. CASE q \in Junctions
  <2>1. q.op \in {"and", "or"}
    BY <1>3 DEF Junctions
  <2>2. Generate(g, t) = ShortCircuit(g, q)
    BY <1>2, <2>1 DEF GenerateCondition
  <2> QED BY <1>3, <2>2, ShortCircuitGoes
<1>4. CASE q \in Questions \cup Compares
  <2>1. q.op \notin {"and", "or"}
    BY <1>4 DEF Questions, Compares
  <2>2. Generate(g, t) = Emit(g, q)
    BY <1>2, <2>1 DEF GenerateCondition
  <2> QED BY <1>4, <2>2, AtomGoes
<1> QED BY <1>1, <1>3, <1>4

-----------------------------------------------------------------------------
(* The first operand has its value: it decides, or the second one does. *)
LEMMA LhsDoneGoes ==
  ASSUME NEW g, GenTyped(g), NEW t \in Task(Len(g.code), g.temps), t.kind = "lhsDone",
         NEW a, NEW b, NEW E, Sound(g, a, E), Level(t, a, b, E)
  PROVE  Goes(g, Generate(g, t), b, E)
<1> DEFINE m == Len(g.code)
           n == t.blocks
           q == t.condition
           u == t.temp
           F == [kind : {"lhsDone", "rhsDone"}, condition : Junctions, blocks : 0 .. m - 3,
                 temp : 1 .. g.temps]
           i == CondBr(GoesOn(q), n + 1, n + 3)
           h == SetInsertPoint(Emit(g, i), n + 1)
           x == Evaluate(q.rhs)
           y == [t EXCEPT !.kind = "rhsDone"]
           w == b.waits
<1>1. Generate(g, t) = GenerateThen(h, x, y)
  BY DEF Generate, LhsDone
<1>2. /\ t \in Frame(m, g.temps) /\ m \in Nat /\ Len(E) = m
      /\ a.waits = Waiting(t) \cup w /\ Waiting(t) \cap w = {}
      /\ InPlace(a.place, E) /\ Stands(t, a, b, E) /\ b.lab.pins \subseteq a.lab.pins
      /\ CodeRuns(g, E, a.lab, a.waits) /\ Extends(E, E)
      /\ g.prologue = a.place.prologue /\ g.break = a.place.break
      /\ g.continue = a.place.continue
  BY FrameWaits DEF FrameKinds
<1>3. Waiting(t) = {n + 1, n + 2, n + 3} /\ b.place = a.place
  BY DEF Waiting, Level, IsLoop
<1>4. t \in F
  BY <1>2, FrameParts
<1>5. y \in F /\ y.kind = "rhsDone" /\ y.blocks = n /\ y.condition = q /\ y.temp = u
  BY <1>4
<1>6. q \in Junctions /\ n \in 0 .. m - 3 /\ u \in 1 .. g.temps
  <2> HIDE DEF m
  <2> QED BY <1>4
<1>7. PICK Y, N, R, dead, pins :
        LET X    == <<Branch(q.rhs, Y, N)>> \o R
            more == pins \cup {<<u, ~GoesOn(q)>>}
        IN  /\ JunctionBlocks(q, n, u, Y, N, R, dead, pins, E) /\ Clear(q.rhs, dead)
            /\ a.lab = AccLabel(IF GoesOn(q) THEN X ELSE Y \o R,
                                IF GoesOn(q) THEN N \o R ELSE X, dead, more)
            /\ E[n + 1] = Label(X, dead, more)
            /\ b.lab = AccLabel(Y \o R, N \o R, dead, pins)
  BY <1>2 DEF Stands, LhsDoneLevel
<1> HIDE DEF n, q, u, y
<1>8. y \in Task(m, g.temps)
  BY <1>5 DEF Task, Frame
<1> HIDE DEF F
<1>9. n \in Nat /\ n + 1 \in 1 .. m /\ n + 2 \in 1 .. m /\ n + 3 \in 1 .. m
  <2> HIDE DEF m
  <2> QED BY <1>2, <1>6, BlockNumbers
<1>10. GoesOn(q) \in BOOLEAN
  BY <1>6, JunctionParts
<1>11. i \in Instructions(m, g.temps)
  <2>1. i \in [op : {"cbr"}, when : BOOLEAN, to : 1 .. m, other : 1 .. m]
    BY <1>9, <1>10 DEF CondBr
  <2> HIDE DEF i
  <2> QED BY <2>1 DEF Instructions
<1> DEFINE X == <<Branch(q.rhs, Y, N)>> \o R
           more == pins \cup {<<u, ~GoesOn(q)>>}
           V == IF GoesOn(q) THEN X ELSE Y \o R
           W == IF GoesOn(q) THEN N \o R ELSE X
           A == Y \o R
           B == N \o R
           l == Label(X, dead, more)
           k == AccLabel(A, B, dead, more)
<1>12. a.lab = AccLabel(V, W, dead, more) /\ E[n + 1] = l /\ b.lab = AccLabel(A, B, dead, pins)
  BY <1>7
<1>13. IsText(Y) /\ IsText(N) /\ IsText(R) /\ E[n + 3] = TempLabel(u, A, B, dead, pins)
  BY <1>7 DEF JunctionBlocks
<1>14. Good(i, a.lab, b.lab, E)
  <2>1. (IF GoesOn(q) THEN V ELSE W) = X
    BY <1>10
  <2>2. (IF GoesOn(q) THEN W ELSE V) = IF ~GoesOn(q) THEN A ELSE B
    BY <1>10
  <2> HIDE DEF X, V, W, A, B
  <2>3. Entails(Label(IF GoesOn(q) THEN V ELSE W, dead, more), E[n + 1])
    BY <1>12, <2>1, EntailsItself
  <2>4. Entails(Label(IF GoesOn(q) THEN W ELSE V, dead, more), E[n + 3])
    <3> DEFINE value == ~GoesOn(q)
    <3>1. value \in BOOLEAN
      BY <1>10
    <3>2. pins \subseteq more /\ <<u, value>> \in more
      OBVIOUS
    <3>3. (IF GoesOn(q) THEN W ELSE V) = IF value THEN A ELSE B
      BY <2>2
    <3> HIDE DEF value, more
    <3>4. Entails(Label(IF value THEN A ELSE B, dead, more), TempLabel(u, A, B, dead, pins))
      BY <3>1, <3>2, EntailsTemp
    <3> QED BY <1>13, <3>3, <3>4
  <2>5. n + 1 \in 1 .. Len(E) /\ n + 3 \in 1 .. Len(E)
    BY <1>2, <1>9
  <2> HIDE DEF more
  <2>6. Good(i, AccLabel(V, W, dead, more), b.lab, E)
    BY <1>10, <2>3, <2>4, <2>5, GoodCondBr
  <2> QED BY <1>12, <2>6
<1> HIDE DEF i
<1>15. CodeRuns(h, E, E[n + 1], {n + 2, n + 3} \cup w)
  <2>1. n + 1 \in a.waits
    BY <1>2, <1>3
  <2>2. CodeRuns(h, E, E[n + 1], a.waits \ {n + 1})
    BY <1>2, <1>11, <1>14, <2>1, RunsEndAndMove
  <2>3. ({n + 1, n + 2, n + 3} \cup w) \ {n + 1} = {n + 2, n + 3} \cup w
    BY <1>2, <1>3, <1>9, Filled
  <2> HIDE DEF h, w
  <2> QED BY <1>2, <1>3, <2>2, <2>3
<1>16. GenTyped(h) /\ SameRest(g, h) /\ Len(h.code) = m
  BY <1>9, <1>11, EndedAndMoved
<1> HIDE DEF h
<1>17. /\ h.todo = g.todo /\ h.prologue = g.prologue /\ h.break = g.break
       /\ h.continue = g.continue /\ h.temps = g.temps
  BY <1>16 DEF SameRest
<1>18. x \in Task(m, g.temps) /\ x.kind = "condition" /\ x.condition = q.rhs
  BY <1>6, JunctionParts, EvaluateFacts DEF Evaluate
<1> DEFINE c == [lab |-> l, waits |-> {n + 2, n + 3} \cup w, place |-> a.place]
           d == [lab |-> k, waits |-> {n + 2, n + 3} \cup w, place |-> a.place]
<1>19. c.lab = l /\ c.waits = {n + 2, n + 3} \cup w /\ c.place = a.place
  OBVIOUS
<1>20. d.lab = k /\ d.waits = {n + 2, n + 3} \cup w /\ d.place = a.place
  OBVIOUS
<1> HIDE DEF x, c, d
<1>21. l.pins = more /\ k.pins = more /\ a.lab.pins = more /\ b.lab.pins = pins
  <2> HIDE DEF X, V, W, A, B, more
  <2>1. l.pins = more
    BY LabelFields
  <2>2. k.pins = more
    BY LabelFields
  <2>3. AccLabel(V, W, dead, more).pins = more
    BY LabelFields
  <2>4. AccLabel(A, B, dead, pins).pins = pins
    BY LabelFields
  <2> QED BY <1>12, <2>1, <2>2, <2>3, <2>4
<1> HIDE DEF V, W, l, k
<1>22. Sound(h, c, E)
  <2>1. \A p \in a.lab.pins : p[1] \in 1 .. g.temps
    BY DEF Sound
  <2> QED BY <1>2, <1>12, <1>15, <1>17, <1>19, <1>21, <2>1 DEF Sound
<1>23. Level(x, c, d, E)
  <2>1. c.lab = Label(<<Branch(q.rhs, Y, N)>> \o R, dead, c.lab.pins)
    BY <1>19, <1>21 DEF l
  <2>2. d.lab = AccLabel(Y \o R, N \o R, dead, c.lab.pins)
    BY <1>19, <1>20, <1>21 DEF k
  <2>3. ConditionLevel(q.rhs, c, d)
    BY <1>7, <1>13, <2>1, <2>2 DEF ConditionLevel
  <2>4. Stands(x, c, d, E)
    BY <1>18, <2>3 DEF Stands
  <2>5. d.lab.pins \subseteq c.lab.pins
    BY <1>19, <1>20, <1>21
  <2> QED BY <1>2, <1>18, <1>19, <1>20, <2>4, <2>5, NodeLevel, ZenonT(40)
<1>24. Level(y, d, b, E)
  <2>1. Waiting(y) = {n + 2, n + 3} /\ ~IsLoop(y)
    BY <1>5 DEF Waiting, IsLoop
  <2>2. {n + 2, n + 3} \cap w = {}
    BY <1>2, <1>3
  <2>3. RhsDoneLevel(y, d, b, E)
    BY <1>5, <1>7, <1>12, <1>20, ZenonT(40) DEF RhsDoneLevel, k
  <2>4. Stands(y, d, b, E)
    BY <1>5, <2>3 DEF Stands
  <2>5. b.lab.pins \subseteq d.lab.pins
    BY <1>20, <1>21
  <2> QED BY <1>2, <1>3, <1>20, <2>1, <2>2, <2>4, <2>5 DEF Level
<1>25. Goes(g, GenerateThen(h, x, y), b, E)
  <2>1. x \in Task(Len(h.code), h.temps) /\ y \in Task(Len(h.code), h.temps)
    BY <1>8, <1>16, <1>17, <1>18
  <2> QED BY <1>2, <1>16, <1>17, <1>22, <1>23, <1>24, <2>1, PushesTwo
<1> QED BY <1>1, <1>25

(* The second operand has its value: that of the operator is read again. *)
LEMMA RhsDoneGoes ==
  ASSUME NEW g, GenTyped(g), NEW t \in Task(Len(g.code), g.temps), t.kind = "rhsDone",
         NEW a, NEW b, NEW E, Sound(g, a, E), Level(t, a, b, E)
  PROVE  Goes(g, Generate(g, t), b, E)
<1> DEFINE m == Len(g.code)
           n == t.blocks
           q == t.condition
           u == t.temp
           F == [kind : {"lhsDone", "rhsDone"}, condition : Junctions, blocks : 0 .. m - 3,
                 temp : 1 .. g.temps]
           i == CondBr(GoesOn(q), n + 2, n + 3)
           j == Set(u, GoesOn(q))
           i3 == Br(n + 3)
           i4 == Get(u)
           g1 == SetInsertPoint(Emit(g, i), n + 2)
           g2 == Emit(g1, j)
           g3 == SetInsertPoint(Emit(g2, i3), n + 3)
           h == Emit(g3, i4)
           w == b.waits
<1>1. Generate(g, t) = h
  BY DEF Generate, RhsDone
<1>2. /\ t \in Frame(m, g.temps) /\ m \in Nat /\ Len(E) = m
      /\ a.waits = Waiting(t) \cup w /\ Waiting(t) \cap w = {}
      /\ InPlace(a.place, E) /\ Stands(t, a, b, E) /\ b.lab.pins \subseteq a.lab.pins
      /\ CodeRuns(g, E, a.lab, a.waits) /\ Extends(E, E)
      /\ g.prologue = a.place.prologue /\ g.break = a.place.break
      /\ g.continue = a.place.continue
  BY FrameWaits DEF FrameKinds
<1>3. Waiting(t) = {n + 2, n + 3} /\ b.place = a.place
  BY DEF Waiting, Level, IsLoop
<1>4. t \in F
  BY <1>2, FrameParts
<1>5. q \in Junctions /\ n \in 0 .. m - 3 /\ u \in 1 .. g.temps
  <2> HIDE DEF m
  <2> QED BY <1>4
<1>6. PICK Y, N, R, dead, pins :
        /\ JunctionBlocks(q, n, u, Y, N, R, dead, pins, E)
        /\ a.lab = AccLabel(Y \o R, N \o R, dead, pins \cup {<<u, ~GoesOn(q)>>})
        /\ b.lab = AccLabel(Y \o R, N \o R, dead, pins)
  BY <1>2 DEF Stands, RhsDoneLevel
<1> HIDE DEF n, q, u, F
<1>7. n \in Nat /\ n + 2 \in 1 .. m /\ n + 3 \in 1 .. m
  <2> HIDE DEF m
  <2> QED BY <1>2, <1>5, BlockNumbers
<1>8. GoesOn(q) \in BOOLEAN
  BY <1>5, JunctionParts
<1>9. u \in Nat
  <2>1. g.temps \in Nat
    BY GenFields
  <2> QED BY <1>5, <2>1
<1>10. i \in Instructions(m, g.temps)
  <2>1. i \in [op : {"cbr"}, when : BOOLEAN, to : 1 .. m, other : 1 .. m]
    BY <1>7, <1>8 DEF CondBr
  <2> HIDE DEF i
  <2> QED BY <2>1 DEF Instructions
<1>11. j \in Instructions(m, g.temps)
  <2>1. j \in [op : {"set"}, temp : 1 .. g.temps, value : BOOLEAN]
    BY <1>5, <1>8 DEF Set
  <2> HIDE DEF j
  <2> QED BY <2>1 DEF Instructions
<1>12. i3 \in Instructions(m, g.temps) /\ i4 \in Instructions(m, g.temps)
  BY <1>5, <1>7 DEF Br, Get, Instructions
<1> DEFINE value == GoesOn(q)
           more == pins \cup {<<u, ~value>>}
           set == pins \cup {<<u, value>>}
           A == Y \o R
           B == N \o R
           T == IF value THEN A ELSE B
           l2 == Label(T, dead, pins)
           l3 == TempLabel(u, A, B, dead, pins)
<1>13. a.lab = AccLabel(A, B, dead, more) /\ b.lab = AccLabel(A, B, dead, pins)
  BY <1>6
<1>14. E[n + 2] = l2 /\ E[n + 3] = l3 /\ \A p \in pins : p[1] # u
  <2>1. ((IF value THEN Y ELSE N) \o R) = T
    BY <1>8
  <2> HIDE DEF T
  <2> QED BY <1>6, <2>1 DEF JunctionBlocks
<1> HIDE DEF A, B
<1>15. Good(i, a.lab, b.lab, E)
  <2>1. Entails(Label(IF value THEN A ELSE B, dead, more), E[n + 2])
    <3>1. pins \subseteq more
      OBVIOUS
    <3> HIDE DEF more, value
    <3>2. Entails(Label(T, dead, more), Label(T, dead, pins))
      <4> HIDE DEF T
      <4> QED BY <3>1, EntailsLess
    <3> QED BY <1>14, <3>2
  <2>2. Entails(Label(IF value THEN B ELSE A, dead, more), E[n + 3])
    <3> DEFINE other == ~value
    <3>1. other \in BOOLEAN
      BY <1>8
    <3>2. pins \subseteq more /\ <<u, other>> \in more
      OBVIOUS
    <3>3. (IF value THEN B ELSE A) = IF other THEN A ELSE B
      BY <1>8
    <3> HIDE DEF other, more
    <3>4. Entails(Label(IF other THEN A ELSE B, dead, more), TempLabel(u, A, B, dead, pins))
      BY <3>1, <3>2, EntailsTemp
    <3> QED BY <1>14, <3>3, <3>4
  <2>3. n + 2 \in 1 .. Len(E) /\ n + 3 \in 1 .. Len(E)
    BY <1>2, <1>7
  <2> HIDE DEF more
  <2>4. Good(i, AccLabel(A, B, dead, more), b.lab, E)
    BY <1>8, <2>1, <2>2, <2>3, GoodCondBr
  <2> QED BY <1>13, <2>4
<1>16. Good(j, l2, Label(T, dead, set), E)
  <2> HIDE DEF T
  <2> QED BY <1>8, <1>9, <1>14, GoodSet
<1>17. Good(i3, Label(T, dead, set), b.lab, E)
  <2>1. Entails(Label(T, dead, set), l3)
    <3>1. pins \subseteq set /\ <<u, value>> \in set
      OBVIOUS
    <3> HIDE DEF set, value
    <3>2. value \in BOOLEAN
      BY <1>8 DEF value
    <3> QED BY <3>1, <3>2, EntailsTemp
  <2>2. n + 3 \in 1 .. Len(E)
    BY <1>2, <1>7
  <2> HIDE DEF l3, T, set
  <2> QED BY <1>14, <2>1, <2>2, GoodBr
<1>18. Good(i4, l3, b.lab, E)
  BY <1>9, <1>13, GoodGet
<1> DEFINE k == Label(T, dead, set)
<1> HIDE DEF i, j, i3, i4, l2, l3, k, T
<1>19. GenTyped(g1) /\ SameRest(g, g1) /\ Len(g1.code) = m
  BY <1>7, <1>10, EndedAndMoved
<1>20. CodeRuns(g1, E, l2, {n + 3} \cup w)
  <2>1. n + 2 \in a.waits
    BY <1>2, <1>3 DEF n
  <2>2. CodeRuns(g1, E, E[n + 2], a.waits \ {n + 2})
    BY <1>2, <1>10, <1>15, <2>1, RunsEndAndMove
  <2>3. {n + 2, n + 3} \cap w = {}
    BY <1>2, <1>3 DEF n
  <2>4. ({n + 2, n + 3} \cup w) \ {n + 2} = {n + 3} \cup w
    BY <1>7, <2>3, Filled
  <2>5. a.waits = {n + 2, n + 3} \cup w
    BY <1>2, <1>3 DEF n
  <2> HIDE DEF g1, w
  <2> QED BY <1>14, <2>2, <2>4, <2>5
<1>21. j \in Instructions(Len(g1.code), g1.temps)
  BY <1>11, <1>19 DEF SameRest
<1> HIDE DEF g1
<1>22. GenTyped(g2) /\ SameRest(g1, g2) /\ Len(g2.code) = m
  <2>1. GenTyped(g2) /\ SameRest(g1, g2) /\ Len(g2.code) = Len(g1.code)
    BY <1>19, <1>21, EmitTyped
  <2> QED BY <1>19, <2>1
<1>23. CodeRuns(g2, E, k, {n + 3} \cup w)
  <2>1. Good(j, l2, k, E)
    BY <1>16 DEF k
  <2> HIDE DEF w
  <2> QED BY <1>19, <1>20, <1>21, <2>1, RunsEmit
<1>24. i3 \in Instructions(Len(g2.code), g2.temps)
  BY <1>12, <1>19, <1>22 DEF SameRest
<1> HIDE DEF g2
<1>25. GenTyped(g3) /\ SameRest(g2, g3) /\ Len(g3.code) = m
  <2>1. n + 3 \in 1 .. Len(g2.code)
    BY <1>7, <1>22
  <2> QED BY <1>22, <1>24, <2>1, EndedAndMoved
<1>26. CodeRuns(g3, E, l3, w)
  <2>1. n + 3 \in {n + 3} \cup w
    OBVIOUS
  <2>2. Good(i3, k, b.lab, E)
    BY <1>17 DEF k
  <2>3. CodeRuns(g3, E, E[n + 3], ({n + 3} \cup w) \ {n + 3})
    BY <1>22, <1>23, <1>24, <2>1, <2>2, RunsEndAndMove
  <2>4. {n + 3} \cap w = {}
    BY <1>2, <1>3 DEF n
  <2>5. ({n + 3} \cup w) \ {n + 3} = w
    BY <1>7, <2>4, Filled
  <2> HIDE DEF g3, w
  <2> QED BY <1>14, <2>3, <2>5
<1>27. i4 \in Instructions(Len(g3.code), g3.temps)
  BY <1>12, <1>19, <1>22, <1>25 DEF SameRest
<1> HIDE DEF g3
<1>28. SameRest(g3, h)
  BY <1>25, <1>27, EmitTyped
<1>29. CodeRuns(h, E, b.lab, w)
  BY <1>18, <1>25, <1>26, <1>27, RunsEmit
<1> HIDE DEF h
<1>30. /\ h.todo = g.todo /\ h.prologue = g.prologue /\ h.break = g.break
       /\ h.continue = g.continue /\ h.temps = g.temps
  BY <1>19, <1>22, <1>25, <1>28 DEF SameRest
<1>31. g.temps \in Nat /\ g.temps <= g.temps
  BY GenFields
<1>32. Goes(g, h, b, E)
  BY <1>2, <1>3, <1>29, <1>30, <1>31, Arrives
<1> QED BY <1>1, <1>32

-----------------------------------------------------------------------------
(* One call of generate_code, whatever it is for. *)
LEMMA GenerateGoes ==
  ASSUME prog \in Programs, StepsOncePerIteration, NEW g, GenTyped(g),
         NEW t \in Task(Len(g.code), g.temps),
         NEW a, NEW b, NEW E, Sound(g, a, E), Level(t, a, b, E)
  PROVE  Goes(g, Generate(g, t), b, E)
<1>1. \/ t.kind \in {"assign", "declaration", "call", "return"} \/ t.kind \in Jumps
      \/ t.kind = "block" \/ t.kind = "if" \/ t.kind = "while" \/ t.kind = "for"
      \/ t.kind = "statements" \/ t.kind = "condition" \/ t.kind = "lhsDone"
      \/ t.kind = "rhsDone" \/ t.kind = "ifDecided" \/ t.kind = "thenDone"
      \/ t.kind = "elseDone" \/ t.kind = "whileDecided" \/ t.kind = "bodyDone"
  <2>1. t.kind \in NodeKinds \cup FrameKinds
    BY TaskIsNodeOrFrame
  <2> QED BY <2>1 DEF NodeKinds, FrameKinds, Jumps
<1> DEFINE Goal == Goes(g, Generate(g, t), b, E)
<1>2. t.kind \in {"assign", "declaration", "call", "return"} => Goal
  BY SimpleGoes
<1>3. t.kind \in Jumps => Goal
  BY JumpGoes
<1>4. t.kind = "block" => Goal
  BY BlockGoes
<1>5. t.kind = "if" => Goal
  BY IfGoes
<1>6. t.kind = "while" => Goal
  BY WhileGoes
<1>7. t.kind = "for" => Goal
  BY ForGoes
<1>8. t.kind = "statements" => Goal
  BY StatementsGo
<1>9. t.kind = "condition" => Goal
  BY ConditionGoes
<1>10. t.kind = "lhsDone" => Goal
  BY LhsDoneGoes
<1>11. t.kind = "rhsDone" => Goal
  BY RhsDoneGoes
<1>12. t.kind = "ifDecided" => Goal
  BY IfDecidedGoes
<1>13. t.kind = "thenDone" => Goal
  BY ThenDoneGoes
<1>14. t.kind = "elseDone" => Goal
  BY ElseDoneGoes
<1>15. t.kind = "whileDecided" => Goal
  BY WhileDecidedGoes
<1>16. t.kind = "bodyDone" => Goal
  BY BodyDoneGoes
<1> HIDE DEF Goal
<1>17. Goal
  BY <1>1, <1>2, <1>3, <1>4, <1>5, <1>6, <1>7, <1>8, <1>9, <1>10, <1>11, <1>12, <1>13,
     <1>14, <1>15, <1>16
<1> QED BY <1>17 DEF Goal

(***************************************************************************)
(* The code so far, and what is left to generate, lower the program: the   *)
(* first block is that of its text.                                        *)
(***************************************************************************)
Entry == Label(WithReturn(prog).statements \o <<>>, Counters(prog), {})

Lowers(g) ==
  \E a, E : /\ Sound(g, a, E) /\ Chain(g.todo, a, E)
            /\ Len(E) \in Nat \ {0} /\ E[1] = Entry

(* What a handler goes to lowers the program still. *)
LEMMA GoesLowers ==
  ASSUME NEW g, GenTyped(g), NEW h, GenTyped(h), ~h.aborted, NEW b, NEW E, Goes(g, h, b, E),
         Len(E) = Len(g.code), Chain(g.todo, b, E), Len(E) \in Nat \ {0}, E[1] = Entry
  PROVE  Lowers(h)
<1>1. PICK D :
        /\ Extends(E, D)
        /\ \/ h.todo = g.todo /\ Sound(h, b, D)
           \/ \E x, a : /\ h.todo = <<x>> \o g.todo
                        /\ Sound(h, a, D) /\ Level(x, a, b, D)
           \/ \E x, y, a, c : /\ h.todo = <<x>> \o (<<y>> \o g.todo)
                              /\ Sound(h, a, D) /\ Level(x, a, c, D) /\ Level(y, c, b, D)
  BY DEF Goes
<1>2. Len(D) \in Nat \ {0} /\ D[1] = Entry
  <2>1. IsText(D) /\ Len(E) <= Len(D) /\ \A i \in 1 .. Len(E) : D[i] = E[i]
    BY <1>1 DEF Extends
  <2>2. Len(D) \in Nat
    BY <2>1, InText DEF IsText
  <2>3. 1 \in 1 .. Len(E)
    OBVIOUS
  <2> QED BY <2>1, <2>2, <2>3
<1> DEFINE S == Task(Len(E), g.temps)
           r == g.todo
<1>3. r \in Seq(S)
  BY GenFields
<1>4. Chain(r, b, D)
  BY <1>1, <1>3, ChainExtends
<1> HIDE DEF S, r
<1>5. CASE h.todo = r /\ Sound(h, b, D)
  BY <1>2, <1>4, <1>5 DEF Lowers
<1>6. ASSUME NEW x, NEW a, h.todo = <<x>> \o r, Sound(h, a, D), Level(x, a, b, D)
      PROVE  Lowers(h)
  <2> DEFINE Z == S \cup {x}
  <2>1. r \in Seq(Z) /\ x \in Z
    BY <1>3
  <2> HIDE DEF Z
  <2>2. Chain(h.todo, a, D)
    BY <1>4, <1>6, <2>1, ChainPush
  <2> QED BY <1>2, <1>6, <2>2 DEF Lowers
<1>7. ASSUME NEW x, NEW y, NEW a, NEW c, h.todo = <<x>> \o (<<y>> \o r), Sound(h, a, D),
             Level(x, a, c, D), Level(y, c, b, D)
      PROVE  Lowers(h)
  <2> DEFINE Z == S \cup {x, y}
  <2>1. r \in Seq(Z) /\ x \in Z /\ y \in Z
    BY <1>3
  <2> HIDE DEF Z
  <2>2. Chain(<<y>> \o r, c, D)
    BY <1>4, <1>7, <2>1, ChainPush
  <2>3. <<y>> \o r \in Seq(Z)
    BY <2>1
  <2>4. Chain(h.todo, a, D)
    BY <1>7, <2>1, <2>2, <2>3, ChainPush
  <2> QED BY <1>2, <1>7, <2>4 DEF Lowers
<1> QED BY <1>1, <1>5, <1>6, <1>7 DEF r

(* A step of the compiler. *)
LEMMA CompileLowers ==
  ASSUME prog \in Programs, StepsOncePerIteration, NEW g, GenTyped(g), g.todo # <<>>, Lowers(g),
         NEW h, h = Generate([g EXCEPT !.todo = Tail(@)], Head(g.todo)), ~h.aborted
  PROVE  Lowers(h)
<1> DEFINE p == [g EXCEPT !.todo = Tail(@)]
           t == Head(g.todo)
           S == Task(Len(g.code), g.temps)
<1>1. /\ GenTyped(p) /\ t \in S /\ p.code = g.code /\ p.temps = g.temps
      /\ p.insert = g.insert /\ p.prologue = g.prologue
      /\ p.break = g.break /\ p.continue = g.continue
      /\ g.todo = <<t>> \o p.todo
  BY PopTyped
<1>2. PICK a, E : /\ Sound(g, a, E) /\ Chain(g.todo, a, E)
                  /\ Len(E) \in Nat \ {0} /\ E[1] = Entry
  BY DEF Lowers
<1>3. h = Generate(p, t) /\ GenTyped(h)
  BY CompileGen
<1> HIDE DEF p, t
<1>4. p.todo \in Seq(S)
  <2>1. Len(p.code) = Len(g.code)
    BY <1>1
  <2> QED BY <1>1, <2>1, GenFields
<1>5. PICK b : Level(t, a, b, E) /\ Chain(p.todo, b, E)
  <2>1. Chain(<<t>> \o p.todo, a, E)
    BY <1>1, <1>2
  <2> HIDE DEF S
  <2> QED BY <1>1, <1>4, <2>1, ChainPop
<1>6. Sound(p, a, E)
  <2>1. CodeRuns(p, E, a.lab, a.waits)
    BY <1>1, <1>2, RunsSame DEF Sound
  <2> QED BY <1>1, <1>2, <2>1 DEF Sound
<1>7. Len(E) = Len(p.code)
  BY <1>6 DEF Sound, CodeRuns
<1>8. t \in Task(Len(p.code), p.temps)
  <2>1. Len(p.code) = Len(g.code)
    BY <1>1
  <2> QED BY <1>1, <2>1
<1>9. Goes(p, h, b, E)
  BY <1>1, <1>3, <1>5, <1>6, <1>8, GenerateGoes
<1> QED BY <1>1, <1>2, <1>3, <1>5, <1>7, <1>9, GoesLowers

(* The compiler starts with the body and the return behind it. *)
LEMMA StartLowers ==
  ASSUME prog \in Programs, StepsOncePerIteration
  PROVE  Lowers(Start(WithReturn(prog)))
<1> DEFINE q == WithReturn(prog)
           g == Start(q)
           C == Counters(prog)
           P == <<>>
           T == q.statements \o <<>>
           l == Label(T, C, {})
           k == Label(<<>>, C, {})
           E == <<l>>
           place == [in |-> Direct(prog) \cup {Return(NoVar)}, prologue |-> P, break |-> 0,
                     continue |-> 0, again |-> <<>>]
           a == [lab |-> l, waits |-> {}, place |-> place]
           b == [lab |-> k, waits |-> {}, place |-> place]
<1>1. q \in Blocks /\ EndsInJump(q)
  BY WithReturnParts
<1>2. /\ g.todo = <<q>> /\ g.code = <<<<>>>> /\ g.insert = 1 /\ g.break = 0
      /\ g.continue = 0 /\ g.prologue = <<>>
  BY DEF Start
<1>3. a.lab = l /\ a.waits = {} /\ a.place = place
  OBVIOUS
<1>4. b.lab = k /\ b.waits = {} /\ b.place = place
  OBVIOUS
<1>5. /\ place.in = Direct(prog) \cup {Return(NoVar)} /\ place.prologue = P
      /\ place.break = 0 /\ place.continue = 0 /\ place.again = <<>>
  OBVIOUS
<1> HIDE DEF g, a, b, place, P
<1>6. Dead(P) = C
  BY RegionSteps DEF P, Region
<1> HIDE DEF C
<1>7. l.pins = {} /\ k.pins = {}
  <2> HIDE DEF T
  <2>1. l.pins = {}
    BY LabelFields
  <2>2. k.pins = {}
    BY LabelFields
  <2> QED BY <2>1, <2>2
<1>8. Len(E) = 1 /\ E[1] = l /\ IsText(E)
  <2> HIDE DEF l
  <2> QED BY OneText
<1>9. q.kind = "block" /\ ~q.expects /\ q.statements \in Seq(Statement)
  <2>1. q.expects = prog.expects
    BY ProgramsAssumption DEF WithReturn, Blocks
  <2> QED BY <1>1, <2>1, BlockParts, ProgramsAssumption
<1> HIDE DEF q, T
<1>10. Sound(g, a, E)
  <2>1. Run(<<>>, E, l, l)
    <3> DEFINE w == <<l>>
    <3>1. w[1] = l /\ Len(<<>>) + 1 = 1
      OBVIOUS
    <3> HIDE DEF w, l
    <3>2. Labelled(<<>>, w, E)
      BY DEF Labelled
    <3> QED BY <3>1, <3>2, EntailsItself DEF Run
  <2>2. Len(g.code) = 1 /\ g.code[g.insert] = <<>> /\ E[g.insert] = l
    BY <1>2, <1>8
  <2> HIDE DEF E, l
  <2>3. Run(g.code[g.insert], E, E[g.insert], l)
    BY <2>1, <2>2
  <2>4. \A i \in 1 .. Len(g.code) : i = g.insert
    BY <1>2, <2>2
  <2>5. CodeRuns(g, E, l, {})
    BY <1>8, <2>2, <2>3, <2>4 DEF CodeRuns
  <2> QED BY <1>2, <1>3, <1>5, <1>7, <2>5 DEF Sound, P
<1>11. InPlace(place, E)
  BY <1>5 DEF InPlace, Region, JumpsLead, P
<1>12. Own(q) \subseteq place.in
  <2>1. Own(q) \subseteq Own(prog) \cup {Return(NoVar)}
    BY WithReturnOwn DEF q
  <2>2. Own(prog) \subseteq Direct(prog)
    BY ProgramsAssumption, DirectFacts DEF Shallow
  <2> QED BY <1>5, <2>1, <2>2
<1>13. BlockLevel(q, a, b)
  <2> DEFINE R == <<>>
  <2>1. Behind(R, place)
    <3>1. IsText(R)
      BY OneText
    <3>2. FromAgain(R) = <<>>
      <4>1. R \in Seq({})
        OBVIOUS
      <4>2. \A i \in 1 .. Len(R) : R[i].kind # "again"
        OBVIOUS
      <4> QED BY <4>1, <4>2, FromAgainParts
    <3> QED BY <1>5, <3>1, <3>2 DEF Behind
  <2>2. a.lab = Label(Opened(q) \o R, Dead(P), {}) /\ b.lab = Label(R, Dead(P), {})
    BY <1>3, <1>4, <1>6, <1>9 DEF Opened, T
  <2> HIDE DEF R
  <2>3. Entails(a.lab, Label(Opened(q) \o R, Dead(P), {}))
    BY <2>2, EntailsItself
  <2>4. a.place.prologue = P /\ P = <<>>
    BY <1>3, <1>5 DEF P
  <2>5. Placed(q, a.place)
    BY <1>3, <1>12, <2>4 DEF Placed
  <2> HIDE DEF P
  <2> QED BY <1>3, <1>12, <2>1, <2>2, <2>3, <2>4, <2>5 DEF BlockLevel
<1>14. Level(q, a, b, E)
  <2>1. Stands(q, a, b, E)
    BY <1>9, <1>13 DEF Stands
  <2>2. q.kind \in NodeKinds \cup {"condition", "statements"}
    BY <1>9 DEF NodeKinds
  <2>3. a.waits = b.waits /\ b.place = a.place /\ b.lab.pins \subseteq a.lab.pins
        /\ InPlace(a.place, E)
    BY <1>3, <1>4, <1>7, <1>11
  <2> HIDE DEF E
  <2> QED BY <2>1, <2>2, <2>3, NodeLevel
<1>15. Chain(g.todo, a, E)
  <2> DEFINE K == <<a, b>>
  <2>1. K[1] = a /\ K[2] = b
    OBVIOUS
  <2>2. Len(g.todo) = 1 /\ g.todo[1] = q
    BY <1>2 DEF q
  <2> HIDE DEF K
  <2>3. \A i \in 1 .. Len(g.todo) : Level(g.todo[i], K[i], K[i + 1], E)
    <3> TAKE i \in 1 .. Len(g.todo)
    <3>1. i = 1 /\ i + 1 = 2
      BY <2>2
    <3> QED BY <1>14, <2>1, <2>2, <3>1
  <2> QED BY <2>1, <2>3 DEF Chain
<1>16. E[1] = Entry
  BY <1>8 DEF Entry, l, T, q, C
<1>17. Lowers(g)
  <2> HIDE DEF E
  <2> QED BY <1>8, <1>10, <1>15, <1>16 DEF Lowers
<1> QED BY <1>17 DEF g, q

-----------------------------------------------------------------------------
(* The same said of the next state: of the variables, only prog is read. *)
LEMMA PlacesPrime ==
  ASSUME prog' = prog
  PROVE  /\ \A P : Dead(P)' = Dead(P)
         /\ \A S, P : Region(S, P)' <=> Region(S, P)
         /\ \A s, P : LoopFits(s, P)' <=> LoopFits(s, P)
         /\ \A p, E : InPlace(p, E)' <=> InPlace(p, E)
<1>1. ASSUME NEW P PROVE Dead(P)' = Dead(P)
  BY DEF Dead
<1>2. ASSUME NEW S, NEW P PROVE Region(S, P)' <=> Region(S, P)
  BY DEF Region
<1>3. ASSUME NEW s, NEW P PROVE LoopFits(s, P)' <=> LoopFits(s, P)
  BY <1>1, <1>2 DEF LoopFits
<1>4. ASSUME NEW p, NEW E PROVE JumpsLead(p, E)' <=> JumpsLead(p, E)
  BY <1>1 DEF JumpsLead
<1>5. ASSUME NEW p, NEW E PROVE InPlace(p, E)' <=> InPlace(p, E)
  BY <1>2, <1>4 DEF InPlace
<1> QED BY <1>1, <1>2, <1>3, <1>5

LEMMA LevelPrime ==
  ASSUME prog' = prog, NEW t, NEW a, NEW b, NEW E
  PROVE  Level(t, a, b, E)' <=> Level(t, a, b, E)
<1>1. /\ \A P : Dead(P)' = Dead(P)
      /\ \A s, P : LoopFits(s, P)' <=> LoopFits(s, P)
      /\ \A p, D : InPlace(p, D)' <=> InPlace(p, D)
  BY PlacesPrime
<1>2. ReturnLevel(t, a)' <=> ReturnLevel(t, a)
  BY DEF ReturnLevel
<1>3. ASSUME NEW R, NEW P, NEW l PROVE AtEnd(R, P, l)' <=> AtEnd(R, P, l)
  BY <1>1 DEF AtEnd
<1>4. BlockLevel(t, a, b)' <=> BlockLevel(t, a, b)
  BY <1>1, <1>3 DEF BlockLevel
<1>5. ListLevel(t.statements, t.index, a, b)' <=> ListLevel(t.statements, t.index, a, b)
  BY <1>1, <1>3 DEF ListLevel
<1>6. ForListLevel(t.statements, t.index, a, b)' <=> ForListLevel(t.statements, t.index, a, b)
  BY <1>1 DEF ForListLevel
<1>7. ForLevel(t, a, b)' <=> ForLevel(t, a, b)
  BY <1>1 DEF ForLevel
<1>8. IfLevel(t, a, b)' <=> IfLevel(t, a, b)
  BY <1>1 DEF IfLevel
<1>9. IfDecidedLevel(t, a, b)' <=> IfDecidedLevel(t, a, b)
  BY <1>1 DEF IfDecidedLevel
<1>10. ThenDoneLevel(t, a, b, E)' <=> ThenDoneLevel(t, a, b, E)
  BY <1>1 DEF ThenDoneLevel
<1>11. WhileLevel(t, a, b)' <=> WhileLevel(t, a, b)
  BY <1>1 DEF WhileLevel
<1>12. WhileDecidedLevel(t, a, b, E)' <=> WhileDecidedLevel(t, a, b, E)
  BY <1>1, ZenonT(40) DEF WhileDecidedLevel
<1>13. Stands(t, a, b, E)' <=> Stands(t, a, b, E)
  BY <1>2, <1>4, <1>5, <1>6, <1>7, <1>8, <1>9, <1>10, <1>11, <1>12 DEF Stands
<1> QED BY <1>1, <1>13 DEF Level

(* What is said of the generator depends on nothing that changes but the   *)
(* generator.                                                              *)
LEMMA LowersPrime ==
  ASSUME prog' = prog, NEW h, h = gen', Lowers(h)
  PROVE  Lowers(gen)'
<1>1. PICK a, E : /\ Sound(h, a, E) /\ Chain(h.todo, a, E)
                  /\ Len(E) \in Nat \ {0} /\ E[1] = Entry
  BY DEF Lowers
<1>2. PICK K : K[1] = a /\ \A i \in 1 .. Len(h.todo) : Level(h.todo[i], K[i], K[i + 1], E)
  BY <1>1 DEF Chain
<1>3. \A i \in 1 .. Len(h.todo) : Level(h.todo[i], K[i], K[i + 1], E)'
  BY <1>2, LevelPrime
<1>4. Chain(h.todo, a, E)'
  BY <1>2, <1>3 DEF Chain
<1>5. Entry' = Entry
  BY DEF Entry
<1>6. (Sound(gen, a, E) /\ Chain(gen.todo, a, E))'
  BY <1>1, <1>4 DEF Sound, Chain
<1> QED BY <1>1, <1>5, <1>6 DEF Lowers

-----------------------------------------------------------------------------
(***************************************************************************)
(* Running.  The text that is compiled ends in the return that the text    *)
(* that is run may lack; at every instruction the text leads to one that   *)
(* suits it.                                                               *)
(***************************************************************************)
Completes(T, todo) == T = todo \/ T = Append(todo, Return(NoVar))

Follows(i, m, n, E, todo, e) ==
  \E T, U : \E d \in Envs :
    Completes(T, todo) /\ Leads(T, e, U, d) /\ Suits(i, m, U, d, n, E)

(* Behind an instruction, and at the start of a block, the next one suits. *)
LEMMA FollowsOn ==
  ASSUME NEW i, NEW k, NEW n, NEW E, Good(i, k, n, E), NEW m \in Machines, NEW d \in Envs,
         NEW T, NEW todo, Completes(T, todo), NEW e, NEW U, Leads(T, e, U, d), Sat(k, m, U, d)
  PROVE  Follows(i, m, n, E, todo, e)
<1>1. Agree(k, m, d) /\ U = Chosen(k, m)
  BY DEF Sat
<1>2. PICK V, f : f \in Envs /\ Leads(Chosen(k, m), d, V, f) /\ Suits(i, m, V, f, n, E)
  BY <1>1 DEF Good
<1>3. Leads(T, e, V, f)
  BY <1>1, <1>2, LeadsOn
<1> QED BY <1>2, <1>3 DEF Follows

(* Something is left of the text that is compiled when none is of the other. *)
LEMMA CompletesParts ==
  ASSUME NEW X, NEW todo \in Seq(X), NEW T, Completes(T, todo)
  PROVE  /\ todo # <<>> => T # <<>> /\ Head(T) = Head(todo) /\ Completes(Tail(T), Tail(todo))
         /\ todo = <<>> /\ T # <<>> => Head(T) = Return(NoVar)
<1> DEFINE r == Return(NoVar)
<1>1. CASE T = todo
  BY <1>1 DEF Completes
<1>2. CASE T = Append(todo, r)
  <2> DEFINE S == X \cup {r}
  <2>1. todo \in Seq(S) /\ r \in S
    OBVIOUS
  <2> HIDE DEF r, S
  <2>2. T # <<>> /\ (todo # <<>> => Head(T) = Head(todo) /\ Tail(T) = Append(Tail(todo), r))
    BY <1>2, <2>1
  <2>3. todo = <<>> => Head(T) = r
    BY <1>2, <2>1
  <2> QED BY <2>2, <2>3 DEF Completes, r
<1> QED BY <1>1, <1>2 DEF Completes

(* What completes a text is one. *)
LEMMA CompletesText ==
  ASSUME NEW rest, IsText(rest), NEW R, Completes(R, rest)
  PROVE  IsText(R)
<1> DEFINE r == Return(NoVar)
<1>1. PICK X : rest \in Seq(X)
  BY DEF IsText
<1> DEFINE S == X \cup {r}
<1>2. rest \in Seq(S) /\ r \in S
  BY <1>1
<1> HIDE DEF r, S
<1>3. rest \in Seq(S) /\ Append(rest, r) \in Seq(S)
  BY <1>2
<1> QED BY <1>3 DEF Completes, IsText, r

(* The return stays at the end of the text. *)
LEMMA InFrontCompletes ==
  ASSUME NEW A, IsText(A), NEW rest, IsText(rest), NEW R, Completes(R, rest)
  PROVE  Completes(A \o R, A \o rest)
<1> DEFINE r == Return(NoVar)
<1>1. CASE R = rest
  BY <1>1 DEF Completes
<1>2. CASE R = Append(rest, r)
  <2>1. PICK S : A \in Seq(S) /\ rest \in Seq(S) /\ rest \in Seq(S)
    BY CommonText
  <2> DEFINE X == S \cup {r}
  <2>2. A \in Seq(X) /\ rest \in Seq(X) /\ r \in X
    BY <2>1
  <2> HIDE DEF r, X
  <2>3. A \o Append(rest, r) = Append(A \o rest, r)
    BY <2>2
  <2> QED BY <1>2, <2>3 DEF Completes, r
<1> QED BY <1>1, <1>2 DEF Completes

(* What a statement becomes comes in front of what is behind it. *)
Becomes(s, e, A) == IsText(A) /\ \A R : IsText(R) => Unfold(s, R, e) = A \o R

(* What has no effect unfolds in front of what is behind it. *)
LEMMA UnfoldsInFront ==
  ASSUME NEW X, Text(X), NEW s \in X, NEW e, ~HasEffect(s), s.kind \notin Jumps
  PROVE  \E A : Becomes(s, e, A)
<1>1. /\ s.kind \in NodeKinds \cup {"loop", "again", "branch"}
      /\ s.kind \in NodeKinds => s \in Node
      /\ s.kind \in {"loop", "again"} => s \in LoopMarks
      /\ s.kind = "branch" => s \in Branches(X)
  BY TextParts
<1>3. CASE s.kind = "branch"
  <2> DEFINE A == Decide(s, e)
  <2>1. \A R : Unfold(s, R, e) = A \o R
    BY <1>3 DEF Unfold
  <2>2. s.condition \in Condition /\ s.yes \in Seq(X) /\ s.no \in Seq(X)
    BY <1>1, <1>3 DEF Branches
  <2>3. s.condition.op \in {"compare", "and", "or"}
    <3>1. s.condition \in Questions \cup Compares \cup Junctions /\ s.condition.op # "ask"
      BY <1>3, <2>2, ConditionAssumption DEF HasEffect
    <3> QED BY <3>1 DEF Questions, Compares, Junctions
  <2>4. IsText(A)
    <3>1. CASE s.condition.op = "compare"
      <4>1. A = s.yes \/ A = s.no
        BY <3>1 DEF Decide
      <4> QED BY <2>2, <4>1 DEF IsText
    <3>2. CASE s.condition.op = "and"
      <4> DEFINE b == Branch(s.condition.lhs, <<Branch(s.condition.rhs, s.yes, s.no)>>, s.no)
      <4>1. A = <<b>>
        BY <3>2 DEF Decide
      <4> HIDE DEF A, b
      <4> QED BY <4>1, OneText
    <3>3. CASE s.condition.op = "or"
      <4> DEFINE b == Branch(s.condition.lhs, s.yes, <<Branch(s.condition.rhs, s.yes, s.no)>>)
      <4>1. A = <<b>>
        BY <3>3 DEF Decide
      <4> HIDE DEF A, b
      <4> QED BY <4>1, OneText
    <3> QED BY <2>3, <3>1, <3>2, <3>3
  <2> HIDE DEF A
  <2>5. Becomes(s, e, A)
    BY <2>1, <2>4 DEF Becomes
  <2> QED BY <2>5
<1>4. CASE s.kind = "block"
  <2> DEFINE A == IF s.expects THEN <<>> ELSE s.statements
  <2>1. \A R : Unfold(s, R, e) = A \o R
    BY <1>4 DEF Unfold
  <2>2. s \in Blocks
    BY <1>1, <1>4, NodeParts DEF NodeKinds
  <2>3. s.statements \in Seq(Statement) /\ s.expects \in BOOLEAN
    BY <2>2, BlockParts
  <2>4. IsText(A)
    BY <2>3, OneText DEF IsText
  <2> HIDE DEF A
  <2>5. Becomes(s, e, A)
    BY <2>1, <2>4 DEF Becomes
  <2> QED BY <2>5
<1>5. CASE s.kind = "if"
  <2> DEFINE b == Branch(s.condition, <<s.then>>, <<s.else>>)
             A == <<b>>
  <2>1. \A R : Unfold(s, R, e) = A \o R
    BY <1>5 DEF Unfold
  <2> HIDE DEF b
  <2>2. IsText(A)
    BY OneText
  <2> HIDE DEF A
  <2>5. Becomes(s, e, A)
    BY <2>1, <2>2 DEF Becomes
  <2> QED BY <2>5
<1>6. CASE s.kind = "while"
  <2> DEFINE b == Loop(s.condition, s.body, s.prologue)
             A == <<b>>
  <2>1. \A R : Unfold(s, R, e) = A \o R
    BY <1>6 DEF Unfold
  <2> HIDE DEF b
  <2>2. IsText(A)
    BY OneText
  <2> HIDE DEF A
  <2>5. Becomes(s, e, A)
    BY <2>1, <2>2 DEF Becomes
  <2> QED BY <2>5
<1>7. CASE s.kind = "for"
  <2> DEFINE A == desugar(s).statements
  <2>1. \A R : Unfold(s, R, e) = A \o R
    BY <1>7 DEF Unfold, desugar, Block, StepOf
  <2>2. desugar(s) \in Blocks
    BY <1>1, <1>7, NodeParts DEF NodeKinds
  <2>3. IsText(A)
    BY <2>2, BlockParts DEF IsText
  <2> HIDE DEF A
  <2>5. Becomes(s, e, A)
    BY <2>1, <2>3 DEF Becomes
  <2> QED BY <2>5
<1>8. CASE s.kind = "loop"
  <2> DEFINE b == Branch(s.condition, <<s.body, [s EXCEPT !.kind = "again"]>>, <<>>)
             A == <<b>>
  <2>1. \A R : Unfold(s, R, e) = A \o R
    BY <1>8 DEF Unfold
  <2> HIDE DEF b
  <2>2. IsText(A)
    BY OneText
  <2> HIDE DEF A
  <2>5. Becomes(s, e, A)
    BY <2>1, <2>2 DEF Becomes
  <2> QED BY <2>5
<1>9. CASE s.kind = "again"
  <2> DEFINE loop == [s EXCEPT !.kind = "loop"]
             A == Append(s.step, loop)
             S == Assignments \cup {loop}
  <2>1. \A R : Unfold(s, R, e) = A \o R
    BY <1>9 DEF Unfold
  <2>2. s.step \in Seq(Assignments)
    BY <1>1, <1>9 DEF LoopMarks
  <2> HIDE DEF loop
  <2>3. s.step \in Seq(S) /\ loop \in S
    BY <2>2
  <2> HIDE DEF S
  <2>4. IsText(A)
    BY <2>3 DEF IsText
  <2> HIDE DEF A
  <2>5. Becomes(s, e, A)
    BY <2>1, <2>4 DEF Becomes
  <2> QED BY <2>5
<1>10. CASE s.kind \notin {"branch", "block", "if", "while", "for", "loop", "again"}
  <2>1. IsText(<<>>)
    BY OneText
  <2>2. ASSUME NEW R, IsText(R) PROVE Unfold(s, R, e) = <<>> \o R
    <3>1. Unfold(s, R, e) = R
      BY <1>10 DEF Unfold, Jumps
    <3>2. <<>> \o R = R
      BY <2>2, InFront
    <3> QED BY <3>1, <3>2
  <2>3. Becomes(s, e, <<>>)
    BY <2>1, <2>2 DEF Becomes
  <2> QED BY <2>3
<1> QED BY <1>3, <1>4, <1>5, <1>6, <1>7, <1>8, <1>9, <1>10

(* A statement more at the end is one at the end of what is left from i on. *)
LEMMA FromAppend ==
  ASSUME NEW S, NEW B \in Seq(S), NEW r \in S, NEW i \in 1 .. Len(B) + 1
  PROVE  From(Append(B, r), i) = Append(From(B, i), r) /\ From(B, i) \in Seq(S)
<1> DEFINE n == Len(B)
           A == Append(B, r)
           C == From(A, i)
           D == From(B, i)
           F == Append(D, r)
<1>1. n = Len(B) /\ n \in Nat /\ A \in Seq(S) /\ Len(A) = n + 1
  OBVIOUS
<1>2. (\A j \in 1 .. n : A[j] = B[j]) /\ A[n + 1] = r
  OBVIOUS
<1> HIDE DEF A, n
<1>3. i \in 1 .. n + 1
  BY <1>1
<1>4. C \in Seq(S) /\ Len(C) = n - i + 2 /\ \A j \in 1 .. n - i + 2 : C[j] = A[i + j - 1]
  BY <1>1, <1>3 DEF From
<1>5. D \in Seq(S) /\ Len(D) = n - i + 1 /\ \A j \in 1 .. n - i + 1 : D[j] = B[i + j - 1]
  BY <1>1, <1>3 DEF From
<1> HIDE DEF C, D
<1>6. /\ F \in Seq(S) /\ Len(F) = n - i + 2
      /\ (\A j \in 1 .. n - i + 1 : F[j] = D[j]) /\ F[n - i + 2] = r
  BY <1>1, <1>3, <1>5
<1> HIDE DEF F
<1>7. ASSUME NEW j \in 1 .. n - i + 2 PROVE C[j] = F[j]
  <2>1. CASE j = n - i + 2
    <3>1. i + j - 1 = n + 1
      BY <1>1, <1>3, <2>1
    <3> QED BY <1>2, <1>4, <1>6, <2>1, <3>1
  <2>2. CASE j # n - i + 2
    <3>1. j \in 1 .. n - i + 1 /\ i + j - 1 \in 1 .. n
      BY <1>1, <1>3, <2>2
    <3>2. C[j] = B[i + j - 1]
      BY <1>2, <1>4, <3>1
    <3> QED BY <1>5, <1>6, <3>1, <3>2
  <2> QED BY <2>1, <2>2
<1>8. C = F
  BY <1>4, <1>6, <1>7, SameSequence
<1> QED BY <1>5, <1>8 DEF A, C, D, F

(* The rest from the next mark on has the statement too, if it has any. *)
LEMMA FromAgainAppend ==
  ASSUME NEW S, NEW rest \in Seq(S), NEW r \in S, r.kind # "again"
  PROVE  LET A == FromAgain(Append(rest, r))
             B == FromAgain(rest)
         IN  \/ A = <<>> /\ B = <<>>
             \/ B # <<>> /\ B \in Seq(S) /\ A = Append(B, r)
<1> DEFINE R == Append(rest, r)
           A == FromAgain(R)
           B == FromAgain(rest)
<1>1. /\ R \in Seq(S) /\ Len(R) = Len(rest) + 1 /\ Len(rest) \in Nat
      /\ \A i \in 1 .. Len(rest) : R[i] = rest[i]
      /\ R[Len(rest) + 1] = r
  OBVIOUS
<1> HIDE DEF R
<1>2. CASE \A i \in 1 .. Len(rest) : rest[i].kind # "again"
  <2>1. \A i \in 1 .. Len(R) : R[i].kind # "again"
    <3>1. \A i \in 1 .. Len(R) : i \in 1 .. Len(rest) \/ i = Len(rest) + 1
      BY <1>1
    <3> QED BY <1>1, <1>2, <3>1
  <2>2. A = <<>> /\ B = <<>>
    BY <1>1, <1>2, <2>1, FromAgainParts
  <2> QED BY <2>2 DEF R
<1>3. CASE \E i \in 1 .. Len(rest) : rest[i].kind = "again"
  <2> DEFINE I == {i \in 1 .. Len(rest) : rest[i].kind = "again"}
  <2>1. PICK j \in I : \A i \in I : j <= i
    <3>1. I \subseteq Nat /\ I # {}
      BY <1>3
    <3> HIDE DEF I
    <3> QED BY <3>1, LeastNumber
  <2>2. /\ j \in 1 .. Len(rest) /\ rest[j].kind = "again"
        /\ \A i \in 1 .. j - 1 : i \in 1 .. Len(rest) /\ rest[i].kind # "again"
    <3>1. j \in 1 .. Len(rest) /\ rest[j].kind = "again"
      OBVIOUS
    <3>2. \A i \in 1 .. j - 1 : i \in 1 .. Len(rest) /\ ~(j <= i)
      BY <1>1, <3>1
    <3> QED BY <2>1, <3>1, <3>2
  <2> HIDE DEF I
  <2>3. B = From(rest, j)
    BY <2>2, FromAgainParts
  <2>4. A = From(R, j)
    <3>1. j \in 1 .. Len(R) /\ R[j].kind = "again" /\ \A i \in 1 .. j - 1 : R[i].kind # "again"
      BY <1>1, <2>2
    <3> QED BY <1>1, <3>1, FromAgainParts
  <2> HIDE DEF A, B
  <2>5. A = Append(B, r) /\ B \in Seq(S)
    <3>1. j \in 1 .. Len(rest) + 1
      BY <1>1, <2>2
    <3>2. From(Append(rest, r), j) = Append(From(rest, j), r) /\ From(rest, j) \in Seq(S)
      BY <3>1, FromAppend
    <3> QED BY <2>3, <2>4, <3>2 DEF R
  <2>6. B # <<>>
    <3>1. j \in Nat \ {0} /\ j + 1 \in Nat \ {0} /\ j <= Len(rest)
      BY <1>1, <2>2
    <3>2. B = <<rest[j]>> \o From(rest, j + 1)
      BY <2>3, <3>1, FromParts
    <3>3. IsText(From(rest, j + 1))
      BY <3>1, FromParts
    <3> QED BY <3>2, <3>3, InFront
  <2> QED BY <2>5, <2>6 DEF A, B, R
<1> QED BY <1>2, <1>3

(* Jumps go on from the same mark. *)
LEMMA FromAgainCompletes ==
  ASSUME NEW X, NEW rest \in Seq(X), NEW R, Completes(R, rest)
  PROVE  LET A == FromAgain(R)
             B == FromAgain(rest)
         IN  Completes(A, B) /\ Completes(SubSeq(A, 2, Len(A)), SubSeq(B, 2, Len(B)))
<1> DEFINE r == Return(NoVar)
           S == X \cup {r}
           A == FromAgain(R)
           B == FromAgain(rest)
<1>1. CASE R = rest
  BY <1>1 DEF Completes
<1>2. CASE R = Append(rest, r)
  <2>1. rest \in Seq(S) /\ r \in S /\ r.kind # "again"
    BY DEF Return
  <2> HIDE DEF r, S
  <2>2. \/ A = <<>> /\ B = <<>>
        \/ B # <<>> /\ B \in Seq(S) /\ A = Append(B, r)
    BY <1>2, <2>1, FromAgainAppend
  <2> HIDE DEF A, B
  <2>3. CASE A = <<>> /\ B = <<>>
    <3>1. Completes(A, B) /\ Completes(SubSeq(A, 2, Len(A)), SubSeq(B, 2, Len(B)))
      BY <2>3 DEF Completes
    <3> QED BY <3>1 DEF A, B
  <2>4. CASE B # <<>> /\ B \in Seq(S) /\ A = Append(B, r)
    <3>1. SubSeq(A, 2, Len(A)) = Append(SubSeq(B, 2, Len(B)), r)
      <4>1. 2 \in 1 .. Len(B) + 1
        BY <2>4
      <4>2. From(Append(B, r), 2) = Append(From(B, 2), r)
        BY <2>1, <2>4, <4>1, FromAppend
      <4> QED BY <2>4, <4>2 DEF From
    <3>2. Completes(A, B) /\ Completes(SubSeq(A, 2, Len(A)), SubSeq(B, 2, Len(B)))
      BY <2>4, <3>1 DEF Completes, r
    <3> QED BY <3>2 DEF A, B
  <2> QED BY <2>2, <2>3, <2>4
<1> QED BY <1>1, <1>2 DEF Completes

(* Both texts are read on. *)
LEMMA UnfoldCompletes ==
  ASSUME NEW X, Text(X), NEW s \in X, NEW e, ~HasEffect(s),
         NEW rest \in Seq(X), NEW R, Completes(R, rest)
  PROVE  Completes(Unfold(s, R, e), Unfold(s, rest, e))
<1>1. CASE s.kind \in Jumps
  <2>1. \/ /\ Unfold(s, R, e) = SubSeq(FromAgain(R), 2, Len(FromAgain(R)))
           /\ Unfold(s, rest, e) = SubSeq(FromAgain(rest), 2, Len(FromAgain(rest)))
        \/ Unfold(s, R, e) = FromAgain(R) /\ Unfold(s, rest, e) = FromAgain(rest)
    BY <1>1 DEF Jumps, Unfold
  <2>2. /\ Completes(FromAgain(R), FromAgain(rest))
        /\ Completes(SubSeq(FromAgain(R), 2, Len(FromAgain(R))),
                     SubSeq(FromAgain(rest), 2, Len(FromAgain(rest))))
    BY FromAgainCompletes
  <2> QED BY <2>1, <2>2
<1>2. CASE s.kind \notin Jumps
  <2>1. PICK A : Becomes(s, e, A)
    BY <1>2, UnfoldsInFront
  <2>2. IsText(rest)
    BY DEF IsText
  <2>3. IsText(R)
    BY <2>2, CompletesText
  <2>4. Completes(A \o R, A \o rest)
    <3>1. IsText(A)
      BY <2>1 DEF Becomes
    <3> QED BY <2>2, <3>1, InFrontCompletes
  <2>5. Unfold(s, R, e) = A \o R /\ Unfold(s, rest, e) = A \o rest
    BY <2>1, <2>2, <2>3 DEF Becomes
  <2> QED BY <2>4, <2>5
<1> QED BY <1>1, <1>2

-----------------------------------------------------------------------------
(* The machine as a record, in which every number is a temporary. *)
MachineOf(x, y, z) ==
  [acc  |-> x,
   temp |-> [t \in Nat |-> IF t \in DOMAIN y THEN y[t] ELSE FALSE],
   env  |-> z]

(* The record is a machine, and has what the variables have. *)
LEMMA MachineTyped ==
  ASSUME NEW n \in Nat, NEW x \in BOOLEAN, NEW y \in [1 .. n -> BOOLEAN], NEW z \in Envs
  PROVE  /\ MachineOf(x, y, z) \in Machines
         /\ MachineOf(x, y, z).acc = x /\ MachineOf(x, y, z).env = z
         /\ \A t \in 1 .. n : MachineOf(x, y, z).temp[t] = y[t]
<1> DEFINE f == [t \in Nat |-> IF t \in DOMAIN y THEN y[t] ELSE FALSE]
<1>1. f \in [Nat -> BOOLEAN]
  OBVIOUS
<1>2. ASSUME NEW t \in 1 .. n PROVE f[t] = y[t]
  OBVIOUS
<1> HIDE DEF f
<1>3. MachineOf(x, y, z) = [acc |-> x, temp |-> f, env |-> z]
  BY DEF MachineOf, f
<1> QED BY <1>1, <1>2, <1>3 DEF Machines

(* What it does is what Exec says. *)
Does(i, x, y, z) ==
  LET m == MachineOf(x, y, z)
  IN  /\ i.op = "store" => Exec(i, m) = MachineOf(x, y, [z EXCEPT ![i.var] = i.value])
      /\ i.op = "add" => Exec(i, m) = MachineOf(x, y, [z EXCEPT ![i.var] = Wrap(@ + i.by)])
      /\ i.op = "set" => Exec(i, m) = MachineOf(x, [y EXCEPT ![i.temp] = i.value], z)
      /\ i.op = "get" => Exec(i, m) = MachineOf(y[i.temp], y, z)
      /\ i.op = "compare" => Exec(i, m) = MachineOf(Holds(i, z), y, z)

(* The actions of the machine do what Exec says. *)
LEMMA MachineExec ==
  ASSUME NEW k, NEW n \in Nat, NEW i \in Instructions(k, n),
         NEW x \in BOOLEAN, NEW y \in [1 .. n -> BOOLEAN], NEW z \in Envs
  PROVE  Does(i, x, y, z)
<1> DEFINE F(w) == [t \in Nat |-> IF t \in DOMAIN w THEN w[t] ELSE FALSE]
           f == F(y)
           m == MachineOf(x, y, z)
<1>1. \A a, w, v : MachineOf(a, w, v) = [acc |-> a, temp |-> F(w), env |-> v]
  BY DEF MachineOf
<1>2. i.op = "set" => F([y EXCEPT ![i.temp] = i.value]) = [f EXCEPT ![i.temp] = i.value]
  <2>1. ASSUME i.op = "set" PROVE i.temp \in 1 .. n
    BY <2>1, InstructionParts
  <2>2. ASSUME NEW t \in 1 .. n, NEW v
        PROVE  F([y EXCEPT ![t] = v]) = [F(y) EXCEPT ![t] = v]
    OBVIOUS
  <2> QED BY <2>1, <2>2
<1>3. i.op = "get" => f[i.temp] = y[i.temp]
  <2>1. ASSUME i.op = "get" PROVE i.temp \in 1 .. n
    BY <2>1, InstructionParts
  <2>2. \A t \in 1 .. n : f[t] = y[t]
    OBVIOUS
  <2> QED BY <2>1, <2>2
<1>4. m = [acc |-> x, temp |-> f, env |-> z]
  BY <1>1
<1> HIDE DEF f, F, m
<1>5. m.acc = x /\ m.temp = f /\ m.env = z
  BY <1>4
<1>6. \A a : [m EXCEPT !.acc = a] = [acc |-> a, temp |-> f, env |-> z]
  BY <1>4
<1>7. \A w : [m EXCEPT !.temp = w] = [acc |-> x, temp |-> w, env |-> z]
  BY <1>4
<1>8. \A v : [m EXCEPT !.env = v] = [acc |-> x, temp |-> f, env |-> v]
  BY <1>4
<1>9. ASSUME i.op = "store" PROVE Exec(i, m) = MachineOf(x, y, [z EXCEPT ![i.var] = i.value])
  <2>1. Exec(i, m) = [m EXCEPT !.env = [m.env EXCEPT ![i.var] = i.value]]
    BY <1>9 DEF Exec
  <2> DEFINE v == [z EXCEPT ![i.var] = i.value]
  <2>2. Exec(i, m) = [m EXCEPT !.env = v]
    BY <1>5, <2>1
  <2> HIDE DEF v
  <2>3. Exec(i, m) = MachineOf(x, y, v)
    BY <1>1, <1>8, <2>2 DEF f
  <2> QED BY <2>3 DEF v
<1>10. ASSUME i.op = "add" PROVE Exec(i, m) = MachineOf(x, y, [z EXCEPT ![i.var] = Wrap(@ + i.by)])
  <2>1. Exec(i, m) = [m EXCEPT !.env = [m.env EXCEPT ![i.var] = Wrap(@ + i.by)]]
    BY <1>10 DEF Exec
  <2> DEFINE v == [z EXCEPT ![i.var] = Wrap(@ + i.by)]
  <2>2. Exec(i, m) = [m EXCEPT !.env = v]
    BY <1>5, <2>1
  <2> HIDE DEF v
  <2>3. Exec(i, m) = MachineOf(x, y, v)
    BY <1>1, <1>8, <2>2 DEF f
  <2> QED BY <2>3 DEF v
<1>11. ASSUME i.op = "set" PROVE Exec(i, m) = MachineOf(x, [y EXCEPT ![i.temp] = i.value], z)
  <2>1. Exec(i, m) = [m EXCEPT !.temp = [m.temp EXCEPT ![i.temp] = i.value]]
    BY <1>11 DEF Exec
  <2> DEFINE w == [f EXCEPT ![i.temp] = i.value]
             u == [y EXCEPT ![i.temp] = i.value]
  <2>2. Exec(i, m) = [m EXCEPT !.temp = w] /\ w = F(u)
    BY <1>2, <1>5, <1>11, <2>1
  <2> HIDE DEF u, w
  <2>3. Exec(i, m) = MachineOf(x, u, z)
    BY <1>1, <1>7, <2>2
  <2> QED BY <2>3 DEF u
<1>12. ASSUME i.op = "get" PROVE Exec(i, m) = MachineOf(y[i.temp], y, z)
  <2>1. Exec(i, m) = [m EXCEPT !.acc = m.temp[i.temp]]
    BY <1>12 DEF Exec
  <2>2. m.temp[i.temp] = y[i.temp]
    BY <1>3, <1>5, <1>12
  <2> DEFINE a == y[i.temp]
  <2>3. Exec(i, m) = [m EXCEPT !.acc = a]
    BY <2>1, <2>2
  <2> HIDE DEF a
  <2>4. Exec(i, m) = MachineOf(a, y, z)
    BY <1>1, <1>6, <2>3 DEF f
  <2> QED BY <2>4 DEF a
<1>13. ASSUME i.op = "compare" PROVE Exec(i, m) = MachineOf(Holds(i, z), y, z)
  <2>1. Exec(i, m) = [m EXCEPT !.acc = Holds(i, m.env)]
    BY <1>13 DEF Exec
  <2> DEFINE a == Holds(i, z)
  <2>2. Exec(i, m) = [m EXCEPT !.acc = a]
    BY <1>5, <2>1
  <2> HIDE DEF a
  <2>3. Exec(i, m) = MachineOf(a, y, z)
    BY <1>1, <1>6, <2>2 DEF f
  <2> QED BY <2>3 DEF a
<1> QED BY <1>9, <1>10, <1>11, <1>12, <1>13 DEF m, Does

(* All of the code is good between labels. *)
CodeLabels(c, E, W) ==
  /\ IsText(E) /\ Len(E) = Len(c)
  /\ \A b \in 1 .. Len(c) :
       W[b][1] = E[b] /\ \A k \in 1 .. Len(c[b]) : Good(c[b][k], W[b][k], W[b][k + 1], E)

(* When nothing is left to generate and every block ends in its terminator. *)
LEMMA LowersLabels ==
  ASSUME NEW g, GenTyped(g), g.todo = <<>>, ~Malformed(g.code), Lowers(g)
  PROVE  \E E, W : CodeLabels(g.code, E, W) /\ E[1] = Entry
<1>1. PICK a, E : Sound(g, a, E) /\ E[1] = Entry
  BY DEF Lowers
<1> DEFINE c == g.code
           n == Len(c)
           I == Instructions(Len(g.code), g.temps)
<1>2. c \in Seq(Seq(I)) /\ n \in Nat
  BY GenFields
<1> HIDE DEF I
<1>3. ASSUME NEW b \in 1 .. n
      PROVE  c[b] \in Seq(I) /\ Complete(c[b])
  <2>1. b \in DOMAIN c
    BY <1>2
  <2> QED BY <1>2, <2>1 DEF Malformed
<1>4. /\ IsText(E) /\ Len(E) = n
      /\ Run(c[g.insert], E, E[g.insert], a.lab)
      /\ \A b \in 1 .. n : b # g.insert => Ran(c[b], E, E[b])
  BY <1>1 DEF Sound, CodeRuns
<1>5. ASSUME NEW b \in 1 .. n
      PROVE  \E w : w[1] = E[b] /\ Labelled(c[b], w, E)
  BY <1>4 DEF Run, Ran
<1> DEFINE W == [b \in 1 .. n |-> CHOOSE w : w[1] = E[b] /\ Labelled(c[b], w, E)]
<1>6. ASSUME NEW b \in 1 .. n
      PROVE  W[b][1] = E[b] /\ Labelled(c[b], W[b], E)
  <2> DEFINE Is(w) == w[1] = E[b] /\ Labelled(c[b], w, E)
  <2>1. \E w : Is(w)
    BY <1>5
  <2>2. W[b] = CHOOSE w : Is(w)
    OBVIOUS
  <2> HIDE DEF Is, W
  <2>3. Is(W[b])
    BY <2>1, <2>2
  <2> QED BY <2>3 DEF Is
<1> HIDE DEF W
<1>7. ASSUME NEW b \in 1 .. n, NEW k \in 1 .. Len(c[b])
      PROVE  Good(c[b][k], W[b][k], W[b][k + 1], E)
  <2> DEFINE q == c[b]
  <2>1. q \in Seq(I) /\ Complete(q)
    BY <1>3
  <2> HIDE DEF q
  <2>2. k \in 1 .. Len(q) /\ Len(q) \in Nat /\ DOMAIN q = 1 .. Len(q)
    BY <2>1, SMTT(30) DEF q
  <2>3. \A j \in 1 .. k - 1 : j \in DOMAIN q /\ j # Len(q)
    <3> DEFINE m == Len(q)
    <3>1. k \in 1 .. m /\ m \in Nat /\ DOMAIN q = 1 .. m
      BY <2>2
    <3> HIDE DEF m
    <3>2. \A j \in 1 .. k - 1 : j \in 1 .. m /\ j # m
      BY <3>1
    <3> QED BY <3>1, <3>2 DEF m
  <2>4. Live(q, k)
    BY <2>1, <2>3 DEF Live, Complete
  <2> QED BY <1>6, <2>2, <2>4 DEF Labelled, q
<1>8. CodeLabels(c, E, W)
  BY <1>4, <1>6, <1>7 DEF CodeLabels
<1> QED BY <1>1, <1>8

(* The text that is compiled is the one that is run, to the return. *)
LEMMA EntryCompletes ==
  ASSUME prog \in Programs
  PROVE  Completes(WithReturn(prog).statements \o <<>>, prog.statements)
<1> DEFINE T == WithReturn(prog).statements
<1>1. prog \in Blocks
  BY ProgramsAssumption
<1>2. T = prog.statements \/ T = Append(prog.statements, Return(NoVar))
  BY <1>1 DEF WithReturn, Blocks
<1>3. T \in Seq(Statement)
  BY WithReturnParts, BlockParts
<1> HIDE DEF T
<1>4. T \o <<>> = T
  BY <1>3, EmptyBehind DEF IsText
<1> QED BY <1>2, <1>4 DEF Completes, T

-----------------------------------------------------------------------------
(***************************************************************************)
(* The invariant: the code that is left to generate lowers the program;    *)
(* and as long as it runs, the text leads to what suits the instruction    *)
(* that is next.                                                           *)
(***************************************************************************)
BehaviourInv ==
  StepsOncePerIteration =>
    /\ status # "diverged"
    /\ status = "compiling" =>
         Lowers(gen) /\ source.todo = prog.statements /\ source.env = env
    /\ status = "running" =>
         \E E, W : /\ CodeLabels(code, E, W)
                   /\ Follows(instruction, MachineOf(acc, temp, env),
                              W[at.block][at.index + 1], E, source.todo, source.env)

(* At a place whose label is met, the text leads to what suits what is     *)
(* there.                                                                  *)
LEMMA FollowsAt ==
  ASSUME NEW c, NEW E, NEW W, CodeLabels(c, E, W), NEW b \in 1 .. Len(c), NEW k \in 1 .. Len(c[b]),
         NEW m \in Machines, NEW d \in Envs, NEW T, NEW todo, Completes(T, todo),
         NEW e, NEW U, Leads(T, e, U, d), Sat(W[b][k], m, U, d)
  PROVE  Follows(c[b][k], m, W[b][k + 1], E, todo, e)
<1>1. Good(c[b][k], W[b][k], W[b][k + 1], E)
  BY DEF CodeLabels
<1> QED BY <1>1, FollowsOn

(* The same of the next state, where the code is the same. *)
LEMMA StillFollows ==
  ASSUME prog' = prog, gen' = gen, status' = "running",
         NEW E, NEW W, CodeLabels(code, E, W), NEW a, a = at',
         NEW m, m = MachineOf(acc', temp', env'), NEW todo, todo = source'.todo,
         NEW e, e = source'.env,
         Follows(code[a.block][a.index], m, W[a.block][a.index + 1], E, todo, e)
  PROVE  BehaviourInv'
<1>1. PICK c : c = code
  OBVIOUS
<1>2. code' = c
  BY <1>1 DEF code
<1>3. instruction' = c[a.block][a.index]
  BY <1>2 DEF instruction
<1>4. CodeLabels(c, E, W) /\ Follows(c[a.block][a.index], m, W[a.block][a.index + 1], E, todo, e)
  BY <1>1
<1> QED BY <1>2, <1>3, <1>4 DEF BehaviourInv

(* The machine after a step, and where it is. *)
LEMMA NextMachine ==
  ASSUME GenInv, RunInv', gen' = gen, status' = "running"
  PROVE  /\ MachineOf(acc', temp', env') \in Machines
         /\ at'.block \in 1 .. Len(code) /\ at'.index \in 1 .. Len(code[at'.block])
<1>1. gen.temps \in Nat
  BY DEF GenInv, GenTyped
<1>2. code' = code
  BY DEF code
<1>3. /\ acc' \in BOOLEAN /\ temp' \in [1 .. gen.temps -> BOOLEAN] /\ env' \in Envs
      /\ at'.block \in 1 .. Len(code)
      /\ at'.index \in Nat \ {0} /\ at'.index <= Len(code[at'.block])
  BY <1>2 DEF RunInv, Envs
<1>4. PICK x, y, z : x = acc' /\ y = temp' /\ z = env'
  OBVIOUS
<1>5. MachineOf(x, y, z) \in Machines
  BY <1>1, <1>3, <1>4, MachineTyped
<1>6. Len(code[at'.block]) \in Nat
  <2> DEFINE I == Instructions(Len(code), gen.temps)
  <2>1. code \in Seq(Seq(I))
    BY GenFields DEF GenInv, code
  <2> HIDE DEF I
  <2>2. code[at'.block] \in Seq(I)
    BY <1>3, <2>1
  <2> QED BY <2>2
<1> QED BY <1>3, <1>4, <1>5, <1>6

(* An instruction that leaves the text alone and goes on. *)
LEMMA QuietFollows ==
  ASSUME GenInv, RunInv, RunInv', BehaviourInv, StepsOncePerIteration, status = "running",
         UNCHANGED <<prog, gen, source, status>>, instruction.op \in Quiet, GoOn,
         MachineOf(acc', temp', env') = Exec(instruction, MachineOf(acc, temp, env))
  PROVE  BehaviourInv'
<1>1. PICK E, W : /\ CodeLabels(code, E, W)
                  /\ Follows(instruction, MachineOf(acc, temp, env),
                             W[at.block][at.index + 1], E, source.todo, source.env)
  BY DEF BehaviourInv
<1> DEFINE M == MachineOf(acc, temp, env)
           n == W[at.block][at.index + 1]
<1>2. PICK a, m : a = at' /\ m = MachineOf(acc', temp', env')
  OBVIOUS
<1>3. PICK todo, e : todo = source.todo /\ e = source.env
  OBVIOUS
<1>4. PICK T, U : \E d \in Envs :
        Completes(T, todo) /\ Leads(T, e, U, d) /\ Suits(instruction, M, U, d, n, E)
  BY <1>1, <1>3 DEF Follows
<1>5. PICK d \in Envs :
        Completes(T, todo) /\ Leads(T, e, U, d) /\ Suits(instruction, M, U, d, n, E)
  BY <1>4
<1>6. Sat(n, m, U, d)
  BY <1>2, <1>5 DEF Suits
<1>7. a.block = at.block /\ a.index = at.index + 1
  BY <1>2 DEF GoOn, RunInv
<1>8. m \in Machines /\ a.block \in 1 .. Len(code) /\ a.index \in 1 .. Len(code[a.block])
  BY <1>2, NextMachine
<1>9. Sat(W[a.block][a.index], m, U, d)
  BY <1>6, <1>7
<1>10. Follows(code[a.block][a.index], m, W[a.block][a.index + 1], E, todo, e)
  BY <1>1, <1>5, <1>8, <1>9, FollowsAt
<1>11. todo = source'.todo /\ e = source'.env /\ status' = "running"
  BY <1>3
<1> QED BY <1>1, <1>2, <1>10, <1>11, StillFollows

(* A branch. *)
LEMMA BranchFollows ==
  ASSUME GenInv, RunInv, RunInv', BehaviourInv, StepsOncePerIteration, status = "running",
         UNCHANGED <<prog, gen, acc, temp, env, source, status>>, instruction.op \in {"br", "cbr"},
         GoTo(Target(instruction, MachineOf(acc, temp, env)))
  PROVE  BehaviourInv'
<1>1. PICK E, W : /\ CodeLabels(code, E, W)
                  /\ Follows(instruction, MachineOf(acc, temp, env),
                             W[at.block][at.index + 1], E, source.todo, source.env)
  BY DEF BehaviourInv
<1> DEFINE M == MachineOf(acc, temp, env)
           n == W[at.block][at.index + 1]
           b == Target(instruction, M)
<1>2. PICK a, m : a = at' /\ m = MachineOf(acc', temp', env')
  OBVIOUS
<1>3. PICK todo, e : todo = source.todo /\ e = source.env
  OBVIOUS
<1>4. PICK T, U : \E d \in Envs :
        Completes(T, todo) /\ Leads(T, e, U, d) /\ Suits(instruction, M, U, d, n, E)
  BY <1>1, <1>3 DEF Follows
<1>5. PICK d \in Envs :
        Completes(T, todo) /\ Leads(T, e, U, d) /\ Suits(instruction, M, U, d, n, E)
  BY <1>4
<1>6. b \in 1 .. Len(E) /\ Sat(E[b], M, U, d)
  BY <1>5 DEF Suits
<1>7. a.block = b /\ a.index = 1
  BY <1>2 DEF GoTo
<1>8. m \in Machines /\ a.block \in 1 .. Len(code) /\ a.index \in 1 .. Len(code[a.block])
  BY <1>2, NextMachine
<1>9. m = M
  BY <1>2
<1>10. W[a.block][a.index] = E[b]
  BY <1>1, <1>7, <1>8 DEF CodeLabels
<1>11. Sat(W[a.block][a.index], m, U, d)
  BY <1>6, <1>9, <1>10
<1>12. Follows(code[a.block][a.index], m, W[a.block][a.index + 1], E, todo, e)
  BY <1>1, <1>5, <1>8, <1>11, FollowsAt
<1>13. todo = source'.todo /\ e = source'.env /\ status' = "running"
  BY <1>3
<1> QED BY <1>1, <1>2, <1>12, <1>13, StillFollows

(* The steps of the machine that leave the text alone. *)
LEMMA MachineFollows ==
  ASSUME GenInv, RunInv, RunInv', BehaviourInv, StepsOncePerIteration,
         Store \/ Add \/ SetTemp \/ GetTemp \/ Comparison \/ Jump \/ CondJump
  PROVE  BehaviourInv'
<1>1. status = "running"
  BY DEF Store, Add, SetTemp, GetTemp, Comparison, Jump, CondJump, AtInstruction
<1>2. PICK i : i = instruction
  OBVIOUS
<1>3. PICK x, y, z : x = acc /\ y = temp /\ z = env
  OBVIOUS
<1> DEFINE n == gen.temps
           k == Len(code)
           m == MachineOf(x, y, z)
<1>4. i \in Instructions(k, n) /\ n \in Nat
  BY <1>1, <1>2, RunningFacts DEF GenInv, GenTyped
<1>5. x \in BOOLEAN /\ y \in [1 .. n -> BOOLEAN] /\ z \in Envs
  BY <1>1, <1>3 DEF RunInv, Envs
<1>6. m.acc = x
  BY <1>4, <1>5, MachineTyped
<1> HIDE DEF n, k
<1>7. /\ i.op = "store" => Exec(i, m) = MachineOf(x, y, [z EXCEPT ![i.var] = i.value])
      /\ i.op = "add" => Exec(i, m) = MachineOf(x, y, [z EXCEPT ![i.var] = Wrap(@ + i.by)])
      /\ i.op = "set" => Exec(i, m) = MachineOf(x, [y EXCEPT ![i.temp] = i.value], z)
      /\ i.op = "get" => Exec(i, m) = MachineOf(y[i.temp], y, z)
      /\ i.op = "compare" => Exec(i, m) = MachineOf(Holds(i, z), y, z)
  <2>1. Does(i, x, y, z)
    BY <1>4, <1>5, MachineExec
  <2> QED BY <2>1, Zenon DEF Does
<1>8. m = MachineOf(acc, temp, env)
  BY <1>3
<1>9. ASSUME instruction.op \in Quiet, GoOn, UNCHANGED <<prog, gen, source, status>>,
             Exec(i, m) = MachineOf(acc', temp', env')
      PROVE  BehaviourInv'
  BY <1>1, <1>2, <1>8, <1>9, QuietFollows
<1>10. CASE Store
  <2>1. /\ i.op = "store" /\ GoOn /\ UNCHANGED <<prog, gen, acc, temp, source, status>>
        /\ env' = [z EXCEPT ![i.var] = i.value]
    BY <1>2, <1>3, <1>10 DEF Store, AtInstruction
  <2>2. Exec(i, m) = MachineOf(acc', temp', env')
    BY <1>3, <1>7, <2>1
  <2> QED BY <1>2, <1>9, <2>1, <2>2 DEF Quiet
<1>11. CASE Add
  <2>1. /\ i.op = "add" /\ GoOn /\ UNCHANGED <<prog, gen, acc, temp, source, status>>
        /\ env' = [z EXCEPT ![i.var] = Wrap(@ + i.by)]
    BY <1>2, <1>3, <1>11 DEF Add, AtInstruction
  <2>2. Exec(i, m) = MachineOf(acc', temp', env')
    BY <1>3, <1>7, <2>1
  <2> QED BY <1>2, <1>9, <2>1, <2>2 DEF Quiet
<1>12. CASE SetTemp
  <2>1. /\ i.op = "set" /\ GoOn /\ UNCHANGED <<prog, gen, acc, env, source, status>>
        /\ temp' = [y EXCEPT ![i.temp] = i.value]
    BY <1>2, <1>3, <1>12 DEF SetTemp, AtInstruction
  <2>2. Exec(i, m) = MachineOf(acc', temp', env')
    BY <1>3, <1>7, <2>1
  <2> QED BY <1>2, <1>9, <2>1, <2>2 DEF Quiet
<1>13. CASE GetTemp
  <2>1. /\ i.op = "get" /\ GoOn /\ UNCHANGED <<prog, gen, temp, env, source, status>>
        /\ acc' = y[i.temp]
    BY <1>2, <1>3, <1>13 DEF GetTemp, AtInstruction
  <2>2. Exec(i, m) = MachineOf(acc', temp', env')
    BY <1>3, <1>7, <2>1
  <2> QED BY <1>2, <1>9, <2>1, <2>2 DEF Quiet
<1>14. CASE Comparison
  <2>1. /\ i.op = "compare" /\ GoOn /\ UNCHANGED <<prog, gen, temp, env, source, status>>
        /\ acc' = Holds(i, z)
    BY <1>2, <1>3, <1>14 DEF Comparison, AtInstruction
  <2>2. Exec(i, m) = MachineOf(acc', temp', env')
    BY <1>3, <1>7, <2>1
  <2> QED BY <1>2, <1>9, <2>1, <2>2 DEF Quiet
<1>15. CASE Jump
  <2>1. /\ i.op = "br" /\ GoTo(i.to)
        /\ UNCHANGED <<prog, gen, acc, temp, env, source, status>>
    BY <1>2, <1>15 DEF Jump, AtInstruction
  <2>2. Target(i, m) = i.to
    BY <2>1 DEF Target
  <2> QED BY <1>1, <1>2, <1>8, <2>1, <2>2, BranchFollows
<1>16. CASE CondJump
  <2>1. /\ i.op = "cbr" /\ GoTo(IF x = i.when THEN i.to ELSE i.other)
        /\ UNCHANGED <<prog, gen, acc, temp, env, source, status>>
    BY <1>2, <1>3, <1>16 DEF CondJump, AtInstruction
  <2>2. Target(i, m) = IF x = i.when THEN i.to ELSE i.other
    BY <1>6, <2>1 DEF Target
  <2> QED BY <1>1, <1>2, <1>8, <2>1, <2>2, BranchFollows
<1> QED BY <1>10, <1>11, <1>12, <1>13, <1>14, <1>15, <1>16

-----------------------------------------------------------------------------
(* At an effect the text has come to one too, and has the same variables. *)
LEMMA AtTheEffect ==
  ASSUME NEW i, i.op \in Effects, NEW m, NEW n, NEW E, NEW X, NEW todo \in Seq(X),
         todo # <<>> => HasEffect(Head(todo)), NEW e, Follows(i, m, n, E, todo, e)
  PROVE  \E T : /\ Completes(T, todo) /\ T # <<>> /\ HasEffect(Head(T))
                /\ e \in Envs /\ Suits(i, m, T, e, n, E)
<1>1. PICK T, U : \E d \in Envs :
        Completes(T, todo) /\ Leads(T, e, U, d) /\ Suits(i, m, U, d, n, E)
  BY DEF Follows
<1>2. PICK d \in Envs :
        Completes(T, todo) /\ Leads(T, e, U, d) /\ Suits(i, m, U, d, n, E)
  BY <1>1
<1>3. U # <<>> /\ HasEffect(Head(U))
  BY <1>2 DEF Suits
<1>4. ~Silent(T)
  <2>1. /\ todo # <<>> => T # <<>> /\ Head(T) = Head(todo)
        /\ todo = <<>> /\ T # <<>> => Head(T) = Return(NoVar)
    BY <1>2, CompletesParts
  <2>2. HasEffect(Return(NoVar))
    BY DEF HasEffect, Return
  <2> QED BY <2>1, <2>2 DEF Silent
<1>5. U = T /\ d = e
  BY <1>2, <1>4, LeadsStuck
<1> QED BY <1>2, <1>3, <1>5

(* The text is read on. *)
LEMMA ReadFollows ==
  ASSUME GenInv, RunInv, RunInv', BehaviourInv, StepsOncePerIteration, Read
  PROVE  BehaviourInv'
<1>1. /\ status = "running" /\ instruction.op \in Effects
      /\ source.todo # <<>> /\ ~HasEffect(Head(source.todo))
      /\ source' = [todo |-> Unfold(Head(source.todo), Tail(source.todo), source.env),
                    env  |-> After(Head(source.todo), source.env)]
      /\ UNCHANGED <<prog, gen, at, acc, temp, env, status>>
  BY DEF Read, AtInstruction, next
<1>2. PICK E, W : /\ CodeLabels(code, E, W)
                  /\ Follows(instruction, MachineOf(acc, temp, env),
                             W[at.block][at.index + 1], E, source.todo, source.env)
  BY <1>1 DEF BehaviourInv
<1>3. PICK todo, e, i, m, n : /\ todo = source.todo /\ e = source.env /\ i = instruction
                              /\ m = MachineOf(acc, temp, env) /\ n = W[at.block][at.index + 1]
  OBVIOUS
<1>4. PICK X : Text(X) /\ todo \in Seq(X)
  BY <1>3 DEF RunInv
<1>5. PICK T, U : \E d \in Envs :
        Completes(T, todo) /\ Leads(T, e, U, d) /\ Suits(i, m, U, d, n, E)
  BY <1>2, <1>3 DEF Follows
<1>6. PICK d \in Envs :
        Completes(T, todo) /\ Leads(T, e, U, d) /\ Suits(i, m, U, d, n, E)
  BY <1>5
<1>7. T # <<>> /\ Head(T) = Head(todo) /\ Completes(Tail(T), Tail(todo))
  BY <1>1, <1>3, <1>4, <1>6, CompletesParts
<1> DEFINE s == Head(todo)
           rest == Tail(todo)
<1>8. Silent(T) /\ s \in X /\ rest \in Seq(X) /\ ~HasEffect(s)
  BY <1>1, <1>3, <1>4, <1>7 DEF Silent
<1>9. T # U
  BY <1>1, <1>3, <1>6, <1>8 DEF Suits, Silent
<1>10. Leads(Unfold(Head(T), Tail(T), e), After(Head(T), e), U, d)
  BY <1>6, <1>8, <1>9, LeadsFirst
<1> HIDE DEF s, rest
<1>11. Completes(Unfold(s, Tail(T), e), Unfold(s, rest, e))
  BY <1>4, <1>7, <1>8, UnfoldCompletes DEF rest
<1>12. Follows(i, m, n, E, Unfold(s, rest, e), After(s, e))
  BY <1>6, <1>7, <1>10, <1>11 DEF Follows, s
<1>13. source'.todo = Unfold(s, rest, e) /\ source'.env = After(s, e)
  BY <1>1, <1>3 DEF s, rest
<1>14. PICK a, k, todo2, e2 : /\ a = at' /\ k = MachineOf(acc', temp', env')
                              /\ todo2 = source'.todo /\ e2 = source'.env
  OBVIOUS
<1>15. a = at /\ k = m /\ i = code[a.block][a.index]
  BY <1>1, <1>3, <1>14 DEF instruction
<1>16. Follows(code[a.block][a.index], k, W[a.block][a.index + 1], E, todo2, e2)
  BY <1>3, <1>12, <1>13, <1>14, <1>15
<1> QED BY <1>1, <1>2, <1>14, <1>16, StillFollows

(* The machine has gone on, and so has the text. *)
LEMMA EffectFollows ==
  ASSUME GenInv, RunInv, RunInv', status = "running", UNCHANGED <<prog, gen, status>>, GoOn,
         NEW E, NEW W, CodeLabels(code, E, W), NEW T, Completes(T, source'.todo),
         source'.env \in Envs,
         Sat(W[at.block][at.index + 1], MachineOf(acc', temp', env'), T, source'.env)
  PROVE  BehaviourInv'
<1>1. PICK a, m, todo, e : /\ a = at' /\ m = MachineOf(acc', temp', env')
                           /\ todo = source'.todo /\ e = source'.env
  OBVIOUS
<1>2. a.block = at.block /\ a.index = at.index + 1
  BY <1>1 DEF GoOn, RunInv
<1>3. m \in Machines /\ a.block \in 1 .. Len(code) /\ a.index \in 1 .. Len(code[a.block])
  BY <1>1, NextMachine
<1>4. Sat(W[a.block][a.index], m, T, e) /\ Completes(T, todo) /\ e \in Envs
  BY <1>1, <1>2
<1>5. Leads(T, e, T, e)
  BY LeadsBack
<1>6. Follows(code[a.block][a.index], m, W[a.block][a.index + 1], E, todo, e)
  BY <1>3, <1>4, <1>5, FollowsAt
<1> QED BY <1>1, <1>6, StillFollows

(* What is known at an effect. *)
LEMMA EffectKnown ==
  ASSUME GenInv, RunInv, BehaviourInv, StepsOncePerIteration,
         NEW op \in Effects, AtEffect(op)
  PROVE  \E E, W, T, X :
           /\ CodeLabels(code, E, W) /\ Text(X) /\ source.todo \in Seq(X)
           /\ Completes(T, source.todo) /\ source.env \in Envs
           /\ Suits(instruction, MachineOf(acc, temp, env), T, source.env,
                    W[at.block][at.index + 1], E)
           /\ source.todo # <<>> =>
                Head(T) = Head(source.todo) /\ Completes(Tail(T), Tail(source.todo))
           /\ source.todo = <<>> => Head(T) = Return(NoVar)
<1>1. /\ status = "running" /\ instruction.op \in Effects
      /\ source.todo # <<>> => HasEffect(Head(source.todo))
  BY DEF AtEffect, AtInstruction, next
<1>2. PICK E, W : /\ CodeLabels(code, E, W)
                  /\ Follows(instruction, MachineOf(acc, temp, env),
                             W[at.block][at.index + 1], E, source.todo, source.env)
  BY <1>1 DEF BehaviourInv
<1>3. PICK todo, e, i, m, n : /\ todo = source.todo /\ e = source.env /\ i = instruction
                              /\ m = MachineOf(acc, temp, env) /\ n = W[at.block][at.index + 1]
  OBVIOUS
<1>4. PICK X : Text(X) /\ todo \in Seq(X)
  BY <1>3 DEF RunInv
<1>5. PICK T : /\ Completes(T, todo) /\ T # <<>> /\ HasEffect(Head(T))
               /\ e \in Envs /\ Suits(i, m, T, e, n, E)
  BY <1>1, <1>2, <1>3, <1>4, AtTheEffect
<1>6. /\ todo # <<>> => Head(T) = Head(todo) /\ Completes(Tail(T), Tail(todo))
      /\ todo = <<>> => Head(T) = Return(NoVar)
  BY <1>4, <1>5, CompletesParts
<1> QED BY <1>2, <1>3, <1>4, <1>5, <1>6

(* A call: the text calls the same with the same value. *)
LEMMA CallFollows ==
  ASSUME GenInv, RunInv, RunInv', BehaviourInv, StepsOncePerIteration, Call
  PROVE  BehaviourInv'
<1>1. /\ AtEffect("call") /\ "call" \in Effects
      /\ status = "running" /\ instruction.op = "call"
      /\ UNCHANGED <<prog, gen, temp, env>>
  BY DEF Call, AtEffect, AtInstruction, Effects
<1>2. PICK E, W, T, X :
           /\ CodeLabels(code, E, W) /\ Text(X) /\ source.todo \in Seq(X)
           /\ Completes(T, source.todo) /\ source.env \in Envs
           /\ Suits(instruction, MachineOf(acc, temp, env), T, source.env,
                    W[at.block][at.index + 1], E)
           /\ source.todo # <<>> =>
                Head(T) = Head(source.todo) /\ Completes(Tail(T), Tail(source.todo))
           /\ source.todo = <<>> => Head(T) = Return(NoVar)
  BY <1>1, EffectKnown
<1>3. PICK todo, e, i, m, n, z : /\ todo = source.todo /\ e = source.env /\ i = instruction
                                 /\ m = MachineOf(acc, temp, env) /\ z = env
                                 /\ n = W[at.block][at.index + 1]
  OBVIOUS
<1>4. /\ Head(T).kind = "call" /\ Head(T).id = i.id
      /\ Value(e, Head(T).var) = Value(m.env, i.var)
      /\ Sat(n, m, Tail(T), e)
  BY <1>1, <1>2, <1>3 DEF Suits
<1>5. todo # <<>>
  BY <1>2, <1>3, <1>4 DEF Return
<1>6. Head(T) = Head(todo) /\ Completes(Tail(T), Tail(todo))
  BY <1>2, <1>3, <1>5
<1>7. m.env = z
  BY <1>3 DEF MachineOf
<1>8. SourceIsAt("call") /\ Head(next).id = instruction.id /\ SameValue
  BY <1>3, <1>4, <1>5, <1>6, <1>7 DEF SourceIsAt, SameValue, next
<1>9. source' = [source EXCEPT !.todo = Tail(@)] /\ GoOn /\ UNCHANGED <<acc, status>>
  BY <1>8 DEF Call
<1>10. source'.todo = Tail(todo) /\ source'.env = e
  BY <1>3, <1>9 DEF RunInv
<1>11. MachineOf(acc', temp', env') = m
  BY <1>1, <1>3, <1>9
<1> QED BY <1>1, <1>2, <1>3, <1>4, <1>6, <1>9, <1>10, <1>11, EffectFollows

(* A question: the text asks the same and takes the branch of the answer. *)
LEMMA AskFollows ==
  ASSUME GenInv, RunInv, RunInv', BehaviourInv, StepsOncePerIteration, Ask
  PROVE  BehaviourInv'
<1>1. /\ AtEffect("ask") /\ "ask" \in Effects
      /\ status = "running" /\ instruction.op = "ask"
      /\ UNCHANGED <<prog, gen, temp, env>>
  BY DEF Ask, AtEffect, AtInstruction, Effects
<1>2. PICK E, W, T, X :
           /\ CodeLabels(code, E, W) /\ Text(X) /\ source.todo \in Seq(X)
           /\ Completes(T, source.todo) /\ source.env \in Envs
           /\ Suits(instruction, MachineOf(acc, temp, env), T, source.env,
                    W[at.block][at.index + 1], E)
           /\ source.todo # <<>> =>
                Head(T) = Head(source.todo) /\ Completes(Tail(T), Tail(source.todo))
           /\ source.todo = <<>> => Head(T) = Return(NoVar)
  BY <1>1, EffectKnown
<1>3. PICK todo, e, i, m, n : /\ todo = source.todo /\ e = source.env /\ i = instruction
                              /\ m = MachineOf(acc, temp, env)
                              /\ n = W[at.block][at.index + 1]
  OBVIOUS
<1>4. /\ Head(T).kind = "branch" /\ Head(T).condition = i
      /\ \A answer \in BOOLEAN :
           Sat(n, [m EXCEPT !.acc = answer],
               (IF answer THEN Head(T).yes ELSE Head(T).no) \o Tail(T), e)
  BY <1>1, <1>2, <1>3 DEF Suits
<1>5. todo # <<>>
  BY <1>2, <1>3, <1>4 DEF Return
<1>6. Head(T) = Head(todo) /\ Completes(Tail(T), Tail(todo))
  BY <1>2, <1>3, <1>5
<1>7. SourceIsAt("branch") /\ Head(next).condition = instruction
  BY <1>3, <1>4, <1>5, <1>6 DEF SourceIsAt, next
<1>8. PICK answer \in BOOLEAN :
        /\ acc' = answer
        /\ source' = [source EXCEPT !.todo =
                       (IF answer THEN Head(@).yes ELSE Head(@).no) \o Tail(@)]
        /\ GoOn /\ UNCHANGED status
  BY <1>7 DEF Ask
<1> DEFINE s == Head(todo)
           A == IF answer THEN s.yes ELSE s.no
<1>9. IsText(A) /\ IsText(Tail(todo))
  <2>1. s \in X /\ Tail(todo) \in Seq(X)
    BY <1>2, <1>3, <1>5
  <2>2. s \in Branches(X)
    BY <1>2, <1>4, <1>6, <2>1, TextParts
  <2>3. A \in Seq(X)
    BY <2>2, SMTT(30) DEF Branches
  <2> QED BY <2>1, <2>3 DEF IsText
<1>10. source'.todo = A \o Tail(todo) /\ source'.env = e
  BY <1>3, <1>8 DEF RunInv
<1>11. Sat(n, [m EXCEPT !.acc = answer], A \o Tail(T), e)
  BY <1>4, <1>6
<1>12. MachineOf(acc', temp', env') = [m EXCEPT !.acc = answer]
  <2>1. PICK x, y, z : x = acc /\ y = temp /\ z = env
    OBVIOUS
  <2>2. m = MachineOf(x, y, z) /\ MachineOf(acc', temp', env') = MachineOf(answer, y, z)
    BY <1>1, <1>3, <1>8, <2>1
  <2>3. [MachineOf(x, y, z) EXCEPT !.acc = answer] = MachineOf(answer, y, z)
    <3> DEFINE f == [t \in Nat |-> IF t \in DOMAIN y THEN y[t] ELSE FALSE]
    <3>1. \A b : MachineOf(b, y, z) = [acc |-> b, temp |-> f, env |-> z]
      BY DEF MachineOf
    <3> HIDE DEF f
    <3> QED BY <3>1
  <2> QED BY <2>2, <2>3
<1> HIDE DEF A
<1>13. Completes(A \o Tail(T), A \o Tail(todo))
  BY <1>6, <1>9, InFrontCompletes
<1> DEFINE V == A \o Tail(T)
<1>14. Completes(V, source'.todo) /\ source'.env \in Envs
  BY <1>2, <1>3, <1>10, <1>13
<1>15. Sat(W[at.block][at.index + 1], MachineOf(acc', temp', env'), V, source'.env)
  BY <1>3, <1>10, <1>11, <1>12
<1> HIDE DEF V
<1>16. UNCHANGED <<prog, gen, status>> /\ GoOn
  BY <1>1, <1>8
<1> QED BY <1>1, <1>2, <1>14, <1>15, <1>16, EffectFollows

(* A return that suits. *)
LEMMA SuitsReturn ==
  ASSUME NEW i, i.op = "ret", NEW m, NEW U, NEW d, NEW n, NEW E, Suits(i, m, U, d, n, E)
  PROVE  /\ Head(U).kind = "return" /\ Head(U).var = i.var
         /\ Value(d, Head(U).var) = Value(m.env, i.var)
BY DEF Suits

(* A return: the text returns the same, or ends where a void return is. *)
LEMMA RetFollows ==
  ASSUME GenInv, RunInv, BehaviourInv, StepsOncePerIteration, Ret
  PROVE  status' = "returned"
<1>1. /\ AtEffect("ret") /\ "ret" \in Effects /\ instruction.op = "ret"
  BY DEF Ret, AtEffect, AtInstruction, Effects
<1>2. PICK E, W, T, X :
           /\ CodeLabels(code, E, W) /\ Text(X) /\ source.todo \in Seq(X)
           /\ Completes(T, source.todo) /\ source.env \in Envs
           /\ Suits(instruction, MachineOf(acc, temp, env), T, source.env,
                    W[at.block][at.index + 1], E)
           /\ source.todo # <<>> =>
                Head(T) = Head(source.todo) /\ Completes(Tail(T), Tail(source.todo))
           /\ source.todo = <<>> => Head(T) = Return(NoVar)
  BY <1>1, EffectKnown
<1>3. PICK todo, e, i, m, n, z : /\ todo = source.todo /\ e = source.env /\ i = instruction
                                 /\ m = MachineOf(acc, temp, env) /\ z = env
                                 /\ n = W[at.block][at.index + 1]
  OBVIOUS
<1>4. /\ Head(T).kind = "return" /\ Head(T).var = i.var
      /\ Value(e, Head(T).var) = Value(m.env, i.var)
  <2>1. i.op = "ret" /\ Suits(i, m, T, e, n, E)
    BY <1>1, <1>2, <1>3
  <2> QED BY <2>1, SuitsReturn
<1>5. m.env = z
  BY <1>3 DEF MachineOf
<1>6. \/ next = <<>> /\ instruction.var = NoVar
      \/ SourceIsAt("return") /\ SameValue
  <2>1. CASE todo = <<>>
    BY <1>2, <1>3, <1>4, <2>1 DEF next, Return
  <2>2. CASE todo # <<>>
    BY <1>2, <1>3, <1>4, <1>5, <2>2 DEF SourceIsAt, SameValue, next
  <2> QED BY <2>1, <2>2
<1> QED BY <1>6 DEF Ret

(* The first generator has the whole program in front of it. *)
LEMMA InitBehaviour == Init => BehaviourInv
<1> SUFFICES ASSUME Init PROVE BehaviourInv
  OBVIOUS
<1>1. /\ prog \in Programs /\ gen = Start(WithReturn(prog)) /\ status = "compiling"
      /\ source = [todo |-> prog.statements, env |-> env]
  BY DEF Init
<1>2. StepsOncePerIteration => Lowers(gen)
  BY <1>1, StartLowers
<1>3. source.todo = prog.statements /\ source.env = env
  BY <1>1
<1> QED BY <1>1, <1>2, <1>3 DEF BehaviourInv

(* The proviso is about the program alone. *)
LEMMA ProvisoPrime == ASSUME prog' = prog PROVE StepsOncePerIteration' <=> StepsOncePerIteration
BY DEF StepsOncePerIteration

(* The compiler goes on. *)
LEMMA CompileBehaviour ==
  ASSUME GenInv, BehaviourInv, StepsOncePerIteration, Compile
  PROVE  BehaviourInv'
<1>1. /\ status = "compiling" /\ gen.todo # <<>> /\ prog' = prog
      /\ gen' = Generate([gen EXCEPT !.todo = Tail(@)], Head(gen.todo))
      /\ status' = IF gen'.aborted THEN "aborted" ELSE status
      /\ source' = source /\ env' = env
  BY DEF Compile
<1>2. PICK g, h : g = gen /\ h = gen'
  OBVIOUS
<1>3. prog \in Programs /\ GenTyped(g) /\ g.todo # <<>> /\ Lowers(g)
  BY <1>1, <1>2 DEF GenInv, BehaviourInv
<1>4. h = Generate([g EXCEPT !.todo = Tail(@)], Head(g.todo))
  BY <1>1, <1>2
<1>5. ~h.aborted => Lowers(h)
  BY <1>3, <1>4, CompileLowers
<1>6. ~gen'.aborted => Lowers(gen)'
  BY <1>1, <1>2, <1>5, LowersPrime
<1>7. source'.todo = prog'.statements /\ source'.env = env'
  BY <1>1 DEF BehaviourInv
<1>8. (status' = "compiling" /\ ~gen'.aborted) \/ status' = "aborted"
  BY <1>1
<1> QED BY <1>6, <1>7, <1>8 DEF BehaviourInv

(* The compiled procedure is called. *)
LEMMA EnterBehaviour ==
  ASSUME GenInv, RunInv, RunInv', BehaviourInv, StepsOncePerIteration, Enter
  PROVE  BehaviourInv'
<1>1. /\ status = "compiling" /\ gen.todo = <<>>
      /\ status' = IF Malformed(gen.code) THEN "malformed" ELSE "running"
      /\ UNCHANGED <<prog, gen, at, acc, env, source>>
  BY DEF Enter
<1>2. CASE Malformed(gen.code)
  <2>1. status' = "malformed"
    BY <1>1, <1>2
  <2> QED BY <2>1 DEF BehaviourInv
<1>3. CASE ~Malformed(gen.code)
  <2>1. status' = "running"
    BY <1>1, <1>3
  <2>2. PICK g : g = gen
    OBVIOUS
  <2>3. GenTyped(g) /\ g.todo = <<>> /\ ~Malformed(g.code) /\ Lowers(g) /\ prog \in Programs
    BY <1>1, <1>3, <2>2 DEF GenInv, BehaviourInv
  <2>4. PICK E, W : CodeLabels(g.code, E, W) /\ E[1] = Entry
    BY <2>3, LowersLabels
  <2>5. CodeLabels(code, E, W)
    BY <2>2, <2>4 DEF code
  <2>6. PICK a, m, todo, e : /\ a = at' /\ m = MachineOf(acc', temp', env')
                             /\ todo = source'.todo /\ e = source'.env
    OBVIOUS
  <2>7. /\ a.block = 1 /\ a.index = 1 /\ m.env = e /\ e \in Envs /\ todo = prog.statements
    <3>1. at' = [block |-> 1, index |-> 1]
      BY <1>1 DEF RunInv
    <3>2. source'.env = env' /\ env' \in Envs /\ source'.todo = prog.statements
      BY <1>1 DEF BehaviourInv, RunInv, Envs
    <3>3. m.env = env'
      BY <2>6 DEF MachineOf
    <3> QED BY <2>6, <3>1, <3>2, <3>3
  <2>8. m \in Machines /\ a.block \in 1 .. Len(code) /\ a.index \in 1 .. Len(code[a.block])
    BY <1>1, <2>1, <2>6, NextMachine
  <2>9. W[a.block][a.index] = Entry
    BY <2>4, <2>5, <2>7, <2>8 DEF CodeLabels
  <2> DEFINE T == WithReturn(prog).statements \o <<>>
             C == Counters(prog)
  <2>10. Completes(T, todo)
    BY <2>3, <2>7, EntryCompletes
  <2> HIDE DEF T, C
  <2>11. Sat(Entry, m, T, e)
    <3>1. Entry = Label(T, C, {})
      BY DEF Entry, T, C
    <3>2. Chosen(Entry, m) = T
      BY <3>1, LabelFields
    <3>3. Entry.pins = {}
      BY <3>1, LabelFields
    <3>4. Agree(Entry, m, e)
      BY <2>7, <3>3 DEF Agree
    <3> QED BY <3>2, <3>4 DEF Sat
  <2>12. Leads(T, e, T, e)
    BY LeadsBack
  <2>13. Follows(code[a.block][a.index], m, W[a.block][a.index + 1], E, todo, e)
    BY <2>5, <2>7, <2>8, <2>9, <2>10, <2>11, <2>12, FollowsAt
  <2> QED BY <1>1, <2>1, <2>5, <2>6, <2>13, StillFollows
<1> QED BY <1>2, <1>3

(* The invariant is inductive; a step of any kind preserves it. *)
LEMMA NextBehaviour ==
  GenInv /\ RunInv /\ RunInv' /\ BehaviourInv /\ [Next]_vars => BehaviourInv'
<1> SUFFICES ASSUME GenInv, RunInv, RunInv', BehaviourInv, [Next]_vars PROVE BehaviourInv'
  OBVIOUS
<1>1. prog' = prog
  BY DEF Next, vars, Compile, Enter, Store, Add, SetTemp, GetTemp, Comparison, Jump, CondJump,
         Read, Call, Ask, Ret
<1>2. CASE ~StepsOncePerIteration
  BY <1>1, <1>2, ProvisoPrime DEF BehaviourInv
<1>3. CASE StepsOncePerIteration
  <2>1. CASE Compile
    BY <1>3, <2>1, CompileBehaviour
  <2>2. CASE Enter
    BY <1>3, <2>2, EnterBehaviour
  <2>3. CASE Store \/ Add \/ SetTemp \/ GetTemp \/ Comparison \/ Jump \/ CondJump
    BY <1>3, <2>3, MachineFollows
  <2>4. CASE Read
    BY <1>3, <2>4, ReadFollows
  <2>5. CASE Call
    BY <1>3, <2>5, CallFollows
  <2>6. CASE Ask
    BY <1>3, <2>6, AskFollows
  <2>7. CASE Ret
    <3>1. status' = "returned"
      BY <1>3, <2>7, RetFollows
    <3> QED BY <3>1 DEF BehaviourInv
  <2>8. CASE UNCHANGED vars
    <3>1. PICK g, a, m, todo, e, s, v :
            /\ g = gen' /\ a = at' /\ m = MachineOf(acc', temp', env')
            /\ todo = source'.todo /\ e = source'.env /\ s = status' /\ v = env'
      OBVIOUS
    <3>2. /\ g = gen /\ a = at /\ m = MachineOf(acc, temp, env)
          /\ todo = source.todo /\ e = source.env /\ s = status /\ v = env /\ gen' = gen
      BY <2>8, <3>1 DEF vars
    <3>3. CASE s = "running"
      <4>1. PICK E, W : /\ CodeLabels(code, E, W)
                        /\ Follows(instruction, m, W[a.block][a.index + 1], E, todo, e)
        BY <1>3, <3>2, <3>3 DEF BehaviourInv
      <4>2. instruction = code[a.block][a.index]
        BY <3>2 DEF instruction
      <4> QED BY <1>1, <3>1, <3>2, <3>3, <4>1, <4>2, StillFollows
    <3>4. CASE s = "compiling"
      <4>1. Lowers(g) /\ todo = prog.statements /\ e = v
        BY <1>3, <3>2, <3>4 DEF BehaviourInv
      <4>2. Lowers(gen)'
        BY <1>1, <3>1, <4>1, LowersPrime
      <4> QED BY <1>1, <3>1, <3>4, <4>1, <4>2 DEF BehaviourInv
    <3>5. CASE s \notin {"running", "compiling"}
      <4>1. status' # "diverged"
        BY <1>3, <3>1, <3>2 DEF BehaviourInv
      <4> QED BY <3>1, <3>5, <4>1 DEF BehaviourInv
    <3> QED BY <3>3, <3>4, <3>5
  <2> QED BY <2>1, <2>2, <2>3, <2>4, <2>5, <2>6, <2>7, <2>8 DEF Next
<1> QED BY <1>2, <1>3

(***************************************************************************)
(* The compiled procedure calls, asks and returns what its text says, in   *)
(* the same order and with the same values, for all programs and integers  *)
(* of any width - as long as no block in a for loop adds a step of its own *)
(* (compile_ir.cpp:384-411).                                               *)
(***************************************************************************)
THEOREM BehavesAsItReads == Spec => []SameBehaviour
<1>1. GenInv /\ RunInv /\ BehaviourInv /\ (GenInv /\ RunInv)' /\ [Next]_vars => BehaviourInv'
  BY NextBehaviour
<1>2. BehaviourInv => SameBehaviour
  BY DEF BehaviourInv, SameBehaviour
<1> QED BY <1>1, <1>2, RunInvHolds, InitBehaviour, PTL DEF Spec
=============================================================================
