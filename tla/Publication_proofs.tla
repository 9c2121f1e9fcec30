------------------------- MODULE Publication_proofs -------------------------
(***************************************************************************)
(* Publication: whatever the size of the text, however often it is cut and *)
(* whatever requests fail, no paragraph is lost, the links lead through    *)
(* the parts in order, and publishing comes to an end.                     *)
(***************************************************************************)
EXTENDS Publication, SequenceTheorems, FiniteSetTheorems, WellFoundedInduction, TLAPS

(* Induction over the naturals, for a set instead of a predicate.          *)

LEMMA LeastNat ==
  ASSUME NEW S \in SUBSET Nat, S # {}
  PROVE  \E n \in S : \A m \in S : n <= m
<1>1. PICK R : R = {ss \in Nat \X Nat : ss[1] < ss[2]}  OBVIOUS
<1>2. IsWellFoundedOn(R, Nat)  BY <1>1, NatLessThanWellFounded DEF OpToRel
<1>3. PICK n \in S : \A m \in S : <<m, n>> \notin R  BY <1>2, WFMin
<1>4. ASSUME NEW m \in S, m < n PROVE FALSE
  <2>1. <<m, n>> \in Nat \X Nat /\ <<m, n>>[1] < <<m, n>>[2]  BY <1>4
  <2>2. <<m, n>> \in R  BY <1>1, <2>1, Zenon
  <2> QED  BY <1>3, <2>2
<1>5. n \in Nat /\ S \subseteq Nat  OBVIOUS
<1> QED  BY <1>4, <1>5

LEMMA NatInd ==
  ASSUME NEW S, 0 \in S, \A n \in Nat : n \in S => n + 1 \in S
  PROVE  Nat \subseteq S
<1> SUFFICES ASSUME Nat \ S # {} PROVE FALSE  OBVIOUS
<1>1. PICK n \in Nat \ S : \A m \in Nat \ S : n <= m  BY LeastNat
<1>2. n - 1 \in Nat /\ n - 1 \notin Nat \ S  BY <1>1
<1> QED  BY <1>1, <1>2

-----------------------------------------------------------------------------
(* FlattenSeq joins sequences, and so distributes over \o.                 *)

\* The first n values of the function that FlattenSeq is defined by.
Joins(q, n, f) == f = [i \in 1..n |-> IF i = 1 THEN q[i] ELSE f[i - 1] \o q[i]]

LEMMA JoinsValue ==
  ASSUME NEW q, NEW n, NEW f, Joins(q, n, f)
  PROVE  \A i \in 1..n : f[i] = IF i = 1 THEN q[i] ELSE f[i - 1] \o q[i]
<1> DEFINE h == [j \in 1..n |-> IF j = 1 THEN q[j] ELSE f[j - 1] \o q[j]]
<1>1. \A i \in 1..n : h[i] = IF i = 1 THEN q[i] ELSE f[i - 1] \o q[i]  OBVIOUS
<1>2. f = h  BY Zenon DEF Joins
<1> QED  BY <1>1, <1>2, Zenon

LEMMA JoinsExist ==
  ASSUME NEW E, NEW q \in Seq(Seq(E)), NEW m \in 0..Len(q)
  PROVE  \E f : Joins(q, m, f) /\ \A i \in 1..m : f[i] \in Seq(E)
<1> DEFINE S == {n \in Nat : n <= Len(q) =>
                    \E f : Joins(q, n, f) /\ \A i \in 1..n : f[i] \in Seq(E)}
<1>1. 0 \in S
  <2>1. Joins(q, 0, [i \in 1..0 |-> q])  BY DEF Joins
  <2> QED  BY <2>1
<1>2. ASSUME NEW n \in Nat, n \in S PROVE n + 1 \in S
  <2> SUFFICES ASSUME n + 1 <= Len(q)
               PROVE  \E g : Joins(q, n + 1, g) /\ \A i \in 1..(n + 1) : g[i] \in Seq(E)
    OBVIOUS
  <2>1. PICK f : Joins(q, n, f) /\ \A i \in 1..n : f[i] \in Seq(E)  BY <1>2
  <2> DEFINE g == [i \in 1..(n + 1) |->
                     IF i <= n THEN f[i] ELSE IF i = 1 THEN q[i] ELSE f[i - 1] \o q[i]]
  <2>2. \A i \in 1..n : f[i] = IF i = 1 THEN q[i] ELSE f[i - 1] \o q[i]
    <3>1. Joins(q, n, f)  BY <2>1
    <3> QED  BY ONLY <3>1, JoinsValue
  <2>3. \A i \in 1..(n + 1) : g[i] = IF i = 1 THEN q[i] ELSE g[i - 1] \o q[i]
    BY <2>2
  <2>4. Joins(q, n + 1, g)  BY <2>3 DEF Joins
  <2>5. \A i \in 1..(n + 1) : g[i] \in Seq(E)
    <3>1. q[n + 1] \in Seq(E)  OBVIOUS
    <3> QED  BY <2>1, <3>1
  <2> QED  BY <2>4, <2>5
<1> HIDE DEF S
<1>3. Nat \subseteq S  BY <1>1, <1>2, NatInd
<1> QED  BY <1>3 DEF S

Agree(q, r, n) == \A i \in 1..n : q[i] = r[i]

LEMMA JoinsAgree ==
  ASSUME NEW q, NEW r, NEW m \in Nat, NEW n \in 0..m, Agree(q, r, n),
         NEW f, NEW g, Joins(q, n, f), Joins(r, m, g)
  PROVE  Agree(f, g, n)
<1> DEFINE S == {k \in Nat : k + 1 \in 1..n => f[k + 1] = g[k + 1]}
<1>1. \A i \in 1..n : /\ f[i] = IF i = 1 THEN q[i] ELSE f[i - 1] \o q[i]
                      /\ g[i] = IF i = 1 THEN q[i] ELSE g[i - 1] \o q[i]
  <2>1. Joins(q, n, f) /\ Joins(r, m, g)  OBVIOUS
  <2>2. \A i \in 1..n : f[i] = IF i = 1 THEN q[i] ELSE f[i - 1] \o q[i]
    BY ONLY <2>1, JoinsValue
  <2>3. \A i \in 1..m : g[i] = IF i = 1 THEN r[i] ELSE g[i - 1] \o r[i]
    BY ONLY <2>1, JoinsValue
  <2>4. \A i \in 1..n : i \in 1..m /\ q[i] = r[i]  BY DEF Agree
  <2> QED  BY <2>2, <2>3, <2>4
<1>2. 0 \in S  BY <1>1 DEF Agree
<1>3. \A k \in Nat : k \in S => k + 1 \in S  BY <1>1 DEF Agree
<1> HIDE DEF S
<1>4. Nat \subseteq S  BY <1>2, <1>3, NatInd
<1>5. \A i \in 1..n : i - 1 \in S  BY <1>4
<1> QED  BY <1>5 DEF S, Agree

LEMMA FlattenIsJoin ==
  ASSUME NEW E, NEW q \in Seq(Seq(E)), q # <<>>
  PROVE  \E f : /\ Joins(q, Len(q), f)
                /\ FlattenSeq(q) = f[Len(q)] /\ FlattenSeq(q) \in Seq(E)
<1>1. Len(q) \in Nat /\ Len(q) # 0  OBVIOUS
<1>2. PICK f : Joins(q, Len(q), f) /\ \A i \in 1..Len(q) : f[i] \in Seq(E)
  BY <1>1, JoinsExist
<1>3. ASSUME NEW g, Joins(q, Len(q), g) PROVE g = f
  <2>1. \A i \in 1..Len(q) : f[i] = g[i]
    <3>1. Agree(q, q, Len(q))  BY DEF Agree
    <3>2. Agree(f, g, Len(q))  BY <1>1, <1>2, <1>3, <3>1, JoinsAgree
    <3> QED  BY <3>2 DEF Agree
  <2>2. /\ f = [i \in 1..Len(q) |-> f[i]] /\ g = [i \in 1..Len(q) |-> g[i]]
    BY <1>2, <1>3 DEF Joins
  <2> QED  BY <2>1, <2>2, Zenon
<1>4. FlattenSeq(q) = f[Len(q)]
  <2>1. /\ f = [i \in 1..Len(q) |-> IF i = 1 THEN q[i] ELSE f[i - 1] \o q[i]]
        /\ \A g : g = [i \in 1..Len(q) |-> IF i = 1 THEN q[i] ELSE g[i - 1] \o q[i]] => g = f
    BY <1>2, <1>3, Zenon DEF Joins
  <2> QED  BY <1>1, <2>1, Zenon DEF FlattenSeq
<1> QED  BY <1>1, <1>2, <1>4

LEMMA FlattenEmpty == FlattenSeq(<<>>) = <<>>
  BY DEF FlattenSeq

LEMMA FlattenType ==
  ASSUME NEW E, NEW q \in Seq(Seq(E))
  PROVE  FlattenSeq(q) \in Seq(E)
<1>1. CASE q = <<>>
  <2>1. FlattenSeq(q) = <<>>  BY <1>1, FlattenEmpty
  <2> QED  BY <2>1
<1>2. CASE q # <<>>  BY <1>2, FlattenIsJoin
<1> QED  BY <1>1, <1>2

LEMMA FlattenOne ==
  ASSUME NEW E, NEW x \in Seq(E)
  PROVE  FlattenSeq(<<x>>) = x
<1>1. <<x>> \in Seq(Seq(E)) /\ <<x>> # <<>> /\ Len(<<x>>) = 1 /\ <<x>>[1] = x  OBVIOUS
<1>2. PICK f : Joins(<<x>>, Len(<<x>>), f) /\ FlattenSeq(<<x>>) = f[Len(<<x>>)]
  BY <1>1, FlattenIsJoin
<1>3. Joins(<<x>>, 1, f) /\ FlattenSeq(<<x>>) = f[1]  BY <1>1, <1>2
<1>4. f[1] = x  BY <1>1, <1>3 DEF Joins
<1> QED  BY <1>3, <1>4

LEMMA FlattenAppend ==
  ASSUME NEW E, NEW q \in Seq(Seq(E)), NEW x \in Seq(E)
  PROVE  FlattenSeq(Append(q, x)) = FlattenSeq(q) \o x
<1>1. CASE q = <<>>
  <2>1. Append(q, x) = <<x>>  BY <1>1
  <2>2. FlattenSeq(q) \o x = x  BY <1>1, FlattenEmpty, ConcatEmptySeq
  <2> QED  BY <2>1, <2>2, FlattenOne
<1>2. CASE q # <<>>
  <2> PICK r, n, m : r = Append(q, x) /\ n = Len(q) /\ m = n + 1  OBVIOUS
  <2>1. /\ r \in Seq(Seq(E)) /\ r # <<>> /\ Len(r) = m /\ n \in Nat \ {0}
        /\ r[m] = x /\ \A i \in 1..n : q[i] = r[i]
    BY <1>2, AppendProperties, EmptySeq
  <2>2. PICK f : Joins(q, n, f) /\ FlattenSeq(q) = f[n]  BY <1>2, FlattenIsJoin
  <2>3. PICK g : Joins(r, m, g) /\ FlattenSeq(r) = g[m]
    <3>1. PICK g : Joins(r, Len(r), g) /\ FlattenSeq(r) = g[Len(r)]  BY <2>1, FlattenIsJoin
    <3> QED  BY <2>1, <3>1
  <2>4. g[n] = f[n]
    <3>1. m \in Nat /\ n \in 0..m /\ n \in 1..n  BY <2>1
    <3>2. Agree(q, r, n) /\ Joins(q, n, f) /\ Joins(r, m, g)
      BY <2>1, <2>2, <2>3 DEF Agree
    <3>3. Agree(f, g, n)  BY ONLY <3>1, <3>2, JoinsAgree
    <3> QED  BY <3>1, <3>3 DEF Agree
  <2>5. g[m] = g[n] \o x
    <3>1. Joins(r, m, g)  BY <2>3
    <3>2. \A i \in 1..m : g[i] = IF i = 1 THEN r[i] ELSE g[i - 1] \o r[i]
      BY ONLY <3>1, JoinsValue
    <3>3. m \in 1..m /\ m # 1 /\ m - 1 = n  BY <2>1
    <3> QED  BY <2>1, <3>2, <3>3
  <2> QED  BY <2>1, <2>2, <2>3, <2>4, <2>5
<1> QED  BY <1>1, <1>2

LEMMA FlattenConcat ==
  ASSUME NEW E, NEW q \in Seq(Seq(E)), NEW r \in Seq(Seq(E))
  PROVE  FlattenSeq(q \o r) = FlattenSeq(q) \o FlattenSeq(r)
<1> DEFINE Holds(t) == FlattenSeq(q \o t) = FlattenSeq(q) \o FlattenSeq(t)
           S == {n \in Nat : \A t \in Seq(Seq(E)) : Len(t) = n => Holds(t)}
<1>1. 0 \in S
  <2> SUFFICES ASSUME NEW t \in Seq(Seq(E)), Len(t) = 0 PROVE Holds(t)  OBVIOUS
  <2>1. t = <<>>  OBVIOUS
  <2> QED  BY <2>1, FlattenEmpty, FlattenType, ConcatEmptySeq
<1>2. ASSUME NEW n \in Nat, n \in S PROVE n + 1 \in S
  <2> SUFFICES ASSUME NEW t \in Seq(Seq(E)), Len(t) = n + 1 PROVE Holds(t)  OBVIOUS
  <2>1. PICK u \in Seq(Seq(E)), x \in Seq(E) : t = Append(u, x) /\ Len(u) = n
    <3>1. t # <<>>  OBVIOUS
    <3>2. PICK u \in Seq(Seq(E)), x \in Seq(E) : t = Append(u, x)
      BY <3>1, SequenceEmptyOrAppend
    <3>3. Len(t) = Len(u) + 1 /\ Len(u) \in Nat  BY <3>2
    <3>4. Len(u) = n  BY <3>3
    <3> QED  BY <3>2, <3>4
  <2>2. Holds(u)  BY <1>2, <2>1
  <2>3. q \o t = Append(q \o u, x)  BY <2>1
  <2>4. q \o u \in Seq(Seq(E))  OBVIOUS
  <2>5. FlattenSeq(q \o t) = (FlattenSeq(q) \o FlattenSeq(u)) \o x
    BY <2>2, <2>3, <2>4, FlattenAppend
  <2>6. FlattenSeq(q) \o FlattenSeq(t) = FlattenSeq(q) \o (FlattenSeq(u) \o x)
    BY <2>1, FlattenAppend
  <2>7. (FlattenSeq(q) \o FlattenSeq(u)) \o x = FlattenSeq(q) \o (FlattenSeq(u) \o x)
    <3>1. FlattenSeq(q) \in Seq(E) /\ FlattenSeq(u) \in Seq(E)  BY FlattenType
    <3> QED  BY SMTT(30), <3>1, ConcatAssociative
  <2> QED  BY <2>5, <2>6, <2>7
<1> HIDE DEF S
<1>3. Nat \subseteq S  BY <1>1, <1>2, NatInd
<1>4. Holds(r)  BY <1>3 DEF S
<1> QED  BY <1>4

-----------------------------------------------------------------------------
(* The text of runs of sections, and a text without some paragraphs.       *)

\* The text of a sequence of runs.
RunsText(q) == FlattenSeq([i \in DOMAIN q |-> FlattenSeq(q[i])])

\* The text of each run.
LEMMA RunTexts ==
  ASSUME NEW E, NEW q \in Seq(Seq(Seq(E)))
  PROVE  /\ [i \in DOMAIN q |-> FlattenSeq(q[i])] \in Seq(Seq(E))
         /\ Len([i \in DOMAIN q |-> FlattenSeq(q[i])]) = Len(q)
         /\ \A i \in 1..Len(q) : [j \in DOMAIN q |-> FlattenSeq(q[j])][i] = FlattenSeq(q[i])
<1>1. DOMAIN q = 1..Len(q) /\ Len(q) \in Nat  OBVIOUS
<1>2. \A i \in 1..Len(q) : FlattenSeq(q[i]) \in Seq(E)
  <2> SUFFICES ASSUME NEW i \in 1..Len(q) PROVE FlattenSeq(q[i]) \in Seq(E)  OBVIOUS
  <2>1. q[i] \in Seq(Seq(E))  OBVIOUS
  <2> QED  BY <2>1, FlattenType
<1> QED  BY <1>1, <1>2

LEMMA RunsTextType ==
  ASSUME NEW E, NEW q \in Seq(Seq(Seq(E)))
  PROVE  RunsText(q) \in Seq(E)
  BY RunTexts, FlattenType DEF RunsText

LEMMA RunsTextEmpty == RunsText(<<>>) = <<>>
<1>1. [i \in DOMAIN <<>> |-> FlattenSeq(<<>>[i])] = <<>>  OBVIOUS
<1> QED  BY <1>1, FlattenEmpty DEF RunsText

LEMMA RunsTextOne ==
  ASSUME NEW E, NEW x \in Seq(Seq(E))
  PROVE  RunsText(<<x>>) = FlattenSeq(x)
<1>1. [i \in DOMAIN <<x>> |-> FlattenSeq(<<x>>[i])] = <<FlattenSeq(x)>>
  <2>1. DOMAIN <<x>> = 1..1 /\ <<x>>[1] = x  OBVIOUS
  <2> QED  BY <2>1
<1>2. FlattenSeq(x) \in Seq(E)  BY FlattenType
<1> QED  BY <1>1, <1>2, FlattenOne DEF RunsText

\* Two sequences joined, by their elements.
LEMMA ConcatEqual ==
  ASSUME NEW E, NEW a \in Seq(E), NEW b \in Seq(E), NEW c \in Seq(E),
         Len(c) = Len(a) + Len(b),
         \A i \in 1..Len(a) : c[i] = a[i],
         \A i \in 1..Len(b) : c[Len(a) + i] = b[i]
  PROVE  c = a \o b
<1>1. /\ a \o b \in Seq(E) /\ Len(a \o b) = Len(a) + Len(b)
      /\ Len(a) \in Nat /\ Len(b) \in Nat
      /\ \A i \in 1..(Len(a) + Len(b)) :
           (a \o b)[i] = IF i <= Len(a) THEN a[i] ELSE b[i - Len(a)]
  OBVIOUS
<1>2. \A i \in 1..(Len(a) + Len(b)) : i <= Len(a) \/ (i - Len(a) \in 1..Len(b) /\ i = Len(a) + (i - Len(a)))
  BY <1>1
<1>3. \A i \in 1..(Len(a) + Len(b)) : c[i] = (a \o b)[i]  BY <1>1, <1>2
<1> QED  BY <1>1, <1>3, SeqEqual

LEMMA ConcatElements ==
  ASSUME NEW E, NEW a \in Seq(E), NEW b \in Seq(E), NEW c, c = a \o b
  PROVE  /\ c \in Seq(E) /\ Len(c) = Len(a) + Len(b) /\ Len(a) \in Nat /\ Len(b) \in Nat
         /\ \A i \in 1..Len(a) : c[i] = a[i]
         /\ \A i \in 1..Len(b) : c[Len(a) + i] = b[i]
  OBVIOUS

LEMMA RunsTextConcat ==
  ASSUME NEW E, NEW q \in Seq(Seq(Seq(E))), NEW r \in Seq(Seq(Seq(E)))
  PROVE  RunsText(q \o r) = RunsText(q) \o RunsText(r)
<1>w. PICK w : w = q \o r  OBVIOUS
<1>1. /\ w \in Seq(Seq(Seq(E))) /\ Len(w) = Len(q) + Len(r)
      /\ Len(q) \in Nat /\ Len(r) \in Nat
      /\ \A i \in 1..Len(q) : w[i] = q[i]
      /\ \A i \in 1..Len(r) : w[Len(q) + i] = r[i]
  BY <1>w, ConcatElements
<1>t. PICK a, b, c : /\ a = [i \in DOMAIN q |-> FlattenSeq(q[i])]
                     /\ b = [i \in DOMAIN r |-> FlattenSeq(r[i])]
                     /\ c = [i \in DOMAIN w |-> FlattenSeq(w[i])]
  OBVIOUS
<1>2. /\ a \in Seq(Seq(E)) /\ Len(a) = Len(q)
      /\ \A i \in 1..Len(q) : a[i] = FlattenSeq(q[i])
  BY <1>t, RunTexts
<1>3. /\ b \in Seq(Seq(E)) /\ Len(b) = Len(r)
      /\ \A i \in 1..Len(r) : b[i] = FlattenSeq(r[i])
  BY <1>t, RunTexts
<1>4. /\ c \in Seq(Seq(E)) /\ Len(c) = Len(w)
      /\ \A i \in 1..Len(w) : c[i] = FlattenSeq(w[i])
  BY <1>1, <1>t, RunTexts
<1>5. c = a \o b
  <2>1. \A i \in 1..Len(a) : c[i] = a[i]  BY <1>1, <1>2, <1>4
  <2>2. \A i \in 1..Len(b) : c[Len(a) + i] = b[i]  BY <1>1, <1>2, <1>3, <1>4
  <2>3. Len(c) = Len(a) + Len(b)  BY <1>1, <1>2, <1>3, <1>4
  <2> QED  BY <1>2, <1>3, <1>4, <2>1, <2>2, <2>3, ConcatEqual
<1>6. FlattenSeq(a \o b) = FlattenSeq(a) \o FlattenSeq(b)
  BY <1>2, <1>3, FlattenConcat
<1> QED  BY <1>w, <1>t, <1>5, <1>6, Zenon DEF RunsText

\* Each paragraph of s, or nothing in its place.
Piece(x, D) == IF x \in D THEN <<>> ELSE <<x>>
Kept(s, D)  == [i \in DOMAIN s |-> Piece(s[i], D)]

LEMMA KeptType ==
  ASSUME NEW E, NEW s \in Seq(E), NEW D
  PROVE  /\ Kept(s, D) \in Seq(Seq(E)) /\ Len(Kept(s, D)) = Len(s)
         /\ \A i \in 1..Len(s) : Kept(s, D)[i] = Piece(s[i], D)
<1>1. DOMAIN s = 1..Len(s) /\ Len(s) \in Nat /\ \A i \in 1..Len(s) : s[i] \in E  OBVIOUS
<1>2. \A i \in 1..Len(s) : Piece(s[i], D) \in Seq(E)  BY <1>1 DEF Piece
<1> QED  BY <1>1, <1>2 DEF Kept

LEMMA WithoutIsKept == ASSUME NEW s, NEW D PROVE Without(s, D) = FlattenSeq(Kept(s, D))
BY DEF Without, Kept, Piece

LEMMA WithoutType ==
  ASSUME NEW E, NEW s \in Seq(E), NEW D
  PROVE  Without(s, D) \in Seq(E)
BY WithoutIsKept, KeptType, FlattenType

LEMMA WithoutConcat ==
  ASSUME NEW E, NEW s \in Seq(E), NEW t \in Seq(E), NEW D
  PROVE  Without(s \o t, D) = Without(s, D) \o Without(t, D)
<1>w. PICK w : w = s \o t  OBVIOUS
<1>1. /\ w \in Seq(E) /\ Len(w) = Len(s) + Len(t)
      /\ Len(s) \in Nat /\ Len(t) \in Nat
      /\ \A i \in 1..Len(s) : w[i] = s[i]
      /\ \A i \in 1..Len(t) : w[Len(s) + i] = t[i]
  BY <1>w, ConcatElements
<1>t. PICK a, b, c : a = Kept(s, D) /\ b = Kept(t, D) /\ c = Kept(w, D)  OBVIOUS
<1>2. /\ a \in Seq(Seq(E)) /\ Len(a) = Len(s)
      /\ \A i \in 1..Len(s) : a[i] = Piece(s[i], D)
  BY <1>t, KeptType
<1>3. /\ b \in Seq(Seq(E)) /\ Len(b) = Len(t)
      /\ \A i \in 1..Len(t) : b[i] = Piece(t[i], D)
  BY <1>t, KeptType
<1>4. /\ c \in Seq(Seq(E)) /\ Len(c) = Len(w)
      /\ \A i \in 1..Len(w) : c[i] = Piece(w[i], D)
  BY <1>1, <1>t, KeptType
<1>5. c = a \o b
  <2>1. \A i \in 1..Len(a) : c[i] = a[i]  BY <1>1, <1>2, <1>4
  <2>2. \A i \in 1..Len(b) : c[Len(a) + i] = b[i]  BY <1>1, <1>2, <1>3, <1>4
  <2>3. Len(c) = Len(a) + Len(b)  BY <1>1, <1>2, <1>3, <1>4
  <2> QED  BY <1>2, <1>3, <1>4, <2>1, <2>2, <2>3, ConcatEqual
<1>6. FlattenSeq(a \o b) = FlattenSeq(a) \o FlattenSeq(b)
  BY <1>2, <1>3, FlattenConcat
<1> QED  BY <1>w, <1>t, <1>5, <1>6, WithoutIsKept, Zenon

LEMMA WithoutSame ==
  ASSUME NEW s, NEW D, NEW F, \A i \in DOMAIN s : s[i] \in D <=> s[i] \in F
  PROVE  Without(s, D) = Without(s, F)
<1>1. Kept(s, D) = Kept(s, F)  BY DEF Kept, Piece
<1> QED  BY <1>1, WithoutIsKept

\* One paragraph more.
LEMMA WithoutOneMore ==
  ASSUME NEW E, NEW s \in Seq(E), NEW x \in E, NEW D
  PROVE  Without(Append(s, x), D) = IF x \in D THEN Without(s, D) ELSE Append(Without(s, D), x)
<1>t. PICK t : t = Append(s, x)  OBVIOUS
<1>1. t = s \o <<x>> /\ <<x>> \in Seq(E)  BY <1>t, AppendIsConcat
<1>2. Without(t, D) = Without(s, D) \o Without(<<x>>, D)
  <2>1. PICK y : y = <<x>>  OBVIOUS
  <2>2. y \in Seq(E)  BY <1>1, <2>1
  <2>3. Without(s \o y, D) = Without(s, D) \o Without(y, D)
    BY ONLY s \in Seq(E), <2>2, WithoutConcat
  <2> QED  BY <1>1, <2>1, <2>3, Zenon
<1>3. Without(s, D) \in Seq(E)  BY WithoutType
<1>4. CASE x \in D
  <2>1. Kept(<<x>>, D) = << <<>> >>
    <3>1. DOMAIN <<x>> = 1..1 /\ <<x>>[1] = x  OBVIOUS
    <3> QED  BY <1>4, <3>1 DEF Kept, Piece
  <2>2. Without(<<x>>, D) = <<>>
    <3>1. <<>> \in Seq(E)  OBVIOUS
    <3> QED  BY <2>1, <3>1, WithoutIsKept, FlattenOne
  <2>3. Without(s, D) \o <<>> = Without(s, D)  BY <1>3, ConcatEmptySeq
  <2> QED  BY <1>t, <1>2, <1>4, <2>2, <2>3, Zenon
<1>5. CASE x \notin D
  <2>1. Kept(<<x>>, D) = << <<x>> >>
    <3>1. DOMAIN <<x>> = 1..1 /\ <<x>>[1] = x  OBVIOUS
    <3> QED  BY <1>5, <3>1 DEF Kept, Piece
  <2>2. Without(<<x>>, D) = <<x>>  BY <1>1, <2>1, WithoutIsKept, FlattenOne
  <2>3. Append(Without(s, D), x) = Without(s, D) \o <<x>>  BY <1>3, AppendIsConcat
  <2> QED  BY <1>t, <1>2, <1>5, <2>2, <2>3, Zenon
<1> QED  BY <1>4, <1>5

\* Nothing is left out of a text that has none of D.
LEMMA WithoutNone ==
  ASSUME NEW E, NEW s \in Seq(E), NEW D, \A i \in DOMAIN s : s[i] \notin D
  PROVE  Without(s, D) = s
<1>g. PICK G : G = E \ D  OBVIOUS
<1> DEFINE S == {n \in Nat : \A t \in Seq(G) : Len(t) = n => Without(t, D) = t}
<1>0. Without(<<>>, D) = <<>>
  <2>1. Kept(<<>>, D) = <<>>  BY DEF Kept
  <2> QED  BY <2>1, WithoutIsKept, FlattenEmpty
<1>1. 0 \in S
  <2>1. \A t \in Seq(G) : Len(t) = 0 => t = <<>>  OBVIOUS
  <2> QED  BY <1>0, <2>1
<1>2. ASSUME NEW n \in Nat, n \in S PROVE n + 1 \in S
  <2> SUFFICES ASSUME NEW t \in Seq(G), Len(t) = n + 1 PROVE Without(t, D) = t  OBVIOUS
  <2>1. PICK u \in Seq(G), x \in G : t = Append(u, x)
    <3>1. t # <<>>  OBVIOUS
    <3> QED  BY <3>1, SequenceEmptyOrAppend
  <2>2. Len(u) = n
    <3>1. Len(t) = Len(u) + 1 /\ Len(u) \in Nat  BY <2>1
    <3> QED  BY <3>1
  <2>3. Without(u, D) = u  BY <1>2, <2>2
  <2>4. Without(t, D) = IF x \in D THEN Without(u, D) ELSE Append(Without(u, D), x)
    <3>1. Without(Append(u, x), D) = IF x \in D THEN Without(u, D) ELSE Append(Without(u, D), x)
      BY ONLY u \in Seq(G), x \in G, WithoutOneMore
    <3> QED  BY <2>1, <3>1, Zenon
  <2>5. x \notin D  BY <1>g
  <2> QED  BY <2>1, <2>3, <2>4, <2>5
<1> HIDE DEF S
<1>3. Nat \subseteq S  BY <1>1, <1>2, NatInd
<1>4. s \in Seq(G) /\ Len(s) \in Nat  BY <1>g
<1> QED  BY <1>3, <1>4 DEF S

\* Nothing is left of a text that has nothing but D.
LEMMA WithoutAll ==
  ASSUME NEW E, NEW s \in Seq(E), NEW D, \A i \in DOMAIN s : s[i] \in D
  PROVE  Without(s, D) = <<>>
<1> DEFINE S == {n \in Nat : \A t \in Seq(E \cap D) : Len(t) = n => Without(t, D) = <<>>}
<1>0. Without(<<>>, D) = <<>>
  <2>1. Kept(<<>>, D) = <<>>  BY DEF Kept
  <2> QED  BY <2>1, WithoutIsKept, FlattenEmpty
<1>1. 0 \in S
  <2>1. \A t \in Seq(E \cap D) : Len(t) = 0 => t = <<>>  OBVIOUS
  <2> QED  BY <1>0, <2>1
<1>2. ASSUME NEW n \in Nat, n \in S PROVE n + 1 \in S
  <2> SUFFICES ASSUME NEW t \in Seq(E \cap D), Len(t) = n + 1 PROVE Without(t, D) = <<>>  OBVIOUS
  <2>1. PICK u \in Seq(E \cap D), x \in E \cap D : t = Append(u, x)
    <3>1. t # <<>>  OBVIOUS
    <3> QED  BY <3>1, SequenceEmptyOrAppend
  <2>2. Len(u) = n
    <3>1. Len(t) = Len(u) + 1 /\ Len(u) \in Nat  BY <2>1
    <3> QED  BY <3>1
  <2>3. Without(u, D) = <<>>  BY <1>2, <2>2
  <2>4. Without(t, D) = IF x \in D THEN Without(u, D) ELSE Append(Without(u, D), x)
    <3>1. Without(Append(u, x), D) = IF x \in D THEN Without(u, D) ELSE Append(Without(u, D), x)
      BY ONLY u \in Seq(E \cap D), x \in E \cap D, WithoutOneMore
    <3> QED  BY <2>1, <3>1, Zenon
  <2>5. x \in D  OBVIOUS
  <2> QED  BY <2>3, <2>4, <2>5
<1> HIDE DEF S
<1>3. Nat \subseteq S  BY <1>1, <1>2, NatInd
<1>4. s \in Seq(E \cap D) /\ Len(s) \in Nat  OBVIOUS
<1> QED  BY <1>3, <1>4 DEF S

-----------------------------------------------------------------------------
(* The account of the text.  W is what has been dealt with: published in   *)
(* the runs ss, but for the paragraphs D that were given up; the runs q    *)
(* are still to be published.                                              *)

Sections == Seq(Seq(Paragraphs))

Account(W, q, ss, D) ==
  /\ Whole = W \o RunsText(q)
  /\ RunsText(ss) = Without(W, D)
  /\ \A p \in D : \E i \in DOMAIN W : W[i] = p

LEMMA WholeType == Text \in Sections /\ Whole \in Seq(Paragraphs)
<1>1. Text \in Seq(Seq(Paragraphs))  BY TextAssumption
<1> QED  BY <1>1, FlattenType DEF Sections, Whole

\* The text of the first run, and of the others.
LEMMA RunsTextHead ==
  ASSUME NEW q \in Seq(Sections), q # <<>>
  PROVE  /\ Head(q) \in Sections /\ Tail(q) \in Seq(Sections)
         /\ FlattenSeq(Head(q)) \in Seq(Paragraphs) /\ RunsText(Tail(q)) \in Seq(Paragraphs)
         /\ RunsText(q) = FlattenSeq(Head(q)) \o RunsText(Tail(q))
<1>h. PICK h, t : h = Head(q) /\ t = Tail(q)  OBVIOUS
<1>1. h \in Sections /\ t \in Seq(Sections)  BY <1>h, HeadTailProperties
<1>2. q = <<h>> \o t
  <2>1. Len(q) \in Nat \ {0}  OBVIOUS
  <2> QED  BY <1>h, <2>1
<1>3. <<h>> \in Seq(Sections)  BY <1>1
<1>4. RunsText(<<h>> \o t) = RunsText(<<h>>) \o RunsText(t)
  BY <1>1, <1>3, RunsTextConcat DEF Sections
<1>5. RunsText(<<h>>) = FlattenSeq(h)  BY <1>1, RunsTextOne DEF Sections
<1>6. FlattenSeq(h) \in Seq(Paragraphs) /\ RunsText(t) \in Seq(Paragraphs)
  BY <1>1, FlattenType, RunsTextType DEF Sections
<1> QED  BY <1>h, <1>1, <1>2, <1>4, <1>5, <1>6, Zenon

\* One more run.
LEMMA RunsTextAppend ==
  ASSUME NEW ss \in Seq(Sections), NEW x \in Sections
  PROVE  RunsText(Append(ss, x)) = RunsText(ss) \o FlattenSeq(x)
<1>1. <<x>> \in Seq(Sections)  OBVIOUS
<1>2. PICK y : y = <<x>>  OBVIOUS
<1>3. y \in Seq(Sections)  BY <1>1, <1>2, Zenon
<1>4. RunsText(ss \o y) = RunsText(ss) \o RunsText(y)
  BY ONLY ss \in Seq(Sections), <1>3, RunsTextConcat DEF Sections
<1>5. RunsText(<<x>>) = FlattenSeq(x)  BY RunsTextOne DEF Sections
<1>6. Append(ss, x) = ss \o <<x>>  BY AppendIsConcat
<1> QED  BY <1>2, <1>4, <1>5, <1>6, Zenon

\* At first, everything is still to be published.
LEMMA AccountStart == Account(<<>>, <<Text>>, <<>>, {})
<1>1. RunsText(<<Text>>) = Whole  BY WholeType, RunsTextOne DEF Sections, Whole
<1>2. <<>> \o Whole = Whole  BY WholeType, ConcatEmptySeq
<1>3. Without(<<>>, {}) = <<>>
  <2>1. <<>> \in Seq(Paragraphs) /\ \A i \in DOMAIN <<>> : <<>>[i] \notin {}  OBVIOUS
  <2> QED  BY <2>1, WithoutNone
<1> QED  BY <1>1, <1>2, <1>3, RunsTextEmpty DEF Account

\* The text of the next run has nothing in common with what was dealt with.
LEMMA NextRunIsNew ==
  ASSUME NEW W \in Seq(Paragraphs), NEW h \in Seq(Paragraphs), NEW t \in Seq(Paragraphs),
         Whole = W \o (h \o t)
  PROVE  \A i \in DOMAIN W, j \in DOMAIN h : W[i] # h[j]
<1>1. PICK u : u = h \o t  OBVIOUS
<1>2. /\ u \in Seq(Paragraphs) /\ Len(u) = Len(h) + Len(t) /\ Len(h) \in Nat /\ Len(t) \in Nat
      /\ \A j \in 1..Len(h) : u[j] = h[j]
  BY <1>1, ConcatElements
<1>3. /\ Len(Whole) = Len(W) + Len(u) /\ Len(W) \in Nat
      /\ \A i \in 1..Len(W) : Whole[i] = W[i]
      /\ \A j \in 1..Len(u) : Whole[Len(W) + j] = u[j]
  BY <1>1, <1>2, ConcatElements
<1>4. \A i, j \in 1..Len(Whole) : Whole[i] = Whole[j] => i = j
  <2>1. DOMAIN Whole = 1..Len(Whole)  BY WholeType
  <2> QED  BY <2>1, TextAssumption, Zenon
<1>d. DOMAIN W = 1..Len(W) /\ DOMAIN h = 1..Len(h)  OBVIOUS
<1> SUFFICES ASSUME NEW i \in 1..Len(W), NEW j \in 1..Len(h), W[i] = h[j] PROVE FALSE
  BY <1>d, Zenon
<1>5. Whole[i] = Whole[Len(W) + j]  BY <1>2, <1>3
<1>6. i \in 1..Len(Whole) /\ Len(W) + j \in 1..Len(Whole) /\ i # Len(W) + j
  BY <1>2, <1>3
<1> QED  BY <1>4, <1>5, <1>6

\* The next run is published.
LEMMA AccountPublish ==
  ASSUME NEW W \in Seq(Paragraphs), NEW q \in Seq(Sections), NEW ss \in Seq(Sections), NEW D,
         q # <<>>, Account(W, q, ss, D)
  PROVE  \E V \in Seq(Paragraphs) : Account(V, Tail(q), Append(ss, Head(q)), D)
<1>h. PICK h, t : h = FlattenSeq(Head(q)) /\ t = RunsText(Tail(q))  OBVIOUS
<1>1. /\ h \in Seq(Paragraphs) /\ t \in Seq(Paragraphs) /\ RunsText(q) = h \o t
      /\ Head(q) \in Sections
  BY <1>h, RunsTextHead
<1>t. h \in Seq(Paragraphs) /\ t \in Seq(Paragraphs)  BY <1>1
<1>2. Whole = W \o (h \o t)  BY <1>1 DEF Account
<1>v. PICK V : V = W \o h  OBVIOUS
<1>3. V \in Seq(Paragraphs) /\ Whole = V \o t
  <2>1. V \in Seq(Paragraphs)  BY ONLY W \in Seq(Paragraphs), <1>t, <1>v, ConcatProperties
  <2>2. (W \o h) \o t = W \o (h \o t)  BY ONLY W \in Seq(Paragraphs), <1>t, ConcatAssociative
  <2> QED  BY <1>2, <1>v, <2>1, <2>2, Zenon
<1>4. \A p \in D : \E i \in DOMAIN W : W[i] = p  BY DEF Account
<1>5. \A j \in DOMAIN h : h[j] \notin D
  <2>1. \A i \in DOMAIN W, j \in DOMAIN h : W[i] # h[j]  BY <1>t, <1>2, NextRunIsNew, ZenonT(60)
  <2> QED  BY <1>4, <2>1, Zenon
<1>6. Without(h, D) = h  BY <1>1, <1>5, WithoutNone
<1>7. Without(V, D) = Without(W, D) \o h
  <2>1. Without(W \o h, D) = Without(W, D) \o Without(h, D)  BY <1>1, WithoutConcat
  <2> QED  BY <1>v, <1>6, <2>1, Zenon
<1>8. RunsText(Append(ss, Head(q))) = RunsText(ss) \o h
  BY <1>h, <1>1, RunsTextAppend
<1>9. \A p \in D : \E i \in DOMAIN V : V[i] = p
  <2>1. \A i \in DOMAIN W : i \in DOMAIN V /\ V[i] = W[i]  BY <1>1, <1>v
  <2> QED  BY <1>4, <2>1
<1>10. RunsText(ss) = Without(W, D)  BY DEF Account
<1>11. Account(V, Tail(q), Append(ss, Head(q)), D)
  BY <1>h, <1>3, <1>7, <1>8, <1>9, <1>10, Zenon DEF Account
<1> QED  BY <1>3, <1>11

\* The next run is given up.
LEMMA AccountGiveUp ==
  ASSUME NEW W \in Seq(Paragraphs), NEW q \in Seq(Sections), NEW ss \in Seq(Sections), NEW D,
         q # <<>>, Account(W, q, ss, D), NEW F,
         F = D \cup {FlattenSeq(Head(q))[i] : i \in DOMAIN FlattenSeq(Head(q))}
  PROVE  \E V \in Seq(Paragraphs) : Account(V, Tail(q), ss, F)
<1>h. PICK h, t : h = FlattenSeq(Head(q)) /\ t = RunsText(Tail(q))  OBVIOUS
<1>f. F = D \cup {h[i] : i \in DOMAIN h}  BY <1>h
<1>1. h \in Seq(Paragraphs) /\ t \in Seq(Paragraphs) /\ RunsText(q) = h \o t
  BY <1>h, RunsTextHead
<1>2. Whole = W \o (h \o t)  BY <1>1 DEF Account
<1>v. PICK V : V = W \o h  OBVIOUS
<1>3. V \in Seq(Paragraphs) /\ Whole = V \o t
  <2>1. V \in Seq(Paragraphs)  BY SMTT(30), <1>1, <1>v, ConcatProperties
  <2>2. (W \o h) \o t = W \o (h \o t)  BY <1>1, ConcatAssociative
  <2> QED  BY <1>2, <1>v, <2>1, <2>2, Zenon
<1>4. \A p \in D : \E i \in DOMAIN W : W[i] = p  BY DEF Account
<1>5. \A i \in DOMAIN W : W[i] \in D <=> W[i] \in F
  <2>1. \A i \in DOMAIN W, j \in DOMAIN h : W[i] # h[j]  BY <1>1, <1>2, NextRunIsNew
  <2> QED  BY <1>f, <2>1
<1>6. Without(W, F) = Without(W, D)  BY <1>5, WithoutSame
<1>7. Without(h, F) = <<>>
  <2>1. \A j \in DOMAIN h : h[j] \in F  BY <1>f
  <2> QED  BY <1>1, <2>1, WithoutAll
<1>8. Without(V, F) = Without(W, D)
  <2>1. Without(W \o h, F) = Without(W, F) \o Without(h, F)
    BY ONLY W \in Seq(Paragraphs), <1>1, WithoutConcat
  <2>2. Without(W, D) \o <<>> = Without(W, D)  BY WithoutType, ConcatEmptySeq
  <2> QED  BY <1>v, <1>6, <1>7, <2>1, <2>2, Zenon
<1>9. \A p \in F : \E i \in DOMAIN V : V[i] = p
  <2>1. \A i \in DOMAIN W : i \in DOMAIN V /\ V[i] = W[i]  BY <1>1, <1>v
  <2>2. \A j \in DOMAIN h : Len(W) + j \in DOMAIN V /\ V[Len(W) + j] = h[j]
    BY <1>1, <1>v
  <2> QED  BY <1>4, <1>f, <2>1, <2>2
<1>10. RunsText(ss) = Without(W, D)  BY DEF Account
<1>11. Account(V, Tail(q), ss, F)
  BY <1>h, <1>3, <1>8, <1>9, <1>10, Zenon DEF Account
<1> QED  BY <1>3, <1>11

\* The next run is cut.
LEMMA AccountCut ==
  ASSUME NEW W \in Seq(Paragraphs), NEW q \in Seq(Sections), NEW ss, NEW D,
         q # <<>>, Account(W, q, ss, D),
         NEW c \in Seq(Sections), RunsText(c) = FlattenSeq(Head(q))
  PROVE  Account(W, c \o Tail(q), ss, D)
<1>1. /\ Tail(q) \in Seq(Sections)
      /\ RunsText(q) = FlattenSeq(Head(q)) \o RunsText(Tail(q))
  BY RunsTextHead
<1>t. PICK t : t = Tail(q)  OBVIOUS
<1>2. RunsText(c \o t) = RunsText(c) \o RunsText(t)
  BY <1>1, <1>t, RunsTextConcat DEF Sections
<1>3. RunsText(c \o Tail(q)) = RunsText(q)  BY <1>1, <1>t, <1>2, Zenon
<1> QED  BY <1>3, Zenon DEF Account

\* Two runs that are joined have the same text.
LEMMA RunsTextMerge ==
  ASSUME NEW s \in Seq(Sections), NEW x \in Sections, NEW y \in Sections
  PROVE  /\ RunsText(Append(s, x \o y)) = RunsText(Append(Append(s, x), y))
         /\ x \o y \in Sections
         /\ FlattenSeq(x \o y) = FlattenSeq(x) \o FlattenSeq(y)
<1>1. PICK z : z = x \o y  OBVIOUS
<1>2. z \in Sections  BY <1>1 DEF Sections
<1>3. FlattenSeq(x \o y) = FlattenSeq(x) \o FlattenSeq(y)  BY FlattenConcat DEF Sections
<1>4. RunsText(Append(s, z)) = RunsText(s) \o FlattenSeq(z)  BY <1>2, RunsTextAppend
<1>5. PICK r : r = Append(s, x)  OBVIOUS
<1>6. r \in Seq(Sections)  BY <1>5
<1>7. RunsText(Append(r, y)) = RunsText(r) \o FlattenSeq(y)  BY <1>6, RunsTextAppend
<1>8. RunsText(Append(s, x)) = RunsText(s) \o FlattenSeq(x)  BY RunsTextAppend
<1>9. /\ RunsText(s) \in Seq(Paragraphs) /\ FlattenSeq(x) \in Seq(Paragraphs)
      /\ FlattenSeq(y) \in Seq(Paragraphs)
  BY RunsTextType, FlattenType DEF Sections
<1>10. (RunsText(s) \o FlattenSeq(x)) \o FlattenSeq(y) = RunsText(s) \o (FlattenSeq(x) \o FlattenSeq(y))
  BY <1>9, ConcatAssociative
<1> QED  BY <1>1, <1>2, <1>3, <1>4, <1>5, <1>7, <1>8, <1>10, Zenon

\* What the account says of the text.
LEMMA AccountAddsUp ==
  ASSUME NEW W \in Seq(Paragraphs), NEW q \in Seq(Sections), NEW ss \in Seq(Sections), NEW D,
         Account(W, q, ss, D)
  PROVE  RunsText(ss) \o RunsText(q) = Without(Whole, D)
<1>r. PICK r : r = RunsText(q)  OBVIOUS
<1>1. r \in Seq(Paragraphs)  BY <1>r, RunsTextType DEF Sections
<1>2. Whole = W \o r /\ RunsText(ss) = Without(W, D)  BY <1>r DEF Account
<1>3. Without(W \o r, D) = Without(W, D) \o Without(r, D)  BY <1>1, WithoutConcat
<1>4. \A j \in DOMAIN r : r[j] \notin D
  <2>1. Whole = W \o (r \o <<>>) /\ <<>> \in Seq(Paragraphs)  BY <1>1, <1>2, ConcatEmptySeq
  <2>2. \A i \in DOMAIN W, j \in DOMAIN r : W[i] # r[j]  BY <1>1, <2>1, NextRunIsNew
  <2> QED  BY <2>2 DEF Account
<1>5. Without(r, D) = r  BY <1>1, <1>4, WithoutNone
<1> QED  BY <1>r, <1>2, <1>3, <1>5, Zenon

-----------------------------------------------------------------------------
(* The invariant.                                                          *)

PageType ==
  [text : Seq(Paragraphs), outline : BOOLEAN, links : Seq(Nat),
   foot : Seq({"related", "nav", "short"})]
PartType == [secs : Sections, page : Nat]

Counters ==
  /\ kind \in {"synopsis", "expanded", "compact"}
  /\ limit \in 1..Room /\ related \in 0..3
  /\ doing \in {"create", "toc", "merge", "edit", "nav", "done", "failed"}
  /\ posted \in 0..Posts /\ round \in 0..(Calls - 1) /\ troubles \in 0..MaxTroubles

Flags == outlined \in BOOLEAN

LinksIn(p, n) == \A j \in DOMAIN p.links : p.links[j] \in 1..n

\* No page links to one that does not exist.
PagesOK ==
  pages \in Seq(PageType) /\ \A i \in DOMAIN pages : LinksIn(pages[i], Len(pages))

\* Each part has a page of its own.
PartsOK ==
  /\ todo \in Seq(Sections) /\ parts \in Seq(PartType)
  /\ \A i \in DOMAIN todo : todo[i] # <<>>
  /\ \A i \in DOMAIN parts : parts[i].page \in 1..Len(pages)
  /\ \A i, j \in DOMAIN parts : parts[i].page = parts[j].page => i = j

Marks ==
  /\ dropped \in SUBSET Paragraphs /\ missed \in SUBSET DOMAIN parts
  /\ visited \in SUBSET (1..Len(pages)) /\ result \in 0..Len(pages)

\* What each stage of the work can rely on.
Stages ==
  /\ doing \in {"create", "toc", "merge"} => at = 1 /\ missed = {} /\ result = 0
  /\ doing = "edit" => at \in DOMAIN parts /\ result = 0
  /\ doing = "merge" => kind = "synopsis" /\ parts # <<>>
  /\ doing = "toc" => kind = "compact"
  /\ doing = "nav" => at \in 1..Len(pages)

\* The page that add_navigation has read still shows what it did.
Reading ==
  read = Unread \/
    (/\ doing = "nav" /\ read \in PageType
     /\ read.text = pages[at].text /\ read.links = pages[at].links)

Control == Counters /\ Flags /\ PagesOK /\ PartsOK /\ Marks /\ Stages /\ Reading

-----------------------------------------------------------------------------
(* Pages.                                                                  *)

LEMMA BodyType ==
  ASSUME NEW secs \in Sections
  PROVE  /\ Body(secs) \in PageType
         /\ Body(secs).text = FlattenSeq(secs) /\ Body(secs).links = <<>>
<1>1. FlattenSeq(secs) \in Seq(Paragraphs)  BY FlattenType DEF Sections
<1> QED  BY <1>1 DEF Body, Page, PageType

LEMMA NodesType ==
  ASSUME PartsOK, NEW i \in DOMAIN parts, NEW full
  PROVE  /\ PartNodes(i, full) \in PageType
         /\ PartNodes(i, full).text = PartText(i) /\ PartNodes(i, full).links = NextPart(i)
         /\ LinksIn(PartNodes(i, full), Len(pages))
<1>1. /\ parts[i].secs \in Sections /\ Len(parts) \in Nat /\ i \in 1..Len(parts)
      /\ \A j \in 1..Len(parts) : parts[j].page \in 1..Len(pages)
      /\ \A j \in 1..Len(parts) : parts[j].page \in Nat
  <2>1. parts \in Seq(PartType) /\ \A j \in DOMAIN parts : parts[j].page \in 1..Len(pages)
    BY DEF PartsOK
  <2>2. DOMAIN parts = 1..Len(parts) /\ Len(parts) \in Nat  BY <2>1
  <2>3. \A j \in 1..Len(parts) : parts[j] \in PartType  BY <2>1
  <2> QED  BY <2>1, <2>2, <2>3 DEF PartType
<1>2. FlattenSeq(parts[i].secs) \in Seq(Paragraphs)  BY <1>1, FlattenType DEF Sections
<1>3. /\ NextPart(i) \in Seq(Nat)
      /\ \A j \in DOMAIN NextPart(i) : NextPart(i)[j] \in 1..Len(pages)
  BY <1>1 DEF NextPart
<1>4. (full /\ (i = 1 \/ kind = "synopsis")) \in BOOLEAN  BY Zenon
<1>5. (IF i = Len(parts) /\ related > 0 THEN <<"related">> ELSE <<>>)
        \in Seq({"related", "nav", "short"})
  <2>1. <<"related">> \in Seq({"related", "nav", "short"})
        /\ <<>> \in Seq({"related", "nav", "short"})
    OBVIOUS
  <2> QED  BY <2>1, Zenon
<1>6. /\ PartNodes(i, full).text = PartText(i) /\ PartNodes(i, full).links = NextPart(i)
  BY DEF PartNodes, Page, PartText
<1>7. PartNodes(i, full) \in PageType
  BY <1>2, <1>3, <1>4, <1>5, Zenon DEF PartNodes, Page, PageType
<1> QED  BY <1>3, <1>6, <1>7 DEF LinksIn

LEMMA ContentsType ==
  ASSUME PartsOK
  PROVE  /\ Contents \in PageType /\ LinksIn(Contents, Len(pages))
         /\ Contents.links = [i \in DOMAIN parts |-> parts[i].page]
<1>1. /\ DOMAIN parts = 1..Len(parts) /\ Len(parts) \in Nat
      /\ \A j \in 1..Len(parts) : parts[j].page \in 1..Len(pages) /\ parts[j].page \in Nat
  BY DEF PartsOK, PartType
<1>2. [i \in DOMAIN parts |-> parts[i].page] \in Seq(Nat)  BY <1>1
<1> QED  BY <1>1, <1>2 DEF Contents, Page, PageType, LinksIn

\* A footer leaves text and links alone.
LEMMA FootedType ==
  ASSUME read \in PageType, NEW full
  PROVE  /\ Footed(full) \in PageType
         /\ Footed(full).text = read.text /\ Footed(full).links = read.links
<1> DEFINE p == IF at = result THEN Strip(read) ELSE read
<1>1. p \in PageType /\ p.text = read.text /\ p.links = read.links
  <2>1. Strip(read) = read \/
          (Strip(read) = [read EXCEPT !.foot = Front(@)] /\ read.foot # <<>>)
    BY Zenon DEF Strip
  <2>2. read.foot # <<>> => Front(read.foot) \in Seq({"related", "nav", "short"})
    BY DEF PageType, Front
  <2>3. /\ Strip(read) \in PageType
        /\ Strip(read).text = read.text /\ Strip(read).links = read.links
    BY <2>1, <2>2 DEF PageType
  <2> QED  BY <2>3
<1>2. (IF full THEN "nav" ELSE "short") \in {"related", "nav", "short"}  BY Zenon
<1>3. Append(p.foot, IF full THEN "nav" ELSE "short") \in Seq({"related", "nav", "short"})
  BY <1>1, <1>2 DEF PageType
<1>4. Footed(full) = [p EXCEPT !.foot = Append(@, IF full THEN "nav" ELSE "short")]
  BY DEF Footed
<1> HIDE DEF p
<1> QED  BY <1>1, <1>3, <1>4 DEF PageType

\* One page more.
LEMMA PagesGrow ==
  ASSUME PagesOK, NEW p \in PageType, LinksIn(p, Len(pages)), pages' = Append(pages, p)
  PROVE  /\ PagesOK' /\ Len(pages') = Len(pages) + 1 /\ Len(pages) \in Nat
         /\ \A i \in 1..Len(pages) : pages'[i] = pages[i]
         /\ pages'[Len(pages) + 1] = p
<1>1. /\ pages \in Seq(PageType) /\ Len(pages) \in Nat
      /\ \A i \in 1..Len(pages) : LinksIn(pages[i], Len(pages))
  BY DEF PagesOK
<1>2. /\ pages' \in Seq(PageType) /\ Len(pages') = Len(pages) + 1
      /\ \A i \in 1..Len(pages) : pages'[i] = pages[i]
      /\ pages'[Len(pages) + 1] = p
  BY <1>1
<1>3. \A i \in 1..Len(pages') : LinksIn(pages'[i], Len(pages'))
  <2>1. \A q : LinksIn(q, Len(pages)) => LinksIn(q, Len(pages'))  BY <1>1, <1>2 DEF LinksIn
  <2>2. \A i \in 1..Len(pages') : i \in 1..Len(pages) \/ i = Len(pages) + 1  BY <1>1, <1>2
  <2> QED  BY <1>1, <1>2, <2>1, <2>2
<1> QED  BY <1>1, <1>2, <1>3 DEF PagesOK

\* A page is written.
LEMMA PagesWrite ==
  ASSUME PagesOK, NEW p \in PageType, LinksIn(p, Len(pages)), NEW k \in 1..Len(pages),
         pages' = [pages EXCEPT ![k] = p]
  PROVE  /\ PagesOK' /\ Len(pages') = Len(pages)
         /\ \A i \in 1..Len(pages) : pages'[i] = IF i = k THEN p ELSE pages[i]
<1>1. /\ pages \in Seq(PageType) /\ Len(pages) \in Nat
      /\ \A i \in 1..Len(pages) : LinksIn(pages[i], Len(pages))
  BY DEF PagesOK
<1>2. /\ pages' \in Seq(PageType) /\ Len(pages') = Len(pages)
      /\ \A i \in 1..Len(pages) : pages'[i] = IF i = k THEN p ELSE pages[i]
  BY <1>1, ExceptSeq
<1>3. \A i \in 1..Len(pages') : LinksIn(pages'[i], Len(pages'))
  BY <1>1, <1>2
<1> QED  BY <1>1, <1>2, <1>3 DEF PagesOK

-----------------------------------------------------------------------------
(* Control: creating the parts and the page of contents.                   *)

\* The bounds on what the code counts are numbers.
LEMMA Numbers ==
  /\ Posts \in Nat \ {0} /\ Calls \in Nat \ {0} /\ MaxTroubles \in Nat /\ Room \in Nat \ {0}
  BY PublicationAssumption

\* Where the work goes after a run, ps being the parts by then.
Follows(ps) ==
  \/ doing' \in {"create", "failed"} /\ result' = result
  \/ doing' = "merge" /\ kind = "synopsis" /\ ps # <<>> /\ result' = result
  \/ doing' = "edit" /\ kind = "expanded" /\ ps # <<>> /\ result' = result
  \/ doing' = "toc" /\ kind = "compact" /\ result' = result
  \/ doing' = "done" /\ kind = "compact" /\ ps # <<>> /\ ~(Len(ps) > 1) /\ result' = ps[1].page

LEMMA AfterRuns_Follows ==
  ASSUME Counters, NEW ps, AfterRuns(ps)
  PROVE  Follows(ps)
<1>1. kind \in {"synopsis", "expanded", "compact"}  BY Zenon DEF Counters
<1>2. CASE Len(todo) > 1  BY <1>2, Zenon DEF AfterRuns, Follows
<1>3. CASE ~(Len(todo) > 1) /\ ps = <<>>  BY <1>3, Zenon DEF AfterRuns, Follows
<1>4. CASE ~(Len(todo) > 1) /\ ps # <<>>
  <2>1. CASE kind = "synopsis"  BY <1>4, <2>1, Zenon DEF AfterRuns, Follows
  <2>2. CASE kind = "expanded"
    <3>1. doing' = "edit" /\ UNCHANGED result
      BY <1>4, <2>2, "expanded" # "synopsis", Zenon DEF AfterRuns
    <3> QED  BY <1>4, <2>2, <3>1, Zenon DEF Follows
  <2>3. CASE kind = "compact"
    <3>1. IF Len(ps) > 1 THEN doing' = "toc" /\ UNCHANGED result
          ELSE doing' = "done" /\ result' = ps[1].page
      BY <1>4, <2>3, "compact" # "synopsis", "compact" # "expanded", Zenon DEF AfterRuns
    <3> QED  BY <1>4, <2>3, <3>1, Zenon DEF Follows
  <2> QED  BY <1>1, <2>1, <2>2, <2>3
<1> QED  BY <1>2, <1>3, <1>4

\* The stage that follows has what it relies on.
LEMMA Follows_Stages ==
  ASSUME Counters, Stages, Marks, doing = "create", Follows(parts'), PartsOK',
         UNCHANGED <<kind, at, missed>>, Len(pages') \in Nat
  PROVE  /\ Stages' /\ result' \in 0..Len(pages')
         /\ doing' \in {"create", "toc", "merge", "edit", "done", "failed"}
<1>1. /\ at' = 1 /\ missed' = {} /\ result = 0 /\ kind' = kind
  BY DEF Stages
<1>2. /\ parts' # <<>> => 1 \in DOMAIN parts' /\ parts'[1].page \in 1..Len(pages')
  <2>1. /\ parts' \in Seq(PartType)
        /\ \A i \in DOMAIN parts' : parts'[i].page \in 1..Len(pages')
    BY DEF PartsOK
  <2>2. parts' # <<>> => 1 \in DOMAIN parts'  BY <2>1
  <2> QED  BY <2>1, <2>2
<1> QED  BY <1>1, <1>2 DEF Follows, Stages

\* Nothing has been read before navigation.
LEMMA NotReading ==
  ASSUME Reading, doing # "nav"
  PROVE  read = Unread
  BY DEF Reading

\* The first run, and the others.
LEMMA RunsLeft ==
  ASSUME NEW q \in Seq(Sections), q # <<>>, \A i \in DOMAIN q : q[i] # <<>>
  PROVE  /\ Head(q) \in Sections /\ Head(q) # <<>>
         /\ Tail(q) \in Seq(Sections) /\ \A i \in DOMAIN Tail(q) : Tail(q)[i] # <<>>
<1>1. Len(q) \in Nat \ {0} /\ Tail(q) \in Seq(Sections) /\ Len(Tail(q)) = Len(q) - 1
  OBVIOUS
<1>2. 1 \in DOMAIN q /\ Head(q) = q[1] /\ q[1] \in Sections  BY <1>1
<1>3. \A i \in 1..Len(Tail(q)) : i + 1 \in DOMAIN q /\ Tail(q)[i] = q[i + 1]  BY <1>1
<1> QED  BY <1>1, <1>2, <1>3

\* The parts stay, on their pages.
LEMMA PartsStay ==
  ASSUME PartsOK, Marks, parts' = parts, todo' \in Seq(Sections),
         \A i \in DOMAIN todo' : todo'[i] # <<>>,
         Len(pages) \in Nat, Len(pages') \in Nat, Len(pages) <= Len(pages')
  PROVE  PartsOK' /\ visited \in SUBSET (1..Len(pages')) /\ result \in 0..Len(pages')
  BY DEF PartsOK, Marks

LEMMA PagesCreated ==
  ASSUME PagesOK, NEW p \in PageType, LinksIn(p, Len(pages)), NEW c \in BOOLEAN,
         CreatedAnyway(p, c)
  PROVE  /\ PagesOK' /\ Len(pages) \in Nat /\ Len(pages') \in Nat
         /\ Len(pages) <= Len(pages')
         /\ \A i \in 1..Len(pages) : pages'[i] = pages[i]
<1>1. CASE c
  <2>1. pages' = Append(pages, p)  BY <1>1, Zenon DEF CreatedAnyway
  <2>2. /\ PagesOK' /\ Len(pages') = Len(pages) + 1 /\ Len(pages) \in Nat
        /\ \A i \in 1..Len(pages) : pages'[i] = pages[i]
    BY <2>1, PagesGrow
  <2> QED  BY <2>2
<1>2. CASE ~c
  <2>1. pages' = pages  BY <1>2, Zenon DEF CreatedAnyway
  <2>2. Len(pages) \in Nat  BY DEF PagesOK
  <2>3. PagesOK'  BY <2>1 DEF PagesOK
  <2> QED  BY <2>1, <2>2, <2>3
<1> QED  BY <1>1, <1>2

LEMMA PagesWritten ==
  ASSUME PagesOK, NEW p \in PageType, LinksIn(p, Len(pages)), NEW k \in 1..Len(pages),
         NEW c \in BOOLEAN, WrittenAnyway(k, p, c)
  PROVE  /\ PagesOK' /\ Len(pages) \in Nat /\ Len(pages') = Len(pages)
         /\ \A i \in 1..Len(pages) : pages'[i] = pages[i] \/ (i = k /\ pages'[i] = p)
<1>1. CASE c
  <2>1. pages' = [pages EXCEPT ![k] = p]  BY <1>1, Zenon DEF WrittenAnyway
  <2>2. /\ PagesOK' /\ Len(pages') = Len(pages)
        /\ \A i \in 1..Len(pages) : pages'[i] = IF i = k THEN p ELSE pages[i]
    BY <2>1, PagesWrite
  <2>3. Len(pages) \in Nat  BY DEF PagesOK
  <2> QED  BY <2>2, <2>3
<1>2. CASE ~c
  <2>1. pages' = pages  BY <1>2, Zenon DEF WrittenAnyway
  <2>2. Len(pages) \in Nat  BY DEF PagesOK
  <2>3. PagesOK'  BY <2>1 DEF PagesOK
  <2> QED  BY <2>1, <2>2, <2>3
<1> QED  BY <1>1, <1>2

\* A request fails.
LEMMA Fails_Counts ==
  ASSUME Counters, NEW p, NEW again, NEW c, Fails(p, again, c)
  PROVE  troubles' \in 0..MaxTroubles
  BY Numbers DEF Counters, Fails

\* It is sent again.
LEMMA Repeats_Counts ==
  ASSUME Counters, NEW again, Repeats(again), posted' = posted + 1
  PROVE  posted' \in 0..Posts
  BY Numbers DEF Counters, Repeats

\* A run is published on a page of its own.
LEMMA Created_Control ==
  ASSUME Control, Created
  PROVE  Control'
<1> DEFINE h == Head(todo)
<1>0. Counters /\ Flags /\ PagesOK /\ PartsOK /\ Marks /\ Stages /\ Reading  BY DEF Control
<1>1. /\ doing = "create" /\ todo # <<>>
      /\ pages' = Append(pages, Body(h))
      /\ parts' = Append(parts, [secs |-> h, page |-> Len(pages) + 1])
      /\ todo' = Tail(todo) /\ posted' = 0 /\ AfterRuns(parts')
      /\ UNCHANGED <<kind, limit, related, dropped, at, outlined, round, missed, read, visited,
                     troubles>>
  BY Zenon DEF Created, Creating, NextRun
<1>2. /\ h \in Sections /\ Tail(todo) \in Seq(Sections)
      /\ \A i \in DOMAIN Tail(todo) : Tail(todo)[i] # <<>>
  BY <1>0, <1>1, RunsLeft DEF PartsOK
<1>3. Body(h) \in PageType /\ LinksIn(Body(h), Len(pages))
  BY <1>2, BodyType DEF LinksIn
<1>4. PagesOK' /\ Len(pages') = Len(pages) + 1 /\ Len(pages) \in Nat
  BY <1>0, <1>1, <1>3, PagesGrow
<1>5. PartsOK'
  <2>1. [secs |-> h, page |-> Len(pages) + 1] \in PartType  BY <1>2, <1>4 DEF PartType
  <2>2. /\ parts \in Seq(PartType) /\ Len(parts) \in Nat /\ DOMAIN parts = 1..Len(parts)
        /\ \A i \in DOMAIN parts : parts[i].page \in 1..Len(pages)
        /\ \A i, j \in DOMAIN parts : parts[i].page = parts[j].page => i = j
    BY <1>0 DEF PartsOK
  <2>3. /\ parts' \in Seq(PartType) /\ DOMAIN parts' = 1..(Len(parts) + 1)
        /\ \A i \in 1..Len(parts) : parts'[i] = parts[i]
        /\ parts'[Len(parts) + 1].page = Len(pages) + 1
    BY <1>1, <2>1, <2>2
  <2>4. \A i \in DOMAIN parts' : parts'[i].page \in 1..Len(pages')
    BY <1>4, <2>2, <2>3
  <2>5. \A i, j \in DOMAIN parts' : parts'[i].page = parts'[j].page => i = j
    BY <1>4, <2>2, <2>3
  <2> QED  BY <1>1, <1>2, <2>3, <2>4, <2>5 DEF PartsOK
<1>6. Follows(parts')  BY <1>0, <1>1, AfterRuns_Follows
<1>7. /\ Stages' /\ result' \in 0..Len(pages')
      /\ doing' \in {"create", "toc", "merge", "edit", "done", "failed"}
  BY <1>0, <1>1, <1>4, <1>5, <1>6, Follows_Stages
<1>8. Counters' /\ Flags'  BY <1>0, <1>1, <1>7, Numbers DEF Counters, Flags
<1>9. Marks'
  <2>1. missed' = {}  BY <1>0, <1>1 DEF Stages
  <2> QED  BY <1>0, <1>1, <1>4, <1>7, <2>1 DEF Marks
<1>10. Reading'  BY <1>0, <1>1, NotReading DEF Reading
<1> QED  BY <1>4, <1>5, <1>7, <1>8, <1>9, <1>10 DEF Control

LEMMA PairIsAppend ==
  ASSUME NEW E, NEW x \in E, NEW y \in E
  PROVE  Append(<<x>>, y) = <<x, y>> /\ <<x>> \in Seq(E) /\ <<x, y>> \in Seq(E)
<1>1. /\ Append(<<x>>, y) \in Seq(E) /\ <<x, y>> \in Seq(E) /\ <<x>> \in Seq(E)
      /\ Len(Append(<<x>>, y)) = 2 /\ Len(<<x, y>>) = 2
  OBVIOUS
<1>2. \A i \in 1..2 : Append(<<x>>, y)[i] = <<x, y>>[i]
  <2>1. /\ Append(<<x>>, y)[1] = x /\ Append(<<x>>, y)[2] = y
        /\ <<x, y>>[1] = x /\ <<x, y>>[2] = y
    OBVIOUS
  <2>2. \A i \in 1..2 : i = 1 \/ i = 2  OBVIOUS
  <2> QED  BY <2>1, <2>2
<1> QED  BY <1>1, <1>2, SeqEqual

LEMMA OnlyElement ==
  ASSUME NEW E, NEW s \in Seq(E), Len(s) = 1
  PROVE  s = <<s[1]>> /\ s[1] \in E
  OBVIOUS

LEMMA HalfOf ==
  ASSUME NEW n \in Nat
  PROVE  n \div 2 \in 0..n /\ (n > 1 => n \div 2 \in 1..(n - 1))
  OBVIOUS

\* A sequence that is cut in two.
LEMMA HalvesJoin ==
  ASSUME NEW E, NEW s \in Seq(E), NEW n \in 0..Len(s)
  PROVE  /\ SubSeq(s, 1, n) \in Seq(E) /\ SubSeq(s, n + 1, Len(s)) \in Seq(E)
         /\ SubSeq(s, 1, n) \o SubSeq(s, n + 1, Len(s)) = s
         /\ n # 0 => SubSeq(s, 1, n) # <<>>
         /\ n # Len(s) => SubSeq(s, n + 1, Len(s)) # <<>>
<1>1. Len(s) \in Nat /\ \A i \in 1..Len(s) : s[i] \in E  OBVIOUS
<1>2. 1 \in 1..(Len(s) + 1) /\ n \in (1 - 1)..Len(s) /\ Len(s) \in n..Len(s)  BY <1>1
<1>3. SubSeq(s, 1, n) \o SubSeq(s, n + 1, Len(s)) = SubSeq(s, 1, Len(s))
  BY <1>2, ConcatAdjacentSubSeq
<1>4. SubSeq(s, 1, Len(s)) = s  BY SubSeqFull
<1>5. SubSeq(s, 1, n) \in Seq(E)  BY <1>1
<1>6. SubSeq(s, n + 1, Len(s)) \in Seq(E)  BY <1>1
<1>7. n # 0 => SubSeq(s, 1, n) # <<>>
  <2>1. Len(SubSeq(s, 1, n)) = n  BY <1>1
  <2> QED  BY <2>1
<1>8. n # Len(s) => SubSeq(s, n + 1, Len(s)) # <<>>
  <2>1. Len(SubSeq(s, n + 1, Len(s))) = Len(s) - n  BY <1>1
  <2>2. n # Len(s) => Len(s) - n # 0  BY <1>1
  <2>3. PICK z : z = SubSeq(s, n + 1, Len(s))  OBVIOUS
  <2>4. z = <<>> => Len(z) = 0  OBVIOUS
  <2> QED  BY <2>1, <2>2, <2>3, <2>4, Zenon
<1> QED  BY <1>3, <1>4, <1>5, <1>6, <1>7, <1>8, Zenon

\* Two runs that hold a run between them.
LEMMA TwoRuns ==
  ASSUME NEW x \in Sections, NEW y \in Sections
  PROVE  /\ <<x, y>> \in Seq(Sections)
         /\ RunsText(<<x, y>>) = FlattenSeq(x) \o FlattenSeq(y)
<1>1. PICK q : q = <<x>>  OBVIOUS
<1>2. q \in Seq(Sections)  BY <1>1, PairIsAppend
<1>3. RunsText(Append(q, y)) = RunsText(q) \o FlattenSeq(y)
  BY ONLY <1>2, y \in Sections, RunsTextAppend
<1>4. RunsText(<<x>>) = FlattenSeq(x)  BY RunsTextOne DEF Sections
<1>5. Append(<<x>>, y) = <<x, y>> /\ <<x, y>> \in Seq(Sections)  BY PairIsAppend
<1> QED  BY <1>1, <1>3, <1>4, <1>5, Zenon

\* The pieces of a run that is cut are runs with the same text.
LEMMA CutsKeepText ==
  ASSUME NEW secs \in Sections, secs # <<>>, NEW c \in Cuts(secs)
  PROVE  /\ c \in Seq(Sections) /\ RunsText(c) = FlattenSeq(secs)
         /\ \A i \in DOMAIN c : c[i] # <<>>
<1>1. Len(secs) \in Nat \ {0}  BY DEF Sections
<1>2. CASE Len(secs) > 1
  <2>1. PICK n \in 1..(Len(secs) - 1) : c = Halves(secs, n)
    <3>1. Len(secs) \div 2 \in 1..(Len(secs) - 1)  BY <1>1, <1>2, HalfOf
    <3>2. PICK n : /\ c = Halves(secs, n)
                   /\ n \in IF kind = "compact" THEN 1..(Len(secs) \div 2) ELSE {Len(secs) \div 2}
      BY <1>2, Zenon DEF Cuts
    <3>3. n \in 1..(Len(secs) - 1)
      <4>1. CASE kind = "compact"  BY <1>1, <3>1, <3>2, <4>1
      <4>2. CASE kind # "compact"  BY <3>1, <3>2, <4>2
      <4> QED  BY <4>1, <4>2
    <3> QED  BY <3>2, <3>3
  <2>2. PICK x, y : x = SubSeq(secs, 1, n) /\ y = SubSeq(secs, n + 1, Len(secs))  OBVIOUS
  <2>3. x \in Sections /\ y \in Sections /\ x \o y = secs /\ x # <<>> /\ y # <<>>
    <3>1. /\ secs \in Seq(Seq(Paragraphs)) /\ n \in 0..Len(secs)
          /\ n # 0 /\ n # Len(secs)
      BY <1>1 DEF Sections
    <3>2. /\ SubSeq(secs, 1, n) \in Seq(Seq(Paragraphs))
          /\ SubSeq(secs, n + 1, Len(secs)) \in Seq(Seq(Paragraphs))
          /\ SubSeq(secs, 1, n) \o SubSeq(secs, n + 1, Len(secs)) = secs
          /\ SubSeq(secs, 1, n) # <<>> /\ SubSeq(secs, n + 1, Len(secs)) # <<>>
      BY ONLY <3>1, HalvesJoin
    <3> QED  BY <2>2, <3>2, Zenon DEF Sections
  <2>4. FlattenSeq(x \o y) = FlattenSeq(x) \o FlattenSeq(y)
    BY ONLY <2>3, FlattenConcat DEF Sections
  <2>5. c = <<x, y>>  BY <2>1, <2>2, Zenon DEF Halves
  <2>6. \A i \in DOMAIN c : c[i] # <<>>  BY <2>3, <2>5
  <2> QED  BY <2>3, <2>4, <2>5, <2>6, TwoRuns, Zenon
<1>3. CASE ~(Len(secs) > 1)
  <2>1. PICK p : p = secs[1]  OBVIOUS
  <2>2. secs = <<p>> /\ p \in Seq(Paragraphs)
    <3>1. secs \in Seq(Seq(Paragraphs)) /\ Len(secs) = 1
      <4>1. Len(secs) = 1
        <5>1. \A m \in Nat \ {0} : ~(m > 1) => m = 1  OBVIOUS
        <5> QED  BY <1>1, <1>3, <5>1, Zenon
      <4> QED  BY <4>1 DEF Sections
    <3>2. secs = <<secs[1]>> /\ secs[1] \in Seq(Paragraphs)  BY ONLY <3>1, OnlyElement
    <3> QED  BY <2>1, <3>2, Zenon
  <2>3. PICK n : n = Len(p) \div 2  OBVIOUS
  <2>4. n \in 0..Len(p)
    <3>1. Len(p) \in Nat  BY <2>2
    <3> QED  BY <2>3, <3>1, HalfOf
  <2>5. PICK h : h = Halves(p, n) /\ c = << <<h[1]>>, <<h[2]>> >>
    BY <1>3, <2>1, <2>3, Zenon DEF Cuts
  <2>6. PICK a, b : a = SubSeq(p, 1, n) /\ b = SubSeq(p, n + 1, Len(p))  OBVIOUS
  <2>7. h[1] = a /\ h[2] = b
    <3>1. h = <<a, b>>  BY <2>5, <2>6, Zenon DEF Halves
    <3> QED  BY <3>1
  <2>8. a \in Seq(Paragraphs) /\ b \in Seq(Paragraphs) /\ a \o b = p
    <3>1. /\ SubSeq(p, 1, n) \in Seq(Paragraphs) /\ SubSeq(p, n + 1, Len(p)) \in Seq(Paragraphs)
          /\ SubSeq(p, 1, n) \o SubSeq(p, n + 1, Len(p)) = p
      BY ONLY <2>2, <2>4, HalvesJoin
    <3> QED  BY <2>6, <3>1, Zenon
  <2>9. /\ FlattenSeq(<<a>>) = a /\ FlattenSeq(<<b>>) = b /\ FlattenSeq(<<p>>) = p
    BY ONLY <2>2, <2>8, FlattenOne
  <2>10. <<a>> \in Sections /\ <<b>> \in Sections  BY <2>8, PairIsAppend DEF Sections
  <2>11. PICK x, y : x = <<a>> /\ y = <<b>>  OBVIOUS
  <2>12. x \in Sections /\ y \in Sections  BY <2>10, <2>11, Zenon
  <2>13. /\ <<x, y>> \in Seq(Sections)
         /\ RunsText(<<x, y>>) = FlattenSeq(x) \o FlattenSeq(y)
    BY ONLY <2>12, TwoRuns
  <2>14. \A i \in DOMAIN c : c[i] # <<>>
    <3>1. c = << <<a>>, <<b>> >>  BY <2>5, <2>7
    <3> QED  BY <3>1
  <2> QED  BY <2>2, <2>5, <2>7, <2>8, <2>9, <2>11, <2>13, <2>14, Zenon
<1> QED  BY <1>2, <1>3

\* A run is cut.
LEMMA Cut_Control ==
  ASSUME Control, Cut
  PROVE  Control'
<1>0. Counters /\ Flags /\ PagesOK /\ PartsOK /\ Marks /\ Stages /\ Reading  BY DEF Control
<1>1. /\ doing = "create" /\ todo # <<>> /\ posted' = 0
      /\ UNCHANGED <<kind, limit, related, doing, parts, dropped, at, outlined, round, missed,
                     read, visited, result, pages, troubles>>
  BY Zenon DEF Cut, Creating
<1>c. PICK c \in Cuts(Head(todo)) : todo' = c \o Tail(todo)  BY Zenon DEF Cut
<1>2. /\ Head(todo) \in Sections /\ Head(todo) # <<>> /\ Tail(todo) \in Seq(Sections)
      /\ \A i \in DOMAIN Tail(todo) : Tail(todo)[i] # <<>>
  BY <1>0, <1>1, RunsLeft DEF PartsOK
<1>3. c \in Seq(Sections) /\ \A i \in DOMAIN c : c[i] # <<>>
  BY <1>2, <1>c, CutsKeepText
<1>4. todo' \in Seq(Sections) /\ \A i \in DOMAIN todo' : todo'[i] # <<>>
  <2>1. PICK t : t = Tail(todo)  OBVIOUS
  <2>2. t \in Seq(Sections) /\ \A i \in DOMAIN t : t[i] # <<>>  BY <1>2, <2>1
  <2>3. /\ c \o t \in Seq(Sections) /\ Len(c \o t) = Len(c) + Len(t)
        /\ Len(c) \in Nat /\ Len(t) \in Nat
        /\ \A i \in 1..Len(c) : (c \o t)[i] = c[i]
        /\ \A j \in 1..Len(t) : (c \o t)[Len(c) + j] = t[j]
    BY <1>3, <2>2, ConcatElements
  <2>4. todo' = c \o t  BY <1>c, <2>1
  <2>5. ASSUME NEW i \in 1..Len(c \o t) PROVE (c \o t)[i] # <<>>
    <3>1. CASE i \in 1..Len(c)  BY <1>3, <2>3, <3>1
    <3>2. CASE i \notin 1..Len(c)
      <4>1. PICK j : j = i - Len(c)  OBVIOUS
      <4>2. j \in 1..Len(t) /\ i = Len(c) + j  BY <2>3, <2>5, <3>2, <4>1
      <4> QED  BY <2>2, <2>3, <4>2
    <3> QED  BY <3>1, <3>2
  <2> QED  BY <2>3, <2>4, <2>5
<1>5. PartsOK'
  <2>1. Len(pages) \in Nat  BY <1>0 DEF PagesOK
  <2> QED  BY <1>0, <1>1, <1>4, <2>1, PartsStay
<1>6. Counters' /\ Flags'  BY <1>0, <1>1, Numbers DEF Counters, Flags
<1>7. PagesOK' /\ Marks' /\ Stages'  BY <1>0, <1>1 DEF PagesOK, Marks, Stages, LinksIn
<1>8. Reading'  BY <1>0, <1>1, NotReading DEF Reading
<1> QED  BY <1>5, <1>6, <1>7, <1>8 DEF Control

\* A run is given up, and with it the text unless it is a compact one.
LEMMA GiveUp_Control ==
  ASSUME Control, doing = "create", todo # <<>>, GiveUpRun,
         UNCHANGED <<kind, limit, related, parts, at, outlined, round, missed, read, visited>>,
         PagesOK', Len(pages) \in Nat, Len(pages') \in Nat, Len(pages) <= Len(pages'),
         troubles' \in 0..MaxTroubles
  PROVE  Control'
<1>0. Counters /\ Flags /\ PagesOK /\ PartsOK /\ Marks /\ Stages /\ Reading  BY DEF Control
<1>1. /\ Head(todo) \in Sections /\ Tail(todo) \in Seq(Sections)
      /\ \A i \in DOMAIN Tail(todo) : Tail(todo)[i] # <<>>
  BY <1>0, RunsLeft DEF PartsOK
<1>2. posted' = 0  BY Zenon DEF GiveUpRun, NextRun
<1>3. todo' \in {todo, Tail(todo)}  BY Zenon DEF GiveUpRun, NextRun
<1>4. PartsOK' /\ visited \in SUBSET (1..Len(pages')) /\ result \in 0..Len(pages')
  <2>1. todo' \in Seq(Sections) /\ \A i \in DOMAIN todo' : todo'[i] # <<>>
    BY <1>0, <1>1, <1>3 DEF PartsOK
  <2> QED  BY <1>0, <2>1, PartsStay
<1>5. Follows(parts')
  <2>1. CASE kind = "compact" /\ Head(todo) # Text
    <3>1. AfterRuns(parts)  BY <2>1, Zenon DEF GiveUpRun
    <3>2. Follows(parts)  BY <1>0, <3>1, AfterRuns_Follows
    <3> QED  BY <3>2
  <2>2. CASE ~(kind = "compact" /\ Head(todo) # Text)
    <3>1. doing' = "failed" /\ result' = result  BY <2>2, Zenon DEF GiveUpRun
    <3> QED  BY <3>1 DEF Follows
  <2> QED  BY <2>1, <2>2
<1>6. /\ Stages' /\ result' \in 0..Len(pages')
      /\ doing' \in {"create", "toc", "merge", "edit", "done", "failed"}
  BY <1>0, <1>4, <1>5, Follows_Stages
<1>7. dropped' \in SUBSET Paragraphs
  <2>1. PICK h : h = FlattenSeq(Head(todo))  OBVIOUS
  <2>2. h \in Seq(Paragraphs)  BY <1>1, <2>1, FlattenType DEF Sections
  <2>3. dropped' = dropped \/ dropped' = dropped \cup {h[i] : i \in DOMAIN h}
    BY <2>1, Zenon DEF GiveUpRun
  <2>4. {h[i] : i \in DOMAIN h} \subseteq Paragraphs  BY <2>2
  <2> QED  BY <1>0, <2>3, <2>4 DEF Marks
<1>8. Counters' /\ Flags'  BY <1>0, <1>2, <1>6, Numbers DEF Counters, Flags
<1>9. Marks'  BY <1>0, <1>4, <1>6, <1>7 DEF Marks
<1>10. Reading'  BY <1>0, <1>6, NotReading DEF Reading
<1> QED  BY <1>4, <1>6, <1>8, <1>9, <1>10 DEF Control

LEMMA CannotCut_Control ==
  ASSUME Control, CannotCut
  PROVE  Control'
<1>1. /\ doing = "create" /\ todo # <<>> /\ GiveUpRun
      /\ UNCHANGED <<kind, limit, related, parts, at, outlined, round, missed, read, visited,
                     pages, troubles>>
  BY Zenon DEF CannotCut, Creating
<1>2. Len(pages) \in Nat /\ PagesOK' /\ troubles' \in 0..MaxTroubles
  BY <1>1 DEF Control, PagesOK, LinksIn, Counters
<1> QED  BY <1>1, <1>2, GiveUp_Control

LEMMA CreateFails_Control ==
  ASSUME Control, CreateFails
  PROVE  Control'
<1>0. Counters /\ Flags /\ PagesOK /\ PartsOK /\ Marks /\ Stages /\ Reading  BY DEF Control
<1>1. /\ doing = "create" /\ todo # <<>>
      /\ UNCHANGED <<kind, limit, related, parts, at, outlined, round, missed, read, visited>>
  BY Zenon DEF CreateFails, Creating
<1>a. PICK again \in BOOLEAN, c \in BOOLEAN :
        /\ Fails(Body(Head(todo)), again, c)
        /\ CreatedAnyway(Body(Head(todo)), c)
        /\ IF Repeats(again)
           THEN posted' = posted + 1 /\ UNCHANGED <<todo, dropped, doing, result>>
           ELSE GiveUpRun
  BY Zenon DEF CreateFails
<1>2. /\ PagesOK' /\ Len(pages) \in Nat /\ Len(pages') \in Nat /\ Len(pages) <= Len(pages')
  <2>1. Head(todo) \in Sections  BY <1>0, <1>1, RunsLeft DEF PartsOK
  <2>2. Body(Head(todo)) \in PageType /\ LinksIn(Body(Head(todo)), Len(pages))
    BY <2>1, BodyType DEF LinksIn
  <2> QED  BY <1>0, <1>a, <2>2, PagesCreated
<1>3. troubles' \in 0..MaxTroubles  BY <1>0, <1>a, Fails_Counts
<1>4. CASE ~Repeats(again)
  <2>1. GiveUpRun  BY <1>4, <1>a, Zenon
  <2> QED  BY <1>1, <1>2, <1>3, <2>1, GiveUp_Control
<1>5. CASE Repeats(again)
  <2>1. posted' = posted + 1 /\ UNCHANGED <<todo, dropped, doing, result>>  BY <1>5, <1>a, Zenon
  <2>2. posted' \in 0..Posts  BY <1>0, <1>5, <2>1, Repeats_Counts
  <2>3. PartsOK' /\ visited \in SUBSET (1..Len(pages')) /\ result \in 0..Len(pages')
    <3>1. todo' \in Seq(Sections) /\ \A i \in DOMAIN todo' : todo'[i] # <<>>
      BY <1>0, <2>1 DEF PartsOK
    <3> QED  BY <1>0, <1>1, <1>2, <3>1, PartsStay
  <2>4. Counters' /\ Flags'  BY <1>0, <1>1, <1>3, <2>1, <2>2 DEF Counters, Flags
  <2>5. Marks' /\ Stages'  BY <1>0, <1>1, <2>1, <2>3 DEF Marks, Stages
  <2>6. Reading'  BY <1>0, <1>1, NotReading DEF Reading
  <2> QED  BY <1>2, <2>3, <2>4, <2>5, <2>6 DEF Control
<1> QED  BY <1>4, <1>5

\* The page of contents.
LEMMA TocCreated_Control ==
  ASSUME Control, TocCreated
  PROVE  Control'
<1>0. Counters /\ Flags /\ PagesOK /\ PartsOK /\ Marks /\ Stages /\ Reading  BY DEF Control
<1>1. /\ doing = "toc" /\ pages' = Append(pages, Contents)
      /\ result' = Len(pages') /\ doing' = "done" /\ posted' = 0
      /\ UNCHANGED <<kind, limit, related, todo, parts, dropped, at, outlined, round, missed,
                     read, visited, troubles>>
  BY Zenon DEF TocCreated, TocRests
<1>2. /\ Contents \in PageType /\ LinksIn(Contents, Len(pages))  BY <1>0, ContentsType
<1>3. /\ PagesOK' /\ Len(pages') = Len(pages) + 1 /\ Len(pages) \in Nat
  BY <1>0, <1>1, <1>2, PagesGrow
<1>4. PartsOK' /\ visited \in SUBSET (1..Len(pages'))
  <2>1. todo' \in Seq(Sections) /\ \A i \in DOMAIN todo' : todo'[i] # <<>>
    BY <1>0, <1>1 DEF PartsOK
  <2> QED  BY <1>0, <1>1, <1>3, <2>1, PartsStay
<1>5. Counters' /\ Flags'  BY <1>0, <1>1, Numbers DEF Counters, Flags
<1>6. Marks' /\ Stages'  BY <1>0, <1>1, <1>3, <1>4 DEF Marks, Stages
<1>7. Reading'  BY <1>0, <1>1, NotReading DEF Reading
<1> QED  BY <1>3, <1>4, <1>5, <1>6, <1>7 DEF Control

LEMMA TocFails_Control ==
  ASSUME Control, TocFails
  PROVE  Control'
<1>0. Counters /\ Flags /\ PagesOK /\ PartsOK /\ Marks /\ Stages /\ Reading  BY DEF Control
<1>1. /\ doing = "toc"
      /\ UNCHANGED <<kind, limit, related, todo, parts, dropped, at, outlined, round, missed,
                     read, visited, result>>
  BY Zenon DEF TocFails, TocRests
<1>a. PICK again \in BOOLEAN, c \in BOOLEAN :
        /\ Fails(Contents, again, c)
        /\ CreatedAnyway(Contents, c)
        /\ IF Repeats(again) THEN posted' = posted + 1 /\ UNCHANGED doing
           ELSE posted' = 0 /\ doing' = "failed"
  BY Zenon DEF TocFails
<1>2. /\ Contents \in PageType /\ LinksIn(Contents, Len(pages))  BY <1>0, ContentsType
<1>3. /\ PagesOK' /\ Len(pages) \in Nat /\ Len(pages') \in Nat /\ Len(pages) <= Len(pages')
  BY <1>0, <1>a, <1>2, PagesCreated
<1>4. PartsOK' /\ visited \in SUBSET (1..Len(pages')) /\ result \in 0..Len(pages')
  <2>1. todo' \in Seq(Sections) /\ \A i \in DOMAIN todo' : todo'[i] # <<>>
    BY <1>0, <1>1 DEF PartsOK
  <2> QED  BY <1>0, <1>1, <1>3, <2>1, PartsStay
<1>5. posted' \in 0..Posts /\ doing' \in {"toc", "failed"}
  <2>1. CASE Repeats(again)
    <3>1. posted' = posted + 1 /\ doing' = "toc"  BY <1>1, <1>a, <2>1, Zenon
    <3> QED  BY <1>0, <2>1, <3>1, Repeats_Counts
  <2>2. CASE ~Repeats(again)
    <3>1. posted' = 0 /\ doing' = "failed"  BY <1>a, <2>2, Zenon
    <3> QED  BY <3>1, Numbers
  <2> QED  BY <2>1, <2>2
<1>6. troubles' \in 0..MaxTroubles  BY <1>0, <1>a, Fails_Counts
<1>7. Counters' /\ Flags'  BY <1>0, <1>1, <1>5, <1>6 DEF Counters, Flags
<1>8. Marks' /\ Stages'  BY <1>0, <1>1, <1>4, <1>5 DEF Marks, Stages
<1>9. Reading'  BY <1>0, <1>1, NotReading DEF Reading
<1> QED  BY <1>3, <1>4, <1>7, <1>8, <1>9 DEF Control

-----------------------------------------------------------------------------
(* Control: merging the last two parts.                                    *)

LEMMA MergedType ==
  ASSUME PartsOK, Len(parts) > 1
  PROVE  /\ Tail2 \in 1..(Len(parts) - 1) /\ Tail2 + 1 = Len(parts)
         /\ parts[Tail2] \in PartType /\ parts[Tail2 + 1] \in PartType
         /\ Merged \in PartType /\ Merged.page = parts[Tail2].page
         /\ Merged.page \in 1..Len(pages)
         /\ Merged.secs = parts[Tail2].secs \o parts[Tail2 + 1].secs
         /\ Merged.secs \in Sections
<1>1. /\ parts \in Seq(PartType) /\ Len(parts) \in Nat /\ DOMAIN parts = 1..Len(parts)
      /\ \A i \in DOMAIN parts : parts[i].page \in 1..Len(pages)
  BY DEF PartsOK
<1>2. Tail2 \in 1..(Len(parts) - 1) /\ Tail2 + 1 = Len(parts)  BY <1>1 DEF Tail2
<1>3. /\ Tail2 \in DOMAIN parts /\ Tail2 + 1 \in DOMAIN parts  BY <1>1, <1>2
<1>4. parts[Tail2] \in PartType /\ parts[Tail2 + 1] \in PartType  BY <1>1, <1>3
<1>5. PICK x, y : x = parts[Tail2].secs /\ y = parts[Tail2 + 1].secs  OBVIOUS
<1>6. x \in Sections /\ y \in Sections /\ parts[Tail2].page \in Nat  BY <1>4, <1>5 DEF PartType
<1>7. x \o y \in Sections  BY <1>6 DEF Sections
<1>8. Merged = [secs |-> x \o y, page |-> parts[Tail2].page]  BY <1>5 DEF Merged
<1>9. Merged \in PartType /\ Merged.page = parts[Tail2].page /\ Merged.secs = x \o y
  BY <1>6, <1>7, <1>8 DEF PartType
<1> QED  BY <1>1, <1>2, <1>3, <1>4, <1>5, <1>7, <1>9

\* The parts after the merge.
LEMMA PartsMerged ==
  ASSUME PartsOK, Len(parts) > 1, parts' = Append(SubSeq(parts, 1, Tail2 - 1), Merged)
  PROVE  /\ parts' \in Seq(PartType) /\ Len(parts') = Tail2
         /\ \A i \in 1..(Tail2 - 1) : parts'[i] = parts[i]
         /\ parts'[Tail2] = Merged
<1>1. /\ Tail2 \in 1..(Len(parts) - 1) /\ Merged \in PartType /\ Len(parts) \in Nat
      /\ parts \in Seq(PartType)
  <2>1. parts \in Seq(PartType)  BY DEF PartsOK
  <2>2. Len(parts) \in Nat  BY <2>1
  <2>3. Tail2 \in 1..(Len(parts) - 1) /\ Merged \in PartType  BY MergedType
  <2> QED  BY <2>1, <2>2, <2>3
<1>2. PICK z : z = SubSeq(parts, 1, Tail2 - 1)  OBVIOUS
<1>3. /\ z \in Seq(PartType) /\ Len(z) = Tail2 - 1
      /\ \A i \in 1..(Tail2 - 1) : z[i] = parts[i]
  BY <1>1, <1>2
<1>4. parts' = Append(z, Merged)  BY <1>2
<1> QED  BY <1>1, <1>3, <1>4

LEMMA MergeAccepted_Control ==
  ASSUME Control, MergeAccepted
  PROVE  Control'
<1>0. Counters /\ Flags /\ PagesOK /\ PartsOK /\ Marks /\ Stages /\ Reading  BY DEF Control
<1>1. /\ doing = "merge" /\ Len(parts) > 1
      /\ pages' = [pages EXCEPT ![Merged.page] = Body(Merged.secs)]
      /\ parts' = Append(SubSeq(parts, 1, Tail2 - 1), Merged)
      /\ posted' = 0
      /\ UNCHANGED <<kind, limit, related, todo, dropped, at, outlined, round, missed, read,
                     visited, result, doing, troubles>>
  BY Zenon DEF MergeAccepted, Merging, MergeRests
<1>2. /\ Tail2 \in 1..(Len(parts) - 1) /\ Merged.page = parts[Tail2].page
      /\ Merged.page \in 1..Len(pages) /\ Merged.secs \in Sections
  BY <1>0, <1>1, MergedType
<1>3. Body(Merged.secs) \in PageType /\ LinksIn(Body(Merged.secs), Len(pages))
  BY <1>2, BodyType DEF LinksIn
<1>4. PagesOK' /\ Len(pages') = Len(pages)  BY <1>0, <1>1, <1>2, <1>3, PagesWrite
<1>5. PartsOK'
  <2>1. /\ parts' \in Seq(PartType) /\ Len(parts') = Tail2
        /\ \A i \in 1..(Tail2 - 1) : parts'[i] = parts[i]
        /\ parts'[Tail2] = Merged
    BY <1>0, <1>1, PartsMerged
  <2>2. \A i \in 1..Tail2 : parts'[i].page = parts[i].page
    <3>1. \A i \in 1..Tail2 : i \in 1..(Tail2 - 1) \/ i = Tail2  BY <1>2
    <3> QED  BY <1>2, <2>1, <3>1
  <2>3. /\ DOMAIN parts' = 1..Tail2 /\ \A i \in 1..Tail2 : i \in DOMAIN parts
    <3>1. DOMAIN parts = 1..Len(parts) /\ Len(parts) \in Nat  BY <1>0 DEF PartsOK
    <3> QED  BY <1>2, <2>1, <3>1
  <2>4. \A i \in DOMAIN parts' : parts'[i].page \in 1..Len(pages')
    BY <1>0, <1>4, <2>2, <2>3 DEF PartsOK
  <2>5. \A i, j \in DOMAIN parts' : parts'[i].page = parts'[j].page => i = j
    BY <1>0, <2>2, <2>3 DEF PartsOK
  <2>6. todo' \in Seq(Sections) /\ \A i \in DOMAIN todo' : todo'[i] # <<>>
    BY <1>0, <1>1 DEF PartsOK
  <2> QED  BY <2>1, <2>4, <2>5, <2>6, Zenon DEF PartsOK
<1>6. Counters' /\ Flags'  BY <1>0, <1>1, Numbers DEF Counters, Flags
<1>7. Marks'
  <2>1. missed' = {}  BY <1>0, <1>1 DEF Stages
  <2> QED  BY <1>0, <1>1, <1>4, <2>1 DEF Marks
<1>8. Stages'
  <2>1. parts' # <<>>  BY <1>0, <1>1, <1>2, PartsMerged
  <2> QED  BY <1>0, <1>1, <2>1 DEF Stages
<1>9. Reading'  BY <1>0, <1>1, NotReading DEF Reading
<1> QED  BY <1>4, <1>5, <1>6, <1>7, <1>8, <1>9 DEF Control

\* The merging ends, or the request is sent again.
LEMMA Merge_Control ==
  ASSUME Control, doing = "merge", MergeRests, UNCHANGED parts,
         PagesOK', Len(pages') = Len(pages), troubles' \in 0..MaxTroubles,
         posted' \in 0..Posts, doing' \in {"merge", "edit"}
  PROVE  Control'
<1>0. Counters /\ Flags /\ PagesOK /\ PartsOK /\ Marks /\ Stages /\ Reading  BY DEF Control
<1>1. UNCHANGED <<kind, limit, related, todo, dropped, at, outlined, round, missed, read, visited,
                  result>>
  BY Zenon DEF MergeRests
<1>2. PartsOK' /\ Marks'  BY <1>0, <1>1 DEF PartsOK, Marks
<1>3. Counters' /\ Flags'  BY <1>0, <1>1 DEF Counters, Flags
<1>4. Stages'
  <2>1. parts # <<>> /\ at = 1 /\ result = 0 /\ missed = {} /\ kind = "synopsis"
    BY <1>0 DEF Stages
  <2>2. 1 \in DOMAIN parts  BY <1>0, <2>1 DEF PartsOK
  <2> QED  BY <1>1, <2>1, <2>2 DEF Stages
<1>5. Reading'  BY <1>0, <1>1, NotReading DEF Reading
<1> QED  BY <1>2, <1>3, <1>4, <1>5 DEF Control

LEMMA MergeFails_Control ==
  ASSUME Control, MergeFails
  PROVE  Control'
<1>0. Counters /\ PagesOK /\ PartsOK  BY DEF Control
<1>1. doing = "merge" /\ Len(parts) > 1 /\ MergeRests /\ UNCHANGED parts
  BY Zenon DEF MergeFails, Merging
<1>a. PICK again \in BOOLEAN, c \in BOOLEAN :
        /\ Fails(Body(Merged.secs), again, c)
        /\ WrittenAnyway(Merged.page, Body(Merged.secs), c)
        /\ IF Repeats(again) THEN posted' = posted + 1 /\ UNCHANGED doing
           ELSE posted' = 0 /\ doing' = "edit"
  BY Zenon DEF MergeFails
<1>2. Merged.page \in 1..Len(pages) /\ Merged.secs \in Sections  BY <1>0, <1>1, MergedType
<1>3. Body(Merged.secs) \in PageType /\ LinksIn(Body(Merged.secs), Len(pages))
  BY <1>2, BodyType DEF LinksIn
<1>4. PagesOK' /\ Len(pages') = Len(pages)  BY <1>0, <1>2, <1>3, <1>a, PagesWritten
<1>5. posted' \in 0..Posts /\ doing' \in {"merge", "edit"}
  <2>1. CASE Repeats(again)
    <3>1. posted' = posted + 1 /\ doing' = "merge"  BY <1>1, <1>a, <2>1, Zenon
    <3> QED  BY <1>0, <2>1, <3>1, Repeats_Counts
  <2>2. CASE ~Repeats(again)
    <3>1. posted' = 0 /\ doing' = "edit"  BY <1>a, <2>2, Zenon
    <3> QED  BY <3>1, Numbers
  <2> QED  BY <2>1, <2>2
<1>6. troubles' \in 0..MaxTroubles  BY <1>0, <1>a, Fails_Counts
<1> QED  BY <1>1, <1>4, <1>5, <1>6, Merge_Control

LEMMA MergeEnds_Control ==
  ASSUME Control, MergeEnds
  PROVE  Control'
<1>1. /\ doing = "merge" /\ MergeRests /\ UNCHANGED <<parts, pages, troubles>>
      /\ doing' = "edit" /\ posted' = 0
  BY Zenon DEF MergeEnds
<1>2. PagesOK' /\ Len(pages') = Len(pages) /\ troubles' \in 0..MaxTroubles
  BY <1>1 DEF Control, PagesOK, LinksIn, Counters
<1> QED  BY <1>1, <1>2, Numbers, Merge_Control

-----------------------------------------------------------------------------
(* Control: editing the parts.                                             *)

\* The edit of a part goes on.
Stays == UNCHANGED <<at, doing, result, missed>>

\* The next part is edited, or the work is done.
Moves ==
  \/ at < Len(parts) /\ at' = at + 1 /\ UNCHANGED <<doing, result>>
  \/ ~(at < Len(parts)) /\ doing' = "done" /\ at' = 1 /\ result' = parts[1].page

LEMMA NextEdit_Moves ==
  ASSUME NextEdit
  PROVE  Moves /\ outlined' = TRUE /\ posted' = 0 /\ round' = 0
<1>1. CASE at < Len(parts)  BY <1>1, Zenon DEF NextEdit, Moves
<1>2. CASE ~(at < Len(parts))  BY <1>2, Zenon DEF NextEdit, Moves
<1> QED  BY <1>1, <1>2

LEMMA EditAgain_Moves ==
  ASSUME Counters, Flags, NEW tooBig, EditAgain(tooBig)
  PROVE  /\ posted' \in 0..Posts /\ round' \in 0..(Calls - 1) /\ outlined' \in BOOLEAN
         /\ Stays \/ (Moves /\ missed' = missed \cup {at})
<1>1. 0 \in 0..Posts /\ 0 \in 0..(Calls - 1)  BY Numbers
<1>2. CASE kind = "expanded" /\ outlined /\ round + 1 < Calls
  <2>1. round' = round + 1 /\ posted' = 0 /\ UNCHANGED <<at, doing, result, outlined, missed>>
    BY <1>2, Zenon DEF EditAgain
  <2>2. round' \in 0..(Calls - 1)  BY <1>2, <2>1, Numbers DEF Counters
  <2>3. outlined' \in BOOLEAN  BY <2>1, Zenon DEF Flags
  <2> QED  BY <1>1, <2>1, <2>2, <2>3, Zenon DEF Stays
<1>3. CASE /\ ~(kind = "expanded" /\ outlined /\ round + 1 < Calls)
           /\ outlined /\ (tooBig \/ kind = "expanded")
  <2>1. Plain  BY <1>3, Zenon DEF EditAgain
  <2>2. outlined' = FALSE /\ posted' = 0 /\ UNCHANGED <<at, doing, result, round, missed>>
    BY <2>1, Zenon DEF Plain
  <2>3. round' \in 0..(Calls - 1)  BY <2>2, Zenon DEF Counters
  <2> QED  BY <1>1, <2>2, <2>3, Zenon DEF Stays
<1>4. CASE /\ ~(kind = "expanded" /\ outlined /\ round + 1 < Calls)
           /\ ~(outlined /\ (tooBig \/ kind = "expanded"))
  <2>1. missed' = missed \cup {at} /\ NextEdit  BY <1>4, Zenon DEF EditAgain
  <2>2. Moves /\ outlined' = TRUE /\ posted' = 0 /\ round' = 0  BY <2>1, NextEdit_Moves
  <2> QED  BY <1>1, <2>1, <2>2, Zenon
<1> QED  BY <1>2, <1>3, <1>4, Zenon

LEMMA Edit_Control ==
  ASSUME Control, doing = "edit", EditRests,
         PagesOK', Len(pages') = Len(pages), troubles' \in 0..MaxTroubles,
         posted' \in 0..Posts, round' \in 0..(Calls - 1), outlined' \in BOOLEAN,
         Stays \/ (Moves /\ missed' \in {missed, missed \cup {at}})
  PROVE  Control'
<1>0. Counters /\ Flags /\ PagesOK /\ PartsOK /\ Marks /\ Stages /\ Reading  BY DEF Control
<1>1. UNCHANGED <<kind, limit, related, todo, parts, dropped, read, visited>>
  BY Zenon DEF EditRests
<1>2. at \in DOMAIN parts /\ DOMAIN parts = 1..Len(parts) /\ Len(parts) \in Nat
  BY <1>0 DEF Stages, PartsOK
<1>3. PartsOK'  BY <1>0, <1>1 DEF PartsOK
<1>4. /\ missed' \in SUBSET DOMAIN parts /\ result' \in 0..Len(pages')
      /\ \/ doing' = "edit" /\ at' \in DOMAIN parts /\ result' = 0
         \/ doing' = "done"
  <2>1. missed \in SUBSET DOMAIN parts /\ result = 0  BY <1>0 DEF Marks, Stages
  <2>2. Len(pages') \in Nat  BY DEF PagesOK
  <2>3. CASE Stays  BY <1>2, <2>1, <2>2, <2>3 DEF Stays
  <2>4. CASE Moves /\ missed' \in {missed, missed \cup {at}}
    <3>1. missed' \in SUBSET DOMAIN parts  BY <1>2, <2>1, <2>4
    <3>2. CASE at < Len(parts)  BY <1>2, <2>1, <2>2, <2>4, <3>1, <3>2 DEF Moves
    <3>3. CASE ~(at < Len(parts))
      <4>1. parts[1].page \in 1..Len(pages)
        <5>1. 1 \in DOMAIN parts  BY <1>2
        <5> QED  BY <1>0, <5>1 DEF PartsOK
      <4>2. doing' = "done" /\ result' = parts[1].page  BY <2>4, <3>3 DEF Moves
      <4> QED  BY <2>2, <3>1, <4>1, <4>2
    <3> QED  BY <3>2, <3>3
  <2> QED  BY <2>3, <2>4
<1>5. Counters'  BY <1>0, <1>1, <1>4 DEF Counters
<1>6. Flags'  BY Zenon DEF Flags
<1>7. Marks'  BY <1>0, <1>1, <1>4 DEF Marks
<1>8. Stages'  BY <1>1, <1>4 DEF Stages
<1>9. Reading'  BY <1>0, <1>1, NotReading DEF Reading
<1> QED  BY <1>3, <1>5, <1>6, <1>7, <1>8, <1>9 DEF Control

\* What the edit of a part writes.
LEMMA EditPage ==
  ASSUME Control, doing = "edit"
  PROVE  /\ at \in DOMAIN parts /\ parts[at].page \in 1..Len(pages)
         /\ PartNodes(at, outlined) \in PageType
         /\ LinksIn(PartNodes(at, outlined), Len(pages))
         /\ PartNodes(at, outlined).text = PartText(at)
         /\ PartNodes(at, outlined).links = NextPart(at)
<1>1. at \in DOMAIN parts /\ PartsOK  BY DEF Control, Stages
<1> QED  BY <1>1, NodesType DEF PartsOK

LEMMA EditAccepted_Control ==
  ASSUME Control, EditAccepted
  PROVE  Control'
<1>1. /\ doing = "edit" /\ EditRests /\ UNCHANGED <<missed, troubles>> /\ NextEdit
      /\ pages' = [pages EXCEPT ![parts[at].page] = PartNodes(at, outlined)]
  BY Zenon DEF EditAccepted
<1>2. /\ parts[at].page \in 1..Len(pages) /\ PartNodes(at, outlined) \in PageType
      /\ LinksIn(PartNodes(at, outlined), Len(pages)) /\ PagesOK
  BY <1>1, EditPage DEF Control
<1>3. PagesOK' /\ Len(pages') = Len(pages)  BY <1>1, <1>2, PagesWrite
<1>4. Moves /\ outlined' = TRUE /\ posted' = 0 /\ round' = 0  BY <1>1, NextEdit_Moves
<1>5. posted' \in 0..Posts /\ round' \in 0..(Calls - 1) /\ outlined' \in BOOLEAN
  BY <1>4, Numbers
<1>6. troubles' \in 0..MaxTroubles  BY <1>1 DEF Control, Counters
<1>7. missed' \in {missed, missed \cup {at}}  BY <1>1
<1> QED  BY <1>1, <1>3, <1>4, <1>5, <1>6, <1>7, Edit_Control

LEMMA EditTooBig_Control ==
  ASSUME Control, EditTooBig
  PROVE  Control'
<1>1. /\ doing = "edit" /\ EditRests /\ UNCHANGED <<pages, troubles>> /\ EditAgain(TRUE)
  BY Zenon DEF EditTooBig
<1>2. Counters /\ Flags  BY DEF Control
<1>3. PagesOK' /\ Len(pages') = Len(pages) /\ troubles' \in 0..MaxTroubles
  BY <1>1 DEF Control, PagesOK, LinksIn, Counters
<1>4. /\ posted' \in 0..Posts /\ round' \in 0..(Calls - 1) /\ outlined' \in BOOLEAN
      /\ Stays \/ (Moves /\ missed' = missed \cup {at})
  BY <1>1, <1>2, EditAgain_Moves
<1>5. Stays \/ (Moves /\ missed' \in {missed, missed \cup {at}})  BY <1>4
<1> QED  BY <1>1, <1>3, <1>4, <1>5, Edit_Control

\* The request of an edit fails.
EditTry(again) ==
  IF Repeats(again)
  THEN posted' = posted + 1 /\ UNCHANGED <<at, doing, result, outlined, round, missed>>
  ELSE EditAgain(FALSE)

LEMMA EditTry_Moves ==
  ASSUME Counters, Flags, NEW again, EditTry(again)
  PROVE  /\ posted' \in 0..Posts /\ round' \in 0..(Calls - 1) /\ outlined' \in BOOLEAN
         /\ Stays \/ (Moves /\ missed' = missed \cup {at})
<1>1. CASE Repeats(again)
  <2>1. posted' = posted + 1 /\ UNCHANGED <<at, doing, result, outlined, round, missed>>
    BY <1>1, Zenon DEF EditTry
  <2>2. posted' \in 0..Posts  BY <1>1, <2>1, Repeats_Counts
  <2>3. round' \in 0..(Calls - 1) /\ outlined' \in BOOLEAN  BY <2>1, Zenon DEF Counters, Flags
  <2> QED  BY <2>1, <2>2, <2>3, Zenon DEF Stays
<1>2. CASE ~Repeats(again)
  <2>1. EditAgain(FALSE)  BY <1>2, Zenon DEF EditTry
  <2> QED  BY <2>1, EditAgain_Moves
<1> QED  BY <1>1, <1>2

LEMMA EditFails_Control ==
  ASSUME Control, EditFails
  PROVE  Control'
<1>0. Counters /\ Flags /\ PagesOK  BY DEF Control
<1>1. doing = "edit" /\ EditRests  BY Zenon DEF EditFails
<1>a. PICK again \in BOOLEAN, c \in BOOLEAN :
        /\ Fails(PartNodes(at, outlined), again, c)
        /\ WrittenAnyway(parts[at].page, PartNodes(at, outlined), c)
        /\ EditTry(again)
  BY Zenon DEF EditFails, EditTry
<1>2. /\ parts[at].page \in 1..Len(pages) /\ PartNodes(at, outlined) \in PageType
      /\ LinksIn(PartNodes(at, outlined), Len(pages))
  BY <1>1, EditPage
<1>3. PagesOK' /\ Len(pages') = Len(pages)  BY <1>0, <1>2, <1>a, PagesWritten
<1>4. /\ posted' \in 0..Posts /\ round' \in 0..(Calls - 1) /\ outlined' \in BOOLEAN
      /\ Stays \/ (Moves /\ missed' = missed \cup {at})
  BY <1>0, <1>a, EditTry_Moves
<1>5. Stays \/ (Moves /\ missed' \in {missed, missed \cup {at}})  BY <1>4
<1>6. troubles' \in 0..MaxTroubles  BY <1>0, <1>a, Fails_Counts
<1> QED  BY <1>1, <1>3, <1>4, <1>5, <1>6, Edit_Control

-----------------------------------------------------------------------------
(* Control: add_navigation.                                                *)

\* The work on a page goes on.
StaysHere == UNCHANGED <<doing, at, read, visited>>

\* The walk goes to another page, or ends.
Goes ==
  /\ read' = Unread /\ visited' \in SUBSET (1..Len(pages))
  /\ doing' = "done" \/ (doing' = "nav" /\ at' \in 1..Len(pages))

\* Every page shows the same text with the same links.
SameShown ==
  /\ Len(pages') = Len(pages)
  /\ \A i \in 1..Len(pages) : pages'[i].text = pages[i].text /\ pages'[i].links = pages[i].links

LEMMA NavEnds_Goes ==
  ASSUME Marks, Flags, NavEnds
  PROVE  Goes /\ posted' = 0 /\ outlined' \in BOOLEAN
  BY Zenon DEF Marks, Flags, NavEnds, Goes

LEMMA Onward_Goes ==
  ASSUME Marks, Flags, doing = "nav", NEW p, LinksIn(p, Len(pages)), Onward(p)
  PROVE  Goes /\ posted' = 0 /\ outlined' \in BOOLEAN
<1>n. PICK next : next = {p.links[i] : i \in DOMAIN p.links} \ visited  OBVIOUS
<1>1. CASE kind = "compact" \/ next = {}
  <2>1. NavEnds  BY <1>n, <1>1, Zenon DEF Onward
  <2> QED  BY <2>1, NavEnds_Goes
<1>2. CASE ~(kind = "compact" \/ next = {})
  <2>1. /\ at' \in next /\ visited' = visited \cup next
        /\ read' = Unread /\ outlined' = TRUE /\ posted' = 0 /\ UNCHANGED doing
    BY <1>n, <1>2, Zenon DEF Onward
  <2>2. next \subseteq 1..Len(pages)  BY <1>n DEF LinksIn
  <2>3. visited \in SUBSET (1..Len(pages))  BY DEF Marks
  <2>4. doing' = "nav"  BY <2>1
  <2> QED  BY <2>1, <2>2, <2>3, <2>4 DEF Goes
<1> QED  BY <1>1, <1>2

LEMMA Nav_Control ==
  ASSUME Control, doing = "nav", NavRests, PagesOK', SameShown,
         troubles' \in 0..MaxTroubles, posted' \in 0..Posts, outlined' \in BOOLEAN,
         \/ StaysHere \/ Goes
         \/ (read' = pages[at] /\ UNCHANGED <<doing, at, visited>>)
  PROVE  Control'
<1>0. Counters /\ Flags /\ PagesOK /\ PartsOK /\ Marks /\ Stages /\ Reading  BY DEF Control
<1>1. UNCHANGED <<kind, limit, related, todo, parts, dropped, round, missed, result>>
  BY Zenon DEF NavRests
<1>2. at \in 1..Len(pages) /\ visited \in SUBSET (1..Len(pages))  BY <1>0 DEF Stages, Marks
<1>3. /\ visited' \in SUBSET (1..Len(pages))
      /\ doing' = "done" \/ (doing' = "nav" /\ at' \in 1..Len(pages))
  BY <1>2 DEF StaysHere, Goes
<1>4. Len(pages') = Len(pages)  BY DEF SameShown
<1>5. Reading'
  <2>1. CASE StaysHere
    <3>1. read' = read /\ at' = at /\ doing' = doing  BY <2>1 DEF StaysHere
    <3>2. pages'[at].text = pages[at].text /\ pages'[at].links = pages[at].links
      BY <1>2 DEF SameShown
    <3> QED  BY <1>0, <3>1, <3>2, Zenon DEF Reading
  <2>2. CASE Goes  BY <2>2 DEF Goes, Reading
  <2>3. CASE read' = pages[at] /\ UNCHANGED <<doing, at, visited>>
    <3>1. pages[at] \in PageType  BY <1>0, <1>2 DEF PagesOK
    <3>2. pages'[at].text = pages[at].text /\ pages'[at].links = pages[at].links
      BY <1>2 DEF SameShown
    <3> QED  BY <2>3, <3>1, <3>2, Zenon DEF Reading
  <2> QED  BY <2>1, <2>2, <2>3
<1>6. PartsOK'  BY <1>0, <1>1, <1>4 DEF PartsOK
<1>7. Counters'  BY <1>0, <1>1, <1>3 DEF Counters
<1>8. Flags'  BY Zenon DEF Flags
<1>9. Marks'  BY <1>0, <1>1, <1>3, <1>4 DEF Marks
<1>10. Stages'  BY <1>3, <1>4 DEF Stages
<1> QED  BY <1>5, <1>6, <1>7, <1>8, <1>9, <1>10 DEF Control

LEMMA Navigate_Control ==
  ASSUME Control, Navigate
  PROVE  Control'
<1>0. Counters /\ Flags /\ PagesOK /\ PartsOK /\ Marks /\ Stages /\ Reading  BY DEF Control
<1>1. /\ doing = "done" /\ result # 0
      /\ doing' = "nav" /\ at' = result /\ visited' = {result}
      /\ outlined' = TRUE /\ posted' = 0
      /\ UNCHANGED <<kind, limit, related, todo, parts, dropped, round, missed, result, read, pages,
                     troubles>>
  BY Zenon DEF Navigate, NavRests
<1>2. result \in 1..Len(pages)
  <2>1. Len(pages) \in Nat  BY <1>0 DEF PagesOK
  <2> QED  BY <1>0, <1>1, <2>1 DEF Marks
<1>3. PagesOK' /\ PartsOK'  BY <1>0, <1>1 DEF PagesOK, PartsOK, LinksIn
<1>4. Counters' /\ Flags'  BY <1>0, <1>1, Numbers DEF Counters, Flags
<1>5. Marks' /\ Stages'  BY <1>0, <1>1, <1>2 DEF Marks, Stages
<1>6. Reading'  BY <1>0, <1>1, NotReading DEF Reading
<1> QED  BY <1>3, <1>4, <1>5, <1>6 DEF Control

LEMMA NavReads_Goes ==
  ASSUME Control, NavReads
  PROVE  /\ posted' = 0 /\ outlined' \in BOOLEAN
         /\ \/ Goes
            \/ (read' = pages[at] /\ UNCHANGED <<doing, at, visited>>)
<1>0. Flags /\ PagesOK /\ Marks /\ Stages  BY DEF Control
<1>1. doing = "nav"  BY Zenon DEF NavReads
<1>2. LinksIn(pages[at], Len(pages))
  <2>1. at \in 1..Len(pages)  BY <1>0, <1>1 DEF Stages
  <2> QED  BY <1>0, <2>1 DEF PagesOK
<1>3. CASE at # result /\ HasNav(pages[at])
  <2>1. Onward(pages[at])  BY <1>3, Zenon DEF NavReads
  <2> QED  BY <1>0, <1>1, <1>2, <2>1, Onward_Goes
<1>4. CASE ~(at # result /\ HasNav(pages[at]))
  <2>1. read' = pages[at] /\ posted' = 0 /\ UNCHANGED <<doing, at, outlined, visited>>
    BY <1>4, Zenon DEF NavReads
  <2> QED  BY <1>0, <2>1, Zenon DEF Flags
<1> QED  BY <1>3, <1>4

LEMMA NavReads_Control ==
  ASSUME Control, NavReads
  PROVE  Control'
<1>1. doing = "nav" /\ NavRests /\ UNCHANGED <<pages, troubles>>  BY Zenon DEF NavReads
<1>2. PagesOK' /\ SameShown /\ troubles' \in 0..MaxTroubles
  BY <1>1 DEF Control, PagesOK, LinksIn, SameShown, Counters
<1>3. posted' \in 0..Posts /\ outlined' \in BOOLEAN  BY NavReads_Goes, Numbers
<1> QED  BY <1>1, <1>2, <1>3, NavReads_Goes, Nav_Control

LEMMA NavReadFails_Control ==
  ASSUME Control, NavReadFails
  PROVE  Control'
<1>0. Flags /\ Marks /\ Counters  BY DEF Control
<1>1. doing = "nav" /\ NavRests /\ UNCHANGED pages  BY Zenon DEF NavReadFails
<1>2. PagesOK' /\ SameShown  BY <1>1 DEF Control, PagesOK, LinksIn, SameShown
<1>3. troubles' \in 0..MaxTroubles
  <2>1. troubles < MaxTroubles /\ troubles' = troubles + 1  BY Zenon DEF NavReadFails
  <2> QED  BY <1>0, <2>1, Numbers DEF Counters
<1>4. /\ posted' \in 0..Posts /\ outlined' \in BOOLEAN
      /\ StaysHere \/ Goes
  <2>1. CASE posted' = 1 /\ UNCHANGED <<doing, at, outlined, read, visited>>
    <3>1. 1 \in 0..Posts  BY Numbers
    <3>2. outlined' \in BOOLEAN  BY <1>0, <2>1, Zenon DEF Flags
    <3> QED  BY <2>1, <3>1, <3>2, Zenon DEF StaysHere
  <2>2. CASE NavEnds  BY <1>0, <2>2, NavEnds_Goes, Numbers
  <2> QED  BY <2>1, <2>2, Zenon DEF NavReadFails
<1> QED  BY <1>1, <1>2, <1>3, <1>4, Nav_Control

\* What a footer is written on.
LEMMA NavPage ==
  ASSUME Control, doing = "nav", read # Unread
  PROVE  /\ at \in 1..Len(pages) /\ LinksIn(read, Len(pages))
         /\ \A full : /\ Footed(full) \in PageType /\ LinksIn(Footed(full), Len(pages))
                      /\ Footed(full).text = pages[at].text
                      /\ Footed(full).links = pages[at].links
<1>1. at \in 1..Len(pages) /\ PagesOK  BY DEF Control, Stages
<1>2. read \in PageType /\ read.text = pages[at].text /\ read.links = pages[at].links
  BY Zenon DEF Control, Reading
<1>3. LinksIn(pages[at], Len(pages))  BY <1>1 DEF PagesOK
<1>4. LinksIn(read, Len(pages))  BY <1>2, <1>3 DEF LinksIn
<1>5. ASSUME NEW full
      PROVE  /\ Footed(full) \in PageType /\ LinksIn(Footed(full), Len(pages))
             /\ Footed(full).text = pages[at].text /\ Footed(full).links = pages[at].links
  <2>1. /\ Footed(full) \in PageType
        /\ Footed(full).text = read.text /\ Footed(full).links = read.links
    BY <1>2, FootedType
  <2> QED  BY <1>2, <1>3, <2>1 DEF LinksIn
<1> QED  BY <1>1, <1>4, <1>5, Zenon

LEMMA NavAccepted_Control ==
  ASSUME Control, NavAccepted
  PROVE  Control' /\ SameShown
<1>0. Flags /\ Marks /\ PagesOK  BY DEF Control
<1>1. /\ doing = "nav" /\ read # Unread /\ NavRests /\ UNCHANGED troubles /\ Onward(read)
      /\ pages' = [pages EXCEPT ![at] = Footed(outlined)]
  BY Zenon DEF NavAccepted
<1>2. /\ at \in 1..Len(pages) /\ LinksIn(read, Len(pages))
      /\ Footed(outlined) \in PageType /\ LinksIn(Footed(outlined), Len(pages))
      /\ Footed(outlined).text = pages[at].text /\ Footed(outlined).links = pages[at].links
  BY <1>1, NavPage
<1>3. /\ PagesOK' /\ Len(pages') = Len(pages)
      /\ \A i \in 1..Len(pages) : pages'[i] = IF i = at THEN Footed(outlined) ELSE pages[i]
  BY <1>0, <1>1, <1>2, PagesWrite
<1>4. SameShown  BY <1>2, <1>3 DEF SameShown
<1>5. Goes /\ posted' = 0 /\ outlined' \in BOOLEAN  BY <1>0, <1>1, <1>2, Onward_Goes
<1>6. troubles' \in 0..MaxTroubles  BY <1>1 DEF Control, Counters
<1> QED  BY <1>1, <1>3, <1>4, <1>5, <1>6, Numbers, Nav_Control

LEMMA NavRefused_Goes ==
  ASSUME Control, doing = "nav", read # Unread, NavRefused
  PROVE  posted' = 0 /\ outlined' \in BOOLEAN /\ (StaysHere \/ Goes)
<1>0. Flags /\ Marks  BY DEF Control
<1>1. CASE outlined  BY <1>1, Zenon DEF NavRefused, StaysHere
<1>2. CASE ~outlined
  <2>1. Onward(read)  BY <1>2, Zenon DEF NavRefused
  <2>2. LinksIn(read, Len(pages))  BY NavPage
  <2> QED  BY <1>0, <2>1, <2>2, Onward_Goes
<1> QED  BY <1>1, <1>2

LEMMA NavTooBig_Control ==
  ASSUME Control, NavTooBig
  PROVE  Control'
<1>1. /\ doing = "nav" /\ read # Unread /\ NavRests /\ UNCHANGED <<pages, troubles>>
      /\ NavRefused
  BY Zenon DEF NavTooBig
<1>2. PagesOK' /\ SameShown /\ troubles' \in 0..MaxTroubles
  BY <1>1 DEF Control, PagesOK, LinksIn, SameShown, Counters
<1>3. posted' = 0 /\ outlined' \in BOOLEAN /\ (StaysHere \/ Goes)  BY <1>1, NavRefused_Goes
<1> QED  BY <1>1, <1>2, <1>3, Numbers, Nav_Control

LEMMA NavFails_Control ==
  ASSUME Control, NavFails
  PROVE  Control' /\ SameShown
<1>0. Flags /\ Counters /\ PagesOK  BY DEF Control
<1>1. doing = "nav" /\ read # Unread /\ NavRests  BY Zenon DEF NavFails
<1>a. PICK again \in BOOLEAN, c \in BOOLEAN :
        /\ Fails(Footed(outlined), again, c)
        /\ WrittenAnyway(at, Footed(outlined), c)
        /\ IF Repeats(again)
           THEN posted' = posted + 1 /\ UNCHANGED <<doing, at, outlined, read, visited>>
           ELSE NavRefused
  BY Zenon DEF NavFails
<1>2. /\ at \in 1..Len(pages)
      /\ Footed(outlined) \in PageType /\ LinksIn(Footed(outlined), Len(pages))
      /\ Footed(outlined).text = pages[at].text /\ Footed(outlined).links = pages[at].links
  BY <1>1, NavPage
<1>3. /\ PagesOK' /\ Len(pages') = Len(pages)
      /\ \A i \in 1..Len(pages) :
           pages'[i] = pages[i] \/ (i = at /\ pages'[i] = Footed(outlined))
  BY <1>0, <1>2, <1>a, PagesWritten
<1>4. SameShown  BY <1>2, <1>3 DEF SameShown
<1>5. troubles' \in 0..MaxTroubles  BY <1>0, <1>a, Fails_Counts
<1>6. posted' \in 0..Posts /\ outlined' \in BOOLEAN /\ (StaysHere \/ Goes)
  <2>1. CASE Repeats(again)
    <3>1. posted' = posted + 1 /\ UNCHANGED <<doing, at, outlined, read, visited>>
      BY <1>a, <2>1, Zenon
    <3>2. posted' \in 0..Posts  BY <1>0, <2>1, <3>1, Repeats_Counts
    <3>3. outlined' \in BOOLEAN  BY <1>0, <3>1, Zenon DEF Flags
    <3> QED  BY <3>1, <3>2, <3>3, Zenon DEF StaysHere
  <2>2. CASE ~Repeats(again)
    <3>1. NavRefused  BY <1>a, <2>2, Zenon
    <3>2. posted' = 0 /\ outlined' \in BOOLEAN /\ (StaysHere \/ Goes)
      BY <1>1, <3>1, NavRefused_Goes
    <3> QED  BY <3>2, Numbers
  <2> QED  BY <2>1, <2>2
<1> QED  BY <1>1, <1>3, <1>4, <1>5, <1>6, Nav_Control

-----------------------------------------------------------------------------
LEMMA Control_Init ==
  ASSUME PublicationInit
  PROVE  Control
<1>1. /\ kind \in {"synopsis", "expanded", "compact"} /\ limit \in 1..Room
      /\ related \in {0, 2, 3} /\ doing = "create" /\ todo = <<Text>> /\ parts = <<>>
      /\ dropped = {} /\ at = 1 /\ outlined = TRUE /\ posted = 0 /\ round = 0
      /\ missed = {} /\ read = Unread /\ visited = {} /\ result = 0
      /\ pages = <<>> /\ troubles = 0
  BY Zenon DEF PublicationInit
<1>2. Counters /\ Flags  BY <1>1, Numbers DEF Counters, Flags
<1>3. PartsOK
  <2>1. Text \in Sections /\ Text # <<>>  BY WholeType, PublicationAssumption
  <2>2. <<Text>> \in Seq(Sections) /\ \A i \in DOMAIN <<Text>> : <<Text>>[i] # <<>>
    BY <2>1
  <2> QED  BY <1>1, <2>2 DEF PartsOK
<1>4. PagesOK /\ Marks /\ Stages /\ Reading  BY <1>1 DEF PagesOK, Marks, Stages, Reading
<1> QED  BY <1>2, <1>3, <1>4 DEF Control

LEMMA Control_Step ==
  ASSUME Control, PublicationNext
  PROVE  Control'
<1>1. CASE CreateStep
  BY <1>1, Created_Control, Cut_Control, CannotCut_Control, CreateFails_Control,
     TocCreated_Control, TocFails_Control DEF CreateStep
<1>2. CASE EditStep
  BY <1>2, MergeAccepted_Control, MergeFails_Control, MergeEnds_Control, EditAccepted_Control,
     EditTooBig_Control, EditFails_Control DEF EditStep
<1>3. CASE Navigate  BY <1>3, Navigate_Control
<1>4. CASE NavStep
  BY <1>4, NavReads_Control, NavReadFails_Control, NavAccepted_Control, NavTooBig_Control,
     NavFails_Control DEF NavStep
<1> QED  BY <1>1, <1>2, <1>3, <1>4 DEF PublicationNext

LEMMA Control_Stutter ==
  ASSUME Control, UNCHANGED pubVars
  PROVE  Control'
<1>1. UNCHANGED <<kind, limit, related, doing, todo, parts, dropped, at, outlined, posted, round,
                  missed, read, visited, result, pages, troubles>>
  BY DEF pubVars
<1> QED
  BY <1>1 DEF Control, Counters, Flags, PagesOK, PartsOK, Marks, Stages, Reading, LinksIn

\* The control part of the invariant gives the types.
LEMMA Control_Types ==
  ASSUME Control
  PROVE  PublicationTypeOK
<1>0. Counters /\ Flags /\ PagesOK /\ PartsOK /\ Marks /\ Stages /\ Reading  BY DEF Control
<1>1. DOMAIN pages = 1..Len(pages) /\ Len(pages) \in Nat  BY <1>0 DEF PagesOK
<1>2. ASSUME NEW p \in PageType, LinksIn(p, Len(pages)) PROVE IsPage(p)
  <2>1. p.links \in Seq(Nat) /\ \A j \in DOMAIN p.links : p.links[j] \in DOMAIN pages
    BY <1>1, <1>2 DEF PageType, LinksIn
  <2>2. p.links \in Seq(DOMAIN pages)  BY <2>1
  <2> QED  BY <2>2, Zenon DEF PageType, IsPage
<1>3. \A i \in DOMAIN pages : IsPage(pages[i])  BY <1>0, <1>1, <1>2 DEF PagesOK
<1>4. read = Unread \/ IsPage(read)
  <2> SUFFICES ASSUME read # Unread PROVE IsPage(read)  OBVIOUS
  <2>1. doing = "nav"  BY <1>0, Zenon DEF Reading
  <2>2. read \in PageType  BY <1>0, Zenon DEF Reading
  <2>3. LinksIn(read, Len(pages))  BY <2>1, NavPage
  <2> QED  BY <1>2, <2>2, <2>3
<1>5. outlined \in BOOLEAN  BY <1>0, Zenon DEF Flags
<1>6. /\ visited \subseteq DOMAIN pages /\ result \in {0} \cup DOMAIN pages
      /\ dropped \subseteq Paragraphs /\ missed \subseteq DOMAIN parts
  BY <1>0, <1>1 DEF Marks
<1>7. /\ doing = "edit" => at \in DOMAIN parts
      /\ doing = "nav" => at \in DOMAIN pages
  BY <1>0, <1>1 DEF Stages
<1>8. /\ \A i \in DOMAIN parts : parts[i].page \in DOMAIN pages
      /\ \A i, j \in DOMAIN parts : parts[i].page = parts[j].page => i = j
  BY <1>0, <1>1 DEF PartsOK
<1> QED  BY <1>0, <1>3, <1>4, <1>5, <1>6, <1>7, <1>8, Zenon DEF PublicationTypeOK, Counters

\* Every reference resolves: the parts and the links of every page lead to pages
\* that exist, and each part has a page of its own, through every cut, merge,
\* retry and navigation (publish_telegraph and its callers).
THEOREM PublicationTyped == PublicationSpec => []PublicationTypeOK
<1>1. PublicationInit => Control  BY Control_Init
<1>2. Control /\ [PublicationNext]_pubVars => Control'  BY Control_Step, Control_Stutter
<1>3. Control => PublicationTypeOK  BY Control_Types
<1> QED  BY <1>1, <1>2, <1>3, PTL DEF PublicationSpec

-----------------------------------------------------------------------------
(* The text: the parts and the runs that are left account for all of it.   *)

Secs(ps) == [i \in DOMAIN ps |-> ps[i].secs]

TextInv == doing # "failed" => \E W \in Seq(Paragraphs) : Account(W, todo, Secs(parts), dropped)

AllKept == kind # "compact" => dropped = {}

LEMMA SecsType ==
  ASSUME NEW ps \in Seq(PartType)
  PROVE  Secs(ps) \in Seq(Sections) /\ Len(Secs(ps)) = Len(ps)
<1>1. DOMAIN ps = 1..Len(ps) /\ Len(ps) \in Nat /\ \A i \in 1..Len(ps) : ps[i].secs \in Sections
  <2>1. DOMAIN ps = 1..Len(ps) /\ Len(ps) \in Nat /\ \A i \in 1..Len(ps) : ps[i] \in PartType
    OBVIOUS
  <2>2. \A p \in PartType : p.secs \in Sections  BY DEF PartType
  <2> QED  BY <2>1, <2>2
<1> QED  BY <1>1 DEF Secs

LEMMA SecsAppend ==
  ASSUME NEW ps \in Seq(PartType), NEW p \in PartType
  PROVE  Secs(Append(ps, p)) = Append(Secs(ps), p.secs)
<1>1. PICK r : r = Append(ps, p)  OBVIOUS
<1>2. /\ r \in Seq(PartType) /\ Len(r) = Len(ps) + 1 /\ Len(ps) \in Nat
      /\ r[Len(ps) + 1] = p /\ \A i \in 1..Len(ps) : r[i] = ps[i]
  BY <1>1
<1>3. /\ Secs(r) \in Seq(Sections) /\ Len(Secs(r)) = Len(ps) + 1
      /\ Secs(ps) \in Seq(Sections) /\ Len(Secs(ps)) = Len(ps)
  BY <1>2, SecsType
<1>4. /\ \A i \in 1..(Len(ps) + 1) : Secs(r)[i] = r[i].secs
      /\ \A i \in 1..Len(ps) : Secs(ps)[i] = ps[i].secs
  BY <1>2 DEF Secs
<1>5. p.secs \in Sections  BY DEF PartType
<1>6. PICK t : t = Append(Secs(ps), p.secs)  OBVIOUS
<1>7. /\ t \in Seq(Sections) /\ Len(t) = Len(ps) + 1 /\ t[Len(ps) + 1] = p.secs
      /\ \A i \in 1..Len(ps) : t[i] = Secs(ps)[i]
  BY <1>3, <1>5, <1>6
<1>8. \A i \in 1..(Len(ps) + 1) : Secs(r)[i] = t[i]
  <2>1. \A i \in 1..(Len(ps) + 1) : i \in 1..Len(ps) \/ i = Len(ps) + 1  BY <1>2
  <2> QED  BY <1>2, <1>4, <1>7, <2>1
<1>9. Secs(r) = t  BY <1>3, <1>7, <1>8, SeqEqual
<1> QED  BY <1>1, <1>6, <1>9

\* What the control part says of the runs.
LEMMA RunsTyped ==
  ASSUME Control
  PROVE  /\ todo \in Seq(Sections) /\ parts \in Seq(PartType)
         /\ Secs(parts) \in Seq(Sections)
  BY SecsType DEF Control, PartsOK

LEMMA Created_Text ==
  ASSUME Control, TextInv, AllKept, Created
  PROVE  TextInv' /\ AllKept'
<1>1. /\ doing = "create" /\ todo # <<>> /\ todo' = Tail(todo) /\ UNCHANGED <<kind, dropped>>
      /\ parts' = Append(parts, [secs |-> Head(todo), page |-> Len(pages) + 1])
  BY Zenon DEF Created, Creating, NextRun
<1>2. todo \in Seq(Sections) /\ parts \in Seq(PartType) /\ Secs(parts) \in Seq(Sections)
  BY RunsTyped
<1>3. PICK W \in Seq(Paragraphs) : Account(W, todo, Secs(parts), dropped)
  BY <1>1 DEF TextInv
<1>4. PICK V \in Seq(Paragraphs) :
        Account(V, Tail(todo), Append(Secs(parts), Head(todo)), dropped)
  <2>1. \E V \in Seq(Paragraphs) :
          Account(V, Tail(todo), Append(Secs(parts), Head(todo)), dropped)
    BY <1>1, <1>2, <1>3, AccountPublish
  <2> QED  BY <2>1
<1>5. Secs(parts') = Append(Secs(parts), Head(todo))
  <2>1. PICK p : p = [secs |-> Head(todo), page |-> Len(pages) + 1]  OBVIOUS
  <2>2. p \in PartType /\ p.secs = Head(todo)
    <3>1. Head(todo) \in Sections  BY <1>1, <1>2, HeadTailProperties
    <3>2. Len(pages) + 1 \in Nat  BY DEF Control, PagesOK
    <3> QED  BY <2>1, <3>1, <3>2 DEF PartType
  <2>3. Secs(Append(parts, p)) = Append(Secs(parts), p.secs)  BY <1>2, <2>2, SecsAppend
  <2> QED  BY <1>1, <2>1, <2>2, <2>3
<1>6. \E X \in Seq(Paragraphs) : Account(X, todo', Secs(parts'), dropped')
  BY <1>1, <1>4, <1>5, Zenon
<1> QED  BY <1>1, <1>6 DEF TextInv, AllKept

LEMMA Cut_Text ==
  ASSUME Control, TextInv, AllKept, Cut
  PROVE  TextInv' /\ AllKept'
<1>1. doing = "create" /\ todo # <<>> /\ UNCHANGED <<kind, parts, dropped>>
  BY Zenon DEF Cut, Creating
<1>c. PICK c \in Cuts(Head(todo)) : todo' = c \o Tail(todo)  BY Zenon DEF Cut
<1>2. todo \in Seq(Sections)  BY RunsTyped
<1>3. PICK W \in Seq(Paragraphs) : Account(W, todo, Secs(parts), dropped)
  BY <1>1 DEF TextInv
<1>4. Head(todo) \in Sections /\ Head(todo) # <<>>
  BY <1>1, RunsLeft DEF Control, PartsOK
<1>5. c \in Seq(Sections) /\ RunsText(c) = FlattenSeq(Head(todo))
  BY <1>c, <1>4, CutsKeepText
<1>6. Account(W, c \o Tail(todo), Secs(parts), dropped)
  BY ONLY <1>1, <1>2, <1>3, <1>5, AccountCut
<1>7. Account(W, todo', Secs(parts)', dropped')  BY <1>c, <1>1, <1>6 DEF Secs
<1> QED  BY <1>1, <1>7 DEF TextInv, AllKept

LEMMA GiveUp_Text ==
  ASSUME Control, TextInv, AllKept, doing = "create", todo # <<>>, GiveUpRun,
         UNCHANGED <<kind, parts>>
  PROVE  TextInv' /\ AllKept'
<1>1. CASE kind = "compact" /\ Head(todo) # Text
  <2>1. /\ dropped' = dropped \cup {FlattenSeq(Head(todo))[i] : i \in DOMAIN FlattenSeq(Head(todo))}
        /\ todo' = Tail(todo)
    BY <1>1, Zenon DEF GiveUpRun, NextRun
  <2>2. todo \in Seq(Sections) /\ Secs(parts) \in Seq(Sections)  BY RunsTyped
  <2>3. PICK W \in Seq(Paragraphs) : Account(W, todo, Secs(parts), dropped)
    BY DEF TextInv
  <2>f. PICK F : F = dropped'  OBVIOUS
  <2>4. \E V \in Seq(Paragraphs) : Account(V, Tail(todo), Secs(parts), F)
    BY <2>1, <2>2, <2>3, <2>f, AccountGiveUp
  <2>5. \E V \in Seq(Paragraphs) : Account(V, todo', Secs(parts'), dropped')
    BY <2>1, <2>4, <2>f, Zenon
  <2> QED  BY <1>1, <2>5 DEF TextInv, AllKept
<1>2. CASE ~(kind = "compact" /\ Head(todo) # Text)
  <2>1. doing' = "failed" /\ dropped' = dropped  BY <1>2, Zenon DEF GiveUpRun
  <2> QED  BY <2>1 DEF TextInv, AllKept
<1> QED  BY <1>1, <1>2

\* A step that leaves the runs alone.
LEMMA Same_Text ==
  ASSUME TextInv, AllKept, doing # "failed", UNCHANGED <<kind, todo, parts, dropped>>
  PROVE  TextInv' /\ AllKept'
  BY DEF TextInv, AllKept, Secs

LEMMA CreateFails_Text ==
  ASSUME Control, TextInv, AllKept, CreateFails
  PROVE  TextInv' /\ AllKept'
<1>1. doing = "create" /\ todo # <<>> /\ UNCHANGED <<kind, parts>>
  BY Zenon DEF CreateFails, Creating
<1>2. (UNCHANGED <<todo, dropped>>) \/ GiveUpRun  BY Zenon DEF CreateFails
<1>3. CASE UNCHANGED <<todo, dropped>>  BY <1>1, <1>3, Same_Text
<1>4. CASE GiveUpRun  BY <1>1, <1>4, GiveUp_Text
<1> QED  BY <1>2, <1>3, <1>4

LEMMA MergeAccepted_Text ==
  ASSUME Control, TextInv, AllKept, MergeAccepted
  PROVE  TextInv' /\ AllKept'
<1>1. /\ doing = "merge" /\ Len(parts) > 1 /\ UNCHANGED <<kind, todo, dropped>>
      /\ parts' = Append(SubSeq(parts, 1, Tail2 - 1), Merged)
  BY Zenon DEF MergeAccepted, Merging, MergeRests
<1>2. PartsOK  BY DEF Control
<1>3. /\ Tail2 \in 1..(Len(parts) - 1) /\ Tail2 + 1 = Len(parts)
      /\ parts[Tail2] \in PartType /\ parts[Tail2 + 1] \in PartType /\ Merged \in PartType
      /\ Merged.secs = parts[Tail2].secs \o parts[Tail2 + 1].secs
  BY <1>1, <1>2, MergedType
<1>4. parts \in Seq(PartType) /\ Len(parts) \in Nat  BY <1>2 DEF PartsOK
<1>5. PICK s, p, q : /\ s = SubSeq(parts, 1, Tail2 - 1)
                     /\ p = parts[Tail2] /\ q = parts[Tail2 + 1]
  OBVIOUS
<1>6. /\ s \in Seq(PartType) /\ Len(s) = Tail2 - 1
      /\ \A i \in 1..(Tail2 - 1) : s[i] = parts[i]
  BY <1>3, <1>4, <1>5
<1>r. PICK r : r = Append(s, p)  OBVIOUS
<1>7. /\ r \in Seq(PartType) /\ Len(r) = Tail2
      /\ \A i \in 1..Tail2 : r[i] = parts[i]
  <2>1. /\ r \in Seq(PartType) /\ Len(r) = Tail2 /\ r[Tail2] = p
        /\ \A i \in 1..(Tail2 - 1) : r[i] = s[i]
    BY <1>3, <1>5, <1>6, <1>r
  <2>2. \A i \in 1..Tail2 : i \in 1..(Tail2 - 1) \/ i = Tail2  BY <1>3
  <2> QED  BY <1>5, <1>6, <2>1, <2>2
<1>8. parts = Append(r, q)
  <2>1. PICK u : u = Append(r, q)  OBVIOUS
  <2>2. /\ u \in Seq(PartType) /\ Len(u) = Tail2 + 1 /\ u[Tail2 + 1] = q
        /\ \A i \in 1..Tail2 : u[i] = r[i]
    BY <1>3, <1>5, <1>7, <2>1
  <2>3. \A i \in 1..Len(parts) : i \in 1..Tail2 \/ i = Tail2 + 1  BY <1>3
  <2>4. \A i \in 1..Len(parts) : u[i] = parts[i]  BY <1>5, <1>7, <2>2, <2>3
  <2> QED  BY <1>3, <1>4, <2>1, <2>2, <2>4, SeqEqual
<1>x. PICK ss, x, y : ss = Secs(s) /\ x = p.secs /\ y = q.secs  OBVIOUS
<1>9. ss \in Seq(Sections) /\ x \in Sections /\ y \in Sections
  BY <1>3, <1>5, <1>6, <1>x, SecsType DEF PartType
<1>10. Secs(parts) = Append(Append(ss, x), y)
  <2>1. Secs(r) = Append(ss, x)  BY <1>3, <1>5, <1>6, <1>r, <1>x, SecsAppend
  <2>2. Secs(Append(r, q)) = Append(Secs(r), y)  BY <1>3, <1>5, <1>7, <1>x, SecsAppend
  <2> QED  BY <1>8, <2>1, <2>2, Zenon
<1>11. Secs(parts') = Append(ss, x \o y)
  <2>1. PICK m : m = Merged  OBVIOUS
  <2>2. m \in PartType /\ m.secs = x \o y  BY <1>3, <1>5, <1>x, <2>1
  <2>3. Secs(Append(s, m)) = Append(ss, m.secs)  BY <1>6, <1>x, <2>2, SecsAppend
  <2> QED  BY <1>1, <1>5, <2>1, <2>2, <2>3, Zenon
<1>12. RunsText(Append(ss, x \o y)) = RunsText(Append(Append(ss, x), y))
  BY <1>9, RunsTextMerge
<1>13. RunsText(Secs(parts')) = RunsText(Secs(parts))  BY <1>10, <1>11, <1>12, Zenon
<1>14. PICK W \in Seq(Paragraphs) : Account(W, todo, Secs(parts), dropped)
  BY <1>1 DEF TextInv
<1>15. Account(W, todo', Secs(parts'), dropped')  BY <1>1, <1>13, <1>14, Zenon DEF Account
<1>16. \E V \in Seq(Paragraphs) : Account(V, todo', Secs(parts'), dropped')
  BY <1>15, Zenon
<1> QED  BY <1>1, <1>16 DEF TextInv, AllKept

LEMMA Text_Init ==
  ASSUME PublicationInit
  PROVE  TextInv /\ AllKept
<1>1. todo = <<Text>> /\ parts = <<>> /\ dropped = {}  BY Zenon DEF PublicationInit
<1>2. Secs(parts) = <<>>  BY <1>1 DEF Secs
<1>3. <<>> \in Seq(Paragraphs)  OBVIOUS
<1>4. \E W \in Seq(Paragraphs) : Account(W, todo, Secs(parts), dropped)
  BY <1>1, <1>2, <1>3, AccountStart, Zenon
<1> QED  BY <1>1, <1>4 DEF TextInv, AllKept

LEMMA Text_Step ==
  ASSUME Control, TextInv, AllKept, PublicationNext
  PROVE  TextInv' /\ AllKept'
<1>1. CASE Created  BY <1>1, Created_Text
<1>2. CASE Cut  BY <1>2, Cut_Text
<1>3. CASE CannotCut
  <2>1. doing = "create" /\ todo # <<>> /\ GiveUpRun /\ UNCHANGED <<kind, parts>>
    BY <1>3, Zenon DEF CannotCut, Creating
  <2> QED  BY <2>1, GiveUp_Text
<1>4. CASE CreateFails  BY <1>4, CreateFails_Text
<1>5. CASE MergeAccepted  BY <1>5, MergeAccepted_Text
<1>6. CASE TocCreated \/ TocFails
  <2>1. doing = "toc" /\ UNCHANGED <<kind, todo, parts, dropped>>
    BY <1>6, Zenon DEF TocCreated, TocFails, TocRests
  <2> QED  BY <2>1, Same_Text
<1>7. CASE MergeFails \/ MergeEnds
  <2>1. doing = "merge" /\ UNCHANGED <<kind, todo, parts, dropped>>
    BY <1>7, Zenon DEF MergeFails, MergeEnds, Merging, MergeRests
  <2> QED  BY <2>1, Same_Text
<1>8. CASE EditAccepted \/ EditTooBig \/ EditFails
  <2>1. doing = "edit" /\ UNCHANGED <<kind, todo, parts, dropped>>
    BY <1>8, Zenon DEF EditAccepted, EditTooBig, EditFails, EditRests
  <2> QED  BY <2>1, Same_Text
<1>9. CASE Navigate \/ NavStep
  <2>1. doing \in {"done", "nav"} /\ UNCHANGED <<kind, todo, parts, dropped>>
    BY <1>9, Zenon
       DEF Navigate, NavStep, NavReads, NavReadFails, NavAccepted, NavTooBig, NavFails, NavRests
  <2>2. doing # "failed"  BY <2>1
  <2> QED  BY <2>1, <2>2, Same_Text
<1> QED
  BY <1>1, <1>2, <1>3, <1>4, <1>5, <1>6, <1>7, <1>8, <1>9, Zenon
     DEF PublicationNext, CreateStep, EditStep

-----------------------------------------------------------------------------
(* The pages: what they show, and where their links lead.                  *)

\* No edit, merge or footer takes a paragraph of a part off its page.
Shown == \A i \in DOMAIN parts : IsPrefix(PartText(i), pages[parts[i].page].text)

\* No page of a part has links before the parts are edited.
AllBare == \A i \in DOMAIN parts : pages[parts[i].page].links = <<>>
Bare == doing \in {"create", "toc", "merge"} => AllBare

\* A compact text is not edited.
EditKind == doing = "edit" => kind # "compact"

PartLinks ==
  kind # "compact" =>
    \A i \in DOMAIN parts :
      /\ pages[parts[i].page].links \in {<<>>, NextPart(i)}
      /\ i \in Edited \ missed =>
           /\ pages[parts[i].page].links = NextPart(i)
           /\ pages[parts[i].page].text = PartText(i)

ContentsLead ==
  kind = "compact" /\ result # 0 =>
    \/ pages[result].links = [i \in DOMAIN parts |-> parts[i].page]
    \/ Len(parts) = 1 /\ result = parts[1].page

Display == Shown /\ Bare /\ EditKind /\ PartLinks /\ ContentsLead

LEMMA Display_Links ==
  ASSUME Control, PartLinks, ContentsLead
  PROVE  LinksReadTheText
<1>1. ASSUME kind # "compact", NEW i \in DOMAIN parts
      PROVE  LET p == pages[parts[i].page]
                 next == IF i = Len(parts) THEN <<>> ELSE <<parts[i + 1].page>>
             IN /\ p.links \in {<<>>, next}
                /\ i \in Edited \ missed => p.links = next /\ p.text = PartText(i)
  <2> DEFINE next == IF i = Len(parts) THEN <<>> ELSE <<parts[i + 1].page>>
  <2>1. next = NextPart(i)
    <3>1. i < Len(parts) <=> ~(i = Len(parts))
      <4>1. parts \in Seq(PartType)  BY DEF Control, PartsOK
      <4> QED  BY <4>1
    <3> QED  BY <3>1, Zenon DEF NextPart
  <2>2. /\ pages[parts[i].page].links \in {<<>>, NextPart(i)}
        /\ i \in Edited \ missed =>
             /\ pages[parts[i].page].links = NextPart(i)
             /\ pages[parts[i].page].text = PartText(i)
    BY <1>1, Zenon DEF PartLinks
  <2> HIDE DEF next
  <2>3. /\ pages[parts[i].page].links \in {<<>>, next}
        /\ i \in Edited \ missed =>
             pages[parts[i].page].links = next /\ pages[parts[i].page].text = PartText(i)
    BY <2>1, <2>2, Zenon
  <2> QED  BY <2>3 DEF next
<1>2. ContentsLead  OBVIOUS
<1> QED  BY <1>1, <1>2, Zenon DEF ContentsLead, LinksReadTheText

\* The pages there were show what they showed.
OldPages ==
  /\ Len(pages) \in Nat /\ Len(pages') \in Nat /\ Len(pages) <= Len(pages')
  /\ \A i \in 1..Len(pages) : pages'[i].text = pages[i].text /\ pages'[i].links = pages[i].links

LEMMA PrefixSelf ==
  ASSUME NEW E, NEW s \in Seq(E)
  PROVE  IsPrefix(s, s)
  BY DEF IsPrefix

LEMMA PrefixConcat ==
  ASSUME NEW E, NEW s \in Seq(E), NEW t \in Seq(E)
  PROVE  IsPrefix(s, s \o t)
<1>1. PICK u : u = s \o t  OBVIOUS
<1>2. /\ u \in Seq(E) /\ Len(u) = Len(s) + Len(t) /\ Len(s) \in Nat /\ Len(t) \in Nat
      /\ \A i \in 1..Len(s) : u[i] = s[i]
  BY <1>1, ConcatElements
<1>3. PICK v, w : v = SubSeq(s, 1, Len(s)) /\ w = SubSeq(u, 1, Len(s))  OBVIOUS
<1>4. v = s  BY <1>3, SubSeqFull
<1>5. w \in Seq(E) /\ Len(w) = Len(s) /\ \A i \in 1..Len(s) : w[i] = u[i]  BY <1>2, <1>3
<1>6. w = s
  <2>1. \A i \in 1..Len(s) : w[i] = s[i]  BY <1>2, <1>5
  <2> QED  BY <1>5, <2>1, SeqEqual
<1>7. Len(s) <= Len(u)  BY <1>2
<1> QED  BY <1>1, <1>3, <1>4, <1>6, <1>7, Zenon DEF IsPrefix

\* The pages of the parts, and the texts of the parts.
LEMMA PartPages ==
  ASSUME Control
  PROVE  /\ parts \in Seq(PartType) /\ DOMAIN parts = 1..Len(parts) /\ Len(parts) \in Nat
         /\ \A i \in DOMAIN parts : /\ parts[i].page \in 1..Len(pages)
                                    /\ PartText(i) \in Seq(Paragraphs)
         /\ \A i, j \in DOMAIN parts : parts[i].page = parts[j].page => i = j
<1>1. /\ parts \in Seq(PartType)
      /\ \A i \in DOMAIN parts : parts[i].page \in 1..Len(pages)
      /\ \A i, j \in DOMAIN parts : parts[i].page = parts[j].page => i = j
  BY DEF Control, PartsOK
<1>2. DOMAIN parts = 1..Len(parts) /\ Len(parts) \in Nat
      /\ \A i \in 1..Len(parts) : parts[i] \in PartType
  BY <1>1
<1>3. \A i \in DOMAIN parts : PartText(i) \in Seq(Paragraphs)
  <2> SUFFICES ASSUME NEW i \in DOMAIN parts PROVE FlattenSeq(parts[i].secs) \in Seq(Paragraphs)
    BY DEF PartText
  <2>1. parts[i].secs \in Seq(Seq(Paragraphs))  BY <1>2 DEF PartType, Sections
  <2> QED  BY <2>1, FlattenType
<1> QED  BY <1>1, <1>2, <1>3

\* The pages of the parts show what they showed.
LEMMA Old_Shown ==
  ASSUME Control, Shown, OldPages, UNCHANGED parts
  PROVE  /\ Shown'
         /\ \A i \in DOMAIN parts :
              /\ pages'[parts[i].page].links = pages[parts[i].page].links
              /\ pages'[parts[i].page].text = pages[parts[i].page].text
<1>1. \A i \in DOMAIN parts :
        /\ pages'[parts[i].page].links = pages[parts[i].page].links
        /\ pages'[parts[i].page].text = pages[parts[i].page].text
  BY PartPages DEF OldPages
<1> QED  BY <1>1, Zenon DEF Shown, PartText

\* Before the parts are edited there is little to show.
LEMMA Bare_Links ==
  ASSUME AllBare', at' = 1,
         doing' \in {"create", "toc", "merge", "edit", "failed"} \/ kind' = "compact"
  PROVE  PartLinks'
<1>1. kind' = "compact" \/ Edited' = {}
  <2>1. CASE doing' = "edit"  BY <2>1 DEF Edited
  <2>2. CASE doing' \in {"create", "toc", "merge", "failed"}  BY <2>2 DEF Edited
  <2> QED  BY <2>1, <2>2
<1>2. \A i \in Edited' \ missed' : kind' = "compact"  BY <1>1
<1> QED  BY <1>2, Zenon DEF PartLinks, AllBare

\* What follows a run keeps what is shown, if the pages of the parts are bare.
LEMMA Follows_Display ==
  ASSUME Counters, Stages, doing = "create", UNCHANGED <<kind, at>>, Follows(parts'),
         parts' \in Seq(PartType), Shown', AllBare'
  PROVE  Display'
<1>1. at' = 1 /\ result = 0  BY DEF Stages
<1>2. PartLinks'
  <2>1. doing' \in {"create", "toc", "merge", "edit", "failed"} \/ kind' = "compact"
    BY DEF Follows
  <2> QED  BY <1>1, <2>1, Bare_Links
<1>3. ContentsLead'
  <2>1. result' = 0 \/ (parts' # <<>> /\ ~(Len(parts') > 1) /\ result' = parts'[1].page)
    BY <1>1 DEF Follows
  <2>2. parts' # <<>> /\ ~(Len(parts') > 1) => Len(parts') = 1
    <3>1. Len(parts') \in Nat /\ (parts' # <<>> => Len(parts') # 0)  OBVIOUS
    <3>2. \A m \in Nat : m # 0 /\ ~(m > 1) => m = 1  OBVIOUS
    <3> QED  BY <3>1, <3>2, Zenon
  <2> QED  BY <2>1, <2>2, Zenon DEF ContentsLead
<1>4. EditKind'  BY DEF Follows, EditKind
<1> QED  BY <1>2, <1>3, <1>4 DEF Display, Bare

LEMMA Created_Display ==
  ASSUME Control, Display, Created
  PROVE  Display'
<1>0. Counters /\ PagesOK /\ PartsOK /\ Stages  BY DEF Control
<1>1. /\ doing = "create" /\ todo # <<>> /\ pages' = Append(pages, Body(Head(todo)))
      /\ parts' = Append(parts, [secs |-> Head(todo), page |-> Len(pages) + 1])
      /\ AfterRuns(parts') /\ UNCHANGED <<kind, at>>
  BY Zenon DEF Created, Creating
<1>2. Head(todo) \in Sections  BY <1>0, <1>1, RunsLeft DEF PartsOK
<1>b. PICK b : b = Body(Head(todo))  OBVIOUS
<1>3. /\ b \in PageType /\ b.text = FlattenSeq(Head(todo)) /\ b.links = <<>>
      /\ LinksIn(b, Len(pages))
  BY <1>2, <1>b, BodyType DEF LinksIn
<1>4. /\ Len(pages) \in Nat /\ \A i \in 1..Len(pages) : pages'[i] = pages[i]
      /\ pages'[Len(pages) + 1] = b
  BY <1>0, <1>1, <1>b, <1>3, PagesGrow
<1>n. PICK n : n = Len(pages) + 1  OBVIOUS
<1>5. /\ parts' \in Seq(PartType) /\ DOMAIN parts' = 1..(Len(parts) + 1) /\ Len(parts) \in Nat
      /\ \A i \in 1..Len(parts) : parts'[i] = parts[i]
      /\ parts'[Len(parts) + 1] = [secs |-> Head(todo), page |-> n]
  <2>1. PICK p : p = [secs |-> Head(todo), page |-> n]  OBVIOUS
  <2>2. p \in PartType  BY <1>2, <1>4, <1>n, <2>1 DEF PartType
  <2>3. parts \in Seq(PartType) /\ Len(parts) \in Nat  BY PartPages
  <2>4. parts' = Append(parts, p)  BY <1>1, <1>n, <2>1
  <2>5. /\ parts' \in Seq(PartType) /\ DOMAIN parts' = 1..(Len(parts) + 1)
        /\ \A i \in 1..Len(parts) : parts'[i] = parts[i]
        /\ parts'[Len(parts) + 1] = p
    BY ONLY <2>2, <2>3, <2>4
  <2> QED  BY <2>1, <2>3, <2>5
<1>6. /\ parts'[Len(parts) + 1].page = n /\ parts'[Len(parts) + 1].secs = Head(todo)
  BY <1>5
<1>7. ASSUME NEW i \in DOMAIN parts'
      PROVE  /\ IsPrefix(FlattenSeq(parts'[i].secs), pages'[parts'[i].page].text)
             /\ pages'[parts'[i].page].links = <<>>
  <2>1. CASE i \in 1..Len(parts)
    <3>1. i \in DOMAIN parts /\ parts'[i] = parts[i]  BY <1>5, <2>1, PartPages
    <3>2. pages'[parts[i].page] = pages[parts[i].page]  BY <1>4, <3>1, PartPages
    <3>3. IsPrefix(PartText(i), pages[parts[i].page].text) /\ pages[parts[i].page].links = <<>>
      BY <1>1, <3>1 DEF Display, Shown, Bare, AllBare
    <3> QED  BY <3>1, <3>2, <3>3, Zenon DEF PartText
  <2>2. CASE i = Len(parts) + 1
    <3>1. FlattenSeq(Head(todo)) \in Seq(Paragraphs)  BY <1>2, FlattenType DEF Sections
    <3>2. IsPrefix(FlattenSeq(Head(todo)), FlattenSeq(Head(todo)))  BY <3>1, PrefixSelf
    <3>3. pages'[n] = b  BY <1>4, <1>n
    <3> QED  BY <1>3, <1>6, <2>2, <3>2, <3>3, Zenon
  <2> QED  BY <1>5, <2>1, <2>2
<1>8. Shown' /\ AllBare'  BY <1>7, Zenon DEF Shown, AllBare, PartText
<1>9. Follows(parts')  BY <1>0, <1>1, AfterRuns_Follows
<1> QED  BY <1>0, <1>1, <1>5, <1>8, <1>9, Follows_Display

LEMMA Cut_Display ==
  ASSUME Control, Display, Cut
  PROVE  Display'
<1>1. UNCHANGED <<kind, doing, parts, at, missed, result, pages>>  BY Zenon DEF Cut
<1> QED
  BY <1>1 DEF Display, Shown, Bare, AllBare, EditKind, PartLinks, ContentsLead, PartText,
              NextPart, Edited

\* A run is given up.
LEMMA GiveUp_Display ==
  ASSUME Control, Display, doing = "create", GiveUpRun, UNCHANGED <<kind, at, parts>>, OldPages
  PROVE  Display'
<1>0. Counters /\ Stages  BY DEF Control
<1>1. Shown' /\ AllBare'
  <2>1. Shown /\ AllBare  BY DEF Display, Bare
  <2>2. /\ Shown' /\ \A i \in DOMAIN parts : pages'[parts[i].page].links = pages[parts[i].page].links
    BY <2>1, Old_Shown
  <2> QED  BY <2>1, <2>2, Zenon DEF AllBare
<1>2. Follows(parts')
  <2>1. CASE kind = "compact" /\ Head(todo) # Text
    <3>1. AfterRuns(parts)  BY <2>1, Zenon DEF GiveUpRun
    <3>2. Follows(parts)  BY <1>0, <3>1, AfterRuns_Follows
    <3> QED  BY <3>2
  <2>2. CASE ~(kind = "compact" /\ Head(todo) # Text)
    <3>1. doing' = "failed" /\ result' = result  BY <2>2, Zenon DEF GiveUpRun
    <3> QED  BY <3>1 DEF Follows
  <2> QED  BY <2>1, <2>2
<1>3. parts' \in Seq(PartType)  BY PartPages
<1> QED  BY <1>0, <1>1, <1>2, <1>3, Follows_Display

\* Before the parts are edited, a step that only adds pages.
LEMMA Bare_Display ==
  ASSUME Control, Display, doing \in {"create", "toc", "merge"}, UNCHANGED <<kind, at, parts>>,
         OldPages, doing' \in {doing, "failed"} \/ (doing = "merge" /\ doing' = "edit"),
         result' = result
  PROVE  Display'
<1>1. Shown /\ AllBare  BY DEF Display, Bare
<1>2. Shown' /\ AllBare'
  <2>1. Shown' /\ \A i \in DOMAIN parts : pages'[parts[i].page].links = pages[parts[i].page].links
    BY <1>1, Old_Shown
  <2> QED  BY <1>1, <2>1, Zenon DEF AllBare
<1>3. at' = 1 /\ result' = 0 /\ (doing = "merge" => kind = "synopsis")
  BY DEF Control, Stages
<1>4. PartLinks'  BY <1>2, <1>3, Bare_Links
<1>5. ContentsLead'  BY <1>3 DEF ContentsLead
<1>6. EditKind'  BY <1>3 DEF EditKind
<1> QED  BY <1>2, <1>4, <1>5, <1>6 DEF Display, Bare

LEMMA CreateFails_Display ==
  ASSUME Control, Display, CreateFails
  PROVE  Display'
<1>0. PagesOK /\ PartsOK  BY DEF Control
<1>1. doing = "create" /\ todo # <<>> /\ UNCHANGED <<kind, parts, at>>
  BY Zenon DEF CreateFails, Creating
<1>a. PICK c \in BOOLEAN : CreatedAnyway(Body(Head(todo)), c)  BY Zenon DEF CreateFails
<1>2. OldPages
  <2>1. Head(todo) \in Sections  BY <1>0, <1>1, RunsLeft DEF PartsOK
  <2>2. Body(Head(todo)) \in PageType /\ LinksIn(Body(Head(todo)), Len(pages))
    BY <2>1, BodyType DEF LinksIn
  <2>3. /\ Len(pages) \in Nat /\ Len(pages') \in Nat /\ Len(pages) <= Len(pages')
        /\ \A i \in 1..Len(pages) : pages'[i] = pages[i]
    BY <1>0, <1>a, <2>2, PagesCreated
  <2> QED  BY <2>3 DEF OldPages
<1>3. (UNCHANGED <<doing, result>>) \/ GiveUpRun  BY Zenon DEF CreateFails
<1>4. CASE UNCHANGED <<doing, result>>  BY <1>1, <1>2, <1>4, Bare_Display
<1>5. CASE GiveUpRun  BY <1>1, <1>2, <1>5, GiveUp_Display
<1> QED  BY <1>3, <1>4, <1>5

LEMMA CannotCut_Display ==
  ASSUME Control, Display, CannotCut
  PROVE  Display'
<1>1. doing = "create" /\ GiveUpRun /\ UNCHANGED <<kind, at, parts, pages>>
  BY Zenon DEF CannotCut, Creating
<1>2. OldPages  BY <1>1 DEF Control, PagesOK, OldPages
<1> QED  BY <1>1, <1>2, GiveUp_Display

LEMMA TocCreated_Display ==
  ASSUME Control, Display, TocCreated
  PROVE  Display'
<1>0. PagesOK /\ PartsOK /\ Stages  BY DEF Control
<1>1. /\ doing = "toc" /\ pages' = Append(pages, Contents) /\ result' = Len(pages')
      /\ doing' = "done" /\ UNCHANGED <<kind, parts, at>>
  BY Zenon DEF TocCreated, TocRests
<1>2. /\ Contents \in PageType /\ LinksIn(Contents, Len(pages))
      /\ Contents.links = [i \in DOMAIN parts |-> parts[i].page]
  BY <1>0, ContentsType
<1>3. /\ Len(pages') = Len(pages) + 1 /\ Len(pages) \in Nat
      /\ \A i \in 1..Len(pages) : pages'[i] = pages[i]
      /\ pages'[Len(pages) + 1] = Contents
  BY <1>0, <1>1, <1>2, PagesGrow
<1>4. OldPages  BY <1>3 DEF OldPages
<1>5. Shown'  BY <1>1, <1>4, Old_Shown DEF Display
<1>6. kind' = "compact"  BY <1>0, <1>1 DEF Stages
<1>7. ContentsLead'
  <2>1. pages'[result'] = Contents  BY <1>1, <1>3
  <2>2. pages'[result'].links = [i \in DOMAIN parts' |-> parts'[i].page]
    BY <1>1, <1>2, <2>1
  <2> QED  BY <2>2, Zenon DEF ContentsLead
<1> QED  BY <1>1, <1>5, <1>6, <1>7 DEF Display, Bare, EditKind, PartLinks

LEMMA TocFails_Display ==
  ASSUME Control, Display, TocFails
  PROVE  Display'
<1>0. PagesOK /\ PartsOK  BY DEF Control
<1>1. doing = "toc" /\ doing' \in {doing, "failed"} /\ UNCHANGED <<kind, parts, at, result>>
  BY Zenon DEF TocFails, TocRests
<1>a. PICK c \in BOOLEAN : CreatedAnyway(Contents, c)  BY Zenon DEF TocFails
<1>2. Contents \in PageType /\ LinksIn(Contents, Len(pages))  BY <1>0, ContentsType
<1>3. OldPages
  <2>1. /\ Len(pages) \in Nat /\ Len(pages') \in Nat /\ Len(pages) <= Len(pages')
        /\ \A i \in 1..Len(pages) : pages'[i] = pages[i]
    BY <1>0, <1>a, <1>2, PagesCreated
  <2> QED  BY <2>1 DEF OldPages
<1> QED  BY <1>1, <1>3, Bare_Display

LEMMA MergeAccepted_Display ==
  ASSUME Control, Display, MergeAccepted
  PROVE  Display'
<1>0. PagesOK /\ PartsOK  BY DEF Control
<1>1. /\ doing = "merge" /\ Len(parts) > 1
      /\ pages' = [pages EXCEPT ![Merged.page] = Body(Merged.secs)]
      /\ parts' = Append(SubSeq(parts, 1, Tail2 - 1), Merged)
      /\ UNCHANGED <<kind, at, doing, result>>
  BY Zenon DEF MergeAccepted, Merging, MergeRests
<1>2. /\ Tail2 \in 1..(Len(parts) - 1) /\ Merged.page = parts[Tail2].page
      /\ Merged.page \in 1..Len(pages) /\ Merged.secs \in Sections
  BY <1>0, <1>1, MergedType
<1>b. PICK b, k : b = Body(Merged.secs) /\ k = Merged.page  OBVIOUS
<1>3. /\ b \in PageType /\ LinksIn(b, Len(pages)) /\ b.links = <<>>
      /\ b.text = FlattenSeq(Merged.secs)
  BY <1>2, <1>b, BodyType DEF LinksIn
<1>4. \A i \in 1..Len(pages) : pages'[i] = IF i = k THEN b ELSE pages[i]
  BY <1>0, <1>1, <1>2, <1>b, <1>3, PagesWrite
<1>5. /\ parts' \in Seq(PartType) /\ Len(parts') = Tail2
      /\ \A i \in 1..(Tail2 - 1) : parts'[i] = parts[i]
      /\ parts'[Tail2] = Merged
  BY <1>0, <1>1, PartsMerged
<1>6. ASSUME NEW i \in DOMAIN parts'
      PROVE  /\ IsPrefix(FlattenSeq(parts'[i].secs), pages'[parts'[i].page].text)
             /\ pages'[parts'[i].page].links = <<>>
  <2>0. i \in 1..Tail2  BY <1>5
  <2>1. CASE i \in 1..(Tail2 - 1)
    <3>1. i \in DOMAIN parts /\ Tail2 \in DOMAIN parts /\ i # Tail2 /\ parts'[i] = parts[i]
      BY <1>2, <1>5, <2>1, PartPages
    <3>2. parts[i].page # k /\ parts[i].page \in 1..Len(pages)
      BY <1>2, <1>b, <3>1, PartPages
    <3>3. pages'[parts[i].page] = pages[parts[i].page]  BY <1>4, <3>2
    <3>4. IsPrefix(PartText(i), pages[parts[i].page].text) /\ pages[parts[i].page].links = <<>>
      BY <1>1, <3>1 DEF Display, Shown, Bare, AllBare
    <3> QED  BY <3>1, <3>3, <3>4, Zenon DEF PartText
  <2>2. CASE i = Tail2
    <3>1. FlattenSeq(Merged.secs) \in Seq(Paragraphs)  BY <1>2, FlattenType DEF Sections
    <3>2. IsPrefix(FlattenSeq(Merged.secs), FlattenSeq(Merged.secs))  BY <3>1, PrefixSelf
    <3>3. pages'[k] = b  BY <1>2, <1>4, <1>b
    <3> QED  BY <1>3, <1>5, <1>b, <2>2, <3>2, <3>3, Zenon
  <2> QED  BY <1>2, <2>0, <2>1, <2>2
<1>7. Shown' /\ AllBare'  BY <1>6, Zenon DEF Shown, AllBare, PartText
<1>8. at' = 1 /\ result' = 0 /\ kind' = "synopsis" /\ doing' = "merge"
  BY <1>1 DEF Control, Stages
<1>9. PartLinks'  BY <1>7, <1>8, Bare_Links
<1> QED  BY <1>7, <1>8, <1>9 DEF Display, Bare, EditKind, ContentsLead

\* A merge that nobody knows was carried out adds the last part to its page.
LEMMA MergeFails_Display ==
  ASSUME Control, Display, MergeFails
  PROVE  Display'
<1>0. PagesOK /\ PartsOK  BY DEF Control
<1>1. /\ doing = "merge" /\ Len(parts) > 1 /\ UNCHANGED <<kind, at, parts, result>>
      /\ doing' \in {"merge", "edit"}
  <2>1. doing = "merge" /\ Len(parts) > 1 /\ UNCHANGED <<kind, at, parts, result>>
    BY Zenon DEF MergeFails, Merging, MergeRests
  <2>2. doing' = doing \/ doing' = "edit"  BY Zenon DEF MergeFails
  <2> QED  BY <2>1, <2>2
<1>b. PICK b, k : b = Body(Merged.secs) /\ k = Merged.page  OBVIOUS
<1>a. PICK c \in BOOLEAN : WrittenAnyway(k, b, c)  BY <1>b, Zenon DEF MergeFails
<1>2. /\ Tail2 \in 1..(Len(parts) - 1) /\ k = parts[Tail2].page /\ k \in 1..Len(pages)
      /\ Merged.secs \in Sections
      /\ Merged.secs = parts[Tail2].secs \o parts[Tail2 + 1].secs
      /\ parts[Tail2] \in PartType /\ parts[Tail2 + 1] \in PartType
  BY <1>0, <1>1, <1>b, MergedType
<1>3. /\ b \in PageType /\ LinksIn(b, Len(pages)) /\ b.links = <<>>
      /\ b.text = FlattenSeq(Merged.secs)
  BY <1>2, <1>b, BodyType DEF LinksIn
<1>4. \A i \in 1..Len(pages) : pages'[i] = pages[i] \/ (i = k /\ pages'[i] = b)
  BY <1>0, <1>2, <1>3, <1>a, PagesWritten
<1>5. IsPrefix(PartText(Tail2), b.text)
  <2>1. PICK x, y : x = parts[Tail2].secs /\ y = parts[Tail2 + 1].secs  OBVIOUS
  <2>2. x \in Sections /\ y \in Sections  BY <1>2, <2>1 DEF PartType
  <2>3. FlattenSeq(x \o y) = FlattenSeq(x) \o FlattenSeq(y)
    BY ONLY <2>2, FlattenConcat DEF Sections
  <2>4. FlattenSeq(x) \in Seq(Paragraphs) /\ FlattenSeq(y) \in Seq(Paragraphs)
    BY <2>2, FlattenType DEF Sections
  <2>5. IsPrefix(FlattenSeq(x), FlattenSeq(x) \o FlattenSeq(y))  BY <2>4, PrefixConcat
  <2> QED  BY <1>2, <1>3, <2>1, <2>3, <2>5, Zenon DEF PartText
<1>6. ASSUME NEW i \in DOMAIN parts
      PROVE  /\ IsPrefix(PartText(i), pages'[parts[i].page].text)
             /\ pages'[parts[i].page].links = <<>>
  <2>1. parts[i].page \in 1..Len(pages)  BY PartPages
  <2>2. CASE pages'[parts[i].page] = pages[parts[i].page]
    <3>1. IsPrefix(PartText(i), pages[parts[i].page].text) /\ pages[parts[i].page].links = <<>>
      BY <1>1 DEF Display, Shown, Bare, AllBare
    <3> QED  BY <2>2, <3>1, Zenon
  <2>3. CASE parts[i].page = k /\ pages'[parts[i].page] = b
    <3>1. i = Tail2  BY <1>2, <2>3, PartPages
    <3> QED  BY <1>3, <1>5, <2>3, <3>1, Zenon
  <2> QED  BY <1>4, <2>1, <2>2, <2>3
<1>7. Shown' /\ AllBare'  BY <1>1, <1>6, Zenon DEF Shown, AllBare, PartText
<1>8. at' = 1 /\ result' = 0 /\ kind' = "synopsis"  BY <1>1 DEF Control, Stages
<1>9. PartLinks'  BY <1>1, <1>7, <1>8, Bare_Links
<1> QED  BY <1>7, <1>8, <1>9 DEF Display, Bare, EditKind, ContentsLead

LEMMA MergeEnds_Display ==
  ASSUME Control, Display, MergeEnds
  PROVE  Display'
<1>1. doing = "merge" /\ doing' = "edit" /\ UNCHANGED <<kind, at, parts, result, pages>>
  BY Zenon DEF MergeEnds, MergeRests
<1>2. OldPages  BY <1>1 DEF Control, PagesOK, OldPages
<1>3. doing \in {"create", "toc", "merge"} /\ (doing = "merge" /\ doing' = "edit")  BY <1>1
<1> QED  BY <1>1, <1>2, <1>3, Bare_Display

\* The parts whose edit has ended, after a move.
LEMMA Moves_Edited ==
  ASSUME Control, doing = "edit", Moves, UNCHANGED parts
  PROVE  Edited' \subseteq Edited \cup {at}
<1>1. at \in 1..Len(parts) /\ DOMAIN parts = 1..Len(parts) /\ Len(parts) \in Nat
  BY PartPages DEF Control, Stages
<1>2. Edited = 1..(at - 1)  BY DEF Edited
<1>3. CASE at < Len(parts)
  <2>1. at' = at + 1 /\ doing' = "edit"  BY <1>3 DEF Moves
  <2>2. Edited' = 1..((at + 1) - 1)  BY <2>1 DEF Edited
  <2> QED  BY <1>1, <1>2, <2>2
<1>4. CASE ~(at < Len(parts))
  <2>1. doing' = "done"  BY <1>4 DEF Moves
  <2>2. Edited' = DOMAIN parts  BY <2>1 DEF Edited
  <2> QED  BY <1>1, <1>2, <1>4, <2>2
<1> QED  BY <1>3, <1>4

\* What an edit writes is the part with the link to the next one.
LEMMA Edit_Display ==
  ASSUME Control, Display, doing = "edit", EditRests,
         \A i \in 1..Len(pages) :
           \/ pages'[i] = pages[i]
           \/ i = parts[at].page /\ pages'[i] = PartNodes(at, outlined),
         \/ Stays
         \/ Moves /\ missed' = missed \cup {at}
         \/ Moves /\ missed' = missed /\ pages'[parts[at].page] = PartNodes(at, outlined)
  PROVE  Display'
<1>1. UNCHANGED <<kind, parts>>  BY Zenon DEF EditRests
<1>2. /\ at \in DOMAIN parts /\ parts[at].page \in 1..Len(pages)
      /\ PartNodes(at, outlined).text = PartText(at)
      /\ PartNodes(at, outlined).links = NextPart(at)
  BY EditPage
<1>n. PICK n : n = PartNodes(at, outlined)  OBVIOUS
<1>3. ASSUME NEW i \in DOMAIN parts
      PROVE  \/ pages'[parts[i].page] = pages[parts[i].page]
             \/ i = at /\ pages'[parts[i].page] = n
  BY <1>2, <1>n, PartPages
<1>4. IsPrefix(PartText(at), n.text) /\ n.text = PartText(at) /\ n.links = NextPart(at)
  <2>1. PartText(at) \in Seq(Paragraphs)  BY <1>2, PartPages
  <2> QED  BY <1>2, <1>n, <2>1, PrefixSelf
<1>5. \A i \in DOMAIN parts : IsPrefix(PartText(i), pages'[parts[i].page].text)
  BY <1>3, <1>4, Zenon DEF Display, Shown
<1>6. Shown'  BY <1>1, <1>5, Zenon DEF Shown, PartText
<1>7. kind # "compact" /\ result = 0  BY DEF Display, EditKind, Control, Stages
<1>8. ASSUME NEW i \in DOMAIN parts
      PROVE  /\ pages'[parts[i].page].links \in {<<>>, NextPart(i)}
             /\ i \in Edited' \ missed' =>
                  /\ pages'[parts[i].page].links = NextPart(i)
                  /\ pages'[parts[i].page].text = PartText(i)
  <2>1. /\ pages[parts[i].page].links \in {<<>>, NextPart(i)}
        /\ i \in Edited \ missed =>
             /\ pages[parts[i].page].links = NextPart(i)
             /\ pages[parts[i].page].text = PartText(i)
    BY <1>7, Zenon DEF Display, PartLinks
  <2>2. CASE i = at /\ pages'[parts[i].page] = n  BY <1>4, <2>2
  <2>3. CASE ~(i = at /\ pages'[parts[i].page] = n)
    <3>1. pages'[parts[i].page] = pages[parts[i].page]  BY <1>3, <2>3
    <3>2. i \in Edited' \ missed' => i \in Edited \ missed
      <4>1. CASE Stays
        <5>1. Edited' = Edited /\ missed' = missed  BY <1>1, <4>1, Zenon DEF Stays, Edited
        <5> QED  BY <5>1
      <4>2. CASE Moves /\ missed' = missed \cup {at}
        <5>1. Edited' \subseteq Edited \cup {at}  BY <1>1, <4>2, Moves_Edited
        <5> QED  BY <4>2, <5>1
      <4>3. CASE Moves /\ missed' = missed /\ pages'[parts[at].page] = PartNodes(at, outlined)
        <5>1. Edited' \subseteq Edited \cup {at}  BY <1>1, <4>3, Moves_Edited
        <5>2. i # at  BY <1>n, <2>3, <4>3
        <5> QED  BY <4>3, <5>1, <5>2
      <4> QED  BY <4>1, <4>2, <4>3
    <3> QED  BY <2>1, <3>1, <3>2, Zenon
  <2> QED  BY <2>2, <2>3
<1>9. PartLinks'
  <2>1. \A i \in DOMAIN parts' : NextPart(i)' = NextPart(i) /\ PartText(i)' = PartText(i)
    BY <1>1, Zenon DEF NextPart, PartText
  <2> QED  BY <1>1, <1>8, <2>1, Zenon DEF PartLinks
<1>10. doing' \in {"edit", "done"}  BY DEF Stays, Moves
<1> QED  BY <1>1, <1>6, <1>7, <1>9, <1>10 DEF Display, Bare, EditKind, ContentsLead

LEMMA EditAccepted_Display ==
  ASSUME Control, Display, EditAccepted
  PROVE  Display'
<1>1. /\ doing = "edit" /\ EditRests /\ missed' = missed /\ NextEdit
      /\ pages' = [pages EXCEPT ![parts[at].page] = PartNodes(at, outlined)]
  BY Zenon DEF EditAccepted
<1>2. /\ parts[at].page \in 1..Len(pages) /\ PartNodes(at, outlined) \in PageType
      /\ LinksIn(PartNodes(at, outlined), Len(pages)) /\ PagesOK
  BY <1>1, EditPage DEF Control
<1>3. \A i \in 1..Len(pages) :
        pages'[i] = IF i = parts[at].page THEN PartNodes(at, outlined) ELSE pages[i]
  BY <1>1, <1>2, PagesWrite
<1>4. /\ \A i \in 1..Len(pages) :
           \/ pages'[i] = pages[i]
           \/ i = parts[at].page /\ pages'[i] = PartNodes(at, outlined)
      /\ pages'[parts[at].page] = PartNodes(at, outlined)
  BY <1>2, <1>3, Zenon
<1>5. Moves  BY <1>1, NextEdit_Moves
<1> QED  BY <1>1, <1>4, <1>5, Edit_Display

LEMMA EditTooBig_Display ==
  ASSUME Control, Display, EditTooBig
  PROVE  Display'
<1>1. doing = "edit" /\ EditRests /\ pages' = pages /\ EditAgain(TRUE)
  BY Zenon DEF EditTooBig
<1>2. Stays \/ (Moves /\ missed' = missed \cup {at})
  BY <1>1, EditAgain_Moves DEF Control
<1>3. \A i \in 1..Len(pages) :
        \/ pages'[i] = pages[i]
        \/ i = parts[at].page /\ pages'[i] = PartNodes(at, outlined)
  BY <1>1
<1> QED  BY <1>1, <1>2, <1>3, Edit_Display

LEMMA EditFails_Display ==
  ASSUME Control, Display, EditFails
  PROVE  Display'
<1>1. doing = "edit" /\ EditRests  BY Zenon DEF EditFails
<1>a. PICK again \in BOOLEAN, c \in BOOLEAN :
        WrittenAnyway(parts[at].page, PartNodes(at, outlined), c) /\ EditTry(again)
  BY Zenon DEF EditFails, EditTry
<1>2. /\ parts[at].page \in 1..Len(pages) /\ PartNodes(at, outlined) \in PageType
      /\ LinksIn(PartNodes(at, outlined), Len(pages)) /\ PagesOK
  BY <1>1, EditPage DEF Control
<1>3. \A i \in 1..Len(pages) :
        \/ pages'[i] = pages[i]
        \/ i = parts[at].page /\ pages'[i] = PartNodes(at, outlined)
  BY <1>2, <1>a, PagesWritten
<1>4. Stays \/ (Moves /\ missed' = missed \cup {at})
  BY <1>a, EditTry_Moves DEF Control
<1> QED  BY <1>1, <1>3, <1>4, Edit_Display

\* add_navigation changes neither text nor links.
LEMMA Nav_Display ==
  ASSUME Control, Display, doing \in {"done", "nav"}, doing' \in {"done", "nav"},
         UNCHANGED <<kind, parts, missed, result>>, SameShown
  PROVE  Display'
<1>1. OldPages  BY DEF Control, PagesOK, SameShown, OldPages
<1>2. /\ Shown'
      /\ \A i \in DOMAIN parts :
           /\ pages'[parts[i].page].links = pages[parts[i].page].links
           /\ pages'[parts[i].page].text = pages[parts[i].page].text
  BY <1>1, Old_Shown DEF Display
<1>3. Edited' = Edited  BY DEF Edited
<1>4. PartLinks'
  <2>1. \A i : NextPart(i)' = NextPart(i) /\ PartText(i)' = PartText(i)
    BY Zenon DEF NextPart, PartText
  <2> QED  BY <1>2, <1>3, <2>1, Zenon DEF Display, PartLinks
<1>5. ContentsLead'
  <2>1. result # 0 => pages'[result].links = pages[result].links
    <3>1. result # 0 => result \in 1..Len(pages)  BY DEF Control, Marks, PagesOK
    <3> QED  BY <3>1 DEF SameShown
  <2>2. [i \in DOMAIN parts' |-> parts'[i].page] = [i \in DOMAIN parts |-> parts[i].page]
    BY Zenon
  <2> QED  BY <2>1, <2>2, Zenon DEF Display, ContentsLead
<1> QED  BY <1>2, <1>4, <1>5 DEF Display, Bare, EditKind

LEMMA Navigation_Display ==
  ASSUME Control, Display, Navigate \/ NavStep
  PROVE  Display'
<1>1. UNCHANGED <<kind, parts, missed, result>>
  BY Zenon DEF Navigate, NavStep, NavReads, NavReadFails, NavAccepted, NavTooBig, NavFails, NavRests
<1>2. doing \in {"done", "nav"}
  BY Zenon DEF Navigate, NavStep, NavReads, NavReadFails, NavAccepted, NavTooBig, NavFails
<1>3. SameShown
  <2>1. CASE pages' = pages  BY <2>1 DEF SameShown
  <2>2. CASE NavAccepted  BY <2>2, NavAccepted_Control
  <2>3. CASE NavFails  BY <2>3, NavFails_Control
  <2> QED  BY <2>1, <2>2, <2>3, Zenon DEF Navigate, NavStep, NavReads, NavReadFails, NavTooBig
<1>4. doing' \in {"done", "nav"}
  <2>1. doing' = doing \/ doing' = "nav" \/ NavEnds
          \/ (doing = "nav" /\ \E p : Onward(p)) \/ NavRefused
    BY Zenon DEF Navigate, NavStep, NavReads, NavReadFails, NavAccepted, NavTooBig, NavFails
  <2>2. NavEnds => doing' = "done"  BY Zenon DEF NavEnds
  <2>3. \A p : Onward(p) => doing' = doing \/ doing' = "done"
    BY <2>2, Zenon DEF Onward
  <2>4. NavRefused => doing' = doing \/ doing' = "done"  BY <2>3, Zenon DEF NavRefused
  <2> QED  BY <1>2, <2>1, <2>2, <2>3, <2>4
<1> QED  BY <1>1, <1>2, <1>3, <1>4, Nav_Display

LEMMA Display_Init ==
  ASSUME PublicationInit
  PROVE  Display
<1>1. parts = <<>> /\ doing = "create" /\ result = 0  BY Zenon DEF PublicationInit
<1> QED  BY <1>1 DEF Display, Shown, Bare, AllBare, EditKind, PartLinks, ContentsLead

LEMMA Display_Step ==
  ASSUME Control, Display, PublicationNext
  PROVE  Display'
<1>1. CASE CreateStep
  BY <1>1, Created_Display, Cut_Display, CannotCut_Display, CreateFails_Display,
     TocCreated_Display, TocFails_Display DEF CreateStep
<1>2. CASE EditStep
  BY <1>2, MergeAccepted_Display, MergeFails_Display, MergeEnds_Display, EditAccepted_Display,
     EditTooBig_Display, EditFails_Display DEF EditStep
<1>3. CASE Navigate \/ NavStep  BY <1>3, Navigation_Display
<1> QED  BY <1>1, <1>2, <1>3 DEF PublicationNext

-----------------------------------------------------------------------------
PublicationInv == Control /\ TextInv /\ AllKept /\ Display

LEMMA PublicationInv_Always == PublicationSpec => []PublicationInv
<1>1. PublicationInit => PublicationInv
  BY Control_Init, Text_Init, Display_Init DEF PublicationInv
<1>2. PublicationInv /\ [PublicationNext]_pubVars => PublicationInv'
  <2> SUFFICES ASSUME PublicationInv, [PublicationNext]_pubVars PROVE PublicationInv'
    OBVIOUS
  <2>1. CASE PublicationNext
    BY <2>1, Control_Step, Text_Step, Display_Step DEF PublicationInv
  <2>2. CASE UNCHANGED pubVars
    <3>1. UNCHANGED <<kind, doing, todo, parts, dropped, at, missed, result, pages>>
      BY <2>2 DEF pubVars
    <3>2. Control'  BY <2>2, Control_Stutter DEF PublicationInv
    <3>3. TextInv' /\ AllKept'  BY <3>1, Zenon DEF PublicationInv, TextInv, AllKept, Secs
    <3>4. Display'
      BY <3>1, Zenon DEF PublicationInv, Display, Shown, Bare, AllBare, EditKind, PartLinks,
         ContentsLead, PartText, NextPart, Edited
    <3> QED  BY <3>2, <3>3, <3>4 DEF PublicationInv
  <2> QED  BY <2>1, <2>2
<1> QED  BY <1>1, <1>2, PTL DEF PublicationSpec

\* The text of the parts and of the runs that are left.
LEMMA TextAddsUp ==
  ASSUME Control, TextInv, doing # "failed"
  PROVE  PartsText \o TodoText = Without(Whole, dropped)
<1>1. todo \in Seq(Sections) /\ Secs(parts) \in Seq(Sections)  BY RunsTyped
<1>2. PICK W \in Seq(Paragraphs) : Account(W, todo, Secs(parts), dropped)  BY DEF TextInv
<1>3. RunsText(Secs(parts)) \o RunsText(todo) = Without(Whole, dropped)
  BY ONLY <1>1, <1>2, AccountAddsUp
<1>4. PartsText = RunsText(Secs(parts))
  <2>1. [i \in DOMAIN Secs(parts) |-> FlattenSeq(Secs(parts)[i])] = [i \in DOMAIN parts |-> PartText(i)]
    BY DEF Secs, PartText
  <2> QED  BY <2>1, Zenon DEF PartsText, RunsText
<1>5. TodoText = RunsText(todo)  BY Zenon DEF TodoText, RunsText
<1> QED  BY <1>3, <1>4, <1>5, Zenon

\* The parts hold the text in its order, without what was reported as left out,
\* and every page shows its part, whatever was cut, merged, answered too late or
\* tried again.
THEOREM NothingLost == PublicationSpec => []NoParagraphLost
<1>1. PublicationInv => NoParagraphLost
  BY TextAddsUp DEF PublicationInv, AllKept, Display, Shown, NoParagraphLost
<1> QED  BY <1>1, PublicationInv_Always, PTL

\* Who follows the links reads the text once and in order: also when a merge or a
\* page went unanswered, and after the footers are added.
THEOREM LinksLead == PublicationSpec => []LinksReadTheText
<1>1. PublicationInv => LinksReadTheText
  BY Display_Links DEF PublicationInv, Display
<1> QED  BY <1>1, PublicationInv_Always, PTL
-----------------------------------------------------------------------------
(* Publishing ends.                                                        *)

\* No run, and no section of it, is empty.
Full(q) == \A i \in DOMAIN q : q[i] # <<>> /\ \A j \in DOMAIN q[i] : q[i][j] # <<>>

LEMMA FullText ==
  ASSUME NEW secs \in Sections, secs # <<>>, \A j \in DOMAIN secs : secs[j] # <<>>
  PROVE  Len(FlattenSeq(secs)) \in Nat \ {0}
<1>1. PICK h, t : h = Head(secs) /\ t = Tail(secs)  OBVIOUS
<1>2. /\ h \in Seq(Paragraphs) /\ h # <<>> /\ t \in Seq(Seq(Paragraphs))
      /\ secs = <<h>> \o t /\ <<h>> \in Seq(Seq(Paragraphs))
  <2>1. Len(secs) \in Nat \ {0} /\ h = secs[1] /\ 1 \in DOMAIN secs  BY <1>1 DEF Sections
  <2>2. h # <<>>  BY <2>1
  <2>3. h \in Seq(Paragraphs) /\ t \in Seq(Seq(Paragraphs))
    BY <1>1, HeadTailProperties DEF Sections
  <2>4. secs = <<h>> \o t  BY <1>1, <2>1 DEF Sections
  <2> QED  BY <2>2, <2>3, <2>4
<1>3. FlattenSeq(<<h>> \o t) = FlattenSeq(<<h>>) \o FlattenSeq(t)
  BY ONLY <1>2, FlattenConcat
<1>4. FlattenSeq(<<h>>) = h  BY ONLY <1>2, FlattenOne
<1>5. PICK r : r = FlattenSeq(t)  OBVIOUS
<1>6. r \in Seq(Paragraphs)  BY <1>2, <1>5, FlattenType
<1>7. FlattenSeq(secs) = h \o r  BY <1>2, <1>3, <1>4, <1>5, Zenon
<1>8. Len(h) \in Nat \ {0} /\ Len(h \o r) = Len(h) + Len(r) /\ Len(r) \in Nat
  BY <1>2, <1>6
<1> QED  BY <1>7, <1>8

\* The other runs, when the first is done.
LEMMA FullTail ==
  ASSUME NEW q \in Seq(Sections), q # <<>>, Full(q)
  PROVE  /\ Head(q) \in Sections /\ Tail(q) \in Seq(Sections) /\ Full(Tail(q))
         /\ Len(q) \in Nat \ {0} /\ Len(Tail(q)) = Len(q) - 1
         /\ Len(FlattenSeq(Head(q))) \in Nat \ {0} /\ Len(RunsText(Tail(q))) \in Nat
         /\ Len(RunsText(q)) = Len(FlattenSeq(Head(q))) + Len(RunsText(Tail(q)))
<1>1. Len(q) \in Nat \ {0} /\ Tail(q) \in Seq(Sections) /\ Len(Tail(q)) = Len(q) - 1
  OBVIOUS
<1>2. 1 \in DOMAIN q /\ Head(q) = q[1] /\ q[1] \in Sections  BY <1>1
<1>3. \A i \in 1..Len(Tail(q)) : i + 1 \in DOMAIN q /\ Tail(q)[i] = q[i + 1]  BY <1>1
<1>4. Full(Tail(q))  BY <1>1, <1>3 DEF Full
<1>5. Len(FlattenSeq(Head(q))) \in Nat \ {0}  BY <1>2, FullText DEF Full
<1>6. PICK a, b : a = FlattenSeq(Head(q)) /\ b = RunsText(Tail(q))  OBVIOUS
<1>7. a \in Seq(Paragraphs) /\ b \in Seq(Paragraphs) /\ RunsText(q) = a \o b
  BY <1>6, RunsTextHead
<1>8. Len(a \o b) = Len(a) + Len(b) /\ Len(b) \in Nat  BY <1>7
<1> QED  BY <1>1, <1>2, <1>4, <1>5, <1>6, <1>7, <1>8

\* There are as many paragraphs as runs, at least.
LEMMA RunsLong ==
  ASSUME NEW q \in Seq(Sections), Full(q)
  PROVE  Len(RunsText(q)) \in Nat /\ Len(q) \in Nat /\ Len(q) <= Len(RunsText(q))
<1> DEFINE Holds(r) == Len(RunsText(r)) \in Nat /\ Len(r) <= Len(RunsText(r))
           S == {n \in Nat : \A r \in Seq(Sections) : Full(r) /\ Len(r) = n => Holds(r)}
<1>1. 0 \in S
  <2> SUFFICES ASSUME NEW r \in Seq(Sections), Len(r) = 0 PROVE Holds(r)  OBVIOUS
  <2>1. r = <<>>  OBVIOUS
  <2>2. RunsText(r) = <<>>  BY <2>1, RunsTextEmpty
  <2> QED  BY <2>2
<1>2. ASSUME NEW n \in Nat, n \in S PROVE n + 1 \in S
  <2> SUFFICES ASSUME NEW r \in Seq(Sections), Full(r), Len(r) = n + 1 PROVE Holds(r)  OBVIOUS
  <2>1. r # <<>>  OBVIOUS
  <2>2. PICK t : t = Tail(r)  OBVIOUS
  <2>3. /\ t \in Seq(Sections) /\ Full(t) /\ Len(t) = n
        /\ Len(FlattenSeq(Head(r))) \in Nat \ {0}
        /\ Len(RunsText(r)) = Len(FlattenSeq(Head(r))) + Len(RunsText(t))
    BY <2>1, <2>2, FullTail
  <2>4. Holds(t)  BY <1>2, <2>3
  <2> QED  BY <2>3, <2>4
<1> HIDE DEF Holds, S
<1>3. Nat \subseteq S  BY <1>1, <1>2, NatInd
<1>4. Len(q) \in Nat  OBVIOUS
<1> QED  BY <1>3, <1>4 DEF S, Holds

\* The pieces of a run that is cut are two, and neither is empty.
LEMMA CutsFull ==
  ASSUME NEW secs \in Sections, secs # <<>>, \A j \in DOMAIN secs : secs[j] # <<>>,
         NEW c \in Cuts(secs)
  PROVE  Full(c) /\ Len(c) = 2
<1>1. Len(secs) \in Nat \ {0} /\ DOMAIN secs = 1..Len(secs)  BY DEF Sections
<1>2. CASE Len(secs) > 1
  <2>1. PICK n \in 1..(Len(secs) - 1) : c = Halves(secs, n)
    <3>1. Len(secs) \div 2 \in 1..(Len(secs) - 1)  BY <1>1, <1>2, HalfOf
    <3>2. PICK n : /\ c = Halves(secs, n)
                   /\ n \in IF kind = "compact" THEN 1..(Len(secs) \div 2) ELSE {Len(secs) \div 2}
      BY <1>2, Zenon DEF Cuts
    <3>3. n \in 1..(Len(secs) - 1)
      <4>1. CASE kind = "compact"  BY <1>1, <3>1, <3>2, <4>1
      <4>2. CASE kind # "compact"  BY <3>1, <3>2, <4>2
      <4> QED  BY <4>1, <4>2
    <3> QED  BY <3>2, <3>3
  <2>2. PICK x, y : x = SubSeq(secs, 1, n) /\ y = SubSeq(secs, n + 1, Len(secs))  OBVIOUS
  <2>3. /\ Len(x) = n /\ DOMAIN x = 1..n /\ \A i \in 1..n : x[i] = secs[i]
        /\ Len(y) = Len(secs) - n /\ DOMAIN y = 1..(Len(secs) - n)
        /\ \A i \in 1..(Len(secs) - n) : y[i] = secs[n + i]
    BY <1>1, <2>1, <2>2 DEF Sections
  <2>4. x # <<>> /\ \A i \in DOMAIN x : x[i] # <<>>  BY <1>1, <2>1, <2>3
  <2>5. y # <<>> /\ \A i \in DOMAIN y : y[i] # <<>>  BY <1>1, <2>1, <2>3
  <2>6. c = <<x, y>>  BY <2>1, <2>2, Zenon DEF Halves
  <2>7. DOMAIN c = {1, 2} /\ c[1] = x /\ c[2] = y /\ Len(c) = 2  BY <2>6
  <2> QED  BY <2>4, <2>5, <2>7 DEF Full
<1>3. CASE ~(Len(secs) > 1)
  <2>1. PICK p, n : p = secs[1] /\ n = Len(p) \div 2  OBVIOUS
  <2>2. p \in Seq(Paragraphs) /\ Len(p) \in Nat
    <3>1. 1 \in DOMAIN secs  BY <1>1
    <3> QED  BY <2>1, <3>1 DEF Sections
  <2>3. Len(p) > LongSection /\ \E h : h = Halves(p, n) /\ c = << <<h[1]>>, <<h[2]>> >>
    BY <1>3, <2>1, Zenon DEF Cuts
  <2>4. n \in 0..Len(p) /\ n # 0 /\ n # Len(p)
    <3>1. LongSection \in Nat \ {0}  BY PublicationAssumption
    <3>2. Len(p) > 1  BY <2>2, <2>3, <3>1
    <3>3. n \in 1..(Len(p) - 1)  BY <2>1, <2>2, <3>2, HalfOf
    <3> QED  BY <2>2, <3>3
  <2>5. PICK a, b : a = SubSeq(p, 1, n) /\ b = SubSeq(p, n + 1, Len(p))  OBVIOUS
  <2>6. a # <<>> /\ b # <<>>
    <3>1. SubSeq(p, 1, n) # <<>> /\ SubSeq(p, n + 1, Len(p)) # <<>>
      BY ONLY <2>2, <2>4, HalvesJoin
    <3> QED  BY <2>5, <3>1
  <2>7. c = << <<a>>, <<b>> >>
    <3>1. PICK h : h = Halves(p, n) /\ c = << <<h[1]>>, <<h[2]>> >>  BY <2>3
    <3>2. h = <<a, b>>  BY <2>5, <3>1, Zenon DEF Halves
    <3>3. h[1] = a /\ h[2] = b  BY <3>2
    <3> QED  BY <3>1, <3>3
  <2>8. DOMAIN c = {1, 2} /\ c[1] = <<a>> /\ c[2] = <<b>> /\ Len(c) = 2  BY <2>7
  <2>9. /\ <<a>> # <<>> /\ <<b>> # <<>>
        /\ DOMAIN <<a>> = {1} /\ <<a>>[1] = a /\ DOMAIN <<b>> = {1} /\ <<b>>[1] = b
    OBVIOUS
  <2> QED  BY <2>6, <2>8, <2>9 DEF Full
<1> QED  BY <1>2, <1>3

\* How much there is to publish: every cut and every run that is done takes
\* from it.
Uncut == 2 * Len(RunsText(todo)) - Len(todo)

LEMMA UncutNat ==
  ASSUME todo \in Seq(Sections), Full(todo)
  PROVE  Uncut \in Nat
  BY RunsLong DEF Uncut

LEMMA NextRunUncut ==
  ASSUME todo \in Seq(Sections), Full(todo), todo # <<>>, todo' = Tail(todo)
  PROVE  Uncut' < Uncut /\ Full(todo)'
<1>1. /\ Full(Tail(todo)) /\ Len(todo) \in Nat \ {0} /\ Len(Tail(todo)) = Len(todo) - 1
      /\ Len(FlattenSeq(Head(todo))) \in Nat \ {0} /\ Len(RunsText(Tail(todo))) \in Nat
      /\ Len(RunsText(todo)) = Len(FlattenSeq(Head(todo))) + Len(RunsText(Tail(todo)))
  BY FullTail
<1>2. Full(todo)'  BY <1>1
<1>3. Uncut' = 2 * Len(RunsText(Tail(todo))) - Len(Tail(todo))  BY DEF Uncut
<1> QED  BY <1>1, <1>2, <1>3 DEF Uncut

LEMMA CutUncut ==
  ASSUME todo \in Seq(Sections), Full(todo), Cut
  PROVE  Uncut' < Uncut /\ Full(todo)'
<1>1. PICK c \in Cuts(Head(todo)) : todo' = c \o Tail(todo)  BY Zenon DEF Cut
<1>2. todo # <<>>  BY Zenon DEF Cut, Creating
<1>3. PICK h, t : h = Head(todo) /\ t = Tail(todo)  OBVIOUS
<1>4. /\ h \in Sections /\ t \in Seq(Sections) /\ Full(t)
      /\ Len(todo) \in Nat \ {0} /\ Len(t) = Len(todo) - 1
      /\ Len(FlattenSeq(h)) \in Nat \ {0} /\ Len(RunsText(t)) \in Nat
      /\ Len(RunsText(todo)) = Len(FlattenSeq(h)) + Len(RunsText(t))
  BY <1>2, <1>3, FullTail
<1>5. h # <<>> /\ \A j \in DOMAIN h : h[j] # <<>>
  <2>1. 1 \in DOMAIN todo /\ h = todo[1]  BY <1>2, <1>3
  <2> QED  BY <2>1 DEF Full
<1>6. c \in Seq(Sections) /\ RunsText(c) = FlattenSeq(h)
  BY <1>1, <1>3, <1>4, <1>5, CutsKeepText
<1>7. Full(c) /\ Len(c) = 2  BY <1>1, <1>3, <1>4, <1>5, CutsFull
<1>8. /\ c \o t \in Seq(Sections) /\ Len(c \o t) = 2 + Len(t) /\ Len(t) \in Nat
      /\ \A i \in 1..2 : (c \o t)[i] = c[i] /\ i \in DOMAIN c
      /\ \A j \in 1..Len(t) : (c \o t)[2 + j] = t[j] /\ j \in DOMAIN t
  <2>0. c \in Seq(Sections) /\ t \in Seq(Sections)  BY <1>4, <1>6
  <2>1. /\ c \o t \in Seq(Sections) /\ Len(c \o t) = Len(c) + Len(t) /\ Len(t) \in Nat
        /\ \A i \in 1..Len(c) : (c \o t)[i] = c[i]
        /\ \A j \in 1..Len(t) : (c \o t)[Len(c) + j] = t[j]
    BY ONLY <2>0, ConcatElements
  <2>2. DOMAIN c = 1..2 /\ DOMAIN t = 1..Len(t)  BY <1>4, <1>6, <1>7
  <2> QED  BY <1>7, <2>1, <2>2
<1>9. Full(c \o t)
  <2> SUFFICES ASSUME NEW i \in 1..(2 + Len(t))
               PROVE  \/ \E k \in DOMAIN c : (c \o t)[i] = c[k]
                      \/ \E k \in DOMAIN t : (c \o t)[i] = t[k]
    <3>1. DOMAIN (c \o t) = 1..(2 + Len(t))  BY <1>8
    <3> QED  BY <1>4, <1>7, <3>1 DEF Full
  <2>1. CASE i \in 1..2  BY <1>8, <2>1
  <2>2. CASE i \notin 1..2
    <3>1. PICK j : j = i - 2  OBVIOUS
    <3>2. j \in 1..Len(t) /\ i = 2 + j  BY <1>8, <2>2, <3>1
    <3> QED  BY <1>8, <3>2
  <2> QED  BY <2>1, <2>2
<1>10. Len(RunsText(c \o t)) = Len(RunsText(todo))
  <2>1. RunsText(c \o t) = RunsText(c) \o RunsText(t)
    BY ONLY <1>4, <1>6, RunsTextConcat DEF Sections
  <2>2. PICK a, b : a = FlattenSeq(h) /\ b = RunsText(t)  OBVIOUS
  <2>3. a \in Seq(Paragraphs) /\ b \in Seq(Paragraphs)
    BY <1>4, <2>2, FlattenType, RunsTextType DEF Sections
  <2>4. Len(a \o b) = Len(a) + Len(b)  BY <2>3
  <2> QED  BY <1>4, <1>6, <2>1, <2>2, <2>4
<1>11. Uncut' = 2 * Len(RunsText(c \o t)) - Len(c \o t)  BY <1>1, <1>3 DEF Uncut
<1>12. Full(todo)'  BY <1>1, <1>3, <1>9
<1>13. Len(RunsText(todo)) \in Nat  BY <1>4
<1> QED  BY <1>4, <1>8, <1>10, <1>11, <1>12, <1>13 DEF Uncut

\* The stages that are left.
PubPhase ==
  CASE doing = "create"                 -> 6
    [] doing = "toc"                    -> 5
    [] doing = "merge"                  -> 4
    [] doing = "edit"                   -> 3
    [] doing = "done" /\ visited = {}   -> 2
    [] doing = "nav"                    -> 1
    [] OTHER                            -> 0

\* In a stage, the runs, parts or pages that are left.
PubAhead ==
  CASE doing = "create" -> Uncut
    [] doing = "merge"  -> Len(parts)
    [] doing = "edit"   -> Len(parts) - at
    [] doing = "nav"    -> Cardinality((1..Len(pages)) \ visited)
    [] OTHER            -> 0

\* For one of them, the forms of the page that are left to be tried.
PubTries ==
  CASE doing = "edit" -> IF outlined THEN Calls - round ELSE 0
    [] doing = "nav"  -> IF read = Unread THEN 2 ELSE IF outlined THEN 1 ELSE 0
    [] OTHER          -> 0

\* And for one form, the requests.
PubRequests == Posts - posted

\* Less of the first of them that changes.
PubLowers ==
  \/ PubPhase' < PubPhase
  \/ PubPhase' = PubPhase /\ PubAhead' < PubAhead
  \/ PubPhase' = PubPhase /\ PubAhead' = PubAhead /\ PubTries' < PubTries
  \/ /\ PubPhase' = PubPhase /\ PubAhead' = PubAhead /\ PubTries' = PubTries
     /\ PubRequests' < PubRequests

\* add_navigation has visited the page where it is.
Visiting == doing = "nav" => visited # {}

EndInv == Control /\ Full(todo) /\ Visiting

LEMMA MeasureNat ==
  ASSUME EndInv
  PROVE  PubPhase \in 0..6 /\ PubAhead \in Nat /\ PubTries \in Nat /\ PubRequests \in Nat
<1>0. Counters /\ Flags /\ PagesOK /\ PartsOK /\ Marks /\ Stages  BY DEF EndInv, Control
<1>1. PubPhase \in 0..6  BY DEF PubPhase
<1>2. Uncut \in Nat  BY <1>0, UncutNat DEF EndInv, PartsOK
<1>3. Len(parts) \in Nat /\ (doing = "edit" => Len(parts) - at \in Nat)
  BY <1>0 DEF PartsOK, Stages
<1>4. Cardinality((1..Len(pages)) \ visited) \in Nat
  <2>1. Len(pages) \in Nat  BY <1>0 DEF PagesOK
  <2>2. IsFiniteSet(1..Len(pages))  BY <2>1, FS_Interval
  <2>3. IsFiniteSet((1..Len(pages)) \ visited)  BY <2>2, FS_Subset
  <2> QED  BY <2>3, FS_CardinalityType
<1>5. PubAhead \in Nat  BY <1>2, <1>3, <1>4 DEF PubAhead
<1>6. PubTries \in Nat  BY <1>0, Numbers DEF PubTries, Counters
<1>7. PubRequests \in Nat  BY <1>0, Numbers DEF PubRequests, Counters
<1> QED  BY <1>1, <1>5, <1>6, <1>7

\* What is left of a run that failed is given up, or the text is.
LEMMA GiveUp_Lowers ==
  ASSUME EndInv, doing = "create", todo # <<>>, GiveUpRun, UNCHANGED <<kind, parts>>
  PROVE  PubLowers /\ Full(todo)' /\ doing' # "nav"
<1>0. Counters /\ PartsOK /\ Full(todo)  BY DEF EndInv, Control
<1>1. CASE kind = "compact" /\ Head(todo) # Text
  <2>1. todo' = Tail(todo) /\ AfterRuns(parts)  BY <1>1, Zenon DEF GiveUpRun, NextRun
  <2>2. Uncut' < Uncut /\ Full(todo)'  BY <1>0, <2>1, NextRunUncut DEF PartsOK
  <2>3. Follows(parts)  BY <1>0, <2>1, AfterRuns_Follows
  <2>4. doing' \in {"create", "failed", "merge", "edit", "toc", "done"}  BY <2>3 DEF Follows
  <2> QED  BY <2>2, <2>4 DEF PubLowers, PubPhase, PubAhead
<1>2. CASE ~(kind = "compact" /\ Head(todo) # Text)
  <2>1. doing' = "failed" /\ todo' = todo  BY <1>2, Zenon DEF GiveUpRun
  <2> QED  BY <1>0, <2>1 DEF PubLowers, PubPhase
<1> QED  BY <1>1, <1>2

LEMMA Create_Lowers ==
  ASSUME EndInv, CreateStep
  PROVE  PubLowers /\ Full(todo)' /\ doing' # "nav"
<1>0. Counters /\ PartsOK /\ Stages /\ Full(todo)  BY DEF EndInv, Control
<1>1. CASE Created
  <2>1. doing = "create" /\ todo # <<>> /\ todo' = Tail(todo) /\ AfterRuns(parts')
    BY <1>1, Zenon DEF Created, Creating, NextRun
  <2>2. Uncut' < Uncut /\ Full(todo)'  BY <1>0, <2>1, NextRunUncut DEF PartsOK
  <2>3. Follows(parts')  BY <1>0, <2>1, AfterRuns_Follows
  <2>4. doing' \in {"create", "failed", "merge", "edit", "toc", "done"}  BY <2>3 DEF Follows
  <2> QED  BY <2>1, <2>2, <2>4 DEF PubLowers, PubPhase, PubAhead
<1>2. CASE Cut
  <2>1. doing = "create" /\ doing' = doing  BY <1>2, Zenon DEF Cut, Creating
  <2>2. Uncut' < Uncut /\ Full(todo)'  BY <1>0, <1>2, CutUncut DEF PartsOK
  <2> QED  BY <2>1, <2>2 DEF PubLowers, PubPhase, PubAhead
<1>3. CASE CannotCut
  <2>1. doing = "create" /\ todo # <<>> /\ GiveUpRun /\ UNCHANGED <<kind, parts>>
    BY <1>3, Zenon DEF CannotCut, Creating
  <2> QED  BY <2>1, GiveUp_Lowers
<1>4. CASE CreateFails
  <2>1. doing = "create" /\ todo # <<>> /\ UNCHANGED <<kind, parts, visited>>
    BY <1>4, Zenon DEF CreateFails, Creating
  <2>2. \/ GiveUpRun
        \/ posted' = posted + 1 /\ UNCHANGED <<todo, doing>>
    BY <1>4, Zenon DEF CreateFails
  <2>3. CASE GiveUpRun  BY <2>1, <2>3, GiveUp_Lowers
  <2>4. CASE posted' = posted + 1 /\ UNCHANGED <<todo, doing>>
    <3>1. PubRequests' < PubRequests  BY <1>0, <2>4, Numbers DEF PubRequests, Counters
    <3>2. Uncut' = Uncut  BY <2>4 DEF Uncut
    <3> QED  BY <1>0, <2>1, <2>4, <3>1, <3>2 DEF PubLowers, PubPhase, PubAhead, PubTries
  <2> QED  BY <2>2, <2>3, <2>4
<1>5. CASE TocCreated
  <2>1. doing = "toc" /\ doing' = "done" /\ todo' = todo
    BY <1>5, Zenon DEF TocCreated, TocRests
  <2> QED  BY <1>0, <2>1 DEF PubLowers, PubPhase
<1>6. CASE TocFails
  <2>1. doing = "toc" /\ todo' = todo
    BY <1>6, Zenon DEF TocFails, TocRests
  <2>2. doing' = "failed" \/ (posted' = posted + 1 /\ doing' = doing)
    BY <1>6, Zenon DEF TocFails
  <2>3. CASE doing' = "failed"  BY <1>0, <2>1, <2>3 DEF PubLowers, PubPhase
  <2>4. CASE posted' = posted + 1 /\ doing' = doing
    <3>1. PubRequests' < PubRequests  BY <1>0, <2>4, Numbers DEF PubRequests, Counters
    <3> QED  BY <1>0, <2>1, <2>4, <3>1 DEF PubLowers, PubPhase, PubAhead, PubTries
  <2> QED  BY <2>2, <2>3, <2>4
<1> QED  BY <1>1, <1>2, <1>3, <1>4, <1>5, <1>6 DEF CreateStep

LEMMA Merge_Lowers ==
  ASSUME EndInv, MergeAccepted \/ MergeFails \/ MergeEnds
  PROVE  PubLowers /\ Full(todo)' /\ doing' # "nav"
<1>0. Counters /\ PartsOK /\ Full(todo)  BY DEF EndInv, Control
<1>1. doing = "merge" /\ todo' = todo
  BY Zenon DEF MergeAccepted, MergeFails, MergeEnds, Merging, MergeRests
<1>2. CASE MergeAccepted
  <2>1. /\ Len(parts) > 1 /\ parts' = Append(SubSeq(parts, 1, Tail2 - 1), Merged)
        /\ doing' = doing
    BY <1>2, Zenon DEF MergeAccepted, Merging
  <2>2. Len(parts') = Tail2 /\ Tail2 \in 1..(Len(parts) - 1) /\ Len(parts) \in Nat
    <3>1. Len(parts) \in Nat  BY <1>0 DEF PartsOK
    <3> QED  BY <1>0, <2>1, <3>1, PartsMerged, MergedType
  <2>3. Len(parts') < Len(parts)  BY <2>2
  <2> QED  BY <1>0, <1>1, <2>1, <2>3 DEF PubLowers, PubPhase, PubAhead
<1>3. CASE MergeFails
  <2>1. UNCHANGED parts  BY <1>3, Zenon DEF MergeFails
  <2>2. doing' = "edit" \/ (posted' = posted + 1 /\ doing' = doing)
    BY <1>3, Zenon DEF MergeFails
  <2>3. CASE doing' = "edit"  BY <1>0, <1>1, <2>3 DEF PubLowers, PubPhase
  <2>4. CASE posted' = posted + 1 /\ doing' = doing
    <3>1. PubRequests' < PubRequests  BY <1>0, <2>4, Numbers DEF PubRequests, Counters
    <3> QED  BY <1>0, <1>1, <2>1, <2>4, <3>1 DEF PubLowers, PubPhase, PubAhead, PubTries
  <2> QED  BY <2>2, <2>3, <2>4
<1>4. CASE MergeEnds
  <2>1. doing' = "edit"  BY <1>4, Zenon DEF MergeEnds
  <2> QED  BY <1>0, <1>1, <2>1 DEF PubLowers, PubPhase
<1> QED  BY <1>2, <1>3, <1>4

\* The next part, or the end of the stage.
LEMMA Moves_Lowers ==
  ASSUME EndInv, doing = "edit", UNCHANGED parts, Moves
  PROVE  PubLowers /\ doing' # "nav"
<1>1. at \in DOMAIN parts /\ Len(parts) \in Nat /\ DOMAIN parts = 1..Len(parts)
  BY DEF EndInv, Control, Stages, PartsOK
<1>2. CASE at < Len(parts)
  <2>1. at' = at + 1 /\ doing' = doing  BY <1>2, Zenon DEF Moves
  <2> QED  BY <1>1, <2>1 DEF PubLowers, PubPhase, PubAhead
<1>3. CASE ~(at < Len(parts))
  <2>1. doing' = "done"  BY <1>3, Zenon DEF Moves
  <2> QED  BY <2>1 DEF PubLowers, PubPhase
<1> QED  BY <1>2, <1>3

LEMMA EditAgain_Lowers ==
  ASSUME EndInv, doing = "edit", UNCHANGED parts, NEW tooBig, EditAgain(tooBig)
  PROVE  PubLowers /\ doing' # "nav"
<1>0. Counters /\ Flags /\ Stages  BY DEF EndInv, Control
<1>1. CASE kind = "expanded" /\ outlined /\ round + 1 < Calls
  <2>1. round' = round + 1 /\ UNCHANGED <<at, doing, outlined>>
    BY <1>1, Zenon DEF EditAgain
  <2>2. PubPhase' = PubPhase /\ PubAhead' = PubAhead  BY <2>1 DEF PubPhase, PubAhead
  <2>3. PubTries = Calls - round /\ PubTries' = Calls - round'
    BY <1>1, <2>1 DEF PubTries
  <2>4. PubTries' < PubTries  BY <1>0, <2>1, <2>3, Numbers DEF Counters
  <2> QED  BY <2>1, <2>2, <2>4 DEF PubLowers
<1>2. CASE /\ ~(kind = "expanded" /\ outlined /\ round + 1 < Calls)
           /\ outlined /\ (tooBig \/ kind = "expanded")
  <2>1. outlined' = FALSE /\ UNCHANGED <<at, doing>>  BY <1>2, Zenon DEF EditAgain, Plain
  <2>2. PubPhase' = PubPhase /\ PubAhead' = PubAhead  BY <2>1 DEF PubPhase, PubAhead
  <2>3. PubTries = Calls - round /\ PubTries' = 0  BY <1>2, <2>1 DEF PubTries
  <2>4. PubTries' < PubTries  BY <1>0, <2>3, Numbers DEF Counters
  <2> QED  BY <2>1, <2>2, <2>4 DEF PubLowers
<1>3. CASE /\ ~(kind = "expanded" /\ outlined /\ round + 1 < Calls)
           /\ ~(outlined /\ (tooBig \/ kind = "expanded"))
  <2>1. NextEdit  BY <1>3, Zenon DEF EditAgain
  <2> QED  BY <2>1, NextEdit_Moves, Moves_Lowers
<1> QED  BY <1>1, <1>2, <1>3, Zenon

LEMMA Edit_Lowers ==
  ASSUME EndInv, EditAccepted \/ EditTooBig \/ EditFails
  PROVE  PubLowers /\ Full(todo)' /\ doing' # "nav"
<1>0. Counters /\ Full(todo)  BY DEF EndInv, Control
<1>1. doing = "edit" /\ UNCHANGED <<todo, parts, visited>>
  BY Zenon DEF EditAccepted, EditTooBig, EditFails, EditRests
<1>2. \/ NextEdit \/ EditAgain(TRUE) \/ EditAgain(FALSE)
      \/ posted' = posted + 1 /\ UNCHANGED <<at, doing, outlined, round>>
  BY Zenon DEF EditAccepted, EditTooBig, EditFails
<1>3. CASE NextEdit  BY <1>0, <1>1, <1>3, NextEdit_Moves, Moves_Lowers
<1>4. CASE EditAgain(TRUE) \/ EditAgain(FALSE)  BY <1>0, <1>1, <1>4, EditAgain_Lowers
<1>5. CASE posted' = posted + 1 /\ UNCHANGED <<at, doing, outlined, round>>
  <2>1. PubRequests' < PubRequests  BY <1>0, <1>5, Numbers DEF PubRequests, Counters
  <2>2. PubTries' = PubTries  BY <1>1, <1>5 DEF PubTries
  <2> QED  BY <1>0, <1>1, <1>5, <2>1, <2>2 DEF PubLowers, PubPhase, PubAhead
<1> QED  BY <1>2, <1>3, <1>4, <1>5

\* A page less to visit.
LEMMA FewerPages ==
  ASSUME NEW n \in Nat, NEW V, NEW W, V \subseteq W, NEW x \in (1..n), x \in W, x \notin V
  PROVE  Cardinality((1..n) \ W) < Cardinality((1..n) \ V)
<1>1. IsFiniteSet(1..n)  BY FS_Interval
<1>2. IsFiniteSet((1..n) \ V)  BY <1>1, FS_Subset
<1>3. (1..n) \ W \subseteq (1..n) \ V /\ (1..n) \ W # (1..n) \ V  OBVIOUS
<1>4. /\ IsFiniteSet((1..n) \ W)
      /\ Cardinality((1..n) \ W) <= Cardinality((1..n) \ V)
      /\ Cardinality((1..n) \ W) # Cardinality((1..n) \ V)
  BY <1>2, <1>3, FS_Subset
<1>5. Cardinality((1..n) \ W) \in Nat /\ Cardinality((1..n) \ V) \in Nat
  BY <1>2, <1>4, FS_CardinalityType
<1> QED  BY <1>4, <1>5

\* The walk goes to a page that it has not visited, or it ends: pages that lead
\* back, as those of an earlier publication may, do not keep it going.
LEMMA Onward_Lowers ==
  ASSUME EndInv, doing = "nav", Len(pages') = Len(pages), NEW p, LinksIn(p, Len(pages)), Onward(p)
  PROVE  PubLowers /\ Visiting'
<1>0. Len(pages) \in Nat /\ visited # {}  BY DEF EndInv, Control, PagesOK, Visiting
<1>n. PICK next : next = {p.links[i] : i \in DOMAIN p.links} \ visited  OBVIOUS
<1>1. CASE NavEnds
  <2>1. doing' = "done" /\ visited' = visited  BY <1>1, Zenon DEF NavEnds
  <2> QED  BY <1>0, <2>1 DEF PubLowers, PubPhase, Visiting
<1>2. CASE ~(kind = "compact" \/ next = {})
  <2>1. at' \in next /\ visited' = visited \cup next /\ UNCHANGED doing
    BY <1>n, <1>2, Zenon DEF Onward
  <2>2. next \subseteq 1..Len(pages)  BY <1>n DEF LinksIn
  <2>3. at' \in 1..Len(pages) /\ at' \notin visited /\ at' \in visited'
    BY <1>n, <2>1, <2>2
  <2>4. PICK x : x = at'  OBVIOUS
  <2>5. Cardinality((1..Len(pages)) \ visited') < Cardinality((1..Len(pages)) \ visited)
    BY <1>0, <2>1, <2>3, <2>4, FewerPages
  <2>6. PubAhead' < PubAhead  BY <2>1, <2>5 DEF PubAhead
  <2> QED  BY <1>0, <2>1, <2>6 DEF PubLowers, PubPhase, Visiting
<1> QED  BY <1>n, <1>1, <1>2, Zenon DEF Onward

LEMMA NavRefused_Lowers ==
  ASSUME EndInv, doing = "nav", read # Unread, Len(pages') = Len(pages), NavRefused
  PROVE  PubLowers /\ Visiting'
<1>1. CASE outlined
  <2>1. outlined' = FALSE /\ UNCHANGED <<doing, at, read, visited>>
    BY <1>1, Zenon DEF NavRefused
  <2>2. PubPhase' = PubPhase /\ PubAhead' = PubAhead  BY <2>1 DEF PubPhase, PubAhead
  <2>3. PubTries = 1 /\ PubTries' = 0  BY <1>1, <2>1 DEF PubTries
  <2> QED  BY <2>1, <2>2, <2>3 DEF PubLowers, EndInv, Visiting
<1>2. CASE ~outlined
  <2>1. Onward(read)  BY <1>2, Zenon DEF NavRefused
  <2>2. LinksIn(read, Len(pages))  BY NavPage DEF EndInv
  <2> QED  BY <2>1, <2>2, Onward_Lowers
<1> QED  BY <1>1, <1>2

LEMMA Nav_Lowers ==
  ASSUME EndInv, NavStep
  PROVE  PubLowers /\ Full(todo)' /\ Visiting'
<1>0. Counters /\ Flags /\ PagesOK /\ Stages /\ Marks /\ Full(todo) /\ Visiting /\ Control
  BY DEF EndInv, Control
<1>1. doing = "nav" /\ todo' = todo
  BY Zenon DEF NavStep, NavReads, NavReadFails, NavAccepted, NavTooBig, NavFails, NavRests
<1>2. Len(pages') = Len(pages)
  <2>1. CASE NavAccepted \/ NavFails
    BY <1>0, <2>1, NavAccepted_Control, NavFails_Control DEF SameShown
  <2>2. CASE NavReads \/ NavReadFails \/ NavTooBig
    BY <2>2, Zenon DEF NavReads, NavReadFails, NavTooBig
  <2> QED  BY <2>1, <2>2 DEF NavStep
<1> SUFFICES PubLowers /\ Visiting'  BY <1>0, <1>1
<1>3. CASE NavReads
  <2>0. at \in 1..Len(pages) /\ pages[at] \in PageType /\ LinksIn(pages[at], Len(pages))
    BY <1>0, <1>1 DEF Stages, PagesOK
  <2>1. CASE at # result /\ HasNav(pages[at])
    <3>1. Onward(pages[at])  BY <1>3, <2>1, Zenon DEF NavReads
    <3> QED  BY <1>1, <1>2, <2>0, <3>1, Onward_Lowers
  <2>2. CASE ~(at # result /\ HasNav(pages[at]))
    <3>1. read = Unread /\ read' = pages[at] /\ UNCHANGED <<doing, at, visited>>
      BY <1>3, <2>2, Zenon DEF NavReads
    <3>2. pages[at] # Unread
      <4>1. DOMAIN pages[at] = {"text", "outline", "links", "foot"}  BY <2>0 DEF PageType
      <4>2. DOMAIN Unread = {}  BY DEF Unread
      <4> QED  BY <4>1, <4>2
    <3>3. PubPhase' = PubPhase /\ PubAhead' = PubAhead
      BY <1>1, <1>2, <3>1 DEF PubPhase, PubAhead
    <3>4. PubTries = 2 /\ PubTries' \in {0, 1}  BY <1>1, <3>1, <3>2 DEF PubTries
    <3> QED  BY <1>0, <3>1, <3>3, <3>4 DEF PubLowers, Visiting
  <2> QED  BY <2>1, <2>2
<1>4. CASE NavReadFails
  <2>1. read = Unread /\ UNCHANGED pages  BY <1>4, Zenon DEF NavReadFails
  <2>2. CASE NavEnds
    <3>1. doing' = "done" /\ visited' = visited  BY <2>2, Zenon DEF NavEnds
    <3> QED  BY <1>0, <1>1, <3>1 DEF PubLowers, PubPhase, Visiting
  <2>3. CASE posted = 0 /\ posted' = 1 /\ UNCHANGED <<doing, at, outlined, read, visited>>
    <3>1. PubRequests' < PubRequests  BY <2>3, Numbers DEF PubRequests
    <3>2. PubPhase' = PubPhase /\ PubAhead' = PubAhead /\ PubTries' = PubTries
      BY <1>1, <1>2, <2>3 DEF PubPhase, PubAhead, PubTries
    <3> QED  BY <1>0, <2>3, <3>1, <3>2 DEF PubLowers, Visiting
  <2> QED  BY <1>4, <2>2, <2>3, Zenon DEF NavReadFails
<1>5. CASE NavAccepted
  <2>1. Onward(read) /\ read # Unread  BY <1>5, Zenon DEF NavAccepted
  <2>2. LinksIn(read, Len(pages))  BY <1>0, <1>1, <2>1, NavPage
  <2> QED  BY <1>1, <1>2, <2>1, <2>2, Onward_Lowers
<1>6. CASE NavTooBig
  <2>1. NavRefused /\ read # Unread  BY <1>6, Zenon DEF NavTooBig
  <2> QED  BY <1>1, <1>2, <2>1, NavRefused_Lowers
<1>7. CASE NavFails
  <2>1. read # Unread  BY <1>7, Zenon DEF NavFails
  <2>2. \/ NavRefused
        \/ posted' = posted + 1 /\ UNCHANGED <<doing, at, outlined, read, visited>>
    BY <1>7, Zenon DEF NavFails
  <2>3. CASE NavRefused  BY <1>1, <1>2, <2>1, <2>3, NavRefused_Lowers
  <2>4. CASE posted' = posted + 1 /\ UNCHANGED <<doing, at, outlined, read, visited>>
    <3>1. PubRequests' < PubRequests  BY <1>0, <2>4, Numbers DEF PubRequests, Counters
    <3>2. PubPhase' = PubPhase /\ PubAhead' = PubAhead /\ PubTries' = PubTries
      BY <1>1, <1>2, <2>4 DEF PubPhase, PubAhead, PubTries
    <3> QED  BY <1>0, <2>4, <3>1, <3>2 DEF PubLowers, Visiting
  <2> QED  BY <2>2, <2>3, <2>4
<1> QED  BY <1>3, <1>4, <1>5, <1>6, <1>7 DEF NavStep

LEMMA Next_Lowers ==
  ASSUME EndInv, PublicationNext
  PROVE  PubLowers /\ EndInv'
<1>0. Control'  BY Control_Step DEF EndInv
<1>1. CASE CreateStep  BY <1>0, <1>1, Create_Lowers DEF EndInv, Visiting
<1>2. CASE EditStep
  BY <1>0, <1>2, Merge_Lowers, Edit_Lowers DEF EditStep, EndInv, Visiting
<1>3. CASE Navigate
  <2>1. doing = "done" /\ visited = {} /\ doing' = "nav" /\ visited' = {result} /\ todo' = todo
    BY <1>3, Zenon DEF Navigate, NavRests
  <2> QED  BY <1>0, <2>1 DEF PubLowers, PubPhase, EndInv, Visiting
<1>4. CASE NavStep  BY <1>0, <1>4, Nav_Lowers DEF EndInv
<1> QED  BY <1>1, <1>2, <1>3, <1>4 DEF PublicationNext

LEMMA EndInv_Init ==
  ASSUME PublicationInit
  PROVE  EndInv
<1>1. todo = <<Text>> /\ doing = "create"  BY Zenon DEF PublicationInit
<1>2. Text # <<>> /\ \A j \in DOMAIN Text : Text[j] # <<>>  BY PublicationAssumption
<1>3. DOMAIN <<Text>> = {1} /\ <<Text>>[1] = Text  OBVIOUS
<1>4. Full(<<Text>>)  BY <1>2, <1>3 DEF Full
<1> QED  BY <1>1, <1>4, Control_Init DEF EndInv, Visiting

\* Every text is published or given up after finitely many requests, whatever its
\* length, the size of a page and the requests that fail: cutting never makes a
\* run that is as long, merging, editing and their repeats are bounded, and the
\* walk of add_navigation visits no page twice.  With each step the first of four
\* natural numbers that changes falls, so that no behaviour goes on for ever.
THEOREM PublishingEnds ==
  PublicationSpec =>
    /\ [][PubLowers]_pubVars
    /\ [](PubPhase \in 0..6 /\ PubAhead \in Nat /\ PubTries \in Nat /\ PubRequests \in Nat)
<1>1. PublicationInit => EndInv  BY EndInv_Init
<1>2. EndInv /\ [PublicationNext]_pubVars => EndInv' /\ [PubLowers]_pubVars
  <2> SUFFICES ASSUME EndInv, [PublicationNext]_pubVars PROVE EndInv' /\ [PubLowers]_pubVars
    OBVIOUS
  <2>1. CASE PublicationNext  BY <2>1, Next_Lowers
  <2>2. CASE UNCHANGED pubVars
    <3>1. UNCHANGED <<todo, doing, visited>>  BY <2>2 DEF pubVars
    <3>2. Control'  BY <2>2, Control_Stutter DEF EndInv
    <3> QED  BY <2>2, <3>1, <3>2 DEF EndInv, Visiting
  <2> QED  BY <2>1, <2>2
<1>3. EndInv => PubPhase \in 0..6 /\ PubAhead \in Nat /\ PubTries \in Nat /\ PubRequests \in Nat
  BY MeasureNat
<1> QED  BY <1>1, <1>2, <1>3, PTL DEF PublicationSpec
=============================================================================
