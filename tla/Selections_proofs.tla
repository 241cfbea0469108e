--------------------------- MODULE Selections_proofs ---------------------------
(***************************************************************************)
(* Facts about selections, for every sequence and every set of elements.   *)
(*                                                                         *)
(* They rest on induction over the length of a sequence.  A set of natural *)
(* numbers that is not empty has a least member (SmallestMember), which    *)
(* gives the least sequence for which a fact would fail (ByAppending).     *)
(***************************************************************************)
EXTENDS Selections, SequencesExt, SequenceTheorems, WellFoundedInduction, TLAPS

(***************************************************************************)
(* Induction.                                                              *)
(***************************************************************************)

\* A set of natural numbers has a least member.
LEMMA SmallestMember ==
    ASSUME NEW T \in SUBSET Nat, T # {}
    PROVE  \E n \in T : \A m \in T : n <= m
  <1>1. PICK n \in T : \A m \in T : <<m, n>> \notin OpToRel(<, Nat)
    BY NatLessThanWellFounded, WFMin
  <1>2. OpToRel(<, Nat) = {ss \in Nat \X Nat : ss[1] < ss[2]}
    BY Zenon DEF OpToRel
  <1>3. \A m \in T : m < n => <<m, n>> \in {ss \in Nat \X Nat : ss[1] < ss[2]}
    OBVIOUS
  <1>4. \A m \in T : ~ (m < n)
    BY <1>1, <1>2, <1>3
  <1> QED
    BY <1>4

\* What holds of the empty sequence, and of a sequence one longer whenever it holds of
\* a sequence, holds of all: G is the set of those it holds of.
LEMMA ByAppending ==
    ASSUME NEW S, NEW G,
           << >> \in G,
           \A s \in Seq(S) : s \in G => \A e \in S : Append(s, e) \in G
    PROVE  Seq(S) \subseteq G
  <1> DEFINE Bad == {n \in Nat : \E s \in Seq(S) : Len(s) = n /\ s \notin G}
  <1> SUFFICES ASSUME Bad # {}
               PROVE  FALSE
    OBVIOUS
  <1>1. PICK n \in Bad : \A m \in Bad : n <= m
    <2> HIDE DEF Bad
    <2>1. Bad \in SUBSET Nat
      BY DEF Bad
    <2> QED
      BY <2>1, SmallestMember
  <1>2. PICK s \in Seq(S) : Len(s) = n /\ s \notin G
    OBVIOUS
  <1>3. PICK t \in Seq(S), e \in S : s = Append(t, e)
    BY <1>2, SequenceEmptyOrAppend
  <1>4. Len(t) \in Nat /\ Len(t) < n
    BY <1>2, <1>3
  <1>5. t \in G
    BY <1>1, <1>4
  <1> QED
    BY <1>2, <1>3, <1>5

(***************************************************************************)
(* Select is what its definition says.                                     *)
(***************************************************************************)

\* F is a sequence of selections from the first elements of s, up to k of them.
Selects(F, S, s, T, k) ==
    /\ F \in [0 .. k -> Seq(S)]
    /\ F[0] = << >>
    /\ \A i \in 1 .. k :
         F[i] = IF s[i] \in T THEN Append(F[i - 1], s[i]) ELSE F[i - 1]

\* There is one, so the recursion of Selected has a solution.
LEMMA SelectionExists ==
    ASSUME NEW S, NEW s \in Seq(S), NEW T, NEW n \in 0 .. Len(s)
    PROVE  \E F : Selects(F, S, s, T, n)
  <1> DEFINE Works(F, k) == Selects(F, S, s, T, k)
             Bad == {k \in 0 .. Len(s) : ~ \E F : Works(F, k)}
  <1>1. Works([i \in 0 .. 0 |-> << >>], 0)
    BY DEF Selects
  <1>2. ASSUME NEW k \in 1 .. Len(s), NEW F, Works(F, k - 1)
        PROVE  \E H : Works(H, k)
    <2> DEFINE H == [i \in 0 .. k |->
                        IF i < k THEN F[i]
                        ELSE IF s[k] \in T THEN Append(F[k - 1], s[k]) ELSE F[k - 1]]
    <2>1. F \in [0 .. k - 1 -> Seq(S)] /\ F[k - 1] \in Seq(S) /\ s[k] \in S
      BY <1>2 DEF Selects
    <2>2. Append(F[k - 1], s[k]) \in Seq(S)
      BY <2>1
    <2>3. H \in [0 .. k -> Seq(S)]
      BY <2>1, <2>2
    <2>4. H[0] = << >>
      BY <1>2 DEF Selects
    <2>5. \A i \in 1 .. k - 1 : H[i] = F[i] /\ H[i - 1] = F[i - 1]
      OBVIOUS
    <2>6. H[k] = IF s[k] \in T THEN Append(H[k - 1], s[k]) ELSE H[k - 1]
      OBVIOUS
    <2>7. Works(H, k)
      <3> HIDE DEF H
      <3> SUFFICES ASSUME NEW i \in 1 .. k
                   PROVE  H[i] = IF s[i] \in T THEN Append(H[i - 1], s[i]) ELSE H[i - 1]
        BY <2>3, <2>4 DEF Selects
      <3>1. CASE i = k
        BY <2>6, <3>1
      <3>2. CASE i \in 1 .. k - 1
        BY <1>2, <2>5, <3>2 DEF Selects
      <3> QED
        BY <3>1, <3>2
    <2> QED
      BY <2>7
  <1> HIDE DEF Works
  <1>3. Bad = {}
    <2> SUFFICES ASSUME Bad # {}
                 PROVE  FALSE
      OBVIOUS
    <2>1. PICK k \in Bad : \A m \in Bad : k <= m
      <3> HIDE DEF Bad
      <3>1. Bad \in SUBSET Nat
        BY DEF Bad
      <3> QED
        BY <3>1, SmallestMember
    <2>2. k # 0
      BY <1>1
    <2>3. k - 1 \in 0 .. Len(s) /\ k - 1 \notin Bad
      BY <2>1, <2>2
    <2> QED
      BY <1>2, <2>2, <2>3
  <1> QED
    BY <1>3 DEF Works

\* The recursion of Selected.
LEMMA SelectedSteps ==
    ASSUME NEW S, NEW s \in Seq(S), NEW T
    PROVE  Selects(Selected(s, T), S, s, T, Len(s))
  <1> DEFINE Def(F) == [i \in 0 .. Len(s) |->
                            IF i = 0 THEN << >>
                            ELSE IF s[i] \in T THEN Append(F[i - 1], s[i])
                            ELSE F[i - 1]]
  <1>1. Selected(s, T) = CHOOSE F : F = Def(F)
    BY DEF Selected
  <1>2. PICK F : Selects(F, S, s, T, Len(s))
    <2>1. Len(s) \in 0 .. Len(s)
      OBVIOUS
    <2> QED
      BY <2>1, SelectionExists
  <1>3. F = Def(F)
    <2>1. F = [i \in 0 .. Len(s) |-> F[i]]
      BY <1>2 DEF Selects
    <2>2. \A i \in 0 .. Len(s) : i # 0 => i \in 1 .. Len(s)
      OBVIOUS
    <2>3. \A i \in 0 .. Len(s) : F[i] = Def(F)[i]
      BY <1>2, <2>2 DEF Selects
    <2> QED
      BY <2>1, <2>3
  <1>4. Selected(s, T) = Def(Selected(s, T))
    BY <1>1, <1>3
  <1> DEFINE G == Selected(s, T)
  <1>5. G = Def(G)
    BY <1>4
  <1> HIDE DEF G
  <1>6. DOMAIN G = 0 .. Len(s) /\ G[0] = << >>
    BY <1>5
  <1>7. \A i \in 1 .. Len(s) : G[i] = IF s[i] \in T THEN Append(G[i - 1], s[i]) ELSE G[i - 1]
    <2> TAKE i \in 1 .. Len(s)
    <2>1. i \in 0 .. Len(s) /\ i # 0
      OBVIOUS
    <2>2. G[i] = Def(G)[i]
      BY <1>5
    <2> QED
      BY <2>1, <2>2
  <1> DEFINE Bad == {k \in 0 .. Len(s) : G[k] \notin Seq(S)}
  <1>8. Bad = {}
    <2> SUFFICES ASSUME Bad # {}
                 PROVE  FALSE
      OBVIOUS
    <2>1. PICK k \in Bad : \A m \in Bad : k <= m
      <3> HIDE DEF Bad
      <3>1. Bad \in SUBSET Nat
        BY DEF Bad
      <3> QED
        BY <3>1, SmallestMember
    <2>2. k \in 1 .. Len(s)
      <3>1. << >> \in Seq(S)
        OBVIOUS
      <3>2. k # 0
        BY <1>6, <3>1
      <3> QED
        BY <3>2
    <2>3. G[k - 1] \in Seq(S) /\ s[k] \in S
      BY <2>1, <2>2
    <2>4. Append(G[k - 1], s[k]) \in Seq(S)
      BY <2>3
    <2> QED
      BY <1>7, <2>2, <2>3, <2>4
  <1>9. G \in [0 .. Len(s) -> Seq(S)]
    <2>1. G = [i \in 0 .. Len(s) |-> G[i]]
      BY <1>5
    <2> QED
      BY <1>8, <2>1
  <1> QED
    BY <1>6, <1>7, <1>9 DEF G, Selects

(***************************************************************************)
(* The two equations that say what Select is.                              *)
(***************************************************************************)

\* A selection of no elements.
LEMMA SelectNothing == \A T : Select(<< >>, T) = << >>
  <1> SUFFICES ASSUME NEW T
               PROVE  Select(<< >>, T) = << >>
    OBVIOUS
  <1>1. << >> \in Seq({}) /\ Len(<< >>) = 0
    OBVIOUS
  <1>2. Selects(Selected(<< >>, T), {}, << >>, T, Len(<< >>))
    BY <1>1, SelectedSteps
  <1>3. Selected(<< >>, T)[0] = << >>
    BY <1>2 DEF Selects
  <1> QED
    BY <1>1, <1>3 DEF Select

\* An element more is selected, or it is not.
LEMMA SelectAppend ==
    ASSUME NEW S, NEW s \in Seq(S), NEW e \in S, NEW T
    PROVE  /\ Select(s, T) \in Seq(S)
           /\ Select(Append(s, e), T) =
                  IF e \in T THEN Append(Select(s, T), e) ELSE Select(s, T)
  <1> DEFINE n == Len(s)
             t == Append(s, e)
             F == Selected(s, T)
             H == Selected(t, T)
  <1>1. /\ n \in Nat /\ t \in Seq(S) /\ Len(t) = n + 1 /\ t[n + 1] = e
        /\ \A i \in 1 .. n : t[i] = s[i]
    OBVIOUS
  <1>2. Selects(F, S, s, T, n)
    BY SelectedSteps
  <1>3. Selects(H, S, t, T, n + 1)
    BY <1>1, SelectedSteps
  <1> DEFINE Bad == {k \in 0 .. n : H[k] # F[k]}
  <1> HIDE DEF n, t, F, H
  <1>4. Bad = {}
    <2> SUFFICES ASSUME Bad # {}
                 PROVE  FALSE
      OBVIOUS
    <2>1. PICK k \in Bad : \A m \in Bad : k <= m
      <3> HIDE DEF Bad
      <3>1. Bad \in SUBSET Nat
        BY <1>1 DEF Bad
      <3> QED
        BY <3>1, SmallestMember
    <2>2. k # 0
      BY <1>2, <1>3 DEF Selects
    <2>3. k \in 1 .. n /\ k - 1 \in 0 .. n /\ k \in 1 .. n + 1
      BY <1>1, <2>2
    <2>4. H[k - 1] = F[k - 1]
      <3>1. ~ (k <= k - 1)
        BY <1>1, <2>3
      <3> QED
        BY <2>1, <2>3, <3>1
    <2>5. t[k] = s[k]
      BY <1>1, <2>3
    <2>6. H[k] = IF t[k] \in T THEN Append(H[k - 1], t[k]) ELSE H[k - 1]
      BY <1>3, <2>3 DEF Selects
    <2>7. F[k] = IF s[k] \in T THEN Append(F[k - 1], s[k]) ELSE F[k - 1]
      BY <1>2, <2>3 DEF Selects
    <2>8. H[k] = F[k]
      BY <2>4, <2>5, <2>6, <2>7
    <2> QED
      BY <2>8
  <1>5. H[n] = F[n] /\ F[n] \in Seq(S)
    <2>1. n \in 0 .. n
      BY <1>1
    <2> QED
      BY <1>2, <1>4, <2>1 DEF Selects
  <1>6. H[n + 1] = IF e \in T THEN Append(H[n], e) ELSE H[n]
    <2>1. n + 1 \in 1 .. n + 1 /\ (n + 1) - 1 = n
      BY <1>1
    <2> QED
      BY <1>1, <1>3, <2>1 DEF Selects
  <1> QED
    BY <1>1, <1>5, <1>6 DEF Select, n, t, F, H

(***************************************************************************)
(* What follows from them.                                                 *)
(***************************************************************************)

\* The same, for every sequence and element.
LEMMA SelectAppends ==
    ASSUME NEW S, NEW T
    PROVE  \A s \in Seq(S), e \in S :
              Select(Append(s, e), T) = IF e \in T THEN Append(Select(s, T), e) ELSE Select(s, T)
  <1> SUFFICES ASSUME NEW s \in Seq(S), NEW e \in S
               PROVE  Select(Append(s, e), T) =
                          IF e \in T THEN Append(Select(s, T), e) ELSE Select(s, T)
    OBVIOUS
  <1> QED
    BY SelectAppend

\* The elements of a sequence one longer.
LEMMA ElementsAppend ==
    ASSUME NEW S, NEW s \in Seq(S), NEW e \in S
    PROVE  ToSet(Append(s, e)) = ToSet(s) \cup {e}
  <1> DEFINE t == Append(s, e)
             n == Len(s)
  <1>1. /\ n \in Nat /\ DOMAIN s = 1 .. n /\ DOMAIN t = 1 .. n + 1 /\ t[n + 1] = e
        /\ \A i \in 1 .. n : t[i] = s[i]
    OBVIOUS
  <1> HIDE DEF t, n
  <1>2. 1 .. n + 1 = 1 .. n \cup {n + 1}
    BY <1>1
  <1> QED
    BY <1>1, <1>2 DEF ToSet, t, n

\* What is selected is what the sequence has of T.
LEMMA SelectElements ==
    ASSUME NEW S, NEW s \in Seq(S), NEW T
    PROVE  /\ Select(s, T) \in Seq(S)
           /\ ToSet(Select(s, T)) = ToSet(s) \cap T
  <1> DEFINE G == {t \in Seq(S) : /\ Select(t, T) \in Seq(S)
                                 /\ ToSet(Select(t, T)) = ToSet(t) \cap T}
  <1>1. << >> \in G
    <2>1. ToSet(<< >>) = {} /\ << >> \in Seq(S)
      BY DEF ToSet
    <2> QED
      BY <2>1, SelectNothing
  <1>2. ASSUME NEW t \in Seq(S), t \in G, NEW e \in S
        PROVE  Append(t, e) \in G
    <2> DEFINE u == Append(t, e)
    <2>1. u \in Seq(S) /\ ToSet(u) = ToSet(t) \cup {e}
      BY ElementsAppend
    <2>2. Select(u, T) = IF e \in T THEN Append(Select(t, T), e) ELSE Select(t, T)
      BY SelectAppend
    <2>3. Select(t, T) \in Seq(S) /\ ToSet(Select(t, T)) = ToSet(t) \cap T
      BY <1>2
    <2>4. /\ Append(Select(t, T), e) \in Seq(S)
          /\ ToSet(Append(Select(t, T), e)) = ToSet(Select(t, T)) \cup {e}
      BY <2>3, ElementsAppend
    <2> QED
      BY <2>1, <2>2, <2>3, <2>4
  <1> HIDE DEF G
  <1>3. Seq(S) \subseteq G
    BY <1>1, <1>2, ByAppending
  <1> QED
    BY <1>3 DEF G

\* A sequence without such an element leaves nothing.
LEMMA SelectNone ==
    ASSUME NEW S, NEW s \in Seq(S), NEW T
    PROVE  Select(s, T) = << >> <=> ToSet(s) \cap T = {}
  <1>1. Select(s, T) \in Seq(S) /\ ToSet(Select(s, T)) = ToSet(s) \cap T
    BY SelectElements
  <1>2. \A t \in Seq(S) : t # << >> => t[1] \in ToSet(t)
    BY DEF ToSet
  <1>3. ToSet(<< >>) = {}
    BY DEF ToSet
  <1> QED
    BY <1>1, <1>2, <1>3

\* A sequence of nothing else is left as it is.
LEMMA SelectAll ==
    ASSUME NEW S, NEW s \in Seq(S), NEW T, ToSet(s) \subseteq T
    PROVE  Select(s, T) = s
  <1> DEFINE G == {t \in Seq(S) : ToSet(t) \subseteq T => Select(t, T) = t}
  <1>1. << >> \in G
    BY SelectNothing
  <1>2. ASSUME NEW t \in Seq(S), t \in G, NEW e \in S
        PROVE  Append(t, e) \in G
    <2>1. ToSet(Append(t, e)) = ToSet(t) \cup {e}
      BY ElementsAppend
    <2>2. Select(Append(t, e), T) = IF e \in T THEN Append(Select(t, T), e) ELSE Select(t, T)
      BY SelectAppend
    <2> QED
      BY <1>2, <2>1, <2>2
  <1> HIDE DEF G
  <1>3. Seq(S) \subseteq G
    BY <1>1, <1>2, ByAppending
  <1> QED
    BY <1>3 DEF G

\* Selecting from two sequences in a row.
LEMMA SelectConcat ==
    ASSUME NEW S, NEW s \in Seq(S), NEW t \in Seq(S), NEW T
    PROVE  Select(s \o t, T) = Select(s, T) \o Select(t, T)
  <1> DEFINE G == {u \in Seq(S) : Select(s \o u, T) = Select(s, T) \o Select(u, T)}
  <1>0. Select(s, T) \in Seq(S)
    BY SelectElements
  <1>1. << >> \in G
    BY <1>0, SelectNothing
  <1>2. ASSUME NEW u \in Seq(S), u \in G, NEW e \in S
        PROVE  Append(u, e) \in G
    <2>1. Select(u, T) \in Seq(S) /\ s \o u \in Seq(S) /\ Append(u, e) \in Seq(S)
      BY SelectElements
    <2>2. s \o Append(u, e) = Append(s \o u, e)
      OBVIOUS
    <2>3. Select(Append(u, e), T) = IF e \in T THEN Append(Select(u, T), e) ELSE Select(u, T)
      BY SelectAppend
    <2>6. Select(Append(s \o u, e), T) =
                IF e \in T THEN Append(Select(s \o u, T), e) ELSE Select(s \o u, T)
      <3> DEFINE v == s \o u
      <3>1. v \in Seq(S)
        BY <2>1
      <3> HIDE DEF v
      <3>2. \A r \in Seq(S), a \in S :
                Select(Append(r, a), T) = IF a \in T THEN Append(Select(r, T), a) ELSE Select(r, T)
        BY SelectAppends
      <3>3. Select(Append(v, e), T) = IF e \in T THEN Append(Select(v, T), e) ELSE Select(v, T)
        BY Zenon, <3>1, <3>2
      <3> QED
        BY <3>3 DEF v
    <2>4. Select(s, T) \o Append(Select(u, T), e) = Append(Select(s, T) \o Select(u, T), e)
      BY <1>0, <2>1
    <2>5. Select(s \o u, T) = Select(s, T) \o Select(u, T)
      BY <1>2
    <2> QED
      BY <2>1, <2>2, <2>3, <2>4, <2>5, <2>6
  <1> HIDE DEF G
  <1>3. Seq(S) \subseteq G
    BY <1>1, <1>2, ByAppending
  <1> QED
    BY <1>3 DEF G

\* Selecting from a selection of more.
LEMMA SelectTwice ==
    ASSUME NEW S, NEW s \in Seq(S), NEW U, NEW T, ToSet(s) \cap T \subseteq U
    PROVE  Select(Select(s, U), T) = Select(s, T)
  <1> DEFINE G == {t \in Seq(S) : ToSet(t) \cap T \subseteq U =>
                                    Select(Select(t, U), T) = Select(t, T)}
  <1>1. << >> \in G
    BY SelectNothing
  <1>2. ASSUME NEW t \in Seq(S), t \in G, NEW e \in S
        PROVE  Append(t, e) \in G
    <2>1. Select(t, U) \in Seq(S)
      BY SelectElements
    <2>2. ToSet(Append(t, e)) = ToSet(t) \cup {e}
      BY ElementsAppend
    <2>3. Select(Append(t, e), U) = IF e \in U THEN Append(Select(t, U), e) ELSE Select(t, U)
      BY SelectAppend
    <2>4. Select(Append(t, e), T) = IF e \in T THEN Append(Select(t, T), e) ELSE Select(t, T)
      BY SelectAppend
    <2>5. Select(Append(Select(t, U), e), T) =
             IF e \in T THEN Append(Select(Select(t, U), T), e) ELSE Select(Select(t, U), T)
      BY <2>1, SelectAppend
    <2>6. Append(t, e) \in Seq(S)
      OBVIOUS
    <2>7. ASSUME ToSet(t) \cap T \subseteq U, e \in T => e \in U
          PROVE  Select(Select(Append(t, e), U), T) = Select(Append(t, e), T)
      <3>1. Select(Select(t, U), T) = Select(t, T)
        BY <1>2, <2>7
      <3> QED
        BY <2>3, <2>4, <2>5, <2>7, <3>1
    <2> QED
      BY <2>2, <2>6, <2>7
  <1> HIDE DEF G
  <1>3. Seq(S) \subseteq G
    BY <1>1, <1>2, ByAppending
  <1> QED
    BY <1>3 DEF G

\* No element comes twice.
Distinct(s) == \A i, j \in DOMAIN s : s[i] = s[j] => i = j

\* A selection repeats nothing the sequence does not repeat.
LEMMA SelectDistinct ==
    ASSUME NEW S, NEW s \in Seq(S), NEW T, Distinct(s)
    PROVE  Distinct(Select(s, T))
  <1> DEFINE G == {t \in Seq(S) : Distinct(t) => Distinct(Select(t, T))}
  <1>1. << >> \in G
    BY SelectNothing
  <1>2. ASSUME NEW t \in Seq(S), t \in G, NEW e \in S
        PROVE  Append(t, e) \in G
    <2> SUFFICES ASSUME Distinct(Append(t, e))
                 PROVE  Distinct(Select(Append(t, e), T))
      OBVIOUS
    <2> DEFINE u == Append(t, e)
               n == Len(t)
               r == Select(t, T)
    <2>1. /\ n \in Nat /\ DOMAIN t = 1 .. n /\ DOMAIN u = 1 .. n + 1 /\ u[n + 1] = e
          /\ \A i \in 1 .. n : u[i] = t[i]
      OBVIOUS
    <2>2. Distinct(u)
      OBVIOUS
    <2>3. r \in Seq(S) /\ ToSet(r) = ToSet(t) \cap T
      BY SelectElements
    <2>4. Select(u, T) = IF e \in T THEN Append(r, e) ELSE r
      BY SelectAppend
    <2>5. Distinct(t) => Distinct(r)
      BY <1>2
    <2> HIDE DEF u, n, r
    <2>6. Distinct(t) /\ e \notin ToSet(t)
      BY <2>1, <2>2 DEF Distinct, ToSet
    <2> DEFINE w == Append(r, e)
               m == Len(r)
    <2>7. /\ m \in Nat /\ DOMAIN r = 1 .. m /\ DOMAIN w = 1 .. m + 1 /\ w[m + 1] = e
          /\ \A i \in 1 .. m : w[i] = r[i]
      BY <2>3
    <2> HIDE DEF w, m
    <2>8. \A i \in 1 .. m : r[i] # e
      BY <2>3, <2>6, <2>7 DEF ToSet
    <2>9. Distinct(w)
      BY <2>5, <2>6, <2>7, <2>8 DEF Distinct
    <2> QED
      BY <2>4, <2>5, <2>6, <2>9 DEF u, w
  <1> HIDE DEF G
  <1>3. Seq(S) \subseteq G
    BY <1>1, <1>2, ByAppending
  <1> QED
    BY <1>3 DEF G

\* The members of a set of numbers, each once.
LEMMA AscendingMembers ==
    ASSUME NEW n \in Nat, NEW T \in SUBSET (1 .. n)
    PROVE  /\ Ascending(n, T) \in Seq(1 .. n)
           /\ ToSet(Ascending(n, T)) = T
           /\ Distinct(Ascending(n, T))
  <1> DEFINE s == [i \in 1 .. n |-> i]
  <1>1. s \in Seq(1 .. n) /\ DOMAIN s = 1 .. n
    OBVIOUS
  <1>2. ToSet(s) = 1 .. n /\ Distinct(s)
    BY DEF ToSet, Distinct
  <1> HIDE DEF s
  <1>3. Select(s, T) \in Seq(1 .. n) /\ ToSet(Select(s, T)) = T
    <2>1. Select(s, T) \in Seq(1 .. n) /\ ToSet(Select(s, T)) = ToSet(s) \cap T
      BY <1>1, SelectElements
    <2> QED
      BY <1>2, <2>1
  <1>4. Distinct(Select(s, T))
    BY <1>1, <1>2, SelectDistinct
  <1> QED
    BY <1>3, <1>4 DEF Ascending, s

\* What an append adds to the elements of a queue (push_back).
LEMMA AppendElements ==
    ASSUME NEW S, NEW s \in Seq(S), NEW e \in S
    PROVE  /\ ToSet(Append(s, e)) = ToSet(s) \cup {e}
           /\ Distinct(s) /\ e \notin ToSet(s) => Distinct(Append(s, e))
  <1> DEFINE t == Append(s, e)
  <1>1. /\ Len(s) \in Nat
        /\ DOMAIN s = 1 .. Len(s) /\ DOMAIN t = 1 .. Len(s) + 1
        /\ t[Len(s) + 1] = e
        /\ \A i \in DOMAIN s : t[i] = s[i]
    OBVIOUS
  <1> HIDE DEF t
  <1>2. DOMAIN t = DOMAIN s \cup {Len(s) + 1}
    BY <1>1
  <1>3. ToSet(t) = ToSet(s) \cup {e}
    BY <1>1, <1>2 DEF ToSet
  <1>4. Distinct(s) /\ e \notin ToSet(s) => Distinct(t)
    BY <1>1, <1>2 DEF ToSet, Distinct
  <1> QED
    BY <1>3, <1>4 DEF t

\* What taking the first element leaves of a queue (pop_front).
LEMMA TailElements ==
    ASSUME NEW S, NEW s \in Seq(S), s # << >>
    PROVE  /\ Head(s) \in ToSet(s)
           /\ ToSet(s) = ToSet(Tail(s)) \cup {Head(s)}
           /\ Distinct(s) => Distinct(Tail(s)) /\ Head(s) \notin ToSet(Tail(s))
  <1> DEFINE t == Tail(s)
             n == Len(s)
  <1>1. /\ n \in Nat /\ n > 0
        /\ DOMAIN s = 1 .. n /\ DOMAIN t = 1 .. n - 1
        /\ Head(s) = s[1]
        /\ \A i \in 1 .. n - 1 : t[i] = s[i + 1]
    OBVIOUS
  <1> HIDE DEF t, n
  <1>2. Head(s) \in ToSet(s)
    BY <1>1 DEF ToSet
  <1>3. ToSet(s) \subseteq ToSet(t) \cup {Head(s)}
    <2> SUFFICES ASSUME NEW i \in 1 .. n, i # 1
                 PROVE  s[i] \in ToSet(t)
      BY <1>1 DEF ToSet
    <2>1. i - 1 \in 1 .. n - 1 /\ (i - 1) + 1 = i
      BY <1>1
    <2> QED
      BY <1>1, <2>1 DEF ToSet
  <1>4. ToSet(t) \subseteq ToSet(s)
    BY <1>1 DEF ToSet
  <1>5. ASSUME Distinct(s)
        PROVE  Distinct(t) /\ Head(s) \notin ToSet(t)
    <2>1. \A i \in 1 .. n - 1 : i + 1 \in 1 .. n /\ i + 1 # 1
      BY <1>1
    <2>2. Distinct(t)
      BY <1>1, <1>5, <2>1 DEF Distinct
    <2>3. Head(s) \notin ToSet(t)
      BY <1>1, <1>5, <2>1 DEF Distinct, ToSet
    <2> QED
      BY <2>2, <2>3
  <1> QED
    BY <1>2, <1>3, <1>4, <1>5 DEF t

\* The elements of a concatenation (extend).
LEMMA ElementsConcat ==
    ASSUME NEW S, NEW s \in Seq(S), NEW t \in Seq(S)
    PROVE  ToSet(s \o t) = ToSet(s) \cup ToSet(t)
  <1> DEFINE u == s \o t
             m == Len(s)
             n == Len(t)
  <1>1. /\ m \in Nat /\ n \in Nat
        /\ DOMAIN s = 1 .. m /\ DOMAIN t = 1 .. n /\ DOMAIN u = 1 .. m + n
        /\ \A i \in 1 .. m + n : u[i] = IF i <= m THEN s[i] ELSE t[i - m]
    BY ConcatProperties, LenProperties
  <1> HIDE DEF u, m, n
  <1>2. ToSet(u) \subseteq ToSet(s) \cup ToSet(t)
    <2> SUFFICES ASSUME NEW i \in 1 .. m + n
                 PROVE  u[i] \in ToSet(s) \cup ToSet(t)
      BY <1>1 DEF ToSet
    <2>1. CASE i <= m
      BY <1>1, <2>1 DEF ToSet
    <2>2. CASE i > m
      <3>1. i - m \in 1 .. n /\ u[i] = t[i - m]
        BY <1>1, <2>2
      <3> QED
        BY <1>1, <3>1 DEF ToSet
    <2> QED
      BY <1>1, <2>1, <2>2
  <1>3. ToSet(s) \subseteq ToSet(u)
    <2>1. \A i \in 1 .. m : i \in 1 .. m + n /\ u[i] = s[i]
      BY <1>1
    <2> QED
      BY <1>1, <2>1 DEF ToSet
  <1>4. ToSet(t) \subseteq ToSet(u)
    <2>1. \A i \in 1 .. n : m + i \in 1 .. m + n /\ u[m + i] = t[i]
      BY <1>1
    <2> QED
      BY <1>1, <2>1 DEF ToSet
  <1> QED
    BY <1>2, <1>3, <1>4 DEF u

\* The elements of a part of a sequence are elements of it (drain).
LEMMA ElementsPart ==
    ASSUME NEW S, NEW s \in Seq(S), NEW i \in 1 .. Len(s) + 1, NEW j \in 0 .. Len(s)
    PROVE  SubSeq(s, i, j) \in Seq(S) /\ ToSet(SubSeq(s, i, j)) \subseteq ToSet(s)
  <1> DEFINE u == SubSeq(s, i, j)
  <1>1. Len(s) \in Nat /\ DOMAIN s = 1 .. Len(s) /\ i \in Int /\ j \in Int
    OBVIOUS
  <1>2. \A k \in i .. j : s[k] \in S
    BY <1>1
  <1>3. /\ u \in Seq(S) /\ Len(u) = IF i <= j THEN j - i + 1 ELSE 0
        /\ \A k \in 1 .. j - i + 1 : u[k] = s[i + k - 1]
    BY <1>1, <1>2, SubSeqProperties
  <1>4. DOMAIN u = 1 .. Len(u)
    BY <1>3
  <1> HIDE DEF u
  <1>5. \A k \in 1 .. Len(u) : i + k - 1 \in 1 .. Len(s) /\ u[k] = s[i + k - 1]
    BY <1>1, <1>3
  <1> QED
    BY <1>1, <1>3, <1>4, <1>5 DEF ToSet, u
=============================================================================
