--------------------------- MODULE Basics_proofs ---------------------------
(***************************************************************************)
(* Facts about numbers, finite sets and sequences that the proofs of the     *)
(* components share.                                                        *)
(***************************************************************************)
EXTENDS Integers, SequencesExt, SequenceTheorems, FiniteSetTheorems,
        WellFoundedInduction, TLAPS

-----------------------------------------------------------------------------
(* Least and greatest elements *)

\* A nonempty set of naturals has a least element.
LEMMA LeastNat ==
    ASSUME NEW S \in SUBSET Nat, S # {}
    PROVE  \E x \in S : \A y \in S : x <= y
  <1> DEFINE R == OpToRel(<, Nat)
  <1>1. IsWellFoundedOn(R, Nat)
    BY NatLessThanWellFounded
  <1>2. \A m, n \in Nat : <<m, n>> \in R <=> m < n
    BY DEF OpToRel
  <1> HIDE DEF R
  <1>3. PICK x \in S : \A y \in S : ~ (<<y, x>> \in R)
    BY <1>1, WFMin
  <1>4. ASSUME NEW y \in S PROVE x <= y
    <2>1. x \in Nat /\ y \in Nat /\ ~ (<<y, x>> \in R)
      BY <1>3
    <2>2. ~ (y < x)
      BY <1>2, <2>1
    <2> QED
      BY <2>1, <2>2
  <1> QED
    BY <1>4

\* A nonempty set of elements that have a rank has one of least rank.
LEMMA LeastRank ==
    ASSUME NEW S, NEW rank \in [S -> Nat], NEW T \in SUBSET S, T # {}
    PROVE  \E x \in T : \A y \in T : rank[x] <= rank[y]
  <1> DEFINE R == {rank[x] : x \in T}
  <1>1. R \in SUBSET Nat /\ R # {}
    OBVIOUS
  <1>2. PICK m \in R : \A n \in R : m <= n
    BY <1>1, LeastNat
  <1> QED
    BY <1>2

\* Min of a set of naturals is its least element.
LEMMA MinOfNats ==
    ASSUME NEW S \in SUBSET Nat, S # {}
    PROVE  Min(S) \in S /\ \A y \in S : Min(S) <= y
  <1>1. PICK x \in S : \A y \in S : x <= y
    BY LeastNat
  <1> QED
    BY <1>1 DEF Min

\* Max of a set of indexes is its greatest element.
LEMMA MaxOfIndexes ==
    ASSUME NEW n \in Nat, NEW S \in SUBSET (1 .. n), S # {}
    PROVE  Max(S) \in S /\ \A y \in S : y <= Max(S)
  <1> DEFINE T == {n - x : x \in S}
  <1>1. \A x \in S : n - x \in Nat
    OBVIOUS
  <1>2. T \in SUBSET Nat /\ T # {}
    BY <1>1
  <1>3. PICK m \in T : \A y \in T : m <= y
    BY <1>2, LeastNat
  <1>4. PICK x \in S : m = n - x
    OBVIOUS
  <1>5. ASSUME NEW y \in S PROVE y <= x
    <2>1. m <= n - y
      BY <1>3
    <2> QED
      BY <1>4, <2>1
  <1> QED
    BY <1>5 DEF Max

\* A sequence of one element.
LEMMA SingletonSeq ==
    ASSUME NEW S, NEW x \in S
    PROVE  <<x>> \in Seq(S) /\ Len(<<x>>) = 1 /\ <<x>>[1] = x
  OBVIOUS

\* Front drops the last element of a sequence.
LEMMA FrontOfSeq ==
    ASSUME NEW S, NEW s \in Seq(S), s # << >>
    PROVE  /\ Front(s) \in Seq(S)
           /\ Len(Front(s)) = Len(s) - 1
           /\ \A i \in 1 .. Len(s) - 1 : Front(s)[i] = s[i]
  <1>1. Len(s) \in Nat /\ Len(s) >= 1
    BY EmptySeq
  <1>2. \A i \in 1 .. Len(s) - 1 : s[i] \in S
    BY <1>1, ElementOfSeq
  <1> DEFINE n == Len(s) - 1
  <1>3. n \in Nat
    BY <1>1
  <1>4. /\ SubSeq(s, 1, n) \in Seq(S)
        /\ Len(SubSeq(s, 1, n)) = IF 1 <= n THEN n - 1 + 1 ELSE 0
        /\ \A i \in 1 .. n - 1 + 1 : SubSeq(s, 1, n)[i] = s[1 + i - 1]
    BY <1>2, <1>3, SubSeqProperties
  <1>5. Front(s) = SubSeq(s, 1, n)
    BY DEF Front
  <1> HIDE DEF n
  <1>6. Len(Front(s)) = n /\ \A i \in 1 .. n : Front(s)[i] = s[i]
    BY <1>3, <1>4, <1>5
  <1> QED
    BY <1>4, <1>5, <1>6 DEF n

-----------------------------------------------------------------------------
(* The operations of a deque, element by element *)

\* Append adds an element at the end.
LEMMA AppendByElement ==
    ASSUME NEW S, NEW s \in Seq(S), NEW e \in S
    PROVE  Append(s, e) = [i \in 1 .. Len(s) + 1 |-> IF i = Len(s) + 1 THEN e ELSE s[i]]
  <1> DEFINE t == [i \in 1 .. Len(s) + 1 |-> IF i = Len(s) + 1 THEN e ELSE s[i]]
  <1>1. t \in Seq(S) /\ Len(t) = Len(s) + 1
    BY LenProperties
  <1>2. /\ Append(s, e) \in Seq(S) /\ Len(Append(s, e)) = Len(s) + 1
        /\ \A i \in 1 .. Len(s) : Append(s, e)[i] = s[i]
        /\ Append(s, e)[Len(s) + 1] = e
    BY AppendProperties
  <1>3. \A i \in 1 .. Len(s) + 1 : t[i] = Append(s, e)[i]
    BY <1>2, LenProperties
  <1> HIDE DEF t
  <1>4. t = Append(s, e)
    BY <1>1, <1>2, <1>3, SeqEqual
  <1> QED
    BY <1>4 DEF t

\* A new first element moves the others up.
LEMMA PrependByElement ==
    ASSUME NEW S, NEW s \in Seq(S), NEW e \in S
    PROVE  <<e>> \o s = [i \in 1 .. Len(s) + 1 |-> IF i = 1 THEN e ELSE s[i - 1]]
  <1> DEFINE t == [i \in 1 .. Len(s) + 1 |-> IF i = 1 THEN e ELSE s[i - 1]]
  <1>1. t \in Seq(S) /\ Len(t) = Len(s) + 1
    BY LenProperties
  <1>2. <<e>> \in Seq(S) /\ Len(<<e>>) = 1 /\ <<e>>[1] = e
    BY SingletonSeq
  <1>3. /\ <<e>> \o s \in Seq(S) /\ Len(<<e>> \o s) = 1 + Len(s)
        /\ \A i \in 1 .. 1 + Len(s) :
              (<<e>> \o s)[i] = IF i <= 1 THEN <<e>>[i] ELSE s[i - 1]
    BY <1>2, ConcatProperties
  <1>4. \A i \in 1 .. Len(s) + 1 : t[i] = (<<e>> \o s)[i]
    BY <1>2, <1>3, LenProperties
  <1>5. Len(t) = Len(<<e>> \o s) /\ Len(t) = Len(s) + 1
    BY <1>1, <1>3, LenProperties
  <1> HIDE DEF t
  <1>6. t = <<e>> \o s
    BY <1>1, <1>3, <1>4, <1>5, SeqEqual
  <1> QED
    BY <1>6 DEF t

\* Front keeps all but the last element where they are.
LEMMA FrontByElement ==
    ASSUME NEW S, NEW s \in Seq(S), s # << >>
    PROVE  Front(s) = [i \in 1 .. Len(s) - 1 |-> s[i]]
  <1> DEFINE t == [i \in 1 .. Len(s) - 1 |-> s[i]]
  <1>1. Len(s) \in Nat /\ Len(s) - 1 \in Nat
    BY EmptySeq
  <1>2. t \in Seq(S) /\ Len(t) = Len(s) - 1
    BY <1>1
  <1>3. \A i \in 1 .. Len(s) - 1 : t[i] = Front(s)[i]
    BY FrontOfSeq
  <1> HIDE DEF t
  <1>4. t = Front(s)
    BY <1>2, <1>3, FrontOfSeq, SeqEqual
  <1> QED
    BY <1>4 DEF t

\* Tail moves all but the first element down.
LEMMA TailByElement ==
    ASSUME NEW S, NEW s \in Seq(S), s # << >>
    PROVE  Tail(s) = [i \in 1 .. Len(s) - 1 |-> s[i + 1]]
  <1> DEFINE t == [i \in 1 .. Len(s) - 1 |-> s[i + 1]]
  <1>1. Len(s) \in Nat /\ Len(s) - 1 \in Nat
    BY EmptySeq
  <1>2. t \in Seq(S) /\ Len(t) = Len(s) - 1
    BY <1>1
  <1>3. \A i \in 1 .. Len(s) - 1 : t[i] = Tail(s)[i]
    BY HeadTailProperties
  <1> HIDE DEF t
  <1>4. t = Tail(s)
    BY <1>2, <1>3, HeadTailProperties, SeqEqual
  <1> QED
    BY <1>4 DEF t

\* Its elements may be anything.
IsList(s) == s \in Seq({s[i] : i \in DOMAIN s})

\* A sequence over any set is one.
LEMMA ListOfSeq ==
    ASSUME NEW S, NEW s \in Seq(S)
    PROVE  IsList(s)
  <1>1. s \in [1 .. Len(s) -> {s[i] : i \in DOMAIN s}] /\ Len(s) \in Nat
    OBVIOUS
  <1> QED
    BY <1>1 DEF IsList
=============================================================================
