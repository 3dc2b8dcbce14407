-------------------------- MODULE Recursion_proofs --------------------------
(***************************************************************************)
(* Recursion over data.  A recursive function f[x \in S] == Def(f, x) is      *)
(* some function that satisfies this equation, if there is one; there is one  *)
(* when each value depends only on those at arguments of smaller rank.  The   *)
(* step Def is a parameter of the module: a proof about a recursive function  *)
(* instantiates it with the body of its definition.                          *)
(***************************************************************************)
EXTENDS Basics_proofs

CONSTANTS
    Def(_, _)   \* the value at an argument, from the function and the argument

\* Of two functions that agree below the rank of an argument, Def makes the same.
LooksBelow(S, rank) ==
    \A g, h : \A x \in S :
       (\A y \in S : rank[y] < rank[x] => g[y] = h[y]) => Def(g, x) = Def(h, x)

Below(S, rank, n) == {x \in S : rank[x] < n}

\* g satisfies the equation at the arguments of rank less than n.
Partial(g, S, rank, n) == \A x \in Below(S, rank, n) : g[x] = Def(g, x)

\* Two partial solutions agree where both are defined.
LEMMA PartialsAgree ==
    ASSUME NEW S, NEW rank \in [S -> Nat], LooksBelow(S, rank),
           NEW m \in Nat, NEW n \in Nat, m <= n,
           NEW g, Partial(g, S, rank, m), NEW h, Partial(h, S, rank, n)
    PROVE  \A x \in Below(S, rank, m) : g[x] = h[x]
  <1> DEFINE T == {x \in Below(S, rank, m) : g[x] # h[x]}
  <1> SUFFICES ASSUME T # {} PROVE FALSE
    OBVIOUS
  <1>1. T \in SUBSET S
    BY DEF Below
  <1>2. PICK x \in T : \A y \in T : rank[x] <= rank[y]
    BY <1>1, LeastRank
  <1>3. x \in S /\ rank[x] \in Nat /\ rank[x] < m /\ rank[x] < n
    BY <1>1, <1>2 DEF Below
  <1>4. ASSUME NEW y \in S, rank[y] < rank[x] PROVE g[y] = h[y]
    <2>1. rank[y] \in Nat /\ rank[y] < m
      BY <1>3, <1>4
    <2>2. y \in Below(S, rank, m) /\ ~ (rank[x] <= rank[y])
      BY <1>3, <1>4, <2>1 DEF Below
    <2> QED
      BY <1>2, <2>2
  <1>5. Def(g, x) = Def(h, x)
    BY <1>3, <1>4 DEF LooksBelow
  <1>6. x \in Below(S, rank, m) /\ x \in Below(S, rank, n)
    BY <1>3 DEF Below
  <1> QED
    BY <1>2, <1>5, <1>6 DEF Partial

\* There is a partial solution for every rank.
LEMMA PartialsExist ==
    ASSUME NEW S, NEW rank \in [S -> Nat], LooksBelow(S, rank)
    PROVE  \A n \in Nat : \E g : Partial(g, S, rank, n)
  <1> DEFINE T == {n \in Nat : ~ \E g : Partial(g, S, rank, n)}
  <1> SUFFICES ASSUME T # {} PROVE FALSE
    OBVIOUS
  <1>1. PICK n \in T : \A k \in T : n <= k
    BY LeastNat
  <1>2. n # 0
    <2>1. Partial(rank, S, rank, 0)
      BY DEF Partial, Below
    <2> QED
      BY <1>1, <2>1
  <1>3. n - 1 \in Nat /\ n - 1 < n /\ n \in Nat
    BY <1>1, <1>2
  <1>4. PICK g : Partial(g, S, rank, n - 1)
    BY <1>1, <1>3
  <1> DEFINE h == [x \in S |-> Def(g, x)]
  <1>5. ASSUME NEW x \in Below(S, rank, n) PROVE h[x] = Def(h, x)
    <2>1. x \in S /\ rank[x] \in Nat /\ rank[x] < n
      BY DEF Below
    <2>2. ASSUME NEW y \in S, rank[y] < rank[x] PROVE g[y] = h[y]
      <3>1. rank[y] \in Nat /\ rank[y] < n - 1
        BY <1>3, <2>1, <2>2
      <3>2. g[y] = Def(g, y)
        BY <1>4, <3>1 DEF Partial, Below
      <3> QED
        BY <3>2
    <2> HIDE DEF h
    <2>3. Def(g, x) = Def(h, x)
      BY <2>1, <2>2 DEF LooksBelow
    <2> QED
      BY <2>1, <2>3 DEF h
  <1> HIDE DEF h
  <1>6. Partial(h, S, rank, n)
    BY <1>5 DEF Partial
  <1> QED
    BY <1>1, <1>6

\* A function is given by its recursion: if the value at every argument is made
\* of values at arguments of smaller rank, some function satisfies the equation,
\* and the one its definition chooses does.
THEOREM RecursionWorks ==
    ASSUME NEW S, NEW rank \in [S -> Nat], LooksBelow(S, rank)
    PROVE  \E f : f = [x \in S |-> Def(f, x)]
  <1> DEFINE G(n) == CHOOSE g : Partial(g, S, rank, n)
             f == [x \in S |-> Def(G(rank[x]), x)]
  <1>1. \A n \in Nat : Partial(G(n), S, rank, n)
    BY PartialsExist
  <1> HIDE DEF G
  <1>2. ASSUME NEW x \in S, NEW y \in S, rank[y] < rank[x]
        PROVE  G(rank[x])[y] = f[y]
    <2>1. rank[x] \in Nat /\ rank[y] \in Nat /\ rank[y] <= rank[x]
      BY <1>2
    <2>2. Partial(G(rank[x]), S, rank, rank[x]) /\ Partial(G(rank[y]), S, rank, rank[y])
      BY <1>1, <2>1
    <2>3. \A z \in Below(S, rank, rank[y]) : G(rank[y])[z] = G(rank[x])[z]
      BY <2>1, <2>2, PartialsAgree
    <2>4. Def(G(rank[y]), y) = Def(G(rank[x]), y)
      BY <2>3 DEF LooksBelow, Below
    <2>5. G(rank[x])[y] = Def(G(rank[x]), y)
      BY <1>2, <2>2 DEF Partial, Below
    <2> QED
      BY <2>4, <2>5
  <1>3. ASSUME NEW x \in S PROVE f[x] = Def(f, x)
    <2>1. f[x] = Def(G(rank[x]), x)
      OBVIOUS
    <2> HIDE DEF f
    <2>2. Def(G(rank[x]), x) = Def(f, x)
      BY <1>2 DEF LooksBelow
    <2> QED
      BY <2>1, <2>2
  <1>4. f = [x \in S |-> f[x]]
    OBVIOUS
  <1> HIDE DEF f
  <1>5. [x \in S |-> f[x]] = [x \in S |-> Def(f, x)]
    BY <1>3
  <1> QED
    BY <1>4, <1>5
=============================================================================
