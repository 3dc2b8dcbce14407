--------------------------- MODULE Vector_proofs ---------------------------
(***************************************************************************)
(* Theorems about the vector, for any number of nodes and of data: the list  *)
(* that the fields spell, the ownership of nodes and data, and Deque.        *)
(***************************************************************************)
EXTENDS Vector, Basics_proofs

-----------------------------------------------------------------------------
(* The list in the fields *)

\* head, tail, count and next spell the nodes l[1], ..., l[count], all different.
Spells(l) ==
    /\ \A i, j \in 1 .. count : l[i] = l[j] => i = j
    /\ head = IF count = 0 THEN NULL ELSE l[1]
    /\ count > 0 => tail = l[count]
    /\ \A i \in 1 .. count :
          next[l[i]] = IF i = count THEN NULL ELSE l[i + 1]

\* n nodes that are all different are no more than there are addresses.
LEMMA CountBound ==
    ASSUME NEW n \in Nat, NEW l \in [1 .. n -> Nodes],
           \A i, j \in 1 .. n : l[i] = l[j] => i = j
    PROVE  n <= Cardinality(Nodes)
  <1>1. l \in Injection(1 .. n, Nodes)
    BY DEF Injection, IsInjective
  <1>2. Cardinality(1 .. n) <= Cardinality(Nodes)
    BY <1>1, FS_Injection, VectorAssumption
  <1>3. Cardinality(1 .. n) = n
    BY FS_Interval
  <1> QED
    BY <1>2, <1>3

\* The walk along next passes the nodes of the list and ends in NULL.
LEMMA WalkOfList ==
    ASSUME count \in Nat, NEW l \in [1 .. count -> Nodes], Spells(l)
    PROVE  /\ \A i \in 1 .. count : Walk[i] = l[i]
           /\ Walk[count + 1] = NULL
  <1> DEFINE Places == 1 .. count + 1
             Step(f, i) == IF i = 1 THEN head
                           ELSE IF f[i - 1] = NULL THEN NULL
                           ELSE next[f[i - 1]]
             Eqn(f) == f = [i \in Places |-> Step(f, i)]
             g == [i \in Places |-> IF i <= count THEN l[i] ELSE NULL]
  <1>1. Walk = CHOOSE f : Eqn(f)
    BY DEF Walk
  <1>2. Eqn(g)
    <2>1. ASSUME NEW i \in Places PROVE g[i] = Step(g, i)
      <3>1. CASE i = 1
        BY <3>1 DEF Spells
      <3>2. CASE i # 1
        <4>1. i - 1 \in 1 .. count /\ i - 1 \in Places
          BY <3>2
        <4>2. g[i - 1] = l[i - 1] /\ l[i - 1] \in Nodes
          BY <4>1
        <4>3. Step(g, i) = next[l[i - 1]]
          BY <3>2, <4>2, VectorAssumption
        <4>4. next[l[i - 1]] = IF i - 1 = count THEN NULL ELSE l[i]
          BY <4>1 DEF Spells
        <4>5. i - 1 = count <=> ~ (i <= count)
          BY <4>1
        <4> QED
          BY <4>3, <4>4, <4>5
      <3> QED
        BY <3>1, <3>2
    <2> QED
      BY <2>1, Zenon
  <1>3. Eqn(Walk)
    <2> HIDE DEF Eqn
    <2> QED
      BY <1>1, <1>2
  <1>4. \A i \in Places : Walk[i] = g[i]
    <2> DEFINE Wrong == {i \in Places : Walk[i] # g[i]}
    <2> SUFFICES ASSUME Wrong # {} PROVE FALSE
      OBVIOUS
    <2>1. Wrong \in SUBSET Nat
      OBVIOUS
    <2>2. PICK i \in Wrong : \A j \in Wrong : i <= j
      BY <2>1, LeastNat
    <2>3. i \in Places /\ Walk[i] = Step(Walk, i) /\ g[i] = Step(g, i)
      <3> HIDE DEF Step, g
      <3> QED
        BY <1>2, <1>3, Zenon
    <2>4. i # 1
      BY <2>2, <2>3
    <2>5. i - 1 \in Places /\ i - 1 \notin Wrong
      BY <2>2, <2>3, <2>4
    <2>6. Walk[i - 1] = g[i - 1]
      BY <2>5
    <2> QED
      BY <2>2, <2>3, <2>6
  <1>5. \A i \in Places : g[i] = IF i <= count THEN l[i] ELSE NULL
    OBVIOUS
  <1>6. \A i \in 1 .. count : i \in Places /\ i <= count
    OBVIOUS
  <1>7. count + 1 \in Places /\ ~ (count + 1 <= count)
    OBVIOUS
  <1> QED
    BY <1>4, <1>5, <1>6, <1>7
-----------------------------------------------------------------------------
(* The inductive invariant *)

\* The nodes of the list l.
Cells(l) == {l[i] : i \in 1 .. count}

\* The list l and the popped nodes do not meet, all are allocated, and each
\* holds data of its own that is allocated too.
Owns(l) ==
    /\ Cells(l) \cap popped = {}
    /\ Cells(l) \cup popped \subseteq heap
    /\ \A m, n \in Cells(l) \cup popped : data[m] = data[n] => m = n
    /\ DataIn(Cells(l) \cup popped) \subseteq owned

\* The fields spell a list, whose nodes and data are in order.  That two nodes
\* never hold the same data is in none of the properties, but without it
\* caller_free_node could free what another node holds.
ListInv ==
    /\ TypeOK
    /\ ~vec => count = 0
    /\ \E l \in [1 .. count -> Nodes] : Spells(l) /\ Owns(l)

\* An empty vector spells the empty list.
LEMMA InitList == Init => ListInv
  <1> SUFFICES ASSUME Init PROVE ListInv
    OBVIOUS
  <1>1. Cardinality(Nodes) \in Nat
    BY FS_CardinalityType, VectorAssumption
  <1>2. TypeOK
    <2>1. vec \in BOOLEAN
      BY DEF Init
    <2>2. count \in 0 .. Cardinality(Nodes)
      BY <1>1 DEF Init
    <2> QED
      BY <2>1, <2>2 DEF Init, TypeOK, Pointers
  <1> DEFINE l == [i \in 1 .. 0 |-> NULL]
  <1>3. l \in [1 .. count -> Nodes] /\ Spells(l) /\ Owns(l)
    BY DEF Init, Spells, Owns, Cells, DataIn
  <1> QED
    BY <1>2, <1>3 DEF ListInv, Init

\* What is known of every state of ListInv.
LEMMA ListTypes ==
    ASSUME ListInv
    PROVE  /\ TypeOK /\ (~vec => count = 0)
           /\ Cardinality(Nodes) \in Nat /\ count \in Nat
           /\ head \in Pointers /\ tail \in Pointers
           /\ next \in [Nodes -> Pointers] /\ data \in [Nodes -> Data \cup {NULL}]
           /\ heap \subseteq Nodes /\ popped \subseteq Nodes /\ owned \subseteq Data
           /\ vec \in BOOLEAN /\ status \in {"running", "log_error"}
  <1>1. Cardinality(Nodes) \in Nat
    BY FS_CardinalityType, VectorAssumption
  <1> QED
    BY <1>1 DEF ListInv, TypeOK

\* A call that changes neither the list nor what nodes and data are allocated.
LEMMA SameList ==
    ASSUME ListInv, TypeOK', UNCHANGED <<vec, fields, heap, owned, popped>>
    PROVE  ListInv'
  <1>1. /\ vec' = vec /\ head' = head /\ tail' = tail /\ count' = count
        /\ next' = next /\ data' = data
        /\ heap' = heap /\ owned' = owned /\ popped' = popped
    BY DEF fields
  <1>2. PICK l \in [1 .. count -> Nodes] : Spells(l) /\ Owns(l)
    BY DEF ListInv
  <1>3. l \in [1 .. count' -> Nodes] /\ Spells(l)' /\ Owns(l)'
    BY <1>1, <1>2 DEF Spells, Owns, Cells, DataIn
  <1> QED
    BY <1>1, <1>3 DEF ListInv

\* A call that leaves the list k behind, and the types as they were.
LEMMA NewList ==
    ASSUME count' \in Nat, NEW k \in [1 .. count' -> Nodes], Spells(k)', Owns(k)',
           vec' \in BOOLEAN, ~vec' => count' = 0,
           tail' \in Pointers, result' \in Pointers,
           next' \in [Nodes -> Pointers], data' \in [Nodes -> Data \cup {NULL}],
           heap' \subseteq Nodes, popped' \subseteq Nodes, owned' \subseteq Data,
           status' \in {"running", "log_error"}
    PROVE  ListInv'
  <1>1. \A i, j \in 1 .. count' : k[i] = k[j] => i = j
    BY DEF Spells
  <1>2. count' <= Cardinality(Nodes) /\ Cardinality(Nodes) \in Nat
    BY <1>1, CountBound, FS_CardinalityType, VectorAssumption
  <1>3. head' \in Pointers
    BY DEF Spells, Pointers
  <1>4. count' \in 0 .. Cardinality(Nodes)
    BY <1>2
  <1>5. TypeOK'
    BY <1>3, <1>4 DEF TypeOK
  <1> QED
    BY <1>5 DEF ListInv

\* The list after a new node at its end.
LEMMA vector_addList ==
    ASSUME ListInv, NEW n \in Nodes, NEW d \in Data, vector_add(n, d),
           NEW l \in [1 .. count -> Nodes], Spells(l), Owns(l), NEW k,
           k = [i \in 1 .. count + 1 |-> IF i = count + 1 THEN n ELSE l[i]]
    PROVE  k \in [1 .. count' -> Nodes] /\ Spells(k)' /\ ListInv'
  <1>2. /\ n \notin heap /\ d \notin owned /\ vec' = vec /\ vec
        /\ heap' = heap \cup {n} /\ owned' = owned \cup {d}
        /\ data' = [data EXCEPT ![n] = d] /\ popped' = popped
        /\ count' = count + 1 /\ tail' = n
        /\ head' = IF head = NULL THEN n ELSE head
        /\ next' = IF head = NULL THEN [next EXCEPT ![n] = NULL]
                   ELSE [next EXCEPT ![n] = NULL, ![tail] = n]
        /\ result' = NULL /\ status' = status
    BY DEF vector_add, NewNode, Return
  <1>3. k \in [1 .. count' -> Nodes]
    BY <1>2, ListTypes
  <1>4. n \notin Cells(l) /\ n \notin popped
    BY <1>2 DEF Owns
  <1>5. head = NULL <=> count = 0
    BY ListTypes, VectorAssumption DEF Spells
  <1>6. Spells(k)'
    <2>1. \A i, j \in 1 .. count + 1 : k[i] = k[j] => i = j
      BY <1>4, ListTypes DEF Spells, Cells
    <2>2. head' = IF count + 1 = 0 THEN NULL ELSE k[1]
      BY <1>2, <1>5, ListTypes DEF Spells
    <2>3. ASSUME NEW i \in 1 .. count + 1
          PROVE  next'[k[i]] = IF i = count + 1 THEN NULL ELSE k[i + 1]
      <3>1. CASE count = 0
        BY <1>2, <1>5, <2>3, <3>1, ListTypes
      <3>2. CASE count # 0
        <4>1. tail = l[count] /\ tail \in Nodes /\ tail # n
          BY <1>4, <3>2, ListTypes DEF Spells, Cells
        <4>2. next' = [next EXCEPT ![n] = NULL, ![tail] = n]
          BY <1>2, <1>5, <3>2
        <4>3. next'[n] = NULL
          BY <4>1, <4>2, ListTypes
        <4>4. next'[tail] = n
          BY <4>1, <4>2, ListTypes
        <4>5. ASSUME i \in 1 .. count, i # count PROVE next'[l[i]] = l[i + 1]
          <5>1. l[i] # n /\ l[i] # tail /\ l[i] \in Nodes
            BY <1>4, <4>1, <4>5, ListTypes DEF Spells, Cells
          <5>2. next'[l[i]] = next[l[i]]
            BY <4>2, <5>1, ListTypes
          <5> QED
            BY <4>5, <5>2, ListTypes DEF Spells
        <4> QED
          BY <3>2, <4>1, <4>3, <4>4, <4>5, ListTypes
      <3> QED
        BY <3>1, <3>2
    <2>4. k[count + 1] = n
      BY ListTypes
    <2>5. /\ \A i, j \in 1 .. count' : k[i] = k[j] => i = j
          /\ head' = IF count' = 0 THEN NULL ELSE k[1]
          /\ count' > 0 => tail' = k[count']
          /\ \A i \in 1 .. count' :
                next'[k[i]] = IF i = count' THEN NULL ELSE k[i + 1]
      BY <1>2, <2>1, <2>2, <2>3, <2>4, ListTypes
    <2> QED
      BY <2>5 DEF Spells
  <1>7. Owns(k)'
    <2>1. Cells(k)' = Cells(l) \cup {n}
      BY <1>2, ListTypes DEF Cells
    <2>2. \A m \in Cells(l) \cup popped : m \in Nodes /\ m # n /\ data'[m] = data[m] /\ data[m] # d
      BY <1>2, <1>4, ListTypes DEF Owns, DataIn
    <2>3. data'[n] = d
      BY <1>2, ListTypes
    <2> QED
      BY <1>2, <1>4, <2>1, <2>2, <2>3 DEF Owns, DataIn
  <1>8. next' \in [Nodes -> Pointers] /\ data' \in [Nodes -> Data \cup {NULL}]
    BY <1>2, ListTypes DEF Pointers
  <1>9. /\ tail' \in Pointers /\ result' \in Pointers
        /\ heap' \subseteq Nodes /\ popped' \subseteq Nodes /\ owned' \subseteq Data
    BY <1>2, ListTypes DEF Pointers
  <1>10. count' \in Nat /\ status' \in {"running", "log_error"}
    BY <1>2, ListTypes
  <1>11. vec' \in BOOLEAN /\ (~vec' => count' = 0)
    BY <1>2, ListTypes
  <1> QED
    BY <1>3, <1>6, <1>7, <1>8, <1>9, <1>10, <1>11, NewList

\* The list after a new node at its head.
LEMMA vector_prependList ==
    ASSUME ListInv, NEW n \in Nodes, NEW d \in Data, vector_prepend(n, d),
           NEW l \in [1 .. count -> Nodes], Spells(l), Owns(l), NEW k,
           k = [i \in 1 .. count + 1 |-> IF i = 1 THEN n ELSE l[i - 1]]
    PROVE  k \in [1 .. count' -> Nodes] /\ Spells(k)' /\ ListInv'
  <1>2. /\ n \notin heap /\ d \notin owned /\ vec' = vec /\ vec
        /\ heap' = heap \cup {n} /\ owned' = owned \cup {d}
        /\ data' = [data EXCEPT ![n] = d] /\ popped' = popped
        /\ count' = count + 1 /\ head' = n
        /\ tail' = IF head = NULL THEN n ELSE tail
        /\ next' = [next EXCEPT ![n] = head]
        /\ result' = NULL /\ status' = status
    BY DEF vector_prepend, NewNode, Return
  <1>3. k \in [1 .. count' -> Nodes]
    BY <1>2, ListTypes
  <1>4. n \notin Cells(l) /\ n \notin popped
    BY <1>2 DEF Owns
  <1>5. head = NULL <=> count = 0
    BY ListTypes, VectorAssumption DEF Spells
  <1>6. Spells(k)'
    <2>1. \A i, j \in 1 .. count + 1 : k[i] = k[j] => i = j
      BY <1>4, ListTypes DEF Spells, Cells
    <2>2. k[1] = n /\ k[count + 1] = IF count = 0 THEN n ELSE l[count]
      BY ListTypes
    <2>3. ASSUME NEW i \in 1 .. count + 1
          PROVE  next'[k[i]] = IF i = count + 1 THEN NULL ELSE k[i + 1]
      <3>1. CASE i = 1
        <4>1. next'[k[i]] = head
          BY <1>2, <2>2, <3>1, ListTypes
        <4>2. count # 0 => k[2] = l[1]
          BY ListTypes
        <4> QED
          BY <3>1, <4>1, <4>2, ListTypes DEF Spells
      <3>2. CASE i # 1
        <4>1. i - 1 \in 1 .. count /\ k[i] = l[i - 1]
          BY <3>2, ListTypes
        <4>2. next'[l[i - 1]] = next[l[i - 1]]
          BY <1>2, <1>4, <4>1, ListTypes DEF Cells
        <4>3. next[l[i - 1]] = IF i - 1 = count THEN NULL ELSE l[i]
          BY <4>1 DEF Spells
        <4>4. i # count + 1 => k[i + 1] = l[i]
          BY <3>2, ListTypes
        <4> QED
          BY <4>1, <4>2, <4>3, <4>4, ListTypes
      <3> QED
        BY <3>1, <3>2
    <2>4. tail' = k[count + 1]
      BY <1>2, <1>5, <2>2, ListTypes DEF Spells
    <2>5. /\ \A i, j \in 1 .. count' : k[i] = k[j] => i = j
          /\ head' = IF count' = 0 THEN NULL ELSE k[1]
          /\ count' > 0 => tail' = k[count']
          /\ \A i \in 1 .. count' :
                next'[k[i]] = IF i = count' THEN NULL ELSE k[i + 1]
      BY <1>2, <2>1, <2>2, <2>3, <2>4, ListTypes
    <2> QED
      BY <2>5 DEF Spells
  <1>7. Owns(k)'
    <2>1. Cells(k)' = Cells(l) \cup {n}
      <3>1. \A i \in 1 .. count : i + 1 \in 1 .. count + 1 /\ k[i + 1] = l[i]
        BY ListTypes
      <3>2. k[1] = n /\ 1 \in 1 .. count + 1
        BY ListTypes
      <3>3. \A i \in 1 .. count + 1 : i # 1 => i - 1 \in 1 .. count /\ k[i] = l[i - 1]
        BY ListTypes
      <3> QED
        BY <1>2, <3>1, <3>2, <3>3 DEF Cells
    <2>2. \A m \in Cells(l) \cup popped : m \in Nodes /\ m # n /\ data'[m] = data[m] /\ data[m] # d
      BY <1>2, <1>4, ListTypes DEF Owns, DataIn
    <2>3. data'[n] = d
      BY <1>2, ListTypes
    <2> QED
      BY <1>2, <1>4, <2>1, <2>2, <2>3 DEF Owns, DataIn
  <1>8. next' \in [Nodes -> Pointers] /\ data' \in [Nodes -> Data \cup {NULL}]
    BY <1>2, ListTypes DEF Pointers
  <1>9. /\ tail' \in Pointers /\ result' \in Pointers
        /\ heap' \subseteq Nodes /\ popped' \subseteq Nodes /\ owned' \subseteq Data
    BY <1>2, ListTypes DEF Pointers
  <1>10. count' \in Nat /\ status' \in {"running", "log_error"}
    BY <1>2, ListTypes
  <1>11. vec' \in BOOLEAN /\ (~vec' => count' = 0)
    BY <1>2, ListTypes
  <1> QED
    BY <1>3, <1>6, <1>7, <1>8, <1>9, <1>10, <1>11, NewList

\* The list without its last node.
LEMMA vector_popList ==
    ASSUME ListInv, vector_pop,
           NEW l \in [1 .. count -> Nodes], Spells(l), Owns(l), NEW k,
           k = [i \in 1 .. count - 1 |-> l[i]]
    PROVE  k \in [1 .. count' -> Nodes] /\ Spells(k)' /\ ListInv'
  <1>2. /\ vec /\ count > 0 /\ count' = count - 1 /\ result' = NULL
        /\ vec' = vec /\ data' = data /\ owned' = owned /\ popped' = popped
        /\ status' = status
    BY DEF vector_pop, Return
  <1>3. k \in [1 .. count' -> Nodes] /\ count - 1 \in Nat
    BY <1>2, ListTypes
  <1>4. Cells(k)' \subseteq Cells(l) /\ \A i \in 1 .. count - 1 : k[i] = l[i] /\ i \in 1 .. count
    BY <1>2, ListTypes DEF Cells
  <1>5. CASE count = 1
    <2>1. heap' = heap \ {head} /\ head' = NULL /\ next' = next /\ tail' = tail
      BY <1>5 DEF vector_pop
    <2>2. head \in Cells(l) /\ Cells(k)' = {}
      BY <1>2, <1>5 DEF Spells, Cells
    <2>3. Spells(k)' /\ Owns(k)'
      BY <1>2, <1>4, <1>5, <2>1, <2>2 DEF Spells, Owns, DataIn
    <2>4. vec' \in BOOLEAN /\ (~vec' => count' = 0)
      BY <1>2, ListTypes
    <2> QED
      BY <1>2, <1>3, <2>1, <2>3, <2>4, ListTypes, NewList DEF Pointers
  <1>6. CASE count # 1
    <2>1. count - 1 \in 1 .. count
      BY <1>2, <1>6, ListTypes
    <2>2. Walk[count - 1] = l[count - 1]
      BY <2>1, ListTypes, WalkOfList
    <2>3. /\ next' = [next EXCEPT ![l[count - 1]] = NULL]
          /\ tail' = l[count - 1] /\ head' = head /\ heap' = heap
      BY <1>6, <2>2 DEF vector_pop
    <2>4. \A i \in 1 .. count - 1 :
             next'[k[i]] = IF i = count - 1 THEN NULL ELSE k[i + 1]
      <3> SUFFICES ASSUME NEW i \in 1 .. count - 1
                   PROVE  next'[k[i]] = IF i = count - 1 THEN NULL ELSE k[i + 1]
        OBVIOUS
      <3>1. l[count - 1] \in Nodes /\ l[i] \in Nodes /\ k[i] = l[i] /\ i \in 1 .. count
        BY <1>4, <2>1
      <3>2. CASE i = count - 1
        BY <2>3, <3>1, <3>2, ListTypes
      <3>3. CASE i # count - 1
        <4>1. l[i] # l[count - 1] /\ next[l[i]] = l[i + 1] /\ k[i + 1] = l[i + 1]
          BY <1>3, <2>1, <3>1, <3>3, ListTypes DEF Spells
        <4> QED
          BY <2>3, <3>1, <3>3, <4>1, ListTypes
      <3> QED
        BY <3>2, <3>3
    <2>5. Spells(k)'
      <3>1. k[1] = l[1] /\ k[count - 1] = l[count - 1]
        BY <1>2, <1>6, ListTypes
      <3>2. \A i, j \in 1 .. count - 1 : k[i] = k[j] => i = j
        BY <1>4 DEF Spells
      <3> QED
        BY <1>2, <1>6, <2>3, <2>4, <3>1, <3>2, ListTypes DEF Spells
    <2>6. Owns(k)'
      BY <1>2, <1>4, <2>3 DEF Owns, DataIn
    <2>7. vec' \in BOOLEAN /\ (~vec' => count' = 0)
      BY <1>2, ListTypes
    <2>8. next' \in [Nodes -> Pointers] /\ tail' \in Pointers
      BY <2>1, <2>3, ListTypes DEF Pointers
    <2> QED
      BY <1>2, <1>3, <2>3, <2>5, <2>6, <2>7, <2>8, ListTypes, NewList DEF Pointers
  <1> QED
    BY <1>5, <1>6

\* The list without its first node, which is popped now.
LEMMA vector_pop_headList ==
    ASSUME ListInv, vector_pop_head,
           NEW l \in [1 .. count -> Nodes], Spells(l), Owns(l), NEW k,
           k = [i \in 1 .. count - 1 |-> l[i + 1]]
    PROVE  /\ ListInv'
           /\ vec /\ count > 0 => k \in [1 .. count' -> Nodes] /\ Spells(k)'
  <1>2. /\ vec' = vec /\ tail' = tail /\ next' = next /\ data' = data
        /\ heap' = heap /\ owned' = owned /\ status' = status
    BY DEF vector_pop_head
  <1>3. CASE ~ (vec /\ count > 0)
    <2>1. head' = head /\ count' = count /\ popped' = popped /\ result' = NULL
      BY <1>3 DEF vector_pop_head, Return
    <2>2. Spells(l)' /\ Owns(l)'
      BY <1>2, <2>1 DEF Spells, Owns, Cells, DataIn
    <2>3. vec' \in BOOLEAN /\ (~vec' => count' = 0)
      BY <1>2, <2>1, ListTypes
    <2>4. l \in [1 .. count' -> Nodes] /\ count' \in Nat
      BY <2>1, ListTypes
    <2>5. result' \in Pointers
      BY <2>1 DEF Pointers
    <2> QED
      BY <1>2, <1>3, <2>1, <2>2, <2>3, <2>4, <2>5, ListTypes, NewList
  <1>4. CASE vec /\ count > 0
    <2>1. /\ head' = IF count = 1 THEN NULL ELSE next[head]
          /\ count' = count - 1 /\ popped' = popped \cup {head} /\ result' = head
      BY <1>4 DEF vector_pop_head, Return
    <2>2. /\ k \in [1 .. count' -> Nodes] /\ count - 1 \in Nat
          /\ \A i \in 1 .. count - 1 : k[i] = l[i + 1] /\ i + 1 \in 1 .. count
      BY <1>4, <2>1, ListTypes
    <2>3. 1 \in 1 .. count /\ head = l[1] /\ head \in Nodes
      BY <1>4, ListTypes DEF Spells
    <2>4. Cells(k)' = Cells(l) \ {head}
      <3>1. \A i \in 1 .. count : i # 1 =>
               i - 1 \in 1 .. count - 1 /\ k[i - 1] = l[i] /\ l[i] # l[1]
        BY <2>3, ListTypes DEF Spells
      <3>2. \A i \in 1 .. count - 1 : l[i + 1] # l[1]
        BY <2>2, <2>3, ListTypes DEF Spells
      <3> QED
        BY <2>1, <2>2, <2>3, <3>1, <3>2 DEF Cells
    <2>5. Spells(k)'
      <3>1. \A i, j \in 1 .. count - 1 : k[i] = k[j] => i = j
        <4> SUFFICES ASSUME NEW i \in 1 .. count - 1, NEW j \in 1 .. count - 1, k[i] = k[j]
                     PROVE  i = j
          OBVIOUS
        <4>1. i + 1 = j + 1
          BY <2>2 DEF Spells
        <4> QED
          BY <2>2, <4>1
      <3>2. head' = IF count - 1 = 0 THEN NULL ELSE k[1]
        <4>1. next[head] = IF 1 = count THEN NULL ELSE l[2]
          BY <2>3 DEF Spells
        <4> QED
          BY <2>1, <2>2, <4>1, ListTypes
      <3>3. count - 1 > 0 => tail' = k[count - 1]
        BY <1>2, <1>4, <2>2, ListTypes DEF Spells
      <3>4. ASSUME NEW i \in 1 .. count - 1
            PROVE  next'[k[i]] = IF i = count - 1 THEN NULL ELSE k[i + 1]
        <4>1. next[l[i + 1]] = IF i + 1 = count THEN NULL ELSE l[i + 2]
          BY <2>2 DEF Spells
        <4>2. i # count - 1 => k[i + 1] = l[i + 2]
          BY <2>2
        <4> QED
          BY <1>2, <2>2, <4>1, <4>2, ListTypes
      <3> QED
        BY <2>1, <3>1, <3>2, <3>3, <3>4 DEF Spells
    <2>6. Owns(k)'
      <3>1. head \in Cells(l)
        BY <2>3 DEF Cells
      <3>2. (Cells(k) \cup popped)' = Cells(l) \cup popped /\ (Cells(k) \cap popped)' = {}
        BY <2>1, <2>4, <3>1 DEF Owns
      <3> QED
        BY <1>2, <3>2 DEF Owns, DataIn
    <2>7. vec' \in BOOLEAN /\ (~vec' => count' = 0)
      BY <1>2, <1>4
    <2>8. count' \in Nat /\ result' \in Pointers /\ popped' \subseteq Nodes
      BY <2>1, <2>2, <2>3, ListTypes DEF Pointers
    <2> QED
      BY <1>2, <2>2, <2>5, <2>6, <2>7, <2>8, ListTypes, NewList
  <1> QED
    BY <1>3, <1>4

\* The linked nodes are those of the list.
LEMMA LinkedCells ==
    ASSUME ListInv, NEW l \in [1 .. count -> Nodes], Spells(l)
    PROVE  Linked = Cells(l)
  <1>1. \A i \in 1 .. count : Walk[i] = l[i]
    BY ListTypes, WalkOfList
  <1>2. CASE vec
    BY <1>1, <1>2 DEF Linked, Cells
  <1>3. CASE ~vec
    BY <1>3, ListTypes DEF Linked, Cells
  <1> QED
    BY <1>2, <1>3

\* A new vector is empty, and so is the NULL left of a freed one.
LEMMA mk_vectorList == ListInv /\ mk_vector => ListInv'
  <1> SUFFICES ASSUME ListInv, mk_vector PROVE ListInv'
    OBVIOUS
  <1>1. PICK l \in [1 .. count -> Nodes] : Spells(l) /\ Owns(l)
    BY DEF ListInv
  <1>2. /\ ~vec /\ vec' = TRUE /\ head' = NULL /\ tail' = NULL /\ count' = 0
        /\ next' = next /\ data' = data /\ heap' = heap /\ owned' = owned
        /\ popped' = popped /\ status' = status /\ result' = NULL
    BY DEF mk_vector, Return
  <1>3. count = 0
    BY <1>2, ListTypes
  <1>4. l \in [1 .. count' -> Nodes] /\ Spells(l)' /\ Owns(l)'
    BY <1>1, <1>2, <1>3 DEF Spells, Owns, Cells, DataIn
  <1>5. count' \in Nat /\ tail' \in Pointers /\ result' \in Pointers
    BY <1>2 DEF Pointers
  <1>6. vec' \in BOOLEAN /\ (~vec' => count' = 0)
    BY <1>2
  <1> QED
    BY <1>2, <1>4, <1>5, <1>6, ListTypes, NewList

\* vector_free leaves no list, and nothing in it to be counted.
LEMMA vector_freeList == ListInv /\ vector_free => ListInv'
  <1> SUFFICES ASSUME ListInv, vector_free PROVE ListInv'
    OBVIOUS
  <1>1. PICK l \in [1 .. count -> Nodes] : Spells(l) /\ Owns(l)
    BY DEF ListInv
  <1>2. /\ vec' = FALSE /\ head' = NULL /\ tail' = NULL /\ count' = 0
        /\ next' = next /\ data' = data
        /\ heap' = heap \ Linked /\ owned' = owned \ DataIn(Linked)
        /\ popped' = popped /\ status' = status /\ result' = NULL
    BY DEF vector_free, Return
  <1>k. PICK k : k = [i \in 1 .. 0 |-> NULL]
    OBVIOUS
  <1>3. Linked = Cells(l)
    BY <1>1, LinkedCells
  <1>4. k \in [1 .. count' -> Nodes] /\ Spells(k)' /\ Cells(k)' = {}
    BY <1>k, <1>2 DEF Spells, Cells
  <1>5. Owns(k)'
    BY <1>1, <1>2, <1>3, <1>4 DEF Owns, DataIn
  <1>6. count' \in Nat /\ tail' \in Pointers /\ result' \in Pointers
    BY <1>2 DEF Pointers
  <1>7. vec' \in BOOLEAN /\ (~vec' => count' = 0)
    BY <1>2
  <1>8. heap' \subseteq Nodes /\ owned' \subseteq Data
    BY <1>2, ListTypes
  <1> QED
    BY <1>2, <1>4, <1>5, <1>6, <1>7, <1>8, ListTypes, NewList

\* The caller frees a popped node, which no list has, with data no other holds.
LEMMA caller_free_nodeList ==
    ASSUME ListInv, NEW n \in Nodes, caller_free_node(n)
    PROVE  ListInv'
  <1>1. PICK l \in [1 .. count -> Nodes] : Spells(l) /\ Owns(l)
    BY DEF ListInv
  <1>2. /\ n \in popped /\ heap' = heap \ {n} /\ owned' = owned \ {data[n]}
        /\ popped' = popped \ {n}
        /\ vec' = vec /\ head' = head /\ tail' = tail /\ count' = count
        /\ next' = next /\ data' = data /\ result' = result /\ status' = status
    BY DEF caller_free_node, fields
  <1>3. l \in [1 .. count' -> Nodes] /\ Spells(l)'
    BY <1>1, <1>2 DEF Spells
  <1>4. Cells(l)' = Cells(l) /\ n \notin Cells(l)
    BY <1>1, <1>2 DEF Owns, Cells
  <1>5. Owns(l)'
    <2>1. (Cells(l) \cup popped)' = (Cells(l) \cup popped) \ {n}
      BY <1>2, <1>4
    <2> HIDE DEF Cells
    <2> QED
      BY <1>1, <1>2, <1>4, <2>1 DEF Owns, DataIn
  <1>6. TypeOK'
    BY <1>2, ListTypes DEF TypeOK
  <1> QED
    BY <1>2, <1>3, <1>5, <1>6, ListTypes DEF ListInv

\* The caller frees data that no node holds.
LEMMA caller_free_dataList ==
    ASSUME ListInv, NEW d \in Data, caller_free_data(d)
    PROVE  ListInv'
  <1>1. PICK l \in [1 .. count -> Nodes] : Spells(l) /\ Owns(l)
    BY DEF ListInv
  <1>2. /\ d \notin DataIn(Linked \cup popped) /\ owned' = owned \ {d}
        /\ vec' = vec /\ head' = head /\ tail' = tail /\ count' = count
        /\ next' = next /\ data' = data /\ heap' = heap /\ popped' = popped
        /\ result' = result /\ status' = status
    BY DEF caller_free_data, fields
  <1>3. Linked = Cells(l)
    BY <1>1, LinkedCells
  <1>4. l \in [1 .. count' -> Nodes] /\ Spells(l)' /\ Owns(l)'
    BY <1>1, <1>2, <1>3 DEF Spells, Owns, Cells, DataIn
  <1>5. TypeOK'
    BY <1>2, ListTypes DEF TypeOK
  <1> QED
    BY <1>2, <1>4, <1>5, ListTypes DEF ListInv

\* A call that fails, and one that only reads the vector.
LEMMA ReadingList ==
    ASSUME ListInv, Fail \/ vector_top \/ vector_length
    PROVE  ListInv'
  <1>1. UNCHANGED <<vec, fields, heap, owned, popped>>
    BY DEF Fail, vector_top, vector_length
  <1>2. TypeOK'
    <2>1. count \in 0 .. Cardinality(Nodes) /\ 0 \in 0 .. Cardinality(Nodes)
      BY ListTypes DEF TypeOK
    <2>2. result' \in Pointers \cup 0 .. Cardinality(Nodes)
      BY <2>1, ListTypes DEF TypeOK, Fail, vector_top, vector_length, Return, Pointers
    <2>3. status' \in {"running", "log_error"}
      BY ListTypes DEF Fail, vector_top, vector_length
    <2> QED
      BY <1>1, <2>2, <2>3, ListTypes DEF TypeOK, fields
  <1> QED
    BY <1>1, <1>2, SameList

\* get_nth_node only reads the list.
LEMMA get_nth_nodeList ==
    ASSUME ListInv, NEW n \in 0 .. Cardinality(Nodes), get_nth_node(n)
    PROVE  ListInv'
  <1>1. PICK l \in [1 .. count -> Nodes] : Spells(l) /\ Owns(l)
    BY DEF ListInv
  <1>2. CASE vec /\ n > count
    BY <1>2, ReadingList DEF get_nth_node
  <1>3. CASE ~ (vec /\ n > count)
    <2>1. /\ UNCHANGED <<vec, fields, heap, owned, popped, status>>
          /\ result' = IF ~vec THEN NULL ELSE IF n = 0 THEN head ELSE Walk[n]
      BY <1>3 DEF get_nth_node, Return
    <2>2. ASSUME vec, n # 0 PROVE Walk[n] \in Nodes
      <3>1. n \in 1 .. count
        BY <1>3, <2>2, ListTypes
      <3> QED
        BY <1>1, <3>1, ListTypes, WalkOfList
    <2>3. result' \in Pointers
      BY <2>1, <2>2, ListTypes DEF Pointers
    <2>4. TypeOK'
      BY <2>1, <2>3, ListTypes DEF TypeOK, fields
    <2> QED
      BY <2>1, <2>4, SameList
  <1> QED
    BY <1>2, <1>3

\* Every step keeps the invariant.
LEMMA NextList == ListInv /\ [Next]_vars => ListInv'
  <1> SUFFICES ASSUME ListInv, [Next]_vars PROVE ListInv'
    OBVIOUS
  <1>0. PICK l \in [1 .. count -> Nodes] : Spells(l) /\ Owns(l)
    BY DEF ListInv
  <1>1. CASE UNCHANGED vars
    <2>1. UNCHANGED <<vec, fields, heap, owned, popped>> /\ UNCHANGED <<result, status>>
      BY <1>1 DEF vars, fields
    <2>2. TypeOK'
      BY <2>1, ListTypes DEF TypeOK, fields
    <2> QED
      BY <2>1, <2>2, SameList
  <1>2. CASE mk_vector
    BY <1>2, mk_vectorList
  <1>3. ASSUME NEW n \in Nodes, NEW d \in Data, vector_add(n, d) PROVE ListInv'
    BY <1>3, <1>0, vector_addList
  <1>4. ASSUME NEW n \in Nodes, NEW d \in Data, vector_prepend(n, d) PROVE ListInv'
    BY <1>4, <1>0, vector_prependList
  <1>5. CASE StoreFails \/ PopFails \/ vector_top \/ vector_length
    BY <1>5, ReadingList DEF StoreFails, PopFails
  <1>6. CASE vector_pop
    BY <1>6, <1>0, vector_popList
  <1>7. CASE vector_pop_head
    BY <1>7, <1>0, vector_pop_headList
  <1>8. ASSUME NEW n \in 0 .. Cardinality(Nodes), get_nth_node(n) PROVE ListInv'
    BY <1>8, get_nth_nodeList
  <1>9. CASE vector_free
    BY <1>9, vector_freeList
  <1>10. ASSUME NEW n \in Nodes, caller_free_node(n) PROVE ListInv'
    BY <1>10, caller_free_nodeList
  <1>11. ASSUME NEW d \in Data, caller_free_data(d) PROVE ListInv'
    BY <1>11, caller_free_dataList
  <1> QED
    BY <1>1, <1>2, <1>3, <1>4, <1>5, <1>6, <1>7, <1>8, <1>9, <1>10, <1>11 DEF Next

\* The list is well linked in every reachable state.
LEMMA SpecList == Spec => []ListInv
  BY InitList, NextList, PTL DEF Spec

-----------------------------------------------------------------------------
(* The invariants *)

\* Every variable of the vector has its type; the count is never more than the
\* addresses there are, however a call reuses them.
THEOREM VectorTypeCorrect == Spec => []TypeOK
  <1>1. ListInv => TypeOK
    BY DEF ListInv
  <1> QED
    BY <1>1, SpecList, PTL

\* After any calls of vector_add, vector_prepend, vector_pop, vector_pop_head and
\* vector_free the list from head has count allocated nodes, all different, ends
\* in NULL, and tail is its last node.
THEOREM ListIsCounted == Spec => []ListMatchesCount
  <1>1. ListInv => ListMatchesCount
    <2> SUFFICES ASSUME ListInv, vec PROVE ListMatchesCount
      BY DEF ListMatchesCount
    <2>1. PICK l \in [1 .. count -> Nodes] : Spells(l) /\ Owns(l)
      BY DEF ListInv
    <2>2. Walk[count + 1] = NULL /\ \A i \in 1 .. count : Walk[i] = l[i]
      BY <2>1, ListTypes, WalkOfList
    <2>3. Linked \subseteq heap
      BY <2>1, LinkedCells DEF Owns
    <2>4. IsInjective([i \in 1 .. count |-> Walk[i]])
      BY <2>1, <2>2 DEF IsInjective, Spells
    <2>5. count > 0 => tail = Walk[count]
      BY <2>1, <2>2, ListTypes DEF Spells
    <2> QED
      BY <2>2, <2>3, <2>4, <2>5 DEF ListMatchesCount
  <1> QED
    BY <1>1, SpecList, PTL

\* A node of the list, and one that vector_pop_head gave away, is allocated and
\* holds data that nobody has freed, and no node is both.
THEOREM DataOutlivesNodes == Spec => []NoDanglingData
  <1>1. ListInv => NoDanglingData
    <2> SUFFICES ASSUME ListInv PROVE NoDanglingData
      OBVIOUS
    <2>1. PICK l \in [1 .. count -> Nodes] : Spells(l) /\ Owns(l)
      BY DEF ListInv
    <2>2. Linked = Cells(l)
      BY <2>1, LinkedCells
    <2> QED
      BY <2>1, <2>2 DEF NoDanglingData, Owns
  <1> QED
    BY <1>1, SpecList, PTL

-----------------------------------------------------------------------------
(* The vector implements Deque *)

\* The contents are the data of the list, first to last.
LEMMA ContentsOfList ==
    \A l : ListInv /\ l \in [1 .. count -> Nodes] /\ Spells(l)
          => Contents = [i \in 1 .. count |-> data[l[i]]]
  <1> SUFFICES ASSUME ListInv, NEW l \in [1 .. count -> Nodes], Spells(l)
               PROVE  Contents = [i \in 1 .. count |-> data[l[i]]]
    OBVIOUS
  <1>1. CASE vec
    <2>1. \A i \in 1 .. count : Walk[i] = l[i]
      BY ListTypes, WalkOfList
    <2> QED
      BY <1>1, <2>1 DEF Contents
  <1>2. CASE ~vec
    <2>1. count = 0 /\ Contents = << >>
      BY <1>2, ListTypes DEF Contents
    <2> QED
      BY <2>1
  <1> QED
    BY <1>1, <1>2

\* The same of the state after a step.
LEMMA NextContents ==
    ASSUME ListInv', NEW k \in [1 .. count' -> Nodes], Spells(k)'
    PROVE  Contents' = [i \in 1 .. count' |-> data'[k[i]]]
  <1>1. (\A l : ListInv /\ l \in [1 .. count -> Nodes] /\ Spells(l)
              => Contents = [i \in 1 .. count |-> data[l[i]]])'
    BY ContentsOfList, PTL
  <1> QED
    BY <1>1

\* The contents are a sequence of data, as long as the count says.
LEMMA ContentsTypes ==
    ASSUME ListInv, NEW l \in [1 .. count -> Nodes], Spells(l), Owns(l)
    PROVE  /\ Contents \in Seq(Data) /\ Len(Contents) = count
           /\ \A i \in 1 .. count : Contents[i] = data[l[i]] /\ data[l[i]] \in Data
  <1>1. Contents = [i \in 1 .. count |-> data[l[i]]]
    BY ContentsOfList
  <1>2. \A i \in 1 .. count : data[l[i]] \in Data
    BY ListTypes DEF Owns, Cells, DataIn
  <1> QED
    BY <1>1, <1>2, ListTypes

\* result as Deque sees it.
DequeResult == IF result \in Nodes THEN data[result] ELSE result

\* vector_add adds at the end of the deque.
LEMMA vector_addDeque ==
    ASSUME ListInv, NEW n \in Nodes, NEW d \in Data, vector_add(n, d)
    PROVE  D!AddLast(d)
  <1>1. PICK l \in [1 .. count -> Nodes] : Spells(l) /\ Owns(l)
    BY DEF ListInv
  <1>2. PICK k : k = [i \in 1 .. count + 1 |-> IF i = count + 1 THEN n ELSE l[i]]
    OBVIOUS
  <1>3. k \in [1 .. count' -> Nodes] /\ Spells(k)' /\ ListInv'
    BY <1>1, <1>2, vector_addList
  <1>4. Contents' = [i \in 1 .. count' |-> data'[k[i]]]
    BY <1>3, NextContents
  <1>5. /\ Contents \in Seq(Data) /\ Len(Contents) = count
        /\ \A i \in 1 .. count : Contents[i] = data[l[i]] /\ data[l[i]] \in Data
    BY <1>1, ContentsTypes
  <1>6. /\ n \notin heap /\ count' = count + 1 /\ data' = [data EXCEPT ![n] = d]
        /\ result' = NULL
    BY DEF vector_add, NewNode, Return
  <1>7. \A i \in 1 .. count : data'[l[i]] = data[l[i]]
    <2>1. \A i \in 1 .. count : l[i] # n
      BY <1>1, <1>6 DEF Owns, Cells
    <2> QED
      BY <1>6, <2>1, ListTypes
  <1>8. data'[n] = d
    BY <1>6, ListTypes
  <1>9. Contents' = Append(Contents, d)
    <2>1. Contents' = [i \in 1 .. count + 1 |-> IF i = count + 1 THEN d ELSE Contents[i]]
      BY <1>2, <1>4, <1>5, <1>6, <1>7, <1>8, ListTypes
    <2> QED
      BY <1>5, <2>1, AppendByElement
  <1> QED
    BY <1>6, <1>9, VectorAssumption DEF D!AddLast

\* vector_prepend adds at its front.
LEMMA vector_prependDeque ==
    ASSUME ListInv, NEW n \in Nodes, NEW d \in Data, vector_prepend(n, d)
    PROVE  D!AddFirst(d)
  <1>1. PICK l \in [1 .. count -> Nodes] : Spells(l) /\ Owns(l)
    BY DEF ListInv
  <1>2. PICK k : k = [i \in 1 .. count + 1 |-> IF i = 1 THEN n ELSE l[i - 1]]
    OBVIOUS
  <1>3. k \in [1 .. count' -> Nodes] /\ Spells(k)' /\ ListInv'
    BY <1>1, <1>2, vector_prependList
  <1>4. Contents' = [i \in 1 .. count' |-> data'[k[i]]]
    BY <1>3, NextContents
  <1>5. /\ Contents \in Seq(Data) /\ Len(Contents) = count
        /\ \A i \in 1 .. count : Contents[i] = data[l[i]] /\ data[l[i]] \in Data
    BY <1>1, ContentsTypes
  <1>6. /\ n \notin heap /\ count' = count + 1 /\ data' = [data EXCEPT ![n] = d]
        /\ result' = NULL
    BY DEF vector_prepend, NewNode, Return
  <1>7. \A i \in 1 .. count : data'[l[i]] = data[l[i]]
    <2>1. \A i \in 1 .. count : l[i] # n
      BY <1>1, <1>6 DEF Owns, Cells
    <2> QED
      BY <1>6, <2>1, ListTypes
  <1>8. data'[n] = d
    BY <1>6, ListTypes
  <1>9. Contents' = <<d>> \o Contents
    <2>1. ASSUME NEW i \in 1 .. count + 1
          PROVE  data'[k[i]] = IF i = 1 THEN d ELSE Contents[i - 1]
      <3>1. i # 1 => i - 1 \in 1 .. count
        BY ListTypes
      <3> QED
        BY <1>2, <1>5, <1>7, <1>8, <3>1
    <2>2. Contents' = [i \in 1 .. count + 1 |-> IF i = 1 THEN d ELSE Contents[i - 1]]
      BY <1>4, <1>6, <2>1
    <2> QED
      BY <1>5, <2>2, PrependByElement
  <1> QED
    BY <1>6, <1>9, VectorAssumption DEF D!AddFirst

\* vector_pop drops its last element.
LEMMA vector_popDeque ==
    ASSUME ListInv, vector_pop
    PROVE  D!DropLast
  <1>1. PICK l \in [1 .. count -> Nodes] : Spells(l) /\ Owns(l)
    BY DEF ListInv
  <1>2. PICK k : k = [i \in 1 .. count - 1 |-> l[i]]
    OBVIOUS
  <1>3. k \in [1 .. count' -> Nodes] /\ Spells(k)' /\ ListInv'
    BY <1>1, <1>2, vector_popList
  <1>4. Contents' = [i \in 1 .. count' |-> data'[k[i]]]
    BY <1>3, NextContents
  <1>5. /\ Contents \in Seq(Data) /\ Len(Contents) = count
        /\ \A i \in 1 .. count : Contents[i] = data[l[i]] /\ data[l[i]] \in Data
    BY <1>1, ContentsTypes
  <1>6. count > 0 /\ count' = count - 1 /\ data' = data /\ result' = NULL
    BY DEF vector_pop, Return
  <1>7. Contents # << >>
    BY <1>5, <1>6, EmptySeq
  <1>8. Contents' = Front(Contents)
    <2>1. \A i \in 1 .. count - 1 : data'[k[i]] = Contents[i]
      BY <1>2, <1>5, <1>6, ListTypes
    <2>2. Contents' = [i \in 1 .. count - 1 |-> Contents[i]]
      BY <1>4, <1>6, <2>1
    <2> QED
      BY <1>5, <1>7, <2>2, FrontByElement
  <1> QED
    BY <1>6, <1>7, <1>8, VectorAssumption DEF D!DropLast, D!Front, Front

\* The first element of the contents is what the head holds.
LEMMA FirstElement ==
    ASSUME ListInv, NEW l \in [1 .. count -> Nodes], Spells(l), Owns(l)
    PROVE  /\ Contents = << >> <=> count = 0
           /\ count # 0 => /\ vec /\ head \in Nodes /\ head = l[1]
                           /\ Head(Contents) = data[head] /\ Contents[1] = data[head]
  <1>1. /\ Contents \in Seq(Data) /\ Len(Contents) = count
        /\ \A i \in 1 .. count : Contents[i] = data[l[i]] /\ data[l[i]] \in Data
    BY ContentsTypes
  <1>2. Contents = << >> <=> count = 0
    BY <1>1, EmptySeq
  <1>3. count # 0 => 1 \in 1 .. count /\ head = l[1]
    BY ListTypes DEF Spells
  <1>4. count # 0 => vec
    BY ListTypes
  <1>5. Contents # << >> => Head(Contents) = Contents[1]
    BY <1>1
  <1> QED
    BY <1>1, <1>2, <1>3, <1>4, <1>5

\* vector_pop_head takes its first.
LEMMA vector_pop_headDeque ==
    ASSUME ListInv, vector_pop_head
    PROVE  D!TakeFirst
  <1>1. PICK l \in [1 .. count -> Nodes] : Spells(l) /\ Owns(l)
    BY DEF ListInv
  <1>2. PICK k : k = [i \in 1 .. count - 1 |-> l[i + 1]]
    OBVIOUS
  <1>3. ListInv' /\ (vec /\ count > 0 => k \in [1 .. count' -> Nodes] /\ Spells(k)')
    BY <1>1, <1>2, vector_pop_headList
  <1>4. data' = data /\ vec' = vec
    BY DEF vector_pop_head
  <1>5. CASE count = 0
    <2>1. /\ head' = head /\ count' = count /\ result' = NULL /\ next' = next
          /\ tail' = tail
      BY <1>5 DEF vector_pop_head, Return
    <2>2. l \in [1 .. count' -> Nodes] /\ Spells(l)'
      BY <1>1, <2>1 DEF Spells
    <2>3. Contents' = [i \in 1 .. count' |-> data'[l[i]]]
      BY <1>3, <2>2, NextContents
    <2>4. Contents = << >>
      BY <1>1, <1>5, FirstElement
    <2>5. Contents' = << >>
      BY <1>5, <2>1, <2>3
    <2> QED
      BY <2>1, <2>4, <2>5, VectorAssumption DEF D!TakeFirst
  <1>6. CASE count # 0
    <2>1. /\ vec /\ head \in Nodes /\ Contents # << >>
          /\ Head(Contents) = data[head]
      BY <1>1, <1>6, FirstElement
    <2>2. count > 0 /\ count' = count - 1 /\ result' = head
      BY <1>6, <2>1, ListTypes DEF vector_pop_head, Return
    <2>3. Contents' = [i \in 1 .. count' |-> data'[k[i]]]
      BY <1>3, <2>1, <2>2, NextContents
    <2>4. /\ Contents \in Seq(Data) /\ Len(Contents) = count
          /\ \A i \in 1 .. count : Contents[i] = data[l[i]]
      BY <1>1, ContentsTypes
    <2>5. Contents' = Tail(Contents)
      <3>1. \A i \in 1 .. count - 1 : i + 1 \in 1 .. count /\ data'[k[i]] = Contents[i + 1]
        BY <1>2, <1>4, <2>4, ListTypes
      <3>2. Contents' = [i \in 1 .. count - 1 |-> Contents[i + 1]]
        BY <2>2, <2>3, <3>1
      <3> QED
        BY <2>1, <2>4, <3>2, TailByElement
    <2> QED
      BY <1>4, <2>1, <2>2, <2>5 DEF D!TakeFirst
  <1> QED
    BY <1>5, <1>6

\* A vector that is not there, or is freed, has no contents.
LEMMA EmptyDeque ==
    ASSUME ListInv, mk_vector \/ vector_free
    PROVE  D!Clear
  <1>1. ListInv' /\ count' = 0 /\ result' = NULL
    BY mk_vectorList, vector_freeList DEF mk_vector, vector_free, Return
  <1>2. PICK k \in [1 .. count' -> Nodes] : Spells(k)'
    BY <1>1 DEF ListInv
  <1>3. Contents' = [i \in 1 .. count' |-> data'[k[i]]]
    BY <1>1, <1>2, NextContents
  <1>4. Contents' = << >>
    BY <1>1, <1>3
  <1> QED
    BY <1>1, <1>4, VectorAssumption DEF D!Clear

\* Where neither the list nor the data changes, the contents do not.
LEMMA SameContents ==
    ASSUME ListInv, UNCHANGED <<vec, fields>>
    PROVE  UNCHANGED Contents
  <1>1. /\ vec' = vec /\ head' = head /\ count' = count /\ next' = next /\ data' = data
    BY DEF fields
  <1>2. Walk' = Walk
    BY <1>1 DEF Walk
  <1> QED
    BY <1>1, <1>2 DEF Contents

\* What a call that only reads returns.
LEMMA ReadingDeque ==
    ASSUME ListInv
    PROVE  /\ vector_top => D!First
           /\ vector_length => D!Length
           /\ \A n \in 0 .. Cardinality(Nodes) :
                 get_nth_node(n) /\ ~ (vec /\ n > count)
                 => \E m \in 0 .. Len(Contents) : D!Nth(m)
  <1>1. PICK l \in [1 .. count -> Nodes] : Spells(l) /\ Owns(l)
    BY DEF ListInv
  <1>2. /\ Contents = << >> <=> count = 0
        /\ count # 0 => /\ vec /\ head \in Nodes /\ head = l[1]
                        /\ Head(Contents) = data[head] /\ Contents[1] = data[head]
    BY <1>1, FirstElement
  <1>3. /\ Len(Contents) = count
        /\ \A i \in 1 .. count : Contents[i] = data[l[i]]
    BY <1>1, ContentsTypes
  <1>4. count = 0 => head = NULL
    BY <1>1 DEF Spells
  <1>5. ASSUME vector_top PROVE D!First
    <2>1. UNCHANGED Contents /\ data' = data /\ result' = IF vec THEN head ELSE NULL
      BY <1>5, SameContents DEF vector_top, Return, fields
    <2> QED
      BY <1>2, <1>4, <2>1, VectorAssumption DEF D!First
  <1>6. ASSUME vector_length PROVE D!Length
    <2>1. UNCHANGED Contents /\ result' = IF vec THEN count ELSE 0
      BY <1>6, SameContents DEF vector_length, Return
    <2>2. result' = count /\ count \notin Nodes
      BY <1>2, <2>1, ListTypes, VectorAssumption
    <2> QED
      BY <1>3, <2>1, <2>2 DEF D!Length
  <1>7. ASSUME NEW n \in 0 .. Cardinality(Nodes), get_nth_node(n), ~ (vec /\ n > count)
        PROVE  \E m \in 0 .. Len(Contents) : D!Nth(m)
    <2>1. /\ UNCHANGED Contents /\ data' = data
          /\ result' = IF ~vec THEN NULL ELSE IF n = 0 THEN head ELSE Walk[n]
      BY <1>7, SameContents DEF get_nth_node, Return, fields
    <2>2. CASE ~vec \/ count = 0
      <3>1. Contents = << >> /\ count = 0
        BY <1>2, <2>2
      <3>2. result' = NULL
        BY <1>4, <1>7, <2>1, <3>1, ListTypes
      <3>3. D!Nth(0)
        BY <1>3, <2>1, <3>1, <3>2, VectorAssumption DEF D!Nth
      <3> QED
        BY <1>3, <3>1, <3>3
    <2>3. CASE vec /\ count # 0
      <3>1. n \in 0 .. count /\ n <= Len(Contents)
        BY <1>3, <1>7, <2>3, ListTypes
      <3>2. CASE n = 0
        <4>1. D!Nth(n)
          BY <1>2, <2>1, <2>3, <3>1, <3>2 DEF D!Nth
        <4> QED
          BY <1>3, <3>1, <4>1
      <3>3. CASE n # 0
        <4>1. n \in 1 .. count
          BY <3>1, <3>3, ListTypes
        <4>2. Walk[n] = l[n] /\ l[n] \in Nodes /\ Contents[n] = data[l[n]]
          BY <1>1, <1>3, <4>1, ListTypes, WalkOfList
        <4>3. D!Nth(n)
          BY <1>2, <2>1, <2>3, <3>1, <3>3, <4>2 DEF D!Nth
        <4> QED
          BY <1>3, <3>1, <4>3
      <3> QED
        BY <3>2, <3>3
    <2> QED
      BY <2>2, <2>3
  <1> QED
    BY <1>5, <1>6, <1>7

\* Every call is one of Deque's, or changes nothing that Deque sees.
LEMMA NextDeque ==
    ListInv /\ [Next]_vars => [D!Next]_<<Contents, DequeResult>>
  <1> SUFFICES ASSUME ListInv, [Next]_vars
               PROVE  [D!Next]_<<Contents, DequeResult>>
    OBVIOUS
  <1>1. ASSUME UNCHANGED <<vec, fields, result>>
        PROVE  UNCHANGED <<Contents, DequeResult>>
    <2>1. UNCHANGED <<vec, fields>> /\ result' = result /\ data' = data
      BY <1>1 DEF fields
    <2> QED
      BY <2>1, SameContents DEF DequeResult
  <1>2. CASE UNCHANGED vars \/ Fail \/ StoreFails \/ PopFails
    <2>1. UNCHANGED <<vec, fields, result>>
      BY <1>2 DEF vars, Fail, StoreFails, PopFails, fields
    <2> QED
      BY <1>1, <2>1
  <1>3. ASSUME NEW n \in Nodes, caller_free_node(n)
        PROVE  UNCHANGED <<Contents, DequeResult>>
    BY <1>1, <1>3 DEF caller_free_node
  <1>4. ASSUME NEW d \in Data, caller_free_data(d)
        PROVE  UNCHANGED <<Contents, DequeResult>>
    BY <1>1, <1>4 DEF caller_free_data
  <1>5. ASSUME NEW n \in Nodes, NEW d \in Data, vector_add(n, d) \/ vector_prepend(n, d)
        PROVE  D!Next
    BY <1>5, vector_addDeque, vector_prependDeque DEF D!Next
  <1>6. CASE mk_vector \/ vector_free
    BY <1>6, EmptyDeque DEF D!Next
  <1>7. CASE vector_pop \/ vector_pop_head
    BY <1>7, vector_popDeque, vector_pop_headDeque DEF D!Next
  <1>8. CASE vector_top \/ vector_length
    BY <1>8, ReadingDeque DEF D!Next
  <1>9. ASSUME NEW n \in 0 .. Cardinality(Nodes), get_nth_node(n)
        PROVE  [D!Next]_<<Contents, DequeResult>>
    <2>1. CASE vec /\ n > count
      BY <1>2, <1>9, <2>1 DEF get_nth_node
    <2>2. CASE ~ (vec /\ n > count)
      BY <1>9, <2>2, ReadingDeque DEF D!Next
    <2> QED
      BY <2>1, <2>2
  <1> QED
    BY <1>2, <1>3, <1>4, <1>5, <1>6, <1>7, <1>8, <1>9 DEF Next

\* A vector is what vector.h promises: whatever calls are made, and whichever
\* addresses calloc hands out again, its contents and what the calls return are
\* those of a list that grows and shrinks at both ends.
THEOREM VectorImplementsDeque == Spec => DequeSpec
  <1>1. Init => D!Init
    BY VectorAssumption DEF Init, D!Init, Contents
  <1> QED
    BY <1>1, NextDeque, SpecList, PTL DEF Spec, DequeSpec, D!Spec, DequeResult
=============================================================================
