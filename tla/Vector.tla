------------------------------- MODULE Vector -------------------------------
(***************************************************************************)
(* vector.c at the level of its pointers: one vector, its nodes on the heap  *)
(* and the data its clients store.  Nodes are addresses; calloc may hand out  *)
(* any address that is not in use, so a freed one comes back.  A client       *)
(* stores a pointer it has just allocated (every caller in src/ does), so no  *)
(* pointer is stored twice.                                                 *)
(***************************************************************************)
EXTENDS Naturals, Sequences, SequencesExt

CONSTANTS
    Nodes,  \* bound of the model: addresses of vecnodes
    Data,   \* bound of the model: addresses of what clients store
    NULL

\* An address is neither NULL nor a number, and there are finitely many.
ASSUME VectorAssumption ==
    /\ NULL \notin Nodes /\ NULL \notin Data
    /\ Nodes \cap Nat = {}
    /\ IsFiniteSet(Nodes)

VARIABLES
    vec,     \* TRUE while the vector exists, FALSE when the pointer is NULL
    head, tail, count,
    next, data,   \* the fields of each node
    heap,    \* the nodes calloc has handed out and nobody freed
    owned,   \* the data a client allocated and nobody freed
    popped,  \* the nodes vector_pop_head gave away and the caller has not freed
    result,  \* what the last call returned, a node, a number or NULL
    status   \* running, or log_error when the process has ended

fields == <<head, tail, count, next, data>>
vars == <<vec, head, tail, count, next, data, heap, owned, popped, result, status>>

Pointers == Nodes \cup {NULL}

-----------------------------------------------------------------------------
\* The nodes from head on, as many as count says, and where the last one leads.
Walk == LET node[i \in 1 .. count + 1] ==
              IF i = 1 THEN head
              ELSE IF node[i - 1] = NULL THEN NULL
              ELSE next[node[i - 1]]
        IN  node

\* A call on a NULL vector, or one that cannot be carried out.
Fail == status' = "log_error" /\ UNCHANGED <<vec, fields, heap, owned, popped, result>>

Return(value) == result' = value

Init ==
    /\ vec = FALSE
    /\ head = NULL /\ tail = NULL /\ count = 0
    /\ next = [n \in Nodes |-> NULL]
    /\ data = [n \in Nodes |-> NULL]
    /\ heap = {} /\ owned = {} /\ popped = {}
    /\ result = NULL
    /\ status = "running"

mk_vector ==
    /\ ~vec
    /\ vec' = TRUE
    /\ head' = NULL /\ tail' = NULL /\ count' = 0
    /\ Return(NULL)
    /\ UNCHANGED <<next, data, heap, owned, popped, status>>

\* The new node a call links in, holding the pointer d of its client.
NewNode(n, d) ==
    /\ n \notin heap
    /\ d \notin owned
    /\ heap' = heap \cup {n}
    /\ owned' = owned \cup {d}
    /\ data' = [data EXCEPT ![n] = d]
    /\ count' = count + 1
    /\ Return(NULL)
    /\ UNCHANGED <<vec, popped, status>>

\* Mutated: an empty vector is told by its tail.
vector_add_TailTest(n, d) ==
    /\ vec
    /\ NewNode(n, d)
    /\ tail' = n
    /\ head' = IF tail = NULL THEN n ELSE head
    /\ next' = IF tail = NULL THEN [next EXCEPT ![n] = NULL]
               ELSE [next EXCEPT ![n] = NULL, ![tail] = n]

vector_add(n, d) ==
    /\ vec
    /\ NewNode(n, d)
    /\ tail' = n
    /\ head' = IF head = NULL THEN n ELSE head
    /\ next' = IF head = NULL THEN [next EXCEPT ![n] = NULL]
               ELSE [next EXCEPT ![n] = NULL, ![tail] = n]

vector_prepend(n, d) ==
    /\ vec
    /\ NewNode(n, d)
    /\ head' = n
    /\ tail' = IF head = NULL THEN n ELSE tail
    /\ next' = [next EXCEPT ![n] = head]

\* Storing into a NULL vector, or a NULL pointer.
StoreFails == Fail

\* Only the one node of a vector of length 1 is freed; the tail of a longer one
\* is unlinked, and free is given the NULL behind it.
vector_pop ==
    /\ vec
    /\ count > 0
    /\ count' = count - 1
    /\ Return(NULL)
    /\ IF count = 1
       THEN /\ heap' = heap \ {head}
            /\ head' = NULL
            /\ UNCHANGED <<next, tail>>
       ELSE LET penultimate == Walk[count - 1]
            IN  /\ next' = [next EXCEPT ![penultimate] = NULL]
                /\ tail' = penultimate
                /\ UNCHANGED <<head, heap>>
    /\ UNCHANGED <<vec, data, owned, popped, status>>

PopFails == vec /\ count = 0 /\ Fail

\* Mutated: the new head is returned.
vector_pop_head_New ==
    /\ Return(IF vec /\ count > 0 THEN next[head] ELSE NULL)
    /\ IF vec /\ count > 0
       THEN /\ head' = IF count = 1 THEN NULL ELSE next[head]
            /\ count' = count - 1
            /\ popped' = popped \cup {head}
       ELSE UNCHANGED <<head, count, popped>>
    /\ UNCHANGED <<vec, tail, next, data, heap, owned, status>>

\* Mutated: the empty vector is taken for one of a single node.
vector_pop_head_Empty ==
    /\ Return(IF vec THEN head ELSE NULL)
    /\ IF vec
       THEN /\ head' = IF count <= 1 THEN NULL ELSE next[head]
            /\ count' = count - 1
            /\ popped' = popped \cup {head}
       ELSE UNCHANGED <<head, count, popped>>
    /\ UNCHANGED <<vec, tail, next, data, heap, owned, status>>

\* Mutated: the head of a longer vector stays where it is.
vector_pop_head_Stays ==
    /\ Return(IF vec /\ count > 0 THEN head ELSE NULL)
    /\ IF vec /\ count > 0
       THEN /\ head' = IF count = 1 THEN NULL ELSE head
            /\ count' = count - 1
            /\ popped' = popped \cup {head}
       ELSE UNCHANGED <<head, count, popped>>
    /\ UNCHANGED <<vec, tail, next, data, heap, owned, status>>

\* The node goes to the caller; an empty or NULL vector gives NULL.
vector_pop_head ==
    /\ Return(IF vec /\ count > 0 THEN head ELSE NULL)
    /\ IF vec /\ count > 0
       THEN /\ head' = IF count = 1 THEN NULL ELSE next[head]
            /\ count' = count - 1
            /\ popped' = popped \cup {head}
       ELSE UNCHANGED <<head, count, popped>>
    /\ UNCHANGED <<vec, tail, next, data, heap, owned, status>>

vector_top ==
    /\ Return(IF vec THEN head ELSE NULL)
    /\ UNCHANGED <<vec, fields, heap, owned, popped, status>>

vector_length ==
    /\ Return(IF vec THEN count ELSE 0)
    /\ UNCHANGED <<vec, fields, heap, owned, popped, status>>

\* The walk starts at the head and takes n - 1 steps, none for n = 0.
get_nth_node(n) ==
    /\ IF vec /\ n > count THEN Fail
       ELSE /\ Return(IF ~vec THEN NULL
                      ELSE IF n = 0 THEN head ELSE Walk[n])
            /\ UNCHANGED <<vec, fields, heap, owned, popped, status>>

\* The nodes of the vector, and the pointers they hold.
Linked == IF vec THEN {Walk[i] : i \in 1 .. count} ELSE {}
DataIn(nodes) == {data[n] : n \in nodes}

\* Frees the linked nodes with what they hold, and the vector.
vector_free ==
    /\ vec
    /\ heap' = heap \ Linked
    /\ owned' = owned \ DataIn(Linked)
    /\ vec' = FALSE
    /\ head' = NULL /\ tail' = NULL /\ count' = 0
    /\ Return(NULL)
    /\ UNCHANGED <<next, data, popped, status>>

\* The caller of vector_pop_head is done with the node and with what it holds; the
\* repository's own tests keep what they pop.
caller_free_node(n) ==
    /\ n \in popped
    /\ heap' = heap \ {n}
    /\ owned' = owned \ {data[n]}
    /\ popped' = popped \ {n}
    /\ UNCHANGED <<vec, fields, result, status>>

\* "Data pointed to within the node must be freed from within the caller."
caller_free_data(d) ==
    /\ d \in owned \ DataIn(Linked \cup popped)
    /\ owned' = owned \ {d}
    /\ UNCHANGED <<vec, fields, heap, popped, result, status>>

Running == status = "running"

Next ==
    \/ Running /\ mk_vector
    \/ Running /\ \E n \in Nodes, d \in Data : vector_add(n, d)
    \/ Running /\ \E n \in Nodes, d \in Data : vector_prepend(n, d)
    \/ Running /\ StoreFails
    \/ Running /\ vector_pop
    \/ Running /\ PopFails
    \/ Running /\ vector_pop_head
    \/ Running /\ vector_top
    \/ Running /\ vector_length
    \/ Running /\ \E n \in 0 .. Cardinality(Nodes) : get_nth_node(n)
    \/ Running /\ vector_free
    \/ Running /\ \E n \in Nodes : caller_free_node(n)
    \/ Running /\ \E d \in Data : caller_free_data(d)
    \/ ~Running /\ UNCHANGED vars

Spec == Init /\ [][Next]_vars

-----------------------------------------------------------------------------
(* Properties *)

TypeOK ==
    /\ vec \in BOOLEAN
    /\ head \in Pointers /\ tail \in Pointers
    /\ count \in 0 .. Cardinality(Nodes)
    /\ next \in [Nodes -> Pointers]
    /\ data \in [Nodes -> Data \cup {NULL}]
    /\ heap \subseteq Nodes /\ popped \subseteq Nodes
    /\ owned \subseteq Data
    /\ result \in Pointers \cup 0 .. Cardinality(Nodes)
    /\ status \in {"running", "log_error"}

\* After any sequence of calls at both ends, through empty and back, the list
\* from head has count nodes, all different and allocated, ends in NULL, and
\* tail is its last node whenever there is one.
ListMatchesCount ==
    vec => /\ Walk[count + 1] = NULL
           /\ Linked \subseteq heap
           /\ IsInjective([i \in 1 .. count |-> Walk[i]])
           /\ count > 0 => tail = Walk[count]

\* A node of the list, and one that a caller took from it, holds a pointer that
\* nobody has freed, and no node is both: vector_free frees none of the popped
\* nodes and leaves none of the linked ones.
NoDanglingData ==
    /\ popped \subseteq heap
    /\ Linked \cap popped = {}
    /\ DataIn(Linked \cup popped) \subseteq owned

\* Every allocated node is in the vector or with the caller that popped it.
NoNodeIsLost == heap = Linked \cup popped

\* What the calls return and leave behind is what Deque promises.
Contents == IF vec THEN [i \in 1 .. count |-> data[Walk[i]]] ELSE << >>

D == INSTANCE Deque
        WITH contents <- Contents,
             result <- IF result \in Nodes THEN data[result] ELSE result

DequeSpec == D!Spec
=============================================================================
