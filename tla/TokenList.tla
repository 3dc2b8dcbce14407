----------------------------- MODULE TokenList -----------------------------
(***************************************************************************)
(* token.c: the doubly linked list tokenize() appends to, the parser walks    *)
(* both ways and t_list_free() takes apart.  A list is the memory it lives    *)
(* in: a sequence of cells, the address of a cell being its index, the first   *)
(* of them HEAD.  A cell and its token are allocated, and freed, apart.        *)
(***************************************************************************)
EXTENDS Naturals, Sequences

CONSTANT NULL

HEAD == 1

Cell(token, prev) ==
    [tok |-> token, prev |-> prev, next |-> NULL, allocated |-> TRUE, tok_allocated |-> TRUE]

t_list_new == <<Cell([type |-> "T_HEAD", literal |-> <<"HEAD">>, line |-> 0], NULL)>>

t_list_next(heap, lst) == IF lst = NULL THEN NULL ELSE heap[lst].next
t_list_prev(heap, lst) == IF lst = NULL THEN NULL ELSE heap[lst].prev

\* Where the walk along next ends.
End(heap) == CHOOSE lst \in DOMAIN heap : heap[lst].next = NULL

\* Mutated: the new cell does not point back.
t_list_append_OneWay(heap, token) ==
    Append([heap EXCEPT ![End(heap)].next = Len(heap) + 1], Cell(token, NULL))

\* The new cell goes after the last.
t_list_append(heap, token) ==
    Append([heap EXCEPT ![End(heap)].next = Len(heap) + 1], Cell(token, End(heap)))

free_token(heap, lst) == [heap EXCEPT ![lst].tok_allocated = FALSE]
free_cell(heap, lst) == [heap EXCEPT ![lst].allocated = FALSE]
=============================================================================
