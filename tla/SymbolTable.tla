---------------------------- MODULE SymbolTable ----------------------------
(***************************************************************************)
(* symtab.c and the two functions of typechecker.c that push and pop a      *)
(* scope.  The doubly linked chain of symtab_t from the global scope to      *)
(* curr_scope is a sequence: scopes[1] is symbol_table, the last element is  *)
(* curr_scope, scopes[i].prev is scopes[i-1] and level is the index less 1.  *)
(***************************************************************************)
EXTENDS HashTable

SymbolTypes == {"FUNCTION", "VARIABLE", "FORMAL", "STRUCTURE", "MEMBER"}

DataTypes == {"D_INTEGER", "D_FLOAT", "D_STRING", "D_BOOLEAN", "D_VOID",
              "D_NIL", "D_STRUCT", "D_UNKNOWN"}

\* An entry of a formals or members vector.
Params == [name : Names, type : DataTypes, struct_type : Names]

(***************************************************************************)
(* binding_t.  The four arms of the union data share their layout, and the   *)
(* code reads an arm without looking at symbol_type, so one record stands    *)
(* for all of them: type (offset 0: return_type, type), struct_type (offset  *)
(* 4: struct_type, parent_struct), num_args (calloc's 0 in the other arms)   *)
(* and list (formals or members at one offset, calloc's NULL in the others). *)
(***************************************************************************)
Bindings == [name : Names, symbol_type : SymbolTypes, type : DataTypes,
             struct_type : Names, num_args : Nat,
             list : Seq(Params) \cup {NULL}]

ASSUME SymbolTableAssumption ==
    /\ "" \in Names             \* what a zeroed name buffer holds
    /\ NULL \notin Bindings
    /\ NULL \notin Seq(Params)

Tables == [Slots -> Seq(Bindings)]
Scopes == [name : Names, table : Tables]

symtab_new(name) == [name |-> name, table |-> ht_new]

\* Mutated: declares in symbol_table instead of curr_scope.
symtab_insert_Global(scopes, binding) ==
    [scopes EXCEPT ![1].table = ht_insert(@, binding.name, binding)]

symtab_insert(scopes, binding) ==
    [scopes EXCEPT ![Len(scopes)].table = ht_insert(@, binding.name, binding)]

\* The lookup that starts at scopes[level] with single_scope = TRUE.
symtab_lookup_single(scopes, level, identifier) ==
    ht_lookup(scopes[level].table, identifier)

\* Mutated: does not go on to the parents.
symtab_lookup_NoParents(scopes, level, identifier) ==
    IF level = 0 THEN NULL ELSE symtab_lookup_single(scopes, level, identifier)

\* Mutated: starts at symbol_table and goes inwards.
symtab_lookup_Outermost(scopes, level, identifier) ==
    LET answers == {i \in 1 .. level :
                      symtab_lookup_single(scopes, i, identifier) # NULL}
    IN  IF answers = {} THEN NULL
        ELSE symtab_lookup_single(scopes, Min(answers), identifier)

\* The lookup that starts at scopes[level] and goes on to its parents: the
\* innermost scope whose table answers.
symtab_lookup(scopes, level, identifier) ==
    LET answers == {i \in 1 .. level :
                      symtab_lookup_single(scopes, i, identifier) # NULL}
    IN  IF answers = {} THEN NULL
        ELSE symtab_lookup_single(scopes, Max(answers), identifier)

enter_new_scope(scopes, name) == Append(scopes, symtab_new(name))

leave_curr_scope(scopes) == Front(scopes)
=============================================================================
