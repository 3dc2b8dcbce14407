----------------------------- MODULE HashTable -----------------------------
(***************************************************************************)
(* hashtable.c: the table of one scope, an array of MAX_SLOTS chains of     *)
(* bindings.  A chain is a vector (vector.c); module Vector shows that a     *)
(* vector behaves as the sequence it stands for, so a chain is a sequence    *)
(* here.  The state lives in the modules that hold tables; this one has the  *)
(* operations.                                                              *)
(***************************************************************************)
EXTENDS Naturals, Sequences, SequencesExt

CONSTANTS
    Names,      \* the identifiers a program may use
    Hash,       \* ht_hash_FNV_1a, as a function of the name
    MAX_SLOTS,  \* the number of slots of a table
    NULL        \* the C null pointer

ASSUME HashTableAssumption ==
    /\ Hash \in [Names -> Nat]
    /\ MAX_SLOTS \in Nat \ {0}

SlotOf(key) == Hash[key] % MAX_SLOTS

\* The slots some name hashes to: every other slot stays NULL for ever.
Slots == {SlotOf(key) : key \in Names}

ht_new == [slot \in Slots |-> << >>]

ht_insert(ht, key, data) == [ht EXCEPT ![SlotOf(key)] = Append(@, data)]

\* Mutated: every chain is searched by name.
ht_lookup_ByName(ht, key) ==
    LET chain == ht[SlotOf(key)]
        match == SelectInSeq(chain, LAMBDA binding : binding.name = key)
    IN  IF match = 0 THEN NULL ELSE chain[match]

\* A chain of one entry is returned without comparing its name: only a longer
\* chain is searched with ht_compare_binding.
ht_lookup(ht, key) ==
    LET chain == ht[SlotOf(key)]
        match == SelectInSeq(chain, LAMBDA binding : binding.name = key)
    IN  IF Len(chain) = 1 THEN chain[1]
        ELSE IF match = 0 THEN NULL
        ELSE chain[match]
=============================================================================
