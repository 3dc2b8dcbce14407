---------------------------- MODULE BlockScopes ----------------------------
(***************************************************************************)
(* What the scopes of the typechecker promise to a programmer, by name and   *)
(* without tables: a program is a nest of blocks; a declaration takes a name  *)
(* that no open block has; a formal or a member takes a name its own block    *)
(* does not have, and may hide one of an outer block; a block that ends takes *)
(* its names with it; and a program that breaks a rule is refused for good.   *)
(***************************************************************************)
EXTENDS Naturals, Sequences, SequencesExt

CONSTANTS
    Names,     \* identifiers
    MaxBlocks  \* bound of the model on the nesting of blocks

VARIABLES
    blocks,    \* the open blocks, outermost first, each a set of declarations
    accepting  \* FALSE when the program is refused or over

Kinds == {"FUNCTION", "VARIABLE", "STRUCTURE"}
ParamKinds == {"FORMAL", "MEMBER"}
Declarations == [name : Names, kind : Kinds \cup ParamKinds]

NamesOf(block) == {d.name : d \in block}
Visible == UNION {NamesOf(blocks[i]) : i \in DOMAIN blocks}

Declared(name, kind) ==
    [blocks EXCEPT ![Len(blocks)] = @ \cup {[name |-> name, kind |-> kind]}]

Init == blocks = <<{}>> /\ accepting = TRUE

Declare(name, kind) ==
    /\ name \notin Visible
    /\ blocks' = Declared(name, kind)
    /\ UNCHANGED accepting

\* A function or a structure: its name goes to the block around its own.
DeclareBlock(name, kind) ==
    /\ Len(blocks) < MaxBlocks
    /\ name \notin Visible
    /\ blocks' = Append(Declared(name, kind), {})
    /\ UNCHANGED accepting

DeclareParam(name, kind) ==
    /\ Len(blocks) > 1
    /\ name \notin NamesOf(Last(blocks))
    /\ blocks' = Declared(name, kind)
    /\ UNCHANGED accepting

Open ==
    /\ Len(blocks) < MaxBlocks
    /\ blocks' = Append(blocks, {})
    /\ UNCHANGED accepting

Close ==
    /\ Len(blocks) > 1
    /\ blocks' = Front(blocks)
    /\ UNCHANGED accepting

\* From the first branch of an if statement to its else.
CloseAndOpen ==
    /\ Len(blocks) > 1
    /\ blocks' = Append(Front(blocks), {})
    /\ UNCHANGED accepting

Stop == accepting' = FALSE /\ UNCHANGED blocks

Next ==
    /\ accepting
    /\ \/ \E name \in Names, kind \in Kinds : Declare(name, kind)
       \/ \E name \in Names, kind \in {"FUNCTION", "STRUCTURE"} : DeclareBlock(name, kind)
       \/ \E name \in Names, kind \in ParamKinds : DeclareParam(name, kind)
       \/ Open
       \/ Close
       \/ CloseAndOpen
       \/ Stop

Spec == Init /\ [][Next]_<<blocks, accepting>>
=============================================================================
