------------------------- MODULE TypeChecker_proofs -------------------------
(***************************************************************************)
(* Theorems about the walk of the typechecker, for all programs, hash        *)
(* functions and table sizes, with the facts about the operators of          *)
(* HashTable and SymbolTable that they rest on.                             *)
(***************************************************************************)
EXTENDS TypeChecker, Basics_proofs

-----------------------------------------------------------------------------
(* Tables *)

\* The table a scope is created with is empty.
LEMMA NewTable ==
    ht_new \in Tables /\ \A slot \in Slots : ht_new[slot] = << >>
  BY EmptySeq DEF ht_new, Tables

\* An insertion appends to one chain and leaves the others alone.
LEMMA InsertedTable ==
    ASSUME NEW ht \in Tables, NEW key \in Names, NEW b \in Bindings
    PROVE  /\ ht_insert(ht, key, b) \in Tables
           /\ \A slot \in Slots : ht_insert(ht, key, b)[slot] =
                IF slot = SlotOf(key) THEN Append(ht[slot], b) ELSE ht[slot]
  <1>1. SlotOf(key) \in Slots
    BY DEF Slots
  <1>2. ht[SlotOf(key)] \in Seq(Bindings)
    BY <1>1 DEF Tables
  <1>3. Append(ht[SlotOf(key)], b) \in Seq(Bindings)
    BY <1>2
  <1> QED
    BY <1>1, <1>3 DEF Tables, ht_insert

\* A lookup in a table answers with one of its bindings or with NULL.
LEMMA TableLookup ==
    ASSUME NEW ht \in Tables, NEW key \in Names
    PROVE  ht_lookup(ht, key) \in Bindings \cup {NULL}
  <1> DEFINE chain == ht[SlotOf(key)]
             I == {i \in 1 .. Len(chain) : chain[i].name = key}
  <1>1. chain \in Seq(Bindings)
    BY DEF Tables, Slots
  <1>2. I # {} => Min(I) \in 1 .. Len(chain)
    <2>1. I \in SUBSET Nat
      OBVIOUS
    <2> QED
      BY <2>1, MinOfNats
  <1>3. \A i \in 1 .. Len(chain) : chain[i] \in Bindings
    BY <1>1, ElementOfSeq
  <1> DEFINE match == IF I = {} THEN 0 ELSE Min(I)
  <1>4. ht_lookup(ht, key) = IF Len(chain) = 1 THEN chain[1]
                             ELSE IF match = 0 THEN NULL ELSE chain[match]
    BY DEF ht_lookup, SelectInSeq
  <1>5. match = 0 \/ match \in 1 .. Len(chain)
    BY <1>2
  <1>6. Len(chain) = 1 => 1 \in 1 .. Len(chain)
    OBVIOUS
  <1> HIDE DEF match, chain
  <1> QED
    BY <1>3, <1>4, <1>5, <1>6

\* The lookup answers with the entry of a slot that has one, whatever its name,
\* and with NULL for an empty slot.
LEMMA ShortChainLookup ==
    ASSUME NEW ht \in Tables, NEW key \in Names, Len(ht[SlotOf(key)]) <= 1
    PROVE  IF ht[SlotOf(key)] = << >> THEN ht_lookup(ht, key) = NULL
           ELSE /\ Len(ht[SlotOf(key)]) = 1
                /\ ht_lookup(ht, key) = ht[SlotOf(key)][1]
                /\ ht_lookup(ht, key) # NULL
  <1> DEFINE chain == ht[SlotOf(key)]
  <1>1. chain \in Seq(Bindings)
    BY DEF Tables, Slots
  <1>2. CASE chain = << >>
    BY <1>2 DEF ht_lookup, SelectInSeq
  <1>3. CASE chain # << >>
    <2>1. Len(chain) = 1
      <3>1. Len(chain) \in Nat /\ Len(chain) # 0
        BY <1>1, <1>3, EmptySeq
      <3>2. Len(chain) <= 1
        OBVIOUS
      <3>3. \A n \in Nat : n # 0 /\ n <= 1 => n = 1
        OBVIOUS
      <3> HIDE DEF chain
      <3> QED
        BY <3>1, <3>2, <3>3
    <2>2. chain[1] \in Bindings
      BY <1>1, <2>1, ElementOfSeq
    <2> QED
      BY <1>3, <2>1, <2>2, SymbolTableAssumption DEF ht_lookup
  <1> QED
    BY <1>2, <1>3

-----------------------------------------------------------------------------
(* Scopes *)

\* A lookup along the scopes answers with a binding or with NULL.
LEMMA ScopesLookup ==
    ASSUME NEW scs \in Seq(Scopes), NEW level \in 0 .. Len(scs), NEW key \in Names
    PROVE  symtab_lookup(scs, level, key) \in Bindings \cup {NULL}
  <1> DEFINE A == {i \in 1 .. level : symtab_lookup_single(scs, i, key) # NULL}
  <1>1. A # {} => Max(A) \in 1 .. Len(scs)
    <2>1. A \in SUBSET (1 .. level) /\ level \in Nat
      OBVIOUS
    <2>2. A # {} => Max(A) \in A
      <3> HIDE DEF A
      <3> QED
        BY <2>1, MaxOfIndexes
    <2>3. \A i \in A : i \in 1 .. level
      OBVIOUS
    <2>4. \A i \in 1 .. level : i \in 1 .. Len(scs)
      OBVIOUS
    <2> HIDE DEF A
    <2> QED
      BY <2>2, <2>3, <2>4
  <1>2. \A i \in 1 .. Len(scs) : scs[i].table \in Tables
    <2>1. \A i \in 1 .. Len(scs) : scs[i] \in Scopes
      BY ElementOfSeq
    <2> QED
      BY <2>1 DEF Scopes
  <1>3. A # {} => symtab_lookup_single(scs, Max(A), key) \in Bindings \cup {NULL}
    BY <1>1, <1>2, TableLookup DEF symtab_lookup_single
  <1> QED
    BY <1>3 DEF symtab_lookup

\* As long as no chain is longer than one, a lookup along the scopes fails
\* exactly when the slot of the name is empty in all of them.
LEMMA ScopesLookupNull ==
    ASSUME NEW scs \in Seq(Scopes), NEW level \in 0 .. Len(scs), NEW key \in Names,
           \A i \in 1 .. Len(scs) : \A slot \in Slots : Len(scs[i].table[slot]) <= 1
    PROVE  symtab_lookup(scs, level, key) = NULL
           <=> \A i \in 1 .. level : scs[i].table[SlotOf(key)] = << >>
  <1> DEFINE A == {i \in 1 .. level : symtab_lookup_single(scs, i, key) # NULL}
  <1>1. \A i \in 1 .. level :
           symtab_lookup_single(scs, i, key) = NULL <=> scs[i].table[SlotOf(key)] = << >>
    <2> SUFFICES ASSUME NEW i \in 1 .. level
                 PROVE  symtab_lookup_single(scs, i, key) = NULL
                        <=> scs[i].table[SlotOf(key)] = << >>
      OBVIOUS
    <2>1. i \in 1 .. Len(scs)
      OBVIOUS
    <2>2. scs[i].table \in Tables
      <3>1. scs[i] \in Scopes
        BY <2>1, ElementOfSeq
      <3> QED
        BY <3>1 DEF Scopes
    <2>3. Len(scs[i].table[SlotOf(key)]) <= 1
      BY <2>1 DEF Slots
    <2> QED
      BY <2>2, <2>3, ShortChainLookup DEF symtab_lookup_single
  <1>2. A # {} => symtab_lookup_single(scs, Max(A), key) # NULL
    <2>1. A \in SUBSET (1 .. level) /\ level \in Nat
      OBVIOUS
    <2>2. A # {} => Max(A) \in A
      <3> HIDE DEF A
      <3> QED
        BY <2>1, MaxOfIndexes
    <2> QED
      BY <2>2
  <1>3. symtab_lookup(scs, level, key) = NULL <=> A = {}
    BY <1>2 DEF symtab_lookup
  <1> QED
    BY <1>1, <1>3

\* symtab_insert changes one chain of the current scope.
LEMMA InsertedScopes ==
    ASSUME NEW scs \in Seq(Scopes), scs # << >>, NEW b \in Bindings
    PROVE  /\ symtab_insert(scs, b) \in Seq(Scopes)
           /\ Len(symtab_insert(scs, b)) = Len(scs)
           /\ \A i \in 1 .. Len(scs) : symtab_insert(scs, b)[i].name = scs[i].name
           /\ \A i \in 1 .. Len(scs) : \A slot \in Slots :
                symtab_insert(scs, b)[i].table[slot] =
                   IF i = Len(scs) /\ slot = SlotOf(b.name)
                   THEN Append(scs[i].table[slot], b) ELSE scs[i].table[slot]
  <1> DEFINE n == Len(scs)
             new == [scs[n] EXCEPT !.table = ht_insert(@, b.name, b)]
  <1>1. n \in 1 .. Len(scs) /\ b.name \in Names
    BY DEF Bindings
  <1>2. scs[n] \in Scopes
    BY <1>1, ElementOfSeq
  <1>3. /\ new \in Scopes
        /\ new.name = scs[n].name
        /\ new.table = ht_insert(scs[n].table, b.name, b)
    BY <1>1, <1>2, InsertedTable DEF Scopes
  <1>4. symtab_insert(scs, b) = [scs EXCEPT ![n] = new]
    BY DEF symtab_insert
  <1>5. /\ symtab_insert(scs, b) \in Seq(Scopes)
        /\ Len(symtab_insert(scs, b)) = n
        /\ \A i \in 1 .. n : symtab_insert(scs, b)[i] = IF i = n THEN new ELSE scs[i]
    <2> HIDE DEF new
    <2> QED
      BY <1>1, <1>3, <1>4, ExceptSeq
  <1>6. \A slot \in Slots : new.table[slot] =
           IF slot = SlotOf(b.name) THEN Append(scs[n].table[slot], b)
           ELSE scs[n].table[slot]
    BY <1>1, <1>2, <1>3, InsertedTable DEF Scopes
  <1> HIDE DEF new
  <1> QED
    BY <1>3, <1>5, <1>6

\* enter_new_scope adds an empty scope.
LEMMA EnteredScopes ==
    ASSUME NEW scs \in Seq(Scopes), NEW name \in Names
    PROVE  /\ enter_new_scope(scs, name) \in Seq(Scopes)
           /\ Len(enter_new_scope(scs, name)) = Len(scs) + 1
           /\ \A i \in 1 .. Len(scs) : enter_new_scope(scs, name)[i] = scs[i]
           /\ enter_new_scope(scs, name)[Len(scs) + 1].name = name
           /\ \A slot \in Slots :
                enter_new_scope(scs, name)[Len(scs) + 1].table[slot] = << >>
  <1> DEFINE new == symtab_new(name)
  <1>1. new \in Scopes /\ new.name = name /\ new.table = ht_new
    BY NewTable DEF symtab_new, Scopes
  <1> HIDE DEF new
  <1>2. enter_new_scope(scs, name) = Append(scs, new)
    BY DEF enter_new_scope, new
  <1> QED
    BY <1>1, <1>2, NewTable

\* leave_curr_scope removes the current scope.
LEMMA LeftScopes ==
    ASSUME NEW scs \in Seq(Scopes), Len(scs) > 1
    PROVE  /\ leave_curr_scope(scs) \in Seq(Scopes)
           /\ Len(leave_curr_scope(scs)) = Len(scs) - 1
           /\ \A i \in 1 .. Len(scs) - 1 : leave_curr_scope(scs)[i] = scs[i]
  <1>1. scs # << >>
    BY EmptySeq
  <1> QED
    BY <1>1, FrontOfSeq DEF leave_curr_scope

-----------------------------------------------------------------------------
(* Types, and the pairing of scopes and frames *)

\* The types need the pairing: an insertion needs a scope, and the end of a
\* block a scope around it.
WalkInv == TypeOK /\ ScopesTrackFrames

\* There is always a current scope.
LEMMA CurrentScope ==
    ASSUME WalkInv
    PROVE  /\ scopes \in Seq(Scopes) /\ frames \in Seq(Frames)
           /\ Len(frames) \in Nat /\ Len(scopes) = Len(frames) + 1
           /\ scopes # << >> /\ Len(scopes) \in 1 .. Len(scopes)
           /\ curr_scope \in Scopes /\ curr_scope.name \in Names
           /\ curr_scope.table \in Tables
  <1>1. scopes \in Seq(Scopes) /\ frames \in Seq(Frames) /\ Len(scopes) = Len(frames) + 1
    BY DEF WalkInv, TypeOK, ScopesTrackFrames
  <1>2. Len(frames) \in Nat
    BY <1>1
  <1>3. Len(scopes) \in 1 .. Len(scopes) /\ Len(scopes) # 0
    BY <1>1, <1>2
  <1>4. scopes # << >>
    BY <1>1, <1>3, EmptySeq
  <1>5. curr_scope \in Scopes
    BY <1>1, <1>3, ElementOfSeq DEF curr_scope, Level
  <1> QED
    BY <1>1, <1>2, <1>3, <1>4, <1>5 DEF Scopes

\* A failing statement ends the process with one of the failures.
LEMMA SettleTyped ==
    ASSUME NEW verdict, Settle(verdict), status \in {"running", "done"} \cup Failures
    PROVE  status' \in {"running", "done"} \cup Failures
  BY DEF Settle, Failures

\* The bindings the declarations insert.
LEMMA VariableBindingTyped ==
    ASSUME NEW d \in [name : Names, type : DataTypes, struct_type : Names,
                      value : Exprs \cup {NULL}] \cup Params,
           NEW symbol_type \in SymbolTypes
    PROVE  VariableBinding(d, symbol_type) \in Bindings
  BY DEF VariableBinding, Bindings, Params

\* What visit_func_decl inserts is a binding.
LEMMA FunctionBindingTyped ==
    ASSUME NEW d \in FuncDecls
    PROVE  FunctionBinding(d) \in Bindings
  <1>1. d \in [name : Names, type : DataTypes, struct_type : Names,
               formals : Seq(Params)]
    BY TypeCheckerAssumption
  <1>2. Len(d.formals) \in Nat
    BY <1>1
  <1> QED
    BY <1>1, <1>2 DEF FunctionBinding, Bindings, SymbolTypes

\* What visit_struct_decl inserts is a binding.
LEMMA StructureBindingTyped ==
    ASSUME NEW d \in StructDecls
    PROVE  StructureBinding(d) \in Bindings
  BY TypeCheckerAssumption DEF StructureBinding, Bindings, SymbolTypes, DataTypes

\* An insertion into the current scope keeps the invariant.
LEMMA InsertWalk ==
    ASSUME WalkInv, NEW b \in Bindings, Insert(b), UNCHANGED frames
    PROVE  scopes' \in Seq(Scopes) /\ ScopesTrackFrames'
  <1>1. scopes \in Seq(Scopes) /\ Len(scopes) = Len(frames) + 1
    BY CurrentScope
  <1>2. scopes # << >> /\ Len(frames) \in Nat
    BY CurrentScope
  <1>3. /\ scopes' \in Seq(Scopes)
        /\ Len(scopes') = Len(scopes)
        /\ \A i \in 1 .. Len(scopes) : scopes'[i].name = scopes[i].name
    BY <1>1, <1>2, InsertedScopes DEF Insert
  <1>4. \A i \in 1 .. Len(frames) : i \in 1 .. Len(scopes) /\ i + 1 \in 1 .. Len(scopes)
    BY <1>1, <1>2
  <1>5. 1 \in 1 .. Len(scopes)
    BY <1>1, <1>2
  <1> QED
    BY <1>1, <1>3, <1>4, <1>5 DEF WalkInv, ScopesTrackFrames

\* Entering a scope, after an insertion into the outer one or without.
LEMMA EnterWalk ==
    ASSUME WalkInv, NEW outer \in Seq(Scopes), Len(outer) = Len(scopes),
           \A i \in 1 .. Len(scopes) : outer[i].name = scopes[i].name,
           NEW name \in Names, NEW frame \in Frames, EnterScope(outer, name, frame),
           name = IF frame.node \in {"N_FUNC_DECL", "N_STRUCT_DECL"}
                  THEN frame.name ELSE curr_scope.name
    PROVE  scopes' \in Seq(Scopes) /\ frames' \in Seq(Frames) /\ ScopesTrackFrames'
  <1>1. scopes \in Seq(Scopes) /\ Len(scopes) = Len(frames) + 1 /\ frames \in Seq(Frames)
    BY CurrentScope
  <1>2. Len(frames) \in Nat
    BY CurrentScope
  <1>3. /\ scopes' \in Seq(Scopes)
        /\ Len(scopes') = Len(scopes) + 1
        /\ \A i \in 1 .. Len(scopes) : scopes'[i] = outer[i]
        /\ scopes'[Len(scopes) + 1].name = name
    BY EnteredScopes DEF EnterScope
  <1>4. /\ frames' \in Seq(Frames)
        /\ Len(frames') = Len(frames) + 1
        /\ \A i \in 1 .. Len(frames) : frames'[i] = frames[i]
        /\ frames'[Len(frames) + 1] = frame
    BY <1>1, AppendProperties DEF EnterScope
  <1>5. scopes'[1].name = ""
    <2>1. 1 \in 1 .. Len(scopes)
      BY <1>1, <1>2
    <2> QED
      BY <1>3, <2>1 DEF WalkInv, ScopesTrackFrames
  <1>6. ASSUME NEW i \in 1 .. Len(frames')
        PROVE  scopes'[i + 1].name =
                 IF frames'[i].node \in {"N_FUNC_DECL", "N_STRUCT_DECL"}
                 THEN frames'[i].name ELSE scopes'[i].name
    <2>1. CASE i \in 1 .. Len(frames)
      <3>1. i \in 1 .. Len(scopes) /\ i + 1 \in 1 .. Len(scopes)
        BY <1>1, <1>2, <2>1
      <3> QED
        BY <1>3, <1>4, <2>1, <3>1 DEF WalkInv, ScopesTrackFrames
    <2>2. CASE i = Len(frames) + 1
      <3>1. i = Len(scopes) /\ i \in 1 .. Len(scopes)
        BY <1>1, <1>2, <2>2
      <3> QED
        BY <1>3, <1>4, <2>2, <3>1 DEF curr_scope, Level
    <2> QED
      BY <1>2, <1>4, <2>1, <2>2
  <1> QED
    BY <1>1, <1>2, <1>3, <1>4, <1>5, <1>6 DEF ScopesTrackFrames

\* The walk reaches the parameters of a declaration one by one: the frame keeps
\* its node, its name and its type.
LEMMA ParamWalk ==
    ASSUME WalkInv, NEW node, AtParam(node)
    PROVE  /\ frames # << >>
           /\ Head(Top.vn) \in Params
           /\ NextParam => /\ frames' \in Seq(Frames)
                           /\ Len(frames') = Len(frames)
                           /\ \A i \in 1 .. Len(frames) :
                                 /\ frames'[i].node = frames[i].node
                                 /\ frames'[i].name = frames[i].name
                                 /\ frames'[i].type = frames[i].type
  <1> DEFINE n == Len(frames)
             new == [frames[n] EXCEPT !.vn = Tail(@)]
  <1>1. frames \in Seq(Frames) /\ frames # << >>
    BY DEF WalkInv, TypeOK, AtParam
  <1>2. n \in 1 .. Len(frames) /\ Top = frames[n]
    BY <1>1 DEF Top, Last
  <1>3. Top \in Frames
    BY <1>1, <1>2, ElementOfSeq
  <1>4. Top.vn \in Seq(Params) /\ Top.vn # << >>
    BY <1>3 DEF Frames, AtParam
  <1>5. Head(Top.vn) \in Params /\ Tail(Top.vn) \in Seq(Params)
    BY <1>4, HeadTailProperties
  <1>6. /\ new \in Frames
        /\ new.node = frames[n].node /\ new.name = frames[n].name /\ new.type = frames[n].type
    BY <1>2, <1>3, <1>5 DEF Frames
  <1>7. ASSUME NextParam
        PROVE  /\ frames' \in Seq(Frames)
               /\ Len(frames') = n
               /\ \A i \in 1 .. n : frames'[i] = IF i = n THEN new ELSE frames[i]
    <2>1. frames' = [frames EXCEPT ![n] = new]
      BY <1>7 DEF NextParam
    <2> HIDE DEF new
    <2> QED
      BY <1>1, <1>2, <1>6, <2>1, ExceptSeq
  <1> HIDE DEF new
  <1> QED
    BY <1>1, <1>5, <1>6, <1>7

\* An insertion keeps the pairing when the frames change only by their vn.
LEMMA ParamInsertWalk ==
    ASSUME WalkInv, NEW b \in Bindings, Insert(b) \/ UNCHANGED scopes,
           frames' \in Seq(Frames), Len(frames') = Len(frames),
           \A i \in 1 .. Len(frames) : /\ frames'[i].node = frames[i].node
                                       /\ frames'[i].name = frames[i].name
    PROVE  scopes' \in Seq(Scopes) /\ ScopesTrackFrames'
  <1>1. scopes \in Seq(Scopes) /\ Len(scopes) = Len(frames) + 1
    BY CurrentScope
  <1>2. scopes # << >> /\ Len(frames) \in Nat
    BY CurrentScope
  <1>3. /\ scopes' \in Seq(Scopes)
        /\ Len(scopes') = Len(scopes)
        /\ \A i \in 1 .. Len(scopes) : scopes'[i].name = scopes[i].name
    BY <1>1, <1>2, InsertedScopes DEF Insert
  <1>4. \A i \in 1 .. Len(frames) : i \in 1 .. Len(scopes) /\ i + 1 \in 1 .. Len(scopes)
    BY <1>1, <1>2
  <1>5. 1 \in 1 .. Len(scopes)
    BY <1>1, <1>2
  <1> QED
    BY <1>1, <1>3, <1>4, <1>5 DEF WalkInv, ScopesTrackFrames

\* Leaving a scope.
LEMMA LeaveWalk ==
    ASSUME WalkInv, frames # << >>
    PROVE  /\ leave_curr_scope(scopes) \in Seq(Scopes)
           /\ Len(leave_curr_scope(scopes)) = Len(frames)
           /\ \A i \in 1 .. Len(frames) : leave_curr_scope(scopes)[i] = scopes[i]
           /\ Front(frames) \in Seq(Frames)
           /\ Len(Front(frames)) = Len(frames) - 1
           /\ \A i \in 1 .. Len(frames) - 1 : Front(frames)[i] = frames[i]
  <1>1. scopes \in Seq(Scopes) /\ Len(scopes) = Len(frames) + 1 /\ frames \in Seq(Frames)
    BY CurrentScope
  <1>2. Len(frames) \in Nat /\ Len(frames) > 0
    BY <1>1, EmptySeq
  <1>3. Len(scopes) > 1 /\ Len(scopes) - 1 = Len(frames)
    BY <1>1, <1>2
  <1>4. /\ Front(frames) \in Seq(Frames)
        /\ Len(Front(frames)) = Len(frames) - 1
        /\ \A i \in 1 .. Len(frames) - 1 : Front(frames)[i] = frames[i]
    BY <1>1, FrontOfSeq
  <1> QED
    BY <1>1, <1>3, <1>4, LeftScopes

\* The builtins are finitely many.
LEMMA BuiltinsLength == Len(Builtins) \in Nat
  <1>1. Builtins \in Seq([name : Names, type : DataTypes])
    BY TypeCheckerAssumption
  <1> QED
    BY <1>1, LenProperties

\* The initial state.
LEMMA InitWalk == Init => WalkInv
  <1> SUFFICES ASSUME Init PROVE WalkInv
    OBVIOUS
  <1>1. symtab_new("") \in Scopes /\ symtab_new("").name = ""
    BY NewTable, SymbolTableAssumption DEF symtab_new, Scopes
  <1> DEFINE global == symtab_new("")
  <1>2. global \in Scopes /\ global.name = "" /\ scopes = <<global>>
    BY <1>1 DEF Init
  <1> HIDE DEF global
  <1>3. scopes \in Seq(Scopes) /\ Len(scopes) = 1 /\ scopes[1].name = ""
    <2>1. <<global>> \in Seq(Scopes) /\ Len(<<global>>) = 1 /\ <<global>>[1] = global
      BY <1>2, SingletonSeq
    <2> QED
      BY <1>2, <2>1
  <1>4. frames \in Seq(Frames) /\ Len(frames) = 0
    BY EmptySeq DEF Init
  <1>5. idx \in 1 .. Len(Builtins) + 1
    <2>1. idx = 1
      BY DEF Init
    <2> QED
      BY <2>1, BuiltinsLength
  <1>6. status = "running"
    BY DEF Init
  <1> QED
    <2>1. \A i \in 1 .. Len(frames) : FALSE
      BY <1>4
    <2>2. TypeOK
      BY <1>3, <1>4, <1>5, <1>6 DEF TypeOK
    <2>3. Len(scopes) = Len(frames) + 1
      <3>1. 1 = 0 + 1
        OBVIOUS
      <3> QED
        BY <1>3, <1>4, <3>1, Zenon
    <2> QED
      BY <1>3, <2>1, <2>2, <2>3 DEF WalkInv, ScopesTrackFrames

\* The declarations.
LEMMA MakeBuiltinWalk == WalkInv /\ MakeBuiltin => WalkInv'
  <1> SUFFICES ASSUME WalkInv, MakeBuiltin PROVE WalkInv'
    OBVIOUS
  <1> DEFINE builtin == Builtins[idx]
             formal == [name |-> "input", type |-> builtin.type, struct_type |-> ""]
             b == [name |-> builtin.name, symbol_type |-> "FUNCTION",
                   type |-> "D_VOID", struct_type |-> "",
                   num_args |-> 1, list |-> <<formal>>]
  <1>1. Len(Builtins) \in Nat /\ idx \in 1 .. Len(Builtins)
    <2>1. idx \in 1 .. Len(Builtins) + 1 /\ idx <= Len(Builtins)
      BY DEF MakeBuiltin, Building, WalkInv, TypeOK
    <2> QED
      BY <2>1, BuiltinsLength
  <1>2. builtin \in [name : Names, type : DataTypes]
    BY <1>1, TypeCheckerAssumption, ElementOfSeq
  <1>3. formal \in Params
    BY <1>2, TypeCheckerAssumption, SymbolTableAssumption DEF Params
  <1>4. <<formal>> \in Seq(Params)
    <2> HIDE DEF formal
    <2> QED
      BY <1>3
  <1>5. b \in Bindings
    <2> HIDE DEF formal
    <2> QED
      BY <1>2, <1>4, SymbolTableAssumption DEF Bindings, SymbolTypes, DataTypes
  <1>6. Insert(b) /\ UNCHANGED <<frames, status>> /\ idx' = idx + 1
    BY DEF MakeBuiltin
  <1> HIDE DEF b
  <1>7. idx' \in 1 .. Len(Builtins) + 1
    BY <1>1, <1>6
  <1> QED
    BY <1>5, <1>6, <1>7, InsertWalk DEF WalkInv, TypeOK

\* visit_var_decl keeps the stacks in step.
LEMMA VarDeclWalk ==
    ASSUME WalkInv, NEW d \in VarDecls, VarDecl(d)
    PROVE  WalkInv'
  <1>1. VariableBinding(d, "VARIABLE") \in Bindings
    BY VariableBindingTyped, TypeCheckerAssumption DEF SymbolTypes
  <1>2. Insert(VariableBinding(d, "VARIABLE")) \/ UNCHANGED scopes
    BY DEF VarDecl
  <1>3. UNCHANGED <<frames, idx>> /\ status' \in {"running", "done"} \cup Failures
    BY SettleTyped DEF VarDecl, WalkInv, TypeOK
  <1> QED
    BY <1>1, <1>2, <1>3, InsertWalk DEF WalkInv, TypeOK, ScopesTrackFrames

\* visit_func_decl keeps the stacks in step.
LEMMA FuncDeclWalk ==
    ASSUME WalkInv, NEW d \in FuncDecls, FuncDecl(d)
    PROVE  WalkInv'
  <1> DEFINE outer == symtab_insert(scopes, FunctionBinding(d))
             frame == [node |-> "N_FUNC_DECL", name |-> d.name,
                       type |-> d.type, vn |-> d.formals]
  <1>1. scopes \in Seq(Scopes) /\ scopes # << >>
    BY CurrentScope
  <1>2. /\ outer \in Seq(Scopes)
        /\ Len(outer) = Len(scopes)
        /\ \A i \in 1 .. Len(scopes) : outer[i].name = scopes[i].name
    BY <1>1, FunctionBindingTyped, InsertedScopes
  <1>3. d.name \in Names /\ frame \in Frames
    BY TypeCheckerAssumption DEF Frames, FrameTypes
  <1>4. UNCHANGED idx /\ status' \in {"running", "done"} \cup Failures
    BY SettleTyped DEF FuncDecl, WalkInv, TypeOK
  <1>5. EnterScope(outer, d.name, frame) \/ UNCHANGED <<scopes, frames>>
    BY DEF FuncDecl
  <1>6. frame.node = "N_FUNC_DECL" /\ frame.name = d.name
    OBVIOUS
  <1> HIDE DEF outer, frame
  <1>7. CASE EnterScope(outer, d.name, frame)
    BY <1>2, <1>3, <1>4, <1>6, <1>7, EnterWalk DEF WalkInv, TypeOK
  <1>8. CASE UNCHANGED <<scopes, frames>>
    BY <1>4, <1>8 DEF WalkInv, TypeOK, ScopesTrackFrames
  <1> QED
    BY <1>5, <1>7, <1>8

\* visit_struct_decl keeps the stacks in step.
LEMMA StructDeclWalk ==
    ASSUME WalkInv, NEW d \in StructDecls, StructDecl(d)
    PROVE  WalkInv'
  <1> DEFINE outer == symtab_insert(scopes, StructureBinding(d))
             frame == [node |-> "N_STRUCT_DECL", name |-> d.name,
                       type |-> "D_STRUCT", vn |-> d.members]
  <1>1. scopes \in Seq(Scopes) /\ scopes # << >>
    BY CurrentScope
  <1>2. /\ outer \in Seq(Scopes)
        /\ Len(outer) = Len(scopes)
        /\ \A i \in 1 .. Len(scopes) : outer[i].name = scopes[i].name
    BY <1>1, StructureBindingTyped, InsertedScopes
  <1>3. d.name \in Names /\ frame \in Frames
    BY TypeCheckerAssumption DEF Frames, FrameTypes, DataTypes
  <1>4. UNCHANGED idx /\ status' \in {"running", "done"} \cup Failures
    BY SettleTyped DEF StructDecl, WalkInv, TypeOK
  <1>5. EnterScope(outer, d.name, frame) \/ UNCHANGED <<scopes, frames>>
    BY DEF StructDecl
  <1>6. frame.node = "N_STRUCT_DECL" /\ frame.name = d.name
    OBVIOUS
  <1> HIDE DEF outer, frame
  <1>7. CASE EnterScope(outer, d.name, frame)
    BY <1>2, <1>3, <1>4, <1>6, <1>7, EnterWalk DEF WalkInv, TypeOK
  <1>8. CASE UNCHANGED <<scopes, frames>>
    BY <1>4, <1>8 DEF WalkInv, TypeOK, ScopesTrackFrames
  <1> QED
    BY <1>5, <1>7, <1>8

\* The formals and the members.
LEMMA FormalWalk == WalkInv /\ Formal => WalkInv'
  <1> SUFFICES ASSUME WalkInv, Formal PROVE WalkInv'
    OBVIOUS
  <1> DEFINE formal == Head(Top.vn)
             b == VariableBinding(formal, "FORMAL")
  <1>1. AtParam("N_FUNC_DECL") /\ NextParam /\ UNCHANGED idx
    BY DEF Formal
  <1>2. formal \in Params
    BY <1>1, ParamWalk
  <1>3. b \in Bindings
    <2> HIDE DEF formal
    <2> QED
      BY <1>2, VariableBindingTyped DEF SymbolTypes
  <1>4. Insert(b) \/ UNCHANGED scopes
    BY DEF Formal
  <1>5. Settle(ParamVerdict(formal.name, "FORMAL"))
    BY DEF Formal
  <1>6. status' \in {"running", "done"} \cup Failures
    BY <1>5, SettleTyped DEF WalkInv, TypeOK
  <1>7. /\ frames' \in Seq(Frames)
        /\ Len(frames') = Len(frames)
        /\ \A i \in 1 .. Len(frames) : /\ frames'[i].node = frames[i].node
                                       /\ frames'[i].name = frames[i].name
    BY <1>1, ParamWalk
  <1> HIDE DEF b
  <1>8. scopes' \in Seq(Scopes) /\ ScopesTrackFrames'
    BY <1>3, <1>4, <1>7, ParamInsertWalk
  <1> QED
    BY <1>1, <1>6, <1>7, <1>8 DEF WalkInv, TypeOK

\* A member of a structure keeps the stacks in step.
LEMMA MemberDeclWalk == WalkInv /\ MemberDecl => WalkInv'
  <1> SUFFICES ASSUME WalkInv, MemberDecl PROVE WalkInv'
    OBVIOUS
  <1> DEFINE member == Head(Top.vn)
             orphan == NewInScope(member.name) /\ ParentStruct = NULL
             b == [VariableBinding(member, "MEMBER")
                      EXCEPT !.struct_type = ParentStruct.name]
             verdict == IF orphan THEN "log_error"
                        ELSE ParamVerdict(member.name, "MEMBER")
  <1>1. AtParam("N_STRUCT_DECL") /\ NextParam /\ UNCHANGED idx
    BY DEF MemberDecl
  <1>2. member \in Params
    BY <1>1, ParamWalk
  <1>3. ParentStruct \in Bindings \cup {NULL}
    <2>1. Level \in 0 .. Len(scopes) /\ curr_scope.name \in Names /\ scopes \in Seq(Scopes)
      BY CurrentScope DEF Level
    <2> QED
      BY <2>1, ScopesLookup DEF ParentStruct, Lookup
  <1>4. ASSUME ParentStruct # NULL PROVE b \in Bindings
    <2> HIDE DEF member
    <2>1. VariableBinding(member, "MEMBER") \in Bindings
      BY <1>2, VariableBindingTyped DEF SymbolTypes
    <2>2. ParentStruct.name \in Names
      BY <1>3, <1>4 DEF Bindings
    <2> QED
      BY <2>1, <2>2 DEF Bindings
  <1>5. (Insert(b) /\ ParentStruct # NULL) \/ UNCHANGED scopes
    BY DEF MemberDecl
  <1>6. Settle(verdict)
    BY DEF MemberDecl
  <1>7. status' \in {"running", "done"} \cup Failures
    <2> HIDE DEF verdict
    <2> QED
      BY <1>6, SettleTyped DEF WalkInv, TypeOK
  <1>8. /\ frames' \in Seq(Frames)
        /\ Len(frames') = Len(frames)
        /\ \A i \in 1 .. Len(frames) : /\ frames'[i].node = frames[i].node
                                       /\ frames'[i].name = frames[i].name
    BY <1>1, ParamWalk
  <1> HIDE DEF b
  <1>9. scopes' \in Seq(Scopes) /\ ScopesTrackFrames'
    <2>1. CASE Insert(b) /\ ParentStruct # NULL
      BY <1>4, <1>8, <2>1, ParamInsertWalk
    <2>2. CASE UNCHANGED scopes
      <3>1. VariableBinding(member, "MEMBER") \in Bindings
        BY <1>2, VariableBindingTyped DEF SymbolTypes
      <3> QED
        BY <1>8, <2>2, <3>1, ParamInsertWalk
    <2> QED
      BY <1>5, <2>1, <2>2
  <1> QED
    BY <1>1, <1>7, <1>8, <1>9 DEF WalkInv, TypeOK

\* Branches and loops.
LEMMA BranchWalk ==
    ASSUME WalkInv, NEW node \in {"N_IF_STMT", "N_WHILE_STMT"},
           NEW test, Branch(node, test)
    PROVE  WalkInv'
  <1> DEFINE frame == Block(node)
  <1>1. scopes \in Seq(Scopes) /\ curr_scope.name \in Names
    BY CurrentScope
  <1>2. frame \in Frames
    <2>1. << >> \in Seq(Params)
      BY EmptySeq
    <2> QED
      BY <2>1, SymbolTableAssumption DEF Block, Frames, FrameTypes, DataTypes
  <1>3. frame.node \notin {"N_FUNC_DECL", "N_STRUCT_DECL"}
    BY DEF Block
  <1>4. UNCHANGED idx /\ status' \in {"running", "done"} \cup Failures
    <2>1. Settle(Judge[test].check) /\ UNCHANGED idx
      BY DEF Branch
    <2> QED
      BY <2>1, SettleTyped DEF WalkInv, TypeOK
  <1>5. EnterScope(scopes, curr_scope.name, frame) \/ UNCHANGED <<scopes, frames>>
    BY DEF Branch
  <1> HIDE DEF frame
  <1>6. CASE EnterScope(scopes, curr_scope.name, frame)
    BY <1>1, <1>2, <1>3, <1>4, <1>6, EnterWalk DEF WalkInv, TypeOK
  <1>7. CASE UNCHANGED <<scopes, frames>>
    BY <1>4, <1>7 DEF WalkInv, TypeOK, ScopesTrackFrames
  <1> QED
    BY <1>5, <1>6, <1>7

\* The end of a block keeps the stacks in step.
LEMMA LeaveScopeWalk == WalkInv /\ LeaveScope => WalkInv'
  <1> SUFFICES ASSUME WalkInv, LeaveScope PROVE WalkInv'
    OBVIOUS
  <1>1. frames # << >> /\ UNCHANGED <<idx, status>>
    BY DEF LeaveScope
  <1>2. Len(frames) \in Nat /\ Len(frames) > 0 /\ Len(scopes) = Len(frames) + 1
    BY <1>1, CurrentScope, EmptySeq
  <1>3. /\ scopes' \in Seq(Scopes)
        /\ Len(scopes') = Len(frames)
        /\ \A i \in 1 .. Len(frames) : scopes'[i] = scopes[i]
        /\ frames' \in Seq(Frames)
        /\ Len(frames') = Len(frames) - 1
        /\ \A i \in 1 .. Len(frames) - 1 : frames'[i] = frames[i]
    BY <1>1, LeaveWalk DEF LeaveScope
  <1>4. TypeOK'
    BY <1>1, <1>3 DEF WalkInv, TypeOK
  <1>5. \A i \in 1 .. Len(frames) - 1 : i \in 1 .. Len(frames) /\ i + 1 \in 1 .. Len(frames)
    BY <1>2
  <1>6. Len(scopes') = Len(frames') + 1 /\ 1 \in 1 .. Len(frames)
    BY <1>2, <1>3
  <1> QED
    BY <1>3, <1>4, <1>5, <1>6 DEF WalkInv, ScopesTrackFrames

\* An else keeps the stacks in step.
LEMMA ElseStmtWalk == WalkInv /\ ElseStmt => WalkInv'
  <1> SUFFICES ASSUME WalkInv, ElseStmt PROVE WalkInv'
    OBVIOUS
  <1> DEFINE n == Len(frames)
             outer == leave_curr_scope(scopes)
             new == [frames[n] EXCEPT !.node = "else"]
  <1>1. frames # << >> /\ UNCHANGED <<idx, status>>
    BY DEF ElseStmt
  <1>2. n \in Nat /\ n > 0 /\ n \in 1 .. n /\ frames \in Seq(Frames)
    BY <1>1, CurrentScope, EmptySeq
  <1>3. /\ outer \in Seq(Scopes)
        /\ Len(outer) = n
        /\ \A i \in 1 .. n : outer[i] = scopes[i]
    BY <1>1, LeaveWalk
  <1>4. outer[n] \in Scopes /\ Last(outer) = outer[n]
    BY <1>2, <1>3, ElementOfSeq DEF Last
  <1>5. /\ scopes' \in Seq(Scopes)
        /\ Len(scopes') = n + 1
        /\ \A i \in 1 .. n : scopes'[i] = scopes[i]
        /\ scopes'[n + 1].name = scopes[n].name
    <2>1. outer[n].name \in Names
      BY <1>4 DEF Scopes
    <2>2. scopes' = enter_new_scope(outer, outer[n].name)
      BY <1>4 DEF ElseStmt
    <2> HIDE DEF outer
    <2>3. /\ scopes' \in Seq(Scopes)
          /\ Len(scopes') = Len(outer) + 1
          /\ \A i \in 1 .. Len(outer) : scopes'[i] = outer[i]
          /\ scopes'[Len(outer) + 1].name = outer[n].name
      BY <1>3, <2>1, <2>2, EnteredScopes
    <2> QED
      BY <1>2, <1>3, <2>3
  <1>6. new \in Frames /\ new.node = "else"
    <2>1. frames[n] \in Frames
      BY <1>2, ElementOfSeq
    <2> QED
      BY <2>1 DEF Frames, FrameTypes
  <1>7. /\ frames' \in Seq(Frames)
        /\ Len(frames') = n
        /\ \A i \in 1 .. n : frames'[i] = IF i = n THEN new ELSE frames[i]
    <2>1. frames' = [frames EXCEPT ![n] = new]
      BY DEF ElseStmt
    <2> HIDE DEF new
    <2> QED
      BY <1>2, <1>6, <2>1, ExceptSeq
  <1>8. TypeOK'
    BY <1>1, <1>5, <1>7 DEF WalkInv, TypeOK
  <1> HIDE DEF new, outer
  <1>9. ASSUME NEW i \in 1 .. n
        PROVE  scopes'[i + 1].name =
                 IF frames'[i].node \in {"N_FUNC_DECL", "N_STRUCT_DECL"}
                 THEN frames'[i].name ELSE scopes'[i].name
    <2>1. CASE i = n
      BY <1>2, <1>5, <1>6, <1>7, <2>1
    <2>2. CASE i # n
      <3>1. i + 1 \in 1 .. n
        BY <1>2, <2>2
      <3> QED
        BY <1>5, <1>7, <2>2, <3>1 DEF WalkInv, ScopesTrackFrames
    <2> QED
      BY <2>1, <2>2
  <1>10. scopes'[1].name = ""
    <2>1. 1 \in 1 .. n
      BY <1>2
    <2> QED
      BY <1>5, <2>1 DEF WalkInv, ScopesTrackFrames
  <1> QED
    BY <1>5, <1>7, <1>8, <1>9, <1>10 DEF WalkInv, ScopesTrackFrames

\* The statements that change no scope.
LEMMA StatementWalk ==
    ASSUME WalkInv, UNCHANGED <<scopes, frames, idx>>,
           status' \in {"running", "done"} \cup Failures
    PROVE  WalkInv'
  BY DEF WalkInv, TypeOK, ScopesTrackFrames

\* Every step keeps the stacks in step.
LEMMA NextWalk == WalkInv /\ [Next]_vars => WalkInv'
  <1> SUFFICES ASSUME WalkInv, [Next]_vars PROVE WalkInv'
    OBVIOUS
  <1>1. CASE MakeBuiltin
    BY <1>1, MakeBuiltinWalk
  <1>2. CASE \E d \in VarDecls : VarDecl(d)
    BY <1>2, VarDeclWalk
  <1>3. CASE \E d \in FuncDecls : FuncDecl(d)
    BY <1>3, FuncDeclWalk
  <1>4. CASE \E d \in StructDecls : StructDecl(d)
    BY <1>4, StructDeclWalk
  <1>5. CASE Formal
    BY <1>5, FormalWalk
  <1>6. CASE MemberDecl
    BY <1>6, MemberDeclWalk
  <1>7. CASE \E e \in Exprs : IfStmt(e)
    BY <1>7, BranchWalk DEF IfStmt
  <1>8. CASE \E e \in Exprs : WhileStmt(e)
    BY <1>8, BranchWalk DEF WhileStmt
  <1>9. CASE ElseStmt
    BY <1>9, ElseStmtWalk
  <1>10. CASE LeaveScope
    BY <1>10, LeaveScopeWalk
  <1>11. CASE \E e \in Exprs \cup {NULL} : ReturnStmt(e)
    BY <1>11, SettleTyped, StatementWalk DEF ReturnStmt, WalkInv, TypeOK
  <1>12. CASE \E e \in Exprs : ExprStmt(e)
    <2>1. PICK e \in Exprs : ExprStmt(e)
      BY <1>12
    <2>2. Settle(Judge[e].check) /\ UNCHANGED <<scopes, frames, idx>>
      BY <2>1 DEF ExprStmt
    <2> QED
      BY <2>2, SettleTyped, StatementWalk DEF WalkInv, TypeOK
  <1>13. CASE LabelOrGoto
    BY <1>13, SettleTyped, StatementWalk DEF LabelOrGoto, WalkInv, TypeOK
  <1>14. CASE EndOfProgram
    BY <1>14, StatementWalk DEF EndOfProgram
  <1>15. CASE UNCHANGED vars
    BY <1>15, StatementWalk DEF vars, WalkInv, TypeOK
  <1>16. CASE Ended
    BY <1>15, <1>16 DEF Ended
  <1> QED
    BY <1>1, <1>2, <1>3, <1>4, <1>5, <1>6, <1>7, <1>8, <1>9, <1>10, <1>11, <1>12,
       <1>13, <1>14, <1>15, <1>16 DEF Next

\* Scopes and frames are in step in every reachable state.
LEMMA SpecWalk == Spec => []WalkInv
  BY InitWalk, NextWalk, PTL DEF Spec

\* Every variable holds what its declaration says, whatever the program.
THEOREM TypeCorrect == Spec => []TypeOK
  <1>1. WalkInv => TypeOK
    BY DEF WalkInv
  <1> QED
    BY <1>1, SpecWalk, PTL

\* The scopes and the C stack agree, and each scope bears the name of the
\* function or structure around it: enter_new_scope and leave_curr_scope are
\* paired in all the functions that call them.
THEOREM ScopesArePaired == Spec => []ScopesTrackFrames
  <1>1. WalkInv => ScopesTrackFrames
    BY DEF WalkInv
  <1> QED
    BY <1>1, SpecWalk, PTL

-----------------------------------------------------------------------------
(* At most one binding in a slot *)

\* SlotsHoldOneBinding and OnlyParamsShadow, of any sequence of scopes.
OneEach(scs) ==
    \A i \in 1 .. Len(scs) : \A slot \in Slots : Len(scs[i].table[slot]) <= 1

ParamsShadow(scs) ==
    \A j \in 1 .. Len(scs) : \A i \in 1 .. j - 1 : \A slot \in Slots :
       scs[i].table[slot] # << >> /\ scs[j].table[slot] # << >>
       => scs[j].table[slot][1].symbol_type \in {"FORMAL", "MEMBER"}

\* While the builtins are being declared there is one scope, and the slots of
\* those to come are empty: make_builtins looks nothing up.
BuiltinsToCome ==
    idx <= Len(Builtins) =>
       /\ Len(scopes) = 1
       /\ \A k \in idx .. Len(Builtins) :
             scopes[1].table[SlotOf(Builtins[k].name)] = << >>

\* The inductive invariant.  Each part needs the others: a lookup is the only
\* guard of an insertion, it tells an empty slot from a full one only as long as
\* no chain has two entries, and the scopes must be those of WalkInv.
SlotInv ==
    /\ WalkInv
    /\ OneEach(scopes)
    /\ ParamsShadow(scopes)
    /\ BuiltinsToCome

\* An insertion where the slot is free in the current scope, and in all the
\* scopes unless it is that of a formal or member.
LEMMA InsertSlots ==
    ASSUME NEW scs \in Seq(Scopes), scs # << >>, NEW b \in Bindings,
           OneEach(scs), ParamsShadow(scs),
           scs[Len(scs)].table[SlotOf(b.name)] = << >>,
           \/ b.symbol_type \in {"FORMAL", "MEMBER"}
           \/ \A i \in 1 .. Len(scs) : scs[i].table[SlotOf(b.name)] = << >>
    PROVE  OneEach(symtab_insert(scs, b)) /\ ParamsShadow(symtab_insert(scs, b))
  <1> DEFINE new == symtab_insert(scs, b)
             n == Len(scs)
  <1>1. /\ Len(new) = n
        /\ \A i \in 1 .. n : \A slot \in Slots :
             new[i].table[slot] =
                IF i = n /\ slot = SlotOf(b.name)
                THEN Append(scs[i].table[slot], b) ELSE scs[i].table[slot]
    BY InsertedScopes
  <1>2. n \in Nat
    BY LenProperties
  <1>3. Append(<< >>, b) = <<b>> /\ Len(<<b>>) = 1 /\ <<b>>[1] = b
    BY SingletonSeq
  <1>4. \A i \in 1 .. n : \A slot \in Slots :
          new[i].table[slot] = IF i = n /\ slot = SlotOf(b.name) THEN <<b>>
                               ELSE scs[i].table[slot]
    BY <1>1, <1>3
  <1> HIDE DEF new, n
  <1>5. OneEach(new)
    <2> SUFFICES ASSUME NEW i \in 1 .. n, NEW slot \in Slots
                 PROVE  Len(new[i].table[slot]) <= 1
      BY <1>1 DEF OneEach
    <2>1. CASE i = n /\ slot = SlotOf(b.name)
      <3>1. new[i].table[slot] = <<b>>
        BY <1>4, <2>1
      <3> QED
        BY <1>3, <3>1
    <2>2. CASE ~ (i = n /\ slot = SlotOf(b.name))
      <3>1. new[i].table[slot] = scs[i].table[slot]
        BY <1>4, <2>2
      <3> QED
        BY <3>1 DEF OneEach, n
    <2> QED
      BY <2>1, <2>2
  <1>6. ASSUME NEW j \in 1 .. n, NEW i \in 1 .. j - 1, NEW slot \in Slots,
               new[i].table[slot] # << >>, new[j].table[slot] # << >>
        PROVE  new[j].table[slot][1].symbol_type \in {"FORMAL", "MEMBER"}
    <2>1. i \in 1 .. n /\ i # n
      BY <1>2
    <2>2. new[i].table[slot] = scs[i].table[slot]
      BY <1>4, <2>1
    <2>3. CASE j = n /\ slot = SlotOf(b.name)
      <3>1. new[j].table[slot] = <<b>>
        BY <1>4, <2>3
      <3>2. b.symbol_type \in {"FORMAL", "MEMBER"}
        BY <1>6, <2>1, <2>2, <2>3 DEF n
      <3> QED
        BY <1>3, <3>1, <3>2
    <2>4. CASE ~ (j = n /\ slot = SlotOf(b.name))
      <3>1. new[j].table[slot] = scs[j].table[slot]
        BY <1>4, <2>4
      <3> QED
        BY <1>6, <2>2, <3>1 DEF ParamsShadow, n
    <2> QED
      BY <2>3, <2>4
  <1>7. ParamsShadow(new)
    BY <1>1, <1>6 DEF ParamsShadow
  <1> QED
    BY <1>5, <1>7 DEF new

\* A new scope is empty.
LEMMA EnterSlots ==
    ASSUME NEW scs \in Seq(Scopes), NEW name \in Names,
           OneEach(scs), ParamsShadow(scs)
    PROVE  /\ OneEach(enter_new_scope(scs, name))
           /\ ParamsShadow(enter_new_scope(scs, name))
  <1> DEFINE new == enter_new_scope(scs, name)
             n == Len(scs)
  <1>1. /\ Len(new) = n + 1
        /\ \A i \in 1 .. n : new[i] = scs[i]
        /\ \A slot \in Slots : new[n + 1].table[slot] = << >>
    BY EnteredScopes
  <1>2. n \in Nat
    BY LenProperties
  <1>3. Len(<< >>) = 0 /\ 0 <= 1
    BY EmptySeq
  <1> HIDE DEF new
  <1>4. \A i \in 1 .. n + 1 : i \in 1 .. n \/ i = n + 1
    BY <1>2
  <1>5. OneEach(new)
    BY <1>1, <1>3, <1>4 DEF OneEach
  <1>6. ASSUME NEW j \in 1 .. n + 1, NEW i \in 1 .. j - 1, NEW slot \in Slots,
               new[i].table[slot] # << >>, new[j].table[slot] # << >>
        PROVE  new[j].table[slot][1].symbol_type \in {"FORMAL", "MEMBER"}
    <2>1. j \in 1 .. n
      BY <1>1, <1>4, <1>6
    <2>2. i \in 1 .. n
      BY <1>2, <2>1
    <2> QED
      BY <1>1, <1>6, <2>1, <2>2 DEF ParamsShadow
  <1> QED
    BY <1>1, <1>5, <1>6 DEF ParamsShadow, new

\* The scopes that remain when one is left.
LEMMA PrefixSlots ==
    ASSUME NEW scs \in Seq(Scopes), NEW new \in Seq(Scopes),
           OneEach(scs), ParamsShadow(scs), Len(new) <= Len(scs),
           \A i \in 1 .. Len(new) : new[i] = scs[i]
    PROVE  OneEach(new) /\ ParamsShadow(new)
  <1>1. Len(new) \in Nat /\ Len(scs) \in Nat
    BY LenProperties
  <1>2. \A i \in 1 .. Len(new) : i \in 1 .. Len(scs)
    BY <1>1
  <1>3. \A j \in 1 .. Len(new) : \A i \in 1 .. j - 1 : i \in 1 .. Len(new)
    BY <1>1
  <1> QED
    BY <1>2, <1>3 DEF OneEach, ParamsShadow

\* A declaration that passes its check finds its slot free in all the scopes.
LEMMA CheckedName ==
    ASSUME SlotInv, NEW name \in Names, RedefinitionCheck(name) = "ok"
    PROVE  \A i \in 1 .. Len(scopes) : scopes[i].table[SlotOf(name)] = << >>
  <1>1. Lookup(name) = NULL
    BY DEF RedefinitionCheck, Require
  <1>2. scopes \in Seq(Scopes) /\ Len(scopes) \in 0 .. Len(scopes)
    BY CurrentScope DEF SlotInv
  <1> QED
    BY <1>1, <1>2, ScopesLookupNull DEF Lookup, Level, SlotInv, OneEach

\* A formal or member that is new finds its slot free in its own scope.
LEMMA NewName ==
    ASSUME SlotInv, NEW name \in Names, NewInScope(name)
    PROVE  scopes[Len(scopes)].table[SlotOf(name)] = << >>
  <1>1. curr_scope.table \in Tables /\ Len(scopes) \in 1 .. Len(scopes)
    BY CurrentScope DEF SlotInv
  <1>2. Len(curr_scope.table[SlotOf(name)]) <= 1
    BY <1>1 DEF SlotInv, OneEach, Slots, curr_scope, Level
  <1>3. ht_lookup(curr_scope.table, name) = NULL
    BY DEF NewInScope, symtab_lookup_single, curr_scope
  <1>4. curr_scope.table[SlotOf(name)] = << >>
    BY <1>1, <1>2, <1>3, ShortChainLookup
  <1> QED
    BY <1>4 DEF curr_scope, Level

\* When the first of two calls fails, so do the two.
LEMMA FirstOfTwo ==
    ASSUME NEW a, NEW b, FirstFailure(<<a, b>>) = "ok"
    PROVE  a = "ok"
  <1> DEFINE calls == <<a, b>>
             I == {i \in 1 .. Len(calls) : calls[i] # "ok"}
             failed == IF I = {} THEN 0 ELSE Min(I)
  <1>1. FirstFailure(calls) = IF failed = 0 THEN "ok" ELSE calls[failed]
    BY DEF FirstFailure, SelectInSeq
  <1>2. I # {} => Min(I) \in I
    <2>1. I \in SUBSET Nat
      OBVIOUS
    <2> QED
      BY <2>1, MinOfNats
  <1>3. \A i \in I : i # 0 /\ calls[i] # "ok"
    OBVIOUS
  <1>4. Len(calls) = 2 /\ calls[1] = a
    OBVIOUS
  <1>5. a # "ok" => 1 \in I
    BY <1>4
  <1> HIDE DEF calls, I
  <1>6. I = {}
    BY <1>1, <1>2, <1>3 DEF calls
  <1> QED
    BY <1>5, <1>6

\* After make_builtins none is to come.
LEMMA NoBuiltinToCome ==
    ASSUME SlotInv, Walking, UNCHANGED idx
    PROVE  BuiltinsToCome'
  <1>1. idx \in 1 .. Len(Builtins) + 1 /\ idx > Len(Builtins)
    BY DEF SlotInv, WalkInv, TypeOK, Walking
  <1>2. ~ (idx <= Len(Builtins))
    BY <1>1, BuiltinsLength
  <1> QED
    BY <1>2 DEF BuiltinsToCome

\* What an insertion into the current scope does to the slots.
LEMMA InsertSlotInv ==
    ASSUME SlotInv, Walking, UNCHANGED idx, WalkInv',
           NEW b \in Bindings, Insert(b),
           scopes[Len(scopes)].table[SlotOf(b.name)] = << >>,
           \/ b.symbol_type \in {"FORMAL", "MEMBER"}
           \/ \A i \in 1 .. Len(scopes) : scopes[i].table[SlotOf(b.name)] = << >>
    PROVE  SlotInv'
  <1>1. scopes \in Seq(Scopes) /\ scopes # << >>
    BY CurrentScope DEF SlotInv
  <1>2. OneEach(symtab_insert(scopes, b)) /\ ParamsShadow(symtab_insert(scopes, b))
    BY <1>1, InsertSlots DEF SlotInv
  <1>3. scopes' = symtab_insert(scopes, b)
    BY DEF Insert
  <1>4. OneEach(scopes)' /\ ParamsShadow(scopes)'
    BY <1>2, <1>3 DEF OneEach, ParamsShadow
  <1>5. BuiltinsToCome'
    BY NoBuiltinToCome
  <1> QED
    BY <1>4, <1>5 DEF SlotInv

\* A step that leaves the scopes alone.
LEMMA SameScopes ==
    ASSUME SlotInv, WalkInv', UNCHANGED <<scopes, idx>>
    PROVE  SlotInv'
  BY DEF SlotInv, OneEach, ParamsShadow, BuiltinsToCome

\* Before the builtins are made every scope is empty.
LEMMA InitSlots == Init => SlotInv
  <1> SUFFICES ASSUME Init PROVE SlotInv
    OBVIOUS
  <1>1. WalkInv
    BY InitWalk
  <1> DEFINE global == symtab_new("")
  <1>2. global \in Scopes /\ \A slot \in Slots : global.table[slot] = << >>
    BY NewTable, SymbolTableAssumption DEF symtab_new, Scopes
  <1>3. scopes = <<global>>
    BY DEF Init
  <1> HIDE DEF global
  <1>4. Len(scopes) = 1 /\ scopes[1] = global
    BY <1>2, <1>3, SingletonSeq
  <1>5. Len(<< >>) = 0 /\ 0 <= 1
    BY EmptySeq
  <1>6. \A i \in 1 .. Len(scopes) : i = 1
    BY <1>4
  <1>7. OneEach(scopes)
    BY <1>2, <1>4, <1>5, <1>6 DEF OneEach
  <1>8. \A j \in 1 .. Len(scopes) : \A i \in 1 .. j - 1 : FALSE
    BY <1>4
  <1>9. ParamsShadow(scopes)
    BY <1>8 DEF ParamsShadow
  <1>10. \A k \in idx .. Len(Builtins) : SlotOf(Builtins[k].name) \in Slots
    <2>1. \A k \in idx .. Len(Builtins) : k \in 1 .. Len(Builtins)
      BY BuiltinsLength DEF Init
    <2>2. \A k \in 1 .. Len(Builtins) : Builtins[k] \in [name : Names, type : DataTypes]
      BY TypeCheckerAssumption, ElementOfSeq
    <2> QED
      BY <2>1, <2>2 DEF Slots
  <1> QED
    BY <1>1, <1>2, <1>4, <1>7, <1>9, <1>10 DEF SlotInv, BuiltinsToCome

\* A builtin takes a slot of its own: no name is a builtin twice.
LEMMA MakeBuiltinSlots == SlotInv /\ MakeBuiltin /\ WalkInv' => SlotInv'
  <1> SUFFICES ASSUME SlotInv, MakeBuiltin, WalkInv' PROVE SlotInv'
    OBVIOUS
  <1> DEFINE builtin == Builtins[idx]
             formal == [name |-> "input", type |-> builtin.type, struct_type |-> ""]
             b == [name |-> builtin.name, symbol_type |-> "FUNCTION",
                   type |-> "D_VOID", struct_type |-> "",
                   num_args |-> 1, list |-> <<formal>>]
  <1>1. Len(Builtins) \in Nat /\ idx \in 1 .. Len(Builtins)
    <2>1. idx \in 1 .. Len(Builtins) + 1 /\ idx <= Len(Builtins)
      BY DEF MakeBuiltin, Building, SlotInv, WalkInv, TypeOK
    <2> QED
      BY <2>1, BuiltinsLength
  <1>2. \A k \in 1 .. Len(Builtins) : Builtins[k] \in [name : Names, type : DataTypes]
    BY TypeCheckerAssumption, ElementOfSeq
  <1>3. formal \in Params
    BY <1>1, <1>2, TypeCheckerAssumption, SymbolTableAssumption DEF Params
  <1>4. b \in Bindings /\ b.name = builtin.name
    <2> HIDE DEF formal
    <2>1. <<formal>> \in Seq(Params)
      BY <1>3, SingletonSeq
    <2> QED
      BY <1>1, <1>2, <2>1, SymbolTableAssumption DEF Bindings, SymbolTypes, DataTypes
  <1>5. scopes' = symtab_insert(scopes, b) /\ idx' = idx + 1
    BY DEF MakeBuiltin, Insert
  <1> HIDE DEF b
  <1>6. scopes \in Seq(Scopes) /\ scopes # << >>
    BY CurrentScope DEF SlotInv
  <1>7. Len(scopes) = 1 /\ scopes[1].table[SlotOf(builtin.name)] = << >>
    <2>1. idx \in idx .. Len(Builtins) /\ idx <= Len(Builtins)
      BY <1>1
    <2> QED
      BY <2>1 DEF SlotInv, BuiltinsToCome
  <1>8. \A i \in 1 .. Len(scopes) : scopes[i].table[SlotOf(b.name)] = << >>
    BY <1>4, <1>7
  <1>9. OneEach(scopes)' /\ ParamsShadow(scopes)'
    <2>1. scopes[Len(scopes)].table[SlotOf(b.name)] = << >>
      BY <1>4, <1>7
    <2>2. OneEach(symtab_insert(scopes, b)) /\ ParamsShadow(symtab_insert(scopes, b))
      BY <1>4, <1>6, <1>8, <2>1, InsertSlots DEF SlotInv
    <2> QED
      BY <1>5, <2>2 DEF OneEach, ParamsShadow
  <1>10. ASSUME NEW k \in idx + 1 .. Len(Builtins)
         PROVE  scopes'[1].table[SlotOf(Builtins[k].name)] = << >>
    <2>1. k \in idx .. Len(Builtins) /\ k \in 1 .. Len(Builtins) /\ k # idx
      BY <1>1
    <2>2. DOMAIN Builtins = 1 .. Len(Builtins)
      BY TypeCheckerAssumption, LenProperties
    <2>3. SlotOf(Builtins[k].name) # SlotOf(builtin.name)
      BY <1>1, <2>1, <2>2, BuiltinsAssumption
    <2>4. scopes[1].table[SlotOf(Builtins[k].name)] = << >>
      BY <1>1, <2>1 DEF SlotInv, BuiltinsToCome
    <2>5. SlotOf(Builtins[k].name) \in Slots
      BY <1>2, <2>1 DEF Slots
    <2> QED
      BY <1>4, <1>5, <1>6, <1>7, <2>3, <2>4, <2>5, InsertedScopes
  <1>11. Len(scopes') = 1
    BY <1>4, <1>5, <1>6, <1>7, InsertedScopes
  <1> QED
    BY <1>5, <1>9, <1>10, <1>11 DEF SlotInv, BuiltinsToCome

\* A variable is inserted only where its slot is free.
LEMMA VarDeclSlots ==
    ASSUME SlotInv, WalkInv', NEW d \in VarDecls, VarDecl(d)
    PROVE  SlotInv'
  <1> DEFINE b == VariableBinding(d, "VARIABLE")
  <1>1. b \in Bindings
    BY VariableBindingTyped, TypeCheckerAssumption DEF SymbolTypes
  <1>2. b.name = d.name /\ d.name \in Names
    BY TypeCheckerAssumption DEF VariableBinding
  <1>3. Walking /\ UNCHANGED idx
    BY DEF VarDecl, AtStatement
  <1>4. CASE VarDeclVerdict(d) = "ok"
    <2>1. RedefinitionCheck(d.name) = "ok"
      BY <1>4, FirstOfTwo DEF VarDeclVerdict
    <2>2. \A i \in 1 .. Len(scopes) : scopes[i].table[SlotOf(b.name)] = << >>
      BY <1>2, <2>1, CheckedName
    <2>3. Len(scopes) \in 1 .. Len(scopes)
      BY CurrentScope DEF SlotInv
    <2>4. Insert(b)
      BY <1>4 DEF VarDecl
    <2> QED
      BY <1>1, <1>3, <2>2, <2>3, <2>4, InsertSlotInv
  <1>5. CASE VarDeclVerdict(d) # "ok"
    BY <1>3, <1>5, SameScopes DEF VarDecl
  <1> QED
    BY <1>4, <1>5

\* A declaration that enters a scope.
LEMMA DeclareScopeSlots ==
    ASSUME SlotInv, WalkInv', Walking, UNCHANGED idx, NEW b \in Bindings,
           NEW name \in Names, NEW frame, RedefinitionCheck(b.name) = "ok",
           EnterScope(symtab_insert(scopes, b), name, frame)
    PROVE  SlotInv'
  <1> DEFINE outer == symtab_insert(scopes, b)
  <1>1. scopes \in Seq(Scopes) /\ scopes # << >> /\ Len(scopes) \in 1 .. Len(scopes)
    BY CurrentScope DEF SlotInv
  <1>2. b.name \in Names
    BY DEF Bindings
  <1>3. \A i \in 1 .. Len(scopes) : scopes[i].table[SlotOf(b.name)] = << >>
    BY <1>2, CheckedName
  <1>4. outer \in Seq(Scopes) /\ OneEach(outer) /\ ParamsShadow(outer)
    BY <1>1, <1>3, InsertSlots, InsertedScopes DEF SlotInv
  <1>5. scopes' = enter_new_scope(outer, name)
    BY DEF EnterScope
  <1>6. OneEach(scopes)' /\ ParamsShadow(scopes)'
    <2> HIDE DEF outer
    <2>1. OneEach(enter_new_scope(outer, name)) /\ ParamsShadow(enter_new_scope(outer, name))
      BY <1>4, EnterSlots
    <2> QED
      BY <1>5, <2>1 DEF OneEach, ParamsShadow
  <1> QED
    BY <1>6, NoBuiltinToCome DEF SlotInv

\* A function is inserted only where its slot is free.
LEMMA FuncDeclSlots ==
    ASSUME SlotInv, WalkInv', NEW d \in FuncDecls, FuncDecl(d)
    PROVE  SlotInv'
  <1> DEFINE b == FunctionBinding(d)
             frame == [node |-> "N_FUNC_DECL", name |-> d.name,
                       type |-> d.type, vn |-> d.formals]
  <1>1. b \in Bindings /\ b.name = d.name
    BY FunctionBindingTyped DEF FunctionBinding
  <1>2. d.name \in Names /\ Walking /\ UNCHANGED idx
    BY TypeCheckerAssumption DEF FuncDecl, AtStatement
  <1>3. CASE RedefinitionCheck(d.name) = "ok"
    <2>1. EnterScope(symtab_insert(scopes, b), d.name, frame)
      BY <1>3 DEF FuncDecl
    <2> HIDE DEF b, frame
    <2> QED
      BY <1>1, <1>2, <1>3, <2>1, DeclareScopeSlots
  <1>4. CASE RedefinitionCheck(d.name) # "ok"
    BY <1>2, <1>4, SameScopes DEF FuncDecl
  <1> QED
    BY <1>3, <1>4

\* A structure is inserted only where its slot is free.
LEMMA StructDeclSlots ==
    ASSUME SlotInv, WalkInv', NEW d \in StructDecls, StructDecl(d)
    PROVE  SlotInv'
  <1> DEFINE b == StructureBinding(d)
             frame == [node |-> "N_STRUCT_DECL", name |-> d.name,
                       type |-> "D_STRUCT", vn |-> d.members]
  <1>1. b \in Bindings /\ b.name = d.name
    BY StructureBindingTyped DEF StructureBinding
  <1>2. d.name \in Names /\ Walking /\ UNCHANGED idx
    BY TypeCheckerAssumption DEF StructDecl, AtStatement
  <1>3. CASE RedefinitionCheck(d.name) = "ok"
    <2>1. EnterScope(symtab_insert(scopes, b), d.name, frame)
      BY <1>3 DEF StructDecl
    <2> HIDE DEF b, frame
    <2> QED
      BY <1>1, <1>2, <1>3, <2>1, DeclareScopeSlots
  <1>4. CASE RedefinitionCheck(d.name) # "ok"
    BY <1>2, <1>4, SameScopes DEF StructDecl
  <1> QED
    BY <1>3, <1>4

\* A formal is inserted only where the scope has no such slot.
LEMMA FormalSlots == SlotInv /\ Formal /\ WalkInv' => SlotInv'
  <1> SUFFICES ASSUME SlotInv, Formal, WalkInv' PROVE SlotInv'
    OBVIOUS
  <1> DEFINE formal == Head(Top.vn)
             b == VariableBinding(formal, "FORMAL")
  <1>1. AtParam("N_FUNC_DECL") /\ Walking /\ UNCHANGED idx
    BY DEF Formal, AtParam
  <1>2. formal \in Params
    BY <1>1, ParamWalk DEF SlotInv
  <1>3. formal.name \in Names
    BY <1>2 DEF Params
  <1>4. b \in Bindings /\ b.name = formal.name /\ b.symbol_type = "FORMAL"
    <2> HIDE DEF formal
    <2> QED
      BY <1>2, VariableBindingTyped DEF SymbolTypes, VariableBinding
  <1>5. IF NewInScope(formal.name) THEN Insert(b) ELSE UNCHANGED scopes
    BY DEF Formal
  <1> HIDE DEF b, formal
  <1>6. CASE NewInScope(formal.name)
    BY <1>1, <1>3, <1>4, <1>5, <1>6, NewName, InsertSlotInv
  <1>7. CASE ~ NewInScope(formal.name)
    BY <1>1, <1>5, <1>7, SameScopes
  <1> QED
    BY <1>6, <1>7

\* A member is inserted only where its slot is free.
LEMMA MemberDeclSlots == SlotInv /\ MemberDecl /\ WalkInv' => SlotInv'
  <1> SUFFICES ASSUME SlotInv, MemberDecl, WalkInv' PROVE SlotInv'
    OBVIOUS
  <1> DEFINE member == Head(Top.vn)
             plain == VariableBinding(member, "MEMBER")
             b == [plain EXCEPT !.struct_type = ParentStruct.name]
  <1>1. AtParam("N_STRUCT_DECL") /\ Walking /\ UNCHANGED idx
    BY DEF MemberDecl, AtParam
  <1>2. member \in Params
    BY <1>1, ParamWalk DEF SlotInv
  <1>3. member.name \in Names
    BY <1>2 DEF Params
  <1>4. plain \in Bindings /\ plain.name = member.name /\ plain.symbol_type = "MEMBER"
    <2> HIDE DEF member
    <2> QED
      BY <1>2, VariableBindingTyped DEF SymbolTypes, VariableBinding
  <1>5. ParentStruct \in Bindings \cup {NULL}
    <2>1. Level \in 0 .. Len(scopes) /\ curr_scope.name \in Names /\ scopes \in Seq(Scopes)
      BY CurrentScope DEF Level, SlotInv
    <2> QED
      BY <2>1, ScopesLookup DEF ParentStruct, Lookup
  <1>6. ASSUME ParentStruct # NULL
        PROVE  b \in Bindings /\ b.name = member.name /\ b.symbol_type = "MEMBER"
    <2> HIDE DEF member, plain
    <2>1. ParentStruct.name \in Names
      BY <1>5, <1>6 DEF Bindings
    <2> QED
      BY <1>4, <2>1 DEF Bindings
  <1>7. IF NewInScope(member.name) /\ ~ (NewInScope(member.name) /\ ParentStruct = NULL)
        THEN Insert(b) ELSE UNCHANGED scopes
    BY DEF MemberDecl
  <1> HIDE DEF b, member
  <1>8. CASE NewInScope(member.name) /\ ParentStruct # NULL
    BY <1>1, <1>3, <1>6, <1>7, <1>8, NewName, InsertSlotInv
  <1>9. CASE ~ (NewInScope(member.name) /\ ParentStruct # NULL)
    BY <1>1, <1>7, <1>9, SameScopes
  <1> QED
    BY <1>8, <1>9

\* A new scope has no slot taken.
LEMMA BranchSlots ==
    ASSUME SlotInv, WalkInv', NEW node, NEW test, Branch(node, test)
    PROVE  SlotInv'
  <1>1. Walking /\ UNCHANGED idx
    BY DEF Branch, AtStatement
  <1>2. scopes \in Seq(Scopes) /\ curr_scope.name \in Names
    BY CurrentScope DEF SlotInv
  <1>3. scopes' = enter_new_scope(scopes, curr_scope.name) \/ UNCHANGED scopes
    BY DEF Branch, EnterScope
  <1>4. CASE scopes' = enter_new_scope(scopes, curr_scope.name)
    <2>1. /\ OneEach(enter_new_scope(scopes, curr_scope.name))
          /\ ParamsShadow(enter_new_scope(scopes, curr_scope.name))
      BY <1>2, EnterSlots DEF SlotInv
    <2>2. OneEach(scopes)' /\ ParamsShadow(scopes)'
      BY <1>4, <2>1 DEF OneEach, ParamsShadow
    <2> QED
      BY <1>1, <2>2, NoBuiltinToCome DEF SlotInv
  <1>5. CASE UNCHANGED scopes
    BY <1>1, <1>5, SameScopes
  <1> QED
    BY <1>3, <1>4, <1>5

\* The scopes that remain when the current one is left.
LEMMA OuterSlots ==
    ASSUME SlotInv, frames # << >>
    PROVE  /\ leave_curr_scope(scopes) \in Seq(Scopes)
           /\ leave_curr_scope(scopes) # << >>
           /\ OneEach(leave_curr_scope(scopes))
           /\ ParamsShadow(leave_curr_scope(scopes))
  <1> DEFINE outer == leave_curr_scope(scopes)
  <1>1. /\ outer \in Seq(Scopes)
        /\ Len(outer) = Len(frames)
        /\ \A i \in 1 .. Len(frames) : outer[i] = scopes[i]
    BY LeaveWalk DEF SlotInv
  <1>2. scopes \in Seq(Scopes) /\ Len(frames) \in Nat /\ Len(scopes) = Len(frames) + 1
    BY CurrentScope DEF SlotInv
  <1>3. Len(frames) # 0
    BY CurrentScope, EmptySeq DEF SlotInv
  <1> HIDE DEF outer
  <1>4. outer # << >>
    BY <1>1, <1>3, EmptySeq
  <1>5. Len(outer) <= Len(scopes)
    BY <1>1, <1>2
  <1>6. OneEach(outer) /\ ParamsShadow(outer)
    BY <1>1, <1>2, <1>5, PrefixSlots DEF SlotInv
  <1> QED
    BY <1>1, <1>4, <1>6 DEF outer

\* Leaving a scope takes no slot.
LEMMA LeaveScopeSlots == SlotInv /\ LeaveScope /\ WalkInv' => SlotInv'
  <1> SUFFICES ASSUME SlotInv, LeaveScope, WalkInv' PROVE SlotInv'
    OBVIOUS
  <1>1. Walking /\ UNCHANGED idx /\ frames # << >> /\ scopes' = leave_curr_scope(scopes)
    BY DEF LeaveScope
  <1>2. OneEach(leave_curr_scope(scopes)) /\ ParamsShadow(leave_curr_scope(scopes))
    BY <1>1, OuterSlots
  <1>3. OneEach(scopes)' /\ ParamsShadow(scopes)'
    BY <1>1, <1>2 DEF OneEach, ParamsShadow
  <1> QED
    BY <1>1, <1>3, NoBuiltinToCome DEF SlotInv

\* The scope of an else has no slot taken.
LEMMA ElseStmtSlots == SlotInv /\ ElseStmt /\ WalkInv' => SlotInv'
  <1> SUFFICES ASSUME SlotInv, ElseStmt, WalkInv' PROVE SlotInv'
    OBVIOUS
  <1> DEFINE outer == leave_curr_scope(scopes)
             name == Last(outer).name
  <1>1. Walking /\ UNCHANGED idx /\ frames # << >>
    BY DEF ElseStmt, AtStatement
  <1>2. outer \in Seq(Scopes) /\ outer # << >> /\ OneEach(outer) /\ ParamsShadow(outer)
    BY <1>1, OuterSlots
  <1>3. scopes' = enter_new_scope(outer, name)
    BY DEF ElseStmt
  <1> HIDE DEF outer
  <1>4. name \in Names
    <2>1. Len(outer) \in 1 .. Len(outer)
      <3>1. Len(outer) \in Nat /\ Len(outer) # 0
        BY <1>2, EmptySeq, LenProperties
      <3> QED
        BY <3>1
    <2>2. Last(outer) \in Scopes
      BY <1>2, <2>1, ElementOfSeq DEF Last
    <2> QED
      BY <2>2 DEF Scopes
  <1>5. OneEach(enter_new_scope(outer, name)) /\ ParamsShadow(enter_new_scope(outer, name))
    BY <1>2, <1>4, EnterSlots
  <1>6. OneEach(scopes)' /\ ParamsShadow(scopes)'
    BY <1>3, <1>5 DEF OneEach, ParamsShadow
  <1> QED
    BY <1>1, <1>6, NoBuiltinToCome DEF SlotInv

\* Every step keeps one binding to a slot.
LEMMA NextSlots == SlotInv /\ [Next]_vars => SlotInv'
  <1> SUFFICES ASSUME SlotInv, [Next]_vars PROVE SlotInv'
    OBVIOUS
  <1>1. WalkInv'
    BY NextWalk DEF SlotInv
  <1>2. CASE MakeBuiltin
    BY <1>1, <1>2, MakeBuiltinSlots
  <1>3. CASE \E d \in VarDecls : VarDecl(d)
    BY <1>1, <1>3, VarDeclSlots
  <1>4. CASE \E d \in FuncDecls : FuncDecl(d)
    BY <1>1, <1>4, FuncDeclSlots
  <1>5. CASE \E d \in StructDecls : StructDecl(d)
    BY <1>1, <1>5, StructDeclSlots
  <1>6. CASE Formal
    BY <1>1, <1>6, FormalSlots
  <1>7. CASE MemberDecl
    BY <1>1, <1>7, MemberDeclSlots
  <1>8. CASE \E e \in Exprs : IfStmt(e)
    BY <1>1, <1>8, BranchSlots DEF IfStmt
  <1>9. CASE \E e \in Exprs : WhileStmt(e)
    BY <1>1, <1>9, BranchSlots DEF WhileStmt
  <1>10. CASE ElseStmt
    BY <1>1, <1>10, ElseStmtSlots
  <1>11. CASE LeaveScope
    BY <1>1, <1>11, LeaveScopeSlots
  <1>12. CASE \E e \in Exprs \cup {NULL} : ReturnStmt(e)
    BY <1>1, <1>12, SameScopes DEF ReturnStmt
  <1>13. CASE \E e \in Exprs : ExprStmt(e)
    BY <1>1, <1>13, SameScopes DEF ExprStmt
  <1>14. CASE LabelOrGoto
    BY <1>1, <1>14, SameScopes DEF LabelOrGoto
  <1>15. CASE EndOfProgram
    BY <1>1, <1>15, SameScopes DEF EndOfProgram
  <1>16. CASE UNCHANGED vars
    BY <1>1, <1>16, SameScopes DEF vars
  <1>17. CASE Ended
    BY <1>16, <1>17 DEF Ended
  <1> QED
    BY <1>2, <1>3, <1>4, <1>5, <1>6, <1>7, <1>8, <1>9, <1>10, <1>11, <1>12,
       <1>13, <1>14, <1>15, <1>16, <1>17 DEF Next

\* A slot of a scope holds one binding in every reachable state.
LEMMA SpecSlots == Spec => []SlotInv
  BY InitSlots, NextSlots, PTL DEF Spec

\* No slot ever holds two bindings, for any hash function and number of slots:
\* the chains of hashtable.c stay unused by the typechecker.
THEOREM ChainsAreUnused == Spec => []SlotsHoldOneBinding
  <1>1. SlotInv => SlotsHoldOneBinding
    BY DEF SlotInv, OneEach, SlotsHoldOneBinding
  <1> QED
    BY <1>1, SpecSlots, PTL

\* Only a formal or a member ever hides a name of an outer scope.
THEOREM ShadowingIsByParams == Spec => []OnlyParamsShadow
  <1>1. SlotInv => OnlyParamsShadow
    BY DEF SlotInv, ParamsShadow, OnlyParamsShadow
  <1> QED
    BY <1>1, SpecSlots, PTL

\* A declared name is always found, whatever collides with it.
THEOREM NoFalseUnknown == Spec => []DeclaredNamesAreFound
  <1>1. ASSUME SlotInv, NEW name \in Names, Visible(name)
        PROVE  Lookup(name) # NULL
    <2>1. scopes \in Seq(Scopes) /\ Len(scopes) \in 0 .. Len(scopes)
      BY <1>1, CurrentScope DEF SlotInv
    <2>2. PICK i \in 1 .. Len(scopes) :
            \E k \in DOMAIN scopes[i].table[SlotOf(name)] : TRUE
      BY <1>1 DEF Visible, Level
    <2>3. scopes[i].table[SlotOf(name)] # << >>
      BY <2>2
    <2> QED
      BY <1>1, <2>1, <2>2, <2>3, ScopesLookupNull DEF Lookup, Level, SlotInv, OneEach
  <1>2. SlotInv => DeclaredNamesAreFound
    BY <1>1 DEF DeclaredNamesAreFound
  <1> QED
    BY <1>2, SpecSlots, PTL
=============================================================================
