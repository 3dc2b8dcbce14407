---------------------------- MODULE Scopes_proofs ----------------------------
(***************************************************************************)
(* The steps of the typechecker by what they do to the scopes and the C      *)
(* stack: none, an insertion, a declaration that enters a scope, a branch,    *)
(* the step to an else statement, the end of a scope.  What they keep          *)
(* besides SlotInv; what that says of return statements, why the scopes        *)
(* implement BlockScopes, and why accepted expressions have types.            *)
(***************************************************************************)
EXTENDS TypeChecker_proofs

-----------------------------------------------------------------------------
(* The kinds of steps *)

\* The frames may have visited a formal or a member.
SameFrames ==
    /\ Len(frames') = Len(frames)
    /\ \A i \in 1 .. Len(frames) : /\ frames'[i].node = frames[i].node
                                   /\ frames'[i].name = frames[i].name
                                   /\ frames'[i].type = frames[i].type

\* Of the scopes of before, the last one has b in its slot now.
Gains(b) ==
    \A i \in 1 .. Len(scopes) : \A slot \in Slots :
       scopes'[i].table[slot] = IF i = Len(scopes) /\ slot = SlotOf(b.name)
                                THEN <<b>> ELSE scopes[i].table[slot]

Pushes(frame) ==
    /\ Len(scopes) < MaxScopes
    /\ Len(scopes') = Len(scopes) + 1
    /\ \A slot \in Slots : scopes'[Len(scopes) + 1].table[slot] = << >>
    /\ Len(frames') = Len(frames) + 1
    /\ \A i \in 1 .. Len(frames) : frames'[i] = frames[i]
    /\ frames'[Len(frames) + 1] = frame

\* A function has as many formals as it counts, and no vector for none.
Counted(b) ==
    b.symbol_type = "FUNCTION" => b.num_args = IF b.list = NULL THEN 0 ELSE Len(b.list)

Free(name) == \A i \in 1 .. Len(scopes) : scopes[i].table[SlotOf(name)] = << >>

Alive == status = "running" /\ status' = "running"

Stays == UNCHANGED scopes /\ SameFrames /\ (status = "running" \/ UNCHANGED status)

Inserts(b) ==
    /\ Alive /\ SameFrames
    /\ Len(scopes') = Len(scopes) /\ Gains(b)
    /\ scopes[Len(scopes)].table[SlotOf(b.name)] = << >>
    /\ Counted(b)
    /\ \/ b.symbol_type \in {"FUNCTION", "VARIABLE"} /\ Free(b.name)
       \/ /\ b.symbol_type \in {"FORMAL", "MEMBER"}
          /\ frames # << >> /\ Top.node \in {"N_FUNC_DECL", "N_STRUCT_DECL"}

Declares(b, frame) ==
    /\ Alive /\ AtStatement
    /\ Gains(b) /\ Pushes(frame)
    /\ Free(b.name)
    /\ frame.name = b.name /\ Counted(b) /\ (b.list # NULL => frame.vn = b.list)
    /\ \/ /\ b.symbol_type = "FUNCTION" /\ frame.node = "N_FUNC_DECL"
          /\ frame.type = b.type
       \/ b.symbol_type = "STRUCTURE" /\ frame.node = "N_STRUCT_DECL"

Branches(frame) ==
    /\ Alive /\ AtStatement
    /\ \A i \in 1 .. Len(scopes) : scopes'[i] = scopes[i]
    /\ Pushes(frame)
    /\ frame.node \in {"N_IF_STMT", "N_WHILE_STMT"}

\* From the body of an if statement to its else.
Swaps ==
    /\ Alive /\ frames # << >> /\ Top.node = "N_IF_STMT"
    /\ Len(scopes') = Len(scopes)
    /\ \A i \in 1 .. Len(frames) : scopes'[i] = scopes[i]
    /\ \A slot \in Slots : scopes'[Len(scopes)].table[slot] = << >>
    /\ Len(frames') = Len(frames)
    /\ \A i \in 1 .. Len(frames) - 1 : frames'[i] = frames[i]
    /\ frames'[Len(frames)].node = "else"

Leaves ==
    /\ Alive /\ frames # << >>
    /\ Len(scopes') = Len(scopes) - 1
    /\ \A i \in 1 .. Len(frames) : scopes'[i] = scopes[i]
    /\ Len(frames') = Len(frames) - 1
    /\ \A i \in 1 .. Len(frames) - 1 : frames'[i] = frames[i]

-----------------------------------------------------------------------------
(* Every step is of one of these kinds *)

\* An insertion into a free slot.
LEMMA InsertGains ==
    ASSUME SlotInv, NEW b \in Bindings, NEW new, new = symtab_insert(scopes, b),
           scopes[Len(scopes)].table[SlotOf(b.name)] = << >>
    PROVE  /\ Len(new) = Len(scopes) /\ new \in Seq(Scopes)
           /\ \A i \in 1 .. Len(scopes) : \A slot \in Slots :
                 new[i].table[slot] = IF i = Len(scopes) /\ slot = SlotOf(b.name)
                                      THEN <<b>> ELSE scopes[i].table[slot]
  <1>1. scopes \in Seq(Scopes) /\ scopes # << >>
    BY CurrentScope DEF SlotInv
  <1>2. /\ Len(new) = Len(scopes) /\ new \in Seq(Scopes)
        /\ \A i \in 1 .. Len(scopes) : \A slot \in Slots :
              new[i].table[slot] = IF i = Len(scopes) /\ slot = SlotOf(b.name)
                                   THEN Append(scopes[i].table[slot], b)
                                   ELSE scopes[i].table[slot]
    BY <1>1, InsertedScopes
  <1>3. Append(scopes[Len(scopes)].table[SlotOf(b.name)], b) = <<b>>
    OBVIOUS
  <1>4. ASSUME NEW i \in 1 .. Len(scopes), NEW slot \in Slots
        PROVE  new[i].table[slot] = IF i = Len(scopes) /\ slot = SlotOf(b.name)
                                    THEN <<b>> ELSE scopes[i].table[slot]
    <2>1. CASE i = Len(scopes) /\ slot = SlotOf(b.name)
      BY <1>2, <1>3, <2>1, Zenon
    <2>2. CASE ~ (i = Len(scopes) /\ slot = SlotOf(b.name))
      BY <1>2, <2>2
    <2> QED
      BY <2>1, <2>2
  <1> QED
    BY <1>2, <1>4

\* A step that goes on, since its verdict is "ok".
LEMMA SettledAlive ==
    ASSUME Walking, Settle("ok")
    PROVE  Alive
  BY DEF Walking, Settle, Alive

\* A step of the walk that keeps scopes and frames is a Stays.
LEMMA SettledStays ==
    ASSUME Walking, UNCHANGED scopes, SameFrames
    PROVE  Stays
  BY DEF Walking, Stays

\* Frames left alone are the same frames.
LEMMA SameFramesUnchanged ==
    ASSUME UNCHANGED frames
    PROVE  SameFrames
  BY DEF SameFrames

\* A builtin is inserted into the global scope.
LEMMA MakeBuiltinStep ==
    ASSUME SlotInv, MakeBuiltin
    PROVE  \E b \in Bindings : Inserts(b)
  <1> DEFINE builtin == Builtins[idx]
             formal == [name |-> "input", type |-> builtin.type, struct_type |-> ""]
             b == [name |-> builtin.name, symbol_type |-> "FUNCTION",
                   type |-> "D_VOID", struct_type |-> "",
                   num_args |-> 1, list |-> <<formal>>]
  <1>1. Len(Builtins) \in Nat /\ idx \in 1 .. Len(Builtins) /\ status = "running"
    <2>1. idx \in 1 .. Len(Builtins) + 1 /\ idx <= Len(Builtins) /\ status = "running"
      BY DEF MakeBuiltin, Building, SlotInv, WalkInv, TypeOK
    <2> QED
      BY <2>1, BuiltinsLength
  <1>2. builtin \in [name : Names, type : DataTypes]
    BY <1>1, TypeCheckerAssumption, ElementOfSeq
  <1>3. formal \in Params
    BY <1>2, TypeCheckerAssumption, SymbolTableAssumption DEF Params
  <1>4. b \in Bindings /\ b.name = builtin.name /\ b.symbol_type = "FUNCTION" /\ Counted(b)
    <2> HIDE DEF formal
    <2>1. <<formal>> \in Seq(Params) /\ Len(<<formal>>) = 1
      BY <1>3, SingletonSeq
    <2>2. Counted(b)
      BY <2>1, SymbolTableAssumption DEF Counted
    <2> QED
      BY <1>2, <2>1, <2>2, SymbolTableAssumption DEF Bindings, SymbolTypes, DataTypes
  <1>5. scopes' = symtab_insert(scopes, b) /\ UNCHANGED <<frames, status>>
    BY DEF MakeBuiltin, Insert
  <1> HIDE DEF b
  <1>6. Len(scopes) = 1 /\ scopes[1].table[SlotOf(b.name)] = << >>
    <2>1. idx \in idx .. Len(Builtins) /\ idx <= Len(Builtins)
      BY <1>1
    <2> QED
      BY <1>4, <2>1 DEF SlotInv, BuiltinsToCome
  <1>7. Len(scopes') = Len(scopes) /\ Gains(b)
    BY <1>4, <1>5, <1>6, InsertGains DEF Gains
  <1>8. Free(b.name)
    BY <1>6 DEF Free
  <1> QED
    BY <1>1, <1>4, <1>5, <1>6, <1>7, <1>8, SameFramesUnchanged DEF Inserts, Alive

\* A variable is inserted, or refused with nothing changed.
LEMMA VarDeclStep ==
    ASSUME SlotInv, NEW d \in VarDecls, VarDecl(d)
    PROVE  Stays \/ \E b \in Bindings : Inserts(b)
  <1> DEFINE b == VariableBinding(d, "VARIABLE")
  <1>1. b \in Bindings
    BY VariableBindingTyped, TypeCheckerAssumption DEF SymbolTypes
  <1>2. b.name = d.name /\ d.name \in Names /\ b.symbol_type = "VARIABLE" /\ Counted(b)
    BY TypeCheckerAssumption DEF VariableBinding, Counted
  <1>3. Walking /\ UNCHANGED frames /\ Settle(VarDeclVerdict(d))
    BY DEF VarDecl, AtStatement
  <1>4. CASE VarDeclVerdict(d) = "ok"
    <2>1. RedefinitionCheck(d.name) = "ok"
      BY <1>4, FirstOfTwo DEF VarDeclVerdict
    <2>2. Free(b.name)
      BY <1>2, <2>1, CheckedName DEF Free
    <2>3. scopes[Len(scopes)].table[SlotOf(b.name)] = << >>
      BY <2>2, CurrentScope DEF SlotInv, Free
    <2>4. scopes' = symtab_insert(scopes, b)
      BY <1>4 DEF VarDecl, Insert
    <2> HIDE DEF b
    <2>5. Len(scopes') = Len(scopes) /\ Gains(b)
      BY <1>1, <2>3, <2>4, InsertGains DEF Gains
    <2>6. Alive
      BY <1>3, <1>4, SettledAlive
    <2> QED
      BY <1>1, <1>2, <1>3, <2>2, <2>3, <2>5, <2>6, SameFramesUnchanged DEF Inserts
  <1>5. CASE VarDeclVerdict(d) # "ok"
    BY <1>3, <1>5, SettledStays, SameFramesUnchanged DEF VarDecl
  <1> QED
    BY <1>4, <1>5

\* Entering a scope, after an insertion into the outer one or without.
LEMMA EnterPushes ==
    ASSUME SlotInv, NEW outer \in Seq(Scopes), Len(outer) = Len(scopes),
           NEW name \in Names, NEW frame \in Frames, EnterScope(outer, name, frame),
           Len(scopes) < MaxScopes
    PROVE  Pushes(frame) /\ \A i \in 1 .. Len(scopes) : scopes'[i] = outer[i]
  <1>1. frames \in Seq(Frames)
    BY CurrentScope DEF SlotInv
  <1>2. /\ Len(scopes') = Len(scopes) + 1
        /\ \A i \in 1 .. Len(scopes) : scopes'[i] = outer[i]
        /\ \A slot \in Slots : scopes'[Len(scopes) + 1].table[slot] = << >>
    BY EnteredScopes DEF EnterScope
  <1>3. /\ Len(frames') = Len(frames) + 1
        /\ \A i \in 1 .. Len(frames) : frames'[i] = frames[i]
        /\ frames'[Len(frames) + 1] = frame
    BY <1>1, AppendProperties DEF EnterScope
  <1> QED
    BY <1>2, <1>3 DEF Pushes

\* A declaration that enters a scope.
LEMMA DeclareStep ==
    ASSUME SlotInv, AtStatement, Alive, Len(scopes) < MaxScopes,
           NEW b \in Bindings, NEW frame \in Frames, frame.name = b.name, Counted(b),
           b.list # NULL => frame.vn = b.list,
           RedefinitionCheck(b.name) = "ok",
           EnterScope(symtab_insert(scopes, b), b.name, frame),
           \/ /\ b.symbol_type = "FUNCTION" /\ frame.node = "N_FUNC_DECL"
              /\ frame.type = b.type
           \/ b.symbol_type = "STRUCTURE" /\ frame.node = "N_STRUCT_DECL"
    PROVE  Declares(b, frame)
  <1>1. PICK outer : outer = symtab_insert(scopes, b)
    OBVIOUS
  <1>2. b.name \in Names
    BY DEF Bindings
  <1>3. Free(b.name)
    BY <1>2, CheckedName DEF Free
  <1>4. scopes[Len(scopes)].table[SlotOf(b.name)] = << >>
    BY <1>3, CurrentScope DEF SlotInv, Free
  <1>5. /\ outer \in Seq(Scopes) /\ Len(outer) = Len(scopes)
        /\ \A i \in 1 .. Len(scopes) : \A slot \in Slots :
              outer[i].table[slot] = IF i = Len(scopes) /\ slot = SlotOf(b.name)
                                     THEN <<b>> ELSE scopes[i].table[slot]
    BY <1>1, <1>4, InsertGains
  <1>6. Pushes(frame) /\ \A i \in 1 .. Len(scopes) : scopes'[i] = outer[i]
    BY <1>1, <1>2, <1>5, EnterPushes
  <1>7. Gains(b)
    BY <1>5, <1>6 DEF Gains
  <1> QED
    BY <1>3, <1>6, <1>7 DEF Declares

\* A function is declared with its scope, or refused with nothing changed.
LEMMA FuncDeclStep ==
    ASSUME SlotInv, NEW d \in FuncDecls, FuncDecl(d)
    PROVE  \/ Stays /\ UNCHANGED frames
           \/ \E b \in Bindings, frame \in Frames : Declares(b, frame)
  <1> DEFINE b == FunctionBinding(d)
             frame == [node |-> "N_FUNC_DECL", name |-> d.name,
                       type |-> d.type, vn |-> d.formals]
  <1>1. b \in Bindings /\ frame \in Frames
    BY FunctionBindingTyped, TypeCheckerAssumption DEF Frames, FrameTypes
  <1>2. /\ b.name = d.name /\ b.symbol_type = "FUNCTION" /\ b.type = d.type
        /\ frame.name = d.name /\ frame.node = "N_FUNC_DECL" /\ frame.type = d.type
        /\ Counted(b) /\ (b.list # NULL => frame.vn = b.list)
    <2>1. d.formals \in Seq(Params) /\ d.formals # NULL
      BY TypeCheckerAssumption, SymbolTableAssumption
    <2> QED
      BY <2>1 DEF FunctionBinding, Counted
  <1>3. AtStatement /\ Walking /\ Settle(RedefinitionCheck(d.name)) /\ Len(scopes) < MaxScopes
    BY DEF FuncDecl, AtStatement, Level
  <1>4. CASE RedefinitionCheck(d.name) = "ok"
    <2>1. EnterScope(symtab_insert(scopes, b), d.name, frame)
      BY <1>4 DEF FuncDecl
    <2> HIDE DEF b, frame
    <2>2. Alive
      BY <1>3, <1>4, SettledAlive
    <2>3. Declares(b, frame)
      BY <1>1, <1>2, <1>3, <1>4, <2>1, <2>2, DeclareStep
    <2> QED
      BY <1>1, <2>3
  <1>5. CASE RedefinitionCheck(d.name) # "ok"
    BY <1>3, <1>5, SettledStays, SameFramesUnchanged DEF FuncDecl
  <1> QED
    BY <1>4, <1>5

\* A structure is declared with its scope, or refused with nothing changed.
LEMMA StructDeclStep ==
    ASSUME SlotInv, NEW d \in StructDecls, StructDecl(d)
    PROVE  \/ Stays /\ UNCHANGED frames
           \/ \E b \in Bindings, frame \in Frames : Declares(b, frame)
  <1> DEFINE b == StructureBinding(d)
             frame == [node |-> "N_STRUCT_DECL", name |-> d.name,
                       type |-> "D_STRUCT", vn |-> d.members]
  <1>1. b \in Bindings /\ frame \in Frames
    BY StructureBindingTyped, TypeCheckerAssumption DEF Frames, FrameTypes, DataTypes
  <1>2. /\ b.name = d.name /\ b.symbol_type = "STRUCTURE"
        /\ frame.name = d.name /\ frame.node = "N_STRUCT_DECL"
        /\ Counted(b) /\ frame.vn = b.list
    BY DEF StructureBinding, Counted
  <1>3. AtStatement /\ Walking /\ Settle(RedefinitionCheck(d.name)) /\ Len(scopes) < MaxScopes
    BY DEF StructDecl, AtStatement, Level
  <1>4. CASE RedefinitionCheck(d.name) = "ok"
    <2>1. EnterScope(symtab_insert(scopes, b), d.name, frame)
      BY <1>4 DEF StructDecl
    <2> HIDE DEF b, frame
    <2>2. Alive
      BY <1>3, <1>4, SettledAlive
    <2>3. Declares(b, frame)
      BY <1>1, <1>2, <1>3, <1>4, <2>1, <2>2, DeclareStep
    <2> QED
      BY <1>1, <2>3
  <1>5. CASE RedefinitionCheck(d.name) # "ok"
    BY <1>3, <1>5, SettledStays, SameFramesUnchanged DEF StructDecl
  <1> QED
    BY <1>4, <1>5

\* A formal or member is inserted when its own scope has its slot free.
LEMMA ParamStep ==
    ASSUME SlotInv, NEW node \in {"N_FUNC_DECL", "N_STRUCT_DECL"}, AtParam(node), NextParam,
           NEW b \in Bindings, b.symbol_type \in {"FORMAL", "MEMBER"},
           NewInScope(b.name), Insert(b), Alive
    PROVE  Inserts(b)
  <1>1. scopes[Len(scopes)].table[SlotOf(b.name)] = << >>
    BY NewName DEF Bindings
  <1>2. Len(scopes') = Len(scopes) /\ Gains(b)
    BY <1>1, InsertGains DEF Insert, Gains
  <1>3. SameFrames /\ frames # << >>
    BY ParamWalk DEF SlotInv, SameFrames
  <1>4. Top.node \in {"N_FUNC_DECL", "N_STRUCT_DECL"}
    BY DEF AtParam
  <1> QED
    BY <1>1, <1>2, <1>3, <1>4 DEF Inserts, Counted

\* The verdict on a name that is new in its scope.
LEMMA NewNameAccepted ==
    ASSUME NEW name, NEW symbol_type, NewInScope(name)
    PROVE  ParamVerdict(name, symbol_type) = "ok"
  BY DEF NewInScope, ParamVerdict, Require

\* The binding made of a formal or member.
Binds(b, param, symbol_type) ==
    b.name = param.name /\ b.type = param.type /\ b.symbol_type = symbol_type

\* A formal is inserted into the scope of its function, or refused.
LEMMA FormalStep ==
    ASSUME SlotInv, Formal
    PROVE  \/ Stays /\ ~ NewInScope(Head(Top.vn).name)
           \/ \E b \in Bindings : Inserts(b) /\ Binds(b, Head(Top.vn), "FORMAL")
  <1>1. PICK formal : formal = Head(Top.vn)
    OBVIOUS
  <1>2. AtParam("N_FUNC_DECL") /\ NextParam /\ Walking
    BY DEF Formal, AtParam
  <1>3. formal \in Params
    BY <1>1, <1>2, ParamWalk DEF SlotInv
  <1>4. PICK b : b = VariableBinding(formal, "FORMAL")
    OBVIOUS
  <1>5. b \in Bindings /\ b.name = formal.name /\ Binds(b, formal, "FORMAL")
    <2>1. b \in Bindings
      BY <1>3, <1>4, VariableBindingTyped DEF SymbolTypes
    <2> QED
      BY <1>4, <2>1 DEF VariableBinding, Binds
  <1>6. Settle(ParamVerdict(formal.name, "FORMAL"))
    BY <1>1 DEF Formal
  <1>7. CASE NewInScope(formal.name)
    <2>1. Insert(b)
      BY <1>1, <1>4, <1>7 DEF Formal
    <2>2. ParamVerdict(formal.name, "FORMAL") = "ok"
      BY <1>7, NewNameAccepted
    <2>3. Alive
      BY <1>2, <1>6, <2>2, SettledAlive
    <2>4. Inserts(b)
      BY <1>2, <1>5, <1>7, <2>1, <2>3, ParamStep DEF Binds
    <2> QED
      BY <1>1, <1>5, <2>4
  <1>8. CASE ~ NewInScope(formal.name)
    <2>1. UNCHANGED scopes
      BY <1>1, <1>8 DEF Formal
    <2>2. SameFrames
      BY <1>2, ParamWalk DEF SlotInv, SameFrames
    <2> QED
      BY <1>1, <1>2, <1>8, <2>1, <2>2, SettledStays
  <1> QED
    BY <1>7, <1>8

\* A member is inserted into the scope of its structure, or refused.
LEMMA MemberDeclStep ==
    ASSUME SlotInv, MemberDecl
    PROVE  \/ Stays /\ ~ NewInScope(Head(Top.vn).name)
           \/ Stays /\ status' # "running"
           \/ \E b \in Bindings : Inserts(b) /\ Binds(b, Head(Top.vn), "MEMBER")
  <1>1. PICK member : member = Head(Top.vn)
    OBVIOUS
  <1>2. AtParam("N_STRUCT_DECL") /\ NextParam /\ Walking
    BY DEF MemberDecl, AtParam
  <1>3. member \in Params
    BY <1>1, <1>2, ParamWalk DEF SlotInv
  <1>4. ParentStruct \in Bindings \cup {NULL}
    <2>1. Level \in 0 .. Len(scopes) /\ curr_scope.name \in Names /\ scopes \in Seq(Scopes)
      BY CurrentScope DEF SlotInv, Level
    <2> QED
      BY <2>1, ScopesLookup DEF ParentStruct, Lookup
  <1>5. PICK v : v = VariableBinding(member, "MEMBER")
    OBVIOUS
  <1>6. v \in Bindings /\ Binds(v, member, "MEMBER")
    <2>1. v \in Bindings
      BY <1>3, <1>5, VariableBindingTyped DEF SymbolTypes
    <2> QED
      BY <1>5, <2>1 DEF VariableBinding, Binds
  <1>7. PICK b : b = [v EXCEPT !.struct_type = ParentStruct.name]
    OBVIOUS
  <1>8. CASE NewInScope(member.name) /\ ParentStruct # NULL
    <2>1. b \in Bindings /\ Binds(b, member, "MEMBER")
      <3>1. ParentStruct.name \in Names
        BY <1>4, <1>8 DEF Bindings
      <3> QED
        BY <1>6, <1>7, <3>1 DEF Bindings, Binds
    <2>2. Insert(b) /\ Settle(ParamVerdict(member.name, "MEMBER"))
      BY <1>1, <1>5, <1>7, <1>8 DEF MemberDecl
    <2>3. ParamVerdict(member.name, "MEMBER") = "ok"
      BY <1>8, NewNameAccepted
    <2>4. Alive
      BY <1>2, <2>2, <2>3, SettledAlive
    <2>5. Inserts(b)
      BY <1>2, <1>8, <2>1, <2>2, <2>4, ParamStep DEF Binds
    <2> QED
      BY <1>1, <2>1, <2>5
  <1>9. CASE ~ (NewInScope(member.name) /\ ParentStruct # NULL)
    <2>1. UNCHANGED scopes
      BY <1>1, <1>9 DEF MemberDecl
    <2>2. SameFrames
      BY <1>2, ParamWalk DEF SlotInv, SameFrames
    <2>3. Stays
      BY <1>2, <2>1, <2>2, SettledStays
    <2>4. NewInScope(member.name) => status' # "running"
      <3> SUFFICES ASSUME NewInScope(member.name) PROVE status' # "running"
        OBVIOUS
      <3>1. Settle("log_error")
        BY <1>1, <1>9 DEF MemberDecl
      <3> QED
        BY <3>1 DEF Settle, Failures
    <2> QED
      BY <1>1, <2>3, <2>4
  <1> QED
    BY <1>8, <1>9

\* An if or a while opens a scope, or its test is refused.
LEMMA BranchStep ==
    ASSUME SlotInv, NEW node \in {"N_IF_STMT", "N_WHILE_STMT"},
           NEW test, Branch(node, test)
    PROVE  \/ Stays /\ UNCHANGED frames
           \/ \E frame \in Frames : Branches(frame)
  <1>1. PICK frame : frame = Block(node)
    OBVIOUS
  <1>2. frame \in Frames /\ frame.node = node
    <2>1. << >> \in Seq(Params)
      BY EmptySeq
    <2> QED
      BY <1>1, <2>1, SymbolTableAssumption DEF Block, Frames, FrameTypes, DataTypes
  <1>3. AtStatement /\ Walking /\ Settle(Judge[test].check) /\ Len(scopes) < MaxScopes
    BY DEF Branch, AtStatement, Level
  <1>4. CASE Judge[test].check = "ok"
    <2>1. EnterScope(scopes, curr_scope.name, frame)
      BY <1>1, <1>4 DEF Branch
    <2>2. scopes \in Seq(Scopes) /\ curr_scope.name \in Names
      BY CurrentScope DEF SlotInv
    <2>3. Pushes(frame) /\ \A i \in 1 .. Len(scopes) : scopes'[i] = scopes[i]
      BY <1>2, <1>3, <2>1, <2>2, EnterPushes
    <2>4. Alive
      BY <1>3, <1>4, SettledAlive
    <2>5. Branches(frame)
      BY <1>2, <1>3, <2>3, <2>4 DEF Branches
    <2> QED
      BY <1>2, <2>5
  <1>5. CASE Judge[test].check # "ok"
    BY <1>3, <1>5, SettledStays, SameFramesUnchanged DEF Branch
  <1> QED
    BY <1>4, <1>5

\* The end of a block goes back to the scope outside.
LEMMA LeaveScopeStep ==
    ASSUME SlotInv, LeaveScope
    PROVE  Leaves
  <1>1. frames # << >> /\ Alive
    BY DEF LeaveScope, Walking, Alive
  <1>2. Len(frames) \in Nat /\ Len(scopes) = Len(frames) + 1
    BY CurrentScope DEF SlotInv
  <1>3. /\ Len(scopes') = Len(frames)
        /\ \A i \in 1 .. Len(frames) : scopes'[i] = scopes[i]
        /\ Len(frames') = Len(frames) - 1
        /\ \A i \in 1 .. Len(frames) - 1 : frames'[i] = frames[i]
    BY <1>1, LeaveWalk DEF LeaveScope, SlotInv
  <1> QED
    BY <1>1, <1>2, <1>3 DEF Leaves

\* An else trades the scope of the if for a new one.
LEMMA ElseStmtStep ==
    ASSUME SlotInv, ElseStmt
    PROVE  Swaps
  <1>1. PICK n : n = Len(frames)
    OBVIOUS
  <1>2. PICK outer : outer = leave_curr_scope(scopes)
    OBVIOUS
  <1>3. PICK new : new = [frames[n] EXCEPT !.node = "else"]
    OBVIOUS
  <1>4. /\ frames # << >> /\ Top.node = "N_IF_STMT" /\ Alive
        /\ scopes' = enter_new_scope(outer, Last(outer).name)
        /\ frames' = [frames EXCEPT ![n] = new]
    BY <1>1, <1>2, <1>3 DEF ElseStmt, AtStatement, Walking, Alive
  <1>5. n \in Nat /\ n > 0 /\ n \in 1 .. n /\ frames \in Seq(Frames) /\ Len(scopes) = n + 1
    BY <1>1, <1>4, CurrentScope, EmptySeq DEF SlotInv
  <1>6. /\ outer \in Seq(Scopes)
        /\ Len(outer) = n
        /\ \A i \in 1 .. n : outer[i] = scopes[i]
    BY <1>1, <1>2, <1>4, LeaveWalk DEF SlotInv
  <1>7. Last(outer).name \in Names
    <2>1. outer[n] \in Scopes /\ Last(outer) = outer[n]
      BY <1>5, <1>6, ElementOfSeq DEF Last
    <2> QED
      BY <2>1 DEF Scopes
  <1>8. /\ Len(scopes') = n + 1
        /\ \A i \in 1 .. n : scopes'[i] = scopes[i]
        /\ \A slot \in Slots : scopes'[n + 1].table[slot] = << >>
    BY <1>4, <1>6, <1>7, EnteredScopes
  <1>9. new \in Frames /\ new.node = "else"
    <2>1. frames[n] \in Frames
      BY <1>1, <1>5, ElementOfSeq
    <2> QED
      BY <1>3, <2>1 DEF Frames, FrameTypes
  <1>10. /\ Len(frames') = n
         /\ \A i \in 1 .. n : frames'[i] = IF i = n THEN new ELSE frames[i]
    BY <1>1, <1>4, <1>5, <1>9, ExceptSeq
  <1>11. /\ \A i \in 1 .. n - 1 : frames'[i] = frames[i]
         /\ frames'[n].node = "else"
    BY <1>5, <1>9, <1>10
  <1> QED
    BY <1>1, <1>4, <1>5, <1>8, <1>10, <1>11 DEF Swaps

\* The statements that leave the scopes and the frames alone.
LEMMA StatementStays ==
    ASSUME UNCHANGED <<scopes, frames>>, status = "running" \/ UNCHANGED status
    PROVE  Stays
  BY DEF Stays, SameFrames

StepKinds ==
    \/ Stays
    \/ \E b \in Bindings : Inserts(b)
    \/ \E b \in Bindings, frame \in Frames : Declares(b, frame)
    \/ \E frame \in Frames : Branches(frame)
    \/ Swaps
    \/ Leaves

\* Every step of the walk is of one of these kinds.
LEMMA NextKinds ==
    ASSUME SlotInv, [Next]_vars
    PROVE  StepKinds
  <1>1. CASE MakeBuiltin
    BY <1>1, MakeBuiltinStep DEF StepKinds
  <1>2. CASE \E d \in VarDecls : VarDecl(d)
    BY <1>2, VarDeclStep DEF StepKinds
  <1>3. CASE \E d \in FuncDecls : FuncDecl(d)
    BY <1>3, FuncDeclStep DEF StepKinds
  <1>4. CASE \E d \in StructDecls : StructDecl(d)
    BY <1>4, StructDeclStep DEF StepKinds
  <1>5. CASE Formal
    BY <1>5, FormalStep DEF StepKinds
  <1>6. CASE MemberDecl
    BY <1>6, MemberDeclStep DEF StepKinds
  <1>7. CASE \E e \in Exprs : IfStmt(e)
    BY <1>7, BranchStep DEF IfStmt, StepKinds
  <1>8. CASE \E e \in Exprs : WhileStmt(e)
    BY <1>8, BranchStep DEF WhileStmt, StepKinds
  <1>9. CASE ElseStmt
    BY <1>9, ElseStmtStep DEF StepKinds
  <1>10. CASE LeaveScope
    BY <1>10, LeaveScopeStep DEF StepKinds
  <1>11. CASE \E e \in Exprs \cup {NULL} : ReturnStmt(e)
    BY <1>11, StatementStays DEF ReturnStmt, AtStatement, Walking, StepKinds
  <1>12. CASE \E e \in Exprs : ExprStmt(e)
    BY <1>12, StatementStays DEF ExprStmt, AtStatement, Walking, StepKinds
  <1>13. CASE LabelOrGoto
    BY <1>13, StatementStays DEF LabelOrGoto, AtStatement, Walking, StepKinds
  <1>14. CASE EndOfProgram
    BY <1>14, StatementStays DEF EndOfProgram, AtStatement, Walking, StepKinds
  <1>15. CASE UNCHANGED vars
    BY <1>15, StatementStays DEF vars, StepKinds
  <1>16. CASE Ended
    BY <1>15, <1>16 DEF Ended
  <1> QED
    BY <1>1, <1>2, <1>3, <1>4, <1>5, <1>6, <1>7, <1>8, <1>9, <1>10, <1>11, <1>12,
       <1>13, <1>14, <1>15, <1>16 DEF Next

-----------------------------------------------------------------------------
(* What the steps keep *)

\* A structure has no statements, so no scope is opened inside its own.
StructsOnTop == \A i \in 1 .. Len(frames) - 1 : frames[i].node # "N_STRUCT_DECL"

\* A function is declared, with its return type, in the scope around its own.
FunctionsDeclared ==
    \A i \in 1 .. Len(frames) : frames[i].node = "N_FUNC_DECL" =>
       LET chain == scopes[i].table[SlotOf(frames[i].name)]
       IN  /\ chain # << >>
           /\ chain[1].symbol_type = "FUNCTION"
           /\ chain[1].type = frames[i].type

\* Formals and members are in scopes of functions and structures.
ParamsAtHome ==
    \A i \in 1 .. Len(scopes) : \A slot \in Slots :
       /\ scopes[i].table[slot] # << >>
       /\ scopes[i].table[slot][1].symbol_type \in {"FORMAL", "MEMBER"}
       => i > 1 /\ frames[i - 1].node \in {"N_FUNC_DECL", "N_STRUCT_DECL"}

\* A binding is in the slot of its name.
Keyed ==
    \A i \in 1 .. Len(scopes) : \A slot \in Slots :
       scopes[i].table[slot] # << >> => SlotOf(scopes[i].table[slot][1].name) = slot

\* A function has as many formals as it counts.
FormalsCounted ==
    \A i \in 1 .. Len(scopes) : \A slot \in Slots :
       scopes[i].table[slot] # << >> => Counted(scopes[i].table[slot][1])

Rules == StructsOnTop /\ FunctionsDeclared /\ ParamsAtHome /\ Keyed /\ FormalsCounted

RulesInv == SlotInv /\ Rules

\* The lengths, and the top of the C stack.
LEMMA Lengths ==
    ASSUME SlotInv
    PROVE  /\ Len(frames) \in Nat /\ Len(scopes) = Len(frames) + 1
           /\ frames # << >> => Len(frames) > 0 /\ Top = frames[Len(frames)]
  <1>1. frames \in Seq(Frames) /\ Len(frames) \in Nat /\ Len(scopes) = Len(frames) + 1
    BY CurrentScope DEF SlotInv
  <1>2. frames # << >> => Len(frames) > 0
    BY <1>1, EmptySeq
  <1> QED
    BY <1>1, <1>2 DEF Top, Last

\* The names of frames and bindings have slots.
LEMMA SlotsOfNames ==
    ASSUME SlotInv
    PROVE  \A i \in 1 .. Len(frames) : frames[i].name \in Names /\ SlotOf(frames[i].name) \in Slots
  <1>1. frames \in Seq(Frames)
    BY CurrentScope DEF SlotInv
  <1>2. \A i \in 1 .. Len(frames) : frames[i] \in Frames
    BY <1>1, ElementOfSeq
  <1> QED
    BY <1>2 DEF Frames, Slots

\* A step that stays keeps the rules.
LEMMA StaysRules ==
    ASSUME RulesInv, Stays
    PROVE  Rules'
  <1>1. /\ UNCHANGED scopes /\ Len(frames') = Len(frames) /\ Len(frames) \in Nat
        /\ Len(scopes) = Len(frames) + 1
        /\ \A i \in 1 .. Len(frames) : /\ frames'[i].node = frames[i].node
                                       /\ frames'[i].name = frames[i].name
                                       /\ frames'[i].type = frames[i].type
    BY Lengths DEF RulesInv, Stays, SameFrames
  <1>2. StructsOnTop'
    BY <1>1 DEF RulesInv, Rules, StructsOnTop
  <1>3. FunctionsDeclared'
    BY <1>1 DEF RulesInv, Rules, FunctionsDeclared
  <1>4. ParamsAtHome'
    BY <1>1 DEF RulesInv, Rules, ParamsAtHome
  <1>5. Keyed' /\ FormalsCounted'
    BY <1>1 DEF RulesInv, Rules, Keyed, FormalsCounted
  <1> QED
    BY <1>2, <1>3, <1>4, <1>5 DEF Rules

\* What an insertion does to the bindings in their slots.
LEMMA GainsKeyed ==
    ASSUME RulesInv, NEW b, Gains(b)
    PROVE  \A i \in 1 .. Len(scopes) : \A slot \in Slots :
              scopes'[i].table[slot] # << >> => SlotOf(scopes'[i].table[slot][1].name) = slot
  BY DEF RulesInv, Rules, Keyed, Gains

\* What an insertion does to the functions' counts.
LEMMA GainsCounted ==
    ASSUME RulesInv, NEW b, Gains(b), Counted(b)
    PROVE  \A i \in 1 .. Len(scopes) : \A slot \in Slots :
              scopes'[i].table[slot] # << >> => Counted(scopes'[i].table[slot][1])
  BY DEF RulesInv, Rules, FormalsCounted, Gains

\* A function keeps its binding: the slot of an insertion was empty.
LEMMA GainsFunctions ==
    ASSUME RulesInv, NEW b, Gains(b), scopes[Len(scopes)].table[SlotOf(b.name)] = << >>,
           NEW i \in 1 .. Len(frames), frames[i].node = "N_FUNC_DECL"
    PROVE  LET chain == scopes'[i].table[SlotOf(frames[i].name)]
           IN  /\ chain # << >>
               /\ chain[1].symbol_type = "FUNCTION"
               /\ chain[1].type = frames[i].type
  <1>1. i \in 1 .. Len(scopes)
    BY Lengths DEF RulesInv
  <1>2. SlotOf(frames[i].name) \in Slots
    BY SlotsOfNames DEF RulesInv
  <1>3. scopes[i].table[SlotOf(frames[i].name)] # << >>
    BY DEF RulesInv, Rules, FunctionsDeclared
  <1>4. scopes'[i].table[SlotOf(frames[i].name)] = scopes[i].table[SlotOf(frames[i].name)]
    BY <1>1, <1>2, <1>3 DEF Gains
  <1> QED
    BY <1>4 DEF RulesInv, Rules, FunctionsDeclared

\* An insertion keeps the rules.
LEMMA InsertsRules ==
    ASSUME RulesInv, NEW b \in Bindings, Inserts(b)
    PROVE  Rules'
  <1>1. /\ Len(scopes') = Len(scopes) /\ Len(frames') = Len(frames)
        /\ Len(frames) \in Nat /\ Len(scopes) = Len(frames) + 1
        /\ \A i \in 1 .. Len(frames) : /\ frames'[i].node = frames[i].node
                                       /\ frames'[i].name = frames[i].name
                                       /\ frames'[i].type = frames[i].type
        /\ Gains(b) /\ scopes[Len(scopes)].table[SlotOf(b.name)] = << >>
    BY Lengths DEF RulesInv, Inserts, SameFrames
  <1>2. StructsOnTop'
    BY <1>1 DEF RulesInv, Rules, StructsOnTop
  <1>3. FunctionsDeclared'
    BY <1>1, GainsFunctions DEF FunctionsDeclared
  <1>4. ASSUME NEW i \in 1 .. Len(scopes), NEW slot \in Slots,
               scopes'[i].table[slot] # << >>,
               scopes'[i].table[slot][1].symbol_type \in {"FORMAL", "MEMBER"}
        PROVE  i > 1 /\ frames'[i - 1].node \in {"N_FUNC_DECL", "N_STRUCT_DECL"}
    <2>1. CASE i = Len(scopes) /\ slot = SlotOf(b.name)
      <3>1. scopes'[i].table[slot] = <<b>>
        BY <2>1, <1>1 DEF Gains
      <3>2. b.symbol_type \in {"FORMAL", "MEMBER"}
        BY <1>4, <3>1
      <3>3. Len(frames) > 0 /\ frames[Len(frames)].node \in {"N_FUNC_DECL", "N_STRUCT_DECL"}
        BY <3>2, Lengths DEF RulesInv, Inserts
      <3> QED
        BY <1>1, <2>1, <3>3
    <2>2. CASE ~ (i = Len(scopes) /\ slot = SlotOf(b.name))
      <3>1. scopes'[i].table[slot] = scopes[i].table[slot]
        BY <1>1, <2>2 DEF Gains
      <3>2. i > 1 /\ frames[i - 1].node \in {"N_FUNC_DECL", "N_STRUCT_DECL"}
        BY <1>4, <3>1 DEF RulesInv, Rules, ParamsAtHome
      <3> QED
        BY <1>1, <3>2
    <2> QED
      BY <2>1, <2>2
  <1>5. ParamsAtHome'
    BY <1>1, <1>4 DEF ParamsAtHome
  <1>6. Keyed' /\ FormalsCounted'
    BY <1>1, GainsKeyed, GainsCounted DEF Keyed, FormalsCounted, Inserts
  <1> QED
    BY <1>2, <1>3, <1>5, <1>6 DEF Rules

\* A scope is entered from a statement: the frame on top is not a structure.
LEMMA PushesStructs ==
    ASSUME RulesInv, AtStatement, NEW frame, Pushes(frame)
    PROVE  StructsOnTop'
  <1>1. /\ Len(frames') = Len(frames) + 1 /\ Len(frames) \in Nat
        /\ \A i \in 1 .. Len(frames) : frames'[i] = frames[i]
    BY Lengths DEF RulesInv, Pushes
  <1>2. ASSUME NEW i \in 1 .. Len(frames)
        PROVE  frames[i].node # "N_STRUCT_DECL"
    <2>1. CASE i = Len(frames)
      <3>1. frames # << >>
        BY <2>1, EmptySeq
      <3> QED
        BY <2>1, <3>1, Lengths DEF RulesInv, AtStatement
    <2>2. CASE i # Len(frames)
      BY <1>1, <2>2 DEF RulesInv, Rules, StructsOnTop
    <2> QED
      BY <2>1, <2>2
  <1> QED
    BY <1>1, <1>2 DEF StructsOnTop

\* A declaration that opens a scope keeps the rules.
LEMMA DeclaresRules ==
    ASSUME RulesInv, NEW b \in Bindings, NEW frame \in Frames, Declares(b, frame)
    PROVE  Rules'
  <1>1. PICK n : n = Len(frames)
    OBVIOUS
  <1>2. n \in Nat /\ Len(scopes) = n + 1
    BY <1>1, Lengths DEF RulesInv
  <1>3. /\ Len(scopes') = n + 2 /\ Len(frames') = n + 1
        /\ \A slot \in Slots : scopes'[n + 2].table[slot] = << >>
        /\ \A i \in 1 .. n : frames'[i] = frames[i]
        /\ frames'[n + 1] = frame
        /\ Gains(b) /\ frame.name = b.name
    BY <1>1, <1>2 DEF Declares, Pushes
  <1>4. scopes[n + 1].table[SlotOf(b.name)] = << >>
    BY <1>2 DEF Declares, Free
  <1>5. SlotOf(b.name) \in Slots
    BY DEF Bindings, Slots
  <1>6. scopes'[n + 1].table[SlotOf(b.name)] = <<b>>
    BY <1>2, <1>3, <1>5 DEF Gains
  <1>7. StructsOnTop'
    BY PushesStructs DEF Declares
  <1>8. ASSUME NEW i \in 1 .. n + 1, frames'[i].node = "N_FUNC_DECL"
        PROVE  LET chain == scopes'[i].table[SlotOf(frames'[i].name)]
               IN  /\ chain # << >>
                   /\ chain[1].symbol_type = "FUNCTION"
                   /\ chain[1].type = frames'[i].type
    <2>1. CASE i = n + 1
      <3>1. b.symbol_type = "FUNCTION" /\ frame.type = b.type
        BY <1>3, <1>8, <2>1 DEF Declares
      <3>2. scopes'[i].table[SlotOf(frames'[i].name)] = <<b>> /\ frames'[i] = frame
        BY <1>3, <1>6, <2>1
      <3> QED
        BY <3>1, <3>2
    <2>2. CASE i # n + 1
      <3>1. i \in 1 .. Len(frames) /\ frames'[i] = frames[i]
        BY <1>1, <1>2, <1>3, <2>2
      <3> QED
        BY <1>2, <1>3, <1>4, <1>8, <3>1, GainsFunctions
    <2> QED
      BY <2>1, <2>2
  <1>9. FunctionsDeclared'
    BY <1>3, <1>8 DEF FunctionsDeclared
  <1>10. ASSUME NEW i \in 1 .. n + 2, NEW slot \in Slots,
                scopes'[i].table[slot] # << >>,
                scopes'[i].table[slot][1].symbol_type \in {"FORMAL", "MEMBER"}
         PROVE  i > 1 /\ frames'[i - 1].node \in {"N_FUNC_DECL", "N_STRUCT_DECL"}
    <2>1. i \in 1 .. Len(scopes)
      BY <1>2, <1>3, <1>10
    <2>2. ~ (i = Len(scopes) /\ slot = SlotOf(b.name))
      BY <1>2, <1>6, <1>10 DEF Declares
    <2>3. scopes'[i].table[slot] = scopes[i].table[slot]
      BY <1>3, <2>1, <2>2 DEF Gains
    <2>4. i > 1 /\ frames[i - 1].node \in {"N_FUNC_DECL", "N_STRUCT_DECL"}
      BY <1>10, <2>1, <2>3 DEF RulesInv, Rules, ParamsAtHome
    <2>5. i - 1 \in 1 .. n
      BY <1>2, <2>1, <2>4
    <2> QED
      BY <1>3, <2>4, <2>5
  <1>11. ParamsAtHome'
    BY <1>3, <1>10 DEF ParamsAtHome
  <1>12. Keyed' /\ FormalsCounted'
    <2>1. \A i \in 1 .. n + 2 : i \in 1 .. Len(scopes) \/ i = n + 2
      BY <1>2
    <2>2. FormalsCounted'
      BY <1>3, <2>1, GainsCounted DEF FormalsCounted, Declares
    <2> QED
      BY <1>3, <2>1, <2>2, GainsKeyed DEF Keyed
  <1> QED
    BY <1>7, <1>9, <1>11, <1>12 DEF Rules

\* A branch that opens a scope keeps the rules.
LEMMA BranchesRules ==
    ASSUME RulesInv, NEW frame \in Frames, Branches(frame)
    PROVE  Rules'
  <1>1. PICK n : n = Len(frames)
    OBVIOUS
  <1>2. n \in Nat /\ Len(scopes) = n + 1
    BY <1>1, Lengths DEF RulesInv
  <1>3. /\ Len(scopes') = n + 2 /\ Len(frames') = n + 1
        /\ \A i \in 1 .. n + 1 : scopes'[i] = scopes[i]
        /\ \A slot \in Slots : scopes'[n + 2].table[slot] = << >>
        /\ \A i \in 1 .. n : frames'[i] = frames[i]
        /\ frames'[n + 1].node # "N_FUNC_DECL"
    BY <1>1, <1>2 DEF Branches, Pushes
  <1>4. StructsOnTop'
    BY PushesStructs DEF Branches
  <1>5. FunctionsDeclared'
    <2>1. \A i \in 1 .. n + 1 : i = n + 1 \/ i \in 1 .. n
      BY <1>2
    <2> QED
      BY <1>1, <1>2, <1>3, <2>1 DEF RulesInv, Rules, FunctionsDeclared
  <1>6. \A i \in 1 .. n + 2 : i = n + 2 \/ i \in 1 .. n + 1
    BY <1>2
  <1>7. ASSUME NEW i \in 1 .. n + 2, NEW slot \in Slots,
               scopes'[i].table[slot] # << >>,
               scopes'[i].table[slot][1].symbol_type \in {"FORMAL", "MEMBER"}
        PROVE  i > 1 /\ frames'[i - 1].node \in {"N_FUNC_DECL", "N_STRUCT_DECL"}
    <2>1. i \in 1 .. n + 1 /\ scopes'[i] = scopes[i]
      BY <1>3, <1>6, <1>7
    <2>2. i > 1 /\ frames[i - 1].node \in {"N_FUNC_DECL", "N_STRUCT_DECL"}
      BY <1>2, <1>7, <2>1 DEF RulesInv, Rules, ParamsAtHome
    <2>3. i - 1 \in 1 .. n
      BY <1>2, <2>1, <2>2
    <2> QED
      BY <1>3, <2>2, <2>3
  <1>8. ParamsAtHome'
    BY <1>3, <1>7 DEF ParamsAtHome
  <1>9. Keyed' /\ FormalsCounted'
    BY <1>2, <1>3, <1>6 DEF RulesInv, Rules, Keyed, FormalsCounted
  <1> QED
    BY <1>4, <1>5, <1>8, <1>9 DEF Rules

\* An else keeps the rules.
LEMMA SwapsRules ==
    ASSUME RulesInv, Swaps
    PROVE  Rules'
  <1>1. PICK n : n = Len(frames)
    OBVIOUS
  <1>2. n \in Nat /\ n > 0 /\ Len(scopes) = n + 1
    BY <1>1, Lengths DEF RulesInv, Swaps
  <1>3. /\ Len(scopes') = n + 1 /\ Len(frames') = n
        /\ \A i \in 1 .. n : scopes'[i] = scopes[i]
        /\ \A slot \in Slots : scopes'[n + 1].table[slot] = << >>
        /\ \A i \in 1 .. n - 1 : frames'[i] = frames[i]
        /\ frames'[n].node = "else"
    BY <1>1, <1>2 DEF Swaps
  <1>4. StructsOnTop'
    BY <1>1, <1>3 DEF RulesInv, Rules, StructsOnTop
  <1>5. FunctionsDeclared'
    <2>1. \A i \in 1 .. n : i = n \/ i \in 1 .. n - 1
      BY <1>2
    <2> QED
      BY <1>1, <1>2, <1>3, <2>1 DEF RulesInv, Rules, FunctionsDeclared
  <1>6. \A i \in 1 .. n + 1 : i = n + 1 \/ i \in 1 .. n
    BY <1>2
  <1>7. \A i \in 1 .. n : i > 1 => i - 1 \in 1 .. n - 1
    BY <1>2
  <1>8. ParamsAtHome'
    BY <1>2, <1>3, <1>6, <1>7 DEF RulesInv, Rules, ParamsAtHome
  <1>9. Keyed' /\ FormalsCounted'
    BY <1>2, <1>3, <1>6 DEF RulesInv, Rules, Keyed, FormalsCounted
  <1> QED
    BY <1>4, <1>5, <1>8, <1>9 DEF Rules

\* Leaving a scope keeps the rules.
LEMMA LeavesRules ==
    ASSUME RulesInv, Leaves
    PROVE  Rules'
  <1>1. PICK n : n = Len(frames)
    OBVIOUS
  <1>2. n \in Nat /\ n > 0 /\ Len(scopes) = n + 1
    BY <1>1, Lengths DEF RulesInv, Leaves
  <1>3. /\ Len(scopes') = n /\ Len(frames') = n - 1
        /\ \A i \in 1 .. n : scopes'[i] = scopes[i]
        /\ \A i \in 1 .. n - 1 : frames'[i] = frames[i]
    BY <1>1, <1>2 DEF Leaves
  <1>4. StructsOnTop'
    BY <1>1, <1>2, <1>3 DEF RulesInv, Rules, StructsOnTop
  <1>5. FunctionsDeclared'
    BY <1>1, <1>2, <1>3 DEF RulesInv, Rules, FunctionsDeclared
  <1>6. \A i \in 1 .. n : i > 1 => i - 1 \in 1 .. n - 1
    BY <1>2
  <1>7. ParamsAtHome'
    BY <1>2, <1>3, <1>6 DEF RulesInv, Rules, ParamsAtHome
  <1>8. Keyed' /\ FormalsCounted'
    BY <1>2, <1>3 DEF RulesInv, Rules, Keyed, FormalsCounted
  <1> QED
    BY <1>4, <1>5, <1>7, <1>8 DEF Rules

\* The rules hold before the first declaration.
LEMMA InitRules == Init => RulesInv
  <1> SUFFICES ASSUME Init PROVE RulesInv
    OBVIOUS
  <1>1. SlotInv
    BY InitSlots
  <1>2. Len(frames) = 0
    BY DEF Init
  <1>3. Len(scopes) = 1 /\ \A i \in 1 .. Len(scopes) : i = 1
    <2>1. Len(scopes) = Len(frames) + 1
      BY <1>1, Lengths
    <2>2. Len(scopes) = 1
      BY <1>2, <2>1
    <2> QED
      BY <2>2
  <1>4. \A slot \in Slots : scopes[1].table[slot] = << >>
    BY NewTable DEF Init, symtab_new
  <1>5. StructsOnTop /\ FunctionsDeclared
    BY <1>2 DEF StructsOnTop, FunctionsDeclared
  <1>6. ParamsAtHome /\ Keyed /\ FormalsCounted
    BY <1>3, <1>4 DEF ParamsAtHome, Keyed, FormalsCounted
  <1> QED
    BY <1>1, <1>5, <1>6 DEF RulesInv, Rules

\* Every step of the typechecker keeps the rules.
LEMMA NextRules == RulesInv /\ [Next]_vars => RulesInv'
  <1> SUFFICES ASSUME RulesInv, [Next]_vars PROVE RulesInv'
    OBVIOUS
  <1>1. SlotInv /\ SlotInv'
    BY NextSlots DEF RulesInv
  <1>2. StepKinds
    BY <1>1, NextKinds
  <1>3. Rules'
    BY <1>2, StaysRules, InsertsRules, DeclaresRules, BranchesRules, SwapsRules,
       LeavesRules DEF StepKinds
  <1> QED
    BY <1>1, <1>3 DEF RulesInv

\* The rules hold in every reachable state.
LEMMA SpecRules == Spec => []RulesInv
  BY InitRules, NextRules, PTL DEF Spec

-----------------------------------------------------------------------------
(* What a lookup answers *)

\* The scopes, from the global one to scopes[level], that fill the name's slot.
Answers(level, name) == {i \in 1 .. level : scopes[i].table[SlotOf(name)] # << >>}

\* The answer is the binding in the innermost of these, whatever its name.
LEMMA LookupAnswer ==
    ASSUME SlotInv, NEW level \in 0 .. Len(scopes), NEW name \in Names
    PROVE  /\ symtab_lookup(scopes, level, name) =
                 IF Answers(level, name) = {} THEN NULL
                 ELSE scopes[Max(Answers(level, name))].table[SlotOf(name)][1]
           /\ Answers(level, name) # {} =>
                 Max(Answers(level, name)) \in Answers(level, name)
  <1>1. scopes \in Seq(Scopes)
    BY CurrentScope DEF SlotInv
  <1>2. Len(scopes) \in Nat /\ level \in Nat /\ \A i \in 1 .. level : i \in 1 .. Len(scopes)
    BY <1>1
  <1>3. ASSUME NEW i \in 1 .. level
        PROVE  /\ symtab_lookup_single(scopes, i, name) # NULL
                  <=> scopes[i].table[SlotOf(name)] # << >>
               /\ scopes[i].table[SlotOf(name)] # << >> =>
                     symtab_lookup_single(scopes, i, name) = scopes[i].table[SlotOf(name)][1]
    <2>1. scopes[i].table \in Tables
      <3>1. scopes[i] \in Scopes
        BY <1>1, <1>2, ElementOfSeq
      <3> QED
        BY <3>1 DEF Scopes
    <2>2. Len(scopes[i].table[SlotOf(name)]) <= 1
      BY <1>2 DEF SlotInv, OneEach, Slots
    <2> QED
      BY <2>1, <2>2, ShortChainLookup DEF symtab_lookup_single
  <1>4. {i \in 1 .. level : symtab_lookup_single(scopes, i, name) # NULL} = Answers(level, name)
    BY <1>3 DEF Answers
  <1>5. Answers(level, name) # {} => Max(Answers(level, name)) \in Answers(level, name)
    <2>1. Answers(level, name) \in SUBSET (1 .. level)
      BY DEF Answers
    <2> QED
      BY <1>2, <2>1, MaxOfIndexes
  <1>6. \A i \in Answers(level, name) :
           symtab_lookup_single(scopes, i, name) = scopes[i].table[SlotOf(name)][1]
    BY <1>3 DEF Answers
  <1> QED
    BY <1>4, <1>5, <1>6 DEF symtab_lookup

\* A lookup from the current scope that answers, does so with a binding in the
\* slot of its own name.
LEMMA LookupKeyed ==
    ASSUME RulesInv, NEW name \in Names, Lookup(name) # NULL
    PROVE  Lookup(name) \in Bindings /\ SlotOf(Lookup(name).name) = SlotOf(name)
  <1>1. scopes \in Seq(Scopes) /\ Len(scopes) \in 0 .. Len(scopes)
    BY CurrentScope DEF RulesInv, SlotInv
  <1>2. Lookup(name) \in Bindings
    BY <1>1, ScopesLookup DEF Lookup, Level
  <1>3. PICK i \in Answers(Len(scopes), name) :
           Lookup(name) = scopes[i].table[SlotOf(name)][1]
    BY <1>1, LookupAnswer DEF Lookup, Level, RulesInv
  <1>4. i \in 1 .. Len(scopes) /\ scopes[i].table[SlotOf(name)] # << >> /\ SlotOf(name) \in Slots
    BY <1>3 DEF Answers, Slots
  <1> QED
    BY <1>2, <1>3, <1>4 DEF RulesInv, Rules, Keyed

-----------------------------------------------------------------------------
(* Return statements *)

\* From one scope on, as long as no function or structure is entered, the name
\* stays.
LEMMA NameGoesDown ==
    ASSUME SlotInv, NEW m \in 1 .. Len(scopes),
           \A i \in m .. Len(frames) : frames[i].node \notin {"N_FUNC_DECL", "N_STRUCT_DECL"}
    PROVE  curr_scope.name = scopes[m].name
  <1> DEFINE S == {j \in m .. Len(scopes) : scopes[j].name # scopes[m].name}
  <1>1. Len(frames) \in Nat /\ Len(scopes) = Len(frames) + 1
    BY Lengths
  <1>2. S = {}
    <2> SUFFICES ASSUME S # {} PROVE FALSE
      OBVIOUS
    <2>1. S \in SUBSET Nat
      BY <1>1
    <2>2. PICK j \in S : \A k \in S : j <= k
      BY <2>1, LeastNat
    <2>3. j \in m .. Len(scopes) /\ scopes[j].name # scopes[m].name /\ j # m
      OBVIOUS
    <2>4. j - 1 \in m .. Len(frames) /\ j - 1 \in 1 .. Len(frames) /\ j - 1 + 1 = j
      BY <1>1, <2>3
    <2>5. scopes[j - 1].name = scopes[m].name
      <3>1. j - 1 \in m .. Len(scopes) /\ ~ (j <= j - 1)
        BY <1>1, <2>3
      <3> QED
        BY <2>2, <3>1
    <2>6. scopes[j].name = scopes[j - 1].name
      BY <2>4 DEF SlotInv, WalkInv, ScopesTrackFrames
    <2> QED
      BY <2>3, <2>5, <2>6
  <1>3. Len(scopes) \in m .. Len(scopes)
    BY <1>1
  <1> QED
    BY <1>2, <1>3 DEF curr_scope, Level

\* At a statement no structure is open.
LEMMA NoOpenStruct ==
    ASSUME RulesInv, AtStatement
    PROVE  \A i \in 1 .. Len(frames) : frames[i].node # "N_STRUCT_DECL"
  <1> SUFFICES ASSUME NEW i \in 1 .. Len(frames)
               PROVE  frames[i].node # "N_STRUCT_DECL"
    OBVIOUS
  <1>1. Len(frames) \in Nat
    BY Lengths DEF RulesInv
  <1>2. CASE i = Len(frames)
    <2>1. frames # << >>
      BY <1>2, EmptySeq
    <2> QED
      BY <1>2, <2>1, Lengths DEF RulesInv, AtStatement
  <1>3. CASE i # Len(frames)
    BY <1>1, <1>3 DEF RulesInv, Rules, StructsOnTop
  <1> QED
    BY <1>2, <1>3

\* The innermost open function.
LEMMA InnermostFunction ==
    ASSUME RulesInv, OpenFunctions # {}
    PROVE  /\ Enclosing \in 1 .. Len(frames) /\ frames[Enclosing].node = "N_FUNC_DECL"
           /\ \A i \in 1 .. Len(frames) : i > Enclosing => frames[i].node # "N_FUNC_DECL"
  <1>1. frames \in Seq(Frames) /\ Len(frames) \in Nat
    BY CurrentScope DEF RulesInv, SlotInv
  <1>2. OpenFunctions = {i \in 1 .. Len(frames) : frames[i].node = "N_FUNC_DECL"}
    BY <1>1 DEF OpenFunctions
  <1>3. OpenFunctions \in SUBSET (1 .. Len(frames))
    BY <1>2
  <1>4. Enclosing \in OpenFunctions /\ \A i \in OpenFunctions : i <= Enclosing
    BY <1>1, <1>3, MaxOfIndexes DEF Enclosing
  <1>5. \A i \in 1 .. Len(frames) : i > Enclosing => ~ (i <= Enclosing)
    BY <1>2, <1>4
  <1> QED
    BY <1>2, <1>4, <1>5

\* The name the lookup of a return starts from.
LEMMA ReturnName ==
    ASSUME RulesInv, AtStatement, OpenFunctions # {}
    PROVE  curr_scope.name = frames[Enclosing].name
  <1>1. PICK m : m = Enclosing
    OBVIOUS
  <1>2. /\ m \in 1 .. Len(frames) /\ frames[m].node = "N_FUNC_DECL"
        /\ \A i \in 1 .. Len(frames) : i > m => frames[i].node # "N_FUNC_DECL"
    BY <1>1, InnermostFunction
  <1>3. Len(frames) \in Nat /\ Len(scopes) = Len(frames) + 1
    BY Lengths DEF RulesInv
  <1>4. m + 1 \in 1 .. Len(scopes)
    BY <1>2, <1>3
  <1>5. \A i \in m + 1 .. Len(frames) : frames[i].node \notin {"N_FUNC_DECL", "N_STRUCT_DECL"}
    <2>1. \A i \in m + 1 .. Len(frames) : i \in 1 .. Len(frames) /\ i > m
      BY <1>2, <1>3
    <2> QED
      BY <1>2, <2>1, NoOpenStruct
  <1>6. curr_scope.name = scopes[m + 1].name
    BY <1>4, <1>5, NameGoesDown DEF RulesInv
  <1>7. scopes[m + 1].name = frames[m].name
    BY <1>2 DEF RulesInv, SlotInv, WalkInv, ScopesTrackFrames
  <1> QED
    BY <1>1, <1>6, <1>7

\* Which scope answers that lookup: another one that fills the slot would hold a
\* formal of the function, since every binding further in is none.
LEMMA ReturnScope ==
    ASSUME RulesInv, AtStatement, OpenFunctions # {},
           Level = Enclosing + 1 \/ ~FormalHidesFunction
    PROVE  /\ Enclosing \in Answers(Level - 1, frames[Enclosing].name)
           /\ \A i \in Answers(Level - 1, frames[Enclosing].name) : i <= Enclosing
  <1>1. PICK m : m = Enclosing
    OBVIOUS
  <1>2. PICK slot : slot = SlotOf(frames[m].name)
    OBVIOUS
  <1>3. /\ m \in 1 .. Len(frames) /\ frames[m].node = "N_FUNC_DECL"
        /\ \A i \in 1 .. Len(frames) : i > m => frames[i].node # "N_FUNC_DECL"
    BY <1>1, InnermostFunction
  <1>4. Len(frames) \in Nat /\ Len(scopes) = Len(frames) + 1 /\ Level - 1 = Len(frames)
    BY Lengths DEF RulesInv, Level
  <1>5. slot \in Slots
    BY <1>2, <1>3, SlotsOfNames DEF RulesInv
  <1>6. scopes[m].table[slot] # << >>
    BY <1>2, <1>3 DEF RulesInv, Rules, FunctionsDeclared
  <1>7. ASSUME NEW i \in 1 .. Len(frames), scopes[i].table[slot] # << >>, i > m
        PROVE  FALSE
    <2>1. i \in 1 .. Len(scopes) /\ m \in 1 .. i - 1 /\ i - 1 \in 1 .. Len(frames)
      BY <1>3, <1>4, <1>7
    <2>2. scopes[i].table[slot][1].symbol_type \in {"FORMAL", "MEMBER"}
      BY <1>5, <1>6, <1>7, <2>1 DEF RulesInv, SlotInv, ParamsShadow
    <2>3. frames[i - 1].node \in {"N_FUNC_DECL", "N_STRUCT_DECL"}
      BY <1>5, <1>7, <2>1, <2>2 DEF RulesInv, Rules, ParamsAtHome
    <2>4. ~ (i - 1 > m)
      BY <1>3, <2>1, <2>3, NoOpenStruct
    <2>5. i = m + 1 /\ Level # m + 1
      <3>1. i = m + 1
        BY <1>3, <1>7, <2>4
      <3> QED
        BY <1>3, <1>4, <3>1
    <2>6. scopes[m + 1].table[slot] = << >>
      BY <1>1, <1>2, <2>5 DEF FormalHidesFunction
    <2> QED
      BY <1>7, <2>5, <2>6
  <1>8. m \in Answers(Len(frames), frames[m].name)
    BY <1>2, <1>3, <1>6 DEF Answers
  <1>9. ASSUME NEW i \in Answers(Len(frames), frames[m].name)
        PROVE  i <= m
    <2>1. i \in 1 .. Len(frames) /\ scopes[i].table[slot] # << >>
      BY <1>2 DEF Answers
    <2>2. ~ (i > m)
      BY <1>7, <2>1
    <2> QED
      BY <1>3, <2>1, <2>2
  <1> QED
    BY <1>1, <1>4, <1>8, <1>9

\* The binding against which a return is checked is that of the innermost
\* function around it, unless a formal of the function fills the slot of its
\* name and the return is in a branch.
THEOREM ReturnsFindFunctions == Spec => []ReturnFindsFunction
  <1>1. RulesInv => ReturnFindsFunction
    <2> SUFFICES ASSUME RulesInv, AtStatement, OpenFunctions # {},
                        Level = Enclosing + 1 \/ ~FormalHidesFunction
                 PROVE  /\ ReturnBinding # NULL
                        /\ ReturnBinding.symbol_type = "FUNCTION"
                        /\ ReturnBinding.type = frames[Enclosing].type
      BY DEF ReturnFindsFunction
    <2>1. PICK m : m = Enclosing
      OBVIOUS
    <2>2. PICK A : A = Answers(Level - 1, frames[m].name)
      OBVIOUS
    <2>3. m \in 1 .. Len(frames) /\ frames[m].node = "N_FUNC_DECL"
      BY <2>1, InnermostFunction
    <2>4. Level - 1 \in 0 .. Len(scopes) /\ m \in 1 .. Len(scopes)
      BY <2>3, Lengths DEF RulesInv, Level
    <2>5. frames[m].name \in Names /\ SlotOf(frames[m].name) \in Slots
      BY <2>3, SlotsOfNames DEF RulesInv
    <2>6. m \in A /\ \A i \in A : i <= m
      BY <2>1, <2>2, ReturnScope
    <2>7. ReturnBinding = scopes[Max(A)].table[SlotOf(frames[m].name)][1] /\ Max(A) \in A
      BY <2>1, <2>2, <2>4, <2>5, <2>6, ReturnName, LookupAnswer DEF RulesInv, ReturnBinding
    <2>8. Max(A) = m
      <3>1. Len(frames) \in Nat /\ A \in SUBSET (1 .. Len(frames))
        BY <2>2, Lengths DEF Answers, RulesInv, Level
      <3>2. m <= Max(A) /\ Max(A) <= m /\ Max(A) \in 1 .. Len(frames)
        BY <2>6, <2>7, <3>1, MaxOfIndexes
      <3> QED
        BY <2>3, <3>2
    <2>9. ReturnBinding = scopes[m].table[SlotOf(frames[m].name)][1]
      BY <2>7, <2>8
    <2>10. scopes[m].table[SlotOf(frames[m].name)] # << >>
      BY <2>3 DEF RulesInv, Rules, FunctionsDeclared
    <2>11. ReturnBinding \in Bindings
      <3>1. scopes \in Seq(Scopes)
        BY CurrentScope DEF RulesInv, SlotInv
      <3>2. curr_scope.name \in Names
        BY CurrentScope DEF RulesInv, SlotInv
      <3>3. ReturnBinding # NULL
        BY <2>1, <2>2, <2>4, <2>5, <2>6, <2>10, <3>1, <3>2, ReturnName, ScopesLookupNull
           DEF RulesInv, SlotInv, OneEach, ReturnBinding, Answers
      <3> QED
        BY <2>4, <3>1, <3>2, <3>3, ScopesLookup DEF ReturnBinding
    <2> QED
      BY <2>1, <2>3, <2>9, <2>11, SymbolTableAssumption DEF RulesInv, Rules, FunctionsDeclared
  <1> QED
    BY <1>1, SpecRules, PTL

\* Outside every function the lookup of a return starts from the name of the
\* global scope.
LEMMA StrayReturn ==
    ASSUME RulesInv, AtStatement, OpenFunctions = {}, NEW root \in Names,
           scopes[1].name = root, Lookup(root) = NULL, NEW e
    PROVE  ReturnVerdict(e) # "ok"
  <1>1. scopes \in Seq(Scopes) /\ Len(frames) \in Nat /\ Len(scopes) = Len(frames) + 1
    BY CurrentScope DEF RulesInv, SlotInv
  <1>2. \A i \in 1 .. Len(frames) : frames[i].node \notin {"N_FUNC_DECL", "N_STRUCT_DECL"}
    <2>1. frames \in Seq(Frames)
      BY CurrentScope DEF RulesInv, SlotInv
    <2>2. \A i \in 1 .. Len(frames) : frames[i].node # "N_FUNC_DECL"
      BY <2>1 DEF OpenFunctions
    <2> QED
      BY <2>2, NoOpenStruct
  <1>3. curr_scope.name = root
    <2>1. 1 \in 1 .. Len(scopes)
      BY <1>1
    <2> QED
      BY <1>2, <2>1, NameGoesDown DEF RulesInv
  <1>4. ReturnBinding = NULL
    <2>1. /\ Level = Len(scopes) /\ Level \in 0 .. Len(scopes) /\ Level - 1 \in 0 .. Len(scopes)
          /\ \A i \in 1 .. Level - 1 : i \in 1 .. Level
      BY <1>1 DEF Level
    <2>2. \A i \in 1 .. Level : scopes[i].table[SlotOf(root)] = << >>
      BY <1>1, <2>1, ScopesLookupNull DEF Lookup, RulesInv, SlotInv, OneEach
    <2>3. \A i \in 1 .. Level - 1 : scopes[i].table[SlotOf(root)] = << >>
      BY <2>1, <2>2
    <2>4. symtab_lookup(scopes, Level - 1, root) = NULL
      BY <1>1, <2>1, <2>3, ScopesLookupNull DEF RulesInv, SlotInv, OneEach
    <2> QED
      BY <1>3, <2>4 DEF ReturnBinding
  <1> QED
    BY <1>4 DEF ReturnVerdict

\* A return outside every function is refused, however deep in branches, unless
\* a name in scope falls in the slot of the empty name.
THEOREM StrayReturnsRefused == Spec => []NoStrayReturn
  <1>1. RulesInv => NoStrayReturn
    <2>1. RulesInv => scopes[1].name = "" /\ "" \in Names
      BY SymbolTableAssumption DEF RulesInv, SlotInv, WalkInv, ScopesTrackFrames
    <2> QED
      BY <2>1, StrayReturn DEF NoStrayReturn
  <1> QED
    BY <1>1, SpecRules, PTL

-----------------------------------------------------------------------------
(* The declarations of a scope *)

Inside(scope) == UNION {ToSet(scope.table[slot]) : slot \in Slots}

Entry(b) == [name |-> b.name, kind |-> b.symbol_type]

DeclarationsOf(scope) == {Entry(b) : b \in Inside(scope)}

\* The refinement mapping, scope by scope.
LEMMA BlocksByScope ==
    /\ Blocks = [i \in 1 .. Len(scopes) |-> DeclarationsOf(scopes[i])]
    /\ Blocks' = [i \in 1 .. Len(scopes') |-> DeclarationsOf(scopes'[i])]
  BY DEF Blocks, BindingsIn, DeclarationsOf, Entry, Inside

\* A binding is inside a scope when it is in one of its chains.
LEMMA InsideChain ==
    ASSUME NEW scope, NEW b
    PROVE  b \in Inside(scope) <=> \E slot \in Slots : b \in ToSet(scope.table[slot])
  BY DEF Inside

\* Scopes with the same chains have the same declarations.
LEMMA SameChains ==
    ASSUME NEW s, NEW t, \A slot \in Slots : s.table[slot] = t.table[slot]
    PROVE  DeclarationsOf(s) = DeclarationsOf(t)
  <1>1. ASSUME NEW b PROVE b \in Inside(s) <=> b \in Inside(t)
    <2>1. \A slot \in Slots : b \in ToSet(s.table[slot]) <=> b \in ToSet(t.table[slot])
      OBVIOUS
    <2> QED
      BY <2>1, InsideChain
  <1>2. Inside(s) = Inside(t)
    BY <1>1
  <1> QED
    BY <1>2 DEF DeclarationsOf

\* A scope without bindings has no declarations.
LEMMA EmptyChains ==
    ASSUME NEW s, \A slot \in Slots : s.table[slot] = << >>
    PROVE  DeclarationsOf(s) = {}
  <1>1. ToSet(<< >>) = {}
    BY DEF ToSet
  <1>2. \A slot \in Slots : ToSet(s.table[slot]) = {}
    BY <1>1
  <1>3. \A b : b \notin Inside(s)
    BY <1>2, InsideChain
  <1> QED
    BY <1>3 DEF DeclarationsOf

\* A binding put into an empty chain adds its declaration.
LEMMA GainedChain ==
    ASSUME NEW s, NEW t, NEW b, NEW slot \in Slots,
           s.table[slot] = << >>, t.table[slot] = <<b>>,
           \A other \in Slots \ {slot} : t.table[other] = s.table[other]
    PROVE  DeclarationsOf(t) = DeclarationsOf(s) \cup {Entry(b)}
  <1>1. ToSet(<< >>) = {} /\ ToSet(<<b>>) = {b}
    BY DEF ToSet
  <1>2. ASSUME NEW c PROVE c \in Inside(t) <=> c \in Inside(s) \/ c = b
    <2>1. ASSUME NEW other \in Slots, c \in ToSet(t.table[other])
          PROVE  c \in ToSet(s.table[other]) \/ c = b
      <3>1. CASE other = slot
        BY <1>1, <2>1, <3>1
      <3>2. CASE other # slot
        BY <2>1, <3>2
      <3> QED
        BY <3>1, <3>2
    <2>2. ASSUME NEW other \in Slots, c \in ToSet(s.table[other])
          PROVE  c \in ToSet(t.table[other])
      <3>1. other # slot
        BY <1>1, <2>2
      <3> QED
        BY <2>2, <3>1
    <2>3. c = b => c \in ToSet(t.table[slot])
      BY <1>1
    <2> QED
      BY <2>1, <2>2, <2>3, InsideChain
  <1>3. Inside(t) = Inside(s) \cup {b}
    BY <1>2
  <1> QED
    BY <1>3 DEF DeclarationsOf

\* The blocks are a sequence of sets of declarations.
LEMMA BlocksTyped ==
    ASSUME SlotInv
    PROVE  /\ Blocks \in Seq(SUBSET BS!Declarations) /\ Len(Blocks) = Len(scopes)
           /\ Len(scopes) \in Nat
           /\ \A i \in 1 .. Len(scopes) : Blocks[i] = DeclarationsOf(scopes[i])
  <1>1. scopes \in Seq(Scopes) /\ Len(scopes) \in Nat
    BY CurrentScope DEF SlotInv
  <1>2. ASSUME NEW i \in 1 .. Len(scopes)
        PROVE  DeclarationsOf(scopes[i]) \in SUBSET BS!Declarations
    <2>1. \A slot \in Slots : scopes[i].table[slot] \in Seq(Bindings)
      <3>1. scopes[i] \in Scopes
        BY <1>1, ElementOfSeq
      <3> QED
        BY <3>1 DEF Scopes, Tables
    <2>2. \A slot \in Slots : ToSet(scopes[i].table[slot]) \subseteq Bindings
      <3>1. ASSUME NEW chain \in Seq(Bindings) PROVE ToSet(chain) \subseteq Bindings
        BY DEF ToSet
      <3> QED
        BY <2>1, <3>1
    <2>3. Inside(scopes[i]) \subseteq Bindings
      BY <2>2, InsideChain
    <2>4. \A b \in Bindings : Entry(b) \in BS!Declarations
      BY DEF Entry, Bindings, SymbolTypes, BS!Declarations, BS!Kinds, BS!ParamKinds
    <2> QED
      BY <2>3, <2>4 DEF DeclarationsOf
  <1>3. PICK n : n = Len(scopes)
    OBVIOUS
  <1>4. Blocks = [i \in 1 .. n |-> DeclarationsOf(scopes[i])]
    BY <1>3, BlocksByScope
  <1>5. [i \in 1 .. n |-> DeclarationsOf(scopes[i])] \in [1 .. n -> SUBSET BS!Declarations]
    BY <1>2, <1>3
  <1>6. Blocks \in Seq(SUBSET BS!Declarations) /\ Len(Blocks) = n
    BY <1>1, <1>3, <1>4, <1>5
  <1> QED
    BY <1>1, <1>3, <1>4, <1>6

\* A name whose slot is empty in a scope is not one of its names.
LEMMA FreshName ==
    ASSUME RulesInv, NEW i \in 1 .. Len(scopes), NEW name \in Names,
           scopes[i].table[SlotOf(name)] = << >>
    PROVE  name \notin BS!NamesOf(Blocks[i])
  <1> SUFFICES ASSUME name \in BS!NamesOf(Blocks[i]) PROVE FALSE
    OBVIOUS
  <1>1. PICK b \in Inside(scopes[i]) : b.name = name
    BY BlocksTyped DEF RulesInv, BS!NamesOf, DeclarationsOf, Entry
  <1>2. PICK slot \in Slots : b \in ToSet(scopes[i].table[slot])
    BY <1>1, InsideChain
  <1>3. scopes[i].table[slot] \in Seq(Bindings) /\ Len(scopes[i].table[slot]) <= 1
    <2>1. scopes \in Seq(Scopes)
      BY CurrentScope DEF RulesInv, SlotInv
    <2>2. scopes[i] \in Scopes
      BY <2>1, ElementOfSeq
    <2> QED
      BY <2>2 DEF Scopes, Tables, RulesInv, SlotInv, OneEach
  <1>4. ASSUME NEW chain \in Seq(Bindings), Len(chain) <= 1, b \in ToSet(chain)
        PROVE  chain # << >> /\ b = chain[1]
    BY <1>4 DEF ToSet
  <1>5. scopes[i].table[slot] # << >> /\ b = scopes[i].table[slot][1]
    BY <1>2, <1>3, <1>4
  <1>6. SlotOf(name) = slot
    BY <1>1, <1>5 DEF RulesInv, Rules, Keyed
  <1> QED
    BY <1>5, <1>6

\* A name whose slot is empty in every scope is not visible.
LEMMA FreshEverywhere ==
    ASSUME RulesInv, NEW name \in Names, Free(name)
    PROVE  name \notin BS!Visible
  <1>1. DOMAIN Blocks = 1 .. Len(scopes)
    BY BlocksByScope
  <1>2. \A i \in 1 .. Len(scopes) : name \notin BS!NamesOf(Blocks[i])
    BY FreshName DEF Free
  <1> QED
    BY <1>1, <1>2 DEF BS!Visible

-----------------------------------------------------------------------------
(* The steps *)

\* Which declarations an insertion adds.
LEMMA GainedBlocks ==
    ASSUME RulesInv, NEW b \in Bindings, Gains(b),
           scopes[Len(scopes)].table[SlotOf(b.name)] = << >>
    PROVE  \A i \in 1 .. Len(scopes) : DeclarationsOf(scopes'[i]) =
              IF i = Len(scopes) THEN Blocks[i] \cup {Entry(b)} ELSE Blocks[i]
  <1>1. SlotOf(b.name) \in Slots
    BY DEF Bindings, Slots
  <1>2. \A i \in 1 .. Len(scopes) : Blocks[i] = DeclarationsOf(scopes[i])
    BY BlocksTyped DEF RulesInv
  <1>3. Len(scopes) \in 1 .. Len(scopes)
    BY CurrentScope DEF RulesInv, SlotInv
  <1>4. DeclarationsOf(scopes'[Len(scopes)]) = DeclarationsOf(scopes[Len(scopes)]) \cup {Entry(b)}
    <2>1. PICK slot \in Slots : slot = SlotOf(b.name)
      BY <1>1
    <2>2. PICK s : s = scopes[Len(scopes)]
      OBVIOUS
    <2>3. PICK t : t = scopes'[Len(scopes)]
      OBVIOUS
    <2>4. s.table[slot] = << >>
      BY <2>1, <2>2
    <2>5. /\ t.table[slot] = <<b>>
          /\ \A other \in Slots \ {slot} : t.table[other] = s.table[other]
      BY <1>3, <2>1, <2>2, <2>3 DEF Gains
    <2>6. DeclarationsOf(t) = DeclarationsOf(s) \cup {Entry(b)}
      BY <2>1, <2>4, <2>5, GainedChain
    <2> QED
      BY <2>2, <2>3, <2>6
  <1>5. ASSUME NEW i \in 1 .. Len(scopes), i # Len(scopes)
        PROVE  DeclarationsOf(scopes'[i]) = DeclarationsOf(scopes[i])
    <2>1. \A slot \in Slots : scopes'[i].table[slot] = scopes[i].table[slot]
      BY <1>5 DEF Gains
    <2> QED
      BY <2>1, SameChains
  <1> QED
    BY <1>2, <1>3, <1>4, <1>5

\* The blocks with that declaration, as BlockScopes has them.
LEMMA DeclaredBlocks ==
    ASSUME RulesInv, NEW b \in Bindings
    PROVE  /\ BS!Declared(b.name, b.symbol_type) \in Seq(SUBSET BS!Declarations)
           /\ BS!Declared(b.name, b.symbol_type) =
                 [i \in 1 .. Len(scopes) |-> IF i = Len(scopes) THEN Blocks[i] \cup {Entry(b)}
                                             ELSE Blocks[i]]
  <1>1. /\ Blocks \in Seq(SUBSET BS!Declarations) /\ Len(Blocks) = Len(scopes)
        /\ Len(scopes) \in 1 .. Len(scopes) /\ Len(scopes) \in Nat
    BY BlocksTyped, CurrentScope DEF RulesInv, SlotInv
  <1>2. Entry(b) \in BS!Declarations
    BY DEF Entry, Bindings, SymbolTypes, BS!Declarations, BS!Kinds, BS!ParamKinds
  <1>3. BS!Declared(b.name, b.symbol_type) =
           [Blocks EXCEPT ![Len(Blocks)] = @ \cup {Entry(b)}]
    BY DEF BS!Declared, Entry
  <1>4. PICK n : n = Len(scopes)
    OBVIOUS
  <1>5. PICK blocks : blocks = Blocks
    OBVIOUS
  <1>6. PICK entry : entry = Entry(b)
    OBVIOUS
  <1>7. blocks[n] \cup {entry} \in SUBSET BS!Declarations
    BY <1>1, <1>2, <1>4, <1>5, <1>6, ElementOfSeq
  <1>8. DOMAIN blocks = 1 .. n
    BY <1>1, <1>4, <1>5
  <1>9. [blocks EXCEPT ![n] = @ \cup {entry}] =
           [i \in 1 .. n |-> IF i = n THEN blocks[i] \cup {entry} ELSE blocks[i]]
    BY <1>1, <1>4, <1>5, <1>8
  <1>10. [blocks EXCEPT ![n] = @ \cup {entry}] \in Seq(SUBSET BS!Declarations)
    BY <1>1, <1>4, <1>5, <1>7, ExceptSeq
  <1> QED
    BY <1>1, <1>3, <1>4, <1>5, <1>6, <1>9, <1>10

\* The program is accepted as long as the walk runs.
LEMMA AliveAccepts ==
    ASSUME Alive
    PROVE  status = "running" /\ (status = "running")' = (status = "running")
  BY DEF Alive

\* An insertion into the current scope is a Declare, or a DeclareParam.
LEMMA InsertsBlocks ==
    ASSUME RulesInv, NEW b \in Bindings, Inserts(b)
    PROVE  BS!Next
  <1>1. Blocks' = BS!Declared(b.name, b.symbol_type)
    <2>1. /\ Blocks' = [i \in 1 .. Len(scopes') |-> DeclarationsOf(scopes'[i])]
          /\ Len(scopes') = Len(scopes)
      BY BlocksByScope DEF Inserts
    <2>2. \A i \in 1 .. Len(scopes) : DeclarationsOf(scopes'[i]) =
             IF i = Len(scopes) THEN Blocks[i] \cup {Entry(b)} ELSE Blocks[i]
      BY GainedBlocks DEF Inserts
    <2> QED
      BY <2>1, <2>2, DeclaredBlocks
  <1>2. status = "running" /\ (status = "running")' = (status = "running")
    BY AliveAccepts DEF Inserts
  <1>3. b.name \in Names
    BY DEF Bindings
  <1>4. CASE b.symbol_type \in {"FUNCTION", "VARIABLE"} /\ Free(b.name)
    <2>1. BS!Declare(b.name, b.symbol_type)
      BY <1>1, <1>2, <1>3, <1>4, FreshEverywhere DEF BS!Declare
    <2>2. b.symbol_type \in BS!Kinds
      BY <1>4 DEF BS!Kinds
    <2> QED
      BY <1>2, <1>3, <2>1, <2>2 DEF BS!Next
  <1>5. CASE b.symbol_type \in {"FORMAL", "MEMBER"} /\ frames # << >>
    <2>1. Len(Blocks) = Len(scopes) /\ Len(scopes) > 1 /\ Len(scopes) \in 1 .. Len(scopes)
      <3>1. Len(Blocks) = Len(scopes)
        BY BlocksTyped DEF RulesInv
      <3>2. Len(frames) \in Nat /\ Len(frames) > 0 /\ Len(scopes) = Len(frames) + 1
        BY <1>5, Lengths DEF RulesInv
      <3> QED
        BY <3>1, <3>2
    <2>2. b.name \notin BS!NamesOf(Blocks[Len(Blocks)])
      BY <1>3, <2>1, FreshName DEF Inserts
    <2>3. BS!DeclareParam(b.name, b.symbol_type)
      BY <1>1, <1>2, <2>1, <2>2 DEF BS!DeclareParam, BS!Last, Last
    <2>4. b.symbol_type \in BS!ParamKinds
      BY <1>5 DEF BS!ParamKinds
    <2> QED
      BY <1>2, <1>3, <2>3, <2>4 DEF BS!Next
  <1> QED
    BY <1>4, <1>5 DEF Inserts

\* A new scope is a new block.
LEMMA PushedBlocks ==
    ASSUME SlotInv, NEW frame, Pushes(frame),
           NEW before \in Seq(SUBSET BS!Declarations), Len(before) = Len(scopes),
           \A i \in 1 .. Len(scopes) : DeclarationsOf(scopes'[i]) = before[i]
    PROVE  Blocks' = Append(before, {})
  <1>1. PICK n : n = Len(scopes)
    OBVIOUS
  <1>2. n \in Nat
    BY <1>1, BlocksTyped
  <1>3. /\ Blocks' = [i \in 1 .. n + 1 |-> DeclarationsOf(scopes'[i])]
        /\ DeclarationsOf(scopes'[n + 1]) = {}
    BY <1>1, BlocksByScope, EmptyChains DEF Pushes
  <1>4. Append(before, {}) = [i \in 1 .. n + 1 |-> IF i = n + 1 THEN {} ELSE before[i]]
    BY <1>1, AppendByElement
  <1>5. ASSUME NEW i \in 1 .. n + 1
        PROVE  DeclarationsOf(scopes'[i]) = IF i = n + 1 THEN {} ELSE before[i]
    <2>1. CASE i = n + 1
      BY <1>3, <2>1
    <2>2. CASE i # n + 1
      <3>1. i \in 1 .. n
        BY <1>2, <2>2
      <3> QED
        BY <1>1, <2>2, <3>1
    <2> QED
      BY <2>1, <2>2
  <1> QED
    BY <1>3, <1>4, <1>5

\* A declaration that opens a scope is a DeclareBlock.
LEMMA DeclaresBlocks ==
    ASSUME RulesInv, NEW b \in Bindings, NEW frame \in Frames, Declares(b, frame)
    PROVE  BS!Next
  <1>1. scopes[Len(scopes)].table[SlotOf(b.name)] = << >>
    BY CurrentScope DEF RulesInv, SlotInv, Declares, Free
  <1>2. PICK before : before = BS!Declared(b.name, b.symbol_type)
    OBVIOUS
  <1>3. /\ before \in Seq(SUBSET BS!Declarations)
        /\ before = [i \in 1 .. Len(scopes) |->
                       IF i = Len(scopes) THEN Blocks[i] \cup {Entry(b)} ELSE Blocks[i]]
    BY <1>2, DeclaredBlocks
  <1>4. Len(before) = Len(scopes)
    <2>1. Len(scopes) \in Nat
      BY BlocksTyped DEF RulesInv
    <2> QED
      BY <1>3, <2>1
  <1>5. \A i \in 1 .. Len(scopes) : DeclarationsOf(scopes'[i]) = before[i]
    BY <1>1, <1>3, GainedBlocks DEF Declares
  <1>6. Blocks' = Append(before, {})
    BY <1>3, <1>4, <1>5, PushedBlocks DEF RulesInv, Declares
  <1>7. status = "running" /\ (status = "running")' = (status = "running")
    BY AliveAccepts DEF Declares
  <1>8. b.name \in Names /\ b.name \notin BS!Visible
    BY FreshEverywhere DEF Bindings, Declares
  <1>9. Len(Blocks) < MaxScopes
    BY BlocksTyped DEF RulesInv, Declares, Pushes
  <1>10. BS!DeclareBlock(b.name, b.symbol_type)
    BY <1>2, <1>6, <1>7, <1>8, <1>9 DEF BS!DeclareBlock
  <1>11. b.symbol_type \in {"FUNCTION", "STRUCTURE"}
    BY DEF Declares
  <1> QED
    BY <1>7, <1>8, <1>10, <1>11 DEF BS!Next

\* An if or a while opens a block and declares nothing.
LEMMA BranchesBlocks ==
    ASSUME RulesInv, NEW frame \in Frames, Branches(frame)
    PROVE  BS!Next
  <1>1. /\ Blocks \in Seq(SUBSET BS!Declarations) /\ Len(Blocks) = Len(scopes)
        /\ \A i \in 1 .. Len(scopes) : Blocks[i] = DeclarationsOf(scopes[i])
    BY BlocksTyped DEF RulesInv
  <1>2. \A i \in 1 .. Len(scopes) : DeclarationsOf(scopes'[i]) = Blocks[i]
    BY <1>1 DEF Branches
  <1>3. Blocks' = Append(Blocks, {})
    BY <1>1, <1>2, PushedBlocks DEF RulesInv, Branches
  <1>4. status = "running" /\ (status = "running")' = (status = "running")
    BY AliveAccepts DEF Branches
  <1>5. Len(Blocks) < MaxScopes
    BY <1>1 DEF Branches, Pushes
  <1>6. BS!Open
    BY <1>3, <1>4, <1>5 DEF BS!Open
  <1> QED
    BY <1>4, <1>6 DEF BS!Next

\* The blocks around the current one.
LEMMA OuterBlocks ==
    ASSUME SlotInv, frames # << >>
    PROVE  /\ Front(Blocks) \in Seq(SUBSET BS!Declarations)
           /\ Front(Blocks) = [i \in 1 .. Len(frames) |-> DeclarationsOf(scopes[i])]
           /\ Len(frames) \in Nat /\ Len(frames) > 0
           /\ Len(Blocks) = Len(frames) + 1 /\ Len(scopes) = Len(frames) + 1
  <1>1. PICK n : n = Len(frames)
    OBVIOUS
  <1>2. n \in Nat /\ n > 0 /\ Len(scopes) = n + 1
    BY <1>1, Lengths
  <1>3. /\ Blocks \in Seq(SUBSET BS!Declarations) /\ Len(Blocks) = n + 1
        /\ \A i \in 1 .. n + 1 : Blocks[i] = DeclarationsOf(scopes[i])
    BY <1>2, BlocksTyped
  <1>4. PICK blocks : blocks = Blocks
    OBVIOUS
  <1>5. blocks # << >>
    BY <1>2, <1>3, <1>4, EmptySeq
  <1>6. /\ Front(blocks) \in Seq(SUBSET BS!Declarations)
        /\ Front(blocks) = [i \in 1 .. n |-> blocks[i]]
    <2>1. Len(blocks) - 1 = n
      BY <1>2, <1>3, <1>4
    <2> QED
      BY <1>3, <1>4, <1>5, <2>1, FrontOfSeq, FrontByElement
  <1>7. \A i \in 1 .. n : blocks[i] = DeclarationsOf(scopes[i])
    BY <1>2, <1>3, <1>4
  <1> QED
    BY <1>1, <1>2, <1>3, <1>4, <1>6, <1>7

\* An else closes the block of its if and opens its own.
LEMMA SwapsBlocks ==
    ASSUME RulesInv, Swaps
    PROVE  BS!Next
  <1>1. PICK n : n = Len(frames)
    OBVIOUS
  <1>2. PICK outer : outer = Front(Blocks)
    OBVIOUS
  <1>3. /\ outer \in Seq(SUBSET BS!Declarations)
        /\ outer = [i \in 1 .. n |-> DeclarationsOf(scopes[i])]
        /\ n \in Nat /\ n > 0 /\ Len(Blocks) = n + 1 /\ Len(scopes) = n + 1
    BY <1>1, <1>2, OuterBlocks DEF RulesInv, Swaps
  <1>4. /\ Blocks' = [i \in 1 .. n + 1 |-> DeclarationsOf(scopes'[i])]
        /\ DeclarationsOf(scopes'[n + 1]) = {}
        /\ \A i \in 1 .. n : scopes'[i] = scopes[i]
    BY <1>1, <1>3, BlocksByScope, EmptyChains DEF Swaps
  <1>5. Len(outer) = n
    BY <1>3
  <1>6. Append(outer, {}) = [i \in 1 .. n + 1 |-> IF i = n + 1 THEN {} ELSE outer[i]]
    BY <1>3, <1>5, AppendByElement
  <1>7. \A i \in 1 .. n + 1 : DeclarationsOf(scopes'[i]) = IF i = n + 1 THEN {} ELSE outer[i]
    <2>1. \A i \in 1 .. n : outer[i] = DeclarationsOf(scopes'[i])
      BY <1>3, <1>4
    <2>2. \A i \in 1 .. n + 1 : i = n + 1 \/ (i # n + 1 /\ i \in 1 .. n)
      BY <1>3
    <2>3. \A i \in 1 .. n + 1 : i # n + 1 => DeclarationsOf(scopes'[i]) = outer[i]
      BY <2>1, <2>2
    <2> QED
      BY <1>4, <2>3
  <1>8. Blocks' = Append(outer, {})
    BY <1>4, <1>6, <1>7
  <1>9. status = "running" /\ (status = "running")' = (status = "running")
    BY AliveAccepts DEF Swaps
  <1>10. BS!CloseAndOpen
    <2>1. Len(Blocks) > 1
      BY <1>3
    <2> QED
      BY <1>2, <1>8, <1>9, <2>1 DEF BS!CloseAndOpen, BS!Front, Front
  <1> QED
    BY <1>9, <1>10 DEF BS!Next

\* The return to the scope outside closes the innermost block.
LEMMA LeavesBlocks ==
    ASSUME RulesInv, Leaves
    PROVE  BS!Next
  <1>1. PICK n : n = Len(frames)
    OBVIOUS
  <1>2. PICK outer : outer = Front(Blocks)
    OBVIOUS
  <1>3. /\ outer = [i \in 1 .. n |-> DeclarationsOf(scopes[i])]
        /\ n \in Nat /\ n > 0 /\ Len(Blocks) = n + 1 /\ Len(scopes) = n + 1
    BY <1>1, <1>2, OuterBlocks DEF RulesInv, Leaves
  <1>4. /\ Blocks' = [i \in 1 .. Len(scopes') |-> DeclarationsOf(scopes'[i])]
        /\ Len(scopes') = n
        /\ \A i \in 1 .. n : scopes'[i] = scopes[i]
    <2>1. Len(scopes') = n
      BY <1>3 DEF Leaves
    <2> QED
      BY <1>1, <2>1, BlocksByScope DEF Leaves
  <1>5. Blocks' = outer
    BY <1>3, <1>4
  <1>6. status = "running" /\ (status = "running")' = (status = "running")
    BY AliveAccepts DEF Leaves
  <1>7. BS!Close
    <2>1. Len(Blocks) > 1
      BY <1>3
    <2> QED
      BY <1>2, <1>5, <1>6, <2>1 DEF BS!Close, BS!Front, Front
  <1> QED
    BY <1>6, <1>7 DEF BS!Next

\* A step that keeps scopes and frames changes nothing BlockScopes sees.
LEMMA StaysBlocks ==
    ASSUME Stays
    PROVE  [BS!Next]_<<Blocks, status = "running">>
  <1>1. Blocks' = Blocks
    BY BlocksByScope DEF Stays
  <1>2. CASE (status = "running")' = (status = "running")
    BY <1>1, <1>2
  <1>3. CASE (status = "running")' # (status = "running")
    <2>1. status = "running" /\ ~ (status' = "running")
      BY <1>3 DEF Stays
    <2>2. (status = "running")' = FALSE
      BY <2>1
    <2>3. BS!Stop
      BY <1>1, <2>2 DEF BS!Stop
    <2> QED
      BY <2>1, <2>3 DEF BS!Next
  <1> QED
    BY <1>2, <1>3

\* Every step of the typechecker is a step of BlockScopes or a stutter.
LEMMA NextBlocks ==
    RulesInv /\ [Next]_vars => [BS!Next]_<<Blocks, status = "running">>
  <1> SUFFICES ASSUME RulesInv, [Next]_vars
               PROVE  [BS!Next]_<<Blocks, status = "running">>
    OBVIOUS
  <1>1. StepKinds
    BY NextKinds DEF RulesInv
  <1> QED
    BY <1>1, StaysBlocks, InsertsBlocks, DeclaresBlocks, BranchesBlocks, SwapsBlocks,
       LeavesBlocks DEF StepKinds

\* The walk begins with one block without declarations.
LEMMA InitBlocks == Init => BS!Init
  <1> SUFFICES ASSUME Init PROVE BS!Init
    OBVIOUS
  <1>1. status = "running" /\ Len(scopes) = 1
    <2>1. SlotInv /\ Len(frames) = 0
      BY InitSlots DEF Init
    <2>2. Len(scopes) = Len(frames) + 1
      BY <2>1, Lengths
    <2>3. Len(scopes) = 1
      BY <2>1, <2>2
    <2> QED
      BY <2>3 DEF Init
  <1>2. \A slot \in Slots : scopes[1].table[slot] = << >>
    BY NewTable DEF Init, symtab_new
  <1>3. DeclarationsOf(scopes[1]) = {}
    BY <1>2, EmptyChains
  <1>4. Blocks = [i \in 1 .. 1 |-> DeclarationsOf(scopes[i])]
    BY <1>1, BlocksByScope
  <1>5. Blocks = <<{}>>
    <2>1. [i \in 1 .. 1 |-> DeclarationsOf(scopes[i])] = [i \in 1 .. 1 |-> {}]
      BY <1>3
    <2>2. <<{}>> = [i \in 1 .. 1 |-> {}]
      OBVIOUS
    <2> QED
      BY <1>4, <2>1, <2>2
  <1> QED
    BY <1>1, <1>5 DEF BS!Init

\* The tables and their lookups, which compare no names, keep the rules a
\* programmer relies on: a declaration takes a name that no open block has, a
\* formal or a member one its own block does not have, and a block that ends
\* takes its names with it.
THEOREM ScopesAreBlocks == Spec => BlockScopesSpec
  BY InitBlocks, NextBlocks, SpecRules, PTL DEF Spec, BlockScopesSpec, BS!Spec

-----------------------------------------------------------------------------
(* The recursive functions on expressions, by their equations *)

\* The rank by which these recursions end.
Depth == [e \in Exprs |-> Height[e]]

\* The nodes below an expression are expressions of smaller depth.
LEMMA OperandsBelow ==
    /\ Depth \in [Exprs -> Nat]
    /\ \A e \in Exprs : \A o \in Operands(e) : o \in Exprs /\ Depth[o] < Depth[e]
  <1>1. \A e \in Exprs : Height[e] \in Nat /\ \A o \in Operands(e) : Height[o] < Height[e]
    BY ExprsAssumption
  <1>2. \A e \in Exprs : Operands(e) \subseteq Exprs
    BY TypeCheckerAssumption
  <1> QED
    BY <1>1, <1>2 DEF Depth

\* The values of a function at the operands of an expression.
AtOperands(f, e) == [o \in Operands(e) |-> f[o]]

\* They depend on no other value of the function.
LEMMA AtOperandsBelow ==
    ASSUME NEW g, NEW h, NEW e \in Exprs,
           \A o \in Exprs : Depth[o] < Depth[e] => g[o] = h[o]
    PROVE  /\ AtOperands(g, e) = AtOperands(h, e)
           /\ \A o \in Operands(e) : g[o] = h[o]
  BY OperandsBelow DEF AtOperands

JudgeStep(f, e) == JudgeNode(e, AtOperands(f, e))
StaticStep(f, e) == StaticNode(e, AtOperands(f, e))
LenientStep(f, e) ==
    \/ e.node = "N_STRUCT_ACCESS_EXPR"
    \/ e.node = "N_CALL_EXPR" /\ ~ResolvesTo(e.func_name, {"FUNCTION"})
    \/ \E o \in Operands(e) : f[o]

JudgeRecursion == INSTANCE Recursion_proofs WITH Def <- JudgeStep
StaticRecursion == INSTANCE Recursion_proofs WITH Def <- StaticStep
LenientRecursion == INSTANCE Recursion_proofs WITH Def <- LenientStep

\* Judge satisfies its equation.
LEMMA JudgeEquation == Judge = [e \in Exprs |-> JudgeStep(Judge, e)]
  <1> DEFINE Equation(f) == f = [e \in Exprs |-> JudgeStep(f, e)]
  <1>1. JudgeRecursion!LooksBelow(Exprs, Depth)
    BY AtOperandsBelow DEF JudgeRecursion!LooksBelow, JudgeStep
  <1>2. \E f : Equation(f)
    BY <1>1, OperandsBelow, JudgeRecursion!RecursionWorks
  <1>3. Judge = CHOOSE f : Equation(f)
    BY DEF Judge, JudgeStep, AtOperands
  <1>4. Equation(Judge)
    <2> HIDE DEF Equation
    <2> QED
      BY <1>2, <1>3
  <1> QED
    BY <1>4

\* So does StaticType.
LEMMA StaticEquation == StaticType = [e \in Exprs |-> StaticStep(StaticType, e)]
  <1> DEFINE Equation(f) == f = [e \in Exprs |-> StaticStep(f, e)]
  <1>1. StaticRecursion!LooksBelow(Exprs, Depth)
    BY AtOperandsBelow DEF StaticRecursion!LooksBelow, StaticStep
  <1>2. \E f : Equation(f)
    BY <1>1, OperandsBelow, StaticRecursion!RecursionWorks
  <1>3. StaticType = CHOOSE f : Equation(f)
    BY DEF StaticType, StaticStep, AtOperands
  <1>4. Equation(StaticType)
    <2> HIDE DEF Equation
    <2> QED
      BY <1>2, <1>3
  <1> QED
    BY <1>4

\* And Lenient.
LEMMA LenientEquation == Lenient = [e \in Exprs |-> LenientStep(Lenient, e)]
  <1> DEFINE Equation(f) == f = [e \in Exprs |-> LenientStep(f, e)]
  <1>1. LenientRecursion!LooksBelow(Exprs, Depth)
    BY AtOperandsBelow DEF LenientRecursion!LooksBelow, LenientStep
  <1>2. \E f : Equation(f)
    BY <1>1, OperandsBelow, LenientRecursion!RecursionWorks
  <1>3. Lenient = CHOOSE f : Equation(f)
    BY DEF Lenient, LenientStep
  <1>4. Equation(Lenient)
    <2> HIDE DEF Equation
    <2> QED
      BY <1>2, <1>3
  <1> QED
    BY <1>4

\* The three, by node.
LEMMA NodeEquations ==
    ASSUME NEW e \in Exprs
    PROVE  /\ Judge[e] = JudgeNode(e, [o \in Operands(e) |-> Judge[o]])
           /\ StaticType[e] = StaticNode(e, [o \in Operands(e) |-> StaticType[o]])
           /\ Lenient[e] <=> LenientStep(Lenient, e)
  <1>1. Judge[e] = JudgeStep(Judge, e)
    BY JudgeEquation
  <1>2. StaticType[e] = StaticStep(StaticType, e)
    BY StaticEquation
  <1>3. Lenient[e] = LenientStep(Lenient, e)
    BY LenientEquation
  <1> QED
    BY <1>1, <1>2, <1>3 DEF JudgeStep, StaticStep, AtOperands

-----------------------------------------------------------------------------
(* Calls in a row *)

\* When a sequence of calls succeeds, each of them does.
LEMMA NoFailure ==
    ASSUME NEW calls, Len(calls) \in Nat, FirstFailure(calls) = "ok"
    PROVE  \A i \in 1 .. Len(calls) : calls[i] = "ok"
  <1> DEFINE I == {i \in 1 .. Len(calls) : calls[i] # "ok"}
             failed == IF I = {} THEN 0 ELSE Min(I)
  <1>1. FirstFailure(calls) = IF failed = 0 THEN "ok" ELSE calls[failed]
    BY DEF FirstFailure, SelectInSeq
  <1>2. I # {} => Min(I) \in I
    <2>1. I \in SUBSET Nat
      OBVIOUS
    <2> QED
      BY <2>1, MinOfNats
  <1>3. I # {} => Min(I) \in 1 .. Len(calls) /\ calls[Min(I)] # "ok"
    BY <1>2
  <1>4. I # {} => Min(I) # 0
    BY <1>3
  <1>5. I = {}
    BY <1>1, <1>3, <1>4
  <1> QED
    BY <1>5

\* Two calls.
LEMMA TwoCalls ==
    ASSUME NEW a, NEW b, FirstFailure(<<a, b>>) = "ok"
    PROVE  a = "ok" /\ b = "ok"
  <1>1. PICK calls : calls = <<a, b>>
    OBVIOUS
  <1>2. Len(calls) = 2
    BY <1>1
  <1>3. \A i \in 1 .. 2 : calls[i] = "ok"
    BY <1>1, <1>2, NoFailure
  <1> QED
    BY <1>1, <1>3

\* Three calls.
LEMMA ThreeCalls ==
    ASSUME NEW a, NEW b, NEW c, FirstFailure(<<a, b, c>>) = "ok"
    PROVE  a = "ok" /\ b = "ok" /\ c = "ok"
  <1>1. PICK calls : calls = <<a, b, c>>
    OBVIOUS
  <1>2. Len(calls) = 3
    BY <1>1
  <1>3. \A i \in 1 .. 3 : calls[i] = "ok"
    BY <1>1, <1>2, NoFailure
  <1> QED
    BY <1>1, <1>3

\* Five calls.
LEMMA FiveCalls ==
    ASSUME NEW a, NEW b, NEW c, NEW d, NEW e, FirstFailure(<<a, b, c, d, e>>) = "ok"
    PROVE  a = "ok" /\ b = "ok" /\ c = "ok" /\ d = "ok" /\ e = "ok"
  <1>1. PICK calls : calls = <<a, b, c, d, e>>
    OBVIOUS
  <1>2. Len(calls) = 5
    BY <1>1
  <1>3. \A i \in 1 .. 5 : calls[i] = "ok"
    BY <1>1, <1>2, NoFailure
  <1> QED
    BY <1>1, <1>3

-----------------------------------------------------------------------------
(* What a name means *)

\* A slot holds nothing or one binding.
LEMMA OneOfChain ==
    ASSUME SlotInv, NEW i \in 1 .. Len(scopes), NEW slot \in Slots
    PROVE  \/ scopes[i].table[slot] = << >>
           \/ /\ scopes[i].table[slot] # << >>
              /\ DOMAIN scopes[i].table[slot] = {1}
              /\ scopes[i].table[slot][1] \in Bindings
  <1>1. scopes[i].table[slot] \in Seq(Bindings)
    <2>1. scopes \in Seq(Scopes)
      BY CurrentScope DEF SlotInv
    <2>2. scopes[i] \in Scopes
      BY <2>1, ElementOfSeq
    <2> QED
      BY <2>2 DEF Scopes, Tables
  <1>2. PICK chain : chain = scopes[i].table[slot]
    OBVIOUS
  <1>3. PICK n : n = Len(chain)
    OBVIOUS
  <1>4. n \in Nat /\ n <= 1 /\ DOMAIN chain = 1 .. n /\ (n = 0 => chain = << >>)
    BY <1>1, <1>2, <1>3, EmptySeq DEF SlotInv, OneEach
  <1>5. chain # << >> => n = 1
    BY <1>4
  <1>6. chain # << >> => DOMAIN chain = {1}
    BY <1>4, <1>5
  <1>7. chain # << >> => chain[1] \in Bindings
    BY <1>1, <1>2, <1>3, <1>5, ElementOfSeq
  <1> QED
    BY <1>2, <1>6, <1>7

\* The bindings of a scope are the first ones of its slots.
LEMMA BindingsBySlot ==
    ASSUME SlotInv, NEW i \in 1 .. Len(scopes)
    PROVE  \A b : b \in BindingsIn(i) <=>
              \E slot \in Slots : scopes[i].table[slot] # << >> /\ b = scopes[i].table[slot][1]
  <1>1. ASSUME NEW slot \in Slots
        PROVE  /\ scopes[i].table[slot] = << >> => ToSet(scopes[i].table[slot]) = {}
               /\ scopes[i].table[slot] # << >> =>
                     ToSet(scopes[i].table[slot]) = {scopes[i].table[slot][1]}
    BY OneOfChain DEF ToSet
  <1> QED
    BY <1>1 DEF BindingsIn

\* A scope declares a name when its binding in the slot of the name is called so.
LEMMA NameInScope ==
    ASSUME RulesInv, NEW name \in Names, NEW i \in 1 .. Len(scopes)
    PROVE  \A b : b \in BindingsIn(i) /\ b.name = name <=>
              /\ scopes[i].table[SlotOf(name)] # << >>
              /\ b = scopes[i].table[SlotOf(name)][1]
              /\ b.name = name
  <1>1. SlotOf(name) \in Slots
    BY DEF Slots
  <1>2. ASSUME NEW b, b \in BindingsIn(i), b.name = name
        PROVE  scopes[i].table[SlotOf(name)] # << >> /\ b = scopes[i].table[SlotOf(name)][1]
    <2>1. PICK slot \in Slots : /\ scopes[i].table[slot] # << >>
                                /\ b = scopes[i].table[slot][1]
      BY <1>2, BindingsBySlot DEF RulesInv
    <2>2. SlotOf(b.name) = slot
      BY <2>1 DEF RulesInv, Rules, Keyed
    <2> QED
      BY <1>2, <2>1, <2>2
  <1>3. ASSUME scopes[i].table[SlotOf(name)] # << >>
        PROVE  scopes[i].table[SlotOf(name)][1] \in BindingsIn(i)
    BY <1>1, <1>3, BindingsBySlot DEF RulesInv
  <1> QED
    BY <1>2, <1>3

\* The innermost scope that answers, for a lookup that finds something.
LEMMA Innermost ==
    ASSUME RulesInv, NEW name \in Names, Lookup(name) # NULL
    PROVE  \E m \in 1 .. Len(scopes) :
              /\ scopes[m].table[SlotOf(name)] # << >>
              /\ Lookup(name) = scopes[m].table[SlotOf(name)][1]
              /\ \A i \in 1 .. Len(scopes) :
                    scopes[i].table[SlotOf(name)] # << >> => i <= m
  <1>1. Len(scopes) \in Nat /\ Len(scopes) \in 0 .. Len(scopes)
    BY CurrentScope DEF RulesInv, SlotInv
  <1>2. PICK answers : answers = Answers(Len(scopes), name)
    OBVIOUS
  <1>3. answers \in SUBSET (1 .. Len(scopes))
    BY <1>2 DEF Answers
  <1>4. answers # {} /\ Lookup(name) = scopes[Max(answers)].table[SlotOf(name)][1]
    BY <1>1, <1>2, LookupAnswer DEF Lookup, Level, RulesInv
  <1>5. Max(answers) \in answers /\ \A i \in answers : i <= Max(answers)
    BY <1>1, <1>3, <1>4, MaxOfIndexes
  <1> QED
    BY <1>2, <1>4, <1>5 DEF Answers

\* An answer that has the name is its innermost declaration.
LEMMA AnswerResolves ==
    ASSUME RulesInv, NEW name \in Names, Lookup(name) # NULL, Lookup(name).name = name
    PROVE  Lookup(name) = Resolve(name)
  <1> DEFINE levels == {i \in 1 .. Level : \E b \in BindingsIn(i) : b.name = name}
  <1>1. Level = Len(scopes) /\ Len(scopes) \in Nat
    BY CurrentScope DEF RulesInv, SlotInv, Level
  <1>2. PICK m \in 1 .. Len(scopes) :
           /\ scopes[m].table[SlotOf(name)] # << >>
           /\ Lookup(name) = scopes[m].table[SlotOf(name)][1]
           /\ \A i \in 1 .. Len(scopes) : scopes[i].table[SlotOf(name)] # << >> => i <= m
    BY Innermost
  <1>3. m \in levels
    BY <1>1, <1>2, NameInScope
  <1>4. \A i \in levels : i \in 1 .. Len(scopes) /\ i <= m
    BY <1>1, <1>2, NameInScope
  <1>5. levels \in SUBSET (1 .. Len(scopes))
    BY <1>1
  <1>6. Resolve(name) = IF levels = {} THEN NULL
                        ELSE CHOOSE b \in BindingsIn(Max(levels)) : b.name = name
    BY DEF Resolve
  <1> HIDE DEF levels
  <1>7. Max(levels) = m
    <2>1. Max(levels) \in levels /\ m <= Max(levels)
      BY <1>1, <1>3, <1>5, MaxOfIndexes
    <2> QED
      BY <1>1, <1>4, <2>1
  <1>8. PICK r : r = CHOOSE b \in BindingsIn(m) : b.name = name
    OBVIOUS
  <1>9. \E b \in BindingsIn(m) : b.name = name
    BY <1>2, NameInScope
  <1>10. r \in BindingsIn(m) /\ r.name = name
    BY <1>8, <1>9
  <1>11. r = scopes[m].table[SlotOf(name)][1]
    BY <1>2, <1>10, NameInScope
  <1> QED
    BY <1>2, <1>3, <1>6, <1>7, <1>8, <1>11

\* Whatever names collide, and in whatever scopes, a lookup of a declared name answers
\* with its innermost declaration or with a formal or member of another name.
THEOREM OnlyParamsMisleadLookups == Spec => []OnlyParamsMislead
  <1>1. RulesInv => OnlyParamsMislead
    <2> SUFFICES ASSUME RulesInv, NEW name \in Names, Visible(name),
                        Lookup(name) # NULL, Lookup(name).name # name
                 PROVE  Lookup(name).symbol_type \in {"FORMAL", "MEMBER"}
      BY AnswerResolves DEF OnlyParamsMislead
    <2>1. SlotOf(name) \in Slots /\ Level = Len(scopes) /\ Len(scopes) \in Nat
      BY CurrentScope DEF Slots, Level, RulesInv, SlotInv
    <2>2. PICK m \in 1 .. Len(scopes) :
             /\ scopes[m].table[SlotOf(name)] # << >>
             /\ Lookup(name) = scopes[m].table[SlotOf(name)][1]
             /\ \A i \in 1 .. Len(scopes) : scopes[i].table[SlotOf(name)] # << >> => i <= m
      BY Innermost
    <2>3. PICK i \in 1 .. Len(scopes) : \E k \in DOMAIN scopes[i].table[SlotOf(name)] :
                                           scopes[i].table[SlotOf(name)][k].name = name
      BY <2>1 DEF Visible
    <2>4. scopes[i].table[SlotOf(name)] # << >> /\ scopes[i].table[SlotOf(name)][1].name = name
      BY <2>1, <2>3, OneOfChain DEF RulesInv
    <2>5. i <= m /\ i # m
      BY <2>2, <2>4
    <2>6. i \in 1 .. m - 1
      BY <2>1, <2>5
    <2> QED
      BY <2>1, <2>2, <2>4, <2>6 DEF RulesInv, SlotInv, ParamsShadow
  <1> QED
    BY <1>1, SpecRules, PTL

\* No two names of the program share a slot.
SlotsTellNamesApart ==
    \A n1, n2 \in Names : SlotOf(n1) = SlotOf(n2) => n1 = n2

\* When no two names share a slot, a lookup answers with the declaration of the
\* innermost scope that declares the name.
LEMMA LookupResolves ==
    ASSUME RulesInv, SlotsTellNamesApart, NEW name \in Names
    PROVE  Lookup(name) = Resolve(name)
  <1>1. CASE Lookup(name) # NULL
    <2>1. Lookup(name).name \in Names /\ SlotOf(Lookup(name).name) = SlotOf(name)
      BY <1>1, LookupKeyed DEF Bindings
    <2>2. Lookup(name).name = name
      BY <2>1 DEF SlotsTellNamesApart
    <2> QED
      BY <1>1, <2>2, AnswerResolves
  <1>2. CASE Lookup(name) = NULL
    <2>1. Level = Len(scopes) /\ Len(scopes) \in 0 .. Len(scopes)
      BY CurrentScope DEF Level, RulesInv, SlotInv
    <2>2. \A i \in 1 .. Len(scopes) : scopes[i].table[SlotOf(name)] = << >>
      BY <1>2, <2>1, ScopesLookupNull, CurrentScope
         DEF Lookup, Level, RulesInv, SlotInv, OneEach
    <2>3. \A i \in 1 .. Level : ~ \E b \in BindingsIn(i) : b.name = name
      BY <2>1, <2>2, NameInScope
    <2> QED
      BY <1>2, <2>3 DEF Resolve
  <1> QED
    BY <1>1, <1>2

-----------------------------------------------------------------------------
(* Accepted expressions *)

\* Both visits let the expression pass, and no part of it is lenient.
Accepted(e) == Judge[e].check = "ok" /\ Judge[e].get = "ok" /\ ~ Lenient[e]

\* It has the type its judgement says.
Typed(e) == StaticType[e] = Judge[e].datatype /\ Judge[e].datatype \in DataTypes

\* An accepted name.
LEMMA IdentTyped ==
    ASSUME RulesInv, SlotsTellNamesApart, NEW e \in Exprs, e.node = "N_IDENT", Accepted(e)
    PROVE  Typed(e)
  <1>1. e.name \in Names
    BY ExprsAssumption
  <1>2. PICK b : b = Lookup(e.name)
    OBVIOUS
  <1>3. Judge[e] = JudgeIdent(e)
    BY NodeEquations DEF JudgeNode
  <1>4. b # NULL /\ b.symbol_type \notin {"STRUCTURE", "MEMBER"} /\ Judge[e].datatype = b.type
    BY <1>2, <1>3 DEF JudgeIdent, Judgement, Accepted
  <1>5. b \in Bindings
    BY <1>1, <1>2, <1>4, LookupKeyed
  <1>6. b.symbol_type \in {"FUNCTION", "VARIABLE", "FORMAL"} /\ b.type \in DataTypes
    BY <1>4, <1>5 DEF Bindings, SymbolTypes
  <1>7. Resolve(e.name) = b
    BY <1>1, <1>2, LookupResolves
  <1>8. StaticType[e] = b.type
    BY <1>4, <1>6, <1>7, NodeEquations DEF StaticNode, ResolvesTo
  <1> QED
    BY <1>4, <1>6, <1>8 DEF Typed

\* An accepted binary expression of typed operands.
LEMMA BinopTyped ==
    ASSUME NEW e \in Exprs, e.node = "N_BINOP_EXPR", Accepted(e),
           \A o \in Operands(e) : Accepted(o) => Typed(o)
    PROVE  Typed(e)
  <1>1. e.lhs \in Operands(e) /\ e.rhs \in Operands(e)
    BY DEF Operands
  <1>2. PICK l, r : l = Judge[e.lhs] /\ r = Judge[e.rhs]
    OBVIOUS
  <1>3. Judge[e] = JudgeBinop(e, l, r)
    BY <1>1, <1>2, NodeEquations DEF JudgeNode
  <1> DEFINE arithmetic == e.operator \in Arithmetic
             agree == IF arithmetic
                      THEN /\ is_numerical_type(l.datatype)
                           /\ is_numerical_type(r.datatype)
                      ELSE l.datatype = r.datatype
  <1>4. FirstFailure(<<l.check, r.check, l.get, r.get, Require(agree)>>) = "ok"
    BY <1>3 DEF JudgeBinop, Judgement, Accepted
  <1>5. l.check = "ok" /\ r.check = "ok" /\ l.get = "ok" /\ r.get = "ok" /\ agree
    <2>1. /\ l.check = "ok" /\ r.check = "ok" /\ l.get = "ok" /\ r.get = "ok"
          /\ Require(agree) = "ok"
      <3> HIDE DEF agree
      <3> QED
        BY <1>4, FiveCalls
    <2> QED
      BY <2>1 DEF Require
  <1>6. ~ Lenient[e.lhs] /\ ~ Lenient[e.rhs]
    BY <1>1, NodeEquations DEF Accepted, LenientStep
  <1>7. Typed(e.lhs) /\ Typed(e.rhs)
    BY <1>1, <1>2, <1>5, <1>6 DEF Accepted
  <1>8. /\ l.datatype \in DataTypes /\ r.datatype \in DataTypes
        /\ StaticType[e] = StaticBinop(e.operator, l.datatype, r.datatype)
    BY <1>1, <1>2, <1>7, NodeEquations DEF Typed, StaticNode
  <1>9. l.datatype # "ill" /\ r.datatype # "ill"
    BY <1>8 DEF DataTypes
  <1>10. CASE arithmetic
    <2>1. l.datatype \in {"D_FLOAT", "D_INTEGER"} /\ r.datatype \in {"D_FLOAT", "D_INTEGER"}
      BY <1>5, <1>10 DEF is_numerical_type
    <2>2. Judge[e].datatype = IF "D_FLOAT" \in {l.datatype, r.datatype} THEN "D_FLOAT"
                              ELSE "D_INTEGER"
      BY <1>3, <1>10, <2>1 DEF JudgeBinop, Judgement
    <2>3. StaticType[e] = IF l.datatype = r.datatype THEN l.datatype ELSE "D_FLOAT"
      BY <1>8, <1>9, <1>10, <2>1 DEF StaticBinop
    <2> QED
      BY <2>1, <2>2, <2>3 DEF Typed, DataTypes
  <1>11. CASE ~ arithmetic
    <2>1. Judge[e].datatype = "D_BOOLEAN"
      BY <1>3, <1>11 DEF JudgeBinop, Judgement
    <2>2. StaticType[e] = "D_BOOLEAN"
      BY <1>5, <1>8, <1>9, <1>11 DEF StaticBinop
    <2> QED
      BY <2>1, <2>2 DEF Typed, DataTypes
  <1> QED
    BY <1>10, <1>11

\* An accepted call with typed arguments.
LEMMA CallTyped ==
    ASSUME RulesInv, SlotsTellNamesApart, NEW e \in Exprs, e.node = "N_CALL_EXPR", Accepted(e),
           \A o \in Operands(e) : Accepted(o) => Typed(o)
    PROVE  Typed(e)
  <1>1. e.func_name \in Names /\ e.args \in Seq(Exprs)
    BY ExprsAssumption
  <1>2. PICK n \in Nat : n = Len(e.args)
    BY <1>1
  <1>3. \A i \in 1 .. n : e.args[i] \in Operands(e)
    BY <1>1, <1>2 DEF Operands, ToSet
  <1>4. PICK args : args = [i \in 1 .. n |-> Judge[e.args[i]]]
    OBVIOUS
  <1>5. Len(args) = n /\ \A i \in 1 .. n : args[i] = Judge[e.args[i]]
    BY <1>2, <1>4
  <1>6. Judge[e] = JudgeCall(e, args)
    <2>1. [i \in 1 .. Len(e.args) |-> [o \in Operands(e) |-> Judge[o]][e.args[i]]] = args
      BY <1>2, <1>3, <1>4
    <2> QED
      BY <2>1, NodeEquations DEF JudgeNode
  <1>7. PICK b : b = Lookup(e.func_name)
    OBVIOUS
  <1>8. b # NULL /\ b \in Bindings /\ Resolve(e.func_name) = b
    <2>1. b # NULL
      BY <1>6, <1>7 DEF JudgeCall, Judgement, Accepted
    <2> QED
      BY <1>1, <1>7, <2>1, LookupKeyed, LookupResolves
  <1>9. b.symbol_type = "FUNCTION" /\ \A i \in 1 .. n : ~ Lenient[e.args[i]]
    BY <1>3, <1>8, NodeEquations DEF Accepted, LenientStep, ResolvesTo
  <1> DEFINE visit(i) == FirstFailure(<<args[i].check, args[i].get,
                              Require(b.list[i].type = args[i].datatype)>>)
  <1>10. n = b.num_args /\ FirstFailure([i \in 1 .. n |-> visit(i)]) = "ok"
    BY <1>5, <1>6, <1>7, <1>8 DEF JudgeCall, Judgement, Accepted
  <1>11. ASSUME NEW i \in 1 .. n
         PROVE  /\ Judge[e.args[i]].datatype = b.list[i].type
                /\ StaticType[e.args[i]] = b.list[i].type
    <2>1. visit(i) = "ok"
      <3> HIDE DEF visit
      <3>1. PICK calls : calls = [k \in 1 .. n |-> visit(k)]
        OBVIOUS
      <3>2. Len(calls) = n /\ calls[i] = visit(i)
        BY <1>2, <3>1
      <3> QED
        BY <1>10, <3>1, <3>2, NoFailure
    <2>2. /\ args[i].check = "ok" /\ args[i].get = "ok"
          /\ Require(b.list[i].type = args[i].datatype) = "ok"
      BY <2>1, ThreeCalls
    <2>3. b.list[i].type = args[i].datatype
      BY <2>2 DEF Require
    <2>4. Typed(e.args[i])
      BY <1>3, <1>5, <1>9, <2>2 DEF Accepted
    <2> QED
      BY <1>5, <2>3, <2>4 DEF Typed
  <1>12. Counted(b)
    <2>1. PICK i \in Answers(Len(scopes), e.func_name) :
             b = scopes[i].table[SlotOf(e.func_name)][1]
      <3>1. Len(scopes) \in 0 .. Len(scopes)
        BY CurrentScope DEF RulesInv, SlotInv
      <3> QED
        BY <1>1, <1>7, <1>8, <3>1, LookupAnswer DEF Lookup, Level, RulesInv
    <2> QED
      BY <1>1, <2>1 DEF Answers, Slots, RulesInv, Rules, FormalsCounted
  <1> DEFINE types == [i \in 1 .. n |-> StaticType[e.args[i]]]
             formals == IF b.list = NULL THEN << >>
                        ELSE [i \in DOMAIN b.list |-> b.list[i].type]
  <1>13. types = formals
    <2>1. CASE b.list = NULL
      BY <1>9, <1>10, <1>12, <2>1 DEF Counted
    <2>2. CASE b.list # NULL
      <3>1. b.list \in Seq(Params) /\ n = Len(b.list)
        BY <1>8, <1>9, <1>10, <1>12, <2>2 DEF Bindings, Counted
      <3>2. DOMAIN b.list = 1 .. n
        BY <3>1
      <3> QED
        BY <1>11, <2>2, <3>2
    <2> QED
      BY <2>1, <2>2
  <1>14. StaticType[e] = StaticCall(e.func_name, types)
    <2>1. [i \in 1 .. Len(e.args) |-> [o \in Operands(e) |-> StaticType[o]][e.args[i]]] = types
      BY <1>2, <1>3
    <2> HIDE DEF types
    <2> QED
      BY <2>1, NodeEquations DEF StaticNode
  <1>15. StaticType[e] = b.type
    <2> HIDE DEF types, formals
    <2>1. StaticCall(e.func_name, types) = b.type
      BY <1>8, <1>9, <1>13 DEF StaticCall, ResolvesTo, formals
    <2> QED
      BY <1>14, <2>1
  <1>16. Judge[e].datatype = b.type
    BY <1>6, <1>7, <1>8 DEF JudgeCall, Judgement
  <1> QED
    BY <1>8, <1>15, <1>16 DEF Typed, Bindings

\* An accepted negation of a typed operand.
LEMMA UnaryTyped ==
    ASSUME NEW e \in Exprs, e.node \in {"N_NEG_EXPR", "N_NOT_EXPR"}, Accepted(e),
           \A o \in Operands(e) : Accepted(o) => Typed(o)
    PROVE  Typed(e)
  <1>1. e.expr \in Operands(e)
    BY DEF Operands
  <1>2. Judge[e] = JudgeUnary(Judge[e.expr])
    BY <1>1, NodeEquations DEF JudgeNode
  <1>3. /\ FirstFailure(<<Judge[e.expr].check, Judge[e.expr].get>>) = "ok"
        /\ Judge[e].datatype = Judge[e.expr].datatype
    BY <1>2 DEF JudgeUnary, Judgement, Accepted
  <1>4. Judge[e.expr].check = "ok" /\ Judge[e.expr].get = "ok"
    BY <1>3, TwoCalls
  <1>5. ~ Lenient[e.expr]
    BY <1>1, NodeEquations DEF Accepted, LenientStep
  <1>6. Typed(e.expr)
    BY <1>1, <1>4, <1>5 DEF Accepted
  <1>7. StaticType[e] = StaticType[e.expr]
    BY <1>1, NodeEquations DEF StaticNode
  <1> QED
    BY <1>3, <1>6, <1>7 DEF Typed

\* The nodes without operands, and those whose type get_type does not give.
LEMMA OtherTyped ==
    ASSUME NEW e \in Exprs, Accepted(e),
           e.node \in {"N_LITERAL", "N_NIL", "N_ASSIGN_EXPR", "N_STRUCT_ACCESS_EXPR",
                       "N_ARRAY_INIT_EXPR", "N_ARRAY_ACCESS_EXPR"}
    PROVE  Typed(e)
  <1>1. PICK of : Judge[e] = JudgeNode(e, of)
    BY NodeEquations
  <1>2. PICK types : StaticType[e] = StaticNode(e, types)
    BY NodeEquations
  <1>3. CASE e.node = "N_LITERAL"
    <2>1. Judge[e].datatype = e.type
      BY <1>1, <1>3 DEF JudgeNode, Judgement
    <2>2. StaticType[e] = e.type
      BY <1>2, <1>3 DEF StaticNode
    <2> QED
      BY <1>3, <2>1, <2>2, ExprsAssumption DEF Typed
  <1>4. CASE e.node = "N_NIL"
    <2>1. Judge[e].datatype = "D_NIL"
      BY <1>1, <1>4 DEF JudgeNode, Judgement
    <2>2. StaticType[e] = "D_NIL"
      BY <1>2, <1>4 DEF StaticNode
    <2> QED
      BY <2>1, <2>2 DEF Typed, DataTypes
  <1>5. CASE e.node = "N_ASSIGN_EXPR"
    <2>1. Judge[e].get = "log_error"
      BY <1>1, <1>5 DEF JudgeNode, JudgeAssign, Judgement
    <2> QED
      BY <2>1 DEF Accepted
  <1>6. CASE e.node = "N_STRUCT_ACCESS_EXPR"
    BY <1>6, NodeEquations DEF LenientStep, Accepted
  <1>7. CASE e.node \in {"N_ARRAY_INIT_EXPR", "N_ARRAY_ACCESS_EXPR"}
    <2>1. Judge[e].get = "log_error"
      BY <1>1, <1>7 DEF JudgeNode, Judgement
    <2> QED
      BY <2>1 DEF Accepted
  <1> QED
    BY <1>3, <1>4, <1>5, <1>6, <1>7

\* Every accepted expression is typed: one of least depth that is not would have
\* typed operands.
LEMMA AcceptedTyped ==
    ASSUME RulesInv, SlotsTellNamesApart
    PROVE  \A e \in Exprs : Accepted(e) => Typed(e)
  <1> DEFINE Wrong == {e \in Exprs : Accepted(e) /\ ~ Typed(e)}
  <1> SUFFICES ASSUME Wrong # {} PROVE FALSE
    OBVIOUS
  <1>1. PICK e \in Wrong : \A o \in Wrong : Depth[e] <= Depth[o]
    BY OperandsBelow, LeastRank
  <1>2. e \in Exprs /\ Accepted(e) /\ ~ Typed(e)
    OBVIOUS
  <1>3. ASSUME NEW o \in Operands(e), Accepted(o) PROVE Typed(o)
    <2>1. o \in Exprs /\ Depth[o] < Depth[e] /\ Depth[o] \in Nat /\ Depth[e] \in Nat
      BY <1>2, OperandsBelow
    <2> QED
      BY <1>1, <1>3, <2>1
  <1>4. e.node \in ExprTypes
    BY <1>2, ExprsAssumption
  <1> QED
    BY <1>2, <1>3, <1>4, IdentTyped, BinopTyped, CallTyped, UnaryTyped, OtherTyped DEF ExprTypes

\* In a program whose names have slots of their own, an expression that both
\* visits of the typechecker let pass has the type its names' declarations give
\* it, in all scopes and at any depth of the expression.
THEOREM AcceptedAreTyped == SlotsTellNamesApart /\ Spec => []AcceptedExprsAreTyped
  <1>1. SlotsTellNamesApart /\ RulesInv => AcceptedExprsAreTyped
    BY AcceptedTyped DEF AcceptedExprsAreTyped, Accepted, Typed
  <1>2. SlotsTellNamesApart => SlotsTellNamesApart'
    BY DEF SlotsTellNamesApart
  <1>3. SlotsTellNamesApart /\ Spec => []SlotsTellNamesApart
    BY <1>2, PTL DEF Spec
  <1> QED
    BY <1>1, <1>3, SpecRules, PTL

-----------------------------------------------------------------------------
(* The formals and members that are bound so far *)

Declaring == {"N_FUNC_DECL", "N_STRUCT_DECL"}

ParamType(node) == IF node = "N_FUNC_DECL" THEN "FORMAL" ELSE "MEMBER"

\* The parameter has its binding, with its type, in the table.
BoundIn(table, param) ==
    /\ table[SlotOf(param.name)] # << >>
    /\ \E symbol_type \in {"FORMAL", "MEMBER"} :
          Binds(table[SlotOf(param.name)][1], param, symbol_type)

\* Of the parameters, vn is what is left to visit; those before are bound.
Visited(table, params, vn) ==
    \E m \in 0 .. Len(params) :
       /\ Len(vn) = Len(params) - m
       /\ \A k \in 1 .. Len(vn) : vn[k] = params[m + k]
       /\ \A k \in 1 .. m : BoundIn(table, params[k])

\* The list in the binding of an open function or structure is the one visited.
ListVisited(i) ==
    /\ scopes[i].table[SlotOf(frames[i].name)] # << >>
    /\ Declaration(i).list # NULL =>
          Visited(scopes[i + 1].table, Declaration(i).list, frames[i].vn)

\* During the visit the scope holds nothing but what was visited, so that no formal
\* or member meets a binding of another kind.
OnlyParamsSoFar(i) ==
    frames[i].vn # << >> =>
       \A slot \in Slots : scopes[i + 1].table[slot] # << >> =>
          scopes[i + 1].table[slot][1].symbol_type = ParamType(frames[i].node)

FrameVisited(i) == frames[i].node \in Declaring => ListVisited(i) /\ OnlyParamsSoFar(i)

\* A scope is opened only when there is nothing left to visit around it.
OthersAreVisited == \A i \in 1 .. Len(frames) - 1 : frames[i].vn = << >>

Visits == OthersAreVisited /\ \A i \in 1 .. Len(frames) : FrameVisited(i)

VisitsInv == RulesInv /\ (status = "running" => Visits)

\* A scope whose bindings are still where they were.
Keeps(i) == \A slot \in Slots : scopes[i].table[slot] # << >> =>
                                   scopes'[i].table[slot] = scopes[i].table[slot]

\* An insertion keeps the bindings.
LEMMA GainsKeeps ==
    ASSUME NEW b, Gains(b), scopes[Len(scopes)].table[SlotOf(b.name)] = << >>
    PROVE  \A i \in 1 .. Len(scopes) : Keeps(i)
  BY DEF Gains, Keeps

\* The binding of an open function or structure.
LEMMA DeclarationTyped ==
    ASSUME SlotInv, NEW i \in 1 .. Len(frames),
           scopes[i].table[SlotOf(frames[i].name)] # << >>
    PROVE  Declaration(i) \in Bindings
  <1>1. SlotOf(frames[i].name) \in Slots /\ i \in 1 .. Len(scopes)
    BY SlotsOfNames, Lengths
  <1> QED
    BY <1>1, OneOfChain DEF Declaration

\* What was bound stays bound as long as the bindings are kept.
LEMMA VisitedKept ==
    ASSUME NEW table, NEW new, NEW params \in Seq(Params), NEW vn,
           \A slot \in Slots : table[slot] # << >> => new[slot] = table[slot],
           Visited(table, params, vn)
    PROVE  Visited(new, params, vn)
  <1>1. PICK m \in 0 .. Len(params) :
           /\ Len(vn) = Len(params) - m
           /\ \A k \in 1 .. Len(vn) : vn[k] = params[m + k]
           /\ \A k \in 1 .. m : BoundIn(table, params[k])
    BY DEF Visited
  <1>2. ASSUME NEW k \in 1 .. m PROVE BoundIn(new, params[k])
    <2>1. params[k] \in Params
      BY <1>1, ElementOfSeq
    <2>2. SlotOf(params[k].name) \in Slots
      BY <2>1 DEF Params, Slots
    <2> QED
      BY <1>1, <2>2 DEF BoundIn
  <1> QED
    BY <1>1, <1>2 DEF Visited

\* An open declaration that a step does not visit stays visited.
LEMMA FrameKept ==
    ASSUME SlotInv, NEW i \in 1 .. Len(frames), FrameVisited(i), frames'[i] = frames[i],
           Keeps(i), Keeps(i + 1), frames[i].vn = << >> \/ scopes'[i + 1] = scopes[i + 1]
    PROVE  FrameVisited(i)'
  <1> SUFFICES ASSUME frames[i].node \in Declaring
               PROVE  ListVisited(i)' /\ OnlyParamsSoFar(i)'
    BY DEF FrameVisited
  <1>1. ListVisited(i) /\ OnlyParamsSoFar(i)
    BY DEF FrameVisited
  <1>2. SlotOf(frames[i].name) \in Slots
    BY SlotsOfNames
  <1>3. /\ scopes[i].table[SlotOf(frames[i].name)] # << >>
        /\ scopes'[i].table[SlotOf(frames'[i].name)] = scopes[i].table[SlotOf(frames[i].name)]
    BY <1>1, <1>2 DEF ListVisited, Keeps
  <1>4. PICK d : d = Declaration(i)
    OBVIOUS
  <1>5. d = Declaration(i)' /\ d \in Bindings
    BY <1>3, <1>4, DeclarationTyped DEF Declaration
  <1>6. ASSUME d.list # NULL
        PROVE  Visited(scopes'[i + 1].table, d.list, frames[i].vn)
    <2>1. d.list \in Seq(Params)
      BY <1>5, <1>6 DEF Bindings
    <2>2. Visited(scopes[i + 1].table, d.list, frames[i].vn)
      BY <1>1, <1>4, <1>6 DEF ListVisited
    <2> QED
      BY <2>1, <2>2, VisitedKept DEF Keeps
  <1>7. ListVisited(i)'
    BY <1>3, <1>5, <1>6 DEF ListVisited
  <1>8. OnlyParamsSoFar(i)'
    BY <1>1 DEF OnlyParamsSoFar
  <1> QED
    BY <1>7, <1>8

\* At a statement there is nothing left to visit.
LEMMA AllVisited ==
    ASSUME SlotInv, Visits, AtStatement
    PROVE  \A i \in 1 .. Len(frames) : frames[i].vn = << >>
  <1>1. Len(frames) \in Nat /\ (frames # << >> => Top = frames[Len(frames)])
    BY Lengths
  <1>2. ASSUME NEW i \in 1 .. Len(frames) PROVE frames[i].vn = << >>
    <2>1. frames # << >>
      BY EmptySeq
    <2>2. CASE i = Len(frames)
      BY <1>1, <2>1, <2>2 DEF AtStatement
    <2>3. CASE i # Len(frames)
      BY <1>1, <2>3 DEF Visits, OthersAreVisited
    <2> QED
      BY <2>2, <2>3
  <1> QED
    BY <1>2

\* A declaration without a scope of its own, of a builtin or of a variable.
LEMMA InsertVisits ==
    ASSUME RulesInv, Visits, NEW b, Inserts(b), UNCHANGED frames, AtStatement \/ frames = << >>
    PROVE  Visits'
  <1>1. Len(frames) \in Nat /\ Len(scopes) = Len(frames) + 1
    BY Lengths DEF RulesInv
  <1>2. \A i \in 1 .. Len(frames) : frames[i].vn = << >>
    BY AllVisited, EmptySeq DEF RulesInv
  <1>3. \A i \in 1 .. Len(scopes) : Keeps(i)
    BY GainsKeeps DEF Inserts
  <1>4. ASSUME NEW i \in 1 .. Len(frames) PROVE FrameVisited(i)'
    <2>1. i \in 1 .. Len(scopes) /\ i + 1 \in 1 .. Len(scopes)
      BY <1>1
    <2> QED
      BY <1>2, <1>3, <2>1, FrameKept DEF RulesInv, Visits
  <1> QED
    BY <1>1, <1>2, <1>4 DEF Visits, OthersAreVisited

\* A function or structure is entered with all its parameters to visit.
LEMMA DeclareVisits ==
    ASSUME RulesInv, Visits, NEW b \in Bindings, NEW frame \in Frames, Declares(b, frame)
    PROVE  Visits'
  <1>1. PICK n : n = Len(frames)
    OBVIOUS
  <1>2. n \in Nat /\ Len(scopes) = n + 1
    BY <1>1, Lengths DEF RulesInv
  <1>3. /\ Len(frames') = n + 1 /\ frames'[n + 1] = frame
        /\ \A i \in 1 .. n : frames'[i] = frames[i]
        /\ \A slot \in Slots : scopes'[n + 2].table[slot] = << >>
    BY <1>1, <1>2 DEF Declares, Pushes
  <1>4. \A i \in 1 .. n : frames[i].vn = << >>
    BY <1>1, AllVisited DEF RulesInv, Declares
  <1>5. b.name \in Names /\ SlotOf(b.name) \in Slots
    BY DEF Bindings, Slots
  <1>6. scopes[n + 1].table[SlotOf(b.name)] = << >>
    BY <1>2 DEF Declares, Free
  <1>7. \A i \in 1 .. n + 1 : Keeps(i)
    BY <1>2, <1>6, GainsKeeps DEF Declares
  <1>8. ASSUME NEW i \in 1 .. n PROVE FrameVisited(i)'
    <2>1. i \in 1 .. n + 1 /\ i + 1 \in 1 .. n + 1
      BY <1>2
    <2> QED
      BY <1>1, <1>3, <1>4, <1>7, <2>1, FrameKept DEF RulesInv, Visits
  <1>9. FrameVisited(n + 1)'
    <2>1. scopes'[n + 1].table[SlotOf(b.name)] = <<b>> /\ frame.name = b.name
      BY <1>2, <1>5 DEF Declares, Gains
    <2>2. scopes'[n + 1].table[SlotOf(frames'[n + 1].name)] = <<b>>
      BY <1>3, <2>1, Zenon
    <2>3. scopes'[n + 1].table[SlotOf(frames'[n + 1].name)] # << >> /\ Declaration(n + 1)' = b
      BY <2>2 DEF Declaration
    <2>4. b.list # NULL => Visited(scopes'[n + 2].table, b.list, b.list)
      <3> SUFFICES ASSUME b.list # NULL
                   PROVE  Visited(scopes'[n + 2].table, b.list, b.list)
        OBVIOUS
      <3>1. b.list \in Seq(Params)
        BY DEF Bindings
      <3>2. Len(b.list) \in Nat
        BY <3>1
      <3> QED
        BY <3>2 DEF Visited
    <2>5. n + 1 + 1 = n + 2
      BY <1>2
    <2>6. ListVisited(n + 1)'
      BY <1>3, <2>3, <2>4, <2>5 DEF ListVisited, Declares
    <2>7. OnlyParamsSoFar(n + 1)'
      BY <1>3, <2>5 DEF OnlyParamsSoFar
    <2> QED
      BY <2>6, <2>7 DEF FrameVisited
  <1>10. \A i \in 1 .. n + 1 : i \in 1 .. n \/ i = n + 1
    BY <1>2
  <1>11. OthersAreVisited'
    <2>1. Len(frames') - 1 = n /\ \A i \in 1 .. n : frames'[i].vn = << >>
      BY <1>2, <1>3, <1>4
    <2> QED
      BY <2>1 DEF OthersAreVisited
  <1> QED
    BY <1>3, <1>8, <1>9, <1>10, <1>11 DEF Visits

\* A branch or loop has nothing to visit.
LEMMA BranchVisits ==
    ASSUME RulesInv, Visits, NEW frame, Branches(frame)
    PROVE  Visits'
  <1>1. PICK n : n = Len(frames)
    OBVIOUS
  <1>2. n \in Nat /\ Len(scopes) = n + 1
    BY <1>1, Lengths DEF RulesInv
  <1>3. /\ Len(frames') = n + 1 /\ frames'[n + 1] = frame
        /\ \A i \in 1 .. n : frames'[i] = frames[i]
        /\ \A i \in 1 .. n + 1 : scopes'[i] = scopes[i]
    BY <1>1, <1>2 DEF Branches, Pushes
  <1>4. \A i \in 1 .. n : frames[i].vn = << >>
    BY <1>1, AllVisited DEF RulesInv, Branches
  <1>5. ASSUME NEW i \in 1 .. n PROVE FrameVisited(i)'
    <2>1. scopes'[i] = scopes[i] /\ scopes'[i + 1] = scopes[i + 1]
      BY <1>2, <1>3
    <2> QED
      BY <1>1, <1>3, <2>1, FrameKept DEF RulesInv, Visits, Keeps
  <1>6. FrameVisited(n + 1)'
    BY <1>3 DEF FrameVisited, Declaring, Branches
  <1>7. \A i \in 1 .. n + 1 : i \in 1 .. n \/ i = n + 1
    BY <1>2
  <1>8. OthersAreVisited'
    BY <1>2, <1>3, <1>4 DEF OthersAreVisited
  <1> QED
    BY <1>3, <1>5, <1>6, <1>7, <1>8 DEF Visits

\* The frames below the top stay, with their scopes and those inside them, when the
\* scope on top is left or is exchanged for that of an else.
LEMMA BelowVisits ==
    ASSUME RulesInv, Visits, Swaps \/ Leaves
    PROVE  Visits'
  <1>1. PICK n : n = Len(frames)
    OBVIOUS
  <1>2. n \in Nat /\ n > 0
    BY <1>1, Lengths DEF RulesInv, Swaps, Leaves
  <1>3. /\ \A i \in 1 .. n - 1 : frames'[i] = frames[i]
        /\ \A i \in 1 .. n : scopes'[i] = scopes[i]
        /\ \/ Len(frames') = n - 1
           \/ Len(frames') = n /\ frames'[n].node = "else"
    BY <1>1 DEF Swaps, Leaves
  <1>4. ASSUME NEW i \in 1 .. n - 1 PROVE FrameVisited(i)'
    <2>1. i \in 1 .. n /\ i + 1 \in 1 .. n
      BY <1>2
    <2>2. scopes'[i] = scopes[i] /\ scopes'[i + 1] = scopes[i + 1]
      BY <1>3, <2>1
    <2> QED
      BY <1>1, <1>3, <2>1, <2>2, FrameKept DEF RulesInv, Visits, Keeps
  <1>5. frames'[n].node = "else" => FrameVisited(n)'
    BY DEF FrameVisited, Declaring
  <1>6. \A i \in 1 .. n : i \in 1 .. n - 1 \/ i = n
    BY <1>2
  <1>7. \A i \in 1 .. n - 1 : frames'[i].vn = << >>
    BY <1>1, <1>3 DEF Visits, OthersAreVisited
  <1>8. OthersAreVisited'
    BY <1>2, <1>3, <1>7 DEF OthersAreVisited
  <1> QED
    BY <1>3, <1>4, <1>5, <1>6, <1>8 DEF Visits

\* The visit of a formal or member that is bound.
LEMMA ParamVisits ==
    ASSUME RulesInv, Visits, NEW node \in Declaring, AtParam(node), NextParam,
           NEW b \in Bindings, Inserts(b), Binds(b, Head(Top.vn), ParamType(node))
    PROVE  Visits'
  <1>1. PICK n : n = Len(frames)
    OBVIOUS
  <1>2. /\ n \in Nat /\ n > 0 /\ n \in 1 .. Len(frames) /\ Len(scopes) = n + 1
        /\ Top = frames[n] /\ frames \in Seq(Frames)
    BY <1>1, Lengths, CurrentScope DEF RulesInv, SlotInv, AtParam
  <1>3. PICK vn : vn = frames[n].vn
    OBVIOUS
  <1>4. /\ vn \in Seq(Params) /\ vn # << >> /\ frames[n].node = node
        /\ Binds(b, Head(vn), ParamType(node))
    <2>1. frames[n] \in Frames
      BY <1>2, ElementOfSeq
    <2> QED
      BY <1>2, <1>3, <2>1 DEF AtParam, Frames
  <1>5. /\ Len(frames') = n
        /\ \A i \in 1 .. n : frames'[i] = IF i = n THEN [frames[n] EXCEPT !.vn = Tail(vn)]
                                          ELSE frames[i]
    <2>1. frames' = [frames EXCEPT ![n] = [frames[n] EXCEPT !.vn = Tail(vn)]]
      BY <1>1, <1>3 DEF NextParam
    <2>2. Tail(vn) \in Seq(Params) /\ frames[n] \in Frames
      BY <1>2, <1>4, HeadTailProperties, ElementOfSeq
    <2>3. [frames[n] EXCEPT !.vn = Tail(vn)] \in Frames
      BY <2>2 DEF Frames
    <2> QED
      BY <1>1, <1>2, <2>1, <2>3, ExceptSeq
  <1>6. frames'[n].vn = Tail(vn) /\ frames'[n].node = node /\ frames'[n].name = frames[n].name
    <2>1. frames[n] \in Frames
      BY <1>2, ElementOfSeq
    <2> QED
      BY <1>2, <1>4, <1>5, <2>1 DEF Frames
  <1>7. \A i \in 1 .. n - 1 : frames'[i] = frames[i] /\ frames[i].vn = << >>
    BY <1>1, <1>2, <1>5 DEF Visits, OthersAreVisited
  <1>8. Gains(b) /\ scopes[n + 1].table[SlotOf(b.name)] = << >>
    BY <1>2 DEF Inserts
  <1>9. \A i \in 1 .. n + 1 : Keeps(i)
    BY <1>2, <1>8, GainsKeeps
  <1>10. ASSUME NEW i \in 1 .. n - 1 PROVE FrameVisited(i)'
    <2>1. i \in 1 .. n + 1 /\ i + 1 \in 1 .. n + 1 /\ i \in 1 .. n
      BY <1>2
    <2> QED
      BY <1>1, <1>7, <1>9, <2>1, FrameKept DEF RulesInv, Visits
  <1>11. b.name \in Names /\ SlotOf(b.name) \in Slots
    BY DEF Bindings, Slots
  <1>12. /\ scopes'[n + 1].table[SlotOf(b.name)] = <<b>>
         /\ \A slot \in Slots : slot # SlotOf(b.name) =>
                                   scopes'[n + 1].table[slot] = scopes[n + 1].table[slot]
    BY <1>2, <1>8, <1>11 DEF Gains
  <1>13. ListVisited(n) /\ OnlyParamsSoFar(n)
    BY <1>2, <1>4 DEF Visits, FrameVisited
  <1>14. ListVisited(n)'
    <2>1. SlotOf(frames[n].name) \in Slots /\ scopes[n].table[SlotOf(frames[n].name)] # << >>
      BY <1>2, <1>13, SlotsOfNames DEF ListVisited, RulesInv
    <2>2. scopes'[n].table[SlotOf(frames'[n].name)] = scopes[n].table[SlotOf(frames[n].name)]
      BY <1>2, <1>6, <1>9, <2>1 DEF Keeps
    <2>3. PICK d : d = Declaration(n)
      OBVIOUS
    <2>4. d = Declaration(n)' /\ d \in Bindings
      BY <1>2, <2>1, <2>2, <2>3, DeclarationTyped DEF Declaration, RulesInv
    <2>5. ASSUME d.list # NULL PROVE Visited(scopes'[n + 1].table, d.list, Tail(vn))
      <3>1. PICK params : params = d.list
        OBVIOUS
      <3>2. params \in Seq(Params) /\ Len(params) \in Nat
        BY <2>4, <2>5, <3>1 DEF Bindings
      <3>3. Visited(scopes[n + 1].table, params, vn)
        BY <1>3, <1>13, <2>3, <2>5, <3>1 DEF ListVisited
      <3>4. Visited(scopes'[n + 1].table, params, vn)
        <4>1. Keeps(n + 1)
          BY <1>2, <1>9
        <4> QED
          BY <3>2, <3>3, <4>1, VisitedKept DEF Keeps
      <3>5. PICK m \in 0 .. Len(params) :
               /\ Len(vn) = Len(params) - m
               /\ \A k \in 1 .. Len(vn) : vn[k] = params[m + k]
               /\ \A k \in 1 .. m : BoundIn(scopes'[n + 1].table, params[k])
        BY <3>4 DEF Visited
      <3>6. Len(vn) \in Nat /\ Len(vn) > 0
        BY <1>4, EmptySeq
      <3>7. /\ Head(vn) = vn[1] /\ Len(Tail(vn)) = Len(vn) - 1
            /\ \A k \in 1 .. Len(vn) - 1 : Tail(vn)[k] = vn[k + 1]
        BY <1>4, HeadTailProperties
      <3>8. m + 1 \in 0 .. Len(params) /\ Len(Tail(vn)) = Len(params) - (m + 1)
        BY <3>2, <3>5, <3>6, <3>7
      <3>9. Head(vn) = params[m + 1]
        BY <3>5, <3>6, <3>7
      <3>10. \A k \in 1 .. Len(Tail(vn)) : Tail(vn)[k] = params[m + 1 + k]
        BY <3>2, <3>5, <3>6, <3>7
      <3>11. BoundIn(scopes'[n + 1].table, params[m + 1])
        <4>1. ParamType(node) \in {"FORMAL", "MEMBER"}
          BY DEF ParamType
        <4>2. b.name = params[m + 1].name /\ Binds(b, params[m + 1], ParamType(node))
          BY <1>4, <3>9 DEF Binds
        <4>3. scopes'[n + 1].table[SlotOf(params[m + 1].name)] = <<b>>
          BY <1>12, <4>2
        <4> QED
          BY <4>1, <4>2, <4>3 DEF BoundIn
      <3>12. \A k \in 1 .. m + 1 : BoundIn(scopes'[n + 1].table, params[k])
        <4>1. \A k \in 1 .. m + 1 : k \in 1 .. m \/ k = m + 1
          BY <3>2
        <4> QED
          BY <3>5, <3>11, <4>1
      <3> QED
        BY <3>1, <3>8, <3>10, <3>12 DEF Visited
    <2> QED
      BY <1>6, <2>1, <2>2, <2>4, <2>5 DEF ListVisited
  <1>15. OnlyParamsSoFar(n)'
    <2>1. ASSUME NEW slot \in Slots, scopes'[n + 1].table[slot] # << >>
          PROVE  scopes'[n + 1].table[slot][1].symbol_type = ParamType(node)
      BY <1>3, <1>4, <1>12, <1>13, <2>1 DEF OnlyParamsSoFar, Binds
    <2> QED
      BY <1>6, <2>1 DEF OnlyParamsSoFar
  <1>16. FrameVisited(n)'
    BY <1>14, <1>15 DEF FrameVisited
  <1>17. \A i \in 1 .. n : i \in 1 .. n - 1 \/ i = n
    BY <1>2
  <1>18. OthersAreVisited'
    BY <1>5, <1>7 DEF OthersAreVisited
  <1> QED
    BY <1>5, <1>10, <1>16, <1>17, <1>18 DEF Visits

\* During a visit what fills the slot of the name is of the same kind, so the verdict
\* ends the process.
LEMMA ParamRefused ==
    ASSUME RulesInv, Visits, NEW node \in Declaring, AtParam(node),
           NEW name \in Names, ~ NewInScope(name)
    PROVE  ParamVerdict(name, ParamType(node)) = "type_error"
  <1>1. PICK n : n = Len(frames)
    OBVIOUS
  <1>2. /\ n \in 1 .. Len(frames) /\ Len(scopes) = n + 1 /\ n \in Nat
        /\ Top = frames[n] /\ Level \in 1 .. Len(scopes) /\ Level = n + 1
    BY <1>1, Lengths DEF RulesInv, AtParam, Level
  <1>3. scopes[Level].table \in Tables /\ SlotOf(name) \in Slots
    BY CurrentScope DEF RulesInv, SlotInv, Slots, curr_scope
  <1>4. Len(scopes[Level].table[SlotOf(name)]) <= 1
    BY <1>2, <1>3 DEF RulesInv, SlotInv, OneEach
  <1>5. PICK binding : binding = symtab_lookup_single(scopes, Level, name)
    OBVIOUS
  <1>6. binding # NULL
    BY <1>5 DEF NewInScope
  <1>7. /\ scopes[Level].table[SlotOf(name)] # << >>
        /\ binding = scopes[Level].table[SlotOf(name)][1]
    BY <1>3, <1>4, <1>5, <1>6, ShortChainLookup DEF symtab_lookup_single
  <1>8. FrameVisited(n) /\ frames[n].node = node /\ frames[n].vn # << >>
    BY <1>2 DEF Visits, AtParam
  <1>9. binding.symbol_type = ParamType(node)
    BY <1>2, <1>3, <1>7, <1>8 DEF FrameVisited, OnlyParamsSoFar
  <1> QED
    BY <1>5, <1>6, <1>9 DEF ParamVerdict, Require

\* A refused formal or member ends the process.
LEMMA RefusedEnds ==
    ASSUME Settle("type_error")
    PROVE  status' # "running"
  BY DEF Settle, Failures

\* Nothing is dropped from a visit that goes on.
LEMMA FormalVisits ==
    ASSUME RulesInv, Visits, Formal, status' = "running"
    PROVE  Visits'
  <1>1. PICK param : param = Head(Top.vn)
    OBVIOUS
  <1>2. AtParam("N_FUNC_DECL") /\ NextParam /\ Settle(ParamVerdict(param.name, "FORMAL"))
    BY <1>1 DEF Formal
  <1>3. ParamType("N_FUNC_DECL") = "FORMAL" /\ "N_FUNC_DECL" \in Declaring
    BY DEF ParamType, Declaring
  <1>4. param.name \in Names
    BY <1>1, <1>2, ParamWalk DEF RulesInv, SlotInv, Params
  <1>5. NewInScope(param.name)
    BY <1>2, <1>3, <1>4, ParamRefused, RefusedEnds
  <1>6. PICK b \in Bindings : Inserts(b) /\ Binds(b, param, "FORMAL")
    BY <1>1, <1>5, FormalStep DEF RulesInv
  <1> QED
    BY <1>1, <1>2, <1>3, <1>6, ParamVisits

\* The same of the members.
LEMMA MemberVisits ==
    ASSUME RulesInv, Visits, MemberDecl, status' = "running"
    PROVE  Visits'
  <1>1. PICK param : param = Head(Top.vn)
    OBVIOUS
  <1>2. AtParam("N_STRUCT_DECL") /\ NextParam
    BY DEF MemberDecl
  <1>3. ParamType("N_STRUCT_DECL") = "MEMBER" /\ "N_STRUCT_DECL" \in Declaring
    BY DEF ParamType, Declaring
  <1>4. param.name \in Names
    BY <1>1, <1>2, ParamWalk DEF RulesInv, SlotInv, Params
  <1>5. NewInScope(param.name)
    <2> SUFFICES ASSUME ~ NewInScope(param.name) PROVE FALSE
      OBVIOUS
    <2>1. Settle(ParamVerdict(param.name, "MEMBER"))
      BY <1>1 DEF MemberDecl
    <2> QED
      BY <1>2, <1>3, <1>4, <2>1, ParamRefused, RefusedEnds
  <1>6. PICK b \in Bindings : Inserts(b) /\ Binds(b, param, "MEMBER")
    BY <1>1, <1>5, MemberDeclStep DEF RulesInv
  <1> QED
    BY <1>1, <1>2, <1>3, <1>6, ParamVisits

\* Steps that change no scope and enter none.
LEMMA SameVisits ==
    ASSUME Visits, UNCHANGED <<scopes, frames>>
    PROVE  Visits'
  <1>1. \A i \in 1 .. Len(frames) : FrameVisited(i)'
    BY DEF Visits, FrameVisited, ListVisited, OnlyParamsSoFar, Declaration
  <1>2. OthersAreVisited'
    BY DEF Visits, OthersAreVisited
  <1> QED
    BY <1>1, <1>2 DEF Visits

\* Every step of the walk keeps the visits.
LEMMA NextVisits == VisitsInv /\ [Next]_vars => VisitsInv'
  <1> SUFFICES ASSUME VisitsInv, [Next]_vars, status' = "running" PROVE Visits'
    BY NextRules DEF VisitsInv
  <1>1. RulesInv /\ SlotInv /\ Visits
    <2>1. status = "running"
      BY DEF Next, vars, Ended, MakeBuiltin, Building, VarDecl, FuncDecl, StructDecl, Formal,
         MemberDecl, AtParam, IfStmt, WhileStmt, Branch, ElseStmt, LeaveScope, ReturnStmt,
         ExprStmt, LabelOrGoto, EndOfProgram, AtStatement, Walking
    <2> QED
      BY <2>1 DEF VisitsInv, RulesInv
  <1>2. CASE MakeBuiltin
    <2>1. PICK b \in Bindings : Inserts(b)
      BY <1>1, <1>2, MakeBuiltinStep
    <2>2. Len(scopes) = 1
      BY <1>1, <1>2 DEF MakeBuiltin, Building, SlotInv, BuiltinsToCome
    <2>3. frames = << >> /\ UNCHANGED frames
      <3>1. frames \in Seq(Frames) /\ Len(frames) = 0
        BY <1>1, <2>2, Lengths, CurrentScope DEF SlotInv
      <3> QED
        BY <1>2, <3>1, EmptySeq DEF MakeBuiltin
    <2> QED
      BY <1>1, <2>1, <2>3, InsertVisits
  <1>3. ASSUME NEW d \in VarDecls, VarDecl(d) PROVE Visits'
    <2>1. AtStatement /\ UNCHANGED frames
      BY <1>3 DEF VarDecl
    <2>2. CASE VarDeclVerdict(d) # "ok"
      BY <1>1, <1>3, <2>1, <2>2, SameVisits DEF VarDecl
    <2>3. CASE \E b \in Bindings : Inserts(b)
      BY <1>1, <2>1, <2>3, InsertVisits
    <2>4. CASE Stays
      BY <1>1, <2>1, <2>4, SameVisits DEF Stays
    <2> QED
      BY <1>1, <1>3, <2>3, <2>4, VarDeclStep
  <1>4. ASSUME NEW d \in FuncDecls, FuncDecl(d) PROVE Visits'
    BY <1>1, <1>4, FuncDeclStep, DeclareVisits, SameVisits DEF Stays
  <1>5. ASSUME NEW d \in StructDecls, StructDecl(d) PROVE Visits'
    BY <1>1, <1>5, StructDeclStep, DeclareVisits, SameVisits DEF Stays
  <1>6. CASE Formal
    BY <1>1, <1>6, FormalVisits
  <1>7. CASE MemberDecl
    BY <1>1, <1>7, MemberVisits
  <1>8. ASSUME NEW e \in Exprs, IfStmt(e) \/ WhileStmt(e) PROVE Visits'
    BY <1>1, <1>8, BranchStep, BranchVisits, SameVisits DEF IfStmt, WhileStmt, Stays
  <1>9. CASE ElseStmt
    BY <1>1, <1>9, ElseStmtStep, BelowVisits
  <1>10. CASE LeaveScope
    BY <1>1, <1>10, LeaveScopeStep, BelowVisits
  <1>11. CASE UNCHANGED <<scopes, frames>>
    BY <1>1, <1>11, SameVisits
  <1> QED
    BY <1>2, <1>3, <1>4, <1>5, <1>6, <1>7, <1>8, <1>9, <1>10, <1>11
       DEF Next, vars, Ended, ReturnStmt, ExprStmt, LabelOrGoto, EndOfProgram

\* Before the first declaration there is nothing to visit.
LEMMA InitVisits == Init => VisitsInv
  <1> SUFFICES ASSUME Init PROVE VisitsInv
    OBVIOUS
  <1>1. frames = << >> /\ Len(frames) = 0
    BY DEF Init
  <1> QED
    BY <1>1, InitRules DEF VisitsInv, Visits, OthersAreVisited

\* Once the parameters of an open function or structure are visited, every one of the
\* list that calls and accesses read is bound in its scope, whatever names collide:
\* none is left out in silence.
THEOREM ParamsAreAllBound == Spec => []ParamsAreBound
  <1>1. VisitsInv => ParamsAreBound
    <2> SUFFICES ASSUME RulesInv, Visits, NEW i \in DOMAIN frames,
                        frames[i].node \in Declaring, frames[i].vn = << >>,
                        Declaration(i).list # NULL, NEW k \in DOMAIN Declaration(i).list
                 PROVE  \E b \in BindingsIn(i + 1) :
                           /\ b.name = Declaration(i).list[k].name
                           /\ b.type = Declaration(i).list[k].type
                           /\ b.symbol_type \in {"FORMAL", "MEMBER"}
      BY DEF VisitsInv, ParamsAreBound, Declaring
    <2>1. i \in 1 .. Len(frames) /\ i + 1 \in 1 .. Len(scopes)
      BY Lengths, CurrentScope DEF RulesInv, SlotInv
    <2>2. PICK params : params = Declaration(i).list
      OBVIOUS
    <2>3. ListVisited(i)
      BY <2>1 DEF Visits, FrameVisited
    <2>4. params \in Seq(Params) /\ Visited(scopes[i + 1].table, params, << >>)
      BY <2>1, <2>2, <2>3, DeclarationTyped DEF ListVisited, RulesInv, Bindings
    <2>5. k \in 1 .. Len(params) /\ Len(params) \in Nat /\ params[k] \in Params
      BY <2>2, <2>4, ElementOfSeq
    <2>6. BoundIn(scopes[i + 1].table, params[k])
      <3>1. PICK m \in 0 .. Len(params) :
               /\ Len(<< >>) = Len(params) - m
               /\ \A j \in 1 .. m : BoundIn(scopes[i + 1].table, params[j])
        BY <2>4 DEF Visited
      <3>2. m = Len(params)
        BY <2>5, <3>1
      <3> QED
        BY <2>5, <3>1, <3>2
    <2>7. PICK b : b = scopes[i + 1].table[SlotOf(params[k].name)][1]
      OBVIOUS
    <2>8. b \in BindingsIn(i + 1)
      <3>1. SlotOf(params[k].name) \in Slots
        BY <2>5 DEF Params, Slots
      <3> QED
        BY <2>1, <2>6, <2>7, <3>1, BindingsBySlot DEF BoundIn, RulesInv
    <2> QED
      BY <2>2, <2>6, <2>7, <2>8 DEF BoundIn, Binds
  <1> QED
    BY <1>1, InitVisits, NextVisits, PTL DEF Spec
=============================================================================
