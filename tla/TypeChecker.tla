---------------------------- MODULE TypeChecker ----------------------------
(***************************************************************************)
(* typechecker.c: the walk over the AST that builds the scopes and accepts   *)
(* or refuses the program.                                                  *)
(*                                                                          *)
(* The program is not fixed: wherever the walk visits the next statement,    *)
(* the next statement is any of the constants below.  The C stack of the     *)
(* mutually recursive typecheck_... functions is frames, one element per      *)
(* declaration, branch or loop whose scope is open.  An expression is        *)
(* checked in one step, since it changes no scope.  A block inside a block    *)
(* (N_BLOCK_STMT) opens no scope, so its statements are those of the block    *)
(* around it.                                                               *)
(***************************************************************************)
EXTENDS SymbolTable

CONSTANTS
    Builtins,     \* the sequence of the builtins: name and type of the argument
    VarDecls,     \* the variable declarations a program may contain
    FuncDecls,    \* its function declarations
    StructDecls,  \* its structure declarations
    Exprs,        \* its expressions, and their subexpressions
    MaxScopes     \* bound of the model on the nesting of scopes

VARIABLES
    scopes,   \* symbol_table ... curr_scope
    frames,   \* the C stack: node type, name and type of the declaration, and
              \* vn, the formals or members still to visit
    idx,      \* loop index of make_builtins
    status    \* running, done, or how the process ended

vars == <<scopes, frames, idx, status>>

FrameTypes == {"N_FUNC_DECL", "N_STRUCT_DECL", "N_IF_STMT", "else", "N_WHILE_STMT"}

\* type_error exits with TYPE_ERROR, log_error with 1, "abort" is a failed
\* assert and "crash" a load through NULL.
Failures == {"type_error", "log_error", "abort", "crash"}

Frames == [node : FrameTypes, name : Names, type : DataTypes, vn : Seq(Params)]

\* The nodes an expression node points to.
Operands(e) ==
    CASE e.node \in {"N_BINOP_EXPR", "N_ASSIGN_EXPR"} -> {e.lhs, e.rhs}
      [] e.node \in {"N_NEG_EXPR", "N_NOT_EXPR"} -> {e.expr}
      [] e.node = "N_CALL_EXPR" -> ToSet(e.args)
      [] OTHER -> {}

ExprTypes == {"N_IDENT", "N_LITERAL", "N_NIL", "N_BINOP_EXPR", "N_CALL_EXPR",
              "N_ASSIGN_EXPR", "N_NEG_EXPR", "N_NOT_EXPR", "N_STRUCT_ACCESS_EXPR",
              "N_ARRAY_INIT_EXPR", "N_ARRAY_ACCESS_EXPR"}

\* The length of the longest way down from a node.
Height[e \in Exprs] ==
    IF Operands(e) = {} THEN 0 ELSE 1 + Max({Height[o] : o \in Operands(e)})

ASSUME TypeCheckerAssumption ==
    /\ Builtins \in Seq([name : Names, type : DataTypes])
    /\ "input" \in Names
    /\ VarDecls \subseteq [name : Names, type : DataTypes, struct_type : Names,
                           value : Exprs \cup {NULL}]
    /\ FuncDecls \subseteq [name : Names, type : DataTypes, struct_type : Names,
                            formals : Seq(Params)]
    /\ StructDecls \subseteq [name : Names, members : Seq(Params)]
    /\ NULL \notin Exprs
    /\ \A e \in Exprs : Operands(e) \subseteq Exprs
    /\ MaxScopes \in Nat \ {0}

\* The parser builds trees: no node is among those below it.
ASSUME ExprsAssumption ==
    \A e \in Exprs :
        /\ e.node \in ExprTypes
        /\ e.node = "N_IDENT" => e.name \in Names
        /\ e.node = "N_LITERAL" => e.type \in DataTypes
        /\ e.node = "N_CALL_EXPR" => e.func_name \in Names /\ e.args \in Seq(Exprs)
        /\ Height[e] \in Nat
        /\ \A o \in Operands(e) : Height[o] < Height[e]

\* The builtins are declared without a lookup: their slots differ, as those of
\* print, println, printint and printfloat do (648, 166, 1001 and 242).
ASSUME BuiltinsAssumption ==
    \A i, j \in DOMAIN Builtins :
        SlotOf(Builtins[i].name) = SlotOf(Builtins[j].name) => i = j

-----------------------------------------------------------------------------
(* What a lookup from the current scope finds *)

Level == Len(scopes)
curr_scope == scopes[Level]
Lookup(name) == symtab_lookup(scopes, Level, name)

-----------------------------------------------------------------------------
(***************************************************************************)
(* Expressions.  do_typecheck and get_type call each other down the tree     *)
(* and change no state but by ending the process.  Judge[e] gives for a       *)
(* node e what do_typecheck(e) does (check), what get_type(e) does (get) and   *)
(* the datatype get_type returns.                                           *)
(***************************************************************************)

\* The first of a sequence of calls that does not return ends the process.
FirstFailure(calls) ==
    LET failed == SelectInSeq(calls, LAMBDA call : call # "ok")
    IN  IF failed = 0 THEN "ok" ELSE calls[failed]

\* A test that calls type_error when it does not hold.
Require(test) == IF test THEN "ok" ELSE "type_error"

Judgement(check, get, datatype) ==
    [check |-> check, get |-> get, datatype |-> datatype]

is_numerical_type(datatype) == datatype \in {"D_FLOAT", "D_INTEGER"}

Arithmetic == {"T_PLUS", "T_MINUS", "T_MUL", "T_DIV", "T_MOD"}

JudgeIdent(e) ==
    LET binding == Lookup(e.name)
    IN  IF binding = NULL THEN Judgement("type_error", "type_error", "D_UNKNOWN")
        ELSE IF binding.symbol_type \in {"STRUCTURE", "MEMBER"}
             THEN Judgement("ok", "log_error", "D_UNKNOWN")
        ELSE Judgement("ok", "ok", binding.type)

\* Mutated: one numeric operand is enough.
JudgeBinop_Either(e, l, r) ==
    Judgement(FirstFailure(<<l.check, r.check, l.get, r.get,
                 Require(\/ is_numerical_type(l.datatype)
                         \/ is_numerical_type(r.datatype)
                         \/ l.datatype = r.datatype)>>),
              "ok", "D_INTEGER")

\* l and r are the judgements of the operands.
JudgeBinop(e, l, r) ==
    LET arithmetic == e.operator \in Arithmetic
        agree == IF arithmetic
                 THEN /\ is_numerical_type(l.datatype)
                      /\ is_numerical_type(r.datatype)
                 ELSE l.datatype = r.datatype
        datatype == IF ~arithmetic THEN "D_BOOLEAN"
                    ELSE IF "D_FLOAT" \in {l.datatype, r.datatype} THEN "D_FLOAT"
                    ELSE IF "D_INTEGER" \in {l.datatype, r.datatype} THEN "D_INTEGER"
                    ELSE "D_UNKNOWN"
    IN  Judgement(FirstFailure(<<l.check, r.check, l.get, r.get, Require(agree)>>),
                  FirstFailure(<<l.check, l.get, r.check, r.get>>),
                  datatype)

\* args are the judgements of the arguments.  Nothing asks whether the binding
\* is that of a function.
JudgeCall(e, args) ==
    LET binding == Lookup(e.func_name)
        visit(i) == FirstFailure(<<args[i].check, args[i].get,
                         Require(binding.list[i].type = args[i].datatype)>>)
    IN  IF binding = NULL THEN Judgement("type_error", "ok", "D_UNKNOWN")
        ELSE Judgement(IF Len(args) # binding.num_args THEN "type_error"
                       ELSE FirstFailure([i \in 1 .. Len(args) |-> visit(i)]),
                       "ok", binding.type)

\* The members of a structure are member_decl_t.  When the binding is that of a
\* function, list holds formal_t, whose struct_type lies where the name of a
\* member_decl_t does.
MemberName(binding, i) ==
    IF binding.symbol_type = "FUNCTION" THEN binding.list[i].struct_type
    ELSE binding.list[i].name

JudgeStructAccess(e) ==
    LET variable == Lookup(e.name)
        struct == Lookup(variable.struct_type)
        found == {i \in DOMAIN struct.list : MemberName(struct, i) = e.member_name}
    IN  IF variable = NULL \/ struct = NULL
        THEN Judgement("ok", "ok", "D_UNKNOWN")
        ELSE IF struct.list = NULL THEN Judgement("crash", "crash", "D_UNKNOWN")
        ELSE IF found = {} THEN Judgement("type_error", "ok", "D_UNKNOWN")
        ELSE Judgement("ok", "ok", struct.list[Min(found)].type)

JudgeAssign(l, r) ==
    Judgement(FirstFailure(<<l.check, r.check, l.get, r.get,
                             Require(l.datatype = r.datatype)>>),
              "log_error", "D_UNKNOWN")

\* typecheck_neg_expr and typecheck_not_expr visit the operand, and get_type
\* visits the node before it asks for the type of the operand.
JudgeUnary(operand) ==
    Judgement(operand.check, FirstFailure(<<operand.check, operand.get>>),
              operand.datatype)

\* of holds the judgements of the operands.
JudgeNode(e, of) ==
    CASE e.node = "N_IDENT"   -> JudgeIdent(e)
      [] e.node = "N_LITERAL" -> Judgement("ok", "ok", e.type)
      [] e.node = "N_NIL"     -> Judgement("ok", "ok", "D_NIL")
      [] e.node = "N_BINOP_EXPR"  -> JudgeBinop(e, of[e.lhs], of[e.rhs])
      [] e.node = "N_CALL_EXPR"   ->
            JudgeCall(e, [i \in 1 .. Len(e.args) |-> of[e.args[i]]])
      [] e.node = "N_ASSIGN_EXPR" -> JudgeAssign(of[e.lhs], of[e.rhs])
      [] e.node \in {"N_NEG_EXPR", "N_NOT_EXPR"} -> JudgeUnary(of[e.expr])
      [] e.node = "N_STRUCT_ACCESS_EXPR" -> JudgeStructAccess(e)
      [] e.node \in {"N_ARRAY_INIT_EXPR", "N_ARRAY_ACCESS_EXPR"} ->
            Judgement("abort", "log_error", "D_UNKNOWN")

Judge[e \in Exprs] == JudgeNode(e, [o \in Operands(e) |-> Judge[o]])

-----------------------------------------------------------------------------
(* The control state *)

Building == status = "running" /\ idx <= Len(Builtins)
Walking == status = "running" /\ idx > Len(Builtins)

Top == Last(frames)

\* typecheck_program or typecheck_block_stmt is at its next statement.
AtStatement ==
    /\ Walking
    /\ frames # << >> => Top.node # "N_STRUCT_DECL" /\ Top.vn = << >>

\* typecheck_func_decl or typecheck_struct_decl is at the next element of the
\* vector of formals or members.
AtParam(node) ==
    /\ Walking
    /\ frames # << >>
    /\ Top.node = node
    /\ Top.vn # << >>

\* The statement ends the process unless its verdict is "ok".
Settle(verdict) == status' = IF verdict = "ok" THEN status
                             ELSE IF verdict \in Failures THEN verdict
                             ELSE "crash"

Insert(binding) == scopes' = symtab_insert(scopes, binding)

\* The statement enters a scope; outer is scopes with what it declared before.
EnterScope(outer, name, frame) ==
    /\ scopes' = enter_new_scope(outer, name)
    /\ frames' = Append(frames, frame)

Block(node) == [node |-> node, name |-> "", type |-> "D_VOID", vn |-> << >>]

-----------------------------------------------------------------------------
(* Initial state: typecheck() has allocated the global scope *)

Init ==
    /\ scopes = <<symtab_new("")>>
    /\ frames = << >>
    /\ idx = 1
    /\ status = "running"

\* One iteration of the loop of make_builtins.
MakeBuiltin ==
    /\ Building
    /\ LET builtin == Builtins[idx]
           formal == [name |-> "input", type |-> builtin.type, struct_type |-> ""]
       IN  Insert([name |-> builtin.name, symbol_type |-> "FUNCTION",
                   type |-> "D_VOID", struct_type |-> "",
                   num_args |-> 1, list |-> <<formal>>])
    /\ idx' = idx + 1
    /\ UNCHANGED <<frames, status>>

-----------------------------------------------------------------------------
(* Declarations *)

\* Mutated: the name may be taken in an outer scope.
RedefinitionCheck_OneScope(name) ==
    Require(symtab_lookup_single(scopes, Level, name) = NULL)

\* Every declaration first looks for its name in all the scopes.
RedefinitionCheck(name) == Require(Lookup(name) = NULL)

Literal(type) == [node |-> "N_LITERAL", type |-> type]

\* The value the parser gives a declaration that has none.  Only the string
\* literal gets its type set; in the others the field is calloc's 0, D_INTEGER.
DefaultValue(type) ==
    CASE type = "D_STRUCT" -> NULL
      [] type = "D_STRING" -> Literal("D_STRING")
      [] type \in {"D_INTEGER", "D_FLOAT", "D_BOOLEAN"} -> Literal("D_INTEGER")

\* The initialization value of a declaration is given to get_type only.
InitializerCheck(d) ==
    IF d.value = NULL THEN "ok"
    ELSE FirstFailure(<<Judge[d.value].get,
                        Require(Judge[d.value].datatype \in {"D_NIL", d.type})>>)

VarDeclVerdict(d) == FirstFailure(<<RedefinitionCheck(d.name), InitializerCheck(d)>>)

VariableBinding(d, symbol_type) ==
    [name |-> d.name, symbol_type |-> symbol_type, type |-> d.type,
     struct_type |-> d.struct_type, num_args |-> 0, list |-> NULL]

VarDecl(d) ==
    /\ AtStatement
    /\ Settle(VarDeclVerdict(d))
    /\ IF VarDeclVerdict(d) = "ok"
       THEN Insert(VariableBinding(d, "VARIABLE"))
       ELSE UNCHANGED scopes
    /\ UNCHANGED <<frames, idx>>

\* A function without formals has no formals vector.
FunctionBinding(d) ==
    [name |-> d.name, symbol_type |-> "FUNCTION", type |-> d.type,
     struct_type |-> d.struct_type, num_args |-> Len(d.formals),
     list |-> IF d.formals = << >> THEN NULL ELSE d.formals]

FuncDecl(d) ==
    /\ AtStatement
    /\ Level < MaxScopes
    /\ Settle(RedefinitionCheck(d.name))
    /\ IF RedefinitionCheck(d.name) = "ok"
       THEN EnterScope(symtab_insert(scopes, FunctionBinding(d)), d.name,
                       [node |-> "N_FUNC_DECL", name |-> d.name,
                        type |-> d.type, vn |-> d.formals])
       ELSE UNCHANGED <<scopes, frames>>
    /\ UNCHANGED idx

\* Mutated: the type is overwritten by the name.
StructureBinding_Name(d) ==
    [name |-> d.name, symbol_type |-> "STRUCTURE", type |-> d.name,
     struct_type |-> d.name, num_args |-> 0, list |-> d.members]

StructureBinding(d) ==
    [name |-> d.name, symbol_type |-> "STRUCTURE", type |-> "D_STRUCT",
     struct_type |-> d.name, num_args |-> 0, list |-> d.members]

StructDecl(d) ==
    /\ AtStatement
    /\ Level < MaxScopes
    /\ Settle(RedefinitionCheck(d.name))
    /\ IF RedefinitionCheck(d.name) = "ok"
       THEN EnterScope(symtab_insert(scopes, StructureBinding(d)), d.name,
                       [node |-> "N_STRUCT_DECL", name |-> d.name,
                        type |-> "D_STRUCT", vn |-> d.members])
       ELSE UNCHANGED <<scopes, frames>>
    /\ UNCHANGED idx

\* A formal or member is looked for in its own scope only.  One of the same
\* symbol type is an error; anything else there is left alone.
ParamVerdict(name, symbol_type) ==
    LET binding == symtab_lookup_single(scopes, Level, name)
    IN  Require(binding = NULL \/ binding.symbol_type # symbol_type)

\* Mutated: nor is one whose name an outer scope answers for, and nobody is told.
NewInScope_Anywhere(name) == Lookup(name) = NULL

NewInScope(name) == symtab_lookup_single(scopes, Level, name) = NULL

NextParam == frames' = [frames EXCEPT ![Len(frames)].vn = Tail(@)]

Formal ==
    /\ AtParam("N_FUNC_DECL")
    /\ LET formal == Head(Top.vn)
       IN  /\ Settle(ParamVerdict(formal.name, "FORMAL"))
           /\ IF NewInScope(formal.name)
              THEN Insert(VariableBinding(formal, "FORMAL"))
              ELSE UNCHANGED scopes
    /\ NextParam
    /\ UNCHANGED idx

\* The binding the name of the scope leads to, for a member to name its parent.
ParentStruct == Lookup(curr_scope.name)

MemberDecl ==
    /\ AtParam("N_STRUCT_DECL")
    /\ LET member == Head(Top.vn)
           orphan == NewInScope(member.name) /\ ParentStruct = NULL
       IN  /\ Settle(IF orphan THEN "log_error"
                     ELSE ParamVerdict(member.name, "MEMBER"))
           /\ IF NewInScope(member.name) /\ ~orphan
              THEN Insert([VariableBinding(member, "MEMBER")
                              EXCEPT !.struct_type = ParentStruct.name])
              ELSE UNCHANGED scopes
    /\ NextParam
    /\ UNCHANGED idx

-----------------------------------------------------------------------------
(* Control statements.  The scope of a branch or loop takes the name of the *)
(* scope around it, so that a return inside finds the function.             *)

\* Mutated: the scope gets no name.
Branch_Unnamed(node, test) ==
    /\ AtStatement
    /\ Level < MaxScopes
    /\ Settle(Judge[test].check)
    /\ IF Judge[test].check = "ok"
       THEN EnterScope(scopes, "", Block(node))
       ELSE UNCHANGED <<scopes, frames>>
    /\ UNCHANGED idx

Branch(node, test) ==
    /\ AtStatement
    /\ Level < MaxScopes
    /\ Settle(Judge[test].check)
    /\ IF Judge[test].check = "ok"
       THEN EnterScope(scopes, curr_scope.name, Block(node))
       ELSE UNCHANGED <<scopes, frames>>
    /\ UNCHANGED idx

IfStmt(test) == Branch("N_IF_STMT", test)
WhileStmt(test) == Branch("N_WHILE_STMT", test)

\* The body of the if statement is over and it has an else statement.
ElseStmt ==
    /\ AtStatement
    /\ frames # << >>
    /\ Top.node = "N_IF_STMT"
    /\ LET outer == leave_curr_scope(scopes)
       IN  scopes' = enter_new_scope(outer, Last(outer).name)
    /\ frames' = [frames EXCEPT ![Len(frames)].node = "else"]
    /\ UNCHANGED <<idx, status>>

\* The body, or the list of members, is over.
LeaveScope ==
    /\ Walking
    /\ frames # << >>
    /\ Top.vn = << >>
    /\ scopes' = leave_curr_scope(scopes)
    /\ frames' = Front(frames)
    /\ UNCHANGED <<idx, status>>

\* Mutated: the lookup starts in the current scope.
ReturnBinding_Current == symtab_lookup(scopes, Level, curr_scope.name)

\* The function the name of the scope leads to, looked for in the parent scopes.
ReturnBinding == symtab_lookup(scopes, Level - 1, curr_scope.name)

\* Mutated: an empty return is accepted before the function is looked for.
ReturnVerdict_EmptyFirst(e) ==
    IF e = NULL THEN "ok"
    ELSE IF Level = 1 THEN "type_error"
    ELSE IF ReturnBinding = NULL THEN "log_error"
    ELSE FirstFailure(<<Judge[e].check, Judge[e].get,
                        Require(Judge[e].datatype = ReturnBinding.type)>>)

\* e is NULL for an empty return statement.
ReturnVerdict(e) ==
    IF Level = 1 THEN "type_error"
    ELSE IF ReturnBinding = NULL THEN "log_error"
    ELSE IF e = NULL THEN Require(ReturnBinding.type = "D_VOID")
    ELSE FirstFailure(<<Judge[e].check, Judge[e].get,
                        Require(Judge[e].datatype = ReturnBinding.type)>>)

ReturnStmt(e) ==
    /\ AtStatement
    /\ Settle(ReturnVerdict(e))
    /\ UNCHANGED <<scopes, frames, idx>>

ExprStmt(e) ==
    /\ AtStatement
    /\ Settle(Judge[e].check)
    /\ UNCHANGED <<scopes, frames, idx>>

\* typecheck_label_decl and typecheck_goto_stmt are asserts that fail.
LabelOrGoto ==
    /\ AtStatement
    /\ Settle("abort")
    /\ UNCHANGED <<scopes, frames, idx>>

EndOfProgram ==
    /\ AtStatement
    /\ frames = << >>
    /\ status' = "done"
    /\ UNCHANGED <<scopes, frames, idx>>

\* The process has ended.
Ended == status # "running" /\ UNCHANGED vars

Next ==
    \/ MakeBuiltin
    \/ \E d \in VarDecls : VarDecl(d)
    \/ \E d \in FuncDecls : FuncDecl(d)
    \/ \E d \in StructDecls : StructDecl(d)
    \/ Formal
    \/ MemberDecl
    \/ \E e \in Exprs : IfStmt(e)
    \/ \E e \in Exprs : WhileStmt(e)
    \/ ElseStmt
    \/ LeaveScope
    \/ \E e \in Exprs \cup {NULL} : ReturnStmt(e)
    \/ \E e \in Exprs : ExprStmt(e)
    \/ LabelOrGoto
    \/ EndOfProgram
    \/ Ended

Spec == Init /\ [][Next]_vars

-----------------------------------------------------------------------------
(* Properties *)

\* Every variable holds what its declaration says.
TypeOK ==
    /\ scopes \in Seq(Scopes)
    /\ frames \in Seq(Frames)
    /\ idx \in 1 .. Len(Builtins) + 1
    /\ status \in {"running", "done"} \cup Failures

\* The chain of scopes and the C stack agree: one scope for each open
\* declaration, branch or loop, and the name of a scope, by which a return finds
\* its function and a member its structure, is that of the innermost function or
\* structure around it (enter_new_scope and leave_curr_scope are paired by hand
\* in five functions).
ScopesTrackFrames ==
    /\ Len(scopes) = Len(frames) + 1
    /\ scopes[1].name = ""
    /\ \A i \in 1 .. Len(frames) :
          scopes[i + 1].name =
              IF frames[i].node \in {"N_FUNC_DECL", "N_STRUCT_DECL"}
              THEN frames[i].name ELSE scopes[i].name

\* The chaining of hashtable.c is never used: since a lookup answers with the
\* one entry of a slot whatever its name, a second name of the same slot is
\* refused before it is inserted.
SlotsHoldOneBinding ==
    \A i \in 1 .. Len(scopes) : \A slot \in Slots : Len(scopes[i].table[slot]) <= 1

\* Of two open scopes that fill the same slot, the inner one holds a formal or a
\* member: only those may hide a name of an outer scope.
OnlyParamsShadow ==
    \A j \in 1 .. Len(scopes) : \A i \in 1 .. j - 1 : \A slot \in Slots :
       scopes[i].table[slot] # << >> /\ scopes[j].table[slot] # << >>
       => scopes[j].table[slot][1].symbol_type \in {"FORMAL", "MEMBER"}

\* Some binding of that name is in an open scope.
Visible(name) ==
    \E i \in 1 .. Level : \E k \in DOMAIN scopes[i].table[SlotOf(name)] :
        scopes[i].table[SlotOf(name)][k].name = name

\* A name that is declared is never reported as unknown, whatever the hash
\* collisions.
DeclaredNamesAreFound == \A name \in Names : Visible(name) => Lookup(name) # NULL

\* A lookup answers with a binding of the name it was given ("Compare bindings
\* by name", symtab.c:18).
LookupComparesNames ==
    \A name \in Names : Lookup(name) # NULL => Lookup(name).name = name

\* The functions whose bodies the walk is in, by the index of their frames.
OpenFunctions == {i \in DOMAIN frames : frames[i].node = "N_FUNC_DECL"}
Enclosing == Max(OpenFunctions)

\* A formal of the innermost function fills the slot of the function's name.
FormalHidesFunction ==
    scopes[Enclosing + 1].table[SlotOf(frames[Enclosing].name)] # << >>

\* The binding against which a return is checked is that of the innermost
\* function around it, from the body itself or from any depth of branches,
\* unless a formal hides the function from those.
ReturnFindsFunction ==
    AtStatement /\ OpenFunctions # {} /\ (Level = Enclosing + 1 \/ ~FormalHidesFunction)
    => /\ ReturnBinding # NULL
       /\ ReturnBinding.symbol_type = "FUNCTION"
       /\ ReturnBinding.type = frames[Enclosing].type

\* The same without the exception: "check the parent scope for our function's
\* return type" (typechecker.c:865).
ReturnAlwaysFindsFunction ==
    AtStatement /\ OpenFunctions # {}
    => ReturnBinding # NULL /\ ReturnBinding.symbol_type = "FUNCTION"

\* A return outside every function is refused, however deep in branches, as long
\* as no name of the program falls in the slot of the empty name.
NoStrayReturn ==
    AtStatement /\ OpenFunctions = {} /\ Lookup("") = NULL
    => \A e \in Exprs \cup {NULL} : ReturnVerdict(e) # "ok"

-----------------------------------------------------------------------------
(* What an expression means by the names of the open scopes alone, without   *)
(* tables and without the order of the checks.                              *)

BindingsIn(i) == UNION {ToSet(scopes[i].table[slot]) : slot \in Slots}

\* The declaration of the innermost open scope that declares the name.
Resolve(name) ==
    LET levels == {i \in 1 .. Level : \E b \in BindingsIn(i) : b.name = name}
    IN  IF levels = {} THEN NULL
        ELSE CHOOSE b \in BindingsIn(Max(levels)) : b.name = name

ResolvesTo(name, symbol_types) ==
    Resolve(name) # NULL /\ Resolve(name).symbol_type \in symbol_types

\* The type of an expression, "ill" if it has none.  A value of each operand,
\* equal types where two meet, and a call with the formals of its function.
StaticBinop(operator, l, r) ==
    CASE "ill" \in {l, r} -> "ill"
      [] operator \in Arithmetic ->
            IF ~({l, r} \subseteq {"D_INTEGER", "D_FLOAT"}) THEN "ill"
            ELSE IF l = r THEN l ELSE "D_FLOAT"
      [] OTHER -> IF l = r THEN "D_BOOLEAN" ELSE "ill"

StaticCall(name, types) ==
    IF /\ ResolvesTo(name, {"FUNCTION"})
       /\ types = (IF Resolve(name).list = NULL THEN << >>
                   ELSE [i \in DOMAIN Resolve(name).list |-> Resolve(name).list[i].type])
    THEN Resolve(name).type ELSE "ill"

\* of holds the types of the operands.
StaticNode(e, of) ==
    CASE e.node = "N_IDENT" ->
            IF ResolvesTo(e.name, {"FUNCTION", "VARIABLE", "FORMAL"})
            THEN Resolve(e.name).type ELSE "ill"
      [] e.node = "N_LITERAL" -> e.type
      [] e.node = "N_NIL" -> "D_NIL"
      [] e.node = "N_BINOP_EXPR" -> StaticBinop(e.operator, of[e.lhs], of[e.rhs])
      [] e.node = "N_CALL_EXPR" ->
            StaticCall(e.func_name, [i \in 1 .. Len(e.args) |-> of[e.args[i]]])
      [] e.node \in {"N_NEG_EXPR", "N_NOT_EXPR"} -> of[e.expr]
      [] OTHER -> "ill"

StaticType[e \in Exprs] == StaticNode(e, [o \in Operands(e) |-> StaticType[o]])

\* The expression accesses a member or calls what is no function, or does so in
\* an operand.
Lenient[e \in Exprs] ==
    \/ e.node = "N_STRUCT_ACCESS_EXPR"
    \/ e.node = "N_CALL_EXPR" /\ ~ResolvesTo(e.func_name, {"FUNCTION"})
    \/ \E o \in Operands(e) : Lenient[o]

\* An expression whose two visits, do_typecheck and get_type, both let it pass
\* has the type it is given, whatever scopes the names come from.  Member
\* accesses, and calls of names that are no functions, pass without one.
AcceptedExprsAreTyped ==
    AtStatement => \A e \in Exprs :
        Judge[e].check = "ok" /\ Judge[e].get = "ok" /\ ~Lenient[e]
        => StaticType[e] = Judge[e].datatype

\* Whatever the collisions, a name that is declared is answered by its innermost
\* declaration, unless a formal or a member of another name, in the same slot of a
\* scope further in, answers for it: the redefinition checks, which compare no names
\* either, keep every other declaration from doing so.
OnlyParamsMislead ==
    \A name \in Names : Visible(name) /\ Lookup(name) # NULL =>
       \/ Lookup(name) = Resolve(name)
       \/ /\ Lookup(name).name # name
          /\ Lookup(name).symbol_type \in {"FORMAL", "MEMBER"}

\* The binding of an open function or structure, in the scope around its own.
Declaration(i) == scopes[i].table[SlotOf(frames[i].name)][1]

\* The formals by which the calls of an open function are checked are those its body
\* sees: whatever outer names they share slots with, each is in the function's own scope,
\* with its type.  So is every member of a structure (typechecker.c:986 and 701 would
\* leave out, without a message, one that meets a binding of another kind).
ParamsAreBound ==
    status = "running" =>
       \A i \in DOMAIN frames :
          /\ frames[i].node \in {"N_FUNC_DECL", "N_STRUCT_DECL"}
          /\ frames[i].vn = << >>
          /\ Declaration(i).list # NULL
          => \A k \in DOMAIN Declaration(i).list :
                \E b \in BindingsIn(i + 1) :
                   /\ b.name = Declaration(i).list[k].name
                   /\ b.type = Declaration(i).list[k].type
                   /\ b.symbol_type \in {"FORMAL", "MEMBER"}

\* The initialization value of an accepted declaration has passed its own check
\* ("Check the RHS of the initialization", typechecker.c:502).
InitializersAreChecked ==
    AtStatement => \A d \in VarDecls :
        VarDeclVerdict(d) = "ok" /\ d.value # NULL => Judge[d.value].check = "ok"

\* A declaration without a value is not refused for the default value it gets:
\* "set a default based upon the type" (parser.c:1397).
DefaultsAreAccepted ==
    AtStatement => \A d \in VarDecls :
        d.value = DefaultValue(d.type) => InitializerCheck(d) = "ok"

-----------------------------------------------------------------------------
(* The scopes implement BlockScopes *)

Blocks == [i \in 1 .. Len(scopes) |->
             {[name |-> b.name, kind |-> b.symbol_type] : b \in BindingsIn(i)}]

BS == INSTANCE BlockScopes
        WITH blocks <- Blocks, accepting <- status = "running", MaxBlocks <- MaxScopes

\* Every step of the walk keeps the rules of BlockScopes, or changes no scope.
BlockScopesSpec == BS!Spec
=============================================================================
