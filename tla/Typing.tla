------------------------------- MODULE Typing -------------------------------
(***************************************************************************)
(* Which programs the typechecker is to accept, from the syntax tree alone:    *)
(* the rules of typechecker.c without its passes, its hash tables and the      *)
(* order of its checks.  The reference a compilation is checked against.       *)
(*                                                                          *)
(* An environment is the sequence of the open scopes, each the set of its      *)
(* declarations: name, kind, type, struct_type (of variables and formals) and   *)
(* params, the formals of a function or the members of a structure.            *)
(***************************************************************************)
EXTENDS SyntaxTree, FiniteSets

Declaration(name, kind, type, struct_type, params) ==
    [name |-> name, kind |-> kind, type |-> type, struct_type |-> struct_type,
     params |-> params]

Variable(kind, d) == Declaration(d.name, kind, d.type, d.struct_type, << >>)

Prelude(builtins) ==
    {Declaration(b.name, "FUNCTION", "D_VOID", "", <<b>>) : b \in ToSet(builtins)}

\* The declarations of the innermost scope that has the name.
Meaning(env, name) ==
    LET named(i) == {d \in env[i] : d.name = name}
        levels == {i \in DOMAIN env : named(i) # {}}
    IN  IF levels = {} THEN {} ELSE named(Max(levels))

Declare(env, d) == [env EXCEPT ![Len(env)] = @ \cup {d}]

Arithmetic == {"T_PLUS", "T_MINUS", "T_MUL", "T_DIV", "T_MOD"}

RECURSIVE TypeOf(_, _)

\* The type of an expression, "ill" if it has none.
TypeOf(env, e) ==
    LET operands == [i \in DOMAIN Children(e) |-> TypeOf(env, Children(e)[i])]
        same == operands[1] = operands[2] /\ operands[1] # "ill"
        number(i) == operands[i] \in {"D_INTEGER", "D_FLOAT"}
        meant(name, kinds) == {d \in Meaning(env, name) : d.kind \in kinds}
        type(S) == IF S = {} THEN "ill" ELSE (CHOOSE d \in S : TRUE).type
    IN  CASE e.node = "N_LITERAL" -> e.type
          [] e.node = "N_NIL" -> "D_NIL"
          [] e.node = "N_IDENT" -> type(meant(e.name, {"VARIABLE", "FORMAL", "FUNCTION"}))
          [] e.node = "N_CALL_EXPR" ->
                type({d \in meant(e.func_name, {"FUNCTION"}) :
                         operands = [i \in DOMAIN d.params |-> d.params[i].type]})
          [] e.node = "N_STRUCT_ACCESS_EXPR" ->
                type({m \in UNION {ToSet(s.params) :
                             s \in UNION {meant(v.struct_type, {"STRUCTURE"}) :
                                             v \in meant(e.name, {"VARIABLE", "FORMAL"})}} :
                         m.name = e.member_name})
          [] e.node \in {"N_NEG_EXPR", "N_NOT_EXPR"} -> operands[1]
          [] e.node = "N_BINOP_EXPR" ->
                IF e.operator \notin Arithmetic THEN IF same THEN "D_BOOLEAN" ELSE "ill"
                ELSE IF ~(number(1) /\ number(2)) THEN "ill"
                ELSE IF same THEN operands[1] ELSE "D_FLOAT"
          [] e.node = "N_ASSIGN_EXPR" -> IF same THEN "D_VOID" ELSE "ill"
          [] OTHER -> "ill"

\* No two of the parameters have the same name.
Distinct(params) == \A i, j \in DOMAIN params : params[i].name = params[j].name => i = j

RECURSIVE WellTyped(_, _, _)

\* A sequence of statements, in an environment and a function of that type,
\* "none" outside of all functions.
WellTyped(env, function, statements) ==
    statements = << >> \/
    LET s == Head(statements)
        new == Meaning(env, s.name) = {}
        inner(scope, f, block) == WellTyped(Append(env, scope), f, block.statements)
        then(declared) == WellTyped(declared, function, Tail(statements))
        typed(e) == TypeOf(env, e) # "ill"
        self == Declaration(s.name, "FUNCTION", s.type, s.struct_type, s.formals)
    IN  CASE s.node = "N_VAR_DECL" ->
                /\ new
                /\ s.value # NULL => TypeOf(env, s.value) \in {"D_NIL", s.type}
                /\ then(Declare(env, Variable("VARIABLE", s)))
          [] s.node = "N_FUNC_DECL" ->
                /\ new /\ Distinct(s.formals)
                /\ WellTyped(Append(Declare(env, self), {Variable("FORMAL", f) : f \in ToSet(s.formals)}),
                             s.type, s.body.statements)
                /\ then(Declare(env, self))
          [] s.node = "N_STRUCT_DECL" ->
                /\ new /\ Distinct(s.members)
                /\ then(Declare(env, Declaration(s.name, "STRUCTURE", "D_STRUCT", "", s.members)))
          [] s.node = "N_IF_STMT" ->
                /\ typed(s.test) /\ inner({}, function, s.body)
                /\ s.else_stmt # NULL => inner({}, function, s.else_stmt)
                /\ then(env)
          [] s.node = "N_WHILE_STMT" -> typed(s.test) /\ inner({}, function, s.body) /\ then(env)
          [] s.node = "N_RETURN_STMT" ->
                /\ function = (IF s.expr = NULL THEN "D_VOID" ELSE TypeOf(env, s.expr))
                /\ then(env)
          [] s.node = "N_BLOCK_STMT" -> WellTyped(env, function, s.statements \o Tail(statements))
          [] s.node \in {"N_LABEL_DECL", "N_GOTO_STMT"} -> FALSE
          [] OTHER -> typed(s) /\ then(env)
=============================================================================
