---------------------------- MODULE SyntaxTree ----------------------------
(***************************************************************************)
(* ast.h and ast.c: the nodes of the syntax tree, which the parser makes,    *)
(* print_ast prints and the typechecker visits.  A node is a record of its   *)
(* node type and the fields of its arm of the union; a vector is a sequence,  *)
(* and the empty one where the parser leaves NULL (no formals, no arguments).  *)
(* The four kinds of literals are one, with the literal of their token.       *)
(* is_array and num_dimensions, which only print_ast reads, are left out;     *)
(* is_struct is type = "D_STRUCT".                                          *)
(***************************************************************************)
EXTENDS Naturals, Sequences, SequencesExt

CONSTANT NULL

\* A node of that type whose fields have the values v.
mk_node(type, v) ==
    CASE type \in {"N_PROGRAM", "N_BLOCK_STMT"} -> [node |-> type, statements |-> v[1]]
      [] type = "N_VAR_DECL" ->
            [node |-> type, type |-> v[1], struct_type |-> v[2], name |-> v[3], value |-> v[4]]
      [] type = "N_FORMAL" ->
            [node |-> type, type |-> v[1], struct_type |-> v[2], name |-> v[3]]
      [] type = "N_FUNC_DECL" ->
            [node |-> type, name |-> v[1], formals |-> v[2], type |-> v[3],
             struct_type |-> v[4], body |-> v[5]]
      [] type = "N_MEMBER_DECL" -> [node |-> type, type |-> v[1], name |-> v[2]]
      [] type = "N_STRUCT_DECL" -> [node |-> type, name |-> v[1], members |-> v[2]]
      [] type = "N_WHILE_STMT" -> [node |-> type, test |-> v[1], body |-> v[2]]
      [] type = "N_IF_STMT" ->
            [node |-> type, test |-> v[1], body |-> v[2], else_stmt |-> v[3]]
      [] type \in {"N_RETURN_STMT", "N_NEG_EXPR", "N_NOT_EXPR"} ->
            [node |-> type, expr |-> v[1]]
      [] type \in {"N_LABEL_DECL", "N_IDENT"} -> [node |-> type, name |-> v[1]]
      [] type = "N_GOTO_STMT" -> [node |-> type, label |-> v[1]]
      [] type = "N_ASSIGN_EXPR" -> [node |-> type, lhs |-> v[1], rhs |-> v[2]]
      [] type = "N_BINOP_EXPR" ->
            [node |-> type, lhs |-> v[1], operator |-> v[2], rhs |-> v[3]]
      [] type = "N_CALL_EXPR" -> [node |-> type, func_name |-> v[1], args |-> v[2]]
      [] type = "N_STRUCT_ACCESS_EXPR" ->
            [node |-> type, name |-> v[1], member_name |-> v[2]]
      [] type = "N_ARRAY_INIT_EXPR" -> [node |-> type, expressions |-> v[1]]
      [] type = "N_ARRAY_ACCESS_EXPR" -> [node |-> type, name |-> v[1], expressions |-> v[2]]
      [] type = "N_LITERAL" -> [node |-> type, type |-> v[1], value |-> v[2]]
      [] type = "N_NIL" -> [node |-> type]

keyword_to_type(type) ==
    CASE type = "T_INT" -> "D_INTEGER"
      [] type = "T_BOOL" -> "D_BOOLEAN"
      [] type = "T_STRING" -> "D_STRING"
      [] type = "T_FLOAT" -> "D_FLOAT"
      [] type = "T_VOID" -> "D_VOID"
      [] type = "T_STRUCT" -> "D_STRUCT"
      [] OTHER -> "D_UNKNOWN"

\* The nodes print_node visits from node n, in its order.  Declarations, returns
\* and if statements are asked first whether they have a value, an expression or
\* an else statement.
Optional(n) == IF n = NULL THEN << >> ELSE <<n>>

Children(n) ==
    CASE n.node \in {"N_PROGRAM", "N_BLOCK_STMT"} -> n.statements
      [] n.node = "N_VAR_DECL" -> Optional(n.value)
      [] n.node = "N_FUNC_DECL" -> Append(n.formals, n.body)
      [] n.node = "N_STRUCT_DECL" -> n.members
      [] n.node = "N_RETURN_STMT" -> Optional(n.expr)
      [] n.node = "N_CALL_EXPR" -> n.args
      [] n.node \in {"N_ARRAY_INIT_EXPR", "N_ARRAY_ACCESS_EXPR"} -> n.expressions
      [] n.node = "N_IF_STMT" -> <<n.test, n.body>> \o Optional(n.else_stmt)
      [] n.node = "N_WHILE_STMT" -> <<n.test, n.body>>
      [] n.node \in {"N_NEG_EXPR", "N_NOT_EXPR"} -> <<n.expr>>
      [] n.node \in {"N_BINOP_EXPR", "N_ASSIGN_EXPR"} -> <<n.lhs, n.rhs>>
      [] OTHER -> << >>
=============================================================================
