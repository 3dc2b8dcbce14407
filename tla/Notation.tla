------------------------------ MODULE Notation ------------------------------
(***************************************************************************)
(* The language from the side of its trees: the tokens a tree is written      *)
(* with, as few parentheses as the functions of parser.c allow.  It is the    *)
(* reference the parser is checked against.                                 *)
(***************************************************************************)
EXTENDS SyntaxTree

\* token.h: how the types that have one spelling are spelt.
Spelling == [
    T_LPAREN |-> "(", T_RPAREN |-> ")", T_LBRACKET |-> "[", T_RBRACKET |-> "]",
    T_LBRACE |-> "{", T_RBRACE |-> "}", T_ASSIGN |-> ":=", T_COLON |-> ":",
    T_SEMICOLON |-> ";", T_COMMA |-> ",", T_DOT |-> ".", T_PLUS |-> "+",
    T_MINUS |-> "-", T_MUL |-> "*", T_DIV |-> "/", T_MOD |-> "%", T_OFTYPE |-> "->",
    T_LT |-> "<", T_GT |-> ">", T_BANG |-> "!", T_EQ |-> "==", T_LE |-> "<=",
    T_GE |-> ">=", T_NE |-> "!=", T_AND |-> "and", T_OR |-> "or", T_FUNC |-> "func",
    T_FOR |-> "for", T_WHILE |-> "while", T_TO |-> "to", T_END |-> "end",
    T_STRUCT |-> "struct", T_TRUE |-> "true", T_FALSE |-> "false", T_NIL |-> "nil",
    T_INT |-> "int", T_BOOL |-> "bool", T_STRING |-> "string", T_FLOAT |-> "float",
    T_VOID |-> "void", T_GOTO |-> "goto", T_IF |-> "if", T_THEN |-> "then",
    T_ELSE |-> "else", T_RETURN |-> "return"]

T(type) == <<[type |-> type, literal |-> Spelling[type]]>>
Name(name) == <<[type |-> "T_IDENT", literal |-> name]>>

LiteralToken(e) ==
    <<[literal |-> e.value,
       type |-> CASE e.type = "D_INTEGER" -> "L_INTEGER" [] e.type = "D_FLOAT" -> "L_FLOAT"
                  [] e.type = "D_STRING" -> "L_STR"
                  [] e.type = "D_BOOLEAN" -> IF e.value = "true" THEN "T_TRUE" ELSE "T_FALSE"]>>

Keyword(type) ==
    CASE type = "D_INTEGER" -> "T_INT" [] type = "D_BOOLEAN" -> "T_BOOL"
      [] type = "D_STRING" -> "T_STRING" [] type = "D_FLOAT" -> "T_FLOAT"
      [] type = "D_VOID" -> "T_VOID"

TypeTokens(n) ==
    IF n.type = "D_STRUCT" THEN T("T_STRUCT") \o Name(n.struct_type) ELSE T(Keyword(n.type))

\* The levels of precedence.
Whole == 0
And == 1
Not == 2
Compare == 3
Add == 4
Mult == 5
Primary == 6

OperatorLevel(operator) ==
    CASE operator \in {"T_AND", "T_OR"} -> And
      [] operator \in {"T_EQ", "T_NE", "T_GT", "T_GE", "T_LT", "T_LE"} -> Compare
      [] operator \in {"T_PLUS", "T_MINUS"} -> Add
      [] operator \in {"T_MUL", "T_DIV", "T_MOD"} -> Mult

\* An assignment takes the ":=", the expression and the ";" with it wherever an
\* operand may stand.
Level(e) ==
    CASE e.node = "N_BINOP_EXPR" -> OperatorLevel(e.operator)
      [] e.node \in {"N_NEG_EXPR", "N_NOT_EXPR"} -> Not
      [] e.node = "N_ARRAY_INIT_EXPR" -> Whole
      [] OTHER -> Primary

\* parts with separator between them.
Separated(parts, separator) ==
    IF parts = << >> THEN << >>
    ELSE Head(parts) \o FlattenSeq([i \in 1 .. Len(parts) - 1 |-> separator \o parts[i + 1]])

RECURSIVE Written(_, _)

\* The tokens of an expression where one of that level is read.  Operators of one
\* level do not chain; "!" and "-" take all that follows, so that only the right
\* operand of "and" can begin with one.
Written(e, level) ==
    LET sub(l) == [i \in DOMAIN Children(e) |-> Written(Children(e)[i], l)]
        own == Level(e)
        written ==
            CASE e.node = "N_BINOP_EXPR" ->
                    Written(e.lhs, IF own = And THEN Compare ELSE own + 1)
                    \o T(e.operator) \o Written(e.rhs, own + 1)
              [] e.node = "N_NOT_EXPR" -> T("T_BANG") \o Written(e.expr, Whole)
              [] e.node = "N_NEG_EXPR" -> T("T_MINUS") \o Written(e.expr, Whole)
              [] e.node = "N_IDENT" -> Name(e.name)
              [] e.node = "N_LITERAL" -> LiteralToken(e)
              [] e.node = "N_NIL" -> T("T_NIL")
              [] e.node = "N_CALL_EXPR" ->
                    Name(e.func_name) \o T("T_LPAREN")
                    \o Separated(sub(Whole), T("T_COMMA")) \o T("T_RPAREN")
              [] e.node = "N_STRUCT_ACCESS_EXPR" ->
                    Name(e.name) \o T("T_DOT") \o Name(e.member_name)
              [] e.node = "N_ARRAY_INIT_EXPR" ->
                    T("T_LBRACE") \o Separated(sub(Whole), T("T_COMMA")) \o T("T_RBRACE")
              [] e.node = "N_ARRAY_ACCESS_EXPR" ->
                    Name(e.name) \o FlattenSeq([i \in DOMAIN e.expressions |->
                        T("T_LBRACKET") \o sub(Whole)[i] \o T("T_RBRACKET")])
              [] e.node = "N_ASSIGN_EXPR" ->
                    Written(e.lhs, Primary) \o T("T_ASSIGN") \o Written(e.rhs, Whole)
                    \o T("T_SEMICOLON")
    IN  IF own < level THEN T("T_LPAREN") \o written \o T("T_RPAREN") ELSE written

\* A literal no token stands for: the value of a declaration without one.
IsDefault(e) == e.node = "N_LITERAL" /\ e.value = NULL

RECURSIVE WrittenStatement(_)

\* The tokens of a statement.  The "end" after a block belongs to the statement around it.
WrittenStatement(n) ==
    LET block(b) == T("T_THEN")
                    \o FlattenSeq([i \in DOMAIN b.statements |-> WrittenStatement(b.statements[i])])
        formal(f) == TypeTokens(f) \o Name(f.name)
        member(m) == T(Keyword(m.type)) \o Name(m.name) \o T("T_SEMICOLON")
        test == T("T_LPAREN") \o Written(n.test, Whole) \o T("T_RPAREN")
    IN  CASE n.node = "N_BLOCK_STMT" -> block(n)
          [] n.node = "N_VAR_DECL" ->
                TypeTokens(n) \o Name(n.name) \o
                (IF n.value = NULL \/ IsDefault(n.value) THEN << >>
                 ELSE T("T_ASSIGN") \o Written(n.value, Whole)) \o T("T_SEMICOLON")
          [] n.node = "N_FUNC_DECL" ->
                T("T_FUNC") \o Name(n.name) \o T("T_LPAREN")
                \o Separated([i \in DOMAIN n.formals |-> formal(n.formals[i])], T("T_COMMA"))
                \o T("T_RPAREN") \o T("T_OFTYPE") \o TypeTokens(n) \o block(n.body) \o T("T_END")
          [] n.node = "N_STRUCT_DECL" ->
                T("T_STRUCT") \o Name(n.name) \o T("T_THEN")
                \o FlattenSeq([i \in DOMAIN n.members |-> member(n.members[i])]) \o T("T_END")
          [] n.node = "N_WHILE_STMT" -> T("T_WHILE") \o test \o block(n.body) \o T("T_END")
          [] n.node = "N_IF_STMT" ->
                T("T_IF") \o test \o block(n.body)
                \o (IF n.else_stmt = NULL THEN << >> ELSE T("T_ELSE") \o block(n.else_stmt))
                \o T("T_END")
          [] n.node = "N_RETURN_STMT" ->
                T("T_RETURN") \o (IF n.expr = NULL THEN << >> ELSE Written(n.expr, Whole))
                \o T("T_SEMICOLON")
          [] n.node = "N_LABEL_DECL" -> Name(n.name) \o T("T_COLON")
          [] n.node = "N_GOTO_STMT" -> T("T_GOTO") \o Name(n.label) \o T("T_SEMICOLON")
          [] n.node = "N_ASSIGN_EXPR" -> Written(n, Whole)
          [] OTHER -> Written(n, Whole) \o T("T_SEMICOLON")

WrittenProgram(tree) ==
    FlattenSeq([i \in DOMAIN tree.statements |-> WrittenStatement(tree.statements[i])])
=============================================================================
