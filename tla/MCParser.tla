------------------------------ MODULE MCParser ------------------------------
(* Constants of the programs TLC parses. *)
EXTENDS Grammar

\* Nodes.
Ident(name) == mk_node("N_IDENT", <<name>>)
Literal(type, value) == mk_node("N_LITERAL", <<type, value>>)
One == Literal("D_INTEGER", "1")
Binop(l, op, r) == mk_node("N_BINOP_EXPR", <<l, op, r>>)
Neg(e) == mk_node("N_NEG_EXPR", <<e>>)
Negation(e) == mk_node("N_NOT_EXPR", <<e>>)
CallOf(f, args) == mk_node("N_CALL_EXPR", <<f, args>>)
Access(name, member) == mk_node("N_STRUCT_ACCESS_EXPR", <<name, member>>)
Element(name, es) == mk_node("N_ARRAY_ACCESS_EXPR", <<name, es>>)
ArrayInit(es) == mk_node("N_ARRAY_INIT_EXPR", <<es>>)
Assign(l, r) == mk_node("N_ASSIGN_EXPR", <<l, r>>)
Block(ss) == mk_node("N_BLOCK_STMT", <<ss>>)
Var(type, name, value) == mk_node("N_VAR_DECL", <<type, "", name, value>>)
StructVar(s, name) == mk_node("N_VAR_DECL", <<"D_STRUCT", s, name, NULL>>)
Formal(type, name) == mk_node("N_FORMAL", <<type, "", name>>)
StructFormal(s, name) == mk_node("N_FORMAL", <<"D_STRUCT", s, name>>)
Func(name, formals_, type, ss) == mk_node("N_FUNC_DECL", <<name, formals_, type, "", Block(ss)>>)
Member(type, name) == mk_node("N_MEMBER_DECL", <<type, name>>)
Struct(name, ms) == mk_node("N_STRUCT_DECL", <<name, ms>>)
While(test, ss) == mk_node("N_WHILE_STMT", <<test, Block(ss)>>)
IfThen(test, ss) == mk_node("N_IF_STMT", <<test, Block(ss), NULL>>)
IfElse(test, ss, es) == mk_node("N_IF_STMT", <<test, Block(ss), Block(es)>>)
Ret(e) == mk_node("N_RETURN_STMT", <<e>>)
Label(name) == mk_node("N_LABEL_DECL", <<name>>)
Goto(name) == mk_node("N_GOTO_STMT", <<name>>)
Prog(ss) == mk_node("N_PROGRAM", <<ss>>)

\* Expressions of up to two operators, at every level of precedence.
Atoms == {Ident("a"), One}
Joined(ls, rs) == {Binop(l, op, r) : l \in ls, op \in {"T_AND", "T_EQ", "T_PLUS", "T_MUL"},
                                     r \in rs}
Prefixed(es) == {Neg(e) : e \in es} \cup {Negation(e) : e \in es}
Small == Atoms \cup Joined({Ident("a")}, {One}) \cup Prefixed({Ident("a")})
Medium == Joined(Small, Small) \cup Prefixed(Small \cup Joined(Prefixed(Atoms), {One}))

\* The other kinds of expression.
Others == {CallOf("f", << >>), CallOf("f", <<One>>),
           CallOf("f", <<Ident("a"), Binop(One, "T_PLUS", One), CallOf("g", << >>)>>),
           Access("a", "b"), Element("a", <<One>>),
           Element("a", <<Binop(Ident("a"), "T_MINUS", One), Element("b", <<One>>)>>),
           Literal("D_STRING", ":="), Literal("D_BOOLEAN", "true"), Literal("D_FLOAT", "1.5"),
           mk_node("N_NIL", << >>), ArrayInit(<< >>), ArrayInit(<<One, Ident("a")>>),
           ArrayInit(<<ArrayInit(<<One>>), ArrayInit(<<Neg(One), CallOf("f", <<One>>)>>)>>)}

Set(target, e) == Assign(target, e)
a == Ident("a")

\* Statements, and blocks of them.
Simple == {Var("D_FLOAT", "a", DefaultValue("D_FLOAT")), Var("D_STRING", "a", DefaultValue("D_STRING")),
           StructVar("s", "a"), Struct("s", <<Member("D_INTEGER", "b")>>),
           Struct("s", <<Member("D_INTEGER", "b"), Member("D_STRING", "c")>>),
           Set(Access("a", "b"), Access("a", "c")), Set(Element("a", <<One, a>>), One),
           CallOf("f", <<a>>), Label("a"), Goto("a"), Ret(NULL), Ret(Neg(One))}

Compound(ss) ==
    {Func("f", << >>, "D_VOID", ss),
     Func("f", <<Formal("D_INTEGER", "a"), StructFormal("s", "b"), Formal("D_BOOLEAN", "c")>>,
          "D_INTEGER", ss),
     While(Binop(a, "T_LT", One), ss), IfThen(CallOf("f", <<a>>), ss),
     IfElse(a, ss, <<Ret(One)>>), IfElse(a, <<Label("b")>>, ss)}

Bodies == {<<s>> : s \in Simple} \cup {<< >>, <<Label("a"), Set(a, One)>>}
Nested == UNION {Compound(ss) : ss \in Bodies}
Deep == UNION {Compound(<<s, Goto("a")>>) : s \in Compound(<<Ret(One)>>)}

MCTrees ==
    {Prog(<<Set(a, e)>>) : e \in Small \cup Medium \cup Others}
    \cup {Prog(<<s, Goto("b")>>) : s \in Simple \cup Nested \cup Deep}
    \cup {Prog(<<s, t>>) : s, t \in Compound(<<Ret(a)>>)}

\* Programs that are cut, doubled or changed at one token.
Samples == {WrittenProgram(Prog(ss)) : ss \in
    {<<IfElse(Binop(a, "T_EQ", One), <<Set(a, One)>>, <<Goto("a")>>)>>,
     <<Func("f", <<Formal("D_INTEGER", "a"), StructFormal("s", "b")>>, "D_VOID", <<Ret(NULL)>>)>>,
     <<Struct("s", <<Member("D_INTEGER", "b")>>), StructVar("s", "a"), Set(Access("a", "b"), One)>>,
     <<Var("D_INTEGER", "a", ArrayInit(<<One, a>>)), Set(Element("a", <<One, One>>), Neg(a))>>,
     <<Label("a"), While(Negation(a), <<CallOf("f", <<a, One>>)>>)>>,
     <<Var("D_STRING", "a", Binop(Binop(a, "T_AND", One), "T_MUL", Access("a", "b")))>>}}

AnyToken == {T(type)[1] : type \in DOMAIN Spelling \ {"T_DIV", "T_MOD", "T_LT", "T_GT", "T_LE",
                "T_GE", "T_NE", "T_OR", "T_TO", "T_FALSE", "T_BOOL", "T_STRING", "T_FLOAT"}}
            \cup {Name("a")[1], [type |-> "L_INTEGER", literal |-> "1"],
                  [type |-> "L_STR", literal |-> ":="]}

Changed(list) ==
    {RemoveAt(list, i) : i \in DOMAIN list}
    \cup {InsertAt(list, i, list[i]) : i \in DOMAIN list}
    \cup {SubSeq(list, 1, i) : i \in DOMAIN list}
    \cup {ReplaceAt(list, i, token) : i \in DOMAIN list, token \in AnyToken}

\* All programs of up to two tokens, and longer ones of the tokens of expressions.
Short == BoundedSeq(AnyToken, 2)
         \cup {<<Name("a")[1]>> \o s : s \in [1 .. 3 -> {t \in AnyToken :
                  t.type \in {"T_IDENT", "T_LBRACKET", "T_RBRACKET", "T_DOT", "T_ASSIGN",
                              "T_LPAREN", "T_RPAREN", "L_STR", "T_SEMICOLON", "T_PLUS"}}]}

MCPrograms == {Text[tree] : tree \in MCTrees} \cup UNION {Changed(s) : s \in Samples} \cup Short
=============================================================================
