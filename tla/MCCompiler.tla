----------------------------- MODULE MCCompiler -----------------------------
(* Constants of the files TLC compiles. *)
EXTENDS Acceptance, Notation

MCLetters == {"a", "b", "c", "d", "e", "f", "g", "h", "i", "k", "l", "m", "n", "o", "p", "q",
              "r", "s", "t", "u", "v", "w", "x", "y"}
MCDigits == {"1", "2", "5"}
MCStrangers == {"_", "#"}

Characters(string) == [i \in 1 .. Len(string) |-> SubSeq(string, i, i)]

KeywordTypes == {"T_FUNC", "T_FOR", "T_WHILE", "T_TO", "T_END", "T_STRUCT", "T_TRUE", "T_FALSE",
                 "T_NIL", "T_INT", "T_BOOL", "T_STRING", "T_FLOAT", "T_VOID", "T_GOTO", "T_IF",
                 "T_THEN", "T_ELSE", "T_RETURN", "T_AND", "T_OR"}

MCKeywords ==
    [word \in {Characters(Spelling[type]) : type \in KeywordTypes} |->
        CHOOSE type \in KeywordTypes : Characters(Spelling[type]) = word]

MCBuiltins == <<[name |-> "print", type |-> "D_STRING"],
                [name |-> "println", type |-> "D_STRING"],
                [name |-> "printint", type |-> "D_INTEGER"],
                [name |-> "printfloat", type |-> "D_FLOAT"]>>

\* The low bits of ht_hash_FNV_1a.
MCHash == [name \in {"", "input", "print", "println", "printint", "printfloat",
                     "f", "x", "y", "s"} |->
    CASE name = "" -> 453 [] name = "input" -> 891
      [] name = "print" -> 648 [] name = "println" -> 166
      [] name = "printint" -> 1001 [] name = "printfloat" -> 242
      [] name = "f" -> 921 [] name = "x" -> 135 [] name = "y" -> 756 [] name = "s" -> 386]
MCNames == DOMAIN MCHash

\* Nodes.
Ident(name) == mk_node("N_IDENT", <<name>>)
Number(value) == mk_node("N_LITERAL", <<"D_INTEGER", value>>)
Text(value) == mk_node("N_LITERAL", <<"D_STRING", value>>)
Binop(l, op, r) == mk_node("N_BINOP_EXPR", <<l, op, r>>)
CallOf(f, args) == mk_node("N_CALL_EXPR", <<f, args>>)
Set(l, r) == mk_node("N_ASSIGN_EXPR", <<l, r>>)
Block(ss) == mk_node("N_BLOCK_STMT", <<ss>>)
Var(type, struct_type, name, value) == mk_node("N_VAR_DECL", <<type, struct_type, name, value>>)
Func(name, formals, type, ss) ==
    mk_node("N_FUNC_DECL", <<name, formals, type, "", Block(ss)>>)
Formal(type, name) == mk_node("N_FORMAL", <<type, "", name>>)
Ret(e) == mk_node("N_RETURN_STMT", <<e>>)

x == Ident("x")
member == mk_node("N_STRUCT_ACCESS_EXPR", <<"y", "x">>)

Test == {Binop(x, "T_EQ", CallOf("f", <<x>>)), mk_node("N_NOT_EXPR", <<Binop(x, "T_LT", Number("2"))>>)}

\* Statements that give f, x, y and s their meanings, and use them.
Declarations ==
    {Var("D_INTEGER", "", "x", Number("1")), Var("D_STRING", "", "x", mk_node("N_LITERAL", <<"D_STRING", NULL>>)),
     Var("D_FLOAT", "", "y", mk_node("N_LITERAL", <<"D_INTEGER", NULL>>)), Var("D_STRUCT", "s", "y", NULL),
     Func("f", <<Formal("D_INTEGER", "x")>>, "D_INTEGER", <<Ret(x)>>),
     Func("f", <<Formal("D_STRING", "x"), Formal("D_INTEGER", "y")>>, "D_VOID",
          <<mk_node("N_IF_STMT", <<Binop(x, "T_EQ", Text("x y")), Block(<<Ret(NULL)>>),
                                   Block(<<Set(Ident("y"), Number("2"))>>)>>)>>),
     mk_node("N_STRUCT_DECL", <<"s", <<mk_node("N_MEMBER_DECL", <<"D_INTEGER", "x">>)>>>>)}

\* A loop that declares nothing and needs no declaration.
Loop == mk_node("N_WHILE_STMT", <<Binop(Number("1"), "T_EQ", Number("2")), Block(<< >>)>>)

Uses ==
    {Set(x, CallOf("f", <<Number("1")>>)), Set(member, x), CallOf("println", <<x>>),
     CallOf("f", <<Text("q"), Binop(x, "T_PLUS", mk_node("N_LITERAL", <<"D_FLOAT", "1.5">>))>>),
     mk_node("N_WHILE_STMT", <<Binop(x, "T_EQ", CallOf("f", <<x>>)), Block(<<Var("D_INTEGER", "", "y", x)>>)>>),
     mk_node("N_IF_STMT", <<mk_node("N_NOT_EXPR", <<Binop(x, "T_LT", Number("2"))>>),
                            Block(<<Var("D_INTEGER", "", "f", mk_node("N_NIL", << >>))>>),
                            Block(<<Var("D_INTEGER", "", "f", x), Set(x, Ident("f"))>>)>>),
     Block(<<Var("D_INTEGER", "", "s", mk_node("N_NEG_EXPR", <<x>>))>>), Loop,
     Ret(Number("1")), mk_node("N_GOTO_STMT", <<"x">>)}

Statements == Declarations \cup Uses
Basic == {d \in Declarations : d.node = "N_STRUCT_DECL" \/ d.type \in {"D_INTEGER", "D_STRUCT"}}

\* Structures whose type is a variable's or a function's name, or nothing's.
Misnamed == {Var("D_STRUCT", type, "y", NULL) : type \in {"x", "f", "s"}}

MCTrees ==
    {mk_node("N_PROGRAM", <<ss>>) : ss \in
        {<<Loop>>} \cup {<<d, s>> : d \in Declarations, s \in Statements}
        \cup {<<d, e, u>> : d, e \in Basic, u \in Uses}
        \cup {<<d, y, Set(member, x)>> : d \in Declarations, y \in Misnamed}}

RECURSIVE Expressions(_)

\* The expressions in a tree.
Expressions(n) ==
    (IF n.node \in {"N_IDENT", "N_LITERAL", "N_NIL", "N_BINOP_EXPR", "N_CALL_EXPR", "N_ASSIGN_EXPR",
                    "N_NOT_EXPR", "N_NEG_EXPR", "N_STRUCT_ACCESS_EXPR"} THEN {n} ELSE {})
    \cup UNION {Expressions(Children(n)[i]) : i \in DOMAIN Children(n)}

MCExprs == UNION {Expressions(s) : s \in Statements}

\* The text of a token and the blank after it, and of a list of tokens, with the names
\* Lexer has for the characters that are not shown.
Spelt(token) ==
    LET text == Characters(token.literal)
    IN  (IF token.type = "L_STR" THEN <<"QUOTE">> \o text \o <<"QUOTE">> ELSE text) \o <<"SPACE">>

TextOf(list) == Append(FlattenSeq([i \in DOMAIN list |-> Spelt(list[i])]), "NL")

\* A file that is cut short anywhere, and one with a character no token has.
Cut(text) == {SubSeq(text, 1, i) : i \in DOMAIN text}
Sample == mk_node("N_PROGRAM", <<<<Func("f", <<Formal("D_INTEGER", "x")>>, "D_INTEGER",
             <<mk_node("N_IF_STMT", <<x, Block(<<Ret(x)>>), NULL>>)>>)>>>>)

\* A program with the name after struct left out: a declaration of a structure, which
\* is asked for again and again, and of a variable, which is refused.
Unnamed(list) == {RemoveAt(list, i + 1) : i \in {j \in DOMAIN list : list[j].type = "T_STRUCT"}}

MCTexts ==
    {TextOf(list) : list \in {WrittenProgram(tree) : tree \in MCTrees}}
    \cup UNION {Cut(TextOf(list)) : list \in {WrittenProgram(Sample)}}
    \cup {TextOf(list) : list \in UNION {Unnamed(WrittenProgram(mk_node("N_PROGRAM", <<<<d, s>>>>))) :
                                         d \in Basic, s \in Declarations}}
    \cup {<<"x", "SPACE", "#">>}
=============================================================================
