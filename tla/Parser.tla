------------------------------- MODULE Parser -------------------------------
(***************************************************************************)
(* parser.c: the recursive descent over the list of tokens.                 *)
(*                                                                          *)
(* Each parse_... function is an action, which replaces the call of the       *)
(* function by what it does: a sequence of steps, made of calls of other      *)
(* functions and of the operations below (reading a token, making a node).    *)
(* calls holds the steps still to be done, the next one first: it is the C    *)
(* stack.  built holds the values of the local variables, the latest last: a   *)
(* call leaves the value the function returns there.                         *)
(*                                                                          *)
(* The list of tokens is a sequence without its HEAD, and toks an index of    *)
(* it.  The loops of the functions are calls of their own (arguments, formals, *)
(* members, elements, indexes, dimensions).                                  *)
(***************************************************************************)
EXTENDS SyntaxTree

CONSTANTS
    Programs,  \* the lists of tokens, without the T_EOF at their end
    GARBAGE    \* a pointer that was never assigned

VARIABLES
    tokens,  \* the list, ended by T_EOF
    cursor,  \* toks, the index of the lookahead
    calls,   \* the steps to be done
    built,   \* the values at hand
    wild,    \* whether a function has returned an unassigned variable
    status   \* running, done, or how the process ended

vars == <<tokens, cursor, calls, built, wild, status>>

PrimitiveTypes == {"T_INT", "T_BOOL", "T_STRING", "T_FLOAT"}
LiteralTypes == {"L_INTEGER", "L_FLOAT", "L_STR", "T_TRUE", "T_FALSE"}
Comparisons == {"T_EQ", "T_NE", "T_GT", "T_GE", "T_LT", "T_LE"}
TokenTypes == PrimitiveTypes \cup LiteralTypes \cup Comparisons \cup
    {"T_LPAREN", "T_RPAREN", "T_LBRACKET", "T_RBRACKET", "T_LBRACE", "T_RBRACE",
     "T_ASSIGN", "T_COLON", "T_SEMICOLON", "T_COMMA", "T_DOT", "T_PLUS", "T_MINUS",
     "T_MUL", "T_DIV", "T_MOD", "T_OFTYPE", "T_BANG", "T_AND", "T_OR", "T_FUNC",
     "T_FOR", "T_WHILE", "T_TO", "T_END", "T_STRUCT", "T_NIL", "T_VOID", "T_GOTO",
     "T_IF", "T_THEN", "T_ELSE", "T_RETURN", "T_IDENT", "T_EOF"}

\* A token as far as the parser reads it; line and column only occur in messages.
Token == [type : TokenTypes, literal : STRING]

\* tokenize() ends the list with its only T_EOF.
ASSUME ParserAssumption ==
    /\ Programs \subseteq Seq(Token)
    /\ \A program \in Programs : \A i \in DOMAIN program : program[i].type # "T_EOF"
    /\ NULL # GARBAGE

-----------------------------------------------------------------------------
(* Steps *)

Call(f) == [step |-> "call", to |-> f]

\* The lookahead is to have one of these types, and is consumed.
Expect(types) == [step |-> "expect", types |-> types]

\* The same, and what it says is kept; Note does not consume it.
Take(types, what) == [step |-> "take", types |-> types, what |-> what]
Note(types, what) == [step |-> "note", types |-> types, what |-> what]

Consume == [step |-> "consume"]
Backup == [step |-> "backup"]

\* A test of the type of the lookahead, or of the token after it.
If(types, yes, no) == [step |-> "if", types |-> types, yes |-> yes, no |-> no]
IfNext(types, yes, no) == [step |-> "peek", types |-> types, yes |-> yes, no |-> no]

\* A value at hand is a node, a word (a name, a type, an operator) or a vector.
Word(word) == [word |-> word]
EmptyVector == [vector |-> << >>]

Push(value) == [step |-> "push", value |-> value]
Unassigned == [step |-> "unassigned"]

\* A node of the latest n values.
Make(type, n) == [step |-> "make", type |-> type, n |-> n]

\* The same for N_BINOP_EXPR, which refuses NULL for an operand.
MakeBinop == [step |-> "binop"]

\* The latest value goes to the end of the vector before it; checked if NULL is
\* refused.
AddNode(checked) == [step |-> "add", checked |-> checked]

\* What parse_statements does with the statement.
AddStatement == [step |-> "statement"]

-----------------------------------------------------------------------------
(* Reading tokens *)

lookahead == tokens[cursor]

\* Only called where the lookahead is not the last token.
peek == tokens[cursor + 1]

At(kind) == status = "running" /\ calls # << >> /\ Head(calls).step = kind
Called(f) == At("call") /\ Head(calls).to = f

\* The next step is replaced by these.
Run(steps) ==
    /\ calls' = steps \o Tail(calls)
    /\ UNCHANGED <<tokens, cursor, built, wild, status>>

Enters(f, steps) == Called(f) /\ Run(steps)

Stop(outcome) ==
    /\ status' = outcome
    /\ UNCHANGED <<tokens, cursor, calls, built, wild>>

\* The next step is done, with these values at hand.
Done(values) ==
    /\ calls' = Tail(calls)
    /\ built' = values
    /\ UNCHANGED <<tokens, wild, status>>

\* Mutated: no look at the end of the list.
Advance_NoEnd(values) == cursor' = cursor + 1 /\ Done(values)

\* consume(), after which get_token refuses the end of the list.
Advance(values) ==
    IF cursor = Len(tokens) THEN Stop("log_error")
    ELSE cursor' = cursor + 1 /\ Done(values)

-----------------------------------------------------------------------------
(* Steps that read tokens *)

\* The literal parse_var_decl makes for a declaration without a value, which no
\* token spells.  Only that of a string has its type set; the others have the 0
\* of memset, D_INTEGER.
DefaultValue(type) ==
    IF type = "D_STRUCT" THEN NULL
    ELSE mk_node("N_LITERAL", <<IF type = "D_STRING" THEN "D_STRING" ELSE "D_INTEGER", NULL>>)

LiteralType(type) ==
    CASE type = "L_INTEGER" -> "D_INTEGER"
      [] type = "L_FLOAT" -> "D_FLOAT"
      [] type = "L_STR" -> "D_STRING"
      [] type \in {"T_TRUE", "T_FALSE"} -> "D_BOOLEAN"

\* What the lookahead says.  The type of a declaration was kept before the name
\* of its structure and its own.
Said(what) ==
    CASE what = "name" -> Word(lookahead.literal)
      [] what = "type" -> Word(keyword_to_type(lookahead.type))
      [] what = "operator" -> Word(lookahead.type)
      [] what = "literal" ->
            mk_node("N_LITERAL", <<LiteralType(lookahead.type), lookahead.literal>>)
      [] what = "default" -> DefaultValue(built[Len(built) - 2].word)

Reading(kind) == At(kind) /\ lookahead.type \in Head(calls).types

ReadExpected == Reading("expect") /\ Advance(built)

ReadTaken == Reading("take") /\ Advance(Append(built, Said(Head(calls).what)))

ReadNoted ==
    /\ Reading("note")
    /\ Done(Append(built, Said(Head(calls).what)))
    /\ UNCHANGED cursor

syntax_error ==
    /\ At("expect") \/ At("take") \/ At("note")
    /\ lookahead.type \notin Head(calls).types
    /\ Stop("syntax_error")

consume == At("consume") /\ Advance(built)

backup ==
    /\ At("backup")
    /\ cursor' = cursor - 1
    /\ Done(built)

Choose(token) ==
    Run(IF token.type \in Head(calls).types THEN Head(calls).yes ELSE Head(calls).no)

Decide == At("if") /\ Choose(lookahead)
DecideNext == At("peek") /\ Choose(peek)

-----------------------------------------------------------------------------
(* Steps that make nodes *)

KeepValue ==
    /\ At("push")
    /\ Done(Append(built, Head(calls).value))
    /\ UNCHANGED cursor

\* An uninitialized variable is NULL or anything else.
KeepUnassigned ==
    /\ At("unassigned")
    /\ \E value \in {NULL, GARBAGE} : built' = Append(built, value)
    /\ wild' = TRUE
    /\ calls' = Tail(calls)
    /\ UNCHANGED <<tokens, cursor, status>>

\* The values at hand with the latest n replaced by value.
Replace(n, value) == Append(SubSeq(built, 1, Len(built) - n), value)

\* What a field of a node gets from a value at hand.
Field(value) ==
    IF value \in {NULL, GARBAGE} THEN value
    ELSE IF "word" \in DOMAIN value THEN value.word
    ELSE IF "vector" \in DOMAIN value THEN value.vector
    ELSE value

Node(type, n) ==
    mk_node(type, [i \in 1 .. n |-> Field(built[Len(built) - n + i])])

MakeNode ==
    /\ At("make")
    /\ LET n == Head(calls).n
       IN  Done(Replace(n, Node(Head(calls).type, n)))
    /\ UNCHANGED cursor

MakeBinopNode ==
    /\ At("binop")
    /\ IF built[Len(built) - 2] = NULL \/ Last(built) = NULL THEN Stop("log_error")
       ELSE Done(Replace(3, Node("N_BINOP_EXPR", 3))) /\ UNCHANGED cursor

\* The latest value goes into the vector before it.
WithNode == Replace(2, [vector |-> Append(built[Len(built) - 1].vector, Last(built))])

vector_add ==
    /\ At("add")
    /\ IF Head(calls).checked /\ Last(built) = NULL THEN Stop("log_error")
       ELSE Done(WithNode) /\ UNCHANGED cursor

-----------------------------------------------------------------------------
(* Programs and statements *)

parse ==
    /\ Called("parse")
    /\ IF lookahead.type = "T_EOF" THEN Stop("log_error")
       ELSE Run(<<Call("parse_statements"), Make("N_PROGRAM", 1)>>)

parse_statements ==
    Enters("parse_statements", <<Push(EmptyVector), Call("parse_statement"), AddStatement>>)


\* The statement is NULL after ";" and where struct is not followed by a name.
\* debug() reads the node type of any other.
AddNoStatement ==
    /\ At("statement")
    /\ Last(built) = NULL
    /\ calls' = <<Call("parse_statement")>> \o calls
    /\ built' = Front(built)
    /\ UNCHANGED <<tokens, cursor, wild, status>>

AddNewStatement ==
    /\ At("statement")
    /\ Last(built) # NULL
    /\ calls' = IF lookahead.type = "T_EOF" THEN Tail(calls)
                ELSE <<Call("parse_statement")>> \o calls
    /\ built' = WithNode
    /\ UNCHANGED <<tokens, cursor, wild, status>>

AddGarbage == At("statement") /\ Last(built) = GARBAGE /\ Stop("crash")

\* The function for a statement, where its first token tells.
StatementOf == [type \in PrimitiveTypes \cup {"T_THEN", "T_WHILE", "T_IF", "T_FUNC",
        "T_GOTO", "T_RETURN", "L_INTEGER", "L_FLOAT", "T_LPAREN"} |->
    CASE type \in PrimitiveTypes -> "parse_var_decl"
      [] type = "T_THEN" -> "parse_block_stmt"
      [] type = "T_WHILE" -> "parse_while_stmt"
      [] type = "T_IF" -> "parse_if_stmt"
      [] type = "T_FUNC" -> "parse_function_decl"
      [] type = "T_GOTO" -> "parse_goto_stmt"
      [] type = "T_RETURN" -> "parse_return_stmt"
      [] type \in {"L_INTEGER", "L_FLOAT", "T_LPAREN"} -> "parse_expression"]

\* The literals after an identifier that begins an expression.  Strings have
\* literals too.
ExpressionMarks == {":=", "(", "and", "or", "+", "-", "*", "/", "%", ">", "<", ">=",
                    "<=", "==", "!=", ".", "["}

IdentStatement ==
    /\ lookahead.type = "T_IDENT"
    /\ IF peek.literal \in ExpressionMarks THEN Run(<<Call("parse_expression")>>)
       ELSE IF peek.literal = ":" THEN Run(<<Call("parse_label_decl")>>)
       ELSE Stop("log_error")

\* Mutated: the token after the name is looked at and the name not given back.
StructStatement_NoBackup ==
    /\ lookahead.type = "T_STRUCT"
    /\ IF peek.type = "T_IDENT"
       THEN Run(<<Consume, IfNext({"T_IDENT"},
                     <<Call("parse_var_decl")>>,
                     <<IfNext({"T_THEN"}, <<Backup, Call("parse_struct_decl")>>,
                                          <<Expect({})>>)>>)>>)
       ELSE Run(<<Push(NULL)>>)

StructStatement ==
    /\ lookahead.type = "T_STRUCT"
    /\ IF peek.type = "T_IDENT"
       THEN Run(<<Consume, IfNext({"T_IDENT"},
                     <<Backup, Call("parse_var_decl")>>,
                     <<IfNext({"T_THEN"}, <<Backup, Call("parse_struct_decl")>>,
                                          <<Expect({})>>)>>)>>)
       ELSE Run(<<Push(NULL)>>)

\* Mutated: the semicolon stays.
EmptyStatement_Stays == lookahead.type = "T_SEMICOLON" /\ Run(<<Push(NULL)>>)

EmptyStatement == lookahead.type = "T_SEMICOLON" /\ Run(<<Consume, Push(NULL)>>)

\* *more = false ends the loop of parse_statements.
NoStatement ==
    /\ lookahead.type \notin DOMAIN StatementOf
                      \cup {"T_FOR", "T_IDENT", "T_STRUCT", "T_SEMICOLON"}
    /\ calls' = Tail(Tail(calls))
    /\ UNCHANGED <<tokens, cursor, built, wild, status>>

parse_statement ==
    /\ Called("parse_statement")
    /\ \/ /\ lookahead.type \in DOMAIN StatementOf
          /\ Run(<<Call(StatementOf[lookahead.type])>>)
       \/ lookahead.type = "T_FOR" /\ Stop("abort")  \* assert in parse_for_stmt
       \/ IdentStatement
       \/ StructStatement
       \/ EmptyStatement
       \/ NoStatement

parse_block_stmt ==
    Enters("parse_block_stmt",
           <<Expect({"T_THEN"}), Call("parse_statements"), Make("N_BLOCK_STMT", 1)>>)

parse_while_stmt ==
    Enters("parse_while_stmt",
           <<Expect({"T_WHILE"}), Expect({"T_LPAREN"}), Call("parse_expression"),
             Expect({"T_RPAREN"}), Call("parse_block_stmt"), Expect({"T_END"}),
             Make("N_WHILE_STMT", 2)>>)

parse_if_stmt ==
    Enters("parse_if_stmt",
           <<Expect({"T_IF"}), Expect({"T_LPAREN"}), Call("parse_expression"),
             Expect({"T_RPAREN"}), Call("parse_block_stmt"),
             If({"T_END"}, <<Push(NULL), Consume>>,
                <<Expect({"T_ELSE"}), Call("parse_block_stmt"), Expect({"T_END"})>>),
             Make("N_IF_STMT", 3)>>)

parse_return_stmt ==
    Enters("parse_return_stmt",
           <<Expect({"T_RETURN"}),
             If({"T_SEMICOLON"}, <<Push(NULL)>>, <<Call("parse_expression")>>),
             Expect({"T_SEMICOLON"}), Make("N_RETURN_STMT", 1)>>)

parse_label_decl ==
    Enters("parse_label_decl",
           <<Take({"T_IDENT"}, "name"), Expect({"T_COLON"}), Make("N_LABEL_DECL", 1)>>)

parse_goto_stmt ==
    Enters("parse_goto_stmt",
           <<Expect({"T_GOTO"}), Take({"T_IDENT"}, "name"), Expect({"T_SEMICOLON"}),
             Make("N_GOTO_STMT", 1)>>)

-----------------------------------------------------------------------------
(* Declarations *)

\* The brackets after a type, and the loop over those that follow.
dimensions ==
    Enters("dimensions",
           <<If({"T_LBRACKET"},
                <<Consume, Expect({"T_RBRACKET"}), Call("dimensions")>>, << >>)>>)

\* The type of a declaration: struct and any token, or a keyword.
Typed(keywords) ==
    If({"T_STRUCT"}, <<Consume, Push(Word("D_STRUCT")), Take(TokenTypes, "name")>>,
                     <<Take(keywords, "type"), Push(Word(""))>>)

\* The types the default value is chosen by are those parse_statement lets in.
parse_var_decl ==
    Enters("parse_var_decl",
           <<Typed(TokenTypes), Call("dimensions"), Take({"T_IDENT"}, "name"),
             If({"T_ASSIGN"}, <<Consume, Call("parse_expression")>>,
                              <<Note({"T_SEMICOLON"}, "default")>>),
             Expect({"T_SEMICOLON"}), Make("N_VAR_DECL", 4)>>)

\* Mutated: the name of a formal may be any token.
OneFormal_AnyName(more) ==
    <<Consume, Typed(PrimitiveTypes), Call("dimensions"), Note(TokenTypes, "name"),
      Make("N_FORMAL", 3), AddNode(FALSE),
      IfNext({"T_RPAREN"}, <<Consume>>,
             <<IfNext({"T_COMMA"}, <<Consume, Call("formals")>>, more)>>)>>

\* A formal; more is what follows when there is neither ")" nor ",".  The name is
\* not consumed before the next formal or by parse_function_decl.
OneFormal(more) ==
    <<Consume, Typed(PrimitiveTypes), Call("dimensions"), Note({"T_IDENT"}, "name"),
      Make("N_FORMAL", 3), AddNode(FALSE),
      IfNext({"T_RPAREN"}, <<Consume>>,
             <<IfNext({"T_COMMA"}, <<Consume, Call("formals")>>, more)>>)>>

parse_formals == Enters("parse_formals", <<Push(EmptyVector)>> \o OneFormal(<< >>))
formals == Enters("formals", OneFormal(<<Call("formals")>>))

parse_function_decl ==
    Enters("parse_function_decl",
           <<Expect({"T_FUNC"}), Take({"T_IDENT"}, "name"),
             If({"T_LPAREN"},
                <<IfNext({"T_RPAREN"}, <<Consume, Consume, Push(EmptyVector)>>,
                                       <<Call("parse_formals"), Consume>>)>>,
                <<Expect({"T_LPAREN"})>>),
             Expect({"T_OFTYPE"}),
             If({"T_STRUCT"}, <<Consume, Push(Word("D_STRUCT")), Take({"T_IDENT"}, "name")>>,
                <<Take(PrimitiveTypes \cup {"T_VOID"}, "type"), Push(Word(""))>>),
             Call("dimensions"), Call("parse_block_stmt"), Expect({"T_END"}),
             Make("N_FUNC_DECL", 5)>>)

parse_member_decl ==
    Enters("parse_member_decl",
           <<Take(PrimitiveTypes, "type"), Take({"T_IDENT"}, "name"),
             Expect({"T_SEMICOLON"}), Make("N_MEMBER_DECL", 2)>>)

members ==
    Enters("members", <<Call("parse_member_decl"), AddNode(TRUE),
                        If({"T_END"}, << >>, <<Call("members")>>)>>)

parse_struct_decl ==
    Enters("parse_struct_decl",
           <<Expect({"T_STRUCT"}), Take({"T_IDENT"}, "name"), Expect({"T_THEN"}),
             Push(EmptyVector), Call("members"), Expect({"T_END"}), Make("N_STRUCT_DECL", 2)>>)

-----------------------------------------------------------------------------
(* Expressions *)

parse_expression ==
    /\ Called("parse_expression")
    /\ LET type == lookahead.type
       IN  \/ /\ type \in LiteralTypes \cup
                         {"T_IDENT", "T_LPAREN", "T_BANG", "T_MINUS", "T_NIL"}
              /\ Run(<<Call("parse_and_expr")>>)
           \/ type = "T_ASSIGN" /\ Run(<<Call("parse_assign_expr")>>)
           \/ type = "T_LBRACE" /\ Run(<<Call("parse_array_init_expr")>>)
           \/ /\ type \notin LiteralTypes \cup {"T_IDENT", "T_LPAREN", "T_BANG",
                                "T_MINUS", "T_NIL", "T_ASSIGN", "T_LBRACE"}
              /\ Stop("log_error")

\* One operand, or two around one of the operators.
Operands(operand, operators) ==
    <<Call(operand),
      If(operators, <<Take(operators, "operator"), Call(operand), MakeBinop>>, << >>)>>

parse_and_expr ==
    Enters("parse_and_expr", Operands("parse_not_expr", {"T_AND", "T_OR"}))

\* Mutated: the operand of "-" is returned as it is.
parse_not_expr_NoNode ==
    Enters("parse_not_expr",
           <<If({"T_BANG"}, <<Consume, Call("parse_expression"), Make("N_NOT_EXPR", 1)>>,
             <<If({"T_MINUS"}, <<Consume, Call("parse_expression")>>,
               <<Call("parse_compare_expr")>>)>>)>>)

\* The operand of "!" and "-" is all of the expression that follows.
parse_not_expr ==
    Enters("parse_not_expr",
           <<If({"T_BANG"}, <<Consume, Call("parse_expression"), Make("N_NOT_EXPR", 1)>>,
             <<If({"T_MINUS"}, <<Consume, Call("parse_expression"), Make("N_NEG_EXPR", 1)>>,
               <<Call("parse_compare_expr")>>)>>)>>)

parse_compare_expr ==
    Enters("parse_compare_expr", Operands("parse_add_expr", Comparisons))

\* Mutated: the operands of a sum are primary expressions.
parse_add_expr_Primary ==
    Enters("parse_add_expr", Operands("parse_primary_expr", {"T_PLUS", "T_MINUS"}))

parse_add_expr ==
    Enters("parse_add_expr", Operands("parse_mult_expr", {"T_PLUS", "T_MINUS"}))

parse_mult_expr ==
    Enters("parse_mult_expr", Operands("parse_primary_expr", {"T_MUL", "T_DIV", "T_MOD"}))

\* The index of the token after the brackets that begin at i, each ended by the
\* first "]" after it; 0 if the list ends before.
AfterBrackets[i \in DOMAIN tokens] ==
    LET closing == {j \in i .. Len(tokens) : tokens[j].type = "T_RBRACKET"}
        next == 1 + CHOOSE j \in closing : \A k \in closing : j <= k
    IN  IF closing = {} THEN 0
        ELSE IF tokens[next].type = "T_LBRACKET" THEN AfterBrackets[next]
        ELSE next

\* After an identifier: "." needs a third and a fourth token to tell, "[" all
\* tokens up to the last bracket.  The identifier before a "." without a name
\* is consumed and nothing returned.
IdentPrimary ==
    LET after == AfterBrackets[cursor + 1]
    IN  \/ peek.type = "T_LPAREN" /\ Run(<<Call("parse_call_expr")>>)
        \/ /\ peek.type = "T_DOT"
           /\ Run(<<Consume, IfNext({"T_IDENT"},
                     <<Consume, IfNext({"T_ASSIGN"},
                          <<Backup, Backup, Call("parse_assign_expr")>>,
                          <<Backup, Backup, Call("parse_struct_access_expr")>>)>>,
                     <<Unassigned>>)>>)
        \/ /\ peek.type = "T_LBRACKET"
           /\ IF after = 0 THEN Stop("log_error")
              ELSE IF tokens[after].type = "T_ASSIGN" THEN Run(<<Call("parse_assign_expr")>>)
              ELSE Run(<<Call("parse_array_access_expr")>>)
        \/ peek.type = "T_ASSIGN" /\ Run(<<Call("parse_assign_expr")>>)
        \/ /\ peek.type \notin {"T_LPAREN", "T_DOT", "T_LBRACKET", "T_ASSIGN"}
           /\ Run(<<Note({"T_IDENT"}, "name"), Make("N_IDENT", 1), Consume>>)

\* What ends a parenthesis is consumed unseen, as is what begins no expression.
parse_primary_expr ==
    /\ Called("parse_primary_expr")
    /\ \/ lookahead.type \in LiteralTypes /\ Run(<<Take(LiteralTypes, "literal")>>)
       \/ lookahead.type = "T_NIL" /\ Run(<<Make("N_NIL", 0), Consume>>)
       \/ lookahead.type = "T_IDENT" /\ IdentPrimary
       \/ lookahead.type = "T_LPAREN" /\ Run(<<Consume, Call("parse_expression"), Consume>>)
       \/ /\ lookahead.type \notin LiteralTypes \cup {"T_NIL", "T_IDENT", "T_LPAREN"}
          /\ Run(<<Unassigned, Consume>>)

\* What stands before ":=".
Target ==
    CASE peek.type = "T_DOT" -> <<Call("parse_struct_access_expr")>>
      [] peek.type = "T_LBRACKET" -> <<Call("parse_array_access_expr")>>
      [] OTHER -> <<Take({"T_IDENT"}, "name"), Make("N_IDENT", 1)>>

parse_assign_expr ==
    /\ Called("parse_assign_expr")
    /\ IF lookahead.type = "T_IDENT"
       THEN Run(Target \o <<Expect({"T_ASSIGN"}), Call("parse_expression"),
                            Expect({"T_SEMICOLON"}), Make("N_ASSIGN_EXPR", 2)>>)
       ELSE Stop("syntax_error")

parse_call_expr ==
    Enters("parse_call_expr",
           <<Take({"T_IDENT"}, "name"), Expect({"T_LPAREN"}), Push(EmptyVector),
             If({"T_RPAREN"}, << >>, <<Call("arguments")>>),
             Expect({"T_RPAREN"}), Make("N_CALL_EXPR", 2)>>)

\* The loop of parse_arg_list; the commas may be missing.
arguments ==
    Enters("arguments",
           <<Call("parse_expression"), AddNode(TRUE),
             If({"T_RPAREN"}, << >>,
                <<If({"T_COMMA"}, <<Consume>>, << >>), Call("arguments")>>)>>)

parse_struct_access_expr ==
    Enters("parse_struct_access_expr",
           <<Take({"T_IDENT"}, "name"), Expect({"T_DOT"}), Take({"T_IDENT"}, "name"),
             Make("N_STRUCT_ACCESS_EXPR", 2)>>)

\* An element; more is what follows when there is neither "," nor "}": the loop
\* goes on if there was a comma before.
OneElement(more) ==
    <<Call("parse_expression"), AddNode(FALSE),
      If({"T_COMMA"}, <<Consume, Call("elements")>>,
         <<If({"T_RBRACE"}, <<Consume>>, more)>>)>>

elements == Enters("elements", OneElement(<<Call("elements")>>))

parse_array_init_expr ==
    Enters("parse_array_init_expr",
           <<Expect({"T_LBRACE"}), Push(EmptyVector),
             If({"T_RBRACE"}, <<Consume>>, OneElement(<< >>)),
             Make("N_ARRAY_INIT_EXPR", 1)>>)

indexes ==
    Enters("indexes",
           <<Expect({"T_LBRACKET"}), Call("parse_expression"), AddNode(FALSE),
             Expect({"T_RBRACKET"}), If({"T_LBRACKET"}, <<Call("indexes")>>, << >>)>>)

parse_array_access_expr ==
    Enters("parse_array_access_expr",
           <<Take({"T_IDENT"}, "name"), Push(EmptyVector), Call("indexes"),
             Make("N_ARRAY_ACCESS_EXPR", 2)>>)

-----------------------------------------------------------------------------
(* The process *)

Init ==
    /\ tokens \in {Append(program, [type |-> "T_EOF", literal |-> "EOF"]) :
                       program \in Programs}
    /\ cursor = 1
    /\ calls = <<Call("parse")>>
    /\ built = << >>
    /\ wild = FALSE
    /\ status = "running"

Statements ==
    \/ parse \/ parse_statements \/ parse_statement \/ parse_block_stmt
    \/ parse_while_stmt \/ parse_if_stmt \/ parse_return_stmt \/ parse_label_decl
    \/ parse_goto_stmt

Declarations ==
    \/ parse_var_decl \/ parse_function_decl \/ parse_formals \/ formals
    \/ parse_struct_decl \/ members \/ parse_member_decl \/ dimensions

Expressions ==
    \/ parse_expression \/ parse_and_expr \/ parse_not_expr \/ parse_compare_expr
    \/ parse_add_expr \/ parse_mult_expr \/ parse_primary_expr \/ parse_assign_expr
    \/ parse_call_expr \/ arguments \/ parse_struct_access_expr
    \/ parse_array_init_expr \/ elements \/ parse_array_access_expr \/ indexes

Operations ==
    \/ ReadExpected \/ ReadTaken \/ ReadNoted \/ syntax_error \/ consume \/ backup
    \/ Decide \/ DecideNext \/ KeepValue \/ KeepUnassigned \/ MakeNode
    \/ MakeBinopNode \/ vector_add \/ AddNoStatement \/ AddNewStatement \/ AddGarbage

\* parse() returns the tree to main().
Return ==
    /\ status = "running"
    /\ calls = << >>
    /\ status' = "done"
    /\ UNCHANGED <<tokens, cursor, calls, built, wild>>

Step == Statements \/ Declarations \/ Expressions \/ Operations \/ Return

Ended == status # "running" /\ UNCHANGED vars

Next == Step \/ Ended

\* Nothing but the parser runs.
Spec == Init /\ [][Next]_vars /\ WF_vars(Step)

-----------------------------------------------------------------------------
(* Properties *)

program == Last(built)

\* Every function leaves the one node it returns, and parse() the program.
TypeOK ==
    /\ cursor \in DOMAIN tokens
    /\ wild \in BOOLEAN
    /\ status \in {"running", "done", "syntax_error", "log_error", "abort", "crash"}
    /\ status = "done" => Len(built) = 1 /\ program.node = "N_PROGRAM"

\* peek() loads the token after the lookahead without a look at the end of the list: it is
\* only called after tests, some of them several steps before, that leave one to load.
PeekIsThere == At("peek") => cursor < Len(tokens)

\* The lookahead and what follows it have these types.
Follows(types) ==
    /\ cursor + Len(types) - 1 <= Len(tokens)
    /\ \A i \in DOMAIN types : tokens[cursor + i - 1].type \in types[i]

\* A function chosen by more than one token begins at the first of the tokens it was
\* chosen by: consume() and backup() come in pairs on every path of the LL(2) and
\* "lookahead 3" regions of parse_statement and parse_primary_expr.
PredictionsHold ==
    At("call") =>
       LET f == Head(calls).to
       IN  /\ f = "parse_call_expr" => Follows(<<{"T_IDENT"}, {"T_LPAREN"}>>)
           /\ f = "parse_struct_access_expr" =>
                 Follows(<<{"T_IDENT"}, {"T_DOT"}, {"T_IDENT"}>>)
           /\ f = "parse_array_access_expr" => Follows(<<{"T_IDENT"}, {"T_LBRACKET"}>>)
           /\ f = "parse_assign_expr" =>
                 \/ Follows(<<{"T_IDENT"}, {"T_ASSIGN", "T_LBRACKET"}>>)
                 \/ Follows(<<{"T_IDENT"}, {"T_DOT"}, {"T_IDENT"}, {"T_ASSIGN"}>>)
                 \/ Follows(<<{"T_ASSIGN"}>>)
           /\ f = "parse_struct_decl" =>
                 Follows(<<{"T_STRUCT"}, {"T_IDENT"}, {"T_THEN"}>>)
           /\ f = "parse_var_decl" =>
                 \/ Follows(<<PrimitiveTypes>>)
                 \/ Follows(<<{"T_STRUCT"}, {"T_IDENT"}, {"T_IDENT"}>>)

\* struct is always followed by a name.
StructsNamed ==
    \A i \in DOMAIN tokens : tokens[i].type = "T_STRUCT" => tokens[i + 1].type = "T_IDENT"

\* Every program is parsed, or refused, in the end: each turn of a loop and each
\* recursion consumes a token.  The exception is struct without a name, where
\* parse_statements asks for the same statement again and again.
Terminates == StructsNamed => <>(status # "running")

\* The precedence rules in the comment above parse_and_expr, "lowest to highest: && ||
\* ! == != > >= < <= ...": without parentheses, the operand of "!" is no "and" or "or"
\* expression.
NotBindsTighter ==
    /\ At("make")
    /\ Head(calls).type = "N_NOT_EXPR"
    /\ Last(built) \notin {NULL, GARBAGE}
    /\ Last(built).node = "N_BINOP_EXPR"
    /\ \A i \in DOMAIN tokens : tokens[i].type # "T_LPAREN"
    => Last(built).operator \notin {"T_AND", "T_OR"}
=============================================================================
