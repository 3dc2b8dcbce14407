------------------------------ MODULE Compiler ------------------------------
(***************************************************************************)
(* main.c: one file goes through lex(), parse(), print_ast(), t_list_free()    *)
(* and typecheck(), in this order, and each hands its result to the next.      *)
(*                                                                          *)
(* The steps of lex() are those of Lexer, which appends to the list of          *)
(* TokenList; those of parse() are of Parser, whose cursor is a pointer into    *)
(* that list; and typecheck() takes the steps of TypeChecker, told by the       *)
(* statements of the tree.  This is the debug build: print_ast() is left out    *)
(* of others.                                                               *)
(***************************************************************************)
EXTENDS SyntaxTree, Integers

CONSTANTS
    Letters, Digits, Strangers, Keywords, Texts,  \* of Lexer
    GARBAGE,                                      \* of Parser
    Names, Hash, MAX_SLOTS, Builtins, MaxScopes,  \* of TypeChecker
    Exprs                                         \* and the expressions of the programs

VARIABLES
    phase,                                        \* where main() is
    prog_buff, char_num, c, line_num, lexed, lexing,
    heap,                                         \* the list of tokens
    tokens, cursor, calls, built, wild, parsing,
    toks,                                         \* the cell of the lookahead
    unprinted,                                    \* the nodes print_node is still to visit
    lst,                                          \* the pointer of t_list_free
    scopes, frames, idx, checking,
    todo                                          \* for each open block, the statements left

lexer == <<prog_buff, char_num, c, line_num, lexed, lexing>>
parser == <<tokens, cursor, calls, built, wild, parsing, toks>>
typechecker == <<scopes, frames, idx, checking, todo>>
vars == <<phase, lexer, heap, parser, unprinted, lst, typechecker>>

\* NULL is no address of a cell, and not the value of an unassigned variable.
ASSUME CompilerAssumption == NULL \notin Nat /\ NULL # GARBAGE

TL == INSTANCE TokenList
L == INSTANCE Lexer WITH tokens <- lexed, status <- lexing
P == INSTANCE Parser WITH status <- parsing, Programs <- {}
TC == INSTANCE TypeChecker
        WITH status <- checking, VarDecls <- {}, FuncDecls <- {}, StructDecls <- {}

-----------------------------------------------------------------------------
(* lex *)

\* The list after the tokens of a pass, of which there are two at most.
Emitted(new) ==
    LET count == Len(new) - Len(lexed)
        once == TL!t_list_append(heap, new[Len(lexed) + 1])
    IN  CASE count = 0 -> heap
          [] count = 1 -> once
          [] count = 2 -> TL!t_list_append(once, new[Len(lexed) + 2])

lex ==
    /\ phase = "lex"
    /\ L!tokenize
    /\ heap' = Emitted(lexed')
    /\ phase' = IF lexing' \in {"running", "done"} THEN "lex" ELSE "ended"
    /\ UNCHANGED <<parser, unprinted, lst, typechecker>>

-----------------------------------------------------------------------------
(* parse *)

\* A literal is an array of characters to the lexer, a string to what follows.
AsString(literal) ==
    LET joined[i \in 0 .. Len(literal)] ==
            IF i = 0 THEN "" ELSE joined[i - 1] \o literal[i]
    IN  joined[Len(literal)]

\* parse() finds HEAD and consumes it.
StartParser ==
    /\ phase = "lex"
    /\ lexing = "done"
    /\ phase' = "parse"
    /\ tokens' = [i \in DOMAIN lexed |->
                    [type |-> lexed[i].type, literal |-> AsString(lexed[i].literal)]]
    /\ toks' = TL!t_list_next(heap, TL!HEAD)
    /\ cursor' = 1
    /\ calls' = <<P!Call("parse")>>
    /\ UNCHANGED <<lexer, heap, built, wild, parsing, unprinted, lst, typechecker>>

\* consume() and backup() move toks with the lookahead.
parse ==
    /\ phase = "parse"
    /\ P!Step
    /\ toks' = CASE cursor' > cursor -> TL!t_list_next(heap, toks)
                 [] cursor' < cursor -> TL!t_list_prev(heap, toks)
                 [] cursor' = cursor -> toks
    /\ phase' = IF parsing' \in {"running", "done"} THEN "parse" ELSE "ended"
    /\ UNCHANGED <<lexer, heap, unprinted, lst, typechecker>>

program == P!program

\* What is left of a block, and the else statement after it.
Remaining(block, else_stmt) == [statements |-> block.statements, else_stmt |-> else_stmt]

-----------------------------------------------------------------------------
(* print_ast *)

StartPrinter ==
    /\ phase = "parse"
    /\ parsing = "done"
    /\ phase' = "print"
    /\ unprinted' = <<program>>
    /\ UNCHANGED <<lexer, heap, parser, lst, typechecker>>

\* A node that is NULL ends the process.
print_node ==
    /\ phase = "print"
    /\ unprinted # << >>
    /\ LET n == Head(unprinted)
       IN  IF n = NULL THEN phase' = "ended" /\ UNCHANGED unprinted
           ELSE unprinted' = Children(n) \o Tail(unprinted) /\ UNCHANGED phase
    /\ UNCHANGED <<lexer, heap, parser, lst, typechecker>>

-----------------------------------------------------------------------------
(* t_list_free *)

StartFree ==
    /\ phase = "print"
    /\ unprinted = << >>
    /\ phase' = "seek"
    /\ lst' = TL!HEAD
    /\ UNCHANGED <<lexer, heap, parser, unprinted, typechecker>>

\* Mutated: the loop stops before the last cell.
SeekEnd_Early ==
    /\ phase = "seek"
    /\ IF heap[heap[lst].next].next # NULL THEN lst' = heap[lst].next /\ UNCHANGED phase
       ELSE phase' = "free" /\ UNCHANGED lst
    /\ UNCHANGED <<lexer, heap, parser, unprinted, typechecker>>

SeekEnd ==
    /\ phase = "seek"
    /\ IF heap[lst].next # NULL THEN lst' = heap[lst].next /\ UNCHANGED phase
       ELSE phase' = "free" /\ UNCHANGED lst
    /\ UNCHANGED <<lexer, heap, parser, unprinted, typechecker>>

FreeNext ==
    /\ phase = "free"
    /\ heap[lst].prev # NULL
    /\ lst' = heap[lst].prev
    /\ heap' = LET next == heap[lst'].next
               IN  TL!free_cell(TL!free_token(heap, next), next)
    /\ UNCHANGED <<phase, lexer, parser, unprinted, typechecker>>

\* The token of HEAD is left.  typecheck() then allocates the global scope.
FreeHead ==
    /\ phase = "free"
    /\ heap[lst].prev = NULL
    /\ heap' = TL!free_cell(heap, lst)
    /\ phase' = "typecheck"
    /\ scopes' = <<TC!symtab_new("")>>
    /\ todo' = <<Remaining(program, NULL)>>
    /\ UNCHANGED <<lexer, parser, unprinted, lst, frames, idx, checking>>

-----------------------------------------------------------------------------
(* typecheck *)

\* A step of TypeChecker.
Check(step) ==
    /\ phase = "typecheck"
    /\ step
    /\ phase' = IF checking' = "running" THEN "typecheck" ELSE "ended"
    /\ UNCHANGED <<lexer, heap, parser, unprinted, lst>>

MakeBuiltin == Check(TC!MakeBuiltin) /\ UNCHANGED todo

\* A member_decl_t has no struct_type.
Member(m) == [name |-> m.name, type |-> m.type, struct_type |-> ""]

Structure(n) == [name |-> n.name, members |-> [i \in DOMAIN n.members |-> Member(n.members[i])]]

\* The step for a statement.
Visit(n) ==
    CASE n.node = "N_VAR_DECL" -> TC!VarDecl(n)
      [] n.node = "N_FUNC_DECL" -> TC!FuncDecl(n)
      [] n.node = "N_STRUCT_DECL" -> TC!StructDecl(Structure(n))
      [] n.node = "N_IF_STMT" -> TC!IfStmt(n.test)
      [] n.node = "N_WHILE_STMT" -> TC!WhileStmt(n.test)
      [] n.node = "N_RETURN_STMT" -> TC!ReturnStmt(n.expr)
      [] n.node \in {"N_LABEL_DECL", "N_GOTO_STMT"} -> TC!LabelOrGoto
      [] OTHER -> TC!ExprStmt(n)

NoBlock == [statements |-> << >>, else_stmt |-> NULL]

\* The blocks a statement opens.
Opened(n) ==
    CASE n.node \in {"N_FUNC_DECL", "N_WHILE_STMT"} -> <<Remaining(n.body, NULL)>>
      [] n.node = "N_IF_STMT" -> <<Remaining(n.body, n.else_stmt)>>
      [] n.node = "N_STRUCT_DECL" -> <<NoBlock>>
      [] OTHER -> << >>

here == Head(todo)

\* Mutated: the loop over the statements does not move on.
AfterThis_Stays == here

\* What is left when the statement at hand has been visited.
AfterThis == [here EXCEPT !.statements = Tail(@)]

VisitStatement ==
    /\ phase = "typecheck"
    /\ here.statements # << >>
    /\ Head(here.statements).node # "N_BLOCK_STMT"
    /\ LET n == Head(here.statements)
       IN  /\ Check(Visit(n))
           /\ todo' = Opened(n) \o <<AfterThis>> \o Tail(todo)

\* A block inside a block opens no scope.
VisitBlock ==
    /\ phase = "typecheck"
    /\ TC!AtStatement
    /\ here.statements # << >>
    /\ LET n == Head(here.statements)
       IN  /\ n.node = "N_BLOCK_STMT"
           /\ todo' = <<[here EXCEPT !.statements = n.statements \o Tail(@)]>> \o Tail(todo)
    /\ UNCHANGED <<phase, lexer, heap, parser, unprinted, lst, scopes, frames, idx, checking>>

VisitParam == Check(TC!Formal \/ TC!MemberDecl) /\ UNCHANGED todo

\* Mutated: the else statement is typechecked in the scope of the body.
VisitElse_OneScope ==
    /\ phase = "typecheck"
    /\ here.statements = << >>
    /\ here.else_stmt # NULL
    /\ TC!AtStatement
    /\ todo' = <<Remaining(here.else_stmt, NULL)>> \o Tail(todo)
    /\ UNCHANGED <<phase, lexer, heap, parser, unprinted, lst, scopes, frames, idx, checking>>

\* The body of an if statement is over, and its else statement is next.
VisitElse ==
    /\ phase = "typecheck"
    /\ here.statements = << >>
    /\ here.else_stmt # NULL
    /\ Check(TC!ElseStmt)
    /\ todo' = <<Remaining(here.else_stmt, NULL)>> \o Tail(todo)

\* A block is over, and what is left of the one around it is next.
LeaveBlock ==
    /\ phase = "typecheck"
    /\ here.statements = << >>
    /\ here.else_stmt = NULL
    /\ IF Len(todo) > 1 THEN Check(TC!LeaveScope) /\ todo' = Tail(todo)
       ELSE Check(TC!EndOfProgram) /\ UNCHANGED todo

-----------------------------------------------------------------------------
(* The process *)

Init ==
    /\ phase = "lex"
    /\ L!Init
    /\ heap = TL!t_list_new
    /\ tokens = << >> /\ cursor = 0 /\ calls = << >> /\ built = << >>
    /\ wild = FALSE /\ parsing = "running" /\ toks = NULL
    /\ unprinted = << >>
    /\ lst = NULL
    /\ scopes = << >> /\ frames = << >> /\ idx = 1 /\ checking = "running"
    /\ todo = << >>

Step ==
    \/ lex \/ StartParser \/ parse \/ StartPrinter \/ print_node
    \/ StartFree \/ SeekEnd \/ FreeNext \/ FreeHead
    \/ MakeBuiltin \/ VisitStatement \/ VisitBlock \/ VisitParam
    \/ VisitElse \/ LeaveBlock

Ended == phase = "ended" /\ UNCHANGED vars

Next == Step \/ Ended

\* One process, that nothing waits for: WF_vars(Step) with its ENABLED written out.
\* Every step changes something, and one is enabled until the process has ended.
Fairness == []<>(phase = "ended") \/ []<><<Step>>_vars

Spec == Init /\ [][Next]_vars /\ Fairness

-----------------------------------------------------------------------------
(* Properties *)

\* The list reads the same in both directions, which the walk of the parser and
\* that of t_list_free rely on: its cells, in the order of their allocation, hold
\* the tokens that were emitted, and the cell of the lookahead is that of the cursor.
ListHoldsTokens ==
    phase \in {"lex", "parse", "print"} =>
       /\ [i \in DOMAIN lexed |-> heap[i + 1].tok] = lexed
       /\ \A i \in DOMAIN heap :
             /\ heap[i].prev = IF i = TL!HEAD THEN NULL ELSE i - 1
             /\ heap[i].next = IF i = Len(heap) THEN NULL ELSE i + 1
       /\ phase = "parse" => toks = cursor + 1

\* t_list_free frees every cell and every token but that of HEAD, which leaks, and
\* goes to no cell that is freed.
ListIsFreed ==
    /\ phase \in {"seek", "free"} => heap[lst].allocated
    /\ phase = "typecheck" =>
          \A i \in DOMAIN heap : ~heap[i].allocated /\ (heap[i].tok_allocated <=> i = TL!HEAD)

\* The parser is at a struct without a name where a statement is to begin:
\* parse_statement makes no node, consumes nothing and leaves more set.
AtUnnamedStruct ==
    /\ phase = "parse"
    /\ parsing = "running"
    /\ P!lookahead.type = "T_STRUCT"
    /\ P!peek.type # "T_IDENT"

\* A compilation ends, unless parse_statements asks for ever for the statement that
\* begins with an unnamed struct: no other loop of main(), from the characters over the
\* list, walked one way and freed the other, to the statements, goes on for ever.
EndsOrAsksForName == <>(phase = "ended") \/ <>[]AtUnnamedStruct
=============================================================================
