--------------------------- MODULE Compiler_proofs ---------------------------
(***************************************************************************)
(* Theorems about the life of the token list, for every file: the lexer        *)
(* appends to it, the parser walks it both ways, t_list_free takes it apart.   *)
(* The list is shown to be a function of the tokens that were emitted and of    *)
(* how much of it is freed; that the parser's pointer stays in it rests on the  *)
(* invariant of Parser_proofs.                                              *)
(***************************************************************************)
EXTENDS Compiler, Basics_proofs

PP == INSTANCE Parser_proofs WITH status <- parsing, Programs <- {}

-----------------------------------------------------------------------------
(* The list of some tokens *)

\* The cell at i of the list of these tokens; allocated tells which are not freed.
CellOf(list, i, allocated) ==
    [tok |-> IF i = TL!HEAD THEN TL!t_list_new[1].tok ELSE list[i - 1],
     prev |-> IF i = TL!HEAD THEN NULL ELSE i - 1,
     next |-> IF i = Len(list) + 1 THEN NULL ELSE i + 1,
     allocated |-> allocated, tok_allocated |-> allocated]

\* The list, freed behind the cell at last.
ListUpTo(list, last) == [i \in 1 .. Len(list) + 1 |-> CellOf(list, i, i <= last)]

Whole(list) == ListUpTo(list, Len(list) + 1)

\* An empty list is HEAD alone.
LEMMA NewIsWhole ==
    TL!t_list_new = Whole(<< >>)
  <1>1. Len(<< >>) + 1 = 1
    OBVIOUS
  <1>2. Whole(<< >>) = [i \in {1} |-> CellOf(<< >>, 1, TRUE)]
    <2>1. Whole(<< >>) = [i \in {1} |-> CellOf(<< >>, i, i <= 1)]
      <3>1. 1 .. 1 = {1}
        OBVIOUS
      <3> QED
        BY <1>1, <3>1 DEF Whole, ListUpTo
    <2>2. (1 <= 1) = TRUE
      OBVIOUS
    <2> QED
      BY <2>1, <2>2
  <1>3. TL!t_list_new = [i \in {1} |-> TL!t_list_new[1]]
    BY DEF TL!t_list_new
  <1>4. TL!t_list_new[1] = CellOf(<< >>, 1, TRUE)
    BY <1>1 DEF TL!t_list_new, TL!Cell, CellOf, TL!HEAD
  <1> QED
    BY <1>2, <1>3, <1>4

\* The walk along next ends at the last cell.
LEMMA EndOfWhole ==
    ASSUME NEW list, IsList(list)
    PROVE  TL!End(Whole(list)) = Len(list) + 1
  <1>1. PICK n : n = Len(list) /\ n \in Nat
    BY DEF IsList
  <1>2. DOMAIN Whole(list) = 1 .. n + 1
    BY <1>1 DEF Whole, ListUpTo
  <1>3. \A i \in 1 .. n + 1 : Whole(list)[i].next = IF i = n + 1 THEN NULL ELSE i + 1
    BY <1>1 DEF Whole, ListUpTo, CellOf
  <1>4. \A i \in 1 .. n + 1 : Whole(list)[i].next = NULL <=> i = n + 1
    BY <1>1, <1>3, CompilerAssumption
  <1> DEFINE Last_(i) == i \in DOMAIN Whole(list) /\ Whole(list)[i].next = NULL
  <1>5. Last_(n + 1) /\ \A i : Last_(i) => i = n + 1
    BY <1>1, <1>2, <1>4
  <1>6. TL!End(Whole(list)) = CHOOSE i : Last_(i)
    BY DEF TL!End
  <1> HIDE DEF Last_
  <1> QED
    BY <1>1, <1>5, <1>6

\* Appending a token to the list of some gives the list of one more.
LEMMA AppendToWhole ==
    ASSUME NEW list, IsList(list), NEW token
    PROVE  /\ TL!t_list_append(Whole(list), token) = Whole(Append(list, token))
           /\ IsList(Append(list, token))
  <1>1. PICK n : n = Len(list) /\ n \in Nat
    BY DEF IsList
  <1>2. PICK S : list \in Seq(S) /\ token \in S
    <2>1. PICK S : S = {list[i] : i \in DOMAIN list} \cup {token}
      OBVIOUS
    <2> QED
      BY <2>1, SeqMonotonic DEF IsList
  <1>3. PICK more : more = Append(list, token)
    OBVIOUS
  <1>4. /\ more \in Seq(S) /\ Len(more) = n + 1
        /\ \A i \in 1 .. n : more[i] = list[i]
        /\ more[n + 1] = token
    BY <1>1, <1>2, <1>3
  <1>5. IsList(more)
    BY <1>4, ListOfSeq
  <1>6. PICK linked : linked = [Whole(list) EXCEPT ![n + 1].next = n + 2]
    OBVIOUS
  <1>7. linked = [i \in 1 .. n + 1 |-> CellOf(more, i, TRUE)]
    <2>1. \A i \in 1 .. n + 1 : (i <= n + 1) = TRUE
      BY <1>1
    <2>2. Whole(list) = [i \in 1 .. n + 1 |-> CellOf(list, i, TRUE)]
      BY <1>1, <2>1 DEF Whole, ListUpTo
    <2> DEFINE tok(l, i) == IF i = TL!HEAD THEN TL!t_list_new[1].tok ELSE l[i - 1]
               prev(i) == IF i = TL!HEAD THEN NULL ELSE i - 1
               next(l, i) == IF i = Len(l) + 1 THEN NULL ELSE i + 1
    <2>a. \A i \in 1 .. n + 1 : tok(list, i) = tok(more, i) /\ next(more, i) = i + 1
      BY <1>1, <1>4 DEF TL!HEAD
    <2>b. \A i \in 1 .. n : next(list, i) = i + 1
      BY <1>1
    <2>c. \A l, i : CellOf(l, i, TRUE) =
             [tok |-> tok(l, i), prev |-> prev(i),
              next |-> next(l, i), allocated |-> TRUE, tok_allocated |-> TRUE]
      BY DEF CellOf
    <2> HIDE DEF tok, prev, next
    <2>3. \A i \in 1 .. n : CellOf(list, i, TRUE) = CellOf(more, i, TRUE)
      <3> TAKE i \in 1 .. n
      <3>1. i \in 1 .. n + 1
        BY <1>1
      <3>2. tok(list, i) = tok(more, i) /\ next(list, i) = next(more, i)
        BY <3>1, <2>a, <2>b
      <3> QED
        BY <2>c, <3>2
    <2>4. [CellOf(list, n + 1, TRUE) EXCEPT !.next = n + 2] = CellOf(more, n + 1, TRUE)
      <3>1. tok(list, n + 1) = tok(more, n + 1) /\ next(more, n + 1) = n + 2
        BY <1>1, <2>a
      <3>2. PICK t, p, x : t = tok(more, n + 1) /\ p = prev(n + 1) /\ x = next(list, n + 1)
        OBVIOUS
      <3>3. CellOf(list, n + 1, TRUE) =
              [tok |-> t, prev |-> p, next |-> x, allocated |-> TRUE, tok_allocated |-> TRUE]
        BY <2>c, <3>1, <3>2
      <3>4. CellOf(more, n + 1, TRUE) =
              [tok |-> t, prev |-> p, next |-> n + 2, allocated |-> TRUE, tok_allocated |-> TRUE]
        BY <2>c, <3>1, <3>2
      <3>5. PICK b, cell : b = TRUE /\ cell = CellOf(list, n + 1, TRUE)
        OBVIOUS
      <3>6. cell = [tok |-> t, prev |-> p, next |-> x, allocated |-> b, tok_allocated |-> b]
        BY <3>3, <3>5
      <3>7. [cell EXCEPT !.next = n + 2] =
              [tok |-> t, prev |-> p, next |-> n + 2, allocated |-> b, tok_allocated |-> b]
        BY <3>6
      <3> QED
        BY <3>4, <3>5, <3>7
    <2>5. linked = [i \in 1 .. n + 1 |->
                      IF i = n + 1 THEN [CellOf(list, n + 1, TRUE) EXCEPT !.next = n + 2]
                      ELSE CellOf(list, i, TRUE)]
      BY <1>1, <1>6, <2>2
    <2> QED
      <3> DEFINE cell(l, i) == CellOf(l, i, TRUE)
                 last == [CellOf(list, n + 1, TRUE) EXCEPT !.next = n + 2]
      <3>1. \A i \in 1 .. n : cell(list, i) = cell(more, i)
        BY <2>3
      <3>2. last = cell(more, n + 1)
        BY <2>4
      <3>3. linked = [i \in 1 .. n + 1 |-> IF i = n + 1 THEN last ELSE cell(list, i)]
        BY <2>5
      <3> HIDE DEF cell, last
      <3>4. \A i \in 1 .. n + 1 : (IF i = n + 1 THEN last ELSE cell(list, i)) = cell(more, i)
        BY <1>1, <3>1, <3>2
      <3>5. linked = [i \in 1 .. n + 1 |-> cell(more, i)]
        BY <3>3, <3>4
      <3> QED
        BY <3>5 DEF cell
  <1>8. TL!Cell(token, n + 1) = CellOf(more, n + 2, TRUE)
    <2>1. n + 2 # 1 /\ n + 2 - 1 = n + 1 /\ Len(more) + 1 = n + 2
      BY <1>1, <1>4
    <2>2. PICK k : k = n + 2
      OBVIOUS
    <2>3. CellOf(more, k, TRUE) =
            [tok |-> more[k - 1], prev |-> k - 1, next |-> NULL,
             allocated |-> TRUE, tok_allocated |-> TRUE]
      BY <2>1, <2>2 DEF CellOf, TL!HEAD
    <2>4. k - 1 = n + 1 /\ more[n + 1] = token
      BY <1>4, <2>1, <2>2
    <2> QED
      BY <2>2, <2>3, <2>4 DEF TL!Cell
  <1>9. Append(linked, TL!Cell(token, n + 1)) = [i \in 1 .. n + 2 |-> CellOf(more, i, TRUE)]
    <2> DEFINE cell(i) == CellOf(more, i, TRUE)
    <2> HIDE DEF cell
    <2>1. PICK T : T = {cell(i) : i \in 1 .. n + 2}
      OBVIOUS
    <2>2. linked = [i \in 1 .. n + 1 |-> cell(i)] /\ TL!Cell(token, n + 1) = cell(n + 2)
      BY <1>7, <1>8 DEF cell
    <2>3. linked \in Seq(T) /\ Len(linked) = n + 1
      BY <1>1, <2>1, <2>2
    <2>4. Append(linked, cell(n + 2)) = [i \in 1 .. n + 2 |-> cell(i)]
      BY <1>1, <2>1, <2>2, <2>3
    <2> QED
      BY <2>2, <2>4 DEF cell
  <1>10. Whole(more) = [i \in 1 .. n + 2 |-> CellOf(more, i, TRUE)]
    <2>1. \A i \in 1 .. n + 2 : (i <= n + 2) = TRUE
      BY <1>1
    <2>2. Len(more) + 1 = n + 2
      BY <1>1, <1>4
    <2> QED
      BY <2>1, <2>2 DEF Whole, ListUpTo
  <1>11. TL!End(Whole(list)) = n + 1 /\ Len(Whole(list)) + 1 = n + 2
    <2>1. Len(Whole(list)) = n + 1
      BY <1>1 DEF Whole, ListUpTo
    <2> QED
      BY <1>1, <2>1, EndOfWhole
  <1> QED
    BY <1>3, <1>5, <1>6, <1>9, <1>10, <1>11 DEF TL!t_list_append

\* One or two elements at the end of a list, by themselves or one after the other.
LEMMA AppendIs ==
    ASSUME NEW list, IsList(list), NEW a, NEW b, NEW n, n = Len(list)
    PROVE  /\ list \o <<a>> = Append(list, a)
           /\ Len(Append(list, a)) = n + 1 /\ Append(list, a)[n + 1] = a
           /\ list \o <<a, b>> = Append(Append(list, a), b)
           /\ Len(Append(Append(list, a), b)) = n + 2
           /\ Append(Append(list, a), b)[n + 1] = a
           /\ Append(Append(list, a), b)[n + 2] = b
  <1>1. PICK S : S = {list[i] : i \in DOMAIN list} \cup {a, b}
    OBVIOUS
  <1>2. list \in Seq(S) /\ a \in S /\ b \in S /\ n \in Nat
    BY <1>1, SeqMonotonic DEF IsList
  <1> QED
    BY <1>2

-----------------------------------------------------------------------------
(* The lexer *)

\* What the next pass of tokenize() starts with reaches its end only by T_EOF.
LEMMA PassesEmit ==
    ASSUME IsList(lexed), L!tokenize
    PROVE  /\ lexing = "running"
           /\ \/ lexed' = lexed /\ lexing' # "done"
              \/ \E a : lexed' = lexed \o <<a>> /\ (lexing' = "done" => a.type = "T_EOF")
              \/ \E a, b : lexed' = lexed \o <<a, b>> /\ lexing' # "done"
  <1> DEFINE Emits == \/ lexed' = lexed /\ lexing' # "done"
                      \/ \E a : lexed' = lexed \o <<a>> /\ lexing' # "done"
                      \/ \E a, b : lexed' = lexed \o <<a, b>> /\ lexing' # "done"
  <1>1. ASSUME NEW outcome, L!Stop(outcome), outcome # "done" PROVE Emits
    BY <1>1 DEF L!Stop
  <1>2. lexed \o << >> = lexed
    BY DEF IsList
  <1>3. ASSUME lexing = "running", NEW i, NEW ch, NEW line, NEW e, L!GoOn(i, ch, line, e),
               e = << >> \/ (\E a : e = <<a>>) \/ \E a, b : e = <<a, b>>
        PROVE  Emits
    <2>1. L!Stop("overrun") \/ L!Stop("no_line") \/ (lexed' = lexed \o e /\ lexing' = lexing)
      BY <1>3 DEF L!GoOn
    <2> QED
      BY <1>1, <1>2, <1>3, <2>1
  <1>4. ASSUME lexing = "running", NEW i, NEW line, NEW e, L!Resume(i, line, e),
               e = << >> \/ (\E a : e = <<a>>) \/ \E a, b : e = <<a, b>>
        PROVE  Emits
    BY <1>3, <1>4 DEF L!Resume
  <1>5. \A i, line : lexing = "running" /\ L!Resume(i, line, << >>) => Emits
    BY <1>4
  <1>6. \A i, line, a : lexing = "running" /\ L!Resume(i, line, <<a>>) => Emits
    BY <1>4
  <1>7. \A i, line, a, b : lexing = "running" /\ L!Resume(i, line, <<a, b>>) => Emits
    BY <1>4
  <1>8. \A i : lexing = "running" /\ L!LexNumber(i) => Emits
    BY <1>1, <1>6 DEF L!LexNumber
  <1> HIDE DEF Emits
  <1>9. L!Blank \/ L!Single \/ L!Comment => lexing = "running" /\ Emits
    BY <1>5, <1>6 DEF L!Blank, L!Single, L!Comment, L!Reads
  <1>10. L!StringLiteral => lexing = "running" /\ Emits
    BY <1>6 DEF L!StringLiteral, L!Reads
  <1>11. L!Colon => lexing = "running" /\ Emits
    BY <1>5, <1>6 DEF L!Colon, L!Reads
  <1>12. L!Equals \/ L!Comparison => lexing = "running" /\ Emits
    BY <1>1, <1>6 DEF L!Equals, L!Comparison, L!Reads
  <1>13. L!Number \/ L!Minus => lexing = "running" /\ Emits
    BY <1>6, <1>8 DEF L!Number, L!Minus, L!Reads
  <1>14. L!Unknown => lexing = "running" /\ Emits
    BY <1>1 DEF L!Unknown, L!Reads
  <1>15. L!Word => lexing = "running" /\ Emits
    <2> SUFFICES ASSUME L!Word PROVE lexing = "running" /\ Emits
      OBVIOUS
    <2>1. lexing = "running"
      BY DEF L!Word, L!Reads
    <2>2. \/ L!Stop("overrun")
          \/ \E i, ch, line, e : /\ L!GoOn(i, ch, line, e)
                                 /\ (\E a : e = <<a>>) \/ \E a, b : e = <<a, b>>
      <3> DEFINE end == L!FirstOf(char_num + 1, {L!NL, L!SPACE} \cup L!Delimiters)
                 ending == prog_buff[end]
                 word == L!WordToken(SubSeq(prog_buff, char_num, end - 1))
                 e == CASE ending \in {L!NL, L!SPACE} -> <<word>>
                        [] ending = ":" -> <<word, L!Token("T_COLON", <<":">>)>>
                        [] OTHER -> <<word, L!Token(L!Singles[ending], <<ending>>)>>
                 line == IF ending = L!NL THEN line_num + 1 ELSE line_num
      <3>1. (\E a : e = <<a>>) \/ \E a, b : e = <<a, b>>
        OBVIOUS
      <3>2. \/ L!Stop("overrun") \/ L!GoOn(end, "=", line_num, <<word>>)
            \/ L!Resume(end + 1, line, e)
        BY DEF L!Word
      <3> HIDE DEF end, ending, word, e, line
      <3> QED
        BY <3>1, <3>2 DEF L!Resume
    <2> QED
      BY <1>1, <1>3, <2>1, <2>2
  <1>16. L!EndOfFile => lexing = "running" /\ \E a : lexed' = lexed \o <<a>> /\ a.type = "T_EOF"
    <2> SUFFICES ASSUME L!EndOfFile
                 PROVE  lexing = "running" /\ \E a : lexed' = lexed \o <<a>> /\ a.type = "T_EOF"
      OBVIOUS
    <2>1. PICK a : a = L!Token("T_EOF", <<"EOF">>)
      OBVIOUS
    <2>2. a.type = "T_EOF"
      BY <2>1 DEF L!Token
    <2>3. lexed' = Append(lexed, a)
      BY <2>1 DEF L!EndOfFile
    <2>4. Append(lexed, a) = lexed \o <<a>>
      <3>1. PICK S : S = {lexed[i] : i \in DOMAIN lexed} \cup {a}
        OBVIOUS
      <3>2. lexed \in Seq(S) /\ a \in S
        BY <3>1, SeqMonotonic DEF IsList
      <3> QED
        BY <3>2
    <2> QED
      BY <2>2, <2>3, <2>4 DEF L!EndOfFile, L!Reads
  <1> QED
    BY <1>9, <1>10, <1>11, <1>12, <1>13, <1>14, <1>15, <1>16 DEF L!tokenize, Emits

-----------------------------------------------------------------------------
(* The parser *)

\* What Parser_proofs assumes of the constants, here of an empty set of programs.
LEMMA NoPrograms ==
    /\ {} \subseteq Seq(PP!Token)
    /\ \A program_1 \in {} : \A i \in DOMAIN program_1 : program_1[i].type # "T_EOF"
    /\ NULL # GARBAGE
  BY CompilerAssumption

\* The parser of Compiler is that of Parser_proofs.
LEMMA SameParser ==
    ASSUME P!Step
    PROVE  PP!Step
  <1>1. P!Statements => PP!Statements
    BY DEF P!Statements, PP!Statements, P!parse, PP!parse, P!Called, PP!Called, P!At, PP!At,
       P!lookahead, PP!lookahead, P!Stop, PP!Stop, P!Run, PP!Run, P!Call, PP!Call, P!Make,
       PP!Make, P!parse_statements, PP!parse_statements, P!Enters, PP!Enters, P!Push, PP!Push,
       P!EmptyVector, PP!EmptyVector, P!AddStatement, PP!AddStatement, P!parse_statement,
       PP!parse_statement, P!StatementOf, PP!StatementOf, P!PrimitiveTypes, PP!PrimitiveTypes,
       P!IdentStatement, PP!IdentStatement, P!peek, PP!peek, P!ExpressionMarks,
       PP!ExpressionMarks, P!StructStatement, PP!StructStatement, P!Consume, PP!Consume, P!IfNext,
       PP!IfNext, P!Backup, PP!Backup, P!Expect, PP!Expect, P!EmptyStatement, PP!EmptyStatement,
       P!NoStatement, PP!NoStatement, P!parse_block_stmt, PP!parse_block_stmt, P!parse_while_stmt,
       PP!parse_while_stmt, P!parse_if_stmt, PP!parse_if_stmt, P!If, PP!If, P!parse_return_stmt,
       PP!parse_return_stmt, P!parse_label_decl, PP!parse_label_decl, P!Take, PP!Take,
       P!parse_goto_stmt, PP!parse_goto_stmt
  <1>2. P!Declarations => PP!Declarations
    BY DEF P!Declarations, PP!Declarations, P!parse_var_decl, PP!parse_var_decl, P!Enters,
       PP!Enters, P!Called, PP!Called, P!At, PP!At, P!Run, PP!Run, P!Typed, PP!Typed, P!If, PP!If,
       P!Consume, PP!Consume, P!Push, PP!Push, P!Word, PP!Word, P!Take, PP!Take, P!TokenTypes,
       PP!TokenTypes, P!PrimitiveTypes, PP!PrimitiveTypes, P!LiteralTypes, PP!LiteralTypes,
       P!Comparisons, PP!Comparisons, P!Call, PP!Call, P!Note, PP!Note, P!Expect, PP!Expect,
       P!Make, PP!Make, P!parse_function_decl, PP!parse_function_decl, P!IfNext, PP!IfNext,
       P!EmptyVector, PP!EmptyVector, P!parse_formals, PP!parse_formals, P!OneFormal,
       PP!OneFormal, P!AddNode, PP!AddNode, P!formals, PP!formals, P!parse_struct_decl,
       PP!parse_struct_decl, P!members, PP!members, P!parse_member_decl, PP!parse_member_decl,
       P!dimensions, PP!dimensions
  <1>3. P!Expressions => PP!Expressions
    BY DEF P!Expressions, PP!Expressions, P!parse_expression, PP!parse_expression, P!Called,
       PP!Called, P!At, PP!At, P!lookahead, PP!lookahead, P!LiteralTypes, PP!LiteralTypes, P!Run,
       PP!Run, P!Call, PP!Call, P!Stop, PP!Stop, P!parse_and_expr, PP!parse_and_expr, P!Enters,
       PP!Enters, P!Operands, PP!Operands, P!If, PP!If, P!Take, PP!Take, P!MakeBinop,
       PP!MakeBinop, P!parse_not_expr, PP!parse_not_expr, P!Consume, PP!Consume, P!Make, PP!Make,
       P!parse_compare_expr, PP!parse_compare_expr, P!Comparisons, PP!Comparisons,
       P!parse_add_expr, PP!parse_add_expr, P!parse_mult_expr, PP!parse_mult_expr,
       P!parse_primary_expr, PP!parse_primary_expr, P!IdentPrimary, PP!IdentPrimary,
       P!AfterBrackets, PP!AfterBrackets, P!peek, PP!peek, P!IfNext, PP!IfNext, P!Backup,
       PP!Backup, P!Unassigned, PP!Unassigned, P!Note, PP!Note, P!parse_assign_expr,
       PP!parse_assign_expr, P!Target, PP!Target, P!Expect, PP!Expect, P!parse_call_expr,
       PP!parse_call_expr, P!Push, PP!Push, P!EmptyVector, PP!EmptyVector, P!arguments,
       PP!arguments, P!AddNode, PP!AddNode, P!parse_struct_access_expr,
       PP!parse_struct_access_expr, P!parse_array_init_expr, PP!parse_array_init_expr,
       P!OneElement, PP!OneElement, P!elements, PP!elements, P!parse_array_access_expr,
       PP!parse_array_access_expr, P!indexes, PP!indexes
  <1>4. P!Operations => PP!Operations
    BY DEF P!Operations, PP!Operations, P!ReadExpected, PP!ReadExpected, P!Reading,
       PP!Reading, P!At, PP!At, P!lookahead, PP!lookahead, P!Advance, PP!Advance, P!Stop, PP!Stop,
       P!Done, PP!Done, P!ReadTaken, PP!ReadTaken, P!Said, PP!Said, P!Word, PP!Word,
       P!keyword_to_type, PP!keyword_to_type, P!mk_node, PP!mk_node, P!LiteralType,
       PP!LiteralType, P!DefaultValue, PP!DefaultValue, P!ReadNoted, PP!ReadNoted, P!syntax_error,
       PP!syntax_error, P!consume, PP!consume, P!backup, PP!backup, P!Decide, PP!Decide, P!Choose,
       PP!Choose, P!Run, PP!Run, P!DecideNext, PP!DecideNext, P!peek, PP!peek, P!KeepValue,
       PP!KeepValue, P!KeepUnassigned, PP!KeepUnassigned, P!MakeNode, PP!MakeNode, P!Replace,
       PP!Replace, P!Node, PP!Node, P!Field, PP!Field, P!MakeBinopNode, PP!MakeBinopNode, P!Last,
       PP!Last, P!vector_add, PP!vector_add, P!WithNode, PP!WithNode, P!AddNoStatement,
       PP!AddNoStatement, P!Call, PP!Call, P!Front, PP!Front, P!AddNewStatement,
       PP!AddNewStatement, P!AddGarbage, PP!AddGarbage
  <1>5. P!Return => PP!Return
    BY DEF P!Return, PP!Return
  <1> QED
    BY <1>1, <1>2, <1>3, <1>4, <1>5 DEF P!Step, PP!Step

\* The invariant of the parser, and its moves along the list.
LEMMA ParseStep ==
    ASSUME PP!ParseInv, P!Step
    PROVE  /\ PP!ParseInv' /\ tokens' = tokens
           /\ cursor' \in {cursor - 1, cursor, cursor + 1}
  <1>1. PP!Step /\ [PP!Next]_(PP!vars)
    BY SameParser DEF PP!Next
  <1>2. PP!ParseInv'
    BY <1>1, NoPrograms, PP!NextParses
  <1>3. tokens' = tokens /\ cursor' \in {cursor - 1, cursor, cursor + 1}
    BY <1>1, NoPrograms, PP!CursorMoves
  <1> QED
    BY <1>2, <1>3

\* The invariant holds of the call of parse() with the list of the lexer.
LEMMA ParseBegins ==
    ASSUME IsList(lexed), lexed # << >>, lexed[Len(lexed)].type = "T_EOF",
           wild \in BOOLEAN, parsing = "running", built = << >>, StartParser
    PROVE  PP!ParseInv' /\ Len(tokens') = Len(lexed)
  <1>1. PICK n : n = Len(lexed) /\ n \in Nat /\ n >= 1 /\ DOMAIN lexed = 1 .. n
    BY DEF IsList
  <1>2. PICK token : token = [i \in 1 .. n |->
            [type |-> lexed[i].type, literal |-> AsString(lexed[i].literal)]]
    OBVIOUS
  <1>3. tokens' = token
    BY <1>1, <1>2 DEF StartParser
  <1>4. Len(token) = n /\ DOMAIN token = 1 .. n /\ token[n].type = "T_EOF"
    BY <1>1, <1>2
  <1>5. PP!Listed'
    BY <1>1, <1>3, <1>4 DEF PP!Listed
  <1>6. calls' = <<PP!Call("parse")>> /\ built' = << >>
    BY DEF StartParser, P!Call, PP!Call
  <1>7. PP!IsList(calls)' /\ PP!IsList(built)'
    <2>1. PICK a : a = PP!Call("parse")
      OBVIOUS
    <2>2. <<a>> \in Seq({<<a>>[i] : i \in DOMAIN <<a>>})
      OBVIOUS
    <2>3. << >> \in Seq({<< >>[i] : i \in DOMAIN << >>})
      OBVIOUS
    <2> QED
      BY <1>6, <2>1, <2>2, <2>3 DEF PP!IsList
  <1>8. PP!Going(calls, built, cursor)'
    BY <1>6 DEF PP!Going
  <1>9. (cursor \in 1 .. Len(tokens) /\ wild \in BOOLEAN /\ parsing = "running")'
    BY <1>1, <1>3, <1>4 DEF StartParser
  <1> QED
    BY <1>3, <1>1, <1>4, <1>5, <1>7, <1>8, <1>9 DEF PP!ParseInv

-----------------------------------------------------------------------------
(* The invariant *)

\* Before parse() its variables are as they were.
BeforeParse ==
    /\ lexing \in {"running", "done"}
    /\ lexing = "done" => lexed # << >> /\ lexed[Len(lexed)].type = "T_EOF"
    /\ wild \in BOOLEAN /\ parsing = "running" /\ built = << >>

\* In each phase the list is as the phases before have left it: made whole by the lexer
\* and left whole by the parser and the printer, then freed from its end.
ListInv ==
    /\ IsList(lexed)
    /\ phase = "lex" => BeforeParse
    /\ phase \in {"lex", "parse", "print", "seek"} => heap = Whole(lexed)
    /\ phase = "parse" => PP!ParseInv /\ Len(tokens) = Len(lexed) /\ toks = cursor + 1
    /\ phase \in {"seek", "free"} => lst \in 1 .. Len(lexed) + 1
    /\ phase = "free" => heap = ListUpTo(lexed, lst)
    /\ phase = "typecheck" =>
          \A i \in DOMAIN heap : ~heap[i].allocated /\ (heap[i].tok_allocated <=> i = TL!HEAD)

\* A cell and what is in it.
LEMMA CellInList ==
    ASSUME IsList(lexed), NEW last, NEW i \in 1 .. Len(lexed) + 1
    PROVE  /\ Len(lexed) \in Nat
           /\ Len(ListUpTo(lexed, last)) = Len(lexed) + 1
           /\ DOMAIN ListUpTo(lexed, last) = 1 .. Len(lexed) + 1
           /\ ListUpTo(lexed, last)[i].tok =
                 IF i = TL!HEAD THEN TL!t_list_new[1].tok ELSE lexed[i - 1]
           /\ ListUpTo(lexed, last)[i].prev = IF i = TL!HEAD THEN NULL ELSE i - 1
           /\ ListUpTo(lexed, last)[i].next = IF i = Len(lexed) + 1 THEN NULL ELSE i + 1
           /\ ListUpTo(lexed, last)[i].allocated <=> i <= last
           /\ ListUpTo(lexed, last)[i].tok_allocated <=> i <= last
  <1>1. PICK n : n = Len(lexed) /\ n \in Nat
    BY DEF IsList
  <1>2. ListUpTo(lexed, last) = [j \in 1 .. n + 1 |-> CellOf(lexed, j, j <= last)]
    BY <1>1 DEF ListUpTo
  <1>3. Len(ListUpTo(lexed, last)) = n + 1 /\ DOMAIN ListUpTo(lexed, last) = 1 .. n + 1
    BY <1>1, <1>2
  <1>4. ListUpTo(lexed, last)[i] = CellOf(lexed, i, i <= last)
    BY <1>1, <1>2
  <1>5. /\ CellOf(lexed, i, i <= last).tok =
              IF i = TL!HEAD THEN TL!t_list_new[1].tok ELSE lexed[i - 1]
        /\ CellOf(lexed, i, i <= last).prev = IF i = TL!HEAD THEN NULL ELSE i - 1
        /\ CellOf(lexed, i, i <= last).next = IF i = Len(lexed) + 1 THEN NULL ELSE i + 1
    BY DEF CellOf
  <1>6. /\ CellOf(lexed, i, i <= last).allocated <=> i <= last
        /\ CellOf(lexed, i, i <= last).tok_allocated <=> i <= last
    BY DEF CellOf
  <1> QED
    BY <1>1, <1>3, <1>4, <1>5, <1>6

\* At first the list is HEAD.
LEMMA InitLists ==
    Init => ListInv
  <1> SUFFICES ASSUME Init PROVE ListInv
    OBVIOUS
  <1>1. lexed = << >>
    BY DEF Init, L!Init, L!Globals
  <1>2. << >> \in Seq({})
    OBVIOUS
  <1>3. IsList(lexed)
    BY <1>1, <1>2, ListOfSeq
  <1> QED
    BY <1>1, <1>3, NewIsWhole DEF Init, L!Init, L!Globals, ListInv, BeforeParse

\* A pass of the lexer.
LEMMA LexLists ==
    ASSUME ListInv, lex
    PROVE  ListInv'
  <1>1. /\ phase = "lex" /\ L!tokenize /\ heap' = Emitted(lexed') /\ IsList(lexed)
        /\ heap = Whole(lexed) /\ BeforeParse
        /\ phase' \in {"lex", "ended"}
        /\ phase' = "lex" => lexing' \in {"running", "done"}
        /\ UNCHANGED <<wild, parsing, built>>
    BY DEF ListInv, lex, parser
  <1>2. PICK n : n = Len(lexed) /\ n \in Nat
    BY <1>1 DEF IsList
  <1>3. CASE lexed' = lexed /\ lexing' # "done"
    <2>1. heap' = Whole(lexed') /\ IsList(lexed')
      <3>1. Len(lexed') - Len(lexed) = 0
        BY <1>2, <1>3
      <3> QED
        BY <1>1, <1>3, <3>1 DEF Emitted
    <2> QED
      BY <1>1, <1>3, <2>1 DEF ListInv, BeforeParse
  <1>4. ASSUME NEW a, lexed' = lexed \o <<a>>, lexing' = "done" => a.type = "T_EOF"
        PROVE  ListInv'
    <2>1. PICK one : one = Append(lexed, a)
      OBVIOUS
    <2>2. lexed' = one /\ Len(one) = n + 1 /\ one[n + 1] = a
      BY <1>1, <1>2, <1>4, <2>1, AppendIs
    <2>3. IsList(one) /\ TL!t_list_append(Whole(lexed), a) = Whole(one)
      BY <1>1, <2>1, AppendToWhole
    <2>4. heap' = Whole(lexed')
      <3>1. Len(lexed') - Len(lexed) = 1 /\ lexed'[Len(lexed) + 1] = a
        BY <1>2, <2>2
      <3> QED
        BY <1>1, <2>2, <2>3, <3>1 DEF Emitted
    <2>5. lexed' # << >> /\ lexed'[Len(lexed')] = a
      BY <1>2, <2>2
    <2> QED
      BY <1>1, <1>4, <2>2, <2>3, <2>4, <2>5 DEF ListInv, BeforeParse
  <1>5. ASSUME NEW a, NEW b, lexed' = lexed \o <<a, b>>, lexing' # "done"
        PROVE  ListInv'
    <2>1. PICK one : one = Append(lexed, a)
      OBVIOUS
    <2>2. PICK two : two = Append(one, b)
      OBVIOUS
    <2>3. lexed' = two /\ Len(two) = n + 2 /\ two[n + 1] = a /\ two[n + 2] = b
      BY <1>1, <1>2, <1>5, <2>1, <2>2, AppendIs
    <2>4. IsList(one) /\ TL!t_list_append(Whole(lexed), a) = Whole(one)
      BY <1>1, <2>1, AppendToWhole
    <2>5. IsList(two) /\ TL!t_list_append(Whole(one), b) = Whole(two)
      BY <2>2, <2>4, AppendToWhole
    <2>6. heap' = Whole(lexed')
      <3>1. /\ Len(lexed') - Len(lexed) = 2
            /\ lexed'[Len(lexed) + 1] = a /\ lexed'[Len(lexed) + 2] = b
        BY <1>2, <2>3
      <3> QED
        BY <1>1, <2>3, <2>4, <2>5, <3>1 DEF Emitted
    <2> QED
      BY <1>1, <1>5, <2>3, <2>5, <2>6 DEF ListInv, BeforeParse
  <1> QED
    BY <1>1, <1>3, <1>4, <1>5, PassesEmit

\* parse() begins at HEAD and consumes it: the lookahead is the first token.
LEMMA StartLists ==
    ASSUME ListInv, StartParser
    PROVE  ListInv'
  <1>1. /\ IsList(lexed) /\ BeforeParse /\ phase = "lex" /\ lexing = "done"
        /\ heap = Whole(lexed)
    BY DEF ListInv, StartParser
  <1>2. PP!ParseInv' /\ Len(tokens') = Len(lexed)
    BY <1>1, ParseBegins DEF BeforeParse
  <1>3. toks' = 2 /\ cursor' = 1
    <2>1. PICK n : n = Len(lexed) /\ n \in Nat /\ n >= 1
      BY <1>1 DEF IsList, BeforeParse
    <2>2. heap[1].next = 2
      BY <1>1, <2>1, CellInList DEF Whole
    <2> QED
      BY <2>2, CompilerAssumption DEF StartParser, TL!t_list_next, TL!HEAD
  <1> QED
    BY <1>1, <1>2, <1>3 DEF ListInv, StartParser, lexer, L!vars

\* A step of the parser goes to the cell of the new lookahead.
LEMMA ParseLists ==
    ASSUME ListInv, parse
    PROVE  ListInv'
  <1>1. /\ IsList(lexed) /\ phase = "parse" /\ heap = Whole(lexed) /\ PP!ParseInv
        /\ Len(tokens) = Len(lexed) /\ toks = cursor + 1
        /\ phase' \in {"parse", "ended"} /\ UNCHANGED <<lexed, heap>>
    BY DEF ListInv, parse, lexer
  <1>2. PP!ParseInv' /\ tokens' = tokens /\ cursor' \in {cursor - 1, cursor, cursor + 1}
    BY <1>1, ParseStep DEF parse
  <1>3. PICK n : n = Len(lexed) /\ n \in Nat
    BY <1>1 DEF IsList
  <1>4. cursor \in 1 .. n /\ cursor' \in 1 .. n
    BY <1>1, <1>2, <1>3 DEF PP!ParseInv
  <1>5. heap[cursor + 1].prev = cursor /\ (cursor < n => heap[cursor + 1].next = cursor + 2)
    <2>1. PICK i : i = cursor + 1
      OBVIOUS
    <2>2. i \in 1 .. n + 1 /\ i # 1 /\ i - 1 = cursor /\ (cursor < n => i # n + 1)
      BY <1>3, <1>4, <2>1
    <2>3. i \in 1 .. Len(lexed) + 1
      BY <1>3, <2>2
    <2>4. /\ ListUpTo(lexed, n + 1)[i].prev = IF i = TL!HEAD THEN NULL ELSE i - 1
          /\ ListUpTo(lexed, n + 1)[i].next = IF i = Len(lexed) + 1 THEN NULL ELSE i + 1
      BY <1>1, <2>3, CellInList
    <2>5. heap[i].prev = i - 1 /\ (cursor < n => heap[i].next = i + 1)
      BY <1>1, <1>3, <2>2, <2>4 DEF Whole, TL!HEAD
    <2> QED
      BY <1>4, <2>1, <2>5
  <1>7. toks # NULL
    BY <1>1, <1>4, CompilerAssumption
  <1>8. toks' = cursor' + 1
    BY <1>1, <1>2, <1>3, <1>4, <1>5, <1>7 DEF parse, TL!t_list_next, TL!t_list_prev
  <1> QED
    BY <1>1, <1>2, <1>8 DEF ListInv

\* The token and the cell at the end of what is left are freed.
LEMMA FreeLast ==
    ASSUME NEW list, IsList(list), NEW k \in 2 .. Len(list) + 1
    PROVE  TL!free_cell(TL!free_token(ListUpTo(list, k), k), k) = ListUpTo(list, k - 1)
  <1>1. PICK n : n = Len(list) /\ n \in Nat
    BY DEF IsList
  <1>2. PICK h : h = ListUpTo(list, k)
    OBVIOUS
  <1>3. h = [i \in 1 .. n + 1 |-> CellOf(list, i, i <= k)]
    BY <1>1, <1>2 DEF ListUpTo
  <1>4. PICK last : last = [[h[k] EXCEPT !.tok_allocated = FALSE] EXCEPT !.allocated = FALSE]
    OBVIOUS
  <1>5. TL!free_cell(TL!free_token(h, k), k) = [h EXCEPT ![k] = last]
    <2>1. PICK one : one = [h[k] EXCEPT !.tok_allocated = FALSE]
      OBVIOUS
    <2>2. PICK g : g = TL!free_token(h, k)
      OBVIOUS
    <2>3. g = [h EXCEPT ![k] = one] /\ k \in DOMAIN h
      BY <1>1, <1>3, <2>1, <2>2 DEF TL!free_token
    <2>4. g[k] = one
      BY <2>3
    <2>5. TL!free_cell(g, k) = [g EXCEPT ![k] = last]
      BY <1>4, <2>1, <2>4 DEF TL!free_cell
    <2> QED
      BY <2>2, <2>3, <2>5
  <1>6. last = CellOf(list, k, FALSE)
    <2>1. PICK b, f : b = (k <= k) /\ f = FALSE
      OBVIOUS
    <2>2. h[k] = CellOf(list, k, b)
      BY <1>1, <1>3, <2>1
    <2>3. PICK t, q, x : \A v : CellOf(list, k, v) = [tok |-> t, prev |-> q, next |-> x,
                                                    allocated |-> v, tok_allocated |-> v]
      BY DEF CellOf
    <2>4. PICK cell : cell = h[k]
      OBVIOUS
    <2>5. cell = [tok |-> t, prev |-> q, next |-> x, allocated |-> b, tok_allocated |-> b]
      BY <2>2, <2>3, <2>4
    <2>6. PICK one : one = [cell EXCEPT !.tok_allocated = f]
      OBVIOUS
    <2>7. one = [tok |-> t, prev |-> q, next |-> x, allocated |-> b, tok_allocated |-> f]
      BY <2>5, <2>6
    <2>8. [one EXCEPT !.allocated = f] =
            [tok |-> t, prev |-> q, next |-> x, allocated |-> f, tok_allocated |-> f]
      BY <2>7
    <2>9. last = [one EXCEPT !.allocated = f]
      BY <1>4, <2>1, <2>4, <2>6
    <2> QED
      BY <2>1, <2>3, <2>8, <2>9
  <1>7. \A i \in 1 .. n + 1 : i # k => (i <= k) = (i <= k - 1)
    BY <1>1
  <1>8. (k <= k - 1) = FALSE
    BY <1>1
  <1>9. ListUpTo(list, k - 1) = [i \in 1 .. n + 1 |-> CellOf(list, i, i <= k - 1)]
    BY <1>1 DEF ListUpTo
  <1>10. [h EXCEPT ![k] = last] = ListUpTo(list, k - 1)
    <2>1. \A i \in 1 .. n + 1 :
             (IF i = k THEN last ELSE CellOf(list, i, i <= k)) = CellOf(list, i, i <= k - 1)
      <3> TAKE i \in 1 .. n + 1
      <3>1. PICK b, d : b = (i <= k) /\ d = (i <= k - 1)
        OBVIOUS
      <3>2. i # k => b = d
        BY <1>7, <3>1
      <3>3. i = k => d = FALSE
        BY <1>8, <3>1
      <3>4. (IF i = k THEN last ELSE CellOf(list, i, b)) = CellOf(list, i, d)
        BY <1>6, <3>2, <3>3
      <3> QED
        BY <3>1, <3>4
    <2>2. [h EXCEPT ![k] = last] =
             [i \in 1 .. n + 1 |-> IF i = k THEN last ELSE CellOf(list, i, i <= k)]
      BY <1>1, <1>3
    <2> QED
      BY <1>9, <2>1, <2>2
  <1> QED
    BY <1>2, <1>5, <1>10

\* t_list_free: the walk to the end, and back, freeing the cell that was left.
LEMMA FreeLists ==
    ASSUME ListInv, StartFree \/ SeekEnd \/ FreeNext \/ FreeHead
    PROVE  ListInv'
  <1>1. PICK n : n = Len(lexed) /\ n \in Nat
    BY DEF ListInv, IsList
  <1>2. IsList(lexed) /\ UNCHANGED lexed
    BY DEF ListInv, StartFree, SeekEnd, FreeNext, FreeHead, lexer
  <1>3. CASE StartFree
    BY <1>1, <1>2, <1>3 DEF ListInv, StartFree, TL!HEAD
  <1>4. CASE SeekEnd
    <2>1. lst \in 1 .. n + 1 /\ heap = ListUpTo(lexed, n + 1) /\ heap' = heap
      BY <1>1, <1>4 DEF ListInv, SeekEnd, Whole
    <2>2. heap[lst].next = IF lst = n + 1 THEN NULL ELSE lst + 1
      BY <1>1, <1>2, <2>1, CellInList
    <2>3. CASE lst = n + 1
      <3>1. phase' = "free" /\ lst' = lst
        BY <1>4, <2>2, <2>3 DEF SeekEnd
      <3> QED
        BY <1>1, <1>2, <2>1, <2>3, <3>1 DEF ListInv
    <2>4. CASE lst # n + 1
      <3>1. phase' = "seek" /\ lst' = lst + 1
        BY <1>4, <2>1, <2>2, <2>4, CompilerAssumption DEF SeekEnd
      <3>2. lst' \in 1 .. n + 1
        BY <1>1, <2>1, <2>4, <3>1
      <3> QED
        BY <1>1, <1>2, <2>1, <3>1, <3>2 DEF ListInv, Whole
    <2> QED
      BY <2>3, <2>4
  <1>5. CASE FreeNext
    <2>1. lst \in 1 .. n + 1 /\ heap = ListUpTo(lexed, lst) /\ heap[lst].prev # NULL
          /\ phase' = "free" /\ lst' = heap[lst].prev
      BY <1>1, <1>5 DEF ListInv, FreeNext
    <2>2. heap[lst].prev = IF lst = 1 THEN NULL ELSE lst - 1
      BY <1>1, <1>2, <2>1, CellInList DEF TL!HEAD
    <2>3. lst \in 2 .. n + 1 /\ lst' = lst - 1 /\ lst' \in 1 .. n + 1 /\ lst' # n + 1
      BY <1>1, <2>1, <2>2
    <2>4. heap[lst'].next = lst
      <3>1. PICK i : i = lst'
        OBVIOUS
      <3>2. i \in 1 .. Len(lexed) + 1
        BY <1>1, <2>3, <3>1
      <3>3. heap[i].next = IF i = Len(lexed) + 1 THEN NULL ELSE i + 1
        BY <1>2, <2>1, <3>2, CellInList
      <3> QED
        BY <1>1, <2>3, <3>1, <3>3
    <2>5. heap' = ListUpTo(lexed, lst')
      <3>1. heap' = TL!free_cell(TL!free_token(heap, lst), lst)
        BY <1>5, <2>4 DEF FreeNext
      <3> QED
        BY <1>1, <1>2, <2>1, <2>3, <3>1, FreeLast
    <2> QED
      BY <1>1, <1>2, <2>1, <2>3, <2>5 DEF ListInv
  <1>6. CASE FreeHead
    <2>1. lst \in 1 .. n + 1 /\ heap = ListUpTo(lexed, lst) /\ heap[lst].prev = NULL
          /\ phase' = "typecheck" /\ heap' = TL!free_cell(heap, lst)
      BY <1>1, <1>6 DEF ListInv, FreeHead
    <2>2. heap[lst].prev = IF lst = 1 THEN NULL ELSE lst - 1
      BY <1>1, <1>2, <2>1, CellInList DEF TL!HEAD
    <2>3. lst = 1
      BY <1>1, <2>1, <2>2, CompilerAssumption
    <2>4. \A i \in 1 .. n + 1 : (heap[i].allocated <=> i = 1) /\ (heap[i].tok_allocated <=> i = 1)
      <3> TAKE i \in 1 .. n + 1
      <3>1. (heap[i].allocated <=> i <= 1) /\ (heap[i].tok_allocated <=> i <= 1)
        BY <1>1, <1>2, <2>1, <2>3, CellInList
      <3> QED
        BY <1>1, <3>1
    <2>5. heap \in [1 .. n + 1 -> {heap[i] : i \in 1 .. n + 1}]
      BY <1>1, <2>1 DEF ListUpTo
    <2>6. PICK one : one = [heap[1] EXCEPT !.allocated = FALSE]
      OBVIOUS
    <2>7. heap' = [heap EXCEPT ![1] = one] /\ 1 \in 1 .. n + 1
      BY <1>1, <2>1, <2>3, <2>6 DEF TL!free_cell
    <2>8. /\ DOMAIN heap' = 1 .. n + 1 /\ heap'[1] = one
          /\ \A i \in 1 .. n + 1 : i # 1 => heap'[i] = heap[i]
      BY <2>5, <2>7
    <2>9. heap[1] = CellOf(lexed, 1, 1 <= 1)
      BY <1>1, <2>1, <2>3 DEF ListUpTo
    <2>10. ~heap'[1].allocated /\ heap'[1].tok_allocated
      <3>1. PICK cell, b, freed : cell = heap[1] /\ b = (1 <= 1) /\ freed = heap'[1]
        OBVIOUS
      <3>2. b
        <4>1. 1 <= 1
          OBVIOUS
        <4> QED
          BY <3>1, <4>1
      <3>3. cell = CellOf(lexed, 1, b) /\ freed = [cell EXCEPT !.allocated = FALSE]
        BY <2>6, <2>8, <2>9, <3>1
      <3>4. PICK t, q, x : cell = [tok |-> t, prev |-> q, next |-> x,
                                   allocated |-> b, tok_allocated |-> b]
        BY <3>3 DEF CellOf
      <3>5. freed.allocated = FALSE /\ freed.tok_allocated = b
        BY <3>3, <3>4
      <3> QED
        BY <3>1, <3>2, <3>5
    <2>11. \A i \in DOMAIN heap' : ~heap'[i].allocated /\ (heap'[i].tok_allocated <=> i = TL!HEAD)
      BY <2>4, <2>8, <2>10 DEF TL!HEAD
    <2> QED
      BY <1>2, <2>1, <2>11 DEF ListInv
  <1> QED
    BY <1>3, <1>4, <1>5, <1>6

\* What the printer and the typechecker do leaves the list alone.
LEMMA OtherLists ==
    ASSUME ListInv,
           \/ StartPrinter \/ print_node \/ MakeBuiltin \/ VisitStatement \/ VisitBlock
           \/ VisitParam \/ VisitElse \/ LeaveBlock \/ UNCHANGED vars
    PROVE  ListInv'
  <1>1. UNCHANGED <<lexed, heap>>
    BY DEF StartPrinter, print_node, MakeBuiltin, VisitStatement, VisitBlock, VisitParam,
       VisitElse, LeaveBlock, Check, lexer, vars
  <1>2. CASE UNCHANGED vars
    <2>1. UNCHANGED <<phase, lexed, lexing, heap, tokens, cursor, calls, built, wild, parsing,
                      toks, lst>>
      BY <1>2 DEF vars, lexer, parser
    <2>2. PP!ParseInv => PP!ParseInv'
      <3>1. [PP!Next]_(PP!vars)
        BY <2>1 DEF PP!vars
      <3> QED
        BY <3>1, NoPrograms, PP!NextParses
    <2> QED
      BY <2>1, <2>2 DEF ListInv, BeforeParse
  <1>3. CASE StartPrinter \/ print_node
    BY <1>1, <1>3 DEF ListInv, StartPrinter, print_node
  <1>4. CASE \/ MakeBuiltin \/ VisitStatement \/ VisitBlock
             \/ VisitParam \/ VisitElse \/ LeaveBlock
    <2>1. phase = "typecheck" /\ phase' \in {"typecheck", "ended"}
      BY <1>4 DEF MakeBuiltin, VisitStatement, VisitBlock, VisitParam, VisitElse,
         LeaveBlock, Check
    <2> QED
      BY <1>1, <2>1 DEF ListInv
  <1> QED
    BY <1>2, <1>3, <1>4

\* Every step keeps the invariant.
LEMMA NextLists ==
    ASSUME ListInv, [Next]_vars
    PROVE  ListInv'
  BY LexLists, StartLists, ParseLists, FreeLists, OtherLists DEF Next, Step, Ended

\* The invariant.
LEMMA SpecLists ==
    Spec => []ListInv
  BY InitLists, NextLists, PTL DEF Spec

\* For every file the list holds the tokens the lexer emitted, is the same in both
\* directions, and the parser's pointer, moved by consume() and backup() alone, is at the
\* cell of its lookahead: the parser never walks off the list, nor back to HEAD.
THEOREM ListsHoldTokens ==
    Spec => []ListHoldsTokens
  <1>1. ListInv => ListHoldsTokens
    <2> SUFFICES ASSUME ListInv, phase \in {"lex", "parse", "print"} PROVE ListHoldsTokens
      BY DEF ListHoldsTokens
    <2>1. PICK n : n = Len(lexed) /\ n \in Nat /\ DOMAIN lexed = 1 .. n
      BY DEF ListInv, IsList
    <2>2. IsList(lexed) /\ heap = ListUpTo(lexed, n + 1)
      BY <2>1 DEF ListInv, Whole
    <2>3. Len(heap) = n + 1 /\ DOMAIN heap = 1 .. n + 1
      BY <2>1, <2>2, CellInList
    <2>4. \A i \in DOMAIN heap :
             /\ heap[i].prev = IF i = TL!HEAD THEN NULL ELSE i - 1
             /\ heap[i].next = IF i = Len(heap) THEN NULL ELSE i + 1
      <3> TAKE i \in DOMAIN heap
      <3>1. i \in 1 .. Len(lexed) + 1
        BY <2>1, <2>3
      <3> QED
        BY <2>1, <2>2, <2>3, <3>1, CellInList
    <2>5. \A i \in 1 .. n : heap[i + 1].tok = lexed[i]
      <3> TAKE i \in 1 .. n
      <3>1. PICK k : k = i + 1
        OBVIOUS
      <3>2. k \in 1 .. Len(lexed) + 1 /\ k # 1 /\ k - 1 = i
        BY <2>1, <3>1
      <3>3. heap[k].tok = IF k = TL!HEAD THEN TL!t_list_new[1].tok ELSE lexed[k - 1]
        BY <2>2, <3>2, CellInList
      <3> QED
        BY <3>1, <3>2, <3>3 DEF TL!HEAD
    <2>6. [i \in DOMAIN lexed |-> heap[i + 1].tok] = lexed
      <3>1. lexed = [i \in 1 .. n |-> lexed[i]]
        BY <2>1, <2>2 DEF IsList
      <3> QED
        BY <2>1, <2>5, <3>1
    <2> QED
      BY <2>4, <2>6 DEF ListHoldsTokens, ListInv
  <1> QED
    BY <1>1, SpecLists, PTL

\* For every file t_list_free goes to allocated cells only, and when typecheck() begins
\* every cell and every token is freed but that of HEAD.
THEOREM ListsAreFreed ==
    Spec => []ListIsFreed
  <1>1. ListInv => ListIsFreed
    <2> SUFFICES ASSUME ListInv PROVE ListIsFreed
      OBVIOUS
    <2>1. PICK n : n = Len(lexed) /\ n \in Nat
      BY DEF ListInv, IsList
    <2>2. ASSUME phase = "seek" PROVE heap[lst].allocated
      <3>1. /\ lst \in 1 .. Len(lexed) + 1 /\ IsList(lexed) /\ lst <= n + 1
            /\ heap = ListUpTo(lexed, n + 1)
        BY <2>1, <2>2 DEF ListInv, Whole
      <3> QED
        BY <3>1, CellInList
    <2>3. ASSUME phase = "free" PROVE heap[lst].allocated
      <3>1. /\ lst \in 1 .. Len(lexed) + 1 /\ IsList(lexed) /\ lst <= lst
            /\ heap = ListUpTo(lexed, lst)
        BY <2>1, <2>3 DEF ListInv
      <3> QED
        BY <3>1, CellInList
    <2> QED
      BY <2>2, <2>3 DEF ListIsFreed, ListInv
  <1> QED
    BY <1>1, SpecLists, PTL
=============================================================================
