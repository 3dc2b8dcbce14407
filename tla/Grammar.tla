------------------------------ MODULE Grammar ------------------------------
(* What parse() is to make of a list of tokens. *)
EXTENDS Parser, Notation

CONSTANT Trees  \* syntax trees that are written and read back

Text == [tree \in Trees |-> WrittenProgram(tree)]

ASSUME TreesAreWritten == {Text[tree] : tree \in Trees} \subseteq Programs

\* A written tree is read back as the same tree, to the last token: precedence and
\* associativity, the nesting of blocks and the consumption of every "end", all
\* the lookahead.
WrittenTreesAreReadBack ==
    status # "running" =>
       \A tree \in Trees :
          Front(tokens) = Text[tree] =>
             status = "done" /\ program = tree /\ cursor = Len(tokens)

Count(type, list) == Len(SelectSeq(list, LAMBDA token : token.type = type))

\* The literals of a list of tokens without those that only separate: ( ) , ; { }
\* and the brackets of dimensions, which the tree does not keep here.
Content(list) ==
    LET bracket(i, type) == i \in DOMAIN list /\ list[i].type = type
        dimension(i) == \/ bracket(i, "T_LBRACKET") /\ bracket(i + 1, "T_RBRACKET")
                        \/ bracket(i - 1, "T_LBRACKET") /\ bracket(i, "T_RBRACKET")
        kept == SelectSeq([i \in DOMAIN list |-> [literal |-> list[i].literal, drop |-> dimension(i)]],
                          LAMBDA t : ~t.drop /\ t.literal \notin {"(", ")", ",", ";", "{", "}"})
    IN  [i \in DOMAIN kept |-> kept[i].literal]

\* No part of an accepted program is dropped, doubled or moved: what was read, up to
\* the token parse_statements stopped at, is what the tree says.  Programs that
\* lack an operand or a ")" are left out: there parse_primary_expr consumes a token
\* it does not look at.
AcceptedTokensAreInTree ==
    LET read == SubSeq(tokens, 1, cursor - 1)
    IN  status = "done" /\ ~wild /\ Count("T_LPAREN", read) = Count("T_RPAREN", read) =>
           Content(read) = Content(WrittenProgram(program))

RECURSIVE IsWhole(_)

IsWhole(n) ==
    n \notin {NULL, GARBAGE} /\ \A i \in DOMAIN Children(n) : IsWhole(Children(n)[i])

=============================================================================
