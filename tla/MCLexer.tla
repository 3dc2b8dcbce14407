------------------------------ MODULE MCLexer ------------------------------
(* Constants of the small files TLC checks. *)
EXTENDS Lexer

MCLetters == {"t"}
MCDigits == {"1"}
MCStrangers == {"_"}
MCKeywords == (<<"t", "t">> :> "T_TO")

SmallChars == {"t", "1", "_", SPACE, "TAB", NL, QUOTE, APOSTROPHE,
               ":", "=", "-", ">", ".", "+"}

\* All files of up to four of these characters, whose last line is ended or not.
Short == BoundedSeq(SmallChars, 4)

\* Longer ones, made of pieces of a program.
Pieces == {<<"t">>, <<"t", "t", SPACE>>, <<":", "=">>, <<"1">>, <<"1", ".", "1">>, <<NL>>,
           <<QUOTE, APOSTROPHE, QUOTE>>, <<APOSTROPHE, "t", ":", NL>>, <<"=", "=">>, <<"-">>}

MCTexts == Short \cup {Append(s, NL) : s \in Short}
           \cup {FlattenSeq(s) : s \in [1 .. 4 -> Pieces]}
=============================================================================
