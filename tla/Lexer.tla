------------------------------- MODULE Lexer -------------------------------
(***************************************************************************)
(* lexer.c: tokenize() turns the characters of a file into the list of       *)
(* tokens.  One action is one pass through its loop; the inner loops that     *)
(* read a word, a number, a string or a comment are searches for the         *)
(* character they stop at.  Column numbers, which only messages show, and the *)
(* size of the buffer lexeme are left out.                                  *)
(***************************************************************************)
EXTENDS Naturals, Sequences, SequencesExt

CONSTANTS
    Letters, Digits,  \* the characters isalpha and is_digit accept
    Strangers,        \* characters tokenize knows nothing of
    Keywords,         \* the token type of each keyword, a sequence of letters
    Texts             \* the files

VARIABLES
    prog_buff,  \* the file and its final NUL
    char_num,   \* index of the character read last, from 1
    c,          \* the character at hand
    line_num,
    tokens,     \* the list, without its head
    status      \* running, done, log_error, no_line or overrun

vars == <<prog_buff, char_num, c, line_num, tokens, status>>

NL == "NL"
NUL == "NUL"
SPACE == "SPACE"
QUOTE == "QUOTE"
APOSTROPHE == "APOSTROPHE"

Blanks == {SPACE, "TAB", "CR", NL}

\* The tokens check_singles emits.
Singles == [ch \in {"(", ")", "[", "]", "{", "}", ";", "+", "*", "/", "%", ",", "."} |->
    CASE ch = "(" -> "T_LPAREN"   [] ch = ")" -> "T_RPAREN"
      [] ch = "[" -> "T_LBRACKET" [] ch = "]" -> "T_RBRACKET"
      [] ch = "{" -> "T_LBRACE"   [] ch = "}" -> "T_RBRACE"
      [] ch = ";" -> "T_SEMICOLON" [] ch = "+" -> "T_PLUS"
      [] ch = "*" -> "T_MUL" [] ch = "/" -> "T_DIV" [] ch = "%" -> "T_MOD"
      [] ch = "," -> "T_COMMA" [] ch = "." -> "T_DOT"]

\* The characters that end a word and are tokens themselves.
Delimiters == {"(", ")", "[", "]", "{", "}", ":", ";", ",", "."}

\* The operators that may be followed by "=".
Comparisons == [ch \in {"<", ">", "!"} |->
    CASE ch = "<" -> [alone |-> "T_LT", equal |-> "T_LE"]
      [] ch = ">" -> [alone |-> "T_GT", equal |-> "T_GE"]
      [] ch = "!" -> [alone |-> "T_BANG", equal |-> "T_NE"]]

\* The characters tokenize compares the one at hand with.
Marks == Blanks \cup DOMAIN Singles \cup DOMAIN Comparisons
         \cup {QUOTE, APOSTROPHE, ":", "=", "-"}

Chars == Letters \cup Digits \cup Strangers \cup Marks

\* A character is of one kind: isalpha and is_digit accept none that tokenize compares with.
ASSUME LexerAssumption ==
    /\ Texts \subseteq Seq(Chars)
    /\ DOMAIN Keywords \subseteq Seq(Letters)
    /\ \A word \in DOMAIN Keywords : Keywords[word] # "none"
    /\ Letters \cap Digits = {}
    /\ Strangers \cap (Letters \cup Digits) = {}
    /\ Marks \cap (Letters \cup Digits \cup Strangers) = {}
    /\ NUL \notin Chars

-----------------------------------------------------------------------------
(* Reading and emitting *)

Following == prog_buff[char_num + 1]

\* The first index from i on whose character is in S, or one past the buffer.
FirstOf(i, S) ==
    LET found == {j \in i .. Len(prog_buff) : prog_buff[j] \in S}
    IN  IF found = {} THEN Len(prog_buff) + 1 ELSE Min(found)

\* The lines split_into_lines has put into line_map.
CountOf(ch, s) == Cardinality({i \in DOMAIN s : s[i] = ch})
LineCount == LET text == Front(prog_buff)
             IN  CountOf(NL, text) + (IF text = << >> \/ Last(text) = NL THEN 0 ELSE 1)

Token(type, literal) == [type |-> type, literal |-> literal, line |-> line_num]

\* The process ends.
Stop(outcome) ==
    /\ status' = outcome
    /\ UNCHANGED <<prog_buff, char_num, c, line_num, tokens>>

\* The pass emits some tokens, then goes on with ch, having read up to index i;
\* line is the line number from there on.  emit_token finds the line of the token
\* in line_map; a search that has gone past the NUL emits nothing.
GoOn(i, ch, line, emitted) ==
    IF i > Len(prog_buff) THEN Stop("overrun")
    ELSE IF emitted # << >> /\ line_num > LineCount THEN Stop("no_line")
    ELSE /\ char_num' = i
         /\ c' = ch
         /\ line_num' = line
         /\ tokens' = tokens \o emitted
         /\ UNCHANGED <<prog_buff, status>>

\* The same when the pass ends by reading the character at i.
Resume(i, line, emitted) == GoOn(i, prog_buff[i], line, emitted)

\* Mutated: lines are counted from 0.
Globals_Zero == line_num = 0 /\ tokens = << >>

\* The globals before the first call.
Globals == line_num = 1 /\ tokens = << >>

\* The loop is reached with the first character at hand.
Init ==
    /\ prog_buff \in {Append(text, NUL) : text \in Texts}
    /\ char_num = 1
    /\ c = prog_buff[1]
    /\ Globals
    /\ status = "running"

-----------------------------------------------------------------------------
(* The branches of the loop *)

Reads(S) == status = "running" /\ c \in S

\* Mutated: the next character is not read.
Blank_NoRead ==
    /\ Reads(Blanks)
    /\ Resume(char_num, line_num, << >>)

Blank ==
    /\ Reads(Blanks)
    /\ Resume(char_num + 1, IF c = NL THEN line_num + 1 ELSE line_num, << >>)

Single ==
    /\ Reads(DOMAIN Singles)
    /\ Resume(char_num + 1, line_num, <<Token(Singles[c], <<c>>)>>)

\* Only a quote ends a string; newlines in it are not counted.
StringLiteral ==
    /\ Reads({QUOTE})
    /\ LET end == FirstOf(char_num + 1, {QUOTE})
       IN  Resume(end + 1, line_num,
                  <<Token("L_STR", SubSeq(prog_buff, char_num + 1, end - 1))>>)

\* Mutated: the newline is read twice.
Comment_Two ==
    /\ Reads({APOSTROPHE})
    /\ Resume(FirstOf(char_num, {NL}) + 2, line_num + 1, << >>)

Comment ==
    /\ Reads({APOSTROPHE})
    /\ Resume(FirstOf(char_num, {NL}) + 1, line_num + 1, << >>)

\* The character after a colon is read, whether it is "=" or not.
Colon ==
    /\ Reads({":"})
    /\ Resume(char_num + 2, line_num,
              IF Following = "=" THEN <<Token("T_ASSIGN", <<":", "=">>)>> ELSE << >>)

Equals ==
    /\ Reads({"="})
    /\ IF Following = "="
       THEN Resume(char_num + 2, line_num, <<Token("T_EQ", <<"=", "=">>)>>)
       ELSE Stop("log_error")

\* Mutated: the character that is no "=" is not given back.
Comparison_NoUnget ==
    /\ Reads(DOMAIN Comparisons)
    /\ IF Following = "="
       THEN Resume(char_num + 2, line_num, <<Token(Comparisons[c].equal, <<c, "=">>)>>)
       ELSE Resume(char_num + 2, line_num, <<Token(Comparisons[c].alone, <<c>>)>>)

Comparison ==
    /\ Reads(DOMAIN Comparisons)
    /\ IF Following = "="
       THEN Resume(char_num + 2, line_num, <<Token(Comparisons[c].equal, <<c, "=">>)>>)
       ELSE Resume(char_num + 1, line_num, <<Token(Comparisons[c].alone, <<c>>)>>)

\* lex_num: the digits from index i on, with the sign that char_num may be at.
LexNumber(i) ==
    LET point == FirstOf(i, (Chars \cup {NUL}) \ Digits)
        end == FirstOf(point + 1, (Chars \cup {NUL}) \ Digits)
    IN  IF prog_buff[point] # "."
        THEN Resume(point, line_num,
                    <<Token("L_INTEGER", SubSeq(prog_buff, char_num, point - 1))>>)
        ELSE IF end = point + 1 THEN Stop("log_error")
        ELSE Resume(end, line_num,
                    <<Token("L_FLOAT", SubSeq(prog_buff, char_num, end - 1))>>)

Number == Reads(Digits) /\ LexNumber(char_num)

Minus ==
    /\ Reads({"-"})
    /\ IF Following \in Digits THEN LexNumber(char_num + 1)
       ELSE IF Following = ">"
       THEN Resume(char_num + 2, line_num, <<Token("T_OFTYPE", <<"-", ">">>)>>)
       ELSE Resume(char_num + 1, line_num, <<Token("T_MINUS", <<"-">>)>>)

is_keyword(word) == word \in DOMAIN Keywords

WordToken(word) ==
    Token(IF is_keyword(word) THEN Keywords[word] ELSE "T_IDENT", word)

\* Mutated: the line number is incremented before the token is emitted.
Word_LineFirst ==
    /\ Reads(Letters)
    /\ LET end == FirstOf(char_num + 1, {NL, SPACE} \cup Delimiters)
           ending == prog_buff[end]
           word == WordToken(SubSeq(prog_buff, char_num, end - 1))
       IN  IF end > Len(prog_buff) THEN Stop("overrun")
           ELSE IF ending = NL
                THEN IF line_num + 1 > LineCount THEN Stop("no_line")
                     ELSE Resume(end + 1, line_num + 1,
                                 <<[word EXCEPT !.line = line_num + 1]>>)
           ELSE Resume(end + 1, line_num, <<word>>)

\* A word goes on to a newline, a space or a delimiter, whatever is in between.
\* After a colon the next character is looked at: if it is "=" the loop goes on
\* with it although char_num is still at the colon.
Word ==
    /\ Reads(Letters)
    /\ LET end == FirstOf(char_num + 1, {NL, SPACE} \cup Delimiters)
           ending == prog_buff[end]
           word == WordToken(SubSeq(prog_buff, char_num, end - 1))
       IN  IF end > Len(prog_buff) THEN Stop("overrun")
           ELSE IF ending = ":" /\ prog_buff[end + 1] = "="
                THEN GoOn(end, "=", line_num, <<word>>)
           ELSE Resume(end + 1,
                       IF ending = NL THEN line_num + 1 ELSE line_num,
                       CASE ending \in {NL, SPACE} -> <<word>>
                         [] ending = ":" -> <<word, Token("T_COLON", <<":">>)>>
                         [] OTHER -> <<word, Token(Singles[ending], <<ending>>)>>)

Unknown == Reads(Strangers) /\ Stop("log_error")

EndOfFile ==
    /\ Reads({NUL})
    /\ tokens' = Append(tokens, Token("T_EOF", <<"EOF">>))
    /\ status' = "done"
    /\ UNCHANGED <<prog_buff, char_num, c, line_num>>

tokenize ==
    \/ Blank \/ Single \/ StringLiteral \/ Comment \/ Colon \/ Equals
    \/ Comparison \/ Number \/ Minus \/ Word \/ Unknown \/ EndOfFile

\* tokenize has returned or the process has ended.
Ended == status # "running" /\ UNCHANGED vars

Next == tokenize \/ Ended

\* Nothing but the loop runs.
Spec == Init /\ [][Next]_vars /\ WF_vars(tokenize)

-----------------------------------------------------------------------------
(***************************************************************************)
(* The tokens of a text by the notation of token.h: at each place that is    *)
(* neither blank nor comment, the longest piece of text that spells a token. *)
(***************************************************************************)

text == Front(prog_buff)

Symbols == [s \in {<<ch>> : ch \in DOMAIN Singles \cup DOMAIN Comparisons}
                  \cup {<<ch, "=">> : ch \in DOMAIN Comparisons}
                  \cup {<<":">>, <<":", "=">>, <<"=", "=">>, <<"-">>, <<"-", ">">>} |->
    CASE s = <<":">> -> "T_COLON" [] s = <<":", "=">> -> "T_ASSIGN"
      [] s = <<"=", "=">> -> "T_EQ" [] s = <<"-">> -> "T_MINUS"
      [] s = <<"-", ">">> -> "T_OFTYPE"
      [] s[1] \in DOMAIN Singles -> Singles[s[1]]
      [] OTHER -> IF Len(s) = 1 THEN Comparisons[s[1]].alone ELSE Comparisons[s[1]].equal]

Digital(s) == s # << >> /\ ToSet(s) \subseteq Digits
Unsigned(s) == IF s # << >> /\ s[1] = "-" THEN Tail(s) ELSE s

\* token.h has letters and digits only; the programs under test/ have underscores too.
IsWord(s) == s # << >> /\ s[1] \in Letters /\ ToSet(s) \subseteq Letters \cup Digits \cup {"_"}
IsFloat(s) == \E i \in DOMAIN s : /\ s[i] = "."
                                  /\ Digital(SubSeq(s, 1, i - 1))
                                  /\ Digital(SubSeq(s, i + 1, Len(s)))
IsString(s) == /\ Len(s) > 1 /\ s[1] = QUOTE /\ Last(s) = QUOTE
               /\ CountOf(QUOTE, s) = 2

\* The type of the token s spells, "none" if it spells none.
Spelt(s) ==
    CASE s \in DOMAIN Keywords -> Keywords[s]
      [] IsWord(s) /\ s \notin DOMAIN Keywords -> "T_IDENT"
      [] s \in DOMAIN Symbols -> Symbols[s]
      [] Digital(Unsigned(s)) -> "L_INTEGER"
      [] IsFloat(Unsigned(s)) -> "L_FLOAT"
      [] IsString(s) -> "L_STR"
      [] OTHER -> "none"

\* The ends of the tokens that begin at i.
Ends(i) == {j \in i .. Len(text) : Spelt(SubSeq(text, i, j)) # "none"}

\* The character at i, and those before it back to a letter, are in a word.
InWord(i) == \E j \in 1 .. i : IsWord(SubSeq(text, j, i))

(***************************************************************************)
(* Where tokenize goes its own way.  A word is to be followed by a space, a   *)
(* newline or a delimiter, and not by ":="; a colon that is not part of ":="   *)
(* is to follow a word; a point after digits, digits; a string is to end on   *)
(* its line, and a comment with a newline.  No program under test/ breaks     *)
(* these rules.                                                             *)
(***************************************************************************)
IsOdd(i, j) ==
    LET s == SubSeq(text, i, j)
        rest == SubSeq(text, j + 1, Len(text))
    IN  \/ IsWord(s) /\ \/ rest = << >>
                        \/ rest[1] \notin {NL, SPACE} \cup Delimiters
                        \/ IsPrefix(<<":", "=">>, rest)
        \/ s = <<":">> /\ ~(i > 1 /\ InWord(i - 1))
        \/ Digital(Unsigned(s)) /\ IsPrefix(<<".">>, rest)
        \/ IsString(s) /\ NL \in ToSet(s)

IsOpen(i) == \/ text[i] = APOSTROPHE /\ NL \notin ToSet(SubSeq(text, i, Len(text)))
             \/ text[i] = QUOTE /\ Ends(i) = {}

LineAt(i) == 1 + CountOf(NL, SubSeq(text, 1, i - 1))

TokenAt(i, j) ==
    LET s == SubSeq(text, i, j)
    IN  [type |-> Spelt(s), line |-> LineAt(i),
         literal |-> IF IsString(s) THEN SubSeq(s, 2, Len(s) - 1) ELSE s]

\* What ends the list of tokens: the end of the text, a character that begins no
\* token ("none"), or one of the places above ("odd").
EndAt(type, i) == <<[type |-> type, line |-> LineAt(i), literal |-> <<"EOF">>]>>

\* Where the comment that begins at i ends.
EndOfComment(i) == Min({j \in i .. Len(text) : text[j] = NL})

\* The tokens from i on.
TokensFrom[i \in 1 .. Len(text) + 1] ==
    IF i > Len(text) THEN EndAt("T_EOF", i)
    ELSE IF text[i] \in Blanks THEN TokensFrom[i + 1]
    ELSE IF IsOpen(i) THEN EndAt("odd", i)
    ELSE IF text[i] = APOSTROPHE THEN TokensFrom[EndOfComment(i) + 1]
    ELSE IF Ends(i) = {} THEN EndAt("none", i)
    ELSE IF IsOdd(i, Max(Ends(i))) THEN EndAt("odd", i)
    ELSE <<TokenAt(i, Max(Ends(i)))>> \o TokensFrom[Max(Ends(i)) + 1]

-----------------------------------------------------------------------------
(* Properties *)

\* The types of the tokens tokenize makes.
TokenTypes ==
    {Singles[ch] : ch \in DOMAIN Singles} \cup {Keywords[word] : word \in DOMAIN Keywords}
    \cup {Comparisons[ch].alone : ch \in DOMAIN Comparisons}
    \cup {Comparisons[ch].equal : ch \in DOMAIN Comparisons}
    \cup {"T_ASSIGN", "T_COLON", "T_EQ", "T_MINUS", "T_OFTYPE", "T_IDENT", "T_EOF",
          "L_STR", "L_INTEGER", "L_FLOAT"}

TypeOK ==
    /\ char_num \in DOMAIN prog_buff
    /\ c \in Chars \cup {NUL}
    /\ line_num \in 1 .. Len(prog_buff)
    /\ tokens \in Seq([type : TokenTypes, line : Nat, literal : Seq(Chars) \cup {<<"EOF">>}])
    /\ status \in {"running", "done", "log_error", "no_line", "overrun"}

\* tokenize finds the longest tokens, each with the number of its line, to the end
\* of the text, or up to the first place where it stops with an error or goes its
\* own way.
TokensAreLongest ==
    status # "running" =>
       LET expected == TokensFrom[1]
           end == Last(expected).type
       IN  /\ end = "T_EOF" => status = "done" /\ tokens = expected
           /\ end = "none" => status = "log_error" /\ tokens = Front(expected)
           /\ end = "odd" => IsPrefix(Front(expected), tokens)

\* A file with its last line ended and no quotes is never read beyond its NUL,
\* though words and comments do not stop there and a lone colon skips what follows.
NoOverrun ==
    status = "overrun" => text = << >> \/ Last(text) # NL \/ QUOTE \in ToSet(text)

\* The line of a token is one of those split_into_lines found: the two count the
\* lines of the file apart, and emit_token ends the process for a line that does
\* not exist.
LinesExist == status # "no_line"

\* Every text is tokenized, or refused, in the end.
Terminates == <>(status # "running")

\* The tokens are spelt as in token.h ("T_EQ = 22, // =="): as many "==" as tokens
\* T_EQ.
EqualsAreSpelt ==
    Cardinality({i \in DOMAIN tokens : tokens[i].type = "T_EQ"})
    <= Cardinality({i \in 1 .. Len(text) - 1 : SubSeq(text, i, i + 1) = <<"=", "=">>})
=============================================================================
