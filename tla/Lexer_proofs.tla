---------------------------- MODULE Lexer_proofs ----------------------------
(***************************************************************************)
(* Theorems about tokenize(), for all files and all keywords: first by the    *)
(* invariant LexInv of the buffer, the lines and the list, then by LongInv,   *)
(* which says that what has been found are the tokens the text spells.       *)
(***************************************************************************)
EXTENDS Lexer, Basics_proofs

-----------------------------------------------------------------------------
(* The inductive invariant *)

Tokens == [type : TokenTypes, line : Nat, literal : Seq(Chars) \cup {<<"EOF">>}]

\* The buffer holds a text and its NUL.
Buffer ==
    /\ prog_buff \in Seq(Chars \cup {NUL})
    /\ Len(prog_buff) >= 1
    /\ prog_buff[Len(prog_buff)] = NUL
    /\ \A i \in 1 .. Len(prog_buff) - 1 : prog_buff[i] \in Chars

\* The character at hand was read at i; after a word and ":=" it is one ahead.
ReadAt(i, ch) ==
    \/ ch = prog_buff[i]
    \/ /\ ch = "=" /\ prog_buff[i] = ":"
       /\ i < Len(prog_buff) /\ prog_buff[i + 1] = "="

Newlines(i) == {j \in 1 .. i - 1 : prog_buff[j] = NL}

\* No more lines are counted than newlines passed: those in strings are not.
LineAtMost(i, line) == line \in Nat /\ line >= 1 /\ line - 1 <= Cardinality(Newlines(i))

\* Its last line is ended, and it has no strings.
Plain == text # << >> /\ Last(text) = NL /\ QUOTE \notin ToSet(text)

LexInv ==
    /\ Buffer
    /\ char_num \in 1 .. Len(prog_buff)
    /\ ReadAt(char_num, c)
    /\ LineAtMost(char_num, line_num)
    /\ tokens \in Seq(Tokens)
    /\ status \in {"running", "done", "log_error", "overrun"}
    /\ status = "overrun" => ~Plain

-----------------------------------------------------------------------------
(* The buffer *)

\* The text is the buffer without its NUL.
LEMMA TextOfBuffer ==
    ASSUME Buffer
    PROVE  /\ text \in Seq(Chars) /\ Len(text) = Len(prog_buff) - 1
           /\ Len(prog_buff) \in Nat
           /\ \A i \in 1 .. Len(prog_buff) - 1 : text[i] = prog_buff[i]
  <1>1. prog_buff \in Seq(Chars \cup {NUL}) /\ prog_buff # << >> /\ Len(prog_buff) \in Nat
    BY EmptySeq DEF Buffer
  <1>2. /\ Front(prog_buff) \in Seq(Chars \cup {NUL})
        /\ Len(Front(prog_buff)) = Len(prog_buff) - 1
        /\ \A i \in 1 .. Len(prog_buff) - 1 : Front(prog_buff)[i] = prog_buff[i]
    BY <1>1, FrontOfSeq
  <1>3. \A i \in 1 .. Len(text) : text[i] \in Chars
    BY <1>2 DEF Buffer, text
  <1>4. text \in Seq(Chars)
    BY <1>2, <1>3 DEF text
  <1> QED
    BY <1>1, <1>2, <1>4 DEF text

\* A piece of the text.
LEMMA PieceOfText ==
    ASSUME Buffer, NEW i \in Nat, NEW j \in Int, i >= 1, j <= Len(prog_buff) - 1
    PROVE  SubSeq(prog_buff, i, j) \in Seq(Chars)
  <1>1. \A k \in i .. j : prog_buff[k] \in Chars
    BY TextOfBuffer DEF Buffer
  <1> QED
    BY <1>1, SubSeqProperties

\* What a plain text looks like in the buffer.
LEMMA PlainBuffer ==
    ASSUME Buffer, Plain
    PROVE  /\ Len(prog_buff) > 1 /\ prog_buff[Len(prog_buff) - 1] = NL
           /\ \A i \in 1 .. Len(prog_buff) - 1 : prog_buff[i] # QUOTE
  <1>1. /\ text \in Seq(Chars) /\ Len(text) = Len(prog_buff) - 1 /\ Len(prog_buff) \in Nat
        /\ \A i \in 1 .. Len(prog_buff) - 1 : text[i] = prog_buff[i]
    BY TextOfBuffer
  <1>2. Len(text) > 0
    BY <1>1, EmptySeq DEF Plain
  <1>3. Last(text) = text[Len(text)] /\ Len(text) \in 1 .. Len(prog_buff) - 1
    BY <1>1, <1>2 DEF Last
  <1>4. prog_buff[Len(prog_buff) - 1] = NL
    BY <1>1, <1>3 DEF Plain
  <1>5. \A i \in 1 .. Len(prog_buff) - 1 : prog_buff[i] # QUOTE
    BY <1>1 DEF Plain, ToSet
  <1> QED
    BY <1>1, <1>2, <1>4, <1>5

\* Where a search of the buffer stops.
LEMMA FirstFound ==
    ASSUME Buffer, NEW i \in Nat, i >= 1, NEW S
    PROVE  \/ /\ FirstOf(i, S) = Len(prog_buff) + 1
              /\ \A j \in i .. Len(prog_buff) : prog_buff[j] \notin S
           \/ /\ FirstOf(i, S) \in i .. Len(prog_buff)
              /\ prog_buff[FirstOf(i, S)] \in S
              /\ \A j \in i .. Len(prog_buff) : prog_buff[j] \in S => FirstOf(i, S) <= j
  <1>1. PICK found : found = {j \in i .. Len(prog_buff) : prog_buff[j] \in S}
    OBVIOUS
  <1>2. FirstOf(i, S) = IF found = {} THEN Len(prog_buff) + 1 ELSE Min(found)
    BY <1>1 DEF FirstOf
  <1>3. found \in SUBSET Nat
    BY <1>1, TextOfBuffer
  <1>4. CASE found = {}
    BY <1>1, <1>2, <1>4
  <1>5. CASE found # {}
    <2>1. Min(found) \in found /\ \A j \in found : Min(found) <= j
      BY <1>3, <1>5, MinOfNats
    <2> QED
      BY <1>1, <1>2, <1>5, <2>1
  <1> QED
    BY <1>4, <1>5

\* A search that NUL stops always finds something.
LEMMA NulFound ==
    ASSUME Buffer, NEW i \in 1 .. Len(prog_buff), NEW S, NUL \in S
    PROVE  /\ FirstOf(i, S) \in i .. Len(prog_buff)
           /\ prog_buff[FirstOf(i, S)] \in S
  <1>1. Len(prog_buff) \in i .. Len(prog_buff) /\ i \in Nat /\ i >= 1
    BY TextOfBuffer
  <1>2. prog_buff[Len(prog_buff)] \in S
    BY DEF Buffer
  <1> QED
    BY <1>1, <1>2, FirstFound

-----------------------------------------------------------------------------
(* Lines *)

\* The newlines before a place can be counted.
LEMMA NewlinesFinite ==
    ASSUME NEW i \in Nat, i >= 1
    PROVE  /\ IsFiniteSet(Newlines(i)) /\ Cardinality(Newlines(i)) \in Nat
           /\ Cardinality(Newlines(i)) <= i - 1
  <1>1. IsFiniteSet(1 .. i - 1) /\ Cardinality(1 .. i - 1) = i - 1
    BY FS_Interval
  <1>2. Newlines(i) \in SUBSET (1 .. i - 1)
    BY DEF Newlines
  <1>3. IsFiniteSet(Newlines(i)) /\ Cardinality(Newlines(i)) <= Cardinality(1 .. i - 1)
    BY <1>1, <1>2, FS_Subset
  <1> QED
    BY <1>1, <1>3, FS_CardinalityType

\* The newlines further on.
LEMMA NewlinesGrow ==
    ASSUME NEW i \in Nat, NEW k \in Nat, i >= 1, i <= k
    PROVE  Cardinality(Newlines(i)) <= Cardinality(Newlines(k))
  <1>1. Newlines(i) \in SUBSET Newlines(k)
    BY DEF Newlines
  <1> QED
    BY <1>1, NewlinesFinite, FS_Subset

\* Passing a newline adds at least one to their count.
LEMMA NewlinePassed ==
    ASSUME NEW i \in Nat, NEW k \in Nat, i >= 1, NEW j \in i .. k - 1, prog_buff[j] = NL
    PROVE  Cardinality(Newlines(i)) + 1 <= Cardinality(Newlines(k))
  <1>1. j \notin Newlines(i) /\ Newlines(i) \cup {j} \in SUBSET Newlines(k)
    BY DEF Newlines
  <1>2. /\ IsFiniteSet(Newlines(i)) /\ IsFiniteSet(Newlines(k))
        /\ Cardinality(Newlines(i)) \in Nat /\ Cardinality(Newlines(k)) \in Nat
    BY NewlinesFinite
  <1>3. Cardinality(Newlines(i) \cup {j}) = Cardinality(Newlines(i)) + 1
    BY <1>1, <1>2, FS_AddElement
  <1>4. Cardinality(Newlines(i) \cup {j}) <= Cardinality(Newlines(k))
    BY <1>1, <1>2, FS_Subset
  <1> QED
    BY <1>3, <1>4

\* The line of a character that is no newline is one of those
\* split_into_lines has found.
LEMMA LineOfChar ==
    ASSUME Buffer, NEW i \in 1 .. Len(prog_buff) - 1, prog_buff[i] # NL
    PROVE  LineCount \in Nat /\ Cardinality(Newlines(i)) + 1 <= LineCount
  <1>1. /\ text \in Seq(Chars) /\ Len(text) = Len(prog_buff) - 1 /\ Len(prog_buff) \in Nat
        /\ \A j \in 1 .. Len(prog_buff) - 1 : text[j] = prog_buff[j]
    BY TextOfBuffer
  <1>2. PICK n : n = Len(prog_buff)
    OBVIOUS
  <1>3. n \in Nat /\ n >= 1 /\ i \in 1 .. n - 1 /\ i \in Nat /\ i >= 1 /\ i <= n
    BY <1>1, <1>2
  <1>4. CountOf(NL, text) = Cardinality(Newlines(n))
    <2>1. {j \in DOMAIN text : text[j] = NL} = Newlines(n)
      BY <1>1, <1>2 DEF Newlines
    <2> QED
      BY <2>1 DEF CountOf
  <1>5. LineCount = Cardinality(Newlines(n)) + (IF text = << >> \/ Last(text) = NL THEN 0 ELSE 1)
    BY <1>4 DEF LineCount, text
  <1>6. text # << >> /\ Last(text) = prog_buff[n - 1]
    BY <1>1, <1>2, <1>3, EmptySeq DEF Last
  <1>7. /\ Cardinality(Newlines(i)) \in Nat /\ Cardinality(Newlines(n)) \in Nat
        /\ Cardinality(Newlines(i)) <= Cardinality(Newlines(n))
    BY <1>3, NewlinesFinite, NewlinesGrow
  <1>8. CASE Last(text) = NL
    <2>1. n - 1 \in i .. n - 1 /\ prog_buff[n - 1] = NL
      BY <1>3, <1>6, <1>8
    <2>2. Cardinality(Newlines(i)) + 1 <= Cardinality(Newlines(n))
      BY <1>3, <2>1, NewlinePassed
    <2> QED
      BY <1>5, <1>7, <1>8, <2>2
  <1>9. CASE Last(text) # NL
    BY <1>5, <1>6, <1>7, <1>9
  <1> QED
    BY <1>8, <1>9

-----------------------------------------------------------------------------
(* One pass *)

\* A pass that reads on, in a plain text not beyond the buffer, and emits tokens
\* only on a line that exists.
GoesWell(i, ch, line, emitted) ==
    /\ i \in Nat /\ i > char_num
    /\ Plain => i <= Len(prog_buff)
    /\ i <= Len(prog_buff) =>
          /\ ReadAt(i, ch) /\ LineAtMost(i, line) /\ emitted \in Seq(Tokens)
          /\ emitted # << >> => LineCount \in Nat /\ line_num <= LineCount

\* What every pass of the loop does.
Reading == LexInv' /\ (status' = "running" => char_num' > char_num)

\* The invariant does not depend on more than the variables it names.
LEMMA SameBuffer ==
    ASSUME UNCHANGED prog_buff
    PROVE  /\ Buffer' <=> Buffer
           /\ Plain' <=> Plain
           /\ \A i, ch : ReadAt(i, ch)' <=> ReadAt(i, ch)
           /\ \A i, line : LineAtMost(i, line)' <=> LineAtMost(i, line)
  BY DEF Buffer, Plain, text, Front, Last, ToSet, ReadAt, LineAtMost, Newlines

\* The loop stops with an error, or, in a text that is not plain, beyond the buffer.
LEMMA StopKeeps ==
    ASSUME LexInv, NEW outcome \in {"log_error", "overrun"}, Stop(outcome),
           outcome = "overrun" => ~Plain
    PROVE  Reading
  BY SameBuffer DEF LexInv, Stop, Reading, Buffer, Plain, text, Front, Last, ToSet,
                    ReadAt, LineAtMost, Newlines

\* A pass that goes well keeps the invariant and reads on.
LEMMA GoOnKeeps ==
    ASSUME LexInv, status = "running", NEW i, NEW ch, NEW line, NEW emitted,
           GoesWell(i, ch, line, emitted), GoOn(i, ch, line, emitted)
    PROVE  Reading
  <1>1. i \in Nat /\ char_num \in Nat /\ Len(prog_buff) \in Nat /\ line_num \in Nat /\ i > char_num
    BY TextOfBuffer DEF LexInv, GoesWell, LineAtMost
  <1>2. CASE i > Len(prog_buff)
    <2>1. Stop("overrun") /\ ~Plain
      BY <1>1, <1>2 DEF GoOn, GoesWell
    <2> QED
      BY <2>1, StopKeeps
  <1>3. CASE ~ (i > Len(prog_buff))
    <2>1. /\ ReadAt(i, ch) /\ LineAtMost(i, line) /\ emitted \in Seq(Tokens)
          /\ emitted # << >> => LineCount \in Nat /\ line_num <= LineCount
      BY <1>1, <1>3 DEF GoesWell
    <2>2. ~ (emitted # << >> /\ line_num > LineCount)
      BY <1>1, <2>1
    <2>3. /\ char_num' = i /\ c' = ch /\ line_num' = line
          /\ tokens' = tokens \o emitted
          /\ UNCHANGED <<prog_buff, status>>
      BY <1>3, <2>2 DEF GoOn
    <2>4. tokens' \in Seq(Tokens)
      BY <2>1, <2>3, ConcatProperties DEF LexInv
    <2>5. Buffer' /\ ReadAt(char_num, c)' /\ LineAtMost(char_num, line_num)'
      BY <2>1, <2>3 DEF LexInv, Buffer, ReadAt, LineAtMost, Newlines
    <2>6. char_num' \in 1 .. Len(prog_buff)'
      BY <1>1, <1>3, <2>3 DEF LexInv
    <2>7. (status \in {"running", "done", "log_error", "overrun"})' /\ status' # "overrun"
      BY <2>3 DEF LexInv
    <2>8. tokens' \in Seq(Tokens')
      BY <2>4 DEF Tokens
    <2> QED
      BY <1>1, <2>3, <2>5, <2>6, <2>7, <2>8 DEF LexInv, Reading
  <1> QED
    BY <1>2, <1>3

\* Where the character at hand is, when it is not the NUL.
LEMMA Here ==
    ASSUME LexInv, c # NUL
    PROVE  /\ char_num \in 1 .. Len(prog_buff) - 1 /\ char_num \in Nat
           /\ Len(prog_buff) \in Nat /\ line_num \in Nat /\ line_num >= 1
           /\ c \in Chars /\ NUL \notin Chars
           /\ prog_buff[char_num] # NL => LineCount \in Nat /\ line_num <= LineCount
           /\ \A i \in Nat : i > char_num => LineAtMost(i, line_num)
           /\ \A i \in 1 .. Len(prog_buff) : prog_buff[i] \in Chars => i <= Len(prog_buff) - 1
  <1>1. Buffer /\ Len(prog_buff) \in Nat /\ char_num \in 1 .. Len(prog_buff) /\ char_num \in Nat
    BY TextOfBuffer DEF LexInv
  <1>2. NUL \notin Chars /\ ":" \in Chars /\ "=" \in Chars
    BY LexerAssumption DEF Chars, Marks, Blanks
  <1>3. \A i \in 1 .. Len(prog_buff) : prog_buff[i] \in Chars => i <= Len(prog_buff) - 1
    <2> SUFFICES ASSUME NEW i \in 1 .. Len(prog_buff), prog_buff[i] \in Chars
                 PROVE  i <= Len(prog_buff) - 1
      OBVIOUS
    <2>1. i # Len(prog_buff)
      BY <1>1, <1>2 DEF Buffer
    <2> QED
      BY <1>1, <2>1
  <1>4. char_num # Len(prog_buff)
    BY <1>1, <1>2 DEF LexInv, ReadAt, Buffer
  <1>5. char_num \in 1 .. Len(prog_buff) - 1
    BY <1>1, <1>4
  <1>6. c \in Chars
    BY <1>1, <1>2, <1>5 DEF LexInv, ReadAt, Buffer
  <1>7. /\ line_num \in Nat /\ line_num >= 1
        /\ line_num - 1 <= Cardinality(Newlines(char_num))
    BY DEF LexInv, LineAtMost
  <1>8. char_num >= 1 /\ Cardinality(Newlines(char_num)) \in Nat
    BY <1>1, NewlinesFinite
  <1>9. ASSUME prog_buff[char_num] # NL PROVE LineCount \in Nat /\ line_num <= LineCount
    <2>1. LineCount \in Nat /\ Cardinality(Newlines(char_num)) + 1 <= LineCount
      BY <1>1, <1>5, <1>9, LineOfChar
    <2> QED
      BY <1>7, <1>8, <2>1
  <1>10. ASSUME NEW i \in Nat, i > char_num PROVE LineAtMost(i, line_num)
    <2>1. /\ Cardinality(Newlines(char_num)) <= Cardinality(Newlines(i))
          /\ Cardinality(Newlines(i)) \in Nat
      BY <1>1, <1>8, <1>10, NewlinesGrow, NewlinesFinite
    <2> QED
      BY <1>7, <1>8, <2>1 DEF LineAtMost
  <1> QED
    BY <1>1, <1>2, <1>3, <1>5, <1>6, <1>7, <1>9, <1>10

\* The line after one whose newline is passed.
LEMMA NextLine ==
    ASSUME LexInv, NEW i \in Nat, NEW j \in char_num .. i - 1, prog_buff[j] = NL
    PROVE  LineAtMost(i, line_num + 1)
  <1>1. char_num \in Nat /\ char_num >= 1 /\ i >= 1 /\ j \in Nat
    BY TextOfBuffer DEF LexInv
  <1>2. Cardinality(Newlines(char_num)) + 1 <= Cardinality(Newlines(i))
    BY <1>1, NewlinePassed
  <1>3. Cardinality(Newlines(char_num)) \in Nat /\ Cardinality(Newlines(i)) \in Nat
    BY <1>1, NewlinesFinite
  <1> QED
    BY <1>2, <1>3 DEF LexInv, LineAtMost

\* No tokens, and a few.
LEMMA TokenLists ==
    /\ << >> \in Seq(Tokens)
    /\ \A t \in Tokens : <<t>> \in Seq(Tokens)
    /\ \A t, u \in Tokens : <<t, u>> \in Seq(Tokens)
  OBVIOUS

\* A token of a line.
LEMMA TokenTyped ==
    ASSUME line_num \in Nat, NEW type \in TokenTypes, NEW literal \in Seq(Chars)
    PROVE  Token(type, literal) \in Tokens
  BY DEF Token, Tokens

-----------------------------------------------------------------------------
(* The branches of the loop, one by one *)

\* A token of the character at hand and the one that follows, neither a newline.
LEMMA PairKeeps ==
    ASSUME LexInv, status = "running", c # NUL, prog_buff[char_num] # NL, Following \in Chars,
           NEW type \in TokenTypes, NEW literal \in Seq(Chars),
           Resume(char_num + 2, line_num, <<Token(type, literal)>>)
    PROVE  Reading
  <1>1. char_num + 1 \in 1 .. Len(prog_buff) /\ prog_buff[char_num + 1] \in Chars
    BY Here DEF Following
  <1>2. char_num + 2 <= Len(prog_buff)
    BY <1>1, Here
  <1>3. PICK emitted : emitted = <<Token(type, literal)>>
    OBVIOUS
  <1>4. emitted \in Seq(Tokens)
    BY <1>3, Here, TokenTyped, TokenLists
  <1>5. GoesWell(char_num + 2, prog_buff[char_num + 2], line_num, emitted)
    BY <1>2, <1>4, Here DEF GoesWell, ReadAt
  <1>6. GoOn(char_num + 2, prog_buff[char_num + 2], line_num, emitted)
    BY <1>3 DEF Resume
  <1> QED
    BY <1>5, <1>6, GoOnKeeps

\* A token of the character at hand alone, no newline.
LEMMA AloneKeeps ==
    ASSUME LexInv, status = "running", c # NUL, prog_buff[char_num] # NL,
           NEW type \in TokenTypes, NEW literal \in Seq(Chars),
           Resume(char_num + 1, line_num, <<Token(type, literal)>>)
    PROVE  Reading
  <1>1. PICK emitted : emitted = <<Token(type, literal)>>
    OBVIOUS
  <1>2. emitted \in Seq(Tokens)
    BY <1>1, Here, TokenTyped, TokenLists
  <1>3. GoesWell(char_num + 1, prog_buff[char_num + 1], line_num, emitted)
    BY <1>2, Here DEF GoesWell, ReadAt
  <1>4. GoOn(char_num + 1, prog_buff[char_num + 1], line_num, emitted)
    BY <1>1 DEF Resume
  <1> QED
    BY <1>3, <1>4, GoOnKeeps

\* A number up to before i.
LEMMA NumberKeeps ==
    ASSUME LexInv, status = "running", c # NUL, prog_buff[char_num] # NL,
           NEW i \in 1 .. Len(prog_buff), i > char_num, NEW type \in TokenTypes,
           Resume(i, line_num, <<Token(type, SubSeq(prog_buff, char_num, i - 1))>>)
    PROVE  Reading
  <1>1. PICK emitted : emitted = <<Token(type, SubSeq(prog_buff, char_num, i - 1))>>
    OBVIOUS
  <1>2. /\ Buffer /\ char_num \in Nat /\ char_num >= 1 /\ i \in Nat
        /\ i - 1 \in Int /\ i - 1 <= Len(prog_buff) - 1 /\ line_num \in Nat
    BY Here DEF LexInv
  <1>3. SubSeq(prog_buff, char_num, i - 1) \in Seq(Chars)
    BY <1>2, PieceOfText
  <1>4. emitted \in Seq(Tokens)
    BY <1>1, <1>2, <1>3, TokenTyped, TokenLists
  <1>5. GoesWell(i, prog_buff[i], line_num, emitted)
    BY <1>2, <1>4, Here DEF GoesWell, ReadAt
  <1>6. GoOn(i, prog_buff[i], line_num, emitted)
    BY <1>1 DEF Resume
  <1> QED
    BY <1>5, <1>6, GoOnKeeps

\* A blank is passed over.
LEMMA BlankStep ==
    ASSUME LexInv, Blank
    PROVE  Reading
  <1>1. status = "running" /\ c \in Blanks /\ c # NUL /\ c # "="
    BY LexerAssumption DEF Blank, Reads, Blanks, Chars, Marks, SPACE, NL
  <1>2. PICK line : line = (IF c = NL THEN line_num + 1 ELSE line_num)
    OBVIOUS
  <1>3. GoOn(char_num + 1, prog_buff[char_num + 1], line, << >>)
    BY <1>2 DEF Blank, Resume
  <1>4. prog_buff[char_num] = c
    BY <1>1 DEF LexInv, ReadAt
  <1>5. LineAtMost(char_num + 1, line)
    BY <1>1, <1>2, <1>4, Here, NextLine
  <1>6. GoesWell(char_num + 1, prog_buff[char_num + 1], line, << >>)
    BY <1>1, <1>5, Here, TokenLists DEF GoesWell, ReadAt
  <1> QED
    BY <1>1, <1>3, <1>6, GoOnKeeps

\* A token of one character.
LEMMA SingleStep ==
    ASSUME LexInv, Single
    PROVE  Reading
  <1>1. status = "running" /\ c \in DOMAIN Singles /\ c # NUL /\ c # "=" /\ c # NL
    BY LexerAssumption DEF Single, Reads, Singles, Chars, Marks, Blanks, NL
  <1>2. Singles[c] \in TokenTypes
    BY <1>1 DEF TokenTypes
  <1>3. c \in Chars
    BY <1>1, Here
  <1>4. <<c>> \in Seq(Chars)
    BY <1>3
  <1>5. prog_buff[char_num] # NL
    BY <1>1 DEF LexInv, ReadAt
  <1>6. Resume(char_num + 1, line_num, <<Token(Singles[c], <<c>>)>>)
    BY DEF Single
  <1> QED
    BY <1>1, <1>2, <1>4, <1>5, <1>6, AloneKeeps

\* A string: a plain text has none.
LEMMA StringLiteralStep ==
    ASSUME LexInv, StringLiteral
    PROVE  Reading
  <1>1. status = "running" /\ c = QUOTE /\ c # NUL /\ c # "=" /\ c # NL /\ QUOTE \in Chars
    BY LexerAssumption DEF StringLiteral, Reads, Chars, Marks, Blanks, NL, QUOTE
  <1>2. prog_buff[char_num] = QUOTE /\ Buffer
    BY <1>1 DEF LexInv, ReadAt
  <1>3. ~Plain
    BY <1>1, <1>2, Here, PlainBuffer
  <1>4. PICK end : end = FirstOf(char_num + 1, {QUOTE})
    OBVIOUS
  <1>5. PICK emitted : emitted = <<Token("L_STR", SubSeq(prog_buff, char_num + 1, end - 1))>>
    OBVIOUS
  <1>6. GoOn(end + 1, prog_buff[end + 1], line_num, emitted)
    BY <1>4, <1>5 DEF StringLiteral, Resume
  <1>7. \/ end = Len(prog_buff) + 1
        \/ end \in char_num + 1 .. Len(prog_buff) /\ prog_buff[end] = QUOTE
    BY <1>1, <1>2, <1>4, Here, FirstFound
  <1>8. end \in Nat /\ end + 1 > char_num
    BY <1>1, <1>7, Here
  <1>9. ASSUME end + 1 <= Len(prog_buff) PROVE emitted \in Seq(Tokens)
    <2>1. /\ char_num + 1 \in Nat /\ char_num + 1 >= 1
          /\ end - 1 \in Int /\ end - 1 <= Len(prog_buff) - 1
      BY <1>1, <1>8, <1>9, Here
    <2>2. SubSeq(prog_buff, char_num + 1, end - 1) \in Seq(Chars)
      BY <1>2, <2>1, PieceOfText
    <2>3. line_num \in Nat
      BY <1>1, Here
    <2>4. Token("L_STR", SubSeq(prog_buff, char_num + 1, end - 1)) \in Tokens
      BY <2>2, <2>3, TokenTyped DEF TokenTypes
    <2> QED
      BY <1>5, <2>4, TokenLists
  <1>10. GoesWell(end + 1, prog_buff[end + 1], line_num, emitted)
    BY <1>1, <1>2, <1>3, <1>8, <1>9, Here DEF GoesWell, ReadAt, QUOTE, NL
  <1> QED
    BY <1>1, <1>6, <1>10, GoOnKeeps

\* A comment ends with its line, which a plain text ends.
LEMMA CommentStep ==
    ASSUME LexInv, Comment
    PROVE  Reading
  <1>1. status = "running" /\ c # NUL /\ Buffer
    BY LexerAssumption DEF Comment, Reads, Chars, Marks, Blanks, APOSTROPHE, LexInv
  <1>2. PICK end : end = FirstOf(char_num, {NL})
    OBVIOUS
  <1>3. GoOn(end + 1, prog_buff[end + 1], line_num + 1, << >>)
    BY <1>2 DEF Comment, Resume
  <1>4. \/ /\ end = Len(prog_buff) + 1
           /\ \A j \in char_num .. Len(prog_buff) : prog_buff[j] # NL
        \/ end \in char_num .. Len(prog_buff) /\ prog_buff[end] = NL
    BY <1>1, <1>2, Here, FirstFound
  <1>5. end \in Nat /\ end >= char_num
    BY <1>1, <1>4, Here
  <1>6. ASSUME end \in char_num .. Len(prog_buff), prog_buff[end] = NL
        PROVE  end + 1 <= Len(prog_buff) /\ LineAtMost(end + 1, line_num + 1)
    <2>1. NL \in Chars /\ end \in 1 .. Len(prog_buff)
      BY <1>1, <1>6, Here DEF Chars, Marks, Blanks, NL
    <2>2. end <= Len(prog_buff) - 1
      BY <1>1, <1>6, <2>1, Here
    <2>3. LineAtMost(end + 1, line_num + 1)
      BY <1>5, <1>6, NextLine
    <2> QED
      BY <1>1, <1>5, <2>2, <2>3, Here
  <1>7. ASSUME Plain PROVE end + 1 <= Len(prog_buff)
    <2>1. prog_buff[Len(prog_buff) - 1] = NL
      BY <1>1, <1>7, PlainBuffer
    <2>2. Len(prog_buff) - 1 \in char_num .. Len(prog_buff)
      BY <1>1, Here
    <2> QED
      BY <1>4, <1>6, <2>1, <2>2
  <1>8. ASSUME end + 1 <= Len(prog_buff) PROVE LineAtMost(end + 1, line_num + 1)
    BY <1>1, <1>4, <1>5, <1>6, <1>8, Here
  <1>9. GoesWell(end + 1, prog_buff[end + 1], line_num + 1, << >>)
    BY <1>1, <1>5, <1>7, <1>8, Here, TokenLists DEF GoesWell, ReadAt
  <1> QED
    BY <1>1, <1>3, <1>9, GoOnKeeps

\* Two characters are read after a colon that is the last one but the NUL.
LEMMA ColonStep ==
    ASSUME LexInv, Colon
    PROVE  Reading
  <1>1. status = "running" /\ c = ":" /\ c # NUL /\ Buffer
    BY LexerAssumption DEF Colon, Reads, Chars, Marks, Blanks, LexInv
  <1>2. PICK emitted :
           emitted = IF Following = "=" THEN <<Token("T_ASSIGN", <<":", "=">>)>> ELSE << >>
    OBVIOUS
  <1>3. GoOn(char_num + 2, prog_buff[char_num + 2], line_num, emitted)
    BY <1>2 DEF Colon, Resume
  <1>4. <<":", "=">> \in Seq(Chars)
    BY DEF Chars, Marks, Blanks
  <1>5. emitted \in Seq(Tokens)
    <2>1. line_num \in Nat
      BY <1>1, Here
    <2>2. Token("T_ASSIGN", <<":", "=">>) \in Tokens
      BY <1>4, <2>1, TokenTyped DEF TokenTypes
    <2> QED
      BY <1>2, <2>2, TokenLists
  <1>6. prog_buff[char_num] = ":" /\ ":" # NL
    BY <1>1 DEF LexInv, ReadAt, NL
  <1>7. ASSUME Plain PROVE char_num + 2 <= Len(prog_buff)
    <2>1. prog_buff[Len(prog_buff) - 1] = NL
      BY <1>1, <1>7, PlainBuffer
    <2>2. char_num # Len(prog_buff) - 1
      BY <1>6, <2>1
    <2> QED
      BY <1>1, <2>2, Here
  <1>8. GoesWell(char_num + 2, prog_buff[char_num + 2], line_num, emitted)
    BY <1>1, <1>5, <1>6, <1>7, Here DEF GoesWell, ReadAt
  <1> QED
    BY <1>1, <1>3, <1>8, GoOnKeeps

\* An equals sign at hand, which may be the second character of ":=".
LEMMA EqualsStep ==
    ASSUME LexInv, Equals
    PROVE  Reading
  <1>1. status = "running" /\ c = "=" /\ c # NUL
    BY LexerAssumption DEF Equals, Reads, Chars, Marks, Blanks
  <1>2. CASE Following = "="
    <2>1. Resume(char_num + 2, line_num, <<Token("T_EQ", <<"=", "=">>)>>)
      BY <1>2 DEF Equals
    <2>2. Following \in Chars /\ <<"=", "=">> \in Seq(Chars) /\ "T_EQ" \in TokenTypes
      BY <1>2 DEF Chars, Marks, Blanks, TokenTypes
    <2>3. prog_buff[char_num] # NL
      BY <1>1 DEF LexInv, ReadAt, NL
    <2> QED
      BY <1>1, <2>1, <2>2, <2>3, PairKeeps
  <1>3. CASE Following # "="
    <2>1. Stop("log_error") /\ "log_error" \in {"log_error", "overrun"} /\ "log_error" # "overrun"
      BY <1>3 DEF Equals
    <2> QED
      BY <2>1, StopKeeps
  <1> QED
    BY <1>2, <1>3

\* A comparison with and without "=".
LEMMA ComparisonStep ==
    ASSUME LexInv, Comparison
    PROVE  Reading
  <1>1. status = "running" /\ c \in DOMAIN Comparisons /\ c # NUL /\ c # "=" /\ c # NL
    BY LexerAssumption DEF Comparison, Reads, Comparisons, Chars, Marks, Blanks, NL
  <1>2. prog_buff[char_num] # NL /\ c \in Chars /\ "=" \in Chars
    BY <1>1, Here DEF LexInv, ReadAt, Chars, Marks, Blanks
  <1>3. Comparisons[c].alone \in TokenTypes /\ Comparisons[c].equal \in TokenTypes
    BY <1>1 DEF TokenTypes
  <1>4. <<c>> \in Seq(Chars) /\ <<c, "=">> \in Seq(Chars)
    BY <1>2
  <1>5. CASE Following = "="
    <2>1. Resume(char_num + 2, line_num, <<Token(Comparisons[c].equal, <<c, "=">>)>>)
      BY <1>5 DEF Comparison
    <2> QED
      BY <1>1, <1>2, <1>3, <1>4, <1>5, <2>1, PairKeeps
  <1>6. CASE Following # "="
    <2>1. Resume(char_num + 1, line_num, <<Token(Comparisons[c].alone, <<c>>)>>)
      BY <1>6 DEF Comparison
    <2> QED
      BY <1>1, <1>2, <1>3, <1>4, <2>1, AloneKeeps
  <1> QED
    BY <1>5, <1>6

\* The digits from i on end at the NUL if not before.
LEMMA LexNumberStep ==
    ASSUME LexInv, status = "running", c # NUL, prog_buff[char_num] # NL,
           NEW i \in 1 .. Len(prog_buff), i >= char_num, prog_buff[i] \in Digits, LexNumber(i)
    PROVE  Reading
  <1>1. PICK S : S = (Chars \cup {NUL}) \ Digits
    OBVIOUS
  <1>2. NUL \in S /\ "." \in Chars /\ Buffer /\ line_num \in Nat
    BY <1>1, Here, LexerAssumption DEF Chars, Marks, Blanks, Singles, LexInv
  <1>3. PICK point : point = FirstOf(i, S)
    OBVIOUS
  <1>4. point \in i .. Len(prog_buff) /\ prog_buff[point] \in S
    BY <1>2, <1>3, NulFound
  <1>5. point # i
    BY <1>1, <1>4
  <1>6. point \in Nat /\ point > char_num /\ point \in 1 .. Len(prog_buff)
    BY <1>4, <1>5, Here
  <1>7. CASE prog_buff[point] # "."
    <2>1. Resume(point, line_num, <<Token("L_INTEGER", SubSeq(prog_buff, char_num, point - 1))>>)
      BY <1>1, <1>3, <1>7 DEF LexNumber
    <2> QED
      BY <1>6, <2>1, NumberKeeps DEF TokenTypes
  <1>8. CASE prog_buff[point] = "."
    <2>1. point + 1 \in 1 .. Len(prog_buff)
      BY <1>2, <1>6, <1>8, Here
    <2>2. PICK end : end = FirstOf(point + 1, S)
      OBVIOUS
    <2>3. end \in point + 1 .. Len(prog_buff)
      BY <1>2, <2>1, <2>2, NulFound
    <2>4. end \in Nat /\ end > char_num /\ end \in 1 .. Len(prog_buff)
      BY <1>6, <2>3, Here
    <2>5. CASE end = point + 1
      <3>1. Stop("log_error") /\ "log_error" \in {"log_error", "overrun"} /\ "log_error" # "overrun"
        BY <1>1, <1>3, <1>8, <2>2, <2>5 DEF LexNumber
      <3> QED
        BY <3>1, StopKeeps
    <2>6. CASE end # point + 1
      <3>1. Resume(end, line_num, <<Token("L_FLOAT", SubSeq(prog_buff, char_num, end - 1))>>)
        BY <1>1, <1>3, <1>8, <2>2, <2>6 DEF LexNumber
      <3> QED
        BY <2>4, <3>1, NumberKeeps DEF TokenTypes
    <2> QED
      BY <2>5, <2>6
  <1> QED
    BY <1>7, <1>8

\* A number in digits from the character at hand on.
LEMMA NumberStep ==
    ASSUME LexInv, Number
    PROVE  Reading
  <1>1. status = "running" /\ c \in Digits /\ LexNumber(char_num)
    BY DEF Number, Reads
  <1>2. c # NUL /\ c # "=" /\ c # NL
    BY <1>1, LexerAssumption DEF Chars, Marks, Blanks
  <1>3. prog_buff[char_num] = c
    BY <1>2 DEF LexInv, ReadAt
  <1>4. char_num \in 1 .. Len(prog_buff) /\ char_num >= char_num
    BY <1>2, Here DEF LexInv
  <1> QED
    BY <1>1, <1>2, <1>3, <1>4, LexNumberStep

\* A sign, an arrow or an operator.
LEMMA MinusStep ==
    ASSUME LexInv, Minus
    PROVE  Reading
  <1>1. status = "running" /\ c = "-" /\ c # NUL
    BY LexerAssumption DEF Minus, Reads, Chars, Marks, Blanks
  <1>2. prog_buff[char_num] # NL
    BY <1>1 DEF LexInv, ReadAt, NL
  <1>3. CASE Following \in Digits
    <2>1. LexNumber(char_num + 1) /\ prog_buff[char_num + 1] \in Digits
      BY <1>3 DEF Minus, Following
    <2>2. char_num + 1 \in 1 .. Len(prog_buff) /\ char_num + 1 >= char_num
      BY <1>1, Here
    <2> QED
      BY <1>1, <1>2, <2>1, <2>2, LexNumberStep
  <1>4. CASE Following \notin Digits /\ Following = ">"
    <2>1. Resume(char_num + 2, line_num, <<Token("T_OFTYPE", <<"-", ">">>)>>)
      BY <1>4 DEF Minus
    <2>2. Following \in Chars /\ <<"-", ">">> \in Seq(Chars) /\ "T_OFTYPE" \in TokenTypes
      BY <1>4 DEF Chars, Marks, Blanks, Comparisons, TokenTypes
    <2> QED
      BY <1>1, <1>2, <2>1, <2>2, PairKeeps
  <1>5. CASE Following \notin Digits /\ Following # ">"
    <2>1. Resume(char_num + 1, line_num, <<Token("T_MINUS", <<"-">>)>>)
      BY <1>5 DEF Minus
    <2>2. <<"-">> \in Seq(Chars) /\ "T_MINUS" \in TokenTypes
      BY DEF Chars, Marks, Blanks, TokenTypes
    <2> QED
      BY <1>1, <1>2, <2>1, <2>2, AloneKeeps
  <1> QED
    BY <1>3, <1>4, <1>5

\* A word and what ends it, which a plain text always has: its last newline.
LEMMA WordStep ==
    ASSUME LexInv, Word
    PROVE  Reading
  <1>1. status = "running" /\ c \in Letters /\ Buffer
    BY DEF Word, Reads, LexInv
  <1>2. c # NUL /\ c # "=" /\ c # NL
    BY <1>1, LexerAssumption DEF Chars, Marks, Blanks
  <1>3. prog_buff[char_num] = c
    BY <1>2 DEF LexInv, ReadAt
  <1>4. PICK S : S = {NL, SPACE} \cup Delimiters
    OBVIOUS
  <1>5. PICK end : end = FirstOf(char_num + 1, S)
    OBVIOUS
  <1>6. /\ char_num \in Nat /\ char_num + 1 \in Nat /\ char_num + 1 >= 1
        /\ Len(prog_buff) \in Nat /\ line_num \in Nat /\ char_num <= Len(prog_buff) - 1
    BY <1>2, Here
  <1>7. \/ /\ end = Len(prog_buff) + 1
           /\ \A j \in char_num + 1 .. Len(prog_buff) : prog_buff[j] \notin S
        \/ end \in char_num + 1 .. Len(prog_buff) /\ prog_buff[end] \in S
    BY <1>1, <1>5, <1>6, FirstFound
  <1>8. end \in Nat /\ end > char_num
    BY <1>6, <1>7
  <1>9. CASE end > Len(prog_buff)
    <2>1. Stop("overrun")
      BY <1>4, <1>5, <1>9 DEF Word
    <2>2. ASSUME Plain PROVE FALSE
      <3>1. prog_buff[Len(prog_buff) - 1] = NL /\ NL \in S
        BY <1>1, <1>4, <2>2, PlainBuffer
      <3>2. char_num # Len(prog_buff) - 1
        BY <1>2, <1>3, <3>1
      <3>3. Len(prog_buff) - 1 \in char_num + 1 .. Len(prog_buff)
        BY <1>6, <3>2
      <3> QED
        BY <1>6, <1>7, <1>9, <3>1, <3>3
    <2> QED
      BY <2>1, <2>2, StopKeeps
  <1>10. CASE end <= Len(prog_buff)
    <2>1. end \in 1 .. Len(prog_buff) /\ prog_buff[end] \in S
      BY <1>6, <1>7, <1>10
    <2>2. S \in SUBSET Chars
      BY <1>4 DEF Delimiters, Chars, Marks, Blanks, Singles
    <2>3. end <= Len(prog_buff) - 1
      BY <1>2, <2>1, <2>2, Here
    <2>4. PICK word : word = WordToken(SubSeq(prog_buff, char_num, end - 1))
      OBVIOUS
    <2>5. word \in Tokens
      <3>1. SubSeq(prog_buff, char_num, end - 1) \in Seq(Chars)
        <4>1. char_num >= 1 /\ end - 1 \in Int /\ end - 1 <= Len(prog_buff) - 1
          BY <1>2, <1>6, <1>8, <1>10, Here
        <4> QED
          BY <1>1, <1>6, <4>1, PieceOfText
      <3>2. PICK literal \in Seq(Chars) : literal = SubSeq(prog_buff, char_num, end - 1)
        BY <3>1
      <3>3. PICK type : type = (IF is_keyword(literal) THEN Keywords[literal] ELSE "T_IDENT")
        OBVIOUS
      <3>4. type \in TokenTypes
        BY <3>3 DEF is_keyword, TokenTypes
      <3>5. Token(type, literal) \in Tokens
        BY <1>6, <3>4, TokenTyped
      <3> QED
        BY <2>4, <3>2, <3>3, <3>5 DEF WordToken
    <2>6. prog_buff[char_num] # NL => LineCount \in Nat /\ line_num <= LineCount
      BY <1>2, Here
    <2>7. CASE prog_buff[end] = ":" /\ prog_buff[end + 1] = "="
      <3>1. GoOn(end, "=", line_num, <<word>>)
        BY <1>4, <1>5, <1>6, <1>8, <1>10, <2>4, <2>7 DEF Word
      <3>2. ReadAt(end, "=")
        BY <1>6, <1>8, <2>3, <2>7 DEF ReadAt
      <3>3. LineAtMost(end, line_num)
        BY <1>2, <1>8, Here
      <3>4. <<word>> \in Seq(Tokens)
        BY <2>5, TokenLists
      <3>5. GoesWell(end, "=", line_num, <<word>>)
        BY <1>2, <1>3, <1>8, <1>10, <2>6, <3>2, <3>3, <3>4 DEF GoesWell
      <3> QED
        BY <1>1, <3>1, <3>5, GoOnKeeps
    <2>8. CASE ~ (prog_buff[end] = ":" /\ prog_buff[end + 1] = "=")
      <3>1. PICK ending : ending = prog_buff[end]
        OBVIOUS
      <3>2. PICK line : line = (IF ending = NL THEN line_num + 1 ELSE line_num)
        OBVIOUS
      <3>3. PICK emitted :
               emitted = CASE ending \in {NL, SPACE} -> <<word>>
                           [] ending = ":" -> <<word, Token("T_COLON", <<":">>)>>
                           [] OTHER -> <<word, Token(Singles[ending], <<ending>>)>>
        OBVIOUS
      <3>4. GoOn(end + 1, prog_buff[end + 1], line, emitted)
        BY <1>4, <1>5, <1>6, <1>8, <1>10, <2>4, <2>8, <3>1, <3>2, <3>3 DEF Word, Resume
      <3>5. LineAtMost(end + 1, line)
        <4>1. CASE ending = NL
          <5>1. end \in char_num .. (end + 1) - 1 /\ end + 1 \in Nat
            BY <1>6, <1>8
          <5>2. LineAtMost(end + 1, line_num + 1)
            BY <3>1, <4>1, <5>1, NextLine
          <5> QED
            BY <3>2, <4>1, <5>2
        <4>2. CASE ending # NL
          <5>1. end + 1 \in Nat /\ end + 1 > char_num
            BY <1>6, <1>8
          <5> QED
            BY <1>2, <3>2, <4>2, <5>1, Here
        <4> QED
          BY <4>1, <4>2
      <3>6. emitted \in Seq(Tokens)
        <4>1. CASE ending \in {NL, SPACE}
          <5>1. emitted = <<word>>
            BY <3>3, <4>1 DEF NL, SPACE
          <5> QED
            BY <2>5, <5>1, TokenLists
        <4>2. CASE ending = ":"
          <5>1. <<":">> \in Seq(Chars) /\ "T_COLON" \in TokenTypes
            BY DEF Chars, Marks, Blanks, TokenTypes
          <5>2. Token("T_COLON", <<":">>) \in Tokens
            BY <1>6, <5>1, TokenTyped
          <5>3. emitted = <<word, Token("T_COLON", <<":">>)>>
            BY <3>3, <4>2 DEF NL, SPACE
          <5> QED
            BY <2>5, <5>2, <5>3, TokenLists
        <4>3. CASE ending \notin {NL, SPACE} /\ ending # ":"
          <5>1. ending \in DOMAIN Singles /\ ending \in Chars
            BY <1>4, <2>1, <2>2, <3>1, <4>3 DEF Delimiters, Singles
          <5>2. Singles[ending] \in TokenTypes
            BY <5>1 DEF TokenTypes
          <5>3. <<ending>> \in Seq(Chars)
            BY <5>1
          <5>4. Token(Singles[ending], <<ending>>) \in Tokens
            BY <1>6, <5>2, <5>3, TokenTyped
          <5>5. emitted = <<word, Token(Singles[ending], <<ending>>)>>
            BY <3>3, <4>3
          <5> QED
            BY <2>5, <5>4, <5>5, TokenLists
        <4> QED
          BY <4>1, <4>2, <4>3
      <3>7. GoesWell(end + 1, prog_buff[end + 1], line, emitted)
        BY <1>2, <1>3, <1>6, <1>8, <2>3, <2>6, <3>5, <3>6 DEF GoesWell, ReadAt
      <3> QED
        BY <1>1, <3>4, <3>7, GoOnKeeps
    <2> QED
      BY <2>7, <2>8
  <1> QED
    BY <1>6, <1>8, <1>9, <1>10

\* The loop ends at the NUL.
LEMMA EndOfFileStep ==
    ASSUME LexInv, EndOfFile
    PROVE  Reading
  <1>1. PICK t : t = Token("T_EOF", <<"EOF">>)
    OBVIOUS
  <1>2. line_num \in Nat /\ "T_EOF" \in TokenTypes
    BY DEF LexInv, LineAtMost, TokenTypes
  <1>3. t \in Tokens
    BY <1>1, <1>2 DEF Token, Tokens
  <1>4. Append(tokens, t) \in Seq(Tokens)
    BY <1>3, AppendProperties DEF LexInv
  <1>5. /\ tokens' = Append(tokens, t) /\ status' = "done"
        /\ UNCHANGED <<prog_buff, char_num, c, line_num>>
    BY <1>1 DEF EndOfFile
  <1>6. tokens' \in Seq(Tokens')
    BY <1>4, <1>5 DEF Tokens
  <1>7. (status \in {"running", "done", "log_error", "overrun"})' /\ status' # "overrun"
        /\ status' # "running"
    BY <1>5
  <1>8. Buffer' /\ ReadAt(char_num, c)' /\ LineAtMost(char_num, line_num)'
    BY <1>5 DEF LexInv, Buffer, ReadAt, LineAtMost, Newlines
  <1> QED
    BY <1>5, <1>6, <1>7, <1>8 DEF LexInv, Reading

\* Every pass of the loop.
LEMMA PassStep ==
    ASSUME LexInv, tokenize
    PROVE  Reading
  <1>1. CASE Blank         BY <1>1, BlankStep
  <1>2. CASE Single        BY <1>2, SingleStep
  <1>3. CASE StringLiteral BY <1>3, StringLiteralStep
  <1>4. CASE Comment       BY <1>4, CommentStep
  <1>5. CASE Colon         BY <1>5, ColonStep
  <1>6. CASE Equals        BY <1>6, EqualsStep
  <1>7. CASE Comparison    BY <1>7, ComparisonStep
  <1>8. CASE Number        BY <1>8, NumberStep
  <1>9. CASE Minus         BY <1>9, MinusStep
  <1>10. CASE Word         BY <1>10, WordStep
  <1>11. CASE Unknown
    <2>1. Stop("log_error") /\ "log_error" \in {"log_error", "overrun"} /\ "log_error" # "overrun"
      BY <1>11 DEF Unknown
    <2> QED
      BY <2>1, StopKeeps
  <1>12. CASE EndOfFile    BY <1>12, EndOfFileStep
  <1> QED
    BY <1>1, <1>2, <1>3, <1>4, <1>5, <1>6, <1>7, <1>8, <1>9, <1>10, <1>11, <1>12 DEF tokenize

-----------------------------------------------------------------------------
(* The theorems that follow from LexInv *)

\* The files that are read satisfy the invariant.
LEMMA InitLex ==
    ASSUME Init
    PROVE  LexInv
  <1>1. PICK t \in Texts : prog_buff = Append(t, NUL)
    BY DEF Init, Globals
  <1>2. t \in Seq(Chars)
    BY LexerAssumption
  <1>3. Len(t) \in Nat /\ t \in Seq(Chars \cup {NUL})
    BY <1>2
  <1>4. /\ prog_buff \in Seq(Chars \cup {NUL}) /\ Len(prog_buff) = Len(t) + 1
        /\ \A i \in 1 .. Len(t) : prog_buff[i] = t[i]
        /\ prog_buff[Len(t) + 1] = NUL
    BY <1>1, <1>3, AppendProperties
  <1>5. \A i \in 1 .. Len(t) : prog_buff[i] \in Chars
    BY <1>2, <1>4
  <1>6. Buffer
    BY <1>3, <1>4, <1>5 DEF Buffer
  <1>7. /\ char_num = 1 /\ c = prog_buff[1] /\ line_num = 1 /\ tokens = << >>
        /\ status = "running"
    BY DEF Init, Globals
  <1>8. LineAtMost(1, 1)
    BY NewlinesFinite DEF LineAtMost
  <1>9. tokens \in Seq(Tokens)
    BY <1>7, TokenLists
  <1> QED
    BY <1>3, <1>4, <1>6, <1>7, <1>8, <1>9 DEF LexInv, ReadAt

\* So does every later state.
LEMMA NextLex ==
    ASSUME LexInv, [Next]_vars
    PROVE  LexInv'
  <1>1. CASE tokenize
    BY <1>1, PassStep DEF Reading
  <1>2. CASE UNCHANGED vars
    BY <1>2 DEF vars, LexInv, Buffer, ReadAt, LineAtMost, Newlines, Tokens, Plain, text,
                Front, Last, ToSet
  <1> QED
    BY <1>1, <1>2 DEF Next, Ended

\* The invariant holds in every reachable state.
LEMMA SpecLex == Spec => []LexInv
  <1>1. Init => LexInv
    BY InitLex
  <1>2. LexInv /\ [Next]_vars => LexInv'
    BY NextLex
  <1> QED
    BY <1>1, <1>2, PTL DEF Spec

\* Whatever the file, the place tokenize() goes on from is in its buffer (a search
\* that leaves it ends in "overrun"), its line number does not exceed the number of
\* characters, and its list holds tokens.
THEOREM LexerTypeCorrect == Spec => []TypeOK
  <1>1. LexInv => TypeOK
    <2> SUFFICES ASSUME LexInv PROVE TypeOK
      OBVIOUS
    <2>1. /\ prog_buff \in Seq(Chars \cup {NUL}) /\ Len(prog_buff) \in Nat
          /\ char_num \in 1 .. Len(prog_buff) /\ char_num \in Nat /\ char_num >= 1
      BY TextOfBuffer DEF LexInv, Buffer
    <2>2. c \in Chars \cup {NUL}
      <3>1. prog_buff[char_num] \in Chars \cup {NUL}
        BY <2>1
      <3> QED
        BY <3>1 DEF LexInv, ReadAt, Chars, Marks, Blanks
    <2>3. line_num \in 1 .. Len(prog_buff)
      <3>1. Cardinality(Newlines(char_num)) \in Nat
            /\ Cardinality(Newlines(char_num)) <= char_num - 1
        BY <2>1, NewlinesFinite
      <3> QED
        BY <2>1, <3>1 DEF LexInv, LineAtMost
    <2>4. char_num \in DOMAIN prog_buff
      BY <2>1
    <2> QED
      BY <2>2, <2>3, <2>4 DEF LexInv, TypeOK, Tokens
  <1> QED
    BY <1>1, SpecLex, PTL

\* A file with its last line ended and no quotes is never read beyond its NUL.
THEOREM PlainTextsAreNotOverrun == Spec => []NoOverrun
  <1>1. LexInv => NoOverrun
    BY DEF LexInv, NoOverrun, Plain
  <1> QED
    BY <1>1, SpecLex, PTL

\* emit_token() always finds the line of its token among those split_into_lines()
\* has counted, so it never ends the process for want of a line.
THEOREM TokensHaveLines == Spec => []LinesExist
  <1>1. LexInv => LinesExist
    BY DEF LexInv, LinesExist
  <1> QED
    BY <1>1, SpecLex, PTL

\* Every pass of the loop that goes on has read at least one more character: the
\* reason why tokenize() comes to an end.
THEOREM PassesRead == Spec => [][status' = "running" => char_num' > char_num]_vars
  <1>1. LexInv /\ [Next]_vars => [status' = "running" => char_num' > char_num]_vars
    <2> SUFFICES ASSUME LexInv, Next, ~ UNCHANGED vars
                 PROVE  status' = "running" => char_num' > char_num
      OBVIOUS
    <2>1. tokenize
      BY DEF Next, Ended
    <2> QED
      BY <2>1, PassStep DEF Reading
  <1> QED
    BY <1>1, SpecLex, PTL DEF Spec

-----------------------------------------------------------------------------
(* Characters *)

\* The kinds of characters.
LEMMA Kinds ==
    /\ Marks \subseteq Chars /\ Letters \subseteq Chars /\ Digits \subseteq Chars
    /\ Strangers \subseteq Chars /\ NUL \notin Chars
    /\ Letters \cap Digits = {} /\ Strangers \cap (Letters \cup Digits) = {}
    /\ Marks \cap (Letters \cup Digits \cup Strangers) = {}
    /\ Chars = Letters \cup Digits \cup Strangers \cup Marks
  BY LexerAssumption DEF Chars

\* The marks, one by one, and what they are not.
LEMMA MarkKinds ==
    /\ {NL, SPACE, QUOTE, APOSTROPHE, ":", "=", "-", ".", ">"} \subseteq Marks
    /\ Blanks \subseteq Marks /\ DOMAIN Singles \subseteq Marks
    /\ DOMAIN Comparisons \subseteq Marks /\ Delimiters \subseteq Marks
    /\ Delimiters \subseteq DOMAIN Singles \cup {":"}
    /\ "_" \notin Marks
  BY DEF Marks, Blanks, Singles, Comparisons, Delimiters, NL, SPACE, QUOTE, APOSTROPHE

\* The marks are of one kind each.
LEMMA MarkKindsApart ==
    /\ Marks = Blanks \cup DOMAIN Singles \cup DOMAIN Comparisons
                 \cup {QUOTE, APOSTROPHE, ":", "=", "-"}
    /\ {QUOTE, APOSTROPHE, ":", "=", "-"}
         \cap (Blanks \cup DOMAIN Singles \cup DOMAIN Comparisons) = {}
    /\ Blanks \cap (DOMAIN Singles \cup DOMAIN Comparisons) = {}
    /\ DOMAIN Singles \cap DOMAIN Comparisons = {}
    /\ QUOTE # APOSTROPHE /\ QUOTE # ":" /\ QUOTE # "=" /\ QUOTE # "-"
    /\ APOSTROPHE # ":" /\ APOSTROPHE # "=" /\ APOSTROPHE # "-"
    /\ NL # SPACE /\ NL \in Blanks /\ SPACE \in Blanks /\ "." \in DOMAIN Singles
    /\ ">" \in DOMAIN Comparisons
  BY DEF Marks, Blanks, Singles, Comparisons, NL, SPACE, QUOTE, APOSTROPHE

\* A mark is no letter and no digit, nor the NUL.
LEMMA MarksAreMarks ==
    ASSUME NEW ch \in Marks
    PROVE  ch \notin Letters /\ ch \notin Digits /\ ch # NUL
  BY Kinds

\* What the symbols are made of, the sign apart.
LEMMA SymbolKinds ==
    ASSUME NEW ch \in DOMAIN Singles \cup DOMAIN Comparisons \cup {":", "="}
    PROVE  /\ ch \in Marks /\ ch \notin Letters \cup Digits \cup {"-", QUOTE}
           /\ ch \notin Blanks \cup {APOSTROPHE, NUL}
  <1>1. ch \in Marks
    BY MarkKinds
  <1>2. ch \notin Letters /\ ch \notin Digits /\ ch # NUL
    BY <1>1, MarksAreMarks
  <1>3. ch \notin Blanks /\ ch \notin {APOSTROPHE, QUOTE, "-"}
    <2>1. CASE ch \in DOMAIN Singles
      BY <2>1, MarkKindsApart
    <2>2. CASE ch \in DOMAIN Comparisons
      BY <2>2, MarkKindsApart
    <2>3. CASE ch \in {":", "="}
      BY <2>3, MarkKindsApart
    <2> QED
      BY <2>1, <2>2, <2>3
  <1> QED
    BY <1>1, <1>2, <1>3

\* The characters a word is made of.
WordChars == Letters \cup Digits \cup {"_"}

\* No mark is in a word.
LEMMA MarksEndWords == Marks \cap WordChars = {}
  BY Kinds, MarkKinds DEF WordChars

-----------------------------------------------------------------------------
(* Spelling *)

\* A sequence of one or two characters.
LEMMA ShortSeqs ==
    ASSUME NEW S, NEW s \in Seq(S), NEW a, NEW b
    PROVE  /\ s = <<a>> <=> Len(s) = 1 /\ s[1] = a
           /\ s = <<a, b>> <=> Len(s) = 2 /\ s[1] = a /\ s[2] = b
  <1>1. ASSUME Len(s) = 1, s[1] = a PROVE s = <<a>>
    BY <1>1
  <1>2. ASSUME Len(s) = 2, s[1] = a, s[2] = b PROVE s = <<a, b>>
    BY <1>2
  <1> QED
    BY <1>1, <1>2

\* The symbols of one and of two characters.
LEMMA SymbolShapes ==
    ASSUME NEW s \in Seq(Chars)
    PROVE  s \in DOMAIN Symbols <=>
              \/ /\ Len(s) = 1
                 /\ s[1] \in DOMAIN Singles \cup DOMAIN Comparisons \cup {":", "-"}
              \/ /\ Len(s) = 2
                 /\ \/ s[1] \in DOMAIN Comparisons \cup {":", "="} /\ s[2] = "="
                    \/ s[1] = "-" /\ s[2] = ">"
  <1>1. DOMAIN Symbols = {<<ch>> : ch \in DOMAIN Singles \cup DOMAIN Comparisons}
                         \cup {<<ch, "=">> : ch \in DOMAIN Comparisons}
                         \cup {<<":">>, <<":", "=">>, <<"=", "=">>, <<"-">>, <<"-", ">">>}
    BY DEF Symbols
  <1>2. s \in {<<ch>> : ch \in DOMAIN Singles \cup DOMAIN Comparisons}
          <=> Len(s) = 1 /\ s[1] \in DOMAIN Singles \cup DOMAIN Comparisons
    BY ShortSeqs
  <1>3. s \in {<<ch, "=">> : ch \in DOMAIN Comparisons}
          <=> Len(s) = 2 /\ s[1] \in DOMAIN Comparisons /\ s[2] = "="
    BY ShortSeqs
  <1>4. s \in {<<":">>, <<":", "=">>, <<"=", "=">>, <<"-">>, <<"-", ">">>}
          <=> \/ Len(s) = 1 /\ s[1] \in {":", "-"}
              \/ /\ Len(s) = 2
                 /\ \/ s[1] \in {":", "="} /\ s[2] = "="
                    \/ s[1] = "-" /\ s[2] = ">"
    BY ShortSeqs
  <1> QED
    BY <1>1, <1>2, <1>3, <1>4

\* What the symbols spell.
LEMMA SymbolTypes ==
    ASSUME NEW s \in Seq(Chars), s \in DOMAIN Symbols
    PROVE  /\ Len(s) = 1 /\ s[1] \in DOMAIN Singles => Symbols[s] = Singles[s[1]]
           /\ Len(s) = 1 /\ s[1] \in DOMAIN Comparisons
                => Symbols[s] = Comparisons[s[1]].alone
           /\ Len(s) = 2 /\ s[1] \in DOMAIN Comparisons
                => Symbols[s] = Comparisons[s[1]].equal
           /\ Len(s) = 1 /\ s[1] = ":" => Symbols[s] = "T_COLON"
           /\ Len(s) = 2 /\ s[1] = ":" => Symbols[s] = "T_ASSIGN"
           /\ Len(s) = 2 /\ s[1] = "=" => Symbols[s] = "T_EQ"
           /\ Len(s) = 1 /\ s[1] = "-" => Symbols[s] = "T_MINUS"
           /\ Len(s) = 2 /\ s[1] = "-" => Symbols[s] = "T_OFTYPE"
  <1>1. Symbols[s] =
           CASE s = <<":">> -> "T_COLON" [] s = <<":", "=">> -> "T_ASSIGN"
             [] s = <<"=", "=">> -> "T_EQ" [] s = <<"-">> -> "T_MINUS"
             [] s = <<"-", ">">> -> "T_OFTYPE"
             [] s[1] \in DOMAIN Singles -> Singles[s[1]]
             [] OTHER -> IF Len(s) = 1 THEN Comparisons[s[1]].alone
                         ELSE Comparisons[s[1]].equal
    BY DEF Symbols
  <1>2. /\ s = <<":">> <=> Len(s) = 1 /\ s[1] = ":"
        /\ s = <<":", "=">> <=> Len(s) = 2 /\ s[1] = ":" /\ s[2] = "="
        /\ s = <<"=", "=">> <=> Len(s) = 2 /\ s[1] = "=" /\ s[2] = "="
        /\ s = <<"-">> <=> Len(s) = 1 /\ s[1] = "-"
        /\ s = <<"-", ">">> <=> Len(s) = 2 /\ s[1] = "-" /\ s[2] = ">"
    BY ShortSeqs
  <1> QED
    BY <1>1, <1>2, SymbolShapes, MarkKindsApart

\* A number begins with a digit.
LEMMA NumbersBegin ==
    ASSUME NEW s \in Seq(Chars)
    PROVE  /\ Digital(s) => s # << >> /\ s[1] \in Digits
           /\ IsFloat(s) => s # << >> /\ s[1] \in Digits /\ ~ Digital(s)
  <1>1. ASSUME Digital(s) PROVE s # << >> /\ s[1] \in Digits
    BY <1>1 DEF Digital, ToSet
  <1>2. ASSUME IsFloat(s) PROVE s # << >> /\ s[1] \in Digits /\ ~ Digital(s)
    <2>1. PICK i \in DOMAIN s : s[i] = "." /\ Digital(SubSeq(s, 1, i - 1))
      BY <1>2 DEF IsFloat
    <2>2. i \in 1 .. Len(s) /\ i - 1 \in Int /\ i - 1 <= Len(s) /\ Len(s) \in Nat
      OBVIOUS
    <2>3. /\ SubSeq(s, 1, i - 1) \in Seq(Chars)
          /\ Len(SubSeq(s, 1, i - 1)) = i - 1
          /\ \A k \in 1 .. i - 1 : SubSeq(s, 1, i - 1)[k] = s[k]
      BY <2>2
    <2>4. i - 1 >= 1
      BY <2>1, <2>2, <2>3 DEF Digital
    <2>5. SubSeq(s, 1, i - 1)[1] = s[1] /\ SubSeq(s, 1, i - 1)[1] \in Digits
      <3>1. PICK u : u = SubSeq(s, 1, i - 1)
        OBVIOUS
      <3>2. u \in Seq(Chars) /\ Len(u) >= 1 /\ u[1] = s[1] /\ Digital(u)
        BY <2>1, <2>2, <2>3, <2>4, <3>1
      <3>3. u[1] \in ToSet(u)
        BY <3>2 DEF ToSet
      <3> QED
        BY <3>1, <3>2, <3>3 DEF Digital
    <2>6. "." \notin Digits
      BY Kinds, MarkKinds
    <2>7. s[i] \in ToSet(s)
      BY <2>2 DEF ToSet
    <2> QED
      BY <2>1, <2>2, <2>5, <2>6, <2>7 DEF Digital
  <1> QED
    BY <1>1, <1>2

\* Words, keywords among them.
LEMMA WordsBegin ==
    ASSUME NEW s \in Seq(Chars), s # << >>
    PROVE  /\ IsWord(s) <=> s[1] \in Letters /\ ToSet(s) \subseteq WordChars
           /\ s \in DOMAIN Keywords => IsWord(s) /\ Keywords[s] # "none"
  <1>1. ASSUME s \in DOMAIN Keywords PROVE IsWord(s) /\ Keywords[s] # "none"
    <2>1. s \in Seq(Letters) /\ Keywords[s] # "none"
      BY <1>1, LexerAssumption
    <2>2. s[1] \in Letters /\ ToSet(s) \subseteq Letters
      BY <2>1 DEF ToSet
    <2> QED
      BY <2>1, <2>2 DEF IsWord
  <1> QED
    BY <1>1 DEF IsWord, WordChars

\* What begins with a letter spells a word.
LEMMA SpeltWord ==
    ASSUME NEW s \in Seq(Chars), s # << >>, s[1] \in Letters
    PROVE  Spelt(s) = IF s \in DOMAIN Keywords THEN Keywords[s]
                      ELSE IF IsWord(s) THEN "T_IDENT" ELSE "none"
  <1>1. s[1] \notin Digits /\ s[1] \notin Marks
    BY Kinds
  <1>2. s \notin DOMAIN Symbols
    BY <1>1, SymbolShapes, MarkKinds
  <1>3. Unsigned(s) = s
    BY <1>1, MarkKinds DEF Unsigned
  <1>4. ~ Digital(Unsigned(s)) /\ ~ IsFloat(Unsigned(s))
    BY <1>1, <1>3, NumbersBegin
  <1>5. ~ IsString(s)
    BY <1>1, MarkKinds DEF IsString
  <1> QED
    BY <1>2, <1>4, <1>5 DEF Spelt

\* What begins with a mark, other than a sign or a quote, or with a stranger.
LEMMA SpeltSymbol ==
    ASSUME NEW s \in Seq(Chars), s # << >>,
           s[1] \notin Letters \cup Digits \cup {"-", QUOTE}
    PROVE  Spelt(s) = IF s \in DOMAIN Symbols THEN Symbols[s] ELSE "none"
  <1>1. ~ IsWord(s) /\ s \notin DOMAIN Keywords
    BY WordsBegin
  <1>2. Unsigned(s) = s
    BY DEF Unsigned
  <1>3. ~ Digital(Unsigned(s)) /\ ~ IsFloat(Unsigned(s))
    BY <1>2, NumbersBegin
  <1>4. ~ IsString(s)
    BY DEF IsString
  <1> QED
    BY <1>1, <1>3, <1>4 DEF Spelt

\* What begins with a quote.
LEMMA SpeltString ==
    ASSUME NEW s \in Seq(Chars), s # << >>, s[1] = QUOTE
    PROVE  Spelt(s) = IF IsString(s) THEN "L_STR" ELSE "none"
  <1>1. s[1] \notin Letters \cup Digits /\ s[1] # "-"
    BY Kinds, MarkKinds, MarkKindsApart
  <1>2. ~ IsWord(s) /\ s \notin DOMAIN Keywords
    BY <1>1, WordsBegin
  <1>3. Unsigned(s) = s
    BY <1>1 DEF Unsigned
  <1>4. ~ Digital(Unsigned(s)) /\ ~ IsFloat(Unsigned(s))
    BY <1>1, <1>3, NumbersBegin
  <1>5. s \notin DOMAIN Symbols
    BY SymbolShapes, MarkKindsApart
  <1> QED
    BY <1>2, <1>4, <1>5 DEF Spelt

\* What begins with a digit.
LEMMA SpeltNumber ==
    ASSUME NEW s \in Seq(Chars), s # << >>, s[1] \in Digits
    PROVE  Spelt(s) = IF Digital(s) THEN "L_INTEGER"
                      ELSE IF IsFloat(s) THEN "L_FLOAT" ELSE "none"
  <1>1. s[1] \notin Letters /\ s[1] \notin Marks
    BY Kinds
  <1>2. ~ IsWord(s) /\ s \notin DOMAIN Keywords
    BY <1>1, WordsBegin
  <1>3. Unsigned(s) = s
    BY <1>1, MarkKinds DEF Unsigned
  <1>4. s \notin DOMAIN Symbols /\ ~ IsString(s)
    BY <1>1, SymbolShapes, MarkKinds DEF IsString
  <1>5. Spelt(s) = CASE Digital(s) -> "L_INTEGER" [] IsFloat(s) -> "L_FLOAT" [] OTHER -> "none"
    BY <1>2, <1>3, <1>4 DEF Spelt
  <1> QED
    BY <1>5, NumbersBegin

\* What begins with a sign.
LEMMA SpeltSign ==
    ASSUME NEW s \in Seq(Chars), s # << >>, s[1] = "-"
    PROVE  Spelt(s) = IF Len(s) = 1 THEN "T_MINUS"
                      ELSE IF Len(s) = 2 /\ s[2] = ">" THEN "T_OFTYPE"
                      ELSE IF Digital(Tail(s)) THEN "L_INTEGER"
                      ELSE IF IsFloat(Tail(s)) THEN "L_FLOAT" ELSE "none"
  <1>1. s[1] \notin Letters \cup Digits /\ s[1] # QUOTE /\ ">" \notin Digits
    BY Kinds, MarkKinds, MarkKindsApart
  <1>2. ~ IsWord(s) /\ s \notin DOMAIN Keywords /\ ~ IsString(s)
    BY <1>1, WordsBegin DEF IsString
  <1>3. Unsigned(s) = Tail(s)
    BY DEF Unsigned
  <1>4. Tail(s) \in Seq(Chars) /\ Len(Tail(s)) = Len(s) - 1 /\ Len(s) \in Nat /\ Len(s) >= 1
    BY EmptySeq
  <1>5. s \in DOMAIN Symbols <=> Len(s) = 1 \/ (Len(s) = 2 /\ s[2] = ">")
    BY SymbolShapes, MarkKindsApart
  <1>6. CASE s \in DOMAIN Symbols
    <2>1. ~ (Digital(Tail(s))) /\ ~ IsFloat(Tail(s))
      <3>1. CASE Len(s) = 1
        <4>1. Tail(s) = << >>
          <5>1. PICK u : u = Tail(s)
            OBVIOUS
          <5>2. u \in Seq(Chars) /\ Len(u) = 0
            BY <1>4, <3>1, <5>1
          <5> QED
            BY <5>1, <5>2, EmptySeq
        <4> QED
          BY <1>4, <4>1, NumbersBegin
      <3>2. CASE Len(s) = 2 /\ s[2] = ">"
        <4>1. Tail(s)[1] = ">"
          BY <3>2
        <4> QED
          BY <1>1, <1>4, <4>1, NumbersBegin
      <3> QED
        BY <1>5, <1>6, <3>1, <3>2
    <2>2. Spelt(s) = Symbols[s]
      BY <1>2, <1>3, <1>6, <2>1 DEF Spelt
    <2> QED
      BY <1>5, <1>6, <2>2, SymbolTypes
  <1>7. CASE s \notin DOMAIN Symbols
    <2>1. Spelt(s) = CASE Digital(Tail(s)) -> "L_INTEGER" [] IsFloat(Tail(s)) -> "L_FLOAT"
                       [] OTHER -> "none"
      BY <1>2, <1>3, <1>7 DEF Spelt
    <2>2. IsFloat(Tail(s)) => ~ Digital(Tail(s))
      BY <1>4, NumbersBegin
    <2> QED
      BY <1>5, <1>7, <2>1, <2>2
  <1> QED
    BY <1>6, <1>7

\* Every symbol spells something.
LEMMA SymbolsSpell ==
    ASSUME NEW s \in DOMAIN Symbols
    PROVE  Symbols[s] # "none"
  <1>1. \A ch \in DOMAIN Singles : Singles[ch] # "none"
    BY DEF Singles
  <1>2. \A ch \in DOMAIN Comparisons :
           Comparisons[ch].alone # "none" /\ Comparisons[ch].equal # "none"
    BY DEF Comparisons
  <1> QED
    BY <1>1, <1>2 DEF Symbols

-----------------------------------------------------------------------------
(* Pieces of a text *)

\* s is what stands from i to j in t, a sequence over S.
PieceOf(s, S, t, i, j) ==
    /\ s \in Seq(S) /\ Len(s) = j - i + 1 /\ s # << >> /\ s[1] = t[i]
    /\ \A k \in 1 .. j - i + 1 : s[k] = t[i + k - 1]
    /\ Last(s) = t[j] /\ ToSet(s) = {t[k] : k \in i .. j}

\* A piece that is not empty.
LEMMA PieceTaken ==
    ASSUME NEW S, NEW t \in Seq(S), NEW i \in 1 .. Len(t), NEW j \in i .. Len(t)
    PROVE  PieceOf(SubSeq(t, i, j), S, t, i, j)
  <1>1. PICK u : u = SubSeq(t, i, j)
    OBVIOUS
  <1>2. /\ i \in Nat /\ j \in Nat /\ i >= 1 /\ i <= j /\ Len(t) \in Nat /\ j <= Len(t)
        /\ j - i + 1 \in Nat /\ j - i + 1 >= 1
    OBVIOUS
  <1>3. /\ u \in Seq(S) /\ Len(u) = j - i + 1
        /\ \A k \in 1 .. j - i + 1 : u[k] = t[i + k - 1]
    BY <1>1, <1>2
  <1>4. u # << >> /\ u[1] = t[i]
    BY <1>2, <1>3
  <1>5. Last(u) = t[j]
    <2>1. j - i + 1 \in 1 .. j - i + 1 /\ i + (j - i + 1) - 1 = j
      BY <1>2
    <2> QED
      BY <1>3, <2>1 DEF Last
  <1>6. ToSet(u) = {t[k] : k \in i .. j}
    <2>1. ASSUME NEW x \in ToSet(u) PROVE x \in {t[k] : k \in i .. j}
      <3>1. PICK k \in 1 .. j - i + 1 : x = u[k]
        BY <1>3 DEF ToSet
      <3>2. i + k - 1 \in i .. j /\ x = t[i + k - 1]
        BY <1>2, <1>3, <3>1
      <3> QED
        BY <3>2
    <2>2. ASSUME NEW k \in i .. j PROVE t[k] \in ToSet(u)
      <3>1. k - i + 1 \in 1 .. j - i + 1 /\ i + (k - i + 1) - 1 = k
        BY <1>2
      <3>2. u[k - i + 1] = t[k]
        BY <1>3, <3>1
      <3> QED
        BY <1>3, <3>1, <3>2 DEF ToSet
    <2> QED
      BY <2>1, <2>2
  <1>7. PieceOf(u, S, t, i, j)
    BY <1>3, <1>4, <1>5, <1>6 DEF PieceOf
  <1> QED
    BY <1>1, <1>7

\* The same, in full.
LEMMA Pieces ==
    ASSUME NEW S, NEW t \in Seq(S), NEW i \in 1 .. Len(t), NEW j \in i .. Len(t)
    PROVE  /\ SubSeq(t, i, j) \in Seq(S) /\ Len(SubSeq(t, i, j)) = j - i + 1
           /\ SubSeq(t, i, j) # << >> /\ SubSeq(t, i, j)[1] = t[i]
           /\ \A k \in 1 .. j - i + 1 : SubSeq(t, i, j)[k] = t[i + k - 1]
           /\ Last(SubSeq(t, i, j)) = t[j]
           /\ ToSet(SubSeq(t, i, j)) = {t[k] : k \in i .. j}
  <1>1. PICK u : u = SubSeq(t, i, j)
    OBVIOUS
  <1>2. PieceOf(u, S, t, i, j)
    BY <1>1, PieceTaken
  <1>3. /\ u \in Seq(S) /\ Len(u) = j - i + 1 /\ u # << >> /\ u[1] = t[i]
        /\ \A k \in 1 .. j - i + 1 : u[k] = t[i + k - 1]
        /\ Last(u) = t[j] /\ ToSet(u) = {t[k] : k \in i .. j}
    BY <1>2 DEF PieceOf
  <1> QED
    BY <1>1, <1>3

\* A piece that may be empty.
LEMMA EmptyPiece ==
    ASSUME NEW S, NEW t \in Seq(S), NEW i \in Nat, i >= 1
    PROVE  SubSeq(t, i, i - 1) = << >>
  OBVIOUS

\* A piece of a piece.
LEMMA PieceOfPiece ==
    ASSUME NEW S, NEW t \in Seq(S), NEW i \in 1 .. Len(t), NEW j \in i .. Len(t),
           NEW a \in 1 .. j - i + 2, NEW b \in a - 1 .. j - i + 1
    PROVE  SubSeq(SubSeq(t, i, j), a, b) = SubSeq(t, i + a - 1, i + b - 1)
  <1>1. PICK u : u = SubSeq(t, i, j)
    OBVIOUS
  <1>2. /\ i \in Nat /\ j \in Nat /\ i >= 1 /\ i <= j /\ Len(t) \in Nat /\ j <= Len(t)
        /\ a \in Nat /\ b \in Nat /\ a >= 1 /\ b >= a - 1 /\ b <= j - i + 1
    OBVIOUS
  <1>3. /\ u \in Seq(S) /\ Len(u) = j - i + 1
        /\ \A k \in 1 .. j - i + 1 : u[k] = t[i + k - 1]
    BY <1>1, Pieces
  <1>4. PICK v : v = SubSeq(u, a, b)
    OBVIOUS
  <1>5. PICK w : w = SubSeq(t, i + a - 1, i + b - 1)
    OBVIOUS
  <1>6. /\ v \in Seq(S) /\ Len(v) = b - a + 1
        /\ \A k \in 1 .. b - a + 1 : v[k] = u[a + k - 1]
    BY <1>2, <1>3, <1>4
  <1>7. /\ w \in Seq(S) /\ Len(w) = b - a + 1
        /\ \A k \in 1 .. b - a + 1 : w[k] = t[(i + a - 1) + k - 1]
    BY <1>2, <1>5
  <1>8. ASSUME NEW k \in 1 .. b - a + 1 PROVE v[k] = w[k]
    <2>1. a + k - 1 \in 1 .. j - i + 1 /\ i + (a + k - 1) - 1 = (i + a - 1) + k - 1
      BY <1>2
    <2> QED
      BY <1>3, <1>6, <1>7, <2>1
  <1>9. v = w
    BY <1>6, <1>7, <1>8, SeqEqual
  <1> QED
    BY <1>1, <1>4, <1>5, <1>9

\* Digits only.
LEMMA DigitalPiece ==
    ASSUME NEW S, NEW t \in Seq(S), NEW i \in 1 .. Len(t) + 1, NEW j \in i - 1 .. Len(t)
    PROVE  Digital(SubSeq(t, i, j)) <=> i <= j /\ \A k \in i .. j : t[k] \in Digits
  <1>1. CASE j = i - 1
    <2>1. SubSeq(t, i, j) = << >> /\ ~ (i <= j)
      BY <1>1, EmptyPiece
    <2> QED
      BY <2>1 DEF Digital
  <1>2. CASE j # i - 1
    <2>1. i \in 1 .. Len(t) /\ j \in i .. Len(t) /\ i <= j
      BY <1>2
    <2>2. SubSeq(t, i, j) # << >>
      BY <2>1, Pieces
    <2>3. ToSet(SubSeq(t, i, j)) = {t[k] : k \in i .. j}
      BY <2>1, Pieces
    <2> QED
      BY <2>1, <2>2, <2>3 DEF Digital
  <1> QED
    BY <1>1, <1>2

\* Digits, a point and digits.
LEMMA FloatPiece ==
    ASSUME NEW S, NEW t \in Seq(S), NEW i \in 1 .. Len(t), NEW j \in i .. Len(t)
    PROVE  IsFloat(SubSeq(t, i, j)) <=>
              \E p \in i + 1 .. j - 1 : /\ t[p] = "."
                                        /\ \A k \in i .. p - 1 : t[k] \in Digits
                                        /\ \A k \in p + 1 .. j : t[k] \in Digits
  <1>1. PICK u : u = SubSeq(t, i, j)
    OBVIOUS
  <1>2. /\ u \in Seq(S) /\ Len(u) = j - i + 1
        /\ \A k \in 1 .. j - i + 1 : u[k] = t[i + k - 1]
    BY <1>1, Pieces
  <1>3. i \in Nat /\ j \in Nat /\ i >= 1 /\ i <= j /\ Len(t) \in Nat /\ j <= Len(t)
    OBVIOUS
  <1>4. ASSUME NEW m \in 1 .. j - i + 1
        PROVE  /\ SubSeq(u, 1, m - 1) = SubSeq(t, i, i + m - 2)
               /\ SubSeq(u, m + 1, Len(u)) = SubSeq(t, i + m, j)
    <2>1. 1 \in 1 .. j - i + 2 /\ m - 1 \in 1 - 1 .. j - i + 1
      BY <1>3
    <2>2. SubSeq(u, 1, m - 1) = SubSeq(t, i + 1 - 1, i + (m - 1) - 1)
      BY <1>1, <2>1, PieceOfPiece
    <2>3. m + 1 \in 1 .. j - i + 2 /\ j - i + 1 \in (m + 1) - 1 .. j - i + 1
      BY <1>3
    <2>4. SubSeq(u, m + 1, j - i + 1) = SubSeq(t, i + (m + 1) - 1, i + (j - i + 1) - 1)
      BY <1>1, <2>3, PieceOfPiece
    <2>5. /\ i + 1 - 1 = i /\ i + (m - 1) - 1 = i + m - 2
          /\ i + (m + 1) - 1 = i + m /\ i + (j - i + 1) - 1 = j
      BY <1>3
    <2> QED
      BY <1>2, <2>2, <2>4, <2>5
  <1>5. ASSUME NEW m \in 1 .. j - i + 1
        PROVE  u[m] = "." /\ Digital(SubSeq(u, 1, m - 1)) /\ Digital(SubSeq(u, m + 1, Len(u)))
               <=> /\ t[i + m - 1] = "."
                   /\ i <= i + m - 2 /\ \A k \in i .. i + m - 2 : t[k] \in Digits
                   /\ i + m <= j /\ \A k \in i + m .. j : t[k] \in Digits
    <2>1. /\ i \in 1 .. Len(t) + 1 /\ i + m - 2 \in i - 1 .. Len(t)
          /\ i + m \in 1 .. Len(t) + 1 /\ j \in (i + m) - 1 .. Len(t)
      BY <1>3
    <2>2. Digital(SubSeq(t, i, i + m - 2))
          <=> i <= i + m - 2 /\ \A k \in i .. i + m - 2 : t[k] \in Digits
      BY <2>1, DigitalPiece
    <2>3. Digital(SubSeq(t, i + m, j)) <=> i + m <= j /\ \A k \in i + m .. j : t[k] \in Digits
      BY <2>1, DigitalPiece
    <2> QED
      BY <1>2, <1>4, <2>2, <2>3
  <1>6. ASSUME IsFloat(u)
        PROVE  \E p \in i + 1 .. j - 1 : /\ t[p] = "."
                                         /\ \A k \in i .. p - 1 : t[k] \in Digits
                                         /\ \A k \in p + 1 .. j : t[k] \in Digits
    <2>1. PICK m \in 1 .. j - i + 1 : /\ u[m] = "." /\ Digital(SubSeq(u, 1, m - 1))
                                      /\ Digital(SubSeq(u, m + 1, Len(u)))
      BY <1>2, <1>6 DEF IsFloat
    <2>2. PICK p : p = i + m - 1
      OBVIOUS
    <2>3. p \in Int /\ p - 1 = i + m - 2 /\ p + 1 = i + m
      BY <1>3, <2>2
    <2>4. /\ t[p] = "." /\ i <= p - 1 /\ p + 1 <= j
          /\ \A k \in i .. p - 1 : t[k] \in Digits
          /\ \A k \in p + 1 .. j : t[k] \in Digits
      BY <1>5, <2>1, <2>2, <2>3
    <2>5. p \in i + 1 .. j - 1
      BY <1>3, <2>3, <2>4
    <2> QED
      BY <2>4, <2>5
  <1>7. ASSUME NEW p \in i + 1 .. j - 1, t[p] = ".",
               \A k \in i .. p - 1 : t[k] \in Digits,
               \A k \in p + 1 .. j : t[k] \in Digits
        PROVE  IsFloat(u)
    <2>1. PICK m : m = p - i + 1
      OBVIOUS
    <2>2. /\ m \in 1 .. j - i + 1 /\ i + m - 1 = p /\ i + m - 2 = p - 1 /\ i + m = p + 1
          /\ i <= p - 1 /\ p + 1 <= j
      BY <1>3, <2>1
    <2>3. u[m] = "." /\ Digital(SubSeq(u, 1, m - 1)) /\ Digital(SubSeq(u, m + 1, Len(u)))
      BY <1>5, <1>7, <2>2
    <2>4. m \in DOMAIN u
      BY <1>2, <2>2
    <2> QED
      BY <2>3, <2>4 DEF IsFloat
  <1> QED
    BY <1>1, <1>6, <1>7

\* A letter and what goes on a word.
LEMMA WordPiece ==
    ASSUME NEW t \in Seq(Chars), NEW i \in 1 .. Len(t), NEW j \in i .. Len(t)
    PROVE  IsWord(SubSeq(t, i, j)) <=> t[i] \in Letters /\ \A k \in i .. j : t[k] \in WordChars
  <1>1. /\ SubSeq(t, i, j) \in Seq(Chars) /\ SubSeq(t, i, j) # << >>
        /\ SubSeq(t, i, j)[1] = t[i]
        /\ ToSet(SubSeq(t, i, j)) = {t[k] : k \in i .. j}
    BY Pieces
  <1>2. {t[k] : k \in i .. j} \subseteq WordChars <=> \A k \in i .. j : t[k] \in WordChars
    OBVIOUS
  <1> QED
    BY <1>1, <1>2, WordsBegin

\* Two quotes and none between them.
LEMMA StringPiece ==
    ASSUME NEW S, NEW t \in Seq(S), NEW i \in 1 .. Len(t), NEW j \in i .. Len(t)
    PROVE  IsString(SubSeq(t, i, j)) <=> /\ i < j /\ t[i] = QUOTE /\ t[j] = QUOTE
                                         /\ \A k \in i + 1 .. j - 1 : t[k] # QUOTE
  <1>1. PICK u : u = SubSeq(t, i, j)
    OBVIOUS
  <1>2. /\ u \in Seq(S) /\ Len(u) = j - i + 1 /\ u[1] = t[i] /\ Last(u) = t[j]
        /\ \A k \in 1 .. j - i + 1 : u[k] = t[i + k - 1]
    BY <1>1, Pieces
  <1>3. i \in Nat /\ j \in Nat /\ i >= 1 /\ i <= j /\ Len(t) \in Nat /\ j <= Len(t)
    OBVIOUS
  <1>4. PICK n : n = j - i + 1
    OBVIOUS
  <1>5. n \in Nat /\ (n > 1 <=> i < j) /\ i + n - 1 = j
    BY <1>3, <1>4
  <1>6. PICK Q : Q = {k \in 1 .. n : u[k] = QUOTE}
    OBVIOUS
  <1>7. CountOf(QUOTE, u) = Cardinality(Q)
    <2>1. {k \in DOMAIN u : u[k] = QUOTE} = Q
      BY <1>2, <1>4, <1>6
    <2> QED
      BY <2>1 DEF CountOf
  <1>8. ASSUME n > 1, t[i] = QUOTE, t[j] = QUOTE
        PROVE  Cardinality(Q) = 2 <=> \A k \in i + 1 .. j - 1 : t[k] # QUOTE
    <2>1. u[1] = QUOTE /\ u[n] = QUOTE /\ 1 \in Q /\ n \in Q /\ 1 # n
      <3>1. n \in Nat /\ n > 1 /\ 1 \in 1 .. n /\ n \in 1 .. n
        BY <1>5, <1>8
      <3>2. u[n] = t[i + n - 1]
        BY <1>2, <1>4, <3>1
      <3>3. u[1] = QUOTE /\ u[n] = QUOTE
        BY <1>2, <1>5, <1>8, <3>2
      <3> QED
        BY <1>6, <3>1, <3>3
    <2>2. IsFiniteSet({1, n}) /\ Cardinality({1, n}) = 2
      <3>1. IsFiniteSet({1}) /\ Cardinality({1}) = 1 /\ n \notin {1}
        BY <2>1, FS_Singleton
      <3>2. Cardinality({1} \cup {n}) = Cardinality({1}) + 1 /\ IsFiniteSet({1} \cup {n})
        BY <3>1, FS_AddElement
      <3>3. {1} \cup {n} = {1, n}
        OBVIOUS
      <3>4. PICK T : T = {1} \cup {n}
        OBVIOUS
      <3>5. Cardinality(T) = Cardinality({1}) + 1 /\ IsFiniteSet(T) /\ T = {1, n}
        BY <3>2, <3>3, <3>4
      <3>6. PICK k : k = Cardinality({1})
        OBVIOUS
      <3>7. k = 1 /\ Cardinality(T) = k + 1
        BY <3>1, <3>5, <3>6
      <3> QED
        BY <3>5, <3>7
    <2>3. IsFiniteSet(1 .. n)
      BY <1>5, FS_Interval
    <2>4. IsFiniteSet(Q)
      BY <1>6, <2>3, FS_Subset
    <2>5. Cardinality(Q) = 2 <=> Q = {1, n}
      <3>1. ASSUME Cardinality(Q) = 2 PROVE Q = {1, n}
        <4>1. {1, n} \in SUBSET Q
          BY <2>1
        <4> QED
          BY <2>2, <2>4, <3>1, <4>1, FS_Subset
      <3> QED
        BY <2>2, <3>1
    <2>6. ASSUME Q = {1, n}, NEW k \in i + 1 .. j - 1 PROVE t[k] # QUOTE
      <3>1. k - i + 1 \in 1 .. n /\ k - i + 1 # 1 /\ k - i + 1 # n /\ i + (k - i + 1) - 1 = k
        BY <1>3, <1>4
      <3>2. u[k - i + 1] = t[k]
        BY <1>2, <1>4, <3>1
      <3> QED
        BY <1>6, <2>6, <3>1, <3>2
    <2>7. ASSUME \A k \in i + 1 .. j - 1 : t[k] # QUOTE PROVE Q = {1, n}
      <3>1. ASSUME NEW k \in Q PROVE k = 1 \/ k = n
        <4>1. k \in 1 .. n /\ u[k] = t[i + k - 1] /\ u[k] = QUOTE
          BY <1>2, <1>4, <1>6
        <4>2. i + k - 1 \notin i + 1 .. j - 1
          BY <2>7, <4>1
        <4> QED
          BY <1>3, <1>4, <4>1, <4>2
      <3> QED
        BY <2>1, <3>1
    <2> QED
      BY <2>5, <2>6, <2>7
  <1>9. IsString(u) <=> n > 1 /\ t[i] = QUOTE /\ t[j] = QUOTE /\ Cardinality(Q) = 2
    BY <1>2, <1>4, <1>7 DEF IsString
  <1> QED
    BY <1>1, <1>5, <1>8, <1>9

-----------------------------------------------------------------------------
(* The tokens expected *)

\* Where the comment that begins at i ends, if it does.
LEMMA CommentEnd ==
    ASSUME text \in Seq(Chars), NEW i \in 1 .. Len(text),
           NEW k \in i .. Len(text), text[k] = NL
    PROVE  /\ EndOfComment(i) \in i .. Len(text) /\ text[EndOfComment(i)] = NL
           /\ \A j \in i .. EndOfComment(i) - 1 : text[j] # NL
  <1>1. PICK found : found = {j \in i .. Len(text) : text[j] = NL}
    OBVIOUS
  <1>2. found \in SUBSET Nat /\ found # {}
    BY <1>1
  <1>3. Min(found) \in found /\ \A j \in found : Min(found) <= j
    BY <1>2, MinOfNats
  <1>4. PICK end : end = Min(found)
    OBVIOUS
  <1>5. end \in i .. Len(text) /\ text[end] = NL /\ \A j \in i .. end - 1 : text[j] # NL
    <2>1. end \in i .. Len(text) /\ text[end] = NL /\ end \in Nat
      BY <1>1, <1>3, <1>4
    <2>2. ASSUME NEW j \in i .. end - 1, text[j] = NL PROVE FALSE
      <3>1. j \in i .. Len(text) /\ j < end
        BY <2>1
      <3>2. j \in found
        BY <1>1, <2>2, <3>1
      <3> QED
        BY <1>3, <1>4, <2>1, <3>1, <3>2
    <2> QED
      BY <2>1, <2>2
  <1>6. EndOfComment(i) = end
    BY <1>1, <1>4 DEF EndOfComment
  <1> QED
    BY <1>5, <1>6

\* The rest of the text from i on has a newline, or has none.
LEMMA NewlineLater ==
    ASSUME text \in Seq(Chars), NEW i \in 1 .. Len(text)
    PROVE  NL \in ToSet(SubSeq(text, i, Len(text))) <=> \E k \in i .. Len(text) : text[k] = NL
  <1>1. Len(text) \in i .. Len(text)
    OBVIOUS
  <1>2. ToSet(SubSeq(text, i, Len(text))) = {text[k] : k \in i .. Len(text)}
    BY <1>1, Pieces
  <1> QED
    BY <1>2

\* The longest token that begins at i.
LEMMA LongestEnd ==
    ASSUME text \in Seq(Chars), NEW i \in 1 .. Len(text), Ends(i) # {}
    PROVE  /\ Max(Ends(i)) \in Ends(i) /\ Max(Ends(i)) \in i .. Len(text)
           /\ \A j \in Ends(i) : j <= Max(Ends(i))
           /\ \A m \in Ends(i) : (\A j \in Ends(i) : j <= m) => Max(Ends(i)) = m
  <1>1. PICK E : E = Ends(i)
    OBVIOUS
  <1>2. E \in SUBSET (1 .. Len(text)) /\ E # {} /\ E \in SUBSET (i .. Len(text))
    BY <1>1 DEF Ends
  <1>3. Max(E) \in E /\ \A j \in E : j <= Max(E)
    <2>1. Len(text) \in Nat
      OBVIOUS
    <2> QED
      BY <1>2, <2>1, MaxOfIndexes
  <1>4. ASSUME NEW m \in E, \A j \in E : j <= m PROVE Max(E) = m
    <2>1. PICK k : k = Max(E)
      OBVIOUS
    <2>2. k \in E /\ m <= k
      BY <1>3, <2>1
    <2>3. k <= m /\ k \in 1 .. Len(text) /\ m \in 1 .. Len(text)
      BY <1>2, <1>4, <2>2
    <2>4. k = m
      BY <2>2, <2>3
    <2> QED
      BY <2>1, <2>4
  <1> QED
    BY <1>1, <1>2, <1>3, <1>4

\* The body of TokensFrom.
TokensStep(f, i) ==
    IF i > Len(text) THEN EndAt("T_EOF", i)
    ELSE IF text[i] \in Blanks THEN f[i + 1]
    ELSE IF IsOpen(i) THEN EndAt("odd", i)
    ELSE IF text[i] = APOSTROPHE THEN f[EndOfComment(i) + 1]
    ELSE IF Ends(i) = {} THEN EndAt("none", i)
    ELSE IF IsOdd(i, Max(Ends(i))) THEN EndAt("odd", i)
    ELSE <<TokenAt(i, Max(Ends(i)))>> \o f[Max(Ends(i)) + 1]

Tokenizing == INSTANCE Recursion_proofs WITH Def <- TokensStep

\* The tokens from i on are made of those from later places on.
LEMMA TokensFromWorks ==
    ASSUME text \in Seq(Chars)
    PROVE  \A i \in 1 .. Len(text) + 1 : TokensFrom[i] = TokensStep(TokensFrom, i)
  <1>1. PICK S : S = 1 .. Len(text) + 1
    OBVIOUS
  <1>2. PICK rank : rank = [i \in S |-> Len(text) + 1 - i]
    OBVIOUS
  <1>3. rank \in [S -> Nat] /\ Len(text) \in Nat
    BY <1>1, <1>2
  <1>4. Tokenizing!LooksBelow(S, rank)
    <2> SUFFICES ASSUME NEW g, NEW h, NEW i \in S,
                        \A y \in S : rank[y] < rank[i] => g[y] = h[y]
                 PROVE  TokensStep(g, i) = TokensStep(h, i)
      BY DEF Tokenizing!LooksBelow
    <2>1. ASSUME NEW j \in i .. Len(text) PROVE g[j + 1] = h[j + 1]
      BY <1>1, <1>2, <1>3, <2>1
    <2>2. CASE i > Len(text)
      BY <2>2 DEF TokensStep
    <2>3. CASE ~ (i > Len(text))
      <3>1. i \in 1 .. Len(text) /\ i \in i .. Len(text)
        BY <1>1, <1>3, <2>3
      <3>2. g[i + 1] = h[i + 1]
        BY <2>1, <3>1
      <3>3. text[i] = APOSTROPHE /\ ~ IsOpen(i)
              => g[EndOfComment(i) + 1] = h[EndOfComment(i) + 1]
        <4> SUFFICES ASSUME text[i] = APOSTROPHE, ~ IsOpen(i)
                     PROVE  g[EndOfComment(i) + 1] = h[EndOfComment(i) + 1]
          OBVIOUS
        <4>1. PICK k \in i .. Len(text) : text[k] = NL
          BY <3>1, NewlineLater DEF IsOpen
        <4>2. EndOfComment(i) \in i .. Len(text)
          BY <3>1, <4>1, CommentEnd
        <4> QED
          BY <2>1, <4>2
      <3>4. Ends(i) # {} => g[Max(Ends(i)) + 1] = h[Max(Ends(i)) + 1]
        BY <2>1, <3>1, LongestEnd
      <3> QED
        BY <3>2, <3>3, <3>4 DEF TokensStep
    <2> QED
      BY <2>2, <2>3
  <1>5. \E f : f = [i \in S |-> TokensStep(f, i)]
    BY <1>3, <1>4, Tokenizing!RecursionWorks
  <1>6. TokensFrom = CHOOSE f : f = [i \in S |-> TokensStep(f, i)]
    BY <1>1 DEF TokensFrom, TokensStep
  <1>7. TokensFrom = [i \in S |-> TokensStep(TokensFrom, i)]
    BY <1>5, <1>6
  <1> QED
    BY <1>1, <1>7

\* A place behind the text.
LEMMA AtEnd ==
    ASSUME text \in Seq(Chars)
    PROVE  TokensFrom[Len(text) + 1] = EndAt("T_EOF", Len(text) + 1)
  <1>1. /\ Len(text) + 1 \in 1 .. Len(text) + 1 /\ Len(text) + 1 > Len(text)
        /\ Len(text) \in Nat
    OBVIOUS
  <1> QED
    BY <1>1, TokensFromWorks DEF TokensStep

\* A place in it.
LEMMA InText ==
    ASSUME text \in Seq(Chars), NEW i \in 1 .. Len(text)
    PROVE  /\ TokensFrom[i] = TokensStep(TokensFrom, i)
           /\ ~ (i > Len(text))
  <1>1. i \in 1 .. Len(text) + 1 /\ ~ (i > Len(text))
    OBVIOUS
  <1> QED
    BY <1>1, TokensFromWorks

\* A blank.
LEMMA AtBlank ==
    ASSUME text \in Seq(Chars), NEW i \in 1 .. Len(text), text[i] \in Blanks
    PROVE  TokensFrom[i] = TokensFrom[i + 1]
  BY InText DEF TokensStep

\* A comment that ends, and one that does not.
LEMMA AtComment ==
    ASSUME text \in Seq(Chars), NEW i \in 1 .. Len(text), text[i] = APOSTROPHE
    PROVE  TokensFrom[i] = IF \E k \in i .. Len(text) : text[k] = NL
                           THEN TokensFrom[EndOfComment(i) + 1] ELSE EndAt("odd", i)
  <1>1. text[i] \notin Blanks /\ text[i] # QUOTE
    BY MarkKindsApart
  <1>2. IsOpen(i) <=> ~ \E k \in i .. Len(text) : text[k] = NL
    BY <1>1, NewlineLater DEF IsOpen
  <1> QED
    BY <1>1, <1>2, InText DEF TokensStep

\* A place where no token begins.
LEMMA AtNoToken ==
    ASSUME text \in Seq(Chars), NEW i \in 1 .. Len(text),
           text[i] \notin Blanks \cup {APOSTROPHE}, Ends(i) = {}
    PROVE  TokensFrom[i] = EndAt(IF text[i] = QUOTE THEN "odd" ELSE "none", i)
  BY InText DEF TokensStep, IsOpen

\* A place where a token begins, m being the end of the longest one.
LEMMA AtToken ==
    ASSUME text \in Seq(Chars), NEW i \in 1 .. Len(text),
           text[i] \notin Blanks \cup {APOSTROPHE},
           NEW m \in Ends(i), \A j \in Ends(i) : j <= m
    PROVE  TokensFrom[i] = IF IsOdd(i, m) THEN EndAt("odd", i)
                           ELSE <<TokenAt(i, m)>> \o TokensFrom[m + 1]
  <1>1. Ends(i) # {} /\ Max(Ends(i)) = m
    BY LongestEnd
  <1>2. ~ IsOpen(i)
    BY <1>1 DEF IsOpen
  <1> QED
    BY <1>1, <1>2, InText DEF TokensStep

-----------------------------------------------------------------------------
(* Types, lines and words *)

\* What a list of tokens expected is made of.
Expectable ==
    {TokenAt(i, j) : i, j \in 1 .. Len(text)}
    \cup {EndAt(type, i)[1] : type \in {"T_EOF", "none", "odd"}, i \in 1 .. Len(text) + 1}

\* A list of one end.
LEMMA EndTyped ==
    ASSUME NEW i \in 1 .. Len(text) + 1, NEW type \in {"T_EOF", "none", "odd"}
    PROVE  EndAt(type, i) \in Seq(Expectable) /\ EndAt(type, i) # << >>
  <1>1. EndAt(type, i)[1] \in Expectable
    BY DEF Expectable
  <1>2. EndAt(type, i) = <<EndAt(type, i)[1]>>
    BY DEF EndAt
  <1>3. PICK x : x = EndAt(type, i)[1]
    OBVIOUS
  <1>4. <<x>> \in Seq(Expectable) /\ <<x>> # << >>
    BY <1>1, <1>3
  <1> QED
    BY <1>2, <1>3, <1>4

\* The lists of tokens expected have an end.
LEMMA ExpectedTyped ==
    ASSUME text \in Seq(Chars)
    PROVE  \A i \in 1 .. Len(text) + 1 :
              TokensFrom[i] \in Seq(Expectable) /\ TokensFrom[i] # << >>
  <1>1. PICK S : S = 1 .. Len(text) + 1
    OBVIOUS
  <1>2. PICK rank : rank = [i \in S |-> Len(text) + 1 - i]
    OBVIOUS
  <1>3. rank \in [S -> Nat] /\ Len(text) \in Nat
    BY <1>1, <1>2
  <1>4. PICK T : T = {i \in S : ~ (TokensFrom[i] \in Seq(Expectable) /\ TokensFrom[i] # << >>)}
    OBVIOUS
  <1> SUFFICES ASSUME T # {} PROVE FALSE
    BY <1>1, <1>4
  <1>5. PICK i \in T : \A y \in T : rank[i] <= rank[y]
    BY <1>3, <1>4, LeastRank
  <1>6. ASSUME NEW j \in i .. Len(text)
        PROVE  TokensFrom[j + 1] \in Seq(Expectable) /\ TokensFrom[j + 1] # << >>
    <2>1. j + 1 \in S /\ i \in S /\ ~ (rank[i] <= rank[j + 1])
      BY <1>1, <1>2, <1>3, <1>4
    <2> QED
      BY <1>4, <1>5, <2>1
  <1>7. CASE i = Len(text) + 1
    <2>1. TokensFrom[i] = EndAt("T_EOF", i)
      BY <1>7, AtEnd
    <2> QED
      BY <1>1, <1>4, <1>5, <2>1, EndTyped
  <1>8. CASE i # Len(text) + 1
    <2>1. i \in 1 .. Len(text) /\ i \in i .. Len(text)
      BY <1>1, <1>3, <1>4, <1>8
    <2>2. PICK f : f = TokensFrom
      OBVIOUS
    <2>3. f[i] = TokensStep(f, i) /\ ~ (i > Len(text))
      BY <2>1, <2>2, InText
    <2>4. CASE text[i] \in Blanks
      BY <1>4, <1>6, <2>1, <2>4, AtBlank
    <2>5. CASE text[i] = APOSTROPHE
      <3>1. CASE \E k \in i .. Len(text) : text[k] = NL
        <4>1. EndOfComment(i) \in i .. Len(text)
          BY <2>1, <3>1, CommentEnd
        <4>2. TokensFrom[i] = TokensFrom[EndOfComment(i) + 1]
          BY <2>1, <2>5, <3>1, AtComment
        <4> QED
          BY <1>4, <1>6, <4>1, <4>2
      <3>2. CASE ~ \E k \in i .. Len(text) : text[k] = NL
        <4>1. TokensFrom[i] = EndAt("odd", i)
          BY <2>1, <2>5, <3>2, AtComment
        <4> QED
          BY <1>1, <1>4, <1>5, <4>1, EndTyped
      <3> QED
        BY <3>1, <3>2
    <2>6. CASE text[i] \notin Blanks \cup {APOSTROPHE} /\ Ends(i) = {}
      <3>1. PICK type : type = (IF text[i] = QUOTE THEN "odd" ELSE "none")
        OBVIOUS
      <3>2. TokensFrom[i] = EndAt(type, i)
        BY <2>1, <2>6, <3>1, AtNoToken
      <3> QED
        BY <1>1, <1>4, <1>5, <3>1, <3>2, EndTyped
    <2>7. CASE text[i] \notin Blanks \cup {APOSTROPHE} /\ Ends(i) # {}
      <3>1. PICK m \in Ends(i) : m \in i .. Len(text) /\ \A j \in Ends(i) : j <= m
        BY <2>1, <2>7, LongestEnd
      <3>2. TokensFrom[i] = IF IsOdd(i, m) THEN EndAt("odd", i)
                            ELSE <<TokenAt(i, m)>> \o TokensFrom[m + 1]
        BY <2>1, <2>7, <3>1, AtToken
      <3>3. m \in 1 .. Len(text)
        BY <2>1, <3>1
      <3>4. PICK x : x = TokenAt(i, m)
        OBVIOUS
      <3>5. x \in Expectable
        BY <2>1, <3>3, <3>4 DEF Expectable
      <3>6. PICK rest : rest = TokensFrom[m + 1]
        OBVIOUS
      <3>7. rest \in Seq(Expectable)
        BY <1>6, <3>1, <3>6
      <3>8. <<x>> \o rest \in Seq(Expectable) /\ <<x>> \o rest # << >>
        BY <3>5, <3>7
      <3> QED
        BY <1>1, <1>4, <1>5, <3>2, <3>4, <3>6, <3>8, EndTyped
    <2> QED
      BY <2>4, <2>5, <2>6, <2>7
  <1> QED
    BY <1>7, <1>8

\* The line of a place is one more than the newlines before it.
LEMMA LinesAreNewlines ==
    ASSUME Buffer, NEW i \in 1 .. Len(prog_buff)
    PROVE  LineAt(i) = 1 + Cardinality(Newlines(i))
  <1>1. /\ text \in Seq(Chars) /\ Len(text) = Len(prog_buff) - 1 /\ Len(prog_buff) \in Nat
        /\ \A j \in 1 .. Len(prog_buff) - 1 : text[j] = prog_buff[j]
    BY TextOfBuffer
  <1>2. PICK u : u = SubSeq(text, 1, i - 1)
    OBVIOUS
  <1>3. DOMAIN u = 1 .. i - 1 /\ \A k \in 1 .. i - 1 : u[k] = text[k]
    BY <1>1, <1>2
  <1>4. {k \in DOMAIN u : u[k] = NL} = Newlines(i)
    <2>1. \A k \in 1 .. i - 1 : u[k] = prog_buff[k]
      BY <1>1, <1>3
    <2> QED
      BY <1>3, <2>1 DEF Newlines
  <1> QED
    BY <1>2, <1>4 DEF LineAt, CountOf

\* The line does not change from i to k, or k is behind the first newline.
LEMMA LinesPass ==
    ASSUME Buffer, NEW i \in 1 .. Len(prog_buff), NEW k \in i .. Len(prog_buff)
    PROVE  /\ LineAt(i) \in Nat
           /\ (\A j \in i .. k - 1 : prog_buff[j] # NL) => LineAt(k) = LineAt(i)
           /\ (k > i /\ prog_buff[k - 1] = NL /\ \A j \in i .. k - 2 : prog_buff[j] # NL)
                => LineAt(k) = LineAt(i) + 1
  <1>1. /\ i \in Nat /\ k \in Nat /\ i >= 1 /\ i <= k /\ k \in 1 .. Len(prog_buff)
        /\ Len(prog_buff) \in Nat
    BY TextOfBuffer
  <1>2. /\ LineAt(i) = 1 + Cardinality(Newlines(i)) /\ LineAt(k) = 1 + Cardinality(Newlines(k))
        /\ Cardinality(Newlines(i)) \in Nat /\ IsFiniteSet(Newlines(i))
    BY <1>1, LinesAreNewlines, NewlinesFinite
  <1>3. ASSUME \A j \in i .. k - 1 : prog_buff[j] # NL PROVE Newlines(k) = Newlines(i)
    BY <1>1, <1>3 DEF Newlines
  <1>4. ASSUME k > i, prog_buff[k - 1] = NL, \A j \in i .. k - 2 : prog_buff[j] # NL
        PROVE  Newlines(k) = Newlines(i) \cup {k - 1} /\ k - 1 \notin Newlines(i)
    <2>1. k - 1 \in 1 .. k - 1 /\ k - 1 \notin 1 .. i - 1
      BY <1>1, <1>4
    <2>2. ASSUME NEW j \in Newlines(k), j # k - 1 PROVE j \in Newlines(i)
      <3>1. j \in 1 .. k - 1 /\ prog_buff[j] = NL /\ j \notin i .. k - 2
        BY <1>4, <2>2 DEF Newlines
      <3>2. j \in 1 .. i - 1
        BY <1>1, <2>2, <3>1
      <3> QED
        BY <3>1, <3>2 DEF Newlines
    <2>3. ASSUME NEW j \in Newlines(i) PROVE j \in Newlines(k)
      BY <1>1 DEF Newlines
    <2>4. k - 1 \in Newlines(k)
      BY <1>4, <2>1 DEF Newlines
    <2>5. k - 1 \notin Newlines(i)
      BY <2>1 DEF Newlines
    <2> QED
      BY <2>2, <2>3, <2>4, <2>5
  <1>5. k - 1 \notin Newlines(i) =>
           Cardinality(Newlines(i) \cup {k - 1}) = Cardinality(Newlines(i)) + 1
    BY <1>2, FS_AddElement
  <1>6. (\A j \in i .. k - 1 : prog_buff[j] # NL) => LineAt(k) = LineAt(i)
    BY <1>2, <1>3
  <1>7. ASSUME k > i, prog_buff[k - 1] = NL, \A j \in i .. k - 2 : prog_buff[j] # NL
        PROVE  LineAt(k) = LineAt(i) + 1
    <2>1. PICK a : a = Cardinality(Newlines(i))
      OBVIOUS
    <2>2. PICK b : b = Cardinality(Newlines(k))
      OBVIOUS
    <2>3. b = a + 1
      BY <1>4, <1>5, <1>7, <2>1, <2>2
    <2>4. a \in Nat /\ LineAt(i) = 1 + a /\ LineAt(k) = 1 + b
      BY <1>2, <2>1, <2>2
    <2> QED
      BY <2>3, <2>4
  <1>8. LineAt(i) \in Nat
    BY <1>2
  <1> QED
    BY <1>6, <1>7, <1>8

\* A character that is not part of a word ends one.
LEMMA OutOfWord ==
    ASSUME text \in Seq(Chars), NEW i \in 1 .. Len(text), text[i] \notin WordChars
    PROVE  ~ InWord(i)
  <1> SUFFICES ASSUME NEW j \in 1 .. i, IsWord(SubSeq(text, j, i)) PROVE FALSE
    BY DEF InWord
  <1>1. j \in 1 .. Len(text) /\ i \in j .. Len(text) /\ i \in j .. i
    OBVIOUS
  <1> QED
    BY <1>1, WordPiece

\* A word goes on through i only if it has begun before, when no letter follows.
LEMMA NoWordBegun ==
    ASSUME text \in Seq(Chars), NEW i \in 1 .. Len(text), NEW m \in i .. Len(text),
           i > 1 => ~ InWord(i - 1), \A k \in i .. m : text[k] \notin Letters
    PROVE  ~ InWord(m)
  <1> SUFFICES ASSUME NEW j \in 1 .. m, IsWord(SubSeq(text, j, m)) PROVE FALSE
    BY DEF InWord
  <1>1. j \in 1 .. Len(text) /\ m \in j .. Len(text) /\ i \in Nat /\ m \in Nat
    OBVIOUS
  <1>2. text[j] \in Letters /\ \A k \in j .. m : text[k] \in WordChars
    BY <1>1, WordPiece
  <1>3. j \notin i .. m
    BY <1>2
  <1>4. j \in 1 .. i - 1 /\ i > 1 /\ i - 1 \in j .. Len(text)
    BY <1>1, <1>3
  <1>5. \A k \in j .. i - 1 : text[k] \in WordChars
    BY <1>1, <1>2, <1>4
  <1>6. IsWord(SubSeq(text, j, i - 1))
    BY <1>1, <1>2, <1>4, <1>5, WordPiece
  <1> QED
    BY <1>4, <1>6 DEF InWord

\* A piece of the text is one of the buffer.
LEMMA SamePiece ==
    ASSUME Buffer, NEW i \in Nat, i >= 1, NEW j \in Int, j <= Len(text)
    PROVE  SubSeq(text, i, j) = SubSeq(prog_buff, i, j)
  <1>1. /\ text \in Seq(Chars) /\ Len(text) = Len(prog_buff) - 1 /\ Len(prog_buff) \in Nat
        /\ \A k \in 1 .. Len(prog_buff) - 1 : text[k] = prog_buff[k]
        /\ prog_buff \in Seq(Chars \cup {NUL})
    BY TextOfBuffer DEF Buffer
  <1>2. PICK u : u = SubSeq(text, i, j)
    OBVIOUS
  <1>3. PICK v : v = SubSeq(prog_buff, i, j)
    OBVIOUS
  <1>4. PICK n : n = (IF i <= j THEN j - i + 1 ELSE 0)
    OBVIOUS
  <1>5. /\ u \in Seq(Chars \cup {NUL}) /\ Len(u) = n
        /\ \A k \in 1 .. n : u[k] = text[i + k - 1]
    BY <1>1, <1>2, <1>4
  <1>6. /\ v \in Seq(Chars \cup {NUL}) /\ Len(v) = n
        /\ \A k \in 1 .. n : v[k] = prog_buff[i + k - 1]
    BY <1>1, <1>3, <1>4
  <1>7. ASSUME NEW k \in 1 .. n PROVE u[k] = v[k]
    <2>1. i + k - 1 \in 1 .. Len(prog_buff) - 1
      BY <1>1, <1>4
    <2> QED
      BY <1>1, <1>5, <1>6, <2>1
  <1>8. u = v
    BY <1>5, <1>6, <1>7, SeqEqual
  <1> QED
    BY <1>2, <1>3, <1>8

-----------------------------------------------------------------------------
(* On the track *)

\* The list so far and the tokens expected from i on, which is on the line given,
\* are all the tokens expected.
OnTrackAt(i, line, list) ==
    /\ i \in 1 .. Len(prog_buff)
    /\ line = LineAt(i)
    /\ list \o TokensFrom[i] = TokensFrom[1]

\* No word has come as far as i.
NoWordAt(i) == i > 1 => ~ InWord(i - 1)

\* tokenize has come to a place where it goes its own way.
Strayed(list) ==
    /\ Last(TokensFrom[1]).type = "odd"
    /\ IsPrefix(Front(TokensFrom[1]), list)

OnTrack ==
    /\ c = prog_buff[char_num]
    /\ OnTrackAt(char_num, line_num, tokens)
    /\ NoWordAt(char_num)

LongInv ==
    \/ Strayed(tokens)
    \/ status = "running" /\ OnTrack
    \/ status = "done" /\ Last(TokensFrom[1]).type = "T_EOF" /\ tokens = TokensFrom[1]
    \/ /\ status = "log_error" /\ Last(TokensFrom[1]).type = "none"
       /\ tokens = Front(TokensFrom[1])

\* The front and the end of a list.
LEMMA FrontAndLast ==
    ASSUME NEW S, NEW T, NEW s \in Seq(S), NEW x \in T
    PROVE  Front(s \o <<x>>) = s /\ Last(s \o <<x>>) = x
  <1>1. PICK u : u = s \o <<x>>
    OBVIOUS
  <1>2. s \in Seq(S \cup T) /\ <<x>> \in Seq(S \cup T) /\ Len(<<x>>) = 1 /\ <<x>>[1] = x
    OBVIOUS
  <1>3. /\ u \in Seq(S \cup T) /\ Len(u) = Len(s) + 1 /\ Len(s) \in Nat
        /\ \A k \in 1 .. Len(s) : u[k] = s[k]
        /\ u[Len(s) + 1] = x
    BY <1>1, <1>2, ConcatProperties
  <1>4. Last(u) = x
    BY <1>3 DEF Last
  <1>5. u # << >>
    BY <1>3
  <1>6. /\ Front(u) \in Seq(S \cup T) /\ Len(Front(u)) = Len(u) - 1
        /\ \A k \in 1 .. Len(u) - 1 : Front(u)[k] = u[k]
    BY <1>3, <1>5, FrontOfSeq
  <1>7. Front(u) = s
    BY <1>2, <1>3, <1>6, SeqEqual
  <1> QED
    BY <1>1, <1>4, <1>7

\* A prefix, element by element.
LEMMA PrefixByElement ==
    ASSUME NEW S, NEW s \in Seq(S), NEW t \in Seq(S)
    PROVE  IsPrefix(s, t) <=> Len(s) <= Len(t) /\ \A k \in 1 .. Len(s) : s[k] = t[k]
  <1>1. Len(s) \in Nat /\ Len(t) \in Nat
    OBVIOUS
  <1>2. ASSUME Len(s) <= Len(t)
        PROVE  SubSeq(s, 1, Len(s)) = SubSeq(t, 1, Len(s))
               <=> \A k \in 1 .. Len(s) : s[k] = t[k]
    <2>1. PICK u : u = SubSeq(t, 1, Len(s))
      OBVIOUS
    <2>2. u \in Seq(S) /\ Len(u) = Len(s) /\ \A k \in 1 .. Len(s) : u[k] = t[k]
      BY <1>1, <1>2, <2>1
    <2>3. PICK v : v = SubSeq(s, 1, Len(s))
      OBVIOUS
    <2>4. v \in Seq(S) /\ Len(v) = Len(s) /\ \A k \in 1 .. Len(s) : v[k] = s[k]
      BY <1>1, <2>3
    <2>5. v = u <=> \A k \in 1 .. Len(s) : v[k] = u[k]
      BY <2>2, <2>4, SeqEqual
    <2> QED
      BY <2>1, <2>2, <2>3, <2>4, <2>5
  <1> QED
    BY <1>2 DEF IsPrefix

\* A list is a prefix of itself and of what is made of it.
LEMMA PrefixesStay ==
    ASSUME NEW S, NEW s \in Seq(S), NEW t \in Seq(S), NEW p \in Seq(S)
    PROVE  /\ IsPrefix(s, s)
           /\ IsPrefix(p, s) => IsPrefix(p, s \o t)
  <1>1. PICK u : u = s \o t
    OBVIOUS
  <1>2. /\ u \in Seq(S) /\ Len(u) = Len(s) + Len(t)
        /\ \A k \in 1 .. Len(s) : u[k] = s[k]
    BY <1>1, ConcatProperties
  <1>3. IsPrefix(s, s) <=> Len(s) <= Len(s) /\ \A k \in 1 .. Len(s) : s[k] = s[k]
    BY PrefixByElement
  <1>4. IsPrefix(p, s) <=> Len(p) <= Len(s) /\ \A k \in 1 .. Len(p) : p[k] = s[k]
    BY PrefixByElement
  <1>5. IsPrefix(p, u) <=> Len(p) <= Len(u) /\ \A k \in 1 .. Len(p) : p[k] = u[k]
    <2>1. u \in Seq(S)
      BY <1>2
    <2> QED
      BY <2>1, PrefixByElement
  <1>6. Len(s) \in Nat /\ Len(t) \in Nat /\ Len(p) \in Nat
    OBVIOUS
  <1> QED
    BY <1>1, <1>2, <1>3, <1>4, <1>5, <1>6

\* At an end of the tokens expected, they are all but that end.
LEMMA EndOfTrack ==
    ASSUME Buffer, NEW i, NEW line, NEW S, NEW list \in Seq(S), OnTrackAt(i, line, list),
           NEW type \in {"T_EOF", "none", "odd"}, TokensFrom[i] = EndAt(type, i)
    PROVE  /\ Last(TokensFrom[1]).type = type /\ Front(TokensFrom[1]) = list
           /\ TokensFrom[1] = Append(list, [type |-> type, line |-> line, literal |-> <<"EOF">>])
  <1>1. PICK x : x = [type |-> type, line |-> line, literal |-> <<"EOF">>]
    OBVIOUS
  <1>2. TokensFrom[1] = list \o <<x>>
    BY <1>1 DEF OnTrackAt, EndAt
  <1>3. Front(list \o <<x>>) = list /\ Last(list \o <<x>>) = x
    <2>1. PICK T : T = {x}
      OBVIOUS
    <2>2. x \in T
      BY <2>1
    <2> QED
      BY <2>2, FrontAndLast
  <1>4. list \o <<x>> = Append(list, x)
    OBVIOUS
  <1>5. x.type = type
    BY <1>1
  <1> QED
    BY <1>1, <1>2, <1>3, <1>4, <1>5

\* An odd place.
LEMMA OddEnd ==
    ASSUME Buffer, NEW i, NEW line, NEW S, NEW list \in Seq(S), OnTrackAt(i, line, list),
           TokensFrom[i] = EndAt("odd", i)
    PROVE  Strayed(list)
  <1>1. Last(TokensFrom[1]).type = "odd" /\ Front(TokensFrom[1]) = list
    BY EndOfTrack
  <1>2. IsPrefix(list, list)
    BY PrefixesStay
  <1> QED
    BY <1>1, <1>2 DEF Strayed

\* What is not part of a token is passed over.
LEMMA PassedOver ==
    ASSUME Buffer, NEW i, NEW line, NEW list, OnTrackAt(i, line, list),
           NEW k \in 1 .. Len(prog_buff), TokensFrom[i] = TokensFrom[k]
    PROVE  OnTrackAt(k, LineAt(k), list)
  BY DEF OnTrackAt

\* The longest token at i, which is emitted.
LEMMA TokenTracked ==
    ASSUME Buffer, NEW i, NEW line, NEW S, NEW list \in Seq(S), OnTrackAt(i, line, list),
           i <= Len(text), text[i] \notin Blanks \cup {APOSTROPHE},
           NEW m \in Ends(i), \A j \in Ends(i) : j <= m
    PROVE  /\ IsOdd(i, m) => Strayed(list)
           /\ ~ IsOdd(i, m) => OnTrackAt(m + 1, LineAt(m + 1), list \o <<TokenAt(i, m)>>)
  <1>1. /\ text \in Seq(Chars) /\ Len(text) = Len(prog_buff) - 1 /\ Len(prog_buff) \in Nat
        /\ i \in 1 .. Len(text) /\ i \in Nat /\ i >= 1
    BY TextOfBuffer DEF OnTrackAt
  <1>2. m \in i .. Len(text) /\ m \in Nat
    BY <1>1 DEF Ends
  <1>3. TokensFrom[i] = IF IsOdd(i, m) THEN EndAt("odd", i)
                        ELSE <<TokenAt(i, m)>> \o TokensFrom[m + 1]
    BY <1>1, AtToken
  <1>4. ASSUME IsOdd(i, m) PROVE Strayed(list)
    BY <1>3, <1>4, OddEnd
  <1>5. ASSUME ~ IsOdd(i, m)
        PROVE  OnTrackAt(m + 1, LineAt(m + 1), list \o <<TokenAt(i, m)>>)
    <2>1. PICK x : x = TokenAt(i, m)
      OBVIOUS
    <2>2. PICK rest : rest = TokensFrom[m + 1]
      OBVIOUS
    <2>3. m + 1 \in 1 .. Len(prog_buff) /\ m + 1 \in 1 .. Len(text) + 1
      BY <1>1, <1>2
    <2>4. rest \in Seq(Expectable) /\ x \in Expectable
      <3>1. rest \in Seq(Expectable)
        BY <1>1, <2>2, <2>3, ExpectedTyped
      <3>2. m \in 1 .. Len(text)
        BY <1>1, <1>2
      <3>3. x \in Expectable
        BY <1>1, <2>1, <3>2 DEF Expectable
      <3> QED
        BY <3>1, <3>3
    <2>5. list \o (<<x>> \o rest) = TokensFrom[1]
      BY <1>3, <1>5, <2>1, <2>2 DEF OnTrackAt
    <2>6. PICK T : T = S \cup Expectable
      OBVIOUS
    <2>7. list \in Seq(T) /\ <<x>> \in Seq(T) /\ rest \in Seq(T)
      BY <2>4, <2>6
    <2>8. (list \o <<x>>) \o rest = list \o (<<x>> \o rest)
      BY <2>7, ConcatAssociative
    <2>9. (list \o <<x>>) \o TokensFrom[m + 1] = TokensFrom[1]
      BY <2>2, <2>5, <2>8
    <2>10. list \o <<TokenAt(i, m)>> = list \o <<x>>
      BY <2>1
    <2> QED
      BY <2>3, <2>9, <2>10 DEF OnTrackAt
  <1> QED
    BY <1>4, <1>5

\* The tokens expected are those of the text, which does not change.
LEMMA SameExpected ==
    ASSUME UNCHANGED prog_buff
    PROVE  TokensFrom' = TokensFrom
  BY DEF TokensFrom, Ends, text, EndAt, LineAt, IsOpen, EndOfComment, IsOdd, InWord, TokenAt

\* Nor does what it means to be on their track.
LEMMA SameTrack ==
    ASSUME UNCHANGED prog_buff, OnTrackAt(char_num', line_num', tokens')
    PROVE  OnTrackAt(char_num, line_num, tokens)'
  <1>1. TokensFrom' = TokensFrom
    BY SameExpected
  <1> QED
    BY <1>1 DEF OnTrackAt, LineAt, InWord, text

\* A pass that goes on along the track, in a step that keeps the invariant.
LEMMA StaysOnTrack ==
    ASSUME LexInv, LexInv', status = "running",
           NEW i \in 1 .. Len(prog_buff), NEW ch, NEW line, NEW emitted,
           GoOn(i, ch, line, emitted), ch = prog_buff[i],
           OnTrackAt(i, line, tokens \o emitted), NoWordAt(i)
    PROVE  LongInv'
  <1>1. ~ (i > Len(prog_buff))
    BY TextOfBuffer DEF LexInv
  <1>2. ~ (emitted # << >> /\ line_num > LineCount)
    <2> SUFFICES ASSUME emitted # << >> /\ line_num > LineCount PROVE FALSE
      OBVIOUS
    <2>1. status' = "no_line"
      BY <1>1 DEF GoOn, Stop
    <2> QED
      BY <2>1 DEF LexInv
  <1>3. /\ char_num' = i /\ c' = ch /\ line_num' = line /\ tokens' = tokens \o emitted
        /\ UNCHANGED <<prog_buff, status>>
    BY <1>1, <1>2 DEF GoOn
  <1>4. OnTrackAt(char_num', line_num', tokens')
    BY <1>3
  <1>5. OnTrackAt(char_num, line_num, tokens)'
    BY <1>3, <1>4, SameTrack
  <1>6. NoWordAt(char_num)'
    BY <1>3 DEF NoWordAt, InWord, text
  <1>7. c' = prog_buff'[char_num'] /\ status' = "running"
    BY <1>3
  <1> QED
    BY <1>5, <1>6, <1>7 DEF LongInv, OnTrack

\* Where the character at hand is, on the track.
LEMMA TrackHere ==
    ASSUME LexInv, OnTrack
    PROVE  /\ Buffer /\ text \in Seq(Chars) /\ tokens \in Seq(Tokens)
           /\ Len(prog_buff) = Len(text) + 1 /\ Len(text) \in Nat
           /\ \A j \in 1 .. Len(text) : text[j] = prog_buff[j] /\ prog_buff[j] \in Chars
           /\ \A j \in 1 .. Len(prog_buff) : prog_buff[j] # NUL => j \in 1 .. Len(text)
           /\ char_num \in 1 .. Len(prog_buff) /\ char_num \in Nat
           /\ prog_buff[char_num] = c /\ line_num = LineAt(char_num) /\ line_num \in Nat
           /\ c # NUL => char_num \in 1 .. Len(text) /\ text[char_num] = c
  <1>1. /\ Buffer /\ text \in Seq(Chars) /\ Len(text) = Len(prog_buff) - 1
        /\ Len(prog_buff) \in Nat /\ Len(prog_buff) >= 1
        /\ \A j \in 1 .. Len(prog_buff) - 1 : text[j] = prog_buff[j] /\ prog_buff[j] \in Chars
    BY TextOfBuffer DEF LexInv, Buffer
  <1>2. \A j \in 1 .. Len(prog_buff) : prog_buff[j] # NUL => j \in 1 .. Len(text)
    <2> SUFFICES ASSUME NEW j \in 1 .. Len(prog_buff), prog_buff[j] # NUL
                 PROVE  j \in 1 .. Len(text)
      OBVIOUS
    <2>1. j # Len(prog_buff)
      BY DEF LexInv, Buffer
    <2> QED
      BY <1>1, <2>1
  <1>3. char_num \in 1 .. Len(prog_buff) /\ tokens \in Seq(Tokens) /\ line_num \in Nat
    BY DEF LexInv, LineAtMost
  <1>4. prog_buff[char_num] = c /\ line_num = LineAt(char_num)
    BY DEF OnTrack, OnTrackAt
  <1>5. c # NUL => char_num \in 1 .. Len(text) /\ text[char_num] = c
    BY <1>1, <1>2, <1>3, <1>4
  <1>6. /\ Len(prog_buff) = Len(text) + 1 /\ Len(text) \in Nat /\ char_num \in Nat
        /\ \A j \in 1 .. Len(text) : text[j] = prog_buff[j] /\ prog_buff[j] \in Chars
    BY <1>1, <1>3
  <1> QED
    BY <1>1, <1>2, <1>3, <1>4, <1>5, <1>6

\* The loop emits the longest token at hand, and goes on behind it.
LEMMA EmitsLongest ==
    ASSUME LexInv, LexInv', status = "running", OnTrack, c \notin Blanks \cup {APOSTROPHE, NUL},
           NEW m \in Ends(char_num), \A j \in Ends(char_num) : j <= m, ~ InWord(m),
           IsOdd(char_num, m) \/ \A k \in char_num .. m : prog_buff[k] # NL,
           NEW token, token = TokenAt(char_num, m), Resume(m + 1, line_num, <<token>>)
    PROVE  Strayed(tokens) \/ LongInv'
  <1>1. /\ Buffer /\ tokens \in Seq(Tokens) /\ OnTrackAt(char_num, line_num, tokens)
        /\ char_num \in 1 .. Len(text) /\ text[char_num] = c /\ line_num = LineAt(char_num)
        /\ Len(prog_buff) = Len(text) + 1 /\ Len(text) \in Nat
    BY TrackHere DEF OnTrack
  <1>2. m \in char_num .. Len(text) /\ m \in Nat /\ char_num \in Nat
    BY <1>1 DEF Ends
  <1>3. CASE IsOdd(char_num, m)
    BY <1>1, <1>2, <1>3, TokenTracked
  <1>4. CASE ~ IsOdd(char_num, m)
    <2>1. OnTrackAt(m + 1, LineAt(m + 1), tokens \o <<token>>)
      BY <1>1, <1>2, <1>4, TokenTracked
    <2>2. LineAt(m + 1) = line_num
      <3>1. /\ m + 1 \in char_num .. Len(prog_buff) /\ char_num \in 1 .. Len(prog_buff)
            /\ \A k \in char_num .. (m + 1) - 1 : prog_buff[k] # NL
        BY <1>1, <1>2, <1>4
      <3> QED
        BY <1>1, <3>1, LinesPass
    <2>3. NoWordAt(m + 1)
      <3>1. PICK k : k = (m + 1) - 1
        OBVIOUS
      <3>2. k = m
        BY <1>2, <3>1
      <3> QED
        BY <3>1, <3>2 DEF NoWordAt
    <2>4. GoOn(m + 1, prog_buff[m + 1], line_num, <<token>>)
      BY DEF Resume
    <2>5. m + 1 \in 1 .. Len(prog_buff)
      BY <1>1, <1>2
    <2> QED
      BY <2>1, <2>2, <2>3, <2>4, <2>5, StaysOnTrack
  <1> QED
    BY <1>3, <1>4

-----------------------------------------------------------------------------
(* The branches on the track *)

\* A blank.
LEMMA BlankTrack ==
    ASSUME LexInv, LexInv', OnTrack, Blank
    PROVE  LongInv'
  <1>1. /\ status = "running" /\ c \in Blanks /\ c # NUL
        /\ Resume(char_num + 1, IF c = NL THEN line_num + 1 ELSE line_num, << >>)
    BY Kinds, MarkKinds DEF Blank, Reads
  <1>2. /\ Buffer /\ text \in Seq(Chars) /\ tokens \in Seq(Tokens)
        /\ char_num \in 1 .. Len(text) /\ text[char_num] = c /\ prog_buff[char_num] = c
        /\ line_num = LineAt(char_num) /\ OnTrackAt(char_num, line_num, tokens)
        /\ Len(prog_buff) = Len(text) + 1 /\ Len(text) \in Nat /\ char_num \in Nat
    BY <1>1, TrackHere DEF OnTrack
  <1>3. PICK i : i = char_num + 1
    OBVIOUS
  <1>4. /\ i \in 1 .. Len(prog_buff) /\ i \in char_num .. Len(prog_buff)
        /\ char_num \in 1 .. Len(prog_buff) /\ i > char_num /\ i - 1 = char_num
    BY <1>2, <1>3
  <1>5. TokensFrom[char_num] = TokensFrom[i]
    BY <1>1, <1>2, <1>3, AtBlank
  <1>6. OnTrackAt(i, LineAt(i), tokens)
    BY <1>2, <1>4, <1>5, PassedOver
  <1>7. LineAt(i) = IF c = NL THEN line_num + 1 ELSE line_num
    <2>1. \A j \in char_num .. i - 2 : FALSE
      BY <1>2, <1>3
    <2>2. \A j \in char_num .. i - 1 : j = char_num
      BY <1>2, <1>3
    <2> QED
      BY <1>2, <1>4, <2>1, <2>2, LinesPass
  <1>8. tokens \o << >> = tokens
    BY <1>2
  <1>9. NoWordAt(i)
    <2>1. text[char_num] \notin WordChars
      BY <1>1, <1>2, MarksEndWords, MarkKinds
    <2>2. ~ InWord(char_num)
      BY <1>2, <2>1, OutOfWord
    <2> QED
      BY <1>4, <2>2 DEF NoWordAt
  <1>10. GoOn(i, prog_buff[i], LineAt(i), << >>)
    BY <1>1, <1>3, <1>7 DEF Resume
  <1> QED
    BY <1>1, <1>4, <1>6, <1>8, <1>9, <1>10, StaysOnTrack

\* A comment.
LEMMA CommentTrack ==
    ASSUME LexInv, LexInv', OnTrack, Comment
    PROVE  Strayed(tokens) \/ LongInv'
  <1>1. status = "running" /\ c = APOSTROPHE /\ c # NUL
    BY Kinds, MarkKinds DEF Comment, Reads
  <1>2. /\ Buffer /\ text \in Seq(Chars) /\ tokens \in Seq(Tokens)
        /\ char_num \in 1 .. Len(text) /\ text[char_num] = c /\ prog_buff[char_num] = c
        /\ line_num = LineAt(char_num) /\ OnTrackAt(char_num, line_num, tokens)
        /\ Len(prog_buff) = Len(text) + 1 /\ Len(text) \in Nat /\ char_num \in Nat
        /\ \A j \in 1 .. Len(text) : text[j] = prog_buff[j]
    BY <1>1, TrackHere DEF OnTrack
  <1>3. CASE ~ \E k \in char_num .. Len(text) : text[k] = NL
    <2>1. TokensFrom[char_num] = EndAt("odd", char_num)
      BY <1>1, <1>2, <1>3, AtComment
    <2> QED
      BY <1>2, <2>1, OddEnd
  <1>4. CASE \E k \in char_num .. Len(text) : text[k] = NL
    <2>1. PICK e : e = EndOfComment(char_num)
      OBVIOUS
    <2>2. /\ e \in char_num .. Len(text) /\ text[e] = NL
          /\ \A j \in char_num .. e - 1 : text[j] # NL
      BY <1>2, <1>4, <2>1, CommentEnd
    <2>3. PICK end : end = FirstOf(char_num, {NL})
      OBVIOUS
    <2>4. end = e
      <3>1. e \in char_num .. Len(prog_buff) /\ prog_buff[e] = NL /\ e \in 1 .. Len(text)
        BY <1>2, <2>2
      <3>2. end \in char_num .. Len(prog_buff) /\ prog_buff[end] = NL /\ end <= e
        BY <1>2, <2>3, <3>1, FirstFound
      <3>3. end \notin char_num .. e - 1
        <4>1. ASSUME end \in char_num .. e - 1 PROVE FALSE
          <5>1. end \in 1 .. Len(text) /\ text[end] = NL
            BY <1>2, <2>2, <3>2, <4>1
          <5> QED
            BY <2>2, <4>1, <5>1
        <4> QED
          BY <4>1
      <3> QED
        BY <1>2, <3>1, <3>2, <3>3
    <2>5. PICK i : i = e + 1
      OBVIOUS
    <2>6. /\ i \in 1 .. Len(prog_buff) /\ i \in char_num .. Len(prog_buff)
          /\ char_num \in 1 .. Len(prog_buff) /\ i > char_num /\ i - 1 = e /\ i - 2 = e - 1
          /\ e \in 1 .. Len(text)
      BY <1>2, <2>2, <2>5
    <2>7. TokensFrom[char_num] = TokensFrom[i]
      BY <1>1, <1>2, <1>4, <2>1, <2>5, AtComment
    <2>8. OnTrackAt(i, LineAt(i), tokens)
      BY <1>2, <2>6, <2>7, PassedOver
    <2>9. LineAt(i) = line_num + 1
      <3>1. prog_buff[i - 1] = NL /\ \A j \in char_num .. i - 2 : prog_buff[j] # NL
        <4>1. ASSUME NEW j \in char_num .. i - 2 PROVE prog_buff[j] # NL
          <5>1. j \in 1 .. Len(text) /\ j \in char_num .. e - 1
            BY <1>2, <2>2, <2>6
          <5> QED
            BY <1>2, <2>2, <5>1
        <4> QED
          BY <1>2, <2>2, <2>6, <4>1
      <3> QED
        BY <1>2, <2>6, <3>1, LinesPass
    <2>10. tokens \o << >> = tokens
      BY <1>2
    <2>11. NoWordAt(i)
      <3>1. text[e] \notin WordChars
        BY <2>2, MarksEndWords, MarkKinds
      <3>2. ~ InWord(e)
        BY <1>2, <2>6, <3>1, OutOfWord
      <3> QED
        BY <2>6, <3>2 DEF NoWordAt
    <2>12. GoOn(i, prog_buff[i], LineAt(i), << >>)
      BY <2>3, <2>4, <2>5, <2>9 DEF Resume, Comment
    <2> QED
      BY <1>1, <2>6, <2>8, <2>10, <2>11, <2>12, StaysOnTrack
  <1> QED
    BY <1>3, <1>4

\* The end of the text.
LEMMA EndOfFileTrack ==
    ASSUME LexInv, OnTrack, EndOfFile
    PROVE  LongInv'
  <1>1. /\ status = "running" /\ c = NUL /\ UNCHANGED prog_buff
        /\ tokens' = Append(tokens, Token("T_EOF", <<"EOF">>)) /\ status' = "done"
    BY DEF EndOfFile, Reads
  <1>2. /\ Buffer /\ text \in Seq(Chars) /\ tokens \in Seq(Tokens)
        /\ OnTrackAt(char_num, line_num, tokens) /\ char_num \in 1 .. Len(prog_buff)
        /\ Len(prog_buff) = Len(text) + 1 /\ Len(text) \in Nat /\ prog_buff[char_num] = NUL
        /\ \A j \in 1 .. Len(text) : prog_buff[j] \in Chars
    BY <1>1, TrackHere DEF OnTrack
  <1>3. char_num = Len(text) + 1
    BY <1>2, Kinds
  <1>4. TokensFrom[char_num] = EndAt("T_EOF", char_num)
    BY <1>2, <1>3, AtEnd
  <1>5. PICK expected : expected = TokensFrom[1]
    OBVIOUS
  <1>6. /\ Last(expected).type = "T_EOF"
        /\ expected = Append(tokens, [type |-> "T_EOF", line |-> line_num,
                                      literal |-> <<"EOF">>])
    BY <1>2, <1>4, <1>5, EndOfTrack
  <1>7. tokens' = expected
    BY <1>1, <1>6 DEF Token
  <1>8. TokensFrom'[1] = expected
    BY <1>1, <1>5, SameExpected
  <1> QED
    BY <1>1, <1>6, <1>7, <1>8 DEF LongInv

\* The loop stops where no token begins.
LEMMA StopsAtNoToken ==
    ASSUME LexInv, OnTrack, status = "running", c \notin Blanks \cup {APOSTROPHE, QUOTE, NUL},
           Ends(char_num) = {}, Stop("log_error")
    PROVE  LongInv'
  <1>1. /\ Buffer /\ text \in Seq(Chars) /\ tokens \in Seq(Tokens)
        /\ OnTrackAt(char_num, line_num, tokens)
        /\ char_num \in 1 .. Len(text) /\ text[char_num] = c
    BY TrackHere DEF OnTrack
  <1>2. TokensFrom[char_num] = EndAt("none", char_num)
    BY <1>1, AtNoToken
  <1>3. PICK expected : expected = TokensFrom[1]
    OBVIOUS
  <1>4. Last(expected).type = "none" /\ Front(expected) = tokens
    BY <1>1, <1>2, <1>3, EndOfTrack
  <1>5. status' = "log_error" /\ UNCHANGED <<prog_buff, tokens>>
    BY DEF Stop
  <1>6. TokensFrom'[1] = expected
    BY <1>3, <1>5, SameExpected
  <1> QED
    BY <1>4, <1>5, <1>6 DEF LongInv

\* A character that tokenize knows nothing of.
LEMMA UnknownTrack ==
    ASSUME LexInv, OnTrack, Unknown
    PROVE  LongInv'
  <1>1. status = "running" /\ c \in Strangers /\ Stop("log_error")
    BY DEF Unknown, Reads
  <1>2. /\ c \notin Blanks \cup {APOSTROPHE, QUOTE, NUL}
        /\ c \notin Letters \cup Digits \cup {"-", QUOTE} /\ c \notin Marks
    BY <1>1, Kinds, MarkKinds
  <1>3. text \in Seq(Chars) /\ char_num \in 1 .. Len(text) /\ text[char_num] = c
    BY <1>2, TrackHere
  <1>4. ASSUME NEW j \in char_num .. Len(text)
        PROVE  Spelt(SubSeq(text, char_num, j)) = "none"
    <2>1. PICK s : s = SubSeq(text, char_num, j)
      OBVIOUS
    <2>2. s \in Seq(Chars) /\ s # << >> /\ s[1] = c
      <3>1. PieceOf(s, Chars, text, char_num, j)
        BY <1>3, <2>1, PieceTaken
      <3> QED
        BY <1>3, <3>1 DEF PieceOf
    <2>3. s \notin DOMAIN Symbols
      BY <1>2, <2>2, SymbolShapes, MarkKinds
    <2> QED
      BY <1>2, <2>1, <2>2, <2>3, SpeltSymbol
  <1>5. Ends(char_num) = {}
    BY <1>4 DEF Ends
  <1> QED
    BY <1>1, <1>2, <1>5, StopsAtNoToken

\* The symbols that begin at i.
LEMMA SymbolEnds ==
    ASSUME text \in Seq(Chars), NEW i \in 1 .. Len(text),
           text[i] \in DOMAIN Singles \cup DOMAIN Comparisons \cup {":", "="}, NEW j
    PROVE  /\ j \in Ends(i) <=> \/ j = i /\ text[i] # "="
                                \/ /\ j = i + 1 /\ j <= Len(text)
                                   /\ text[i] \notin DOMAIN Singles /\ text[i + 1] = "="
           /\ j \in Ends(i) =>
                 /\ TokenAt(i, j) = [type |-> Symbols[SubSeq(text, i, j)],
                                     literal |-> SubSeq(text, i, j), line |-> LineAt(i)]
                 /\ SubSeq(text, i, j) \in DOMAIN Symbols
                 /\ SubSeq(text, i, j) = IF j = i THEN <<text[i]>> ELSE <<text[i], "=">>
                 /\ ~ InWord(j)
                 /\ \A k \in i .. j : text[k] # NL
  <1>1. i \in Nat /\ i >= 1 /\ Len(text) \in Nat /\ i <= Len(text)
    OBVIOUS
  <1>2. /\ text[i] \notin Letters \cup Digits \cup {"-", QUOTE}
        /\ text[i] \in Marks /\ "=" \in Marks
    BY SymbolKinds
  <1>3. ASSUME NEW m \in i .. Len(text)
        PROVE  /\ Spelt(SubSeq(text, i, m)) # "none" <=> SubSeq(text, i, m) \in DOMAIN Symbols
               /\ SubSeq(text, i, m) \in DOMAIN Symbols
                    => Spelt(SubSeq(text, i, m)) = Symbols[SubSeq(text, i, m)]
               /\ SubSeq(text, i, m) \in DOMAIN Symbols
                    <=> \/ m = i /\ text[i] # "="
                        \/ /\ m = i + 1
                           /\ text[i] \notin DOMAIN Singles /\ text[i + 1] = "="
    <2>1. PICK s : s = SubSeq(text, i, m)
      OBVIOUS
    <2>2. s \in Seq(Chars) /\ s # << >> /\ s[1] = text[i] /\ Len(s) = m - i + 1
      <3>1. PieceOf(s, Chars, text, i, m)
        BY <2>1, PieceTaken
      <3> QED
        BY <3>1 DEF PieceOf
    <2>3. m = i + 1 => s[2] = text[i + 1]
      <3>1. ASSUME m = i + 1 PROVE s[2] = text[i + 1]
        <4>1. 2 \in 1 .. m - i + 1 /\ i + 2 - 1 = i + 1
          BY <1>1, <3>1
        <4>2. PieceOf(s, Chars, text, i, m)
          BY <2>1, PieceTaken
        <4>3. s[2] = text[i + 2 - 1]
          BY <4>1, <4>2 DEF PieceOf
        <4> QED
          BY <4>1, <4>3
      <3> QED
        BY <3>1
    <2>4. Spelt(s) = IF s \in DOMAIN Symbols THEN Symbols[s] ELSE "none"
      BY <1>2, <2>2, SpeltSymbol
    <2>5. s \in DOMAIN Symbols => Symbols[s] # "none"
      BY <2>2, SymbolShapes, SymbolTypes, SymbolsSpell
    <2>6. /\ Len(s) = 1 <=> m = i
          /\ Len(s) = 2 <=> m = i + 1
      BY <1>1, <2>2
    <2>7. s \in DOMAIN Symbols <=> \/ m = i /\ text[i] # "="
                                   \/ /\ m = i + 1
                                      /\ text[i] \notin DOMAIN Singles /\ text[i + 1] = "="
      BY <1>2, <2>2, <2>3, <2>6, SymbolShapes, MarkKindsApart
    <2> QED
      BY <2>1, <2>4, <2>5, <2>7
  <1>4. j \in Ends(i) <=> j \in i .. Len(text) /\ Spelt(SubSeq(text, i, j)) # "none"
    BY DEF Ends
  <1>5. j \in Ends(i) <=> \/ j = i /\ text[i] # "="
                          \/ /\ j = i + 1 /\ j <= Len(text)
                             /\ text[i] \notin DOMAIN Singles /\ text[i + 1] = "="
    BY <1>1, <1>3, <1>4
  <1>6. ASSUME j \in Ends(i)
        PROVE  /\ TokenAt(i, j) = [type |-> Symbols[SubSeq(text, i, j)],
                                   literal |-> SubSeq(text, i, j), line |-> LineAt(i)]
               /\ SubSeq(text, i, j) \in DOMAIN Symbols
               /\ SubSeq(text, i, j) = IF j = i THEN <<text[i]>> ELSE <<text[i], "=">>
               /\ ~ InWord(j)
               /\ \A k \in i .. j : text[k] # NL
    <2>1. PICK s : s = SubSeq(text, i, j)
      OBVIOUS
    <2>2. j \in i .. Len(text) /\ s \in DOMAIN Symbols /\ Spelt(s) = Symbols[s]
      BY <1>3, <1>4, <1>6, <2>1
    <2>3. s \in Seq(Chars) /\ s # << >> /\ s[1] = text[i] /\ Len(s) = j - i + 1
          /\ \A k \in 1 .. j - i + 1 : s[k] = text[i + k - 1]
      <3>1. PieceOf(s, Chars, text, i, j)
        BY <2>1, <2>2, PieceTaken
      <3> QED
        BY <3>1 DEF PieceOf
    <2>4. ~ IsString(s)
      BY <1>2, <2>3 DEF IsString
    <2>5. TokenAt(i, j) = [type |-> Symbols[s], literal |-> s, line |-> LineAt(i)]
      BY <2>1, <2>2, <2>4 DEF TokenAt
    <2>6. s = IF j = i THEN <<text[i]>> ELSE <<text[i], "=">>
      <3>1. CASE j = i
        <4>1. Len(s) = 1
          BY <1>1, <2>3, <3>1
        <4> QED
          BY <2>3, <3>1, <4>1, ShortSeqs
      <3>2. CASE j # i
        <4>1. j = i + 1 /\ text[i + 1] = "="
          BY <1>5, <1>6, <3>2
        <4>2. Len(s) = 2 /\ 2 \in 1 .. j - i + 1 /\ i + 2 - 1 = i + 1
          BY <1>1, <2>3, <4>1
        <4>3. s[2] = "="
          BY <2>3, <4>1, <4>2
        <4>4. s = <<text[i], "=">>
          <5>1. PICK a : a = text[i]
            OBVIOUS
          <5>2. s \in Seq(Chars) /\ Len(s) = 2 /\ s[1] = a /\ s[2] = "="
            BY <2>3, <4>2, <4>3, <5>1
          <5>3. s = <<a, "=">>
            BY <5>2, ShortSeqs
          <5> QED
            BY <5>1, <5>3
        <4> QED
          BY <3>2, <4>4
      <3> QED
        BY <3>1, <3>2
    <2>7. j \in 1 .. Len(text) /\ text[j] \in Marks
      BY <1>1, <1>2, <1>5, <1>6, <2>2
    <2>8. ~ InWord(j)
      BY <2>7, MarksEndWords, OutOfWord
    <2>9. ASSUME NEW k \in i .. j PROVE text[k] # NL
      <3>1. k = i \/ (k = i + 1 /\ text[k] = "=")
        BY <1>1, <1>5, <1>6
      <3> QED
        BY <3>1, MarkKindsApart
    <2> QED
      BY <2>1, <2>2, <2>5, <2>6, <2>8, <2>9
  <1> QED
    BY <1>5, <1>6

\* A symbol at hand is the longest token there; of a colon more is to be said.
LEMMA SymbolTrack ==
    ASSUME LexInv, LexInv', OnTrack, status = "running",
           c \in DOMAIN Singles \cup DOMAIN Comparisons \cup {":", "="},
           NEW m \in Ends(char_num), \A j \in Ends(char_num) : j <= m,
           NEW type, NEW literal,
           literal = SubSeq(text, char_num, m), type = Symbols[literal],
           Resume(m + 1, line_num, <<Token(type, literal)>>)
    PROVE  Strayed(tokens) \/ LongInv'
  <1>1. c \notin Blanks \cup {APOSTROPHE, NUL}
    BY SymbolKinds
  <1>2. /\ text \in Seq(Chars) /\ char_num \in 1 .. Len(text) /\ text[char_num] = c
        /\ line_num = LineAt(char_num)
        /\ \A j \in 1 .. Len(text) : text[j] = prog_buff[j]
    BY <1>1, TrackHere
  <1>3. /\ TokenAt(char_num, m) = [type |-> type, literal |-> literal, line |-> LineAt(char_num)]
        /\ ~ InWord(m) /\ \A k \in char_num .. m : text[k] # NL
    BY <1>2, SymbolEnds
  <1>4. PICK token : token = Token(type, literal)
    OBVIOUS
  <1>5. token = TokenAt(char_num, m)
    BY <1>2, <1>3, <1>4 DEF Token
  <1>6. m \in char_num .. Len(text)
    BY DEF Ends
  <1>7. \A k \in char_num .. m : prog_buff[k] # NL
    BY <1>2, <1>3, <1>6
  <1>8. Resume(m + 1, line_num, <<token>>)
    BY <1>4
  <1> QED
    BY <1>1, <1>3, <1>5, <1>7, <1>8, EmitsLongest

\* A token of one character.
LEMMA SingleTrack ==
    ASSUME LexInv, LexInv', OnTrack, Single
    PROVE  Strayed(tokens) \/ LongInv'
  <1>1. /\ status = "running" /\ c \in DOMAIN Singles
        /\ Resume(char_num + 1, line_num, <<Token(Singles[c], <<c>>)>>)
    BY DEF Single, Reads
  <1>2. c # NUL /\ c # "="
    BY <1>1, SymbolKinds, MarkKindsApart
  <1>3. text \in Seq(Chars) /\ char_num \in 1 .. Len(text) /\ text[char_num] = c
    BY <1>2, TrackHere
  <1>4. \A j : j \in Ends(char_num) <=> j = char_num
    BY <1>1, <1>2, <1>3, SymbolEnds
  <1>5. PICK literal : literal = SubSeq(text, char_num, char_num)
    OBVIOUS
  <1>6. literal = <<c>> /\ literal \in DOMAIN Symbols
    BY <1>1, <1>3, <1>4, <1>5, SymbolEnds
  <1>7. Symbols[literal] = Singles[c]
    <2>1. literal \in Seq(Chars) /\ Len(literal) = 1 /\ literal[1] = c
      <3>1. c \in Chars
        BY <1>1, Kinds, MarkKinds
      <3> QED
        BY <1>6, <3>1
    <2> QED
      BY <1>1, <1>6, <2>1, SymbolTypes
  <1>8. Resume(char_num + 1, line_num, <<Token(Symbols[literal], literal)>>)
    BY <1>1, <1>6, <1>7
  <1>9. char_num \in Ends(char_num) /\ \A j \in Ends(char_num) : j <= char_num
    BY <1>3, <1>4
  <1> QED
    BY <1>1, <1>5, <1>8, <1>9, SymbolTrack

\* The symbol at hand with "=" behind it, and without.
LEMMA PairOrAlone ==
    ASSUME LexInv, OnTrack, c \in DOMAIN Comparisons \cup {":", "="}
    PROVE  /\ text \in Seq(Chars) /\ char_num \in 1 .. Len(text) /\ text[char_num] = c
           /\ Following = "=" =>
                 /\ char_num + 1 \in Ends(char_num)
                 /\ \A j \in Ends(char_num) : j <= char_num + 1
                 /\ SubSeq(text, char_num, char_num + 1) = <<c, "=">>
                 /\ <<c, "=">> \in DOMAIN Symbols
           /\ Following # "=" /\ c # "=" =>
                 /\ char_num \in Ends(char_num)
                 /\ \A j \in Ends(char_num) : j <= char_num
                 /\ SubSeq(text, char_num, char_num) = <<c>>
                 /\ <<c>> \in DOMAIN Symbols
           /\ Following # "=" /\ c = "=" => Ends(char_num) = {}
  <1>1. c # NUL /\ c \notin DOMAIN Singles /\ NUL # "="
    <2>1. c # NUL
      BY SymbolKinds
    <2>2. c \notin DOMAIN Singles
      BY MarkKindsApart
    <2>3. NUL # "="
      BY SymbolKinds
    <2> QED
      BY <2>1, <2>2, <2>3
  <1>2. /\ text \in Seq(Chars) /\ char_num \in 1 .. Len(text) /\ text[char_num] = c
        /\ Len(prog_buff) = Len(text) + 1 /\ Len(text) \in Nat /\ char_num \in Nat
        /\ \A j \in 1 .. Len(text) : text[j] = prog_buff[j]
        /\ \A j \in 1 .. Len(prog_buff) : prog_buff[j] # NUL => j \in 1 .. Len(text)
    BY <1>1, TrackHere
  <1>3. Following = "=" <=> char_num + 1 <= Len(text) /\ text[char_num + 1] = "="
    <2>1. char_num + 1 \in 1 .. Len(prog_buff)
      BY <1>2
    <2>2. Following = "=" => char_num + 1 \in 1 .. Len(text)
      BY <1>1, <1>2, <2>1 DEF Following
    <2>3. char_num + 1 <= Len(text) => char_num + 1 \in 1 .. Len(text)
      BY <1>2
    <2> QED
      BY <1>2, <2>2, <2>3 DEF Following
  <1>4. \A j : j \in Ends(char_num) <=> \/ j = char_num /\ c # "="
                                        \/ j = char_num + 1 /\ Following = "="
    <2>1. PICK i : i = char_num
      OBVIOUS
    <2>2. /\ i \in 1 .. Len(text) /\ text[i] = c /\ text[i] \notin DOMAIN Singles
          /\ text[i] \in DOMAIN Singles \cup DOMAIN Comparisons \cup {":", "="}
      BY <1>1, <1>2, <2>1
    <2>3. ASSUME NEW j
          PROVE  j \in Ends(i) <=> \/ j = i /\ text[i] # "="
                                  \/ /\ j = i + 1 /\ j <= Len(text)
                                     /\ text[i] \notin DOMAIN Singles /\ text[i + 1] = "="
      BY <1>2, <2>2, SymbolEnds
    <2> QED
      BY <1>3, <2>1, <2>2, <2>3
  <1>5. ASSUME Following = "="
        PROVE  /\ char_num + 1 \in Ends(char_num)
               /\ \A j \in Ends(char_num) : j <= char_num + 1
               /\ SubSeq(text, char_num, char_num + 1) = <<c, "=">>
               /\ <<c, "=">> \in DOMAIN Symbols
    <2>1. PICK m : m = char_num + 1
      OBVIOUS
    <2>2. m \in Ends(char_num) /\ m # char_num /\ \A j \in Ends(char_num) : j <= m
      BY <1>2, <1>4, <1>5, <2>1
    <2>3. SubSeq(text, char_num, m) = <<text[char_num], "=">>
          /\ SubSeq(text, char_num, m) \in DOMAIN Symbols
      BY <1>2, <2>2, SymbolEnds
    <2> QED
      BY <1>2, <2>1, <2>2, <2>3
  <1>6. ASSUME Following # "=", c # "="
        PROVE  /\ char_num \in Ends(char_num)
               /\ \A j \in Ends(char_num) : j <= char_num
               /\ SubSeq(text, char_num, char_num) = <<c>>
               /\ <<c>> \in DOMAIN Symbols
    <2>1. char_num \in Ends(char_num) /\ \A j \in Ends(char_num) : j <= char_num
      BY <1>2, <1>4, <1>6
    <2>2. SubSeq(text, char_num, char_num) = <<text[char_num]>>
          /\ SubSeq(text, char_num, char_num) \in DOMAIN Symbols
      BY <1>2, <2>1, SymbolEnds
    <2> QED
      BY <1>2, <2>1, <2>2
  <1>7. Following # "=" /\ c = "=" => Ends(char_num) = {}
    BY <1>4
  <1> QED
    BY <1>2, <1>5, <1>6, <1>7

\* The symbols made of a character, alone and with "=".
LEMMA PairTypes ==
    ASSUME NEW ch \in DOMAIN Comparisons \cup {":", "="}
    PROVE  /\ <<ch, "=">> \in DOMAIN Symbols =>
                 Symbols[<<ch, "=">>] = CASE ch \in DOMAIN Comparisons -> Comparisons[ch].equal
                                          [] ch = ":" -> "T_ASSIGN" [] ch = "=" -> "T_EQ"
           /\ <<ch>> \in DOMAIN Symbols =>
                 Symbols[<<ch>>] = CASE ch \in DOMAIN Comparisons -> Comparisons[ch].alone
                                     [] ch = ":" -> "T_COLON" [] ch = "=" -> "none"
  <1>1. ch \in Chars /\ "=" \in Chars /\ (ch \in DOMAIN Comparisons => ch # ":" /\ ch # "=")
    BY Kinds, MarkKinds, MarkKindsApart
  <1>2. PICK s : s = <<ch, "=">>
    OBVIOUS
  <1>3. PICK t : t = <<ch>>
    OBVIOUS
  <1>4. /\ s \in Seq(Chars) /\ Len(s) = 2 /\ s[1] = ch /\ s[2] = "="
        /\ t \in Seq(Chars) /\ Len(t) = 1 /\ t[1] = ch
    BY <1>1, <1>2, <1>3
  <1>5. s \in DOMAIN Symbols =>
           Symbols[s] = CASE ch \in DOMAIN Comparisons -> Comparisons[ch].equal
                          [] ch = ":" -> "T_ASSIGN" [] ch = "=" -> "T_EQ"
    BY <1>1, <1>4, SymbolTypes
  <1>6. t \in DOMAIN Symbols =>
           Symbols[t] = CASE ch \in DOMAIN Comparisons -> Comparisons[ch].alone
                          [] ch = ":" -> "T_COLON" [] ch = "=" -> "none"
    BY <1>1, <1>4, SymbolTypes, SymbolShapes, MarkKindsApart
  <1> QED
    BY <1>2, <1>3, <1>5, <1>6

\* Two equals signs, or one, which begins no token.
LEMMA EqualsTrack ==
    ASSUME LexInv, LexInv', OnTrack, Equals
    PROVE  Strayed(tokens) \/ LongInv'
  <1>1. status = "running" /\ c = "="
    BY DEF Equals, Reads
  <1>2. CASE Following = "="
    <2>1. PICK m : m = char_num + 1
      OBVIOUS
    <2>2. PICK literal : literal = <<c, "=">>
      OBVIOUS
    <2>3. /\ m \in Ends(char_num) /\ \A j \in Ends(char_num) : j <= m
          /\ SubSeq(text, char_num, m) = literal /\ literal \in DOMAIN Symbols
          /\ char_num \in 1 .. Len(text)
      BY <1>1, <1>2, <2>1, <2>2, PairOrAlone
    <2>4. Symbols[literal] = "T_EQ"
      BY <1>1, <2>2, <2>3, PairTypes, MarkKindsApart
    <2>5. char_num + 2 = m + 1
      BY <2>1, <2>3
    <2>6. Resume(m + 1, line_num, <<Token("T_EQ", literal)>>)
      BY <1>1, <1>2, <2>2, <2>5 DEF Equals
    <2> QED
      BY <1>1, <2>3, <2>4, <2>6, SymbolTrack
  <1>3. CASE Following # "="
    <2>1. Ends(char_num) = {} /\ Stop("log_error")
      BY <1>1, <1>3, PairOrAlone DEF Equals
    <2>2. c \notin Blanks \cup {APOSTROPHE, QUOTE, NUL}
      BY <1>1, Kinds, MarkKinds, MarkKindsApart
    <2> QED
      BY <1>1, <2>1, <2>2, StopsAtNoToken
  <1> QED
    BY <1>2, <1>3

\* A comparison with and without "=".
LEMMA ComparisonTrack ==
    ASSUME LexInv, LexInv', OnTrack, Comparison
    PROVE  Strayed(tokens) \/ LongInv'
  <1>1. status = "running" /\ c \in DOMAIN Comparisons /\ c # "=" /\ c # ":"
    BY MarkKindsApart DEF Comparison, Reads
  <1>2. CASE Following = "="
    <2>1. PICK m : m = char_num + 1
      OBVIOUS
    <2>2. PICK literal : literal = <<c, "=">>
      OBVIOUS
    <2>3. /\ m \in Ends(char_num) /\ \A j \in Ends(char_num) : j <= m
          /\ SubSeq(text, char_num, m) = literal /\ literal \in DOMAIN Symbols
          /\ char_num \in 1 .. Len(text)
      BY <1>1, <1>2, <2>1, <2>2, PairOrAlone
    <2>4. Symbols[literal] = Comparisons[c].equal
      BY <1>1, <2>2, <2>3, PairTypes
    <2>5. char_num + 2 = m + 1
      BY <2>1, <2>3
    <2>6. Resume(m + 1, line_num, <<Token(Comparisons[c].equal, literal)>>)
      BY <1>1, <1>2, <2>2, <2>5 DEF Comparison
    <2> QED
      BY <1>1, <2>3, <2>4, <2>6, SymbolTrack
  <1>3. CASE Following # "="
    <2>1. PICK literal : literal = <<c>>
      OBVIOUS
    <2>2. /\ char_num \in Ends(char_num) /\ \A j \in Ends(char_num) : j <= char_num
          /\ SubSeq(text, char_num, char_num) = literal /\ literal \in DOMAIN Symbols
      BY <1>1, <1>3, <2>1, PairOrAlone
    <2>3. Symbols[literal] = Comparisons[c].alone
      BY <1>1, <2>1, <2>2, PairTypes
    <2>4. Resume(char_num + 1, line_num, <<Token(Comparisons[c].alone, literal)>>)
      BY <1>1, <1>3, <2>1 DEF Comparison
    <2> QED
      BY <1>1, <2>2, <2>3, <2>4, SymbolTrack
  <1> QED
    BY <1>2, <1>3

\* An assignment, or a colon that follows no word.
LEMMA ColonTrack ==
    ASSUME LexInv, LexInv', OnTrack, Colon
    PROVE  Strayed(tokens) \/ LongInv'
  <1>1. status = "running" /\ c = ":"
    BY DEF Colon, Reads
  <1>2. CASE Following = "="
    <2>1. PICK m : m = char_num + 1
      OBVIOUS
    <2>2. PICK literal : literal = <<c, "=">>
      OBVIOUS
    <2>3. /\ m \in Ends(char_num) /\ \A j \in Ends(char_num) : j <= m
          /\ SubSeq(text, char_num, m) = literal /\ literal \in DOMAIN Symbols
          /\ char_num \in 1 .. Len(text)
      BY <1>1, <1>2, <2>1, <2>2, PairOrAlone
    <2>4. Symbols[literal] = "T_ASSIGN"
      BY <1>1, <2>2, <2>3, PairTypes, MarkKindsApart
    <2>5. char_num + 2 = m + 1
      BY <2>1, <2>3
    <2>6. Resume(m + 1, line_num, <<Token("T_ASSIGN", literal)>>)
      BY <1>1, <1>2, <2>2, <2>5 DEF Colon
    <2> QED
      BY <1>1, <2>3, <2>4, <2>6, SymbolTrack
  <1>3. CASE Following # "="
    <2>1. /\ text \in Seq(Chars) /\ char_num \in 1 .. Len(text) /\ text[char_num] = ":"
          /\ char_num \in Ends(char_num) /\ \A j \in Ends(char_num) : j <= char_num
          /\ SubSeq(text, char_num, char_num) = <<":">>
      BY <1>1, <1>3, PairOrAlone, MarkKindsApart
    <2>2. /\ Buffer /\ tokens \in Seq(Tokens) /\ OnTrackAt(char_num, line_num, tokens)
          /\ NoWordAt(char_num) /\ char_num <= Len(text)
      BY <2>1, TrackHere DEF OnTrack
    <2>3. IsOdd(char_num, char_num)
      BY <2>1, <2>2 DEF IsOdd, NoWordAt
    <2>4. text[char_num] \notin Blanks \cup {APOSTROPHE}
      BY <2>1, MarkKindsApart
    <2> QED
      BY <2>1, <2>2, <2>3, <2>4, TokenTracked
  <1> QED
    BY <1>2, <1>3

\* A string, or a quote that no other one follows.
LEMMA StringLiteralTrack ==
    ASSUME LexInv, LexInv', OnTrack, StringLiteral
    PROVE  Strayed(tokens) \/ LongInv'
  <1>1. /\ status = "running" /\ c = QUOTE /\ c \notin Blanks \cup {APOSTROPHE, NUL}
        /\ QUOTE # NUL
    BY Kinds, MarkKinds, MarkKindsApart DEF StringLiteral, Reads
  <1>2. /\ Buffer /\ text \in Seq(Chars) /\ tokens \in Seq(Tokens)
        /\ char_num \in 1 .. Len(text) /\ text[char_num] = QUOTE
        /\ line_num = LineAt(char_num) /\ OnTrackAt(char_num, line_num, tokens)
        /\ Len(prog_buff) = Len(text) + 1 /\ Len(text) \in Nat /\ char_num \in Nat
        /\ \A j \in 1 .. Len(text) : text[j] = prog_buff[j]
        /\ \A j \in 1 .. Len(prog_buff) : prog_buff[j] # NUL => j \in 1 .. Len(text)
    BY <1>1, TrackHere DEF OnTrack
  <1>3. \A j : j \in Ends(char_num) <=> /\ j \in char_num .. Len(text) /\ char_num < j
                                        /\ text[j] = QUOTE
                                        /\ \A k \in char_num + 1 .. j - 1 : text[k] # QUOTE
    <2>1. ASSUME NEW j \in char_num .. Len(text)
          PROVE  Spelt(SubSeq(text, char_num, j)) # "none" <=> IsString(SubSeq(text, char_num, j))
      <3>1. PICK s : s = SubSeq(text, char_num, j)
        OBVIOUS
      <3>2. PieceOf(s, Chars, text, char_num, j)
        BY <1>2, <3>1, PieceTaken
      <3>3. s \in Seq(Chars) /\ s # << >> /\ s[1] = QUOTE
        BY <1>2, <3>2 DEF PieceOf
      <3>4. Spelt(s) = IF IsString(s) THEN "L_STR" ELSE "none"
        BY <3>3, SpeltString
      <3> QED
        BY <3>1, <3>4
    <2>2. ASSUME NEW j \in char_num .. Len(text)
          PROVE  IsString(SubSeq(text, char_num, j))
                 <=> /\ char_num < j /\ text[j] = QUOTE
                     /\ \A k \in char_num + 1 .. j - 1 : text[k] # QUOTE
      <3>1. IsString(SubSeq(text, char_num, j))
            <=> /\ char_num < j /\ text[char_num] = QUOTE /\ text[j] = QUOTE
                /\ \A k \in char_num + 1 .. j - 1 : text[k] # QUOTE
        <4>1. text \in Seq(Chars) /\ char_num \in 1 .. Len(text) /\ j \in char_num .. Len(text)
          BY <1>2
        <4> QED
          BY <4>1, StringPiece
      <3> QED
        BY <1>2, <3>1
    <2> QED
      BY <2>1, <2>2 DEF Ends
  <1>4. PICK end : end = FirstOf(char_num + 1, {QUOTE})
    OBVIOUS
  <1>5. \/ /\ end = Len(prog_buff) + 1
           /\ \A j \in char_num + 1 .. Len(prog_buff) : prog_buff[j] # QUOTE
        \/ /\ end \in char_num + 1 .. Len(prog_buff) /\ prog_buff[end] = QUOTE
           /\ \A j \in char_num + 1 .. Len(prog_buff) : prog_buff[j] = QUOTE => end <= j
    <2>1. PICK S : S = {QUOTE}
      OBVIOUS
    <2>2. char_num + 1 \in Nat /\ char_num + 1 >= 1 /\ end = FirstOf(char_num + 1, S)
      BY <1>2, <1>4, <2>1
    <2>3. \/ /\ end = Len(prog_buff) + 1
             /\ \A j \in char_num + 1 .. Len(prog_buff) : prog_buff[j] \notin S
          \/ /\ end \in char_num + 1 .. Len(prog_buff) /\ prog_buff[end] \in S
             /\ \A j \in char_num + 1 .. Len(prog_buff) : prog_buff[j] \in S => end <= j
      BY <1>2, <2>2, FirstFound
    <2> QED
      BY <2>1, <2>3
  <1>6. CASE end = Len(prog_buff) + 1
    <2>1. ASSUME NEW j \in Ends(char_num) PROVE FALSE
      <3>1. j \in char_num .. Len(text) /\ char_num < j /\ text[j] = QUOTE
        BY <1>3, <2>1
      <3>2. j \in 1 .. Len(text) /\ j \in char_num + 1 .. Len(prog_buff)
        BY <1>2, <3>1
      <3> QED
        BY <1>2, <1>5, <1>6, <3>1, <3>2
    <2>2. TokensFrom[char_num] = EndAt("odd", char_num)
      BY <1>1, <1>2, <2>1, AtNoToken, MarkKindsApart
    <2> QED
      BY <1>2, <2>2, OddEnd
  <1>7. CASE end \in char_num + 1 .. Len(prog_buff) /\ prog_buff[end] = QUOTE
    <2>1. end \in 1 .. Len(text) /\ end \in char_num .. Len(text) /\ text[end] = QUOTE
      <3>1. end \in 1 .. Len(prog_buff)
        BY <1>2, <1>7
      <3>2. end \in 1 .. Len(text)
        BY <1>1, <1>2, <1>7, <3>1
      <3> QED
        BY <1>2, <1>7, <3>2
    <2>2. ASSUME NEW k \in char_num + 1 .. end - 1 PROVE text[k] # QUOTE
      <3>1. k \in 1 .. Len(text) /\ k \in char_num + 1 .. Len(prog_buff) /\ ~ (end <= k)
        BY <1>2, <2>1
      <3> QED
        BY <1>2, <1>5, <1>7, <3>1
    <2>3. end \in Ends(char_num)
      BY <1>2, <1>3, <1>7, <2>1, <2>2
    <2>4. ASSUME NEW j \in Ends(char_num) PROVE j <= end
      <3>1. /\ j \in char_num .. Len(text)
            /\ \A k \in char_num + 1 .. j - 1 : text[k] # QUOTE
        BY <1>3, <2>4
      <3>2. end \notin char_num + 1 .. j - 1
        BY <2>1, <3>1
      <3> QED
        BY <1>2, <1>7, <2>1, <3>1, <3>2
    <2>5. PICK s : s = SubSeq(text, char_num, end)
      OBVIOUS
    <2>6. IsString(s) /\ Spelt(s) = "L_STR" /\ ToSet(s) = {text[k] : k \in char_num .. end}
          /\ Len(s) = end - char_num + 1
      <3>1. PieceOf(s, Chars, text, char_num, end)
        BY <1>2, <2>1, <2>5, PieceTaken
      <3>2. s \in Seq(Chars) /\ s # << >> /\ s[1] = QUOTE
        BY <1>2, <3>1 DEF PieceOf
      <3>3. IsString(s)
        <4>1. IsString(SubSeq(text, char_num, end))
              <=> /\ char_num < end /\ text[char_num] = QUOTE /\ text[end] = QUOTE
                  /\ \A k \in char_num + 1 .. end - 1 : text[k] # QUOTE
          BY <1>2, <2>1, StringPiece
        <4>2. char_num < end
          BY <1>2, <1>7
        <4> QED
          BY <1>2, <2>1, <2>2, <2>5, <4>1, <4>2
      <3> QED
        BY <3>1, <3>2, <3>3, SpeltString DEF PieceOf
    <2>7. PICK literal : literal = SubSeq(prog_buff, char_num + 1, end - 1)
      OBVIOUS
    <2>8. SubSeq(s, 2, Len(s) - 1) = literal
      <3>1. /\ 2 \in 1 .. end - char_num + 2 /\ end - char_num \in 2 - 1 .. end - char_num + 1
            /\ char_num + 2 - 1 = char_num + 1 /\ char_num + (end - char_num) - 1 = end - 1
            /\ Len(s) - 1 = end - char_num
        <4>1. char_num \in Nat /\ end \in Nat /\ char_num < end /\ Len(s) = end - char_num + 1
          <5>1. end \in Nat /\ char_num < end
            BY <1>2, <1>7
          <5> QED
            BY <1>2, <2>6, <5>1
        <4> QED
          BY <4>1
      <3>2. SubSeq(s, 2, end - char_num) = SubSeq(text, char_num + 1, end - 1)
        <4>1. SubSeq(SubSeq(text, char_num, end), 2, end - char_num)
              = SubSeq(text, char_num + 2 - 1, char_num + (end - char_num) - 1)
          BY <1>2, <2>1, <3>1, PieceOfPiece
        <4> QED
          BY <2>5, <3>1, <4>1
      <3>3. SubSeq(text, char_num + 1, end - 1) = SubSeq(prog_buff, char_num + 1, end - 1)
        <4>1. /\ char_num + 1 \in Nat /\ char_num + 1 >= 1
              /\ end - 1 \in Int /\ end - 1 <= Len(text)
          BY <1>2, <2>1
        <4> QED
          BY <1>2, <4>1, SamePiece
      <3> QED
        BY <2>7, <3>1, <3>2, <3>3
    <2>9. PICK token : token = Token("L_STR", literal)
      OBVIOUS
    <2>10. token = TokenAt(char_num, end)
      BY <1>2, <2>5, <2>6, <2>8, <2>9 DEF Token, TokenAt
    <2>11. Resume(end + 1, line_num, <<token>>)
      BY <1>4, <2>7, <2>9 DEF StringLiteral
    <2>12. ~ InWord(end)
      BY <1>2, <2>1, OutOfWord, MarksEndWords, MarkKinds
    <2>13. IsOdd(char_num, end) \/ \A k \in char_num .. end : prog_buff[k] # NL
      <3>1. ASSUME NEW k \in char_num .. end, prog_buff[k] = NL PROVE IsOdd(char_num, end)
        <4>1. k \in 1 .. Len(text)
          BY <1>2, <2>1
        <4>2. NL \in ToSet(s)
          BY <1>2, <2>6, <3>1, <4>1
        <4> QED
          BY <2>5, <2>6, <4>2 DEF IsOdd
      <3> QED
        BY <3>1
    <2> QED
      BY <1>1, <2>3, <2>4, <2>10, <2>11, <2>12, <2>13, EmitsLongest
  <1> QED
    BY <1>5, <1>6, <1>7

\* A piece without its first character.
LEMMA TailPiece ==
    ASSUME NEW S, NEW t \in Seq(S), NEW i \in 1 .. Len(t), NEW j \in i + 1 .. Len(t)
    PROVE  Tail(SubSeq(t, i, j)) = SubSeq(t, i + 1, j)
  <1>1. PICK s : s = SubSeq(t, i, j)
    OBVIOUS
  <1>2. PICK u : u = SubSeq(t, i + 1, j)
    OBVIOUS
  <1>3. /\ j \in i .. Len(t) /\ i + 1 \in 1 .. Len(t) /\ i \in Nat /\ j \in Nat /\ i < j
        /\ Len(t) \in Nat
    OBVIOUS
  <1>4. PieceOf(s, S, t, i, j) /\ PieceOf(u, S, t, i + 1, j)
    BY <1>1, <1>2, <1>3, PieceTaken
  <1>5. /\ s \in Seq(S) /\ Len(s) = j - i + 1 /\ s # << >>
        /\ \A k \in 1 .. j - i + 1 : s[k] = t[i + k - 1]
        /\ u \in Seq(S) /\ Len(u) = j - (i + 1) + 1
        /\ \A k \in 1 .. j - (i + 1) + 1 : u[k] = t[(i + 1) + k - 1]
    BY <1>4 DEF PieceOf
  <1>6. PICK v : v = Tail(s)
    OBVIOUS
  <1>7. v \in Seq(S) /\ Len(v) = Len(s) - 1 /\ \A k \in 1 .. Len(s) - 1 : v[k] = s[k + 1]
    BY <1>5, <1>6
  <1>8. Len(u) = j - i /\ Len(v) = j - i
    BY <1>3, <1>5, <1>7
  <1>9. ASSUME NEW k \in 1 .. j - i PROVE v[k] = u[k]
    <2>1. k \in 1 .. j - (i + 1) + 1 /\ k \in 1 .. Len(s) - 1 /\ k + 1 \in 1 .. j - i + 1
      BY <1>3, <1>5
    <2>2. v[k] = s[k + 1] /\ s[k + 1] = t[i + (k + 1) - 1] /\ u[k] = t[(i + 1) + k - 1]
      BY <1>5, <1>7, <2>1
    <2>3. i + (k + 1) - 1 = (i + 1) + k - 1
      BY <1>3
    <2> QED
      BY <2>2, <2>3
  <1>10. v = u
    BY <1>5, <1>7, <1>8, <1>9, SeqEqual
  <1> QED
    BY <1>1, <1>2, <1>6, <1>10

\* What spells a number, its digits beginning at k.
LEMMA NumberSpelt ==
    ASSUME text \in Seq(Chars), NEW i \in 1 .. Len(text), NEW k \in {i, i + 1},
           k <= Len(text), text[k] \in Digits, k = i + 1 => text[i] = "-",
           NEW j \in k .. Len(text)
    PROVE  /\ Spelt(SubSeq(text, i, j)) =
                 IF Digital(SubSeq(text, k, j)) THEN "L_INTEGER"
                 ELSE IF IsFloat(SubSeq(text, k, j)) THEN "L_FLOAT" ELSE "none"
           /\ Unsigned(SubSeq(text, i, j)) = SubSeq(text, k, j)
           /\ ~ IsString(SubSeq(text, i, j))
  <1>1. PICK s : s = SubSeq(text, i, j)
    OBVIOUS
  <1>2. i \in Nat /\ k \in Nat /\ j \in i .. Len(text) /\ j \in Nat /\ Len(text) \in Nat
    OBVIOUS
  <1>3. PieceOf(s, Chars, text, i, j)
    BY <1>1, <1>2, PieceTaken
  <1>4. /\ s \in Seq(Chars) /\ s # << >> /\ s[1] = text[i] /\ Len(s) = j - i + 1
        /\ \A q \in 1 .. j - i + 1 : s[q] = text[i + q - 1]
    BY <1>3 DEF PieceOf
  <1>5. QUOTE \notin Digits /\ QUOTE # "-" /\ "-" \notin Digits /\ ">" \notin Digits
    BY Kinds, MarkKinds, MarkKindsApart
  <1>6. ~ IsString(s)
    BY <1>4, <1>5 DEF IsString
  <1>7. CASE k = i
    <2>1. s[1] \in Digits
      BY <1>4, <1>7
    <2>2. Spelt(s) = IF Digital(s) THEN "L_INTEGER"
                     ELSE IF IsFloat(s) THEN "L_FLOAT" ELSE "none"
      BY <1>4, <2>1, SpeltNumber
    <2>3. Unsigned(s) = s
      BY <1>5, <2>1 DEF Unsigned
    <2> QED
      BY <1>1, <1>6, <1>7, <2>2, <2>3
  <1>8. CASE k = i + 1
    <2>1. s[1] = "-" /\ Len(s) # 1 /\ j \in i + 1 .. Len(text)
      BY <1>2, <1>4, <1>8
    <2>2. s[2] = text[k]
      <3>1. 2 \in 1 .. j - i + 1 /\ i + 2 - 1 = k
        BY <1>2, <1>8
      <3> QED
        BY <1>4, <3>1
    <2>3. Spelt(s) = IF Digital(Tail(s)) THEN "L_INTEGER"
                     ELSE IF IsFloat(Tail(s)) THEN "L_FLOAT" ELSE "none"
      BY <1>4, <1>5, <2>1, <2>2, SpeltSign
    <2>4. Tail(SubSeq(text, i, j)) = SubSeq(text, i + 1, j)
      BY <2>1, TailPiece
    <2>5. Tail(s) = SubSeq(text, k, j)
      BY <1>1, <1>8, <2>4
    <2>6. Unsigned(s) = Tail(s)
      BY <1>4, <2>1 DEF Unsigned
    <2> QED
      BY <1>1, <1>6, <2>3, <2>5, <2>6
  <1> QED
    BY <1>7, <1>8

\* A number is emitted, the longest one that begins at hand.
LEMMA NumberTrack ==
    ASSUME LexInv, LexInv', status = "running", OnTrack, c \in Digits \cup {"-"},
           NEW m \in Ends(char_num), \A j \in Ends(char_num) : j <= m,
           \A q \in char_num .. m : text[q] \in Digits \cup {"-", "."},
           NEW type, type = Spelt(SubSeq(text, char_num, m)),
           ~ IsString(SubSeq(text, char_num, m)),
           NEW next, next = m + 1,
           Resume(next, line_num, <<Token(type, SubSeq(prog_buff, char_num, next - 1))>>)
    PROVE  Strayed(tokens) \/ LongInv'
  <1>1. /\ c \notin Blanks \cup {APOSTROPHE, NUL} /\ "-" \notin Letters /\ "." \notin Letters
        /\ NL \notin Digits \cup {"-", "."} /\ Digits \cap Letters = {}
    <2>1. "-" \in Marks /\ "." \in Marks /\ NL \in Marks /\ APOSTROPHE \in Marks
      BY MarkKinds
    <2>2. /\ "-" \notin Blanks /\ "-" # APOSTROPHE /\ "-" # NL /\ "." # NL
          /\ Blanks \subseteq Marks
      BY MarkKinds, MarkKindsApart
    <2>3. Marks \cap (Letters \cup Digits) = {} /\ NUL \notin Chars /\ Digits \subseteq Chars
          /\ Marks \subseteq Chars /\ Letters \cap Digits = {}
      BY Kinds
    <2>4. c \notin Blanks \cup {APOSTROPHE, NUL}
      BY <2>1, <2>2, <2>3
    <2> QED
      BY <2>1, <2>2, <2>3, <2>4
  <1>2. /\ text \in Seq(Chars) /\ char_num \in 1 .. Len(text) /\ text[char_num] = c
        /\ line_num = LineAt(char_num) /\ Buffer /\ NoWordAt(char_num) /\ char_num \in Nat
        /\ \A j \in 1 .. Len(text) : text[j] = prog_buff[j]
        /\ Len(text) \in Nat
    BY <1>1, TrackHere DEF OnTrack
  <1>3. m \in char_num .. Len(text) /\ m \in Nat /\ m \in Int /\ m <= Len(text)
    BY <1>2 DEF Ends
  <1>4. PICK literal : literal = SubSeq(text, char_num, m)
    OBVIOUS
  <1>5. literal = SubSeq(prog_buff, char_num, next - 1)
    <2>1. char_num >= 1 /\ next - 1 = m
      BY <1>2, <1>3
    <2>2. SubSeq(text, char_num, m) = SubSeq(prog_buff, char_num, m)
      BY <1>2, <1>3, <2>1, SamePiece
    <2> QED
      BY <1>4, <2>1, <2>2
  <1>6. PICK token : token = Token(type, literal)
    OBVIOUS
  <1>7. token = TokenAt(char_num, m)
    BY <1>2, <1>4, <1>6 DEF Token, TokenAt
  <1>8. Resume(m + 1, line_num, <<token>>)
    BY <1>5, <1>6
  <1>9. ~ InWord(m)
    <2>1. \A q \in char_num .. m : text[q] \notin Letters
      BY <1>1
    <2>2. char_num > 1 => ~ InWord(char_num - 1)
      BY <1>2 DEF NoWordAt
    <2> QED
      BY <1>2, <1>3, <2>1, <2>2, NoWordBegun
  <1>10. \A q \in char_num .. m : prog_buff[q] # NL
    BY <1>1, <1>2, <1>3
  <1> QED
    BY <1>1, <1>7, <1>8, <1>9, <1>10, EmitsLongest

\* A number whose digits begin at k.
LEMMA LexNumberTrack ==
    ASSUME LexInv, LexInv', status = "running", OnTrack, c \in Digits \cup {"-"},
           NEW k \in {char_num, char_num + 1}, k \in 1 .. Len(prog_buff), prog_buff[k] \in Digits,
           k = char_num + 1 => c = "-", LexNumber(k)
    PROVE  Strayed(tokens) \/ LongInv'
  <1>1. /\ c # NUL /\ NUL \notin Digits /\ "." \notin Digits /\ "." # NUL
        /\ c \notin Blanks \cup {APOSTROPHE}
    <2>1. "-" \in Marks /\ "." \in Marks /\ APOSTROPHE \in Marks /\ Blanks \subseteq Marks
      BY MarkKinds
    <2>2. "." \notin Digits /\ "." # NUL /\ "-" # NUL
      BY <2>1, MarksAreMarks
    <2>3. NUL \notin Digits
      BY Kinds
    <2>4. "-" \notin Blanks /\ "-" # APOSTROPHE
      BY MarkKindsApart
    <2>5. Digits \cap (Blanks \cup {APOSTROPHE}) = {}
      BY <2>1, MarksAreMarks
    <2> QED
      BY <2>2, <2>3, <2>4, <2>5
  <1>2. /\ text \in Seq(Chars) /\ char_num \in 1 .. Len(text) /\ text[char_num] = c
        /\ Buffer /\ char_num \in Nat /\ Len(text) \in Nat /\ Len(prog_buff) = Len(text) + 1
        /\ \A j \in 1 .. Len(text) : text[j] = prog_buff[j] /\ prog_buff[j] \in Chars
        /\ \A j \in 1 .. Len(prog_buff) : prog_buff[j] # NUL => j \in 1 .. Len(text)
        /\ OnTrackAt(char_num, line_num, tokens) /\ tokens \in Seq(Tokens)
    BY <1>1, TrackHere DEF OnTrack
  <1>3. /\ k \in 1 .. Len(text) /\ k \in Nat /\ text[k] \in Digits
        /\ k = char_num + 1 => text[char_num] = "-"
    BY <1>1, <1>2
  <1>4. PICK S : S = (Chars \cup {NUL}) \ Digits
    OBVIOUS
  <1>5. PICK point : point = FirstOf(k, S)
    OBVIOUS
  <1>6. /\ point \in k .. Len(prog_buff) /\ prog_buff[point] \in S
        /\ \A j \in k .. Len(prog_buff) : prog_buff[j] \in S => point <= j
    <2>1. NUL \in S /\ k >= 1
      BY <1>1, <1>3, <1>4
    <2>2. point \in k .. Len(prog_buff)
      BY <1>2, <1>5, <2>1, NulFound
    <2>3. point # Len(prog_buff) + 1
      BY <1>2, <2>2
    <2> QED
      BY <1>2, <1>3, <1>5, <2>1, <2>3, FirstFound
  <1>7. /\ point \in Nat /\ point > k /\ prog_buff[point] \notin Digits
        /\ \A q \in k .. point - 1 : q \in 1 .. Len(text) /\ text[q] \in Digits
    <2>1. point \in Nat /\ prog_buff[point] \notin Digits /\ point # k
      BY <1>2, <1>3, <1>4, <1>6
    <2>2. ASSUME NEW q \in k .. point - 1 PROVE q \in 1 .. Len(text) /\ text[q] \in Digits
      <3>1. q \in 1 .. Len(text) /\ q \in k .. Len(prog_buff) /\ ~ (point <= q)
        BY <1>2, <1>3, <1>6, <2>1
      <3>2. prog_buff[q] \notin S
        BY <1>6, <3>1
      <3> QED
        BY <1>2, <1>4, <3>1, <3>2
    <2> QED
      BY <1>2, <1>3, <1>6, <2>1, <2>2
  <1>8. ASSUME NEW j \in k .. Len(text)
        PROVE  /\ Digital(SubSeq(text, k, j)) <=> j < point
               /\ IsFloat(SubSeq(text, k, j))
                  <=> /\ prog_buff[point] = "." /\ point < j
                      /\ \A q \in point + 1 .. j : text[q] \in Digits
    <2>1. /\ k \in 1 .. Len(text) + 1 /\ j \in k - 1 .. Len(text) /\ k <= j /\ j \in Nat
          /\ j <= Len(text)
      BY <1>2, <1>3
    <2>2. point <= j => point \in 1 .. Len(text) /\ text[point] = prog_buff[point]
      BY <1>2, <1>3, <1>7, <2>1
    <2>3. Digital(SubSeq(text, k, j)) <=> k <= j /\ \A q \in k .. j : text[q] \in Digits
      BY <1>2, <2>1, DigitalPiece
    <2>4. Digital(SubSeq(text, k, j)) <=> j < point
      <3>1. ASSUME j < point PROVE \A q \in k .. j : text[q] \in Digits
        BY <1>7, <2>1, <3>1
      <3>2. ASSUME point <= j, \A q \in k .. j : text[q] \in Digits PROVE FALSE
        <4>1. point \in k .. j
          BY <1>7, <2>1, <3>2
        <4> QED
          BY <1>7, <2>2, <3>2, <4>1
      <3> QED
        BY <1>7, <2>1, <2>3, <3>1, <3>2
    <2>5. IsFloat(SubSeq(text, k, j)) <=>
             \E p \in k + 1 .. j - 1 : /\ text[p] = "."
                                       /\ \A q \in k .. p - 1 : text[q] \in Digits
                                       /\ \A q \in p + 1 .. j : text[q] \in Digits
      BY <1>2, <1>3, FloatPiece
    <2>6. ASSUME NEW p \in k + 1 .. j - 1, text[p] = ".",
                 \A q \in k .. p - 1 : text[q] \in Digits,
                 \A q \in p + 1 .. j : text[q] \in Digits
          PROVE  /\ prog_buff[point] = "." /\ point < j
                 /\ \A q \in point + 1 .. j : text[q] \in Digits
      <3>1. p \notin k .. point - 1
        BY <1>1, <1>7, <2>6
      <3>2. point <= p /\ point <= j
        BY <1>3, <1>7, <2>1, <3>1
      <3>3. point \notin k .. p - 1
        BY <1>7, <2>2, <2>6, <3>2
      <3>4. point = p
        BY <1>3, <1>7, <2>1, <3>2, <3>3
      <3> QED
        BY <2>1, <2>2, <2>6, <3>2, <3>4
    <2>7. ASSUME prog_buff[point] = ".", point < j,
                 \A q \in point + 1 .. j : text[q] \in Digits
          PROVE  \E p \in k + 1 .. j - 1 : /\ text[p] = "."
                                           /\ \A q \in k .. p - 1 : text[q] \in Digits
                                           /\ \A q \in p + 1 .. j : text[q] \in Digits
      <3>1. point \in k + 1 .. j - 1 /\ text[point] = "."
        BY <1>3, <1>7, <2>1, <2>2, <2>7
      <3> QED
        BY <1>7, <2>7, <3>1
    <2> QED
      BY <2>4, <2>5, <2>6, <2>7
  <1>9. ASSUME NEW j \in k .. Len(text)
        PROVE  /\ Spelt(SubSeq(text, char_num, j)) =
                     IF Digital(SubSeq(text, k, j)) THEN "L_INTEGER"
                     ELSE IF IsFloat(SubSeq(text, k, j)) THEN "L_FLOAT" ELSE "none"
               /\ Unsigned(SubSeq(text, char_num, j)) = SubSeq(text, k, j)
               /\ ~ IsString(SubSeq(text, char_num, j))
    <2>1. k <= Len(text)
      BY <1>2, <1>3
    <2> QED
      BY <1>2, <1>3, <2>1, NumberSpelt
  <1>10. ASSUME NEW j \in k .. Len(text)
         PROVE  j \in Ends(char_num) <=> Digital(SubSeq(text, k, j)) \/ IsFloat(SubSeq(text, k, j))
    <2>1. j \in char_num .. Len(text)
      BY <1>2, <1>3
    <2> QED
      BY <1>9, <2>1 DEF Ends
  <1>11. ASSUME NEW m \in k .. Len(text), \A q \in k .. m : text[q] \in Digits \cup {"."}
         PROVE  \A q \in char_num .. m : text[q] \in Digits \cup {"-", "."}
    <2> SUFFICES ASSUME NEW q \in char_num .. m PROVE text[q] \in Digits \cup {"-", "."}
      OBVIOUS
    <2>1. q \in k .. m \/ (q = char_num /\ k = char_num + 1)
      BY <1>2, <1>3
    <2> QED
      BY <1>3, <1>11, <2>1
  <1>12. PICK m : m = point - 1
    OBVIOUS
  <1>13. m \in k .. Len(text) /\ m + 1 = point /\ m < point
    BY <1>2, <1>3, <1>6, <1>7, <1>12
  <1>14. /\ Digital(SubSeq(text, k, m)) /\ Spelt(SubSeq(text, char_num, m)) = "L_INTEGER"
         /\ m \in Ends(char_num)
    BY <1>8, <1>9, <1>10, <1>13
  <1>15. CASE prog_buff[point] # "."
    <2>1. Resume(point, line_num,
                 <<Token("L_INTEGER", SubSeq(prog_buff, char_num, point - 1))>>)
      BY <1>4, <1>5, <1>15 DEF LexNumber
    <2>2. ASSUME NEW j \in Ends(char_num) PROVE j <= m
      <3>1. j \in char_num .. Len(text) /\ j \in Nat
        BY <1>2 DEF Ends
      <3>2. CASE j < k
        BY <1>3, <1>13, <3>1, <3>2
      <3>3. CASE j >= k
        <4>1. j \in k .. Len(text)
          BY <1>2, <1>3, <3>1, <3>3
        <4>2. j < point
          BY <1>8, <1>10, <1>15, <2>2, <4>1
        <4> QED
          BY <1>7, <1>12, <3>1, <4>2
      <3> QED
        BY <1>3, <3>1, <3>2, <3>3
    <2>3. \A q \in char_num .. m : text[q] \in Digits \cup {"-", "."}
      BY <1>7, <1>11, <1>12, <1>13
    <2>4. ~ IsString(SubSeq(text, char_num, m))
      BY <1>9, <1>13
    <2> QED
      BY <1>13, <1>14, <2>1, <2>2, <2>3, <2>4, NumberTrack
  <1>16. CASE prog_buff[point] = "."
    <2>1. /\ point \in 1 .. Len(text) /\ text[point] = "."
          /\ point + 1 \in 1 .. Len(prog_buff)
      BY <1>1, <1>2, <1>3, <1>6, <1>7, <1>16
    <2>2. PICK end : end = FirstOf(point + 1, S)
      OBVIOUS
    <2>3. /\ end \in point + 1 .. Len(prog_buff) /\ prog_buff[end] \in S
          /\ \A j \in point + 1 .. Len(prog_buff) : prog_buff[j] \in S => end <= j
      <3>1. NUL \in S /\ point + 1 >= 1 /\ point + 1 \in Nat
        BY <1>1, <1>4, <1>7
      <3>2. end \in point + 1 .. Len(prog_buff)
        BY <1>2, <2>1, <2>2, <3>1, NulFound
      <3>3. end # Len(prog_buff) + 1
        BY <1>2, <3>2
      <3> QED
        BY <1>2, <2>2, <3>1, <3>3, FirstFound
    <2>4. /\ end \in Nat /\ end > point /\ prog_buff[end] \notin Digits
          /\ \A q \in point + 1 .. end - 1 : q \in 1 .. Len(text) /\ text[q] \in Digits
      <3>1. end \in Nat /\ end > point /\ prog_buff[end] \notin Digits
        BY <1>4, <1>7, <2>3
      <3>2. ASSUME NEW q \in point + 1 .. end - 1 PROVE q \in 1 .. Len(text) /\ text[q] \in Digits
        <4>1. q \in 1 .. Len(text) /\ q \in point + 1 .. Len(prog_buff) /\ ~ (end <= q)
          BY <1>2, <1>7, <2>3, <3>1
        <4>2. prog_buff[q] \notin S
          BY <2>3, <4>1
        <4> QED
          BY <1>2, <1>4, <4>1, <4>2
      <3> QED
        BY <3>1, <3>2
    <2>5. ASSUME NEW j \in Ends(char_num) PROVE j <= m \/ (point < j /\ j < end)
      <3>1. j \in char_num .. Len(text) /\ j \in Nat
        BY <1>2 DEF Ends
      <3>2. CASE j < k
        BY <1>3, <1>13, <3>1, <3>2
      <3>3. CASE j >= k
        <4>1. j \in k .. Len(text)
          BY <1>2, <1>3, <3>1, <3>3
        <4>2. CASE Digital(SubSeq(text, k, j))
          BY <1>7, <1>8, <1>12, <3>1, <4>1, <4>2
        <4>3. CASE IsFloat(SubSeq(text, k, j))
          <5>1. point < j /\ \A q \in point + 1 .. j : text[q] \in Digits
            BY <1>8, <4>1, <4>3
          <5>2. ASSUME end <= j PROVE FALSE
            <6>1. end \in point + 1 .. j /\ end \in 1 .. Len(text)
              BY <1>2, <1>7, <2>4, <3>1, <5>2
            <6> QED
              BY <1>2, <2>4, <5>1, <6>1
          <5> QED
            BY <2>4, <3>1, <5>1, <5>2
        <4> QED
          BY <1>10, <2>5, <4>1, <4>2, <4>3
      <3> QED
        BY <1>3, <3>1, <3>2, <3>3
    <2>6. CASE end = point + 1
      <3>1. ASSUME NEW j \in Ends(char_num) PROVE j <= m
        <4>1. j \in Nat
          BY <1>2 DEF Ends
        <4> QED
          BY <1>7, <2>4, <2>5, <2>6, <4>1
      <3>2. PICK rest : rest = SubSeq(text, m + 1, Len(text))
        OBVIOUS
      <3>3. IsPrefix(<<".">>, rest)
        <4>1. point \in 1 .. Len(text) /\ Len(text) \in point .. Len(text)
          BY <1>2, <2>1
        <4>2. PieceOf(rest, Chars, text, point, Len(text))
          BY <1>2, <1>13, <3>2, <4>1, PieceTaken
        <4>3. rest \in Seq(Chars) /\ Len(rest) >= 1 /\ rest[1] = "."
          BY <1>2, <2>1, <4>2 DEF PieceOf
        <4>4. PICK sign : sign = <<".">>
          OBVIOUS
        <4>5. "." \in Chars
          BY Kinds, MarkKinds
        <4>6. sign \in Seq(Chars) /\ Len(sign) = 1 /\ sign[1] = "."
          BY <4>4, <4>5
        <4>7. IsPrefix(sign, rest)
          BY <4>3, <4>6, PrefixByElement
        <4> QED
          BY <4>4, <4>7
      <3>4. IsOdd(char_num, m)
        <4>1. Digital(Unsigned(SubSeq(text, char_num, m)))
          BY <1>9, <1>13, <1>14
        <4> QED
          BY <3>2, <3>3, <4>1 DEF IsOdd
      <3>5. char_num <= Len(text) /\ text[char_num] \notin Blanks \cup {APOSTROPHE}
        BY <1>1, <1>2
      <3> QED
        BY <1>2, <1>14, <3>1, <3>4, <3>5, TokenTracked
    <2>7. CASE end # point + 1
      <3>1. Resume(end, line_num, <<Token("L_FLOAT", SubSeq(prog_buff, char_num, end - 1))>>)
        BY <1>4, <1>5, <1>16, <2>2, <2>7 DEF LexNumber
      <3>2. PICK e : e = end - 1
        OBVIOUS
      <3>3. /\ e \in k .. Len(text) /\ end = e + 1 /\ point < e /\ ~ (e < point) /\ m < e
            /\ e \in Nat
        BY <1>2, <1>3, <1>7, <1>13, <2>3, <2>4, <2>7, <3>2
      <3>4. /\ IsFloat(SubSeq(text, k, e)) /\ ~ Digital(SubSeq(text, k, e))
            /\ Spelt(SubSeq(text, char_num, e)) = "L_FLOAT" /\ e \in Ends(char_num)
            /\ ~ IsString(SubSeq(text, char_num, e))
        <4>1. \A q \in point + 1 .. e : text[q] \in Digits
          BY <2>4, <3>2
        <4>2. IsFloat(SubSeq(text, k, e)) /\ ~ Digital(SubSeq(text, k, e))
          BY <1>8, <1>16, <3>3, <4>1
        <4> QED
          BY <1>9, <1>10, <3>3, <4>2
      <3>5. ASSUME NEW j \in Ends(char_num) PROVE j <= e
        <4>1. j \in Nat
          BY <1>2 DEF Ends
        <4> QED
          BY <1>7, <1>13, <2>4, <2>5, <3>2, <3>3, <4>1
      <3>6. \A q \in char_num .. e : text[q] \in Digits \cup {"-", "."}
        <4>1. ASSUME NEW q \in k .. e PROVE text[q] \in Digits \cup {"."}
          <5>1. q \in k .. point - 1 \/ q = point \/ q \in point + 1 .. end - 1
            BY <1>3, <1>7, <2>4, <3>2, <3>3
          <5> QED
            BY <1>7, <2>1, <2>4, <5>1
        <4> QED
          BY <1>11, <3>3, <4>1
      <3> QED
        BY <3>1, <3>3, <3>4, <3>5, <3>6, NumberTrack
    <2> QED
      BY <2>6, <2>7
  <1> QED
    BY <1>15, <1>16

\* Digits at hand.
LEMMA NumberBranch ==
    ASSUME LexInv, LexInv', OnTrack, Number
    PROVE  Strayed(tokens) \/ LongInv'
  <1>1. status = "running" /\ c \in Digits /\ LexNumber(char_num)
    BY DEF Number, Reads
  <1>2. prog_buff[char_num] = c /\ char_num \in 1 .. Len(prog_buff) /\ char_num \in Nat
    BY TrackHere
  <1>3. char_num # char_num + 1
    BY <1>2
  <1> QED
    BY <1>1, <1>2, <1>3, LexNumberTrack

\* A sign, an arrow or an operator.
LEMMA MinusTrack ==
    ASSUME LexInv, LexInv', OnTrack, Minus
    PROVE  Strayed(tokens) \/ LongInv'
  <1>1. /\ status = "running" /\ c = "-" /\ c \notin Blanks \cup {APOSTROPHE, NUL}
        /\ NUL \notin Digits /\ ">" # NUL /\ "-" \in Marks /\ ">" \in Marks
        /\ "-" # QUOTE /\ ">" \notin Digits
    <2>1. status = "running" /\ c = "-"
      BY DEF Minus, Reads
    <2>2. "-" \in Marks /\ ">" \in Marks
      BY MarkKinds
    <2>3. "-" # NUL /\ ">" # NUL /\ ">" \notin Digits
      BY <2>2, MarksAreMarks
    <2>4. "-" \notin Blanks /\ "-" # APOSTROPHE /\ "-" # QUOTE
      BY MarkKindsApart
    <2>5. NUL \notin Digits
      BY Kinds
    <2> QED
      BY <2>1, <2>2, <2>3, <2>4, <2>5
  <1>2. /\ text \in Seq(Chars) /\ char_num \in 1 .. Len(text) /\ text[char_num] = "-"
        /\ char_num \in Nat /\ Len(text) \in Nat /\ Len(prog_buff) = Len(text) + 1
        /\ \A j \in 1 .. Len(text) : text[j] = prog_buff[j]
        /\ \A j \in 1 .. Len(prog_buff) : prog_buff[j] # NUL => j \in 1 .. Len(text)
        /\ char_num + 1 \in 1 .. Len(prog_buff) /\ line_num = LineAt(char_num)
    BY <1>1, TrackHere
  <1>3. CASE Following \in Digits
    <2>1. LexNumber(char_num + 1) /\ prog_buff[char_num + 1] \in Digits
      BY <1>3 DEF Minus, Following
    <2> QED
      BY <1>1, <1>2, <2>1, LexNumberTrack
  <1>4. CASE Following \notin Digits
    <2>1. ASSUME NEW j \in char_num .. Len(text)
          PROVE  /\ Spelt(SubSeq(text, char_num, j)) =
                       IF j = char_num THEN "T_MINUS"
                       ELSE IF j = char_num + 1 /\ Following = ">" THEN "T_OFTYPE" ELSE "none"
                 /\ ~ IsString(SubSeq(text, char_num, j))
                 /\ j = char_num => SubSeq(text, char_num, j) = <<"-">>
                 /\ j = char_num + 1 /\ Following = ">"
                      => SubSeq(text, char_num, j) = <<"-", ">">>
      <3>1. PICK s : s = SubSeq(text, char_num, j)
        OBVIOUS
      <3>2. PieceOf(s, Chars, text, char_num, j)
        BY <1>2, <3>1, PieceTaken
      <3>3. /\ s \in Seq(Chars) /\ s # << >> /\ s[1] = "-" /\ Len(s) = j - char_num + 1
            /\ \A q \in 1 .. j - char_num + 1 : s[q] = text[char_num + q - 1]
        BY <1>2, <3>2 DEF PieceOf
      <3>4. ~ IsString(s)
        BY <1>1, <3>3 DEF IsString
      <3>5. (Len(s) = 1 <=> j = char_num) /\ (Len(s) = 2 <=> j = char_num + 1)
        BY <1>2, <3>3
      <3>6. j # char_num => s[2] = Following
        <4>1. ASSUME j # char_num PROVE s[2] = Following
          <5>1. /\ 2 \in 1 .. j - char_num + 1 /\ char_num + 2 - 1 = char_num + 1
                /\ char_num + 1 \in 1 .. Len(text)
            BY <1>2, <4>1
          <5> QED
            BY <1>2, <3>3, <5>1 DEF Following
        <4> QED
          BY <4>1
      <3>7. j # char_num => ~ Digital(Tail(s)) /\ ~ IsFloat(Tail(s))
        <4>1. ASSUME j # char_num PROVE ~ Digital(Tail(s)) /\ ~ IsFloat(Tail(s))
          <5>1. PICK u : u = Tail(s)
            OBVIOUS
          <5>2. u \in Seq(Chars) /\ Len(s) >= 2
            BY <1>2, <3>3, <4>1, <5>1
          <5>3. u[1] = s[2]
            BY <3>3, <5>1, <5>2
          <5> QED
            BY <1>4, <3>6, <4>1, <5>1, <5>2, <5>3, NumbersBegin
        <4> QED
          BY <4>1
      <3>8. Spelt(s) = IF j = char_num THEN "T_MINUS"
                       ELSE IF j = char_num + 1 /\ Following = ">" THEN "T_OFTYPE" ELSE "none"
        BY <3>3, <3>5, <3>6, <3>7, SpeltSign
      <3>9. /\ j = char_num => s = <<"-">>
            /\ j = char_num + 1 /\ Following = ">" => s = <<"-", ">">>
        <4>1. ASSUME j = char_num PROVE s = <<"-">>
          BY <3>3, <3>5, <4>1, ShortSeqs
        <4>2. ASSUME j = char_num + 1, Following = ">" PROVE s = <<"-", ">">>
          <5>1. j # char_num
            BY <1>2, <4>2
          <5>2. s \in Seq(Chars) /\ Len(s) = 2 /\ s[1] = "-" /\ s[2] = ">"
            BY <3>3, <3>5, <3>6, <4>2, <5>1
          <5> QED
            BY <5>2, ShortSeqs
        <4> QED
          BY <4>1, <4>2
      <3> QED
        BY <3>1, <3>4, <3>8, <3>9
    <2>2. ASSUME NEW m \in char_num .. Len(text), NEW type, NEW literal,
                 \A q \in char_num .. m : text[q] \in Marks \ {NL},
                 m \in Ends(char_num), \A j \in Ends(char_num) : j <= m,
                 type = Spelt(SubSeq(text, char_num, m)), literal = SubSeq(text, char_num, m),
                 Resume(m + 1, line_num, <<Token(type, literal)>>)
          PROVE  Strayed(tokens) \/ LongInv'
      <3>1. PICK token : token = Token(type, literal)
        OBVIOUS
      <3>2. token = TokenAt(char_num, m)
        BY <1>2, <2>1, <2>2, <3>1 DEF Token, TokenAt
      <3>3. Resume(m + 1, line_num, <<token>>)
        BY <2>2, <3>1
      <3>4. m \in 1 .. Len(text) /\ m \in char_num .. m
        BY <1>2
      <3>5. ~ InWord(m)
        BY <1>2, <2>2, <3>4, MarksEndWords, OutOfWord
      <3>6. \A q \in char_num .. m : prog_buff[q] # NL
        <4>1. \A q \in char_num .. m : q \in 1 .. Len(text)
          BY <1>2
        <4> QED
          BY <1>2, <2>2, <4>1
      <3> QED
        BY <1>1, <2>2, <3>2, <3>3, <3>5, <3>6, EmitsLongest
    <2>3. CASE Following = ">"
      <3>1. PICK m : m = char_num + 1
        OBVIOUS
      <3>2. m \in 1 .. Len(text) /\ text[m] = ">" /\ m \in char_num .. Len(text)
        BY <1>1, <1>2, <2>3, <3>1 DEF Following
      <3>3. \A j : j \in Ends(char_num) <=> j \in char_num .. Len(text) /\ j \in {char_num, m}
        BY <1>2, <2>1, <2>3, <3>1 DEF Ends
      <3>4. m \in Ends(char_num) /\ \A j \in Ends(char_num) : j <= m
        BY <1>2, <3>1, <3>2, <3>3
      <3>5. /\ SubSeq(text, char_num, m) = <<"-", ">">> /\ m # char_num
            /\ Spelt(SubSeq(text, char_num, m)) = "T_OFTYPE"
        BY <1>2, <2>1, <2>3, <3>1, <3>2
      <3>6. \A q \in char_num .. m : text[q] \in Marks \ {NL}
        <4>1. \A q \in char_num .. m : q = char_num \/ q = m
          BY <1>2, <3>1
        <4> QED
          BY <1>1, <1>2, <3>2, <4>1, MarkKindsApart
      <3>7. PICK literal : literal = <<"-", ">">>
        OBVIOUS
      <3>8. Resume(char_num + 2, line_num, <<Token("T_OFTYPE", literal)>>)
        BY <1>4, <2>3, <3>7 DEF Minus
      <3>9. char_num + 2 = m + 1
        BY <1>2, <3>1
      <3>10. Resume(m + 1, line_num, <<Token("T_OFTYPE", literal)>>)
        BY <3>8, <3>9
      <3> QED
        BY <2>2, <3>2, <3>4, <3>5, <3>6, <3>7, <3>10
    <2>4. CASE Following # ">"
      <3>1. \A j : j \in Ends(char_num) <=> j = char_num
        BY <1>2, <2>1, <2>4 DEF Ends
      <3>2. char_num \in Ends(char_num) /\ \A j \in Ends(char_num) : j <= char_num
        BY <1>2, <3>1
      <3>3. char_num \in char_num .. Len(text)
        BY <1>2
      <3>4. /\ SubSeq(text, char_num, char_num) = <<"-">>
            /\ Spelt(SubSeq(text, char_num, char_num)) = "T_MINUS"
        BY <2>1, <3>3
      <3>5. \A q \in char_num .. char_num : text[q] \in Marks \ {NL}
        <4>1. \A q \in char_num .. char_num : q = char_num
          BY <1>2
        <4> QED
          BY <1>1, <1>2, <4>1, MarkKindsApart
      <3>6. PICK literal : literal = <<"-">>
        OBVIOUS
      <3>7. Resume(char_num + 1, line_num, <<Token("T_MINUS", literal)>>)
        BY <1>4, <2>4, <3>6 DEF Minus
      <3> QED
        BY <2>2, <3>2, <3>3, <3>4, <3>5, <3>6, <3>7
    <2> QED
      BY <2>3, <2>4
  <1> QED
    BY <1>3, <1>4

\* The word at hand, and what follows it.
LEMMA WordEnds ==
    ASSUME LexInv, OnTrack, c \in Letters
    PROVE  \E m \in char_num .. Len(text) :
              /\ m \in Ends(char_num) /\ \A j \in Ends(char_num) : j <= m
              /\ IsWord(SubSeq(text, char_num, m)) /\ text[m] \in WordChars
              /\ \A q \in char_num .. m : prog_buff[q] \in WordChars
              /\ TokenAt(char_num, m) = WordToken(SubSeq(prog_buff, char_num, m))
  <1>1. c # NUL /\ NUL \notin WordChars /\ c \in WordChars
    BY Kinds DEF WordChars, NUL
  <1>2. /\ Buffer /\ text \in Seq(Chars) /\ char_num \in 1 .. Len(text) /\ text[char_num] = c
        /\ line_num = LineAt(char_num) /\ char_num \in Nat /\ Len(text) \in Nat
        /\ Len(prog_buff) = Len(text) + 1
        /\ \A j \in 1 .. Len(text) : text[j] = prog_buff[j] /\ prog_buff[j] \in Chars
        /\ prog_buff[char_num] = c /\ char_num \in 1 .. Len(prog_buff)
    BY <1>1, TrackHere
  <1>3. PICK S : S = (Chars \cup {NUL}) \ WordChars
    OBVIOUS
  <1>4. PICK w : w = FirstOf(char_num, S)
    OBVIOUS
  <1>5. /\ w \in char_num .. Len(prog_buff) /\ prog_buff[w] \in S
        /\ \A j \in char_num .. Len(prog_buff) : prog_buff[j] \in S => w <= j
    <2>1. NUL \in S /\ char_num >= 1
      BY <1>1, <1>2, <1>3
    <2>2. w \in char_num .. Len(prog_buff)
      BY <1>2, <1>4, <2>1, NulFound
    <2>3. w # Len(prog_buff) + 1
      BY <1>2, <2>2
    <2> QED
      BY <1>2, <1>4, <2>1, <2>3, FirstFound
  <1>6. w \in Nat /\ w > char_num /\ prog_buff[w] \notin WordChars
    <2>1. prog_buff[w] \notin WordChars
      BY <1>3, <1>5
    <2>2. w # char_num
      BY <1>1, <1>2, <2>1
    <2> QED
      BY <1>2, <1>5, <2>1, <2>2
  <1>7. ASSUME NEW q \in char_num .. w - 1
        PROVE  q \in 1 .. Len(text) /\ text[q] \in WordChars /\ prog_buff[q] \in WordChars
    <2>1. q \in 1 .. Len(text) /\ q \in char_num .. Len(prog_buff) /\ ~ (w <= q)
      BY <1>2, <1>5, <1>6
    <2>2. prog_buff[q] \notin S
      BY <1>5, <2>1
    <2> QED
      BY <1>2, <1>3, <2>1, <2>2
  <1>8. ASSUME NEW j \in char_num .. Len(text)
        PROVE  /\ IsWord(SubSeq(text, char_num, j)) <=> j < w
               /\ Spelt(SubSeq(text, char_num, j)) # "none"
                    <=> IsWord(SubSeq(text, char_num, j))
               /\ IsWord(SubSeq(text, char_num, j))
                    => Spelt(SubSeq(text, char_num, j))
                       = IF SubSeq(text, char_num, j) \in DOMAIN Keywords
                         THEN Keywords[SubSeq(text, char_num, j)] ELSE "T_IDENT"
               /\ ~ IsString(SubSeq(text, char_num, j))
    <2>1. PICK s : s = SubSeq(text, char_num, j)
      OBVIOUS
    <2>2. PieceOf(s, Chars, text, char_num, j)
      BY <1>2, <2>1, PieceTaken
    <2>3. s \in Seq(Chars) /\ s # << >> /\ s[1] \in Letters
      BY <1>2, <2>2 DEF PieceOf
    <2>4. IsWord(s) <=> text[char_num] \in Letters /\ \A k \in char_num .. j : text[k] \in WordChars
      BY <1>2, <2>1, WordPiece
    <2>5. IsWord(s) <=> j < w
      <3>1. ASSUME j < w PROVE IsWord(s)
        <4>1. \A k \in char_num .. j : k \in char_num .. w - 1
          BY <1>2, <1>6, <3>1
        <4> QED
          BY <1>2, <1>7, <2>4, <4>1
      <3>2. ASSUME IsWord(s), ~ (j < w) PROVE FALSE
        <4>1. w \in char_num .. j /\ w \in 1 .. Len(text)
          BY <1>2, <1>6, <3>2
        <4> QED
          BY <1>2, <1>6, <2>4, <3>2, <4>1
      <3> QED
        BY <3>1, <3>2
    <2>6. Spelt(s) = IF s \in DOMAIN Keywords THEN Keywords[s]
                     ELSE IF IsWord(s) THEN "T_IDENT" ELSE "none"
      BY <2>3, SpeltWord
    <2>7. s \in DOMAIN Keywords => IsWord(s) /\ Keywords[s] # "none"
      BY <2>3, WordsBegin
    <2>8. ~ IsString(s)
      BY <2>3, Kinds, MarkKinds DEF IsString
    <2> QED
      BY <2>1, <2>5, <2>6, <2>7, <2>8
  <1>9. PICK m : m = w - 1
    OBVIOUS
  <1>10. m \in char_num .. Len(text) /\ m < w /\ m \in Nat /\ m \in char_num .. w - 1
    BY <1>2, <1>5, <1>6, <1>9
  <1>11. m \in Ends(char_num) /\ IsWord(SubSeq(text, char_num, m)) /\ text[m] \in WordChars
    BY <1>7, <1>8, <1>10 DEF Ends
  <1>12. ASSUME NEW j \in Ends(char_num) PROVE j <= m
    <2>1. j \in char_num .. Len(text) /\ j < w
      BY <1>8, <1>12 DEF Ends
    <2> QED
      BY <1>2, <1>6, <1>9, <2>1
  <1>13. \A q \in char_num .. m : prog_buff[q] \in WordChars
    BY <1>7, <1>9
  <1>14. TokenAt(char_num, m) = WordToken(SubSeq(prog_buff, char_num, m))
    <2>1. PICK s : s = SubSeq(text, char_num, m)
      OBVIOUS
    <2>2. s = SubSeq(prog_buff, char_num, m)
      <3>1. char_num >= 1 /\ m \in Int /\ m <= Len(text)
        BY <1>2, <1>10
      <3> QED
        BY <1>2, <2>1, <3>1, SamePiece
    <2>3. /\ Spelt(s) = IF s \in DOMAIN Keywords THEN Keywords[s] ELSE "T_IDENT"
          /\ ~ IsString(s)
      BY <1>8, <1>10, <1>11, <2>1
    <2> QED
      BY <1>2, <2>1, <2>2, <2>3 DEF TokenAt, WordToken, Token, is_keyword
  <1> QED
    BY <1>10, <1>11, <1>12, <1>13, <1>14

\* Where tokenize does not go its own way, the word it reads ends where it is spelt.
LEMMA WordDelimited ==
    ASSUME LexInv, OnTrack, c \in Letters, NEW m \in char_num .. Len(text),
           IsWord(SubSeq(text, char_num, m)), ~ IsOdd(char_num, m),
           \A q \in char_num .. m : prog_buff[q] \in WordChars
    PROVE  /\ m + 1 \in 1 .. Len(text) /\ text[m + 1] = prog_buff[m + 1]
           /\ prog_buff[m + 1] \in {NL, SPACE} \cup Delimiters
           /\ ~ (prog_buff[m + 1] = ":" /\ prog_buff[m + 2] = "=")
           /\ FirstOf(char_num + 1, {NL, SPACE} \cup Delimiters) = m + 1
  <1>1. c # NUL /\ "=" # NUL /\ "=" \in Chars /\ ":" \in Chars
    BY Kinds, MarkKinds
  <1>2. /\ Buffer /\ text \in Seq(Chars) /\ char_num \in 1 .. Len(text)
        /\ char_num \in Nat /\ Len(text) \in Nat /\ Len(prog_buff) = Len(text) + 1
        /\ \A j \in 1 .. Len(text) : text[j] = prog_buff[j]
        /\ \A j \in 1 .. Len(prog_buff) : prog_buff[j] # NUL => j \in 1 .. Len(text)
    BY <1>1, TrackHere
  <1>3. m \in Nat /\ m >= 1 /\ char_num <= m /\ m <= Len(text)
    BY <1>2
  <1>4. PICK rest : rest = SubSeq(text, m + 1, Len(text))
    OBVIOUS
  <1>5. PICK assign : assign = <<":", "=">>
    OBVIOUS
  <1>6. rest # << >> /\ rest[1] \in {NL, SPACE} \cup Delimiters /\ ~ IsPrefix(assign, rest)
    BY <1>4, <1>5 DEF IsOdd
  <1>7. m + 1 \in 1 .. Len(text) /\ Len(text) \in m + 1 .. Len(text)
    <2>1. ASSUME m = Len(text) PROVE FALSE
      <3>1. SubSeq(text, m + 1, (m + 1) - 1) = << >>
        BY <1>2, <1>3, EmptyPiece
      <3>2. (m + 1) - 1 = Len(text)
        BY <1>3, <2>1
      <3> QED
        BY <1>4, <1>6, <3>1, <3>2
    <2> QED
      BY <1>2, <1>3, <2>1
  <1>8. PieceOf(rest, Chars, text, m + 1, Len(text))
    BY <1>2, <1>4, <1>7, PieceTaken
  <1>9. /\ rest \in Seq(Chars) /\ Len(rest) = Len(text) - (m + 1) + 1 /\ rest[1] = text[m + 1]
        /\ \A k \in 1 .. Len(text) - (m + 1) + 1 : rest[k] = text[(m + 1) + k - 1]
    BY <1>8 DEF PieceOf
  <1>10. text[m + 1] = prog_buff[m + 1] /\ prog_buff[m + 1] \in {NL, SPACE} \cup Delimiters
    BY <1>2, <1>6, <1>7, <1>9
  <1>11. ASSUME prog_buff[m + 1] = ":", prog_buff[m + 2] = "=" PROVE FALSE
    <2>1. m + 2 \in 1 .. Len(prog_buff)
      BY <1>2, <1>3, <1>7
    <2>2. m + 2 \in 1 .. Len(text)
      BY <1>1, <1>2, <1>11, <2>1
    <2>3. Len(rest) >= 2 /\ 2 \in 1 .. Len(text) - (m + 1) + 1 /\ (m + 1) + 2 - 1 = m + 2
      BY <1>2, <1>3, <1>9, <2>2
    <2>4. rest[1] = ":" /\ rest[2] = "="
      BY <1>2, <1>9, <1>10, <1>11, <2>2, <2>3
    <2>5. assign \in Seq(Chars) /\ Len(assign) = 2 /\ assign[1] = ":" /\ assign[2] = "="
      BY <1>1, <1>5
    <2>6. IsPrefix(assign, rest)
      <3>1. IsPrefix(assign, rest)
              <=> Len(assign) <= Len(rest) /\ \A k \in 1 .. Len(assign) : assign[k] = rest[k]
        <4>1. rest \in Seq(Chars) /\ assign \in Seq(Chars)
          BY <1>9, <2>5
        <4> QED
          BY <4>1, PrefixByElement
      <3>2. \A k \in 1 .. Len(assign) : k = 1 \/ k = 2
        BY <2>5
      <3> QED
        BY <2>3, <2>4, <2>5, <3>1, <3>2
    <2> QED
      BY <1>6, <2>6
  <1>12. PICK S : S = {NL, SPACE} \cup Delimiters
    OBVIOUS
  <1>13. PICK end : end = FirstOf(char_num + 1, S)
    OBVIOUS
  <1>14. end = m + 1
    <2>1. m + 1 \in char_num + 1 .. Len(prog_buff) /\ prog_buff[m + 1] \in S
      BY <1>2, <1>3, <1>7, <1>10, <1>12
    <2>2. char_num + 1 \in Nat /\ char_num + 1 >= 1
      BY <1>2
    <2>3. end \in char_num + 1 .. Len(prog_buff) /\ prog_buff[end] \in S /\ end <= m + 1
      BY <1>2, <1>13, <2>1, <2>2, FirstFound
    <2>4. S \cap WordChars = {}
      BY <1>12, MarkKinds, MarksEndWords
    <2>5. end \notin char_num .. m
      BY <2>3, <2>4
    <2> QED
      BY <1>2, <1>3, <2>3, <2>5
  <1> QED
    BY <1>7, <1>10, <1>11, <1>12, <1>13, <1>14

\* A delimiter on the track; a colon is one behind a word, with no "=" after it.
LEMMA DelimiterTracked ==
    ASSUME Buffer, NEW i, NEW line, NEW S, NEW list \in Seq(S), OnTrackAt(i, line, list),
           i <= Len(text), text[i] \in DOMAIN Singles \cup {":"},
           text[i] = ":" => i > 1 /\ InWord(i - 1) /\ prog_buff[i + 1] # "=",
           NEW type, type = (IF text[i] = ":" THEN "T_COLON" ELSE Singles[text[i]])
    PROVE  OnTrackAt(i + 1, line,
                     list \o <<[type |-> type, line |-> line, literal |-> <<text[i]>>]>>)
  <1>1. /\ text \in Seq(Chars) /\ Len(prog_buff) = Len(text) + 1 /\ Len(text) \in Nat
        /\ i \in 1 .. Len(text) /\ i \in Nat /\ line = LineAt(i)
        /\ \A j \in 1 .. Len(text) : text[j] = prog_buff[j]
    BY TextOfBuffer DEF OnTrackAt
  <1>2. /\ text[i] \notin Blanks \cup {APOSTROPHE} /\ text[i] # "=" /\ text[i] # NL
        /\ text[i] # "-" /\ text[i] # QUOTE /\ ":" \notin DOMAIN Singles
    BY MarkKindsApart
  <1>3. text[i] \notin Letters \cup Digits /\ text[i] \in Chars
    BY Kinds, MarkKinds
  <1>4. ASSUME i + 1 <= Len(text), text[i] = ":" PROVE text[i + 1] # "="
    <2>1. i + 1 \in 1 .. Len(text)
      BY <1>1, <1>4
    <2> QED
      BY <1>1, <1>4, <2>1
  <1>5. \A j : j \in Ends(i) <=> j = i
    <2> SUFFICES ASSUME NEW j PROVE j \in Ends(i) <=> j = i
      OBVIOUS
    <2>1. j \in Ends(i) <=> \/ j = i /\ text[i] # "="
                            \/ /\ j = i + 1 /\ j <= Len(text)
                               /\ text[i] \notin DOMAIN Singles /\ text[i + 1] = "="
      BY <1>1, SymbolEnds
    <2> QED
      BY <1>2, <1>4, <2>1
  <1>6. PICK s : s = SubSeq(text, i, i)
    OBVIOUS
  <1>7. /\ TokenAt(i, i) = [type |-> Symbols[s], literal |-> s, line |-> LineAt(i)]
        /\ s \in DOMAIN Symbols /\ s = <<text[i]>>
    BY <1>1, <1>5, <1>6, SymbolEnds
  <1>8. s \in Seq(Chars) /\ Len(s) = 1 /\ s[1] = text[i] /\ s # << >>
    BY <1>3, <1>7
  <1>9. Symbols[s] = type
    BY <1>2, <1>7, <1>8, SymbolTypes
  <1>10. ~ IsOdd(i, i)
    <2>1. ~ IsWord(s)
      BY <1>3, <1>8, WordsBegin
    <2>2. Unsigned(s) = s
      BY <1>2, <1>8 DEF Unsigned
    <2>3. ~ Digital(Unsigned(s))
      BY <1>3, <1>8, <2>2, NumbersBegin
    <2>4. ~ IsString(s)
      BY <1>2, <1>8 DEF IsString
    <2>5. s = <<":">> => i > 1 /\ InWord(i - 1)
      <3>1. s = <<":">> => text[i] = ":"
        BY <1>8, ShortSeqs
      <3> QED
        BY <3>1
    <2> QED
      BY <1>6, <2>1, <2>3, <2>4, <2>5 DEF IsOdd
  <1>11. PICK token : token = [type |-> type, line |-> line, literal |-> <<text[i]>>]
    OBVIOUS
  <1>12. token = TokenAt(i, i)
    BY <1>1, <1>7, <1>9, <1>11
  <1>13. OnTrackAt(i + 1, LineAt(i + 1), list \o <<token>>)
    <2>1. i \in Ends(i) /\ \A j \in Ends(i) : j <= i
      BY <1>1, <1>5
    <2>2. OnTrackAt(i + 1, LineAt(i + 1), list \o <<TokenAt(i, i)>>)
      BY <1>2, <1>10, <2>1, TokenTracked
    <2> QED
      BY <1>12, <2>2
  <1>14. LineAt(i + 1) = line
    <2>1. PICK k : k = i + 1
      OBVIOUS
    <2>2. i \in 1 .. Len(prog_buff) /\ k \in i .. Len(prog_buff) /\ k - 1 = i
      BY <1>1, <2>1
    <2>3. \A j \in i .. k - 1 : prog_buff[j] # NL
      <3>1. \A j \in i .. k - 1 : j = i
        BY <1>1, <2>1
      <3> QED
        BY <1>1, <1>2, <3>1
    <2> QED
      BY <1>1, <2>1, <2>2, <2>3, LinesPass
  <1> QED
    BY <1>11, <1>13, <1>14

\* A newline or a space on the track.
LEMMA SpaceTracked ==
    ASSUME Buffer, NEW i, NEW line, NEW list, OnTrackAt(i, line, list),
           i <= Len(text), text[i] \in {NL, SPACE}
    PROVE  OnTrackAt(i + 1, IF text[i] = NL THEN line + 1 ELSE line, list)
  <1>1. /\ text \in Seq(Chars) /\ Len(prog_buff) = Len(text) + 1 /\ Len(text) \in Nat
        /\ i \in 1 .. Len(text) /\ i \in Nat /\ line = LineAt(i)
        /\ \A j \in 1 .. Len(text) : text[j] = prog_buff[j]
    BY TextOfBuffer DEF OnTrackAt
  <1>2. text[i] \in Blanks
    BY MarkKindsApart
  <1>3. TokensFrom[i] = TokensFrom[i + 1]
    BY <1>1, <1>2, AtBlank
  <1>4. PICK k : k = i + 1
    OBVIOUS
  <1>5. /\ i \in 1 .. Len(prog_buff) /\ k \in i .. Len(prog_buff) /\ k - 1 = i /\ k > i
        /\ k \in 1 .. Len(prog_buff)
    BY <1>1, <1>4
  <1>6. OnTrackAt(k, LineAt(k), list)
    BY <1>3, <1>4, <1>5, PassedOver
  <1>7. LineAt(k) = IF text[i] = NL THEN line + 1 ELSE line
    <2>1. \A j \in i .. k - 2 : FALSE
      BY <1>1, <1>4
    <2>2. \A j \in i .. k - 1 : j = i
      BY <1>1, <1>4
    <2> QED
      BY <1>1, <1>5, <2>1, <2>2, LinesPass
  <1> QED
    BY <1>4, <1>6, <1>7

\* A word and what ends it.
LEMMA WordTrack ==
    ASSUME LexInv, LexInv', OnTrack, Word
    PROVE  Strayed(tokens) \/ LongInv'
  <1>1. /\ status = "running" /\ c \in Letters /\ c # NUL
        /\ c \notin Blanks \cup {APOSTROPHE}
    BY Kinds, MarkKinds DEF Word, Reads
  <1>2. /\ Buffer /\ text \in Seq(Chars) /\ tokens \in Seq(Tokens)
        /\ char_num \in 1 .. Len(text) /\ text[char_num] = c
        /\ line_num = LineAt(char_num) /\ OnTrackAt(char_num, line_num, tokens)
        /\ Len(prog_buff) = Len(text) + 1 /\ Len(text) \in Nat /\ char_num \in Nat
        /\ char_num \in 1 .. Len(prog_buff) /\ char_num <= Len(text)
    BY <1>1, TrackHere DEF OnTrack
  <1>3. PICK m \in char_num .. Len(text) :
           /\ m \in Ends(char_num) /\ \A j \in Ends(char_num) : j <= m
           /\ IsWord(SubSeq(text, char_num, m)) /\ text[m] \in WordChars
           /\ \A q \in char_num .. m : prog_buff[q] \in WordChars
           /\ TokenAt(char_num, m) = WordToken(SubSeq(prog_buff, char_num, m))
    BY <1>1, WordEnds
  <1>4. CASE IsOdd(char_num, m)
    BY <1>1, <1>2, <1>3, <1>4, TokenTracked
  <1>5. CASE ~ IsOdd(char_num, m)
    <2>1. PICK end : end = m + 1
      OBVIOUS
    <2>2. PICK ending : ending = prog_buff[end]
      OBVIOUS
    <2>3. PICK word : word = TokenAt(char_num, m)
      OBVIOUS
    <2>4. /\ end \in 1 .. Len(text) /\ text[end] = ending /\ ending \in {NL, SPACE} \cup Delimiters
          /\ ~ (ending = ":" /\ prog_buff[end + 1] = "=")
          /\ FirstOf(char_num + 1, {NL, SPACE} \cup Delimiters) = end
      <3>1. m + 2 = end + 1 /\ m \in Nat
        BY <1>2, <1>3, <2>1
      <3> QED
        BY <1>1, <1>3, <1>5, <2>1, <2>2, <3>1, WordDelimited
    <2>5. /\ end \in Nat /\ end - 1 = m /\ end > 1 /\ ~ (end > Len(prog_buff)) /\ end <= Len(text)
          /\ end \in char_num .. Len(prog_buff) /\ end + 1 \in 1 .. Len(prog_buff)
          /\ (end + 1) - 1 = end
      BY <1>2, <1>3, <2>1, <2>4
    <2>6. PICK line : line = (IF ending = NL THEN line_num + 1 ELSE line_num)
      OBVIOUS
    <2>7. PICK emitted : emitted = CASE ending \in {NL, SPACE} -> <<word>>
                                     [] ending = ":" -> <<word, Token("T_COLON", <<":">>)>>
                                     [] OTHER -> <<word, Token(Singles[ending], <<ending>>)>>
      OBVIOUS
    <2>8. GoOn(end + 1, prog_buff[end + 1], line, emitted)
      BY <1>3, <2>2, <2>3, <2>4, <2>5, <2>6, <2>7 DEF Word, Resume
    <2>9. PICK list : list = tokens \o <<word>>
      OBVIOUS
    <2>10. OnTrackAt(end, line_num, list)
      <3>1. OnTrackAt(m + 1, LineAt(m + 1), tokens \o <<TokenAt(char_num, m)>>)
        BY <1>1, <1>2, <1>3, <1>5, TokenTracked
      <3>2. LineAt(end) = line_num
        <4>1. \A j \in char_num .. end - 1 : prog_buff[j] # NL
          BY <1>3, <2>5, MarkKinds, MarksEndWords
        <4> QED
          BY <1>2, <2>5, <4>1, LinesPass
      <3> QED
        BY <2>1, <2>3, <2>9, <3>1, <3>2
    <2>11. NoWordAt(end + 1)
      <3>1. ending \notin WordChars
        BY <2>4, MarkKinds, MarksEndWords
      <3>2. ~ InWord(end)
        BY <1>2, <2>4, <3>1, OutOfWord
      <3> QED
        BY <2>5, <3>2 DEF NoWordAt
    <2>12. OnTrackAt(end + 1, line, tokens \o emitted)
      <3>1. CASE ending \in {NL, SPACE}
        <4>1. emitted = <<word>>
          BY <2>7, <3>1 DEF NL, SPACE
        <4>2. OnTrackAt(end + 1, line, list)
          BY <1>2, <2>4, <2>5, <2>6, <2>10, <3>1, SpaceTracked
        <4> QED
          BY <2>9, <4>1, <4>2
      <3>2. CASE ending \notin {NL, SPACE}
        <4>1. PICK type : type = (IF ending = ":" THEN "T_COLON" ELSE Singles[ending])
          OBVIOUS
        <4>2. PICK token : token = [type |-> type, line |-> line_num, literal |-> <<ending>>]
          OBVIOUS
        <4>3. emitted = <<word, token>> /\ line = line_num
          BY <2>6, <2>7, <3>2, <4>1, <4>2 DEF Token
        <4>4. ending \in DOMAIN Singles \cup {":"}
          BY <2>4, <3>2, MarkKinds
        <4>5. ending = ":" => InWord(end - 1)
          <5>1. m >= 1 /\ char_num \in 1 .. m
            BY <1>2, <1>3
          <5> QED
            BY <1>3, <2>5, <5>1 DEF InWord
        <4>6. PICK T : T = Tokens \cup {word, token}
          OBVIOUS
        <4>7. tokens \in Seq(T) /\ word \in T /\ token \in T
          BY <1>2, <4>6
        <4>8. list \in Seq(T) /\ list \o <<token>> = tokens \o <<word, token>>
          BY <2>9, <4>7
        <4>9. OnTrackAt(end + 1, line_num,
                        list \o <<[type |-> type, line |-> line_num, literal |-> <<text[end]>>]>>)
          BY <1>2, <2>4, <2>5, <2>10, <4>1, <4>4, <4>5, <4>8, DelimiterTracked
        <4> QED
          BY <2>4, <4>2, <4>3, <4>8, <4>9
      <3> QED
        BY <3>1, <3>2
    <2> QED
      BY <1>1, <2>5, <2>8, <2>11, <2>12, StaysOnTrack
  <1> QED
    BY <1>4, <1>5

-----------------------------------------------------------------------------
(* Off the track, and every step *)

\* A pass leaves the text alone and adds to the list one token, two or none.
Grown ==
    /\ UNCHANGED prog_buff
    /\ \E a, b : tokens' \in {tokens, tokens \o << >>, tokens \o <<a>>, tokens \o <<a, b>>}

\* Going on and stopping do.
LEMMA GoOnGrows ==
    ASSUME NEW i, NEW ch, NEW line, NEW a, NEW b, NEW emitted \in {<< >>, <<a>>, <<a, b>>},
           GoOn(i, ch, line, emitted)
    PROVE  Grown
  <1>1. UNCHANGED prog_buff /\ tokens' \in {tokens, tokens \o emitted}
    BY DEF GoOn, Stop
  <1>2. tokens' \in {tokens, tokens \o << >>, tokens \o <<a>>, tokens \o <<a, b>>}
    BY <1>1
  <1> QED
    BY <1>1, <1>2 DEF Grown

\* The same for a pass that ends by reading a character.
LEMMA ResumeGrows ==
    ASSUME NEW i, NEW line, NEW a, NEW b, NEW emitted \in {<< >>, <<a>>, <<a, b>>},
           Resume(i, line, emitted)
    PROVE  Grown
  <1>1. GoOn(i, prog_buff[i], line, emitted)
    BY DEF Resume
  <1> QED
    BY <1>1, GoOnGrows

\* The same for the end of the process.
LEMMA StopGrows ==
    ASSUME NEW outcome, Stop(outcome)
    PROVE  Grown
  BY DEF Grown, Stop

\* A number is one token.
LEMMA NumberGrows ==
    ASSUME NEW i, LexNumber(i)
    PROVE  Grown
  <1>1. \/ Stop("log_error")
        \/ \E k, type, literal : Resume(k, line_num, <<Token(type, literal)>>)
    BY DEF LexNumber
  <1>2. ASSUME NEW k, NEW type, NEW literal, Resume(k, line_num, <<Token(type, literal)>>)
        PROVE  Grown
    <2>1. PICK a : a = Token(type, literal)
      OBVIOUS
    <2>2. Resume(k, line_num, <<a>>)
      BY <1>2, <2>1
    <2> QED
      BY <2>2, ResumeGrows
  <1> QED
    BY <1>1, <1>2, StopGrows

\* Every pass does.
LEMMA PassGrows ==
    ASSUME LexInv, tokenize
    PROVE  Grown
  <1>1. ASSUME NEW k, NEW line, NEW a, Resume(k, line, <<a>>) PROVE Grown
    BY <1>1, ResumeGrows
  <1>2. ASSUME NEW k, NEW line, Resume(k, line, << >>) PROVE Grown
    BY <1>2, ResumeGrows
  <1>3. CASE Blank
    BY <1>2, <1>3 DEF Blank
  <1>4. CASE Single
    BY <1>1, <1>4 DEF Single
  <1>5. CASE StringLiteral
    BY <1>1, <1>5 DEF StringLiteral
  <1>6. CASE Comment
    BY <1>2, <1>6 DEF Comment
  <1>7. CASE Colon
    <2>1. PICK a : a = Token("T_ASSIGN", <<":", "=">>)
      OBVIOUS
    <2>2. Resume(char_num + 2, line_num, IF Following = "=" THEN <<a>> ELSE << >>)
      BY <1>7, <2>1 DEF Colon
    <2> QED
      BY <1>1, <1>2, <2>2
  <1>8. CASE Equals
    BY <1>1, <1>8, StopGrows DEF Equals
  <1>9. CASE Comparison
    BY <1>1, <1>9 DEF Comparison
  <1>10. CASE Number
    BY <1>10, NumberGrows DEF Number
  <1>11. CASE Minus
    BY <1>1, <1>11, NumberGrows DEF Minus
  <1>12. CASE Word
    <2>1. PICK end : end = FirstOf(char_num + 1, {NL, SPACE} \cup Delimiters)
      OBVIOUS
    <2>2. PICK a : a = WordToken(SubSeq(prog_buff, char_num, end - 1))
      OBVIOUS
    <2>3. PICK ending : ending = prog_buff[end]
      OBVIOUS
    <2>4. PICK colon : colon = Token("T_COLON", <<":">>)
      OBVIOUS
    <2>5. PICK single : single = Token(Singles[ending], <<ending>>)
      OBVIOUS
    <2>6. PICK line : line = (IF ending = NL THEN line_num + 1 ELSE line_num)
      OBVIOUS
    <2>7. \/ Stop("overrun")
          \/ GoOn(end, "=", line_num, <<a>>)
          \/ Resume(end + 1, line, CASE ending \in {NL, SPACE} -> <<a>>
                                     [] ending = ":" -> <<a, colon>>
                                     [] OTHER -> <<a, single>>)
      BY <1>12, <2>1, <2>2, <2>3, <2>4, <2>5, <2>6 DEF Word
    <2>8. ASSUME Resume(end + 1, line, CASE ending \in {NL, SPACE} -> <<a>>
                                         [] ending = ":" -> <<a, colon>>
                                         [] OTHER -> <<a, single>>)
          PROVE  Grown
      <3>1. PICK emitted : emitted = CASE ending \in {NL, SPACE} -> <<a>>
                                       [] ending = ":" -> <<a, colon>>
                                       [] OTHER -> <<a, single>>
        OBVIOUS
      <3>2. \E b : emitted \in {<< >>, <<a>>, <<a, b>>}
        BY <3>1 DEF NL, SPACE
      <3>3. Resume(end + 1, line, emitted)
        BY <2>8, <3>1
      <3> QED
        BY <3>2, <3>3, ResumeGrows
    <2> QED
      BY <2>7, <2>8, StopGrows, GoOnGrows
  <1>13. CASE Unknown
    BY <1>13, StopGrows DEF Unknown
  <1>14. CASE EndOfFile
    <2>1. PICK a : a = Token("T_EOF", <<"EOF">>)
      OBVIOUS
    <2>2. tokens' = Append(tokens, a) /\ UNCHANGED prog_buff
      BY <1>14, <2>1 DEF EndOfFile
    <2>3. Append(tokens, a) = tokens \o <<a>>
      <3>1. PICK T : T = Tokens \cup {a}
        OBVIOUS
      <3>2. tokens \in Seq(T) /\ a \in T
        BY <3>1 DEF LexInv
      <3> QED
        BY <3>2
    <2> QED
      BY <2>2, <2>3 DEF Grown
  <1> QED
    BY <1>3, <1>4, <1>5, <1>6, <1>7, <1>8, <1>9, <1>10, <1>11, <1>12, <1>13, <1>14 DEF tokenize

\* What tokenize has found before it goes its own way it keeps.
LEMMA StrayedStays ==
    ASSUME LexInv, Grown, Strayed(tokens)
    PROVE  Strayed(tokens)'
  <1>1. PICK expected : expected = TokensFrom[1]
    OBVIOUS
  <1>2. text \in Seq(Chars) /\ 1 \in 1 .. Len(text) + 1
    <2>1. text \in Seq(Chars)
      BY TextOfBuffer DEF LexInv
    <2>2. Len(text) \in Nat
      BY <2>1
    <2> QED
      BY <2>1, <2>2
  <1>3. expected \in Seq(Expectable) /\ expected # << >>
    BY <1>1, <1>2, ExpectedTyped
  <1>4. PICK p : p = Front(expected)
    OBVIOUS
  <1>5. p \in Seq(Expectable)
    BY <1>3, <1>4, FrontOfSeq
  <1>6. /\ UNCHANGED prog_buff
        /\ \E a, b : tokens' \in {tokens, tokens \o << >>, tokens \o <<a>>, tokens \o <<a, b>>}
    BY DEF Grown
  <1>7. PICK a, b : tokens' \in {tokens, tokens \o << >>, tokens \o <<a>>, tokens \o <<a, b>>}
    BY <1>6
  <1>8. PICK T : T = Tokens \cup Expectable \cup {a, b}
    OBVIOUS
  <1>9. /\ tokens \in Seq(T) /\ p \in Seq(T) /\ << >> \in Seq(T) /\ <<a>> \in Seq(T)
        /\ <<a, b>> \in Seq(T)
    BY <1>5, <1>8 DEF LexInv
  <1>10. IsPrefix(p, tokens)
    BY <1>1, <1>4 DEF Strayed
  <1>11. IsPrefix(p, tokens')
    BY <1>7, <1>9, <1>10, PrefixesStay
  <1>12. TokensFrom'[1] = expected
    BY <1>1, <1>6, SameExpected
  <1>13. Last(expected).type = "odd"
    BY <1>1 DEF Strayed
  <1> QED
    BY <1>4, <1>11, <1>12, <1>13 DEF Strayed

\* Every pass keeps to the track, or strays at an odd place.
LEMMA PassTrack ==
    ASSUME LexInv, LexInv', LongInv, tokenize
    PROVE  LongInv'
  <1>1. ASSUME Strayed(tokens) PROVE LongInv'
    <2>1. Strayed(tokens)'
      BY <1>1, PassGrows, StrayedStays
    <2> QED
      BY <2>1 DEF LongInv
  <1>2. ASSUME status = "running", OnTrack PROVE Strayed(tokens) \/ LongInv'
    <2>1. CASE Blank         BY <1>2, <2>1, BlankTrack
    <2>2. CASE Single        BY <1>2, <2>2, SingleTrack
    <2>3. CASE StringLiteral BY <1>2, <2>3, StringLiteralTrack
    <2>4. CASE Comment       BY <1>2, <2>4, CommentTrack
    <2>5. CASE Colon         BY <1>2, <2>5, ColonTrack
    <2>6. CASE Equals        BY <1>2, <2>6, EqualsTrack
    <2>7. CASE Comparison    BY <1>2, <2>7, ComparisonTrack
    <2>8. CASE Number        BY <1>2, <2>8, NumberBranch
    <2>9. CASE Minus         BY <1>2, <2>9, MinusTrack
    <2>10. CASE Word         BY <1>2, <2>10, WordTrack
    <2>11. CASE Unknown      BY <1>2, <2>11, UnknownTrack
    <2>12. CASE EndOfFile    BY <1>2, <2>12, EndOfFileTrack
    <2> QED
      BY <2>1, <2>2, <2>3, <2>4, <2>5, <2>6, <2>7, <2>8, <2>9, <2>10, <2>11, <2>12 DEF tokenize
  <1>3. status = "running"
    BY DEF tokenize, Blank, Single, StringLiteral, Comment, Colon, Equals, Comparison, Number,
           Minus, Word, Unknown, EndOfFile, Reads
  <1> QED
    BY <1>1, <1>2, <1>3 DEF LongInv

\* At the beginning all the tokens are still expected.
LEMMA InitLong ==
    ASSUME Init
    PROVE  LongInv
  <1>1. /\ char_num = 1 /\ c = prog_buff[1] /\ line_num = 1 /\ tokens = << >>
        /\ status = "running"
    BY DEF Init, Globals
  <1>2. Buffer /\ 1 \in 1 .. Len(prog_buff)
    BY InitLex DEF LexInv, Init, Globals
  <1>3. text \in Seq(Chars) /\ Len(text) \in Nat
    BY <1>2, TextOfBuffer
  <1>4. LineAt(1) = 1
    <2>1. LineAt(1) = 1 + Cardinality(Newlines(1))
      BY <1>2, LinesAreNewlines
    <2>2. Newlines(1) = {}
      BY DEF Newlines
    <2> QED
      BY <2>1, <2>2, FS_EmptySet
  <1>5. << >> \o TokensFrom[1] = TokensFrom[1]
    <2>1. 1 \in 1 .. Len(text) + 1
      BY <1>3
    <2>2. TokensFrom[1] \in Seq(Expectable)
      BY <1>3, <2>1, ExpectedTyped
    <2> QED
      BY <2>2
  <1>6. OnTrackAt(1, 1, << >>)
    BY <1>2, <1>4, <1>5 DEF OnTrackAt
  <1>7. NoWordAt(1)
    BY DEF NoWordAt
  <1> QED
    BY <1>1, <1>6, <1>7 DEF LongInv, OnTrack

\* Every step keeps the invariant.
LEMMA NextLong ==
    ASSUME LexInv, LexInv', LongInv, [Next]_vars
    PROVE  LongInv'
  <1>1. CASE tokenize
    BY <1>1, PassTrack
  <1>2. CASE UNCHANGED vars
    <2>1. UNCHANGED <<prog_buff, char_num, c, line_num, tokens, status>>
      BY <1>2 DEF vars
    <2>2. TokensFrom' = TokensFrom
      BY <2>1, SameExpected
    <2>3. Strayed(tokens) => Strayed(tokens)'
      BY <2>1, <2>2 DEF Strayed
    <2>4. OnTrack => OnTrack'
      <3>1. LineAt(char_num)' = LineAt(char_num)
        BY <2>1 DEF LineAt, text
      <3>2. NoWordAt(char_num) => NoWordAt(char_num)'
        BY <2>1 DEF NoWordAt, InWord, text
      <3> QED
        BY <2>1, <2>2, <3>1, <3>2 DEF OnTrack, OnTrackAt
    <2> QED
      BY <2>1, <2>2, <2>3, <2>4 DEF LongInv
  <1> QED
    BY <1>1, <1>2 DEF Next, Ended

\* The tokens found so far are those expected up to the character at hand.
LEMMA SpecLong == Spec => []LongInv
  <1>1. Init => LongInv
    BY InitLong
  <1>2. LexInv /\ LexInv' /\ LongInv /\ [Next]_vars => LongInv'
    BY NextLong
  <1> QED
    BY <1>1, <1>2, SpecLex, PTL DEF Spec

\* Whatever the file and the keywords, tokenize() makes the list of the longest
\* tokens, each with the number of its line, up to the end of the text or to the
\* first place where it stops with an error or goes its own way.
THEOREM LongestTokens == Spec => []TokensAreLongest
  <1>1. LongInv => TokensAreLongest
    <2> SUFFICES ASSUME LongInv, status # "running" PROVE TokensAreLongest
      BY DEF TokensAreLongest
    <2>1. PICK expected : expected = TokensFrom[1]
      OBVIOUS
    <2>2. \/ Last(expected).type = "odd" /\ IsPrefix(Front(expected), tokens)
          \/ status = "done" /\ Last(expected).type = "T_EOF" /\ tokens = expected
          \/ status = "log_error" /\ Last(expected).type = "none" /\ tokens = Front(expected)
      BY <2>1 DEF LongInv, Strayed
    <2> QED
      BY <2>1, <2>2 DEF TokensAreLongest
  <1> QED
    BY <1>1, SpecLong, PTL
=============================================================================
