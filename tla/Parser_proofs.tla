---------------------------- MODULE Parser_proofs ----------------------------
(***************************************************************************)
(* Theorems about parse(), for all programs.  The argument types the steps    *)
(* that are still to be done: each leads from one number of values at hand to *)
(* another, and all of them together to the one value that parse() returns.   *)
(* That peek() always finds a token is shown by where the steps that call it   *)
(* may stand among them.                                                      *)
(***************************************************************************)
EXTENDS Parser, Basics_proofs

-----------------------------------------------------------------------------
(* Lists of steps and of values *)

\* What a list looks like with an element more in front.
LEMMA ConsList ==
    ASSUME NEW a, NEW s, IsList(s)
    PROVE  /\ IsList(<<a>> \o s) /\ Len(s) \in Nat
           /\ <<a>> \o s # << >> /\ Len(<<a>> \o s) = Len(s) + 1
           /\ Head(<<a>> \o s) = a /\ Tail(<<a>> \o s) = s
           /\ \A i \in 1 .. Len(s) + 1 : (<<a>> \o s)[i] = IF i = 1 THEN a ELSE s[i - 1]
  <1>1. PICK S : S = {s[i] : i \in DOMAIN s} \cup {a}
    OBVIOUS
  <1>2. s \in Seq(S) /\ a \in S
    BY <1>1, SeqMonotonic DEF IsList
  <1>3. <<a>> \in Seq(S) /\ Len(<<a>>) = 1 /\ <<a>>[1] = a
    BY <1>2, SingletonSeq
  <1>4. /\ <<a>> \o s \in Seq(S) /\ Len(<<a>> \o s) = 1 + Len(s)
        /\ \A i \in 1 .. 1 + Len(s) : (<<a>> \o s)[i] = IF i <= 1 THEN <<a>>[i] ELSE s[i - 1]
    BY <1>2, <1>3, ConcatProperties
  <1>5. PICK t : t = <<a>> \o s
    OBVIOUS
  <1>6. Len(s) \in Nat /\ t \in Seq(S) /\ Len(t) = Len(s) + 1
    BY <1>2, <1>4, <1>5
  <1>7. \A i \in 1 .. Len(s) + 1 : t[i] = IF i = 1 THEN a ELSE s[i - 1]
    BY <1>3, <1>4, <1>5, <1>6
  <1>8. t # << >> /\ Head(t) = a
    BY <1>6, <1>7
  <1>9. Tail(t) \in Seq(S) /\ Len(Tail(t)) = Len(s) /\ \A i \in 1 .. Len(s) : Tail(t)[i] = s[i]
    BY <1>6, <1>7, <1>8, HeadTailProperties
  <1>10. Tail(t) = s
    BY <1>2, <1>9, SeqEqual
  <1> QED
    BY <1>5, <1>6, <1>7, <1>8, <1>10, ListOfSeq

\* A list that is not empty is its first element in front of the others.
LEMMA UnconsList ==
    ASSUME NEW s, IsList(s), s # << >>
    PROVE  /\ IsList(Tail(s)) /\ s = <<Head(s)>> \o Tail(s)
           /\ Len(s) \in Nat /\ Len(s) >= 1 /\ Len(Tail(s)) = Len(s) - 1 /\ Head(s) = s[1]
           /\ \A i \in 1 .. Len(s) - 1 : Tail(s)[i] = s[i + 1]
  <1>1. PICK S : S = {s[i] : i \in DOMAIN s}
    OBVIOUS
  <1>2. s \in Seq(S) /\ Len(s) \in Nat /\ Len(s) >= 1
    BY <1>1, EmptySeq DEF IsList
  <1>3. /\ Head(s) \in S /\ Tail(s) \in Seq(S) /\ Len(Tail(s)) = Len(s) - 1
        /\ \A i \in 1 .. Len(s) - 1 : Tail(s)[i] = s[i + 1]
    BY <1>2, HeadTailProperties
  <1>4. IsList(Tail(s)) /\ Head(s) = s[1]
    <2>1. IsList(Tail(s))
      BY <1>3, ListOfSeq
    <2>2. Head(s) = s[1]
      BY <1>2
    <2> QED
      BY <2>1, <2>2
  <1>5. PICK t : t = <<Head(s)>> \o Tail(s)
    OBVIOUS
  <1>6. t \in Seq(S) /\ Len(t) = Len(s)
    <2>1. <<Head(s)>> \in Seq(S) /\ Len(<<Head(s)>>) = 1
      BY <1>3, SingletonSeq
    <2> QED
      BY <1>2, <1>3, <1>5, <2>1, ConcatProperties
  <1>7. \A i \in 1 .. Len(s) : t[i] = s[i]
    BY <1>2, <1>3, <1>4, <1>5, ConsList
  <1>8. t = s
    BY <1>2, <1>6, <1>7, SeqEqual
  <1> QED
    BY <1>2, <1>3, <1>4, <1>5, <1>8

\* An element more at the end.
LEMMA AppendList ==
    ASSUME NEW s, IsList(s), NEW e
    PROVE  /\ IsList(Append(s, e)) /\ Len(s) \in Nat /\ Len(Append(s, e)) = Len(s) + 1
           /\ Last(Append(s, e)) = e
  <1>1. PICK S : S = {s[i] : i \in DOMAIN s} \cup {e}
    OBVIOUS
  <1>2. s \in Seq(S) /\ e \in S /\ Len(s) \in Nat
    BY <1>1, SeqMonotonic DEF IsList
  <1>3. Append(s, e) \in Seq(S) /\ Len(Append(s, e)) = Len(s) + 1 /\ Append(s, e)[Len(s) + 1] = e
    BY <1>2, AppendProperties
  <1> QED
    BY <1>2, <1>3, ListOfSeq DEF Last

\* The first elements of a list.
LEMMA PrefixList ==
    ASSUME NEW s, IsList(s), NEW n \in Nat, n <= Len(s)
    PROVE  IsList(SubSeq(s, 1, n)) /\ Len(SubSeq(s, 1, n)) = n
  <1>1. PICK S : S = {s[i] : i \in DOMAIN s}
    OBVIOUS
  <1>2. s \in Seq(S) /\ Len(s) \in Nat
    BY <1>1 DEF IsList
  <1>3. \A i \in 1 .. n : s[i] \in S
    BY <1>2
  <1>4. /\ SubSeq(s, 1, n) \in Seq(S)
        /\ Len(SubSeq(s, 1, n)) = IF 1 <= n THEN n - 1 + 1 ELSE 0
    BY <1>3, SubSeqProperties
  <1>5. Len(SubSeq(s, 1, n)) = n
    BY <1>4
  <1> QED
    BY <1>4, <1>5, ListOfSeq

\* The last element of a list with an element in front.
LEMMA LastOfCons ==
    ASSUME NEW a, NEW s, IsList(s)
    PROVE  Last(<<a>> \o s) = IF s = << >> THEN a ELSE Last(s)
  <1>1. /\ Len(s) \in Nat /\ Len(<<a>> \o s) = Len(s) + 1
        /\ \A i \in 1 .. Len(s) + 1 : (<<a>> \o s)[i] = IF i = 1 THEN a ELSE s[i - 1]
    BY ConsList
  <1>2. Last(<<a>> \o s) = IF Len(s) + 1 = 1 THEN a ELSE s[Len(s)]
    BY <1>1 DEF Last
  <1>3. s = << >> <=> Len(s) = 0
    BY EmptySeq DEF IsList
  <1> QED
    BY <1>1, <1>2, <1>3 DEF Last

-----------------------------------------------------------------------------
(* What a step does to the number of values at hand *)

\* The functions chosen by more than one token.
Guarded == {"parse_call_expr", "parse_struct_access_expr", "parse_array_access_expr",
            "parse_assign_expr", "parse_struct_decl", "parse_var_decl"}

\* The loops that add to the vector at hand.
Loops == {"formals", "members", "elements", "indexes", "arguments"}

Special == Guarded \cup Loops \cup {"dimensions", "parse", "parse_statement"}

\* A step that chooses nothing leads from h values to k.
Leads0(step, h, k) ==
    \/ step.step \in {"expect", "consume"} /\ k = h
    \/ step.step \in {"take", "note", "push", "unassigned"} /\ k = h + 1
    \/ step.step = "make" /\ step.n \in Nat /\ step.n <= h /\ k = h - step.n + 1
    \/ step.step = "binop" /\ h >= 3 /\ k = h - 2
    \/ (step.step = "add" \/ step = AddStatement) /\ h >= 2 /\ k = h - 1
    \/ step.step = "call" /\ step.to \notin Special /\ k = h + 1
    \/ step.step = "call" /\ step.to \in Loops /\ h >= 1 /\ k = h
    \/ step.step = "call" /\ step.to = "dimensions" /\ k = h

\* So does a short list of steps.
Chain(L(_, _, _), list, h, k) ==
    \/ list = << >> /\ k = h
    \/ \E a : list = <<a>> /\ L(a, h, k)
    \/ \E a, b : list = <<a, b>> /\ \E m \in Nat : L(a, h, m) /\ L(b, m, k)
    \/ \E a, b, c : /\ list = <<a, b, c>>
                    /\ \E m, n \in Nat : L(a, h, m) /\ L(b, m, n) /\ L(c, n, k)

\* A choice between two lists; or the lookahead was to have one of these types.
Branch(L(_, _, _), step, h, k) ==
    \/ L(step, h, k)
    \/ /\ step.step \in {"if", "peek"}
       /\ Chain(L, step.yes, h, k)
       /\ \/ Chain(L, step.no, h, k)
          \/ step.step = "if" /\ \E t \in SUBSET step.types : step.no = <<Expect(t)>>

Leads1(step, h, k) == Branch(Leads0, step, h, k)
Leads2(step, h, k) == Branch(Leads1, step, h, k)
Leads(step, h, k) == Branch(Leads2, step, h, k)

\* The step at i, in a list of steps; the loop of parse_statements is a call and
\* what is done with its value.
Fits(s, i, h, k) ==
    \/ Leads(s[i], h, k)
    \/ /\ s[i] = Call("parse_statement") /\ k = h + 1
       /\ i < Len(s) /\ s[i + 1] = AddStatement

Root == Make("N_PROGRAM", 1)

\* From h values at hand, the steps of s lead to the one that is the program.
Ends(s, h) ==
    /\ IsList(s)
    /\ s # << >> => Last(s) = Root
    /\ \E lv \in [1 .. Len(s) + 1 -> Nat] :
          /\ lv[1] = h /\ lv[Len(s) + 1] = 1
          /\ \A i \in 1 .. Len(s) : Fits(s, i, lv[i], lv[i + 1])

\* No step is left when the one value is there.
LEMMA EndsEmpty ==
    \A h : Ends(<< >>, h) => h = 1
  BY DEF Ends

\* Nothing left to do ends where a program does: with one node built.
LEMMA EmptyEnds ==
    Ends(<< >>, 1)
  <1>1. IsList(<< >>) /\ Len(<< >>) = 0
    BY EmptySeq, ListOfSeq
  <1>2. PICK lv \in [1 .. 1 -> Nat] : lv = [i \in 1 .. 1 |-> 1]
    OBVIOUS
  <1>3. /\ lv \in [1 .. Len(<< >>) + 1 -> Nat] /\ lv[1] = 1 /\ lv[Len(<< >>) + 1] = 1
        /\ \A i \in 1 .. Len(<< >>) : Fits(<< >>, i, lv[i], lv[i + 1])
    BY <1>1, <1>2
  <1> QED
    BY <1>1, <1>3 DEF Ends

\* A step in front that fits.
LEMMA ConsEnds ==
    ASSUME NEW s, NEW a, NEW h \in Nat, NEW k \in Nat, Ends(s, k),
           s = << >> => a = Root,
           \/ Leads(a, h, k)
           \/ a = Call("parse_statement") /\ k = h + 1 /\ s # << >> /\ Head(s) = AddStatement
    PROVE  Ends(<<a>> \o s, h)
  <1>1. PICK lv \in [1 .. Len(s) + 1 -> Nat] :
           /\ lv[1] = k /\ lv[Len(s) + 1] = 1
           /\ \A i \in 1 .. Len(s) : Fits(s, i, lv[i], lv[i + 1])
    BY DEF Ends
  <1>2. PICK t : t = <<a>> \o s
    OBVIOUS
  <1>3. /\ IsList(s) /\ IsList(t) /\ Len(s) \in Nat /\ Len(t) = Len(s) + 1
        /\ \A i \in 1 .. Len(s) + 1 : t[i] = IF i = 1 THEN a ELSE s[i - 1]
    BY <1>2, ConsList DEF Ends
  <1>4. Last(t) = Root
    BY <1>2, LastOfCons DEF Ends
  <1>5. PICK up : up = [i \in 1 .. Len(t) + 1 |-> IF i = 1 THEN h ELSE lv[i - 1]]
    OBVIOUS
  <1>6. up \in [1 .. Len(t) + 1 -> Nat]
    BY <1>3, <1>5
  <1>7. up[1] = h /\ up[2] = k /\ up[Len(t) + 1] = 1
    BY <1>1, <1>3, <1>5
  <1>8. Fits(t, 1, up[1], up[2])
    <2>1. CASE Leads(a, h, k)
      BY <1>3, <1>7, <2>1 DEF Fits
    <2>2. CASE a = Call("parse_statement") /\ k = h + 1 /\ s # << >> /\ Head(s) = AddStatement
      <3>1. Len(s) >= 1 /\ s[1] = AddStatement
        BY <1>3, <2>2, UnconsList
      <3>2. t[1] = a /\ t[2] = s[1] /\ 1 < Len(t)
        BY <1>3, <3>1
      <3> QED
        BY <1>7, <2>2, <3>1, <3>2 DEF Fits
    <2> QED
      BY <2>1, <2>2
  <1>9. ASSUME NEW i \in 2 .. Len(t) PROVE Fits(t, i, up[i], up[i + 1])
    <2>1. i - 1 \in 1 .. Len(s) /\ i \in Nat
      BY <1>3
    <2>2. Fits(s, i - 1, lv[i - 1], lv[(i - 1) + 1])
      BY <1>1, <2>1
    <2>3. /\ t[i] = s[i - 1] /\ up[i] = lv[i - 1] /\ up[i + 1] = lv[(i - 1) + 1]
          /\ i - 1 < Len(s) => i < Len(t) /\ t[i + 1] = s[(i - 1) + 1]
      BY <1>3, <1>5, <2>1
    <2> QED
      BY <2>2, <2>3 DEF Fits
  <1>10. \A i \in 1 .. Len(t) : Fits(t, i, up[i], up[i + 1])
    <2> SUFFICES ASSUME NEW i \in 1 .. Len(t) PROVE Fits(t, i, up[i], up[i + 1])
      OBVIOUS
    <2>1. i = 1 \/ i \in 2 .. Len(t)
      BY <1>3
    <2> QED
      BY <1>8, <1>9, <2>1
  <1> QED
    BY <1>2, <1>3, <1>4, <1>6, <1>7, <1>10 DEF Ends

\* The first step, and what is left when it is done.
LEMMA UnconsEnds ==
    ASSUME NEW s, NEW h, Ends(s, h), s # << >>
    PROVE  /\ IsList(Tail(s)) /\ h \in Nat /\ s = <<Head(s)>> \o Tail(s)
           /\ Tail(s) = << >> => Head(s) = Root
           /\ \E k \in Nat :
                 /\ Ends(Tail(s), k)
                 /\ \/ Leads(Head(s), h, k)
                    \/ /\ Head(s) = Call("parse_statement") /\ k = h + 1
                       /\ Tail(s) # << >> /\ Head(Tail(s)) = AddStatement
  <1>1. PICK lv \in [1 .. Len(s) + 1 -> Nat] :
           /\ lv[1] = h /\ lv[Len(s) + 1] = 1
           /\ \A i \in 1 .. Len(s) : Fits(s, i, lv[i], lv[i + 1])
    BY DEF Ends
  <1>2. PICK t : t = Tail(s)
    OBVIOUS
  <1>3. /\ IsList(s) /\ IsList(t) /\ s = <<Head(s)>> \o t
        /\ Len(s) \in Nat /\ Len(s) >= 1 /\ Len(t) = Len(s) - 1 /\ Head(s) = s[1]
        /\ \A i \in 1 .. Len(s) - 1 : t[i] = s[i + 1]
    BY <1>2, UnconsList DEF Ends
  <1>4. Last(s) = (IF t = << >> THEN Head(s) ELSE Last(t)) /\ Last(s) = Root
    <2>1. PICK a : a = Head(s)
      OBVIOUS
    <2>2. Last(<<a>> \o t) = IF t = << >> THEN a ELSE Last(t)
      BY <1>3, LastOfCons
    <2>3. s = <<a>> \o t
      BY <1>3, <2>1
    <2> QED
      BY <2>1, <2>2, <2>3 DEF Ends
  <1>5. PICK down : down = [i \in 1 .. Len(t) + 1 |-> lv[i + 1]]
    OBVIOUS
  <1>6. /\ down \in [1 .. Len(t) + 1 -> Nat] /\ lv[2] \in Nat /\ h \in Nat
        /\ down[1] = lv[2] /\ down[Len(t) + 1] = 1
    BY <1>1, <1>3, <1>5
  <1>7. ASSUME NEW i \in 1 .. Len(t) PROVE Fits(t, i, down[i], down[i + 1])
    <2>1. i + 1 \in 1 .. Len(s) /\ i \in Nat
      BY <1>3
    <2>2. Fits(s, i + 1, lv[i + 1], lv[(i + 1) + 1])
      BY <1>1, <2>1
    <2>3. /\ t[i] = s[i + 1] /\ down[i] = lv[i + 1] /\ down[i + 1] = lv[(i + 1) + 1]
          /\ i + 1 < Len(s) => i < Len(t) /\ t[i + 1] = s[(i + 1) + 1]
      BY <1>3, <1>5, <2>1
    <2> QED
      BY <2>2, <2>3 DEF Fits
  <1>8. Ends(t, lv[2])
    BY <1>3, <1>4, <1>6, <1>7 DEF Ends
  <1>9. Fits(s, 1, h, lv[2])
    BY <1>1, <1>3
  <1>10. 1 < Len(s) => t # << >> /\ Head(t) = s[2]
    <2> SUFFICES ASSUME 1 < Len(s) PROVE t # << >> /\ Head(t) = s[2]
      OBVIOUS
    <2>1. Len(t) >= 1 /\ t[1] = s[2]
      BY <1>3
    <2>2. t # << >>
      BY <2>1
    <2> QED
      BY <1>3, <2>1, <2>2, UnconsList
  <1> QED
    BY <1>2, <1>3, <1>4, <1>6, <1>8, <1>9, <1>10 DEF Fits

-----------------------------------------------------------------------------
(* Steps put in front of others *)

\* Two elements are one in front of one.
LEMMA PairOfTwo ==
    \A a, b : <<a, b>> = <<a>> \o <<b>>
  <1> SUFFICES ASSUME NEW a, NEW b PROVE <<a, b>> = <<a>> \o <<b>>
    OBVIOUS
  <1>1. <<a>> \in Seq({a, b}) /\ b \in {a, b}
    OBVIOUS
  <1>2. Append(<<a>>, b) = <<a>> \o <<b>>
    BY <1>1, AppendIsConcat
  <1>3. PICK t, u : t = Append(<<a>>, b) /\ u = <<a, b>>
    OBVIOUS
  <1>4. t \in Seq({a, b}) /\ Len(t) = 2 /\ t[1] = a /\ t[2] = b
    BY <1>1, <1>3, AppendProperties
  <1>5. u \in Seq({a, b}) /\ Len(u) = 2 /\ u[1] = a /\ u[2] = b
    BY <1>3
  <1>6. t = u
    BY <1>4, <1>5, SeqEqual
  <1> QED
    BY <1>2, <1>3, <1>6

\* Two elements in front of a list.
LEMMA Cons2 ==
    ASSUME NEW a, NEW b, NEW s, IsList(s)
    PROVE  <<a, b>> \o s = <<a>> \o (<<b>> \o s)
  <1>1. PICK S : S = {s[x] : x \in DOMAIN s} \cup {a, b}
    OBVIOUS
  <1>2. <<a>> \in Seq(S) /\ <<b>> \in Seq(S) /\ s \in Seq(S)
    BY <1>1, SeqMonotonic DEF IsList
  <1>3. PICK t, u : t = <<a>> /\ u = <<b>>
    OBVIOUS
  <1>4. t \in Seq(S) /\ u \in Seq(S)
    BY <1>2, <1>3
  <1>5. <<a, b>> = <<a>> \o <<b>>
    BY PairOfTwo
  <1>6. (t \o u) \o s = t \o (u \o s)
    BY <1>2, <1>4, ConcatAssociative
  <1> QED
    BY <1>3, <1>5, <1>6

\* Three.
LEMMA Cons3 ==
    ASSUME NEW a, NEW b, NEW c, NEW s, IsList(s)
    PROVE  <<a, b, c>> \o s = <<a>> \o (<<b, c>> \o s)
  <1>1. PICK S : S = {s[x] : x \in DOMAIN s} \cup {a, b, c}
    OBVIOUS
  <1>2. <<a>> \in Seq(S) /\ <<b, c>> \in Seq(S) /\ s \in Seq(S)
    BY <1>1, SeqMonotonic DEF IsList
  <1>3. PICK t, u : t = <<a>> /\ u = <<b, c>>
    OBVIOUS
  <1>4. t \in Seq(S) /\ u \in Seq(S)
    BY <1>2, <1>3
  <1>5. <<a, b, c>> = <<a>> \o <<b, c>>
    OBVIOUS
  <1>6. (t \o u) \o s = t \o (u \o s)
    BY <1>2, <1>4, ConcatAssociative
  <1> QED
    BY <1>3, <1>5, <1>6

\* Four.
LEMMA Cons4 ==
    ASSUME NEW a, NEW b, NEW c, NEW d, NEW s, IsList(s)
    PROVE  <<a, b, c, d>> \o s = <<a>> \o (<<b, c, d>> \o s)
  <1>1. PICK S : S = {s[x] : x \in DOMAIN s} \cup {a, b, c, d}
    OBVIOUS
  <1>2. <<a>> \in Seq(S) /\ <<b, c, d>> \in Seq(S) /\ s \in Seq(S)
    BY <1>1, SeqMonotonic DEF IsList
  <1>3. PICK t, u : t = <<a>> /\ u = <<b, c, d>>
    OBVIOUS
  <1>4. t \in Seq(S) /\ u \in Seq(S)
    BY <1>2, <1>3
  <1>5. <<a, b, c, d>> = <<a>> \o <<b, c, d>>
    OBVIOUS
  <1>6. (t \o u) \o s = t \o (u \o s)
    BY <1>2, <1>4, ConcatAssociative
  <1> QED
    BY <1>3, <1>5, <1>6

\* Five.
LEMMA Cons5 ==
    ASSUME NEW a, NEW b, NEW c, NEW d, NEW e, NEW s, IsList(s)
    PROVE  <<a, b, c, d, e>> \o s = <<a>> \o (<<b, c, d, e>> \o s)
  <1>1. PICK S : S = {s[x] : x \in DOMAIN s} \cup {a, b, c, d, e}
    OBVIOUS
  <1>2. <<a>> \in Seq(S) /\ <<b, c, d, e>> \in Seq(S) /\ s \in Seq(S)
    BY <1>1, SeqMonotonic DEF IsList
  <1>3. PICK t, u : t = <<a>> /\ u = <<b, c, d, e>>
    OBVIOUS
  <1>4. t \in Seq(S) /\ u \in Seq(S)
    BY <1>2, <1>3
  <1>5. <<a, b, c, d, e>> = <<a>> \o <<b, c, d, e>>
    OBVIOUS
  <1>6. (t \o u) \o s = t \o (u \o s)
    BY <1>2, <1>4, ConcatAssociative
  <1> QED
    BY <1>3, <1>5, <1>6

\* A step that leads from h values to k, in front of steps that go on from k.
LEMMA Lead1 ==
    ASSUME NEW a, NEW s, s # << >>, NEW h0 \in Nat, NEW h1 \in Nat, Leads(a, h0, h1), Ends(s, h1)
    PROVE  Ends(<<a>> \o s, h0) /\ <<a>> \o s # << >>
  <1>1. IsList(s)
    BY DEF Ends
  <1> QED
    BY <1>1, ConsEnds, ConsList

\* Two such steps.
LEMMA Lead2 ==
    ASSUME NEW a, NEW b, NEW s, s # << >>, NEW h0 \in Nat, NEW h1 \in Nat, NEW h2
           \in Nat, Leads(a, h0, h1), Leads(b, h1, h2), Ends(s, h2)
    PROVE  Ends(<<a, b>> \o s, h0) /\ <<a, b>> \o s # << >>
  <1>1. IsList(s)
    BY DEF Ends
  <1>2. <<a, b>> \o s = <<a>> \o (<<b>> \o s)
    BY <1>1, Cons2, SMTT(30)
  <1>3. PICK t : t = <<b>> \o s
    OBVIOUS
  <1>4. Ends(t, h1) /\ t # << >>
    BY <1>3, Lead1
  <1>5. Ends(<<a>> \o t, h0) /\ <<a>> \o t # << >>
    BY <1>4, Lead1
  <1> QED
    BY <1>2, <1>3, <1>5

\* Three.
LEMMA Lead3 ==
    ASSUME NEW a, NEW b, NEW c, NEW s, s # << >>, NEW h0 \in Nat, NEW h1 \in Nat,
           NEW h2 \in Nat, NEW h3 \in Nat, Leads(a, h0, h1), Leads(b, h1, h2),
           Leads(c, h2, h3), Ends(s, h3)
    PROVE  Ends(<<a, b, c>> \o s, h0) /\ <<a, b, c>> \o s # << >>
  <1>1. IsList(s)
    BY DEF Ends
  <1>2. <<a, b, c>> \o s = <<a>> \o (<<b, c>> \o s)
    BY <1>1, Cons3, SMTT(30)
  <1>3. PICK t : t = <<b, c>> \o s
    OBVIOUS
  <1>4. Ends(t, h1) /\ t # << >>
    BY <1>3, Lead2
  <1>5. Ends(<<a>> \o t, h0) /\ <<a>> \o t # << >>
    BY <1>4, Lead1
  <1> QED
    BY <1>2, <1>3, <1>5

\* Four.
LEMMA Lead4 ==
    ASSUME NEW a, NEW b, NEW c, NEW d, NEW s, s # << >>, NEW h0 \in Nat, NEW h1 \in
           Nat, NEW h2 \in Nat, NEW h3 \in Nat, NEW h4 \in Nat, Leads(a, h0, h1),
           Leads(b, h1, h2), Leads(c, h2, h3), Leads(d, h3, h4), Ends(s, h4)
    PROVE  Ends(<<a, b, c, d>> \o s, h0) /\ <<a, b, c, d>> \o s # << >>
  <1>1. IsList(s)
    BY DEF Ends
  <1>2. <<a, b, c, d>> \o s = <<a>> \o (<<b, c, d>> \o s)
    BY <1>1, Cons4, SMTT(30)
  <1>3. PICK t : t = <<b, c, d>> \o s
    OBVIOUS
  <1>4. Ends(t, h1) /\ t # << >>
    BY <1>3, Lead3
  <1>5. Ends(<<a>> \o t, h0) /\ <<a>> \o t # << >>
    BY <1>4, Lead1
  <1> QED
    BY <1>2, <1>3, <1>5

\* Five.
LEMMA Lead5 ==
    ASSUME NEW a, NEW b, NEW c, NEW d, NEW e, NEW s, s # << >>, NEW h0 \in Nat, NEW
           h1 \in Nat, NEW h2 \in Nat, NEW h3 \in Nat, NEW h4 \in Nat, NEW h5 \in
           Nat, Leads(a, h0, h1), Leads(b, h1, h2), Leads(c, h2, h3), Leads(d, h3,
           h4), Leads(e, h4, h5), Ends(s, h5)
    PROVE  Ends(<<a, b, c, d, e>> \o s, h0) /\ <<a, b, c, d, e>> \o s # << >>
  <1>1. IsList(s)
    BY DEF Ends
  <1>2. <<a, b, c, d, e>> \o s = <<a>> \o (<<b, c, d, e>> \o s)
    BY <1>1, Cons5, SMTT(30)
  <1>3. PICK t : t = <<b, c, d, e>> \o s
    OBVIOUS
  <1>4. Ends(t, h1) /\ t # << >>
    BY <1>3, Lead4
  <1>5. Ends(<<a>> \o t, h0) /\ <<a>> \o t # << >>
    BY <1>4, Lead1
  <1> QED
    BY <1>2, <1>3, <1>5

\* More steps are put in front in two parts.
LEMMA TwoParts ==
    ASSUME NEW p, NEW q, NEW s, IsList(p), IsList(q), IsList(s)
    PROVE  (p \o q) \o s = p \o (q \o s)
  <1>1. PICK S : S = {p[i] : i \in DOMAIN p} \cup {q[i] : i \in DOMAIN q}
                       \cup {s[i] : i \in DOMAIN s}
    OBVIOUS
  <1>2. p \in Seq(S) /\ q \in Seq(S) /\ s \in Seq(S)
    BY <1>1, SeqMonotonic DEF IsList
  <1> QED
    BY <1>2, ConcatAssociative

\* Tuples are lists.
LEMMA ListOfThree ==
    ASSUME NEW a, NEW b, NEW c
    PROVE  IsList(<<a, b, c>>)
  <1>1. <<a, b, c>> \in Seq({a, b, c})
    OBVIOUS
  <1> QED
    BY <1>1, ListOfSeq

\* Four steps are a list.
LEMMA ListOfFour ==
    ASSUME NEW a, NEW b, NEW c, NEW d
    PROVE  IsList(<<a, b, c, d>>)
  <1>1. <<a, b, c, d>> \in Seq({a, b, c, d})
    OBVIOUS
  <1> QED
    BY <1>1, ListOfSeq

\* Five steps are a list.
LEMMA ListOfFive ==
    ASSUME NEW a, NEW b, NEW c, NEW d, NEW e
    PROVE  IsList(<<a, b, c, d, e>>)
  <1>1. <<a, b, c, d, e>> \in Seq({a, b, c, d, e})
    OBVIOUS
  <1> QED
    BY <1>1, ListOfSeq

\* Seven steps are a list.
LEMMA ListOfSeven ==
    ASSUME NEW a, NEW b, NEW c, NEW d, NEW e, NEW f, NEW g
    PROVE  IsList(<<a, b, c, d, e, f, g>>)
  <1>1. <<a, b, c, d, e, f, g>> \in Seq({a, b, c, d, e, f, g})
    OBVIOUS
  <1> QED
    BY <1>1, ListOfSeq

\* One step is a list.
LEMMA ListOfOne ==
    ASSUME NEW a
    PROVE  IsList(<<a>>)
  <1>1. <<a>> \in Seq({a})
    OBVIOUS
  <1> QED
    BY <1>1, ListOfSeq

\* Two steps are a list.
LEMMA ListOfTwo ==
    ASSUME NEW a, NEW b
    PROVE  IsList(<<a, b>>)
  <1>1. <<a, b>> \in Seq({a, b})
    OBVIOUS
  <1> QED
    BY <1>1, ListOfSeq

\* The lists of a choice in front of steps that go on.
LEMMA ChainEnds ==
    ASSUME NEW list, NEW s, s # << >>, NEW h \in Nat, NEW k \in Nat,
           Chain(Leads2, list, h, k), Ends(s, k)
    PROVE  Ends(list \o s, h) /\ list \o s # << >>
  <1>1. \A x, m, n : Leads2(x, m, n) => Leads(x, m, n)
    BY DEF Leads, Branch
  <1>2. CASE list = << >> /\ k = h
    <2>1. list \o s = s
      BY <1>2, ConcatEmptySeq DEF Ends, IsList
    <2> QED
      BY <1>2, <2>1
  <1>3. CASE \E a : list = <<a>> /\ Leads2(a, h, k)
    BY <1>1, <1>3, Lead1
  <1>4. CASE \E a, b : list = <<a, b>> /\ \E m \in Nat : Leads2(a, h, m) /\ Leads2(b, m, k)
    BY <1>1, <1>4, Lead2
  <1>5. CASE \E a, b, c :
                /\ list = <<a, b, c>>
                /\ \E m, n \in Nat : Leads2(a, h, m) /\ Leads2(b, m, n) /\ Leads2(c, n, k)
    BY <1>1, <1>5, Lead3
  <1> QED
    BY <1>2, <1>3, <1>4, <1>5 DEF Chain

-----------------------------------------------------------------------------
(* The steps *)

\* A choice leads where both of its lists lead.
LEMMA Deeper ==
    /\ \A x, h, k : Leads0(x, h, k) => Leads1(x, h, k) /\ Leads2(x, h, k) /\ Leads(x, h, k)
    /\ \A x, h, k : Leads1(x, h, k) => Leads2(x, h, k) /\ Leads(x, h, k)
    /\ \A x, h, k : Leads2(x, h, k) => Leads(x, h, k)
    /\ \A x, h, k : Chain(Leads0, x, h, k) => Chain(Leads1, x, h, k) /\ Chain(Leads2, x, h, k)
    /\ \A x, h, k : Chain(Leads1, x, h, k) => Chain(Leads2, x, h, k)
  <1>1. \A x, h, k : Leads0(x, h, k) => Leads1(x, h, k)
    BY DEF Leads1, Branch
  <1>2. \A x, h, k : Leads1(x, h, k) => Leads2(x, h, k)
    BY DEF Leads2, Branch
  <1>3. \A x, h, k : Leads2(x, h, k) => Leads(x, h, k)
    BY DEF Leads, Branch
  <1>4. \A x, h, k : Chain(Leads0, x, h, k) => Chain(Leads1, x, h, k)
    BY <1>1 DEF Chain
  <1>5. \A x, h, k : Chain(Leads1, x, h, k) => Chain(Leads2, x, h, k)
    BY <1>2 DEF Chain
  <1> QED
    BY <1>1, <1>2, <1>3, <1>4, <1>5

\* What the steps other than choices do to the number of values: reading a token,
LEMMA ExpectLeads ==
    ASSUME NEW t, NEW h
    PROVE  Leads0(Expect(t), h, h)
  BY DEF Leads0, Expect

\* or passing it;
LEMMA ConsumeLeads ==
    ASSUME NEW h
    PROVE  Leads0(Consume, h, h)
  BY DEF Leads0, Consume

\* keeping what it says;
LEMMA TakeLeads ==
    ASSUME NEW t, NEW w, NEW h \in Nat, NEW k \in Nat, k = h + 1
    PROVE  Leads0(Take(t, w), h, k)
  BY DEF Leads0, Take

\* without passing it;
LEMMA NoteLeads ==
    ASSUME NEW t, NEW w, NEW h \in Nat, NEW k \in Nat, k = h + 1
    PROVE  Leads0(Note(t, w), h, k)
  BY DEF Leads0, Note

\* keeping a value;
LEMMA PushLeads ==
    ASSUME NEW v, NEW h \in Nat, NEW k \in Nat, k = h + 1
    PROVE  Leads0(Push(v), h, k)
  BY DEF Leads0, Push

\* or a variable that has none;
LEMMA UnassignedLeads ==
    ASSUME NEW h \in Nat, NEW k \in Nat, k = h + 1
    PROVE  Leads0(Unassigned, h, k)
  BY DEF Leads0, Unassigned

\* making a node;
LEMMA MakeLeads ==
    ASSUME NEW t, NEW h \in Nat, NEW k \in Nat, NEW n \in Nat, n <= h, k = h - n + 1
    PROVE  Leads0(Make(t, n), h, k)
  BY DEF Leads0, Make

\* or one of an operator;
LEMMA BinopLeads ==
    ASSUME NEW h \in Nat, NEW k \in Nat, h >= 3, k = h - 2
    PROVE  Leads0(MakeBinop, h, k)
  BY DEF Leads0, MakeBinop

\* adding to the vector;
LEMMA AddLeads ==
    ASSUME NEW c, NEW h \in Nat, NEW k \in Nat, h >= 2, k = h - 1
    PROVE  Leads0(AddNode(c), h, k)
  BY DEF Leads0, AddNode

\* adding a statement to it;
LEMMA StatementLeads ==
    ASSUME NEW h \in Nat, NEW k \in Nat, h >= 2, k = h - 1
    PROVE  Leads0(AddStatement, h, k)
  BY DEF Leads0, AddStatement

\* calling a function,
LEMMA CallLeads ==
    ASSUME NEW f, f \notin Special, NEW h \in Nat, NEW k \in Nat, k = h + 1
    PROVE  Leads0(Call(f), h, k)
  BY DEF Leads0, Call

\* a loop that adds to the vector,
LEMMA LoopLeads ==
    ASSUME NEW f \in Loops, NEW h \in Nat, h >= 1
    PROVE  Leads0(Call(f), h, h)
  BY DEF Leads0, Call

\* or the loop over brackets.
LEMMA DimensionsLead ==
    ASSUME NEW h
    PROVE  Leads0(Call("dimensions"), h, h)
  BY DEF Leads0, Call

\* What is known of the first step from its kind.
LEMMA StepsLead ==
    ASSUME NEW x, NEW h \in Nat, NEW k \in Nat, Leads(x, h, k)
    PROVE  /\ x.step # "backup"
           /\ x.step \in {"expect", "consume"} => k = h
           /\ x.step \in {"take", "note", "push", "unassigned"} => k = h + 1
           /\ x.step = "make" => x.n \in Nat /\ x.n <= h /\ k = h - x.n + 1
           /\ x.step = "binop" => h >= 3 /\ k = h - 2
           /\ x.step \in {"add", "statement"} => h >= 2 /\ k = h - 1
           /\ x.step = "statement" => x = AddStatement
           /\ x.step = "call" =>
                 \/ x.to \notin Special /\ k = h + 1
                 \/ x.to \in Loops /\ h >= 1 /\ k = h
                 \/ x.to = "dimensions" /\ k = h
           /\ x.step \in {"if", "peek"} =>
                 /\ Chain(Leads2, x.yes, h, k)
                 /\ \/ Chain(Leads2, x.no, h, k)
                    \/ x.step = "if" /\ \E t \in SUBSET x.types : x.no = <<Expect(t)>>
  <1>1. CASE Leads0(x, h, k)
    BY <1>1 DEF Leads0, AddStatement
  <1>2. CASE /\ x.step \in {"if", "peek"}
             /\ Chain(Leads2, x.yes, h, k)
             /\ \/ Chain(Leads2, x.no, h, k)
                \/ x.step = "if" /\ \E t \in SUBSET x.types : x.no = <<Expect(t)>>
    BY <1>2
  <1>3. CASE /\ x.step \in {"if", "peek"}
             /\ Chain(Leads1, x.yes, h, k)
             /\ \/ Chain(Leads1, x.no, h, k)
                \/ x.step = "if" /\ \E t \in SUBSET x.types : x.no = <<Expect(t)>>
    BY <1>2, <1>3, Deeper
  <1>4. CASE /\ x.step \in {"if", "peek"}
             /\ Chain(Leads0, x.yes, h, k)
             /\ \/ Chain(Leads0, x.no, h, k)
                \/ x.step = "if" /\ \E t \in SUBSET x.types : x.no = <<Expect(t)>>
    BY <1>2, <1>4, Deeper
  <1> QED
    BY <1>1, <1>2, <1>3, <1>4 DEF Leads, Leads2, Leads1, Branch

-----------------------------------------------------------------------------
(* The inductive invariant *)

\* The list of tokens ends with T_EOF.
Listed ==
    /\ Len(tokens) \in Nat /\ Len(tokens) >= 1
    /\ tokens[Len(tokens)].type = "T_EOF"
    /\ DOMAIN tokens = 1 .. Len(tokens)

\* The token at i is there, and has one of these types.
Is(i, types) == i \in 1 .. Len(tokens) /\ tokens[i].type \in types

\* The tokens from i on are those f was chosen by.
Foreseen(f, i) ==
    \/ f = "parse_call_expr" /\ Is(i, {"T_IDENT"}) /\ Is(i + 1, {"T_LPAREN"})
    \/ /\ f = "parse_struct_access_expr"
       /\ Is(i, {"T_IDENT"}) /\ Is(i + 1, {"T_DOT"}) /\ Is(i + 2, {"T_IDENT"})
    \/ f = "parse_array_access_expr" /\ Is(i, {"T_IDENT"}) /\ Is(i + 1, {"T_LBRACKET"})
    \/ f = "parse_assign_expr" /\ Is(i, {"T_IDENT"}) /\ Is(i + 1, {"T_ASSIGN", "T_LBRACKET"})
    \/ /\ f = "parse_assign_expr"
       /\ Is(i, {"T_IDENT"}) /\ Is(i + 1, {"T_DOT"}) /\ Is(i + 2, {"T_IDENT"})
       /\ Is(i + 3, {"T_ASSIGN"})
    \/ f = "parse_assign_expr" /\ Is(i, {"T_ASSIGN"})
    \/ /\ f = "parse_struct_decl"
       /\ Is(i, {"T_STRUCT"}) /\ Is(i + 1, {"T_IDENT"}) /\ Is(i + 2, {"T_THEN"})
    \/ f = "parse_var_decl" /\ Is(i, PrimitiveTypes)
    \/ /\ f = "parse_var_decl"
       /\ Is(i, {"T_STRUCT"}) /\ Is(i + 1, {"T_IDENT"}) /\ Is(i + 2, {"T_IDENT"})

\* The choices that are made after reading ahead: in a declaration with struct, and
\* of what begins with a name and ".".
StructIf == IfNext({"T_THEN"}, <<Backup, Call("parse_struct_decl")>>, <<Expect({})>>)
VarIf == IfNext({"T_IDENT"}, <<Backup, Call("parse_var_decl")>>, <<StructIf>>)
AccessIf == IfNext({"T_ASSIGN"}, <<Backup, Backup, Call("parse_assign_expr")>>,
                                 <<Backup, Backup, Call("parse_struct_access_expr")>>)
DotIf == IfNext({"T_IDENT"}, <<Consume, AccessIf>>, <<Unassigned>>)

\* The steps cs are about to choose among the guarded functions, or to call the one
\* chosen, and go on with s; the tokens around i are those they have seen.
Ahead(cs, s, i) ==
    \/ \E f \in Guarded :
          \/ cs = <<Call(f)>> \o s /\ Foreseen(f, i)
          \/ cs = <<Backup>> \o (<<Call(f)>> \o s) /\ Foreseen(f, i - 1)
          \/ cs = <<Backup>> \o (<<Backup>> \o (<<Call(f)>> \o s)) /\ Foreseen(f, i - 2)
    \/ /\ cs = <<Consume>> \o (<<VarIf>> \o s)
       /\ Is(i, {"T_STRUCT"}) /\ Is(i + 1, {"T_IDENT"})
    \/ /\ cs \in {<<VarIf>> \o s, <<StructIf>> \o s}
       /\ Is(i - 1, {"T_STRUCT"}) /\ Is(i, {"T_IDENT"})
    \/ /\ cs = <<Consume>> \o (<<DotIf>> \o s)
       /\ Is(i, {"T_IDENT"}) /\ Is(i + 1, {"T_DOT"})
    \/ /\ cs = <<DotIf>> \o s
       /\ Is(i - 1, {"T_IDENT"}) /\ Is(i, {"T_DOT"})
    \/ /\ cs = <<Consume>> \o (<<AccessIf>> \o s)
       /\ Is(i - 1, {"T_IDENT"}) /\ Is(i, {"T_DOT"}) /\ Is(i + 1, {"T_IDENT"})
    \/ /\ cs = <<AccessIf>> \o s
       /\ Is(i - 2, {"T_IDENT"}) /\ Is(i - 1, {"T_DOT"}) /\ Is(i, {"T_IDENT"})

\* The parser is about to start; or its steps lead to the program, after those that
\* look ahead, if any, have left a value; or the lookahead is refused next.
Going(cs, b, i) ==
    \/ cs = <<Call("parse")>> /\ b = << >>
    \/ Ends(cs, Len(b)) /\ (cs = << >> => Last(b).node = "N_PROGRAM")
    \/ \E s : s # << >> /\ Ends(s, Len(b) + 1) /\ Ahead(cs, s, i)
    \/ cs # << >> /\ Head(cs).step = "expect" /\ tokens[i].type \notin Head(cs).types

ParseInv ==
    /\ Listed
    /\ cursor \in 1 .. Len(tokens)
    /\ wild \in BOOLEAN
    /\ status \in {"running", "done", "syntax_error", "log_error", "abort", "crash"}
    /\ status = "running" => IsList(calls) /\ IsList(built) /\ Going(calls, built, cursor)
    /\ status = "done" => Len(built) = 1 /\ program.node = "N_PROGRAM"

-----------------------------------------------------------------------------
(* What the first step says of the others *)

\* The first of the steps that look ahead is one of these.
LEMMA AheadFirst ==
    ASSUME NEW cs, NEW s, NEW i, IsList(s), Ahead(cs, s, i)
    PROVE  /\ cs # << >>
           /\ \/ \E f \in Guarded : Head(cs) = Call(f) /\ Tail(cs) = s /\ Foreseen(f, i)
              \/ Head(cs) \in {Backup, Consume, VarIf, StructIf, DotIf, AccessIf}
  <1>1. \A a : /\ <<a>> \o s # << >> /\ IsList(<<a>> \o s)
               /\ Head(<<a>> \o s) = a /\ Tail(<<a>> \o s) = s
    BY ConsList
  <1>2. \A a, b : <<b>> \o (<<a>> \o s) # << >> /\ Head(<<b>> \o (<<a>> \o s)) = b
                  /\ IsList(<<b>> \o (<<a>> \o s))
    BY <1>1, ConsList
  <1>3. \A a, b, e : /\ <<e>> \o (<<b>> \o (<<a>> \o s)) # << >>
                     /\ Head(<<e>> \o (<<b>> \o (<<a>> \o s))) = e
    BY <1>2, ConsList
  <1>4. ASSUME NEW a \in {VarIf, StructIf, DotIf, AccessIf}, cs = <<a>> \o s
        PROVE  cs # << >> /\ Head(cs) \in {Backup, Consume, VarIf, StructIf, DotIf, AccessIf}
    BY <1>1, <1>4
  <1>5. ASSUME NEW a, cs = <<Consume>> \o (<<a>> \o s)
        PROVE  cs # << >> /\ Head(cs) \in {Backup, Consume, VarIf, StructIf, DotIf, AccessIf}
    BY <1>2, <1>5
  <1>6. ASSUME NEW f \in Guarded,
               \/ cs = <<Backup>> \o (<<Call(f)>> \o s)
               \/ cs = <<Backup>> \o (<<Backup>> \o (<<Call(f)>> \o s))
        PROVE  cs # << >> /\ Head(cs) \in {Backup, Consume, VarIf, StructIf, DotIf, AccessIf}
    BY <1>2, <1>3, <1>6
  <1>7. ASSUME NEW f \in Guarded, cs = <<Call(f)>> \o s, Foreseen(f, i)
        PROVE  /\ cs # << >>
               /\ \E g \in Guarded : Head(cs) = Call(g) /\ Tail(cs) = s /\ Foreseen(g, i)
    BY <1>1, <1>7
  <1> QED
    BY <1>4, <1>5, <1>6, <1>7 DEF Ahead

\* The kinds of steps.
LEMMA Kinds ==
    /\ \A f : Call(f).step = "call" /\ Call(f).to = f
    /\ Backup.step = "backup" /\ Consume.step = "consume"
    /\ VarIf.step = "peek" /\ StructIf.step = "peek"
    /\ DotIf.step = "peek" /\ AccessIf.step = "peek"
    /\ Root.step = "make" /\ AddStatement.step = "statement"
  BY DEF Call, Backup, Consume, VarIf, StructIf, DotIf, AccessIf, Root, IfNext, Make, AddStatement

\* A step that is no call leads to the rest, or looks ahead, or refuses the lookahead.
LEMMA FirstStep ==
    ASSUME ParseInv, status = "running", calls # << >>, Head(calls).step # "call"
    PROVE  /\ IsList(calls) /\ IsList(built) /\ Len(built) \in Nat /\ IsList(Tail(calls))
           /\ \/ /\ Tail(calls) = << >> => Head(calls) = Root
                 /\ \E k \in Nat : Leads(Head(calls), Len(built), k) /\ Ends(Tail(calls), k)
              \/ /\ Head(calls) \in {Backup, Consume, VarIf, StructIf, DotIf, AccessIf}
                 /\ \E s : s # << >> /\ Ends(s, Len(built) + 1) /\ Ahead(calls, s, cursor)
              \/ Head(calls).step = "expect" /\ lookahead.type \notin Head(calls).types
  <1>1. IsList(calls) /\ IsList(built) /\ Going(calls, built, cursor)
    BY DEF ParseInv
  <1>2. IsList(Tail(calls)) /\ Len(built) \in Nat
    <2>1. Len(built) \in Nat
      BY <1>1 DEF IsList
    <2> QED
      BY <1>1, <2>1, UnconsList
  <1>3. calls # <<Call("parse")>>
    BY Kinds
  <1>4. ASSUME NEW s, Ends(s, Len(built) + 1), Ahead(calls, s, cursor)
        PROVE  Head(calls) \in {Backup, Consume, VarIf, StructIf, DotIf, AccessIf}
    <2>1. IsList(s)
      BY <1>4 DEF Ends
    <2> QED
      BY <1>4, <2>1, AheadFirst, Kinds
  <1>5. CASE Ends(calls, Len(built))
    BY <1>1, <1>2, <1>5, UnconsEnds, Kinds
  <1>6. CASE \E s : s # << >> /\ Ends(s, Len(built) + 1) /\ Ahead(calls, s, cursor)
    BY <1>1, <1>2, <1>4, <1>6
  <1>7. CASE Head(calls).step = "expect" /\ tokens[cursor].type \notin Head(calls).types
    BY <1>1, <1>2, <1>7 DEF lookahead
  <1> QED
    BY <1>1, <1>3, <1>5, <1>6, <1>7 DEF Going

\* A step that neither looks ahead nor refuses the lookahead leads to the rest.
LEMMA PlainStep ==
    ASSUME ParseInv, NEW kind \in {"expect", "take", "note", "push", "unassigned", "make",
                                   "binop", "add", "statement", "if"}, At(kind),
           kind = "expect" => lookahead.type \in Head(calls).types
    PROVE  /\ status = "running" /\ calls # << >> /\ Head(calls).step = kind
           /\ IsList(calls) /\ IsList(built) /\ Len(built) \in Nat /\ IsList(Tail(calls))
           /\ Tail(calls) = << >> => Head(calls) = Root
           /\ \E k \in Nat : Leads(Head(calls), Len(built), k) /\ Ends(Tail(calls), k)
  <1>1. status = "running" /\ calls # << >> /\ Head(calls).step = kind
    BY DEF At
  <1>2. Head(calls) \notin {Backup, Consume, VarIf, StructIf, DotIf, AccessIf}
    BY <1>1, Kinds
  <1> QED
    BY <1>1, <1>2, FirstStep

\* What is known where function f is called.
LEMMA Entered ==
    ASSUME ParseInv, NEW f, Called(f)
    PROVE  /\ status = "running" /\ IsList(calls) /\ IsList(built) /\ Len(built) \in Nat
           /\ IsList(Tail(calls))
           /\ f \notin Loops \cup {"dimensions", "parse"} =>
                 Tail(calls) # << >> /\ Ends(Tail(calls), Len(built) + 1)
           /\ f \in Guarded => Foreseen(f, cursor)
           /\ f \in Loops =>
                 Tail(calls) # << >> /\ Ends(Tail(calls), Len(built)) /\ Len(built) >= 1
           /\ f = "dimensions" => Tail(calls) # << >> /\ Ends(Tail(calls), Len(built))
           /\ f = "parse" => Tail(calls) = << >> /\ built = << >>
           /\ f = "parse_statement" => Head(Tail(calls)) = AddStatement
  <1>1. /\ status = "running" /\ calls # << >> /\ Head(calls).step = "call" /\ Head(calls).to = f
        /\ IsList(calls) /\ IsList(built) /\ Len(built) \in Nat /\ Going(calls, built, cursor)
        /\ IsList(Tail(calls))
    <2>1. /\ status = "running" /\ calls # << >> /\ Head(calls).step = "call"
          /\ Head(calls).to = f
      BY DEF Called, At
    <2>2. IsList(calls) /\ IsList(built) /\ Going(calls, built, cursor)
      BY <2>1 DEF ParseInv
    <2>3. Len(built) \in Nat
      BY <2>2 DEF IsList
    <2> QED
      BY <2>1, <2>2, <2>3, UnconsList
  <1>2. CASE calls = <<Call("parse")>> /\ built = << >>
    <2>1. Head(calls) = Call("parse") /\ Tail(calls) = << >>
      BY <1>2
    <2>2. f = "parse"
      BY <1>1, <2>1, Kinds
    <2> QED
      BY <1>1, <1>2, <2>1, <2>2 DEF Guarded, Loops
  <1>3. CASE Ends(calls, Len(built))
    <2>1. PICK k \in Nat :
             /\ Ends(Tail(calls), k)
             /\ \/ Leads(Head(calls), Len(built), k)
                \/ /\ Head(calls) = Call("parse_statement") /\ k = Len(built) + 1
                   /\ Tail(calls) # << >> /\ Head(Tail(calls)) = AddStatement
      BY <1>1, <1>3, UnconsEnds
    <2>2. Tail(calls) # << >>
      BY <1>1, <1>3, UnconsEnds, Kinds
    <2>3. CASE Leads(Head(calls), Len(built), k)
      <3>1. \/ f \notin Special /\ k = Len(built) + 1
            \/ f \in Loops /\ Len(built) >= 1 /\ k = Len(built)
            \/ f = "dimensions" /\ k = Len(built)
        BY <1>1, <2>3, StepsLead
      <3> QED
        BY <1>1, <2>1, <2>2, <3>1 DEF Special, Guarded, Loops
    <2>4. CASE /\ Head(calls) = Call("parse_statement") /\ k = Len(built) + 1
               /\ Tail(calls) # << >> /\ Head(Tail(calls)) = AddStatement
      <3>1. f = "parse_statement"
        BY <1>1, <2>4, Kinds
      <3> QED
        BY <1>1, <2>1, <2>4, <3>1 DEF Guarded, Loops
    <2> QED
      BY <2>1, <2>3, <2>4
  <1>4. ASSUME NEW s, s # << >>, Ends(s, Len(built) + 1), Ahead(calls, s, cursor)
        PROVE  f \in Guarded /\ Tail(calls) = s /\ Foreseen(f, cursor)
    <2>1. IsList(s)
      BY <1>4 DEF Ends
    <2> QED
      BY <1>1, <1>4, <2>1, AheadFirst, Kinds
  <1>5. CASE \E s : s # << >> /\ Ends(s, Len(built) + 1) /\ Ahead(calls, s, cursor)
    BY <1>1, <1>4, <1>5 DEF Guarded, Loops
  <1> QED
    BY <1>1, <1>2, <1>3, <1>5 DEF Going

-----------------------------------------------------------------------------
(* What keeps the invariant *)

\* The process ends.
LEMMA Stopped ==
    ASSUME ParseInv, NEW outcome \in {"syntax_error", "log_error", "abort", "crash"}, Stop(outcome)
    PROVE  ParseInv'
  BY DEF ParseInv, Stop, Listed

\* The parser goes on.
LEMMA GoesOn ==
    ASSUME ParseInv, UNCHANGED tokens, wild' \in BOOLEAN, status' = "running",
           cursor' \in 1 .. Len(tokens), IsList(calls'), IsList(built'),
           Going(calls', built', cursor')
    PROVE  ParseInv'
  <1>1. \A i, types : Is(i, types)' <=> Is(i, types)
    BY DEF Is
  <1>2. \A f, i : Foreseen(f, i)' <=> Foreseen(f, i)
    BY <1>1 DEF Foreseen
  <1>3. ASSUME NEW cs, NEW s, NEW i, Ahead(cs, s, i) PROVE Ahead(cs, s, i)'
    BY <1>1, <1>2, <1>3 DEF Ahead
  <1>4. PICK cs, b, i : cs = calls' /\ b = built' /\ i = cursor'
    OBVIOUS
  <1>5. Going(cs, b, i)'
    BY <1>3, <1>4 DEF Going
  <1>6. Going(calls, built, cursor)'
    BY <1>4, <1>5 DEF Going
  <1>7. IsList(calls)' /\ IsList(built)'
    BY DEF IsList
  <1> QED
    BY <1>6, <1>7 DEF ParseInv, Listed

\* A function is replaced by steps that lead on.
LEMMA Replaced ==
    ASSUME ParseInv, status = "running", NEW steps, Run(steps), NEW h, h = Len(built),
           Ends(steps \o Tail(calls), h), steps \o Tail(calls) # << >>
    PROVE  ParseInv'
  <1>1. /\ calls' = steps \o Tail(calls)
        /\ UNCHANGED <<tokens, cursor, built, wild, status>>
    BY DEF Run
  <1>2. IsList(built) /\ IsList(calls') /\ cursor' \in 1 .. Len(tokens) /\ wild' \in BOOLEAN
    BY <1>1 DEF ParseInv, Ends
  <1>3. Going(calls', built', cursor')
    BY <1>1 DEF Going
  <1> QED
    BY <1>1, <1>2, <1>3, GoesOn

\* A function is replaced by steps that look ahead.
LEMMA Foretold ==
    ASSUME ParseInv, status = "running", NEW steps, Run(steps), NEW s, s # << >>,
           Ends(s, Len(built) + 1), IsList(steps \o Tail(calls)),
           Ahead(steps \o Tail(calls), s, cursor)
    PROVE  ParseInv'
  <1>1. /\ calls' = steps \o Tail(calls)
        /\ UNCHANGED <<tokens, cursor, built, wild, status>>
    BY DEF Run
  <1>2. IsList(built) /\ IsList(calls') /\ cursor' \in 1 .. Len(tokens) /\ wild' \in BOOLEAN
    BY <1>1 DEF ParseInv
  <1>3. Going(calls', built', cursor')
    BY <1>1 DEF Going
  <1> QED
    BY <1>1, <1>2, <1>3, GoesOn

\* A function that returns a node, and one of the loops.
LEMMA Body ==
    ASSUME ParseInv, NEW f, f \notin Loops \cup {"dimensions", "parse"},
           NEW steps, Enters(f, steps),
           \A s : \A h \in Nat :
              s # << >> /\ Ends(s, h + 1) => Ends(steps \o s, h) /\ steps \o s # << >>
    PROVE  ParseInv'
  <1>1. Called(f) /\ Run(steps)
    BY DEF Enters
  <1>2. /\ status = "running" /\ Len(built) \in Nat
        /\ Tail(calls) # << >> /\ Ends(Tail(calls), Len(built) + 1)
    BY <1>1, Entered
  <1> QED
    BY <1>1, <1>2, Replaced

\* The same for a loop, whose steps leave as many nodes as they found.
LEMMA LoopBody ==
    ASSUME ParseInv, NEW f \in Loops, NEW steps, Enters(f, steps),
           \A s : \A h \in Nat :
              s # << >> /\ Ends(s, h + 1) => Ends(steps \o s, h + 1) /\ steps \o s # << >>
    PROVE  ParseInv'
  <1>1. Called(f) /\ Run(steps)
    BY DEF Enters
  <1>2. /\ status = "running" /\ Len(built) \in Nat /\ Len(built) >= 1
        /\ Tail(calls) # << >> /\ Ends(Tail(calls), Len(built))
    BY <1>1, Entered
  <1>3. PICK h \in Nat : h + 1 = Len(built)
    <2>1. Len(built) - 1 \in Nat /\ (Len(built) - 1) + 1 = Len(built)
      BY <1>2
    <2> QED
      BY <2>1
  <1> QED
    BY <1>1, <1>2, <1>3, Replaced

-----------------------------------------------------------------------------
(* Choices *)

\* A list of simple steps.
Chain0(list, h, k) == Chain(Leads0, list, h, k)

\* A list that holds choices between such lists.
Chain1(list, h, k) == Chain(Leads1, list, h, k)

\* A list that holds choices between those.
Chain2(list, h, k) == Chain(Leads2, list, h, k)

\* A choice between lists of simple steps.
LEMMA Choice0 ==
    ASSUME NEW types, NEW yes, NEW no, NEW h, NEW k, Chain0(yes, h, k),
           Chain0(no, h, k) \/ no = <<Expect(types)>>
    PROVE  /\ Leads1(If(types, yes, no), h, k)
           /\ Chain0(no, h, k) => Leads1(IfNext(types, yes, no), h, k)
  BY DEF Leads1, Branch, Chain0, If, IfNext

\* An empty list of simple steps, and lists of one to three.
LEMMA ListOf00 ==
    \A h : Chain0(<< >>, h, h)
  BY DEF Chain0, Chain

\* One simple step.
LEMMA ListOf10 ==
    ASSUME NEW a, NEW h, NEW k, Leads0(a, h, k)
    PROVE  Chain0(<<a>>, h, k)
  BY DEF Chain0, Chain

\* Two simple steps in a row.
LEMMA ListOf20 ==
    ASSUME NEW a, NEW b, NEW h, NEW k, NEW m \in Nat, Leads0(a, h, m), Leads0(b, m, k)
    PROVE  Chain0(<<a, b>>, h, k)
  BY DEF Chain0, Chain

\* Three simple steps in a row.
LEMMA ListOf30 ==
    ASSUME NEW a, NEW b, NEW e, NEW h, NEW k, NEW m \in Nat, NEW n \in Nat,
           Leads0(a, h, m), Leads0(b, m, n), Leads0(e, n, k)
    PROVE  Chain0(<<a, b, e>>, h, k)
  BY DEF Chain0, Chain

\* A choice between lists that hold such choices.
LEMMA Choice1 ==
    ASSUME NEW types, NEW yes, NEW no, NEW h, NEW k, Chain1(yes, h, k),
           Chain1(no, h, k) \/ no = <<Expect(types)>>
    PROVE  /\ Leads2(If(types, yes, no), h, k)
           /\ Chain1(no, h, k) => Leads2(IfNext(types, yes, no), h, k)
  BY DEF Leads2, Branch, Chain1, If, IfNext

\* An empty list of such choices, and lists of one to three.
LEMMA ListOf01 ==
    \A h : Chain1(<< >>, h, h)
  BY DEF Chain1, Chain

\* One choice.
LEMMA ListOf11 ==
    ASSUME NEW a, NEW h, NEW k, Leads1(a, h, k)
    PROVE  Chain1(<<a>>, h, k)
  BY DEF Chain1, Chain

\* Two choices in a row.
LEMMA ListOf21 ==
    ASSUME NEW a, NEW b, NEW h, NEW k, NEW m \in Nat, Leads1(a, h, m), Leads1(b, m, k)
    PROVE  Chain1(<<a, b>>, h, k)
  BY DEF Chain1, Chain

\* Three choices in a row.
LEMMA ListOf31 ==
    ASSUME NEW a, NEW b, NEW e, NEW h, NEW k, NEW m \in Nat, NEW n \in Nat,
           Leads1(a, h, m), Leads1(b, m, n), Leads1(e, n, k)
    PROVE  Chain1(<<a, b, e>>, h, k)
  BY DEF Chain1, Chain

\* And one more.
LEMMA Choice2 ==
    ASSUME NEW types, NEW yes, NEW no, NEW h, NEW k, Chain2(yes, h, k),
           Chain2(no, h, k) \/ no = <<Expect(types)>>
    PROVE  /\ Leads(If(types, yes, no), h, k)
           /\ Chain2(no, h, k) => Leads(IfNext(types, yes, no), h, k)
  BY DEF Leads, Branch, Chain2, If, IfNext

\* One choice of choices.
LEMMA ListOf12 ==
    ASSUME NEW a, NEW h, NEW k, Leads2(a, h, k)
    PROVE  Chain2(<<a>>, h, k)
  BY DEF Chain2, Chain

\* Three of them in a row.
LEMMA ListOf32 ==
    ASSUME NEW a, NEW b, NEW e, NEW h, NEW k, NEW m \in Nat, NEW n \in Nat,
           Leads2(a, h, m), Leads2(b, m, n), Leads2(e, n, k)
    PROVE  Chain2(<<a, b, e>>, h, k)
  BY DEF Chain2, Chain

-----------------------------------------------------------------------------
(* The functions, one by one: their steps leave the node they return.  The names of
   the steps are those of the definition, in order. *)

\* A block.
LEMMA parse_block_stmtKept ==
    ASSUME ParseInv, parse_block_stmt
    PROVE  ParseInv'
  <1>1. PICK a, b, c :
           /\ a = Expect({"T_THEN"})
           /\ b = Call("parse_statements")
           /\ c = Make("N_BLOCK_STMT", 1)
    OBVIOUS
  <1>2. ASSUME NEW s, NEW h \in Nat, s # << >>, Ends(s, h + 1)
        PROVE  Ends(<<a, b, c>> \o s, h) /\ <<a, b, c>> \o s # << >>
    <2>1. PICK h1 \in Nat : h1 = h + 1
      BY <1>2
    <2>2. h1 = h + 1 /\ 1 <= h1 /\ h1 = h1 - 1 + 1
      BY <2>1
    <2>3. Leads0(Make("N_BLOCK_STMT", 1), h1, h1)
      BY <2>2, MakeLeads
    <2>4. /\ Leads0(Expect({"T_THEN"}), h, h)
          /\ Leads0(Call("parse_statements"), h, h1)
      BY <2>2, ExpectLeads, CallLeads DEF Special, Guarded, Loops
    <2>5. /\ Leads(a, h, h)
          /\ Leads(b, h, h1)
          /\ Leads(c, h1, h1)
      BY <1>1, <2>3, <2>4, Deeper
    <2> QED
      BY <1>2, <2>1, <2>5, Lead3
  <1>3. Enters("parse_block_stmt", <<a, b, c>>)
    BY <1>1 DEF parse_block_stmt
  <1> QED
    BY <1>2, <1>3, Body DEF Loops

\* while.
LEMMA parse_while_stmtKept ==
    ASSUME ParseInv, parse_while_stmt
    PROVE  ParseInv'
  <1>1. PICK a, b, c, d, e, f, g :
           /\ a = Expect({"T_WHILE"})
           /\ b = Expect({"T_LPAREN"})
           /\ c = Call("parse_expression")
           /\ d = Expect({"T_RPAREN"})
           /\ e = Call("parse_block_stmt")
           /\ f = Expect({"T_END"})
           /\ g = Make("N_WHILE_STMT", 2)
    OBVIOUS
  <1>2. ASSUME NEW s, NEW h \in Nat, s # << >>, Ends(s, h + 1)
        PROVE  Ends(<<a, b, c, d, e, f, g>> \o s, h) /\ <<a, b, c, d, e, f, g>> \o s # << >>
    <2>1. PICK h1, h2 \in Nat : h1 = h + 1 /\ h2 = h + 2
      BY <1>2
    <2>2. h1 = h + 1 /\ h2 = h1 + 1 /\ 2 <= h2 /\ h1 = h2 - 2 + 1
      BY <2>1
    <2>3. Leads0(Make("N_WHILE_STMT", 2), h2, h1)
      BY <2>2, MakeLeads
    <2>4. /\ Leads0(Expect({"T_WHILE"}), h, h)
          /\ Leads0(Expect({"T_LPAREN"}), h, h)
          /\ Leads0(Call("parse_expression"), h, h1)
          /\ Leads0(Expect({"T_RPAREN"}), h1, h1)
          /\ Leads0(Call("parse_block_stmt"), h1, h2)
          /\ Leads0(Expect({"T_END"}), h2, h2)
      BY <2>2, ExpectLeads, CallLeads DEF Special, Guarded, Loops
    <2>5. /\ Leads(a, h, h)
          /\ Leads(b, h, h)
          /\ Leads(c, h, h1)
          /\ Leads(d, h1, h1)
          /\ Leads(e, h1, h2)
          /\ Leads(f, h2, h2)
          /\ Leads(g, h2, h1)
      BY <1>1, <2>3, <2>4, Deeper
    <2>6. PICK p, q, t : p = <<a, b, c, d>> /\ q = <<e, f, g>> /\ t = q \o s
      OBVIOUS
    <2>7. Ends(t, h1) /\ t # << >>
      BY <1>2, <2>1, <2>5, <2>6, Lead3
    <2>8. Ends(p \o t, h) /\ p \o t # << >>
      BY <1>2, <2>1, <2>5, <2>6, <2>7, Lead4
    <2>9. (p \o q) \o s = p \o t
      <3>1. IsList(p) /\ IsList(q) /\ IsList(s)
        BY <1>2, <2>6, ListOfFour, ListOfThree DEF Ends
      <3> QED
        BY <2>6, <3>1, TwoParts
    <2>10. <<a, b, c, d, e, f, g>> = p \o q
      BY <2>6
    <2> QED
      BY <2>1, <2>8, <2>9, <2>10
  <1>3. Enters("parse_while_stmt", <<a, b, c, d, e, f, g>>)
    BY <1>1 DEF parse_while_stmt
  <1> QED
    BY <1>2, <1>3, Body DEF Loops

\* if, with else or without: either leaves a third value for the node.
LEMMA parse_if_stmtKept ==
    ASSUME ParseInv, parse_if_stmt
    PROVE  ParseInv'
  <1>1. PICK a, b, c, d, e, f, g :
           /\ a = Expect({"T_IF"})
           /\ b = Expect({"T_LPAREN"})
           /\ c = Call("parse_expression")
           /\ d = Expect({"T_RPAREN"})
           /\ e = Call("parse_block_stmt")
           /\ f = If({"T_END"}, <<Push(NULL), Consume>>, <<Expect({"T_ELSE"}),
                  Call("parse_block_stmt"), Expect({"T_END"})>>)
           /\ g = Make("N_IF_STMT", 3)
    OBVIOUS
  <1>2. ASSUME NEW s, NEW h \in Nat, s # << >>, Ends(s, h + 1)
        PROVE  Ends(<<a, b, c, d, e, f, g>> \o s, h) /\ <<a, b, c, d, e, f, g>> \o s # << >>
    <2>1. PICK h1, h2, h3 \in Nat : h1 = h + 1 /\ h2 = h + 2 /\ h3 = h + 3
      BY <1>2
    <2>2. h1 = h + 1 /\ h2 = h1 + 1 /\ h3 = h2 + 1 /\ 3 <= h3 /\ h1 = h3 - 3 + 1
      BY <2>1
    <2>3. Leads0(Make("N_IF_STMT", 3), h3, h1)
      BY <2>2, MakeLeads
    <2>4. /\ Leads0(Expect({"T_IF"}), h, h)
          /\ Leads0(Expect({"T_LPAREN"}), h, h)
          /\ Leads0(Call("parse_expression"), h, h1)
          /\ Leads0(Expect({"T_RPAREN"}), h1, h1)
          /\ Leads0(Call("parse_block_stmt"), h1, h2)
      BY <2>2, ExpectLeads, CallLeads DEF Special, Guarded, Loops
    <2>5. Leads1(f, h2, h3)
      <3>1. /\ Leads0(Push(NULL), h2, h3)
            /\ Leads0(Consume, h3, h3)
        BY <2>2, PushLeads, ConsumeLeads
      <3>2. Chain0(<<Push(NULL), Consume>>, h2, h3)
        BY <2>1, <3>1, ListOf20
      <3>3. /\ Leads0(Expect({"T_ELSE"}), h2, h2)
            /\ Leads0(Call("parse_block_stmt"), h2, h3)
            /\ Leads0(Expect({"T_END"}), h3, h3)
        BY <2>2, ExpectLeads, CallLeads DEF Special, Guarded, Loops
      <3>4. Chain0(<<Expect({"T_ELSE"}), Call("parse_block_stmt"),
           Expect({"T_END"})>>, h2, h3)
        BY <2>1, <3>3, ListOf30
      <3> QED
        BY <1>1, <3>2, <3>4, Choice0
    <2>6. /\ Leads(a, h, h)
          /\ Leads(b, h, h)
          /\ Leads(c, h, h1)
          /\ Leads(d, h1, h1)
          /\ Leads(e, h1, h2)
          /\ Leads(f, h2, h3)
          /\ Leads(g, h3, h1)
      BY <1>1, <2>3, <2>4, <2>5, Deeper
    <2>7. PICK p, q, t : p = <<a, b, c, d>> /\ q = <<e, f, g>> /\ t = q \o s
      OBVIOUS
    <2>8. Ends(t, h1) /\ t # << >>
      BY <1>2, <2>1, <2>6, <2>7, Lead3
    <2>9. Ends(p \o t, h) /\ p \o t # << >>
      BY <1>2, <2>1, <2>6, <2>7, <2>8, Lead4
    <2>10. (p \o q) \o s = p \o t
      <3>1. IsList(p) /\ IsList(q) /\ IsList(s)
        BY <1>2, <2>7, ListOfFour, ListOfThree DEF Ends
      <3> QED
        BY <2>7, <3>1, TwoParts
    <2>11. <<a, b, c, d, e, f, g>> = p \o q
      BY <2>7
    <2> QED
      BY <2>1, <2>9, <2>10, <2>11
  <1>3. Enters("parse_if_stmt", <<a, b, c, d, e, f, g>>)
    BY <1>1 DEF parse_if_stmt
  <1> QED
    BY <1>2, <1>3, Body DEF Loops

\* return.
LEMMA parse_return_stmtKept ==
    ASSUME ParseInv, parse_return_stmt
    PROVE  ParseInv'
  <1>1. PICK a, b, c, d :
           /\ a = Expect({"T_RETURN"})
           /\ b = If({"T_SEMICOLON"}, <<Push(NULL)>>, <<Call("parse_expression")>>)
           /\ c = Expect({"T_SEMICOLON"})
           /\ d = Make("N_RETURN_STMT", 1)
    OBVIOUS
  <1>2. ASSUME NEW s, NEW h \in Nat, s # << >>, Ends(s, h + 1)
        PROVE  Ends(<<a, b, c, d>> \o s, h) /\ <<a, b, c, d>> \o s # << >>
    <2>1. PICK h1 \in Nat : h1 = h + 1
      BY <1>2
    <2>2. h1 = h + 1 /\ 1 <= h1 /\ h1 = h1 - 1 + 1
      BY <2>1
    <2>3. Leads0(Make("N_RETURN_STMT", 1), h1, h1)
      BY <2>2, MakeLeads
    <2>4. /\ Leads0(Expect({"T_RETURN"}), h, h)
          /\ Leads0(Expect({"T_SEMICOLON"}), h1, h1)
      BY <2>2, ExpectLeads
    <2>5. Leads1(b, h, h1)
      <3>1. Leads0(Push(NULL), h, h1)
        BY <2>2, PushLeads
      <3>2. Chain0(<<Push(NULL)>>, h, h1)
        BY <2>1, <3>1, ListOf10
      <3>3. Leads0(Call("parse_expression"), h, h1)
        BY <2>2, CallLeads DEF Special, Guarded, Loops
      <3>4. Chain0(<<Call("parse_expression")>>, h, h1)
        BY <2>1, <3>3, ListOf10
      <3> QED
        BY <1>1, <3>2, <3>4, Choice0
    <2>6. /\ Leads(a, h, h)
          /\ Leads(b, h, h1)
          /\ Leads(c, h1, h1)
          /\ Leads(d, h1, h1)
      BY <1>1, <2>3, <2>4, <2>5, Deeper
    <2> QED
      BY <1>2, <2>1, <2>6, Lead4
  <1>3. Enters("parse_return_stmt", <<a, b, c, d>>)
    BY <1>1 DEF parse_return_stmt
  <1> QED
    BY <1>2, <1>3, Body DEF Loops

\* A label.
LEMMA parse_label_declKept ==
    ASSUME ParseInv, parse_label_decl
    PROVE  ParseInv'
  <1>1. PICK a, b, c :
           /\ a = Take({"T_IDENT"}, "name")
           /\ b = Expect({"T_COLON"})
           /\ c = Make("N_LABEL_DECL", 1)
    OBVIOUS
  <1>2. ASSUME NEW s, NEW h \in Nat, s # << >>, Ends(s, h + 1)
        PROVE  Ends(<<a, b, c>> \o s, h) /\ <<a, b, c>> \o s # << >>
    <2>1. PICK h1 \in Nat : h1 = h + 1
      BY <1>2
    <2>2. h1 = h + 1 /\ 1 <= h1 /\ h1 = h1 - 1 + 1
      BY <2>1
    <2>3. Leads0(Make("N_LABEL_DECL", 1), h1, h1)
      BY <2>2, MakeLeads
    <2>4. /\ Leads0(Take({"T_IDENT"}, "name"), h, h1)
          /\ Leads0(Expect({"T_COLON"}), h1, h1)
      BY <2>2, TakeLeads, ExpectLeads
    <2>5. /\ Leads(a, h, h1)
          /\ Leads(b, h1, h1)
          /\ Leads(c, h1, h1)
      BY <1>1, <2>3, <2>4, Deeper
    <2> QED
      BY <1>2, <2>1, <2>5, Lead3
  <1>3. Enters("parse_label_decl", <<a, b, c>>)
    BY <1>1 DEF parse_label_decl
  <1> QED
    BY <1>2, <1>3, Body DEF Loops

\* goto.
LEMMA parse_goto_stmtKept ==
    ASSUME ParseInv, parse_goto_stmt
    PROVE  ParseInv'
  <1>1. PICK a, b, c, d :
           /\ a = Expect({"T_GOTO"})
           /\ b = Take({"T_IDENT"}, "name")
           /\ c = Expect({"T_SEMICOLON"})
           /\ d = Make("N_GOTO_STMT", 1)
    OBVIOUS
  <1>2. ASSUME NEW s, NEW h \in Nat, s # << >>, Ends(s, h + 1)
        PROVE  Ends(<<a, b, c, d>> \o s, h) /\ <<a, b, c, d>> \o s # << >>
    <2>1. PICK h1 \in Nat : h1 = h + 1
      BY <1>2
    <2>2. h1 = h + 1 /\ 1 <= h1 /\ h1 = h1 - 1 + 1
      BY <2>1
    <2>3. Leads0(Make("N_GOTO_STMT", 1), h1, h1)
      BY <2>2, MakeLeads
    <2>4. /\ Leads0(Expect({"T_GOTO"}), h, h)
          /\ Leads0(Take({"T_IDENT"}, "name"), h, h1)
          /\ Leads0(Expect({"T_SEMICOLON"}), h1, h1)
      BY <2>2, ExpectLeads, TakeLeads
    <2>5. /\ Leads(a, h, h)
          /\ Leads(b, h, h1)
          /\ Leads(c, h1, h1)
          /\ Leads(d, h1, h1)
      BY <1>1, <2>3, <2>4, Deeper
    <2> QED
      BY <1>2, <2>1, <2>5, Lead4
  <1>3. Enters("parse_goto_stmt", <<a, b, c, d>>)
    BY <1>1 DEF parse_goto_stmt
  <1> QED
    BY <1>2, <1>3, Body DEF Loops

\* The declaration of a variable, with a value or without.
LEMMA parse_var_declKept ==
    ASSUME ParseInv, parse_var_decl
    PROVE  ParseInv'
  <1>1. PICK a, b, c, d, e, f :
           /\ a = If({"T_STRUCT"}, <<Consume, Push(Word("D_STRUCT")), Take(TokenTypes,
                  "name")>>, <<Take(TokenTypes, "type"), Push(Word(""))>>)
           /\ b = Call("dimensions")
           /\ c = Take({"T_IDENT"}, "name")
           /\ d = If({"T_ASSIGN"}, <<Consume, Call("parse_expression")>>,
                  <<Note({"T_SEMICOLON"}, "default")>>)
           /\ e = Expect({"T_SEMICOLON"})
           /\ f = Make("N_VAR_DECL", 4)
    OBVIOUS
  <1>2. ASSUME NEW s, NEW h \in Nat, s # << >>, Ends(s, h + 1)
        PROVE  Ends(<<a, b, c, d, e, f>> \o s, h) /\ <<a, b, c, d, e, f>> \o s # << >>
    <2>1. PICK h1, h2, h3, h4 \in Nat : h1 = h + 1 /\ h2 = h + 2 /\ h3 = h + 3 /\ h4 = h + 4
      BY <1>2
    <2>2. h1 = h + 1 /\ h2 = h1 + 1 /\ h3 = h2 + 1 /\ h4 = h3 + 1 /\ 4 <= h4 /\ h1 =
          h4 - 4 + 1
      BY <2>1
    <2>3. Leads0(Make("N_VAR_DECL", 4), h4, h1)
      BY <2>2, MakeLeads
    <2>4. /\ Leads0(Call("dimensions"), h2, h2)
          /\ Leads0(Take({"T_IDENT"}, "name"), h2, h3)
          /\ Leads0(Expect({"T_SEMICOLON"}), h4, h4)
      BY <2>2, DimensionsLead, TakeLeads, ExpectLeads
    <2>5. Leads1(a, h, h2)
      <3>1. /\ Leads0(Consume, h, h)
            /\ Leads0(Push(Word("D_STRUCT")), h, h1)
            /\ Leads0(Take(TokenTypes, "name"), h1, h2)
        BY <2>2, ConsumeLeads, PushLeads, TakeLeads
      <3>2. Chain0(<<Consume, Push(Word("D_STRUCT")), Take(TokenTypes, "name")>>,
           h, h2)
        BY <2>1, <3>1, ListOf30
      <3>3. /\ Leads0(Take(TokenTypes, "type"), h, h1)
            /\ Leads0(Push(Word("")), h1, h2)
        BY <2>2, TakeLeads, PushLeads
      <3>4. Chain0(<<Take(TokenTypes, "type"), Push(Word(""))>>, h, h2)
        BY <2>1, <3>3, ListOf20
      <3> QED
        BY <1>1, <3>2, <3>4, Choice0
    <2>6. Leads1(d, h3, h4)
      <3>1. /\ Leads0(Consume, h3, h3)
            /\ Leads0(Call("parse_expression"), h3, h4)
        BY <2>2, ConsumeLeads, CallLeads DEF Special, Guarded, Loops
      <3>2. Chain0(<<Consume, Call("parse_expression")>>, h3, h4)
        BY <2>1, <3>1, ListOf20
      <3>3. Leads0(Note({"T_SEMICOLON"}, "default"), h3, h4)
        BY <2>2, NoteLeads
      <3>4. Chain0(<<Note({"T_SEMICOLON"}, "default")>>, h3, h4)
        BY <2>1, <3>3, ListOf10
      <3> QED
        BY <1>1, <3>2, <3>4, Choice0
    <2>7. /\ Leads(a, h, h2)
          /\ Leads(b, h2, h2)
          /\ Leads(c, h2, h3)
          /\ Leads(d, h3, h4)
          /\ Leads(e, h4, h4)
          /\ Leads(f, h4, h1)
      BY <1>1, <2>3, <2>4, <2>5, <2>6, Deeper
    <2>8. PICK p, q, t : p = <<a, b, c>> /\ q = <<d, e, f>> /\ t = q \o s
      OBVIOUS
    <2>9. Ends(t, h3) /\ t # << >>
      BY <1>2, <2>1, <2>7, <2>8, Lead3
    <2>10. Ends(p \o t, h) /\ p \o t # << >>
      BY <1>2, <2>1, <2>7, <2>8, <2>9, Lead3
    <2>11. (p \o q) \o s = p \o t
      <3>1. IsList(p) /\ IsList(q) /\ IsList(s)
        BY <1>2, <2>8, ListOfThree DEF Ends
      <3> QED
        BY <2>8, <3>1, TwoParts
    <2>12. <<a, b, c, d, e, f>> = p \o q
      BY <2>8
    <2> QED
      BY <2>1, <2>10, <2>11, <2>12
  <1>3. Enters("parse_var_decl", <<a, b, c, d, e, f>>)
    BY <1>1 DEF parse_var_decl, Typed
  <1> QED
    BY <1>2, <1>3, Body DEF Loops

\* A formal, where what follows adds to the vector.
LEMMA OneFormalEnds ==
    ASSUME NEW more, \A h \in Nat : Chain0(more, h + 1, h + 1)
    PROVE  \A s : \A h \in Nat : s # << >> /\ Ends(s, h + 1) =>
              Ends(OneFormal(more) \o s, h + 1) /\ OneFormal(more) \o s # << >>
  <1>1. PICK a, b, c, d, e, f, g :
           /\ a = Consume
           /\ b = If({"T_STRUCT"}, <<Consume, Push(Word("D_STRUCT")), Take(TokenTypes,
                  "name")>>, <<Take(PrimitiveTypes, "type"), Push(Word(""))>>)
           /\ c = Call("dimensions")
           /\ d = Note({"T_IDENT"}, "name")
           /\ e = Make("N_FORMAL", 3)
           /\ f = AddNode(FALSE)
           /\ g = IfNext({"T_RPAREN"}, <<Consume>>, <<IfNext({"T_COMMA"}, <<Consume,
                  Call("formals")>>, more)>>)
    OBVIOUS
  <1>2. ASSUME NEW s, NEW h \in Nat, s # << >>, Ends(s, h + 1)
        PROVE  Ends(<<a, b, c, d, e, f, g>> \o s, h + 1) /\ <<a, b, c, d, e, f, g>> \o s # << >>
    <2>1. PICK h1, h2, h3, h4 \in Nat : h1 = h + 1 /\ h2 = h + 2 /\ h3 = h + 3 /\ h4 = h + 4
      BY <1>2
    <2>2. h2 = h1 + 1 /\ h3 = h2 + 1 /\ h4 = h3 + 1 /\ 3 <= h4 /\ h2 = h4 - 3 + 1 /\
          h2 >= 2 /\ h1 = h2 - 1 /\ h1 >= 1
      BY <2>1
    <2>3. Leads0(Make("N_FORMAL", 3), h4, h2)
      BY <2>2, MakeLeads
    <2>4. /\ Leads0(Consume, h1, h1)
          /\ Leads0(Call("dimensions"), h3, h3)
          /\ Leads0(Note({"T_IDENT"}, "name"), h3, h4)
          /\ Leads0(AddNode(FALSE), h2, h1)
      BY <2>2, ConsumeLeads, DimensionsLead, NoteLeads, AddLeads
    <2>5. Leads1(b, h1, h3)
      <3>1. /\ Leads0(Consume, h1, h1)
            /\ Leads0(Push(Word("D_STRUCT")), h1, h2)
            /\ Leads0(Take(TokenTypes, "name"), h2, h3)
        BY <2>2, ConsumeLeads, PushLeads, TakeLeads
      <3>2. Chain0(<<Consume, Push(Word("D_STRUCT")), Take(TokenTypes, "name")>>,
           h1, h3)
        BY <2>1, <3>1, ListOf30
      <3>3. /\ Leads0(Take(PrimitiveTypes, "type"), h1, h2)
            /\ Leads0(Push(Word("")), h2, h3)
        BY <2>2, TakeLeads, PushLeads
      <3>4. Chain0(<<Take(PrimitiveTypes, "type"), Push(Word(""))>>, h1, h3)
        BY <2>1, <3>3, ListOf20
      <3> QED
        BY <1>1, <3>2, <3>4, Choice0
    <2>6. Leads2(g, h1, h1)
      <3>1. Leads0(Consume, h1, h1)
        BY <2>2, ConsumeLeads
      <3>2. Chain1(<<Consume>>, h1, h1)
        BY <2>1, <3>1, Deeper, ListOf11
      <3>3. Leads1(IfNext({"T_COMMA"}, <<Consume, Call("formals")>>, more), h1, h1)
        <4>1. /\ Leads0(Consume, h1, h1)
              /\ Leads0(Call("formals"), h1, h1)
          BY <2>2, ConsumeLeads, LoopLeads DEF Loops
        <4>2. Chain0(<<Consume, Call("formals")>>, h1, h1)
          BY <2>1, <4>1, ListOf20
        <4>3. Chain0(more, h1, h1)
          BY <2>1
        <4> QED
          BY <4>2, <4>3, Choice0
      <3>4. Chain1(<<IfNext({"T_COMMA"}, <<Consume, Call("formals")>>, more)>>, h1, h1)
        BY <2>1, <3>3, Deeper, ListOf11
      <3> QED
        BY <1>1, <3>2, <3>4, Choice1
    <2>7. /\ Leads(a, h1, h1)
          /\ Leads(b, h1, h3)
          /\ Leads(c, h3, h3)
          /\ Leads(d, h3, h4)
          /\ Leads(e, h4, h2)
          /\ Leads(f, h2, h1)
          /\ Leads(g, h1, h1)
      BY <1>1, <2>3, <2>4, <2>5, <2>6, Deeper
    <2>8. PICK p, q, t : p = <<a, b, c, d>> /\ q = <<e, f, g>> /\ t = q \o s
      OBVIOUS
    <2>9. Ends(t, h4) /\ t # << >>
      BY <1>2, <2>1, <2>7, <2>8, Lead3
    <2>10. Ends(p \o t, h1) /\ p \o t # << >>
      BY <1>2, <2>1, <2>7, <2>8, <2>9, Lead4
    <2>11. (p \o q) \o s = p \o t
      <3>1. IsList(p) /\ IsList(q) /\ IsList(s)
        BY <1>2, <2>8, ListOfFour, ListOfThree DEF Ends
      <3> QED
        BY <2>8, <3>1, TwoParts
    <2>12. <<a, b, c, d, e, f, g>> = p \o q
      BY <2>8
    <2> QED
      BY <2>1, <2>10, <2>11, <2>12
  <1>3. OneFormal(more) = <<a, b, c, d, e, f, g>>
    BY <1>1 DEF OneFormal, Typed
  <1> QED
    BY <1>2, <1>3

\* The formals, and those after the first.
LEMMA parse_formalsKept ==
    ASSUME ParseInv, parse_formals
    PROVE  ParseInv'
  <1>1. PICK p, q : p = <<Push(EmptyVector)>> /\ q = OneFormal(<< >>)
    OBVIOUS
  <1>2. ASSUME NEW s, NEW h \in Nat, s # << >>, Ends(s, h + 1)
        PROVE  Ends((p \o q) \o s, h) /\ (p \o q) \o s # << >>
    <2>1. PICK t : t = q \o s
      OBVIOUS
    <2>2. PICK h1 \in Nat : h1 = h + 1
      BY <1>2
    <2>3. Ends(t, h1) /\ t # << >>
      BY <1>1, <1>2, <2>1, <2>2, OneFormalEnds, ListOf00
    <2>4. Leads(Push(EmptyVector), h, h1)
      BY <2>2, PushLeads, Deeper
    <2>5. Ends(p \o t, h) /\ p \o t # << >>
      BY <1>1, <2>3, <2>4, Lead1
    <2>6. IsList(p) /\ IsList(q) /\ IsList(s)
      BY <1>1, <1>2, ListOfOne, ListOfSeven DEF Ends, OneFormal
    <2>7. (p \o q) \o s = p \o t
      BY <2>1, <2>6, TwoParts
    <2> QED
      BY <2>5, <2>7
  <1>3. Enters("parse_formals", p \o q)
    BY <1>1 DEF parse_formals
  <1> QED
    BY <1>2, <1>3, Body DEF Loops

\* The formals of a declaration leave one list of them.
LEMMA formalsKept ==
    ASSUME ParseInv, formals
    PROVE  ParseInv'
  <1>1. \A h \in Nat : Chain0(<<Call("formals")>>, h + 1, h + 1)
    <2> SUFFICES ASSUME NEW h \in Nat PROVE Chain0(<<Call("formals")>>, h + 1, h + 1)
      OBVIOUS
    <2>1. PICK k \in Nat : k = h + 1 /\ k >= 1
      OBVIOUS
    <2>2. Leads0(Call("formals"), k, k)
      BY <2>1, LoopLeads DEF Loops
    <2> QED
      BY <2>1, <2>2, ListOf10
  <1> QED
    BY <1>1, OneFormalEnds, LoopBody DEF formals, Loops

\* The declaration of a function.
LEMMA parse_function_declKept ==
    ASSUME ParseInv, parse_function_decl
    PROVE  ParseInv'
  <1>1. PICK a, b, c, d, e, f, g, x, y :
           /\ a = Expect({"T_FUNC"})
           /\ b = Take({"T_IDENT"}, "name")
           /\ c = If({"T_LPAREN"}, <<IfNext({"T_RPAREN"}, <<Consume, Consume,
                  Push(EmptyVector)>>, <<Call("parse_formals"), Consume>>)>>,
                  <<Expect({"T_LPAREN"})>>)
           /\ d = Expect({"T_OFTYPE"})
           /\ e = If({"T_STRUCT"}, <<Consume, Push(Word("D_STRUCT")), Take({"T_IDENT"},
                  "name")>>, <<Take(PrimitiveTypes \cup {"T_VOID"}, "type"),
                  Push(Word(""))>>)
           /\ f = Call("dimensions")
           /\ g = Call("parse_block_stmt")
           /\ x = Expect({"T_END"})
           /\ y = Make("N_FUNC_DECL", 5)
    OBVIOUS
  <1>2. ASSUME NEW s, NEW h \in Nat, s # << >>, Ends(s, h + 1)
        PROVE  /\ Ends(<<a, b, c, d, e, f, g, x, y>> \o s, h)
               /\ <<a, b, c, d, e, f, g, x, y>> \o s # << >>
    <2>1. PICK h1, h2, h3, h4, h5 \in Nat :
             h1 = h + 1 /\ h2 = h + 2 /\ h3 = h + 3 /\ h4 = h + 4 /\ h5 = h + 5
      BY <1>2
    <2>2. h1 = h + 1 /\ h2 = h1 + 1 /\ h3 = h2 + 1 /\ h4 = h3 + 1 /\ h5 = h4 + 1 /\ 5
          <= h5 /\ h1 = h5 - 5 + 1
      BY <2>1
    <2>3. Leads0(Make("N_FUNC_DECL", 5), h5, h1)
      BY <2>2, MakeLeads
    <2>4. /\ Leads0(Expect({"T_FUNC"}), h, h)
          /\ Leads0(Take({"T_IDENT"}, "name"), h, h1)
          /\ Leads0(Expect({"T_OFTYPE"}), h2, h2)
          /\ Leads0(Call("dimensions"), h4, h4)
          /\ Leads0(Call("parse_block_stmt"), h4, h5)
          /\ Leads0(Expect({"T_END"}), h5, h5)
      BY <2>2, ExpectLeads, TakeLeads, DimensionsLead, CallLeads DEF Special, Guarded, Loops
    <2>5. Leads2(c, h1, h2)
      <3>1. Leads1(IfNext({"T_RPAREN"}, <<Consume, Consume, Push(EmptyVector)>>,
           <<Call("parse_formals"), Consume>>), h1, h2)
        <4>1. /\ Leads0(Consume, h1, h1)
              /\ Leads0(Consume, h1, h1)
              /\ Leads0(Push(EmptyVector), h1, h2)
          BY <2>2, ConsumeLeads, PushLeads
        <4>2. Chain0(<<Consume, Consume, Push(EmptyVector)>>, h1, h2)
          BY <2>1, <4>1, ListOf30
        <4>3. /\ Leads0(Call("parse_formals"), h1, h2)
              /\ Leads0(Consume, h2, h2)
          BY <2>2, CallLeads, ConsumeLeads DEF Special, Guarded, Loops
        <4>4. Chain0(<<Call("parse_formals"), Consume>>, h1, h2)
          BY <2>1, <4>3, ListOf20
        <4> QED
          BY <4>2, <4>4, Choice0
      <3>2. Chain1(<<IfNext({"T_RPAREN"}, <<Consume, Consume,
           Push(EmptyVector)>>, <<Call("parse_formals"), Consume>>)>>, h1, h2)
        BY <2>1, <3>1, Deeper, ListOf11
      <3> QED
        BY <1>1, <3>2, Choice1
    <2>6. Leads1(e, h2, h4)
      <3>1. /\ Leads0(Consume, h2, h2)
            /\ Leads0(Push(Word("D_STRUCT")), h2, h3)
            /\ Leads0(Take({"T_IDENT"}, "name"), h3, h4)
        BY <2>2, ConsumeLeads, PushLeads, TakeLeads
      <3>2. Chain0(<<Consume, Push(Word("D_STRUCT")), Take({"T_IDENT"},
           "name")>>, h2, h4)
        BY <2>1, <3>1, ListOf30
      <3>3. /\ Leads0(Take(PrimitiveTypes \cup {"T_VOID"}, "type"), h2, h3)
            /\ Leads0(Push(Word("")), h3, h4)
        BY <2>2, TakeLeads, PushLeads
      <3>4. Chain0(<<Take(PrimitiveTypes \cup {"T_VOID"}, "type"),
           Push(Word(""))>>, h2, h4)
        BY <2>1, <3>3, ListOf20
      <3> QED
        BY <1>1, <3>2, <3>4, Choice0
    <2>7. /\ Leads(a, h, h)
          /\ Leads(b, h, h1)
          /\ Leads(c, h1, h2)
          /\ Leads(d, h2, h2)
          /\ Leads(e, h2, h4)
          /\ Leads(f, h4, h4)
          /\ Leads(g, h4, h5)
          /\ Leads(x, h5, h5)
          /\ Leads(y, h5, h1)
      BY <1>1, <2>3, <2>4, <2>5, <2>6, Deeper
    <2>8. PICK p, q, t : p = <<a, b, c, d, e>> /\ q = <<f, g, x, y>> /\ t = q \o s
      OBVIOUS
    <2>9. Ends(t, h4) /\ t # << >>
      BY <1>2, <2>1, <2>7, <2>8, Lead4
    <2>10. Ends(p \o t, h) /\ p \o t # << >>
      BY <1>2, <2>1, <2>7, <2>8, <2>9, Lead5
    <2>11. (p \o q) \o s = p \o t
      <3>1. IsList(p) /\ IsList(q) /\ IsList(s)
        BY <1>2, <2>8, ListOfFive, ListOfFour DEF Ends
      <3> QED
        BY <2>8, <3>1, TwoParts
    <2>12. <<a, b, c, d, e, f, g, x, y>> = p \o q
      BY <2>8
    <2> QED
      BY <2>1, <2>10, <2>11, <2>12
  <1>3. Enters("parse_function_decl", <<a, b, c, d, e, f, g, x, y>>)
    BY <1>1 DEF parse_function_decl
  <1> QED
    BY <1>2, <1>3, Body DEF Loops

\* A member of a structure.
LEMMA parse_member_declKept ==
    ASSUME ParseInv, parse_member_decl
    PROVE  ParseInv'
  <1>1. PICK a, b, c, d :
           /\ a = Take(PrimitiveTypes, "type")
           /\ b = Take({"T_IDENT"}, "name")
           /\ c = Expect({"T_SEMICOLON"})
           /\ d = Make("N_MEMBER_DECL", 2)
    OBVIOUS
  <1>2. ASSUME NEW s, NEW h \in Nat, s # << >>, Ends(s, h + 1)
        PROVE  Ends(<<a, b, c, d>> \o s, h) /\ <<a, b, c, d>> \o s # << >>
    <2>1. PICK h1, h2 \in Nat : h1 = h + 1 /\ h2 = h + 2
      BY <1>2
    <2>2. h1 = h + 1 /\ h2 = h1 + 1 /\ 2 <= h2 /\ h1 = h2 - 2 + 1
      BY <2>1
    <2>3. Leads0(Make("N_MEMBER_DECL", 2), h2, h1)
      BY <2>2, MakeLeads
    <2>4. /\ Leads0(Take(PrimitiveTypes, "type"), h, h1)
          /\ Leads0(Take({"T_IDENT"}, "name"), h1, h2)
          /\ Leads0(Expect({"T_SEMICOLON"}), h2, h2)
      BY <2>2, TakeLeads, ExpectLeads
    <2>5. /\ Leads(a, h, h1)
          /\ Leads(b, h1, h2)
          /\ Leads(c, h2, h2)
          /\ Leads(d, h2, h1)
      BY <1>1, <2>3, <2>4, Deeper
    <2> QED
      BY <1>2, <2>1, <2>5, Lead4
  <1>3. Enters("parse_member_decl", <<a, b, c, d>>)
    BY <1>1 DEF parse_member_decl
  <1> QED
    BY <1>2, <1>3, Body DEF Loops

\* The members.
LEMMA membersKept ==
    ASSUME ParseInv, members
    PROVE  ParseInv'
  <1>1. PICK a, b, c :
           /\ a = Call("parse_member_decl")
           /\ b = AddNode(TRUE)
           /\ c = If({"T_END"}, <<>>, <<Call("members")>>)
    OBVIOUS
  <1>2. ASSUME NEW s, NEW h \in Nat, s # << >>, Ends(s, h + 1)
        PROVE  Ends(<<a, b, c>> \o s, h + 1) /\ <<a, b, c>> \o s # << >>
    <2>1. PICK h1, h2 \in Nat : h1 = h + 1 /\ h2 = h + 2
      BY <1>2
    <2>2. h2 = h1 + 1 /\ h2 >= 2 /\ h1 = h2 - 1 /\ h1 >= 1
      BY <2>1
    <2>3. /\ Leads0(Call("parse_member_decl"), h1, h2)
          /\ Leads0(AddNode(TRUE), h2, h1)
      BY <2>2, CallLeads, AddLeads DEF Special, Guarded, Loops
    <2>4. Leads1(c, h1, h1)
      <3>1. Chain0(<< >>, h1, h1)
        BY <2>1, ListOf00
      <3>2. Leads0(Call("members"), h1, h1)
        BY <2>2, LoopLeads DEF Loops
      <3>3. Chain0(<<Call("members")>>, h1, h1)
        BY <2>1, <3>2, ListOf10
      <3> QED
        BY <1>1, <3>1, <3>3, Choice0
    <2>5. /\ Leads(a, h1, h2)
          /\ Leads(b, h2, h1)
          /\ Leads(c, h1, h1)
      BY <1>1, <2>3, <2>4, Deeper
    <2> QED
      BY <1>2, <2>1, <2>5, Lead3
  <1>3. Enters("members", <<a, b, c>>)
    BY <1>1 DEF members
  <1> QED
    BY <1>2, <1>3, LoopBody DEF Loops

\* The declaration of a structure.
LEMMA parse_struct_declKept ==
    ASSUME ParseInv, parse_struct_decl
    PROVE  ParseInv'
  <1>1. PICK a, b, c, d, e, f, g :
           /\ a = Expect({"T_STRUCT"})
           /\ b = Take({"T_IDENT"}, "name")
           /\ c = Expect({"T_THEN"})
           /\ d = Push(EmptyVector)
           /\ e = Call("members")
           /\ f = Expect({"T_END"})
           /\ g = Make("N_STRUCT_DECL", 2)
    OBVIOUS
  <1>2. ASSUME NEW s, NEW h \in Nat, s # << >>, Ends(s, h + 1)
        PROVE  Ends(<<a, b, c, d, e, f, g>> \o s, h) /\ <<a, b, c, d, e, f, g>> \o s # << >>
    <2>1. PICK h1, h2 \in Nat : h1 = h + 1 /\ h2 = h + 2
      BY <1>2
    <2>2. h1 = h + 1 /\ h2 = h1 + 1 /\ h2 >= 1 /\ 2 <= h2 /\ h1 = h2 - 2 + 1
      BY <2>1
    <2>3. Leads0(Make("N_STRUCT_DECL", 2), h2, h1)
      BY <2>2, MakeLeads
    <2>4. /\ Leads0(Expect({"T_STRUCT"}), h, h)
          /\ Leads0(Take({"T_IDENT"}, "name"), h, h1)
          /\ Leads0(Expect({"T_THEN"}), h1, h1)
          /\ Leads0(Push(EmptyVector), h1, h2)
          /\ Leads0(Call("members"), h2, h2)
          /\ Leads0(Expect({"T_END"}), h2, h2)
      BY <2>2, ExpectLeads, TakeLeads, PushLeads, LoopLeads DEF Loops
    <2>5. /\ Leads(a, h, h)
          /\ Leads(b, h, h1)
          /\ Leads(c, h1, h1)
          /\ Leads(d, h1, h2)
          /\ Leads(e, h2, h2)
          /\ Leads(f, h2, h2)
          /\ Leads(g, h2, h1)
      BY <1>1, <2>3, <2>4, Deeper
    <2>6. PICK p, q, t : p = <<a, b, c, d>> /\ q = <<e, f, g>> /\ t = q \o s
      OBVIOUS
    <2>7. Ends(t, h2) /\ t # << >>
      BY <1>2, <2>1, <2>5, <2>6, Lead3
    <2>8. Ends(p \o t, h) /\ p \o t # << >>
      BY <1>2, <2>1, <2>5, <2>6, <2>7, Lead4
    <2>9. (p \o q) \o s = p \o t
      <3>1. IsList(p) /\ IsList(q) /\ IsList(s)
        BY <1>2, <2>6, ListOfFour, ListOfThree DEF Ends
      <3> QED
        BY <2>6, <3>1, TwoParts
    <2>10. <<a, b, c, d, e, f, g>> = p \o q
      BY <2>6
    <2> QED
      BY <2>1, <2>8, <2>9, <2>10
  <1>3. Enters("parse_struct_decl", <<a, b, c, d, e, f, g>>)
    BY <1>1 DEF parse_struct_decl
  <1> QED
    BY <1>2, <1>3, Body DEF Loops

\* One operand or two.
LEMMA parse_and_exprKept ==
    ASSUME ParseInv, parse_and_expr
    PROVE  ParseInv'
  <1>1. PICK a, b :
           /\ a = Call("parse_not_expr")
           /\ b = If({"T_AND", "T_OR"}, <<Take({"T_AND", "T_OR"}, "operator"),
                  Call("parse_not_expr"), MakeBinop>>, <<>>)
    OBVIOUS
  <1>2. ASSUME NEW s, NEW h \in Nat, s # << >>, Ends(s, h + 1)
        PROVE  Ends(<<a, b>> \o s, h) /\ <<a, b>> \o s # << >>
    <2>1. PICK h1, h2, h3 \in Nat : h1 = h + 1 /\ h2 = h + 2 /\ h3 = h + 3
      BY <1>2
    <2>2. h1 = h + 1 /\ h2 = h1 + 1 /\ h3 = h2 + 1 /\ h3 >= 3 /\ h1 = h3 - 2
      BY <2>1
    <2>3. Leads0(Call("parse_not_expr"), h, h1)
      BY <2>2, CallLeads DEF Special, Guarded, Loops
    <2>4. Leads1(b, h1, h1)
      <3>1. /\ Leads0(Take({"T_AND", "T_OR"}, "operator"), h1, h2)
            /\ Leads0(Call("parse_not_expr"), h2, h3)
            /\ Leads0(MakeBinop, h3, h1)
        BY <2>2, TakeLeads, CallLeads, BinopLeads DEF Special, Guarded, Loops
      <3>2. Chain0(<<Take({"T_AND", "T_OR"}, "operator"), Call("parse_not_expr"),
           MakeBinop>>, h1, h1)
        BY <2>1, <3>1, ListOf30
      <3>3. Chain0(<< >>, h1, h1)
        BY <2>1, ListOf00
      <3> QED
        BY <1>1, <3>2, <3>3, Choice0
    <2>5. /\ Leads(a, h, h1)
          /\ Leads(b, h1, h1)
      BY <1>1, <2>3, <2>4, Deeper
    <2> QED
      BY <1>2, <2>1, <2>5, Lead2
  <1>3. Enters("parse_and_expr", <<a, b>>)
    BY <1>1 DEF parse_and_expr, Operands
  <1> QED
    BY <1>2, <1>3, Body DEF Loops

\* A negation.
LEMMA parse_not_exprKept ==
    ASSUME ParseInv, parse_not_expr
    PROVE  ParseInv'
  <1>1. PICK a :
           a = If({"T_BANG"}, <<Consume, Call("parse_expression"), Make("N_NOT_EXPR",
                  1)>>, <<If({"T_MINUS"}, <<Consume, Call("parse_expression"),
                  Make("N_NEG_EXPR", 1)>>, <<Call("parse_compare_expr")>>)>>)
    OBVIOUS
  <1>2. ASSUME NEW s, NEW h \in Nat, s # << >>, Ends(s, h + 1)
        PROVE  Ends(<<a>> \o s, h) /\ <<a>> \o s # << >>
    <2>1. PICK h1 \in Nat : h1 = h + 1
      BY <1>2
    <2>2. h1 = h + 1 /\ 1 <= h1 /\ h1 = h1 - 1 + 1
      BY <2>1
    <2>3. Leads2(a, h, h1)
      <3>1. /\ Leads0(Consume, h, h)
            /\ Leads0(Call("parse_expression"), h, h1)
            /\ Leads0(Make("N_NOT_EXPR", 1), h1, h1)
        BY <2>2, ConsumeLeads, CallLeads, MakeLeads DEF Special, Guarded, Loops
      <3>2. Chain1(<<Consume, Call("parse_expression"), Make("N_NOT_EXPR", 1)>>,
           h, h1)
        BY <2>1, <3>1, Deeper, ListOf31
      <3>3. Leads1(If({"T_MINUS"}, <<Consume, Call("parse_expression"),
           Make("N_NEG_EXPR", 1)>>, <<Call("parse_compare_expr")>>), h, h1)
        <4>1. /\ Leads0(Consume, h, h)
              /\ Leads0(Call("parse_expression"), h, h1)
              /\ Leads0(Make("N_NEG_EXPR", 1), h1, h1)
          BY <2>2, ConsumeLeads, CallLeads, MakeLeads DEF Special, Guarded, Loops
        <4>2. Chain0(<<Consume, Call("parse_expression"), Make("N_NEG_EXPR",
           1)>>, h, h1)
          BY <2>1, <4>1, ListOf30
        <4>3. Leads0(Call("parse_compare_expr"), h, h1)
          BY <2>2, CallLeads DEF Special, Guarded, Loops
        <4>4. Chain0(<<Call("parse_compare_expr")>>, h, h1)
          BY <2>1, <4>3, ListOf10
        <4> QED
          BY <4>2, <4>4, Choice0
      <3>4. Chain1(<<If({"T_MINUS"}, <<Consume, Call("parse_expression"),
           Make("N_NEG_EXPR", 1)>>, <<Call("parse_compare_expr")>>)>>, h, h1)
        BY <2>1, <3>3, Deeper, ListOf11
      <3> QED
        BY <1>1, <3>2, <3>4, Choice1
    <2>4. Leads(a, h, h1)
      BY <1>1, <2>3, Deeper
    <2> QED
      BY <1>2, <2>1, <2>4, Lead1
  <1>3. Enters("parse_not_expr", <<a>>)
    BY <1>1 DEF parse_not_expr
  <1> QED
    BY <1>2, <1>3, Body DEF Loops

\* A comparison.
LEMMA parse_compare_exprKept ==
    ASSUME ParseInv, parse_compare_expr
    PROVE  ParseInv'
  <1>1. PICK a, b :
           /\ a = Call("parse_add_expr")
           /\ b = If(Comparisons, <<Take(Comparisons, "operator"),
                  Call("parse_add_expr"), MakeBinop>>, <<>>)
    OBVIOUS
  <1>2. ASSUME NEW s, NEW h \in Nat, s # << >>, Ends(s, h + 1)
        PROVE  Ends(<<a, b>> \o s, h) /\ <<a, b>> \o s # << >>
    <2>1. PICK h1, h2, h3 \in Nat : h1 = h + 1 /\ h2 = h + 2 /\ h3 = h + 3
      BY <1>2
    <2>2. h1 = h + 1 /\ h2 = h1 + 1 /\ h3 = h2 + 1 /\ h3 >= 3 /\ h1 = h3 - 2
      BY <2>1
    <2>3. Leads0(Call("parse_add_expr"), h, h1)
      BY <2>2, CallLeads DEF Special, Guarded, Loops
    <2>4. Leads1(b, h1, h1)
      <3>1. /\ Leads0(Take(Comparisons, "operator"), h1, h2)
            /\ Leads0(Call("parse_add_expr"), h2, h3)
            /\ Leads0(MakeBinop, h3, h1)
        BY <2>2, TakeLeads, CallLeads, BinopLeads DEF Special, Guarded, Loops
      <3>2. Chain0(<<Take(Comparisons, "operator"), Call("parse_add_expr"),
           MakeBinop>>, h1, h1)
        BY <2>1, <3>1, ListOf30
      <3>3. Chain0(<< >>, h1, h1)
        BY <2>1, ListOf00
      <3> QED
        BY <1>1, <3>2, <3>3, Choice0
    <2>5. /\ Leads(a, h, h1)
          /\ Leads(b, h1, h1)
      BY <1>1, <2>3, <2>4, Deeper
    <2> QED
      BY <1>2, <2>1, <2>5, Lead2
  <1>3. Enters("parse_compare_expr", <<a, b>>)
    BY <1>1 DEF parse_compare_expr, Operands
  <1> QED
    BY <1>2, <1>3, Body DEF Loops

\* A sum.
LEMMA parse_add_exprKept ==
    ASSUME ParseInv, parse_add_expr
    PROVE  ParseInv'
  <1>1. PICK a, b :
           /\ a = Call("parse_mult_expr")
           /\ b = If({"T_PLUS", "T_MINUS"}, <<Take({"T_PLUS", "T_MINUS"}, "operator"),
                  Call("parse_mult_expr"), MakeBinop>>, <<>>)
    OBVIOUS
  <1>2. ASSUME NEW s, NEW h \in Nat, s # << >>, Ends(s, h + 1)
        PROVE  Ends(<<a, b>> \o s, h) /\ <<a, b>> \o s # << >>
    <2>1. PICK h1, h2, h3 \in Nat : h1 = h + 1 /\ h2 = h + 2 /\ h3 = h + 3
      BY <1>2
    <2>2. h1 = h + 1 /\ h2 = h1 + 1 /\ h3 = h2 + 1 /\ h3 >= 3 /\ h1 = h3 - 2
      BY <2>1
    <2>3. Leads0(Call("parse_mult_expr"), h, h1)
      BY <2>2, CallLeads DEF Special, Guarded, Loops
    <2>4. Leads1(b, h1, h1)
      <3>1. /\ Leads0(Take({"T_PLUS", "T_MINUS"}, "operator"), h1, h2)
            /\ Leads0(Call("parse_mult_expr"), h2, h3)
            /\ Leads0(MakeBinop, h3, h1)
        BY <2>2, TakeLeads, CallLeads, BinopLeads DEF Special, Guarded, Loops
      <3>2. Chain0(<<Take({"T_PLUS", "T_MINUS"}, "operator"),
           Call("parse_mult_expr"), MakeBinop>>, h1, h1)
        BY <2>1, <3>1, ListOf30
      <3>3. Chain0(<< >>, h1, h1)
        BY <2>1, ListOf00
      <3> QED
        BY <1>1, <3>2, <3>3, Choice0
    <2>5. /\ Leads(a, h, h1)
          /\ Leads(b, h1, h1)
      BY <1>1, <2>3, <2>4, Deeper
    <2> QED
      BY <1>2, <2>1, <2>5, Lead2
  <1>3. Enters("parse_add_expr", <<a, b>>)
    BY <1>1 DEF parse_add_expr, Operands
  <1> QED
    BY <1>2, <1>3, Body DEF Loops

\* A product.
LEMMA parse_mult_exprKept ==
    ASSUME ParseInv, parse_mult_expr
    PROVE  ParseInv'
  <1>1. PICK a, b :
           /\ a = Call("parse_primary_expr")
           /\ b = If({"T_MUL", "T_DIV", "T_MOD"}, <<Take({"T_MUL", "T_DIV", "T_MOD"},
                  "operator"), Call("parse_primary_expr"), MakeBinop>>, <<>>)
    OBVIOUS
  <1>2. ASSUME NEW s, NEW h \in Nat, s # << >>, Ends(s, h + 1)
        PROVE  Ends(<<a, b>> \o s, h) /\ <<a, b>> \o s # << >>
    <2>1. PICK h1, h2, h3 \in Nat : h1 = h + 1 /\ h2 = h + 2 /\ h3 = h + 3
      BY <1>2
    <2>2. h1 = h + 1 /\ h2 = h1 + 1 /\ h3 = h2 + 1 /\ h3 >= 3 /\ h1 = h3 - 2
      BY <2>1
    <2>3. Leads0(Call("parse_primary_expr"), h, h1)
      BY <2>2, CallLeads DEF Special, Guarded, Loops
    <2>4. Leads1(b, h1, h1)
      <3>1. /\ Leads0(Take({"T_MUL", "T_DIV", "T_MOD"}, "operator"), h1, h2)
            /\ Leads0(Call("parse_primary_expr"), h2, h3)
            /\ Leads0(MakeBinop, h3, h1)
        BY <2>2, TakeLeads, CallLeads, BinopLeads DEF Special, Guarded, Loops
      <3>2. Chain0(<<Take({"T_MUL", "T_DIV", "T_MOD"}, "operator"),
           Call("parse_primary_expr"), MakeBinop>>, h1, h1)
        BY <2>1, <3>1, ListOf30
      <3>3. Chain0(<< >>, h1, h1)
        BY <2>1, ListOf00
      <3> QED
        BY <1>1, <3>2, <3>3, Choice0
    <2>5. /\ Leads(a, h, h1)
          /\ Leads(b, h1, h1)
      BY <1>1, <2>3, <2>4, Deeper
    <2> QED
      BY <1>2, <2>1, <2>5, Lead2
  <1>3. Enters("parse_mult_expr", <<a, b>>)
    BY <1>1 DEF parse_mult_expr, Operands
  <1> QED
    BY <1>2, <1>3, Body DEF Loops

\* A call.
LEMMA parse_call_exprKept ==
    ASSUME ParseInv, parse_call_expr
    PROVE  ParseInv'
  <1>1. PICK a, b, c, d, e, f :
           /\ a = Take({"T_IDENT"}, "name")
           /\ b = Expect({"T_LPAREN"})
           /\ c = Push(EmptyVector)
           /\ d = If({"T_RPAREN"}, <<>>, <<Call("arguments")>>)
           /\ e = Expect({"T_RPAREN"})
           /\ f = Make("N_CALL_EXPR", 2)
    OBVIOUS
  <1>2. ASSUME NEW s, NEW h \in Nat, s # << >>, Ends(s, h + 1)
        PROVE  Ends(<<a, b, c, d, e, f>> \o s, h) /\ <<a, b, c, d, e, f>> \o s # << >>
    <2>1. PICK h1, h2 \in Nat : h1 = h + 1 /\ h2 = h + 2
      BY <1>2
    <2>2. h1 = h + 1 /\ h2 = h1 + 1 /\ h2 >= 1 /\ 2 <= h2 /\ h1 = h2 - 2 + 1
      BY <2>1
    <2>3. Leads0(Make("N_CALL_EXPR", 2), h2, h1)
      BY <2>2, MakeLeads
    <2>4. /\ Leads0(Take({"T_IDENT"}, "name"), h, h1)
          /\ Leads0(Expect({"T_LPAREN"}), h1, h1)
          /\ Leads0(Push(EmptyVector), h1, h2)
          /\ Leads0(Expect({"T_RPAREN"}), h2, h2)
      BY <2>2, TakeLeads, ExpectLeads, PushLeads
    <2>5. Leads1(d, h2, h2)
      <3>1. Chain0(<< >>, h2, h2)
        BY <2>1, ListOf00
      <3>2. Leads0(Call("arguments"), h2, h2)
        BY <2>2, LoopLeads DEF Loops
      <3>3. Chain0(<<Call("arguments")>>, h2, h2)
        BY <2>1, <3>2, ListOf10
      <3> QED
        BY <1>1, <3>1, <3>3, Choice0
    <2>6. /\ Leads(a, h, h1)
          /\ Leads(b, h1, h1)
          /\ Leads(c, h1, h2)
          /\ Leads(d, h2, h2)
          /\ Leads(e, h2, h2)
          /\ Leads(f, h2, h1)
      BY <1>1, <2>3, <2>4, <2>5, Deeper
    <2>7. PICK p, q, t : p = <<a, b, c>> /\ q = <<d, e, f>> /\ t = q \o s
      OBVIOUS
    <2>8. Ends(t, h2) /\ t # << >>
      BY <1>2, <2>1, <2>6, <2>7, Lead3
    <2>9. Ends(p \o t, h) /\ p \o t # << >>
      BY <1>2, <2>1, <2>6, <2>7, <2>8, Lead3
    <2>10. (p \o q) \o s = p \o t
      <3>1. IsList(p) /\ IsList(q) /\ IsList(s)
        BY <1>2, <2>7, ListOfThree DEF Ends
      <3> QED
        BY <2>7, <3>1, TwoParts
    <2>11. <<a, b, c, d, e, f>> = p \o q
      BY <2>7
    <2> QED
      BY <2>1, <2>9, <2>10, <2>11
  <1>3. Enters("parse_call_expr", <<a, b, c, d, e, f>>)
    BY <1>1 DEF parse_call_expr
  <1> QED
    BY <1>2, <1>3, Body DEF Loops

\* Its arguments.
LEMMA argumentsKept ==
    ASSUME ParseInv, arguments
    PROVE  ParseInv'
  <1>1. PICK a, b, c :
           /\ a = Call("parse_expression")
           /\ b = AddNode(TRUE)
           /\ c = If({"T_RPAREN"}, <<>>, <<If({"T_COMMA"}, <<Consume>>, <<>>),
                  Call("arguments")>>)
    OBVIOUS
  <1>2. ASSUME NEW s, NEW h \in Nat, s # << >>, Ends(s, h + 1)
        PROVE  Ends(<<a, b, c>> \o s, h + 1) /\ <<a, b, c>> \o s # << >>
    <2>1. PICK h1, h2 \in Nat : h1 = h + 1 /\ h2 = h + 2
      BY <1>2
    <2>2. h2 = h1 + 1 /\ h2 >= 2 /\ h1 = h2 - 1 /\ h1 >= 1
      BY <2>1
    <2>3. /\ Leads0(Call("parse_expression"), h1, h2)
          /\ Leads0(AddNode(TRUE), h2, h1)
      BY <2>2, CallLeads, AddLeads DEF Special, Guarded, Loops
    <2>4. Leads2(c, h1, h1)
      <3>1. Chain1(<< >>, h1, h1)
        BY <2>1, ListOf01
      <3>2. Leads1(If({"T_COMMA"}, <<Consume>>, <<>>), h1, h1)
        <4>1. Leads0(Consume, h1, h1)
          BY <2>2, ConsumeLeads
        <4>2. Chain0(<<Consume>>, h1, h1)
          BY <2>1, <4>1, ListOf10
        <4>3. Chain0(<< >>, h1, h1)
          BY <2>1, ListOf00
        <4> QED
          BY <4>2, <4>3, Choice0
      <3>3. Leads0(Call("arguments"), h1, h1)
        BY <2>2, LoopLeads DEF Loops
      <3>4. Chain1(<<If({"T_COMMA"}, <<Consume>>, <<>>), Call("arguments")>>, h1,
           h1)
        BY <2>1, <3>2, <3>3, Deeper, ListOf21
      <3> QED
        BY <1>1, <3>1, <3>4, Choice1
    <2>5. /\ Leads(a, h1, h2)
          /\ Leads(b, h2, h1)
          /\ Leads(c, h1, h1)
      BY <1>1, <2>3, <2>4, Deeper
    <2> QED
      BY <1>2, <2>1, <2>5, Lead3
  <1>3. Enters("arguments", <<a, b, c>>)
    BY <1>1 DEF arguments
  <1> QED
    BY <1>2, <1>3, LoopBody DEF Loops

\* The member of a variable.
LEMMA parse_struct_access_exprKept ==
    ASSUME ParseInv, parse_struct_access_expr
    PROVE  ParseInv'
  <1>1. PICK a, b, c, d :
           /\ a = Take({"T_IDENT"}, "name")
           /\ b = Expect({"T_DOT"})
           /\ c = Take({"T_IDENT"}, "name")
           /\ d = Make("N_STRUCT_ACCESS_EXPR", 2)
    OBVIOUS
  <1>2. ASSUME NEW s, NEW h \in Nat, s # << >>, Ends(s, h + 1)
        PROVE  Ends(<<a, b, c, d>> \o s, h) /\ <<a, b, c, d>> \o s # << >>
    <2>1. PICK h1, h2 \in Nat : h1 = h + 1 /\ h2 = h + 2
      BY <1>2
    <2>2. h1 = h + 1 /\ h2 = h1 + 1 /\ 2 <= h2 /\ h1 = h2 - 2 + 1
      BY <2>1
    <2>3. Leads0(Make("N_STRUCT_ACCESS_EXPR", 2), h2, h1)
      BY <2>2, MakeLeads
    <2>4. /\ Leads0(Take({"T_IDENT"}, "name"), h, h1)
          /\ Leads0(Expect({"T_DOT"}), h1, h1)
          /\ Leads0(Take({"T_IDENT"}, "name"), h1, h2)
      BY <2>2, TakeLeads, ExpectLeads
    <2>5. /\ Leads(a, h, h1)
          /\ Leads(b, h1, h1)
          /\ Leads(c, h1, h2)
          /\ Leads(d, h2, h1)
      BY <1>1, <2>3, <2>4, Deeper
    <2> QED
      BY <1>2, <2>1, <2>5, Lead4
  <1>3. Enters("parse_struct_access_expr", <<a, b, c, d>>)
    BY <1>1 DEF parse_struct_access_expr
  <1> QED
    BY <1>2, <1>3, Body DEF Loops

\* The elements of an array after the first.
LEMMA elementsKept ==
    ASSUME ParseInv, elements
    PROVE  ParseInv'
  <1>1. PICK a, b, c :
           /\ a = Call("parse_expression")
           /\ b = AddNode(FALSE)
           /\ c = If({"T_COMMA"}, <<Consume, Call("elements")>>, <<If({"T_RBRACE"},
                  <<Consume>>, <<Call("elements")>>)>>)
    OBVIOUS
  <1>2. ASSUME NEW s, NEW h \in Nat, s # << >>, Ends(s, h + 1)
        PROVE  Ends(<<a, b, c>> \o s, h + 1) /\ <<a, b, c>> \o s # << >>
    <2>1. PICK h1, h2 \in Nat : h1 = h + 1 /\ h2 = h + 2
      BY <1>2
    <2>2. h2 = h1 + 1 /\ h2 >= 2 /\ h1 = h2 - 1 /\ h1 >= 1
      BY <2>1
    <2>3. /\ Leads0(Call("parse_expression"), h1, h2)
          /\ Leads0(AddNode(FALSE), h2, h1)
      BY <2>2, CallLeads, AddLeads DEF Special, Guarded, Loops
    <2>4. Leads2(c, h1, h1)
      <3>1. /\ Leads0(Consume, h1, h1)
            /\ Leads0(Call("elements"), h1, h1)
        BY <2>2, ConsumeLeads, LoopLeads DEF Loops
      <3>2. Chain1(<<Consume, Call("elements")>>, h1, h1)
        BY <2>1, <3>1, Deeper, ListOf21
      <3>3. Leads1(If({"T_RBRACE"}, <<Consume>>, <<Call("elements")>>), h1, h1)
        <4>1. Leads0(Consume, h1, h1)
          BY <2>2, ConsumeLeads
        <4>2. Chain0(<<Consume>>, h1, h1)
          BY <2>1, <4>1, ListOf10
        <4>3. Leads0(Call("elements"), h1, h1)
          BY <2>2, LoopLeads DEF Loops
        <4>4. Chain0(<<Call("elements")>>, h1, h1)
          BY <2>1, <4>3, ListOf10
        <4> QED
          BY <4>2, <4>4, Choice0
      <3>4. Chain1(<<If({"T_RBRACE"}, <<Consume>>, <<Call("elements")>>)>>, h1, h1)
        BY <2>1, <3>3, Deeper, ListOf11
      <3> QED
        BY <1>1, <3>2, <3>4, Choice1
    <2>5. /\ Leads(a, h1, h2)
          /\ Leads(b, h2, h1)
          /\ Leads(c, h1, h1)
      BY <1>1, <2>3, <2>4, Deeper
    <2> QED
      BY <1>2, <2>1, <2>5, Lead3
  <1>3. Enters("elements", <<a, b, c>>)
    BY <1>1 DEF elements, OneElement
  <1> QED
    BY <1>2, <1>3, LoopBody DEF Loops

\* An array.
LEMMA parse_array_init_exprKept ==
    ASSUME ParseInv, parse_array_init_expr
    PROVE  ParseInv'
  <1>1. PICK a, b, c, d :
           /\ a = Expect({"T_LBRACE"})
           /\ b = Push(EmptyVector)
           /\ c = If({"T_RBRACE"}, <<Consume>>, <<Call("parse_expression"),
                  AddNode(FALSE), If({"T_COMMA"}, <<Consume, Call("elements")>>,
                  <<If({"T_RBRACE"}, <<Consume>>, <<>>)>>)>>)
           /\ d = Make("N_ARRAY_INIT_EXPR", 1)
    OBVIOUS
  <1>2. ASSUME NEW s, NEW h \in Nat, s # << >>, Ends(s, h + 1)
        PROVE  Ends(<<a, b, c, d>> \o s, h) /\ <<a, b, c, d>> \o s # << >>
    <2>1. PICK h1, h2 \in Nat : h1 = h + 1 /\ h2 = h + 2
      BY <1>2
    <2>2. h1 = h + 1 /\ h2 = h1 + 1 /\ h2 >= 2 /\ h1 = h2 - 1 /\ h1 >= 1 /\ 1 <= h1 /\
          h1 = h1 - 1 + 1
      BY <2>1
    <2>3. Leads0(Make("N_ARRAY_INIT_EXPR", 1), h1, h1)
      BY <2>2, MakeLeads
    <2>4. /\ Leads0(Expect({"T_LBRACE"}), h, h)
          /\ Leads0(Push(EmptyVector), h, h1)
      BY <2>2, ExpectLeads, PushLeads
    <2>5. Leads(c, h1, h1)
      <3>1. Leads0(Consume, h1, h1)
        BY <2>2, ConsumeLeads
      <3>2. Chain2(<<Consume>>, h1, h1)
        BY <2>1, <3>1, Deeper, ListOf12
      <3>3. Leads2(If({"T_COMMA"}, <<Consume, Call("elements")>>,
           <<If({"T_RBRACE"}, <<Consume>>, <<>>)>>), h1, h1)
        <4>1. /\ Leads0(Consume, h1, h1)
              /\ Leads0(Call("elements"), h1, h1)
          BY <2>2, ConsumeLeads, LoopLeads DEF Loops
        <4>2. Chain1(<<Consume, Call("elements")>>, h1, h1)
          BY <2>1, <4>1, Deeper, ListOf21
        <4>3. Leads1(If({"T_RBRACE"}, <<Consume>>, <<>>), h1, h1)
          <5>1. Leads0(Consume, h1, h1)
            BY <2>2, ConsumeLeads
          <5>2. Chain0(<<Consume>>, h1, h1)
            BY <2>1, <5>1, ListOf10
          <5>3. Chain0(<< >>, h1, h1)
            BY <2>1, ListOf00
          <5> QED
            BY <5>2, <5>3, Choice0
        <4>4. Chain1(<<If({"T_RBRACE"}, <<Consume>>, <<>>)>>, h1, h1)
          BY <2>1, <4>3, Deeper, ListOf11
        <4> QED
          BY <4>2, <4>4, Choice1
      <3>4. /\ Leads0(Call("parse_expression"), h1, h2)
            /\ Leads0(AddNode(FALSE), h2, h1)
        BY <2>2, CallLeads, AddLeads DEF Special, Guarded, Loops
      <3>5. Chain2(<<Call("parse_expression"), AddNode(FALSE), If({"T_COMMA"},
           <<Consume, Call("elements")>>, <<If({"T_RBRACE"}, <<Consume>>, <<>>)>>)>>, h1,
           h1)
        BY <2>1, <3>3, <3>4, Deeper, ListOf32
      <3> QED
        BY <1>1, <3>2, <3>5, Choice2
    <2>6. /\ Leads(a, h, h)
          /\ Leads(b, h, h1)
          /\ Leads(c, h1, h1)
          /\ Leads(d, h1, h1)
      BY <1>1, <2>3, <2>4, <2>5, Deeper
    <2> QED
      BY <1>2, <2>1, <2>6, Lead4
  <1>3. Enters("parse_array_init_expr", <<a, b, c, d>>)
    BY <1>1 DEF parse_array_init_expr, OneElement
  <1> QED
    BY <1>2, <1>3, Body DEF Loops

\* The indexes of an element.
LEMMA indexesKept ==
    ASSUME ParseInv, indexes
    PROVE  ParseInv'
  <1>1. PICK a, b, c, d, e :
           /\ a = Expect({"T_LBRACKET"})
           /\ b = Call("parse_expression")
           /\ c = AddNode(FALSE)
           /\ d = Expect({"T_RBRACKET"})
           /\ e = If({"T_LBRACKET"}, <<Call("indexes")>>, <<>>)
    OBVIOUS
  <1>2. ASSUME NEW s, NEW h \in Nat, s # << >>, Ends(s, h + 1)
        PROVE  Ends(<<a, b, c, d, e>> \o s, h + 1) /\ <<a, b, c, d, e>> \o s # << >>
    <2>1. PICK h1, h2 \in Nat : h1 = h + 1 /\ h2 = h + 2
      BY <1>2
    <2>2. h2 = h1 + 1 /\ h2 >= 2 /\ h1 = h2 - 1 /\ h1 >= 1
      BY <2>1
    <2>3. /\ Leads0(Expect({"T_LBRACKET"}), h1, h1)
          /\ Leads0(Call("parse_expression"), h1, h2)
          /\ Leads0(AddNode(FALSE), h2, h1)
          /\ Leads0(Expect({"T_RBRACKET"}), h1, h1)
      BY <2>2, ExpectLeads, CallLeads, AddLeads DEF Special, Guarded, Loops
    <2>4. Leads1(e, h1, h1)
      <3>1. Leads0(Call("indexes"), h1, h1)
        BY <2>2, LoopLeads DEF Loops
      <3>2. Chain0(<<Call("indexes")>>, h1, h1)
        BY <2>1, <3>1, ListOf10
      <3>3. Chain0(<< >>, h1, h1)
        BY <2>1, ListOf00
      <3> QED
        BY <1>1, <3>2, <3>3, Choice0
    <2>5. /\ Leads(a, h1, h1)
          /\ Leads(b, h1, h2)
          /\ Leads(c, h2, h1)
          /\ Leads(d, h1, h1)
          /\ Leads(e, h1, h1)
      BY <1>1, <2>3, <2>4, Deeper
    <2> QED
      BY <1>2, <2>1, <2>5, Lead5
  <1>3. Enters("indexes", <<a, b, c, d, e>>)
    BY <1>1 DEF indexes
  <1> QED
    BY <1>2, <1>3, LoopBody DEF Loops

\* An element of an array.
LEMMA parse_array_access_exprKept ==
    ASSUME ParseInv, parse_array_access_expr
    PROVE  ParseInv'
  <1>1. PICK a, b, c, d :
           /\ a = Take({"T_IDENT"}, "name")
           /\ b = Push(EmptyVector)
           /\ c = Call("indexes")
           /\ d = Make("N_ARRAY_ACCESS_EXPR", 2)
    OBVIOUS
  <1>2. ASSUME NEW s, NEW h \in Nat, s # << >>, Ends(s, h + 1)
        PROVE  Ends(<<a, b, c, d>> \o s, h) /\ <<a, b, c, d>> \o s # << >>
    <2>1. PICK h1, h2 \in Nat : h1 = h + 1 /\ h2 = h + 2
      BY <1>2
    <2>2. h1 = h + 1 /\ h2 = h1 + 1 /\ h2 >= 1 /\ 2 <= h2 /\ h1 = h2 - 2 + 1
      BY <2>1
    <2>3. Leads0(Make("N_ARRAY_ACCESS_EXPR", 2), h2, h1)
      BY <2>2, MakeLeads
    <2>4. /\ Leads0(Take({"T_IDENT"}, "name"), h, h1)
          /\ Leads0(Push(EmptyVector), h1, h2)
          /\ Leads0(Call("indexes"), h2, h2)
      BY <2>2, TakeLeads, PushLeads, LoopLeads DEF Loops
    <2>5. /\ Leads(a, h, h1)
          /\ Leads(b, h1, h2)
          /\ Leads(c, h2, h2)
          /\ Leads(d, h2, h1)
      BY <1>1, <2>3, <2>4, Deeper
    <2> QED
      BY <1>2, <2>1, <2>5, Lead4
  <1>3. Enters("parse_array_access_expr", <<a, b, c, d>>)
    BY <1>1 DEF parse_array_access_expr
  <1> QED
    BY <1>2, <1>3, Body DEF Loops

-----------------------------------------------------------------------------
(* The functions that choose *)

\* The lookahead is not the last token unless it is T_EOF.
LEMMA NotLast ==
    ASSUME Listed, NEW i \in 1 .. Len(tokens), tokens[i].type # "T_EOF"
    PROVE  i + 1 \in 1 .. Len(tokens)
  BY DEF Listed

\* A function whose value is that of another.
LEMMA CallsOn ==
    ASSUME ParseInv, NEW f, f \notin Loops \cup {"dimensions", "parse"}, Called(f),
           NEW g, g \notin Special, Run(<<Call(g)>>)
    PROVE  ParseInv'
  <1>1. ASSUME NEW s, NEW h \in Nat, s # << >>, Ends(s, h + 1)
        PROVE  Ends(<<Call(g)>> \o s, h) /\ <<Call(g)>> \o s # << >>
    <2>1. PICK k \in Nat : k = h + 1
      BY <1>1
    <2>2. Leads(Call(g), h, k)
      BY <2>1, CallLeads, Deeper
    <2> QED
      BY <1>1, <2>1, <2>2, Lead1
  <1> QED
    BY <1>1, Body DEF Enters

\* A function that is chosen by the tokens it begins with.
LEMMA CallsForeseen ==
    ASSUME ParseInv, NEW f, f \notin Loops \cup {"dimensions", "parse"}, Called(f),
           NEW g \in Guarded, Foreseen(g, cursor), Run(<<Call(g)>>)
    PROVE  ParseInv'
  <1>1. PICK s : s = Tail(calls)
    OBVIOUS
  <1>2. status = "running" /\ IsList(s) /\ s # << >> /\ Ends(s, Len(built) + 1)
    BY <1>1, Entered
  <1>3. IsList(<<Call(g)>> \o s) /\ Ahead(<<Call(g)>> \o s, s, cursor)
    BY <1>2, ConsList DEF Ahead
  <1> QED
    BY <1>1, <1>2, <1>3, Foretold

\* parse(): the program is made of the statements.
LEMMA parseKept ==
    ASSUME ParseInv, parse
    PROVE  ParseInv'
  <1>1. CASE Stop("log_error")
    BY <1>1, Stopped
  <1>2. CASE Run(<<Call("parse_statements"), Make("N_PROGRAM", 1)>>)
    <2>1. status = "running" /\ Tail(calls) = << >> /\ built = << >>
      BY Entered DEF parse
    <2>2. IsList(<< >>) /\ Ends(<< >>, 1)
      BY EmptyEnds DEF Ends
    <2>3. Leads(Root, 1, 1)
      <3>1. Leads0(Root, 1, 1)
        BY DEF Leads0, Root, Make
      <3> QED
        BY <3>1, Deeper
    <2>4. PICK t : t = <<Root>> \o << >>
      OBVIOUS
    <2>5. Ends(t, 1) /\ t # << >>
      BY <2>2, <2>3, <2>4, ConsEnds, ConsList
    <2>6. Leads(Call("parse_statements"), 0, 1)
      <3>1. Leads0(Call("parse_statements"), 0, 1)
        BY DEF Leads0, Call, Special, Guarded, Loops
      <3> QED
        BY <3>1, Deeper
    <2>7. Ends(<<Call("parse_statements")>> \o t, 0) /\ <<Call("parse_statements")>> \o t # << >>
      BY <2>5, <2>6, Lead1
    <2>8. <<Call("parse_statements"), Root>> \o << >> = <<Call("parse_statements")>> \o t
      BY <2>2, <2>4, Cons2
    <2>9. Len(built) = 0
      BY <2>1
    <2>10. PICK steps : steps = <<Call("parse_statements"), Root>>
      OBVIOUS
    <2>11. Run(steps) /\ Ends(steps \o Tail(calls), 0) /\ steps \o Tail(calls) # << >>
      BY <1>2, <2>1, <2>7, <2>8, <2>10 DEF Root
    <2> QED
      BY <2>1, <2>9, <2>11, Replaced
  <1> QED
    BY <1>1, <1>2 DEF parse

\* The loop of parse_statements.
LEMMA parse_statementsKept ==
    ASSUME ParseInv, parse_statements
    PROVE  ParseInv'
  <1>1. PICK a, b, c : a = Push(EmptyVector) /\ b = Call("parse_statement") /\ c = AddStatement
    OBVIOUS
  <1>2. ASSUME NEW s, NEW h \in Nat, s # << >>, Ends(s, h + 1)
        PROVE  Ends(<<a, b, c>> \o s, h) /\ <<a, b, c>> \o s # << >>
    <2>1. PICK h1, h2 \in Nat : h1 = h + 1 /\ h2 = h + 2
      BY <1>2
    <2>2. h2 >= 2 /\ h1 = h2 - 1 /\ h2 = h1 + 1
      BY <2>1
    <2>3. Leads(c, h2, h1) /\ Leads(a, h, h1)
      BY <1>1, <2>1, <2>2, StatementLeads, PushLeads, Deeper
    <2>4. PICK t, u : t = <<c>> \o s /\ u = <<b>> \o t
      OBVIOUS
    <2>5. IsList(s) /\ IsList(t) /\ IsList(u) /\ t # << >> /\ Head(t) = AddStatement /\ u # << >>
      <3>1. IsList(s)
        BY <1>2 DEF Ends
      <3>2. IsList(t) /\ t # << >> /\ Head(t) = AddStatement
        BY <1>1, <2>4, <3>1, ConsList
      <3> QED
        BY <2>4, <3>1, <3>2, ConsList
    <2>6. Ends(t, h2)
      BY <1>2, <2>1, <2>3, <2>4, Lead1
    <2>7. Ends(u, h1)
      BY <1>1, <2>2, <2>4, <2>5, <2>6, ConsEnds
    <2>8. Ends(<<a>> \o u, h) /\ <<a>> \o u # << >>
      BY <2>3, <2>5, <2>7, Lead1
    <2>9. <<a, b, c>> \o s = <<a>> \o u
      <3>1. <<a, b, c>> \o s = <<a>> \o (<<b, c>> \o s)
        BY <2>5, Cons3
      <3>2. <<b, c>> \o s = <<b>> \o t
        BY <2>4, <2>5, Cons2
      <3> QED
        BY <2>4, <3>1, <3>2
    <2> QED
      BY <2>8, <2>9
  <1>3. Enters("parse_statements", <<a, b, c>>)
    BY <1>1 DEF parse_statements
  <1> QED
    BY <1>2, <1>3, Body DEF Loops

\* The statement its first token tells.
LEMMA ByFirstToken ==
    ASSUME ParseInv, Called("parse_statement"), lookahead.type \in DOMAIN StatementOf,
           Run(<<Call(StatementOf[lookahead.type])>>)
    PROVE  ParseInv'
  <1>1. cursor \in 1 .. Len(tokens)
    BY DEF ParseInv
  <1>2. PICK g : g = StatementOf[lookahead.type]
    OBVIOUS
  <1>3. "parse_statement" \notin Loops \cup {"dimensions", "parse"}
    BY DEF Loops
  <1>4. CASE lookahead.type \in PrimitiveTypes
    <2>1. g = "parse_var_decl"
      BY <1>2, <1>4 DEF StatementOf, PrimitiveTypes
    <2>2. g \in Guarded /\ Foreseen(g, cursor)
      BY <1>1, <1>4, <2>1 DEF Guarded, Foreseen, Is, lookahead
    <2> QED
      BY <1>2, <1>3, <2>2, CallsForeseen
  <1>5. CASE lookahead.type \notin PrimitiveTypes
    <2>1. g \in {"parse_block_stmt", "parse_while_stmt", "parse_if_stmt", "parse_function_decl",
                 "parse_goto_stmt", "parse_return_stmt", "parse_expression"}
      BY <1>2, <1>5 DEF StatementOf, PrimitiveTypes
    <2>2. g \notin Special
      BY <2>1 DEF Special, Guarded, Loops
    <2> QED
      BY <1>2, <1>3, <2>2, CallsOn
  <1> QED
    BY <1>4, <1>5

\* What begins with a name.
LEMMA IdentStatementKept ==
    ASSUME ParseInv, Called("parse_statement"), IdentStatement
    PROVE  ParseInv'
  <1>1. "parse_statement" \notin Loops \cup {"dimensions", "parse"}
    BY DEF Loops
  <1>2. CASE Run(<<Call("parse_expression")>>)
    <2>1. "parse_expression" \notin Special
      BY DEF Special, Guarded, Loops
    <2> QED
      BY <1>1, <1>2, <2>1, CallsOn
  <1>3. CASE Run(<<Call("parse_label_decl")>>)
    <2>1. "parse_label_decl" \notin Special
      BY DEF Special, Guarded, Loops
    <2> QED
      BY <1>1, <1>3, <2>1, CallsOn
  <1>4. CASE Stop("log_error")
    BY <1>4, Stopped
  <1> QED
    BY <1>2, <1>3, <1>4 DEF IdentStatement

\* What begins with struct: the name is passed, to see the token after it.
LEMMA StructStatementKept ==
    ASSUME ParseInv, Called("parse_statement"), StructStatement
    PROVE  ParseInv'
  <1>1. PICK s : s = Tail(calls)
    OBVIOUS
  <1>2. /\ status = "running" /\ IsList(s) /\ s # << >> /\ Len(built) \in Nat
        /\ Ends(s, Len(built) + 1)
    BY <1>1, Entered DEF Loops
  <1>3. CASE peek.type = "T_IDENT" /\ Run(<<Consume, VarIf>>)
    <2>1. /\ cursor \in 1 .. Len(tokens) /\ Listed
          /\ tokens[cursor].type = "T_STRUCT" /\ tokens[cursor + 1].type = "T_IDENT"
      BY <1>3 DEF ParseInv, StructStatement, lookahead, peek
    <2>2. Is(cursor, {"T_STRUCT"}) /\ Is(cursor + 1, {"T_IDENT"})
      BY <2>1, NotLast DEF Is
    <2>3. PICK steps, t : steps = <<Consume, VarIf>> /\ t = <<VarIf>> \o s
      OBVIOUS
    <2>4. steps \o s = <<Consume>> \o t /\ IsList(<<Consume>> \o t)
      BY <1>2, <2>3, Cons2, ConsList
    <2>5. Ahead(<<Consume>> \o t, s, cursor)
      BY <2>2, <2>3 DEF Ahead
    <2> QED
      BY <1>1, <1>2, <1>3, <2>3, <2>4, <2>5, Foretold
  <1>4. CASE Run(<<Push(NULL)>>)
    <2>1. PICK h, k \in Nat : h = Len(built) /\ k = h + 1
      BY <1>2
    <2>2. Leads(Push(NULL), h, k)
      BY <2>1, PushLeads, Deeper
    <2>3. Ends(<<Push(NULL)>> \o s, h) /\ <<Push(NULL)>> \o s # << >>
      BY <1>2, <2>1, <2>2, Lead1
    <2> QED
      BY <1>1, <1>2, <1>4, <2>1, <2>3, Replaced
  <1> QED
    BY <1>3, <1>4 DEF StructStatement, VarIf, StructIf

\* The empty statement.
LEMMA EmptyStatementKept ==
    ASSUME ParseInv, Called("parse_statement"), EmptyStatement
    PROVE  ParseInv'
  <1>1. ASSUME NEW s, NEW h \in Nat, s # << >>, Ends(s, h + 1)
        PROVE  Ends(<<Consume, Push(NULL)>> \o s, h) /\ <<Consume, Push(NULL)>> \o s # << >>
    <2>1. PICK k \in Nat : k = h + 1
      BY <1>1
    <2>2. Leads(Consume, h, h) /\ Leads(Push(NULL), h, k)
      BY <2>1, ConsumeLeads, PushLeads, Deeper
    <2> QED
      BY <1>1, <2>1, <2>2, Lead2
  <1>2. Enters("parse_statement", <<Consume, Push(NULL)>>)
    BY DEF Enters, EmptyStatement
  <1> QED
    BY <1>1, <1>2, Body DEF Loops

\* The end of the loop: neither the statement nor what is done with it is left.
LEMMA NoStatementKept ==
    ASSUME ParseInv, Called("parse_statement"), NoStatement
    PROVE  ParseInv'
  <1>1. PICK s, h : s = Tail(calls) /\ h = Len(built)
    OBVIOUS
  <1>2. /\ status = "running" /\ IsList(s) /\ s # << >> /\ Ends(s, h + 1) /\ h \in Nat
        /\ Head(s) = AddStatement
    BY <1>1, Entered DEF Loops
  <1>3. PICK k \in Nat :
           /\ Ends(Tail(s), k)
           /\ \/ Leads(Head(s), h + 1, k)
              \/ Head(s) = Call("parse_statement")
    BY <1>2, UnconsEnds
  <1>4. Head(s).step = "statement" /\ Tail(s) # << >> /\ IsList(Tail(s))
    BY <1>2, UnconsEnds, Kinds
  <1>5. k = h
    <2>1. Leads(Head(s), h + 1, k) /\ h + 1 \in Nat
      BY <1>2, <1>3, <1>4, Kinds
    <2>2. k = (h + 1) - 1
      BY <1>4, <2>1, StepsLead
    <2> QED
      BY <1>2, <2>2
  <1>6. /\ calls' = Tail(s) /\ UNCHANGED <<tokens, cursor, built, wild, status>>
    BY <1>1 DEF NoStatement
  <1>7. Going(calls', built', cursor')
    BY <1>1, <1>3, <1>4, <1>5, <1>6 DEF Going
  <1>8. /\ cursor' \in 1 .. Len(tokens) /\ wild' \in BOOLEAN /\ IsList(built') /\ IsList(calls')
    BY <1>2, <1>4, <1>6 DEF ParseInv
  <1> QED
    BY <1>2, <1>6, <1>7, <1>8, GoesOn

\* A statement.
LEMMA parse_statementKept ==
    ASSUME ParseInv, parse_statement
    PROVE  ParseInv'
  <1>1. Called("parse_statement")
    BY DEF parse_statement
  <1>2. CASE /\ lookahead.type \in DOMAIN StatementOf
             /\ Run(<<Call(StatementOf[lookahead.type])>>)
    BY <1>1, <1>2, ByFirstToken
  <1>3. CASE Stop("abort")
    BY <1>3, Stopped
  <1>4. CASE IdentStatement
    BY <1>1, <1>4, IdentStatementKept
  <1>5. CASE StructStatement
    BY <1>1, <1>5, StructStatementKept
  <1>6. CASE EmptyStatement
    BY <1>1, <1>6, EmptyStatementKept
  <1>7. CASE NoStatement
    BY <1>1, <1>7, NoStatementKept
  <1> QED
    BY <1>2, <1>3, <1>4, <1>5, <1>6, <1>7 DEF parse_statement

\* An expression.
LEMMA parse_expressionKept ==
    ASSUME ParseInv, parse_expression
    PROVE  ParseInv'
  <1>1. /\ Called("parse_expression") /\ cursor \in 1 .. Len(tokens)
        /\ "parse_expression" \notin Loops \cup {"dimensions", "parse"}
    BY DEF parse_expression, ParseInv, Loops
  <1>2. CASE Run(<<Call("parse_and_expr")>>)
    <2>1. "parse_and_expr" \notin Special
      BY DEF Special, Guarded, Loops
    <2> QED
      BY <1>1, <1>2, <2>1, CallsOn
  <1>3. CASE lookahead.type = "T_ASSIGN" /\ Run(<<Call("parse_assign_expr")>>)
    <2>1. "parse_assign_expr" \in Guarded /\ Foreseen("parse_assign_expr", cursor)
      BY <1>1, <1>3 DEF Guarded, Foreseen, Is, lookahead
    <2> QED
      BY <1>1, <1>3, <2>1, CallsForeseen
  <1>4. CASE Run(<<Call("parse_array_init_expr")>>)
    <2>1. "parse_array_init_expr" \notin Special
      BY DEF Special, Guarded, Loops
    <2> QED
      BY <1>1, <1>4, <2>1, CallsOn
  <1>5. CASE Stop("log_error")
    BY <1>5, Stopped
  <1> QED
    BY <1>2, <1>3, <1>4, <1>5 DEF parse_expression

\* A name and "." are passed, to see what follows.
LEMMA DotPrimary ==
    ASSUME ParseInv, Called("parse_primary_expr"), lookahead.type = "T_IDENT",
           peek.type = "T_DOT", Run(<<Consume, DotIf>>)
    PROVE  ParseInv'
  <1>1. PICK s : s = Tail(calls)
    OBVIOUS
  <1>2. status = "running" /\ IsList(s) /\ s # << >> /\ Ends(s, Len(built) + 1)
    BY <1>1, Entered DEF Loops
  <1>3. /\ cursor \in 1 .. Len(tokens) /\ Listed
        /\ tokens[cursor].type = "T_IDENT" /\ tokens[cursor + 1].type = "T_DOT"
    BY DEF ParseInv, lookahead, peek
  <1>4. Is(cursor, {"T_IDENT"}) /\ Is(cursor + 1, {"T_DOT"})
    BY <1>3, NotLast DEF Is
  <1>5. PICK steps, t : steps = <<Consume, DotIf>> /\ t = <<DotIf>> \o s
    OBVIOUS
  <1>6. steps \o s = <<Consume>> \o t /\ IsList(<<Consume>> \o t)
    BY <1>2, <1>5, Cons2, ConsList
  <1>7. Ahead(<<Consume>> \o t, s, cursor)
    BY <1>4, <1>5 DEF Ahead
  <1> QED
    BY <1>1, <1>2, <1>5, <1>6, <1>7, Foretold

\* What begins with a name.
LEMMA IdentPrimaryKept ==
    ASSUME ParseInv, Called("parse_primary_expr"), lookahead.type = "T_IDENT", IdentPrimary
    PROVE  ParseInv'
  <1>1. /\ cursor \in 1 .. Len(tokens) /\ Listed /\ tokens[cursor].type = "T_IDENT"
        /\ "parse_primary_expr" \notin Loops \cup {"dimensions", "parse"}
    BY DEF ParseInv, lookahead, Loops
  <1>2. cursor + 1 \in 1 .. Len(tokens)
    BY <1>1, NotLast
  <1>3. Is(cursor, {"T_IDENT"}) /\ \A t : peek.type = t => Is(cursor + 1, {t})
    BY <1>1, <1>2 DEF Is, peek
  <1>4. CASE peek.type = "T_LPAREN" /\ Run(<<Call("parse_call_expr")>>)
    <2>1. "parse_call_expr" \in Guarded /\ Foreseen("parse_call_expr", cursor)
      BY <1>3, <1>4 DEF Guarded, Foreseen
    <2> QED
      BY <1>1, <1>4, <2>1, CallsForeseen
  <1>5. CASE peek.type = "T_DOT" /\ Run(<<Consume, DotIf>>)
    BY <1>5, DotPrimary
  <1>6. CASE peek.type = "T_LBRACKET" /\ Run(<<Call("parse_assign_expr")>>)
    <2>1. Is(cursor + 1, {"T_ASSIGN", "T_LBRACKET"})
      BY <1>2, <1>6 DEF Is, peek
    <2>2. "parse_assign_expr" \in Guarded /\ Foreseen("parse_assign_expr", cursor)
      BY <1>3, <2>1 DEF Guarded, Foreseen
    <2> QED
      BY <1>1, <1>6, <2>2, CallsForeseen
  <1>7. CASE peek.type = "T_LBRACKET" /\ Run(<<Call("parse_array_access_expr")>>)
    <2>1. "parse_array_access_expr" \in Guarded /\ Foreseen("parse_array_access_expr", cursor)
      BY <1>3, <1>7 DEF Guarded, Foreseen
    <2> QED
      BY <1>1, <1>7, <2>1, CallsForeseen
  <1>8. CASE peek.type = "T_ASSIGN" /\ Run(<<Call("parse_assign_expr")>>)
    <2>1. Is(cursor + 1, {"T_ASSIGN", "T_LBRACKET"})
      BY <1>2, <1>8 DEF Is, peek
    <2>2. "parse_assign_expr" \in Guarded /\ Foreseen("parse_assign_expr", cursor)
      BY <1>3, <2>1 DEF Guarded, Foreseen
    <2> QED
      BY <1>1, <1>8, <2>2, CallsForeseen
  <1>9. CASE Stop("log_error")
    BY <1>9, Stopped
  <1>10. CASE Run(<<Note({"T_IDENT"}, "name"), Make("N_IDENT", 1), Consume>>)
    <2>1. PICK a, b, c : a = Note({"T_IDENT"}, "name") /\ b = Make("N_IDENT", 1) /\ c = Consume
      OBVIOUS
    <2>2. ASSUME NEW s, NEW h \in Nat, s # << >>, Ends(s, h + 1)
          PROVE  Ends(<<a, b, c>> \o s, h) /\ <<a, b, c>> \o s # << >>
      <3>1. PICK k \in Nat : k = h + 1
        BY <2>2
      <3>2. 1 <= k /\ k = k - 1 + 1
        BY <3>1
      <3>3. Leads0(a, h, k) /\ Leads0(b, k, k) /\ Leads0(c, k, k)
        BY <2>1, <3>1, <3>2, NoteLeads, MakeLeads, ConsumeLeads
      <3>4. Leads(a, h, k) /\ Leads(b, k, k) /\ Leads(c, k, k)
        BY <3>3, Deeper
      <3> QED
        BY <2>2, <3>1, <3>4, Lead3
    <2>3. Enters("parse_primary_expr", <<a, b, c>>)
      BY <1>10, <2>1 DEF Enters
    <2> QED
      BY <1>1, <2>2, <2>3, Body
  <1> QED
    BY <1>4, <1>5, <1>6, <1>7, <1>8, <1>9, <1>10 DEF IdentPrimary, DotIf, AccessIf

\* A primary expression.
LEMMA parse_primary_exprKept ==
    ASSUME ParseInv, parse_primary_expr
    PROVE  ParseInv'
  <1>1. /\ Called("parse_primary_expr")
        /\ "parse_primary_expr" \notin Loops \cup {"dimensions", "parse"}
    BY DEF parse_primary_expr, Loops
  <1>2. \A h \in Nat : \E k \in Nat : k = h + 1 /\ 0 <= h /\ k = h - 0 + 1
    OBVIOUS
  <1>3. CASE Run(<<Take(LiteralTypes, "literal")>>)
    <2>1. ASSUME NEW s, NEW h \in Nat, s # << >>, Ends(s, h + 1)
          PROVE  /\ Ends(<<Take(LiteralTypes, "literal")>> \o s, h)
                 /\ <<Take(LiteralTypes, "literal")>> \o s # << >>
      <3>1. PICK k \in Nat : k = h + 1
        BY <2>1
      <3>2. Leads(Take(LiteralTypes, "literal"), h, k)
        BY <3>1, TakeLeads, Deeper
      <3> QED
        BY <2>1, <3>1, <3>2, Lead1
    <2> QED
      BY <1>1, <1>3, <2>1, Body DEF Enters
  <1>4. CASE Run(<<Make("N_NIL", 0), Consume>>)
    <2>1. ASSUME NEW s, NEW h \in Nat, s # << >>, Ends(s, h + 1)
          PROVE  /\ Ends(<<Make("N_NIL", 0), Consume>> \o s, h)
                 /\ <<Make("N_NIL", 0), Consume>> \o s # << >>
      <3>1. PICK k \in Nat : k = h + 1 /\ 0 <= h /\ k = h - 0 + 1
        BY <1>2, <2>1
      <3>2. Leads(Make("N_NIL", 0), h, k) /\ Leads(Consume, k, k)
        BY <3>1, MakeLeads, ConsumeLeads, Deeper
      <3> QED
        BY <2>1, <3>1, <3>2, Lead2
    <2> QED
      BY <1>1, <1>4, <2>1, Body DEF Enters
  <1>5. CASE lookahead.type = "T_IDENT" /\ IdentPrimary
    BY <1>1, <1>5, IdentPrimaryKept
  <1>6. CASE Run(<<Consume, Call("parse_expression"), Consume>>)
    <2>1. ASSUME NEW s, NEW h \in Nat, s # << >>, Ends(s, h + 1)
          PROVE  /\ Ends(<<Consume, Call("parse_expression"), Consume>> \o s, h)
                 /\ <<Consume, Call("parse_expression"), Consume>> \o s # << >>
      <3>1. PICK k \in Nat : k = h + 1
        BY <2>1
      <3>2. Leads0(Call("parse_expression"), h, k)
        BY <3>1, CallLeads DEF Special, Guarded, Loops
      <3>3. /\ Leads(Consume, h, h) /\ Leads(Call("parse_expression"), h, k)
            /\ Leads(Consume, k, k)
        BY <3>2, ConsumeLeads, Deeper
      <3> QED
        BY <2>1, <3>1, <3>3, Lead3
    <2> QED
      BY <1>1, <1>6, <2>1, Body DEF Enters
  <1>7. CASE Run(<<Unassigned, Consume>>)
    <2>1. ASSUME NEW s, NEW h \in Nat, s # << >>, Ends(s, h + 1)
          PROVE  Ends(<<Unassigned, Consume>> \o s, h) /\ <<Unassigned, Consume>> \o s # << >>
      <3>1. PICK k \in Nat : k = h + 1
        BY <2>1
      <3>2. Leads(Unassigned, h, k) /\ Leads(Consume, k, k)
        BY <3>1, UnassignedLeads, ConsumeLeads, Deeper
      <3> QED
        BY <2>1, <3>1, <3>2, Lead2
    <2> QED
      BY <1>1, <1>7, <2>1, Body DEF Enters
  <1> QED
    BY <1>3, <1>4, <1>5, <1>6, <1>7 DEF parse_primary_expr

\* An assignment: what stands before ":=" is a function chosen by the same tokens, or
\* a name.
LEMMA parse_assign_exprKept ==
    ASSUME ParseInv, parse_assign_expr
    PROVE  ParseInv'
  <1>1. CASE Stop("syntax_error")
    BY <1>1, Stopped
  <1>2. CASE /\ lookahead.type = "T_IDENT"
             /\ Run(Target \o <<Expect({"T_ASSIGN"}), Call("parse_expression"),
                                Expect({"T_SEMICOLON"}), Make("N_ASSIGN_EXPR", 2)>>)
    <2>1. PICK s, h : s = Tail(calls) /\ h = Len(built)
      OBVIOUS
    <2>2. /\ status = "running" /\ IsList(s) /\ s # << >> /\ h \in Nat /\ Ends(s, h + 1)
          /\ Foreseen("parse_assign_expr", cursor)
      BY <2>1, Entered DEF parse_assign_expr, Guarded, Loops
    <2>3. PICK h1, h2 \in Nat : h1 = h + 1 /\ h2 = h + 2
      BY <2>2
    <2>4. h2 = h1 + 1 /\ 2 <= h2 /\ h1 = h2 - 2 + 1 /\ 1 <= h1 /\ h1 = h1 - 1 + 1
      BY <2>2, <2>3
    <2>5. PICK a, b, c, d : /\ a = Expect({"T_ASSIGN"}) /\ b = Call("parse_expression")
                            /\ c = Expect({"T_SEMICOLON"}) /\ d = Make("N_ASSIGN_EXPR", 2)
      OBVIOUS
    <2>6. Leads0(b, h1, h2)
      BY <2>4, <2>5, CallLeads DEF Special, Guarded, Loops
    <2>7. Leads0(a, h1, h1) /\ Leads0(c, h2, h2) /\ Leads0(d, h2, h1)
      BY <2>4, <2>5, ExpectLeads, MakeLeads
    <2>8. PICK q, t : q = <<a, b, c, d>> /\ t = q \o s
      OBVIOUS
    <2>9. Ends(t, h1) /\ t # << >> /\ IsList(t)
      <3>1. Leads(a, h1, h1) /\ Leads(b, h1, h2) /\ Leads(c, h2, h2) /\ Leads(d, h2, h1)
        BY <2>6, <2>7, Deeper
      <3>2. Ends(t, h1) /\ t # << >>
        BY <2>2, <2>3, <2>8, <3>1, Lead4
      <3> QED
        BY <3>2 DEF Ends
    <2>10. Run(Target \o q) /\ IsList(q)
      BY <1>2, <2>5, <2>8, ListOfFour
    <2>11. \A x : IsList(x) => (x \o q) \o s = x \o t
      BY <2>2, <2>8, <2>10, TwoParts
    <2>12. ASSUME NEW g \in Guarded, Foreseen(g, cursor), Target = <<Call(g)>>
           PROVE  ParseInv'
      <3>1. (Target \o q) \o s = <<Call(g)>> \o t /\ IsList(<<Call(g)>> \o t)
        BY <2>9, <2>11, <2>12, ListOfOne, ConsList
      <3>2. Ahead(<<Call(g)>> \o t, t, cursor)
        BY <2>12 DEF Ahead
      <3> QED
        BY <2>1, <2>2, <2>3, <2>9, <2>10, <3>1, <3>2, Foretold
    <2>13. CASE peek.type = "T_DOT"
      <3>1. Target = <<Call("parse_struct_access_expr")>>
        BY <2>13 DEF Target
      <3>2. Foreseen("parse_struct_access_expr", cursor)
        BY <1>2, <2>2, <2>13 DEF Foreseen, Is, lookahead, peek
      <3> QED
        BY <2>12, <3>1, <3>2 DEF Guarded
    <2>14. CASE peek.type = "T_LBRACKET"
      <3>1. Target = <<Call("parse_array_access_expr")>>
        BY <2>14 DEF Target
      <3>2. Foreseen("parse_array_access_expr", cursor)
        BY <1>2, <2>2, <2>14 DEF Foreseen, Is, lookahead, peek
      <3> QED
        BY <2>12, <3>1, <3>2 DEF Guarded
    <2>15. CASE peek.type \notin {"T_DOT", "T_LBRACKET"}
      <3>1. PICK e, f, x : e = Take({"T_IDENT"}, "name") /\ f = Make("N_IDENT", 1) /\ x = <<e, f>>
        OBVIOUS
      <3>2. Target = x /\ IsList(x)
        BY <2>15, <3>1, ListOfTwo DEF Target
      <3>3. Leads0(e, h, h1) /\ Leads0(f, h1, h1)
        BY <2>2, <2>3, <2>4, <3>1, TakeLeads, MakeLeads
      <3>4. Leads(e, h, h1) /\ Leads(f, h1, h1)
        BY <3>3, Deeper
      <3>5. Ends(x \o t, h) /\ x \o t # << >>
        BY <2>2, <2>9, <3>1, <3>4, Lead2
      <3>6. (x \o q) \o s = x \o t
        BY <2>11, <3>2
      <3> QED
        BY <2>1, <2>2, <2>10, <3>2, <3>5, <3>6, Replaced
    <2> QED
      BY <2>13, <2>14, <2>15
  <1> QED
    BY <1>1, <1>2 DEF parse_assign_expr

\* The brackets after a type leave nothing.
LEMMA dimensionsKept ==
    ASSUME ParseInv, dimensions
    PROVE  ParseInv'
  <1>1. PICK a : a = If({"T_LBRACKET"},
                        <<Consume, Expect({"T_RBRACKET"}), Call("dimensions")>>, << >>)
    OBVIOUS
  <1>2. Called("dimensions") /\ Run(<<a>>)
    BY <1>1 DEF dimensions, Enters
  <1>3. PICK s, h : s = Tail(calls) /\ h = Len(built)
    OBVIOUS
  <1>4. status = "running" /\ h \in Nat /\ s # << >> /\ Ends(s, h)
    BY <1>2, <1>3, Entered DEF Loops
  <1>5. Leads1(a, h, h)
    <2>1. Leads0(Consume, h, h) /\ Leads0(Expect({"T_RBRACKET"}), h, h)
          /\ Leads0(Call("dimensions"), h, h)
      BY ConsumeLeads, ExpectLeads, DimensionsLead
    <2>2. Chain0(<<Consume, Expect({"T_RBRACKET"}), Call("dimensions")>>, h, h)
      BY <1>4, <2>1, ListOf30
    <2>3. Chain0(<< >>, h, h)
      BY ListOf00
    <2> QED
      BY <1>1, <2>2, <2>3, Choice0
  <1>6. Ends(<<a>> \o s, h) /\ <<a>> \o s # << >>
    BY <1>4, <1>5, Deeper, Lead1
  <1> QED
    BY <1>2, <1>3, <1>4, <1>6, Replaced

-----------------------------------------------------------------------------
(* The operations *)

\* A step is done, and those left lead on from the values at hand.
LEMMA Does ==
    ASSUME ParseInv, status = "running", NEW values, Done(values),
           cursor' \in 1 .. Len(tokens), IsList(values), Ends(Tail(calls), Len(values)),
           Tail(calls) = << >> => Last(values).node = "N_PROGRAM"
    PROVE  ParseInv'
  <1>1. /\ calls' = Tail(calls) /\ built' = values /\ UNCHANGED <<tokens, wild, status>>
    BY DEF Done
  <1>2. IsList(calls') /\ IsList(built') /\ wild' \in BOOLEAN
    BY <1>1 DEF ParseInv, Ends
  <1>3. Going(calls', built', cursor')
    BY <1>1 DEF Going
  <1> QED
    BY <1>1, <1>2, <1>3, GoesOn

\* The same, and the lookahead is consumed.
LEMMA Advances ==
    ASSUME ParseInv, status = "running", NEW values, Advance(values), IsList(values),
           Ends(Tail(calls), Len(values)), Tail(calls) # << >>
    PROVE  ParseInv'
  <1>1. cursor \in 1 .. Len(tokens) /\ Len(tokens) \in Nat
    BY DEF ParseInv, Listed
  <1>2. CASE Stop("log_error")
    BY <1>2, Stopped
  <1>3. CASE cursor # Len(tokens) /\ cursor' = cursor + 1 /\ Done(values)
    <2>1. cursor' \in 1 .. Len(tokens)
      BY <1>1, <1>3
    <2> QED
      BY <1>3, <2>1, Does
  <1> QED
    BY <1>2, <1>3 DEF Advance

\* get_token() where the lookahead is what is expected.
LEMMA ReadExpectedKept ==
    ASSUME ParseInv, ReadExpected
    PROVE  ParseInv'
  <1>1. At("expect") /\ lookahead.type \in Head(calls).types /\ Advance(built)
    BY DEF ReadExpected, Reading
  <1>2. /\ status = "running" /\ Head(calls).step = "expect"
        /\ IsList(built) /\ Len(built) \in Nat
        /\ Tail(calls) = << >> => Head(calls) = Root
    BY <1>1, PlainStep
  <1>3. PICK k \in Nat : Leads(Head(calls), Len(built), k) /\ Ends(Tail(calls), k)
    BY <1>1, PlainStep
  <1>4. k = Len(built)
    BY <1>2, <1>3, StepsLead
  <1>5. Tail(calls) # << >>
    BY <1>2, Kinds
  <1> QED
    BY <1>1, <1>2, <1>3, <1>4, <1>5, Advances

\* The same, keeping what it says.
LEMMA ReadTakenKept ==
    ASSUME ParseInv, ReadTaken
    PROVE  ParseInv'
  <1>1. PICK values : values = Append(built, Said(Head(calls).what))
    OBVIOUS
  <1>2. At("take") /\ Advance(values)
    BY <1>1 DEF ReadTaken, Reading
  <1>3. /\ status = "running" /\ Head(calls).step = "take"
        /\ IsList(built) /\ Len(built) \in Nat
        /\ Tail(calls) = << >> => Head(calls) = Root
    BY <1>2, PlainStep
  <1>4. PICK k \in Nat : Leads(Head(calls), Len(built), k) /\ Ends(Tail(calls), k)
    BY <1>2, PlainStep
  <1>5. k = Len(built) + 1
    BY <1>3, <1>4, StepsLead
  <1>6. IsList(values) /\ Len(values) = k
    BY <1>1, <1>3, <1>5, AppendList
  <1>7. Tail(calls) # << >>
    BY <1>3, Kinds
  <1> QED
    BY <1>2, <1>3, <1>4, <1>6, <1>7, Advances

\* A value more at hand, the lookahead as it was.
LEMMA OneMore ==
    ASSUME ParseInv, NEW kind \in {"note", "push"}, At(kind), NEW value,
           Done(Append(built, value)), UNCHANGED cursor
    PROVE  ParseInv'
  <1>1. PICK values : values = Append(built, value)
    OBVIOUS
  <1>2. /\ status = "running" /\ Head(calls).step = kind
        /\ IsList(built) /\ Len(built) \in Nat
        /\ Tail(calls) = << >> => Head(calls) = Root
    BY PlainStep
  <1>3. PICK k \in Nat : Leads(Head(calls), Len(built), k) /\ Ends(Tail(calls), k)
    BY PlainStep
  <1>4. k = Len(built) + 1
    BY <1>2, <1>3, StepsLead
  <1>5. IsList(values) /\ Len(values) = k
    BY <1>1, <1>2, <1>4, AppendList
  <1>6. Tail(calls) # << >> /\ cursor' \in 1 .. Len(tokens)
    BY <1>2, Kinds DEF ParseInv
  <1> QED
    BY <1>1, <1>2, <1>3, <1>5, <1>6, Does

\* A variable that was never assigned.
LEMMA KeepUnassignedKept ==
    ASSUME ParseInv, KeepUnassigned
    PROVE  ParseInv'
  <1>1. At("unassigned")
    BY DEF KeepUnassigned
  <1>2. PICK value : built' = Append(built, value)
    BY DEF KeepUnassigned
  <1>3. wild' = TRUE /\ calls' = Tail(calls) /\ UNCHANGED <<tokens, cursor, status>>
    BY DEF KeepUnassigned
  <1>4. /\ status = "running" /\ Head(calls).step = "unassigned"
        /\ IsList(built) /\ Len(built) \in Nat
        /\ Tail(calls) = << >> => Head(calls) = Root
    BY <1>1, PlainStep
  <1>5. PICK k \in Nat : Leads(Head(calls), Len(built), k) /\ Ends(Tail(calls), k)
    BY <1>1, PlainStep
  <1>6. k = Len(built) + 1
    BY <1>4, <1>5, StepsLead
  <1>7. IsList(built') /\ Len(built') = k
    BY <1>2, <1>4, <1>6, AppendList
  <1>8. Tail(calls) # << >> /\ cursor' \in 1 .. Len(tokens) /\ IsList(calls')
    BY <1>3, <1>4, <1>5, Kinds DEF ParseInv, Ends
  <1>9. Going(calls', built', cursor')
    BY <1>3, <1>5, <1>7, <1>8 DEF Going
  <1> QED
    BY <1>3, <1>4, <1>7, <1>8, <1>9, GoesOn

\* The latest n values replaced.
LEMMA ReplaceList ==
    ASSUME IsList(built), Len(built) \in Nat, NEW n \in Nat, n <= Len(built), NEW value
    PROVE  /\ IsList(Replace(n, value)) /\ Len(Replace(n, value)) = Len(built) - n + 1
           /\ Last(Replace(n, value)) = value
  <1>1. PICK m \in Nat : m = Len(built) - n
    <2>1. Len(built) - n \in Nat
      OBVIOUS
    <2> QED
      BY <2>1
  <1>2. PICK t : t = SubSeq(built, 1, m)
    OBVIOUS
  <1>3. IsList(t) /\ Len(t) = m
    BY <1>1, <1>2, PrefixList
  <1>4. Replace(n, value) = Append(t, value)
    BY <1>1, <1>2 DEF Replace
  <1>5. IsList(Append(t, value)) /\ Len(Append(t, value)) = m + 1 /\ Last(Append(t, value)) = value
    BY <1>3, AppendList
  <1> QED
    BY <1>1, <1>4, <1>5

\* A node; the last one is the program.
LEMMA MakeNodeKept ==
    ASSUME ParseInv, MakeNode
    PROVE  ParseInv'
  <1>1. PICK n, node : n = Head(calls).n /\ node = Node(Head(calls).type, n)
    OBVIOUS
  <1>2. PICK values : values = Replace(n, node)
    OBVIOUS
  <1>3. At("make") /\ Done(values) /\ UNCHANGED cursor
    BY <1>1, <1>2 DEF MakeNode
  <1>4. /\ status = "running" /\ Head(calls).step = "make"
        /\ IsList(built) /\ Len(built) \in Nat
        /\ Tail(calls) = << >> => Head(calls) = Root
    BY <1>3, PlainStep
  <1>5. PICK k \in Nat : Leads(Head(calls), Len(built), k) /\ Ends(Tail(calls), k)
    BY <1>3, PlainStep
  <1>6. n \in Nat /\ n <= Len(built) /\ k = Len(built) - n + 1
    BY <1>1, <1>4, <1>5, StepsLead
  <1>7. IsList(values) /\ Len(values) = k /\ Last(values) = node
    BY <1>2, <1>4, <1>6, ReplaceList
  <1>8. Tail(calls) = << >> => Last(values).node = "N_PROGRAM"
    <2> SUFFICES ASSUME Tail(calls) = << >> PROVE node.node = "N_PROGRAM"
      BY <1>7
    <2>1. Head(calls).type = "N_PROGRAM"
      BY <1>4 DEF Root, Make
    <2>2. \A v : mk_node("N_PROGRAM", v).node = "N_PROGRAM"
      BY DEF mk_node
    <2> QED
      BY <1>1, <2>1, <2>2 DEF Node
  <1>9. cursor' \in 1 .. Len(tokens)
    BY <1>3 DEF ParseInv
  <1> QED
    BY <1>3, <1>4, <1>5, <1>7, <1>8, <1>9, Does

\* The node of an operator.
LEMMA MakeBinopNodeKept ==
    ASSUME ParseInv, MakeBinopNode
    PROVE  ParseInv'
  <1>1. At("binop")
    BY DEF MakeBinopNode
  <1>2. CASE Stop("log_error")
    BY <1>2, Stopped
  <1>3. CASE Done(Replace(3, Node("N_BINOP_EXPR", 3))) /\ UNCHANGED cursor
    <2>1. PICK values : values = Replace(3, Node("N_BINOP_EXPR", 3))
      OBVIOUS
    <2>2. /\ status = "running" /\ Head(calls).step = "binop"
          /\ IsList(built) /\ Len(built) \in Nat
          /\ Tail(calls) = << >> => Head(calls) = Root
      BY <1>1, PlainStep
    <2>3. PICK k \in Nat : Leads(Head(calls), Len(built), k) /\ Ends(Tail(calls), k)
      BY <1>1, PlainStep
    <2>4. 3 <= Len(built) /\ k = Len(built) - 3 + 1
      <3>1. Len(built) >= 3 /\ k = Len(built) - 2
        BY <2>2, <2>3, StepsLead
      <3> QED
        BY <2>2, <3>1
    <2>5. IsList(values) /\ Len(values) = k
      BY <2>1, <2>2, <2>4, ReplaceList
    <2>6. Tail(calls) # << >> /\ cursor' \in 1 .. Len(tokens)
      BY <1>3, <2>2, Kinds DEF ParseInv
    <2> QED
      BY <1>3, <2>1, <2>2, <2>3, <2>5, <2>6, Does
  <1> QED
    BY <1>2, <1>3 DEF MakeBinopNode

\* A node goes into the vector.
LEMMA vector_addKept ==
    ASSUME ParseInv, vector_add
    PROVE  ParseInv'
  <1>1. At("add")
    BY DEF vector_add
  <1>2. CASE Stop("log_error")
    BY <1>2, Stopped
  <1>3. CASE Done(WithNode) /\ UNCHANGED cursor
    <2>1. /\ status = "running" /\ Head(calls).step = "add"
          /\ IsList(built) /\ Len(built) \in Nat
          /\ Tail(calls) = << >> => Head(calls) = Root
      BY <1>1, PlainStep
    <2>2. PICK k \in Nat : Leads(Head(calls), Len(built), k) /\ Ends(Tail(calls), k)
      BY <1>1, PlainStep
    <2>3. 2 <= Len(built) /\ k = Len(built) - 2 + 1
      <3>1. Len(built) >= 2 /\ k = Len(built) - 1
        BY <2>1, <2>2, StepsLead
      <3> QED
        BY <2>1, <3>1
    <2>4. IsList(WithNode) /\ Len(WithNode) = k
      BY <2>1, <2>3, ReplaceList DEF WithNode
    <2>5. Tail(calls) # << >> /\ cursor' \in 1 .. Len(tokens)
      BY <1>3, <2>1, Kinds DEF ParseInv
    <2> QED
      BY <1>3, <2>1, <2>2, <2>4, <2>5, Does
  <1> QED
    BY <1>2, <1>3 DEF vector_add

\* What is known where a statement is to be added: with one value less at hand,
\* either the loop goes on or the vector is left.
LEMMA StatementStep ==
    ASSUME ParseInv, At("statement")
    PROVE  /\ status = "running" /\ IsList(calls) /\ IsList(built) /\ Len(built) \in Nat
           /\ Len(built) >= 2 /\ IsList(<<Call("parse_statement")>> \o calls)
           /\ Tail(calls) # << >> /\ Ends(Tail(calls), Len(built) - 1)
           /\ <<Call("parse_statement")>> \o calls # << >>
           /\ Ends(<<Call("parse_statement")>> \o calls, Len(built) - 1)
  <1>1. /\ status = "running" /\ calls # << >> /\ Head(calls).step = "statement"
        /\ IsList(calls) /\ IsList(built) /\ Len(built) \in Nat
        /\ Tail(calls) = << >> => Head(calls) = Root
    BY PlainStep
  <1>2. PICK k \in Nat : Leads(Head(calls), Len(built), k) /\ Ends(Tail(calls), k)
    BY PlainStep
  <1>3. Len(built) >= 2 /\ k = Len(built) - 1 /\ Head(calls) = AddStatement
    BY <1>1, <1>2, StepsLead
  <1>4. Tail(calls) # << >>
    BY <1>1, Kinds
  <1>5. calls = <<Head(calls)>> \o Tail(calls)
    BY <1>1, UnconsList
  <1>6. Ends(calls, Len(built))
    BY <1>1, <1>2, <1>4, <1>5, Lead1
  <1>7. Len(built) = k + 1
    BY <1>1, <1>3
  <1>8. Ends(<<Call("parse_statement")>> \o calls, k)
    BY <1>1, <1>3, <1>6, <1>7, ConsEnds
  <1> QED
    BY <1>1, <1>2, <1>3, <1>4, <1>8, ConsList

\* No statement to add.
LEMMA AddNoStatementKept ==
    ASSUME ParseInv, AddNoStatement
    PROVE  ParseInv'
  <1>1. /\ At("statement") /\ calls' = <<Call("parse_statement")>> \o calls
        /\ built' = SubSeq(built, 1, Len(built) - 1)
        /\ UNCHANGED <<tokens, cursor, wild, status>>
    BY DEF AddNoStatement, Front
  <1>2. /\ status = "running" /\ IsList(built) /\ Len(built) \in Nat /\ Len(built) >= 2
        /\ IsList(<<Call("parse_statement")>> \o calls)
        /\ <<Call("parse_statement")>> \o calls # << >>
        /\ Ends(<<Call("parse_statement")>> \o calls, Len(built) - 1)
    BY <1>1, StatementStep
  <1>3. Len(built) - 1 \in Nat /\ Len(built) - 1 <= Len(built)
    BY <1>2
  <1>4. IsList(built') /\ Len(built') = Len(built) - 1
    BY <1>1, <1>2, <1>3, PrefixList
  <1>5. Going(calls', built', cursor')
    BY <1>1, <1>2, <1>4 DEF Going
  <1>6. cursor' \in 1 .. Len(tokens) /\ wild' \in BOOLEAN
    BY <1>1 DEF ParseInv
  <1> QED
    BY <1>1, <1>2, <1>4, <1>5, <1>6, GoesOn

\* A statement to add; after the last one the vector is left.
LEMMA AddNewStatementKept ==
    ASSUME ParseInv, AddNewStatement
    PROVE  ParseInv'
  <1>1. /\ At("statement")
        /\ calls' \in {Tail(calls), <<Call("parse_statement")>> \o calls}
        /\ built' = WithNode
        /\ UNCHANGED <<tokens, cursor, wild, status>>
    BY DEF AddNewStatement
  <1>2. /\ status = "running" /\ IsList(built) /\ Len(built) \in Nat /\ Len(built) >= 2
        /\ IsList(calls') /\ calls' # << >> /\ Ends(calls', Len(built) - 1)
    BY <1>1, StatementStep DEF Ends
  <1>3. IsList(built') /\ Len(built') = Len(built) - 1
    <2>1. 2 <= Len(built) /\ Len(built) - 2 + 1 = Len(built) - 1
      BY <1>2
    <2> QED
      BY <1>1, <1>2, <2>1, ReplaceList DEF WithNode
  <1>4. Going(calls', built', cursor')
    BY <1>2, <1>3 DEF Going
  <1>5. cursor' \in 1 .. Len(tokens) /\ wild' \in BOOLEAN
    BY <1>1 DEF ParseInv
  <1> QED
    BY <1>1, <1>2, <1>3, <1>4, <1>5, GoesOn

\* A choice by the lookahead.
LEMMA DecideKept ==
    ASSUME ParseInv, Decide
    PROVE  ParseInv'
  <1>1. PICK x, s, h : x = Head(calls) /\ s = Tail(calls) /\ h = Len(built)
    OBVIOUS
  <1>2. /\ status = "running" /\ x.step = "if" /\ h \in Nat /\ IsList(s) /\ IsList(built)
        /\ s = << >> => x = Root
    BY <1>1, PlainStep DEF Decide
  <1>3. PICK k \in Nat : Leads(x, h, k) /\ Ends(s, k)
    BY <1>1, PlainStep DEF Decide
  <1>4. s # << >>
    BY <1>2, Kinds
  <1>5. /\ Chain(Leads2, x.yes, h, k)
        /\ \/ Chain(Leads2, x.no, h, k)
           \/ \E t \in SUBSET x.types : x.no = <<Expect(t)>>
    BY <1>2, <1>3, StepsLead
  <1>6. PICK steps : /\ Run(steps)
                     /\ \/ steps = x.yes
                        \/ steps = x.no /\ lookahead.type \notin x.types
    BY <1>1 DEF Decide, Choose
  <1>7. CASE Chain(Leads2, steps, h, k)
    <2>1. Ends(steps \o s, h) /\ steps \o s # << >>
      BY <1>2, <1>3, <1>4, <1>7, ChainEnds
    <2> QED
      BY <1>1, <1>2, <1>6, <2>1, Replaced
  <1>8. ASSUME NEW t \in SUBSET x.types, steps = <<Expect(t)>>, lookahead.type \notin x.types
        PROVE  ParseInv'
    <2>1. /\ calls' = <<Expect(t)>> \o s
          /\ UNCHANGED <<tokens, cursor, built, wild, status>>
      BY <1>1, <1>6, <1>8 DEF Run
    <2>2. IsList(calls') /\ calls' # << >> /\ Head(calls') = Expect(t)
      BY <1>2, <2>1, ConsList
    <2>3. Expect(t).step = "expect" /\ Expect(t).types = t /\ tokens[cursor].type \notin t
      BY <1>8 DEF Expect, lookahead
    <2>4. Going(calls', built', cursor)
      BY <2>2, <2>3 DEF Going
    <2>5. cursor' \in 1 .. Len(tokens) /\ wild' \in BOOLEAN
      BY <2>1 DEF ParseInv
    <2> QED
      BY <1>2, <2>1, <2>2, <2>4, <2>5, GoesOn
  <1> QED
    BY <1>5, <1>6, <1>7, <1>8

-----------------------------------------------------------------------------
(* Looking ahead *)

\* What the first step of those that look ahead has seen.
LEMMA AheadIs ==
    ASSUME NEW cs, NEW s, NEW i, IsList(s), Ahead(cs, s, i)
    PROVE  \/ \E f \in Guarded :
                \/ Head(cs) = Call(f)
                \/ /\ Head(cs) = Backup
                   /\ \/ Tail(cs) = <<Call(f)>> \o s /\ Foreseen(f, i - 1)
                      \/ /\ Tail(cs) = <<Backup>> \o (<<Call(f)>> \o s)
                         /\ Foreseen(f, i - 2)
           \/ /\ Head(cs) = Consume /\ Tail(cs) = <<VarIf>> \o s
              /\ Is(i, {"T_STRUCT"}) /\ Is(i + 1, {"T_IDENT"})
           \/ /\ Head(cs) \in {VarIf, StructIf} /\ Tail(cs) = s
              /\ Is(i - 1, {"T_STRUCT"}) /\ Is(i, {"T_IDENT"})
           \/ /\ Head(cs) = Consume /\ Tail(cs) = <<DotIf>> \o s
              /\ Is(i, {"T_IDENT"}) /\ Is(i + 1, {"T_DOT"})
           \/ /\ Head(cs) = DotIf /\ Tail(cs) = s
              /\ Is(i - 1, {"T_IDENT"}) /\ Is(i, {"T_DOT"})
           \/ /\ Head(cs) = Consume /\ Tail(cs) = <<AccessIf>> \o s
              /\ Is(i - 1, {"T_IDENT"}) /\ Is(i, {"T_DOT"}) /\ Is(i + 1, {"T_IDENT"})
           \/ /\ Head(cs) = AccessIf /\ Tail(cs) = s
              /\ Is(i - 2, {"T_IDENT"}) /\ Is(i - 1, {"T_DOT"}) /\ Is(i, {"T_IDENT"})
  <1>1. \A a, r : IsList(r) => /\ IsList(<<a>> \o r)
                               /\ Head(<<a>> \o r) = a /\ Tail(<<a>> \o r) = r
    BY ConsList
  <1>2. \A a : Head(<<a>> \o s) = a /\ Tail(<<a>> \o s) = s /\ IsList(<<a>> \o s)
    BY <1>1
  <1>3. \A a, b : /\ Head(<<b>> \o (<<a>> \o s)) = b /\ Tail(<<b>> \o (<<a>> \o s)) = <<a>> \o s
                  /\ IsList(<<b>> \o (<<a>> \o s))
    BY <1>1, <1>2
  <1>4. \A a, b, e : /\ Head(<<e>> \o (<<b>> \o (<<a>> \o s))) = e
                     /\ Tail(<<e>> \o (<<b>> \o (<<a>> \o s))) = <<b>> \o (<<a>> \o s)
    BY <1>1, <1>3
  <1>5. CASE \E f \in Guarded :
                \/ cs = <<Call(f)>> \o s /\ Foreseen(f, i)
                \/ cs = <<Backup>> \o (<<Call(f)>> \o s) /\ Foreseen(f, i - 1)
                \/ cs = <<Backup>> \o (<<Backup>> \o (<<Call(f)>> \o s)) /\ Foreseen(f, i - 2)
    <2>1. PICK f \in Guarded :
                \/ cs = <<Call(f)>> \o s /\ Foreseen(f, i)
                \/ cs = <<Backup>> \o (<<Call(f)>> \o s) /\ Foreseen(f, i - 1)
                \/ cs = <<Backup>> \o (<<Backup>> \o (<<Call(f)>> \o s)) /\ Foreseen(f, i - 2)
      BY <1>5
    <2>2. CASE cs = <<Call(f)>> \o s /\ Foreseen(f, i)
      BY <1>2, <2>2
    <2>3. CASE cs = <<Backup>> \o (<<Call(f)>> \o s) /\ Foreseen(f, i - 1)
      BY <1>3, <2>3
    <2>4. CASE /\ cs = <<Backup>> \o (<<Backup>> \o (<<Call(f)>> \o s))
               /\ Foreseen(f, i - 2)
      BY <1>4, <2>4
    <2> QED
      BY <2>1, <2>2, <2>3, <2>4
  <1>6. CASE /\ cs = <<Consume>> \o (<<VarIf>> \o s)
             /\ Is(i, {"T_STRUCT"}) /\ Is(i + 1, {"T_IDENT"})
    BY <1>3, <1>6
  <1>7. CASE /\ cs \in {<<VarIf>> \o s, <<StructIf>> \o s}
             /\ Is(i - 1, {"T_STRUCT"}) /\ Is(i, {"T_IDENT"})
    BY <1>2, <1>7
  <1>8. CASE /\ cs = <<Consume>> \o (<<DotIf>> \o s)
             /\ Is(i, {"T_IDENT"}) /\ Is(i + 1, {"T_DOT"})
    BY <1>3, <1>8
  <1>9. CASE cs = <<DotIf>> \o s /\ Is(i - 1, {"T_IDENT"}) /\ Is(i, {"T_DOT"})
    BY <1>2, <1>9
  <1>10. CASE /\ cs = <<Consume>> \o (<<AccessIf>> \o s)
              /\ Is(i - 1, {"T_IDENT"}) /\ Is(i, {"T_DOT"}) /\ Is(i + 1, {"T_IDENT"})
    BY <1>3, <1>10
  <1>11. CASE /\ cs = <<AccessIf>> \o s
              /\ Is(i - 2, {"T_IDENT"}) /\ Is(i - 1, {"T_DOT"}) /\ Is(i, {"T_IDENT"})
    BY <1>2, <1>11
  <1> QED
    BY <1>5, <1>6, <1>7, <1>8, <1>9, <1>10, <1>11 DEF Ahead

\* consume().
LEMMA consumeKept ==
    ASSUME ParseInv, consume
    PROVE  ParseInv'
  <1>1. /\ status = "running" /\ calls # << >> /\ Head(calls).step = "consume"
        /\ Advance(built)
    BY DEF consume, At
  <1>2. IsList(built) /\ Len(built) \in Nat /\ IsList(Tail(calls))
    BY <1>1, FirstStep
  <1>3. ASSUME NEW k \in Nat, Leads(Head(calls), Len(built), k), Ends(Tail(calls), k),
               Tail(calls) = << >> => Head(calls) = Root
        PROVE  ParseInv'
    <2>1. k = Len(built)
      BY <1>1, <1>2, <1>3, StepsLead
    <2>2. Tail(calls) # << >>
      BY <1>1, <1>3, Kinds
    <2> QED
      BY <1>1, <1>2, <1>3, <2>1, <2>2, Advances
  <1>4. ASSUME NEW s, s # << >>, Ends(s, Len(built) + 1), Ahead(calls, s, cursor)
        PROVE  ParseInv'
    <2>1. IsList(s) /\ cursor \in 1 .. Len(tokens) /\ Len(tokens) \in Nat
      BY <1>4 DEF Ends, ParseInv, Listed
    <2>2. CASE Stop("log_error")
      BY <2>2, Stopped
    <2>3. CASE cursor # Len(tokens) /\ cursor' = cursor + 1 /\ Done(built)
      <3>1. /\ calls' = Tail(calls) /\ built' = built /\ UNCHANGED <<tokens, wild, status>>
        BY <2>3 DEF Done
      <3>2. Ahead(Tail(calls), s, cursor + 1)
        <4>1. \/ /\ Tail(calls) = <<VarIf>> \o s
                 /\ Is(cursor, {"T_STRUCT"}) /\ Is(cursor + 1, {"T_IDENT"})
              \/ /\ Tail(calls) = <<DotIf>> \o s
                 /\ Is(cursor, {"T_IDENT"}) /\ Is(cursor + 1, {"T_DOT"})
              \/ /\ Tail(calls) = <<AccessIf>> \o s
                 /\ Is(cursor - 1, {"T_IDENT"}) /\ Is(cursor, {"T_DOT"})
                 /\ Is(cursor + 1, {"T_IDENT"})
          BY <1>1, <1>4, <2>1, AheadIs, Kinds
        <4>2. PICK i : i = cursor + 1
          OBVIOUS
        <4>3. i - 1 = cursor /\ i - 2 = cursor - 1
          BY <2>1, <4>2
        <4> QED
          BY <4>1, <4>2, <4>3 DEF Ahead
      <3>3. cursor' \in 1 .. Len(tokens) /\ wild' \in BOOLEAN /\ cursor' = cursor + 1
        BY <2>1, <2>3, <3>1 DEF ParseInv
      <3>4. Going(calls', built', cursor')
        BY <1>4, <3>1, <3>2, <3>3 DEF Going
      <3> QED
        BY <1>1, <1>2, <3>1, <3>3, <3>4, GoesOn
    <2> QED
      BY <1>1, <2>2, <2>3 DEF Advance
  <1> QED
    BY <1>1, <1>3, <1>4, FirstStep

\* backup(): what is given back was consumed before.
LEMMA backupKept ==
    ASSUME ParseInv, backup
    PROVE  ParseInv'
  <1>1. /\ status = "running" /\ calls # << >> /\ Head(calls).step = "backup"
        /\ cursor' = cursor - 1
        /\ calls' = Tail(calls) /\ built' = built /\ UNCHANGED <<tokens, wild, status>>
    BY DEF backup, At, Done
  <1>2. IsList(built) /\ Len(built) \in Nat /\ IsList(Tail(calls))
    BY <1>1, FirstStep
  <1>3. \A k \in Nat : ~ Leads(Head(calls), Len(built), k)
    BY <1>1, <1>2, StepsLead
  <1>4. PICK s : s # << >> /\ Ends(s, Len(built) + 1) /\ Ahead(calls, s, cursor)
    BY <1>1, <1>3, FirstStep
  <1>5. IsList(s) /\ cursor \in 1 .. Len(tokens) /\ Len(tokens) \in Nat
    BY <1>4 DEF Ends, ParseInv, Listed
  <1>6. PICK f \in Guarded :
           \/ Tail(calls) = <<Call(f)>> \o s /\ Foreseen(f, cursor - 1)
           \/ Tail(calls) = <<Backup>> \o (<<Call(f)>> \o s) /\ Foreseen(f, cursor - 2)
    BY <1>1, <1>4, <1>5, AheadIs, Kinds
  <1>7. PICK i : i = cursor - 1 /\ i - 1 = cursor - 2
    BY <1>5
  <1>8. \A j : Foreseen(f, j) => j \in 1 .. Len(tokens)
    BY DEF Foreseen, Is
  <1>9. i \in 1 .. Len(tokens)
    <2>1. i \in 1 .. Len(tokens) \/ i - 1 \in 1 .. Len(tokens)
      BY <1>6, <1>7, <1>8
    <2> QED
      BY <1>5, <1>7, <2>1
  <1>10. Ahead(Tail(calls), s, i)
    BY <1>6, <1>7 DEF Ahead
  <1>11. Going(calls', built', cursor') /\ cursor' \in 1 .. Len(tokens) /\ wild' \in BOOLEAN
    BY <1>1, <1>4, <1>7, <1>9, <1>10 DEF Going, ParseInv
  <1> QED
    BY <1>1, <1>2, <1>11, GoesOn

\* The token after the lookahead, if the lookahead is not the last.
LEMMA PeekIs ==
    ASSUME Listed, NEW i, NEW t, Is(i, {t}), t # "T_EOF", NEW u, tokens[i + 1].type = u
    PROVE  i \in Nat /\ Is(i + 1, {u})
  <1>1. i \in 1 .. Len(tokens) /\ tokens[i].type = t
    BY DEF Is
  <1>2. i + 1 \in 1 .. Len(tokens) /\ i \in Nat
    BY <1>1, NotLast DEF Listed
  <1> QED
    BY <1>2 DEF Is

\* After struct and a name: a declaration of a variable, or of a structure.
LEMMA VarIfKept ==
    ASSUME ParseInv, status = "running", Head(calls) \in {VarIf, StructIf}, Choose(peek),
           NEW s, s # << >>, Ends(s, Len(built) + 1), Tail(calls) = s, IsList(built),
           Is(cursor - 1, {"T_STRUCT"}), Is(cursor, {"T_IDENT"})
    PROVE  ParseInv'
  <1>1. Listed /\ IsList(s) /\ cursor \in Nat
    BY DEF ParseInv, Ends, Listed
  <1>2. PICK i : i = cursor - 1 /\ i + 1 = cursor /\ i + 2 = cursor + 1
    BY <1>1
  <1>3. \A u : peek.type = u => Is(i + 2, {u})
    BY <1>1, <1>2, PeekIs DEF peek
  <1>4. ASSUME NEW f \in Guarded, Foreseen(f, i), Run(<<Backup, Call(f)>>)
        PROVE  ParseInv'
    <2>1. PICK steps, t : steps = <<Backup, Call(f)>> /\ t = <<Call(f)>> \o s
      OBVIOUS
    <2>2. steps \o s = <<Backup>> \o t /\ IsList(<<Backup>> \o t)
      BY <1>1, <2>1, Cons2, ConsList
    <2>3. Ahead(<<Backup>> \o t, s, cursor)
      BY <1>2, <1>4, <2>1 DEF Ahead
    <2> QED
      BY <1>4, <2>1, <2>2, <2>3, Foretold
  <1>5. CASE Head(calls) = VarIf /\ peek.type = "T_IDENT"
    <2>1. Foreseen("parse_var_decl", i)
      BY <1>2, <1>3, <1>5 DEF Foreseen
    <2>2. Run(<<Backup, Call("parse_var_decl")>>)
      <3>1. /\ Head(calls).types = {"T_IDENT"}
            /\ Head(calls).yes = <<Backup, Call("parse_var_decl")>>
        BY <1>5 DEF VarIf, IfNext
      <3> QED
        BY <1>5, <3>1 DEF Choose
    <2> QED
      BY <1>4, <2>1, <2>2 DEF Guarded
  <1>6. CASE Head(calls) = VarIf /\ peek.type # "T_IDENT"
    <2>1. Run(<<StructIf>>)
      BY <1>6 DEF Choose, VarIf, IfNext
    <2>2. PICK t : t = <<StructIf>> \o s
      OBVIOUS
    <2>3. IsList(t) /\ Ahead(t, s, cursor)
      BY <1>1, <2>2, ConsList DEF Ahead
    <2> QED
      BY <2>1, <2>2, <2>3, Foretold
  <1>7. CASE Head(calls) = StructIf /\ peek.type = "T_THEN"
    <2>1. Foreseen("parse_struct_decl", i)
      BY <1>2, <1>3, <1>7 DEF Foreseen
    <2>2. Run(<<Backup, Call("parse_struct_decl")>>)
      BY <1>7 DEF Choose, StructIf, IfNext
    <2> QED
      BY <1>4, <2>1, <2>2 DEF Guarded
  <1>8. CASE Head(calls) = StructIf /\ peek.type # "T_THEN"
    <2>1. Run(<<Expect({})>>)
      BY <1>8 DEF Choose, StructIf, IfNext
    <2>2. /\ calls' = <<Expect({})>> \o s
          /\ UNCHANGED <<tokens, cursor, built, wild, status>>
      BY <2>1 DEF Run
    <2>3. IsList(calls') /\ calls' # << >> /\ Head(calls') = Expect({})
      BY <1>1, <2>2, ConsList
    <2>4. Expect({}).step = "expect" /\ Expect({}).types = {}
      BY DEF Expect
    <2>5. Going(calls', built', cursor)
      BY <2>3, <2>4 DEF Going
    <2>6. cursor' \in 1 .. Len(tokens) /\ wild' \in BOOLEAN
      BY <2>2 DEF ParseInv
    <2> QED
      BY <2>2, <2>3, <2>5, <2>6, GoesOn
  <1> QED
    BY <1>5, <1>6, <1>7, <1>8

\* After a name and ".": an assignment, the member of a variable, or nothing.
LEMMA DotIfKept ==
    ASSUME ParseInv, status = "running", Head(calls) = DotIf, Choose(peek),
           NEW s, s # << >>, Ends(s, Len(built) + 1), Tail(calls) = s, IsList(built),
           Is(cursor - 1, {"T_IDENT"}), Is(cursor, {"T_DOT"})
    PROVE  ParseInv'
  <1>1. Listed /\ IsList(s) /\ Len(built) \in Nat
    BY DEF ParseInv, Ends, IsList
  <1>2. CASE peek.type = "T_IDENT"
    <2>1. Run(<<Consume, AccessIf>>)
      BY <1>2 DEF Choose, DotIf, IfNext
    <2>2. Is(cursor + 1, {"T_IDENT"})
      BY <1>1, <1>2, PeekIs DEF peek
    <2>3. PICK steps, t : steps = <<Consume, AccessIf>> /\ t = <<AccessIf>> \o s
      OBVIOUS
    <2>4. steps \o s = <<Consume>> \o t /\ IsList(<<Consume>> \o t)
      BY <1>1, <2>3, Cons2, ConsList
    <2>5. Ahead(<<Consume>> \o t, s, cursor)
      BY <2>2, <2>3 DEF Ahead
    <2> QED
      BY <2>1, <2>3, <2>4, <2>5, Foretold
  <1>3. CASE peek.type # "T_IDENT"
    <2>1. Run(<<Unassigned>>)
      BY <1>3 DEF Choose, DotIf, IfNext
    <2>2. PICK h, k \in Nat : h = Len(built) /\ k = h + 1
      BY <1>1
    <2>3. Leads(Unassigned, h, k)
      BY <2>2, UnassignedLeads, Deeper
    <2>4. Ends(<<Unassigned>> \o s, h) /\ <<Unassigned>> \o s # << >>
      BY <2>2, <2>3, Lead1
    <2> QED
      BY <2>1, <2>2, <2>4, Replaced
  <1> QED
    BY <1>2, <1>3

\* After a name, "." and a name.
LEMMA AccessIfKept ==
    ASSUME ParseInv, status = "running", Head(calls) = AccessIf, Choose(peek),
           NEW s, s # << >>, Ends(s, Len(built) + 1), Tail(calls) = s, IsList(built),
           Is(cursor - 2, {"T_IDENT"}), Is(cursor - 1, {"T_DOT"}), Is(cursor, {"T_IDENT"})
    PROVE  ParseInv'
  <1>1. Listed /\ IsList(s) /\ cursor \in Nat
    BY DEF ParseInv, Ends, Listed
  <1>2. PICK i : i = cursor - 2 /\ i + 1 = cursor - 1 /\ i + 2 = cursor /\ i + 3 = cursor + 1
    BY <1>1
  <1>3. \A u : peek.type = u => Is(i + 3, {u})
    BY <1>1, <1>2, PeekIs DEF peek
  <1>4. ASSUME NEW f \in Guarded, Foreseen(f, i), Run(<<Backup, Backup, Call(f)>>)
        PROVE  ParseInv'
    <2>1. PICK a, b, steps, t, u : /\ a = Backup /\ b = Call(f) /\ steps = <<a, a, b>>
                                   /\ t = <<b>> \o s /\ u = <<a>> \o t
      OBVIOUS
    <2>2. IsList(t) /\ IsList(u) /\ IsList(<<Backup>> \o u)
      BY <1>1, <2>1, ConsList
    <2>3. steps \o s = <<Backup>> \o u
      <3>1. <<a, a, b>> \o s = <<a>> \o (<<a, b>> \o s)
        BY <1>1, Cons3
      <3>2. <<a, b>> \o s = <<a>> \o (<<b>> \o s)
        BY <1>1, Cons2
      <3> QED
        BY <2>1, <3>1, <3>2
    <2>4. Ahead(<<Backup>> \o u, s, cursor)
      BY <1>2, <1>4, <2>1 DEF Ahead
    <2> QED
      BY <1>4, <2>1, <2>2, <2>3, <2>4, Foretold
  <1>5. CASE peek.type = "T_ASSIGN"
    <2>1. Foreseen("parse_assign_expr", i)
      BY <1>2, <1>3, <1>5 DEF Foreseen
    <2>2. Run(<<Backup, Backup, Call("parse_assign_expr")>>)
      BY <1>5 DEF Choose, AccessIf, IfNext
    <2> QED
      BY <1>4, <2>1, <2>2 DEF Guarded
  <1>6. CASE peek.type # "T_ASSIGN"
    <2>1. Foreseen("parse_struct_access_expr", i)
      BY <1>2 DEF Foreseen
    <2>2. Run(<<Backup, Backup, Call("parse_struct_access_expr")>>)
      BY <1>6 DEF Choose, AccessIf, IfNext
    <2> QED
      BY <1>4, <2>1, <2>2 DEF Guarded
  <1> QED
    BY <1>5, <1>6

\* A choice by the token after the lookahead.
LEMMA DecideNextKept ==
    ASSUME ParseInv, DecideNext
    PROVE  ParseInv'
  <1>1. /\ status = "running" /\ calls # << >> /\ Head(calls).step = "peek"
        /\ Choose(peek)
    BY DEF DecideNext, At
  <1>2. IsList(built) /\ Len(built) \in Nat /\ IsList(Tail(calls))
    BY <1>1, FirstStep
  <1>3. ASSUME NEW k \in Nat, Leads(Head(calls), Len(built), k), Ends(Tail(calls), k),
               Tail(calls) = << >> => Head(calls) = Root
        PROVE  ParseInv'
    <2>1. PICK x, s, h : x = Head(calls) /\ s = Tail(calls) /\ h = Len(built)
      OBVIOUS
    <2>2. Chain(Leads2, x.yes, h, k) /\ Chain(Leads2, x.no, h, k)
      BY <1>1, <1>2, <1>3, <2>1, StepsLead
    <2>3. PICK steps : Run(steps) /\ steps \in {x.yes, x.no}
      BY <1>1, <2>1 DEF Choose
    <2>4. s # << >>
      BY <1>1, <1>3, <2>1, Kinds
    <2>5. Ends(steps \o s, h) /\ steps \o s # << >>
      BY <1>2, <1>3, <2>1, <2>2, <2>3, <2>4, ChainEnds
    <2> QED
      BY <1>1, <1>2, <2>1, <2>3, <2>5, Replaced
  <1>4. ASSUME NEW s, s # << >>, Ends(s, Len(built) + 1), Ahead(calls, s, cursor)
        PROVE  ParseInv'
    <2>1. IsList(s)
      BY <1>4 DEF Ends
    <2>2. \/ /\ Head(calls) \in {VarIf, StructIf} /\ Tail(calls) = s
             /\ Is(cursor - 1, {"T_STRUCT"}) /\ Is(cursor, {"T_IDENT"})
          \/ /\ Head(calls) = DotIf /\ Tail(calls) = s
             /\ Is(cursor - 1, {"T_IDENT"}) /\ Is(cursor, {"T_DOT"})
          \/ /\ Head(calls) = AccessIf /\ Tail(calls) = s
             /\ Is(cursor - 2, {"T_IDENT"}) /\ Is(cursor - 1, {"T_DOT"})
             /\ Is(cursor, {"T_IDENT"})
      BY <1>1, <1>4, <2>1, AheadIs, Kinds
    <2> QED
      BY <1>1, <1>2, <1>4, <2>2, VarIfKept, DotIfKept, AccessIfKept
  <1> QED
    BY <1>1, <1>3, <1>4, FirstStep

-----------------------------------------------------------------------------
(* The theorems *)

\* It holds when the parser starts: the lexer puts T_EOF at the end of the list.
LEMMA InitParses ==
    Init => ParseInv
  <1> SUFFICES ASSUME Init PROVE ParseInv
    OBVIOUS
  <1>1. PICK eof : eof = [type |-> "T_EOF", literal |-> "EOF"]
    OBVIOUS
  <1>2. PICK text \in Programs : tokens = Append(text, eof)
    BY <1>1 DEF Init
  <1>3. PICK S : S = Token \cup {eof}
    OBVIOUS
  <1>4. text \in Seq(S) /\ eof \in S
    BY <1>2, <1>3, ParserAssumption, SeqMonotonic
  <1>5. /\ tokens \in Seq(S) /\ Len(tokens) = Len(text) + 1 /\ Len(text) \in Nat
        /\ tokens[Len(text) + 1] = eof
    BY <1>2, <1>4, AppendProperties
  <1>6. Listed
    <2>1. eof.type = "T_EOF"
      BY <1>1
    <2>2. DOMAIN tokens = 1 .. Len(tokens)
      BY <1>5
    <2> QED
      BY <1>5, <2>1, <2>2 DEF Listed
  <1>7. calls = <<Call("parse")>> /\ built = << >> /\ wild = FALSE /\ status = "running"
    BY DEF Init
  <1>8. cursor \in 1 .. Len(tokens)
    <2>1. cursor = 1
      BY DEF Init
    <2> QED
      BY <1>6, <2>1 DEF Listed
  <1>9. IsList(calls) /\ IsList(built) /\ Going(calls, built, cursor)
    BY <1>7, EmptyEnds, ListOfOne DEF Ends, Going
  <1> QED
    BY <1>6, <1>7, <1>8, <1>9 DEF ParseInv

\* parse() returns.
LEMMA ReturnKept ==
    ASSUME ParseInv, Return
    PROVE  ParseInv'
  <1>1. /\ status = "running" /\ calls = << >> /\ status' = "done"
        /\ UNCHANGED <<tokens, cursor, calls, built, wild>>
    BY DEF Return
  <1>2. Going(<< >>, built, cursor)
    BY <1>1 DEF ParseInv
  <1>3. \A s, i : IsList(s) => ~ Ahead(<< >>, s, i)
    BY AheadFirst
  <1>4. << >> # <<Call("parse")>> /\ \A s, h : Ends(s, h) => IsList(s)
    BY DEF Ends
  <1>5. Ends(<< >>, Len(built)) /\ Last(built).node = "N_PROGRAM"
    BY <1>2, <1>3, <1>4 DEF Going
  <1>6. Len(built) = 1
    BY <1>5, EndsEmpty
  <1> QED
    BY <1>1, <1>5, <1>6 DEF ParseInv, Listed, program

\* Nothing happens.
LEMMA SameKept ==
    ASSUME ParseInv, UNCHANGED vars
    PROVE  ParseInv'
  <1>1. UNCHANGED <<tokens, cursor, calls, built, wild, status>>
    BY DEF vars
  <1>2. CASE status = "running"
    <2>1. IsList(calls) /\ IsList(built) /\ Going(calls, built, cursor)
      BY <1>2 DEF ParseInv
    <2>2. cursor \in 1 .. Len(tokens) /\ wild \in BOOLEAN
      BY DEF ParseInv
    <2> QED
      BY <1>1, <1>2, <2>1, <2>2, GoesOn
  <1>3. CASE status # "running"
    BY <1>1, <1>3 DEF ParseInv, Listed, program
  <1> QED
    BY <1>2, <1>3

\* Every step keeps it.
LEMMA NextParses ==
    ASSUME ParseInv, [Next]_vars
    PROVE  ParseInv'
  <1>1. CASE Statements
    BY <1>1, parseKept, parse_statementsKept, parse_statementKept, parse_block_stmtKept,
       parse_while_stmtKept, parse_if_stmtKept, parse_return_stmtKept, parse_label_declKept,
       parse_goto_stmtKept DEF Statements
  <1>2. CASE Declarations
    BY <1>2, parse_var_declKept, parse_function_declKept, parse_formalsKept, formalsKept,
       parse_struct_declKept, membersKept, parse_member_declKept, dimensionsKept
       DEF Declarations
  <1>3. CASE Expressions
    BY <1>3, parse_expressionKept, parse_and_exprKept, parse_not_exprKept,
       parse_compare_exprKept, parse_add_exprKept, parse_mult_exprKept, parse_primary_exprKept,
       parse_assign_exprKept, parse_call_exprKept, argumentsKept, parse_struct_access_exprKept,
       parse_array_init_exprKept, elementsKept, parse_array_access_exprKept, indexesKept
       DEF Expressions
  <1>4. CASE Operations
    <2>1. ASSUME ReadNoted \/ KeepValue PROVE ParseInv'
      BY <2>1, OneMore DEF ReadNoted, KeepValue, Reading
    <2>2. ASSUME syntax_error \/ AddGarbage PROVE ParseInv'
      BY <2>2, Stopped DEF syntax_error, AddGarbage
    <2> QED
      BY <1>4, <2>1, <2>2, ReadExpectedKept, ReadTakenKept, consumeKept, backupKept, DecideKept,
         DecideNextKept, KeepUnassignedKept, MakeNodeKept, MakeBinopNodeKept, vector_addKept,
         AddNoStatementKept, AddNewStatementKept DEF Operations
  <1>5. CASE Return
    BY <1>5, ReturnKept
  <1>6. CASE UNCHANGED vars
    BY <1>6, SameKept
  <1> QED
    BY <1>1, <1>2, <1>3, <1>4, <1>5, <1>6 DEF Next, Step, Ended

\* The invariant.
LEMMA SpecParses ==
    Spec => []ParseInv
  BY InitParses, NextParses, PTL DEF Spec

\* Every function leaves the one value it returns, whatever the tokens: parse() ends
\* with one value, which is the program, and the cursor stays in the list.
THEOREM ParserTypeCorrect ==
    Spec => []TypeOK
  <1>1. ParseInv => TypeOK
    BY DEF ParseInv, Listed, TypeOK
  <1> QED
    BY <1>1, SpecParses, PTL

\* The tokens a function was chosen by are those it begins with: one to four.
LEMMA Follows1 ==
    ASSUME Listed, cursor \in 1 .. Len(tokens), NEW a, Is(cursor, a)
    PROVE  Follows(<<a>>)
  BY DEF Follows, Is, Listed

\* Two tokens in a row are what a lookahead of two asks for.
LEMMA Follows2 ==
    ASSUME Listed, cursor \in 1 .. Len(tokens), NEW a, NEW b, Is(cursor, a), Is(cursor + 1, b)
    PROVE  Follows(<<a, b>>)
  BY DEF Follows, Is, Listed

\* Three tokens in a row are what a lookahead of three asks for.
LEMMA Follows3 ==
    ASSUME Listed, cursor \in 1 .. Len(tokens), NEW a, NEW b, NEW c,
           Is(cursor, a), Is(cursor + 1, b), Is(cursor + 2, c)
    PROVE  Follows(<<a, b, c>>)
  BY DEF Follows, Is, Listed

\* Four tokens in a row are what a lookahead of four asks for.
LEMMA Follows4 ==
    ASSUME Listed, cursor \in 1 .. Len(tokens), NEW a, NEW b, NEW c, NEW d,
           Is(cursor, a), Is(cursor + 1, b), Is(cursor + 2, c), Is(cursor + 3, d)
    PROVE  Follows(<<a, b, c, d>>)
  <1>1. PICK types : types = <<a, b, c, d>>
    OBVIOUS
  <1>2. /\ Len(types) = 4 /\ DOMAIN types = 1 .. 4
        /\ types[1] = a /\ types[2] = b /\ types[3] = c /\ types[4] = d
    BY <1>1
  <1>3. cursor \in Nat /\ cursor + 4 - 1 <= Len(tokens)
    BY DEF Is, Listed
  <1>4. /\ tokens[cursor + 1 - 1].type \in a /\ tokens[cursor + 2 - 1].type \in b
        /\ tokens[cursor + 3 - 1].type \in c /\ tokens[cursor + 4 - 1].type \in d
    <2>1. /\ cursor + 1 - 1 = cursor /\ cursor + 2 - 1 = cursor + 1
          /\ cursor + 3 - 1 = cursor + 2 /\ cursor + 4 - 1 = cursor + 3
      BY <1>3
    <2> QED
      BY <2>1 DEF Is
  <1>5. ASSUME NEW i \in 1 .. 4 PROVE tokens[cursor + i - 1].type \in types[i]
    <2>1. i = 1 \/ i = 2 \/ i = 3 \/ i = 4
      OBVIOUS
    <2> QED
      BY <1>2, <1>4, <2>1
  <1>6. Follows(types)
    BY <1>2, <1>3, <1>5 DEF Follows
  <1> QED
    BY <1>1, <1>6

\* A function chosen by more than one token begins at the first of the tokens it was
\* chosen by, whatever was read ahead and given back, in every program.
THEOREM PredictionsComeTrue ==
    Spec => []PredictionsHold
  <1>1. ParseInv => PredictionsHold
    <2> SUFFICES ASSUME ParseInv, At("call") PROVE PredictionsHold
      BY DEF PredictionsHold
    <2>1. PICK f : f = Head(calls).to
      OBVIOUS
    <2>2. f \in Guarded => Foreseen(f, cursor)
      BY <2>1, Entered DEF Called
    <2>3. Listed /\ cursor \in 1 .. Len(tokens)
      BY DEF ParseInv
    <2>4. f = "parse_call_expr" => Follows(<<{"T_IDENT"}, {"T_LPAREN"}>>)
      BY <2>2, <2>3, Follows2 DEF Guarded, Foreseen
    <2>5. f = "parse_struct_access_expr" => Follows(<<{"T_IDENT"}, {"T_DOT"}, {"T_IDENT"}>>)
      BY <2>2, <2>3, Follows3 DEF Guarded, Foreseen
    <2>6. f = "parse_array_access_expr" => Follows(<<{"T_IDENT"}, {"T_LBRACKET"}>>)
      BY <2>2, <2>3, Follows2 DEF Guarded, Foreseen
    <2>7. f = "parse_assign_expr" =>
             \/ Follows(<<{"T_IDENT"}, {"T_ASSIGN", "T_LBRACKET"}>>)
             \/ Follows(<<{"T_IDENT"}, {"T_DOT"}, {"T_IDENT"}, {"T_ASSIGN"}>>)
             \/ Follows(<<{"T_ASSIGN"}>>)
      BY <2>2, <2>3, Follows1, Follows2, Follows4 DEF Guarded, Foreseen
    <2>8. f = "parse_struct_decl" => Follows(<<{"T_STRUCT"}, {"T_IDENT"}, {"T_THEN"}>>)
      BY <2>2, <2>3, Follows3 DEF Guarded, Foreseen
    <2>9. f = "parse_var_decl" =>
             \/ Follows(<<PrimitiveTypes>>)
             \/ Follows(<<{"T_STRUCT"}, {"T_IDENT"}, {"T_IDENT"}>>)
      BY <2>2, <2>3, Follows1, Follows3 DEF Guarded, Foreseen
    <2> QED
      BY <2>1, <2>4, <2>5, <2>6, <2>7, <2>8, <2>9 DEF PredictionsHold
  <1> QED
    BY <1>1, SpecParses, PTL

-----------------------------------------------------------------------------
(* The token after the lookahead *)

\* The choices by the token after a formal, and after the parenthesis before them.
CommaIf(more) == IfNext({"T_COMMA"}, <<Consume, Call("formals")>>, more)
FormalIf(more) == IfNext({"T_RPAREN"}, <<Consume>>, <<CommaIf(more)>>)
ParamsIf == IfNext({"T_RPAREN"}, <<Consume, Consume, Push(EmptyVector)>>,
                                 <<Call("parse_formals"), Consume>>)

Peeking(e) ==
    e = ParamsIf \/ \E more \in {<< >>, <<Call("formals")>>} : e \in {CommaIf(more), FormalIf(more)}

\* The choices by the lookahead that the functions make.
NegIf == If({"T_MINUS"}, <<Consume, Call("parse_expression"), Make("N_NEG_EXPR", 1)>>,
                         <<Call("parse_compare_expr")>>)
NotIf == If({"T_BANG"}, <<Consume, Call("parse_expression"), Make("N_NOT_EXPR", 1)>>, <<NegIf>>)
RbraceIf(more) == If({"T_RBRACE"}, <<Consume>>, more)
ElementIf(more) == If({"T_COMMA"}, <<Consume, Call("elements")>>, <<RbraceIf(more)>>)

Choice(e) ==
    \/ e = If({"T_END"}, <<Push(NULL), Consume>>,
              <<Expect({"T_ELSE"}), Call("parse_block_stmt"), Expect({"T_END"})>>)
    \/ e = If({"T_SEMICOLON"}, <<Push(NULL)>>, <<Call("parse_expression")>>)
    \/ e = If({"T_LBRACKET"}, <<Consume, Expect({"T_RBRACKET"}), Call("dimensions")>>, << >>)
    \/ \E keywords : e = Typed(keywords)
    \/ e = If({"T_ASSIGN"}, <<Consume, Call("parse_expression")>>,
              <<Note({"T_SEMICOLON"}, "default")>>)
    \/ e = If({"T_LPAREN"}, <<ParamsIf>>, <<Expect({"T_LPAREN"})>>)
    \/ e = If({"T_STRUCT"}, <<Consume, Push(Word("D_STRUCT")), Take({"T_IDENT"}, "name")>>,
              <<Take(PrimitiveTypes \cup {"T_VOID"}, "type"), Push(Word(""))>>)
    \/ e = If({"T_END"}, << >>, <<Call("members")>>)
    \/ \E operators, operand :
          e = If(operators, <<Take(operators, "operator"), Call(operand), MakeBinop>>, << >>)
    \/ e = NotIf
    \/ e = NegIf
    \/ e = If({"T_RPAREN"}, << >>, <<Call("arguments")>>)
    \/ e = If({"T_RPAREN"}, << >>, <<If({"T_COMMA"}, <<Consume>>, << >>), Call("arguments")>>)
    \/ e = If({"T_COMMA"}, <<Consume>>, << >>)
    \/ \E more \in {<< >>, <<Call("elements")>>} : e \in {ElementIf(more), RbraceIf(more)}
    \/ e = If({"T_RBRACE"}, <<Consume>>, OneElement(<< >>))
    \/ e = If({"T_LBRACKET"}, <<Call("indexes")>>, << >>)

\* The steps there are, but for those that peek after a formal or a parenthesis.
Mild(e) ==
    /\ \/ e.step \notin {"if", "peek"}
       \/ Choice(e)
       \/ e \in {VarIf, StructIf, DotIf, AccessIf}
    /\ ~Peeking(e)

\* The steps that stand before one that peeks: the name of the formal was seen, the
\* formal is made and added.
Window(s, i) ==
    /\ i > 1 => s[i - 1] = AddNode(FALSE)
    /\ i > 2 => s[i - 2] = Make("N_FORMAL", 3)
    /\ i > 3 => s[i - 3] = Note({"T_IDENT"}, "name")

Orderly(s) == \A i \in 1 .. Len(s) : Mild(s[i]) \/ (Peeking(s[i]) /\ Window(s, i))

\* None of the first three steps peeks after a formal, and no step at all.
Quiet(s) == \A i \in 1 .. 3 : i <= Len(s) => ~Peeking(s[i])
Calm(s) == IsList(s) /\ \A i \in 1 .. Len(s) : Mild(s[i])

\* At the last token, no step that peeks is due before another token is asked for.
PeekInv ==
    status = "running" => Orderly(calls) /\ (lookahead.type = "T_EOF" => Quiet(calls))

\* The steps that choose nothing.
LEMMA MildStep ==
    ASSUME NEW e, e.step \notin {"if", "peek"}
    PROVE  Mild(e)
  <1>1. e # ParamsIf /\ \A more : e # CommaIf(more) /\ e # FormalIf(more)
    BY DEF ParamsIf, CommaIf, FormalIf, IfNext
  <1> QED
    BY <1>1 DEF Mild, Peeking

\* Those steps by their names.
LEMMA MildSteps ==
    /\ \A types : Mild(Expect(types))
    /\ \A types, what : Mild(Take(types, what)) /\ Mild(Note(types, what))
    /\ \A value : Mild(Push(value))
    /\ \A f : Mild(Call(f))
    /\ \A type, n : Mild(Make(type, n))
    /\ \A checked : Mild(AddNode(checked))
    /\ Mild(Consume) /\ Mild(Backup) /\ Mild(Unassigned) /\ Mild(MakeBinop) /\ Mild(AddStatement)
  <1>1. \A types : Expect(types).step = "expect"
    BY DEF Expect
  <1>2. \A types, what : Take(types, what).step = "take" /\ Note(types, what).step = "note"
    BY DEF Take, Note
  <1>3. \A value : Push(value).step = "push"
    BY DEF Push
  <1>4. \A f : Call(f).step = "call"
    BY DEF Call
  <1>5. \A type, n : Make(type, n).step = "make"
    BY DEF Make
  <1>6. \A checked : AddNode(checked).step = "add"
    BY DEF AddNode
  <1>7. /\ Consume.step = "consume" /\ Backup.step = "backup" /\ Unassigned.step = "unassigned"
        /\ MakeBinop.step = "binop" /\ AddStatement.step = "statement"
    BY DEF Consume, Backup, Unassigned, MakeBinop, AddStatement
  <1> QED
    BY <1>1, <1>2, <1>3, <1>4, <1>5, <1>6, <1>7, MildStep

\* A choice by the lookahead does not peek.
LEMMA MildChoice ==
    ASSUME NEW e, Choice(e)
    PROVE  e.step = "if" /\ Mild(e)
  <1>1. e.step = "if"
    <2>1. \A types, yes, no : If(types, yes, no).step = "if"
      BY DEF If
    <2>2. \A keywords : Typed(keywords).step = "if"
      BY <2>1 DEF Typed
    <2>3. NotIf.step = "if" /\ NegIf.step = "if"
      BY <2>1 DEF NotIf, NegIf
    <2>4. \A more : ElementIf(more).step = "if" /\ RbraceIf(more).step = "if"
      BY <2>1 DEF ElementIf, RbraceIf
    <2> QED
      BY <2>1, <2>2, <2>3, <2>4 DEF Choice
  <1>2. e # ParamsIf /\ \A more : e # CommaIf(more) /\ e # FormalIf(more)
    BY <1>1 DEF ParamsIf, CommaIf, FormalIf, IfNext
  <1> QED
    BY <1>1, <1>2 DEF Mild, Peeking

\* Those that look ahead in a declaration with struct or after a name and "."
LEMMA MildAhead ==
    ASSUME NEW e \in {VarIf, StructIf, DotIf, AccessIf}
    PROVE  Mild(e)
  <1>1. /\ VarIf.types = {"T_IDENT"} /\ StructIf.types = {"T_THEN"}
        /\ DotIf.types = {"T_IDENT"} /\ AccessIf.types = {"T_ASSIGN"}
    BY DEF VarIf, StructIf, DotIf, AccessIf, IfNext
  <1>2. ParamsIf.types = {"T_RPAREN"} /\ \A more : CommaIf(more).types = {"T_COMMA"}
    BY DEF ParamsIf, CommaIf, IfNext
  <1>3. \A more : FormalIf(more).types = {"T_RPAREN"}
    BY DEF FormalIf, IfNext
  <1>4. e.types \in {{"T_IDENT"}, {"T_THEN"}, {"T_ASSIGN"}}
    BY <1>1
  <1>5. "T_RPAREN" \notin e.types /\ "T_COMMA" \notin e.types
    BY <1>4
  <1> QED
    BY <1>2, <1>3, <1>5 DEF Mild, Peeking

\* A list of mild steps is calm: the empty one, and those of one to nine.
LEMMA CalmOfNone ==
    Calm(<< >>)
  BY DEF Calm, IsList

\* One step.
LEMMA CalmOfOne ==
    ASSUME NEW a,
           Mild(a)
    PROVE  Calm(<<a>>)
  <1>1. PICK s : s = <<a>>
    OBVIOUS
  <1>2. Len(s) = 1 /\ s[1] = a
    BY <1>1
  <1>3. IsList(s)
    BY <1>1 DEF IsList
  <1>4. \A i \in 1 .. 1 : Mild(s[i])
    <2>1. \A i \in 1 .. 1 : i = 1
      OBVIOUS
    <2> QED
      BY <1>2, <2>1
  <1> QED
    BY <1>1, <1>2, <1>3, <1>4 DEF Calm

\* Two steps.
LEMMA CalmOfTwo ==
    ASSUME NEW a, NEW b,
           Mild(a), Mild(b)
    PROVE  Calm(<<a, b>>)
  <1>1. PICK s : s = <<a, b>>
    OBVIOUS
  <1>2. Len(s) = 2 /\ s[1] = a /\ s[2] = b
    BY <1>1
  <1>3. IsList(s)
    BY <1>1 DEF IsList
  <1>4. \A i \in 1 .. 2 : Mild(s[i])
    <2>1. \A i \in 1 .. 2 : i = 1 \/ i = 2
      OBVIOUS
    <2> QED
      BY <1>2, <2>1
  <1> QED
    BY <1>1, <1>2, <1>3, <1>4 DEF Calm

\* Three steps.
LEMMA CalmOfThree ==
    ASSUME NEW a, NEW b, NEW c,
           Mild(a), Mild(b), Mild(c)
    PROVE  Calm(<<a, b, c>>)
  <1>1. PICK s : s = <<a, b, c>>
    OBVIOUS
  <1>2. Len(s) = 3 /\ s[1] = a /\ s[2] = b /\ s[3] = c
    BY <1>1
  <1>3. IsList(s)
    BY <1>1 DEF IsList
  <1>4. \A i \in 1 .. 3 : Mild(s[i])
    <2>1. \A i \in 1 .. 3 : i = 1 \/ i = 2 \/ i = 3
      OBVIOUS
    <2> QED
      BY <1>2, <2>1
  <1> QED
    BY <1>1, <1>2, <1>3, <1>4 DEF Calm

\* Four steps.
LEMMA CalmOfFour ==
    ASSUME NEW a, NEW b, NEW c, NEW d,
           Mild(a), Mild(b), Mild(c), Mild(d)
    PROVE  Calm(<<a, b, c, d>>)
  <1>1. PICK s : s = <<a, b, c, d>>
    OBVIOUS
  <1>2. Len(s) = 4 /\ s[1] = a /\ s[2] = b /\ s[3] = c /\ s[4] = d
    BY <1>1
  <1>3. IsList(s)
    BY <1>1 DEF IsList
  <1>4. \A i \in 1 .. 4 : Mild(s[i])
    <2>1. \A i \in 1 .. 4 : i = 1 \/ i = 2 \/ i = 3 \/ i = 4
      OBVIOUS
    <2> QED
      BY <1>2, <2>1
  <1> QED
    BY <1>1, <1>2, <1>3, <1>4 DEF Calm

\* Five steps.
LEMMA CalmOfFive ==
    ASSUME NEW a, NEW b, NEW c, NEW d, NEW e,
           Mild(a), Mild(b), Mild(c), Mild(d), Mild(e)
    PROVE  Calm(<<a, b, c, d, e>>)
  <1>1. PICK s : s = <<a, b, c, d, e>>
    OBVIOUS
  <1>2. Len(s) = 5 /\ s[1] = a /\ s[2] = b /\ s[3] = c /\ s[4] = d /\ s[5] = e
    BY <1>1
  <1>3. IsList(s)
    BY <1>1 DEF IsList
  <1>4. \A i \in 1 .. 5 : Mild(s[i])
    <2>1. \A i \in 1 .. 5 : i = 1 \/ i = 2 \/ i = 3 \/ i = 4 \/ i = 5
      OBVIOUS
    <2> QED
      BY <1>2, <2>1
  <1> QED
    BY <1>1, <1>2, <1>3, <1>4 DEF Calm

\* Six steps.
LEMMA CalmOfSix ==
    ASSUME NEW a, NEW b, NEW c, NEW d, NEW e, NEW f,
           Mild(a), Mild(b), Mild(c), Mild(d), Mild(e), Mild(f)
    PROVE  Calm(<<a, b, c, d, e, f>>)
  <1>1. PICK s : s = <<a, b, c, d, e, f>>
    OBVIOUS
  <1>2. Len(s) = 6 /\ s[1] = a /\ s[2] = b /\ s[3] = c /\ s[4] = d /\ s[5] = e /\ s[6] = f
    BY <1>1
  <1>3. IsList(s)
    BY <1>1 DEF IsList
  <1>4. \A i \in 1 .. 6 : Mild(s[i])
    <2>1. \A i \in 1 .. 6 : i = 1 \/ i = 2 \/ i = 3 \/ i = 4 \/ i = 5 \/ i = 6
      OBVIOUS
    <2> QED
      BY <1>2, <2>1
  <1> QED
    BY <1>1, <1>2, <1>3, <1>4 DEF Calm

\* Seven steps.
LEMMA CalmOfSeven ==
    ASSUME NEW a, NEW b, NEW c, NEW d, NEW e, NEW f, NEW g,
           Mild(a), Mild(b), Mild(c), Mild(d), Mild(e), Mild(f), Mild(g)
    PROVE  Calm(<<a, b, c, d, e, f, g>>)
  <1>1. PICK s : s = <<a, b, c, d, e, f, g>>
    OBVIOUS
  <1>2. /\ Len(s) = 7 /\ s[1] = a /\ s[2] = b /\ s[3] = c /\ s[4] = d /\ s[5] = e
        /\ s[6] = f /\ s[7] = g
    BY <1>1
  <1>3. IsList(s)
    BY <1>1 DEF IsList
  <1>4. \A i \in 1 .. 7 : Mild(s[i])
    <2>1. \A i \in 1 .. 7 : i = 1 \/ i = 2 \/ i = 3 \/ i = 4 \/ i = 5 \/ i = 6 \/ i = 7
      OBVIOUS
    <2> QED
      BY <1>2, <2>1
  <1> QED
    BY <1>1, <1>2, <1>3, <1>4 DEF Calm

\* Nine steps.
LEMMA CalmOfNine ==
    ASSUME NEW a, NEW b, NEW c, NEW d, NEW e, NEW f, NEW g, NEW x, NEW y,
           Mild(a), Mild(b), Mild(c), Mild(d), Mild(e), Mild(f), Mild(g), Mild(x), Mild(y)
    PROVE  Calm(<<a, b, c, d, e, f, g, x, y>>)
  <1>1. PICK s : s = <<a, b, c, d, e, f, g, x, y>>
    OBVIOUS
  <1>2. /\ Len(s) = 9 /\ s[1] = a /\ s[2] = b /\ s[3] = c /\ s[4] = d /\ s[5] = e
        /\ s[6] = f /\ s[7] = g /\ s[8] = x /\ s[9] = y
    BY <1>1
  <1>3. IsList(s)
    BY <1>1 DEF IsList
  <1>4. \A i \in 1 .. 9 : Mild(s[i])
    <2>1. \A i \in 1 .. 9 : \/ i = 1 \/ i = 2 \/ i = 3 \/ i = 4 \/ i = 5
                             \/ i = 6 \/ i = 7 \/ i = 8 \/ i = 9
      OBVIOUS
    <2> QED
      BY <1>2, <2>1
  <1> QED
    BY <1>1, <1>2, <1>3, <1>4 DEF Calm

\* Lists in an orderly state: without their first step, if that is none of those that
\* stand before one that peeks.
LEMMA OrderlyRest ==
    ASSUME NEW s, IsList(s), s # << >>, Orderly(s)
    PROVE  /\ Orderly(Tail(s))
           /\ Head(s).step \notin {"add", "make", "note"} => Quiet(Tail(s))
           /\ Head(s) # Note({"T_IDENT"}, "name") /\ Quiet(s) => Quiet(Tail(s))
  <1>1. PICK t, n : t = Tail(s) /\ n = Len(t)
    OBVIOUS
  <1>2. /\ n \in Nat /\ Len(s) = n + 1 /\ Head(s) = s[1]
        /\ \A i \in 1 .. n : t[i] = s[i + 1] /\ i + 1 \in 1 .. Len(s)
    BY <1>1, UnconsList DEF IsList
  <1>3. ASSUME NEW i \in 1 .. n
        PROVE  Mild(t[i]) \/ (Peeking(t[i]) /\ Window(t, i))
    <2>1. PICK j : j = i + 1
      OBVIOUS
    <2>2. j \in 1 .. Len(s) /\ t[i] = s[j]
      BY <1>2, <2>1
    <2>3. Mild(s[j]) \/ (Peeking(s[j]) /\ Window(s, j))
      BY <2>2 DEF Orderly
    <2>4. ASSUME Window(s, j) PROVE Window(t, i)
      <3>1. i > 1 => i - 1 \in 1 .. n /\ j > 1 /\ j - 1 = (i - 1) + 1
        BY <1>2, <2>1
      <3>2. i > 2 => i - 2 \in 1 .. n /\ j > 2 /\ j - 2 = (i - 2) + 1
        BY <1>2, <2>1
      <3>3. i > 3 => i - 3 \in 1 .. n /\ j > 3 /\ j - 3 = (i - 3) + 1
        BY <1>2, <2>1
      <3>4. i > 1 => t[i - 1] = s[j - 1]
        BY <1>2, <3>1
      <3>5. i > 2 => t[i - 2] = s[j - 2]
        BY <1>2, <3>2
      <3>6. i > 3 => t[i - 3] = s[j - 3]
        BY <1>2, <3>3
      <3> QED
        BY <2>4, <3>1, <3>2, <3>3, <3>4, <3>5, <3>6 DEF Window
    <2> QED
      BY <2>2, <2>3, <2>4
  <1>4. ASSUME NEW i \in 1 .. 3, i <= n, Peeking(t[i])
        PROVE  /\ Head(s).step \in {"add", "make", "note"}
               /\ \/ Head(s) = Note({"T_IDENT"}, "name")
                  \/ i + 1 \in 1 .. 3 /\ i + 1 <= Len(s) /\ Peeking(s[i + 1])
    <2>1. PICK j : j = i + 1
      OBVIOUS
    <2>2. j \in 1 .. Len(s) /\ t[i] = s[j] /\ j \in 2 .. 4
      BY <1>2, <1>4, <2>1
    <2>3. Window(s, j)
      BY <1>4, <2>2 DEF Orderly, Mild
    <2>4. CASE j = 2
      <3>1. s[1] = AddNode(FALSE)
        <4>1. j > 1 /\ j - 1 = 1
          BY <2>4
        <4> QED
          BY <2>3, <4>1 DEF Window
      <3> QED
        BY <1>2, <1>4, <2>1, <2>2, <2>4, <3>1 DEF AddNode
    <2>5. CASE j = 3
      <3>1. s[1] = Make("N_FORMAL", 3)
        <4>1. j > 2 /\ j - 2 = 1
          BY <2>5
        <4> QED
          BY <2>3, <4>1 DEF Window
      <3> QED
        BY <1>2, <1>4, <2>1, <2>2, <2>5, <3>1 DEF Make
    <2>6. CASE j = 4
      <3>1. s[1] = Note({"T_IDENT"}, "name")
        <4>1. j > 3 /\ j - 3 = 1
          BY <2>6
        <4> QED
          BY <2>3, <4>1 DEF Window
      <3>2. Head(s) = Note({"T_IDENT"}, "name")
        BY <1>2, <3>1
      <3>3. Head(s).step = "note"
        BY <3>2 DEF Note
      <3> QED
        BY <3>2, <3>3
    <2> QED
      BY <2>2, <2>4, <2>5, <2>6
  <1>5. Orderly(t)
    BY <1>1, <1>3 DEF Orderly
  <1>6. Head(s).step \notin {"add", "make", "note"} => Quiet(t)
    BY <1>1, <1>4 DEF Quiet
  <1>7. Head(s) # Note({"T_IDENT"}, "name") /\ Quiet(s) => Quiet(t)
    BY <1>1, <1>4 DEF Quiet
  <1> QED
    BY <1>1, <1>5, <1>6, <1>7

\* And with other steps put in front.
LEMMA OrderlyJoin ==
    ASSUME NEW p, NEW s, IsList(p), IsList(s), Orderly(p), Orderly(s), Quiet(s)
    PROVE  Orderly(p \o s) /\ (Quiet(p) => Quiet(p \o s))
  <1>1. PICK t, n, m : t = p \o s /\ n = Len(p) /\ m = Len(s)
    OBVIOUS
  <1>2. /\ n \in Nat /\ m \in Nat /\ Len(t) = n + m
        /\ \A i \in 1 .. n + m : t[i] = IF i <= n THEN p[i] ELSE s[i - n]
    BY <1>1 DEF IsList
  <1>3. ASSUME NEW i \in 1 .. n
        PROVE  Mild(t[i]) \/ (Peeking(t[i]) /\ Window(t, i))
    <2>1. \A j \in 1 .. n : t[j] = p[j]
      BY <1>2
    <2>2. Mild(p[i]) \/ (Peeking(p[i]) /\ Window(p, i))
      BY <1>1, <1>3 DEF Orderly
    <2>3. /\ i > 1 => i - 1 \in 1 .. n
          /\ i > 2 => i - 2 \in 1 .. n
          /\ i > 3 => i - 3 \in 1 .. n
      BY <1>2
    <2>4. Window(p, i) => Window(t, i)
      BY <2>1, <2>3 DEF Window
    <2> QED
      BY <2>1, <2>2, <2>4
  <1>4. ASSUME NEW i \in n + 1 .. n + m
        PROVE  Mild(t[i]) \/ (Peeking(t[i]) /\ Window(t, i))
    <2>1. PICK k : k = i - n
      OBVIOUS
    <2>2. k \in 1 .. m /\ t[i] = s[k]
      BY <1>2, <1>4, <2>1
    <2>3. Mild(s[k]) \/ (Peeking(s[k]) /\ Window(s, k))
      BY <1>1, <2>2 DEF Orderly
    <2>4. Peeking(s[k]) => k > 3
      BY <1>1, <1>2, <2>2 DEF Quiet
    <2>5. ASSUME k > 3 PROVE t[i - 1] = s[k - 1] /\ t[i - 2] = s[k - 2] /\ t[i - 3] = s[k - 3]
      <3>1. /\ i - 1 \in 1 .. n + m /\ ~ (i - 1 <= n) /\ i - 1 - n = k - 1
            /\ i - 2 \in 1 .. n + m /\ ~ (i - 2 <= n) /\ i - 2 - n = k - 2
            /\ i - 3 \in 1 .. n + m /\ ~ (i - 3 <= n) /\ i - 3 - n = k - 3
        BY <1>2, <1>4, <2>1, <2>5
      <3> QED
        BY <1>2, <3>1
    <2>6. k > 3 /\ Window(s, k) => Window(t, i)
      <3>1. k > 3 => k > 2 /\ k > 1
        BY <2>2
      <3> QED
        BY <2>5, <3>1 DEF Window
    <2> QED
      BY <2>2, <2>3, <2>4, <2>6
  <1>5. Orderly(t)
    <2>1. \A i \in 1 .. n + m : i \in 1 .. n \/ i \in n + 1 .. n + m
      BY <1>2
    <2> QED
      BY <1>2, <1>3, <1>4, <2>1 DEF Orderly
  <1>6. Quiet(p) => Quiet(t)
    <2> SUFFICES ASSUME Quiet(p), NEW i \in 1 .. 3, i <= n + m PROVE ~Peeking(t[i])
      BY <1>2 DEF Quiet
    <2>1. CASE i <= n
      BY <1>1, <1>2, <2>1 DEF Quiet
    <2>2. CASE ~ (i <= n)
      <3>1. i - n \in 1 .. 3 /\ i - n <= m /\ t[i] = s[i - n]
        BY <1>2, <2>2
      <3> QED
        BY <1>1, <3>1 DEF Quiet
    <2> QED
      BY <2>1, <2>2
  <1> QED
    BY <1>1, <1>5, <1>6

\* Calm lists are in order.
LEMMA CalmOrderly ==
    ASSUME NEW s, Calm(s)
    PROVE  IsList(s) /\ Orderly(s) /\ Quiet(s)
  <1>1. IsList(s) /\ Len(s) \in Nat /\ \A i \in 1 .. Len(s) : Mild(s[i]) /\ ~Peeking(s[i])
    BY DEF Calm, IsList, Mild
  <1> QED
    BY <1>1 DEF Orderly, Quiet

\* A formal: what peeks comes last.
LEMMA FormalOrderly ==
    ASSUME NEW more \in {<< >>, <<Call("formals")>>}
    PROVE  LET s == OneFormal(more) IN IsList(s) /\ Orderly(s) /\ Quiet(s)
  <1>1. PICK a, b, c, d, e, f, g :
           /\ a = Consume
           /\ b = Typed(PrimitiveTypes)
           /\ c = Call("dimensions")
           /\ d = Note({"T_IDENT"}, "name")
           /\ e = Make("N_FORMAL", 3)
           /\ f = AddNode(FALSE)
           /\ g = FormalIf(more)
    OBVIOUS
  <1>2. PICK s : s = <<a, b, c, d, e, f, g>>
    OBVIOUS
  <1>3. OneFormal(more) = s
    BY <1>1, <1>2 DEF OneFormal, FormalIf, CommaIf
  <1>4. Choice(b)
    BY <1>1 DEF Choice
  <1>5. Mild(a) /\ Mild(b) /\ Mild(c) /\ Mild(d) /\ Mild(e) /\ Mild(f)
    BY <1>1, <1>4, MildSteps, MildChoice
  <1>6. Peeking(g)
    BY <1>1 DEF Peeking
  <1>7. /\ Len(s) = 7 /\ s[1] = a /\ s[2] = b /\ s[3] = c /\ s[4] = d /\ s[5] = e
        /\ s[6] = f /\ s[7] = g
    BY <1>2
  <1>8. Window(s, 7)
    <2>1. 7 - 1 = 6 /\ 7 - 2 = 5 /\ 7 - 3 = 4
      OBVIOUS
    <2> QED
      BY <1>1, <1>7, <2>1 DEF Window
  <1>9. \A i \in 1 .. 7 : i = 1 \/ i = 2 \/ i = 3 \/ i = 4 \/ i = 5 \/ i = 6 \/ i = 7
    OBVIOUS
  <1>10. Orderly(s)
    BY <1>5, <1>6, <1>7, <1>8, <1>9 DEF Orderly
  <1>11. ~Peeking(a) /\ ~Peeking(b) /\ ~Peeking(c)
    BY <1>5 DEF Mild
  <1>12. Quiet(s)
    <2>1. \A i \in 1 .. 3 : i = 1 \/ i = 2 \/ i = 3
      OBVIOUS
    <2> QED
      BY <1>7, <1>11, <2>1 DEF Quiet
  <1> QED
    BY <1>2, <1>3, <1>10, <1>12, ListOfSeven

\* Calm steps are put in front by the functions for statements.
LEMMA StatementsCalm ==
    ASSUME parse_statements \/ parse_block_stmt \/ parse_while_stmt \/ parse_if_stmt \/
           parse_return_stmt \/ parse_label_decl \/ parse_goto_stmt
    PROVE  \E f, steps : Enters(f, steps) /\ Calm(steps)
  <1>1. CASE parse_statements
    <2>1. PICK a, b, c :
             /\ a = Push(EmptyVector)
             /\ b = Call("parse_statement")
             /\ c = AddStatement
      OBVIOUS
    <2>2. Mild(a) /\ Mild(b) /\ Mild(c)
      BY <2>1, MildSteps
    <2>3. Calm(<<a, b, c>>)
      BY <2>2, CalmOfThree
    <2> QED
      BY <1>1, <2>1, <2>3 DEF parse_statements
  <1>2. CASE parse_block_stmt
    <2>1. PICK a, b, c :
             /\ a = Expect({"T_THEN"})
             /\ b = Call("parse_statements")
             /\ c = Make("N_BLOCK_STMT", 1)
      OBVIOUS
    <2>2. Mild(a) /\ Mild(b) /\ Mild(c)
      BY <2>1, MildSteps
    <2>3. Calm(<<a, b, c>>)
      BY <2>2, CalmOfThree
    <2> QED
      BY <1>2, <2>1, <2>3 DEF parse_block_stmt
  <1>3. CASE parse_while_stmt
    <2>1. PICK a, b, c, d, e, f, g :
             /\ a = Expect({"T_WHILE"})
             /\ b = Expect({"T_LPAREN"})
             /\ c = Call("parse_expression")
             /\ d = Expect({"T_RPAREN"})
             /\ e = Call("parse_block_stmt")
             /\ f = Expect({"T_END"})
             /\ g = Make("N_WHILE_STMT", 2)
      OBVIOUS
    <2>2. Mild(a) /\ Mild(b) /\ Mild(c) /\ Mild(d) /\ Mild(e) /\ Mild(f) /\ Mild(g)
      BY <2>1, MildSteps
    <2>3. Calm(<<a, b, c, d, e, f, g>>)
      BY <2>2, CalmOfSeven
    <2> QED
      BY <1>3, <2>1, <2>3 DEF parse_while_stmt
  <1>4. CASE parse_if_stmt
    <2>1. PICK a, b, c, d, e, f, g :
             /\ a = Expect({"T_IF"})
             /\ b = Expect({"T_LPAREN"})
             /\ c = Call("parse_expression")
             /\ d = Expect({"T_RPAREN"})
             /\ e = Call("parse_block_stmt")
             /\ f = If({"T_END"}, <<Push(NULL), Consume>>, <<Expect({"T_ELSE"}),
                    Call("parse_block_stmt"), Expect({"T_END"})>>)
             /\ g = Make("N_IF_STMT", 3)
      OBVIOUS
    <2>2. Choice(f)
      BY <2>1 DEF Choice
    <2>3. Mild(a) /\ Mild(b) /\ Mild(c) /\ Mild(d) /\ Mild(e) /\ Mild(f) /\ Mild(g)
      BY <2>1, <2>2, MildSteps, MildChoice
    <2>4. Calm(<<a, b, c, d, e, f, g>>)
      BY <2>3, CalmOfSeven
    <2> QED
      BY <1>4, <2>1, <2>4 DEF parse_if_stmt
  <1>5. CASE parse_return_stmt
    <2>1. PICK a, b, c, d :
             /\ a = Expect({"T_RETURN"})
             /\ b = If({"T_SEMICOLON"}, <<Push(NULL)>>, <<Call("parse_expression")>>)
             /\ c = Expect({"T_SEMICOLON"})
             /\ d = Make("N_RETURN_STMT", 1)
      OBVIOUS
    <2>2. Choice(b)
      BY <2>1 DEF Choice
    <2>3. Mild(a) /\ Mild(b) /\ Mild(c) /\ Mild(d)
      BY <2>1, <2>2, MildSteps, MildChoice
    <2>4. Calm(<<a, b, c, d>>)
      BY <2>3, CalmOfFour
    <2> QED
      BY <1>5, <2>1, <2>4 DEF parse_return_stmt
  <1>6. CASE parse_label_decl
    <2>1. PICK a, b, c :
             /\ a = Take({"T_IDENT"}, "name")
             /\ b = Expect({"T_COLON"})
             /\ c = Make("N_LABEL_DECL", 1)
      OBVIOUS
    <2>2. Mild(a) /\ Mild(b) /\ Mild(c)
      BY <2>1, MildSteps
    <2>3. Calm(<<a, b, c>>)
      BY <2>2, CalmOfThree
    <2> QED
      BY <1>6, <2>1, <2>3 DEF parse_label_decl
  <1>7. CASE parse_goto_stmt
    <2>1. PICK a, b, c, d :
             /\ a = Expect({"T_GOTO"})
             /\ b = Take({"T_IDENT"}, "name")
             /\ c = Expect({"T_SEMICOLON"})
             /\ d = Make("N_GOTO_STMT", 1)
      OBVIOUS
    <2>2. Mild(a) /\ Mild(b) /\ Mild(c) /\ Mild(d)
      BY <2>1, MildSteps
    <2>3. Calm(<<a, b, c, d>>)
      BY <2>2, CalmOfFour
    <2> QED
      BY <1>7, <2>1, <2>3 DEF parse_goto_stmt
  <1> QED
    BY <1>1, <1>2, <1>3, <1>4, <1>5, <1>6, <1>7

\* Calm steps are put in front by those for declarations, but for formals.
LEMMA DeclarationsCalm ==
    ASSUME parse_var_decl \/ parse_function_decl \/ parse_struct_decl \/ members \/
           parse_member_decl \/ dimensions
    PROVE  \E f, steps : Enters(f, steps) /\ Calm(steps)
  <1>1. CASE parse_var_decl
    <2>1. PICK a, b, c, d, e, f :
             /\ a = Typed(TokenTypes)
             /\ b = Call("dimensions")
             /\ c = Take({"T_IDENT"}, "name")
             /\ d = If({"T_ASSIGN"}, <<Consume, Call("parse_expression")>>,
                    <<Note({"T_SEMICOLON"}, "default")>>)
             /\ e = Expect({"T_SEMICOLON"})
             /\ f = Make("N_VAR_DECL", 4)
      OBVIOUS
    <2>2. Choice(a)
      BY <2>1 DEF Choice
    <2>3. Choice(d)
      BY <2>1 DEF Choice
    <2>4. Mild(a) /\ Mild(b) /\ Mild(c) /\ Mild(d) /\ Mild(e) /\ Mild(f)
      BY <2>1, <2>2, <2>3, MildSteps, MildChoice
    <2>5. Calm(<<a, b, c, d, e, f>>)
      BY <2>4, CalmOfSix
    <2> QED
      BY <1>1, <2>1, <2>5 DEF parse_var_decl
  <1>2. CASE parse_function_decl
    <2>1. PICK a, b, c, d, e, f, g, x, y :
             /\ a = Expect({"T_FUNC"})
             /\ b = Take({"T_IDENT"}, "name")
             /\ c = If({"T_LPAREN"}, <<ParamsIf>>, <<Expect({"T_LPAREN"})>>)
             /\ d = Expect({"T_OFTYPE"})
             /\ e = If({"T_STRUCT"}, <<Consume, Push(Word("D_STRUCT")), Take({"T_IDENT"},
                    "name")>>, <<Take(PrimitiveTypes \cup {"T_VOID"}, "type"),
                    Push(Word(""))>>)
             /\ f = Call("dimensions")
             /\ g = Call("parse_block_stmt")
             /\ x = Expect({"T_END"})
             /\ y = Make("N_FUNC_DECL", 5)
      OBVIOUS
    <2>2. Choice(c)
      BY <2>1 DEF Choice
    <2>3. Choice(e)
      BY <2>1 DEF Choice
    <2>4. Mild(a) /\ Mild(b) /\ Mild(c) /\ Mild(d) /\ Mild(e) /\ Mild(f) /\
          Mild(g) /\ Mild(x) /\ Mild(y)
      BY <2>1, <2>2, <2>3, MildSteps, MildChoice
    <2>5. Calm(<<a, b, c, d, e, f, g, x, y>>)
      BY <2>4, CalmOfNine
    <2> QED
      BY <1>2, <2>1, <2>5 DEF parse_function_decl, ParamsIf
  <1>3. CASE parse_struct_decl
    <2>1. PICK a, b, c, d, e, f, g :
             /\ a = Expect({"T_STRUCT"})
             /\ b = Take({"T_IDENT"}, "name")
             /\ c = Expect({"T_THEN"})
             /\ d = Push(EmptyVector)
             /\ e = Call("members")
             /\ f = Expect({"T_END"})
             /\ g = Make("N_STRUCT_DECL", 2)
      OBVIOUS
    <2>2. Mild(a) /\ Mild(b) /\ Mild(c) /\ Mild(d) /\ Mild(e) /\ Mild(f) /\ Mild(g)
      BY <2>1, MildSteps
    <2>3. Calm(<<a, b, c, d, e, f, g>>)
      BY <2>2, CalmOfSeven
    <2> QED
      BY <1>3, <2>1, <2>3 DEF parse_struct_decl
  <1>4. CASE members
    <2>1. PICK a, b, c :
             /\ a = Call("parse_member_decl")
             /\ b = AddNode(TRUE)
             /\ c = If({"T_END"}, << >>, <<Call("members")>>)
      OBVIOUS
    <2>2. Choice(c)
      BY <2>1 DEF Choice
    <2>3. Mild(a) /\ Mild(b) /\ Mild(c)
      BY <2>1, <2>2, MildSteps, MildChoice
    <2>4. Calm(<<a, b, c>>)
      BY <2>3, CalmOfThree
    <2> QED
      BY <1>4, <2>1, <2>4 DEF members
  <1>5. CASE parse_member_decl
    <2>1. PICK a, b, c, d :
             /\ a = Take(PrimitiveTypes, "type")
             /\ b = Take({"T_IDENT"}, "name")
             /\ c = Expect({"T_SEMICOLON"})
             /\ d = Make("N_MEMBER_DECL", 2)
      OBVIOUS
    <2>2. Mild(a) /\ Mild(b) /\ Mild(c) /\ Mild(d)
      BY <2>1, MildSteps
    <2>3. Calm(<<a, b, c, d>>)
      BY <2>2, CalmOfFour
    <2> QED
      BY <1>5, <2>1, <2>3 DEF parse_member_decl
  <1>6. CASE dimensions
    <2>1. PICK a :
             /\ a = If({"T_LBRACKET"}, <<Consume, Expect({"T_RBRACKET"}),
                    Call("dimensions")>>, << >>)
      OBVIOUS
    <2>2. Choice(a)
      BY <2>1 DEF Choice
    <2>3. Mild(a)
      BY <2>1, <2>2, MildSteps, MildChoice
    <2>4. Calm(<<a>>)
      BY <2>3, CalmOfOne
    <2> QED
      BY <1>6, <2>1, <2>4 DEF dimensions
  <1> QED
    BY <1>1, <1>2, <1>3, <1>4, <1>5, <1>6

\* Calm steps are put in front by those for expressions of one form.
LEMMA ExpressionsCalm ==
    ASSUME parse_and_expr \/ parse_not_expr \/ parse_compare_expr \/ parse_add_expr \/
           parse_mult_expr \/ parse_call_expr \/ arguments \/ parse_struct_access_expr \/
           parse_array_init_expr \/ elements \/ parse_array_access_expr \/ indexes
    PROVE  \E f, steps : Enters(f, steps) /\ Calm(steps)
  <1>1. CASE parse_and_expr
    <2>1. PICK a, b :
             /\ a = Call("parse_not_expr")
             /\ b = If({"T_AND", "T_OR"}, <<Take({"T_AND", "T_OR"}, "operator"),
                    Call("parse_not_expr"), MakeBinop>>, << >>)
      OBVIOUS
    <2>2. Choice(b)
      BY <2>1 DEF Choice
    <2>3. Mild(a) /\ Mild(b)
      BY <2>1, <2>2, MildSteps, MildChoice
    <2>4. Calm(<<a, b>>)
      BY <2>3, CalmOfTwo
    <2> QED
      BY <1>1, <2>1, <2>4 DEF parse_and_expr, Operands
  <1>2. CASE parse_not_expr
    <2>1. PICK a :
             /\ a = NotIf
      OBVIOUS
    <2>2. Choice(a)
      BY <2>1 DEF Choice
    <2>3. Mild(a)
      BY <2>1, <2>2, MildSteps, MildChoice
    <2>4. Calm(<<a>>)
      BY <2>3, CalmOfOne
    <2> QED
      BY <1>2, <2>1, <2>4 DEF parse_not_expr, NotIf, NegIf
  <1>3. CASE parse_compare_expr
    <2>1. PICK a, b :
             /\ a = Call("parse_add_expr")
             /\ b = If(Comparisons, <<Take(Comparisons, "operator"), Call("parse_add_expr"),
                    MakeBinop>>, << >>)
      OBVIOUS
    <2>2. Choice(b)
      BY <2>1 DEF Choice
    <2>3. Mild(a) /\ Mild(b)
      BY <2>1, <2>2, MildSteps, MildChoice
    <2>4. Calm(<<a, b>>)
      BY <2>3, CalmOfTwo
    <2> QED
      BY <1>3, <2>1, <2>4 DEF parse_compare_expr, Operands
  <1>4. CASE parse_add_expr
    <2>1. PICK a, b :
             /\ a = Call("parse_mult_expr")
             /\ b = If({"T_PLUS", "T_MINUS"}, <<Take({"T_PLUS", "T_MINUS"}, "operator"),
                    Call("parse_mult_expr"), MakeBinop>>, << >>)
      OBVIOUS
    <2>2. Choice(b)
      BY <2>1 DEF Choice
    <2>3. Mild(a) /\ Mild(b)
      BY <2>1, <2>2, MildSteps, MildChoice
    <2>4. Calm(<<a, b>>)
      BY <2>3, CalmOfTwo
    <2> QED
      BY <1>4, <2>1, <2>4 DEF parse_add_expr, Operands
  <1>5. CASE parse_mult_expr
    <2>1. PICK a, b :
             /\ a = Call("parse_primary_expr")
             /\ b = If({"T_MUL", "T_DIV", "T_MOD"}, <<Take({"T_MUL", "T_DIV", "T_MOD"},
                    "operator"), Call("parse_primary_expr"), MakeBinop>>, << >>)
      OBVIOUS
    <2>2. Choice(b)
      BY <2>1 DEF Choice
    <2>3. Mild(a) /\ Mild(b)
      BY <2>1, <2>2, MildSteps, MildChoice
    <2>4. Calm(<<a, b>>)
      BY <2>3, CalmOfTwo
    <2> QED
      BY <1>5, <2>1, <2>4 DEF parse_mult_expr, Operands
  <1>6. CASE parse_call_expr
    <2>1. PICK a, b, c, d, e, f :
             /\ a = Take({"T_IDENT"}, "name")
             /\ b = Expect({"T_LPAREN"})
             /\ c = Push(EmptyVector)
             /\ d = If({"T_RPAREN"}, << >>, <<Call("arguments")>>)
             /\ e = Expect({"T_RPAREN"})
             /\ f = Make("N_CALL_EXPR", 2)
      OBVIOUS
    <2>2. Choice(d)
      BY <2>1 DEF Choice
    <2>3. Mild(a) /\ Mild(b) /\ Mild(c) /\ Mild(d) /\ Mild(e) /\ Mild(f)
      BY <2>1, <2>2, MildSteps, MildChoice
    <2>4. Calm(<<a, b, c, d, e, f>>)
      BY <2>3, CalmOfSix
    <2> QED
      BY <1>6, <2>1, <2>4 DEF parse_call_expr
  <1>7. CASE arguments
    <2>1. PICK a, b, c :
             /\ a = Call("parse_expression")
             /\ b = AddNode(TRUE)
             /\ c = If({"T_RPAREN"}, << >>, <<If({"T_COMMA"}, <<Consume>>, << >>),
                    Call("arguments")>>)
      OBVIOUS
    <2>2. Choice(c)
      BY <2>1 DEF Choice
    <2>3. Mild(a) /\ Mild(b) /\ Mild(c)
      BY <2>1, <2>2, MildSteps, MildChoice
    <2>4. Calm(<<a, b, c>>)
      BY <2>3, CalmOfThree
    <2> QED
      BY <1>7, <2>1, <2>4 DEF arguments
  <1>8. CASE parse_struct_access_expr
    <2>1. PICK a, b, c, d :
             /\ a = Take({"T_IDENT"}, "name")
             /\ b = Expect({"T_DOT"})
             /\ c = Take({"T_IDENT"}, "name")
             /\ d = Make("N_STRUCT_ACCESS_EXPR", 2)
      OBVIOUS
    <2>2. Mild(a) /\ Mild(b) /\ Mild(c) /\ Mild(d)
      BY <2>1, MildSteps
    <2>3. Calm(<<a, b, c, d>>)
      BY <2>2, CalmOfFour
    <2> QED
      BY <1>8, <2>1, <2>3 DEF parse_struct_access_expr
  <1>9. CASE parse_array_init_expr
    <2>1. PICK a, b, c, d :
             /\ a = Expect({"T_LBRACE"})
             /\ b = Push(EmptyVector)
             /\ c = If({"T_RBRACE"}, <<Consume>>, OneElement(<< >>))
             /\ d = Make("N_ARRAY_INIT_EXPR", 1)
      OBVIOUS
    <2>2. Choice(c)
      BY <2>1 DEF Choice
    <2>3. Mild(a) /\ Mild(b) /\ Mild(c) /\ Mild(d)
      BY <2>1, <2>2, MildSteps, MildChoice
    <2>4. Calm(<<a, b, c, d>>)
      BY <2>3, CalmOfFour
    <2> QED
      BY <1>9, <2>1, <2>4 DEF parse_array_init_expr
  <1>10. CASE elements
    <2>1. PICK a, b, c :
             /\ a = Call("parse_expression")
             /\ b = AddNode(FALSE)
             /\ c = If({"T_COMMA"}, <<Consume, Call("elements")>>, <<If({"T_RBRACE"},
                    <<Consume>>, <<Call("elements")>>)>>)
      OBVIOUS
    <2>2. Choice(c)
      BY <2>1 DEF Choice, ElementIf, RbraceIf
    <2>3. Mild(a) /\ Mild(b) /\ Mild(c)
      BY <2>1, <2>2, MildSteps, MildChoice
    <2>4. Calm(<<a, b, c>>)
      BY <2>3, CalmOfThree
    <2> QED
      BY <1>10, <2>1, <2>4 DEF elements, OneElement
  <1>11. CASE parse_array_access_expr
    <2>1. PICK a, b, c, d :
             /\ a = Take({"T_IDENT"}, "name")
             /\ b = Push(EmptyVector)
             /\ c = Call("indexes")
             /\ d = Make("N_ARRAY_ACCESS_EXPR", 2)
      OBVIOUS
    <2>2. Mild(a) /\ Mild(b) /\ Mild(c) /\ Mild(d)
      BY <2>1, MildSteps
    <2>3. Calm(<<a, b, c, d>>)
      BY <2>2, CalmOfFour
    <2> QED
      BY <1>11, <2>1, <2>3 DEF parse_array_access_expr
  <1>12. CASE indexes
    <2>1. PICK a, b, c, d, e :
             /\ a = Expect({"T_LBRACKET"})
             /\ b = Call("parse_expression")
             /\ c = AddNode(FALSE)
             /\ d = Expect({"T_RBRACKET"})
             /\ e = If({"T_LBRACKET"}, <<Call("indexes")>>, << >>)
      OBVIOUS
    <2>2. Choice(e)
      BY <2>1 DEF Choice
    <2>3. Mild(a) /\ Mild(b) /\ Mild(c) /\ Mild(d) /\ Mild(e)
      BY <2>1, <2>2, MildSteps, MildChoice
    <2>4. Calm(<<a, b, c, d, e>>)
      BY <2>3, CalmOfFive
    <2> QED
      BY <1>12, <2>1, <2>4 DEF indexes
  <1> QED
    BY <1>1, <1>2, <1>3, <1>4, <1>5, <1>6, <1>7, <1>8, <1>9, <1>10, <1>11, <1>12

\* Lists put together.
LEMMA JoinList ==
    ASSUME NEW p, NEW s, IsList(p), IsList(s)
    PROVE  IsList(p \o s)
  <1>1. PICK S : S = {p[i] : i \in DOMAIN p} \cup {s[i] : i \in DOMAIN s}
    OBVIOUS
  <1>2. p \in Seq(S) /\ s \in Seq(S)
    BY <1>1, SeqMonotonic DEF IsList
  <1>3. p \o s \in Seq(S)
    BY <1>2
  <1> QED
    BY <1>3, ListOfSeq

\* Calm lists put together are calm.
LEMMA CalmJoin ==
    ASSUME NEW p, NEW s, Calm(p), Calm(s)
    PROVE  Calm(p \o s)
  <1>1. PICK t, n, m : t = p \o s /\ n = Len(p) /\ m = Len(s)
    OBVIOUS
  <1>2. /\ n \in Nat /\ m \in Nat /\ Len(t) = n + m
        /\ \A i \in 1 .. n + m : t[i] = IF i <= n THEN p[i] ELSE s[i - n]
    BY <1>1 DEF Calm, IsList
  <1>3. ASSUME NEW i \in 1 .. n + m PROVE Mild(t[i])
    <2>1. CASE i <= n
      BY <1>1, <1>2, <2>1 DEF Calm
    <2>2. CASE ~ (i <= n)
      <3>1. i - n \in 1 .. m /\ t[i] = s[i - n]
        BY <1>2, <2>2
      <3> QED
        BY <1>1, <3>1 DEF Calm
    <2> QED
      BY <2>1, <2>2
  <1> QED
    BY <1>1, <1>2, <1>3, JoinList DEF Calm

\* Calm steps are put in front by the functions that choose.
LEMMA ChoosersCalm ==
    ASSUME parse \/ parse_expression \/ parse_assign_expr
    PROVE  \/ status' # "running"
           \/ \E steps : Run(steps) /\ Calm(steps)
  <1>1. \A a : Mild(a) => Calm(<<a>>)
    BY CalmOfOne
  <1>2. CASE parse
    <2>1. Calm(<<Call("parse_statements"), Make("N_PROGRAM", 1)>>)
      BY MildSteps, CalmOfTwo
    <2> QED
      BY <1>2, <2>1 DEF parse, Stop
  <1>3. CASE parse_expression
    <2>1. \A f : Calm(<<Call(f)>>)
      BY <1>1, MildSteps
    <2> QED
      BY <1>3, <2>1 DEF parse_expression, Stop
  <1>4. CASE parse_assign_expr
    <2>1. PICK q : q = <<Expect({"T_ASSIGN"}), Call("parse_expression"),
                         Expect({"T_SEMICOLON"}), Make("N_ASSIGN_EXPR", 2)>>
      OBVIOUS
    <2>2. Calm(q)
      <3>1. PICK a, b, c, d :
               /\ a = Expect({"T_ASSIGN"})
               /\ b = Call("parse_expression")
               /\ c = Expect({"T_SEMICOLON"})
               /\ d = Make("N_ASSIGN_EXPR", 2)
        OBVIOUS
      <3>2. Mild(a) /\ Mild(b) /\ Mild(c) /\ Mild(d)
        BY <3>1, MildSteps
      <3> QED
        BY <2>1, <3>1, <3>2, CalmOfFour
    <2>3. Calm(Target)
      <3>1. \A f : Calm(<<Call(f)>>)
        BY <1>1, MildSteps
      <3>2. Calm(<<Take({"T_IDENT"}, "name"), Make("N_IDENT", 1)>>)
        BY MildSteps, CalmOfTwo
      <3> QED
        BY <3>1, <3>2 DEF Target
    <2>4. Calm(Target \o q)
      BY <2>2, <2>3, CalmJoin
    <2> QED
      BY <1>4, <2>1, <2>4 DEF parse_assign_expr, Stop
  <1> QED
    BY <1>2, <1>3, <1>4

\* So does a primary expression.
LEMMA PrimaryCalm ==
    ASSUME parse_primary_expr
    PROVE  \/ status' # "running"
           \/ \E steps : Run(steps) /\ Calm(steps)
  <1>1. \A f : Calm(<<Call(f)>>)
    BY CalmOfOne, MildSteps
  <1>2. CASE IdentPrimary
    <2>1. PICK a, b : a = Consume /\ b = DotIf
      OBVIOUS
    <2>2. Calm(<<a, b>>)
      BY <2>1, MildSteps, MildAhead, CalmOfTwo
    <2>3. CASE Run(<<Consume, DotIf>>)
      BY <2>1, <2>2, <2>3
    <2>4. PICK x, y, z : x = Note({"T_IDENT"}, "name") /\ y = Make("N_IDENT", 1) /\ z = Consume
      OBVIOUS
    <2>5. Calm(<<x, y, z>>)
      BY <2>4, MildSteps, CalmOfThree
    <2>6. CASE Run(<<Note({"T_IDENT"}, "name"), Make("N_IDENT", 1), Consume>>)
      BY <2>4, <2>5, <2>6
    <2> QED
      BY <1>1, <1>2, <2>3, <2>6 DEF IdentPrimary, DotIf, AccessIf, Stop
  <1>3. /\ Calm(<<Take(LiteralTypes, "literal")>>)
        /\ Calm(<<Make("N_NIL", 0), Consume>>)
        /\ Calm(<<Consume, Call("parse_expression"), Consume>>)
        /\ Calm(<<Unassigned, Consume>>)
    BY MildSteps, CalmOfOne, CalmOfTwo, CalmOfThree
  <1> QED
    BY <1>2, <1>3 DEF parse_primary_expr

\* And a statement, but where there is none.
LEMMA StatementCalm ==
    ASSUME parse_statement
    PROVE  \/ status' # "running"
           \/ NoStatement
           \/ \E steps : Run(steps) /\ Calm(steps)
  <1>1. \A f : Calm(<<Call(f)>>)
    BY CalmOfOne, MildSteps
  <1>2. CASE IdentStatement
    BY <1>1, <1>2 DEF IdentStatement, Stop
  <1>3. CASE StructStatement
    <2>1. PICK a, b : a = Consume /\ b = VarIf
      OBVIOUS
    <2>2. Calm(<<a, b>>)
      BY <2>1, MildSteps, MildAhead, CalmOfTwo
    <2>3. CASE Run(<<Consume, VarIf>>)
      BY <2>1, <2>2, <2>3
    <2>4. Calm(<<Push(NULL)>>)
      BY MildSteps, CalmOfOne
    <2> QED
      BY <1>3, <2>3, <2>4 DEF StructStatement, VarIf, StructIf
  <1>4. CASE EmptyStatement
    <2>1. Calm(<<Consume, Push(NULL)>>)
      BY MildSteps, CalmOfTwo
    <2> QED
      BY <1>4, <2>1 DEF EmptyStatement
  <1> QED
    BY <1>1, <1>2, <1>3, <1>4 DEF parse_statement, Stop

\* The formals.
LEMMA FormalsOrderly ==
    ASSUME parse_formals \/ formals
    PROVE  \E f, steps : Enters(f, steps) /\ IsList(steps) /\ Orderly(steps) /\ Quiet(steps)
  <1>1. CASE formals
    <2>1. PICK more : more = <<Call("formals")>>
      OBVIOUS
    <2>2. PICK s : s = OneFormal(more)
      OBVIOUS
    <2>3. IsList(s) /\ Orderly(s) /\ Quiet(s)
      BY <2>1, <2>2, FormalOrderly
    <2> QED
      BY <1>1, <2>1, <2>2, <2>3 DEF formals
  <1>2. CASE parse_formals
    <2>1. PICK p, s : p = <<Push(EmptyVector)>> /\ s = OneFormal(<< >>)
      OBVIOUS
    <2>2. IsList(s) /\ Orderly(s) /\ Quiet(s)
      BY <2>1, FormalOrderly
    <2>3. IsList(p) /\ Orderly(p) /\ Quiet(p)
      BY <2>1, MildSteps, CalmOfOne, CalmOrderly
    <2>4. IsList(p \o s) /\ Orderly(p \o s) /\ Quiet(p \o s)
      BY <2>2, <2>3, OrderlyJoin, JoinList
    <2> QED
      BY <1>2, <2>1, <2>4 DEF parse_formals
  <1> QED
    BY <1>1, <1>2

\* The choices that look ahead go on with a token given back, which no function does
\* by itself.
LEMMA AheadLeadsNot ==
    ASSUME NEW x \in {VarIf, StructIf, DotIf, AccessIf}, NEW h, NEW k
    PROVE  ~Leads(x, h, k)
  <1>1. \A i, j : ~Leads0(Backup, i, j)
    BY Kinds DEF Leads0, AddStatement
  <1>2. \A i, j : ~Leads1(Backup, i, j)
    BY <1>1, Kinds DEF Leads1, Branch
  <1>3. \A i, j : ~Leads2(Backup, i, j)
    BY <1>2, Kinds DEF Leads2, Branch
  <1>4. \A a, i, j : /\ ~Chain(Leads0, <<Backup, a>>, i, j)
                     /\ ~Chain(Leads1, <<Backup, a>>, i, j)
                     /\ ~Chain(Leads2, <<Backup, a>>, i, j)
    BY <1>1, <1>2, <1>3 DEF Chain
  <1>5. \A a, b, i, j : /\ ~Chain(Leads0, <<Backup, a, b>>, i, j)
                        /\ ~Chain(Leads1, <<Backup, a, b>>, i, j)
                        /\ ~Chain(Leads2, <<Backup, a, b>>, i, j)
    BY <1>1, <1>2, <1>3 DEF Chain
  <1>6. \A y, i, j : y.step = "peek" => ~Leads0(y, i, j)
    BY DEF Leads0, AddStatement
  <1>7. ASSUME NEW y, y.step = "peek",
               \/ \E a : y.yes = <<Backup, a>>
               \/ \E a, b : y.yes = <<Backup, a, b>>
        PROVE  \A i, j : ~Leads0(y, i, j) /\ ~Leads1(y, i, j) /\ ~Leads2(y, i, j) /\ ~Leads(y, i, j)
    <2>1. \A i, j : /\ ~Chain(Leads0, y.yes, i, j) /\ ~Chain(Leads1, y.yes, i, j)
                    /\ ~Chain(Leads2, y.yes, i, j)
      BY <1>4, <1>5, <1>7
    <2>2. \A i, j : ~Leads1(y, i, j)
      BY <1>6, <1>7, <2>1 DEF Leads1, Branch
    <2>3. \A i, j : ~Leads2(y, i, j)
      BY <2>1, <2>2 DEF Leads2, Branch
    <2>4. \A i, j : ~Leads(y, i, j)
      BY <2>1, <2>3 DEF Leads, Branch
    <2> QED
      BY <1>6, <1>7, <2>2, <2>3, <2>4
  <1>8. /\ VarIf.yes = <<Backup, Call("parse_var_decl")>>
        /\ StructIf.yes = <<Backup, Call("parse_struct_decl")>>
        /\ AccessIf.yes = <<Backup, Backup, Call("parse_assign_expr")>>
        /\ DotIf.yes = <<Consume, AccessIf>>
    BY DEF VarIf, StructIf, AccessIf, DotIf, IfNext
  <1>9. \A i, j : /\ ~Leads(VarIf, i, j) /\ ~Leads(StructIf, i, j) /\ ~Leads(AccessIf, i, j)
                  /\ ~Leads0(AccessIf, i, j) /\ ~Leads1(AccessIf, i, j) /\ ~Leads2(AccessIf, i, j)
    BY <1>7, <1>8, Kinds
  <1>10. \A i, j : /\ ~Chain(Leads0, DotIf.yes, i, j) /\ ~Chain(Leads1, DotIf.yes, i, j)
                   /\ ~Chain(Leads2, DotIf.yes, i, j)
    BY <1>8, <1>9 DEF Chain
  <1>11. \A i, j : ~Leads1(DotIf, i, j)
    BY <1>6, <1>10, Kinds DEF Leads1, Branch
  <1>12. \A i, j : ~Leads2(DotIf, i, j)
    BY <1>10, <1>11 DEF Leads2, Branch
  <1>13. \A i, j : ~Leads(DotIf, i, j)
    BY <1>10, <1>12 DEF Leads, Branch
  <1> QED
    BY <1>9, <1>13

\* Steps take the place of a call or of a choice.
LEMMA RunSees ==
    ASSUME ParseInv, PeekInv, status = "running", calls # << >>,
           Head(calls).step \in {"call", "if", "peek"}, NEW steps, Run(steps),
           IsList(steps), Orderly(steps), lookahead.type = "T_EOF" => Quiet(steps)
    PROVE  PeekInv'
  <1>1. IsList(calls) /\ Orderly(calls)
    BY DEF ParseInv, PeekInv
  <1>2. PICK s, t : s = Tail(calls) /\ t = steps \o s
    OBVIOUS
  <1>3. IsList(s) /\ Orderly(s) /\ Quiet(s)
    BY <1>1, <1>2, OrderlyRest, UnconsList
  <1>4. Orderly(t) /\ (Quiet(steps) => Quiet(t))
    BY <1>2, <1>3, OrderlyJoin
  <1>5. calls' = t /\ lookahead' = lookahead
    BY <1>2 DEF Run, lookahead
  <1> QED
    BY <1>4, <1>5 DEF PeekInv

\* Calm steps do.
LEMMA CalmSees ==
    ASSUME ParseInv, PeekInv, status = "running", calls # << >>,
           Head(calls).step \in {"call", "if", "peek"}, NEW steps, Run(steps), Calm(steps)
    PROVE  PeekInv'
  BY CalmOrderly, RunSees

\* A step is done; the note of a name has seen one.
LEMMA DoneSees ==
    ASSUME ParseInv, PeekInv, status = "running", calls # << >>, calls' = Tail(calls),
           \/ Head(calls).step \notin {"add", "make", "note"}
           \/ /\ lookahead' = lookahead
              /\ Head(calls) = Note({"T_IDENT"}, "name") => lookahead.type # "T_EOF"
    PROVE  PeekInv'
  <1>1. IsList(calls) /\ Orderly(calls) /\ (lookahead.type = "T_EOF" => Quiet(calls))
    BY DEF ParseInv, PeekInv
  <1>2. PICK t : t = Tail(calls)
    OBVIOUS
  <1>3. /\ Orderly(t)
        /\ Head(calls).step \notin {"add", "make", "note"} => Quiet(t)
        /\ Head(calls) # Note({"T_IDENT"}, "name") /\ Quiet(calls) => Quiet(t)
    BY <1>1, <1>2, OrderlyRest
  <1>4. calls' = t
    BY <1>2
  <1>5. CASE Head(calls).step \notin {"add", "make", "note"}
    BY <1>3, <1>4, <1>5 DEF PeekInv
  <1>6. CASE /\ lookahead' = lookahead
             /\ Head(calls) = Note({"T_IDENT"}, "name") => lookahead.type # "T_EOF"
    BY <1>1, <1>3, <1>4, <1>6 DEF PeekInv
  <1> QED
    BY <1>5, <1>6

\* The process ends.
LEMMA StopSees ==
    ASSUME status' # "running"
    PROVE  PeekInv'
  BY DEF PeekInv

\* A step that peeks has a token to load, and its lists are in order.
LEMMA PeekSees ==
    ASSUME ParseInv, PeekInv, At("peek")
    PROVE  lookahead.type # "T_EOF"
  <1>1. status = "running" /\ calls # << >> /\ Head(calls).step = "peek"
    BY DEF At
  <1>2. /\ IsList(calls) /\ Orderly(calls) /\ (lookahead.type = "T_EOF" => Quiet(calls))
        /\ Head(calls) = calls[1] /\ Len(calls) \in Nat /\ Len(calls) >= 1
    BY <1>1, UnconsList DEF ParseInv, PeekInv
  <1>3. CASE Peeking(Head(calls))
    BY <1>2, <1>3 DEF Quiet
  <1>4. CASE Mild(Head(calls))
    <2>1. Head(calls) \in {VarIf, StructIf, DotIf, AccessIf}
      BY <1>1, <1>4, MildChoice DEF Mild
    <2>2. ASSUME NEW k \in Nat, Leads(Head(calls), Len(built), k) PROVE FALSE
      BY <1>1, <2>1, <2>2, AheadLeadsNot
    <2>3. PICK s : s # << >> /\ Ends(s, Len(built) + 1) /\ Ahead(calls, s, cursor)
      BY <1>1, <2>2, FirstStep
    <2>4. IsList(s)
      BY <2>3 DEF Ends
    <2>5. Is(cursor, {"T_IDENT"}) \/ Is(cursor, {"T_DOT"})
      BY <1>1, <2>3, <2>4, AheadIs, Kinds
    <2> QED
      BY <2>5 DEF Is, lookahead
  <1> QED
    BY <1>2, <1>3, <1>4 DEF Orderly

\* What follows a choice by the lookahead.
LEMMA ChoiceLeads ==
    ASSUME NEW e, Choice(e)
    PROVE  /\ Calm(e.no)
           /\ Calm(e.yes) \/ (e.yes = <<ParamsIf>> /\ e.types = {"T_LPAREN"})
  <1>1. \A types, yes, no :
           LET i == If(types, yes, no) IN i.types = types /\ i.yes = yes /\ i.no = no
    BY DEF If
  <1>2. \A a : Mild(a) => Calm(<<a>>)
    BY CalmOfOne
  <1>3. \A a, b : Mild(a) /\ Mild(b) => Calm(<<a, b>>)
    BY CalmOfTwo
  <1>4. \A a, b, c : Mild(a) /\ Mild(b) /\ Mild(c) => Calm(<<a, b, c>>)
    BY CalmOfThree
  <1>5. CASE \/ e = If({"T_END"}, <<Push(NULL), Consume>>,
                       <<Expect({"T_ELSE"}), Call("parse_block_stmt"), Expect({"T_END"})>>)
             \/ e = If({"T_SEMICOLON"}, <<Push(NULL)>>, <<Call("parse_expression")>>)
             \/ e = If({"T_LBRACKET"}, <<Consume, Expect({"T_RBRACKET"}), Call("dimensions")>>,
                       << >>)
    BY <1>1, <1>2, <1>3, <1>4, <1>5, MildSteps, CalmOfNone
  <1>6. CASE \E keywords : e = Typed(keywords)
    BY <1>1, <1>3, <1>4, <1>6, MildSteps DEF Typed
  <1>7. CASE \/ e = If({"T_ASSIGN"}, <<Consume, Call("parse_expression")>>,
                       <<Note({"T_SEMICOLON"}, "default")>>)
             \/ e = If({"T_LPAREN"}, <<ParamsIf>>, <<Expect({"T_LPAREN"})>>)
             \/ e = If({"T_STRUCT"}, <<Consume, Push(Word("D_STRUCT")), Take({"T_IDENT"}, "name")>>,
                       <<Take(PrimitiveTypes \cup {"T_VOID"}, "type"), Push(Word(""))>>)
             \/ e = If({"T_END"}, << >>, <<Call("members")>>)
    BY <1>1, <1>2, <1>3, <1>4, <1>7, MildSteps, CalmOfNone
  <1>8. CASE \E operators, operand :
                e = If(operators, <<Take(operators, "operator"), Call(operand), MakeBinop>>, << >>)
    BY <1>1, <1>4, <1>8, MildSteps, CalmOfNone
  <1>9. Choice(NegIf) /\ \A more : more \in {<< >>, <<Call("elements")>>} => Choice(RbraceIf(more))
    BY DEF Choice
  <1>10. CASE e = NegIf
    BY <1>1, <1>2, <1>4, <1>10, MildSteps DEF NegIf
  <1>11. CASE e = NotIf
    BY <1>1, <1>2, <1>4, <1>9, <1>11, MildSteps, MildChoice DEF NotIf
  <1>12. Choice(If({"T_COMMA"}, <<Consume>>, << >>))
    BY DEF Choice
  <1>13. CASE \/ e = If({"T_RPAREN"}, << >>, <<Call("arguments")>>)
              \/ e = If({"T_COMMA"}, <<Consume>>, << >>)
              \/ e = If({"T_LBRACKET"}, <<Call("indexes")>>, << >>)
    BY <1>1, <1>2, <1>13, MildSteps, CalmOfNone
  <1>14. CASE e = If({"T_RPAREN"}, << >>, <<If({"T_COMMA"}, <<Consume>>, << >>),
                                            Call("arguments")>>)
    BY <1>1, <1>3, <1>12, <1>14, MildSteps, MildChoice, CalmOfNone
  <1>15. Calm(<< >>) /\ Calm(<<Call("elements")>>)
    BY <1>2, MildSteps, CalmOfNone
  <1>16. CASE \E more \in {<< >>, <<Call("elements")>>} : e = RbraceIf(more)
    BY <1>1, <1>2, <1>15, <1>16, MildSteps DEF RbraceIf
  <1>17. CASE \E more \in {<< >>, <<Call("elements")>>} : e = ElementIf(more)
    BY <1>1, <1>2, <1>3, <1>9, <1>17, MildSteps, MildChoice DEF ElementIf
  <1>18. CASE e = If({"T_RBRACE"}, <<Consume>>, OneElement(<< >>))
    <2>1. PICK a, b, c : a = Call("parse_expression") /\ b = AddNode(FALSE) /\ c = ElementIf(<< >>)
      OBVIOUS
    <2>2. Choice(c)
      BY <2>1 DEF Choice
    <2>3. Calm(<<a, b, c>>)
      BY <1>4, <2>1, <2>2, MildSteps, MildChoice
    <2>4. OneElement(<< >>) = <<a, b, c>>
      BY <2>1 DEF OneElement, ElementIf, RbraceIf
    <2> QED
      BY <1>1, <1>2, <1>18, <2>3, <2>4, MildSteps
  <1> QED
    BY <1>5, <1>6, <1>7, <1>8, <1>10, <1>11, <1>13, <1>14, <1>16, <1>17, <1>18 DEF Choice

\* One step that peeks is in order by itself.
LEMMA OnePeeks ==
    ASSUME NEW e, Peeking(e)
    PROVE  IsList(<<e>>) /\ Orderly(<<e>>)
  <1>1. PICK s : s = <<e>>
    OBVIOUS
  <1>2. IsList(s) /\ Len(s) = 1 /\ s[1] = e
    BY <1>1, ListOfOne
  <1>3. \A i \in 1 .. 1 : i = 1
    OBVIOUS
  <1>4. Window(s, 1)
    BY DEF Window
  <1>5. Orderly(s)
    BY <1>2, <1>3, <1>4 DEF Orderly
  <1> QED
    BY <1>1, <1>2, <1>5

\* What follows a choice by the token after the lookahead.
LEMMA PeekLeads ==
    ASSUME NEW e, Peeking(e) \/ e \in {VarIf, StructIf, DotIf, AccessIf}
    PROVE  /\ IsList(e.yes) /\ Orderly(e.yes)
           /\ IsList(e.no) /\ Orderly(e.no)
  <1>1. \A types, yes, no :
           LET i == IfNext(types, yes, no) IN i.types = types /\ i.yes = yes /\ i.no = no
    BY DEF IfNext
  <1>2. \A a : Mild(a) => Calm(<<a>>)
    BY CalmOfOne
  <1>3. \A a, b : Mild(a) /\ Mild(b) => Calm(<<a, b>>)
    BY CalmOfTwo
  <1>4. \A a, b, c : Mild(a) /\ Mild(b) /\ Mild(c) => Calm(<<a, b, c>>)
    BY CalmOfThree
  <1>5. \A s : Calm(s) => IsList(s) /\ Orderly(s)
    BY CalmOrderly
  <1>6. CASE e = ParamsIf
    <2>1. Calm(e.yes) /\ Calm(e.no)
      BY <1>1, <1>3, <1>4, <1>6, MildSteps DEF ParamsIf
    <2> QED
      BY <1>5, <2>1
  <1>7. CASE \E more \in {<< >>, <<Call("formals")>>} : e = CommaIf(more)
    <2>1. Calm(e.yes) /\ Calm(e.no)
      BY <1>1, <1>2, <1>3, <1>7, MildSteps, CalmOfNone DEF CommaIf
    <2> QED
      BY <1>5, <2>1
  <1>8. CASE \E more \in {<< >>, <<Call("formals")>>} : e = FormalIf(more)
    <2>1. PICK more \in {<< >>, <<Call("formals")>>} : e = FormalIf(more)
      BY <1>8
    <2>2. PICK c : c = CommaIf(more)
      OBVIOUS
    <2>3. e.yes = <<Consume>> /\ e.no = <<c>>
      BY <1>1, <2>1, <2>2 DEF FormalIf
    <2>4. Peeking(c)
      BY <2>2 DEF Peeking
    <2>5. Calm(<<Consume>>)
      BY <1>2, MildSteps
    <2> QED
      BY <1>5, <2>3, <2>4, <2>5, OnePeeks
  <1>9. CASE e = VarIf
    <2>1. Calm(<<Backup, Call("parse_var_decl")>>)
      BY <1>3, MildSteps
    <2>2. Calm(<<StructIf>>)
      BY <1>2, MildAhead
    <2> QED
      BY <1>1, <1>5, <1>9, <2>1, <2>2 DEF VarIf
  <1>10. CASE e = StructIf
    <2>1. Calm(<<Backup, Call("parse_struct_decl")>>) /\ Calm(<<Expect({})>>)
      BY <1>2, <1>3, MildSteps
    <2> QED
      BY <1>1, <1>5, <1>10, <2>1 DEF StructIf
  <1>11. CASE e = DotIf
    <2>1. Calm(<<Consume, AccessIf>>) /\ Calm(<<Unassigned>>)
      BY <1>2, <1>3, MildSteps, MildAhead
    <2> QED
      BY <1>1, <1>5, <1>11, <2>1 DEF DotIf
  <1>12. CASE e = AccessIf
    <2>1. /\ Calm(<<Backup, Backup, Call("parse_assign_expr")>>)
          /\ Calm(<<Backup, Backup, Call("parse_struct_access_expr")>>)
      BY <1>4, MildSteps
    <2> QED
      BY <1>1, <1>5, <1>12, <2>1 DEF AccessIf
  <1> QED
    BY <1>6, <1>7, <1>8, <1>9, <1>10, <1>11, <1>12 DEF Peeking

\* The first of the steps to be done is mild, or peeks.
LEMMA FirstSees ==
    ASSUME ParseInv, PeekInv, status = "running", calls # << >>
    PROVE  /\ Mild(Head(calls)) \/ Peeking(Head(calls))
           /\ lookahead.type = "T_EOF" => Mild(Head(calls))
  <1>1. /\ IsList(calls) /\ Orderly(calls) /\ (lookahead.type = "T_EOF" => Quiet(calls))
        /\ Head(calls) = calls[1] /\ Len(calls) \in Nat /\ Len(calls) >= 1
    BY UnconsList DEF ParseInv, PeekInv
  <1>2. Mild(calls[1]) \/ Peeking(calls[1])
    BY <1>1 DEF Orderly
  <1>3. lookahead.type = "T_EOF" => ~Peeking(calls[1])
    BY <1>1 DEF Quiet
  <1> QED
    BY <1>1, <1>2, <1>3

\* A choice by the lookahead.
LEMMA DecideSees ==
    ASSUME ParseInv, PeekInv, Decide
    PROVE  PeekInv'
  <1>1. status = "running" /\ calls # << >> /\ Head(calls).step = "if"
    BY DEF Decide, At
  <1>2. PICK e : e = Head(calls)
    OBVIOUS
  <1>3. Choice(e)
    <2>1. /\ ParamsIf.step = "peek"
          /\ \A more : CommaIf(more).step = "peek" /\ FormalIf(more).step = "peek"
      BY DEF ParamsIf, CommaIf, FormalIf, IfNext
    <2>2. ~Peeking(e)
      BY <1>1, <1>2, <2>1 DEF Peeking
    <2>3. Mild(e)
      BY <1>1, <1>2, <2>2, FirstSees
    <2> QED
      BY <1>1, <1>2, <2>3, Kinds DEF Mild
  <1>4. PICK steps : steps = IF lookahead.type \in e.types THEN e.yes ELSE e.no
    OBVIOUS
  <1>5. Run(steps)
    BY <1>2, <1>4 DEF Decide, Choose
  <1>6. CASE Calm(steps)
    BY <1>1, <1>5, <1>6, CalmSees
  <1>7. CASE ~Calm(steps)
    <2>1. steps = <<ParamsIf>> /\ lookahead.type \in {"T_LPAREN"}
      BY <1>3, <1>4, <1>7, ChoiceLeads
    <2>2. Peeking(ParamsIf)
      BY DEF Peeking
    <2>3. IsList(steps) /\ Orderly(steps)
      BY <2>1, <2>2, OnePeeks
    <2> QED
      BY <1>1, <1>5, <2>1, <2>3, RunSees
  <1> QED
    BY <1>6, <1>7

\* A choice by the token after it.
LEMMA DecideNextSees ==
    ASSUME ParseInv, PeekInv, DecideNext
    PROVE  PeekInv'
  <1>1. At("peek") /\ status = "running" /\ calls # << >> /\ Head(calls).step = "peek"
    BY DEF DecideNext, At
  <1>2. PICK e : e = Head(calls)
    OBVIOUS
  <1>3. Peeking(e) \/ e \in {VarIf, StructIf, DotIf, AccessIf}
    BY <1>1, <1>2, FirstSees, MildChoice DEF Mild
  <1>4. PICK steps : steps = IF peek.type \in e.types THEN e.yes ELSE e.no
    OBVIOUS
  <1>5. Run(steps)
    BY <1>2, <1>4 DEF DecideNext, Choose
  <1>6. IsList(steps) /\ Orderly(steps)
    BY <1>3, <1>4, PeekLeads
  <1>7. lookahead.type # "T_EOF"
    BY <1>1, PeekSees
  <1> QED
    BY <1>1, <1>5, <1>6, <1>7, RunSees

\* After a step that is none of those a formal is made by, three more do not peek.
LEMMA PlainQuiet ==
    ASSUME NEW s, IsList(s), s # << >>, Orderly(s),
           Head(s).step \notin {"add", "make", "note", "peek"}
    PROVE  Quiet(s)
  <1>1. /\ Quiet(Tail(s)) /\ Len(s) \in Nat /\ Len(Tail(s)) = Len(s) - 1 /\ Head(s) = s[1]
        /\ \A i \in 1 .. Len(s) - 1 : Tail(s)[i] = s[i + 1]
    BY OrderlyRest, UnconsList
  <1>2. ~Peeking(s[1])
    <2>1. /\ ParamsIf.step = "peek"
          /\ \A more : CommaIf(more).step = "peek" /\ FormalIf(more).step = "peek"
      BY DEF ParamsIf, CommaIf, FormalIf, IfNext
    <2> QED
      BY <1>1, <2>1 DEF Peeking
  <1>3. ASSUME NEW i \in 1 .. 3, i <= Len(s), i # 1 PROVE ~Peeking(s[i])
    <2>1. PICK j : j = i - 1
      OBVIOUS
    <2>2. j \in 1 .. 3 /\ j <= Len(Tail(s)) /\ j \in 1 .. Len(s) - 1 /\ i = j + 1
      BY <1>1, <1>3, <2>1
    <2>3. Tail(s)[j] = s[i]
      BY <1>1, <2>2
    <2> QED
      BY <1>1, <2>2, <2>3 DEF Quiet
  <1> QED
    BY <1>2, <1>3 DEF Quiet

\* Another statement is asked for.
LEMMA AnotherSees ==
    ASSUME ParseInv, PeekInv, At("statement"), calls' = <<Call("parse_statement")>> \o calls
    PROVE  PeekInv'
  <1>1. status = "running" /\ calls # << >> /\ Head(calls).step = "statement"
    BY DEF At
  <1>2. IsList(calls) /\ Orderly(calls) /\ Quiet(calls)
    BY <1>1, PlainQuiet DEF ParseInv, PeekInv
  <1>3. PICK p, t : p = <<Call("parse_statement")>> /\ t = p \o calls
    OBVIOUS
  <1>4. IsList(p) /\ Orderly(p) /\ Quiet(p)
    BY <1>3, MildSteps, CalmOfOne, CalmOrderly
  <1>5. Orderly(t) /\ Quiet(t)
    BY <1>2, <1>3, <1>4, OrderlyJoin
  <1>6. calls' = t
    BY <1>3
  <1> QED
    BY <1>5, <1>6 DEF PeekInv

\* There are no more statements: the step that would have added one is left out too.
LEMMA NoStatementSees ==
    ASSUME ParseInv, PeekInv, Called("parse_statement"), NoStatement
    PROVE  PeekInv'
  <1>1. status = "running" /\ calls # << >> /\ Head(calls).step = "call" /\ IsList(calls)
    BY Entered DEF Called, At
  <1>2. PICK t : t = Tail(calls)
    OBVIOUS
  <1>3. IsList(t) /\ t # << >> /\ Head(t) = AddStatement
    BY <1>2, Entered DEF Loops
  <1>4. Orderly(t)
    BY <1>1, <1>2, OrderlyRest DEF PeekInv
  <1>5. PICK u : u = Tail(t)
    OBVIOUS
  <1>6. Orderly(u) /\ Quiet(u)
    BY <1>3, <1>4, <1>5, Kinds, OrderlyRest
  <1>7. calls' = u
    BY <1>2, <1>5 DEF NoStatement
  <1> QED
    BY <1>6, <1>7 DEF PeekInv

\* The operations on tokens and values.
LEMMA OperationSees ==
    ASSUME ParseInv, PeekInv, Operations
    PROVE  PeekInv'
  <1>1. \A kind : At(kind) => status = "running" /\ calls # << >> /\ Head(calls).step = kind
    BY DEF At
  <1>2. ASSUME NEW values, Advance(values),
               At("expect") \/ At("take") \/ At("consume")
        PROVE  PeekInv'
    BY <1>1, <1>2, DoneSees, StopSees DEF Advance, Stop, Done
  <1>3. CASE ReadExpected \/ ReadTaken \/ consume
    BY <1>2, <1>3 DEF ReadExpected, ReadTaken, consume, Reading
  <1>4. CASE backup \/ KeepValue \/ KeepUnassigned
    BY <1>1, <1>4, DoneSees DEF backup, KeepValue, KeepUnassigned, Done
  <1>5. CASE ReadNoted
    <2>1. lookahead' = lookahead /\ calls' = Tail(calls)
      BY <1>5 DEF ReadNoted, Done, lookahead
    <2>2. Note({"T_IDENT"}, "name").types = {"T_IDENT"}
      BY DEF Note
    <2>3. Head(calls) = Note({"T_IDENT"}, "name") => lookahead.type # "T_EOF"
      BY <1>5, <2>2 DEF ReadNoted, Reading
    <2> QED
      BY <1>1, <1>5, <2>1, <2>3, DoneSees DEF ReadNoted, Reading
  <1>6. Note({"T_IDENT"}, "name").step = "note"
    BY DEF Note
  <1>7. CASE MakeNode
    <2>1. lookahead' = lookahead /\ calls' = Tail(calls)
      BY <1>7 DEF MakeNode, Done, lookahead
    <2> QED
      BY <1>1, <1>6, <1>7, <2>1, DoneSees DEF MakeNode
  <1>8. CASE MakeBinopNode
    BY <1>1, <1>8, DoneSees, StopSees DEF MakeBinopNode, Stop, Done
  <1>9. CASE vector_add
    <2>1. status' # "running" \/ (lookahead' = lookahead /\ calls' = Tail(calls))
      BY <1>1, <1>9 DEF vector_add, Done, Stop, lookahead
    <2> QED
      BY <1>1, <1>6, <1>9, <2>1, DoneSees, StopSees DEF vector_add
  <1>10. CASE AddNoStatement
    BY <1>10, AnotherSees DEF AddNoStatement
  <1>11. CASE AddNewStatement
    BY <1>1, <1>11, AnotherSees, DoneSees DEF AddNewStatement
  <1>12. CASE syntax_error \/ AddGarbage
    BY <1>12, StopSees DEF syntax_error, AddGarbage, Stop
  <1> QED
    BY <1>3, <1>4, <1>5, <1>7, <1>8, <1>9, <1>10, <1>11, <1>12, DecideSees, DecideNextSees
       DEF Operations

\* The functions.
LEMMA FunctionSees ==
    ASSUME ParseInv, PeekInv, Statements \/ Declarations \/ Expressions
    PROVE  PeekInv'
  <1>1. \A f : Called(f) => status = "running" /\ calls # << >> /\ Head(calls).step = "call"
    BY DEF Called, At
  <1>2. ASSUME NEW f, NEW steps, Enters(f, steps), Calm(steps) PROVE PeekInv'
    BY <1>1, <1>2, CalmSees DEF Enters
  <1>3. ASSUME NEW f, Called(f), status' # "running" \/ \E steps : Run(steps) /\ Calm(steps)
        PROVE  PeekInv'
    BY <1>1, <1>3, CalmSees, StopSees
  <1>4. CASE parse_formals \/ formals
    <2>1. PICK f, steps : Enters(f, steps) /\ IsList(steps) /\ Orderly(steps) /\ Quiet(steps)
      BY <1>4, FormalsOrderly
    <2> QED
      BY <1>1, <2>1, RunSees DEF Enters
  <1>5. CASE parse \/ parse_expression \/ parse_assign_expr
    <2>1. \E f : Called(f)
      BY <1>5 DEF parse, parse_expression, parse_assign_expr
    <2> QED
      BY <1>3, <1>5, <2>1, ChoosersCalm
  <1>6. CASE parse_primary_expr
    BY <1>3, <1>6, PrimaryCalm DEF parse_primary_expr
  <1>7. CASE parse_statement
    <2>1. Called("parse_statement")
      BY <1>7 DEF parse_statement
    <2> QED
      BY <1>3, <1>7, <2>1, StatementCalm, NoStatementSees
  <1>8. CASE Statements
    <2>1. CASE parse \/ parse_statement
      BY <1>5, <1>7, <2>1
    <2>2. CASE parse_statements \/ parse_block_stmt \/ parse_while_stmt \/ parse_if_stmt \/
               parse_return_stmt \/ parse_label_decl \/ parse_goto_stmt
      BY <1>2, <2>2, StatementsCalm
    <2> QED
      BY <1>8, <2>1, <2>2 DEF Statements
  <1>9. CASE Declarations
    <2>1. CASE parse_var_decl \/ parse_function_decl \/ parse_struct_decl \/ members \/
               parse_member_decl \/ dimensions
      BY <1>2, <2>1, DeclarationsCalm
    <2> QED
      BY <1>4, <1>9, <2>1 DEF Declarations
  <1>10. CASE Expressions
    <2>1. CASE parse_and_expr \/ parse_not_expr \/ parse_compare_expr \/ parse_add_expr \/
               parse_mult_expr \/ parse_call_expr \/ arguments \/ parse_struct_access_expr \/
               parse_array_init_expr \/ elements \/ parse_array_access_expr \/ indexes
      BY <1>2, <2>1, ExpressionsCalm
    <2> QED
      BY <1>5, <1>6, <1>10, <2>1 DEF Expressions
  <1> QED
    BY <1>8, <1>9, <1>10

\* The first call.
LEMMA InitSees ==
    Init => PeekInv
  <1> SUFFICES ASSUME Init PROVE PeekInv
    OBVIOUS
  <1>1. PICK s : s = <<Call("parse")>>
    OBVIOUS
  <1>2. Orderly(s) /\ Quiet(s)
    BY <1>1, MildSteps, CalmOfOne, CalmOrderly
  <1> QED
    BY <1>1, <1>2 DEF Init, PeekInv

\* Every step.
LEMMA NextSees ==
    ASSUME ParseInv, PeekInv, [Next]_vars
    PROVE  PeekInv'
  <1>1. CASE Return
    BY <1>1, StopSees DEF Return
  <1>2. CASE UNCHANGED vars
    BY <1>2 DEF vars, PeekInv, Orderly, Quiet, Window, lookahead
  <1> QED
    BY <1>1, <1>2, FunctionSees, OperationSees DEF Next, Step, Ended

\* peek() always has a token to load: where it is called some steps after the test that
\* shows one to be there, no step between them reads a token.
THEOREM PeeksAreInside ==
    Spec => []PeekIsThere
  <1>1. ParseInv /\ PeekInv => PeekIsThere
    <2> SUFFICES ASSUME ParseInv, PeekInv, At("peek") PROVE cursor < Len(tokens)
      BY DEF PeekIsThere
    <2>1. lookahead.type # "T_EOF"
      BY PeekSees
    <2>2. Listed /\ cursor \in 1 .. Len(tokens)
      BY DEF ParseInv
    <2> QED
      BY <2>1, <2>2 DEF Listed, lookahead
  <1>2. Spec => []PeekInv
    BY SpecParses, InitSees, NextSees, PTL DEF Spec
  <1> QED
    BY <1>1, <1>2, SpecParses, PTL
-----------------------------------------------------------------------------
(* The moves of the cursor, which the cells of the list must allow *)

\* A function that is called puts steps in front of the others, and reads no token.
LEMMA FunctionsStay ==
    ASSUME Statements \/ Declarations \/ Expressions
    PROVE  UNCHANGED <<tokens, cursor>>
  <1>1. CASE Statements
    BY <1>1 DEF Statements, parse, parse_statements, parse_statement, parse_block_stmt,
       parse_while_stmt, parse_if_stmt, parse_return_stmt, parse_label_decl, parse_goto_stmt,
       IdentStatement, StructStatement, EmptyStatement, NoStatement, Enters, Run, Stop
  <1>2. CASE Declarations
    BY <1>2 DEF Declarations, parse_var_decl, parse_function_decl, parse_formals, formals,
       parse_struct_decl, members, parse_member_decl, dimensions, Enters, Run, Stop
  <1>3. CASE Expressions
    BY <1>3 DEF Expressions, parse_expression, parse_and_expr, parse_not_expr,
       parse_compare_expr, parse_add_expr, parse_mult_expr, parse_primary_expr, IdentPrimary,
       parse_assign_expr, parse_call_expr, arguments, parse_struct_access_expr,
       parse_array_init_expr, elements, parse_array_access_expr, indexes, Enters, Run, Stop
  <1> QED
    BY <1>1, <1>2, <1>3

\* One step moves the cursor by one token at most, and leaves the tokens alone.
LEMMA CursorMoves ==
    ASSUME Step
    PROVE  tokens' = tokens /\ cursor' \in {cursor - 1, cursor, cursor + 1}
  <1>1. CASE ReadExpected
    BY <1>1 DEF ReadExpected, Advance, Done, Stop, Run
  <1>2. CASE ReadTaken
    BY <1>2 DEF ReadTaken, Advance, Done, Stop, Run
  <1>3. CASE ReadNoted
    BY <1>3 DEF ReadNoted, Advance, Done, Stop, Run
  <1>4. CASE syntax_error
    BY <1>4 DEF syntax_error, Advance, Done, Stop, Run
  <1>5. CASE consume
    BY <1>5 DEF consume, Advance, Done, Stop, Run
  <1>6. CASE backup
    BY <1>6 DEF backup, Advance, Done, Stop, Run
  <1>7. CASE Decide
    BY <1>7 DEF Decide, Choose, Run
  <1>8. CASE DecideNext
    BY <1>8 DEF DecideNext, Choose, Run
  <1>9. CASE KeepValue
    BY <1>9 DEF KeepValue, Advance, Done, Stop, Run
  <1>10. CASE KeepUnassigned
    BY <1>10 DEF KeepUnassigned, Advance, Done, Stop, Run
  <1>11. CASE MakeNode
    BY <1>11 DEF MakeNode, Advance, Done, Stop, Run
  <1>12. CASE MakeBinopNode
    BY <1>12 DEF MakeBinopNode, Advance, Done, Stop, Run
  <1>13. CASE vector_add
    BY <1>13 DEF vector_add, Advance, Done, Stop, Run
  <1>14. CASE AddNoStatement
    BY <1>14 DEF AddNoStatement, Advance, Done, Stop, Run
  <1>15. CASE AddNewStatement
    BY <1>15 DEF AddNewStatement, Advance, Done, Stop, Run
  <1>16. CASE AddGarbage
    BY <1>16 DEF AddGarbage, Advance, Done, Stop, Run
  <1>17. CASE Operations
    BY <1>1, <1>2, <1>3, <1>4, <1>5, <1>6, <1>7, <1>8, <1>9, <1>10, <1>11,
       <1>12, <1>13, <1>14, <1>15, <1>16, <1>17 DEF Operations
  <1> QED
    BY <1>17, FunctionsStay DEF Step, Return
=============================================================================
