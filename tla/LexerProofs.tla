----------------------------- MODULE LexerProofs -----------------------------
(***************************************************************************)
(* The lexer, for any text: the stack of indentations, the blocks that the *)
(* parser is given, and the off-side rule.                                 *)
(***************************************************************************)
EXTENDS Lexer, FiniteSetTheorems, NaturalsInduction, WellFoundedInduction, TLAPS

(* The types that the argument needs.  Nothing is said of the tokens.       *)
Typed ==
  /\ indents \in Seq(Nat)
  /\ prev_indentation \in Int
  /\ scanned \in Nat /\ scanned <= MaxTokens

(* After the end of the text blocks are closed without prev_indentation     *)
(* following, but then no line is ever read again.                          *)
Inv == Typed /\ IndentsGrow

(* The column of a line is a natural number.                                *)
LEMMA IndentationType == Indentation \in Nat
<1>1. CASE Head(raw_line) \in WHITESPACE
  <2>1. PICK w \in Widths : Head(raw_line) = [type |-> "WHITESPACE", arg |-> w]
    BY <1>1 DEF WHITESPACE, Token
  <2>2. Head(raw_line).arg \in Nat
    BY <2>1, LexerAssumption
  <2> QED
    BY <1>1, <2>2 DEF Indentation
<1>2. CASE Head(raw_line) \notin WHITESPACE
  BY <1>2 DEF Indentation
<1> QED
  BY <1>1, <1>2

(* Where it is defined, LastKept is the last index of an indentation that   *)
(* is not larger than that of the line.                                     *)
LEMMA LastKeptIsLast ==
  ASSUME indents \in Seq(Nat), Kept # {}
  PROVE  LastKept \in Kept /\ \A k \in Kept : k <= LastKept
<1> DEFINE N == Len(indents)
           R == StrictSubsetOrdering(Nat)
           T == {x..N : x \in Kept}
<1>1. N \in Nat /\ Kept \subseteq 1..N
  BY DEF Kept
<1>2. IsWellFoundedOn(R, FiniteSubsetsOf(Nat))
  BY FS_StrictSubsetOrderingWellFounded
<1>3. \A x \in Kept : x..N \in FiniteSubsetsOf(Nat)
  BY <1>1, FS_Interval DEF FiniteSubsetsOf
<1>4. T \subseteq FiniteSubsetsOf(Nat) /\ T # {}
  BY <1>3
<1>5. \E t \in T : \A u \in T : <<u, t>> \notin R
  <2> HIDE DEF R, T
  <2> QED
    BY <1>2, <1>4, WFMin
<1>6. PICK x \in Kept : \A y \in Kept : <<y..N, x..N>> \notin R
  BY <1>5
<1>7. ASSUME NEW y \in Kept, y > x
      PROVE  FALSE
  <2>1. y..N \subseteq x..N /\ x \in x..N /\ x \notin y..N
    BY <1>1, <1>7
  <2>2. y..N \in SUBSET Nat /\ x..N \in SUBSET Nat
    BY <1>1
  <2>3. <<y..N, x..N>> \in R
    BY <2>1, <2>2 DEF StrictSubsetOrdering
  <2> QED
    BY <2>3, <1>6
<1>8. \A y \in Kept : y <= x
  BY <1>1, <1>7
<1> QED
  BY <1>8 DEF LastKept

(* A prefix of a growing sequence grows.                                    *)
LEMMA PrefixGrows ==
  ASSUME NEW s \in Seq(Nat), NEW n \in 0..Len(s),
         \A j, k \in 1..Len(s) : j < k => s[j] < s[k]
  PROVE  /\ SubSeq(s, 1, n) \in Seq(Nat) /\ Len(SubSeq(s, 1, n)) = n
         /\ \A j \in 1..n : SubSeq(s, 1, n)[j] = s[j]
         /\ \A j, k \in 1..n : j < k => SubSeq(s, 1, n)[j] < SubSeq(s, 1, n)[k]
<1>1. SubSeq(s, 1, n) \in Seq(Nat) /\ Len(SubSeq(s, 1, n)) = n
  OBVIOUS
<1>2. \A j \in 1..n : SubSeq(s, 1, n)[j] = s[j]
  OBVIOUS
<1> QED
  BY SMTT(60), <1>1, <1>2

(* What IndentsGrow promises is preserved by steps of the scanner.          *)
LEMMA ScanStep ==
  ASSUME Inv, NEW t, Scan(t), UNCHANGED shape
  PROVE  Inv'
BY LexerAssumption DEF Inv, Typed, IndentsGrow, Scan, shape

(* A line is taken only when there is one, so the innermost block is still  *)
(* that of the line before.                                                 *)
LEMMA TakeLineStep ==
  ASSUME Inv, TakeLine
  PROVE  Inv'
<1>1. raw_line # << >> /\ UNCHANGED <<scanned, raw_line>>
  BY DEF TakeLine, Skipped, scanner, reader
<1>2. Indentation \in Nat
  BY IndentationType
<1>3. CASE Indentation = prev_indentation /\ Shape(<<SEP>>, indents)
  BY <1>1, <1>2, <1>3 DEF Inv, Typed, IndentsGrow, Shape
<1>4. CASE /\ Indentation > prev_indentation
           /\ Shape(<<START>>, Append(indents, Indentation))
  <2>1. /\ indents' = Append(indents, Indentation)
        /\ prev_indentation' = Indentation
    BY <1>4 DEF Shape
  <2>2. indents # << >> => indents[Len(indents)] < Indentation
    BY <1>1, <1>4 DEF Inv, IndentsGrow
  <2>3. \A j \in 1..Len(indents) : indents[j] < Indentation
    BY <2>2, <1>2 DEF Inv, Typed, IndentsGrow
  <2> QED
    BY <2>1, <2>3, <1>1, <1>2 DEF Inv, Typed, IndentsGrow
<1>5. CASE Indentation < prev_indentation /\ Dedent
  <2>1. CASE /\ Kept # {} /\ indents[LastKept] = Indentation
             /\ indents' = SubSeq(indents, 1, LastKept)
             /\ prev_indentation' = Indentation
    <3>1. LastKept \in 1..Len(indents)
      BY <2>1, LastKeptIsLast DEF Inv, Typed, Kept
    <3>2. /\ indents' \in Seq(Nat) /\ Len(indents') = LastKept
          /\ \A j \in 1..LastKept : indents'[j] = indents[j]
          /\ \A j, k \in 1..LastKept : j < k => indents'[j] < indents'[k]
      <4> LastKept \in 0..Len(indents)
        BY <3>1
      <4> QED
        BY <2>1, PrefixGrows DEF Inv, Typed, IndentsGrow
    <3>3. Typed'
      BY <2>1, <3>2, <1>1, <1>2 DEF Inv, Typed
    <3>4. \A j, k \in 1..Len(indents') : j < k => indents'[j] < indents'[k]
      BY <3>2
    <3>5. indents'[Len(indents')] = prev_indentation'
      BY <2>1, <3>1, <3>2
    <3> QED
      BY <3>3, <3>4, <3>5 DEF Inv, IndentsGrow
  <2>2. CASE UNCHANGED <<indents, prev_indentation>>
    BY <2>2, <1>1 DEF Inv, Typed, IndentsGrow
  <2> QED
    BY <1>5, <2>1, <2>2 DEF Dedent, Shape
<1> QED
  BY <1>3, <1>4, <1>5 DEF TakeLine

(* Closing one block after the end of the text.                             *)
LEMMA EndOfInputStep ==
  ASSUME Inv, EndOfInput
  PROVE  Inv'
<1>1. scanned' = MaxTokens /\ UNCHANGED <<raw_line, prev_indentation>>
  BY DEF EndOfInput, reader
<1>2. CASE raw_line # << >> /\ UNCHANGED indents
  BY <1>1, <1>2, LexerAssumption DEF Inv, Typed, IndentsGrow
<1>3. CASE raw_line = << >> /\ indents # << >> /\ indents' = Front(indents)
  <2>1. /\ indents' \in Seq(Nat) /\ Len(indents') = Len(indents) - 1
        /\ \A j, k \in 1..Len(indents) - 1 : j < k => indents'[j] < indents'[k]
    <3>1. Len(indents) - 1 \in 0..Len(indents)
      BY <1>3 DEF Inv, Typed
    <3> QED
      BY <1>3, <3>1, PrefixGrows DEF Inv, Typed, IndentsGrow, Front
  <2>2. Typed'
    BY <1>1, <2>1, LexerAssumption DEF Inv, Typed
  <2>3. \A j, k \in 1..Len(indents') : j < k => indents'[j] < indents'[k]
    BY <2>1
  <2> QED
    BY <1>1, <1>3, <2>2, <2>3, LexerAssumption DEF Inv, IndentsGrow
<1>4. CASE raw_line = << >> /\ UNCHANGED indents
  BY <1>1, <1>4, LexerAssumption DEF Inv, Typed, IndentsGrow
<1> QED
  BY <1>2, <1>3, <1>4 DEF EndOfInput

(* What is known of the indentations.                                       *)
LEMMA InvInvariance == Spec => []Inv
<1>1. Init => Inv
  BY LexerAssumption DEF Init, Inv, Typed, IndentsGrow
<1>2. Inv /\ [Next]_vars => Inv'
  <2> SUFFICES ASSUME Inv, [Next]_vars
               PROVE  Inv'
    OBVIOUS
  <2>1. CASE Choose
    BY <2>1 DEF Choose, Inv, Typed, IndentsGrow, scanner, reader, shape
  <2>2. CASE ReadLine
    BY <2>2 DEF ReadLine, StartLine, Inv, Typed, IndentsGrow, scanner
  <2>3. CASE EtcAtEnd
    BY <2>3 DEF EtcAtEnd, Inv, Typed, IndentsGrow, scanner, reader, shape
  <2>4. CASE EndOfInput
    BY <2>4, EndOfInputStep
  <2>5. CASE SkipLine
    BY <2>5 DEF SkipLine, StartLine, Inv, Typed, IndentsGrow, scanner, shape
  <2>6. CASE TakeLine
    BY <2>6, TakeLineStep
  <2>7. CASE Return
    BY <2>7 DEF Return, Inv, Typed, IndentsGrow, scanner, reader
  <2>8. ASSUME NEW t \in Tokens, Read(t)
        PROVE  Inv'
    BY <2>8, ScanStep DEF Read
  <2>9. ASSUME NEW t \in Tokens, ReadEtc(t)
        PROVE  Inv'
    BY <2>9, ScanStep DEF ReadEtc
  <2>10. CASE UNCHANGED vars
    BY <2>10 DEF vars, Inv, Typed, IndentsGrow
  <2> QED
    BY <2>1, <2>2, <2>3, <2>4, <2>5, <2>6, <2>7, <2>8, <2>9, <2>10 DEF Next
<1> QED
  BY <1>1, <1>2, PTL DEF Spec

(* The indentations that a dedented line is compared with grow inwards,     *)
(* whatever the text, and the innermost is that of the last line: so rc_lex *)
(* pops exactly the blocks that the line ends.                              *)
THEOREM IndentsGrowCorrect == Spec => []IndentsGrow
<1>1. Inv => IndentsGrow
  BY DEF Inv
<1> QED
  BY <1>1, InvInvariance, PTL
-----------------------------------------------------------------------------
(***************************************************************************)
(* The tokens of a line.                                                   *)
(***************************************************************************)

(* Natural numbers are well-founded: what induction over data rests on here *)
(* is that a set of them has a least element.                               *)
Less == {p \in Nat \X Nat : p[1] < p[2]}

LEMMA LeastElement ==
  ASSUME NEW T, T \subseteq Nat, T # {}
  PROVE  \E n \in T : \A j \in T : n <= j
<1>1. IsWellFoundedOn(Less, Nat)
  BY NatLessThanWellFounded DEF OpToRel, Less
<1>2. PICK n \in T : \A j \in T : <<j, n>> \notin Less
  BY <1>1, WFMin
<1>3. \A j \in T : ~(j < n)
  BY <1>2 DEF Less
<1> QED
  BY <1>3

(* A bounded set of natural numbers has a greatest element.                 *)
LEMMA GreatestElement ==
  ASSUME NEW N \in Nat, NEW T, T \subseteq 0..N, T # {}
  PROVE  \E n \in T : \A j \in T : j <= n
<1> DEFINE U == {m \in 0..N : \A j \in T : j <= m}
<1>1. N \in U
  OBVIOUS
<1>2. PICK m \in U : \A j \in U : m <= j
  <2> HIDE DEF U
  <2>1. U \subseteq Nat
    BY DEF U
  <2> QED
    BY <1>1, <2>1, LeastElement
<1>3. m \in T
  <2> SUFFICES ASSUME m \notin T PROVE FALSE
    OBVIOUS
  <2>1. \A j \in T : j <= m - 1
    OBVIOUS
  <2>2. m - 1 \in U
    <3>1. PICK j \in T : j \in 0..N /\ j <= m - 1
      BY <2>1
    <3>2. m - 1 \in 0..N
      BY <3>1
    <3> QED
      BY <2>1, <3>2
  <2> QED
    BY <1>2, <2>2
<1> QED
  BY <1>3

Kinds == Tokens \union {START, SEP, END}
Spoken == (Tokens \ WHITESPACE) \union {SEP}

(* The tokens that the lexer makes up are none that flex returns.           *)
LEMMA MadeUp ==
  /\ START # SEP /\ START # END /\ SEP # END
  /\ START \notin Tokens /\ SEP \notin Tokens /\ END \notin Tokens
<1>1. \A t \in Tokens : t.type \in {"WHITESPACE", "OPEN", "CLOSE", "NEWLINE"} \union Others
  BY DEF Tokens, WHITESPACE, Opening, Closing, NEWLINE, Token
<1>2. START.type = "START" /\ SEP.type = "SEP" /\ END.type = "END"
  BY DEF START, SEP, END, Token
<1> QED
  BY <1>1, <1>2, LexerAssumption

(* The loop of rc_lex() that fills line, after n tokens of raw_line.        *)
Filled(g, r) ==
  g = [n \in 0..Len(r) |->
         IF n = 0 THEN << >>
         ELSE IF r[n] \in WHITESPACE THEN g[n - 1]
         ELSE Append(g[n - 1], IF r[n] = SEMI THEN SEP ELSE r[n])]

(* The part of it that has met m tokens exists, so all of it does.          *)
FilledTo(g, r, m) ==
  /\ DOMAIN g = 0..m
  /\ g[0] = << >>
  /\ \A n \in 1..m : g[n] = IF r[n] \in WHITESPACE THEN g[n - 1]
                            ELSE Append(g[n - 1], IF r[n] = SEMI THEN SEP ELSE r[n])

LEMMA FillingEnds ==
  ASSUME NEW r \in Seq(Tokens)
  PROVE  \E g : Filled(g, r)
<1> DEFINE T == {m \in 0..Len(r) : ~\E g : FilledTo(g, r, m)}
<1>1. T = {}
  <2> SUFFICES ASSUME T # {} PROVE FALSE
    OBVIOUS
  <2>1. PICK m \in T : \A j \in T : m <= j
    <3>1. T \subseteq Nat
      OBVIOUS
    <3> HIDE DEF T
    <3> QED
      BY <3>1, LeastElement
  <2>2. m \in 0..Len(r) /\ ~\E g : FilledTo(g, r, m)
    BY <2>1
  <2>3. m # 0
    <3> DEFINE h == [n \in 0..0 |-> << >>]
    <3>1. FilledTo(h, r, 0)
      BY DEF FilledTo
    <3> QED
      BY <2>2, <3>1
  <2>4. PICK g : FilledTo(g, r, m - 1)
    <3>1. m - 1 \in 0..Len(r) /\ ~(m <= m - 1)
      BY <2>2, <2>3
    <3> QED
      BY <2>1, <3>1
  <2> DEFINE next == IF r[m] \in WHITESPACE THEN g[m - 1]
                     ELSE Append(g[m - 1], IF r[m] = SEMI THEN SEP ELSE r[m])
             h == [n \in 0..m |-> IF n = m THEN next ELSE g[n]]
  <2>5. /\ DOMAIN h = 0..m /\ h[m] = next
        /\ \A n \in 0..m-1 : h[n] = g[n]
    BY <2>2
  <2>6. FilledTo(h, r, m)
    <3> HIDE DEF h
    <3>1. h[0] = << >>
      BY <2>2, <2>3, <2>4, <2>5 DEF FilledTo
    <3>2. \A n \in 1..m-1 : h[n] = g[n] /\ h[n-1] = g[n-1]
      BY <2>2, <2>5
    <3>3. \A n \in 1..m-1 : h[n] = IF r[n] \in WHITESPACE THEN h[n - 1]
                                   ELSE Append(h[n - 1], IF r[n] = SEMI THEN SEP ELSE r[n])
      BY <2>4, <3>2 DEF FilledTo
    <3>4. h[m - 1] = g[m - 1]
      BY <2>2, <2>3, <2>5
    <3>5. \A n \in 1..m : n = m \/ n \in 1..m-1
      BY <2>2
    <3> QED
      BY <2>5, <3>1, <3>3, <3>4, <3>5 DEF FilledTo
  <2> QED
    BY <2>2, <2>6
<1>2. PICK g : FilledTo(g, r, Len(r))
  <2>1. Len(r) \in 0..Len(r)
    OBVIOUS
  <2> QED
    BY <1>1, <2>1
<1> DEFINE h == [n \in 0..Len(r) |-> g[n]]
<1>3. Filled(h, r)
  <2>1. \A n \in 0..Len(r) : h[n] = IF n = 0 THEN << >>
         ELSE IF r[n] \in WHITESPACE THEN h[n - 1]
         ELSE Append(h[n - 1], IF r[n] = SEMI THEN SEP ELSE r[n])
    <3>1. \A n \in 0..Len(r) : n = 0 \/ (n \in 1..Len(r) /\ n - 1 \in 0..Len(r))
      OBVIOUS
    <3> QED
      BY <1>2, <3>1 DEF FilledTo
  <2> QED
    BY <2>1 DEF Filled
<1> QED
  BY <1>3

(* A token of raw_line that is no white space gets into line.               *)
Shows(s, t) ==
  t \in WHITESPACE \/ \E j \in 1..Len(s) : s[j] = IF t = SEMI THEN SEP ELSE t

LEMMA TextFacts ==
  ASSUME raw_line \in Seq(Tokens)
  PROVE  Text \in Seq(Spoken) /\ \A m \in 1..Len(raw_line) : Shows(Text, raw_line[m])
<1> DEFINE N == Len(raw_line)
<1>1. PICK g : Filled(g, raw_line) /\ Text = g[N]
  BY FillingEnds DEF Text, Filled
<1>2. /\ g[0] = << >>
      /\ \A n \in 1..N : g[n] = IF raw_line[n] \in WHITESPACE THEN g[n - 1]
                                ELSE Append(g[n - 1], IF raw_line[n] = SEMI THEN SEP ELSE raw_line[n])
  <2>1. N \in Nat
    OBVIOUS
  <2>2. \A n \in 0..N : g[n] = IF n = 0 THEN << >>
         ELSE IF raw_line[n] \in WHITESPACE THEN g[n - 1]
         ELSE Append(g[n - 1], IF raw_line[n] = SEMI THEN SEP ELSE raw_line[n])
    BY <1>1, Zenon DEF Filled
  <2> HIDE DEF N
  <2>3. 0 \in 0..N /\ \A n \in 1..N : n \in 0..N /\ n # 0
    BY <2>1
  <2> QED
    BY <2>2, <2>3
<1> DEFINE Good(n) == g[n] \in Seq(Spoken) /\ \A m \in 1..n : Shows(g[n], raw_line[m])
           T == {n \in 0..N : ~Good(n)}
<1>3. T = {}
  <2> SUFFICES ASSUME T # {} PROVE FALSE
    OBVIOUS
  <2>1. PICK n \in T : \A j \in T : n <= j
    <3>1. T \subseteq Nat
      OBVIOUS
    <3> HIDE DEF T
    <3> QED
      BY <3>1, LeastElement
  <2>2. n \in 0..N /\ ~Good(n)
    BY <2>1
  <2>3. n # 0
    <3>1. Good(0)
      <4>1. << >> \in Seq(Spoken)
        OBVIOUS
      <4> QED
        BY <1>2, <4>1
    <3> HIDE DEF Good
    <3> QED
      BY <2>2, <3>1
  <2>4. Good(n - 1)
    <3>1. n - 1 \in 0..N /\ ~(n <= n - 1)
      BY <2>2, <2>3
    <3> HIDE DEF Good
    <3> QED
      BY <2>1, <3>1
  <2>5. n \in 1..N /\ raw_line[n] \in Tokens
    BY <2>2, <2>3
  <2>6. PICK s : s = g[n - 1]
    OBVIOUS
  <2>7. s \in Seq(Spoken) /\ \A m \in 1..n-1 : Shows(s, raw_line[m])
    BY <2>4, <2>6
  <2>8. CASE raw_line[n] \in WHITESPACE
    <3>1. g[n] = s
      BY <1>2, <2>5, <2>6, <2>8
    <3>2. \A m \in 1..n : m \in 1..n-1 \/ m = n
      BY <2>5
    <3>3. Shows(s, raw_line[n])
      BY <2>8 DEF Shows
    <3> QED
      BY <2>2, <2>7, <3>1, <3>2, <3>3
  <2>9. CASE raw_line[n] \notin WHITESPACE
    <3>1. PICK t : t = IF raw_line[n] = SEMI THEN SEP ELSE raw_line[n]
      OBVIOUS
    <3>2. g[n] = Append(s, t) /\ t \in Spoken
      BY <1>2, <2>5, <2>6, <2>9, <3>1 DEF Spoken
    <3>3. /\ Append(s, t) \in Seq(Spoken) /\ Len(Append(s, t)) = Len(s) + 1
          /\ Append(s, t)[Len(s) + 1] = t
          /\ \A j \in 1..Len(s) : Append(s, t)[j] = s[j]
      BY <2>7, <3>2
    <3>4. Shows(Append(s, t), raw_line[n])
      BY <2>7, <3>1, <3>3 DEF Shows
    <3>5. \A m \in 1..n-1 : Shows(Append(s, t), raw_line[m])
      BY <2>7, <3>3 DEF Shows
    <3>6. \A m \in 1..n : m \in 1..n-1 \/ m = n
      BY <2>5
    <3> QED
      BY <2>2, <3>2, <3>3, <3>4, <3>5, <3>6
  <2> QED
    BY <2>8, <2>9
<1>4. N \in 0..N
  OBVIOUS
<1> QED
  BY <1>1, <1>3, <1>4

LEMMA NoFinalSepFacts ==
  ASSUME NEW S, NEW s \in Seq(S)
  PROVE  /\ NoFinalSep(s) \in Seq(S) /\ Len(NoFinalSep(s)) <= Len(s)
         /\ \A j \in 1..Len(NoFinalSep(s)) : NoFinalSep(s)[j] = s[j]
         /\ \A j \in 1..Len(s) : s[j] # SEP => j <= Len(NoFinalSep(s))
<1> DEFINE kept == {j \in DOMAIN s : s[j] # SEP}
<1>1. CASE kept = {}
  <2>1. NoFinalSep(s) = SubSeq(s, 1, 0)
    BY <1>1 DEF NoFinalSep
  <2>2. SubSeq(s, 1, 0) = << >>
    OBVIOUS
  <2> QED
    BY <1>1, <2>1, <2>2
<1>2. CASE kept # {}
  <2>1. PICK m \in kept : \A k \in kept : k <= m
    <3>1. kept \subseteq 0..Len(s) /\ Len(s) \in Nat
      OBVIOUS
    <3> HIDE DEF kept
    <3> QED
      BY <1>2, <3>1, GreatestElement
  <2>2. m = CHOOSE j \in kept : \A k \in kept : k <= j
    <3>1. kept \subseteq Nat
      OBVIOUS
    <3> HIDE DEF kept
    <3>2. \A j \in kept : (\A k \in kept : k <= j) => j = m
      BY <2>1, <3>1
    <3> QED
      BY <2>1, <3>2
  <2>3. NoFinalSep(s) = SubSeq(s, 1, m)
    BY <1>2, <2>2 DEF NoFinalSep
  <2>4. m \in 1..Len(s)
    BY <2>1
  <2>5. /\ SubSeq(s, 1, m) \in Seq(S) /\ Len(SubSeq(s, 1, m)) = m
        /\ \A j \in 1..m : SubSeq(s, 1, m)[j] = s[j]
    BY <2>4
  <2> QED
    BY <2>1, <2>3, <2>4, <2>5
<1> QED
  BY <1>1, <1>2

-----------------------------------------------------------------------------
(***************************************************************************)
(* The invariant.                                                          *)
(***************************************************************************)

(* The ENDs of a line are its first k tokens, and a START its first.        *)
Blocks(s, k) ==
  /\ k \in 0..Len(s)
  /\ \A j \in 1..Len(s) : (s[j] = END <=> j <= k) /\ (s[j] = START => j = 1)

(* What is still to open and to close, of a line of which n tokens have     *)
(* been returned.                                                           *)
ToOpen(s, n)  == IF n = 0 /\ 0 < Len(s) /\ s[1] = START THEN 1 ELSE 0
ToClose(k, n) == IF n < k THEN k - n ELSE 0

Accounted ==
  \E k \in 0..Len(line) : Blocks(line, k)
                 /\ level = Len(indents) - ToOpen(line, next_token) + ToClose(k, next_token)

LineTyped ==
  /\ raw_line \in Seq(Tokens) /\ line \in Seq(Kinds) /\ lines \in Seq(Nat \X Nat)
  /\ next_token \in Nat /\ level \in Nat

TextLeft == scanned < MaxTokens \/ raw_line # << >>

Phases ==
  /\ pc \in {"choice", "lex", "read", "etc", "line", "token", "done"}
  /\ pc \in {"choice", "read", "etc", "line", "done"} => line = << >> /\ next_token = 0
  /\ pc = "token" => next_token = 0
  /\ pc = "lex" => next_token <= Len(line) /\ (line # << >> => next_token >= 1)
  /\ pc = "done" => indents = << >>
  /\ line # << >> \/ pc = "token" => raw_line # << >> /\ prev_indentation >= 0
  /\ TextLeft /\ prev_indentation >= 0 => indents # << >>

(* A line has been taken whose first tokens have not been returned yet.     *)
Unsettled ==
  pc = "token" \/ (pc = "lex" /\ next_token < Len(line) /\ line[next_token + 1] = END)

(* Of a line that none after it is to the left of, the block is still open, *)
(* and it is the one of its column; unless the line that has just been      *)
(* taken has closed it.                                                     *)
Alive(a) == \A c \in a+1..Len(lines) : lines[c][1] >= lines[a][1]

StillOpen(a) ==
  IF Unsettled /\ prev_indentation < lines[a][1] THEN Len(indents) < lines[a][2]
  ELSE lines[a][2] \in 1..Len(indents) /\ indents[lines[a][2]] = lines[a][1]

Remembered == TextLeft => \A a \in 1..Len(lines) : Alive(a) => StillOpen(a)

Emptied ==
  /\ pc = "past_end" \/ (pc = "token" /\ line = << >>) =>
       /\ \A j \in DOMAIN raw_line : raw_line[j] \in WHITESPACE \union {SEMI}
       /\ Len(raw_line) > 1 \/ raw_line = <<SEMI>>
  /\ pc = "underflow" => indents # << >> /\ indents[1] > Indentation

LexInv ==
  /\ Inv /\ LineTyped /\ Emptied /\ OffsideRule
  /\ ~Failed => Accounted /\ Phases /\ Remembered

-----------------------------------------------------------------------------
(***************************************************************************)
(* Steps.                                                                  *)
(***************************************************************************)

(* Steps that touch neither the line nor what has been returned.            *)
LEMMA QuietStep ==
  ASSUME LexInv, Inv', UNCHANGED <<shape, history>>,
         pc \in {"choice", "read", "etc", "line"},
         pc' \in {"lex", "read", "etc", "line", "fatal", "done"},
         pc' = "done" => indents = << >>,
         raw_line' \in Seq(Tokens), TextLeft' => TextLeft
  PROVE  LexInv'
<1>1. /\ line' = line /\ next_token' = next_token /\ indents' = indents
      /\ prev_indentation' = prev_indentation /\ level' = level /\ lines' = lines
  BY DEF shape, history
<1>2. ~Failed /\ Accounted /\ Phases /\ Remembered /\ LineTyped /\ OffsideRule
  BY DEF LexInv, Failed
<1>3. line = << >> /\ next_token = 0
  BY <1>2 DEF Phases
<1>4. LineTyped'
  BY <1>1, <1>2 DEF LineTyped
<1>5. Emptied'
  BY DEF Emptied
<1>6. OffsideRule'
  BY <1>1, <1>2 DEF OffsideRule
<1>7. Accounted'
  BY <1>1, <1>2 DEF Accounted
<1>8. ASSUME ~Failed' PROVE Phases'
  <2>1. TextLeft' /\ prev_indentation' >= 0 => indents' # << >>
    BY <1>1, <1>2 DEF Phases
  <2>2. Len(line') = 0
    BY <1>1, <1>3
  <2> QED
    BY <1>1, <1>3, <1>8, <2>1, <2>2 DEF Phases, Failed
<1>9. Remembered'
  <2>1. ~Unsettled /\ ~Unsettled'
    <3>1. Len(line) = 0 /\ Len(line') = 0
      BY <1>1, <1>3
    <3> QED
      BY <1>1, <1>3, <3>1 DEF Unsettled
  <2>2. ASSUME NEW a, Alive(a)', Alive(a) => StillOpen(a) PROVE StillOpen(a)'
    <3>1. Alive(a)
      BY <1>1, <2>2 DEF Alive
    <3> QED
      BY <1>1, <2>1, <2>2, <3>1 DEF StillOpen
  <2> QED
    BY <1>1, <1>2, <2>2 DEF Remembered
<1> QED
  BY <1>4, <1>5, <1>6, <1>7, <1>8, <1>9 DEF LexInv

LEMMA ReadLineKeeps ==
  ASSUME LexInv, Inv', ReadLine
  PROVE  LexInv'
<1>1. /\ pc = "lex" /\ next_token = Len(line) /\ pc' = "read"
      /\ line' = << >> /\ next_token' = 0 /\ indents' = indents /\ scanned' = scanned
      /\ prev_indentation' = prev_indentation /\ level' = level /\ lines' = lines
      /\ raw_line' = << >>
  BY DEF ReadLine, StartLine, history, scanner
<1>2. ~Failed /\ Accounted /\ Phases /\ Remembered /\ LineTyped /\ OffsideRule
  BY <1>1 DEF LexInv, Failed
<1>3. << >> \in Seq(Tokens) /\ << >> \in Seq(Kinds) /\ Len(<< >>) = 0
  OBVIOUS
<1>4. LineTyped'
  BY <1>1, <1>2, <1>3 DEF LineTyped
<1>5. Emptied'
  BY <1>1 DEF Emptied
<1>6. OffsideRule'
  BY <1>1, <1>2 DEF OffsideRule
<1>7. Accounted'
  <2>1. PICK k \in 0..Len(line) :
          level = Len(indents) - ToOpen(line, next_token) + ToClose(k, next_token)
    BY <1>2 DEF Accounted
  <2>2. ToClose(k, next_token) = 0
    <3>1. ~(next_token < k)
      BY <1>1, <1>2, <2>1 DEF LineTyped
    <3> QED
      BY <3>1 DEF ToClose
  <2>3. ToOpen(line, next_token) = 0
    <3>1. ~(next_token = 0 /\ 0 < Len(line))
      BY <1>1, <1>2 DEF LineTyped
    <3> QED
      BY <3>1 DEF ToOpen
  <2>4. Blocks(<< >>, 0) /\ ToOpen(<< >>, 0) = 0 /\ ToClose(0, 0) = 0 /\ 0 \in 0..Len(<< >>)
    BY DEF Blocks, ToOpen, ToClose
  <2>5. level = Len(indents) - 0 + 0
    BY <2>1, <2>2, <2>3
  <2> QED
    BY <1>1, <2>4, <2>5 DEF Accounted
<1>8. Phases'
  BY <1>1, <1>2 DEF Phases, TextLeft
<1>9. Remembered'
  <2>1. ~Unsettled /\ ~Unsettled'
    BY <1>1, <1>2 DEF Unsettled, LineTyped
  <2>2. ASSUME NEW a, Alive(a)', Alive(a) => StillOpen(a) PROVE StillOpen(a)'
    <3>1. Alive(a)
      BY <1>1, <2>2 DEF Alive
    <3> QED
      BY <1>1, <2>1, <2>2, <3>1 DEF StillOpen
  <2> QED
    BY <1>1, <1>2, <2>2 DEF Remembered, TextLeft
<1> QED
  BY <1>4, <1>5, <1>6, <1>7, <1>8, <1>9 DEF LexInv

LEMMA EndOfInputKeeps ==
  ASSUME LexInv, Inv', EndOfInput
  PROVE  LexInv'
<1>1. /\ pc = "read" /\ scanned' = MaxTokens /\ raw_line' = raw_line
      /\ line' = line /\ next_token' = next_token /\ prev_indentation' = prev_indentation
  BY DEF EndOfInput, reader
<1>2. ~Failed /\ Accounted /\ Phases /\ LineTyped /\ OffsideRule
  BY <1>1 DEF LexInv, Failed
<1>3. CASE raw_line # << >> /\ pc' = "line" /\ UNCHANGED <<indents, history>>
  BY <1>1, <1>2, <1>3, QuietStep DEF LineTyped, TextLeft, shape, history
<1>4. ~(MaxTokens < MaxTokens)
  BY LexerAssumption
<1>5. CASE raw_line = << >> /\ indents = << >> /\ pc' = "done" /\ UNCHANGED <<indents, history>>
  BY <1>1, <1>2, <1>4, <1>5, QuietStep DEF LineTyped, TextLeft, shape, history
<1>6. CASE /\ raw_line = << >> /\ indents # << >> /\ pc' = "lex" /\ indents' = Front(indents)
           /\ level' = level - 1 /\ UNCHANGED lines
  <2>1. indents \in Seq(Nat) /\ Len(indents) \in Nat \ {0} /\ Len(indents') = Len(indents) - 1
    <3>1. indents \in Seq(Nat) /\ indents # << >> /\ indents' = SubSeq(indents, 1, Len(indents) - 1)
      BY <1>6 DEF LexInv, Inv, Typed, Front
    <3>2. Len(indents) \in Nat \ {0} /\ Len(indents) - 1 \in 0..Len(indents)
      BY <3>1
    <3> QED
      BY <3>1, <3>2, PrefixGrows DEF LexInv, Inv, IndentsGrow
  <2>2. line = << >> /\ next_token = 0
    BY <1>1, <1>2 DEF Phases
  <2>3. /\ ToOpen(<< >>, 0) = 0 /\ Len(<< >>) = 0
        /\ \A k \in 0..0 : ToClose(k, 0) = 0
    BY DEF ToOpen, ToClose
  <2>4. level = Len(indents)
    BY <1>2, <2>1, <2>2, <2>3 DEF Accounted
  <2>5. LineTyped'
    BY <1>1, <1>2, <1>6, <2>1, <2>4 DEF LineTyped
  <2>6. Emptied'
    BY <1>6 DEF Emptied
  <2>7. OffsideRule'
    BY <1>2, <1>6 DEF OffsideRule
  <2>8. Accounted'
    <3>1. level' = Len(indents') - 0 + 0
      BY <1>6, <2>1, <2>4
    <3>2. Blocks(<< >>, 0) /\ 0 \in 0..Len(<< >>) /\ ToClose(0, 0) = 0
      BY <2>3 DEF Blocks
    <3> QED
      BY <1>1, <2>2, <2>3, <3>1, <3>2 DEF Accounted
  <2>9. ~TextLeft'
    BY <1>1, <1>4, <1>6 DEF TextLeft
  <2>10. Phases'
    BY <1>1, <1>6, <2>2, <2>3, <2>9 DEF Phases
  <2> QED
    BY <2>5, <2>6, <2>7, <2>8, <2>9, <2>10 DEF LexInv, Remembered
<1> QED
  BY <1>3, <1>5, <1>6 DEF EndOfInput

(* Returning a token brings the level one nearer to what it will be.        *)
LEMMA ReturnAccounts ==
  ASSUME NEW s \in Seq(Kinds), NEW n \in 0..Len(s)-1, NEW k \in 0..Len(s), Blocks(s, k),
         NEW d \in Nat, NEW l \in Nat, l = d - ToOpen(s, n) + ToClose(k, n),
         NEW l1, l1 = l + (IF s[n + 1] = START THEN 1 ELSE 0) - (IF s[n + 1] = END THEN 1 ELSE 0)
  PROVE  /\ l1 \in Nat
         /\ l1 = d - ToOpen(s, n + 1) + ToClose(k, n + 1)
         /\ k <= n + 1 => l1 = d
<1>1. PICK m \in 1..Len(s) : m = n + 1
  OBVIOUS
<1>2. ToOpen(s, m) = 0
  BY <1>1 DEF ToOpen
<1>3. (s[m] = END <=> m <= k) /\ (s[m] = START => m = 1)
  BY DEF Blocks
<1>4. CASE s[m] = START
  <2>1. n = 0 /\ s[m] # END /\ ~(m <= k)
    BY <1>1, <1>3, <1>4, MadeUp
  <2>2. ToOpen(s, n) = 1 /\ ToClose(k, n) = 0 /\ ToClose(k, m) = 0
    BY <1>1, <1>4, <2>1 DEF ToOpen, ToClose
  <2>3. l1 = l + 1 - 0
    BY <1>1, <1>4, <2>1
  <2> QED
    BY <1>1, <1>2, <2>2, <2>3
<1>5. CASE s[m] = END
  <2>1. m <= k /\ s[m] # START
    BY <1>3, <1>5, MadeUp
  <2>2. ToOpen(s, n) = 0
    BY <1>1, <2>1 DEF ToOpen
  <2>3. ToClose(k, n) = k - n /\ ToClose(k, m) = k - m
    BY <1>1, <2>1 DEF ToClose
  <2>4. l1 = l + 0 - 1
    BY <1>1, <1>5, <2>1
  <2> QED
    BY <1>1, <1>2, <2>1, <2>2, <2>3, <2>4
<1>6. CASE s[m] # START /\ s[m] # END
  <2>1. ~(m <= k)
    BY <1>3, <1>6
  <2>2. ToOpen(s, n) = 0
    BY <1>1, <1>6 DEF ToOpen
  <2>3. ToClose(k, n) = 0 /\ ToClose(k, m) = 0
    BY <1>1, <2>1 DEF ToClose
  <2>4. l1 = l + 0 - 0
    BY <1>1, <1>6
  <2> QED
    BY <1>1, <1>2, <2>2, <2>3, <2>4
<1> QED
  BY <1>4, <1>5, <1>6

(* When the last token that opens or closes a block has been returned.      *)
LEMMA SettlesWhen ==
  ASSUME line \in Seq(Kinds), NEW n \in 0..Len(line)-1, NEW k \in 0..Len(line), Blocks(line, k)
  PROVE  Settles(n + 1) <=> k <= n + 1 /\ (n = 0 \/ n + 1 <= k)
<1>1. PICK m \in 1..Len(line) : m = n + 1
  OBVIOUS
<1>2. \A j \in 2..Len(line) : line[j] \in {START, END} <=> j <= k
  BY DEF Blocks
<1>3. (\A j \in 2..m : line[j] \in {START, END}) <=> (m = 1 \/ m <= k)
  <2>1. \A j \in 2..m : j \in 2..Len(line)
    OBVIOUS
  <2>2. m # 1 => m \in 2..m
    OBVIOUS
  <2>3. m <= k => \A j \in 2..m : j <= k
    OBVIOUS
  <2> QED
    BY <1>2, <2>1, <2>2, <2>3
<1>4. (m < Len(line) => line[m + 1] \notin {START, END}) <=> k <= m
  <2>1. CASE m < Len(line)
    <3>1. m + 1 \in 2..Len(line)
      BY <2>1
    <3>2. line[m + 1] \in {START, END} <=> m + 1 <= k
      BY <1>2, <3>1
    <3> QED
      BY <2>1, <3>2
  <2>2. CASE ~(m < Len(line))
    BY <2>2
  <2> QED
    BY <2>1, <2>2
<1>5. Settles(m) <=> k <= m /\ (m = 1 \/ m <= k)
  BY <1>3, <1>4 DEF Settles
<1> QED
  BY <1>1, <1>5

(* Two lines and a growing stack.                                           *)
LEMMA GrowingCompares ==
  ASSUME NEW s \in Seq(Nat), \A j, k \in 1..Len(s) : j < k => s[j] < s[k],
         NEW p \in 1..Len(s), NEW q \in 1..Len(s)
  PROVE  (s[p] = s[q] <=> p = q) /\ (s[p] < s[q] <=> p < q)
<1>1. s[p] \in Nat /\ s[q] \in Nat
  OBVIOUS
<1> QED
  BY <1>1

LEMMA ReturnKeeps ==
  ASSUME LexInv, Inv', Return
  PROVE  LexInv'
<1>1. /\ pc \in {"lex", "token"} /\ next_token' = next_token + 1 /\ scanned' = scanned
      /\ raw_line' = raw_line /\ line' = line /\ indents' = indents
      /\ prev_indentation' = prev_indentation
  BY DEF Return, scanner, reader
<1>2. ~Failed /\ Accounted /\ Phases /\ Remembered /\ LineTyped /\ OffsideRule
  BY <1>1 DEF LexInv, Failed
<1>3. /\ line \in Seq(Kinds) /\ Len(line) \in Nat /\ next_token \in Nat /\ level \in Nat
      /\ lines \in Seq(Nat \X Nat) /\ Len(lines) \in Nat
      /\ indents \in Seq(Nat) /\ Len(indents) \in Nat
  BY <1>2 DEF LineTyped, LexInv, Inv, Typed
<1>4. CASE ~(next_token < Len(line))
  <2>1. pc = "token" /\ next_token = 0
    <3>1. pc = "lex" => next_token <= Len(line) /\ next_token # Len(line)
      BY <1>2 DEF Phases, Return
    <3> QED
      BY <1>1, <1>2, <1>3, <1>4, <3>1 DEF Phases
  <2>2. line = << >>
    BY <1>3, <1>4, <2>1
  <2>3. pc' = "past_end" /\ level' = level /\ lines' = lines
    BY <1>4 DEF Return, history
  <2>4. LineTyped' /\ OffsideRule'
    BY <1>1, <1>2, <2>3 DEF LineTyped, OffsideRule
  <2>5. Emptied'
    BY <1>1, <2>1, <2>2, <2>3 DEF Emptied, LexInv
  <2> QED
    BY <2>3, <2>4, <2>5 DEF LexInv, Failed
<1>5. CASE next_token < Len(line)
  <2>1. /\ pc' = "lex"
        /\ level' = level + (IF line[next_token + 1] = START THEN 1 ELSE 0)
                          - (IF line[next_token + 1] = END THEN 1 ELSE 0)
        /\ lines' = IF Settles(next_token + 1) THEN Append(lines, <<prev_indentation, level'>>)
                    ELSE lines
    BY <1>5 DEF Return
  <2>2. PICK k \in 0..Len(line) : Blocks(line, k)
          /\ level = Len(indents) - ToOpen(line, next_token) + ToClose(k, next_token)
    BY <1>2 DEF Accounted
  <2>3. next_token \in 0..Len(line) - 1
    BY <1>3, <1>5
  <2>4. /\ level' \in Nat
        /\ level' = Len(indents) - ToOpen(line, next_token + 1) + ToClose(k, next_token + 1)
        /\ k <= next_token + 1 => level' = Len(indents)
    BY <1>3, <2>1, <2>2, <2>3, ReturnAccounts
  <2>5. Accounted'
    BY <1>1, <2>2, <2>4 DEF Accounted
  <2>6. line # << >> /\ raw_line # << >> /\ prev_indentation \in Nat /\ indents # << >>
    <3>1. line # << >>
      BY <1>5, <1>3
    <3>2. raw_line # << >> /\ prev_indentation >= 0
      BY <1>2, <3>1 DEF Phases
    <3> QED
      BY <1>2, <3>1, <3>2 DEF Phases, TextLeft, LexInv, Inv, Typed
  <2>7. Phases'
    <3>1. next_token + 1 <= Len(line) /\ next_token + 1 >= 1
      BY <1>3, <1>5
    <3> QED
      BY <1>1, <1>2, <2>1, <2>6, <3>1 DEF Phases, TextLeft
  <2>8. Emptied'
    BY <2>1 DEF Emptied
  <2>9. /\ indents[Len(indents)] = prev_indentation
        /\ \A i, j \in 1..Len(indents) : i < j => indents[i] < indents[j]
        /\ Len(indents) \in 1..Len(indents)
    BY <1>3, <2>6 DEF LexInv, Inv, IndentsGrow
  <2>10. Settles(next_token + 1) <=>
           k <= next_token + 1 /\ (next_token = 0 \/ next_token + 1 <= k)
    BY <1>3, <2>2, <2>3, SettlesWhen
  <2>11. \A a \in 1..Len(lines) : Alive(a) => StillOpen(a)
    BY <1>2, <2>6 DEF Remembered, TextLeft
  <2>12. \A a \in 1..Len(lines) : lines[a][1] \in Nat /\ lines[a][2] \in Nat
    BY <1>3
  <2>13. \A j \in 1..Len(line) : line[j] = END <=> j <= k
    BY <2>2 DEF Blocks
  <2>14. CASE Settles(next_token + 1)
    <3>1. /\ lines' = Append(lines, <<prev_indentation, Len(indents)>>)
          /\ k <= next_token + 1
      BY <2>1, <2>4, <2>10, <2>14
    <3>2. /\ lines' \in Seq(Nat \X Nat) /\ Len(lines') = Len(lines) + 1
          /\ \A a \in 1..Len(lines) : lines'[a] = lines[a]
          /\ lines'[Len(lines) + 1] = <<prev_indentation, Len(indents)>>
      BY <1>3, <2>6, <3>1
    <3>3. LineTyped'
      BY <1>1, <1>2, <2>4, <3>2 DEF LineTyped
    <3>4. ~Unsettled'
      <4>1. next_token + 1 < Len(line) => line[next_token + 1 + 1] # END
        <5> SUFFICES ASSUME next_token + 1 < Len(line) PROVE line[next_token + 1 + 1] # END
          OBVIOUS
        <5>1. PICK j \in 1..Len(line) : j = next_token + 1 + 1
          BY <1>3
        <5>2. ~(j <= k)
          BY <1>3, <3>1, <5>1
        <5> QED
          BY <2>13, <5>1, <5>2
      <4> QED
        BY <1>1, <2>1, <4>1 DEF Unsettled
    <3>5. ASSUME NEW a \in 1..Len(lines), Alive(a), prev_indentation >= lines[a][1]
          PROVE  lines[a][2] \in 1..Len(indents) /\ indents[lines[a][2]] = lines[a][1]
      <4>1. ~(prev_indentation < lines[a][1])
        BY <2>6, <2>12, <3>5
      <4> QED
        BY <2>11, <3>5, <4>1 DEF StillOpen
    <3>6. Unsettled
      <4>1. CASE pc = "token"
        BY <4>1 DEF Unsettled
      <4>2. CASE pc = "lex"
        <5>1. next_token >= 1
          BY <1>2, <2>6, <4>2 DEF Phases
        <5>2. next_token + 1 <= k
          BY <1>3, <2>10, <2>14, <5>1
        <5>3. PICK j \in 1..Len(line) : j = next_token + 1
          BY <2>3
        <5> QED
          BY <1>5, <2>13, <4>2, <5>2, <5>3 DEF Unsettled
      <4> QED
        BY <1>1, <4>1, <4>2
    <3>7. ASSUME NEW a \in 1..Len(lines), Alive(a)
          PROVE  /\ lines[a][1] = prev_indentation <=> lines[a][2] = Len(indents)
                 /\ lines[a][1] < prev_indentation <=> lines[a][2] < Len(indents)
      <4>1. CASE prev_indentation >= lines[a][1]
        <5>1. lines[a][2] \in 1..Len(indents) /\ indents[lines[a][2]] = lines[a][1]
          BY <3>5, <3>7, <4>1
        <5>2. PICK p \in 1..Len(indents), q \in 1..Len(indents) :
                 /\ p = lines[a][2] /\ q = Len(indents)
                 /\ indents[p] = lines[a][1] /\ indents[q] = prev_indentation
          BY <2>9, <5>1
        <5>3. (indents[p] = indents[q] <=> p = q) /\ (indents[p] < indents[q] <=> p < q)
          BY <1>3, <2>9, GrowingCompares
        <5> QED
          BY <5>2, <5>3
      <4>2. CASE prev_indentation < lines[a][1]
        <5>1. Len(indents) < lines[a][2]
          BY <2>11, <3>6, <3>7, <4>2 DEF StillOpen
        <5> QED
          BY <1>3, <2>6, <2>12, <4>2, <5>1
      <4> QED
        BY <2>6, <2>12, <4>1, <4>2
    <3>8. OffsideRule'
      <4> SUFFICES ASSUME NEW a \in 1..Len(lines'), NEW b \in 1..Len(lines'), a < b,
                          \A c \in a+1..b-1 : lines'[c][1] >= lines'[a][1]
                   PROVE  /\ lines'[a][1] = lines'[b][1] <=> lines'[a][2] = lines'[b][2]
                          /\ lines'[a][1] < lines'[b][1] <=> lines'[a][2] < lines'[b][2]
        <5>1. DOMAIN lines' = 1..Len(lines')
          BY <3>2
        <5> QED
          BY <5>1 DEF OffsideRule
      <4>1. a \in 1..Len(lines)
        BY <1>3, <3>2
      <4>2. \A c \in a+1..b-1 : c \in 1..Len(lines) /\ lines[c][1] >= lines[a][1]
        <5>1. \A c \in a+1..b-1 : c \in 1..Len(lines)
          BY <1>3, <3>2
        <5> QED
          BY <3>2, <4>1, <5>1
      <4>3. CASE b = Len(lines) + 1
        <5>1. Alive(a)
          <6>1. b - 1 = Len(lines)
            BY <1>3, <4>3
          <6> QED
            BY <4>2, <6>1 DEF Alive
        <5>2. /\ lines[a][1] = prev_indentation <=> lines[a][2] = Len(indents)
              /\ lines[a][1] < prev_indentation <=> lines[a][2] < Len(indents)
          BY <3>7, <4>1, <5>1
        <5>3. lines'[a] = lines[a] /\ lines'[b] = <<prev_indentation, Len(indents)>>
          BY <3>2, <4>1, <4>3
        <5> QED
          BY <5>2, <5>3
      <4>4. CASE b # Len(lines) + 1
        <5>1. b \in 1..Len(lines)
          BY <1>3, <3>2, <4>4
        <5>2. lines'[a] = lines[a] /\ lines'[b] = lines[b]
          BY <3>2, <4>1, <5>1
        <5> QED
          BY <1>2, <4>1, <4>2, <5>1, <5>2 DEF OffsideRule
      <4> QED
        BY <4>3, <4>4
    <3>9. Remembered'
      <4> SUFFICES ASSUME NEW a \in 1..Len(lines'),
                          \A c \in a+1..Len(lines') : lines'[c][1] >= lines'[a][1]
                   PROVE  lines'[a][2] \in 1..Len(indents') /\ indents'[lines'[a][2]] = lines'[a][1]
        BY <3>4 DEF Remembered, Alive, StillOpen
      <4>1. CASE a = Len(lines) + 1
        BY <1>1, <2>9, <3>2, <4>1
      <4>2. CASE a # Len(lines) + 1
        <5>1. a \in 1..Len(lines)
          BY <1>3, <3>2, <4>2
        <5>2. \A c \in a+1..Len(lines) : c \in 1..Len(lines) /\ c \in a+1..Len(lines')
          <6>1. PICK n \in Nat : n = Len(lines) /\ Len(lines') = n + 1
            BY <1>3, <3>2
          <6>2. \A c \in a+1..n : c \in 1..n /\ c \in a+1..n+1
            BY <5>1, <6>1
          <6> QED
            BY <6>1, <6>2
        <5>3. Alive(a)
          BY <3>2, <5>1, <5>2 DEF Alive
        <5>4. Len(lines) + 1 \in a+1..Len(lines')
          BY <1>3, <3>2, <5>1
        <5>5. prev_indentation >= lines[a][1]
          <6>1. lines'[Len(lines) + 1][1] >= lines'[a][1]
            BY <5>4
          <6>2. lines'[Len(lines) + 1][1] = prev_indentation /\ lines'[a] = lines[a]
            BY SMTT(60), <3>2, <5>1
          <6> QED
            BY <6>1, <6>2
        <5> QED
          BY <1>1, <3>2, <3>5, <5>1, <5>3, <5>5
      <4> QED
        BY <4>1, <4>2
    <3> QED
      BY <2>5, <2>7, <2>8, <3>3, <3>8, <3>9 DEF LexInv
  <2>15. CASE ~Settles(next_token + 1)
    <3>1. lines' = lines
      BY <2>1, <2>15
    <3>2. LineTyped' /\ OffsideRule'
      BY <1>1, <1>2, <2>4, <3>1 DEF LineTyped, OffsideRule
    <3>3. Unsettled => Unsettled'
      <4> SUFFICES ASSUME Unsettled PROVE Unsettled'
        OBVIOUS
      <4>1. next_token = 0 \/ next_token + 1 <= k
        <5>1. CASE pc = "token"
          BY <1>2, <5>1 DEF Phases
        <5>2. CASE line[next_token + 1] = END
          <6>1. PICK j \in 1..Len(line) : j = next_token + 1
            BY <2>3
          <6> QED
            BY <2>13, <5>2, <6>1
        <5> QED
          BY <5>1, <5>2 DEF Unsettled
      <4>2. ~(k <= next_token + 1)
        BY <2>10, <2>15, <4>1
      <4>3. PICK j \in 1..Len(line) : j = next_token + 1 + 1 /\ j <= k
        BY <1>3, <2>2, <4>2
      <4> QED
        BY <1>1, <1>3, <2>1, <2>13, <4>3 DEF Unsettled
    <3>4. Unsettled' => Unsettled
      <4> SUFFICES ASSUME Unsettled' PROVE Unsettled
        OBVIOUS
      <4>1. next_token + 1 < Len(line) /\ line[next_token + 1 + 1] = END
        BY <1>1, <2>1 DEF Unsettled
      <4>2. PICK j \in 1..Len(line) : j = next_token + 1 + 1
        BY <1>3, <4>1
      <4>3. PICK i \in 1..Len(line) : i = next_token + 1 /\ i <= k
        BY <1>3, <2>2, <2>13, <4>1, <4>2
      <4> QED
        BY <1>1, <1>5, <2>13, <4>3 DEF Unsettled
    <3>5. Remembered'
      <4>1. TextLeft
        BY <2>6 DEF TextLeft
      <4>2. ASSUME NEW a \in 1..Len(lines), Alive(a)' PROVE StillOpen(a)'
        <5>1. Alive(a)
          BY <3>1, <4>2 DEF Alive
        <5>2. StillOpen(a)
          BY <2>11, <5>1
        <5> QED
          BY <1>1, <3>1, <3>3, <3>4, <5>2 DEF StillOpen
      <4> QED
        BY <3>1, <4>2 DEF Remembered
    <3> QED
      BY <2>5, <2>7, <2>8, <3>2, <3>5 DEF LexInv
  <2> QED
    BY <2>14, <2>15
<1> QED
  BY <1>4, <1>5

(* What rc_lex() makes of a line: the tokens of its indentation keep their  *)
(* places, and those after them neither open nor close.  Nothing is left of *)
(* a line only if it has nothing but white space and semicolons.            *)
Nothing(r) == \A j \in 1..Len(r) : r[j] \in WHITESPACE \union {SEMI}

LEMMA ShapeFacts ==
  ASSUME raw_line \in Seq(Tokens), NEW p \in Seq(Kinds), NEW k \in 0..Len(p), Blocks(p, k)
  PROVE  /\ NoFinalSep(p \o Text) \in Seq(Kinds)
         /\ Blocks(NoFinalSep(p \o Text), k)
         /\ \A j \in 1..Len(p) :
              /\ p[j] # SEP => j <= Len(NoFinalSep(p \o Text))
              /\ j <= Len(NoFinalSep(p \o Text)) => NoFinalSep(p \o Text)[j] = p[j]
         /\ NoFinalSep(p \o Text) = << >> => Nothing(raw_line)
<1>1. Text \in Seq(Spoken) /\ \A m \in 1..Len(raw_line) : Shows(Text, raw_line[m])
  BY TextFacts
<1>2. PICK w : w = Text
  OBVIOUS
<1>3. w \in Seq(Kinds) /\ \A j \in 1..Len(w) : w[j] # START /\ w[j] # END
  BY <1>1, <1>2, MadeUp DEF Spoken, Kinds
<1>4. PICK s : s = p \o w
  OBVIOUS
<1>5. /\ s \in Seq(Kinds) /\ Len(s) = Len(p) + Len(w)
      /\ \A j \in 1..Len(p) : s[j] = p[j]
      /\ \A j \in 1..Len(w) : s[Len(p) + j] = w[j]
  BY <1>3, <1>4
<1>6. PICK r : r = NoFinalSep(s)
  OBVIOUS
<1>7. /\ r \in Seq(Kinds) /\ Len(r) <= Len(s)
      /\ \A j \in 1..Len(r) : r[j] = s[j]
      /\ \A j \in 1..Len(s) : s[j] # SEP => j <= Len(r)
  BY <1>5, <1>6, NoFinalSepFacts
<1>8. /\ Len(p) \in Nat /\ Len(w) \in Nat /\ Len(s) \in Nat /\ Len(r) \in Nat
  BY <1>3, <1>5, <1>7
<1>9. \A j \in 1..Len(s) : (s[j] = END <=> j <= k) /\ (s[j] = START => j = 1)
  <2> TAKE j \in 1..Len(s)
  <2>1. CASE j <= Len(p)
    BY <1>5, <1>8, <2>1 DEF Blocks
  <2>2. CASE ~(j <= Len(p))
    <3>1. PICK i \in 1..Len(w) : j = Len(p) + i
      BY SMTT(60), <1>5, <1>8, <2>2
    <3>2. s[j] # END /\ s[j] # START
      BY <1>3, <1>5, <3>1
    <3> QED
      BY <1>8, <2>2, <3>2
  <2> QED
    BY <2>1, <2>2
<1>10. k <= Len(r)
  <2>1. CASE k = 0
    BY <1>8, <2>1
  <2>2. CASE k # 0
    <3>1. k \in 1..Len(s)
      BY <1>5, <1>8, <2>2
    <3>2. s[k] = END
      BY <1>9, <3>1
    <3> QED
      BY <1>7, <3>1, <3>2, MadeUp
  <2> QED
    BY <2>1, <2>2
<1>11. Blocks(r, k)
  <2>1. k \in 0..Len(r)
    BY <1>8, <1>10
  <2>2. \A j \in 1..Len(r) : j \in 1..Len(s) /\ r[j] = s[j]
    BY <1>7, <1>8
  <2> QED
    BY <1>9, <2>1, <2>2 DEF Blocks
<1>12. \A j \in 1..Len(p) : (p[j] # SEP => j <= Len(r)) /\ (j <= Len(r) => r[j] = p[j])
  <2>1. \A j \in 1..Len(p) : j \in 1..Len(s) /\ s[j] = p[j]
    BY <1>5, <1>8
  <2>2. \A j \in 1..Len(p) : j <= Len(r) => j \in 1..Len(r)
    BY <1>8
  <2> QED
    BY <1>7, <2>1, <2>2
<1>13. ASSUME r = << >> PROVE Nothing(raw_line)
  <2>1. \A j \in 1..Len(s) : s[j] = SEP
    <3>1. Len(r) = 0
      BY <1>13
    <3> QED
      BY <1>7, <1>8, <3>1
  <2>2. \A j \in 1..Len(w) : w[j] = SEP
    <3>1. \A j \in 1..Len(w) : Len(p) + j \in 1..Len(s)
      BY <1>5, <1>8
    <3> QED
      BY <1>5, <2>1, <3>1
  <2>3. ASSUME NEW m \in 1..Len(raw_line) PROVE raw_line[m] \in WHITESPACE \union {SEMI}
    <3>1. raw_line[m] \in Tokens /\ Shows(w, raw_line[m])
      BY <1>1, <1>2
    <3> QED
      BY <2>2, <3>1, MadeUp DEF Shows
  <2> QED
    BY <2>3 DEF Nothing
<1> QED
  BY <1>2, <1>4, <1>6, <1>7, <1>11, <1>12, <1>13

(* Taking a line.  Before it the lines that none is to the left of are on   *)
(* the stack; after it those to its right are not.                          *)
Stacked(s, l) == l[2] \in 1..Len(s) /\ s[l[2]] = l[1]

(* What the three ways to take a line have in common: n ENDs, and the stack *)
(* that they leave.                                                         *)
Taken(n, opens) ==
  /\ pc' = "token" /\ line' \in Seq(Kinds) /\ Blocks(line', n) /\ n \in 0..Len(line')
  /\ ToOpen(line', 0) = opens
  /\ line' = << >> => Nothing(raw_line)
  /\ prev_indentation' = Indentation
  /\ indents' \in Seq(Nat) /\ indents' # << >>
  /\ Len(indents) = Len(indents') - opens + n
  /\ \A a \in 1..Len(lines) :
       Stacked(indents, lines[a]) =>
         IF Indentation < lines[a][1] THEN Len(indents') < lines[a][2]
         ELSE Stacked(indents', lines[a])

LEMMA TakenKeeps ==
  ASSUME LexInv, Inv', pc = "line", ~Skipped, UNCHANGED <<scanner, reader, next_token, history>>,
         NEW n \in Nat, NEW opens \in 0..1, Taken(n, opens)
  PROVE  LexInv'
<1>1. /\ scanned' = scanned /\ raw_line' = raw_line /\ next_token' = next_token
      /\ level' = level /\ lines' = lines /\ pc' = "token" /\ prev_indentation' = Indentation
  BY DEF scanner, reader, history, Taken
<1>2. ~Failed /\ Accounted /\ Phases /\ Remembered /\ LineTyped /\ OffsideRule
  BY DEF LexInv, Failed
<1>3. line = << >> /\ next_token = 0 /\ raw_line # << >> /\ TextLeft /\ Indentation \in Nat
  BY <1>2, IndentationType DEF Phases, Skipped, TextLeft
<1>4. level = Len(indents) /\ Len(indents) \in Nat
  <2>1. /\ ToOpen(<< >>, 0) = 0 /\ Len(<< >>) = 0
        /\ \A k \in 0..0 : ToClose(k, 0) = 0
    BY DEF ToOpen, ToClose
  <2>2. indents \in Seq(Nat)
    BY DEF LexInv, Inv, Typed
  <2> QED
    BY <1>2, <1>3, <2>1, <2>2 DEF Accounted
<1>5. LineTyped'
  BY <1>1, <1>2 DEF LineTyped, Taken
<1>6. OffsideRule'
  BY <1>1, <1>2 DEF OffsideRule
<1>7. Accounted'
  <2>1. ToClose(n, 0) = n
    BY DEF ToClose
  <2>2. level' = Len(indents') - ToOpen(line', 0) + ToClose(n, 0)
    BY <1>1, <1>4, <2>1 DEF Taken
  <2> QED
    BY <1>1, <1>3, <2>2 DEF Accounted, Taken
<1>8. Phases'
  BY <1>1, <1>3 DEF Phases, Taken
<1>9. Emptied'
  <2> SUFFICES ASSUME line' = << >>
               PROVE  /\ \A j \in DOMAIN raw_line : raw_line[j] \in WHITESPACE \union {SEMI}
                      /\ Len(raw_line) > 1 \/ raw_line = <<SEMI>>
    BY <1>1 DEF Emptied
  <2>1. \A j \in DOMAIN raw_line : raw_line[j] \in WHITESPACE \union {SEMI}
    BY <1>2 DEF Taken, Nothing, LineTyped
  <2>2. CASE Len(raw_line) = 1
    <3>1. raw_line[1] \notin WHITESPACE
      BY <1>2, <2>2 DEF Skipped, LineTyped
    <3>2. raw_line[1] = SEMI
      BY <1>2, <2>1, <2>2, <3>1 DEF LineTyped
    <3>3. raw_line = <<SEMI>>
      BY <1>2, <2>2, <3>2 DEF LineTyped
    <3> QED
      BY <2>1, <3>3
  <2>3. CASE Len(raw_line) # 1
    <3>1. raw_line \in Seq(Tokens)
      BY <1>2 DEF LineTyped
    <3>2. Len(raw_line) \in Nat /\ Len(raw_line) # 0
      BY <1>3, <3>1
    <3>3. Len(raw_line) > 1
      BY <2>3, <3>2
    <3> QED
      BY <2>1, <3>3
  <2> QED
    BY <2>2, <2>3
<1>10. Remembered'
  <2>1. Unsettled' /\ ~Unsettled
    BY <1>1 DEF Unsettled
  <2>2. ASSUME NEW a \in 1..Len(lines), Alive(a)' PROVE StillOpen(a)'
    <3>1. Alive(a)
      BY <1>1, <2>2 DEF Alive
    <3>2. StillOpen(a)
      BY <1>2, <1>3, <3>1 DEF Remembered
    <3>3. Stacked(indents, lines[a])
      BY <2>1, <3>2 DEF StillOpen, Stacked
    <3>4. IF Indentation < lines[a][1] THEN Len(indents') < lines[a][2]
          ELSE Stacked(indents', lines[a])
      BY <3>3 DEF Taken
    <3> QED
      BY <1>1, <2>1, <3>4 DEF StillOpen, Stacked
  <2> QED
    BY <1>1, <2>2 DEF Remembered
<1> QED
  BY <1>5, <1>6, <1>7, <1>8, <1>9, <1>10 DEF LexInv

LEMMA TakeLineKeeps ==
  ASSUME LexInv, Inv', TakeLine
  PROVE  LexInv'
<1>1. pc = "line" /\ ~Skipped /\ UNCHANGED <<scanner, reader, next_token, history>>
  BY DEF TakeLine
<1>2. Phases /\ LineTyped /\ Inv
  BY <1>1 DEF LexInv, Failed
<1>3. /\ raw_line # << >> /\ raw_line \in Seq(Tokens) /\ Indentation \in Nat
      /\ prev_indentation \in Int
      /\ indents \in Seq(Nat) /\ Len(indents) \in Nat /\ lines \in Seq(Nat \X Nat)
      /\ \A j, k \in 1..Len(indents) : j < k => indents[j] < indents[k]
      /\ indents # << >> => indents[Len(indents)] = prev_indentation
      /\ prev_indentation >= 0 => indents # << >>
      /\ line = << >>
  BY <1>1, <1>2, IndentationType
     DEF Skipped, LineTyped, Inv, Typed, IndentsGrow, Phases, TextLeft
<1>4. \A a \in 1..Len(lines) : lines[a][1] \in Nat /\ lines[a][2] \in Nat
  BY SMTT(60), <1>3
<1>5. \A j \in 1..Len(indents) : indents[j] \in Nat /\ indents[j] <= prev_indentation
  <2> TAKE j \in 1..Len(indents)
  <2>1. indents # << >> /\ Len(indents) \in 1..Len(indents)
    BY <1>3
  <2>2. indents[Len(indents)] = prev_indentation /\ (j = Len(indents) \/ j < Len(indents))
    BY <1>3, <2>1
  <2>3. indents[j] \in Nat
    BY <1>3
  <2> QED
    BY SMTT(60), <1>3, <2>1, <2>2, <2>3
<1>6. CASE Indentation = prev_indentation /\ Shape(<<SEP>>, indents)
  <2>1. /\ pc' = "token" /\ line' = NoFinalSep(<<SEP>> \o Text) /\ indents' = indents
        /\ prev_indentation' = Indentation
    BY <1>6 DEF Shape
  <2>2. /\ <<SEP>> \in Seq(Kinds) /\ Len(<<SEP>>) = 1 /\ 0 \in 0..Len(<<SEP>>)
        /\ Blocks(<<SEP>>, 0) /\ <<SEP>>[1] = SEP
    BY MadeUp DEF Blocks, Kinds
  <2>3. /\ line' \in Seq(Kinds) /\ Blocks(line', 0)
        /\ 1 <= Len(line') => line'[1] = SEP
        /\ line' = << >> => Nothing(raw_line)
    <3>1. 1 \in 1..Len(<<SEP>>)
      BY <2>2
    <3> QED
      BY <1>3, <2>1, <2>2, <3>1, ShapeFacts
  <2>4. ToOpen(line', 0) = 0
    BY <2>3, MadeUp DEF ToOpen
  <2>5. indents # << >> /\ Len(indents) = Len(indents) - 0 + 0 /\ 0 \in 0..Len(line')
    BY <1>3, <1>6, <2>3
  <2>6. ASSUME NEW a \in 1..Len(lines), Stacked(indents, lines[a])
        PROVE  ~(Indentation < lines[a][1])
    BY SMTT(60), <1>3, <1>4, <1>5, <1>6, <2>6 DEF Stacked
  <2>7. Taken(0, 0)
    BY <1>3, <2>1, <2>3, <2>4, <2>5, <2>6 DEF Taken
  <2> QED
    BY <1>1, <2>7, TakenKeeps
<1>7. CASE /\ Indentation > prev_indentation
           /\ Shape(<<START>>, Append(indents, Indentation))
  <2>1. /\ pc' = "token" /\ line' = NoFinalSep(<<START>> \o Text)
        /\ indents' = Append(indents, Indentation) /\ prev_indentation' = Indentation
    BY <1>7 DEF Shape
  <2>2. /\ <<START>> \in Seq(Kinds) /\ Len(<<START>>) = 1 /\ 0 \in 0..Len(<<START>>)
        /\ Blocks(<<START>>, 0) /\ <<START>>[1] = START
    BY MadeUp DEF Blocks, Kinds
  <2>3. /\ line' \in Seq(Kinds) /\ Blocks(line', 0)
        /\ 1 <= Len(line') /\ line'[1] = START
        /\ line' = << >> => Nothing(raw_line)
    <3>1. 1 \in 1..Len(<<START>>) /\ <<START>>[1] # SEP
      BY <2>2, MadeUp
    <3> QED
      BY <1>3, <2>1, <2>2, <3>1, ShapeFacts
  <2>4. ToOpen(line', 0) = 1 /\ 0 \in 0..Len(line')
    BY <2>3 DEF ToOpen
  <2>5. /\ indents' \in Seq(Nat) /\ Len(indents') = Len(indents) + 1
        /\ \A j \in 1..Len(indents) : indents'[j] = indents[j]
    BY <1>3, <2>1
  <2>6. indents' # << >> /\ Len(indents) = Len(indents') - 1 + 0
    BY <1>3, <2>5
  <2>7. ASSUME NEW a \in 1..Len(lines), Stacked(indents, lines[a])
        PROVE  ~(Indentation < lines[a][1]) /\ Stacked(indents', lines[a])
    <3>1. PICK j \in 1..Len(indents) : j = lines[a][2] /\ indents[j] = lines[a][1]
      BY <2>7 DEF Stacked
    <3>2. lines[a][1] <= prev_indentation /\ lines[a][1] \in Nat
      BY <1>5, <3>1
    <3>3. j \in 1..Len(indents')
      BY <1>3, <2>5
    <3>4. ~(Indentation < lines[a][1])
      <4>1. Indentation \in Nat /\ prev_indentation \in Int
        BY <1>3
      <4> QED
        BY <1>7, <3>2, <4>1
    <3> QED
      BY <2>5, <3>1, <3>3, <3>4 DEF Stacked
  <2>8. Taken(0, 1)
    BY <1>3, <2>1, <2>3, <2>4, <2>5, <2>6, <2>7 DEF Taken
  <2> QED
    BY <1>1, <2>8, TakenKeeps
<1>8. CASE Indentation < prev_indentation /\ Dedent
  <2>1. indents # << >>
    BY <1>3, <1>8
  <2>2. CASE /\ Kept # {} /\ indents[LastKept] = Indentation
             /\ Shape([j \in 1..Len(indents) - LastKept |-> END] \o <<SEP>>,
                      SubSeq(indents, 1, LastKept))
    <3>1. PICK m : m = LastKept
      OBVIOUS
    <3>2. m \in 1..Len(indents) /\ indents[m] = Indentation
      BY <1>3, <2>2, <3>1, LastKeptIsLast DEF Kept
    <3>3. PICK n \in Nat : n = Len(indents) - m
      <4>1. Len(indents) \in Nat
        BY <1>3
      <4>2. Len(indents) - m \in Nat
        BY <3>2, <4>1
      <4> QED
        BY <4>2
    <3>4. PICK e : e = [j \in 1..n |-> END]
      OBVIOUS
    <3>5. e \in Seq(Kinds) /\ Len(e) = n /\ \A j \in 1..n : e[j] = END
      BY <3>4 DEF Kinds
    <3>6. PICK p : p = e \o <<SEP>>
      OBVIOUS
    <3>7. /\ p \in Seq(Kinds) /\ Len(p) = n + 1 /\ \A j \in 1..n : p[j] = END
          /\ p[n + 1] = SEP
      <4>1. <<SEP>> \in Seq(Kinds) /\ Len(<<SEP>>) = 1 /\ <<SEP>>[1] = SEP
        BY DEF Kinds
      <4> QED
        BY <3>5, <3>6, <4>1
    <3>8. n \in 0..Len(p) /\ Blocks(p, n)
      <4>1. n \in 0..Len(p)
        BY <3>7
      <4>2. \A j \in 1..Len(p) : (j <= n /\ p[j] = END) \/ (~(j <= n) /\ p[j] = SEP)
        BY <3>7
      <4> QED
        BY <4>1, <4>2, MadeUp DEF Blocks
    <3>9. /\ pc' = "token" /\ line' = NoFinalSep(p \o Text)
          /\ indents' = SubSeq(indents, 1, m) /\ prev_indentation' = Indentation
      BY <2>2, <3>1, <3>3, <3>4, <3>6 DEF Shape
    <3>10. /\ line' \in Seq(Kinds) /\ Blocks(line', n)
           /\ \A j \in 1..Len(p) : j <= Len(line') => line'[j] = p[j]
           /\ line' = << >> => Nothing(raw_line)
      BY <1>3, <3>7, <3>8, <3>9, ShapeFacts
    <3>11. ToOpen(line', 0) = 0
      <4>1. 1 \in 1..Len(p) /\ p[1] # START
        BY <3>7, MadeUp
      <4>2. 0 < Len(line') => 1 <= Len(line')
        BY <3>10
      <4> QED
        BY <3>10, <4>1, <4>2 DEF ToOpen
    <3>12. n \in 0..Len(line')
      BY <3>10 DEF Blocks
    <3>13. /\ indents' \in Seq(Nat) /\ Len(indents') = m
           /\ \A j \in 1..m : indents'[j] = indents[j]
      <4>1. m \in 0..Len(indents)
        BY <3>2
      <4> QED
        BY <1>3, <3>9, <4>1, PrefixGrows
    <3>14. indents' # << >> /\ Len(indents) = Len(indents') - 0 + n
      BY <1>3, <3>2, <3>3, <3>13
    <3>15. ASSUME NEW a \in 1..Len(lines), Stacked(indents, lines[a])
          PROVE  IF Indentation < lines[a][1] THEN Len(indents') < lines[a][2]
                 ELSE Stacked(indents', lines[a])
      <4>1. PICK j \in 1..Len(indents) : j = lines[a][2] /\ indents[j] = lines[a][1]
        BY <3>15 DEF Stacked
      <4>2. /\ indents[j] \in Nat /\ indents[m] \in Nat
            /\ indents[m] < indents[j] <=> m < j
        <5>1. indents[j] \in Nat /\ indents[m] \in Nat
          BY <1>5, <3>2
        <5>2. (indents[m] = indents[j] <=> m = j) /\ (indents[m] < indents[j] <=> m < j)
          BY <1>3, <3>2, GrowingCompares
        <5> QED
          BY <5>1, <5>2
      <4>3. CASE m < j
        BY <3>2, <3>13, <4>1, <4>2, <4>3
      <4>4. CASE ~(m < j)
        <5>1. j \in 1..m
          BY <3>2, <4>4
        <5>2. Stacked(indents', lines[a])
          BY <3>13, <4>1, <5>1 DEF Stacked
        <5>3. ~(Indentation < lines[a][1])
          BY <3>2, <4>1, <4>2, <4>4
        <5> QED
          BY <5>2, <5>3
      <4> QED
        BY <4>3, <4>4
    <3>16. Taken(n, 0)
      BY <3>9, <3>10, <3>11, <3>12, <3>13, <3>14, <3>15 DEF Taken
    <3> QED
      BY <1>1, <3>16, TakenKeeps
  <2>3. ASSUME pc' = "fatal" \/ (Kept = {} /\ pc' = "underflow"),
               UNCHANGED <<line, indents, prev_indentation>>
        PROVE  LexInv'
    <3>1. /\ raw_line' = raw_line /\ next_token' = next_token /\ level' = level /\ lines' = lines
          /\ line' = line /\ indents' = indents
      BY <1>1, <2>3 DEF reader, history
    <3>2. LineTyped' /\ OffsideRule'
      BY <1>2, <3>1 DEF LineTyped, OffsideRule, LexInv
    <3>3. Indentation' = Indentation
      BY <3>1 DEF Indentation
    <3>4. pc' = "underflow" => indents # << >> /\ indents[1] > Indentation
      BY <1>3, <2>1, <2>3 DEF Kept
    <3>5. Emptied'
      BY <2>3, <3>1, <3>3, <3>4 DEF Emptied
    <3> QED
      BY <2>3, <3>2, <3>5 DEF LexInv, Failed
  <2> QED
    BY <1>8, <2>2, <2>3 DEF Dedent
<1> QED
  BY <1>6, <1>7, <1>8 DEF TakeLine

LEMMA LexInvNext ==
  ASSUME LexInv, Inv', [Next]_vars
  PROVE  LexInv'
<1>0. raw_line \in Seq(Tokens)
  BY DEF LexInv, LineTyped
<1>1. CASE Choose
  <2>1. pc = "choice" /\ pc' = "lex" /\ raw_line' = raw_line /\ scanned' = scanned
        /\ UNCHANGED <<shape, history>>
    BY <1>1 DEF Choose, scanner, reader
  <2> QED
    BY <1>0, <2>1, QuietStep DEF TextLeft
<1>2. CASE ReadLine
  BY <1>2, ReadLineKeeps
<1>3. CASE EtcAtEnd
  <2>1. pc = "etc" /\ pc' = "fatal" /\ raw_line' = raw_line /\ scanned' = scanned
        /\ UNCHANGED <<shape, history>>
    BY <1>3 DEF EtcAtEnd, scanner, reader
  <2> QED
    BY <1>0, <2>1, QuietStep DEF TextLeft
<1>4. CASE EndOfInput
  BY <1>4, EndOfInputKeeps
<1>5. CASE SkipLine
  <2>1. pc = "line" /\ pc' = "read" /\ raw_line' = << >> /\ scanned' = scanned
        /\ UNCHANGED <<shape, history>>
    BY <1>5 DEF SkipLine, StartLine, scanner
  <2> QED
    BY <2>1, QuietStep DEF TextLeft
<1>6. CASE TakeLine
  BY <1>6, TakeLineKeeps
<1>7. CASE Return
  BY <1>7, ReturnKeeps
<1>8. ASSUME NEW t \in Tokens, Read(t)
      PROVE  LexInv'
  <2>1. pc = "read" /\ TextLeft /\ UNCHANGED <<shape, history>>
    BY <1>8 DEF Read, Scan, TextLeft
  <2>2. \/ pc' \in {"read", "line", "etc", "fatal"} /\ UNCHANGED reader
        \/ pc' = "read" /\ Append1(t)
    BY <1>8, <2>1 DEF Read
  <2>3. raw_line' \in Seq(Tokens)
    BY <1>0, <2>2 DEF Append1, reader
  <2> QED
    BY <2>1, <2>2, <2>3, QuietStep
<1>9. ASSUME NEW t \in Tokens, ReadEtc(t)
      PROVE  LexInv'
  <2>1. pc = "etc" /\ TextLeft /\ UNCHANGED <<shape, history>> /\ raw_line' = raw_line
    BY <1>9 DEF ReadEtc, Scan, TextLeft, reader
  <2>2. pc' \in {"read", "etc", "fatal"}
    BY <1>9 DEF ReadEtc
  <2> QED
    BY <1>0, <2>1, <2>2, QuietStep
<1>10. CASE UNCHANGED vars
  <2>1. /\ pc' = pc /\ scanned' = scanned /\ raw_line' = raw_line /\ line' = line
        /\ next_token' = next_token /\ indents' = indents
        /\ prev_indentation' = prev_indentation /\ level' = level /\ lines' = lines
    BY <1>10 DEF vars
  <2>2. LineTyped' /\ Emptied' /\ OffsideRule'
    <3>1. Indentation' = Indentation
      BY <2>1 DEF Indentation
    <3>2. LineTyped' /\ OffsideRule'
      BY <2>1 DEF LexInv, LineTyped, OffsideRule
    <3>3. Emptied'
      BY <2>1, <3>1 DEF LexInv, Emptied
    <3> QED
      BY <3>2, <3>3
  <2>3. ASSUME ~Failed' PROVE Accounted' /\ Phases'
    BY <2>1, <2>3 DEF LexInv, Failed, Accounted, Phases, TextLeft
  <2>4. ASSUME ~Failed' PROVE Remembered'
    <3>1. Remembered
      BY <2>1, <2>4 DEF LexInv, Failed
    <3> QED
      BY <2>1, <3>1 DEF Remembered, TextLeft, Alive, StillOpen, Unsettled
  <2> QED
    BY <2>2, <2>3, <2>4 DEF LexInv
<1> QED
  BY <1>1, <1>2, <1>3, <1>4, <1>5, <1>6, <1>7, <1>8, <1>9, <1>10 DEF Next

(* The invariant of the lexer holds, whatever the text.                     *)
THEOREM LexInvariance == Spec => []LexInv
<1>1. Init => LexInv
  <2> SUFFICES ASSUME Init PROVE LexInv
    OBVIOUS
  <2>1. << >> \in Seq(Tokens) /\ << >> \in Seq(Kinds) /\ << >> \in Seq(Nat \X Nat) /\ Len(<< >>) = 0
    OBVIOUS
  <2>2. Inv
    BY LexerAssumption DEF Init, Inv, Typed, IndentsGrow
  <2>3. LineTyped /\ Emptied /\ OffsideRule
    BY <2>1 DEF Init, LineTyped, Emptied, OffsideRule
  <2>4. Blocks(<< >>, 0) /\ ToOpen(<< >>, 0) = 0 /\ ToClose(0, 0) = 0 /\ 0 \in 0..Len(<< >>)
    BY DEF Blocks, ToOpen, ToClose
  <2>5. Accounted
    <3>1. 0 = Len(<< >>) - 0 + 0
      OBVIOUS
    <3> QED
      BY <2>4, <3>1 DEF Init, Accounted
  <2>6. Phases
    BY DEF Init, Phases
  <2>7. Remembered
    BY <2>1 DEF Init, Remembered
  <2> QED
    BY <2>2, <2>3, <2>5, <2>6, <2>7 DEF LexInv
<1>2. LexInv /\ Inv' /\ [Next]_vars => LexInv'
  BY LexInvNext
<1> QED
  BY <1>1, <1>2, InvInvariance, PTL DEF Spec

(* The off-side rule holds of every text: how the columns of two lines      *)
(* compare, none to the left of the first between them, is how the depths   *)
(* of their blocks compare that START and END give to the parser.           *)
THEOREM OffsideCorrect == Spec => []OffsideRule
<1>1. LexInv => OffsideRule
  BY DEF LexInv
<1> QED
  BY <1>1, LexInvariance, PTL

(* rc_lex() reads outside of its arrays only where it is known to: a line   *)
(* of which nothing is left, and one to the left of the first.              *)
THEOREM ReadsInBoundsCorrect == Spec => []ReadsInBounds
<1>1. LexInv => ReadsInBounds
  BY DEF LexInv, Emptied, ReadsInBounds
<1> QED
  BY <1>1, LexInvariance, PTL

(* Counting the STARTs and ENDs of what is left of a line.                  *)
LEMMA Counted ==
  ASSUME NEW s \in Seq(Kinds), NEW n \in 0..Len(s), NEW k \in 0..Len(s), Blocks(s, k)
  PROVE  /\ Count(SubSeq(s, n + 1, Len(s)), START) = ToOpen(s, n)
         /\ Count(SubSeq(s, n + 1, Len(s)), END) = ToClose(k, n)
<1>1. PICK r : r = SubSeq(s, n + 1, Len(s))
  OBVIOUS
<1>2. /\ r \in Seq(Kinds) /\ Len(r) = Len(s) - n
      /\ \A j \in 1..Len(r) : r[j] = s[n + j]
  BY <1>1
<1>3. Len(s) \in Nat /\ DOMAIN r = 1..Len(r) /\ \A j \in 1..Len(r) : n + j \in 1..Len(s)
  BY <1>2
<1>4. {j \in DOMAIN r : r[j] = END} = 1..k-n
  <2>1. \A j \in 1..Len(r) : r[j] = END <=> n + j <= k
    BY <1>2, <1>3 DEF Blocks
  <2>2. \A j : j \in 1..k-n <=> j \in 1..Len(r) /\ n + j <= k
    BY <1>2, <1>3
  <2> QED
    BY <1>3, <2>1, <2>2
<1>5. Cardinality(1..k-n) = ToClose(k, n)
  <2>1. Cardinality(1..k-n) = IF 1 > k-n THEN 0 ELSE (k-n) - 1 + 1
    BY FS_Interval
  <2> QED
    BY <2>1 DEF ToClose
<1>6. CASE n = 0 /\ 0 < Len(s) /\ s[1] = START
  <2>1. {j \in DOMAIN r : r[j] = START} = {1}
    <3>1. \A j \in 1..Len(r) : r[j] = START <=> j = 1
      BY <1>2, <1>3, <1>6 DEF Blocks
    <3>2. 1 \in 1..Len(r)
      BY <1>2, <1>3, <1>6
    <3> QED
      BY <1>3, <3>1, <3>2
  <2> QED
    BY ZenonT(60), <1>1, <1>4, <1>5, <1>6, <2>1, FS_Singleton DEF Count, ToOpen
<1>7. CASE ~(n = 0 /\ 0 < Len(s) /\ s[1] = START)
  <2>1. {j \in DOMAIN r : r[j] = START} = {}
    <3>1. \A j \in 1..Len(r) : r[j] # START
      BY <1>2, <1>3, <1>7 DEF Blocks
    <3> QED
      BY <1>3, <3>1
  <2> QED
    BY <1>1, <1>4, <1>5, <1>7, <2>1, FS_EmptySet DEF Count, ToOpen
<1> QED
  BY <1>6, <1>7

(* Every END that the parser is given closes a block that is open, what is  *)
(* left of the line accounts for the rest, and at the end of the text all   *)
(* blocks are closed: whatever the text.                                    *)
THEOREM BalancedCorrect == Spec => []Balanced
<1>1. LexInv => Balanced
  <2> SUFFICES ASSUME LexInv PROVE Balanced
    OBVIOUS
  <2>1. /\ level \in Nat /\ line \in Seq(Kinds) /\ Len(line) \in Nat
        /\ indents \in Seq(Nat) /\ Len(indents) \in Nat
    BY DEF LexInv, LineTyped, Inv, Typed
  <2> DEFINE rest == SubSeq(line, next_token + 1, Len(line))
  <2>2. ASSUME ~Failed
        PROVE  /\ level + Count(rest, START) - Count(rest, END) = Len(indents)
               /\ pc = "done" => level = 0
    <3>1. Phases /\ Accounted
      BY <2>2 DEF LexInv
    <3>2. PICK k \in 0..Len(line) : Blocks(line, k)
            /\ level = Len(indents) - ToOpen(line, next_token) + ToClose(k, next_token)
      BY <3>1 DEF Accounted
    <3>3. next_token \in 0..Len(line)
      <4>1. next_token \in Nat /\ Len(<< >>) = 0
        BY DEF LexInv, LineTyped
      <4>2. next_token <= Len(line)
        BY <2>1, <2>2, <3>1, <4>1 DEF Phases, Failed
      <4> QED
        BY <2>1, <4>1, <4>2
    <3>4. Count(rest, START) = ToOpen(line, next_token) /\ Count(rest, END) = ToClose(k, next_token)
      BY <2>1, <3>2, <3>3, Counted
    <3>5. ToOpen(line, next_token) \in Nat /\ ToClose(k, next_token) \in Nat
      BY <3>2, <3>3 DEF ToOpen, ToClose
    <3>6. level + Count(rest, START) - Count(rest, END) = Len(indents)
      <4> HIDE DEF rest
      <4> QED
        BY <2>1, <3>2, <3>4, <3>5
    <3>7. ASSUME pc = "done" PROVE level = 0
      <4>1. line = << >> /\ next_token = 0 /\ indents = << >>
        BY <3>1, <3>7 DEF Phases
      <4>2. Len(<< >>) = 0 /\ ToOpen(<< >>, 0) = 0 /\ \A j \in 0..0 : ToClose(j, 0) = 0
        BY DEF ToOpen, ToClose
      <4> QED
        BY <3>2, <4>1, <4>2
    <3> QED
      BY <3>6, <3>7
  <2>3. level >= 0 /\ (Failed => pc # "done")
    BY <2>1 DEF Failed
  <2> QED
    BY <2>2, <2>3 DEF Balanced
<1> QED
  BY <1>1, LexInvariance, PTL
=============================================================================
