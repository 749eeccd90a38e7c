------------------------------- MODULE Lexer --------------------------------
(***************************************************************************)
(* The layer between flex and bison, lang/build-tree.c.  It joins physical *)
(* lines into logical ones (open brackets, "..."), and turns indentation   *)
(* into the virtual tokens START, SEP and END that delimit blocks.         *)
(*                                                                         *)
(* The characters of a program are not modelled, its tokens are: the text  *)
(* is any sequence of at most MaxTokens of Tokens that flex can deliver.   *)
(* Of white space only the width is kept, of a bracket its kind.           *)
(***************************************************************************)
EXTENDS Integers, Sequences, SequencesExt

CONSTANTS
  Widths,      \* of white space
  Brackets,    \* kinds of brackets: (), [] and {}
  Others,      \* those of SEMI, ETC, UNKNOWN and WORD that the text may have
  MaxTokens,   \* bound: tokens of the text
  MaxSpecial   \* bound: those that are neither white space, new line nor WORD

ASSUME LexerAssumption ==
  /\ Widths \subseteq Nat \ {0}
  /\ Others \subseteq {"SEMI", "ETC", "UNKNOWN", "WORD"}
  /\ MaxTokens \in Nat /\ MaxSpecial \in Nat

(* What yylex() returns; WORD is any token the lexer does not look at.      *)
Token(t, n) == [type |-> t, arg |-> n]
WHITESPACE  == {Token("WHITESPACE", w) : w \in Widths}
Opening     == {Token("OPEN", b) : b \in Brackets}
Closing     == {Token("CLOSE", b) : b \in Brackets}
NEWLINE     == Token("NEWLINE", 0)
SEMI        == Token("SEMI", 0)
ETC         == Token("ETC", 0)
UNKNOWN     == Token("UNKNOWN", 0)
Tokens == WHITESPACE \union Opening \union Closing
            \union {NEWLINE} \union {Token(t, 0) : t \in Others}

Plain == WHITESPACE \union {NEWLINE, Token("WORD", 0)}

(* The tokens that the lexer makes up.                                      *)
START == Token("START", 0)
SEP   == Token("SEP", 0)
END   == Token("END", 0)

VARIABLES
  pc,                \* where rc_lex() is, see below
  last, scanned,     \* the scanner: its last token, how many it returned,
  special,           \* and how many special ones
  raw_line, counter, \* lex_read_line(); counter of each kind of bracket
  line, next_token, indents, prev_indentation,
  level,             \* history: STARTs less ENDs returned to the parser
  lines              \* history: indentation and level of each line's text

vars == <<pc, last, scanned, special, raw_line, counter, line, next_token,
          indents, prev_indentation, level, lines>>

(* choice: the first call is to come; lex: between two calls; read, etc: in *)
(* lex_read_line(); line: it has returned a line; token: about to return    *)
(* line[next_token]; fatal: fatal_throw(); done: 0 was returned.  Two       *)
(* places read memory that holds no element: underflow, past_end.           *)
Init ==
  /\ pc = "choice"
  /\ last = NEWLINE /\ scanned = 0 /\ special = 0
  /\ raw_line = << >> /\ counter = [b \in Brackets |-> 0]
  /\ line = << >> /\ next_token = 0
  /\ indents = << >> /\ prev_indentation = -1
  /\ level = 0 /\ lines = << >>

scanner == <<last, scanned, special>>
reader  == <<raw_line, counter>>
shape   == <<line, next_token, indents, prev_indentation>>
history == <<level, lines>>

(* The first call of rc_lex() returns CHOICE_PROGRAM or CHOICE_EXPR.        *)
Choose ==
  /\ pc = "choice" /\ pc' = "lex"
  /\ UNCHANGED <<scanner, reader, shape, history>>

StartLine == raw_line' = << >> /\ counter' = [b \in Brackets |-> 0]

(* All of line has been returned.                                           *)
ReadLine ==
  /\ pc = "lex" /\ next_token = Len(line)
  /\ pc' = "read"
  /\ line' = << >> /\ next_token' = 0
  /\ StartLine
  /\ UNCHANGED <<scanner, indents, prev_indentation, history>>

(* yylex().  White space is matched as far as it goes.                      *)
Scan(t) ==
  /\ scanned < MaxTokens
  /\ last \in WHITESPACE => t \notin WHITESPACE
  /\ last' = t /\ scanned' = scanned + 1
  /\ special' = IF t \in Plain THEN special ELSE special + 1
  /\ special' <= MaxSpecial

Append1(t) == raw_line' = Append(raw_line, t)

OpenBrackets == \E b \in Brackets : counter[b] > 0

(* lex_read_line(), one token.                                              *)
Read(t) ==
  /\ pc = "read" /\ Scan(t)
  /\ CASE t \in Opening -> /\ counter' = [counter EXCEPT ![t.arg] = @ + 1]
                           /\ Append1(t) /\ pc' = pc
       [] t \in Closing -> /\ counter' = [counter EXCEPT ![t.arg] = @ - 1]
                           /\ Append1(t) /\ pc' = pc
       [] t = NEWLINE   -> /\ pc' = IF OpenBrackets THEN "read" ELSE "line"
                           /\ UNCHANGED reader
       [] t = ETC       -> pc' = "etc" /\ UNCHANGED reader
       [] t = UNKNOWN   -> pc' = "fatal" /\ UNCHANGED reader
       [] OTHER         -> Append1(t) /\ UNCHANGED <<pc, counter>>
  /\ UNCHANGED <<shape, history>>

(* After "..." there may be white space and must be a new line.             *)
ReadEtc(t) ==
  /\ pc = "etc" /\ Scan(t)
  /\ pc' = CASE t = NEWLINE      -> "read"
             [] t \in WHITESPACE -> "etc"
             [] OTHER            -> "fatal"
  /\ UNCHANGED <<reader, shape, history>>

EtcAtEnd ==
  /\ pc = "etc" /\ pc' = "fatal"
  /\ UNCHANGED <<scanner, reader, shape, history>>

(* Mutant: the end of the text ends no block.                               *)
EndOfInputBare ==
  /\ pc = "read"
  /\ pc' = IF raw_line # << >> THEN "line" ELSE "done"
  /\ UNCHANGED <<scanner, reader, shape, history>>

(* The end of the text: of its last line, or of one block per call.  The    *)
(* text may end anywhere.                                                   *)
EndOfInput ==
  /\ pc = "read"
  /\ \/ /\ raw_line # << >>
        /\ pc' = "line"
        /\ UNCHANGED <<indents, history>>
     \/ /\ raw_line = << >> /\ indents # << >>
        /\ pc' = "lex"
        /\ indents' = Front(indents)
        /\ level' = level - 1 /\ UNCHANGED lines
     \/ /\ raw_line = << >> /\ indents = << >>
        /\ pc' = "done"
        /\ UNCHANGED <<indents, history>>
  /\ last' = NEWLINE /\ scanned' = MaxTokens
  /\ UNCHANGED <<special, reader, line, next_token, prev_indentation>>

(* Mutant: a line of white space is not skipped.                            *)
SkippedEmpty == raw_line = << >>

Skipped ==
  \/ raw_line = << >>
  \/ Len(raw_line) = 1 /\ Head(raw_line) \in WHITESPACE

SkipLine ==
  /\ pc = "line" /\ Skipped
  /\ pc' = "read"
  /\ StartLine
  /\ UNCHANGED <<scanner, shape, history>>

Indentation ==
  IF Head(raw_line) \in WHITESPACE THEN Head(raw_line).arg ELSE 0

(* The tokens of the line, the ';' at its end taken off again; with them    *)
(* goes the SEP of the indentation, when nothing stands between.            *)
Text ==
  LET text[n \in 0..Len(raw_line)] ==
        IF n = 0 THEN << >>
        ELSE IF raw_line[n] \in WHITESPACE THEN text[n - 1]
        ELSE Append(text[n - 1], IF raw_line[n] = SEMI THEN SEP ELSE raw_line[n])
  IN  text[Len(raw_line)]

NoFinalSep(s) ==
  LET kept == {j \in DOMAIN s : s[j] # SEP}
  IN  SubSeq(s, 1, IF kept = {} THEN 0 ELSE CHOOSE j \in kept : \A k \in kept : k <= j)

Shape(prefix, stack) ==
  /\ pc' = "token"
  /\ line' = NoFinalSep(prefix \o Text)
  /\ indents' = stack
  /\ prev_indentation' = Indentation

(* Popping until an indentation is not larger than the line's leaves those  *)
(* up to the last such one.                                                 *)
Kept == {j \in DOMAIN indents : indents[j] <= Indentation}
LastKept == CHOOSE j \in Kept : \A k \in Kept : k <= j

(* Mutant: the matching indentation is not put back.                        *)
DedentDrops ==
  /\ Kept # {} /\ indents[LastKept] = Indentation
  /\ Shape([j \in 1..Len(indents) - LastKept |-> END] \o <<SEP>>,
           SubSeq(indents, 1, LastKept - 1))

(* Mutant: one END too few.                                                 *)
DedentShort ==
  /\ Kept # {} /\ indents[LastKept] = Indentation
  /\ Shape([j \in 1..Len(indents) - LastKept - 1 |-> END] \o <<SEP>>,
           SubSeq(indents, 1, LastKept))

Dedent ==
  \/ /\ Kept # {} /\ indents[LastKept] = Indentation
     /\ Shape([j \in 1..Len(indents) - LastKept |-> END] \o <<SEP>>,
              SubSeq(indents, 1, LastKept))
  \/ /\ Kept # {} /\ indents[LastKept] < Indentation
     /\ pc' = "fatal" /\ UNCHANGED <<line, indents, prev_indentation>>
  \/ /\ Kept = {}
     /\ pc' = "underflow" /\ UNCHANGED <<line, indents, prev_indentation>>

TakeLine ==
  /\ pc = "line" /\ ~Skipped
  /\ \/ Indentation = prev_indentation /\ Shape(<<SEP>>, indents)
     \/ /\ Indentation > prev_indentation
        /\ Shape(<<START>>, Append(indents, Indentation))
     \/ Indentation < prev_indentation /\ Dedent
  /\ UNCHANGED <<scanner, reader, next_token, history>>

(* Element i is the last of line that opens or closes a block.              *)
Settles(i) ==
  /\ \A j \in 2..i : line[j] \in {START, END}
  /\ i < Len(line) => line[i + 1] \notin {START, END}

(* rc_lex() returns the next token of the line.                             *)
Return ==
  /\ \/ pc = "lex" /\ next_token # Len(line)
     \/ pc = "token"
  /\ next_token' = next_token + 1
  /\ IF next_token < Len(line)
     THEN LET t == line[next_token + 1]
          IN  /\ pc' = "lex"
              /\ level' = level + (IF t = START THEN 1 ELSE 0)
                                - (IF t = END THEN 1 ELSE 0)
              /\ lines' = IF Settles(next_token + 1)
                          THEN Append(lines, <<prev_indentation, level'>>)
                          ELSE lines
     ELSE pc' = "past_end" /\ UNCHANGED history
  /\ UNCHANGED <<scanner, reader, line, indents, prev_indentation>>

Next ==
  \/ Choose \/ ReadLine \/ EtcAtEnd \/ EndOfInput \/ SkipLine \/ TakeLine
  \/ Return
  \/ \E t \in Tokens : Read(t) \/ ReadEtc(t)

Spec == Init /\ [][Next]_vars

-----------------------------------------------------------------------------
(***************************************************************************)
(* Properties.                                                             *)
(***************************************************************************)
Count(s, t) == Cardinality({j \in DOMAIN s : s[j] = t})

Failed == pc \in {"fatal", "underflow", "past_end"}

(* What the parser has been given and what still waits in line account for  *)
(* the open blocks: no END comes without its START, and the text ends with  *)
(* all blocks closed.                                                       *)
Balanced ==
  LET rest == SubSeq(line, next_token + 1, Len(line))
  IN  /\ level >= 0
      /\ ~Failed => level + Count(rest, START) - Count(rest, END) = Len(indents)
      /\ pc = "done" => level = 0

(* The indentations that dedenting compares with grow from the outermost to *)
(* the innermost block, and while there is text left the last is that of    *)
(* the last line.                                                           *)
IndentsGrow ==
  /\ \A j, k \in 1..Len(indents) : j < k => indents[j] < indents[k]
  /\ indents # << >> /\ (scanned < MaxTokens \/ raw_line # << >>) =>
       indents[Len(indents)] = prev_indentation

(* The off-side rule: of two lines with no line to the left of the first    *)
(* between them, the second is in the same block, in an inner one or in an  *)
(* outer one as it begins in the same column, to the right or to the left.  *)
OffsideRule ==
  \A a, b \in DOMAIN lines :
    /\ a < b
    /\ \A c \in a+1..b-1 : lines[c][1] >= lines[a][1]
    => /\ lines[a][1] = lines[b][1] <=> lines[a][2] = lines[b][2]
       /\ lines[a][1] < lines[b][1] <=> lines[a][2] < lines[b][2]

(* rc_lex() reads elements that are there: next_token is an "Index in line  *)
(* array", and what indents holds is compared with a line, not what lies    *)
(* before it.  The exceptions: a line of semicolons only, or of white space *)
(* only that "..." has put together, leaves line empty; and a line to the   *)
(* left of the first line of the text pops all of indents and goes on.      *)
ReadsInBounds ==
  /\ pc = "past_end" =>
       /\ \A j \in DOMAIN raw_line : raw_line[j] \in WHITESPACE \union {SEMI}
       /\ Len(raw_line) > 1 \/ raw_line = <<SEMI>>
  /\ pc = "underflow" => indents # << >> /\ indents[1] > Indentation
=============================================================================
