-------------------------------- MODULE Text --------------------------------
(***************************************************************************)
(* UTF-8 (clib/utf8.c): characters are written to memory up to a limit,    *)
(* and read back up to a limit that may cut the text anywhere, and from    *)
(* any place of it.                                                        *)
(***************************************************************************)
EXTENDS Naturals, Sequences, FiniteSets

CONSTANTS
  Unichars,     \* the characters to write: the ends of the ranges
  Octets,       \* octets of text that others have written
  Memory,       \* octets there is room for
  MaxChars      \* bound: characters of the text

ASSUME TextAssumption ==
  /\ Unichars \subseteq Nat /\ Octets \subseteq 0..255
  /\ Memory \in Nat /\ MaxChars \in Nat

VARIABLES
  doing,        \* write; read: what was written; foreign: text of others
  octets,       \* what is in memory
  written,      \* the characters that utf8_write() has accepted
  starts,       \* where each of them begins
  pos,          \* *str
  limit,
  read,         \* the characters that utf8_read() has given
  status        \* of the last call

textVars == <<doing, octets, written, starts, pos, limit, read, status>>

TextInit ==
  /\ doing = "write" /\ octets = <<>> /\ written = <<>> /\ starts = <<>>
  /\ pos = 1 /\ limit = Memory /\ read = <<>> /\ status = "OK"

-----------------------------------------------------------------------------
utf8_valid(u) == u <= 1114111                    \* 0x10FFFF

(* Mutant: the two-octet range ends one early.                              *)
utf8_needsMore(u) == IF u <= 128 THEN 1 ELSE IF u <= 2047 THEN 2 ELSE IF u <= 65535 THEN 3 ELSE 4

utf8_needs(u) == IF u <= 127 THEN 1 ELSE IF u <= 2047 THEN 2 ELSE IF u <= 65535 THEN 3 ELSE 4

(* The octets that utf8_write() stores: the bits of u in groups of six.     *)
Encoding(u) ==
  LET w == (u \div 262144) % 8
      x == (u \div 4096) % 64
      y == (u \div 64) % 64
      z == u % 64
  IN  IF utf8_needs(u) = 1 THEN <<u % 256>>
      ELSE IF utf8_needs(u) = 2 THEN <<192 + (y % 32), 128 + z>>
      ELSE IF utf8_needs(u) = 3 THEN <<224 + (x % 16), 128 + y, 128 + z>>
      ELSE <<240 + w, 128 + x, 128 + y, 128 + z>>

utf8_write(u) ==
  /\ doing = "write" /\ Len(written) < MaxChars
  /\ IF ~utf8_valid(u) THEN status' = "INVALID" /\ UNCHANGED <<octets, written, starts>>
     ELSE IF Len(octets) + utf8_needs(u) > Memory
     THEN status' = "LIMITED" /\ UNCHANGED <<octets, written, starts>>
     ELSE /\ octets' = octets \o Encoding(u)
          /\ written' = Append(written, u)
          /\ starts' = Append(starts, Len(octets) + 1)
          /\ status' = "OK"
  /\ UNCHANGED <<doing, pos, limit, read>>

(* A caller reads from some place on up to some limit.                      *)
Rewind(from, to) ==
  /\ doing = "write" /\ octets # <<>>
  /\ from \in 1..Len(octets) /\ to \in 0..Len(octets)
  /\ doing' = "read" /\ pos' = from /\ limit' = to /\ status' = "OK"
  /\ UNCHANGED <<octets, written, starts, read>>

(* Or text that was not written by utf8_write().                            *)
Foreign(n, text) ==
  /\ doing = "write" /\ octets = <<>>
  /\ doing' = "foreign" /\ octets' = text /\ limit' = n /\ status' = "OK"
  /\ UNCHANGED <<written, starts, pos, read>>

utf8_in_middle(c) == c \div 64 = 2

(* The length of the sequence that an octet starts (utf8_is_ascii(),        *)
(* utf8_is_start2() ...), 0 if none.                                        *)
LengthOf(c) ==
  IF c \div 128 = 0 THEN 1 ELSE IF c \div 32 = 6 THEN 2 ELSE IF c \div 16 = 14 THEN 3
  ELSE IF c \div 8 = 30 THEN 4 ELSE 0

(* The character of n octets from place p on.                               *)
Decoding(p, n) ==
  LET low(i) == octets[p + i] % 64
  IN  IF n = 1 THEN octets[p]
      ELSE IF n = 2 THEN (octets[p] % 32) * 64 + low(1)
      ELSE IF n = 3 THEN (octets[p] % 16) * 4096 + low(1) * 64 + low(2)
      ELSE (octets[p] % 8) * 262144 + low(1) * 4096 + low(2) * 64 + low(3)

(* Mutant: only the second octet is looked at.                              *)
ContinuedOnce(p, n) == n > 1 => utf8_in_middle(octets[p + 1])

(* The n - 1 octets after place p go on with the sequence.                  *)
Continued(p, n) == \A i \in 1..n - 1 : utf8_in_middle(octets[p + i])

(* What utf8_read() returns.                                                *)
Verdict ==
  LET n == LengthOf(octets[pos])
  IN  IF pos > limit THEN "LIMITED"
      ELSE IF utf8_in_middle(octets[pos]) THEN "SEEK"
      ELSE IF n = 0 THEN "INVALID"
      ELSE IF pos + n - 1 > limit THEN "LIMITED"
      ELSE IF ~Continued(pos, n) THEN "INVALID"
      ELSE "OK"

utf8_read ==
  /\ doing \in {"read", "foreign"} /\ status = "OK"
  /\ status' = Verdict
  /\ IF Verdict = "OK"
     THEN LET n == LengthOf(octets[pos])
          IN  pos' = pos + n /\ read' = Append(read, Decoding(pos, n))
     ELSE UNCHANGED <<pos, read>>
  /\ UNCHANGED <<doing, octets, written, starts, limit>>

TextNext ==
  \/ \E u \in Unichars : utf8_write(u)
  \/ \E from \in 1..Memory, to \in 0..Memory : Rewind(from, to)
  \/ \E n \in 1..3 : \E text \in [1..n -> Octets] : Foreign(n, text)
  \/ utf8_read

TextSpec == TextInit /\ [][TextNext]_textVars

-----------------------------------------------------------------------------
(* The characters that begin at place p or later and end before the limit.  *)
Whole(p) ==
  {i \in DOMAIN written : starts[i] >= p /\ starts[i] + utf8_needs(written[i]) - 1 <= limit}

(* The octets before place p that do not go on with a character.            *)
Begun(p) == {i \in 1..p - 1 : ~utf8_in_middle(octets[i])}

(* What utf8_write() has written, utf8_read() reads back, character by      *)
(* character, from wherever a character begins; it stops with LIMITED       *)
(* exactly before the first that the limit cuts, and refuses to start       *)
(* inside of a character.                                                   *)
ReadsBack ==
  doing = "read" =>
    /\ status \in {"OK", "LIMITED", "SEEK"}
    /\ status = "SEEK" <=> /\ pos <= limit /\ status # "OK"
                          /\ \A i \in DOMAIN starts : starts[i] # pos
    /\ \E i \in Len(read)..Len(written) :
         /\ read = SubSeq(written, i - Len(read) + 1, i)
         /\ read # <<>> => pos = starts[i] + utf8_needs(written[i])
    /\ status = "LIMITED" => Whole(pos) = {}

(* Whatever octets a text has and wherever it is cut, utf8_read() consumes  *)
(* nothing beyond the limit, takes no octet inside of a character for one   *)
(* of its own, and makes no character out of an incomplete one.             *)
ReadsInside ==
  /\ read # <<>> => pos - 1 <= limit
  /\ doing = "foreign" => Len(read) = Cardinality(Begun(pos))
=============================================================================
