----------------------------- MODULE MCHashIter -----------------------------
(* Instances of HashIter.  The sizes are the first odd primes in place of   *)
(* 13, 31, 61: a table of 3 grows at its second key and one of 5 at its     *)
(* third.  Keys are numbers that hash to themselves, as ripe integers do.   *)
EXTENDS HashIter

MCSizes == <<3, 5, 11>>
MCHash  == [k \in Keys |-> k % WORD]
=============================================================================
