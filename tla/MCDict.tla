------------------------------- MODULE MCDict -------------------------------
(* Instances of Dict.  Keys are numbers that hash to themselves.            *)
EXTENDS Dict

SmallSizes == <<3, 5, 11>>     \* in place of 13, 31, 61
FirstSizes == <<13, 31>>       \* the first sizes of map_prime(), as they are
RealSizes  == <<13, 31, 61, 127, 251, 509, 1021, 2039, 4093, 8191, 16381>>
MCHash     == [k \in Keys |-> k % WORD]

(* The hypotheses of the theorems about Dict hold here, and Doubling holds  *)
(* of the sizes of map_prime() up to 16381.                                 *)
ASSUME Hypotheses == NoWrap /\ Doubling /\ Doubles(RealSizes)
=============================================================================
