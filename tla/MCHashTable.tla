---------------------------- MODULE MCHashTable -----------------------------
(* An instance of HashTable with the table of 13 places of a new Map or     *)
(* Set, as it is.  Keys are numbers that hash to themselves, as ripe        *)
(* integers do.                                                             *)
EXTENDS HashTable

MCHash    == [k \in Keys |-> k % WORD]
FirstSize == <<13>>
=============================================================================
