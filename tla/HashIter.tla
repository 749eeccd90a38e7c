------------------------------ MODULE HashIter ------------------------------
(***************************************************************************)
(* Iteration over a Set or a Map (SetIterator in modules/Set/Set.rip,      *)
(* MapIterator in modules/Map/Map.rip) while the program goes on adding to *)
(* the table and removing from it, as the body of a for loop may.  The     *)
(* iterator is a pointer to the table and a place in it.                   *)
(***************************************************************************)
EXTENDS HashTable

VARIABLES
  cur,       \* the iterator's @cur; NoIter before the loop and after eof
  seen,      \* how often iter() has answered each key in this loop
  stayed,    \* the keys that have been in the table since get_iter()
  resized,   \* the table has got another size since get_iter()
  looped     \* the last answer was eof

iterVars == <<cur, seen, stayed, resized, looped>>

NoIter == -1

IterInit ==
  /\ Init
  /\ cur = NoIter
  /\ seen = [k \in Keys |-> 0]
  /\ stayed = {} /\ resized = FALSE /\ looped = FALSE

(* Set.get_iter(), Map.get_iter().                                          *)
get_iter ==
  /\ pc = "idle" /\ cur = NoIter
  /\ cur' = 0
  /\ seen' = [k \in Keys |-> 0]
  /\ stayed' = Held(ht) /\ resized' = FALSE /\ looped' = FALSE
  /\ UNCHANGED vars

(* Mutant: iter() steps over the bucket after the one it answers.           *)
iterSkips ==
  /\ pc = "idle" /\ cur # NoIter
  /\ LET ahead == {p \in Full(ht) : p >= cur}
     IN  IF ahead # {}
         THEN /\ cur' = Least(ahead) + 2
              /\ seen' = [seen EXCEPT ![ht.keys[Least(ahead)]] = @ + 1]
              /\ UNCHANGED looped
         ELSE /\ cur' = NoIter
              /\ looped' = TRUE
              /\ UNCHANGED seen
  /\ UNCHANGED <<vars, stayed, resized>>

(* SetIterator.iter(), MapIterator.iter(): the next full bucket, or eof.    *)
iter ==
  /\ pc = "idle" /\ cur # NoIter
  /\ LET ahead == {p \in Full(ht) : p >= cur}
     IN  IF ahead # {}
         THEN /\ cur' = Least(ahead) + 1
              /\ seen' = [seen EXCEPT ![ht.keys[Least(ahead)]] = @ + 1]
              /\ UNCHANGED looped
         ELSE /\ cur' = NoIter
              /\ looped' = TRUE
              /\ UNCHANGED seen
  /\ UNCHANGED <<vars, stayed, resized>>

(* An operation on the table, in the body of the loop or outside of it.     *)
Operate ==
  /\ Next
  /\ stayed' = stayed \intersect Held(ht')
  /\ resized' = (resized \/ ht'.alloc_size # ht.alloc_size)
  /\ looped' = FALSE
  /\ UNCHANGED <<cur, seen>>

IterNext == get_iter \/ iter \/ Operate

IterSpec == IterInit /\ [][IterNext]_<<vars, iterVars>>

-----------------------------------------------------------------------------
(* A loop that ends, in a table that was not resized meanwhile, has met     *)
(* every key that was there all along exactly once, whatever was added to   *)
(* the table, removed from it and put back during the loop.                 *)
LoopComplete ==
  looped /\ ~resized => \A k \in stayed : seen[k] = 1
=============================================================================
