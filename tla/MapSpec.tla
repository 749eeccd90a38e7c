------------------------------ MODULE MapSpec -------------------------------
(***************************************************************************)
(* What a hash table promises: it is a finite map.  m maps the keys it     *)
(* holds to their values (a set maps its elements to NIL), rv is the key   *)
(* that the last operation asked for, if it did, and the answer.           *)
(***************************************************************************)
CONSTANTS Keys, Values, NIL

VARIABLES m, rv

NoAnswer == [key |-> NIL, found |-> FALSE, value |-> NIL]

Init ==
  /\ m = [k \in {} |-> NIL]
  /\ rv = NoAnswer

Set(key, value) ==
  /\ m' = [k \in DOMAIN m \union {key} |-> IF k = key THEN value ELSE m[k]]
  /\ rv' = NoAnswer

Remove(key) ==
  /\ m' = [k \in DOMAIN m \ {key} |-> m[k]]
  /\ rv' = [key |-> key, found |-> key \in DOMAIN m, value |-> NIL]

Query(key) ==
  /\ rv' = [key   |-> key,
            found |-> key \in DOMAIN m,
            value |-> IF key \in DOMAIN m THEN m[key] ELSE NIL]
  /\ UNCHANGED m

Clear ==
  /\ m' = [k \in {} |-> NIL]
  /\ rv' = NoAnswer

Next ==
  \/ \E key \in Keys :
       \/ \E value \in Values : Set(key, value)
       \/ Remove(key)
       \/ Query(key)
  \/ Clear

Spec == Init /\ [][Next]_<<m, rv>>
=============================================================================
