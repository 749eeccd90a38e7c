---------------------------- MODULE MCStructure -----------------------------
(* Instances of Structure.  Classes are interchangeable.                    *)
EXTENDS Structure, TLC

Names == Permutations(Classes)
=============================================================================
