----------------------------- MODULE MCExcStack -----------------------------
(***************************************************************************)
(* Two classes, Child a child of Base: a catch of Child misses a Base, a   *)
(* catch of Base takes both.                                               *)
(***************************************************************************)
EXTENDS ExcStack

MCKlasses == {"Base", "Child"}
MCParent  == [k \in MCKlasses |-> IF k = "Child" THEN "Base" ELSE "none"]
=============================================================================
