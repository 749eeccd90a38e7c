----------------------------- MODULE MCLibrary ------------------------------
(***************************************************************************)
(* Three parts of the library that do not use each other: the buffers, the *)
(* classes, and UTF-8.  A behaviour is one of one of them; the others rest *)
(* in one of their initial states.                                         *)
(***************************************************************************)
EXTENDS Buffers, Registry, Text

VARIABLE part

libVars == <<bufVars, regVars, textVars, part>>

TheTexts  == {<<>>} \union {<<a>> : a \in Values} \union {<<a, b>> : a, b \in Values}
TheFields == <<"text", "f", "g">>

Resting ==
  /\ part # "buffers" => kind = "SArray"
  /\ part # "classes" => decl = [name |-> "Own", cdata |-> 0, fields |-> 0, getter |-> Nil,
                                 setter |-> Nil, accessor_params |-> 1, destructor |-> 0,
                                 num_params |-> 1, var_params |-> FALSE]

LibInit ==
  /\ part \in {"buffers", "classes", "text"}
  /\ BufInit /\ RegInit /\ TextInit
  /\ Resting

LibNext ==
  \/ part = "buffers" /\ BufNext /\ UNCHANGED <<regVars, textVars, part>>
  \/ part = "classes" /\ RegNext /\ UNCHANGED <<bufVars, textVars, part>>
  \/ part = "text" /\ TextNext /\ UNCHANGED <<bufVars, regVars, part>>

LibSpec == LibInit /\ [][LibNext]_libVars
=============================================================================
