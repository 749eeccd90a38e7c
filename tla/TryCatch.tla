------------------------------ MODULE TryCatch ------------------------------
(***************************************************************************)
(* What try, catch, finally, raise and return mean to a ripe programmer,   *)
(* with no handler stack, no flag and no jump buffer: the control context  *)
(* alone decides where an exception lands, and a finally block remembers   *)
(* the exception it has interrupted.  ExcStack is the implementation.      *)
(***************************************************************************)
EXTENDS TryRegions

CONSTANTS MaxDepth

VARIABLES
  ctl,        \* the regions control is in, outermost first
  inflight,   \* the exception that is looking for a handler, or NoKlass
  exited      \* an uncaught exception has ended the process

vars == <<ctl, inflight, exited>>

Running == inflight = NoKlass /\ ~exited

Init == ctl = << >> /\ inflight = NoKlass /\ exited = FALSE

Call(anon) ==
  /\ Running /\ Len(ctl) < MaxDepth
  /\ ctl' = Append(ctl, FuncRegion(Len(ctl) + 1, anon))
  /\ UNCHANGED <<inflight, exited>>

Try(h, k) ==
  /\ Running /\ ctl # << >> /\ Len(ctl) < MaxDepth
  /\ ctl' = Append(ctl, TryRegion(Top(ctl), h, k))
  /\ UNCHANGED <<inflight, exited>>

(* A try block that completes is followed by its finally block, if any.     *)
EndTry ==
  /\ Running /\ ctl # << >> /\ Top(ctl).kind = "try"
  /\ ctl' = IF Top(ctl).h = FINALLY
            THEN Append(PopTop(ctl), HandlerRegion(Top(ctl), NoKlass))
            ELSE PopTop(ctl)
  /\ UNCHANGED <<inflight, exited>>

EndCatch ==
  /\ Running /\ ctl # << >> /\ Top(ctl).kind = "catch"
  /\ ctl' = PopTop(ctl)
  /\ UNCHANGED <<inflight, exited>>

(* A finally block passes on the exception that it has interrupted.         *)
EndFinally ==
  /\ Running /\ ctl # << >> /\ Top(ctl).kind = "finally"
  /\ IF Top(ctl).pending = NoKlass
     THEN ctl' = PopTop(ctl) /\ UNCHANGED inflight
     ELSE inflight' = Top(ctl).pending /\ UNCHANGED ctl
  /\ UNCHANGED exited

Return ==
  /\ Running /\ ctl # << >>
  /\ ctl' = Upto(ctl, Top(ctl).frame - 1)
  /\ UNCHANGED <<inflight, exited>>

Raise(k) ==
  /\ Running /\ ctl # << >>
  /\ inflight' = k
  /\ UNCHANGED <<ctl, exited>>

(* The innermost region that wants the exception gets it.                   *)
Land ==
  /\ inflight # NoKlass /\ ~exited
  /\ \E p \in 1..Len(ctl) :
       /\ Accepts(ctl[p], inflight)
       /\ \A q \in (p+1)..Len(ctl) : ~Accepts(ctl[q], inflight)
       /\ ctl' = Append(Upto(ctl, p - 1),
                        HandlerRegion(ctl[p], IF ctl[p].h = FINALLY
                                              THEN inflight ELSE NoKlass))
  /\ inflight' = NoKlass
  /\ UNCHANGED exited

Uncaught ==
  /\ inflight # NoKlass /\ ~exited
  /\ \A p \in 1..Len(ctl) : ~Accepts(ctl[p], inflight)
  /\ exited' = TRUE
  /\ inflight' = NoKlass
  /\ UNCHANGED ctl

Next ==
  \/ \E anon \in BOOLEAN : Call(anon)
  \/ Try(CATCH_ALL, NoKlass)
  \/ Try(FINALLY, NoKlass)
  \/ \E k \in Klasses : Try(CATCH, k)
  \/ EndTry
  \/ EndCatch
  \/ EndFinally
  \/ Return
  \/ \E k \in Klasses : Raise(k)
  \/ Land
  \/ Uncaught

Spec == Init /\ [][Next]_vars
=============================================================================
