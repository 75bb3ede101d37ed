---------------------------- MODULE FutureWrapper ----------------------------
(***************************************************************************)
(* make_ready_future_wrapper and FUT_LE (INCLUDE/MACROS.h): call a plain   *)
(* function and return a future of what it did.  There is an overload for  *)
(* functions that return nothing and one for those that return a value;    *)
(* neither does what the other does.                                       *)
(***************************************************************************)
CONSTANT Caller     \* uses of FUT_LE

VARIABLES
    func,       \* "void" or "value": what the function of each use returns
    got         \* what the use has evaluated to; "pending" before that

vars == <<func, got>>

Init ==
    /\ func \in [Caller -> {"void", "value"}]
    /\ got = [c \in Caller |-> "pending"]

Evaluates(c, what) ==
    /\ got[c] = "pending"
    /\ \E w \in what : got' = [got EXCEPT ![c] = w]
    /\ UNCHANGED func

\* No return statement is reached after func(): what the caller reads as the
\* future is undefined.
VoidReturns(c) == func[c] = "void" /\ Evaluates(c, {"ready", "failed", "garbage"})

VoidThrows(c) == func[c] = "void" /\ Evaluates(c, {"failed"})

ValueReturns(c) == func[c] = "value" /\ Evaluates(c, {"ready"})

\* There is no TRY around the call of func(): its exception goes to the caller.
ValueThrows(c) == func[c] = "value" /\ Evaluates(c, {"exception"})

Done == (\A c \in Caller : got[c] # "pending") /\ UNCHANGED vars

Next ==
    \/ \E c \in Caller :
          VoidReturns(c) \/ VoidThrows(c) \/ ValueReturns(c) \/ ValueThrows(c)
    \/ Done

Spec == Init /\ [][Next]_vars

-----------------------------------------------------------------------------
(***************************************************************************)
(* Properties                                                              *)
(***************************************************************************)

\* FUT_LE is a macro for making a future of any function, as its comment says:
\* every use evaluates to a future, which is ready or has failed.
AlwaysAFuture == \A c \in Caller : got[c] \in {"pending", "ready", "failed"}
=============================================================================
