------------------------------ MODULE EventBus ------------------------------
(***************************************************************************)
(* What publish_event promises to its callers: events go out one at a      *)
(* time, in the order of the calls, each at most twice and only while its  *)
(* call lasts; the call ends by returning or by raising, neither of which  *)
(* says how many copies the broker has.                                    *)
(***************************************************************************)
EXTENDS Naturals

CONSTANTS Event, NoEvent

VARIABLES
    current,       \* the event whose call is under way, or NoEvent
    received,      \* [Event -> 0..2]: copies the broker has
    outcome        \* [Event -> "none", "returned" or "raised"]

vars == <<current, received, outcome>>

Init ==
    /\ current = NoEvent
    /\ received = [e \in Event |-> 0]
    /\ outcome = [e \in Event |-> "none"]

Call(e) ==
    /\ current = NoEvent /\ outcome[e] = "none"
    /\ current' = e
    /\ UNCHANGED <<received, outcome>>

\* A copy reaches the broker, the call goes on to its second attempt.
Copy(e) ==
    /\ current = e /\ received[e] = 0
    /\ received' = [received EXCEPT ![e] = 1]
    /\ UNCHANGED <<current, outcome>>

\* The call ends with its last attempt, which got a copy through or did not.
End(e) ==
    /\ current = e
    /\ current' = NoEvent
    /\ \E n \in 0..1 : received' = [received EXCEPT ![e] = @ + n]
    /\ \E result \in {"returned", "raised"} : outcome' = [outcome EXCEPT ![e] = result]

Next == \E e \in Event : Call(e) \/ Copy(e) \/ End(e)

Spec == Init /\ [][Next]_vars
=============================================================================
