-------------------------- MODULE FilterOwnership --------------------------
(***************************************************************************)
(* What _SubscriptionGuards promises to subscribe(), unsubscribe() and the *)
(* response observers of a connection: the body of a call runs while the   *)
(* call alone owns all the filters it named, which it gets in one step and *)
(* gives back in one step.  Nothing is said of objects, locks or queues.   *)
(***************************************************************************)
CONSTANTS Callers,    \* the tasks that may change a subscription
          Filters     \* topic filters

VARIABLE owned        \* owned[c]: the filters c owns

Init == owned = [c \in Callers |-> {}]

Enter(c, fs) ==
    /\ owned[c] = {}
    /\ \A d \in Callers : owned[d] \cap fs = {}
    /\ owned' = [owned EXCEPT ![c] = fs]

Leave(c) ==
    /\ owned[c] # {}
    /\ owned' = [owned EXCEPT ![c] = {}]

Next == \E c \in Callers :
            \/ \E fs \in (SUBSET Filters) \ {{}} : Enter(c, fs)
            \/ Leave(c)

Spec == Init /\ [][Next]_owned

(* Two calls that run at the same time name no filter in common.           *)
Exclusive == \A c, d \in Callers : c # d => owned[c] \cap owned[d] = {}
=============================================================================
