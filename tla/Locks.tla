-------------------------------- MODULE Locks --------------------------------
(***************************************************************************)
(* What the in-flight locks promise (inflightSet, action.go:68), with no    *)
(* word of how a request keeps track of them: a key goes to one request at  *)
(* a time, is never handed over while it is held, and no request gives up   *)
(* another's.  Module Actions implements it.                                *)
(***************************************************************************)
CONSTANTS Requests, Keys

VARIABLE held   \* the keys each request holds

Free(k) == \A r \in Requests : k \notin held[r]

Take(r, k) ==
    /\ Free(k)
    /\ held' = [held EXCEPT ![r] = @ \cup {k}]

\* A request gives up one key, or all it still holds when it returns.
Release(r, ks) ==
    /\ ks \subseteq held[r]
    /\ held' = [held EXCEPT ![r] = @ \ ks]

Init == held = [r \in Requests |-> {}]

Next == \E r \in Requests :
            \/ \E k \in Keys : Take(r, k)
            \/ \E ks \in SUBSET held[r] : Release(r, ks)

Spec == Init /\ [][Next]_held
=============================================================================
