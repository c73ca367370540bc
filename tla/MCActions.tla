------------------------------ MODULE MCActions ------------------------------
(* Two requests, two sessions, and one worktree that the sessions spell       *)
(* differently: enough for any two actions to meet on a session, a worktree   *)
(* or a pane.                                                                 *)
EXTENDS Actions, TLC

CONSTANTS s1, s2, real, link

MCCwd == (s1 :> real) @@ (s2 :> link)
MCReal == [p \in {real, link} |-> real]

Symmetry == Permutations(Requests) \cup Permutations(Panes)

\* The sessions stay where they are, each in a pane of its own or both in one:
\* what a request locks, and whether it returns, depends on no more.
CalmInit ==
    /\ pane \in [Sessions -> Panes]
    /\ status \in [Sessions -> {"waiting", "working"}]
    /\ later = {<<s1, s2>>}
    /\ front = [p \in Panes |-> None]
    /\ dialog = {}
    /\ exists = {real}
    /\ inflight = {}
    /\ req = [r \in Requests |-> NoRequest]
CalmNext ==
    \/ \E r \in Requests : Arrive(r) \/ Serve(r)
    \/ \E s \in Sessions, to \in {"waiting", "working"} : Hear(s, to)
    \/ CwdKinds \cap Kinds # {} /\ \E d \in exists : RemoveWorktree(d)
CalmSpec == CalmInit /\ [][CalmNext]_vars
CalmFairSpec == CalmSpec /\ \A r \in Requests : WF_vars(Serve(r))
=============================================================================
