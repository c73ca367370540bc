---------------------------- MODULE MCRowRestart ----------------------------
(* Two systems with no state in common, checked in one run: one session with  *)
(* one subagent and one background shell, its fold fed any sequence of hook   *)
(* events; and one restart after another of one pane, where each wait has     *)
(* room for a probe at its start, some on the way and one at its end.  A      *)
(* behaviour is of the one or of the other, which it moves first.             *)
EXTENDS Roster, Restart

PaneAtRest ==
    /\ at = "idle" /\ left = 0 /\ report = "none"
    /\ front = "claude" /\ dir
    /\ typed = {} /\ moved = {} /\ ~held

RowOrRestartInit == RowInit /\ Init

RowOrRestart ==
    \/ PaneAtRest /\ RowNext /\ UNCHANGED vars
    \/ ~seen /\ Next /\ UNCHANGED rowVars

RowOrRestartSpec ==
    /\ RowOrRestartInit /\ [][RowOrRestart]_<<rowVars, vars>>
    /\ WF_rowVars(Tick) /\ WF_vars(Step)
=============================================================================
