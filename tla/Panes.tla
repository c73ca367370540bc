-------------------------------- MODULE Panes --------------------------------
(***************************************************************************)
(* Which rows of the roster dropDeadPanes (peek.go) hides because their     *)
(* tmux pane is gone, given how tmux lists the panes and how each row       *)
(* relates to the pane it was last heard from.  Names and paths are kept as *)
(* whether they agree.                                                      *)
(***************************************************************************)
EXTENDS FiniteSets

CONSTANTS
    Panes,
    NoPane

ASSUME PaneNames == NoPane \notin Panes

\* What a listed pane runs; launcher is claude or nono.
Listings == [Panes -> {"unlisted", "launcher", "shell", "other"}]

\* A row's view: its pane, whether the session name it recorded is blank, the
\* pane's or another, and whether the pane is in the row's launch directory.
Views == [pane : Panes \cup {NoPane}, label : {"blank", "same", "other"}, dir : BOOLEAN]

Runs(listing, v) == IF v.pane = NoPane THEN "unlisted" ELSE listing[v.pane]
Listed(listing, v) == Runs(listing, v) # "unlisted"

ByLabel(listing, v) == Listed(listing, v) /\ v.label = "same"
Fallback(listing, v) == Runs(listing, v) = "launcher" /\ v.dir

\* view is a function of the rows' ids.
Claimed(listing, view, p) == \E s \in DOMAIN view : view[s].pane = p /\ ByLabel(listing, view[s])

Candidates(listing, view, p) ==
    {s \in DOMAIN view : view[s].pane = p /\ Fallback(listing, view[s]) /\ ~ByLabel(listing, view[s])}

\* Mutant: a pane whose session was renamed matches no row.
MutMatched(listing, view, s) == ByLabel(listing, view[s])

\* A row is its pane's by the session name, or, if no row is, by being the only
\* one that was launched where a launcher runs in the pane.
Matched(listing, view, s) ==
    \/ ByLabel(listing, view[s])
    \/ /\ ~Claimed(listing, view, view[s].pane)
       /\ Candidates(listing, view, view[s].pane) = {s}

Alive(listing, view, s) ==
    Listed(listing, view[s]) /\ (view[s].label = "blank" \/ Matched(listing, view, s))

\* claude left its pane at a shell.
Exited(listing, v) == Runs(listing, v) = "shell" /\ v.dir

\* Mutant: a pane that is listed is a pane that runs its row.
MutDead(listing, view) == {s \in DOMAIN view : view[s].pane # NoPane /\ Exited(listing, view[s])}

\* Nothing is hidden unless the listing is known to be that of the rows.
Dead(listing, view) ==
    IF \E s \in DOMAIN view : Alive(listing, view, s)
    THEN {s \in DOMAIN view : view[s].pane # NoPane
              /\ (~Alive(listing, view, s) \/ Exited(listing, view[s]))}
    ELSE {}
=============================================================================
