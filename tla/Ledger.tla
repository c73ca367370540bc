------------------------------- MODULE Ledger -------------------------------
(***************************************************************************)
(* The merge-queue ledger (ledger.go): the rows some render saw in the      *)
(* merge queue, kept in memory so that they stay in that table once they    *)
(* leave the queue or the board.  Every poll of every tab is a render, a    *)
(* goroutine: it takes now, the roster and each row's CI, records the       *)
(* queued rows, clones the entries and looks up the PRs of those whose      *)
(* session is gone with the lock released, then keeps what it found.        *)
(*                                                                         *)
(* A row's snapshot is abstracted to its PR, a PR's state to whether  *)
(* it is done (merged or closed); each render sees which others are queued. *)
(***************************************************************************)
EXTENDS Integers, FiniteSets

CONSTANTS
    Sessions,
    PRs,
    Renders,     \* concurrent renders
    TTL,         \* ledgerTTL
    Max,         \* ledgerMax
    MaxRender,   \* bound: the longest a render takes to record
    MaxClock,    \* bound: the last instant
    None

Entries == [pr : PRs, seen : 0..MaxClock, final : BOOLEAN]

ASSUME LedgerParameters ==
    /\ {TTL, Max, MaxRender, MaxClock} \subseteq Nat /\ MaxRender < TTL
    /\ IsFiniteSet(Sessions)
    /\ None \notin Entries

VARIABLES
    clock,
    board,     \* whether each session is on the board
    current,   \* the PR of each session's branch
    done,      \* the PRs merged or closed
    m,         \* the ledger: an entry per session, or None
    render,    \* each render in progress
    last       \* history: the latest instant at which a render saw each session queued

vars == <<clock, board, current, done, m, render, last>>
world == <<board, current, done>>

-----------------------------------------------------------------------------
\* A render's locals, each reset once it is not read again: the queued rows, as
\* pairs of a session and its PR, the sessions that have no row, and the pairs
\* of a session and its entry's PR whose final state is to look up and keep.
NoRender == [at |-> "idle", now |-> 0, queued |-> {}, gone |-> {}, todo |-> {}]

At(r, at) == render[r].at = at

Gone == {s \in Sessions : ~board[s]}

Queued(r) == {q[1] : q \in render[r].queued}

\* agentRoster, enrichCI and splitQueued: a row is queued if its PR was when its
\* lookup, which may have failed or be a minute old, saw it.
Begin(r) ==
    /\ At(r, "idle")
    /\ \E Q \in SUBSET (Sessions \ Gone) :
        render' = [render EXCEPT ![r] =
            [at |-> "record", now |-> clock, queued |-> {<<s, current[s]>> : s \in Q},
             gone |-> Gone, todo |-> {}]]
    /\ UNCHANGED <<clock, world, m, last>>

Known(led) == {s \in Sessions : led[s] # None}

\* Mutant: the limit is off by one.
MutCapped(led) ==
    {S \in SUBSET Known(led) :
        /\ IF Cardinality(Known(led)) > Max + 1 THEN Cardinality(S) = Max ELSE S = Known(led)
        /\ \A s \in S, t \in Known(led) \ S : led[t].seen =< led[s].seen}

\* Drop the least recently seen entries past Max.
Capped(led) ==
    {S \in SUBSET Known(led) :
        /\ IF Cardinality(Known(led)) > Max THEN Cardinality(S) = Max ELSE S = Known(led)
        /\ \A s \in S, t \in Known(led) \ S : led[t].seen =< led[s].seen}

Unexpired(led, now) == [s \in Sessions |->
    IF led[s] # None /\ now - led[s].seen >= TTL THEN None ELSE led[s]]

\* Mutant: a row that has an entry keeps it as it is.
MutRecorded(r) == [s \in Sessions |->
    IF s \in Queued(r) /\ m[s] = None
    THEN [pr |-> CHOOSE p \in PRs : <<s, p>> \in render[r].queued,
          seen |-> render[r].now, final |-> FALSE]
    ELSE m[s]]

Recorded(r) == [s \in Sessions |->
    IF s \in Queued(r)
    THEN [pr |-> CHOOSE p \in PRs : <<s, p>> \in render[r].queued,
          seen |-> render[r].now, final |-> FALSE]
    ELSE m[s]]

record(r) ==
    /\ At(r, "record")
    /\ LET led == Unexpired(Recorded(r), render[r].now)
       IN  \E S \in Capped(led) : m' = [s \in Sessions |-> IF s \in S THEN led[s] ELSE None]
    /\ render' = [render EXCEPT ![r].at = "clone", ![r].now = 0, ![r].queued = {}]
    /\ last' = [s \in Sessions |->
           IF s \in Queued(r) /\ last[s] < render[r].now THEN render[r].now ELSE last[s]]
    /\ UNCHANGED <<clock, world>>

\* carryOver works on a clone of the entries: it is to look up those whose
\* session is gone, and whose final state is not known.
Clone(r) ==
    /\ At(r, "clone")
    /\ LET todo == {<<s, m[s].pr>> : s \in {a \in render[r].gone : m[a] # None /\ ~m[a].final}}
       IN  render' = [render EXCEPT ![r] =
               [at |-> "keep", now |-> 0, queued |-> {}, gone |-> {}, todo |-> todo]]
    /\ UNCHANGED <<clock, world, m, last>>

\* Mutant: the entry may have been recorded for another PR meanwhile.
MutkeepFinal(r, s, p) ==
    /\ At(r, "keep") /\ <<s, p>> \in render[r].todo /\ p \in done
    /\ m' = IF m[s] # None THEN [m EXCEPT ![s].final = TRUE] ELSE m
    /\ render' = [render EXCEPT ![r].todo = @ \ {<<s, p>>}]
    /\ UNCHANGED <<clock, world, last>>

\* The lookup, made with the lock released since the clone, found p done; that
\* is final, so p is done still.
keepFinal(r, s, p) ==
    /\ At(r, "keep") /\ <<s, p>> \in render[r].todo /\ p \in done
    /\ m' = IF m[s] # None /\ m[s].pr = p
            THEN [m EXCEPT ![s].final = TRUE] ELSE m
    /\ render' = [render EXCEPT ![r].todo = @ \ {<<s, p>>}]
    /\ UNCHANGED <<clock, world, last>>

\* The page is out; the other lookups failed, or found their PR not done.
Finish(r) ==
    /\ At(r, "keep")
    /\ render' = [render EXCEPT ![r] = NoRender]
    /\ UNCHANGED <<clock, world, m, last>>

\* A render that saw s queued before this and records after it brings s back.
dismiss(s) ==
    /\ m[s] # None
    /\ m' = [m EXCEPT ![s] = None]
    /\ UNCHANGED <<clock, world, render, last>>

Render(r) ==
    \/ Begin(r) \/ record(r) \/ Clone(r) \/ Finish(r)
    \/ \E s \in Sessions, p \in PRs : keepFinal(r, s, p)

-----------------------------------------------------------------------------
(* Sessions come and go, PRs move, a branch gets another PR. *)

ComeOrGo(s) ==
    /\ board' = [board EXCEPT ![s] = ~@]
    /\ UNCHANGED <<clock, current, done, m, render, last>>

\* Once its PR is merged or closed, a session's branch may get another.
NewPR(s, p) ==
    /\ board[s] /\ current[s] \in done /\ p \notin done
    /\ current' = [current EXCEPT ![s] = p]
    /\ UNCHANGED <<clock, board, done, m, render, last>>

Land(p) ==
    /\ p \notin done
    /\ done' = done \cup {p}
    /\ UNCHANGED <<clock, board, current, m, render, last>>

Tick ==
    /\ clock < MaxClock
    /\ \A r \in Renders : At(r, "record") => clock - render[r].now < MaxRender
    /\ clock' = clock + 1
    /\ UNCHANGED <<world, m, render, last>>

Init ==
    /\ clock = 0
    /\ board \in [Sessions -> BOOLEAN]
    /\ current \in [Sessions -> PRs]
    /\ done = {}
    /\ m = [s \in Sessions |-> None]
    /\ render = [r \in Renders |-> NoRender]
    /\ last = [s \in Sessions |-> 0]

Next ==
    \/ \E r \in Renders : Render(r)
    \/ \E s \in Sessions : dismiss(s) \/ ComeOrGo(s) \/ (\E p \in PRs : NewPR(s, p))
    \/ \E p \in PRs : Land(p)
    \/ Tick

Spec == Init /\ [][Next]_vars

-----------------------------------------------------------------------------
\* Every variable holds a value of its kind, within the ledger's limit.
TypeOK ==
    /\ clock \in 0..MaxClock
    /\ board \in [Sessions -> BOOLEAN]
    /\ current \in [Sessions -> PRs]
    /\ done \subseteq PRs
    /\ m \in [Sessions -> Entries \cup {None}]
    /\ Cardinality(Known(m)) =< Max
    /\ last \in [Sessions -> 0..clock]
    /\ \A r \in Renders :
        /\ render[r].at \in {"idle", "record", "clone", "keep"}
        /\ render[r].now \in 0..clock
        /\ render[r].gone \subseteq Sessions
        /\ render[r].queued \cup render[r].todo \subseteq Sessions \X PRs

\* A final state is that of the entry's own PR, also when the session was seen
\* queued again with another PR while the first one was looked up
\* (ledger.go:189): no row is shown merged that is not.
FinalIsTrue == \A s \in Sessions : m[s] # None /\ m[s].final => m[s].pr \in done

\* Renders record at once and in any order, so a slow one may put an older
\* time on an entry.  Still, unless dismissed, a row leaves the ledger only when
\* no render saw it queued for the TTL, less the time a render takes, or for
\* Max rows recorded as recently (ledger.go:16).
KeptForTTL ==
    [][\A s \in Sessions : m[s] # None /\ m'[s] = None /\ ~dismiss(s) =>
         \/ clock - last'[s] >= TTL - MaxRender
         \/ Cardinality({t \in Sessions \ {s} : m'[t] # None
                           /\ last'[t] >= last'[s] - MaxRender}) >= Max]_m
=============================================================================
