-------------------------------- MODULE Board --------------------------------
(***************************************************************************)
(* One render of the dashboard (buildDashboardData, server.go): the roster, *)
(* one row per session with the status its events give it, is taken through *)
(* the steps below into the three places a page shows rows in: the roster,  *)
(* the merge queue, and the ledger's rows below it.  The steps share one    *)
(* array: splitQueued and carryOver partition it in place, and a later step *)
(* must still reach every row of it.                                        *)
(*                                                                         *)
(* Renders share the ledger alone, so whatever others recorded, dismissed   *)
(* or let expire meanwhile is any set of entries at carryOver.  What gh     *)
(* answers is any value, "none" when a lookup fails, and what tmux lists is *)
(* any listing.  The chips, counts and labels that are displayed only are   *)
(* left out.                                                                *)
(***************************************************************************)
EXTENDS Integers, SequencesExt, Panes, Verdict, Feed

CONSTANTS
    Sessions,
    PRs,       \* the keys, repository and number, of the PRs rows are blocked on
    ValidPRs   \* those whose repository is valid

ASSUME RowsEnd == IsFiniteSet(Sessions) /\ ValidPRs \subseteq PRs

VARIABLES
    at,        \* the step that is next
    agents,    \* the array of rows
    listing,   \* what tmux listed, as paneCache has it
    view,      \* how each row relates to its pane in that listing
    running,   \* history: the session whose claude runs in each pane then
    n,         \* the length of the roster slice, the first part of agents
    queued,    \* the length of the queued slice, the last part
    carried,   \* the rows carryOver put in the ledger's part, as they were then
    blocks,    \* the session blocks the render read
    waits,     \* history: the rows blocked on a PR that gh did not say is merged or closed
    read       \* history: the status each row of agents was read with

tmux == <<listing, view, running>>
vars == <<at, agents, tmux, n, queued, carried, blocks, waits, read>>

-----------------------------------------------------------------------------
(* Rows. *)

\* needs approval stands for needs input too, idle and working for every
\* status that neither alerts nor changes.
ReadStatuses == {"needs approval", "needs you", "waiting for you", "shell stuck?",
                 "waiting on agents", "working", "idle"}

Alerting == {"needs approval", "needs you", "waiting for you", "shell stuck?"}

\* What a row keeps of the verdict on its PR, none standing for no verdict: what
\* later steps ask for first.
Shown(r) ==
    IF r.done # "" THEN "done" ELSE IF r.queue # "" THEN "queued"
    ELSE IF r.state = "" THEN "none" ELSE r.state

Verdicts == {"none", "pending", "green", "failing", "soft-failing", "ejected", "queued", "done"}

Answers == QueueAnswers \cup {Failed}

\* gh's answers lead to these verdicts, each of them to be had.
ASSUME GhVerdicts ==
    Verdicts = {Shown(lookupCI(pr, answer)) : pr \in PRViews \cup {Failed}, answer \in Answers}

Rows == [id : Sessions, status : ReadStatuses \cup {"waiting", "blocked"}, ci : Verdicts]

Ids(rows) == {rows[i].id : i \in DOMAIN rows}
ciOf(rows, s) == (CHOOSE r \in Range(rows) : r.id = s).ci

\* The members of a set of indexes, in their order.
Ascending(K) == CHOOSE ids \in SetToSeqs(K) : \A j, k \in DOMAIN ids : j < k => ids[j] < ids[k]

\* The rows that pass, in their order.
Pick(rows, K) == LET ids == Ascending(K) IN [k \in DOMAIN ids |-> rows[ids[k]]]
Keep(rows, Passes(_)) == Pick(rows, {i \in DOMAIN rows : Passes(rows[i])})

\* Each row of the array, rewritten by Op.
Each(Op(_)) == [i \in DOMAIN agents |-> Op(agents[i])]

\* Mutant: a plain notification still asks for its user.
MutRelaxed(row, status) == IF row.status = "waiting for you" THEN [row EXCEPT !.status = status] ELSE row

Relaxed(row, status) ==
    IF row.status \in {"needs you", "waiting for you"} THEN [row EXCEPT !.status = status] ELSE row

relaxBlocked(row) == Relaxed(row, "blocked")

setAndForget(row) == row.status \in {"waiting for you", "waiting", "idle", "blocked"}

-----------------------------------------------------------------------------
(* The steps. *)

\* The roster, its rows in some order.
agentRoster ==
    /\ at = "agentRoster" /\ at' = "panes"
    /\ \E S \in SUBSET Sessions : \E ids \in SetToSeqs(S) : \E f \in [S -> ReadStatuses] :
        agents' = [i \in DOMAIN ids |-> [id |-> ids[i], status |-> f[ids[i]], ci |-> "none"]]
    /\ UNCHANGED <<tmux, n, queued, carried, blocks, waits, read>>

\* paneCache lists the panes, or has for up to paneTTL.  A session that runs in
\* a pane keeps the pane in the directory it was launched in.
panes ==
    /\ at = "panes" /\ at' = "dropDeadPanes"
    /\ listing' \in Listings
    /\ view' \in [Ids(agents) -> {v \in Views : v.pane = NoPane => v.label = "blank" /\ ~v.dir}]
    /\ running' \in [Panes -> Ids(agents) \cup {NoPane}]
    /\ \A p \in Panes : running'[p] # NoPane =>
           Fallback(listing', view'[running'[p]]) /\ view'[running'[p]].pane = p
    /\ UNCHANGED <<agents, n, queued, carried, blocks, waits, read>>

\* Rows whose pane is gone are hidden; then the block tables are read.
dropDeadPanes ==
    /\ at = "dropDeadPanes" /\ at' = "enrichCI"
    /\ agents' = Keep(agents, LAMBDA row : row.id \notin Dead(listing, view))
    /\ blocks' \in SUBSET {b \in Sessions \X Sessions : b[1] # b[2]}
    /\ read' = [s \in Ids(agents') |-> (CHOOSE r \in Range(agents) : r.id = s).status]
    /\ listing' = <<>> /\ view' = <<>> /\ running' = <<>>
    /\ UNCHANGED <<n, queued, carried, waits>>

enrichCI ==
    /\ at = "enrichCI" /\ at' = "suppressWatchedCI"
    /\ \E f \in [Ids(agents) -> Verdicts] :
        agents' = Each(LAMBDA row : [row EXCEPT !.ci = f[row.id]])
    /\ UNCHANGED <<tmux, n, queued, carried, blocks, waits, read>>

\* A verdict is pending for those whose user has just started to watch CI.
suppressWatchedCI ==
    /\ at = "suppressWatchedCI" /\ at' = "applyBlocks"
    /\ \E watched \in SUBSET {row.id : row \in {r \in Range(agents) : r.ci \in {"failing", "soft-failing", "green"}}} :
        agents' = Each(LAMBDA row : IF row.id \in watched THEN [row EXCEPT !.ci = "pending"] ELSE row)
    /\ UNCHANGED <<tmux, n, queued, carried, blocks, waits, read>>

\* A block of two rows, the blocker's PR not known to be done.
Applies(b) == {b[1], b[2]} \subseteq Ids(agents) /\ ciOf(agents, b[2]) # "done"

\* Mutant: a blocker that is off the board, or whose PR is done, still holds.
MutapplyBlocks ==
    /\ at = "applyBlocks" /\ at' = "applyPRBlocks"
    /\ agents' = Each(LAMBDA row : IF \E b \in blocks : b[1] = row.id THEN relaxBlocked(row) ELSE row)
    /\ UNCHANGED <<tmux, n, queued, carried, blocks, waits, read>>

applyBlocks ==
    /\ at = "applyBlocks" /\ at' = "applyPRBlocks"
    /\ agents' = Each(LAMBDA row :
           IF \E b \in blocks : b[1] = row.id /\ Applies(b) THEN relaxBlocked(row) ELSE row)
    /\ UNCHANGED <<tmux, n, queued, carried, blocks, waits, read>>

\* What gh says of a PR; any state but the first three is one it may yet invent.
PRStates == {"OPEN", "MERGED", "CLOSED", "unknown"}

ASSUME NoState == Failed \notin PRStates

\* Mutant: a PR that cannot be looked up is taken to be gone.
MutlookupPRFinal(answer) ==
    IF answer = Failed THEN ciResult("", "closed", 0, FALSE)
    ELSE parsePRView([state |-> answer, mergeState |-> "CLEAN", rollup |-> {}])

\* gh pr view without the rollup; the queue's answer leaves done as it is.
lookupPRFinal(answer) ==
    IF answer = Failed THEN Blank
    ELSE parsePRView([state |-> answer, mergeState |-> "CLEAN", rollup |-> {}])

\* A PR block holds unless its repository is not valid or its PR is known to be
\* merged or closed.
Lasts(b, answers) == b[2] \in ValidPRs /\ lookupPRFinal(answers[b[2]]).done = ""

\* The rows with a block on a PR that gh did not say is merged or closed.
Waiting(table, answers) ==
    {s \in Ids(agents) : \E k \in DOMAIN answers :
        <<s, k>> \in table /\ answers[k] \notin {"MERGED", "CLOSED"}}

\* The PRs that a row of the board is blocked on are looked up, each key once,
\* and none whose repository is not valid (prFinalArgs).  The table is drawn here,
\* the first place that looks at it, without the blocks of rows off the board,
\* which are passed over.
applyPRBlocks ==
    /\ at = "applyPRBlocks" /\ at' = "splitQueued"
    /\ \E table \in SUBSET (Ids(agents) \X PRs) :
       \E answers \in [{b[2] : b \in table} \cap ValidPRs -> PRStates \cup {Failed}] :
        /\ agents' = Each(LAMBDA row :
               IF \E b \in table : b[1] = row.id /\ Lasts(b, answers) THEN relaxBlocked(row) ELSE row)
        /\ waits' = Waiting(table, answers)
    /\ UNCHANGED <<tmux, n, queued, carried, blocks, read>>

InQueue(row) == row.ci = "queued"

\* Mutant: the roster's slice is not cut short.
MutsplitQueued ==
    /\ at = "splitQueued" /\ at' = "carryOver"
    /\ LET rest == Keep(agents, LAMBDA row : ~InQueue(row))
       IN  /\ \E q \in SetToSeqs({row \in Range(agents) : InQueue(row)}) : agents' = rest \o q
           /\ n' = Len(agents)
           /\ queued' = Len(agents) - Len(rest)
    /\ UNCHANGED <<tmux, carried, blocks, waits, read>>

\* The queued rows, in the order of their ETAs, behind the others.
splitQueued ==
    /\ at = "splitQueued" /\ at' = "carryOver"
    /\ LET rest == Keep(agents, LAMBDA row : ~InQueue(row))
       IN  /\ \E q \in SetToSeqs({row \in Range(agents) : InQueue(row)}) : agents' = rest \o q
           /\ n' = Len(rest)
           /\ queued' = Len(agents) - Len(rest)
    /\ UNCHANGED <<tmux, carried, blocks, waits, read>>

Roster == SubSeq(agents, 1, n)
Queue == SubSeq(agents, Len(agents) - queued + 1, Len(agents))

Moves(row, entries) == row.id \in entries /\ row.ci = "done" /\ setAndForget(row)

\* Mutant: the rows that move are not copied behind the ones that stay.
MutcarryOver ==
    /\ at = "carryOver" /\ at' = "demotePendingCI"
    /\ \E entries \in SUBSET Ids(Roster) :
        LET stay == Keep(Roster, LAMBDA row : ~Moves(row, entries))
        IN  /\ agents' = stay \o SubSeq(agents, Len(stay) + 1, Len(agents))
            /\ n' = Len(stay)
            /\ carried' = {row \in Range(Roster) : Moves(row, entries)}
    /\ UNCHANGED <<tmux, queued, blocks, waits, read>>

\* carryOver, for the rows on the roster: those with an entry in the ledger
\* that are done and want nothing move to the ledger's part, as copies, and
\* behind the rest of the slice.
carryOver ==
    /\ at = "carryOver" /\ at' = "demotePendingCI"
    /\ \E entries \in SUBSET Ids(Roster) :
        LET stay == Keep(Roster, LAMBDA row : ~Moves(row, entries))
            move == Keep(Roster, LAMBDA row : Moves(row, entries))
        IN  /\ agents' = stay \o move \o Queue
            /\ n' = Len(stay)
            /\ carried' = Range(move)
    /\ UNCHANGED <<tmux, queued, blocks, waits, read>>

\* A queued row never alerts.
Quieted(row) ==
    IF row.status \notin Alerting THEN row
    ELSE [row EXCEPT !.status = IF row.status = "shell stuck?" THEN "waiting on agents" ELSE "waiting"]

\* Mutant: only the roster's part is demoted.
MutdemotePendingCI ==
    /\ at = "demotePendingCI" /\ at' = "page"
    /\ agents' = Each(LAMBDA row :
           IF row.ci \in {"pending", "soft-failing", "done"} THEN Relaxed(row, "waiting") ELSE row)
    /\ UNCHANGED <<tmux, n, queued, carried, blocks, waits, read>>

demotePendingCI ==
    /\ at = "demotePendingCI" /\ at' = "page"
    /\ agents' = Each(LAMBDA row :
           IF InQueue(row) THEN Quieted(row)
           ELSE IF row.ci \in {"pending", "soft-failing", "done"} THEN Relaxed(row, "waiting") ELSE row)
    /\ UNCHANGED <<tmux, n, queued, carried, blocks, waits, read>>

\* The page is out, and the next poll starts over.
Poll ==
    /\ at = "page" /\ at' = "agentRoster"
    /\ agents' = <<>> /\ n' = 0 /\ queued' = 0 /\ carried' = {}
    /\ blocks' = {} /\ waits' = {} /\ read' = <<>>
    /\ UNCHANGED tmux

Init ==
    /\ at = "agentRoster"
    /\ agents = <<>> /\ n = 0 /\ queued = 0 /\ carried = {}
    /\ blocks = {} /\ waits = {} /\ read = <<>>
    /\ listing = <<>> /\ view = <<>> /\ running = <<>>

Next == \/ agentRoster \/ panes \/ dropDeadPanes \/ enrichCI \/ suppressWatchedCI
        \/ applyBlocks \/ applyPRBlocks \/ splitQueued \/ carryOver
        \/ demotePendingCI \/ Poll

Spec == Init /\ [][Next]_vars

-----------------------------------------------------------------------------
\* Every variable holds a value of its kind, and the two slices do not overlap.
TypeOK ==
    /\ at \in {"agentRoster", "panes", "dropDeadPanes", "enrichCI", "suppressWatchedCI", "applyBlocks",
               "applyPRBlocks", "splitQueued", "carryOver", "demotePendingCI", "page"}
    /\ agents \in Seq(Rows)
    /\ n \in Nat /\ queued \in Nat /\ n + queued =< Len(agents)
    /\ carried \subseteq Rows
    /\ blocks \subseteq Sessions \X Sessions
    /\ waits \subseteq Sessions

\* The row of a session that runs in its pane is hidden only if another row
\* was last heard from that pane (peek.go:165: "hiding a live agent is the worse
\* mistake"), though its session may have been renamed since, or was not known.
LiveRowsStay ==
    [][\A p \in Panes : at = "dropDeadPanes" /\ running[p] # NoPane =>
         \/ running[p] \in Ids(agents')
         \/ \E s \in DOMAIN view \ {running[p]} : view[s].pane = p]_vars

\* Once some row is known by its pane's session name, the listing is the rows',
\* and no row stays on whose pane is not listed (peek.go:161).
GoneRowsLeave ==
    [][\A s, t \in DOMAIN view :
         at = "dropDeadPanes" /\ ByLabel(listing, view[s])
             /\ view[t].pane # NoPane /\ ~Listed(listing, view[t])
         => t \notin Ids(agents')]_vars

OnPage == at = "page"

\* What the render is about to be told of a PR, whatever gh may answer: green is
\* earned by every check of the head commit, pending hides no failure, and a
\* merged or closed PR says nothing else, though the queue is asked later than
\* the PR (server.go:796).  A constant: one state stands for all.
VerdictIsEarned ==
    at = "agentRoster" => \A pr \in PRViews, answer \in Answers : Earned(lookupCI(pr, answer), pr)

\* A PR that was thrown out of the queue says so, its head's checks green or
\* not, until one of them starts again, and no other PR does: a start in the
\* second of the removal is one since it, and a removal whose time cannot be
\* told stays shown (server.go:726).  A constant too.
EjectionShows ==
    at = "agentRoster" => \A pr \in PRViews, answer \in Answers :
        lookupCI(pr, answer).state = "ejected" <=> ThrownOut(pr, answer)

\* Recent events has each tool call once, at its start (store.go:1220), and shows it
\* running until its result is in, also when hooks are late, lost or retried, or
\* half of a call is past the end of the page; a call whose result was lost is
\* shown running as long as its start is.  A constant too.
FeedIsFaithful == at = "agentRoster" => \A log \in Logs : Faithful(log)

\* A call that completes does not move, and neither does any other row whose
\* event is still on the page (store.go:1219: "anchored at each call's Pre (start)
\* event so a completing call does not jump to the top of the feed").  A call that
\* is retried moves to its new start; one whose start leaves the page while its
\* result stays moves up, past the events between the two.
FeedStaysPut ==
    at = "agentRoster" => \A log \in {l \in Logs : Len(l) < LogLength}, e \in LogEvents : StayPut(log, e)

\* The sessions on a page are told apart by their colours as long as there are
\* enough, whatever their hashes, and no newcomer, on the board or in the log,
\* recolours an agent (server.go:233: "incumbents keep their color").
ColorsTellApart ==
    at = "agentRoster" => \A agents_ \in Arrivals, logged \in Logged, hash \in Hashes :
        Apart(agents_, logged, hash) /\ Incumbent(agents_, logged, hash)

\* A page shows every row it read and did not hide once: on the roster, in the
\* queue, or carried to the ledger.  The whole array, which labels, branches
\* and colours are read from, keeps every row too (ledger.go:103: "the caller's
\* slice keeps every row"), although each part was made in place.
EveryRowOnce ==
    OnPage => LET shown == <<Ids(Roster), Ids(Queue), {row.id : row \in carried}>>
              IN  /\ \A s \in DOMAIN read : \E i \in 1..3 : \A j \in 1..3 : s \in shown[j] <=> i = j
                  /\ UNION Range(shown) = DOMAIN read
                  /\ Ids(agents) = DOMAIN read /\ Len(agents) = Cardinality(DOMAIN read)

\* What a row on the board waits for instead of its user: its own PR's checks, a
\* PR that gh did not say is merged or closed, or another row of the board whose
\* PR is not.
Excused(s) ==
    \/ ciOf(agents, s) \in {"pending", "soft-failing", "done"}
    \/ s \in waits
    \/ \E t \in DOMAIN read : <<s, t>> \in blocks /\ ciOf(agents, t) # "done"

\* A row that wants its user when it is read, for something only the user can
\* do, is on the roster and says the same, whatever lookups failed, blocks
\* lapsed or rows moved beside it (README.md:115, 318).
AlertsReachUser ==
    OnPage => \A s \in DOMAIN read :
        /\ read[s] \in Alerting
        /\ ciOf(agents, s) # "queued"
        /\ read[s] \in {"needs you", "waiting for you"} => ~Excused(s)
        => \E row \in Range(Roster) : row.id = s /\ row.status = read[s]

\* And no other row of the roster alerts: a row that waits for another, or for a
\* PR, does not cry for its user when the lookup of that PR fails (server.go:1414:
\* "a failed lookup keeps it, so a gh hiccup cannot re-alert the row").
OthersRest ==
    OnPage => \A row \in Range(Roster) :
        row.status \in Alerting =>
            row.status = read[row.id] /\ (row.status \in {"needs you", "waiting for you"} => ~Excused(row.id))

\* The merge queue never alerts (server.go:1346), and the ledger's part takes
\* no row that needs its user: that one goes back to the roster (README.md:318).
TablesAreQuiet ==
    OnPage =>
        /\ \A row \in Range(Queue) : row.status \notin Alerting
        /\ \A row \in carried : read[row.id] \in {"needs you", "needs approval", "shell stuck?"}
                => row.status = "blocked"
=============================================================================
