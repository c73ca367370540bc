# A verification project for clodhopper

clodhopper records what Claude Code sessions do, through the hooks they fire,
in one SQLite file, and shows on a web dashboard which of many sessions wants
its user. The interesting code is in the middle of that path: events that
arrive late, lost or out of order are folded into a status; slow `gh` and `git`
lookups are shared by concurrent renders; a button on the page types keys into
a live terminal.

These modules model that middle. TLC checks them on small instances; TLAPS
proves what matters most for every value of the constants. Line numbers refer
to the files of the repository; `PROJECT.json` maps every definition to the
lines it stands for.

## 1. Inventory

| component | code | state | operations |
|---|---|---|---|
| ingest | `ingest.go` | none: a process per hook | stamp the time, scrub, insert one event, sometimes prune; every error exits 0 |
| event store | `store.go` | tables `events`, `blocks`, `pr_blocks` (WAL, 5 s busy timeout) | insert, queries, end, prune; one statement at a time, no transactions |
| roster fold | `store.go` `agentRoster`, `deriveStatus` | none between renders: the fold's maps per session | fold the events of the window in insertion order, derive a status per row |
| blocks, end, prune | `block.go`, `end.go`, `store.go`, `action.go` | the two block tables | block, block on a PR, unblock, end, prune, each from the command line and most from the dashboard |
| lookup cache | `server.go` `cwdCache` | entries, flights, the last forced refresh | `get` (single flight), `expire` |
| merge-queue ledger | `ledger.go` | up to 100 entries for 24 h | `record`, `carryOver`, `keepFinal`, `dismiss` |
| board pipeline | `server.go` `buildDashboardData` | none: a local slice of rows | worktrees, dead panes, CI, blocks, split of queued rows, ledger, demotion, counts, signature |
| actions | `action.go` | the in-flight set | guards; click on a row, two broadcasts, end, dismiss, block, PR actions |
| restart | `action.go` `runRestart` | none: a conversation with a pane | `/exit`, wait for the shell, dismiss nono's review, `nn --resume`, wait for claude |
| panes | `peek.go` | `paneCache` for 5 s | list panes, hide rows whose pane is dead, capture a pane |
| init | `init.go` | the settings file | merge the hooks into it |
| scrub | `scrub.go` | none | redact strings |
| guards | `bind.go`, `tailscale.go`, `action.go` | none | addresses, Host, peer, token |
| dashboard client | `templates/dashboard.html` | page state in the browser: what it shows, the signature it painted, an action group per row | poll `/api/state` and repaint; arm, confirm, cancel and post actions; disarm |
| command line | `main.go` | none | flags, environment, dispatch |

How they meet:

- The hooks of different agents of one session are separate processes. A hook
  stamps its event (`buildEvent`) before it opens the database, so events are
  inserted in an order that need not be that of their timestamps.
- Every poll of every tab is a goroutine that runs the whole board pipeline. It
  takes `now` first and uses it throughout, reads the tables statement by
  statement, and may wait seconds for lookups. Renders share the lookup caches,
  the pane cache and the ledger, each under a mutex of its own.
- Every action is a goroutine too. It reads the store, tries for in-flight keys
  (never waiting for one), and types into tmux panes that the user and other
  actions use at the same time.
- The command line writes the same tables from processes of its own.

What makes each component correct:

- *roster fold*: an open dialog shows until answered; a finished turn with work
  in the background is not "waiting for you"; nothing lost holds a row back for
  ever; a request on the row is its own agent's.
- *blocks*: blocks on the board never form a cycle, which would silence every
  row of it (the code keeps this for rows that stayed and commands that are not
  overtaken); blocks whose sessions are gone are swept.
- *lookup cache*: answers are younger than the TTL and than a forced refresh;
  slow lookups do not bring back older answers; nobody waits for ever.
- *ledger*: a row stays until dismissed, expired or displaced; no PR is shown
  merged that is not.
- *actions*: locks belong to the requests in progress; one action per worktree;
  no Enter answers a dialog; every request returns.
- *restart*: Escape and the resume reach the review and the shell they are meant
  for, and what is reported is what happened.
- *board pipeline, panes*: no failed lookup hides a row or lifts a block; a live
  row is not hidden; verdicts say what the checks do; a call's row stays where
  the call began; colours tell sessions apart.
- *dashboard client*: one request per row at a time, and it shows; an armed
  confirmation left alone lapses; the page catches up with the board.

`PROJECT.json` lists the hazards behind these, each at its line, with the
properties that catch it.

## 2. Plan

Written in this order: `Roster`, `Session`, `Blocks`, `CwdCache`, `Ledger`,
`Actions`, `Panes`, `Board`, `Restart`, `Page`, `Locks`, `Verdict`, `Feed`, and
a proof module each for `Session` (with `Roster`), `Blocks`, `CwdCache`,
`Ledger`, `Actions`, `Restart`, `Page` and `Board` (with what it takes its
operators from).

- `Session` composes `Roster` with the hooks that feed it; `Roster` is at the
  same time the abstract specification that `Session` implements.
- `Locks` is the abstract specification of the in-flight set; `Actions`
  implements it.
- `Board` takes the operators of `Panes`, `Verdict` and `Feed`.
- `Actions` says which panes are restarted, under which locks; `Restart` is the
  conversation with one of them.

Every safety property that a run checks and expects to hold is by now a theorem
as well, or follows from one. What would come next: the re-checks of the
teardown action (`action.go` 893-917) on `Ledger`, and what panes shared by
several rows do to the locks of `Actions`.

## 3. Modules and how they correspond to the code

### Roster

One row: the state `agentRoster` keeps per session (`state`, `store.go`
798-810) as variables of the same names, and one action per kind of event. The
code folds the whole window again for every render, but the fold of a session
reads its events alone and folds each once, so the module takes a step per
inserted event. Times are kept as ages, which is all the code compares; they
saturate at `Horizon`, past every threshold. `Insert` takes every hook event
that `init.go` wires up, of any agent, stamped up to `MaxDelay` ago. `Status`
is the part of `agentRoster` after the scan: `MainStatus` is `deriveStatus`,
`AskedStatus` the override by subagents' requests, then the background work.
Left out: columns that are displayed only; the window of 30 days, so no event
ages out of the fold.

### Session

Composes `Roster` with what feeds it: a Claude Code session, which is outside
the repository and modelled from what the fold's comments rely on, and the hook
processes. `phase` is what each agent does, `task` its background tasks, `hook`
its running hook process. Two histories are there for the properties to except:
`lost`, the agents one of whose events never reached the store, and `left`,
those that were interrupted or killed with a request open and were not heard
from since. A request goes with the call it was asked for (`answered`), so that
`PromptIsReal` can ask of each request on the row whether its own agent still
stands behind it; what `left` excepts stays on the row until a stop or the
retention window, as the comment at `store.go` 945 says it must. An agent waits
for its own hook to return, and the hooks of different agents run concurrently
(`init.go` installs synchronous hooks). `Ingest(g)` is the insert, a step of
`Roster`; `Fail(g)` is every way `runIngest` loses an event. So the row's
specification is the abstract one, and `Session` implements it: `RowSpec` is a
PROPERTY of the run and a theorem.

### Blocks

The block tables, and every SQL statement of `block`, `unblock`, `end` and
`prune` and of their dashboard actions as a step of its own, since no
transaction spans them. A session is where its last event puts it: on the board,
on the roster but hidden with its pane, live but silent past the window, ended,
pruned. `blockedOn` is the code's graph search stated as a least fixed point.
Three histories tell the ways to a cycle apart. `returned` holds the sessions that
left the roster and came back; `overtaken` the commands that had read who is live,
and not yet inserted, when another block went in; `raced` the blocks such commands
inserted. `NoCycleOnBoard`, what the README of the repository promises, excepts
nothing; `NoCycleOfStayers` excepts the sessions that came back, and
`CyclesAreRaced` the raced blocks as well. The code keeps the last alone. A block
that lapses because its blocker's PR landed is still counted, so none of them
claims less than the board shows.

### CwdCache

`cwdCache.get` and `expire`, with one step per critical section of `c.mu` and
one each for the lookup's read of the world and its panic. What a lookup found
is abstracted to the instant it was found. A lookup that panics in a goroutine
of `lookupKeys` ends the process, so `Panic` matters where `get` is called from a
handler, whose panics `net/http` recovers.

### Ledger

The ledger among concurrent renders. `Begin` takes `now`, who is on the board and
which of those rows are queued, any of them, since a lookup may fail or be a
minute old. Then come `record`, the clone of the entries, and `keepFinal` for any
PR of a gone session that is done, in any order and with the lock released in
between; `Finish` is the page. A lookup that reports anything but done changes
nothing and has no step. Limit and TTL are applied inside `record`, as in the
code. An entry is its PR, the instant it was last seen queued, and whether its
final state is known. `render` holds a render's locals, each cleared once it is
not read again.

### Actions

`handleAction` from where its guards have passed: which keys each kind of
action takes, in which order, and where it turns back. `Serve(r)` is the
request's goroutine. A row's click reads its pane, checks for prompts, locks
the session, types; a broadcast locks its kind, reads the roster, takes the
rows' locks one by one and types into their panes concurrently. The panes are
modelled as what shows on them (`front`, `dialog`), the roster as each
row's status and the order the rows were heard from. `rebase` behaves as
`reload-plugins`; the four actions that open a merge-pr window are `merge`; a
restart's conversation is keys that take a while, and is spelled out in
`Restart`. The block actions are in `Blocks`, `dismiss` in `Ledger`.

`Locks` states what the in-flight set promises and nothing of how requests keep
to it: a key goes to one request at a time and only its holder gives it up.
`Actions` implements it under the mapping in which a request holds the keys of
its record (`Table`, `LockTable`).

### Restart

`runRestart`, one action per call to tmux (`Probe` is `pollShell`, `Types` is
`send-keys`), against a pane that moves between any two of them: claude exits
early, late or not at all, nono asks about denied paths, a resumed claude fails
to start or dies, the user types. A call may fail, or time out after it took
effect. Waits are counted in polls; a probe that takes long uses up several.
`moved` and `held` are history: what changed since the restart last looked, and
whether the pane left its shell after the resume. `report` is the result the
dashboard shows.

### Panes and Board

`Board` is one render after another, a step per step of `buildDashboardData`: the
rows of the roster in some order and with any status, the listing of panes,
`dropDeadPanes`, CI, watched CI, the two kinds of blocks, the split of the queued
rows, `carryOver`, `demotePendingCI`, the page. `agents` is the array that all
of them share, `n` and `queued` the lengths of the two slices of it, because
partitioning in place is where a row could be lost. `Panes` holds the decision of
`dropDeadPanes` as operators on how each row relates to the pane it names; the
listing and that relation are dropped once it is made. `applyPRBlocks` draws a
table of blocks on PRs and gh's answer for each PR looked up, failures included
(`lookupPRFinal`), and a row is held by the guard of the code: its PR's repository
is valid and the answer says neither merged nor closed (`Lasts`). `waits` is
history, the rows blocked on a PR that gh did not say is gone, stated from the
answers and not from the guard; the properties excuse a quiet row by it, and
demand that no row of it alerts. Renders meet in the ledger
alone, so any set of entries may be there at `carryOver`.

### Verdict and Feed

Two pure parts of the pipeline, as operators that `Board` uses or that its
invariants evaluate over bounded inputs. `Verdict` is `lookupCI`: the rollup of
a PR's checks reduced to one state (`classifyRollup`), refined by `parsePRView`,
and the merge queue's answer folded in (`applyMergeQueue`). The verdicts that
`Board` gives to rows are those `lookupCI` can answer, which an ASSUME checks.
`VerdictIsEarned` and `EjectionShows` compare its answers with what the checks
and the queue's events say, stated without buckets or priorities. `Feed` is
`queryEvents`, `foldToolEvents` and `assignSessColors`, the loops of the latter
two as functions of how many events or sessions they have taken; its references
say where a row must be, how often, with which outcome, and which agents keep
their colours. What `Faithful` says of a call's place and outcome it says of
every log, as far as the page goes: a call whose result was lost is shown
running for as long as its start is on the page, which is what the code does.
Only that the outcome is the truth needs hooks in order.

### Page

A tab of the dashboard: `poll` and `swapContent`, and action groups that are
idle, armed, firing or locked (`armConfirm`, `fire`, `unlock`, `__ckDisarm`,
`__ckArmSnapshot`, `__ckArmRestore`). A row of the board has up to four groups
(`dashboard.html` 2193), each with requests of its own; what the module calls a row
is a group. The server is the set of rows on the board, which is also what
`viewSignature` tells apart here. Answers to polls arrive in any order or never; a
request may fail after it was carried out; a timer may run late. The focus may be
in a block picker, whose repaints `swapContent` declines, or in an open peek:
after such a repaint `swapContent` gives the focus back and returns `undefined`
(1199), so `poll` does not record the signature of what it painted. `behind` is
history: whether the last repaint was of that kind. `alone` is history too: for how
long an armed group was left alone. Three actions stand for the kinds the script
tells apart: `end` clears its row, `merge` does not, `reload` asks for no
confirmation. The script's other state (open panels, remembered messages, form
fields) decides nothing here. The user does not touch a hidden tab.

## 4. Runs

The `MC` modules only name model values, symmetry sets and, for `Actions`, a
restricted specification; `MCRowRestart` puts two specifications side by side.
The runs check a module's `TypeOK` where it bounds something the code counts or
is not a theorem; the types of `Session`, `Blocks`, `CwdCache`, `Restart` and
`Page` are theorems and no run repeats them.

| run | question | bounds |
|---|---|---|
| `row_restart` | a busy subagent keeps its row from idling; a finished turn that falls silent ends up wanting the user; a restart's keys land where meant, its reports are true, it ends | 1 subagent, 1 shell, 3 tools, ages 0..2, thresholds 1 and 2, delay 1; 1 pane, waits of 3 and 2 polls |
| `session` | dialogs show, awaited tasks hold the row, each request on the row is its own agent's, the row's specification is implemented | 1 subagent whose hooks may fail, 1 task, ages 0..1, resumes, concurrent hooks, no late stamps |
| `blocks` | orphans are swept although statements fail | 2 sessions, 1 PR, 1 command, sessions that return |
| `blocks_race` | violated: two commands at once close a cycle of rows that stayed | 2 sessions, 2 commands |
| `blocks_revive` | violated: a session that comes back closes a cycle | 3 sessions, 1 command |
| `cache` | hits are fresh, entries never go back, every get returns | 2 callers, 1 key, TTL 2, refreshes 1 apart, clock 0..3 |
| `ledger` | a row leaves only as it may; none is final that is not | 2 sessions, 2 PRs, 2 renders, TTL 2, Max 1, clock 0..2, a render records within 1 |
| `actions` | keys match the requests; worktrees are exclusive; every request returns; the lock table is implemented | 2 requests (merge, both broadcasts), 2 sessions, 2 panes, 2 spellings of one worktree |
| `actions_click` | no click answers a dialog that was on the roster | 2 requests (click, monitor, end), 2 sessions, 1 pane, all of the world's moves |
| `actions_broadcast` | violated: a broadcast answers a dialog | 1 pane shared by 2 rows |
| `board` | each row is shown once; what alerts is what can use its user; no running session is hidden; verdicts, feed and colours are right | 2 rows, 2 panes, every listing, every block between them and on 3 PRs, one of a repository that is not valid, every answer of gh; 2 checks of 1 name, 3 instants; logs of 5 events of 2 calls, pages of 3; 4 sessions, 3 colours |
| `page` | one request per group, armed confirmations lapse, the tab catches up | 2 groups, 2 polls in flight, any changes of the board, ARM_IDLE_MS of 2 ticks |

Why the bounds suffice. Keys of the cache do not interact, nor do subagents
other than through the row's minimum and union, so one of each beside the main
agent meets every case of the code; an overtaking needs two calls, or two polls.
Every threshold has an age on either side. `CyclesAreRaced` is a theorem and in no
run: with two commands that may block rows the state space is too large to check
beside the liveness of `blocks`. With the constants of `blocks_race` in its place
TLC goes through all of 5.1 million states and finds it true; that cycles of more
than two rows, which need the search to follow a path, are kept off too is the
theorem's part. Two rows have
every order, split and block between them; what they do not have is a pane that
two rows claim by their directory alone while a third is known by name. A log of
five events has a page of three and two calls that straddle its end; two checks
are enough for one to name or outdo the other; four sessions are one more than
the colours. In `page` one row's request settles while the other's is in flight,
and one poll overtakes the other. A restart's waits have a probe at their start,
on the way and at their end. Where the numbers are too small to show something,
the theorems do for the parts they cover.

`row_restart` checks two modules that share no state, `Roster` and `Restart`, in
one run: a behaviour of `MCRowRestart` is one of the first or one of the second,
whichever moves first, so each property is checked on all that its own module can
do, and the fairness is that of both.

Bounds in the models: `Horizon` saturates ages; `MaxDelay` is how late a hook
inserts its event (the hooks' own timeout is 5 s, `init.go` 57), 1 in
`row_restart`, 0 in `session`, where hooks overtake each other all the same, and
any number in the theorems; `MaxClock` ends the clock of the cache and the
ledger; `MaxRender` is the longest a render takes to `record`; `MaxPolls` is how
many polls are under way; `Logged` of `Feed` colours by logs of at most two
sessions, on the board or not. `KeptForTTL` needs `MaxRender`: renders record
out of order, so the time on an entry may be that much older than the latest
sight of its row.

The calm specification. `actions` starts with both sessions running and lets them
come and go no more: what is locked, and who returns, does not depend on what the
panes show. `actions_click` and `actions_broadcast` use the full `Spec`. A
worktree that was removed is not created again; the theorem on worktrees has the
same limit.

What the findings say. Three of the runs are violated by what the code does
where a comment or the README of the repository says otherwise; `PROJECT.json`
quotes each. `blocks_race`: the check for a cycle and the insert are statements
of their own, and two commands pass the check before either inserts.
`blocks_revive`: an edge that is inert while its session is away is skipped by
the check, and applies again when the session reports. `actions_broadcast`: of
two rows that share a pane a broadcast looks at the newer one, and types into
the dialog of the other. Some weaknesses are listed as hazards and have no run:
two rows of one pane have two locks (`action.go` 1011), a get after a forced
refresh may join a lookup from before it (`server.go` 636), a row whose main
agent was never heard from reads as just active (`store.go` 1171), a render that
saw a row queued before its dismissal records it after (`ledger.go` 60), a first
probe that fails lets `/exit` be typed into a pane that may be at a shell
(`action.go` 1138). One more is excepted by name in `ComesUpToDate`. A tab whose
board goes from two rows to one while the focus is in the peek of the one that
stays paints the change and keeps the signature of the two; if the board then
goes back to what it was, every answer has the recorded signature and none is
painted, so the tab shows one row for as long as nothing else changes. The
comment at `dashboard.html` 1228-1234 means the signature to advance whenever
`swapContent` "actually painted". As long as the peek has the focus every other
answer is painted anew, also when nothing changed. Without the exception TLC
finds that behaviour in seconds.

## 5. Fairness

- `row_restart`, the row: time passes. What agents do is not assumed at all; the
  property speaks of runs in which they fall silent after a Stop.
- `blocks`: prunes keep coming (one ingest in a hundred runs one), and
  their statements do not fail every time: strong fairness on the sweeps, since
  a prune may be cut short again and again.
- `cache`: every call takes its next step; a lookup is a subprocess with
  a timeout.
- `actions`: every request takes its next step; each of its subprocesses is
  bounded by a timeout (`runAction`, `runTmux`). Nothing is assumed of the
  sessions or of new requests.
- `row_restart`, the restart: each call to tmux returns or is cut off at its
  timeout; nothing is assumed of the pane or of its user.
- `page`: the interval keeps polling, and of the answers not every one is lost
  (strong fairness on their arrival); a request's fetch settles. Nothing is
  assumed of the user: `ComesUpToDate` speaks of runs in which in the end the board
  is quiet, no request is in flight and no picker has the focus.

## 6. Proofs

All theorems hold for every value of the constants that the named ASSUMEs of
the modules admit. These are naming conventions (model values differ, `None` is
no record and no task, "" is the name of no check and of no tool, `Failed` is no
answer of gh's, an event's id is no call's), the orders among thresholds that the
code's constants have, and that the sessions and rows there are at a time are
finitely many. How many there are is nowhere bounded.

- `SessionProofs`, of the row: `RowTyping`; `BusySubs`, whose invariant is that
  the row's `lastAge` is at most the age of any subagent's last call plus the
  insertion delay.
- `SessionProofs`, of the session: `SessionImplementsRow` maps every step of the
  session to a step of the row or a stutter, so all that holds of the row holds
  here; `Typing`; and three properties that are not inductive.
  `OpenDialogs`: one must know that while a hook that asks is still running nothing
  else of that agent can be, that the main agent's last event is its own request
  once inserted, and that the row is on the board (`DialogInv`).
  `RealPrompts`: an agent of whom the row holds a request is at that dialog or in
  the call it was asked for, or left it open and was not heard from since, or its
  running hook is about to clear the request (`PromptInv`).
  `HeldTasks`: an awaited task is in the row or in the running hook that is about
  to name it (`OwnersInv`); a hook that ends a task names one that is over
  (`EventsInv`); while a restart is to be inserted nobody and nothing of the
  previous life is left (`RestartInv`); the stop of a parked agent is stamped
  within the grace of the launch it parks on (`ParkInv`, which is where
  `MaxDelay =< LaunchGrace` is needed). The lemmas `ActsKeep...` read the
  invariants off what an act may do to an agent (`Drops`, `Posts`, `Begins`...),
  not off the acts one by one.
- `BlocksProofs`: `BlocksTyping`; `RacedCycles`, which is `CyclesAreRaced` for any
  number of commands that add blocks at once. The inductive `CycleInv` says that
  the blocks among rostered sessions that never left, but for the raced ones, are
  grounded (every set of rows has one that none of the set holds), that the
  snapshot of a command that is not overtaken covers those sessions, and that its
  passed check still stands: the only insert that could have undone it would have
  made it overtaken. That sessions may return is why it speaks of those that
  stayed.
- `ActionsProofs`: `ActionsTyping`; `LocksMatched`; `Worktrees`;
  `ImplementsLocks`; `ClicksSparePrompts`. `LocksInv` adds to the types and
  `LocksMatch` that each request holds the keys of its stage; `WorktreeInv` adds
  that a request which runs holds the key of its directory as it is, or was before
  the directory went. `ImplementsLocks` maps every step to a step of `Locks` or a
  stutter, which needs `LocksMatched`: a key that is not in the table is held by
  nobody. `ClickInv` adds that a click checks one pane, that every dialog is of
  some session, and that from the check to the keys a dialog on the row can only
  be one that opened in between; but for `Ask`, no step of the world puts a dialog
  on a row (`Calms`).
- `BoardProofs`, of a render: `BoardInvariant` is the invariant behind all that a
  page promises. It says, for each stage, what the rows' statuses are by then in
  terms of the statuses read and the blocks (`StatusInv`), that the array holds
  each row once and where its parts end (`RowsInv`, `PartsInv`), which rows wait
  for a PR, what the ledger's
  part was made of (`CarriedInv`), and how each running session's row relates to
  its pane (`PanesInv`). From it follow `BoardTypes`, `RowsOnce`, `Alerts`,
  `Others` and `Quiet`, and the action properties `LiveStay` and `GoneLeave`. The
  lemmas are about partitioning: that the rows picked at a set of indexes are
  those rows, each once (`Picked`), and that two complementary picks lose none.
- `BoardProofs`, of the operators: `VerdictsOfAnyRollup` and
  `EjectionsOfAnyRollup` hold for rollups of any length, `DistinctColors` for
  any palette and any number of sessions; these three are facts about constants,
  and stated as such. `FaithfulFeed` and `SteadyFeed` hold for every sequence of
  events, of which the logs that the run goes through are some. The two loops
  are recursive functions. Induction is had without the library's schema, as the
  least element of a set of naturals (`LeastNat`, from the well-foundedness of
  <): first that the recursion defines a function, then what it computes at each
  place. For the feed that is the anchors of the page in their order (`FoldIs`);
  for the colours, that the sessions so far have different ones as long as there
  are any left (`ColoringIs`).
- `LedgerProofs`: `LedgerTyping`, with the limit that `Capped` keeps;
  `FinalsAreTrue`, which is inductive because `keepFinal` asks again for the PR of
  the entry and a landed PR stays landed; `KeptLongEnough`, an action property.
  `LedgerInv` adds that a render records within `MaxRender` of its `now` and that
  an entry's time is at most that much older than the latest sight of its row.
- `CwdCacheProofs`: `CacheTyping`; `HitsAreFresh`; `NeverBack`. `CacheInv` adds
  that a key is looked up by one getter at a time, which the others wait for, that
  a lookup reads after its call began, and that what it read is no older than the
  entry it will replace.
- `RestartProofs`: `RestartTyping`; `ReportsAreTrue`; `KeysLand`. The invariant
  ties each stage to the keys typed so far, and to what the pane showed at the
  last look unless it moved since.
- `PageProofs`: `PageTyping`; `RequestsShown`, whose invariant is that the busy
  count is the number of rows with a request in flight, so that a repaint is
  declined while any is; `ArmedAttended`, from the sum of the time left and the
  time alone, which a repaint leaves as it is.

TLC checked `PromptInv`, `TaskInv` and `ClickInv` on the instances of the runs
before they were proved; the runs check what follows from them.

Only model-checked: the liveness properties (`SilentStopWantsUser`,
`OrphansSwept`, `Answered`, `Returns` of two modules, `ComesUpToDate`), since TLAPS
1.4.5 does not prove arguments from fairness, and the two runs that are violated.
None of the modules uses a RECURSIVE operator.

## 7. Limits of the models

- `ClickSparesPrompts` and `BroadcastSparesPrompts` speak of dialogs that were
  on the roster when the request read it. A dialog that opens between the check
  and the keys takes the Enter; the code cannot know of it. A dialog whose row
  was dismissed by the user and not heard from since is not on the roster either.
- `Session` is an environment, written from what the code relies on and not from
  Claude Code; if that changes, the run changes.
- `Board` takes a row's status and verdict as they come; that the statuses are
  right is `Roster`'s part. paneCache's listing may be 5 s old, so a session that
  just started in a new pane may be hidden that long; `LiveRowsStay` judges rows
  by the listing.
- `KeysLandWhereMeant` excepts a pane that moved between the last look at it and
  the keys, which no code could know of, and says nothing of `/exit`: the first
  probe takes a failed read for a running claude. A pane already at nono's review
  when the restart begins gets `/exit` and Enter. `nn` that starts and dies counts
  as sent.
- `Verdict`'s two calls to gh are not atomic: a PR that merges in between shows as
  open or as thrown out of the queue for the entry's TTL. A removal and a check in
  the same second count as a rerun.
- `Feed` keeps calls in place whose start is on the page. One whose start just left
  it while its result stays is shown at its result instead, further up (with pages
  of three: a start, a stop, the result, another stop). A call whose result was lost
  is shown running until its start leaves the page. The order of arrival is taken as
  given: it is the order within the window asked for, so with a short window two
  agents may swap colours when an old one's first events leave it.
- `Page` lets the group of a row that `end` cleared be drawn afresh: by a poll asked
  before and answered after, and by hiding the tab (`dashboard.html` 2541 keeps it
  locked only until the next repaint).

### Not modelled

- The teardown action's re-checks, the guards before `handleAction`'s body, and
  `block-pr`'s cached list of open PRs.
- `init`: a command run once that reads a file, merges an object and writes it; the
  merge is a pure function of JSON with no step of another actor to meet. The
  write truncates the file first, so a kill in between loses the settings.
- `scrub`: regular expressions over text. The guards of the listener: stateless
  checks of one request. The command line: flags and dispatch.
- Formatting, chips, counts, filters and the activity table; the page's panels
  and messages, and its focus but for pickers and peeks. They hold no state that
  the properties could tell apart and stay with the repository's tests.
