-------------------------------- MODULE Page --------------------------------
(***************************************************************************)
(* A tab of the dashboard (templates/dashboard.html): it polls /api/state   *)
(* and repaints when the signature differs from the one it last painted,    *)
(* while its user arms, confirms and fires the actions of its rows.         *)
(*                                                                         *)
(* The server is what the tab sees of it, the board, and what viewSignature *)
(* (server.go) tells apart of a board is the rows that are on it.  Answers   *)
(* arrive in any order or never, and an action's request may fail after it   *)
(* was carried out.  A row has one action group here, where the code has up  *)
(* to two of actions and two that block it, each with requests of its own:   *)
(* a row of this module is a group.  Panels and messages carried across a    *)
(* repaint are left out; so is the focus, but for a block picker's and an    *)
(* open peek's.                                                              *)
(***************************************************************************)
EXTENDS Integers, FiniteSets

CONSTANTS
    Rows,
    ArmIdle,   \* ARM_IDLE_MS, in ticks
    MaxPolls   \* bound: polls in flight

ASSUME PageParameters ==
    /\ IsFiniteSet(Rows) /\ Rows \cap {"page", "picker"} = {}
    /\ {ArmIdle, MaxPolls} \subseteq Nat /\ ArmIdle > 0

\* end stands for the actions that clear their row, merge for those that do
\* not, and reload for those that ask for no confirmation.
Actions == {"end", "merge", "reload"}
NoConfirm == {"reload"}
Clears == {"end"}

VARIABLES
    board,    \* the rows on the board, as the server has them
    polls,    \* answers to polls, under way to the tab
    shown,    \* the rows the tab shows
    sig,      \* the board whose signature it recorded last
    group,    \* each row's action group
    busy,     \* __ckActionBusy
    pending,  \* each row's requests in flight
    focus,    \* what has the focus: a block picker, a row's open peek, or the page
    hidden,   \* whether the tab is hidden
    alone,    \* history: ticks since the user last touched an armed group
    behind    \* history: whether the last repaint left the signature as it was

page   == <<shown, sig, behind>>
actions == <<group, busy, pending, alone>>
vars == <<board, polls, page, actions, focus, hidden>>

-----------------------------------------------------------------------------
(* Action groups: idle; armed with an action, for the time left; firing, and *)
(* disabled; locked, and disabled until the row goes.                        *)

Idle == [at |-> "idle", action |-> "none", left |-> 0]
Armed(a) == [at |-> "armed", action |-> a, left |-> ArmIdle]

Is(r, at) == group[r].at = at
Sets(r, g) == group' = [group EXCEPT ![r] = g]

\* The user presses an action's button: one that needs no confirmation fires,
\* dropping what was armed; so does the one that is armed, and any other is armed.
Press(r, a) ==
    /\ r \in shown /\ ~hidden /\ (Is(r, "idle") \/ Is(r, "armed"))
    /\ IF a \in NoConfirm \/ group[r].action = a
       THEN /\ Sets(r, [Idle EXCEPT !.at = "firing", !.action = a])
            /\ busy' = busy + 1
            /\ pending' = [pending EXCEPT ![r] = @ + 1]
            /\ UNCHANGED alone
       ELSE /\ Sets(r, Armed(a))
            /\ alone' = [alone EXCEPT ![r] = 0]
            /\ UNCHANGED <<busy, pending>>
    /\ UNCHANGED <<board, polls, page, focus, hidden>>

\* resetArmTimer: a key, a pointer press or a focus inside an armed group.
Touch(r) ==
    /\ Is(r, "armed") /\ ~hidden
    /\ Sets(r, Armed(group[r].action))
    /\ alone' = [alone EXCEPT ![r] = 0]
    /\ UNCHANGED <<board, polls, page, busy, pending, focus, hidden>>

\* Cancelled, or its panel was closed.
Cancel(r) ==
    /\ Is(r, "armed") /\ ~hidden
    /\ Sets(r, Idle)
    /\ UNCHANGED <<board, polls, page, busy, pending, alone, focus, hidden>>

Less(n) == IF n = 0 THEN 0 ELSE n - 1

Tick ==
    /\ group' = [r \in Rows |-> [group[r] EXCEPT !.left = Less(@)]]
    /\ alone' = [r \in Rows |-> IF alone[r] < ArmIdle THEN alone[r] + 1 ELSE ArmIdle]
    /\ UNCHANGED <<board, polls, page, busy, pending, focus, hidden>>

\* A timer runs late in a tab that is throttled.
Expire(r) ==
    /\ Is(r, "armed") /\ group[r].left = 0
    /\ Sets(r, Idle)
    /\ UNCHANGED <<board, polls, page, busy, pending, alone, focus, hidden>>

\* Mutant: __ckActionBusy is a flag.
MutSettled(n) == 0

Settled(n) == Less(n)

\* The server carried the action out or not, and its answer arrives or is lost.
\* A row that its action cleared stays locked.
Settle(r) ==
    /\ pending[r] > 0
    /\ \E done, ok \in BOOLEAN :
        LET clears == group[r].action \in Clears
        IN  /\ ok => done
            /\ board' = IF done /\ clears THEN board \ {r} ELSE board
            /\ Sets(r, IF ok /\ clears THEN [group[r] EXCEPT !.at = "locked"] ELSE Idle)
    /\ pending' = [pending EXCEPT ![r] = @ - 1]
    /\ busy' = Settled(busy)
    /\ UNCHANGED <<polls, page, alone, focus, hidden>>

\* Mutant: a request in flight is not told from an armed group.
MutDisarmed(g) == Idle

\* __ckDisarm: a group with a request in flight is left alone.
Disarmed(g) == IF g.at = "firing" THEN g ELSE Idle

Hide ==
    /\ ~hidden /\ hidden' = TRUE
    /\ group' = [r \in Rows |-> Disarmed(group[r])]
    /\ UNCHANGED <<board, polls, page, busy, pending, alone, focus>>

Unhide ==
    /\ hidden /\ hidden' = FALSE
    /\ UNCHANGED <<board, polls, page, actions, focus>>

\* A picker, the capture of a peek, or anything else takes the focus.
Focus ==
    /\ ~hidden
    /\ focus' \in {"page"} \cup IF shown = {} THEN {} ELSE {"picker"} \cup shown
    /\ UNCHANGED <<board, polls, page, actions, hidden>>

-----------------------------------------------------------------------------
(* Polls.                                                                    *)

\* A session starts, ends or moves on, an event is stored or pruned.
Change ==
    /\ board' \in SUBSET Rows
    /\ UNCHANGED <<polls, page, actions, focus, hidden>>

\* handleState: the board as it is, with its signature.
Poll ==
    /\ Cardinality(polls) < MaxPolls
    /\ polls' = polls \cup {board}
    /\ UNCHANGED <<board, page, actions, focus, hidden>>

Lose(p) ==
    /\ polls' = polls \ {p}
    /\ UNCHANGED <<board, page, actions, focus, hidden>>

\* Mutant: the timer of an armed group starts over.
MutCarried(r, p) ==
    IF r \in p /\ Is(r, "armed") /\ group[r].left > 0 THEN Armed(group[r].action) ELSE Idle

\* __ckArmSnapshot and __ckArmRestore: an armed group whose row is in the answer
\* resumes the time it had left; any other is drawn afresh.
Carried(r, p) ==
    IF r \in p /\ Is(r, "armed") /\ group[r].left > 0 THEN group[r] ELSE Idle

\* swapContent declines while a request is in flight or a picker has the focus.
Declines == busy > 0 \/ focus = "picker"

\* The focus is in a peek whose row is in the answer.
Peeks(p) == focus \in p

\* Mutant: the signature is taken over although nothing was painted.
MutArrive(p) ==
    /\ polls' = polls \ {p}
    /\ sig' = IF p # sig /\ Peeks(p) THEN sig ELSE p
    /\ IF p = sig \/ Declines THEN UNCHANGED <<shown, behind, group, focus>>
       ELSE /\ shown' = p /\ behind' = Peeks(p)
            /\ group' = [r \in Rows |-> Carried(r, p)]
            /\ focus' = IF focus \in Rows \ p THEN "page" ELSE focus
    /\ UNCHANGED <<board, busy, pending, alone, hidden>>

\* An answer whose signature is the recorded one changes nothing.  Any other is
\* painted, unless swapContent declines; its signature is recorded, except when
\* the focus goes back to an open peek: swapContent then returns undefined.
Arrive(p) ==
    /\ polls' = polls \ {p}
    /\ IF p = sig \/ Declines THEN UNCHANGED <<page, group, focus>>
       ELSE /\ shown' = p /\ behind' = Peeks(p)
            /\ sig' = IF Peeks(p) THEN sig ELSE p
            /\ group' = [r \in Rows |-> Carried(r, p)]
            /\ focus' = IF focus \in Rows \ p THEN "page" ELSE focus
    /\ UNCHANGED <<board, busy, pending, alone, hidden>>

-----------------------------------------------------------------------------
Init ==
    /\ board \in SUBSET Rows
    /\ polls = {}
    /\ shown = board /\ sig = board /\ behind = FALSE
    /\ group = [r \in Rows |-> Idle]
    /\ busy = 0 /\ pending = [r \in Rows |-> 0]
    /\ focus = "page" /\ hidden = FALSE
    /\ alone = [r \in Rows |-> 0]

Next ==
    \/ \E r \in Rows, a \in Actions : Press(r, a)
    \/ \E r \in Rows : Touch(r) \/ Cancel(r) \/ Expire(r) \/ Settle(r)
    \/ Tick \/ Hide \/ Unhide \/ Focus
    \/ Change \/ Poll
    \/ \E p \in polls : Lose(p) \/ Arrive(p)

Spec == Init /\ [][Next]_vars

\* The interval keeps polling, not every answer is lost, and a request settles.
FairSpec ==
    /\ Spec
    /\ WF_vars(Poll) /\ SF_vars(\E p \in polls : Arrive(p))
    /\ \A r \in Rows : WF_vars(Settle(r))

-----------------------------------------------------------------------------
\* Every variable holds a value of its kind.
TypeOK ==
    /\ board \subseteq Rows /\ shown \subseteq Rows /\ sig \subseteq Rows
    /\ polls \subseteq SUBSET Rows
    /\ group \in [Rows -> [at : {"idle", "armed", "firing", "locked"},
                           action : Actions \cup {"none"}, left : 0 .. ArmIdle]]
    /\ busy \in Nat /\ pending \in [Rows -> Nat]
    /\ focus \in Rows \cup {"page", "picker"} /\ hidden \in BOOLEAN
    /\ alone \in [Rows -> 0 .. ArmIdle] /\ behind \in BOOLEAN

\* A row has at most one request in flight, and its group shows it, disabled,
\* until the request settles: whatever other rows fire and settle, whichever
\* polls arrive, and also when the tab is hidden meanwhile.
OneRequestShown ==
    \A r \in Rows : pending[r] > 0 => pending[r] = 1 /\ r \in shown /\ Is(r, "firing")

\* An armed confirmation is one that its user could see and that lapses when it
\* is left alone for ARM_IDLE_MS: hiding the tab drops it, and no repaint, of
\* which a busy board has one a poll, gives it more time.
ArmedIsAttended ==
    \A r \in Rows : Is(r, "armed") =>
        r \in shown /\ ~hidden /\ group[r].left + alone[r] = ArmIdle

\* Once the board is quiet, no request is in flight and no picker has the focus,
\* the tab comes to show the board as it is, and stays at that: answers that were
\* declined or overtaken by older ones do not leave it stale (dashboard.html:1228:
\* "the stale board would never get repainted once the action clears").  What can
\* is the focus in an open peek: if the last repaint left the recorded signature
\* behind and the board is back at that one, no answer is painted any more.
ComesUpToDate ==
    <>[][FALSE]_board /\ <>[](~Declines) => <>[](shown = board \/ (behind /\ sig = board))
=============================================================================
