------------------------------- MODULE Actions -------------------------------
(***************************************************************************)
(* The dashboard's write path (action.go): POST /api/action, and the        *)
(* in-flight locks its requests try for.  Each request is a goroutine; a    *)
(* lock that is taken refuses the request, or the row of a broadcast, and   *)
(* nothing waits for one.  A click on a row types into the pane the row was *)
(* last heard from, a broadcast into the pane of every eligible row.        *)
(*                                                                         *)
(* rebase is as reload-plugins, and the four merge-pr actions are "merge":  *)
(* they differ in the argv alone.  A restart's own exchange with its pane   *)
(* is abstracted here to keys that take a while, and a row that             *)
(* dropDeadPanes hides is as gone.                                          *)
(***************************************************************************)
EXTENDS FiniteSets

CONSTANTS
    Sessions,
    Panes,
    Paths,       \* the spellings of working directories the sessions have
    Cwd,         \* each session's path
    Real,        \* the directory each path resolves to while it exists
    Requests,    \* concurrent requests
    Kinds,       \* the actions requested
    None

PaneKinds == {"monitor-ci", "new-monitor", "reload-plugins"}
CwdKinds == {"ready", "merge"}
Broadcasts == {"broadcast-reload", "broadcast-restart"}

ASSUME ActionParameters ==
    /\ Cwd \in [Sessions -> Paths] /\ DOMAIN Real = Paths
    /\ Kinds \subseteq PaneKinds \cup CwdKinds \cup Broadcasts \cup {"end"}
    /\ None \notin Sessions \cup Panes

VARIABLES
    pane,      \* the pane each session was last heard from
    status,    \* each row's status: waiting, working, prompt, or gone
    later,     \* <<s, t>>: s was heard from later than t
    front,     \* the session whose screen each pane shows
    dialog,    \* the panes whose screen is a permission prompt or a question
    exists,    \* the directories that exist
    inflight,  \* the keys taken
    req        \* each request in progress

vars == <<pane, status, later, front, dialog, exists, inflight, req>>
world == <<pane, status, later, front, dialog, exists>>

-----------------------------------------------------------------------------
(* The in-flight set and its keys. *)

sidKey(s) == <<"sid", s>>
broadcastKey(k) == <<"broadcast", k>>

\* Mutant: the path as it is spelled.
MutcwdKey(p) == <<"cwd", p>>

\* EvalSymlinks fails on a path that no longer exists.
cwdKey(p) == <<"cwd", IF Real[p] \in exists THEN Real[p] ELSE p>>

\* locks are the keys the request is to release; targets and sending the rows
\* it is still to type for and those it is typing for.  fresh is a history: the
\* panes where a dialog opened since the request read the roster.
NoRequest == [at |-> "idle", kind |-> None, session |-> None, locks |-> {},
              todo |-> {}, targets |-> {}, sending |-> {}, fresh |-> {}]

At(r, at) == req[r].at = at
Goes(r, at) == req' = [req EXCEPT ![r].at = at]

\* acquire: the request takes key and goes on, or is refused.
Acquires(r, key, next) ==
    IF key \in inflight
    THEN Goes(r, "return") /\ UNCHANGED inflight
    ELSE /\ inflight' = inflight \cup {key}
         /\ req' = [req EXCEPT ![r].locks = @ \cup {key}, ![r].at = next]

\* Mutant: the worktree's key is derived again when it is released.
MutReleased(r) ==
    IF req[r].kind \in CwdKinds /\ Cardinality(req[r].locks) = 2
    THEN {sidKey(req[r].session), cwdKey(Cwd[req[r].session])} ELSE req[r].locks

Released(r) == req[r].locks

Return(r) ==
    /\ At(r, "return")
    /\ inflight' = inflight \ Released(r)
    /\ req' = [req EXCEPT ![r] = NoRequest]
    /\ UNCHANGED world

Arrive(r) ==
    /\ At(r, "idle")
    /\ \E k \in Kinds, s \in Sessions :
        req' = [req EXCEPT ![r] = [NoRequest EXCEPT !.kind = k, !.session = s,
            !.at = CASE k \in PaneKinds  -> "pane"
                     [] k \in Broadcasts -> "broadcast"
                     [] OTHER            -> "lock"]]
    /\ UNCHANGED <<world, inflight>>

-----------------------------------------------------------------------------
(* A click on a row. *)

Target(s, p) == [session |-> s, pane |-> p]

\* Mutant: a row without a pane is not refused.
MutReadPane(r) ==
    /\ At(r, "pane")
    /\ LET s == req[r].session
       IN  req' = [req EXCEPT ![r].targets = {Target(s, pane[s])},
                        ![r].at = IF req[r].kind = "reload-plugins" THEN "check" ELSE "lock"]
    /\ UNCHANGED <<world, inflight>>

\* latestPaneForSession: a row that never ran in tmux is refused.
ReadPane(r) ==
    /\ At(r, "pane")
    /\ LET s == req[r].session
       IN  req' = IF pane[s] = None THEN [req EXCEPT ![r].at = "return"]
                  ELSE [req EXCEPT ![r].targets = {Target(s, pane[s])},
                            ![r].at = IF req[r].kind = "reload-plugins" THEN "check" ELSE "lock"]
    /\ UNCHANGED <<world, inflight>>

OnRoster == {s \in Sessions : status[s] # "gone"}

\* Mutant: the check is of the clicked row alone.
MutAtPrompt(s, p) == s \in OnRoster /\ status[s] = "prompt"

\* A row in the same pane counts as well as the clicked one.
AtPrompt(s, p) == \E a \in OnRoster : (a = s \/ pane[a] = p) /\ status[a] = "prompt"

CheckPrompt(r) ==
    /\ At(r, "check")
    /\ \E t \in req[r].targets :
        Goes(r, IF AtPrompt(t.session, t.pane) \/ t.session \notin OnRoster
                THEN "return" ELSE "lock")
    /\ UNCHANGED <<world, inflight>>

LockSession(r) ==
    /\ At(r, "lock")
    /\ Acquires(r, sidKey(req[r].session),
           CASE req[r].kind \in PaneKinds -> "send"
             [] req[r].kind \in CwdKinds  -> "worktree"
             [] OTHER                     -> "end")
    /\ UNCHANGED world

\* endSession.
End(r) ==
    /\ At(r, "end")
    /\ status' = [status EXCEPT ![req[r].session] = "gone"]
    /\ Goes(r, "return")
    /\ UNCHANGED <<pane, later, front, dialog, exists, inflight>>

LockWorktree(r) ==
    /\ At(r, "worktree")
    /\ Acquires(r, cwdKey(Cwd[req[r].session]), "start")
    /\ UNCHANGED world

\* runAction, or startMergeWindow: no process starts in a directory that is gone.
Start(r) ==
    /\ At(r, "start")
    /\ Goes(r, IF Real[Cwd[req[r].session]] \in exists THEN "run" ELSE "return")
    /\ UNCHANGED <<world, inflight>>

Exit(r) ==
    /\ At(r, "run")
    /\ Goes(r, "return")
    /\ UNCHANGED <<world, inflight>>

-----------------------------------------------------------------------------
(* A broadcast. *)

LockBroadcast(r) ==
    /\ At(r, "broadcast")
    /\ Acquires(r, broadcastKey(req[r].kind), "roster")
    /\ UNCHANGED world

\* reloadSkipReason (with and without include_busy) and restartSkipReason.
Eligible(s, kind, includeBusy) ==
    \/ status[s] = "waiting"
    \/ status[s] = "working" /\ kind = "broadcast-reload" /\ includeBusy

\* Rows that share a pane are sent to once, as the one heard from last.
Newest(s) == \A a \in OnRoster \ {s} : pane[a] = pane[s] => <<s, a>> \in later

ReadRoster(r) ==
    /\ At(r, "roster")
    /\ \E includeBusy \in BOOLEAN :
        req' = [req EXCEPT ![r].at = "take", ![r].todo =
            {Target(s, pane[s]) : s \in {a \in OnRoster :
                pane[a] # None /\ Newest(a) /\ Eligible(a, req[r].kind, includeBusy)}}]
    /\ UNCHANGED <<world, inflight>>

\* Mutant: a row's lock is waited for.
MutTake(r, t) ==
    /\ At(r, "take") /\ t \in req[r].todo
    /\ sidKey(t.session) \notin inflight
    /\ inflight' = inflight \cup {sidKey(t.session)}
    /\ req' = [req EXCEPT ![r].todo = @ \ {t}, ![r].targets = @ \cup {t},
                          ![r].locks = @ \cup {sidKey(t.session)}]
    /\ UNCHANGED world

\* Each row's lock is tried for in turn; a row whose lock is taken is skipped.
Take(r, t) ==
    /\ At(r, "take") /\ t \in req[r].todo
    /\ LET free == sidKey(t.session) \notin inflight
           keys == IF free THEN {sidKey(t.session)} ELSE {}
       IN  /\ inflight' = inflight \cup keys
           /\ req' = [req EXCEPT ![r].todo = @ \ {t}, ![r].locks = @ \cup keys,
                                 ![r].targets = IF free THEN @ \cup {t} ELSE @]
    /\ UNCHANGED world

Taken(r) ==
    /\ At(r, "take") /\ req[r].todo = {}
    /\ Goes(r, "send")
    /\ UNCHANGED <<world, inflight>>

-----------------------------------------------------------------------------
(* The keys.  All but new-monitor's, which go to a pane split for them, end   *)
(* in an Enter that answers a dialog; one pane's sends may take a while, and  *)
(* those of a broadcast run concurrently.                                     *)

SendKeys(r, t) ==
    /\ At(r, "send") /\ t \in req[r].targets
    /\ req' = [req EXCEPT ![r].targets = @ \ {t}, ![r].sending = @ \cup {t}]
    /\ dialog' = IF req[r].kind = "new-monitor" THEN dialog ELSE dialog \ {t.pane}
    /\ UNCHANGED <<pane, status, later, front, exists, inflight>>

\* Mutant: the lock is released here and again when the request returns.
MutSent(r, t) ==
    /\ At(r, "send") /\ t \in req[r].sending
    /\ LET keys == IF req[r].kind \in Broadcasts THEN {sidKey(t.session)} ELSE {}
       IN  /\ inflight' = inflight \ keys
           /\ req' = [req EXCEPT ![r].sending = @ \ {t}]
    /\ UNCHANGED world

\* The call returned, or timed out; a broadcast's lock on the row goes with it.
Sent(r, t) ==
    /\ At(r, "send") /\ t \in req[r].sending
    /\ LET keys == IF req[r].kind \in Broadcasts THEN {sidKey(t.session)} ELSE {}
       IN  /\ inflight' = inflight \ keys
           /\ req' = [req EXCEPT ![r].sending = @ \ {t}, ![r].locks = @ \ keys]
    /\ UNCHANGED world

Report(r) ==
    /\ At(r, "send") /\ req[r].targets = {} /\ req[r].sending = {}
    /\ Goes(r, "return")
    /\ UNCHANGED <<world, inflight>>

Serve(r) ==
    \/ ReadPane(r) \/ CheckPrompt(r) \/ LockSession(r) \/ End(r)
    \/ LockWorktree(r) \/ Start(r) \/ Exit(r) \/ LockBroadcast(r) \/ ReadRoster(r)
    \/ \E t \in req[r].todo : Take(r, t)
    \/ \E t \in req[r].targets : SendKeys(r, t)
    \/ \E t \in req[r].sending : Sent(r, t)
    \/ Taken(r) \/ Report(r) \/ Return(r)

-----------------------------------------------------------------------------
(* The sessions, as their hooks report them. *)

LastHeard(s) ==
    {e \in later : e[2] # s /\ e[1] # s} \cup {<<s, a>> : a \in Sessions \ {s}}

\* A hook of s, a subagent's or one of a claude run in another's pane too.  It
\* leaves an open dialog on its row (module Session), and brings back the row of
\* a live session that was dismissed, without its dialog.
Hear(s, to) ==
    /\ pane[s] # None
    /\ status[s] # "gone" \/ front[pane[s]] = s
    /\ status' = [status EXCEPT ![s] =
           IF @ = "prompt" /\ front[pane[s]] = s /\ pane[s] \in dialog THEN @ ELSE to]
    /\ later' = LastHeard(s)
    /\ UNCHANGED <<pane, front, dialog, exists, inflight, req>>

Ask(s, p) ==
    /\ front[p] = s /\ p \notin dialog
    /\ dialog' = dialog \cup {p}
    /\ status' = [status EXCEPT ![s] = "prompt"]
    /\ later' = LastHeard(s)
    /\ req' = [r \in Requests |->
           IF req[r].at \in {"lock", "take", "send"} THEN [req[r] EXCEPT !.fresh = @ \cup {p}]
           ELSE req[r]]
    /\ UNCHANGED <<pane, front, exists, inflight>>

\* The user answers; or an Enter did, and the hook that follows reports it.
Answer(s, p) ==
    /\ front[p] = s /\ status[s] = "prompt"
    /\ dialog' = dialog \ {p}
    /\ status' = [status EXCEPT ![s] = "working"]
    /\ later' = LastHeard(s)
    /\ UNCHANGED <<pane, front, exists, inflight, req>>

\* A session starts in p: launched there, or by a /clear.  The row of the one
\* before stays as it was unless its SessionEnd is heard.
TakeOver(s, p) ==
    /\ \A q \in Panes : front[q] # s
    /\ front' = [front EXCEPT ![p] = s]
    /\ dialog' = dialog \ {p}
    /\ pane' = [pane EXCEPT ![s] = p]
    /\ \E ended \in SUBSET ({front[p]} \ {None}) :
        status' = [a \in Sessions |-> IF a = s THEN "waiting"
                                      ELSE IF a \in ended THEN "gone" ELSE status[a]]
    /\ later' = LastHeard(s)
    /\ UNCHANGED <<exists, inflight, req>>

\* A session is launched from inside p without taking its screen (claude -p).
Nest(s, p) ==
    /\ \A q \in Panes : front[q] # s
    /\ front[p] # None
    /\ pane' = [pane EXCEPT ![s] = p]
    /\ status' = [status EXCEPT ![s] = "working"]
    /\ later' = LastHeard(s)
    /\ UNCHANGED <<front, dialog, exists, inflight, req>>

\* merge-pr, or the user, removes a worktree.
RemoveWorktree(d) ==
    /\ d \in exists
    /\ exists' = exists \ {d}
    /\ UNCHANGED <<pane, status, later, front, dialog, inflight, req>>

Init ==
    /\ pane = [s \in Sessions |-> None]
    /\ status = [s \in Sessions |-> "gone"]
    /\ later \in {o \in SUBSET (Sessions \X Sessions) :
           \A s, t \in Sessions : (<<s, t>> \in o) = (s # t /\ <<t, s>> \notin o)}
    /\ front = [p \in Panes |-> None]
    /\ dialog = {}
    /\ exists = {Real[p] : p \in Paths}
    /\ inflight = {}
    /\ req = [r \in Requests |-> NoRequest]

Next ==
    \/ \E r \in Requests : Arrive(r) \/ Serve(r)
    \/ \E s \in Sessions, to \in {"waiting", "working"} : Hear(s, to)
    \/ \E s \in Sessions, p \in Panes :
         Ask(s, p) \/ Answer(s, p) \/ TakeOver(s, p) \/ Nest(s, p)
    \/ \E d \in exists : RemoveWorktree(d)

Spec == Init /\ [][Next]_vars

\* Every call of a request is bounded by a timeout, and a goroutine that can
\* take a step does so in the end.
FairSpec == Spec /\ \A r \in Requests : WF_vars(Serve(r))

-----------------------------------------------------------------------------
Keys == {sidKey(s) : s \in Sessions} \cup {broadcastKey(k) : k \in Broadcasts}
            \cup {<<"cwd", d>> : d \in Paths \cup {Real[p] : p \in Paths}}
Targets == [session : Sessions, pane : Panes]

\* Every variable holds a value of its kind, and a pane's screen is that of a
\* session last heard from there.
TypeOK ==
    /\ pane \in [Sessions -> Panes \cup {None}]
    /\ status \in [Sessions -> {"waiting", "working", "prompt", "gone"}]
    /\ later \subseteq Sessions \X Sessions
    /\ front \in [Panes -> Sessions \cup {None}]
    /\ \A p \in Panes : front[p] # None => pane[front[p]] = p
    /\ dialog \subseteq Panes
    /\ exists \subseteq {Real[p] : p \in Paths}
    /\ inflight \subseteq Keys
    /\ req \in [Requests ->
        [at : {"idle", "pane", "check", "lock", "end", "worktree", "start", "run",
               "broadcast", "roster", "take", "send", "return"},
         kind : Kinds \cup {None}, session : Sessions \cup {None}, locks : SUBSET Keys,
         todo : SUBSET Targets, targets : SUBSET Targets, sending : SUBSET Targets,
         fresh : SUBSET Panes]]

\* The keys taken are those of the requests in progress, each held by one: no
\* lock outlives its request, also when the worktree it names goes away while
\* the request runs (action.go:846), and none is released under another's feet.
LocksMatch ==
    /\ inflight = UNION {req[r].locks : r \in Requests}
    /\ \A q, r \in Requests : q # r => req[q].locks \cap req[r].locks = {}

\* The in-flight set implements the lock table of module Locks: a key is taken
\* by a request only while no other holds it, though a broadcast gives back each
\* row's key as its send ends and Return gives back the rest (action.go:1027).
Table == INSTANCE Locks WITH held <- [r \in Requests |-> req[r].locks]
LockTable == Table!Spec

\* Two actions never run in one directory at once, however the rows spell it
\* (cwdKey, action.go:84).
WorktreeExclusive ==
    \A q, r \in Requests : At(q, "run") /\ At(r, "run") /\ q # r =>
        Real[Cwd[req[q].session]] # Real[Cwd[req[r].session]]

Typing(r) == req[r].sending

\* The pane shows a dialog, the row of its session does so too (it was not
\* dismissed), and the roster did when the request read it.
KnownPrompt(r, p) ==
    p \in dialog /\ status[front[p]] = "prompt" /\ p \notin req[r].fresh

\* A click's reload-plugins or rebase never goes into a dialog that was on the
\* roster when it was read, whichever of the pane's rows was clicked and
\* whichever session came to own the pane since (action.go:690).
ClickSparesPrompts ==
    [][\A r \in Requests : \A t \in Typing(r)' \ Typing(r) :
         req[r].kind = "reload-plugins" => ~KnownPrompt(r, t.pane)]_vars

\* action.go:926: "a row parked on a permission prompt or a question is never a
\* target" of a broadcast.
BroadcastSparesPrompts ==
    [][\A r \in Requests : \A t \in Typing(r)' \ Typing(r) :
         req[r].kind \in Broadcasts => ~KnownPrompt(r, t.pane)]_vars

\* Every request returns: what is taken is never waited for.
Returns == \A r \in Requests : ~At(r, "idle") ~> At(r, "idle")
=============================================================================
