------------------------------- MODULE Roster -------------------------------
(***************************************************************************)
(* One row of the dashboard's roster: agentRoster (store.go) folds the      *)
(* events of a session, in insertion order, into the state below, and       *)
(* derives the row's status from it and from the clock.                     *)
(*                                                                         *)
(* The code folds the whole window of events on every render.  The fold of  *)
(* a session reads nothing but that session's events and each event is      *)
(* folded once, so the module keeps the fold's state of ONE session and     *)
(* takes a step per inserted event.  Timestamps are kept as ages, which is  *)
(* all the code ever compares; an age saturates at Horizon, past every      *)
(* threshold.  An event is inserted up to MaxDelay after the instant        *)
(* buildEvent stamped it with (scrubbing, opening the database, SQLite's    *)
(* busy timeout), so ages need not follow insertion order.                  *)
(*                                                                         *)
(* Columns that are only displayed (branch, cwd, launcher, counts' text)    *)
(* are left out.                                                            *)
(***************************************************************************)
EXTENDS Integers, FiniteSets

CONSTANTS
    Agents,        \* agent_id values of subagents
    Shells,        \* background task ids
    Tools,         \* non-empty tool_name values
    None,          \* an absent map entry or payload field
    Main,          \* the empty agent_id: the session's main agent
    StaleWorking,  \* staleWorkingSecs
    StaleInFlight, \* staleInFlightSecs
    LaunchGrace,   \* subagentLaunchGrace
    StaleShell,    \* CLODHOPPER_STALE_SHELL; 0 turns the escalation off
    MaxDelay,      \* bound: longest time between an event's stamp and its insert
    Horizon        \* bound: where an age saturates

ASSUME RosterNames ==
    /\ Main \notin Agents
    /\ None \notin Agents \cup Shells \cup Tools \cup {Main, ""}
    /\ "" \notin Tools

ASSUME RosterTimes ==
    /\ {StaleWorking, StaleInFlight, LaunchGrace, StaleShell, MaxDelay, Horizon} \subseteq Nat
    /\ 0 < StaleWorking /\ StaleWorking =< StaleInFlight
    /\ StaleInFlight =< Horizon /\ StaleShell =< Horizon
    /\ LaunchGrace + MaxDelay < Horizon
    /\ None \notin 0..Horizon

VARIABLES
    seen,       \* the session has a row in the fold's byID map
    lastEvent,  \* a.LastEvent: latest event of the main agent
    lastNotif,  \* its notification type
    lastTool,   \* latest non-empty tool of the main agent
    lastAge,    \* age of lastTS, None while lastTS is ""
    mainAge,    \* age of mainTS, None while mainTS is ""
    subs,       \* running subagents
    subPerms,   \* subagents blocked on a permission request, and the tool
    shells,     \* running background shells
    lastLaunch  \* age of each subagent's latest background launch

rowVars == <<seen, lastEvent, lastNotif, lastTool, lastAge, mainAge,
             subs, subPerms, shells, lastLaunch>>

-----------------------------------------------------------------------------
(* Hook events.  "PostToolUse" stands for every type that agentRoster and   *)
(* deriveStatus treat alike (PostToolUseFailure, PreCompact, Unknown).      *)

Ages == 0..Horizon

EventTypes == {"SessionStart", "SessionEnd", "UserPromptSubmit", "PreToolUse",
               "PostToolUse", "Stop", "Notification", "PermissionRequest"}

\* The payload of a hook event; agentRoster's query extracts these fields.
Event(type, tool, notif, source, start, end) ==
    [type |-> type, tool |-> tool, notif |-> notif, source |-> source,
     start |-> start, end |-> end]

Plain(type)         == Event(type, "", "", "", None, None)
ToolUse(type, tool) == Event(type, tool, "", "", None, None)

Launching == {"Bash", "Monitor"} \cap Tools                     \* results name a new task
Naming    == {"TaskStop", "KillShell", "TaskOutput"} \cap Tools \* inputs name a task
ToolTypes == {"PreToolUse", "PostToolUse", "PermissionRequest"}

EventsOf(types, tools, notifs, sources, starts, ends) ==
    [type : types, tool : tools, notif : notifs, source : sources,
     start : starts, end : ends]

HookEvents ==
    EventsOf({"UserPromptSubmit", "Stop", "SessionEnd"}, {""}, {""}, {""}, {None}, {None})
    \cup EventsOf({"UserPromptSubmit"}, {""}, {""}, {""}, {None}, Shells)
    \cup EventsOf({"SessionStart"}, {""}, {""}, {"resume", "compact"}, {None}, {None})
    \cup EventsOf({"Notification"}, {""}, {"permission_prompt", "idle_prompt", ""}, {""}, {None}, {None})
    \cup EventsOf(ToolTypes, Tools, {""}, {""}, {None}, {None})
    \cup EventsOf({"PostToolUse"}, Launching, {""}, {""}, Shells, {None})
    \cup EventsOf(ToolTypes, Naming, {""}, {""}, {None}, Shells)

\* Subagents run tools and ask for permission; the rest is the main agent's.
SubHookEvents ==
    {e \in HookEvents : \/ e.type \in ToolTypes
                        \/ e.type = "Notification" /\ e.notif = "permission_prompt"}

-----------------------------------------------------------------------------
(* The fold. *)

ShellRecords == [age : Ages, owner : Agents \cup {Main}]
SubRecords   == [silent : Ages, midCall : BOOLEAN]

\* An absent entry is no record.
ASSUME NoneIsNoRecord == None \notin ShellRecords \cup SubRecords

\* Mutant: a stop exactly at the grace is not a park.
MutParks(g, d) == lastLaunch[g] # None /\ lastLaunch[g] - d < LaunchGrace

\* The stop of g parks it on a task it has just launched.
Parks(g, d) == lastLaunch[g] # None /\ lastLaunch[g] - d =< LaunchGrace

\* An event of a running subagent proves it alive.
Heard(g, e, d) ==
    IF g \in Agents /\ subs[g] # None
    THEN [subs EXCEPT ![g] = [silent |-> d, midCall |-> (e.type = "PreToolUse")]]
    ELSE subs

EndsShell(e, id) ==
    \/ e.end = id /\ (e.type = "UserPromptSubmit" \/ e.tool \in {"TaskStop", "KillShell"})
    \/ e.type = "SessionStart" /\ e.source # "compact"

\* Background shells after event e of agent g: a start, then an end, then a
\* restart that kills them all.
ShellsAfter(g, e, d) ==
    [id \in Shells |-> IF EndsShell(e, id) THEN None
                       ELSE IF e.start = id THEN [age |-> d, owner |-> g]
                       ELSE shells[id]]

\* Mutant: the notification that trails a request is any other event.
MutAsksPermission(e) == e.type = "PermissionRequest"

AsksPermission(e) ==
    \/ e.type = "PermissionRequest"
    \/ e.type = "Notification" /\ e.notif = "permission_prompt"

\* Mutants: the request keeps the notification's type for its tool; the next
\* event does not clear it.
MutPermType(g, e)  == IF AsksPermission(e) THEN e.notif ELSE None
MutPermKeeps(g, e) == IF AsksPermission(e) THEN e.tool ELSE subPerms[g]

\* The request a subagent is blocked on after its event e; the tool-less
\* notification that trails a request keeps the request's tool.
PermAfter(g, e) ==
    IF ~AsksPermission(e) THEN None
    ELSE IF subPerms[g] = None \/ e.tool # "" THEN e.tool
    ELSE subPerms[g]

\* An event with no agent_id, subagent lifecycle apart: it alone moves the
\* main agent's state.
MainEvent(e, d) ==
    /\ seen' = TRUE
    /\ lastEvent' = e.type
    /\ lastNotif' = e.notif
    /\ lastTool' = IF e.tool = "" THEN lastTool ELSE e.tool
    /\ lastAge' = d
    /\ mainAge' = d
    /\ shells' = ShellsAfter(Main, e, d)
    /\ UNCHANGED <<subs, subPerms, lastLaunch>>

SubagentStart(g, d) ==
    /\ seen' = TRUE
    /\ subs' = IF g = Main THEN subs
               ELSE [subs EXCEPT ![g] = [silent |-> d, midCall |-> FALSE]]
    /\ UNCHANGED <<lastEvent, lastNotif, lastTool, lastAge, mainAge, subPerms, shells, lastLaunch>>

SubagentStop(g, d) ==
    /\ seen' = TRUE
    /\ IF g = Main
       THEN UNCHANGED <<subs, subPerms, shells, lastLaunch>>
       ELSE /\ shells' = [id \in Shells |->
                             IF shells[id] # None /\ shells[id].owner = g /\ ~Parks(g, d)
                             THEN None ELSE shells[id]]
            /\ lastLaunch' = [lastLaunch EXCEPT ![g] = None]
            /\ subs' = [subs EXCEPT ![g] = None]
            /\ subPerms' = [subPerms EXCEPT ![g] = None]
    /\ UNCHANGED <<lastEvent, lastNotif, lastTool, lastAge, mainAge>>

\* Any other event of a subagent.
SubagentEvent(g, e, d) ==
    /\ seen' = TRUE
    /\ UNCHANGED <<lastEvent, lastNotif, lastTool, mainAge>>
    /\ lastAge' = d
    /\ subPerms' = [subPerms EXCEPT ![g] = PermAfter(g, e)]
    /\ subs' = Heard(g, e, d)
    /\ shells' = ShellsAfter(g, e, d)
    /\ lastLaunch' = IF e.start = None THEN lastLaunch ELSE [lastLaunch EXCEPT ![g] = d]

-----------------------------------------------------------------------------
(* The row a render shows. *)

\* Mutant: no allowance for a call in flight.
MutStale(midCall) == StaleWorking

Stale(midCall) == IF midCall THEN StaleInFlight ELSE StaleWorking

LiveSub(g) == subs[g] # None /\ subs[g].silent < Stale(subs[g].midCall)

LiveSubs == {g \in Agents : LiveSub(g)}

RunningShells == {id \in Shells : shells[id] # None}

\* Mutant: only the main agent's shells are looked at.
MutUnattended == {id \in RunningShells : shells[id].owner = Main}

\* A live subagent attends to its own shell.
Unattended == {id \in RunningShells : shells[id].owner \notin LiveSubs}

\* idleSeconds of a timestamp that was never set is 0.
Idle(age) == IF age = None THEN 0 ELSE age

Status0(label, rank) == [label |-> label, rank |-> rank]

PromptStatus(tool) ==
    Status0(IF tool = "AskUserQuestion" THEN "needs input" ELSE "needs approval", 1)

\* deriveStatus on the main agent's state.
MainStatus ==
    CASE lastEvent = "Stop" -> Status0("waiting for you", 0)
      [] lastEvent = "Notification" /\ lastNotif = "permission_prompt" -> PromptStatus(lastTool)
      [] lastEvent = "Notification" /\ lastNotif = "idle_prompt" ->
            IF lastTool = "ScheduleWakeup" THEN Status0("waiting", 4)
            ELSE Status0("waiting for you", 0)
      [] lastEvent = "Notification" /\ lastNotif = "" -> Status0("needs you", 1)
      [] lastEvent = "PermissionRequest" -> PromptStatus(lastTool)
      [] lastEvent = "SessionEnd" -> Status0("ended", 9)
      [] OTHER -> IF Idle(lastAge) >= Stale(lastEvent = "PreToolUse")
                  THEN Status0("idle", 6) ELSE Status0("working", 5)

OnBoard == seen /\ lastEvent # "SessionEnd"

\* The open requests of subagents override the main agent's status; an
\* approval wins over a question.
Asked == {g \in Agents : subPerms[g] # None}

AskedStatus ==
    IF Asked = {} THEN MainStatus
    ELSE IF \E g \in Asked : subPerms[g] # "AskUserQuestion"
         THEN PromptStatus("") ELSE PromptStatus("AskUserQuestion")

\* The oldest unattended shell and the main agent's silence both outran
\* staleShell: the oldest is that old when any of them is.
ShellStuck ==
    /\ StaleShell > 0
    /\ Idle(mainAge) >= StaleShell
    /\ \E id \in Unattended : shells[id].age >= StaleShell

Status ==
    IF AskedStatus.label # "waiting for you" \/ LiveSubs \cup RunningShells = {}
    THEN AskedStatus
    ELSE IF ShellStuck THEN Status0("shell stuck?", 1)
    ELSE Status0("waiting on agents", 4)

\* Rows at rank 0 and 1 are styled as wanting the user.
WantsUser == OnBoard /\ Status.rank =< 1

-----------------------------------------------------------------------------
Older(age) == IF age = None \/ age = Horizon THEN age ELSE age + 1

Tick ==
    /\ lastAge' = Older(lastAge)
    /\ mainAge' = Older(mainAge)
    /\ subs' = [g \in Agents |-> IF subs[g] = None THEN None
                                 ELSE [subs[g] EXCEPT !.silent = Older(@)]]
    /\ shells' = [id \in Shells |-> IF shells[id] = None THEN None
                                    ELSE [shells[id] EXCEPT !.age = Older(@)]]
    /\ lastLaunch' = [g \in Agents |-> Older(lastLaunch[g])]
    /\ UNCHANGED <<seen, lastEvent, lastNotif, lastTool, subPerms>>

RowInit ==
    /\ seen = FALSE
    /\ lastEvent = "" /\ lastNotif = "" /\ lastTool = ""
    /\ lastAge = None /\ mainAge = None
    /\ subs = [g \in Agents |-> None]
    /\ subPerms = [g \in Agents |-> None]
    /\ shells = [id \in Shells |-> None]
    /\ lastLaunch = [g \in Agents |-> None]

\* Insert one event of agent g, stamped d ago.
Insert ==
    \E d \in 0..MaxDelay :
        \/ \E g \in Agents \cup {Main} : SubagentStart(g, d) \/ SubagentStop(g, d)
        \/ \E g \in Agents, e \in SubHookEvents : SubagentEvent(g, e, d)
        \/ \E e \in HookEvents : MainEvent(e, d)

RowNext == Insert \/ Tick

RowSpec == RowInit /\ [][RowNext]_rowVars
RowFairSpec == RowSpec /\ WF_rowVars(Tick)

-----------------------------------------------------------------------------
(* Properties. *)

RowTypeOK ==
    /\ seen \in BOOLEAN
    /\ lastEvent \in EventTypes \cup {""}
    /\ lastNotif \in {"permission_prompt", "idle_prompt", ""}
    /\ lastTool \in Tools \cup {""}
    /\ lastAge \in Ages \cup {None}
    /\ mainAge \in Ages \cup {None}
    /\ subs \in [Agents -> SubRecords \cup {None}]
    /\ subPerms \in [Agents -> Tools \cup {"", None}]
    /\ shells \in [Shells -> ShellRecords \cup {None}]
    /\ lastLaunch \in [Agents -> Ages \cup {None}]

(* store.go:936 - a main agent blocked on a foreground subagent does not go  *)
(* stale: while a subagent is mid tool call and was heard from within the    *)
(* in-flight limit (less the insertion delay), a row whose main agent is in  *)
(* a call is not idle, however long the main agent itself has been silent.   *)
BusySubKeepsRow ==
    (/\ lastEvent = "PreToolUse"
     /\ \E g \in Agents : /\ subs[g] # None /\ subs[g].midCall
                          /\ subs[g].silent + MaxDelay < StaleInFlight)
    => MainStatus.label # "idle"

(* main.go:190 - with the escalation on, nothing holds a finished turn at    *)
(* background rank forever: when a session falls silent for good after a     *)
(* Stop, its row ends up wanting the user, whichever subagents and shells    *)
(* never reported their end.                                                 *)
SilentStopWantsUser ==
    <>[][Tick]_rowVars => <>[](seen /\ lastEvent = "Stop" => WantsUser)
=============================================================================
