---------------------------- MODULE SessionProofs ----------------------------
(* The row's fold, for every set of subagents, tasks and tools, every        *)
(* threshold and every sequence of hook events; and a session that drives    *)
(* it, for any delay of its hooks and any set of agents whose hooks may      *)
(* fail.                                                                     *)
EXTENDS Session, TLAPS

(* What agentRoster extracts from a payload: every field of a hook event is  *)
(* of its kind, whichever event it is.                                       *)
LEMMA EventFields ==
    ASSUME NEW e \in HookEvents
    PROVE  /\ e.type \in EventTypes
           /\ e.tool \in Tools \cup {""}
           /\ e.notif \in {"permission_prompt", "idle_prompt", ""}
           /\ e.start \in Shells \cup {None}
BY DEF HookEvents, EventsOf, EventTypes, ToolTypes, Launching, Naming

LEMMA DelayIsAge == ASSUME NEW d \in 0..MaxDelay PROVE d \in Ages
BY RosterTimes DEF Ages

LEMMA OlderIsAge ==
    ASSUME NEW a \in Ages \cup {None} PROVE Older(a) \in Ages \cup {None}
BY RosterTimes DEF Ages, Older

LEMMA OlderOfAge ==
    ASSUME NEW a \in Ages PROVE Older(a) \in Ages
BY RosterTimes DEF Ages, Older
-----------------------------------------------------------------------------
(* Typing, one lemma per kind of step. *)

LEMMA MainEventType ==
    ASSUME RowTypeOK, NEW d \in 0..MaxDelay, NEW e \in HookEvents, MainEvent(e, d)
    PROVE  RowTypeOK'
<1>1. d \in Ages BY DelayIsAge
<1>2. shells' \in [Shells -> ShellRecords \cup {None}]
  BY <1>1 DEF MainEvent, ShellsAfter, RowTypeOK, ShellRecords
<1> QED BY <1>1, <1>2, EventFields DEF MainEvent, RowTypeOK

LEMMA SubagentStartType ==
    ASSUME RowTypeOK, NEW d \in 0..MaxDelay, NEW g \in Agents \cup {Main}, SubagentStart(g, d)
    PROVE  RowTypeOK'
<1>1. [silent |-> d, midCall |-> FALSE] \in SubRecords
  BY DelayIsAge DEF SubRecords
<1>2. subs' \in [Agents -> SubRecords \cup {None}]
  BY <1>1 DEF SubagentStart, RowTypeOK
<1> QED BY <1>2 DEF SubagentStart, RowTypeOK

LEMMA SubagentStopType ==
    ASSUME RowTypeOK, NEW d \in 0..MaxDelay, NEW g \in Agents \cup {Main}, SubagentStop(g, d)
    PROVE  RowTypeOK'
<1>1. CASE g = Main BY <1>1 DEF SubagentStop, RowTypeOK
<1>2. CASE g # Main
  <2>1. shells' \in [Shells -> ShellRecords \cup {None}]
    BY ZenonT(30), <1>2 DEF SubagentStop, RowTypeOK
  <2> QED BY <1>2, <2>1 DEF SubagentStop, RowTypeOK
<1> QED BY <1>1, <1>2

LEMMA SubagentEventType ==
    ASSUME RowTypeOK, NEW d \in 0..MaxDelay, NEW g \in Agents, NEW e \in HookEvents,
           SubagentEvent(g, e, d)
    PROVE  RowTypeOK'
<1>1. d \in Ages BY DelayIsAge
<1>2. subs' \in [Agents -> SubRecords \cup {None}]
  <2>1. [silent |-> d, midCall |-> (e.type = "PreToolUse")] \in SubRecords
    BY <1>1 DEF SubRecords
  <2> QED BY <2>1 DEF SubagentEvent, Heard, RowTypeOK
<1>3. shells' \in [Shells -> ShellRecords \cup {None}]
  BY <1>1 DEF SubagentEvent, ShellsAfter, RowTypeOK, ShellRecords
<1>4. lastLaunch' \in [Agents -> Ages \cup {None}]
  BY <1>1 DEF SubagentEvent, RowTypeOK
<1>5. subPerms' \in [Agents -> Tools \cup {"", None}]
  <2>1. PermAfter(g, e) \in Tools \cup {"", None}
    BY EventFields DEF PermAfter, RowTypeOK
  <2> QED BY <2>1 DEF SubagentEvent, RowTypeOK
<1> QED BY <1>1, <1>2, <1>3, <1>4, <1>5 DEF SubagentEvent, RowTypeOK

LEMMA TickType ==
    ASSUME RowTypeOK, Tick PROVE RowTypeOK'
<1>1. lastAge' \in Ages \cup {None} /\ mainAge' \in Ages \cup {None}
  BY OlderIsAge DEF Tick, RowTypeOK
<1>2. subs' \in [Agents -> SubRecords \cup {None}]
  <2>1. ASSUME NEW g \in Agents, subs[g] # None
        PROVE  [subs[g] EXCEPT !.silent = Older(@)] \in SubRecords
    BY <2>1, OlderOfAge DEF SubRecords, RowTypeOK
  <2> QED BY <2>1 DEF Tick, RowTypeOK
<1>3. shells' \in [Shells -> ShellRecords \cup {None}]
  <2>1. ASSUME NEW id \in Shells, shells[id] # None
        PROVE  [shells[id] EXCEPT !.age = Older(@)] \in ShellRecords
    BY <2>1, OlderOfAge DEF ShellRecords, RowTypeOK
  <2> QED BY <2>1 DEF Tick, RowTypeOK
<1>4. lastLaunch' \in [Agents -> Ages \cup {None}]
  BY OlderIsAge DEF Tick, RowTypeOK
<1> QED BY <1>1, <1>2, <1>3, <1>4 DEF Tick, RowTypeOK

LEMMA RowTypeStep ==
    ASSUME RowTypeOK, [RowNext]_rowVars PROVE RowTypeOK'
<1>1. CASE UNCHANGED rowVars BY <1>1 DEF rowVars, RowTypeOK
<1>2. CASE Tick BY <1>2, TickType
<1>3. CASE Insert
  <2>1. SubHookEvents \subseteq HookEvents BY DEF SubHookEvents
  <2>2. PICK d \in 0..MaxDelay :
          \/ \E g \in Agents \cup {Main} : SubagentStart(g, d) \/ SubagentStop(g, d)
          \/ \E g \in Agents, e \in SubHookEvents : SubagentEvent(g, e, d)
          \/ \E e \in HookEvents : MainEvent(e, d)
    BY <1>3 DEF Insert
  <2> QED BY <2>1, <2>2, MainEventType, SubagentStartType, SubagentStopType, SubagentEventType
<1> QED BY <1>1, <1>2, <1>3 DEF RowNext

(* The fold only ever holds values of the right kind: a running subagent and *)
(* a running task have an age, a held request names a tool.                  *)
THEOREM RowTyping == RowSpec => []RowTypeOK
<1>1. RowInit => RowTypeOK BY DEF RowInit, RowTypeOK
<1> QED BY <1>1, RowTypeStep, PTL DEF RowSpec
-----------------------------------------------------------------------------
(* BusySubKeepsRow is not inductive: it says nothing of lastAge while the    *)
(* main agent is not in a call.  What the fold keeps is that an event of a   *)
(* running subagent has refreshed the row no later than that subagent.       *)
FreshWithSubs ==
    \A g \in Agents : subs[g] # None /\ subs[g].midCall
                     => lastAge \in Ages /\ lastAge =< subs[g].silent + MaxDelay

RowInv == RowTypeOK /\ FreshWithSubs

LEMMA SilentIsAge ==
    ASSUME RowTypeOK, NEW g \in Agents, subs[g] # None
    PROVE  subs[g].silent \in Ages
BY DEF RowTypeOK, SubRecords

\* An inserted event is at most MaxDelay old.
LEMMA RefreshIsFresh ==
    ASSUME RowTypeOK, NEW g \in Agents, subs[g] # None, NEW d \in 0..MaxDelay
    PROVE  d \in Ages /\ d =< subs[g].silent + MaxDelay
BY SilentIsAge, RosterTimes DEF Ages

LEMMA TickKeepsFresh ==
    ASSUME RowInv, Tick PROVE FreshWithSubs'
<1> SUFFICES ASSUME NEW g \in Agents, subs'[g] # None, subs'[g].midCall
             PROVE  lastAge' \in Ages /\ lastAge' =< subs'[g].silent + MaxDelay
  BY DEF FreshWithSubs
<1>1. /\ subs[g] # None
      /\ subs'[g] = [subs[g] EXCEPT !.silent = Older(@)]
  BY DEF Tick
<1>2. /\ subs[g].midCall
      /\ subs'[g].silent = Older(subs[g].silent)
  BY <1>1 DEF RowInv, RowTypeOK, SubRecords
<1>3. lastAge \in Ages /\ lastAge =< subs[g].silent + MaxDelay
  BY <1>1, <1>2 DEF RowInv, FreshWithSubs
<1>4. subs[g].silent \in Ages BY <1>1, SilentIsAge DEF RowInv
<1>5. lastAge' = Older(lastAge) BY DEF Tick
<1> QED BY <1>2, <1>3, <1>4, <1>5, RosterTimes DEF Older, Ages

LEMMA RowInvStep ==
    ASSUME RowInv, [RowNext]_rowVars PROVE RowInv'
<1>1. RowTypeOK' BY RowTypeStep DEF RowInv
<1>2. FreshWithSubs'
  <2>1. CASE UNCHANGED rowVars BY <2>1 DEF rowVars, RowInv, FreshWithSubs
  <2>2. CASE Tick BY <2>2, TickKeepsFresh
  <2>3. ASSUME NEW d \in 0..MaxDelay, NEW g \in Agents \cup {Main}, SubagentStart(g, d)
        PROVE  FreshWithSubs'
    <3> SUFFICES ASSUME NEW h \in Agents, subs'[h] # None, subs'[h].midCall
                 PROVE  lastAge \in Ages /\ lastAge =< subs'[h].silent + MaxDelay
      BY <2>3 DEF FreshWithSubs, SubagentStart
    <3>1. subs'[h] = subs[h]
      BY <2>3 DEF SubagentStart, RowInv, RowTypeOK
    <3> QED BY <3>1 DEF RowInv, FreshWithSubs
  <2>4. ASSUME NEW d \in 0..MaxDelay, NEW g \in Agents \cup {Main}, SubagentStop(g, d)
        PROVE  FreshWithSubs'
    <3> SUFFICES ASSUME NEW h \in Agents, subs'[h] # None, subs'[h].midCall
                 PROVE  lastAge \in Ages /\ lastAge =< subs'[h].silent + MaxDelay
      BY <2>4 DEF FreshWithSubs, SubagentStop
    <3>1. subs'[h] = subs[h]
      BY <2>4 DEF SubagentStop, RowInv, RowTypeOK
    <3> QED BY <3>1 DEF RowInv, FreshWithSubs
  <2>5. ASSUME NEW d \in 0..MaxDelay, NEW e \in HookEvents, MainEvent(e, d)
        PROVE  FreshWithSubs'
    BY <2>5, RefreshIsFresh DEF MainEvent, FreshWithSubs, RowInv
  <2>6. ASSUME NEW d \in 0..MaxDelay, NEW g \in Agents, NEW e \in HookEvents, SubagentEvent(g, e, d)
        PROVE  FreshWithSubs'
    <3> SUFFICES ASSUME NEW h \in Agents, subs'[h] # None
                 PROVE  d \in Ages /\ d =< subs'[h].silent + MaxDelay
      BY <2>6 DEF FreshWithSubs, SubagentEvent
    <3>1. subs[h] # None /\ (subs'[h] = subs[h] \/ subs'[h].silent = d)
      BY <2>6 DEF SubagentEvent, Heard, RowInv, RowTypeOK
    <3>2. CASE subs'[h] = subs[h] BY <3>1, <3>2, RefreshIsFresh DEF RowInv
    <3>3. CASE subs'[h].silent = d BY <3>3, DelayIsAge, RosterTimes DEF Ages
    <3> QED BY <3>1, <3>2, <3>3
  <2>7. SubHookEvents \subseteq HookEvents BY DEF SubHookEvents
  <2> QED BY <2>1, <2>2, <2>3, <2>4, <2>5, <2>6, <2>7 DEF RowNext, Insert
<1> QED BY <1>1, <1>2 DEF RowInv

(* A main agent blocked on a foreground subagent never goes idle while that  *)
(* subagent is mid call and within the in-flight limit, for every threshold, *)
(* every insertion delay and any number of other subagents and tasks.        *)
THEOREM BusySubs == RowSpec => []BusySubKeepsRow
<1>1. RowInit => RowInv BY DEF RowInit, RowInv, RowTypeOK, FreshWithSubs
<1>2. RowInv => BusySubKeepsRow
  <2> SUFFICES ASSUME RowInv, lastEvent = "PreToolUse", NEW g \in Agents,
                      subs[g] # None, subs[g].midCall, subs[g].silent + MaxDelay < StaleInFlight
               PROVE  MainStatus.label # "idle"
    BY DEF BusySubKeepsRow
  <2>1. lastAge \in Ages /\ lastAge =< subs[g].silent + MaxDelay
    BY DEF RowInv, FreshWithSubs
  <2>2. subs[g].silent \in Ages BY SilentIsAge DEF RowInv
  <2>3. ~(Idle(lastAge) >= Stale(TRUE))
    BY <2>1, <2>2, RosterTimes DEF Idle, Stale, Ages
  <2>4. MainStatus = Status0("working", 5) BY <2>3 DEF MainStatus
  <2> QED BY <2>4 DEF Status0
<1> QED BY <1>1, <1>2, RowInvStep, PTL DEF RowSpec
-----------------------------------------------------------------------------
(* The session.                                                              *)

(* Every event the session fires is one the fold knows.                      *)
LEMMA FiredByMain ==
    /\ \A t \in {"UserPromptSubmit", "Stop", "SessionEnd"} : Plain(t) \in HookEvents
    /\ \A src \in {"resume", "compact"} : Event("SessionStart", "", "", src, None, None) \in HookEvents
    /\ \A id \in Shells : Event("UserPromptSubmit", "", "", "", None, id) \in HookEvents
    /\ Event("Notification", "", "idle_prompt", "", None, None) \in HookEvents
<1> USE DEF HookEvents, EventsOf, Event, Plain
<1>1. \A t \in {"UserPromptSubmit", "Stop", "SessionEnd"} : Plain(t) \in HookEvents
  OBVIOUS
<1>2. \A src \in {"resume", "compact"} : Event("SessionStart", "", "", src, None, None) \in HookEvents
  OBVIOUS
<1>3. \A id \in Shells : Event("UserPromptSubmit", "", "", "", None, id) \in HookEvents
  OBVIOUS
<1>4. Event("Notification", "", "idle_prompt", "", None, None) \in HookEvents
  OBVIOUS
<1> QED BY <1>1, <1>2, <1>3, <1>4

LEMMA FiredByAny ==
    /\ \A t \in ToolTypes, tool \in Tools : ToolUse(t, tool) \in SubHookEvents
    /\ \A tool \in Launching, id \in Shells :
          Event("PostToolUse", tool, "", "", id, None) \in SubHookEvents
    /\ "TaskStop" \in Tools =>
          \A id \in Shells : Event("PreToolUse", "TaskStop", "", "", None, id) \in SubHookEvents
    /\ Event("Notification", "", "permission_prompt", "", None, None) \in SubHookEvents
<1>1. \A t \in ToolTypes, tool \in Tools : ToolUse(t, tool) \in SubHookEvents
  BY DEF SubHookEvents, HookEvents, EventsOf, Event, ToolUse, ToolTypes
<1>2. \A tool \in Launching, id \in Shells :
          Event("PostToolUse", tool, "", "", id, None) \in SubHookEvents
  BY DEF SubHookEvents, HookEvents, EventsOf, Event, ToolTypes, Launching
<1>3. "TaskStop" \in Tools =>
          \A id \in Shells : Event("PreToolUse", "TaskStop", "", "", None, id) \in SubHookEvents
  BY DEF SubHookEvents, HookEvents, EventsOf, Event, ToolTypes, Naming
<1>4. Event("Notification", "", "permission_prompt", "", None, None) \in SubHookEvents
  BY DEF SubHookEvents, HookEvents, EventsOf, Event, ToolTypes
<1> QED BY <1>1, <1>2, <1>3, <1>4
-----------------------------------------------------------------------------
(* Typing of the session and its hooks.                                      *)

LEMMA FireType ==
    ASSUME EnvTypeOK, NEW g \in All, NEW kind, NEW e, Fire(g, kind, e),
           \/ kind = "event" /\ e \in SubHookEvents
           \/ kind = "event" /\ e \in HookEvents /\ g = Main
           \/ kind \in {"start", "stop"} /\ e = None /\ g \in Agents
    PROVE  /\ hook' \in [All -> EventHooks(HookEvents) \cup LifecycleHooks \cup {None}]
           /\ hook'[Main] \in EventHooks(HookEvents) \cup {None}
           /\ \A h \in Agents : hook'[h] \in EventHooks(SubHookEvents) \cup LifecycleHooks \cup {None}
           /\ hook'[g] # None /\ hook'[g].kind = kind /\ hook'[g].e = e /\ hook'[g].age = 0
           /\ \A h \in All \ {g} : hook'[h] = hook[h]
<1> DEFINE r == [kind |-> kind, e |-> e, age |-> 0]
<1>1. SubHookEvents \subseteq HookEvents BY DEF SubHookEvents
<1>2. 0 \in 0..MaxDelay BY RosterTimes
<1>3. /\ r \in EventHooks(HookEvents) \cup LifecycleHooks
      /\ g = Main => r \in EventHooks(HookEvents)
      /\ g # Main => r \in EventHooks(SubHookEvents) \cup LifecycleHooks
  BY <1>1, <1>2, RosterNames DEF EventHooks, LifecycleHooks
<1>4. hook' = [hook EXCEPT ![g] = r] BY DEF Fire
<1> QED BY <1>3, <1>4, RosterNames, NoneIsNoHook DEF EnvTypeOK, All

LEMMA ToType ==
    ASSUME EnvTypeOK, NEW g \in All, NEW p, To(g, p),
           p \in MainPhases \/ g # Main, p \in SubPhases \/ g = Main
    PROVE  /\ phase' \in [All -> MainPhases \cup SubPhases]
           /\ phase'[Main] \in MainPhases
           /\ \A h \in Agents : phase'[h] \in SubPhases
BY RosterNames DEF EnvTypeOK, To, All

LEMMA TaskType ==
    ASSUME EnvTypeOK, NEW id \in Shells, task[id] \in TaskRecords, NEW st \in {"running", "done", "over"}
    PROVE  [task EXCEPT ![id].state = st] \in [Shells -> TaskRecords \cup {None}]
BY DEF EnvTypeOK, TaskRecords

LEMMA DieType ==
    ASSUME EnvTypeOK, Die
    PROVE  /\ phase' \in [All -> MainPhases \cup SubPhases]
           /\ phase'[Main] \in MainPhases
           /\ \A h \in Agents : phase'[h] \in SubPhases
           /\ task' \in [Shells -> TaskRecords \cup {None}]
<1>1. task' \in [Shells -> TaskRecords \cup {None}]
  BY DEF EnvTypeOK, Die, TaskRecords
<1> QED BY <1>1, RosterNames DEF EnvTypeOK, Die, All, MainPhases, SubPhases

LEMMA MainActsType == ASSUME EnvTypeOK, MainActs PROVE EnvTypeOK'
<1> USE RosterNames DEF All
<1>1. Main \in All OBVIOUS
<1>2. CASE Launch
  BY <1>1, <1>2, FireType, FiredByMain, ToType DEF Launch, EnvTypeOK, MainPhases
<1>3. CASE Compact
  BY <1>1, <1>3, FireType, FiredByMain DEF Compact, EnvTypeOK
<1>4. CASE Prompt
  BY <1>1, <1>4, FireType, FiredByMain, ToType DEF Prompt, EnvTypeOK, MainPhases
<1>5. CASE EndTurn
  BY <1>1, <1>5, FireType, FiredByMain, ToType DEF EndTurn, EnvTypeOK, MainPhases
<1>6. CASE Remind
  BY <1>1, <1>6, FireType, FiredByMain DEF Remind, EnvTypeOK
<1>7. CASE Interrupt
  BY <1>1, <1>7, ToType DEF Interrupt, InCall, EnvTypeOK, MainPhases
<1>8. CASE Exit
  BY <1>1, <1>8, FireType, FiredByMain, DieType DEF Exit, EnvTypeOK
<1>9. CASE Crash
  BY <1>9, DieType DEF Crash, EnvTypeOK
<1>10. ASSUME NEW id \in Shells, Notified(id) PROVE EnvTypeOK'
  <2>1. [owner |-> Main, state |-> "done"] \in TaskRecords BY DEF TaskRecords
  <2>2. task[id] \in TaskRecords BY <1>10, <2>1 DEF Notified
  <2>3. task' \in [Shells -> TaskRecords \cup {None}]
    BY <1>10, <2>2, TaskType DEF Notified
  <2> QED BY <1>1, <1>10, <2>3, FireType, FiredByMain, ToType DEF Notified, EnvTypeOK, MainPhases
<1> QED BY <1>2, <1>3, <1>4, <1>5, <1>6, <1>7, <1>8, <1>9, <1>10 DEF MainActs

LEMMA AgentActsType ==
    ASSUME EnvTypeOK, NEW g \in All, AgentActs(g) PROVE EnvTypeOK'
<1> USE DEF MainPhases, SubPhases, InCall, ToolTypes
<1>1. ASSUME NEW tool \in Tools, CallTool(g, tool) PROVE EnvTypeOK'
  BY <1>1, FireType, FiredByAny, ToType DEF CallTool, EnvTypeOK
<1>2. ASSUME NEW tool \in Tools, Ask(g, tool) PROVE EnvTypeOK'
  BY <1>2, FireType, FiredByAny, ToType DEF Ask, EnvTypeOK
<1>3. ASSUME NEW tool \in Tools, Return(g, tool) PROVE EnvTypeOK'
  BY <1>3, FireType, FiredByAny, ToType DEF Return, EnvTypeOK
<1>4. ASSUME NEW id \in Shells, StopTask(g, id) PROVE EnvTypeOK'
  <2>1. task' \in [Shells -> TaskRecords \cup {None}]
    BY <1>4, TaskType DEF StopTask, EnvTypeOK
  <2> QED BY <1>4, <2>1, FireType, FiredByAny, ToType DEF StopTask, EnvTypeOK
<1>5. ASSUME NEW id \in Shells, Background(g, id) PROVE EnvTypeOK'
  <2>1. [owner |-> g, state |-> "running"] \in TaskRecords BY DEF TaskRecords
  <2>2. task' \in [Shells -> TaskRecords \cup {None}]
    BY <1>5, <2>1 DEF Background, EnvTypeOK
  <2>3. PICK tool \in Launching : Fire(g, "event", Event("PostToolUse", tool, "", "", id, None))
    BY <1>5 DEF Background
  <2> QED BY <1>5, <2>2, <2>3, FireType, FiredByAny, ToType DEF Background, EnvTypeOK
<1>6. CASE Nag(g)
  BY <1>6, FireType, FiredByAny DEF Nag, EnvTypeOK
<1>7. CASE Answer(g)
  BY <1>7, ToType DEF Answer, EnvTypeOK
<1> QED BY <1>1, <1>2, <1>3, <1>4, <1>5, <1>6, <1>7 DEF AgentActs

LEMMA SubActsType ==
    ASSUME EnvTypeOK, NEW g \in Agents, SubActs(g) PROVE EnvTypeOK'
<1> USE RosterNames DEF SubPhases
<1>1. g \in All BY DEF All
<1>2. CASE Spawn(g)
  BY <1>1, <1>2, FireType, ToType DEF Spawn, EnvTypeOK
<1>3. CASE Park(g)
  BY <1>1, <1>3, FireType, ToType DEF Park, EnvTypeOK
<1>4. CASE Finish(g)
  BY <1>1, <1>4, FireType, ToType DEF Finish, EnvTypeOK
<1>5. ASSUME NEW id \in Shells, Wake(g, id) PROVE EnvTypeOK'
  <2>1. [owner |-> g, state |-> "done"] \in TaskRecords BY <1>1 DEF TaskRecords
  <2>2. task[id] \in TaskRecords BY <1>5, <2>1 DEF Wake
  <2>3. task' \in [Shells -> TaskRecords \cup {None}]
    BY <1>5, <2>2, TaskType DEF Wake
  <2> QED BY <1>1, <1>5, <2>3, FireType, ToType DEF Wake, EnvTypeOK
<1> QED BY <1>2, <1>3, <1>4, <1>5 DEF SubActs

LEMMA PassType == ASSUME EnvTypeOK, Pass PROVE EnvTypeOK'
<1>1. ASSUME NEW g \in All, hook[g] # None
      PROVE  LET r == [hook[g] EXCEPT !.age = @ + 1]
             IN  /\ hook[g] \in EventHooks(HookEvents) => r \in EventHooks(HookEvents)
                 /\ hook[g] \in EventHooks(SubHookEvents) => r \in EventHooks(SubHookEvents)
                 /\ hook[g] \in LifecycleHooks => r \in LifecycleHooks
  <2>1. hook[g].age < MaxDelay BY <1>1 DEF Pass
  <2>2. hook[g].age \in 0..MaxDelay BY <1>1 DEF EnvTypeOK, EventHooks, LifecycleHooks
  <2>3. hook[g].age + 1 \in 0..MaxDelay BY <2>1, <2>2, RosterTimes
  <2> QED BY <2>3 DEF EventHooks, LifecycleHooks
<1>2. hook' \in [All -> EventHooks(HookEvents) \cup LifecycleHooks \cup {None}]
  BY <1>1 DEF Pass, EnvTypeOK
<1>3. hook'[Main] \in EventHooks(HookEvents) \cup {None}
  BY <1>1 DEF Pass, EnvTypeOK, All
<1>4. \A g \in Agents : hook'[g] \in EventHooks(SubHookEvents) \cup LifecycleHooks \cup {None}
  BY <1>1 DEF Pass, EnvTypeOK, All
<1>5. /\ phase' \in [All -> MainPhases \cup SubPhases]
      /\ phase'[Main] \in MainPhases
      /\ \A g \in Agents : phase'[g] \in SubPhases
  BY DEF Pass, EnvTypeOK, MainPhases, SubPhases, All
<1> QED BY <1>2, <1>3, <1>4, <1>5 DEF Pass, EnvTypeOK

\* A step of the session leaves the row alone or is a step of the fold.
LEMMA IngestIsRowStep ==
    ASSUME EnvTypeOK, NEW g \in All, Ingest(g) PROVE RowNext
<1>1. hook[g].age \in 0..MaxDelay
  BY DEF Ingest, EnvTypeOK, EventHooks, LifecycleHooks
<1>2. CASE hook[g].kind = "start"
  BY <1>1, <1>2 DEF Ingest, RowNext, Insert, All
<1>3. CASE hook[g].kind = "stop"
  BY <1>1, <1>3 DEF Ingest, RowNext, Insert, All
<1>4. CASE hook[g].kind = "event" /\ g = Main
  <2>1. hook[g].e \in HookEvents BY <1>4 DEF Ingest, EnvTypeOK, EventHooks
  <2>2. MainEvent(hook[g].e, hook[g].age) BY <1>4 DEF Ingest
  <2> QED BY <1>1, <2>1, <2>2 DEF RowNext, Insert
<1>5. CASE hook[g].kind = "event" /\ g # Main
  <2>1. hook[g].e \in SubHookEvents /\ g \in Agents
    BY <1>5 DEF Ingest, EnvTypeOK, EventHooks, LifecycleHooks, All
  <2>2. SubagentEvent(g, hook[g].e, hook[g].age) BY <1>5 DEF Ingest
  <2> QED BY <1>1, <2>1, <2>2 DEF RowNext, Insert
<1>6. hook[g].kind \in {"start", "stop", "event"}
  BY DEF Ingest, EnvTypeOK, EventHooks, LifecycleHooks
<1> QED BY <1>2, <1>3, <1>4, <1>5, <1>6

LEMMA NextIsRowStep ==
    ASSUME EnvTypeOK, [Next]_vars PROVE [RowNext]_rowVars
<1>1. CASE UNCHANGED vars BY <1>1 DEF vars
<1>2. CASE UNCHANGED rowVars BY <1>2
<1>3. ASSUME NEW g \in All, Fail(g) PROVE UNCHANGED rowVars BY <1>3 DEF Fail
<1>4. CASE Pass BY <1>4 DEF Pass, RowNext
<1> QED BY <1>1, <1>2, <1>3, <1>4, IngestIsRowStep DEF Next

LEMMA EnvTypeStep == ASSUME EnvTypeOK, [Next]_vars PROVE EnvTypeOK'
<1>1. CASE UNCHANGED vars BY <1>1 DEF vars, envVars, EnvTypeOK
<1>2. CASE MainActs BY <1>2, MainActsType
<1>3. ASSUME NEW g \in All, AgentActs(g) PROVE EnvTypeOK' BY <1>3, AgentActsType
<1>4. ASSUME NEW g \in Agents, SubActs(g) PROVE EnvTypeOK' BY <1>4, SubActsType
<1>5. ASSUME NEW id \in Shells, TaskDone(id) PROVE EnvTypeOK'
  <2>1. task' \in [Shells -> TaskRecords \cup {None}] BY <1>5, TaskType DEF TaskDone, EnvTypeOK
  <2> QED BY <1>5, <2>1 DEF TaskDone, EnvTypeOK
<1>6. ASSUME NEW g \in All, Ingest(g) \/ Fail(g) PROVE EnvTypeOK'
  BY <1>6, RosterNames DEF Ingest, Fail, EnvTypeOK, All
<1>7. CASE Pass BY <1>7, PassType
<1> QED BY <1>1, <1>2, <1>3, <1>4, <1>5, <1>6, <1>7 DEF Next, Acts

(* However the session behaves, its hooks drive the row as the fold's own    *)
(* specification allows: the detailed system implements the abstract row, so *)
(* every theorem about RowSpec holds of a session.                           *)
THEOREM SessionImplementsRow == Spec => RowSpec
<1>1. Init => RowInit /\ EnvTypeOK
  BY RosterNames DEF Init, EnvTypeOK, All, MainPhases, SubPhases
<1>2. EnvTypeOK /\ [Next]_vars => [RowNext]_rowVars /\ EnvTypeOK'
  BY NextIsRowStep, EnvTypeStep
<1> QED BY <1>1, <1>2, PTL DEF Spec, RowSpec

(* The typing invariant of the session and of its row.                       *)
THEOREM Typing == Spec => []TypeOK
<1>1. Init => EnvTypeOK BY RosterNames DEF Init, EnvTypeOK, All, MainPhases, SubPhases
<1>2. Spec => []EnvTypeOK BY <1>1, EnvTypeStep, PTL DEF Spec
<1> DEFINE LostOK == lost \subseteq Lossy /\ left \subseteq All
<1>3. Init => LostOK BY DEF Init
<1>4. LostOK /\ [Next]_vars => LostOK'
  BY DEF Next, vars, envVars, Ingest, Fail, Pass, Left
<1>5. RowTypeOK /\ EnvTypeOK /\ LostOK => TypeOK BY DEF TypeOK
<1> HIDE DEF LostOK
<1>6. Spec => []LostOK BY <1>3, <1>4, PTL DEF Spec
<1> QED BY <1>2, <1>5, <1>6, SessionImplementsRow, RowTyping, PTL
-----------------------------------------------------------------------------
(* DialogShown, by an invariant that also follows the hook a dialog's agent  *)
(* is waiting for, and that keeps the row on the board while anyone lives.   *)

Ends(e) == e.type = "SessionEnd"

MainLive == phase[Main] \notin {"off", "dead"}

\* The running hook of g carries a request.
Asking(g) == hook[g].kind = "event" /\ AsksPermission(hook[g].e)

BoardInv ==
    Main \notin lost =>
        /\ MainLive => IF Free(Main) THEN lastEvent # "SessionEnd"
                       ELSE ~Ends(hook[Main].e)
        /\ \A g \in Agents : phase[g] \in SubAlive => MainLive /\ lastEvent # "SessionEnd"

SubDialogInv ==
    \A g \in Agents \ lost :
        phase[g] = "dialog" => IF Free(g) THEN seen /\ subPerms[g] # None ELSE Asking(g)

MainDialogInv ==
    Main \notin lost /\ phase[Main] = "dialog" =>
        IF Free(Main)
        THEN /\ seen
             /\ \/ lastEvent = "PermissionRequest"
                \/ lastEvent = "Notification" /\ lastNotif = "permission_prompt"
        ELSE Asking(Main)

DialogInv == BoardInv /\ SubDialogInv /\ MainDialogInv

LEMMA EndsNothing ==
    /\ ~Ends(Plain("UserPromptSubmit")) /\ ~Ends(Plain("Stop"))
    /\ \A src \in {"resume", "compact"} : ~Ends(Event("SessionStart", "", "", src, None, None))
    /\ \A id \in Shells : ~Ends(Event("UserPromptSubmit", "", "", "", None, id))
    /\ ~Ends(Event("Notification", "", "idle_prompt", "", None, None))
BY DEF Ends, Plain, Event

LEMMA ActsKeepBoard ==
    ASSUME TypeOK, DialogInv, Acts, UNCHANGED <<rowVars, lost>> PROVE BoardInv'
<1> USE RosterNames DEF All, Free, To, rowVars, MainLive, SubAlive, InCall
<1> SUFFICES ASSUME Main \notin lost PROVE BoardInv' BY DEF BoardInv
<1>0. EnvTypeOK /\ Main \in All BY DEF TypeOK
<1>1. CASE Launch
  <2> DEFINE e == Event("SessionStart", "", "", "resume", None, None)
  <2>1. e \in HookEvents BY FiredByMain
  <2>2. ~Ends(e) BY EndsNothing
  <2>3. /\ Fire(Main, "event", e)
        /\ phase' = [phase EXCEPT ![Main] = "ready"] /\ phase[Main] \in {"off", "dead"}
    BY <1>1 DEF Launch
  <2> HIDE DEF e
  <2>4. hook'[Main] # None /\ hook'[Main].e = e
    BY <2>1, <2>3, FireType DEF TypeOK
  <2> QED BY <2>2, <2>3, <2>4 DEF BoardInv, DialogInv, TypeOK, EnvTypeOK
<1>2. CASE Compact \/ Prompt \/ EndTurn \/ Remind
  <2>1. PICK e \in HookEvents : /\ Fire(Main, "event", e) /\ ~Ends(e)
                                /\ phase'[Main] \notin {"off", "dead"}
                                /\ \A g \in Agents : phase'[g] = phase[g]
    <3>1. CASE Compact
      BY <3>1, FiredByMain, EndsNothing DEF Compact, TypeOK, EnvTypeOK
    <3>2. CASE Prompt
      BY <3>2, FiredByMain, EndsNothing DEF Prompt, TypeOK, EnvTypeOK
    <3>3. CASE EndTurn
      BY <3>3, FiredByMain, EndsNothing DEF EndTurn, TypeOK, EnvTypeOK
    <3>4. CASE Remind
      BY <3>4, FiredByMain, EndsNothing DEF Remind, TypeOK, EnvTypeOK
    <3> QED BY <1>2, <3>1, <3>2, <3>3, <3>4
  <2>2. phase[Main] \notin {"off", "dead"}
    BY <1>2 DEF Compact, Prompt, EndTurn, Remind
  <2>3. hook'[Main] # None /\ hook'[Main].e = e BY ZenonT(30), <1>0, <2>1, FireType
  <2> QED BY <2>1, <2>2, <2>3 DEF BoardInv, DialogInv
<1>3. CASE Interrupt
  BY <1>3 DEF Interrupt, BoardInv, DialogInv, TypeOK, EnvTypeOK
<1>4. CASE Exit \/ Crash
  BY <1>4 DEF Exit, Crash, Die, BoardInv, TypeOK, EnvTypeOK
<1>5. ASSUME NEW id \in Shells, Notified(id) PROVE BoardInv'
  <2>1. PICK e \in HookEvents : /\ Fire(Main, "event", e) /\ ~Ends(e)
                                /\ phase'[Main] \notin {"off", "dead"}
                                /\ \A g \in Agents : phase'[g] = phase[g]
    BY <1>5, FiredByMain, EndsNothing DEF Notified, TypeOK, EnvTypeOK
  <2>2. phase[Main] \notin {"off", "dead"} BY <1>5 DEF Notified
  <2>3. hook'[Main] # None /\ hook'[Main].e = e BY ZenonT(30), <1>0, <2>1, FireType
  <2> QED BY <2>1, <2>2, <2>3 DEF BoardInv, DialogInv
<1>6. ASSUME NEW g \in All, AgentActs(g) PROVE BoardInv'
  <2>1. CASE g = Main
    <3>1. /\ phase[Main] \notin {"off", "dead"} /\ phase'[Main] \notin {"off", "dead"}
          /\ \A h \in Agents : phase'[h] = phase[h]
      BY <1>6, <2>1 DEF AgentActs, CallTool, Ask, Return, StopTask, Background, Nag, Answer,
                        TypeOK, EnvTypeOK
    <3>2. \/ UNCHANGED hook
          \/ \E e \in SubHookEvents : Fire(Main, "event", e)
      BY <1>6, <2>1, FiredByAny DEF AgentActs, CallTool, Ask, Return, StopTask, Background, Nag,
                                    Answer, ToolTypes
    <3>3. \A e \in SubHookEvents : ~Ends(e) BY DEF SubHookEvents, ToolTypes, Ends
    <3> QED BY <3>1, <3>2, <3>3, FireType DEF BoardInv, DialogInv, TypeOK
  <2>2. CASE g # Main
    <3>1. phase'[Main] = phase[Main] /\ hook'[Main] = hook[Main]
      BY <1>6, <2>2 DEF AgentActs, CallTool, Ask, Return, StopTask, Background, Nag, Answer,
                        TypeOK, EnvTypeOK, Fire
    <3>2. phase[g] \in SubAlive
      BY <1>6, <2>2 DEF AgentActs, CallTool, Ask, Return, StopTask, Background, Nag, Answer
    <3>3. \A h \in Agents : h # g => phase'[h] = phase[h]
      BY <1>6, <2>2 DEF AgentActs, CallTool, Ask, Return, StopTask, Background, Nag, Answer,
                        TypeOK, EnvTypeOK
    <3> QED BY <2>2, <3>1, <3>2, <3>3 DEF BoardInv, DialogInv
  <2> QED BY <2>1, <2>2
<1>7. ASSUME NEW g \in Agents, SubActs(g) PROVE BoardInv'
  <2>1. phase'[Main] = phase[Main] /\ hook'[Main] = hook[Main]
    BY <1>7 DEF SubActs, Spawn, Park, Finish, Wake, TypeOK, EnvTypeOK, Fire
  <2>2. \A h \in Agents : h # g => phase'[h] = phase[h]
    BY <1>7 DEF SubActs, Spawn, Park, Finish, Wake, TypeOK, EnvTypeOK
  <2>3. MainLive /\ lastEvent # "SessionEnd"
    BY <1>7 DEF SubActs, Spawn, Park, Finish, Wake, BoardInv, DialogInv
  <2> QED BY <2>1, <2>2, <2>3 DEF BoardInv, DialogInv
<1>8. ASSUME NEW id \in Shells, TaskDone(id) PROVE BoardInv'
  BY <1>8 DEF TaskDone, BoardInv, DialogInv
<1> QED BY <1>1, <1>2, <1>3, <1>4, <1>5, <1>6, <1>7, <1>8 DEF Acts, MainActs

\* An act of g touches neither the phase nor the hook of any other agent,
\* except that its end takes every subagent out of its dialog.
LEMMA ActsKeepDialogs ==
    ASSUME TypeOK, DialogInv, Acts, UNCHANGED <<rowVars, lost>> PROVE SubDialogInv' /\ MainDialogInv'
<1> USE RosterNames DEF All, Fire, Free, To, rowVars
<1> USE DEF SubDialogInv, MainDialogInv, DialogInv, TypeOK, EnvTypeOK
<1>1. CASE Launch \/ Compact \/ Prompt \/ EndTurn \/ Remind \/ Interrupt
  <2>1. /\ phase'[Main] # "dialog"
        /\ \A h \in Agents : phase'[h] = phase[h] /\ hook'[h] = hook[h]
    BY <1>1 DEF Launch, Compact, Prompt, EndTurn, Remind, Interrupt
  <2> QED BY <2>1 DEF Asking
<1>2. CASE Exit \/ Crash
  <2>1. phase' = [g \in All |-> IF g = Main THEN "dead"
                                ELSE IF phase[g] \in SubAlive THEN "killed" ELSE phase[g]]
    BY <1>2 DEF Exit, Crash, Die
  <2>2. \A g \in All : phase'[g] # "dialog" BY <2>1 DEF SubAlive
  <2> QED BY <2>2
<1>3. ASSUME NEW id \in Shells, Notified(id) PROVE SubDialogInv' /\ MainDialogInv'
  <2>1. /\ phase'[Main] # "dialog"
        /\ \A h \in Agents : phase'[h] = phase[h] /\ hook'[h] = hook[h]
    BY <1>3 DEF Notified
  <2> QED BY <2>1 DEF Asking
<1>4. ASSUME NEW g \in All, AgentActs(g) PROVE SubDialogInv' /\ MainDialogInv'
  <2>1. \A h \in All : h # g => phase'[h] = phase[h] /\ hook'[h] = hook[h]
    BY <1>4 DEF AgentActs, CallTool, Ask, Return, StopTask, Background, Nag, Answer
  <2>2. CASE phase'[g] # "dialog"
    BY <2>1, <2>2 DEF Asking
  <2>3. ASSUME NEW tool \in Tools, Ask(g, tool) PROVE ~Free(g)' /\ Asking(g)'
    <3>1. ToolUse("PermissionRequest", tool) \in SubHookEvents BY FiredByAny DEF ToolTypes
    <3>2. AsksPermission(ToolUse("PermissionRequest", tool)) BY DEF AsksPermission, ToolUse, Event
    <3> QED BY <2>3, <3>1, <3>2, FireType DEF Ask, Asking
  <2>4. ASSUME Nag(g) PROVE ~Free(g)' /\ Asking(g)'
    <3> DEFINE e == Event("Notification", "", "permission_prompt", "", None, None)
    <3>1. e \in SubHookEvents /\ AsksPermission(e) BY FiredByAny DEF AsksPermission, Event
    <3>2. Fire(g, "event", e) BY <2>4 DEF Nag
    <3> HIDE DEF e
    <3> QED BY <3>1, <3>2, FireType DEF Asking
  <2>5. (\E tool \in Tools : Ask(g, tool)) \/ Nag(g) \/ phase'[g] # "dialog"
    BY <1>4 DEF AgentActs, CallTool, Return, StopTask, Background, Answer
  <2>6. phase'[g] = "dialog" => ~Free(g)' /\ Asking(g)' BY <2>3, <2>4, <2>5
  <2> HIDE DEF Asking
  <2>7. \A h \in All : h # g => (Asking(h)' <=> Asking(h)) BY <2>1 DEF Asking
  <2> QED BY <2>1, <2>6, <2>7
<1>5. ASSUME NEW g \in Agents, SubActs(g) PROVE SubDialogInv' /\ MainDialogInv'
  <2>1. \A h \in All : h # g => phase'[h] = phase[h] /\ hook'[h] = hook[h]
    BY <1>5 DEF SubActs, Spawn, Park, Finish, Wake
  <2>2. phase'[g] # "dialog"
    BY <1>5 DEF SubActs, Spawn, Park, Finish, Wake
  <2> QED BY <2>1, <2>2 DEF Asking
<1>6. ASSUME NEW id \in Shells, TaskDone(id) PROVE SubDialogInv' /\ MainDialogInv'
  BY <1>6 DEF TaskDone, Asking
<1> QED BY <1>1, <1>2, <1>3, <1>4, <1>5, <1>6 DEF Acts, MainActs

\* The row keeps a request that a hook delivers.
LEMMA RequestHeld ==
    ASSUME RowTypeOK, NEW g \in Agents, NEW e \in HookEvents, AsksPermission(e)
    PROVE  PermAfter(g, e) # None
<1>1. e.tool # None BY EventFields, RosterNames
<1> QED BY <1>1 DEF PermAfter

LEMMA IngestOfMain ==
    ASSUME TypeOK, DialogInv, Ingest(Main) PROVE DialogInv'
<1> USE RosterNames DEF All, Free
<1>1. hook[Main] \in EventHooks(HookEvents)
  BY DEF Ingest, TypeOK, EnvTypeOK
<1>2. PICK e \in HookEvents : e = hook[Main].e /\ hook[Main].kind = "event"
  BY <1>1 DEF EventHooks
<1>3. /\ seen' = TRUE /\ lastEvent' = e.type /\ lastNotif' = e.notif
      /\ UNCHANGED <<subPerms, phase, lost>>
      /\ hook'[Main] = None /\ \A h \in Agents : hook'[h] = hook[h]
  BY <1>2 DEF Ingest, MainEvent, TypeOK, EnvTypeOK
<1>4. BoardInv'
  <2>1. Main \notin lost /\ MainLive => ~Ends(e)
    BY <1>1, <1>2 DEF DialogInv, BoardInv, Ingest
  <2> QED BY <1>3, <2>1 DEF DialogInv, BoardInv, MainLive, Ends
<1>5. SubDialogInv' BY <1>3 DEF DialogInv, SubDialogInv, Asking
<1>6. MainDialogInv'
  <2>1. Main \notin lost /\ phase[Main] = "dialog" => AsksPermission(e)
    BY <1>2 DEF DialogInv, MainDialogInv, Asking, Ingest
  <2> QED BY <1>3, <2>1 DEF MainDialogInv, AsksPermission
<1> QED BY <1>4, <1>5, <1>6 DEF DialogInv

LEMMA IngestOfSub ==
    ASSUME TypeOK, DialogInv, NEW g \in Agents, Ingest(g) PROVE DialogInv'
<1> USE RosterNames DEF All, Free
<1>1. hook[g] \in EventHooks(SubHookEvents) \cup LifecycleHooks
  BY DEF Ingest, TypeOK, EnvTypeOK
<1>2. /\ seen' = TRUE /\ UNCHANGED <<lastEvent, lastNotif, phase, lost>>
      /\ \A h \in Agents : h # g => subPerms'[h] = subPerms[h]
      /\ hook'[g] = None /\ \A h \in All : h # g => hook'[h] = hook[h]
  <2>1. hook'[g] = None /\ \A h \in All : h # g => hook'[h] = hook[h]
    BY DEF Ingest, TypeOK, EnvTypeOK
  <2>2. \/ SubagentStart(g, hook[g].age) \/ SubagentStop(g, hook[g].age)
        \/ SubagentEvent(g, hook[g].e, hook[g].age)
    BY DEF Ingest
  <2>3. /\ seen' = TRUE /\ UNCHANGED <<lastEvent, lastNotif>>
        /\ \A h \in Agents : h # g => subPerms'[h] = subPerms[h]
    BY <2>2 DEF SubagentStart, SubagentStop, SubagentEvent, TypeOK, RowTypeOK
  <2> QED BY <2>1, <2>3 DEF Ingest
<1>3. BoardInv' BY <1>2 DEF DialogInv, BoardInv, MainLive
<1>4. MainDialogInv' BY <1>2 DEF DialogInv, MainDialogInv, Asking
<1>5. g \notin lost /\ phase[g] = "dialog" => subPerms'[g] # None
  <2> SUFFICES ASSUME g \notin lost, phase[g] = "dialog" PROVE subPerms'[g] # None
    OBVIOUS
  <2>1. hook[g].kind = "event" /\ AsksPermission(hook[g].e)
    BY DEF DialogInv, SubDialogInv, Asking, Ingest
  <2>2. hook[g].e \in HookEvents
    BY <1>1, <2>1 DEF EventHooks, LifecycleHooks, SubHookEvents
  <2>3. subPerms'[g] = PermAfter(g, hook[g].e)
    BY <2>1 DEF Ingest, SubagentEvent, TypeOK, RowTypeOK
  <2> QED BY <2>1, <2>2, <2>3, RequestHeld DEF TypeOK
<1>6. SubDialogInv' BY <1>2, <1>5 DEF DialogInv, SubDialogInv, Asking
<1> QED BY <1>3, <1>4, <1>6 DEF DialogInv

LEMMA FailKeepsDialogs ==
    ASSUME TypeOK, DialogInv, NEW g \in All, Fail(g) PROVE DialogInv'
<1> USE DEF All, Free
<1>1. /\ lost' = lost \cup {g} /\ UNCHANGED <<phase, seen, lastEvent, lastNotif, subPerms>>
      /\ \A h \in All : h # g => hook'[h] = hook[h]
  BY DEF Fail, rowVars, TypeOK, EnvTypeOK
<1>2. BoardInv' BY <1>1 DEF DialogInv, BoardInv, MainLive
<1>3. SubDialogInv' BY <1>1 DEF DialogInv, SubDialogInv, Asking
<1>4. MainDialogInv' BY <1>1 DEF DialogInv, MainDialogInv, Asking
<1> QED BY <1>2, <1>3, <1>4 DEF DialogInv

LEMMA PassKeepsDialogs ==
    ASSUME TypeOK, DialogInv, Pass PROVE DialogInv'
<1> USE DEF All, Free
<1>1. UNCHANGED <<seen, lastEvent, lastNotif, subPerms, lost>> BY DEF Pass, Tick
<1>2. \A h \in All : hook[h] = None => hook'[h] = None
  BY DEF Pass
<1>3. ASSUME NEW h \in All, hook[h] # None
      PROVE  hook'[h] # None /\ hook'[h].kind = hook[h].kind /\ hook'[h].e = hook[h].e
  <2>1. hook[h] \in EventHooks(HookEvents) \cup LifecycleHooks
    BY <1>3 DEF TypeOK, EnvTypeOK
  <2>2. hook'[h] = [hook[h] EXCEPT !.age = @ + 1] BY <1>3 DEF Pass
  <2>3. hook[h].age + 1 \in 0..MaxDelay
    BY <1>3, <2>1, RosterTimes DEF Pass, EventHooks, LifecycleHooks
  <2>4. hook'[h] \in EventHooks(HookEvents) \cup LifecycleHooks
    BY <2>1, <2>2, <2>3 DEF EventHooks, LifecycleHooks
  <2> QED BY <2>1, <2>2, <2>4, NoneIsNoHook DEF EventHooks, LifecycleHooks
<1>4. \A h \in All :
         /\ phase'[h] = "dialog" => phase[h] = "dialog"
         /\ phase'[h] \in SubAlive => phase[h] \in SubAlive
         /\ phase[h] \in {"off", "dead"} <=> phase'[h] \in {"off", "dead"}
  BY DEF Pass, SubAlive
<1>5. \A h \in All : Free(h)' <=> Free(h) BY <1>2, <1>3
<1>6. \A h \in All :
         ~Free(h) => /\ Asking(h)' <=> Asking(h)
                     /\ Ends(hook'[h].e) <=> Ends(hook[h].e)
  BY <1>3 DEF Asking
<1> HIDE DEF Free
<1>7. BoardInv' BY <1>1, <1>4, <1>5, <1>6 DEF DialogInv, BoardInv, MainLive
<1>8. SubDialogInv' BY <1>1, <1>4, <1>5, <1>6 DEF DialogInv, SubDialogInv
<1>9. MainDialogInv' BY <1>1, <1>4, <1>5, <1>6 DEF DialogInv, MainDialogInv
<1> QED BY <1>7, <1>8, <1>9 DEF DialogInv

LEMMA DialogInvStep ==
    ASSUME TypeOK, DialogInv, [Next]_vars PROVE DialogInv'
<1>1. CASE UNCHANGED vars
  BY <1>1 DEF vars, rowVars, envVars, DialogInv, BoardInv, SubDialogInv, MainDialogInv,
              MainLive, Asking, Free
<1>2. CASE Acts /\ UNCHANGED <<rowVars, lost>>
  BY <1>2, ActsKeepBoard, ActsKeepDialogs DEF DialogInv
<1> QED BY <1>1, <1>2, IngestOfMain, IngestOfSub, FailKeepsDialogs, PassKeepsDialogs DEF Next, All

(* A dialog open on any agent whose hooks get through shows on the row: no   *)
(* interleaving of the other agents' hooks, however late, no task, restart   *)
(* or compaction takes it off before it is answered.                         *)
THEOREM OpenDialogs == Spec => []DialogShown
<1>1. Init => DialogInv
  BY DEF Init, DialogInv, BoardInv, SubDialogInv, MainDialogInv, MainLive, SubAlive, All
<1>2. TypeOK /\ DialogInv => DialogShown
  <2> SUFFICES ASSUME TypeOK, DialogInv, NEW g \in All, phase[g] = "dialog", Free(g),
                      {g, Main} \cap lost = {}
               PROVE  WantsUser
    BY DEF DialogShown
  <2>1. OnBoard
    BY RosterNames DEF OnBoard, DialogInv, BoardInv, SubDialogInv, MainDialogInv, MainLive,
                       SubAlive, All, Free
  <2>2. AskedStatus.rank = 1 /\ AskedStatus.label # "waiting for you"
    <3>1. CASE Asked # {} BY <3>1 DEF AskedStatus, PromptStatus, Status0
    <3>2. CASE Asked = {}
      <4>1. g = Main
        BY <3>2 DEF Asked, DialogInv, SubDialogInv, All
      <4>2. MainStatus = PromptStatus(lastTool)
        BY <4>1 DEF MainStatus, DialogInv, MainDialogInv
      <4> QED BY <3>2, <4>2 DEF AskedStatus, PromptStatus, Status0
    <3> QED BY <3>1, <3>2
  <2>3. Status = AskedStatus BY <2>2 DEF Status
  <2>4. Status.rank = 1 BY <2>2, <2>3
  <2> QED BY <2>1, <2>4 DEF WantsUser
<1>3. TypeOK /\ DialogInv /\ [Next]_vars => DialogInv' BY DialogInvStep
<1> QED BY <1>1, <1>2, <1>3, Typing, PTL DEF Spec
-----------------------------------------------------------------------------
(* What an act of the session does to each agent and to each task.  Both     *)
(* invariants below are read off these effects, not off the acts.            *)

Working == SubAlive \ {"parked"}

Rests(h) == UNCHANGED <<phase[h], hook[h]>>

\* A dialog is answered, a call interrupted, an agent killed: no hook.
Drops(h) ==
    /\ hook'[h] = hook[h]
    /\ \/ phase[h] = "dialog" /\ phase'[h] = "answered"
       \/ phase[h] \in SubAlive /\ phase'[h] = "killed"
       \/ h = Main /\ phase'[h] \in {"ready", "dead"}

Posts(h) ==
    /\ Free(h) /\ hook'[h] # None /\ hook'[h].kind = "event"
    /\ AsksPermission(hook'[h].e) => phase'[h] = "dialog"
    /\ h \in Agents => /\ phase[h] \in Working /\ phase'[h] \in Working
                       /\ phase'[h] = "launched" => hook'[h].e.start \in Shells
    /\ \A id \in Shells :
          /\ hook'[h].e.start = id => task'[id] # None /\ task'[id].owner = h
          /\ hook'[h].e.end = id => task'[id] # None /\ task'[id].state = "over"

Begins(h) ==
    /\ h \in Agents /\ Free(h) /\ hook'[h] # None /\ hook'[h].kind = "start"
    /\ phase[h] \in {"off", "parked"} /\ phase'[h] = "running"

Ceases(h) ==
    /\ h \in Agents /\ Free(h) /\ hook'[h] # None /\ hook'[h].kind = "stop" /\ hook'[h].age = 0
    /\ \/ phase[h] \in {"running", "launched"} /\ phase'[h] = "gone"
       \/ phase[h] = "launched" /\ phase'[h] = "parked"

AgentMoves == \A h \in All : Rests(h) \/ Drops(h) \/ Posts(h) \/ Begins(h) \/ Ceases(h)

\* A task keeps its owner, ends once, and begins with the hook that names it.
Keeps(id)  == task'[id] = task[id]
Moves(id)  == /\ task[id] # None /\ task'[id] # None /\ task'[id].owner = task[id].owner
              /\ task'[id].state # "running"
              /\ task[id].state = "over" => task'[id].state = "over"
Opens(id)  == /\ task[id] = None
              /\ \E h \in All : /\ task'[id] # None /\ task'[id].owner = h
                               /\ Free(h) /\ hook'[h] # None /\ hook'[h].kind = "event"
                               /\ hook'[h].e.start = id /\ phase'[h] # "off"

TaskMoves == \A id \in Shells : Keeps(id) \/ Moves(id) \/ Opens(id)

LEMMA OthersStill ==
    ASSUME EnvTypeOK, NEW g \in All, NEW h \in All, h # g,
           \/ \E p : To(g, p)
           \/ UNCHANGED phase,
           \/ \E kind, e : Fire(g, kind, e)
           \/ UNCHANGED hook
    PROVE  Rests(h)
BY DEF Rests, To, Fire, EnvTypeOK

LEMMA PostsOfMain ==
    ASSUME EnvTypeOK, NEW e \in HookEvents, Fire(Main, "event", e),
           ~AsksPermission(e), e.start = None,
           \A id \in Shells : e.end = id => task'[id] # None /\ task'[id].state = "over"
    PROVE  Posts(Main)
<1>1. Main \in All BY DEF All
<1>2. hook'[Main] # None /\ hook'[Main].kind = "event" /\ hook'[Main].e = e
  BY <1>1, FireType
<1> QED BY <1>2, RosterNames DEF Posts, Fire

LEMMA PostsOfAny ==
    ASSUME EnvTypeOK, NEW g \in All, NEW e \in SubHookEvents, Fire(g, "event", e),
           AsksPermission(e) => phase'[g] = "dialog",
           g \in Agents => phase[g] \in Working /\ phase'[g] \in Working,
           phase'[g] = "launched" => e.start \in Shells,
           \A id \in Shells :
              /\ e.start = id => task'[id] # None /\ task'[id].owner = g
              /\ e.end = id => task'[id] # None /\ task'[id].state = "over"
    PROVE  Posts(g)
<1>1. hook'[g] # None /\ hook'[g].kind = "event" /\ hook'[g].e = e
  BY FireType
<1> QED BY <1>1 DEF Posts, Fire

LEMMA MainMoves ==
    ASSUME TypeOK, MainActs PROVE AgentMoves /\ TaskMoves
<1> USE RosterNames DEF All
<1>1. Main \in All /\ EnvTypeOK BY DEF TypeOK
<1>2. CASE Launch \/ Compact \/ Prompt \/ EndTurn \/ Remind
  <2>1. \E p : To(Main, p) \/ UNCHANGED phase
    BY <1>2 DEF Launch, Compact, Prompt, EndTurn, Remind
  <2>2. PICK e \in HookEvents : /\ Fire(Main, "event", e) /\ ~AsksPermission(e)
                                /\ e.start = None /\ e.end = None
    <3>1. CASE Launch
      BY <3>1, FiredByMain DEF Launch, AsksPermission, Event
    <3>2. CASE Compact
      BY <3>2, FiredByMain DEF Compact, AsksPermission, Event
    <3>3. CASE Prompt
      BY <3>3, FiredByMain DEF Prompt, AsksPermission, Plain, Event
    <3>4. CASE EndTurn
      BY <3>4, FiredByMain DEF EndTurn, AsksPermission, Plain, Event
    <3>5. CASE Remind
      BY <3>5, FiredByMain DEF Remind, AsksPermission, Event
    <3> QED BY <1>2, <3>1, <3>2, <3>3, <3>4, <3>5
  <2>3. Posts(Main) BY <1>1, <2>2, PostsOfMain
  <2>4. \A h \in Agents : Rests(h) BY <1>1, <2>1, <2>2, OthersStill
  <2>5. task' = task BY <1>2 DEF Launch, Compact, Prompt, EndTurn, Remind
  <2> QED BY <2>3, <2>4, <2>5 DEF AgentMoves, TaskMoves, Keeps
<1>3. CASE Interrupt
  <2>1. Drops(Main) BY <1>1, <1>3 DEF Interrupt, To, Drops, EnvTypeOK
  <2>2. \A h \in Agents : Rests(h) BY <1>1, <1>3, OthersStill DEF Interrupt
  <2> QED BY <1>3, <2>1, <2>2 DEF Interrupt, AgentMoves, TaskMoves, Keeps
<1>4. ASSUME Die PROVE /\ phase'[Main] = "dead" /\ TaskMoves
                       /\ \A h \in Agents : \/ phase'[h] = phase[h]
                                            \/ phase[h] \in SubAlive /\ phase'[h] = "killed"
  <2>1. \A id \in Shells : task[id] # None => task[id] \in TaskRecords
    BY <1>1 DEF EnvTypeOK
  <2>2. ASSUME NEW id \in Shells, task[id] # None PROVE Moves(id)
    <3>1. task'[id] = [task[id] EXCEPT !.state = "over"] BY <1>4, <2>2 DEF Die
    <3>2. task'[id] \in TaskRecords BY <2>1, <2>2, <3>1 DEF TaskRecords
    <3>3. None \notin TaskRecords
      BY NoneIsNoTask
    <3> QED BY <2>1, <2>2, <3>1, <3>2, <3>3 DEF Moves, TaskRecords
  <2>3. \A id \in Shells : task[id] = None => Keeps(id) BY <1>4 DEF Die, Keeps
  <2>4. TaskMoves BY <2>2, <2>3 DEF TaskMoves
  <2> QED BY <1>4, <2>4 DEF Die
<1>5. CASE Exit
  <2>1. Plain("SessionEnd") \in HookEvents BY FiredByMain
  <2>2. ~AsksPermission(Plain("SessionEnd")) /\ Plain("SessionEnd").start = None
        /\ Plain("SessionEnd").end = None
    BY DEF AsksPermission, Plain, Event
  <2>3. Fire(Main, "event", Plain("SessionEnd")) /\ Die BY <1>5 DEF Exit
  <2>4. Posts(Main) BY <1>1, <2>1, <2>2, <2>3, PostsOfMain
  <2>5. \A h \in Agents : hook'[h] = hook[h] BY <1>1, <2>3 DEF Fire, EnvTypeOK
  <2>6. \A h \in Agents : Rests(h) \/ Drops(h) BY <1>4, <2>3, <2>5 DEF Rests, Drops
  <2> QED BY <1>4, <2>3, <2>4, <2>6 DEF AgentMoves
<1>6. CASE Crash
  <2>1. Die /\ hook' = hook BY <1>6 DEF Crash
  <2>2. \A h \in All : Rests(h) \/ Drops(h) BY <1>4, <2>1 DEF Rests, Drops
  <2> QED BY <1>4, <2>1, <2>2 DEF AgentMoves
<1>7. ASSUME NEW id \in Shells, Notified(id) PROVE AgentMoves /\ TaskMoves
  <2> DEFINE e == Event("UserPromptSubmit", "", "", "", None, id)
  <2>1. /\ To(Main, "running") /\ Fire(Main, "event", e)
        /\ task[id] = [owner |-> Main, state |-> "done"]
        /\ task' = [task EXCEPT ![id].state = "over"]
    BY <1>7 DEF Notified
  <2>2. /\ e \in HookEvents /\ ~AsksPermission(e) /\ e.start = None /\ e.end = id
    BY FiredByMain DEF AsksPermission, Event
  <2> HIDE DEF e
  <2>3. task[id] \in TaskRecords
    <3>1. [owner |-> Main, state |-> "done"] \in TaskRecords BY DEF TaskRecords
    <3> QED BY <2>1, <3>1
  <2>4. /\ task'[id] = [task[id] EXCEPT !.state = "over"]
        /\ \A k \in Shells \ {id} : task'[k] = task[k]
    BY <1>1, <2>1 DEF EnvTypeOK
  <2>5. task'[id] \in TaskRecords /\ task'[id].state = "over" /\ task'[id].owner = task[id].owner
    BY <2>4, <2>3 DEF TaskRecords
  <2>6. task[id] # None /\ task'[id] # None
    BY <2>3, <2>5, NoneIsNoTask
  <2>7. Posts(Main)
    <3>1. \A k \in Shells : e.end = k => task'[k] # None /\ task'[k].state = "over"
      BY <2>2, <2>6, <2>5
    <3> QED BY <2>1, <2>2, <3>1, PostsOfMain, <1>1
  <2>8. \A h \in Agents : Rests(h) BY <1>1, <2>1, OthersStill
  <2>9. Moves(id) BY <2>6, <2>5 DEF Moves
  <2> QED BY <2>4, <2>7, <2>8, <2>9 DEF AgentMoves, TaskMoves, Keeps
<1> QED BY <1>2, <1>3, <1>5, <1>6, <1>7 DEF MainActs

LEMMA AgentActMoves ==
    ASSUME TypeOK, NEW g \in All, AgentActs(g) PROVE AgentMoves /\ TaskMoves
<1>1. EnvTypeOK /\ SubHookEvents \subseteq HookEvents BY DEF TypeOK, SubHookEvents
<1>2. \A h \in All : h # g => Rests(h)
  <2>1. \/ \E p : To(g, p)
        \/ UNCHANGED phase
    BY DEF AgentActs, CallTool, Ask, Return, StopTask, Background, Nag, Answer
  <2>2. \/ \E kind, e : Fire(g, kind, e)
        \/ UNCHANGED hook
    BY DEF AgentActs, CallTool, Ask, Return, StopTask, Background, Nag, Answer
  <2> QED BY <1>1, <2>1, <2>2, OthersStill
<1>3. ASSUME NEW tool \in Tools, CallTool(g, tool) \/ Ask(g, tool) \/ Return(g, tool)
      PROVE  Posts(g) /\ task' = task
  <2>1. PICK t \in ToolTypes, p \in Working :
          /\ Fire(g, "event", ToolUse(t, tool)) /\ phase'[g] = p /\ phase[g] \in Working
          /\ p # "launched" /\ (t = "PermissionRequest" => p = "dialog")
    BY <1>1, <1>3 DEF CallTool, Ask, Return, To, ToolTypes, Working, SubAlive, InCall, EnvTypeOK
  <2> DEFINE e == ToolUse(t, tool)
  <2>2. e \in SubHookEvents BY FiredByAny
  <2>3. (AsksPermission(e) => t = "PermissionRequest") /\ e.start = None /\ e.end = None
    BY <2>1 DEF AsksPermission, ToolUse, Event, ToolTypes
  <2> HIDE DEF e
  <2>4. Posts(g) BY <1>1, <2>1, <2>2, <2>3, PostsOfAny, RosterNames DEF e
  <2> QED BY <1>3, <2>4 DEF CallTool, Ask, Return
<1>4. CASE Nag(g)
  <2> DEFINE e == Event("Notification", "", "permission_prompt", "", None, None)
  <2>1. e \in SubHookEvents /\ e.start = None /\ e.end = None BY FiredByAny DEF Event
  <2>2. Fire(g, "event", e) /\ phase[g] = "dialog" /\ phase'[g] = "dialog" BY <1>4 DEF Nag
  <2> HIDE DEF e
  <2>3. Posts(g) BY <1>1, <2>1, <2>2, PostsOfAny, RosterNames DEF Working, SubAlive
  <2> QED BY <1>2, <1>4, <2>3 DEF Nag, AgentMoves, TaskMoves, Keeps
<1>5. CASE Answer(g)
  <2>1. Drops(g) BY <1>1, <1>5 DEF Answer, To, Drops, EnvTypeOK
  <2> QED BY <1>2, <1>5, <2>1 DEF Answer, AgentMoves, TaskMoves, Keeps
<1>6. ASSUME NEW id \in Shells, StopTask(g, id) PROVE AgentMoves /\ TaskMoves
  <2> DEFINE e == Event("PreToolUse", "TaskStop", "", "", None, id)
  <2>1. /\ Fire(g, "event", e) /\ phase[g] \in {"running", "launched"} /\ phase'[g] = "intool"
        /\ task[id] # None /\ task' = [task EXCEPT ![id].state = "over"]
    BY <1>1, <1>6 DEF StopTask, To, EnvTypeOK
  <2>2. e \in SubHookEvents /\ ~AsksPermission(e) /\ e.start = None /\ e.end = id
    BY <1>6, FiredByAny DEF StopTask, AsksPermission, Event
  <2> HIDE DEF e
  <2>3. /\ task[id] \in TaskRecords /\ task'[id] = [task[id] EXCEPT !.state = "over"]
        /\ \A k \in Shells \ {id} : task'[k] = task[k]
    BY <1>1, <2>1 DEF EnvTypeOK
  <2>4. task'[id] \in TaskRecords /\ task'[id].state = "over" /\ task'[id].owner = task[id].owner
    BY <2>3 DEF TaskRecords
  <2>5. task'[id] # None BY <2>4, NoneIsNoTask
  <2>6. Posts(g)
    BY <1>1, <2>1, <2>2, <2>3, <2>4, <2>5, PostsOfAny, RosterNames DEF Working, SubAlive
  <2>7. Moves(id) BY <2>1, <2>4, <2>5 DEF Moves
  <2> QED BY <1>2, <2>3, <2>6, <2>7 DEF AgentMoves, TaskMoves, Keeps
<1>7. ASSUME NEW id \in Shells, Background(g, id) PROVE AgentMoves /\ TaskMoves
  <2>1. PICK tool \in Launching : Fire(g, "event", Event("PostToolUse", tool, "", "", id, None))
    BY <1>7 DEF Background
  <2> DEFINE e == Event("PostToolUse", tool, "", "", id, None)
  <2>2. e \in SubHookEvents /\ ~AsksPermission(e) /\ e.start = id /\ e.end = None
    BY FiredByAny DEF AsksPermission, Event
  <2>3. Fire(g, "event", e) BY <2>1
  <2> HIDE DEF e
  <2>4. /\ phase[g] \in InCall /\ phase'[g] \in {"running", "launched"} /\ task[id] = None
        /\ task'[id] = [owner |-> g, state |-> "running"]
        /\ \A k \in Shells \ {id} : task'[k] = task[k]
    BY <1>1, <1>7 DEF Background, To, EnvTypeOK
  <2>5. task'[id] # None /\ task'[id].owner = g
    BY <2>4, NoneIsNoTask DEF TaskRecords
  <2>6. Posts(g)
    BY <1>1, <2>2, <2>3, <2>4, <2>5, PostsOfAny, RosterNames DEF Working, SubAlive, InCall
  <2>7. Opens(id)
    BY <1>1, <2>2, <2>3, <2>4, <2>5, FireType DEF Opens, Fire
  <2> QED BY <1>2, <2>4, <2>6, <2>7 DEF AgentMoves, TaskMoves, Keeps
<1> QED BY <1>2, <1>3, <1>4, <1>5, <1>6, <1>7 DEF AgentActs, AgentMoves, TaskMoves, Keeps

LEMMA SubActMoves ==
    ASSUME TypeOK, NEW g \in Agents, SubActs(g) PROVE AgentMoves /\ TaskMoves
<1>1. g \in All /\ g # Main /\ EnvTypeOK BY RosterNames DEF TypeOK, All
<1>2. \A h \in All : h # g => Rests(h)
  BY <1>1, OthersStill DEF SubActs, Spawn, Park, Finish, Wake
<1>3. ASSUME NEW kind \in {"start", "stop"}, Fire(g, kind, None)
      PROVE  Free(g) /\ hook'[g] # None /\ hook'[g].kind = kind /\ hook'[g].age = 0
  BY <1>1, <1>3, FireType DEF Fire
<1>4. CASE Spawn(g)
  <2>1. Begins(g) BY <1>1, <1>3, <1>4 DEF Spawn, To, Begins, EnvTypeOK
  <2> QED BY <1>2, <1>4, <2>1 DEF Spawn, AgentMoves, TaskMoves, Keeps
<1>5. CASE Park(g)
  <2>1. Ceases(g) BY <1>1, <1>3, <1>5 DEF Park, To, Ceases, EnvTypeOK
  <2> QED BY <1>2, <1>5, <2>1 DEF Park, AgentMoves, TaskMoves, Keeps
<1>6. CASE Finish(g)
  <2>1. Ceases(g) BY <1>1, <1>3, <1>6 DEF Finish, To, Ceases, EnvTypeOK
  <2> QED BY <1>2, <1>6, <2>1 DEF Finish, AgentMoves, TaskMoves, Keeps
<1>7. ASSUME NEW id \in Shells, Wake(g, id) PROVE AgentMoves /\ TaskMoves
  <2>1. Begins(g) BY <1>1, <1>3, <1>7 DEF Wake, To, Begins, EnvTypeOK
  <2>2. /\ task[id] = [owner |-> g, state |-> "done"]
        /\ task'[id] = [owner |-> g, state |-> "over"]
        /\ \A k \in Shells \ {id} : task'[k] = task[k]
    BY <1>1, <1>7 DEF Wake, EnvTypeOK
  <2>3. Moves(id) BY <1>1, <2>2, NoneIsNoTask DEF TaskRecords, Moves
  <2> QED BY <1>2, <2>1, <2>2, <2>3 DEF AgentMoves, TaskMoves, Keeps
<1> QED BY <1>4, <1>5, <1>6, <1>7 DEF SubActs

LEMMA ActMoves == ASSUME TypeOK, Acts PROVE AgentMoves /\ TaskMoves
<1>1. ASSUME NEW id \in Shells, TaskDone(id) PROVE AgentMoves /\ TaskMoves
  <2>1. EnvTypeOK BY DEF TypeOK
  <2>2. /\ task[id] \in TaskRecords /\ task[id] # None /\ task[id].state = "running"
        /\ task'[id] = [task[id] EXCEPT !.state = "done"]
        /\ \A k \in Shells \ {id} : task'[k] = task[k]
    BY <1>1, <2>1 DEF TaskDone, EnvTypeOK
  <2>3. task'[id] \in TaskRecords /\ task'[id].state = "done" /\ task'[id].owner = task[id].owner
    BY <2>2 DEF TaskRecords
  <2>4. Moves(id) BY <2>2, <2>3, NoneIsNoTask DEF Moves
  <2> QED BY <1>1, <2>2, <2>4 DEF TaskDone, AgentMoves, TaskMoves, Rests, Keeps
<1> QED BY <1>1, MainMoves, AgentActMoves, SubActMoves DEF Acts

(* A hook whose event carries no request is on its way to clear one.         *)
LEMMA TimeKeepsHooks ==
    ASSUME TypeOK, Pass, NEW h \in All
    PROVE  /\ hook[h] = None => hook'[h] = None
           /\ hook[h] # None => /\ hook'[h] # None /\ hook'[h].kind = hook[h].kind
                               /\ hook'[h].e = hook[h].e /\ hook'[h].age = hook[h].age + 1
           /\ phase'[h] = IF phase[h] = "launched" /\ Free(h) THEN "running" ELSE phase[h]
<1>1. hook[h] = None => hook'[h] = None BY DEF Pass
<1>2. ASSUME hook[h] # None
      PROVE  /\ hook'[h] # None /\ hook'[h].kind = hook[h].kind
             /\ hook'[h].e = hook[h].e /\ hook'[h].age = hook[h].age + 1
  <2>1. hook[h] \in EventHooks(HookEvents) \cup LifecycleHooks
    BY <1>2 DEF TypeOK, EnvTypeOK
  <2>2. hook'[h] = [hook[h] EXCEPT !.age = @ + 1] BY <1>2 DEF Pass
  <2>3. hook[h].age + 1 \in 0..MaxDelay
    BY <1>2, <2>1, RosterTimes DEF Pass, EventHooks, LifecycleHooks
  <2>4. hook'[h] \in EventHooks(HookEvents) \cup LifecycleHooks
    BY <2>1, <2>2, <2>3 DEF EventHooks, LifecycleHooks
  <2> QED BY <2>1, <2>2, <2>4, NoneIsNoHook DEF EventHooks, LifecycleHooks
<1>3. phase'[h] = IF phase[h] = "launched" /\ Free(h) THEN "running" ELSE phase[h]
  BY DEF Pass
<1> QED BY <1>1, <1>2, <1>3

LEMMA InsertMoves ==
    ASSUME TypeOK, NEW g \in All, Ingest(g)
    PROVE  /\ hook[g] # None /\ hook'[g] = None /\ UNCHANGED <<phase, task, lost>>
           /\ \A h \in All : h # g => hook'[h] = hook[h]
           /\ g = Main => hook[g] \in EventHooks(HookEvents)
           /\ g # Main => hook[g] \in EventHooks(SubHookEvents) \cup LifecycleHooks
           /\ hook[g].age \in 0..MaxDelay
BY DEF Ingest, TypeOK, EnvTypeOK, All, EventHooks, LifecycleHooks

LEMMA FailMoves ==
    ASSUME TypeOK, NEW g \in All, Fail(g)
    PROVE  /\ hook'[g] = None /\ lost' = lost \cup {g} /\ UNCHANGED <<phase, task, rowVars>>
           /\ \A h \in All : h # g => hook'[h] = hook[h]
BY DEF Fail, TypeOK, EnvTypeOK
-----------------------------------------------------------------------------
(* PromptIsReal.  A request the row holds of an agent stands for a call of    *)
(* that agent's, or a hook of its own is on its way to clear it.             *)

\* A call that g asked for is open, or was left open.
Engaged(g) == phase[g] \in Requested \/ g \in left

\* The running hook of g clears what the row holds of g.
Superseded(g) == ~Free(g) /\ hook[g].kind # "start" /\ ~Asking(g)

PromptInv ==
    \A g \in All :
        /\ g \in left /\ g # Main => phase[g] = "killed"
        /\ ~Free(g) /\ Asking(g) => Engaged(g)
        /\ g \notin lost /\ RowAsks(g) => Engaged(g) \/ Superseded(g)

\* A request is left open by an agent that fires nothing.
LEMMA LeftOpen ==
    ASSUME NEW g \in All, left' = Left, hook'[g] = hook[g], Engaged(g) PROVE Engaged(g)'
BY DEF Left, Leaves, Engaged

\* Only those whose process died leave one and never speak again.
LEMMA LeftAreKilled ==
    ASSUME TypeOK, PromptInv, Acts, left' = Left, NEW g \in All, g \in left', g # Main
    PROVE  phase'[g] = "killed"
<1> USE DEF Left
<1>1. Rests(g) \/ Drops(g) \/ Posts(g) \/ Begins(g) \/ Ceases(g) BY ActMoves DEF AgentMoves
<1>2. hook'[g] = hook[g] OBVIOUS
<1>3. CASE g \in left
  <2>1. phase[g] = "killed" BY <1>3 DEF PromptInv
  <2> QED BY <1>1, <1>2, <2>1 DEF Rests, Drops, Posts, Begins, Ceases, Free
<1>4. CASE Leaves(g)
  BY <1>1, <1>2, <1>4 DEF Leaves, Requested, Rests, Drops, Posts, Begins, Ceases, Free
<1> QED BY <1>3, <1>4

LEMMA ActsKeepPrompts ==
    ASSUME TypeOK, PromptInv, Acts, left' = Left, UNCHANGED <<rowVars, lost>> PROVE PromptInv'
<1> SUFFICES ASSUME NEW g \in All
             PROVE  /\ ~Free(g)' /\ Asking(g)' => Engaged(g)'
                    /\ g \notin lost /\ RowAsks(g)' => Engaged(g)' \/ Superseded(g)'
  BY LeftAreKilled DEF PromptInv
<1>1. RowAsks(g)' <=> RowAsks(g) BY DEF rowVars, RowAsks
<1>2. /\ g \in left /\ g # Main => phase[g] = "killed"
      /\ ~Free(g) /\ Asking(g) => Engaged(g)
      /\ g \notin lost /\ RowAsks(g) => Engaged(g) \/ Superseded(g)
  BY DEF PromptInv
<1>3. Rests(g) \/ Drops(g) \/ Posts(g) \/ Begins(g) \/ Ceases(g) BY ActMoves DEF AgentMoves
<1>4. CASE Rests(g) \/ Drops(g)
  <2>1. hook'[g] = hook[g] BY <1>4 DEF Rests, Drops
  <2> QED BY <1>1, <1>2, <2>1, LeftOpen DEF Free, Asking, Superseded
<1>5. CASE Posts(g) BY <1>5 DEF Posts, Free, Asking, Engaged, Superseded, Requested
<1>6. CASE Begins(g)
  <2>1. ~Engaged(g) BY <1>2, <1>6, RosterNames DEF Begins, Engaged, Requested
  <2> QED BY <1>1, <1>2, <1>6, <2>1 DEF Begins, Free, Asking, Superseded
<1>7. CASE Ceases(g) BY <1>7 DEF Ceases, Free, Asking, Superseded
<1> QED BY <1>3, <1>4, <1>5, <1>6, <1>7

LEMMA IngestKeepsPrompts ==
    ASSUME TypeOK, PromptInv, NEW g \in All, Ingest(g) PROVE PromptInv'
<1>1. left' = left /\ phase' = phase BY DEF Ingest
<1>2. ASSUME NEW h \in All, h # g
      PROVE  /\ Asking(h)' <=> Asking(h)
             /\ Free(h)' <=> Free(h)
             /\ Superseded(h)' <=> Superseded(h)
             /\ RowAsks(h)' <=> RowAsks(h)
  <2>1. hook'[h] = hook[h] BY <1>2, InsertMoves
  <2>2. RowAsks(h)' <=> RowAsks(h)
    BY <1>2, InsertMoves DEF Ingest, MainEvent, SubagentStart, SubagentStop, SubagentEvent,
                            RowAsks, TypeOK, RowTypeOK, All, LifecycleHooks, EventHooks
  <2> QED BY <2>1, <2>2 DEF Asking, Free, Superseded
<1>3. Free(g)' BY InsertMoves DEF Free
<1>4. ASSUME g \notin lost, RowAsks(g)' PROVE Engaged(g)
  <2>1. CASE g = Main
    <3>1. hook[g].kind = "event" /\ hook[g] # None
      BY <2>1, InsertMoves DEF EventHooks
    <3>2. lastEvent' = hook[g].e.type /\ lastNotif' = hook[g].e.notif
      BY <2>1, <3>1 DEF Ingest, MainEvent
    <3>3. Asking(g) BY <1>4, <2>1, <3>1, <3>2 DEF RowAsks, Asking, AsksPermission
    <3> QED BY <3>1, <3>3 DEF PromptInv, Free
  <2>2. CASE g # Main
    <3>1. g \in Agents /\ hook[g] # None /\ subPerms'[g] # None
      BY <1>4, <2>2, InsertMoves DEF RowAsks, All
    <3>2. CASE hook[g].kind = "start"
      <4>1. subPerms' = subPerms BY <3>2 DEF Ingest, SubagentStart
      <4>2. RowAsks(g) /\ ~Superseded(g) BY <2>2, <3>1, <3>2, <4>1 DEF RowAsks, Superseded
      <4> QED BY <1>4, <4>2 DEF PromptInv
    <3>3. CASE hook[g].kind = "stop"
      BY <2>2, <3>1, <3>3 DEF Ingest, SubagentStop, TypeOK, RowTypeOK
    <3>4. CASE hook[g].kind = "event"
      <4>1. subPerms'[g] = PermAfter(g, hook[g].e)
        BY <2>2, <3>1, <3>4 DEF Ingest, SubagentEvent, TypeOK, RowTypeOK
      <4>2. Asking(g) BY <3>1, <3>4, <4>1 DEF PermAfter, Asking
      <4> QED BY <3>1, <4>2 DEF PromptInv, Free
    <3> QED BY <2>2, <3>2, <3>3, <3>4, InsertMoves DEF EventHooks, LifecycleHooks
  <2> QED BY <2>1, <2>2
<1>5. lost' = lost BY InsertMoves
<1> QED BY <1>1, <1>2, <1>3, <1>4, <1>5 DEF PromptInv, Engaged

LEMMA FailKeepsPrompts ==
    ASSUME TypeOK, PromptInv, NEW g \in All, Fail(g) PROVE PromptInv'
<1>1. left' = left /\ phase' = phase /\ \A h \in All : RowAsks(h)' <=> RowAsks(h)
  BY DEF Fail, RowAsks, rowVars
<1>2. \A h \in All : h # g => /\ Asking(h)' <=> Asking(h)
                              /\ Free(h)' <=> Free(h)
                              /\ Superseded(h)' <=> Superseded(h)
  BY FailMoves DEF Asking, Free, Superseded
<1>3. Free(g)' /\ lost' = lost \cup {g} BY FailMoves DEF Free
<1> QED BY <1>1, <1>2, <1>3 DEF PromptInv, Engaged

LEMMA PassKeepsPrompts ==
    ASSUME TypeOK, PromptInv, Pass PROVE PromptInv'
<1>1. ASSUME NEW h \in All
      PROVE  /\ Engaged(h)' <=> Engaged(h)
             /\ phase[h] = "killed" => phase'[h] = "killed"
  BY TimeKeepsHooks DEF Engaged, Requested, Pass
<1>2. \A h \in All : RowAsks(h)' <=> RowAsks(h) BY DEF Pass, Tick, RowAsks
<1>3. \A h \in All : /\ Free(h)' <=> Free(h)
                     /\ ~Free(h) => (Asking(h)' <=> Asking(h))
                     /\ Superseded(h)' <=> Superseded(h)
  BY TimeKeepsHooks DEF Free, Asking, Superseded
<1>4. lost' = lost /\ left' = left BY DEF Pass
<1> QED BY <1>1, <1>2, <1>3, <1>4 DEF PromptInv

LEMMA PromptInvStep ==
    ASSUME TypeOK, PromptInv, [Next]_vars PROVE PromptInv'
<1>1. CASE UNCHANGED vars
  BY <1>1 DEF vars, rowVars, envVars, PromptInv, Engaged, RowAsks, Superseded, Asking, Free
<1> QED BY <1>1, ActsKeepPrompts, IngestKeepsPrompts, FailKeepsPrompts, PassKeepsPrompts DEF Next

(* A request that the row holds of an agent, once that agent's hook has      *)
(* returned and unless one of them failed, is a dialog of that agent, or the *)
(* call it asked for, or one it left open without a word: no other agent's   *)
(* events, no delay and no order of the hooks leaves a request that belongs  *)
(* to nobody, or takes one agent's for another's.                            *)
THEOREM RealPrompts == Spec => []PromptIsReal
<1>1. Init => PromptInv
  BY RosterNames DEF Init, RowInit, PromptInv, Free, RowAsks, All
<1>2. PromptInv => PromptIsReal
  BY DEF PromptInv, PromptIsReal, Superseded, Engaged
<1> QED BY <1>1, <1>2, PromptInvStep, Typing, PTL DEF Spec
-----------------------------------------------------------------------------
(* TaskHoldsRow.  A task its owner waits for is in the row or in the hook    *)
(* that is about to name it; a hook that ends a task names one that is over, *)
(* a restart finds nobody alive, and the stop of a parked agent is stamped   *)
(* within the grace of its launch, however late either hook inserts.         *)

Over(id) == task[id] = None \/ task[id].state = "over"

Starting(g, id) == ~Free(g) /\ hook[g].kind = "event" /\ hook[g].e.start = id

OwnersInv ==
    \A id \in Shells : task[id] # None =>
        /\ task[id].owner \in Agents => phase[task[id].owner] # "off"
        /\ Awaited(id) /\ task[id].owner \notin lost =>
             \/ shells[id] # None /\ shells[id].owner = task[id].owner
             \/ Starting(task[id].owner, id)

EventsInv ==
    \A g \in All, id \in Shells : ~Free(g) /\ hook[g].kind = "event" =>
        /\ hook[g].e.end = id => task[id] # None /\ task[id].state = "over"
        /\ hook[g].e.start = id => task[id] # None /\ task[id].owner = g

Quiescent == (\A g \in Agents : phase[g] \notin SubAlive) /\ \A id \in Shells : Over(id)

Restarts(e) == e.type = "SessionStart" /\ e.source # "compact"

Settled ==
    \/ phase[Main] \in {"off", "dead"}
    \/ ~Free(Main) /\ Restarts(hook[Main].e)

RestartInv == Settled => phase[Main] \in {"off", "dead", "ready"} /\ Quiescent

Recent(g, d) == lastLaunch[g] # None /\ lastLaunch[g] =< d + MaxDelay

ParkInv ==
    \A g \in Agents :
        /\ ~Free(g) /\ hook[g].kind = "stop" =>
              /\ phase[g] \in {"parked", "gone", "killed"}
              /\ g \notin lost /\ phase[g] = "parked" => Recent(g, hook[g].age)
        /\ g \notin lost /\ phase[g] = "launched" =>
              IF Free(g) THEN Recent(g, 0) ELSE \E id \in Shells : Starting(g, id)

TaskInv == OwnersInv /\ EventsInv /\ RestartInv /\ ParkInv

LEMMA SettledAlone ==
    ASSUME NEW g \in Agents, phase[g] \in SubAlive, RestartInv PROVE ~Settled
BY DEF RestartInv, Quiescent

LEMMA ActsKeepRestart ==
    ASSUME TypeOK, TaskInv, Acts PROVE RestartInv'
<1> USE RosterNames DEF All
<1>1. Main \in All /\ EnvTypeOK /\ RestartInv BY DEF TypeOK, TaskInv
<1>2. CASE Launch
  <2> DEFINE e == Event("SessionStart", "", "", "resume", None, None)
  <2>1. phase[Main] \in {"off", "dead"} /\ To(Main, "ready") /\ task' = task
    BY <1>2 DEF Launch
  <2>2. phase'[Main] = "ready" /\ \A g \in Agents : phase'[g] = phase[g]
    BY <1>1, <2>1 DEF To, EnvTypeOK
  <2>3. Settled BY <2>1 DEF Settled
  <2>4. Quiescent BY <1>1, <2>3 DEF RestartInv
  <2> QED BY <2>1, <2>2, <2>4 DEF RestartInv, Quiescent, Over
<1>3. CASE Compact \/ Prompt \/ EndTurn \/ Remind \/ \E id \in Shells : Notified(id)
  <2>1. PICK e \in HookEvents : Fire(Main, "event", e) /\ ~Restarts(e)
    <3>1. CASE Compact BY <3>1, FiredByMain DEF Compact, Restarts, Event
    <3>2. CASE Prompt BY <3>2, FiredByMain DEF Prompt, Restarts, Plain, Event
    <3>3. CASE EndTurn BY <3>3, FiredByMain DEF EndTurn, Restarts, Plain, Event
    <3>4. CASE Remind BY <3>4, FiredByMain DEF Remind, Restarts, Event
    <3>5. ASSUME NEW id \in Shells, Notified(id)
          PROVE  \E e \in HookEvents : Fire(Main, "event", e) /\ ~Restarts(e)
      BY <3>5, FiredByMain DEF Notified, Restarts, Event
    <3> QED BY <1>3, <3>1, <3>2, <3>3, <3>4, <3>5
  <2>2. hook'[Main].e = e BY <1>1, <2>1, FireType
  <2>3. phase'[Main] \notin {"off", "dead"}
    BY <1>1, <1>3 DEF Compact, Prompt, EndTurn, Remind, Notified, To, EnvTypeOK
  <2> QED BY <2>1, <2>2, <2>3 DEF RestartInv, Settled
<1>4. CASE Interrupt
  <2>1. phase[Main] \in {"running", "intool", "dialog", "answered"} /\ phase'[Main] = "ready" /\ hook' = hook
    BY <1>1, <1>4 DEF Interrupt, InCall, To, EnvTypeOK
  <2> QED BY <1>1, <2>1 DEF RestartInv, Settled, Free
<1>5. CASE Exit \/ Crash
  <2>1. Die BY <1>5 DEF Exit, Crash
  <2>2. phase'[Main] = "dead" /\ \A g \in Agents : phase'[g] \notin SubAlive
    BY <2>1 DEF Die, SubAlive
  <2>3. ASSUME NEW id \in Shells PROVE Over(id)'
    <3>1. CASE task[id] = None BY <2>1, <3>1 DEF Die, Over
    <3>2. CASE task[id] # None
      <4>1. task[id] \in TaskRecords BY <1>1, <3>2 DEF EnvTypeOK
      <4>2. task'[id] = [task[id] EXCEPT !.state = "over"] BY <2>1, <3>2 DEF Die
      <4>3. task'[id].state = "over" BY <4>1, <4>2 DEF TaskRecords
      <4> QED BY <4>3 DEF Over
    <3> QED BY <3>1, <3>2
  <2> QED BY <2>2, <2>3 DEF RestartInv, Quiescent
<1>6. ASSUME NEW g \in All, AgentActs(g) PROVE RestartInv'
  <2>1. CASE g = Main
    <3>1. /\ phase[Main] \in {"running", "launched", "intool", "dialog", "answered"}
          /\ phase'[Main] \notin {"off", "dead"}
      BY <1>1, <1>6, <2>1 DEF InCall, AgentActs, CallTool, Ask, Return, StopTask, Background, Nag, Answer,
                              To, EnvTypeOK
    <3>2. UNCHANGED hook \/ \E e \in SubHookEvents : Fire(Main, "event", e)
      BY <1>6, <2>1, FiredByAny DEF AgentActs, CallTool, Ask, Return, StopTask, Background, Nag,
                                    Answer, ToolTypes
    <3>3. ~Settled BY <1>1, <3>1 DEF RestartInv
    <3>4. CASE UNCHANGED hook BY <3>1, <3>3, <3>4 DEF RestartInv, Settled, Free
    <3>5. ASSUME NEW e \in SubHookEvents, Fire(Main, "event", e) PROVE RestartInv'
      <4>1. ~Restarts(e) BY DEF SubHookEvents, ToolTypes, Restarts
      <4>2. hook'[Main].e = e BY <1>1, <3>5, FireType
      <4> QED BY <3>1, <4>1, <4>2 DEF RestartInv, Settled
    <3> QED BY <3>2, <3>4, <3>5
  <2>2. CASE g # Main
    <3>1. phase[g] \in SubAlive
      BY <1>6 DEF InCall, AgentActs, CallTool, Ask, Return, StopTask, Background, Nag, Answer, SubAlive
    <3>2. phase'[Main] = phase[Main] /\ hook'[Main] = hook[Main]
      BY <1>1, <1>6, <2>2 DEF AgentActs, CallTool, Ask, Return, StopTask, Background, Nag, Answer,
                              To, Fire, EnvTypeOK
    <3>3. ~Settled BY <1>1, <2>2, <3>1, SettledAlone
    <3> QED BY <3>2, <3>3 DEF RestartInv, Settled, Free
  <2> QED BY <2>1, <2>2
<1>7. ASSUME NEW g \in Agents, SubActs(g) PROVE RestartInv'
  <2>1. phase'[Main] = phase[Main] /\ hook'[Main] = hook[Main]
    BY <1>1, <1>7 DEF SubActs, Spawn, Park, Finish, Wake, To, Fire, EnvTypeOK
  <2>2. \/ phase[g] \in SubAlive
        \/ phase[Main] \in {"running", "intool", "answered"} /\ Free(Main)
    BY <1>7 DEF InCall, SubActs, Spawn, Park, Finish, Wake, SubAlive
  <2>3. ~Settled BY <1>1, <2>2, SettledAlone DEF Settled
  <2> QED BY <2>1, <2>3 DEF RestartInv, Settled, Free
<1>8. ASSUME NEW id \in Shells, TaskDone(id) PROVE RestartInv'
  <2>1. ~Over(id) /\ phase' = phase /\ hook' = hook BY <1>8 DEF TaskDone, Over
  <2>2. ~Settled BY <1>1, <2>1 DEF RestartInv, Quiescent
  <2> QED BY <2>1, <2>2 DEF RestartInv, Settled, Free
<1> QED BY <1>2, <1>3, <1>4, <1>5, <1>6, <1>7, <1>8 DEF Acts, MainActs

LEMMA ActsKeepTasks ==
    ASSUME TypeOK, TaskInv, Acts, left' = Left, UNCHANGED <<rowVars, lost>> PROVE TaskInv'
<1> USE RosterNames DEF All
<1>1. AgentMoves /\ TaskMoves BY ActMoves
<1>2. shells' = shells /\ lastLaunch' = lastLaunch BY DEF rowVars
<1>3. ASSUME NEW h \in All, ~Free(h)
      PROVE  hook'[h] = hook[h]
  BY <1>1, <1>3 DEF AgentMoves, Rests, Drops, Posts, Begins, Ceases
<1>4. ASSUME NEW h \in Agents, phase[h] # "off"
      PROVE  phase'[h] # "off" /\ (phase'[h] \in SubAlive => phase[h] \in SubAlive)
  BY <1>1, <1>4 DEF AgentMoves, Rests, Drops, Posts, Begins, Ceases, Working, SubAlive
<1>5. OwnersInv'
  <2> SUFFICES ASSUME NEW id \in Shells, task'[id] # None,
                      NEW o \in All, task'[id].owner = o
               PROVE  /\ o \in Agents => phase'[o] # "off"
                      /\ Awaited(id)' /\ o \notin lost =>
                            \/ shells[id] # None /\ shells[id].owner = o
                            \/ Starting(o, id)'
    <3>1. EnvTypeOK' BY EnvTypeStep DEF TypeOK, Next
    <3>2. \A id \in Shells : task'[id] # None => task'[id].owner \in All
      BY <3>1 DEF EnvTypeOK, TaskRecords
    <3> QED BY <1>2, <3>2 DEF OwnersInv, Starting, Free
  <2>1. CASE Opens(id)
    <3>1. PICK h \in All : /\ task'[id].owner = h
                           /\ hook'[h] # None /\ hook'[h].kind = "event"
                           /\ hook'[h].e.start = id /\ phase'[h] # "off"
      BY <2>1 DEF Opens
    <3> QED BY <3>1 DEF Starting, Free
  <2>2. CASE Moves(id)
    <3>1. task[id] # None /\ task[id].owner = o /\ ~Awaited(id)'
      BY <2>2 DEF Moves, Awaited
    <3>2. o \in Agents => phase[o] # "off" BY <3>1 DEF TaskInv, OwnersInv
    <3> QED BY <1>4, <3>1, <3>2
  <2>3. CASE Keeps(id)
    <3>1. task[id] # None /\ task[id].owner = o /\ task'[id] = task[id] BY <2>3 DEF Keeps
    <3>2. o \in Agents => phase[o] # "off" BY <3>1 DEF TaskInv, OwnersInv
    <3>3. Awaited(id)' => Awaited(id) BY <1>4, <3>1, <3>2 DEF Awaited
    <3>4. Awaited(id) /\ o \notin lost => \/ shells[id] # None /\ shells[id].owner = o
                                         \/ Starting(o, id)
      BY <3>1 DEF TaskInv, OwnersInv
    <3>5. Starting(o, id) => Starting(o, id)' BY <1>3 DEF Starting, Free
    <3> QED BY <1>4, <3>2, <3>3, <3>4, <3>5
  <2> QED BY <1>1, <2>1, <2>2, <2>3 DEF TaskMoves
<1>6. EventsInv'
  <2> SUFFICES ASSUME NEW g \in All, NEW id \in Shells, hook'[g] # None, hook'[g].kind = "event"
               PROVE  /\ hook'[g].e.end = id => task'[id] # None /\ task'[id].state = "over"
                      /\ hook'[g].e.start = id => task'[id] # None /\ task'[id].owner = g
    BY DEF EventsInv, Free
  <2>1. CASE hook'[g] = hook[g]
    <3>1. /\ hook[g].e.end = id => task[id] # None /\ task[id].state = "over"
          /\ hook[g].e.start = id => task[id] # None /\ task[id].owner = g
      BY <2>1 DEF TaskInv, EventsInv, Free
    <3>2. Keeps(id) \/ Moves(id) \/ task[id] = None BY <1>1 DEF TaskMoves, Opens
    <3> QED BY <2>1, <3>1, <3>2 DEF Keeps, Moves
  <2>2. CASE Posts(g) BY <2>2 DEF Posts
  <2> QED BY <1>1, <2>1, <2>2 DEF AgentMoves, Rests, Drops, Begins, Ceases
<1>7. ParkInv'
  <2> SUFFICES ASSUME NEW g \in Agents
               PROVE  /\ ~Free(g)' /\ hook'[g].kind = "stop" =>
                            /\ phase'[g] \in {"parked", "gone", "killed"}
                            /\ g \notin lost /\ phase'[g] = "parked" => Recent(g, hook'[g].age)
                      /\ g \notin lost /\ phase'[g] = "launched" =>
                            IF Free(g)' THEN Recent(g, 0) ELSE \E id \in Shells : Starting(g, id)'
    BY <1>2 DEF ParkInv, Recent
  <2>1. /\ ~Free(g) /\ hook[g].kind = "stop" =>
              /\ phase[g] \in {"parked", "gone", "killed"}
              /\ g \notin lost /\ phase[g] = "parked" => Recent(g, hook[g].age)
        /\ g \notin lost /\ phase[g] = "launched" =>
              IF Free(g) THEN Recent(g, 0) ELSE \E id \in Shells : Starting(g, id)
    BY DEF TaskInv, ParkInv
  <2>2. CASE Rests(g) BY <2>1, <2>2 DEF Rests, Free, Starting
  <2>3. CASE Drops(g) BY <2>1, <2>3 DEF Drops, Free
  <2>4. CASE Posts(g)
    <3>1. phase'[g] = "launched" => \E id \in Shells : Starting(g, id)'
      BY <2>4 DEF Posts, Starting, Free
    <3> QED BY <2>4, <3>1 DEF Posts, Free
  <2>5. CASE Begins(g) BY <2>5 DEF Begins, Free
  <2>6. CASE Ceases(g) BY <2>1, <2>6 DEF Ceases, Free
  <2> QED BY <1>1, <2>2, <2>3, <2>4, <2>5, <2>6 DEF AgentMoves
<1> QED BY <1>5, <1>6, <1>7, ActsKeepRestart DEF TaskInv

\* With its phases, its tasks and Main's place kept, a step that only lets
\* hooks return or grow older keeps what EventsInv and RestartInv say.
LEMMA HooksKeepEvents ==
    ASSUME TypeOK, TaskInv, task' = task,
           \A h \in All : phase'[h] # phase[h] => phase[h] = "launched" /\ phase'[h] = "running",
           \A h \in All : hook'[h] # None => /\ hook[h] # None /\ hook'[h].kind = hook[h].kind
                                           /\ hook'[h].e = hook[h].e
    PROVE  EventsInv' /\ RestartInv'
<1>1. EventsInv' BY DEF TaskInv, EventsInv, Free
<1>2. RestartInv'
  <2> SUFFICES ASSUME Settled' PROVE phase'[Main] \in {"off", "dead", "ready"} /\ Quiescent'
    BY DEF RestartInv
  <2>1. phase'[Main] = phase[Main]
    BY DEF TypeOK, EnvTypeOK, All, MainPhases
  <2>2. Settled BY <2>1 DEF Settled, Free, All
  <2>3. phase[Main] \in {"off", "dead", "ready"} /\ Quiescent BY <2>2 DEF TaskInv, RestartInv
  <2>4. Quiescent' BY <2>3 DEF Quiescent, Over, SubAlive, All
  <2> QED BY <2>1, <2>3, <2>4
<1> QED BY <1>1, <1>2

LEMMA IngestKeepsShells ==
    ASSUME TypeOK, TaskInv, NEW g \in All, Ingest(g), NEW id \in Shells,
           NEW o \in All \ lost, task[id] # None, task[id].owner = o, Awaited(id)
    PROVE  \/ shells'[id] # None /\ shells'[id].owner = o
           \/ Starting(o, id)'
<1>1. /\ hook[g] # None /\ hook[g].age \in 0..MaxDelay
      /\ \A h \in All : h # g => hook'[h] = hook[h]
      /\ g = Main => hook[g] \in EventHooks(HookEvents)
      /\ g # Main => hook[g] \in EventHooks(SubHookEvents) \cup LifecycleHooks
  BY InsertMoves
<1>2. \/ shells[id] # None /\ shells[id].owner = o
      \/ Starting(o, id)
  BY DEF TaskInv, OwnersInv
<1>3. o # g /\ Starting(o, id) => Starting(o, id)' BY <1>1 DEF Starting, Free
<1>4. task[id].state = "running" BY DEF Awaited
<1>5. CASE hook[g].kind = "start"
  <2>1. shells' = shells BY <1>5 DEF Ingest, SubagentStart
  <2>2. ~Starting(g, id) BY <1>5 DEF Starting
  <2> QED BY <1>2, <1>3, <2>1, <2>2
<1>6. CASE hook[g].kind = "stop"
  <2>1. g \in Agents /\ g # Main BY <1>1, <1>6, RosterNames DEF EventHooks, All
  <2>2. ~Starting(g, id) BY <1>6 DEF Starting
  <2>3. shells'[id] = IF shells[id] # None /\ shells[id].owner = g /\ ~Parks(g, hook[g].age)
                      THEN None ELSE shells[id]
    BY <1>6, <2>1 DEF Ingest, SubagentStop
  <2>4. CASE o = g
    <3>1. phase[g] \in {"parked", "gone", "killed"} /\ (phase[g] = "parked" => Recent(g, hook[g].age))
      BY <1>1, <1>6, <2>1, <2>4 DEF TaskInv, ParkInv, Free
    <3>2. phase[g] \in SubAlive BY <2>1, <2>4 DEF Awaited
    <3>3. Recent(g, hook[g].age) BY <3>1, <3>2 DEF SubAlive
    <3>4. lastLaunch[g] \in Ages BY <2>1, <3>3 DEF Recent, TypeOK, RowTypeOK
    <3>5. Parks(g, hook[g].age)
      BY <1>1, <3>3, <3>4, RosterTimes, SessionParameters DEF Recent, Parks, Ages
    <3> QED BY <1>2, <2>2, <2>3, <2>4, <3>5
  <2>5. CASE o # g BY <1>2, <1>3, <2>3, <2>5
  <2> QED BY <2>4, <2>5
<1>7. CASE hook[g].kind = "event"
  <2> DEFINE e == hook[g].e
  <2>1. shells'[id] = IF EndsShell(e, id) THEN None
                      ELSE IF e.start = id THEN [age |-> hook[g].age, owner |-> g] ELSE shells[id]
    BY <1>7 DEF Ingest, MainEvent, SubagentEvent, ShellsAfter
  <2>2. ~EndsShell(e, id)
    <3>1. e.end # id BY <1>1, <1>4, <1>7 DEF TaskInv, EventsInv, Free
    <3>2. ~Restarts(e)
      <4>1. CASE g = Main
        BY <1>1, <1>4, <4>1 DEF TaskInv, RestartInv, Settled, Quiescent, Over, Free
      <4>2. CASE g # Main
        <5>1. e \in SubHookEvents BY <1>1, <1>7, <4>2 DEF EventHooks, LifecycleHooks
        <5> QED BY <5>1 DEF SubHookEvents, ToolTypes, Restarts
      <4> QED BY <4>1, <4>2
    <3> QED BY <3>1, <3>2 DEF EndsShell, Restarts
  <2>3. CASE e.start = id
    <3>1. o = g BY <1>1, <1>7, <2>3 DEF TaskInv, EventsInv, Free
    <3> DEFINE r == [age |-> hook[g].age, owner |-> g]
    <3>2. r \in ShellRecords /\ r.owner = g
      BY <1>1, DelayIsAge DEF ShellRecords, All
    <3>3. shells'[id] = r BY <2>1, <2>2, <2>3
    <3> HIDE DEF r
    <3> QED BY <3>1, <3>2, <3>3, NoneIsNoRecord
  <2>4. CASE e.start # id
    <3>1. ~Starting(g, id) BY <2>4 DEF Starting
    <3>2. shells'[id] = shells[id] BY <2>1, <2>2, <2>4
    <3> QED BY <1>2, <1>3, <3>1, <3>2
  <2> QED BY <2>3, <2>4
<1> QED BY <1>1, <1>5, <1>6, <1>7 DEF EventHooks, LifecycleHooks

LEMMA IngestKeepsTasks ==
    ASSUME TypeOK, TaskInv, NEW g \in All, Ingest(g) PROVE TaskInv'
<1>1. /\ hook[g] # None /\ hook'[g] = None /\ UNCHANGED <<phase, task, lost>>
      /\ \A h \in All : h # g => hook'[h] = hook[h]
      /\ hook[g].age \in 0..MaxDelay
  BY InsertMoves
<1>2. EventsInv' /\ RestartInv' BY <1>1, HooksKeepEvents
<1>3. OwnersInv'
  <2> SUFFICES ASSUME NEW id \in Shells, task[id] # None
               PROVE  /\ task[id].owner \in Agents => phase[task[id].owner] # "off"
                      /\ Awaited(id)' /\ task[id].owner \notin lost =>
                           \/ shells'[id] # None /\ shells'[id].owner = task[id].owner
                           \/ Starting(task[id].owner, id)'
    BY <1>1 DEF OwnersInv, Starting, Free
  <2>1. task[id].owner \in All BY DEF TypeOK, EnvTypeOK, TaskRecords
  <2>2. Awaited(id)' <=> Awaited(id) BY <1>1 DEF Awaited
  <2>3. task[id].owner \in Agents => phase[task[id].owner] # "off" BY DEF TaskInv, OwnersInv
  <2>4. ASSUME NEW o \in All \ lost, task[id].owner = o, Awaited(id)
        PROVE  \/ shells'[id] # None /\ shells'[id].owner = o
               \/ Starting(o, id)'
    BY <2>4, IngestKeepsShells
  <2> QED BY <1>1, <2>1, <2>2, <2>3, <2>4 DEF Starting, Free
<1>4. ParkInv'
  <2> SUFFICES ASSUME NEW h \in Agents
               PROVE  /\ ~Free(h)' /\ hook'[h].kind = "stop" =>
                            /\ phase[h] \in {"parked", "gone", "killed"}
                            /\ h \notin lost /\ phase[h] = "parked" => Recent(h, hook[h].age)'
                      /\ h \notin lost /\ phase[h] = "launched" =>
                            IF Free(h)' THEN Recent(h, 0)' ELSE \E id \in Shells : Starting(h, id)'
    BY <1>1 DEF ParkInv, Recent, Starting
  <2>1. /\ ~Free(h) /\ hook[h].kind = "stop" =>
              /\ phase[h] \in {"parked", "gone", "killed"}
              /\ h \notin lost /\ phase[h] = "parked" => Recent(h, hook[h].age)
        /\ h \notin lost /\ phase[h] = "launched" =>
              IF Free(h) THEN Recent(h, 0) ELSE \E id \in Shells : Starting(h, id)
    BY DEF TaskInv, ParkInv
  <2>2. CASE h # g
    <3>1. hook'[h] = hook[h] BY <1>1, <2>2 DEF All
    <3>2. lastLaunch'[h] = lastLaunch[h]
      BY <2>2, InsertMoves DEF Ingest, MainEvent, SubagentStart, SubagentStop, SubagentEvent,
                               TypeOK, RowTypeOK, EventHooks, LifecycleHooks, All
    <3> QED BY <2>1, <3>1, <3>2 DEF Recent, Starting, Free
  <2>3. CASE h = g
    <3>1. Free(h)' BY <1>1, <2>3 DEF Free
    <3>2. ASSUME h \notin lost, phase[h] = "launched" PROVE Recent(h, 0)'
      <4>1. PICK id \in Shells : Starting(h, id) BY <1>1, <2>1, <2>3, <3>2 DEF Free
      <4>2. h # Main /\ hook[h].kind = "event" /\ hook[h].e.start = id
        BY <4>1, RosterNames DEF Starting
      <4>3. id # None BY RosterNames
      <4>4. lastLaunch'[h] = hook[h].age
        BY <2>3, <4>2, <4>3 DEF Ingest, SubagentEvent, TypeOK, RowTypeOK
      <4>5. hook[h].age # None BY <1>1, <2>3, DelayIsAge, RosterTimes DEF Ages
      <4> QED BY <1>1, <2>3, <4>4, <4>5, RosterTimes DEF Recent
    <3> QED BY <3>1, <3>2
  <2> QED BY <2>2, <2>3
<1> QED BY <1>2, <1>3, <1>4 DEF TaskInv

LEMMA FailKeepsTasks ==
    ASSUME TypeOK, TaskInv, NEW g \in All, Fail(g) PROVE TaskInv'
<1>1. /\ hook'[g] = None /\ lost' = lost \cup {g}
      /\ UNCHANGED <<phase, task, shells, lastLaunch>>
      /\ \A h \in All : h # g => hook'[h] = hook[h]
  BY FailMoves DEF rowVars
<1>2. EventsInv' /\ RestartInv' BY <1>1, HooksKeepEvents
<1>3. \A h \in All \ {g}, id \in Shells : Starting(h, id)' <=> Starting(h, id)
  BY <1>1 DEF Starting, Free
<1>4. OwnersInv'
  <2>1. \A id \in Shells : Awaited(id)' <=> Awaited(id) BY <1>1 DEF Awaited
  <2>2. \A id \in Shells : task[id] # None => task[id].owner \in All
    BY DEF TypeOK, EnvTypeOK, TaskRecords
  <2> SUFFICES ASSUME NEW id \in Shells, task[id] # None
               PROVE  /\ task[id].owner \in Agents => phase[task[id].owner] # "off"
                      /\ Awaited(id) /\ task[id].owner \notin lost' =>
                           \/ shells[id] # None /\ shells[id].owner = task[id].owner
                           \/ Starting(task[id].owner, id)'
    BY <1>1, <2>1 DEF OwnersInv, Starting, Free
  <2>3. task[id].owner \in Agents => phase[task[id].owner] # "off" BY DEF TaskInv, OwnersInv
  <2>4. Awaited(id) /\ task[id].owner \notin lost =>
           \/ shells[id] # None /\ shells[id].owner = task[id].owner
           \/ Starting(task[id].owner, id)
    BY DEF TaskInv, OwnersInv
  <2> QED BY <1>1, <1>3, <2>2, <2>3, <2>4
<1>5. ParkInv'
  <2>1. \A h \in Agents \ {g} : /\ Free(h)' <=> Free(h)
                                /\ hook'[h] = hook[h]
    BY <1>1 DEF Free, All
  <2>2. Free(g)' /\ g \in lost' BY <1>1 DEF Free
  <2> QED BY <1>1, <1>3, <2>1, <2>2 DEF TaskInv, ParkInv, Recent, All
<1> QED BY <1>2, <1>4, <1>5 DEF TaskInv

LEMMA PassKeepsTasks ==
    ASSUME TypeOK, TaskInv, Pass PROVE TaskInv'
<1>1. UNCHANGED <<task, lost>> BY DEF Pass
<1>2. \A h \in All : /\ hook[h] = None => hook'[h] = None
                     /\ hook[h] # None => /\ hook'[h] # None /\ hook'[h].kind = hook[h].kind
                                         /\ hook'[h].e = hook[h].e
                                         /\ hook'[h].age = hook[h].age + 1
                     /\ phase'[h] = IF phase[h] = "launched" /\ Free(h) THEN "running" ELSE phase[h]
  BY TimeKeepsHooks
<1>3. EventsInv' /\ RestartInv' BY <1>1, <1>2, HooksKeepEvents
<1>4. \A h \in All : /\ Free(h)' <=> Free(h)
                     /\ \A id \in Shells : Starting(h, id)' <=> Starting(h, id)
  BY <1>2 DEF Starting, Free
<1>5. OwnersInv'
  <2> SUFFICES ASSUME NEW id \in Shells, task[id] # None
               PROVE  /\ task[id].owner \in Agents => phase'[task[id].owner] # "off"
                      /\ Awaited(id)' /\ task[id].owner \notin lost =>
                           \/ shells'[id] # None /\ shells'[id].owner = task[id].owner
                           \/ Starting(task[id].owner, id)'
    BY <1>1 DEF OwnersInv, Starting, Free
  <2>1. task[id].owner \in All BY DEF TypeOK, EnvTypeOK, TaskRecords
  <2>2. task[id].owner \in Agents => phase'[task[id].owner] # "off"
    BY <1>2, <2>1 DEF TaskInv, OwnersInv
  <2>3. Awaited(id)' => Awaited(id) BY <1>1, <1>2, <2>1 DEF Awaited, SubAlive
  <2>4. ASSUME shells[id] # None
        PROVE  shells'[id] # None /\ shells'[id].owner = shells[id].owner
    <3>1. shells[id] \in ShellRecords BY <2>4 DEF TypeOK, RowTypeOK
    <3>2. shells'[id] = [shells[id] EXCEPT !.age = Older(@)] BY <2>4 DEF Pass, Tick
    <3>3. shells'[id] \in ShellRecords /\ shells'[id].owner = shells[id].owner
      BY <3>1, <3>2, OlderOfAge DEF ShellRecords
    <3> QED BY <3>3, NoneIsNoRecord
  <2>5. Awaited(id) /\ task[id].owner \notin lost =>
           \/ shells[id] # None /\ shells[id].owner = task[id].owner
           \/ Starting(task[id].owner, id)
    BY DEF TaskInv, OwnersInv
  <2>6. \A o \in All : Starting(o, id) => Starting(o, id)' BY <1>4
  <2> QED BY <1>1, <2>1, <2>2, <2>3, <2>4, <2>5, <2>6 DEF Starting, Free
<1>6. ParkInv'
  <2> SUFFICES ASSUME NEW h \in Agents, h \in All
               PROVE  /\ ~Free(h)' /\ hook'[h].kind = "stop" =>
                            /\ phase'[h] \in {"parked", "gone", "killed"}
                            /\ h \notin lost /\ phase'[h] = "parked" => Recent(h, hook[h].age)'
                      /\ h \notin lost /\ phase'[h] = "launched" =>
                            ~Free(h)' /\ \E id \in Shells : Starting(h, id)'
    BY <1>1 DEF ParkInv, Recent, Starting, All
  <2>1. /\ ~Free(h) /\ hook[h].kind = "stop" =>
              /\ phase[h] \in {"parked", "gone", "killed"}
              /\ h \notin lost /\ phase[h] = "parked" => Recent(h, hook[h].age)
        /\ h \notin lost /\ phase[h] = "launched" =>
              IF Free(h) THEN Recent(h, 0) ELSE \E id \in Shells : Starting(h, id)
    BY DEF TaskInv, ParkInv
  <2>2. ASSUME ~Free(h), Recent(h, hook[h].age) PROVE Recent(h, hook[h].age)'
    <3>1. lastLaunch[h] \in Ages /\ lastLaunch[h] =< hook[h].age + MaxDelay
      BY <2>2 DEF Recent, TypeOK, RowTypeOK
    <3>2. lastLaunch'[h] = Older(lastLaunch[h]) BY DEF Pass, Tick
    <3>3. Older(lastLaunch[h]) \in Ages BY <3>1, OlderOfAge
    <3>4. hook[h].age \in Int
      BY <2>2 DEF TypeOK, EnvTypeOK, EventHooks, LifecycleHooks, Free
    <3>5. Older(lastLaunch[h]) =< (hook[h].age + 1) + MaxDelay
      BY <3>1, <3>4, RosterTimes DEF Older, Ages
    <3>6. hook'[h].age = hook[h].age + 1 BY <1>2, <2>2 DEF Free
    <3> QED BY <3>2, <3>3, <3>5, <3>6, RosterTimes DEF Recent, Ages
  <2> QED BY <1>2, <1>4, <2>1, <2>2 DEF Free
<1> QED BY <1>3, <1>5, <1>6 DEF TaskInv

LEMMA TaskInvStep ==
    ASSUME TypeOK, TaskInv, [Next]_vars PROVE TaskInv'
<1>1. CASE UNCHANGED vars
  <2>1. UNCHANGED <<phase, task, hook, lost, shells, lastLaunch>>
    BY <1>1 DEF vars, rowVars, envVars
  <2>2. OwnersInv' BY <2>1 DEF TaskInv, OwnersInv, Awaited, Starting, Free
  <2>3. EventsInv' BY <2>1 DEF TaskInv, EventsInv, Free
  <2>4. RestartInv' BY <2>1 DEF TaskInv, RestartInv, Settled, Quiescent, Over, Free
  <2>5. ParkInv' BY <2>1 DEF TaskInv, ParkInv, Recent, Starting, Free
  <2> QED BY <2>2, <2>3, <2>4, <2>5 DEF TaskInv
<1> QED BY <1>1, ActsKeepTasks, IngestKeepsTasks, FailKeepsTasks, PassKeepsTasks DEF Next

(* While a live agent, whose hooks got through and have returned, waits for  *)
(* its background task, the row is not waiting on the user: no delay up to   *)
(* the grace and no order of the hooks of launch, stop, end and restart      *)
(* drops the task early.                                                     *)
THEOREM HeldTasks == Spec => []TaskHoldsRow
<1>1. Init => TaskInv
  BY DEF Init, TaskInv, OwnersInv, EventsInv, RestartInv, Quiescent, Over, SubAlive, ParkInv,
         Free, All
<1>2. TaskInv => TaskHoldsRow
  <2> SUFFICES ASSUME TaskInv, NEW id \in Shells, Awaited(id), Free(task[id].owner),
                      task[id].owner \notin lost
               PROVE  Status.label # "waiting for you"
    BY DEF TaskHoldsRow
  <2>1. shells[id] # None BY DEF TaskInv, OwnersInv, Awaited, Starting
  <2>2. RunningShells # {} BY <2>1 DEF RunningShells
  <2> QED BY <2>2 DEF Status, Status0
<1> QED BY <1>1, <1>2, TaskInvStep, Typing, PTL DEF Spec
=============================================================================
