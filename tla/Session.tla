------------------------------ MODULE Session ------------------------------
(***************************************************************************)
(* A Claude Code session, the hooks it fires and the row they produce.      *)
(*                                                                         *)
(* The session is outside this repository: it is modelled from what the     *)
(* fold in store.go relies on (its comments at 699-705, 869-889, 906-919    *)
(* and 934-947) and from the hooks init.go wires up.  Each agent, the main  *)
(* one or a subagent, waits for its own hook to return (init.go installs    *)
(* synchronous hooks), but the hooks of different agents are processes      *)
(* that run concurrently: each stamps its event when it starts and inserts  *)
(* it up to MaxDelay later, in any order.  A hook may also fail to insert   *)
(* (runIngest then exits 0 and nobody is told).                             *)
(***************************************************************************)
EXTENDS Roster

CONSTANTS
    Lossy,   \* the agents whose hooks may fail
    Resumes  \* an ended or killed session may be resumed under the same id

ASSUME SessionParameters ==
    /\ Lossy \subseteq Agents \cup {Main} /\ Resumes \in BOOLEAN
    /\ MaxDelay =< LaunchGrace

VARIABLES
    phase,  \* what each agent is doing
    task,   \* background tasks: None, or their owner and state
    hook,   \* the running hook process of each agent, or None
    lost,   \* history: the agents one of whose hooks has failed
    left    \* history: the agents that left a request open, and were not heard from since

envVars == <<phase, task, hook, lost, left>>
vars    == <<rowVars, envVars>>

All == Agents \cup {Main}

(* off: not started; dead: ended or killed; ready: at the prompt, no turn    *)
(* ended; stopped: a turn ended; running: in a turn; intool: in a call;      *)
(* dialog, answered: in a call that asked, and has not or has been answered; *)
(* launched: running, and a background launch was its last act; parked:      *)
(* stopped on its own task; gone: finished; killed: died without a word.     *)
MainPhases == {"off", "dead", "ready", "stopped", "running", "intool", "dialog", "answered"}
SubPhases  == {"off", "running", "launched", "intool", "dialog", "answered", "parked", "gone", "killed"}
SubAlive   == {"running", "launched", "intool", "dialog", "answered", "parked"}

\* In a call, and in one that was asked for.
InCall    == {"intool", "answered"}
Requested == {"dialog", "answered"}

TaskRecords == [owner : All, state : {"running", "done", "over"}]

\* A task is not the absence of one.
ASSUME NoneIsNoTask == None \notin TaskRecords

\* An agent is free to act once its previous hook returned.
Free(g) == hook[g] = None

Fire(g, kind, e) ==
    /\ Free(g)
    /\ hook' = [hook EXCEPT ![g] = [kind |-> kind, e |-> e, age |-> 0]]

To(g, p) == phase' = [phase EXCEPT ![g] = p]

-----------------------------------------------------------------------------
(* The main agent. *)

\* claude starts, or resumes the session id it had.
Launch ==
    /\ phase[Main] = "off" \/ (Resumes /\ phase[Main] = "dead")
    /\ To(Main, "ready")
    /\ Fire(Main, "event", Event("SessionStart", "", "", "resume", None, None))
    /\ UNCHANGED task

Compact ==
    /\ phase[Main] = "running" /\ UNCHANGED <<phase, task>>
    /\ Fire(Main, "event", Event("SessionStart", "", "", "compact", None, None))

Prompt ==
    /\ phase[Main] \in {"ready", "stopped"} /\ To(Main, "running")
    /\ Fire(Main, "event", Plain("UserPromptSubmit"))
    /\ UNCHANGED task

\* A finished task of the main agent re-invokes it.
Notified(id) ==
    /\ task[id] = [owner |-> Main, state |-> "done"]
    /\ phase[Main] \in {"ready", "stopped", "running"} /\ To(Main, "running")
    /\ Fire(Main, "event", Event("UserPromptSubmit", "", "", "", None, id))
    /\ task' = [task EXCEPT ![id].state = "over"]

EndTurn ==
    /\ phase[Main] = "running" /\ To(Main, "stopped")
    /\ Fire(Main, "event", Plain("Stop"))
    /\ UNCHANGED task

\* The reminder fired about a minute after a turn ended.
Remind ==
    /\ phase[Main] = "stopped"
    /\ Fire(Main, "event", Event("Notification", "", "idle_prompt", "", None, None))
    /\ UNCHANGED <<phase, task>>

\* Esc: the call or the dialog is dropped and no hook fires.
Interrupt ==
    /\ phase[Main] \in {"running", "dialog"} \cup InCall /\ To(Main, "ready")
    /\ UNCHANGED <<task, hook>>

\* Every subagent and task dies with the process.
Die ==
    /\ phase' = [g \in All |-> IF g = Main THEN "dead"
                               ELSE IF phase[g] \in SubAlive THEN "killed" ELSE phase[g]]
    /\ task' = [id \in Shells |-> IF task[id] = None THEN None
                                  ELSE [task[id] EXCEPT !.state = "over"]]

Exit ==
    /\ phase[Main] \in {"ready", "stopped"} /\ Die
    /\ Fire(Main, "event", Plain("SessionEnd"))

Crash ==
    /\ phase[Main] \notin {"off", "dead"} /\ Die
    /\ UNCHANGED hook

-----------------------------------------------------------------------------
(* Any agent's tool calls. *)

\* A call that names a task is StopTask; otherwise it is like any other.
CallTool(g, tool) ==
    /\ phase[g] \in {"running", "launched"} /\ To(g, "intool")
    /\ Fire(g, "event", ToolUse("PreToolUse", tool))
    /\ UNCHANGED task

StopTask(g, id) ==
    /\ phase[g] \in {"running", "launched"} /\ To(g, "intool")
    /\ task[id] # None /\ task[id].state # "over"
    /\ "TaskStop" \in Tools
    /\ Fire(g, "event", Event("PreToolUse", "TaskStop", "", "", None, id))
    /\ task' = [task EXCEPT ![id].state = "over"]

Ask(g, tool) ==
    /\ phase[g] \in InCall /\ To(g, "dialog")
    /\ Fire(g, "event", ToolUse("PermissionRequest", tool))
    /\ UNCHANGED task

\* The permission_prompt notification that trails a request.
Nag(g) ==
    /\ phase[g] = "dialog"
    /\ Fire(g, "event", Event("Notification", "", "permission_prompt", "", None, None))
    /\ UNCHANGED <<phase, task>>

Answer(g) ==
    /\ phase[g] = "dialog" /\ To(g, "answered")
    /\ UNCHANGED <<task, hook>>

Return(g, tool) ==
    /\ phase[g] \in InCall /\ To(g, "running")
    /\ Fire(g, "event", ToolUse("PostToolUse", tool))
    /\ UNCHANGED task

\* A call that leaves a task running in the background.
Background(g, id) ==
    /\ phase[g] \in InCall /\ To(g, IF g = Main THEN "running" ELSE "launched")
    /\ task[id] = None
    /\ \E tool \in Launching : Fire(g, "event", Event("PostToolUse", tool, "", "", id, None))
    /\ task' = [task EXCEPT ![id] = [owner |-> g, state |-> "running"]]

TaskDone(id) ==
    /\ task[id] # None /\ task[id].state = "running"
    /\ task' = [task EXCEPT ![id].state = "done"]
    /\ UNCHANGED <<phase, hook>>

-----------------------------------------------------------------------------
(* Subagents. *)

Spawn(g) ==
    /\ phase[Main] \in {"running"} \cup InCall /\ Free(Main)
    /\ phase[g] = "off" /\ To(g, "running")
    /\ Fire(g, "start", None)
    /\ UNCHANGED task

Park(g) ==
    /\ phase[g] = "launched" /\ To(g, "parked")
    /\ Fire(g, "stop", None)
    /\ UNCHANGED task

Finish(g) ==
    /\ phase[g] \in {"running", "launched"} /\ To(g, "gone")
    /\ Fire(g, "stop", None)
    /\ UNCHANGED task

Wake(g, id) ==
    /\ phase[g] = "parked" /\ To(g, "running")
    /\ task[id] = [owner |-> g, state |-> "done"]
    /\ Fire(g, "start", None)
    /\ task' = [task EXCEPT ![id].state = "over"]

-----------------------------------------------------------------------------
(* The hook processes. *)

\* The hook of g inserts its event: the row's fold takes one step.
Ingest(g) ==
    /\ hook[g] # None
    /\ hook' = [hook EXCEPT ![g] = None]
    /\ CASE hook[g].kind = "start" -> SubagentStart(g, hook[g].age)
         [] hook[g].kind = "stop"  -> SubagentStop(g, hook[g].age)
         [] OTHER -> IF g = Main THEN MainEvent(hook[g].e, hook[g].age)
                                 ELSE SubagentEvent(g, hook[g].e, hook[g].age)
    /\ UNCHANGED <<phase, task, lost, left>>

\* runIngest exits 0 on an error: the event is gone.
Fail(g) ==
    /\ g \in Lossy /\ hook[g] # None
    /\ hook' = [hook EXCEPT ![g] = None]
    /\ lost' = lost \cup {g}
    /\ UNCHANGED <<phase, task, left, rowVars>>

\* Mutant: nothing bounds how late a hook inserts its event.
MutPass ==
    /\ Tick
    /\ hook' = [g \in All |-> IF hook[g] = None THEN None ELSE [hook[g] EXCEPT !.age = @ + 1]]
    /\ UNCHANGED <<phase, task, lost, left>>

\* A hook that outlives MaxDelay is killed, so time waits for it to end; an
\* agent that outlives the instant of its launch did not park on it.
Pass ==
    /\ Tick
    /\ \A g \in All : hook[g] # None => hook[g].age < MaxDelay
    /\ hook' = [g \in All |-> IF hook[g] = None THEN None ELSE [hook[g] EXCEPT !.age = @ + 1]]
    /\ phase' = [g \in All |-> IF phase[g] = "launched" /\ Free(g) THEN "running" ELSE phase[g]]
    /\ UNCHANGED <<task, lost, left>>

-----------------------------------------------------------------------------
MainActs ==
    \/ Launch \/ Compact \/ Prompt \/ EndTurn \/ Remind \/ Interrupt \/ Exit \/ Crash
    \/ \E id \in Shells : Notified(id)

AgentActs(g) ==
    \/ \E tool \in Tools \ Naming : CallTool(g, tool) \/ Ask(g, tool) \/ Return(g, tool)
    \/ \E id \in Shells : StopTask(g, id) \/ Background(g, id)
    \/ Nag(g) \/ Answer(g)

SubActs(g) == Spawn(g) \/ Park(g) \/ Finish(g) \/ \E id \in Shells : Wake(g, id)

Acts ==
    \/ MainActs
    \/ \E g \in All : AgentActs(g)
    \/ \E g \in Agents : SubActs(g)
    \/ \E id \in Shells : TaskDone(id)

\* Interrupted, or killed with the process, in a call it had asked for.
Leaves(g) == phase[g] \in Requested /\ phase'[g] \notin Requested

\* The next hook of an agent tells the row that its request is settled.
Left == {g \in All : hook'[g] = hook[g] /\ (g \in left \/ Leaves(g))}

Init ==
    /\ RowInit
    /\ phase = [g \in All |-> "off"]
    /\ task = [id \in Shells |-> None]
    /\ hook = [g \in All |-> None]
    /\ lost = {} /\ left = {}

Next ==
    \/ Acts /\ left' = Left /\ UNCHANGED <<rowVars, lost>>
    \/ \E g \in All : Ingest(g) \/ Fail(g)
    \/ Pass

Spec == Init /\ [][Next]_vars

-----------------------------------------------------------------------------
(* Properties. *)

Pending == {g \in All : ~Free(g)}

EventHooks(events) == [kind : {"event"}, e : events, age : 0..MaxDelay]
LifecycleHooks     == [kind : {"start", "stop"}, e : {None}, age : 0..MaxDelay]

\* A running hook is not the absence of one.
ASSUME NoneIsNoHook == None \notin EventHooks(HookEvents) \cup LifecycleHooks

EnvTypeOK ==
    /\ phase \in [All -> MainPhases \cup SubPhases]
    /\ phase[Main] \in MainPhases
    /\ \A g \in Agents : phase[g] \in SubPhases
    /\ task \in [Shells -> TaskRecords \cup {None}]
    /\ hook \in [All -> EventHooks(HookEvents) \cup LifecycleHooks \cup {None}]
    /\ hook[Main] \in EventHooks(HookEvents) \cup {None}
    /\ \A g \in Agents : hook[g] \in EventHooks(SubHookEvents) \cup LifecycleHooks \cup {None}

TypeOK == RowTypeOK /\ EnvTypeOK /\ lost \subseteq Lossy /\ left \subseteq All

(* store.go:939 - a permission dialog open on any agent blocks on the user:  *)
(* once its hook has returned, the row wants the user until it is answered,  *)
(* whatever the other agents, their tasks and their late hooks do meanwhile. *)
DialogShown ==
    \A g \in All : phase[g] = "dialog" /\ Free(g) /\ {g, Main} \cap lost = {} => WantsUser

\* Its owner, still alive, is going to be woken by the task.
Awaited(id) ==
    /\ task[id] # None /\ task[id].state = "running"
    /\ task[id].owner = Main \/ phase[task[id].owner] \in SubAlive

(* store.go:1001 - a turn that ended with a background task still running is *)
(* not waiting on the user, also when the task belongs to a subagent parked  *)
(* on it; a compaction, or a restart of the session id, makes no difference. *)
TaskHoldsRow ==
    \A id \in Shells :
        Awaited(id) /\ Free(task[id].owner) /\ task[id].owner \notin lost
        => Status.label # "waiting for you"

\* The row holds a request of g.
RowAsks(g) ==
    IF g = Main THEN \/ lastEvent = "PermissionRequest"
                     \/ lastEvent = "Notification" /\ lastNotif = "permission_prompt"
    ELSE subPerms[g] # None

(* store.go:942 - a request is held aside only until its agent's next event: *)
(* with that agent's hook returned, a row that holds a request of an agent   *)
(* stands for a dialog of that very agent, or for the call it was asked for, *)
(* unless the agent left it open, interrupted or killed with the process,    *)
(* and was not heard from since: such a request stays, by the comment at     *)
(* store.go:945, for want of an event that would clear it.                   *)
PromptIsReal ==
    \A g \in All \ lost :
        OnBoard /\ Free(g) /\ RowAsks(g) => phase[g] \in Requested \/ g \in left
=============================================================================
