------------------------------- MODULE Restart -------------------------------
(***************************************************************************)
(* The exchange of broadcast-restart with one row's pane (runRestart,       *)
(* action.go): /exit, wait for a shell, Escape out of nono's review if that *)
(* is what the pane waits at, check the shell's directory, type the resume  *)
(* command and wait for the pane to leave the shell.  Module Actions says   *)
(* which rows are restarted and under which locks.                          *)
(*                                                                         *)
(* Each step is a call to tmux, which may fail, or time out after it took   *)
(* effect; in between, the pane moves on: claude exits early, late or not   *)
(* at all, nono holds the pane for its review, the resumed claude fails to  *)
(* start or dies, and the user types as well.  Waits are counted in polls.  *)
(***************************************************************************)
EXTENDS Naturals

CONSTANTS
    ExitWait,    \* restartExitWait
    ResumeWait   \* restartResumeWait

ASSUME RestartParameters == {ExitWait, ResumeWait} \subseteq Nat

VARIABLES
    front,   \* what the pane shows: claude, nono's review, a shell, another program
    dir,     \* whether the pane's directory is the one the session was launched in
    at,      \* the call the restart is to make next
    left,    \* the polls left in the wait
    report,  \* what the restart last reported
    typed,   \* the keys that reached the pane
    moved,   \* history: front and dir, if changed since the restart last saw them
    held     \* history: once the resume was typed, the pane was not at a shell

vars == <<front, dir, at, left, report, typed, moved, held>>
paneVars == <<front, dir, held>>

-----------------------------------------------------------------------------
Waits(step, polls) == at' = step /\ left' = polls /\ UNCHANGED report
Goes(step) == Waits(step, 0)
Reports(what) == at' = "idle" /\ report' = what /\ left' = 0

Blind == UNCHANGED moved
Sees(what) == moved' = moved \ {what}

-----------------------------------------------------------------------------
(* What a restart does to its pane: pollShell reads the foreground command,  *)
(* and runTmux types.                                                        *)

\* Mutant: whatever is not a shell's name, an empty read too, counts as no shell.
MutProbe(step, atShell, matched, gaveUp) ==
    /\ at = step
    /\ \/ (front = "shell") = atShell /\ matched /\ Sees("front")
       \/ ~atShell /\ matched /\ Blind
       \/ /\ Sees("front") \/ Blind
          /\ IF left = 0 THEN gaveUp ELSE \E n \in 0 .. left - 1 : Waits(step, n)
    /\ UNCHANGED <<paneVars, typed>>

\* Mutant: the deadline is set anew at every probe.
MutProbeWait(step, atShell, matched, gaveUp) ==
    /\ at = step
    /\ \/ (front = "shell") = atShell /\ matched /\ Sees("front")
       \/ /\ \/ (front = "shell") # atShell /\ Sees("front")
             \/ Blind
          /\ IF left = 0 THEN gaveUp ELSE \E n \in 0 .. ResumeWait : Waits(step, n)
    /\ UNCHANGED <<paneVars, typed>>

\* A read that fails, times out or is empty matches neither way.  Time passes
\* between two probes, and the last one comes when none is left: a wait of zero
\* is one probe.
Probe(step, atShell, matched, gaveUp) ==
    /\ at = step
    /\ \/ (front = "shell") = atShell /\ matched /\ Sees("front")
       \/ /\ \/ (front = "shell") # atShell /\ Sees("front")
             \/ Blind
          /\ IF left = 0 THEN gaveUp ELSE \E n \in 0 .. left - 1 : Waits(step, n)
    /\ UNCHANGED <<paneVars, typed>>

\* send-keys reports success only for keys that reached the pane.
Types(step, keys, succeeded) ==
    /\ at = step
    /\ \/ /\ typed' = typed \cup {keys}
          /\ held' = (keys = "resume" /\ front # "shell")
          /\ succeeded \/ Reports("tmux error")
       \/ Reports("tmux error") /\ UNCHANGED <<typed, held>>
    /\ UNCHANGED <<front, dir, moved>>

-----------------------------------------------------------------------------
(* runRestart, on a pane that a row on the roster was last heard from.       *)

Begin ==
    /\ at = "idle"
    /\ at' = "probe" /\ left' = 0 /\ report' = "none"
    /\ typed' = {} /\ moved' = {} /\ held' = FALSE
    /\ UNCHANGED <<front, dir>>

ProbeFirst == Probe("probe", TRUE, Reports("at a shell"), Goes("exit"))

SendExit == Types("exit", "/exit", Waits("exiting", ExitWait))

AwaitExit == Probe("exiting", TRUE, Goes("path"), Goes("capture"))

\* Mutant: a pane that is not back at a shell is taken to be at the review.
MutCaptureReview ==
    /\ at = "capture"
    /\ \/ Goes("escape") /\ Sees("front")
       \/ Reports("still running") /\ Blind
    /\ UNCHANGED <<paneVars, typed>>

\* nonoReviewOnScreen; a capture that fails is as one that shows no review.
CaptureReview ==
    /\ at = "capture"
    /\ \/ front = "review" /\ Goes("escape") /\ Sees("front")
       \/ front # "review" /\ Reports("still running") /\ Sees("front")
       \/ Reports("still running") /\ Blind
    /\ UNCHANGED <<paneVars, typed>>

SendEscape == Types("escape", "Escape", Waits("closing", ResumeWait))

AwaitClose == Probe("closing", TRUE, Goes("path"), Reports("review open"))

\* Mutant: the shell's directory is not looked at.
MutCheckPath ==
    /\ at = "path"
    /\ Goes("resume") \/ Reports("tmux error")
    /\ Sees("dir")
    /\ UNCHANGED <<paneVars, typed>>

CheckPath ==
    /\ at = "path"
    /\ \/ dir /\ Goes("resume") /\ Sees("dir")
       \/ ~dir /\ Reports("elsewhere") /\ Sees("dir")
       \/ Reports("tmux error") /\ Blind
    /\ UNCHANGED <<paneVars, typed>>

SendResume == Types("resume", "resume", Waits("resuming", ResumeWait))

AwaitResume == Probe("resuming", FALSE, Reports("sent"), Reports("did not resume"))

Step ==
    \/ ProbeFirst \/ SendExit \/ AwaitExit \/ CaptureReview \/ SendEscape
    \/ AwaitClose \/ CheckPath \/ SendResume \/ AwaitResume

-----------------------------------------------------------------------------
(* The pane, on its own or by its user's hand, whether or not keys arrived.  *)

Shows(what) ==
    /\ front' = what
    /\ moved' = moved \cup {"front"}
    /\ UNCHANGED <<dir, at, left, report, typed>>

\* claude, nono's review or another program exits.
LeaveToShell == front # "shell" /\ Shows("shell") /\ UNCHANGED held

\* claude exits, and nono asks about the paths it denied.
LeaveToReview == front = "claude" /\ Shows("review") /\ UNCHANGED held

\* A program starts in the shell: the claude resumed, or what the user runs.
Start ==
    /\ front = "shell"
    /\ \E program \in {"claude", "other"} : Shows(program)
    /\ IF "resume" \in typed THEN held' = TRUE ELSE UNCHANGED held

ChangeDir ==
    /\ front = "shell"
    /\ dir' = ~dir
    /\ moved' = moved \cup {"dir"}
    /\ UNCHANGED <<front, at, left, report, typed, held>>

Pane == LeaveToShell \/ LeaveToReview \/ Start \/ ChangeDir

-----------------------------------------------------------------------------
Init ==
    /\ front \in {"claude", "review", "shell", "other"}
    /\ dir \in BOOLEAN
    /\ at = "idle" /\ left = 0 /\ report = "none"
    /\ typed = {} /\ moved = {} /\ held = FALSE

Next == Begin \/ Step \/ Pane

Spec == Init /\ [][Next]_vars

\* Each call to tmux returns, or is cut off at its timeout.
FairSpec == Spec /\ WF_vars(Step)

-----------------------------------------------------------------------------
Steps == {"idle", "probe", "exit", "exiting", "capture", "escape", "closing",
          "path", "resume", "resuming"}
Reported == {"none", "at a shell", "still running", "review open", "elsewhere",
             "tmux error", "did not resume", "sent"}
AllKeys == {"/exit", "Escape", "resume"}

\* Every variable holds a value of its kind.
TypeOK ==
    /\ front \in {"claude", "review", "shell", "other"}
    /\ dir \in BOOLEAN /\ held \in BOOLEAN
    /\ at \in Steps /\ report \in Reported
    /\ left \in Nat
    /\ typed \subseteq AllKeys
    /\ moved \subseteq {"front", "dir"}

\* What the dashboard shows of a restart is what happened to the pane: nothing
\* was typed, or no more than that, or, for a restart counted as sent, the pane
\* left its shell after the resume (action.go:1209: "a tmux error cannot pass for
\* an exit or a resume").
ReportIsTrue ==
    /\ report = "at a shell" => typed = {}
    /\ report = "still running" => typed = {"/exit"}
    /\ report = "review open" => typed = {"/exit", "Escape"}
    /\ report = "elsewhere" => "resume" \notin typed
    /\ report = "sent" => "resume" \in typed /\ held

Arrives(keys) == keys \notin typed /\ keys \in typed'

\* However late claude exits, Escape is typed at nono's review alone, and the
\* resume command at a shell alone, never at the review, whose Enter would grant
\* what was denied, and in the directory the session was launched in: unless the
\* pane moved once more between the last look at it and the keys.
KeysLandWhereMeant ==
    [][/\ Arrives("Escape") => front = "review" \/ "front" \in moved
       /\ Arrives("resume") => /\ front = "shell" \/ "front" \in moved
                               /\ dir \/ "dir" \in moved]_vars

\* Every restart comes to an end, whatever the pane does meanwhile.
Returns == at # "idle" ~> at = "idle"
=============================================================================
