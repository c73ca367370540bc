---------------------------- MODULE RestartProofs ----------------------------
(***************************************************************************)
(* Proofs about Restart, for every length of its waits: what a restart      *)
(* reports is true, and its keys land where they are meant to.              *)
(***************************************************************************)
EXTENDS Restart, TLAPS

\* What has been typed when a call is to be made.
TypedSoFar ==
    /\ at \in {"probe", "exit"} => typed = {}
    /\ at \in {"exiting", "capture", "escape"} => typed = {"/exit"}
    /\ at = "closing" => typed = {"/exit", "Escape"}
    /\ at \in {"path", "resume"} => typed \subseteq {"/exit", "Escape"}
    /\ at = "resuming" => "resume" \in typed /\ (front = "shell" \/ held)

\* What has been seen of the pane by then, if it did not move since.
SeenSoFar ==
    /\ at = "escape" => front = "review" \/ "front" \in moved
    /\ at \in {"path", "resume"} => front = "shell" \/ "front" \in moved
    /\ at = "resume" => dir \/ "dir" \in moved

RestartInv ==
    /\ TypeOK
    /\ TypedSoFar
    /\ SeenSoFar
    /\ at # "idle" => report = "none"
    /\ ReportIsTrue

LEMMA InitInv == Init => RestartInv
<1> SUFFICES ASSUME Init PROVE RestartInv
    OBVIOUS
<1>1. TypeOK
    BY DEF Init, TypeOK, Steps, Reported, AllKeys
<1>2. TypedSoFar /\ SeenSoFar /\ ReportIsTrue
    BY DEF Init, TypedSoFar, SeenSoFar, ReportIsTrue
<1> QED BY <1>1, <1>2 DEF RestartInv, Init

\* A probe that keeps waiting.
LEMMA ProbeAgain ==
    ASSUME left \in Nat, NEW n \in 0 .. left - 1
    PROVE  n \in Nat
OBVIOUS

LEMMA StepTyping == TypeOK /\ [Next]_vars => TypeOK'
<1> SUFFICES ASSUME TypeOK, [Next]_vars PROVE TypeOK'
    OBVIOUS
<1> USE RestartParameters DEF TypeOK, Steps, Reported, AllKeys
<1>w. ASSUME NEW step \in Steps, NEW n \in Nat, Waits(step, n)
      PROVE  at' \in Steps /\ left' \in Nat /\ report' \in Reported
    BY <1>w DEF Waits
<1>g. ASSUME NEW step \in Steps, Goes(step)
      PROVE  at' \in Steps /\ left' \in Nat /\ report' \in Reported
    BY <1>g DEF Goes, Waits
<1>r. ASSUME NEW what \in Reported, Reports(what)
      PROVE  at' \in Steps /\ left' \in Nat /\ report' \in Reported
    BY <1>r DEF Reports
<1>k. ASSUME Sees("front") \/ Sees("dir") \/ Blind
      PROVE  moved' \subseteq {"front", "dir"}
    BY <1>k DEF Sees, Blind
<1>1. CASE Begin
    BY <1>1 DEF Begin
<1>2. CASE Pane
    <2>1. /\ UNCHANGED <<at, left, report, typed>>
          /\ front' \in {"claude", "review", "shell", "other"}
          /\ moved' \subseteq {"front", "dir"}
        BY <1>2 DEF Pane, LeaveToShell, LeaveToReview, Start, ChangeDir, Shows
    <2>2. dir' \in BOOLEAN
        BY <1>2 DEF Pane, LeaveToShell, LeaveToReview, Start, ChangeDir, Shows
    <2>3. held' \in BOOLEAN
        BY <1>2 DEF Pane, LeaveToShell, LeaveToReview, Start, ChangeDir
    <2> QED BY <2>1, <2>2, <2>3
<1>3. CASE UNCHANGED vars
    BY <1>3 DEF vars
<1>4. CASE ProbeFirst \/ AwaitExit \/ AwaitClose \/ AwaitResume
    <2>1. UNCHANGED <<front, dir, held, typed>>
        BY <1>4 DEF ProbeFirst, AwaitExit, AwaitClose, AwaitResume, Probe, paneVars
    <2>2. moved' \subseteq {"front", "dir"}
        BY <1>4, <1>k DEF ProbeFirst, AwaitExit, AwaitClose, AwaitResume, Probe
    <2>3. at' \in Steps /\ left' \in Nat /\ report' \in Reported
        <3>1. CASE \E step \in Steps, n \in 0 .. left - 1 : left # 0 /\ Waits(step, n)
            BY <3>1, <1>w, ProbeAgain
        <3>2. CASE \E what \in Reported : Reports(what)
            BY <3>2, <1>r
        <3>3. CASE \E step \in Steps : Goes(step)
            BY <3>3, <1>g
        <3>4. CASE ProbeFirst
            BY <3>1, <3>2, <3>3, <3>4 DEF ProbeFirst, Probe
        <3>5. CASE AwaitExit
            BY <3>1, <3>2, <3>3, <3>5 DEF AwaitExit, Probe
        <3>6. CASE AwaitClose
            BY <3>1, <3>2, <3>3, <3>6 DEF AwaitClose, Probe
        <3>7. CASE AwaitResume
            BY <3>1, <3>2, <3>3, <3>7 DEF AwaitResume, Probe
        <3> QED BY <1>4, <3>4, <3>5, <3>6, <3>7
    <2> QED BY <2>1, <2>2, <2>3
<1>5. CASE SendExit \/ SendEscape \/ SendResume
    <2>1. UNCHANGED <<front, dir, moved>> /\ typed' \subseteq AllKeys /\ held' \in BOOLEAN
        BY <1>5 DEF SendExit, SendEscape, SendResume, Types
    <2>2. at' \in Steps /\ left' \in Nat /\ report' \in Reported
        BY <1>5, <1>w, <1>r DEF SendExit, SendEscape, SendResume, Types
    <2> QED BY <2>1, <2>2
<1>6. CASE CaptureReview \/ CheckPath
    <2>1. UNCHANGED <<front, dir, held, typed>>
        BY <1>6 DEF CaptureReview, CheckPath, paneVars
    <2>2. moved' \subseteq {"front", "dir"}
        BY <1>6, <1>k DEF CaptureReview, CheckPath
    <2>3. at' \in Steps /\ left' \in Nat /\ report' \in Reported
        BY <1>6, <1>g, <1>r DEF CaptureReview, CheckPath
    <2> QED BY <2>1, <2>2, <2>3
<1> QED BY <1>1, <1>2, <1>3, <1>4, <1>5, <1>6 DEF Next, Step

LEMMA StepInv == RestartInv /\ [Next]_vars => RestartInv'
<1> SUFFICES ASSUME RestartInv, [Next]_vars PROVE RestartInv'
    OBVIOUS
<1>0. TypeOK /\ TypeOK'
    BY StepTyping DEF RestartInv
<1> USE DEF RestartInv, TypedSoFar, SeenSoFar, ReportIsTrue
<1>1. CASE Begin
    BY <1>0, <1>1 DEF Begin
<1>2. CASE Pane
    BY <1>0, <1>2 DEF Pane, LeaveToShell, LeaveToReview, Start, ChangeDir, Shows
<1>3. CASE UNCHANGED vars
    BY <1>0, <1>3 DEF vars
<1> USE DEF Probe, Types, Waits, Goes, Reports, Sees, Blind, paneVars
<1>4. CASE ProbeFirst
    BY <1>0, <1>4 DEF ProbeFirst
<1>5. CASE AwaitExit
    BY <1>0, <1>5 DEF AwaitExit
<1>6. CASE AwaitClose
    BY <1>0, <1>6 DEF AwaitClose
<1>7. CASE AwaitResume
    BY <1>0, <1>7 DEF AwaitResume
<1>8. CASE SendExit
    BY <1>0, <1>8 DEF SendExit
<1>9. CASE SendEscape
    BY <1>0, <1>9 DEF SendEscape
<1>10. CASE SendResume
    BY <1>0, <1>10 DEF SendResume
<1>11. CASE CaptureReview
    BY <1>0, <1>11 DEF CaptureReview
<1>12. CASE CheckPath
    BY <1>0, <1>12 DEF CheckPath
<1> QED BY <1>1, <1>2, <1>3, <1>4, <1>5, <1>6, <1>7, <1>8, <1>9, <1>10, <1>11, <1>12
        DEF Next, Step

LEMMA RestartInvariance == Spec => []RestartInv
BY InitInv, StepInv, PTL DEF Spec

\* Every variable of Restart keeps its type, for every length of the waits.
THEOREM RestartTyping == Spec => []TypeOK
<1>1. RestartInv => TypeOK
    BY DEF RestartInv
<1> QED BY <1>1, RestartInvariance, PTL

\* What the dashboard reports of a restart is what happened to the pane,
\* whichever reads and keys fail and whatever the pane does meanwhile.
THEOREM ReportsAreTrue == Spec => []ReportIsTrue
<1>1. RestartInv => ReportIsTrue
    BY DEF RestartInv
<1> QED BY <1>1, RestartInvariance, PTL

\* Escape and the resume command are typed where they are meant to be, unless
\* the pane moved after the last look at it.
THEOREM KeysLand == Spec => KeysLandWhereMeant
<1> DEFINE Landing ==
        /\ Arrives("Escape") => front = "review" \/ "front" \in moved
        /\ Arrives("resume") => /\ front = "shell" \/ "front" \in moved
                                /\ dir \/ "dir" \in moved
<1>1. RestartInv /\ [Next]_vars => [Landing]_vars
    <2> SUFFICES ASSUME RestartInv, Next, Arrives("Escape") \/ Arrives("resume")
                 PROVE  Landing
        BY DEF Arrives
    <2>1. CASE Begin
        BY <2>1 DEF Arrives, Begin
    <2>2. CASE Pane
        BY <2>2 DEF Arrives, Pane, LeaveToShell, LeaveToReview, Start, ChangeDir, Shows
    <2>3. CASE ProbeFirst \/ AwaitExit \/ CaptureReview \/ AwaitClose \/ CheckPath \/ AwaitResume
        BY <2>3 DEF Arrives, ProbeFirst, AwaitExit, CaptureReview, AwaitClose, CheckPath,
                    AwaitResume, Probe
    <2>4. CASE SendExit
        <3>1. typed' \subseteq typed \cup {"/exit"}
            BY <2>4 DEF SendExit, Types
        <3> QED BY <3>1 DEF Arrives
    <2>5. CASE SendEscape
        <3>1. at = "escape" /\ typed' \subseteq typed \cup {"Escape"}
            BY <2>5 DEF SendEscape, Types
        <3>2. front = "review" \/ "front" \in moved
            BY <3>1 DEF RestartInv, SeenSoFar
        <3>3. ~Arrives("resume")
            BY <3>1 DEF Arrives
        <3> QED BY <3>2, <3>3, Zenon
    <2>6. CASE SendResume
        <3>1. at = "resume" /\ typed' \subseteq typed \cup {"resume"}
            BY <2>6 DEF SendResume, Types
        <3>2. (front = "shell" \/ "front" \in moved) /\ (dir \/ "dir" \in moved)
            BY <3>1 DEF RestartInv, SeenSoFar
        <3>3. ~Arrives("Escape")
            BY <3>1 DEF Arrives
        <3> QED BY <3>2, <3>3, Zenon
    <2> QED BY <2>1, <2>2, <2>3, <2>4, <2>5, <2>6 DEF Next, Step
<1> QED BY <1>1, RestartInvariance, PTL DEF Spec, KeysLandWhereMeant
=============================================================================
