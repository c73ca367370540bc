------------------------------- MODULE Verdict -------------------------------
(***************************************************************************)
(* The verdict on a pull request (lookupCI, server.go), from the two calls  *)
(* to gh it takes: pr view, whose rollup holds the checks of the head       *)
(* commit, and the merge queue's entry and events.  The queue moves between *)
(* the calls, and its own checks run on a commit the rollup never sees.     *)
(*                                                                         *)
(* Counts, positions, estimates and the conflict and draft marks, which are *)
(* displayed and nothing else, are left out.                                *)
(***************************************************************************)
EXTENDS Integers, FiniteSetsExt

CONSTANTS
    Names,    \* names of checks
    Instants, \* when a check starts or a removal happens; 0 for a time not told
    Failed    \* the answer of a call that failed, timed out or made no sense

ASSUME VerdictParameters == Instants \subseteq Nat /\ "" \notin Names

\* rollupNode.  A check run has a conclusion once it is completed.
Nodes ==
    [kind : {"CheckRun"}, name : Names \cup {""}, start : Instants,
     result : {"running", "SUCCESS", "NEUTRAL", "SKIPPED", "STALE", "FAILURE"}]
    \cup [kind : {"StatusContext"}, name : Names, start : Instants,
          result : {"EXPECTED", "PENDING", "SUCCESS", "FAILURE"}]
    \cup [kind : {"unknown"}, name : Names, start : Instants, result : {"SUCCESS"}]

\* Bound: two checks are enough for one to name, outlast or outdo the other.
Rollups == {{}} \cup {{n, k} : n, k \in Nodes}

\* What pr view answers; any state but these three is one gh may yet invent.
PRViews == [state : {"OPEN", "MERGED", "CLOSED", "unknown"},
          mergeState : {"CLEAN", "UNSTABLE"}, rollup : Rollups]

\* What the merge queue's query answers: an entry, or the newest event, with
\* the time of a removal.
QueueAnswers ==
    {[entry |-> e, event |-> "ADDED", removedAt |-> 0] : e \in {"QUEUED", "UNMERGEABLE"}}
    \cup [entry : {"none"}, event : {"none", "ADDED"}, removedAt : {0}]
    \cup [entry : {"none"}, event : {"REMOVED"}, removedAt : Instants]

\* A call that failed is told from one that answered.
ASSUME NoAnswer == Failed \notin PRViews \cup QueueAnswers

-----------------------------------------------------------------------------
rollupBucket(n) ==
    CASE n.kind = "StatusContext" /\ n.result \in {"EXPECTED", "PENDING"} -> "pending"
      [] n.kind = "StatusContext" /\ n.result = "SUCCESS"                 -> "pass"
      [] n.kind = "CheckRun" /\ n.result = "running"                      -> "pending"
      [] n.kind = "CheckRun" /\ n.result \in {"SUCCESS", "NEUTRAL"}       -> "pass"
      [] n.kind = "CheckRun" /\ n.result \in {"SKIPPED", "STALE"}         -> "skip"
      [] OTHER                                                            -> "fail"

In(rollup, bucket) == {n \in rollup : rollupBucket(n) = bucket}

\* The names of the check runs that are completed.
Completed(rollup) ==
    {n.name : n \in {r \in rollup : r.kind = "CheckRun" /\ r.result # "running"}} \ {""}

Gates(rollup) ==
    {n \in rollup : n.kind = "StatusContext" /\ n.name \in Completed(rollup)}

\* Mutant: a pending status counts as a gate whatever it is named after.
MutclassifyRollup(rollup) ==
    IF rollup = {} THEN ""
    ELSE IF In(rollup, "fail") # {} THEN "failing"
    ELSE IF \A n \in In(rollup, "pending") : n.kind = "StatusContext" THEN "green"
    ELSE "pending"

\* A failure wins over a check still pending; a gate, which waits for somebody,
\* keeps nothing pending.
classifyRollup(rollup) ==
    IF rollup = {} THEN ""
    ELSE IF In(rollup, "fail") # {} THEN "failing"
    ELSE IF In(rollup, "pending") \subseteq Gates(rollup) THEN "green"
    ELSE "pending"

\* ciResult before the queue is asked, and the id parsePRView returns with it:
\* whether there is one.
ciResult(state, done, since, id) ==
    [state |-> state, queue |-> "", done |-> done, since |-> since, id |-> id]

Blank == ciResult("", "", 0, FALSE)

parsePRView(view) ==
    LET class == classifyRollup(view.rollup)
    IN  CASE view.state = "MERGED" -> ciResult("", "merged", 0, FALSE)
          [] view.state = "CLOSED" -> ciResult("", "closed", 0, FALSE)
          [] OTHER -> ciResult(
                 IF class = "failing" /\ view.mergeState = "UNSTABLE" THEN "soft-failing" ELSE class,
                 "", Max({0} \cup {n.start : n \in view.rollup}), view.state = "OPEN")

\* Mutant: a removal in the instant the checks started counts as later.
MutapplyMergeQueue(r, answer) ==
    IF answer.entry # "none"
    THEN [r EXCEPT !.queue = IF answer.entry = "UNMERGEABLE" THEN "queue-failing" ELSE "queued"]
    ELSE IF answer.event # "REMOVED" \/ (answer.removedAt # 0 /\ answer.removedAt < r.since) THEN r
    ELSE [r EXCEPT !.state = "ejected"]

\* A removal with nothing after it is an ejection, unless a check started since.
applyMergeQueue(r, answer) ==
    IF answer.entry # "none"
    THEN [r EXCEPT !.queue = IF answer.entry = "UNMERGEABLE" THEN "queue-failing" ELSE "queued"]
    ELSE IF answer.event # "REMOVED" \/ (answer.removedAt # 0 /\ answer.removedAt =< r.since) THEN r
    ELSE [r EXCEPT !.state = "ejected"]

withMergeQueue(r, answer) ==
    IF ~r.id \/ answer = Failed THEN r ELSE applyMergeQueue(r, answer)

lookupCI(view, answer) ==
    IF view = Failed THEN Blank ELSE withMergeQueue(parsePRView(view), answer)

-----------------------------------------------------------------------------
(* What the verdicts mean, told from the checks themselves.                  *)

Broken(n) == n.result = "FAILURE" \/ n.kind = "unknown"

\* A check that has yet to end, other than a status named after a check run that
\* is over: that one waits for somebody (server.go:854).
Unfinished(n, rollup) ==
    \/ n.result = "running"
    \/ /\ n.result \in {"EXPECTED", "PENDING"}
       /\ \A run \in rollup : run.kind = "CheckRun" /\ run.name = n.name => run.result = "running"

\* The state says no more than the checks do, and a PR that is done nothing else.
Earned(r, view) ==
    LET broken == \E n \in view.rollup : Broken(n)
        unfinished == \E n \in view.rollup : Unfinished(n, view.rollup)
    IN  /\ r.state = "green"        => view.rollup # {} /\ ~broken /\ ~unfinished
        /\ r.state = "pending"      => ~broken /\ unfinished
        /\ r.state = "failing"      => broken
        /\ r.state = "soft-failing" => broken /\ view.mergeState = "UNSTABLE"
        /\ r.done # "" => r.state = "" /\ r.queue = "" /\ view.state \in {"MERGED", "CLOSED"}

\* The queue threw an open PR out, and no check of its own started since.
ThrownOut(view, answer) ==
    /\ view.state = "OPEN" /\ answer # Failed
    /\ answer.entry = "none" /\ answer.event = "REMOVED"
    /\ \A n \in view.rollup : answer.removedAt = 0 \/ n.start < answer.removedAt
=============================================================================
