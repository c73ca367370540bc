---------------------------- MODULE BoardProofs ----------------------------
(***************************************************************************)
(* Theorems about Board, for any sessions, panes, names and instants: the   *)
(* verdicts of a PR with any number of checks, the invariant behind a page, *)
(* and from it what a page promises its user; then the feed of any log, and *)
(* the colours of any sessions.                                             *)
(***************************************************************************)
EXTENDS Board, SequenceTheorems, FiniteSetTheorems, TLAPS

\* Induction over the naturals, as the least counterexample.
LEMMA LeastNat ==
    ASSUME NEW S, S \subseteq Nat, S # {}
    PROVE  \E x \in S : \A y \in S : x =< y
<1> DEFINE R == OpToRel(<, Nat)
<1>1. \A x, y \in S : y < x => <<y, x>> \in R
  BY DEF OpToRel
<1>2. IsWellFoundedOn(R, Nat) BY NatLessThanWellFounded
<1> HIDE DEF R
<1>3. PICK x \in S : \A y \in S : <<y, x>> \notin R
  BY <1>2, WFMin, Zenon
<1>4. \A y \in S : ~(y < x) BY <1>1, <1>3
<1> QED BY <1>4

LEMMA MaxOfFinite ==
    ASSUME NEW S, S \subseteq Nat, S # {}, IsFiniteSet(S)
    PROVE  Max(S) \in S /\ \A y \in S : y =< Max(S)
<1> DEFINE Above(x) == {y \in S : y > x}
           Counts == {Cardinality(Above(x)) : x \in S}
<1>1. ASSUME NEW x \in S
      PROVE  IsFiniteSet(Above(x)) /\ Cardinality(Above(x)) \in Nat
  <2>1. Above(x) \in SUBSET S OBVIOUS
  <2> HIDE DEF Above
  <2> QED BY <2>1, FS_Subset, FS_CardinalityType
<1>2. Counts \subseteq Nat /\ Counts # {} BY <1>1
<1>3. PICK x \in S : \A y \in S : Cardinality(Above(x)) =< Cardinality(Above(y))
  <2> HIDE DEF Counts
  <2>1. PICK c \in Counts : \A d \in Counts : c =< d BY <1>2, LeastNat
  <2> QED BY <2>1 DEF Counts
<1>4. ASSUME NEW y \in S, y > x PROVE FALSE
  <2>1. ~(y > y) /\ (\A z \in S : z > y => z > x) BY <1>4
  <2>2. Above(y) \in SUBSET Above(x) /\ y \in Above(x) /\ y \notin Above(y)
    BY <1>4, <2>1
  <2> HIDE DEF Above
  <2>3. Cardinality(Above(y)) =< Cardinality(Above(x)) /\ Cardinality(Above(y)) # Cardinality(Above(x))
    BY <1>1, <2>2, FS_Subset
  <2> QED BY <1>1, <1>3, <2>3
<1>5. \A y \in S : x >= y BY <1>4
<1> QED BY <1>5 DEF Max
-----------------------------------------------------------------------------
(* The verdicts.  TLC looks at PRs of at most two checks; nothing depends on *)
(* how many they are.                                                        *)

AnyViews == [state : {"OPEN", "MERGED", "CLOSED", "unknown"},
             mergeState : {"CLEAN", "UNSTABLE"}, rollup : {S \in SUBSET Nodes : IsFiniteSet(S)}]

LEMMA ViewsAreAny == PRViews \subseteq AnyViews
<1>1. ASSUME NEW x \in Nodes, NEW y \in Nodes PROVE IsFiniteSet({x, y})
  <2>1. {x, y} = {x} \cup {y} OBVIOUS
  <2>2. IsFiniteSet({x}) BY FS_Singleton
  <2>3. IsFiniteSet({x} \cup {y}) BY <2>2, FS_AddElement
  <2> QED BY <2>1, <2>3
<1>2. IsFiniteSet({}) BY FS_EmptySet
<1>3. Rollups \subseteq {S \in SUBSET Nodes : IsFiniteSet(S)} BY <1>1, <1>2 DEF Rollups
<1> QED BY <1>3 DEF PRViews, AnyViews

LEMMA Buckets ==
    ASSUME NEW x \in Nodes
    PROVE  /\ rollupBucket(x) = "fail" <=> Broken(x)
           /\ rollupBucket(x) = "pending" <=> x.result \in {"running", "EXPECTED", "PENDING"}
BY DEF Nodes, rollupBucket, Broken

LEMMA NodeFields ==
    ASSUME NEW x \in Nodes
    PROVE  /\ x.start \in Instants
           /\ x.result = "running" => x.kind = "CheckRun"
           /\ x.result \in {"EXPECTED", "PENDING"} => x.kind = "StatusContext" /\ x.name # ""
BY VerdictParameters DEF Nodes

\* A pending check is unfinished unless it is a gate.
LEMMA GatesWait ==
    ASSUME NEW rollup \in SUBSET Nodes, NEW x \in In(rollup, "pending")
    PROVE  x \in Gates(rollup) <=> ~Unfinished(x, rollup)
<1>1. x \in rollup /\ x \in Nodes /\ x.result \in {"running", "EXPECTED", "PENDING"}
  BY Buckets DEF In
<1>2. CASE x.result = "running"
  BY <1>1, <1>2, NodeFields DEF Gates, Unfinished
<1>3. CASE x.result \in {"EXPECTED", "PENDING"}
  <2>1. x.name \in Completed(rollup) <=>
          \E run \in rollup : run.kind = "CheckRun" /\ run.result # "running" /\ run.name = x.name
    BY <1>1, <1>3, NodeFields DEF Completed
  <2> QED BY <1>1, <1>3, <2>1, NodeFields DEF Gates, Unfinished
<1> QED BY <1>1, <1>2, <1>3

\* What classifyRollup says of the checks.
LEMMA Classified ==
    ASSUME NEW rollup \in SUBSET Nodes
    PROVE  LET class      == classifyRollup(rollup)
               broken     == \E x \in rollup : Broken(x)
               unfinished == \E x \in rollup : Unfinished(x, rollup)
           IN  /\ class \in {"", "failing", "green", "pending"}
               /\ class = "failing" => broken
               /\ class = "green"   => rollup # {} /\ ~broken /\ ~unfinished
               /\ class = "pending" => ~broken /\ unfinished
<1>1. In(rollup, "fail") = {} <=> ~\E x \in rollup : Broken(x)
  BY Buckets DEF In
<1>2. \A x \in rollup : Unfinished(x, rollup) => x \in In(rollup, "pending")
  BY Buckets DEF In, Unfinished
<1>3. In(rollup, "pending") \subseteq Gates(rollup) <=> ~\E x \in rollup : Unfinished(x, rollup)
  <2>1. In(rollup, "pending") \subseteq rollup BY DEF In
  <2> QED BY <1>2, <2>1, GatesWait
<1> QED BY <1>1, <1>3 DEF classifyRollup

Classes == {"", "failing", "soft-failing", "green", "pending"}

CIResults == [state : Classes, queue : {""}, done : {"", "merged", "closed"},
              since : Nat, id : BOOLEAN]

Since(pr) == Max({0} \cup {x.start : x \in pr.rollup})

\* The latest start is that of a check, or 0.
LEMMA SinceIsLatest ==
    ASSUME NEW pr \in AnyViews
    PROVE  /\ Since(pr) \in Nat
           /\ Since(pr) # 0 => \E x \in pr.rollup : x.start = Since(pr)
           /\ \A x \in pr.rollup : x.start \in Nat /\ x.start =< Since(pr)
<1> DEFINE start  == [x \in pr.rollup |-> x.start]
           starts == {x.start : x \in pr.rollup}
<1>1. pr.rollup \in SUBSET Nodes /\ IsFiniteSet(pr.rollup) BY DEF AnyViews
<1>2. starts \subseteq Nat BY <1>1, NodeFields, VerdictParameters
<1>3. IsFiniteSet(starts)
  <2>1. start \in Surjection(pr.rollup, starts) BY DEF Surjection
  <2> HIDE DEF starts, start
  <2> QED BY <1>1, <2>1, FS_Surjection
<1>4. IsFiniteSet({0} \cup starts)
  <2> HIDE DEF starts
  <2> QED BY <1>3, FS_Singleton, FS_Union
<1>5. \A x \in pr.rollup : x.start \in starts OBVIOUS
<1>6. \A t \in starts : \E x \in pr.rollup : x.start = t OBVIOUS
<1>7. Since(pr) = Max({0} \cup starts) BY DEF Since
<1> HIDE DEF starts
<1>8. {0} \cup starts \subseteq Nat /\ {0} \cup starts # {} BY <1>2
<1>9. Since(pr) \in {0} \cup starts /\ \A t \in {0} \cup starts : t =< Since(pr)
  BY <1>4, <1>7, <1>8, MaxOfFinite
<1> QED BY <1>2, <1>5, <1>6, <1>8, <1>9

LEMMA DoneResult ==
    ASSUME NEW done \in {"merged", "closed"}
    PROVE  LET r == ciResult("", done, 0, FALSE)
           IN  r \in CIResults /\ r.state = "" /\ r.queue = "" /\ r.done = done /\ ~r.id
BY DEF ciResult, CIResults, Classes

\* What pr view says before the queue is asked.
LEMMA Parsed ==
    ASSUME NEW pr \in AnyViews
    PROVE  LET r == parsePRView(pr)
           IN  /\ r \in CIResults
               /\ r.id <=> pr.state = "OPEN"
               /\ r.id => r.since = Since(pr) /\ r.done = ""
               /\ Earned(r, pr)
<1> DEFINE class == classifyRollup(pr.rollup)
           state == IF class = "failing" /\ pr.mergeState = "UNSTABLE" THEN "soft-failing" ELSE class
           open  == ciResult(state, "", Since(pr), pr.state = "OPEN")
<1>1. pr.rollup \in SUBSET Nodes /\ pr.state \in {"OPEN", "MERGED", "CLOSED", "unknown"}
  BY DEF AnyViews
<1>2. CASE pr.state = "MERGED"
  <2>1. parsePRView(pr) = ciResult("", "merged", 0, FALSE) BY <1>2 DEF parsePRView
  <2> QED BY <1>2, <2>1, DoneResult DEF Earned
<1>3. CASE pr.state = "CLOSED"
  <2>1. parsePRView(pr) = ciResult("", "closed", 0, FALSE) BY <1>3 DEF parsePRView
  <2> QED BY <1>3, <2>1, DoneResult DEF Earned
<1>4. CASE pr.state \in {"OPEN", "unknown"}
  <2>1. parsePRView(pr) = open BY <1>4 DEF parsePRView, Since
  <2>2. class \in {"", "failing", "green", "pending"} BY <1>1, Classified
  <2> HIDE DEF class
  <2>3. state \in Classes BY <2>2 DEF Classes
  <2>4. open \in CIResults
    <3>1. Since(pr) \in Nat BY SinceIsLatest
    <3>2. (pr.state = "OPEN") \in BOOLEAN OBVIOUS
    <3> HIDE DEF state
    <3> QED BY Zenon, <2>3, <3>1, <3>2 DEF ciResult, CIResults
  <2>5. /\ open.state = state /\ open.queue = "" /\ open.done = ""
        /\ open.since = Since(pr) /\ open.id = (pr.state = "OPEN")
    BY DEF ciResult
  <2> HIDE DEF open
  <2>6. Earned(open, pr)
    BY <1>1, <2>5, Classified DEF Earned, class
  <2> QED BY <2>1, <2>3, <2>4, <2>5, <2>6
<1> QED BY <1>1, <1>2, <1>3, <1>4

LEMMA AnswerFields ==
    ASSUME NEW answer \in QueueAnswers
    PROVE  /\ answer.entry \in {"QUEUED", "UNMERGEABLE", "none"}
           /\ answer.entry = "none" /\ answer.event = "REMOVED" => answer.removedAt \in Nat
<1>1. CASE answer \in {[entry |-> e, event |-> "ADDED", removedAt |-> 0] : e \in {"QUEUED", "UNMERGEABLE"}}
  BY <1>1
<1>2. CASE answer \in [entry : {"none"}, event : {"none", "ADDED"}, removedAt : {0}]
  BY <1>2
<1>3. CASE answer \in [entry : {"none"}, event : {"REMOVED"}, removedAt : Instants]
  BY <1>3, VerdictParameters
<1> QED BY <1>1, <1>2, <1>3 DEF QueueAnswers

\* What the queue's answer makes of it.
LEMMA Queued ==
    ASSUME NEW r \in CIResults, NEW answer \in QueueAnswers
    PROVE  LET q == applyMergeQueue(r, answer)
               out == /\ answer.entry = "none" /\ answer.event = "REMOVED"
                      /\ answer.removedAt = 0 \/ answer.removedAt > r.since
           IN  q.state = (IF out THEN "ejected" ELSE r.state) /\ q.done = r.done
<1>1. \A x : /\ [r EXCEPT !.queue = x].state = r.state /\ [r EXCEPT !.queue = x].done = r.done
             /\ [r EXCEPT !.state = x].state = x /\ [r EXCEPT !.state = x].done = r.done
  BY DEF CIResults
<1>2. CASE answer.entry # "none"
  BY <1>1, <1>2 DEF applyMergeQueue
<1>3. CASE answer.entry = "none"
  <2>1. answer.event = "REMOVED" => answer.removedAt \in Nat /\ r.since \in Nat
    BY <1>3, AnswerFields DEF CIResults
  <2> QED BY <1>1, <1>3, <2>1 DEF applyMergeQueue
<1> QED BY <1>2, <1>3

(* A verdict is earned by the checks, whatever gh answers and however many   *)
(* checks a PR has.                                                          *)
THEOREM VerdictsOfAnyRollup ==
    ASSUME NEW pr \in AnyViews, NEW answer \in Answers
    PROVE  Earned(lookupCI(pr, answer), pr)
<1>1. CASE pr = Failed
  BY <1>1 DEF lookupCI, Blank, ciResult, Earned
<1>2. CASE pr # Failed /\ (~parsePRView(pr).id \/ answer = Failed)
  BY <1>2, Parsed DEF lookupCI, withMergeQueue
<1>3. CASE pr # Failed /\ parsePRView(pr).id /\ answer # Failed
  <2> DEFINE r == parsePRView(pr)
             q == applyMergeQueue(r, answer)
  <2>1. lookupCI(pr, answer) = q BY <1>3 DEF lookupCI, withMergeQueue
  <2>2. r \in CIResults /\ r.done = "" /\ Earned(r, pr) BY <1>3, Parsed
  <2>3. answer \in QueueAnswers BY <1>3 DEF Answers
  <2> HIDE DEF r
  <2>4. q.state \in {"ejected", r.state} /\ q.done = "" BY <2>2, <2>3, Queued
  <2> HIDE DEF q
  <2> QED BY <2>1, <2>2, <2>4 DEF Earned
<1> QED BY <1>1, <1>2, <1>3

(* An ejection shows exactly when the queue threw the PR out and no check    *)
(* started since, however many checks there are.                             *)
THEOREM EjectionsOfAnyRollup ==
    ASSUME NEW pr \in AnyViews, pr # Failed, NEW answer \in Answers
    PROVE  lookupCI(pr, answer).state = "ejected" <=> ThrownOut(pr, answer)
<1> DEFINE r == parsePRView(pr)
<1>1. /\ r \in CIResults
      /\ r.id <=> pr.state = "OPEN"
      /\ r.id => r.since = Since(pr)
  BY Parsed
<1>2. CASE ~r.id \/ answer = Failed
  BY <1>1, <1>2 DEF lookupCI, withMergeQueue, ThrownOut, CIResults, Classes
<1>3. CASE r.id /\ answer # Failed
  <2>1. lookupCI(pr, answer) = applyMergeQueue(r, answer)
    BY <1>3 DEF lookupCI, withMergeQueue
  <2>2. answer \in QueueAnswers BY <1>3 DEF Answers
  <2> DEFINE out == /\ answer.entry = "none" /\ answer.event = "REMOVED"
                    /\ answer.removedAt = 0 \/ answer.removedAt > Since(pr)
  <2>3. lookupCI(pr, answer).state = "ejected" <=> out
    <3> HIDE DEF r
    <3> QED BY <1>1, <1>3, <2>1, <2>2, Queued DEF CIResults, Classes
  <2>4. out <=> ThrownOut(pr, answer)
    <3>1. CASE ~(answer.entry = "none" /\ answer.event = "REMOVED")
      BY <3>1 DEF ThrownOut
    <3>2. CASE answer.entry = "none" /\ answer.event = "REMOVED"
      <4>1. answer.removedAt \in Nat BY <2>2, <3>2, AnswerFields
      <4>2. (\A x \in pr.rollup : answer.removedAt = 0 \/ x.start < answer.removedAt)
              <=> answer.removedAt = 0 \/ answer.removedAt > Since(pr)
        BY <4>1, SinceIsLatest
      <4> QED BY <1>1, <1>3, <3>2, <4>2 DEF ThrownOut
    <3> QED BY <3>1, <3>2
  <2> QED BY <2>3, <2>4
<1> QED BY <1>2, <1>3

-----------------------------------------------------------------------------
(* Rows that are picked from a sequence, in their order.                     *)
Increasing(f) == \A j, k \in DOMAIN f : j < k => f[j] < f[k]

Lists(f, K) == \E c \in Nat : f \in [1..c -> K] /\ (\A x \in K : \E k \in 1..c : f[k] = x) /\ Increasing(f)

\* A set of indexes can be listed in its order: by induction on a bound of it.
LEMMA OrderExists ==
    ASSUME NEW m \in Nat, NEW K \in SUBSET (1..m)
    PROVE  \E f : Lists(f, K)
<1> DEFINE Bad == {b \in Nat : \E L \in SUBSET (1..b) : \A f : ~Lists(f, L)}
<1>1. ASSUME Bad # {} PROVE FALSE
  <2>1. Bad \subseteq Nat OBVIOUS
  <2>2. PICK b \in Bad : \A d \in Bad : b =< d
    <3> HIDE DEF Bad
    <3> QED BY <1>1, <2>1, LeastNat
  <2>3. PICK L \in SUBSET (1..b) : \A f : ~Lists(f, L) OBVIOUS
  <2>4. CASE b = 0
    <3> DEFINE e == [i \in 1..0 |-> i]
    <3>1. L = {} BY <2>4
    <3>2. Lists(e, {}) BY DEF Lists, Increasing
    <3> QED BY <2>3, <3>1, <3>2
  <2>5. CASE b # 0
    <3>1. b - 1 \in Nat /\ b - 1 \notin Bad BY <2>2, <2>5
    <3>2. L \ {b} \in SUBSET (1..(b - 1)) OBVIOUS
    <3>3. PICK f : Lists(f, L \ {b}) BY <3>1, <3>2
    <3>4. PICK c \in Nat : /\ f \in [1..c -> L \ {b}]
                           /\ \A x \in L \ {b} : \E k \in 1..c : f[k] = x
                           /\ Increasing(f)
      BY <3>3 DEF Lists
    <3>5. b \in L BY <2>3, <3>3, Zenon
    <3> DEFINE g == [k \in 1..(c + 1) |-> IF k = c + 1 THEN b ELSE f[k]]
    <3>6. g \in [1..(c + 1) -> L] BY <3>4, <3>5
    <3>7. \A x \in L : \E k \in 1..(c + 1) : g[k] = x
      <4>1. g[c + 1] = b OBVIOUS
      <4>2. \A k \in 1..c : k \in 1..(c + 1) /\ g[k] = f[k] OBVIOUS
      <4> HIDE DEF g
      <4> QED BY <3>4, <4>1, <4>2
    <3>8. Increasing(g)
      <4> SUFFICES ASSUME NEW j \in 1..(c + 1), NEW k \in 1..(c + 1), j < k PROVE g[j] < g[k]
        BY DEF Increasing
      <4>1. j \in 1..c OBVIOUS
      <4>2. f[j] \in 1..(b - 1)
        <5> HIDE DEF Bad
        <5> QED BY <3>2, <3>4, <4>1
      <4>3. g[j] = f[j] BY <4>1
      <4>4. CASE k = c + 1 BY <4>2, <4>3, <4>4
      <4>5. CASE k # c + 1
        <5>1. k \in 1..c /\ DOMAIN f = 1..c BY <4>5, <3>4
        <5> QED BY <4>1, <4>3, <5>1, <3>4 DEF Increasing
      <4> QED BY <4>4, <4>5
    <3> HIDE DEF g
    <3>9. Lists(g, L) BY <3>6, <3>7, <3>8 DEF Lists
    <3> QED BY <2>3, <3>9
  <2> QED BY <2>4, <2>5
<1>2. m \notin Bad BY <1>1
<1> QED BY <1>2

\* Ascending lists each member once, in order.
LEMMA Ascends ==
    ASSUME NEW m \in Nat, NEW K \in SUBSET (1..m)
    PROVE  /\ IsFiniteSet(K)
           /\ Ascending(K) \in Bijection(1..Cardinality(K), K)
           /\ Increasing(Ascending(K))
<1>1. IsFiniteSet(K)
  <2>1. IsFiniteSet(1..m) BY FS_Interval
  <2> QED BY <2>1, FS_Subset
<1>2. PICK f : Lists(f, K) BY OrderExists
<1>3. PICK c \in Nat : /\ f \in [1..c -> K]
                       /\ \A x \in K : \E k \in 1..c : f[k] = x
                       /\ Increasing(f)
  BY <1>2 DEF Lists
<1>4. \A j, k \in 1..c : j # k => f[j] # f[k]
  <2>1. \A j \in 1..c : f[j] \in Nat
    <3>1. K \subseteq Nat OBVIOUS
    <3> QED BY <1>3, <3>1
  <2>2. \A j, k \in 1..c : j < k => f[j] < f[k] BY <1>3 DEF Increasing
  <2>3. \A j, k \in 1..c : j < k => f[j] # f[k] BY <2>1, <2>2
  <2>4. \A j, k \in 1..c : j # k => j < k \/ k < j OBVIOUS
  <2> QED BY <2>3, <2>4
<1>5. f \in Bijection(1..c, K) BY <1>3, <1>4 DEF Bijection, Injection, Surjection, IsInjective
<1>6. Cardinality(K) = c BY <1>5, FS_CountingElements DEF ExistsBijection
<1>7. f \in SetToSeqs(K) BY <1>3, <1>4, <1>6 DEF SetToSeqs
<1>8. DOMAIN f = 1..c BY <1>3
<1> DEFINE ids == Ascending(K)
<1>9. ids \in SetToSeqs(K) /\ \A j, k \in DOMAIN ids : j < k => ids[j] < ids[k]
  <2>1. \A j, k \in DOMAIN f : j < k => f[j] < f[k] BY <1>3 DEF Increasing
  <2> QED BY <1>7, <2>1 DEF Ascending
<1> HIDE DEF ids
<1>10. ids \in Injection(1..c, K) BY <1>6, <1>9 DEF SetToSeqs, Injection, IsInjective
<1>11. ids \in Surjection(1..c, K)
  <2>1. Cardinality(1..c) = c BY FS_Interval
  <2> QED BY <1>1, <1>6, <1>10, <2>1, FS_Injection
<1>12. ids \in Bijection(1..c, K) BY <1>10, <1>11 DEF Bijection
<1>13. Increasing(ids) BY <1>9 DEF Increasing
<1> QED BY <1>1, <1>6, <1>12, <1>13 DEF ids

\* A listing of a finite set has each of its members once.
LEMMA ListsOnce ==
    ASSUME NEW S, IsFiniteSet(S), NEW q \in SetToSeqs(S)
    PROVE  /\ q \in Bijection(1..Cardinality(S), S)
           /\ q \in Seq(S) /\ Len(q) = Cardinality(S) /\ DOMAIN q = 1..Cardinality(S)
<1> DEFINE c == Cardinality(S)
<1>1. c \in Nat BY FS_CardinalityType
<1>2. q \in [1..c -> S] /\ \A i, j \in 1..c : i # j => q[i] # q[j] BY DEF SetToSeqs
<1> HIDE DEF c
<1>3. q \in Injection(1..c, S) BY <1>2 DEF Injection, IsInjective
<1>4. Cardinality(1..c) = c BY <1>1, FS_Interval
<1>5. q \in Surjection(1..c, S) BY <1>3, <1>4, FS_Injection DEF c
<1>6. q \in Seq(S) BY <1>1, <1>2, SeqDef
<1>7. Len(q) = c BY <1>1, <1>2, <1>6, LenProperties
<1> QED BY <1>2, <1>3, <1>5, <1>6, <1>7 DEF Bijection, c

\* Two lists of rows, one after the other.
LEMMA Joined ==
    ASSUME NEW s \in Seq(Rows), NEW t \in Seq(Rows)
    PROVE  /\ s \o t \in Seq(Rows) /\ Len(s \o t) = Len(s) + Len(t)
           /\ \A i \in 1..(Len(s) + Len(t)) : (s \o t)[i] = IF i =< Len(s) THEN s[i] ELSE t[i - Len(s)]
BY ConcatProperties

\* The rows at the indexes of K, each once.
From(rows, K, p) == \E f \in Bijection(DOMAIN p, K) : \A k \in DOMAIN p : p[k] = rows[f[k]]

\* The picked rows are those at the indexes, each once.
LEMMA Picked ==
    ASSUME NEW R, NEW rows \in Seq(R), NEW K \in SUBSET DOMAIN rows, NEW p, p = Pick(rows, K)
    PROVE  p \in Seq(R) /\ From(rows, K, p)
<1>1. Len(rows) \in Nat /\ DOMAIN rows = 1..Len(rows) BY LenProperties
<1> DEFINE f == Ascending(K)
           c == Cardinality(K)
<1>2. K \in SUBSET (1..Len(rows)) BY <1>1
<1>3. IsFiniteSet(K) /\ f \in Bijection(1..c, K) BY <1>2, <1>1, Ascends
<1>4. c \in Nat BY <1>3, FS_CardinalityType
<1> HIDE DEF c, f
<1>5. f \in [1..c -> K] BY <1>3 DEF Bijection, Injection
<1>6. p = [k \in 1..c |-> rows[f[k]]] BY <1>5 DEF Pick, f
<1>7. \A k \in 1..c : rows[f[k]] \in R BY <1>1, <1>5, ElementOfSeq
<1>8. p \in [1..c -> R] BY <1>6, <1>7
<1>9. p \in Seq(R) BY <1>4, <1>8, SeqDef
<1>10. Len(p) = c /\ DOMAIN p = 1..c BY <1>4, <1>8, <1>9, LenProperties
<1> QED BY <1>3, <1>4, <1>6, <1>9, <1>10 DEF c, From
-----------------------------------------------------------------------------
(* The invariant behind what a page shows.                                   *)

Soft == {"needs you", "waiting for you"}

Unread  == {"agentRoster", "panes", "dropDeadPanes"}
AsRead  == {"enrichCI", "suppressWatchedCI", "applyBlocks"}
Blocked == {"splitQueued", "carryOver", "demotePendingCI"}
Whole   == Unread \cup AsRead \cup {"applyPRBlocks", "splitQueued"}

Distinct(rows) == \A i, j \in DOMAIN rows : rows[i].id = rows[j].id => i = j

\* The status a row comes to by the blocks of sessions, and by all blocks.
OnSession(s) == IF read[s] \in Soft /\ (\E b \in blocks : b[1] = s /\ Applies(b))
                THEN "blocked" ELSE read[s]
Settled(s)   == IF s \in waits /\ read[s] \in Soft THEN "blocked" ELSE OnSession(s)

\* And in the end.
Demoted(row) == [row EXCEPT !.status = Settled(row.id)]
Final(row)   == IF InQueue(row) THEN Quieted(Demoted(row)).status
                ELSE IF row.ci \in {"pending", "soft-failing", "done"}
                     THEN Relaxed(Demoted(row), "waiting").status ELSE Settled(row.id)

PanesInv ==
    at = "dropDeadPanes" =>
        /\ listing \in Listings
        /\ view \in [Ids(agents) -> Views]
        /\ \A p \in Panes : running[p] # NoPane =>
              /\ running[p] \in Ids(agents)
              /\ Fallback(listing, view[running[p]]) /\ view[running[p]].pane = p

RowsInv ==
    /\ agents \in Seq(Rows) /\ Distinct(agents)
    /\ at \in Unread => \A i \in DOMAIN agents : agents[i].status \in ReadStatuses
    /\ at \notin Unread => read \in [Ids(agents) -> ReadStatuses]

StatusInv ==
    \A i \in DOMAIN agents :
        LET row == agents[i] IN
        /\ at \in AsRead          => row.status = read[row.id]
        /\ at = "applyPRBlocks" => row.status = OnSession(row.id)
        /\ at \in Blocked         => row.status = Settled(row.id)
        /\ at = "page"          => row.status = Final(row)

PartsInv ==
    /\ n \in Nat /\ queued \in Nat /\ n + queued =< Len(agents)
    /\ at \in Whole => n = 0 /\ queued = 0 /\ carried = {}
    /\ at = "carryOver" => n + queued = Len(agents) /\ carried = {}
    /\ at \notin Whole => \A i \in DOMAIN agents : InQueue(agents[i]) <=> i > Len(agents) - queued

CarriedInv ==
    at \in {"demotePendingCI", "page"} =>
        /\ carried \subseteq Rows
        /\ {row.id : row \in carried} = {agents[i].id : i \in n + 1 .. Len(agents) - queued}
        /\ \A row \in carried : row.status = Settled(row.id) /\ setAndForget(row)
        /\ \A i \in n + 1 .. Len(agents) - queued :
              agents[i].ci = "done" /\ setAndForget(Demoted(agents[i]))

TablesInv == blocks \subseteq Sessions \X Sessions /\ waits \subseteq Sessions

Stages == Unread \cup AsRead \cup Blocked \cup {"applyPRBlocks", "page"}

BoardInv == at \in Stages /\ PanesInv /\ RowsInv /\ StatusInv /\ PartsInv /\ CarriedInv /\ TablesInv

-----------------------------------------------------------------------------
\* What the steps do to rows and to their statuses.
Statuses == ReadStatuses \cup {"waiting", "blocked"}

LEMMA RowFields ==
    ASSUME NEW rows \in Seq(Rows), NEW i \in DOMAIN rows
    PROVE  /\ rows[i] \in Rows
           /\ rows[i].id \in Sessions /\ rows[i].status \in Statuses /\ rows[i].ci \in Verdicts
           /\ rows[i].id \in Ids(rows) /\ rows[i] \in Range(rows)
<1>1. rows[i] \in Rows BY LenProperties, ElementOfSeq
<1>2. rows[i].id \in Ids(rows) /\ rows[i] \in Range(rows) BY DEF Ids, Range
<1> QED BY <1>1, <1>2 DEF Rows, Statuses

\* A row is known by its session.
LEMMA ChosenRow ==
    ASSUME NEW rows \in Seq(Rows), Distinct(rows), NEW i \in DOMAIN rows
    PROVE  /\ (CHOOSE r \in Range(rows) : r.id = rows[i].id) = rows[i]
           /\ ciOf(rows, rows[i].id) = rows[i].ci
<1> DEFINE r == CHOOSE x \in Range(rows) : x.id = rows[i].id
<1>1. rows[i] \in Range(rows) BY RowFields
<1>2. r \in Range(rows) /\ r.id = rows[i].id BY <1>1
<1> HIDE DEF r
<1>3. PICK j \in DOMAIN rows : rows[j] = r BY <1>2 DEF Range
<1>4. r = rows[i] BY <1>2, <1>3 DEF Distinct
<1> QED BY <1>4 DEF ciOf, r

\* The same rows in some order, whatever their status has become.
SameRows(old, new) ==
    \E f \in Bijection(DOMAIN new, DOMAIN old) :
        \A k \in DOMAIN new : new[k].id = old[f[k]].id /\ new[k].ci = old[f[k]].ci

AppliesIn(rows, b) == {b[1], b[2]} \subseteq Ids(rows) /\ ciOf(rows, b[2]) # "done"

LEMMA SameAre ==
    ASSUME NEW old \in Seq(Rows), NEW new \in Seq(Rows), Distinct(old), SameRows(old, new)
    PROVE  /\ Len(new) = Len(old)
           /\ Distinct(new)
           /\ Ids(new) = Ids(old)
           /\ \A s \in Ids(old) : ciOf(new, s) = ciOf(old, s)
           /\ \A b : AppliesIn(new, b) <=> AppliesIn(old, b)
<1>1. PICK f \in Bijection(DOMAIN new, DOMAIN old) :
          \A k \in DOMAIN new : new[k].id = old[f[k]].id /\ new[k].ci = old[f[k]].ci
  BY DEF SameRows
<1>2. /\ f \in [DOMAIN new -> DOMAIN old]
      /\ \A j, k \in DOMAIN new : f[j] = f[k] => j = k
      /\ \A i \in DOMAIN old : \E k \in DOMAIN new : f[k] = i
  BY DEF Bijection, Injection, Surjection, IsInjective
<1>3. /\ Len(old) \in Nat /\ DOMAIN old = 1..Len(old)
      /\ Len(new) \in Nat /\ DOMAIN new = 1..Len(new)
  BY LenProperties
<1>4. Len(new) = Len(old)
  <2>1. ASSUME NEW m \in Nat PROVE IsFiniteSet(1..m) /\ Cardinality(1..m) = m
    BY FS_Interval
  <2>2. ExistsBijection(1..Len(new), 1..Len(old)) BY <1>3 DEF ExistsBijection
  <2> QED BY <1>3, <2>1, <2>2, FS_Bijection
<1>5. Distinct(new) BY <1>1, <1>2 DEF Distinct
<1>6. Ids(new) = Ids(old)
  <2>1. ASSUME NEW k \in DOMAIN new PROVE new[k].id \in Ids(old) BY <1>1, <1>2 DEF Ids
  <2>2. ASSUME NEW i \in DOMAIN old PROVE old[i].id \in Ids(new)
    <3>1. PICK k \in DOMAIN new : f[k] = i BY <1>2
    <3>2. old[i].id = new[k].id BY <1>1, <3>1
    <3> QED BY <3>2 DEF Ids
  <2> QED BY <2>1, <2>2 DEF Ids
<1>7. ASSUME NEW s \in Ids(old) PROVE ciOf(new, s) = ciOf(old, s)
  <2>1. PICK i \in DOMAIN old : old[i].id = s BY DEF Ids
  <2>2. PICK k \in DOMAIN new : f[k] = i BY <1>2
  <2>3. new[k].id = s /\ new[k].ci = old[i].ci BY <1>1, <2>1, <2>2
  <2> QED BY <1>5, <2>1, <2>3, ChosenRow
<1>8. ASSUME NEW b PROVE AppliesIn(new, b) <=> AppliesIn(old, b)
  BY <1>6, <1>7 DEF AppliesIn
<1> QED BY <1>4, <1>5, <1>6, <1>7, <1>8

\* Where the rows stay in place.
LEMMA InPlace ==
    ASSUME NEW old \in Seq(Rows), NEW new \in Seq(Rows), DOMAIN new = DOMAIN old,
           \A k \in DOMAIN new : new[k].id = old[k].id /\ new[k].ci = old[k].ci
    PROVE  SameRows(old, new)
<1> DEFINE f == [k \in DOMAIN new |-> k]
<1>1. f \in Bijection(DOMAIN new, DOMAIN old)
  BY DEF Bijection, Injection, Surjection, IsInjective
<1>2. \A k \in DOMAIN new : f[k] = k OBVIOUS
<1> QED BY <1>1, <1>2 DEF SameRows

\* Blocks stand while the rows are the same.
LEMMA SameBlocks ==
    ASSUME agents \in Seq(Rows), agents' \in Seq(Rows), Distinct(agents), SameRows(agents, agents'),
           UNCHANGED <<blocks, read>>
    PROVE  \A s : /\ OnSession(s)' = OnSession(s)
                  /\ waits' = waits => Settled(s)' = Settled(s)
<1>1. \A b : Applies(b) <=> AppliesIn(agents, b) BY DEF Applies, AppliesIn
<1>2. \A b : Applies(b)' <=> AppliesIn(agents', b) BY DEF Applies, AppliesIn
<1>3. \A b : Applies(b)' <=> Applies(b) BY <1>1, <1>2, SameAre
<1>4. ASSUME NEW s PROVE OnSession(s)' = OnSession(s) BY <1>3 DEF OnSession
<1> QED BY <1>4 DEF Settled

\* A row for each row.
LEMMA EachRow ==
    ASSUME NEW rows \in Seq(Rows), NEW new \in [DOMAIN rows -> Rows]
    PROVE  new \in Seq(Rows) /\ Len(new) = Len(rows) /\ DOMAIN new = DOMAIN rows
<1>1. Len(rows) \in Nat /\ DOMAIN rows = 1..Len(rows) BY LenProperties
<1>2. new \in Seq(Rows) BY <1>1, SeqDef
<1> QED BY <1>1, <1>2, LenProperties

LEMMA SameIds ==
    ASSUME NEW rows \in Seq(Rows), NEW new, DOMAIN new = DOMAIN rows, \A i \in DOMAIN rows : new[i].id = rows[i].id
    PROVE  Ids(new) = Ids(rows) /\ (Distinct(rows) => Distinct(new))
BY DEF Ids, Distinct

LEMMA Relabelled ==
    ASSUME NEW row \in Rows, NEW to \in Statuses
    PROVE  LET new == [row EXCEPT !.status = to]
           IN  new \in Rows /\ new.id = row.id /\ new.ci = row.ci /\ new.status = to
BY DEF Rows, Statuses

LEMMA Rejudged ==
    ASSUME NEW row \in Rows, NEW ci \in Verdicts
    PROVE  LET new == [row EXCEPT !.ci = ci]
           IN  new \in Rows /\ new.id = row.id /\ new.ci = ci /\ new.status = row.status
BY DEF Rows, Statuses

LEMMA RelaxedRow ==
    ASSUME NEW row \in Rows, NEW to \in Statuses
    PROVE  LET new == Relaxed(row, to)
           IN  /\ new \in Rows /\ new.id = row.id /\ new.ci = row.ci
               /\ new.status = IF row.status \in Soft THEN to ELSE row.status
BY Relabelled DEF Relaxed, Soft

LEMMA QuietedRow ==
    ASSUME NEW row \in Rows
    PROVE  LET new == Quieted(row)
           IN  /\ new \in Rows /\ new.id = row.id /\ new.ci = row.ci
               /\ new.status \notin Alerting
<1>1. {"waiting on agents", "waiting"} \subseteq Statuses \ Alerting BY DEF Statuses, ReadStatuses, Alerting
<1> DEFINE to == IF row.status = "shell stuck?" THEN "waiting on agents" ELSE "waiting"
<1>2. to \in Statuses \ Alerting BY <1>1
<1>3. Quieted(row) = IF row.status \notin Alerting THEN row ELSE [row EXCEPT !.status = to]
  BY DEF Quieted
<1> HIDE DEF to
<1> QED BY <1>2, <1>3, Relabelled
-----------------------------------------------------------------------------
\* Every step keeps the invariant.
LEMMA InitInv == Init => BoardInv
<1> SUFFICES ASSUME Init PROVE BoardInv OBVIOUS
<1>1. agents \in Seq(Rows) /\ Len(agents) = 0 BY EmptySeq DEF Init
<1>2. DOMAIN agents = {} BY <1>1, LenProperties
<1>3. RowsInv BY <1>1, <1>2 DEF Init, RowsInv, Distinct, Unread
<1>4. StatusInv BY <1>2 DEF StatusInv
<1> QED BY <1>1, <1>3, <1>4
        DEF Init, BoardInv, Stages, Unread, PanesInv, PartsInv, Whole, CarriedInv, TablesInv

LEMMA PollInv == BoardInv /\ Poll => BoardInv'
<1> SUFFICES ASSUME BoardInv, Poll PROVE BoardInv' OBVIOUS
<1>1. agents' \in Seq(Rows) /\ Len(agents') = 0 BY EmptySeq DEF Poll
<1>2. DOMAIN agents' = {} BY <1>1, LenProperties
<1>3. RowsInv' BY <1>1, <1>2 DEF Poll, RowsInv, Distinct, Unread
<1>4. StatusInv' BY <1>2 DEF StatusInv
<1> QED BY <1>1, <1>3, <1>4
        DEF Poll, BoardInv, Stages, Unread, PanesInv, PartsInv, Whole, CarriedInv, TablesInv

LEMMA RosterInv == BoardInv /\ agentRoster => BoardInv'
<1> SUFFICES ASSUME BoardInv, agentRoster PROVE BoardInv' OBVIOUS
<1>1. PICK S \in SUBSET Sessions : \E ids \in SetToSeqs(S), f \in [S -> ReadStatuses] :
          agents' = [i \in DOMAIN ids |-> [id |-> ids[i], status |-> f[ids[i]], ci |-> "none"]]
  BY DEF agentRoster
<1>2. PICK ids \in SetToSeqs(S), f \in [S -> ReadStatuses] :
          agents' = [i \in DOMAIN ids |-> [id |-> ids[i], status |-> f[ids[i]], ci |-> "none"]]
  BY <1>1
<1>3. IsFiniteSet(S) BY RowsEnd, FS_Subset
<1>4. /\ Cardinality(S) \in Nat /\ DOMAIN ids = 1..Cardinality(S)
      /\ \A i \in DOMAIN ids : ids[i] \in S
      /\ \A i, j \in DOMAIN ids : ids[i] = ids[j] => i = j
  BY <1>3, ListsOnce, FS_CardinalityType DEF Bijection, Injection, IsInjective
<1>5. ASSUME NEW i \in DOMAIN ids
      PROVE  agents'[i] \in Rows /\ agents'[i].id = ids[i] /\ agents'[i].status \in ReadStatuses
  BY <1>2, <1>4, <1>5 DEF Rows, Verdicts
<1>6. DOMAIN agents' = DOMAIN ids BY <1>2
<1>7. agents' \in [1..Cardinality(S) -> Rows] BY <1>2, <1>4, <1>5
<1>8. agents' \in Seq(Rows) /\ Len(agents') \in Nat BY <1>4, <1>7, SeqDef, LenProperties
<1>9. Distinct(agents') BY <1>4, <1>5, <1>6 DEF Distinct
<1>10. RowsInv' BY <1>5, <1>6, <1>8, <1>9 DEF agentRoster, RowsInv, Unread
<1>11. n = 0 /\ queued = 0 /\ carried = {} BY DEF BoardInv, PartsInv, Whole, Unread, agentRoster
<1>12. StatusInv' BY DEF StatusInv, agentRoster, AsRead, Blocked
<1>13. PartsInv' BY <1>8, <1>11 DEF agentRoster, PartsInv, Whole, Unread
<1> QED BY <1>10, <1>12, <1>13
        DEF BoardInv, agentRoster, Stages, Unread, PanesInv, CarriedInv, TablesInv

LEMMA PanesStep == BoardInv /\ panes => BoardInv'
<1> SUFFICES ASSUME BoardInv, panes PROVE BoardInv' OBVIOUS
<1>1. view' \in [Ids(agents) -> Views] BY DEF panes
<1>2. PanesInv'
  BY <1>1 DEF panes, PanesInv, Ids
<1>3. RowsInv' BY DEF BoardInv, panes, RowsInv, Unread, Distinct
<1>4. StatusInv' BY DEF StatusInv, panes, AsRead, Blocked
<1>5. PartsInv' BY DEF BoardInv, panes, PartsInv, Whole, Unread
<1> QED BY <1>2, <1>3, <1>4, <1>5 DEF BoardInv, panes, Stages, Unread, CarriedInv, TablesInv

LEMMA DropInv == BoardInv /\ dropDeadPanes => BoardInv'
<1> SUFFICES ASSUME BoardInv, dropDeadPanes PROVE BoardInv' OBVIOUS
<1>1. /\ at = "dropDeadPanes" /\ at' = "enrichCI"
      /\ agents \in Seq(Rows) /\ Distinct(agents)
      /\ \A i \in DOMAIN agents : agents[i].status \in ReadStatuses
  BY DEF BoardInv, RowsInv, Unread, dropDeadPanes
<1> DEFINE K == {i \in DOMAIN agents : agents[i].id \notin Dead(listing, view)}
<1>2. agents' = Pick(agents, K) BY DEF dropDeadPanes, Keep
<1>3. K \in SUBSET DOMAIN agents OBVIOUS
<1> HIDE DEF K
<1>4. agents' \in Seq(Rows) /\ From(agents, K, agents') BY <1>1, <1>2, <1>3, Picked
<1>5. PICK f \in Bijection(DOMAIN agents', K) : \A k \in DOMAIN agents' : agents'[k] = agents[f[k]]
  BY <1>4 DEF From
<1>6. /\ f \in [DOMAIN agents' -> DOMAIN agents]
      /\ \A j, k \in DOMAIN agents' : f[j] = f[k] => j = k
  BY <1>3, <1>5 DEF Bijection, Injection, IsInjective
<1>7. Distinct(agents') BY <1>1, <1>5, <1>6 DEF Distinct
<1>8. read' = [s \in Ids(agents') |-> (CHOOSE r \in Range(agents) : r.id = s).status]
  BY DEF dropDeadPanes
<1>9. ASSUME NEW k \in DOMAIN agents'
      PROVE  agents'[k].id \in Ids(agents') /\ read'[agents'[k].id] = agents'[k].status
  <2>1. agents'[k].id \in Ids(agents') BY <1>4, RowFields
  <2>2. agents'[k] = agents[f[k]] /\ f[k] \in DOMAIN agents BY <1>5, <1>6
  <2>3. (CHOOSE r \in Range(agents) : r.id = agents'[k].id) = agents'[k]
    BY <1>1, <2>2, ChosenRow
  <2> QED BY <1>8, <2>1, <2>3
<1>10. read' \in [Ids(agents') -> ReadStatuses]
  <2>1. \A s \in Ids(agents') : \E k \in DOMAIN agents' : agents'[k].id = s BY DEF Ids
  <2>2. \A k \in DOMAIN agents' : agents'[k].status \in ReadStatuses BY <1>1, <1>5, <1>6
  <2>3. \A s \in Ids(agents') : read'[s] \in ReadStatuses BY <1>9, <2>1, <2>2
  <2> HIDE DEF K
  <2> QED BY <1>8, <2>3
<1>11. n = 0 /\ queued = 0 /\ carried = {} BY <1>1 DEF BoardInv, PartsInv, Whole, Unread
<1>12. Len(agents') \in Nat BY <1>4, LenProperties
<1>13. RowsInv' BY <1>1, <1>4, <1>7, <1>10 DEF RowsInv, Unread
<1>14. StatusInv' BY <1>1, <1>9 DEF StatusInv, AsRead, Blocked
<1>15. PartsInv' BY <1>1, <1>11, <1>12 DEF dropDeadPanes, PartsInv, Whole, AsRead
<1>16. TablesInv' BY DEF BoardInv, TablesInv, dropDeadPanes
<1> QED BY <1>1, <1>13, <1>14, <1>15, <1>16
        DEF BoardInv, Stages, AsRead, PanesInv, CarriedInv

\* A step that gives each row its new verdict.
LEMMA JudgeInv ==
    ASSUME BoardInv, at \in {"enrichCI", "suppressWatchedCI"}, at' \in AsRead,
           agents' \in [DOMAIN agents -> Rows],
           \A i \in DOMAIN agents : agents'[i].id = agents[i].id /\ agents'[i].status = agents[i].status,
           UNCHANGED <<tmux, n, queued, carried, blocks, waits, read>>
    PROVE  BoardInv'
<1>1. at \in AsRead /\ at \notin Unread /\ at' \notin Unread /\ at \in Whole /\ at' \in Whole
  BY DEF AsRead, Unread, Whole
<1>2. agents \in Seq(Rows) /\ Distinct(agents) /\ read \in [Ids(agents) -> ReadStatuses]
  BY <1>1 DEF BoardInv, RowsInv
<1>3. agents' \in Seq(Rows) /\ Len(agents') = Len(agents) /\ DOMAIN agents' = DOMAIN agents
  BY <1>2, EachRow
<1>4. Ids(agents') = Ids(agents) /\ Distinct(agents') BY <1>2, <1>3, SameIds
<1>5. RowsInv' BY <1>1, <1>2, <1>3, <1>4 DEF RowsInv
<1>6. StatusInv' BY <1>1, <1>3 DEF BoardInv, StatusInv, AsRead, Blocked
<1>7. PartsInv' BY <1>1, <1>3 DEF BoardInv, PartsInv, AsRead
<1>8. TablesInv' BY DEF BoardInv, TablesInv
<1> QED BY <1>1, <1>5, <1>6, <1>7, <1>8
        DEF BoardInv, Stages, AsRead, PanesInv, CarriedInv

LEMMA EnrichInv == BoardInv /\ enrichCI => BoardInv'
<1> SUFFICES ASSUME BoardInv, enrichCI PROVE BoardInv' OBVIOUS
<1>1. agents \in Seq(Rows) BY DEF BoardInv, RowsInv
<1>2. PICK f \in [Ids(agents) -> Verdicts] : agents' = Each(LAMBDA row : [row EXCEPT !.ci = f[row.id]])
  BY DEF enrichCI
<1>3. agents' = [i \in DOMAIN agents |-> [agents[i] EXCEPT !.ci = f[agents[i].id]]]
  BY <1>2 DEF Each
<1>4. ASSUME NEW i \in DOMAIN agents
      PROVE  /\ agents'[i] \in Rows
             /\ agents'[i].id = agents[i].id /\ agents'[i].status = agents[i].status
  <2>1. agents[i] \in Rows /\ f[agents[i].id] \in Verdicts BY <1>1, <1>2, RowFields
  <2> QED BY <1>3, <2>1, Rejudged
<1> QED BY <1>3, <1>4, JudgeInv DEF enrichCI, AsRead

LEMMA WatchInv == BoardInv /\ suppressWatchedCI => BoardInv'
<1> SUFFICES ASSUME BoardInv, suppressWatchedCI PROVE BoardInv' OBVIOUS
<1>1. agents \in Seq(Rows) BY DEF BoardInv, RowsInv
<1>2. PICK watched \in SUBSET {row.id : row \in {r \in Range(agents) : r.ci \in {"failing", "soft-failing", "green"}}} :
          agents' = Each(LAMBDA row : IF row.id \in watched THEN [row EXCEPT !.ci = "pending"] ELSE row)
  BY DEF suppressWatchedCI
<1>3. agents' = [i \in DOMAIN agents |->
          IF agents[i].id \in watched THEN [agents[i] EXCEPT !.ci = "pending"] ELSE agents[i]]
  BY <1>2 DEF Each
<1>4. ASSUME NEW i \in DOMAIN agents
      PROVE  /\ agents'[i] \in Rows
             /\ agents'[i].id = agents[i].id /\ agents'[i].status = agents[i].status
  <2>1. agents[i] \in Rows /\ "pending" \in Verdicts BY <1>1, RowFields DEF Verdicts
  <2> QED BY <1>3, <2>1, Rejudged
<1> QED BY <1>3, <1>4, JudgeInv DEF suppressWatchedCI, AsRead

LEMMA BlocksInv == BoardInv /\ applyBlocks => BoardInv'
<1> SUFFICES ASSUME BoardInv, applyBlocks PROVE BoardInv' OBVIOUS
<1>1. /\ at = "applyBlocks" /\ at' = "applyPRBlocks" /\ agents \in Seq(Rows) /\ Distinct(agents)
      /\ read \in [Ids(agents) -> ReadStatuses]
      /\ \A i \in DOMAIN agents : agents[i].status = read[agents[i].id]
  BY DEF BoardInv, RowsInv, StatusInv, AsRead, Unread, applyBlocks
<1>2. agents' = [i \in DOMAIN agents |->
          IF \E b \in blocks : b[1] = agents[i].id /\ Applies(b) THEN relaxBlocked(agents[i]) ELSE agents[i]]
  BY DEF applyBlocks, Each
<1>3. ASSUME NEW i \in DOMAIN agents
      PROVE  /\ agents'[i] \in Rows /\ agents'[i].id = agents[i].id /\ agents'[i].ci = agents[i].ci
             /\ agents'[i].status = OnSession(agents[i].id)
  <2>1. agents[i] \in Rows /\ "blocked" \in Statuses BY <1>1, RowFields DEF Statuses
  <2>2. CASE \E b \in blocks : b[1] = agents[i].id /\ Applies(b)
    <3>1. agents'[i] = Relaxed(agents[i], "blocked") BY <1>2, <2>2 DEF relaxBlocked
    <3> QED BY <1>1, <2>1, <2>2, <3>1, RelaxedRow DEF OnSession
  <2>3. CASE ~\E b \in blocks : b[1] = agents[i].id /\ Applies(b)
    BY <1>1, <1>2, <2>1, <2>3 DEF OnSession
  <2> QED BY <2>2, <2>3
<1>4. agents' \in [DOMAIN agents -> Rows] BY <1>2, <1>3
<1>5. agents' \in Seq(Rows) /\ Len(agents') = Len(agents) /\ DOMAIN agents' = DOMAIN agents
  BY <1>1, <1>4, EachRow
<1>6. SameRows(agents, agents') BY <1>1, <1>3, <1>5, InPlace
<1>7. Ids(agents') = Ids(agents) /\ Distinct(agents') BY <1>1, <1>5, <1>6, SameAre
<1>8. \A s : OnSession(s)' = OnSession(s) BY <1>1, <1>5, <1>6, SameBlocks DEF applyBlocks
<1>9. RowsInv' BY <1>1, <1>5, <1>7 DEF RowsInv, Unread, applyBlocks
<1>10. StatusInv' BY <1>1, <1>3, <1>5, <1>8 DEF StatusInv, AsRead, Blocked
<1>11. PartsInv' BY <1>1, <1>5 DEF BoardInv, PartsInv, Whole, AsRead, applyBlocks
<1>12. TablesInv' BY DEF BoardInv, TablesInv, applyBlocks
<1> QED BY <1>1, <1>9, <1>10, <1>11, <1>12 DEF BoardInv, Stages, AsRead, PanesInv, CarriedInv

\* A PR is done exactly when gh says so.
LEMMA DoneWhenTold ==
    ASSUME NEW answer \in PRStates \cup {Failed}
    PROVE  lookupPRFinal(answer).done = "" <=> answer \notin {"MERGED", "CLOSED"}
<1> DEFINE v == [state |-> answer, mergeState |-> "CLEAN", rollup |-> {}]
<1>0. v.state = answer OBVIOUS
<1>1. CASE answer = Failed BY <1>1, NoState DEF lookupPRFinal, Blank, ciResult, PRStates
<1>2. CASE answer = "MERGED"
  <2>1. lookupPRFinal(answer) = ciResult("", "merged", 0, FALSE)
    BY <1>2, NoState DEF lookupPRFinal, parsePRView, PRStates
  <2>2. ciResult("", "merged", 0, FALSE).done = "merged" BY DEF ciResult
  <2>3. lookupPRFinal(answer).done = "merged" BY <2>1, <2>2
  <2> QED BY <1>2, <2>3
<1>3. CASE answer = "CLOSED"
  <2>1. lookupPRFinal(answer) = ciResult("", "closed", 0, FALSE)
    BY <1>3, NoState DEF lookupPRFinal, parsePRView, PRStates
  <2>2. ciResult("", "closed", 0, FALSE).done = "closed" BY DEF ciResult
  <2>3. lookupPRFinal(answer).done = "closed" BY <2>1, <2>2
  <2> QED BY <1>3, <2>3
<1>4. CASE answer \in {"OPEN", "unknown"}
  <2>1. lookupPRFinal(answer) = parsePRView(v) BY <1>4, NoState DEF lookupPRFinal, PRStates
  <2>2. parsePRView(v).done = "" BY <1>0, <1>4 DEF parsePRView, ciResult
  <2> QED BY <1>4, <2>1, <2>2
<1> QED BY <1>1, <1>2, <1>3, <1>4 DEF PRStates

\* A row is held exactly when it waits for a PR that gh did not say is done.
LEMMA HeldRows ==
    ASSUME applyPRBlocks
    PROVE  /\ waits' \subseteq Ids(agents)
           /\ agents' = [i \in DOMAIN agents |->
                  IF agents[i].id \in waits' THEN relaxBlocked(agents[i]) ELSE agents[i]]
<1>1. PICK table \in SUBSET (Ids(agents) \X PRs) :
          \E answers \in [{b[2] : b \in table} \cap ValidPRs -> PRStates \cup {Failed}] :
              /\ agents' = Each(LAMBDA row :
                     IF \E b \in table : b[1] = row.id /\ Lasts(b, answers) THEN relaxBlocked(row) ELSE row)
              /\ waits' = Waiting(table, answers)
  BY DEF applyPRBlocks
<1>2. PICK answers \in [{b[2] : b \in table} \cap ValidPRs -> PRStates \cup {Failed}] :
          /\ agents' = Each(LAMBDA row :
                 IF \E b \in table : b[1] = row.id /\ Lasts(b, answers) THEN relaxBlocked(row) ELSE row)
          /\ waits' = Waiting(table, answers)
  BY <1>1
<1>3. ASSUME NEW b \in table
      PROVE  /\ b = <<b[1], b[2]>>
             /\ Lasts(b, answers) <=> b[2] \in DOMAIN answers /\ answers[b[2]] \notin {"MERGED", "CLOSED"}
  <2>0. b \in Ids(agents) \X PRs BY <1>1
  <2>1. b = <<b[1], b[2]>> BY <2>0
  <2>2. DOMAIN answers = {c[2] : c \in table} \cap ValidPRs BY <1>2
  <2>3. b[2] \in DOMAIN answers <=> b[2] \in ValidPRs BY <2>2
  <2>4. ASSUME b[2] \in DOMAIN answers PROVE answers[b[2]] \in PRStates \cup {Failed}
    <3>1. b[2] \in {c[2] : c \in table} \cap ValidPRs BY <2>2, <2>4
    <3> QED BY <1>2, <3>1
  <2>5. ASSUME b[2] \in DOMAIN answers
        PROVE  lookupPRFinal(answers[b[2]]).done = "" <=> answers[b[2]] \notin {"MERGED", "CLOSED"}
    BY <2>4, <2>5, DoneWhenTold
  <2> QED BY <2>1, <2>3, <2>5 DEF Lasts
<1>4. ASSUME NEW s \in Ids(agents)
      PROVE  (\E b \in table : b[1] = s /\ Lasts(b, answers)) <=> s \in waits'
  <2>1. ASSUME NEW b \in table, b[1] = s, Lasts(b, answers) PROVE s \in Waiting(table, answers)
    <3>1. b[2] \in DOMAIN answers /\ answers[b[2]] \notin {"MERGED", "CLOSED"} /\ <<s, b[2]>> \in table
      BY <1>3, <2>1
    <3> QED BY <3>1 DEF Waiting
  <2>2. ASSUME s \in Waiting(table, answers) PROVE \E b \in table : b[1] = s /\ Lasts(b, answers)
    <3>1. PICK k \in DOMAIN answers : <<s, k>> \in table /\ answers[k] \notin {"MERGED", "CLOSED"}
      BY <2>2 DEF Waiting
    <3>2. <<s, k>>[1] = s /\ <<s, k>>[2] = k OBVIOUS
    <3>3. Lasts(<<s, k>>, answers) BY <1>3, <3>1, <3>2
    <3> QED BY <3>1, <3>2, <3>3
  <2> QED BY <1>2, <2>1, <2>2
<1>5. ASSUME NEW i \in DOMAIN agents PROVE agents[i].id \in Ids(agents) BY DEF Ids
<1>6. waits' \subseteq Ids(agents) BY <1>2 DEF Waiting
<1>7. agents' = [i \in DOMAIN agents |->
          IF \E b \in table : b[1] = agents[i].id /\ Lasts(b, answers) THEN relaxBlocked(agents[i]) ELSE agents[i]]
  BY <1>2 DEF Each
<1>8. ASSUME NEW i \in DOMAIN agents
      PROVE  (\E b \in table : b[1] = agents[i].id /\ Lasts(b, answers)) <=> agents[i].id \in waits'
  BY <1>4, <1>5
<1> QED BY <1>6, <1>7, <1>8

LEMMA PRBlocksInv == BoardInv /\ applyPRBlocks => BoardInv'
<1> SUFFICES ASSUME BoardInv, applyPRBlocks PROVE BoardInv' OBVIOUS
<1>1. /\ at = "applyPRBlocks" /\ at' = "splitQueued" /\ agents \in Seq(Rows) /\ Distinct(agents)
      /\ read \in [Ids(agents) -> ReadStatuses]
      /\ \A i \in DOMAIN agents : agents[i].status = OnSession(agents[i].id)
  BY DEF BoardInv, RowsInv, StatusInv, Unread, applyPRBlocks
<1>2. agents' = [i \in DOMAIN agents |->
          IF agents[i].id \in waits' THEN relaxBlocked(agents[i]) ELSE agents[i]]
  BY HeldRows
<1>3. ASSUME NEW i \in DOMAIN agents
      PROVE  /\ agents'[i] \in Rows /\ agents'[i].id = agents[i].id /\ agents'[i].ci = agents[i].ci
             /\ agents'[i].status = IF agents[i].id \in waits' /\ read[agents[i].id] \in Soft
                                   THEN "blocked" ELSE OnSession(agents[i].id)
  <2>1. agents[i] \in Rows /\ "blocked" \in Statuses BY <1>1, RowFields DEF Statuses
  <2>2. CASE agents[i].id \in waits'
    <3>1. agents'[i] = Relaxed(agents[i], "blocked") BY <1>2, <2>2 DEF relaxBlocked
    <3>2. /\ agents'[i] \in Rows /\ agents'[i].id = agents[i].id /\ agents'[i].ci = agents[i].ci
          /\ agents'[i].status = IF agents[i].status \in Soft THEN "blocked" ELSE agents[i].status
      BY <2>1, <3>1, RelaxedRow
    <3> QED BY <1>1, <2>2, <3>2 DEF OnSession, Soft
  <2>3. CASE agents[i].id \notin waits'
    BY <1>1, <1>2, <2>1, <2>3
  <2> QED BY <2>2, <2>3
<1>4. agents' \in [DOMAIN agents -> Rows] BY <1>2, <1>3
<1>5. agents' \in Seq(Rows) /\ Len(agents') = Len(agents) /\ DOMAIN agents' = DOMAIN agents
  BY <1>1, <1>4, EachRow
<1>6. SameRows(agents, agents') BY <1>1, <1>3, <1>5, InPlace
<1>7. Ids(agents') = Ids(agents) /\ Distinct(agents') BY <1>1, <1>5, <1>6, SameAre
<1>8. \A s : OnSession(s)' = OnSession(s) BY <1>1, <1>5, <1>6, SameBlocks DEF applyPRBlocks
<1>9. read' = read BY DEF applyPRBlocks
<1>10. RowsInv' BY <1>1, <1>5, <1>7, <1>9 DEF RowsInv, Unread
<1>11. StatusInv'
  <2>1. \A s : Settled(s)' = IF s \in waits' /\ read[s] \in Soft THEN "blocked" ELSE OnSession(s)
    BY <1>8, <1>9 DEF Settled
  <2> QED BY <1>1, <1>3, <1>5, <2>1 DEF StatusInv, AsRead, Blocked
<1>12. PartsInv' BY <1>1, <1>5 DEF BoardInv, PartsInv, Whole, applyPRBlocks
<1>13. Ids(agents) \subseteq Sessions BY <1>1, RowFields DEF Ids
<1>14. TablesInv' BY <1>13, HeldRows DEF BoardInv, TablesInv, applyPRBlocks
<1> QED BY <1>1, <1>10, <1>11, <1>12, <1>14 DEF BoardInv, Stages, Blocked, PanesInv, CarriedInv

Shuffled(old, new) ==
    \E f \in Bijection(DOMAIN new, DOMAIN old) : \A k \in DOMAIN new : new[k] = old[f[k]]

LEMMA ShuffledAreSame ==
    ASSUME NEW old, NEW new, Shuffled(old, new)
    PROVE  /\ SameRows(old, new)
           /\ \A k \in DOMAIN new : \E i \in DOMAIN old : new[k] = old[i]
           /\ \A i \in DOMAIN old : \E k \in DOMAIN new : new[k] = old[i]
BY DEF Shuffled, SameRows, Bijection, Injection, Surjection

\* The rows at some indexes, and behind them those at the others.
InParts(rows, K, rest, tail, new) ==
    /\ rest \in Seq(Rows) /\ new \in Seq(Rows) /\ Len(new) = Len(rest) + Len(tail)
    /\ Shuffled(rows, new)
    /\ \A k \in DOMAIN rest : \E i \in K : new[k] = rows[i]
    /\ \A k \in DOMAIN new \ DOMAIN rest :
          /\ k - Len(rest) \in DOMAIN tail
          /\ new[k] = tail[k - Len(rest)]
          /\ \E i \in DOMAIN rows \ K : new[k] = rows[i]

LEMMA Parted ==
    ASSUME NEW rows \in Seq(Rows), NEW K \in SUBSET DOMAIN rows, NEW tail \in Seq(Rows),
           From(rows, DOMAIN rows \ K, tail),
           NEW rest, rest = Pick(rows, K), NEW new, new = rest \o tail
    PROVE  InParts(rows, K, rest, tail, new)
<1>1. PICK g \in Bijection(DOMAIN tail, DOMAIN rows \ K) : \A k \in DOMAIN tail : tail[k] = rows[g[k]]
  BY DEF From
<1>2. rest \in Seq(Rows) /\ From(rows, K, rest) BY Picked
<1>3. PICK f \in Bijection(DOMAIN rest, K) : \A k \in DOMAIN rest : rest[k] = rows[f[k]] BY <1>2 DEF From
<1>4. new \in Seq(Rows) /\ Len(new) = Len(rest) + Len(tail) BY <1>2, Joined
<1>5. \A i \in 1..(Len(rest) + Len(tail)) : new[i] = IF i =< Len(rest) THEN rest[i] ELSE tail[i - Len(rest)]
  BY <1>2, Joined
<1>6. /\ Len(rest) \in Nat /\ DOMAIN rest = 1..Len(rest)
      /\ Len(tail) \in Nat /\ DOMAIN tail = 1..Len(tail)
      /\ DOMAIN new = 1..(Len(rest) + Len(tail))
  <2>1. DOMAIN new = 1..Len(new) BY <1>4, LenProperties
  <2> QED BY <1>2, <1>4, <2>1, LenProperties
<1>7. /\ f \in [DOMAIN rest -> K] /\ g \in [DOMAIN tail -> DOMAIN rows \ K]
      /\ \A j, k \in DOMAIN rest : f[j] = f[k] => j = k
      /\ \A j, k \in DOMAIN tail : g[j] = g[k] => j = k
      /\ \A i \in K : \E k \in DOMAIN rest : f[k] = i
      /\ \A i \in DOMAIN rows \ K : \E k \in DOMAIN tail : g[k] = i
  BY <1>1, <1>3 DEF Bijection, Injection, Surjection, IsInjective
<1>8. ASSUME NEW k \in DOMAIN new
      PROVE  \/ k \in DOMAIN rest /\ k =< Len(rest)
             \/ k \notin DOMAIN rest /\ k > Len(rest) /\ k - Len(rest) \in DOMAIN tail
  BY <1>6
<1> DEFINE h == [k \in DOMAIN new |-> IF k =< Len(rest) THEN f[k] ELSE g[k - Len(rest)]]
<1>9. ASSUME NEW k \in DOMAIN new
      PROVE  /\ k =< Len(rest) => h[k] = f[k] /\ h[k] \in K /\ new[k] = rows[h[k]]
             /\ k > Len(rest) => /\ h[k] = g[k - Len(rest)] /\ h[k] \in DOMAIN rows \ K
                                 /\ new[k] = tail[k - Len(rest)] /\ new[k] = rows[h[k]]
             /\ h[k] \in DOMAIN rows
  BY <1>1, <1>3, <1>5, <1>6, <1>7, <1>8
<1>10. h \in [DOMAIN new -> DOMAIN rows] BY <1>9
<1>11. DOMAIN h = DOMAIN new OBVIOUS
<1> HIDE DEF h
<1>12. ASSUME NEW j \in DOMAIN new, NEW k \in DOMAIN new, h[j] = h[k] PROVE j = k
  <2>1. j \in Nat /\ k \in Nat BY <1>6
  <2>2. CASE j =< Len(rest) /\ k =< Len(rest) BY <1>7, <1>8, <1>9, <1>12, <2>1, <2>2
  <2>3. CASE j > Len(rest) /\ k > Len(rest)
    <3>1. g[j - Len(rest)] = g[k - Len(rest)] BY <1>9, <1>12, <2>3
    <3>2. j - Len(rest) \in DOMAIN tail /\ k - Len(rest) \in DOMAIN tail BY <1>6, <1>8, <2>1, <2>3
    <3>3. j - Len(rest) = k - Len(rest) BY <1>7, <3>1, <3>2
    <3> QED BY <1>6, <2>1, <3>3
  <2>4. CASE j =< Len(rest) /\ k > Len(rest) BY <1>9, <1>12, <2>4
  <2>5. CASE j > Len(rest) /\ k =< Len(rest) BY <1>9, <1>12, <2>5
  <2> QED BY <1>6, <2>1, <2>2, <2>3, <2>4, <2>5
<1>13. ASSUME NEW i \in DOMAIN rows PROVE \E k \in DOMAIN new : h[k] = i
  <2>1. CASE i \in K
    <3>1. PICK k \in DOMAIN rest : f[k] = i BY <1>7, <2>1
    <3>2. k \in DOMAIN new /\ k =< Len(rest) BY <1>6
    <3> QED BY <1>9, <3>1, <3>2
  <2>2. CASE i \notin K
    <3>1. PICK k \in DOMAIN tail : g[k] = i BY <1>7, <2>2
    <3>2. /\ k + Len(rest) \in DOMAIN new /\ k + Len(rest) > Len(rest)
          /\ (k + Len(rest)) - Len(rest) = k
      BY <1>6
    <3> QED BY <1>9, <3>1, <3>2
  <2> QED BY <2>1, <2>2
<1>14. h \in Bijection(DOMAIN new, DOMAIN rows)
  BY <1>10, <1>12, <1>13 DEF Bijection, Injection, Surjection, IsInjective
<1>15. Shuffled(rows, new) BY <1>6, <1>9, <1>14 DEF Shuffled
<1>16. ASSUME NEW k \in DOMAIN rest PROVE \E i \in K : new[k] = rows[i]
  <2>1. k \in DOMAIN new /\ k =< Len(rest) BY <1>6
  <2> QED BY <1>9, <2>1
<1>17. ASSUME NEW k \in DOMAIN new \ DOMAIN rest
       PROVE  /\ k - Len(rest) \in DOMAIN tail
              /\ new[k] = tail[k - Len(rest)]
              /\ \E i \in DOMAIN rows \ K : new[k] = rows[i]
  <2>1. k > Len(rest) /\ k - Len(rest) \in DOMAIN tail BY <1>8
  <2> QED BY <1>9, <2>1
<1> QED BY <1>2, <1>4, <1>15, <1>16, <1>17 DEF InParts

\* Rows behind them change nothing.
LEMMA Suffixed ==
    ASSUME NEW old \in Seq(Rows), NEW new \in Seq(Rows), NEW t \in Seq(Rows), Shuffled(old, new), Len(new) = Len(old)
    PROVE  Shuffled(old \o t, new \o t)
<1>1. PICK f \in Bijection(DOMAIN new, DOMAIN old) : \A k \in DOMAIN new : new[k] = old[f[k]] BY DEF Shuffled
<1> DEFINE l == Len(old)
           m == Len(t)
           P == old \o t
           Q == new \o t
<1>2. l \in Nat /\ m \in Nat /\ DOMAIN old = 1..l /\ DOMAIN new = 1..l BY LenProperties
<1>3. /\ Q \in Seq(Rows) /\ Len(Q) = l + m
      /\ \A k \in 1..(l + m) : Q[k] = IF k =< l THEN new[k] ELSE t[k - l]
  <2>1. Len(new) = l OBVIOUS
  <2>2. /\ Q \in Seq(Rows) /\ Len(Q) = Len(new) + m
        /\ \A k \in 1..(Len(new) + m) : Q[k] = IF k =< Len(new) THEN new[k] ELSE t[k - Len(new)]
    BY Joined
  <2> QED BY <2>1, <2>2
<1>4. /\ P \in Seq(Rows) /\ Len(P) = l + m
      /\ \A k \in 1..(l + m) : P[k] = IF k =< l THEN old[k] ELSE t[k - l]
  BY Joined
<1> HIDE DEF l, m, P, Q
<1>5. DOMAIN P = 1..(l + m) /\ DOMAIN Q = 1..(l + m) BY <1>3, <1>4, LenProperties
<1>6. /\ f \in [1..l -> 1..l]
      /\ \A j, k \in 1..l : f[j] = f[k] => j = k
      /\ \A i \in 1..l : \E k \in 1..l : f[k] = i
  BY <1>2 DEF Bijection, Injection, Surjection, IsInjective
<1> DEFINE h == [k \in 1..(l + m) |-> IF k =< l THEN f[k] ELSE k]
<1>7. ASSUME NEW k \in 1..(l + m)
      PROVE  /\ k =< l => k \in 1..l /\ h[k] = f[k] /\ h[k] \in 1..l
             /\ k > l => h[k] = k
             /\ h[k] \in 1..(l + m)
  <2>1. h[k] = IF k =< l THEN f[k] ELSE k OBVIOUS
  <2> HIDE DEF h
  <2>2. CASE k =< l
    <3>1. k \in 1..l /\ ~(k > l) BY <1>2, <2>2
    <3>2. h[k] = f[k] /\ f[k] \in 1..l BY <1>6, <2>1, <2>2, <3>1
    <3> QED BY <1>2, <2>2, <3>1, <3>2
  <2>3. CASE ~(k =< l)
    <3>1. h[k] = k BY <2>1, <2>3
    <3> QED BY <2>3, <3>1
  <2> QED BY <2>2, <2>3
<1>8. h \in [1..(l + m) -> 1..(l + m)] BY <1>7
<1> HIDE DEF h
<1>9. ASSUME NEW k \in 1..(l + m) PROVE Q[k] = P[h[k]]
  <2>1. CASE k =< l
    <3>1. h[k] \in 1..l /\ h[k] \in 1..(l + m) BY <1>7, <2>1
    <3>2. h[k] =< l BY <1>2, <3>1
    <3>3. Q[k] = new[k] /\ P[h[k]] = old[h[k]] BY <1>3, <1>4, <2>1, <3>1, <3>2
    <3> QED BY <1>1, <1>2, <1>7, <2>1, <3>3
  <2>2. CASE k > l
    <3>1. ~(k =< l) BY <1>2, <2>2
    <3> QED BY <1>3, <1>4, <1>7, <2>2, <3>1
  <2> QED BY <1>2, <2>1, <2>2
<1>10. ASSUME NEW j \in 1..(l + m), NEW k \in 1..(l + m), h[j] = h[k] PROVE j = k
  <2>1. j =< l \/ j > l BY <1>2
  <2>2. k =< l \/ k > l BY <1>2
  <2>3. CASE j =< l /\ k =< l BY <1>6, <1>7, <1>10, <2>3
  <2>4. CASE j > l /\ k > l BY <1>7, <1>10, <2>4
  <2>5. CASE j =< l /\ k > l BY <1>2, <1>7, <1>10, <2>5
  <2>6. CASE j > l /\ k =< l BY <1>2, <1>7, <1>10, <2>6
  <2> QED BY <2>1, <2>2, <2>3, <2>4, <2>5, <2>6
<1>11. ASSUME NEW i \in 1..(l + m) PROVE \E k \in 1..(l + m) : h[k] = i
  <2>1. CASE i =< l
    <3>1. PICK k \in 1..l : f[k] = i BY <1>2, <1>6, <2>1
    <3>2. k \in 1..(l + m) /\ k =< l BY <1>2
    <3> QED BY <1>7, <3>1, <3>2
  <2>2. CASE i > l BY <1>7, <2>2
  <2> QED BY <1>2, <2>1, <2>2
<1>12. h \in Bijection(1..(l + m), 1..(l + m))
  BY <1>8, <1>10, <1>11 DEF Bijection, Injection, Surjection, IsInjective
<1> QED BY <1>5, <1>9, <1>12 DEF Shuffled, P, Q
-----------------------------------------------------------------------------
(* Steps that move rows.                                                     *)
LEMMA TwinRows ==
    ASSUME NEW a \in Rows, NEW b \in Rows, a.id = b.id, a.ci = b.ci, NEW to
    PROVE  [a EXCEPT !.status = to] = [b EXCEPT !.status = to]
BY DEF Rows

LEMMA SplitInv == BoardInv /\ splitQueued => BoardInv'
<1> SUFFICES ASSUME BoardInv, splitQueued PROVE BoardInv' OBVIOUS
<1>1. /\ at = "splitQueued" /\ at' = "carryOver" /\ agents \in Seq(Rows) /\ Distinct(agents)
      /\ read \in [Ids(agents) -> ReadStatuses] /\ carried = {}
      /\ \A i \in DOMAIN agents : agents[i].status = Settled(agents[i].id)
  BY DEF BoardInv, RowsInv, StatusInv, PartsInv, Whole, Blocked, Unread, splitQueued
<1> DEFINE K    == {i \in DOMAIN agents : ~InQueue(agents[i])}
           rest == Pick(agents, K)
           QR   == {row \in Range(agents) : InQueue(row)}
<1>2. PICK q \in SetToSeqs(QR) : agents' = rest \o q BY DEF splitQueued, Keep
<1>3. n' = Len(rest) /\ queued' = Len(agents) - Len(rest) BY DEF splitQueued, Keep
<1>4. Len(agents) \in Nat /\ DOMAIN agents = 1..Len(agents) BY <1>1, LenProperties
<1>5. IsFiniteSet(QR)
  <2>1. agents \in Surjection(DOMAIN agents, Range(agents)) BY <1>1, LenProperties DEF Surjection, Range
  <2>2. IsFiniteSet(DOMAIN agents) BY <1>4, FS_Interval
  <2>3. IsFiniteSet(Range(agents)) BY <2>1, <2>2, FS_Surjection
  <2> QED BY <2>3, FS_Subset
<1>6. QR \subseteq Rows BY <1>1, RangeOfSeq
<1>7. \A row \in QR : \E i \in DOMAIN agents \ K : agents[i] = row BY DEF Range
<1>8. \A i \in DOMAIN agents \ K : agents[i] \in QR BY <1>1, RowFields
<1>9. K \in SUBSET DOMAIN agents OBVIOUS
<1>10. /\ \A i \in K : ~InQueue(agents[i])
       /\ \A i \in DOMAIN agents \ K : InQueue(agents[i])
  OBVIOUS
<1> HIDE DEF QR, K, rest
<1>11. /\ q \in Seq(QR) /\ q \in [DOMAIN q -> QR]
       /\ \A j, k \in DOMAIN q : q[j] = q[k] => j = k
       /\ \A row \in QR : \E k \in DOMAIN q : q[k] = row
  BY <1>5, ListsOnce DEF Bijection, Injection, Surjection, IsInjective
<1>12. q \in Seq(Rows) BY <1>6, <1>11, SeqMonotonic
<1> DEFINE g == [k \in DOMAIN q |-> CHOOSE i \in DOMAIN agents \ K : agents[i] = q[k]]
<1>13. ASSUME NEW k \in DOMAIN q PROVE g[k] \in DOMAIN agents \ K /\ q[k] = agents[g[k]]
  BY <1>7, <1>11
<1>14. g \in [DOMAIN q -> DOMAIN agents \ K] BY <1>13
<1> HIDE DEF g
<1>15. ASSUME NEW i \in DOMAIN agents \ K PROVE \E k \in DOMAIN q : g[k] = i
  <2>1. PICK k \in DOMAIN q : q[k] = agents[i] BY <1>8, <1>11
  <2>2. agents[g[k]] = agents[i] /\ g[k] \in DOMAIN agents BY <1>13, <2>1
  <2> QED BY <1>1, <2>2 DEF Distinct
<1>16. \A j, k \in DOMAIN q : g[j] = g[k] => j = k BY <1>11, <1>13
<1>17. g \in Bijection(DOMAIN q, DOMAIN agents \ K)
  BY <1>14, <1>15, <1>16 DEF Bijection, Injection, Surjection, IsInjective
<1>18. /\ rest \in Seq(Rows) /\ agents' \in Seq(Rows) /\ Len(agents') = Len(rest) + Len(q)
       /\ Shuffled(agents, agents')
       /\ \A k \in DOMAIN rest : \E i \in K : agents'[k] = agents[i]
       /\ \A k \in DOMAIN agents' \ DOMAIN rest : \E i \in DOMAIN agents \ K : agents'[k] = agents[i]
  <2>1. \A k \in DOMAIN q : q[k] = agents[g[k]] BY <1>13
  <2>2. From(agents, DOMAIN agents \ K, q) BY <1>17, <2>1 DEF From
  <2>3. rest = Pick(agents, K) BY DEF rest
  <2>4. agents \in Seq(Rows) /\ agents' = rest \o q BY <1>1, <1>2
  <2>5. InParts(agents, K, rest, q, agents') BY <1>9, <1>12, <2>2, <2>3, <2>4, Parted
  <2> QED BY <2>5 DEF InParts
<1>19. SameRows(agents, agents') /\ \A k \in DOMAIN agents' : \E i \in DOMAIN agents : agents'[k] = agents[i]
  BY <1>18, ShuffledAreSame
<1>20. Len(agents') = Len(agents) /\ Distinct(agents') /\ Ids(agents') = Ids(agents)
  BY <1>1, <1>18, <1>19, SameAre
<1>21. read' = read /\ blocks' = blocks /\ waits' = waits /\ carried' = carried BY DEF splitQueued
<1>22. \A s : Settled(s)' = Settled(s) BY <1>1, <1>18, <1>19, <1>21, SameBlocks
<1>23. /\ Len(rest) \in Nat /\ DOMAIN rest = 1..Len(rest) /\ Len(q) \in Nat
       /\ DOMAIN agents' = 1..Len(agents')
  BY <1>12, <1>18, LenProperties
<1>24. RowsInv' BY <1>1, <1>18, <1>20, <1>21 DEF RowsInv, Unread
<1>25. StatusInv'
  <2>1. \A k \in DOMAIN agents' : agents'[k].status = Settled(agents'[k].id) BY <1>1, <1>19
  <2> QED BY <1>1, <1>22, <2>1 DEF StatusInv, AsRead, Blocked
<1>26. PartsInv'
  <2>1. /\ n' \in Nat /\ queued' \in Nat /\ n' + queued' = Len(agents') /\ Len(agents') - queued' = Len(rest)
    <3>1. Len(agents) = Len(rest) + Len(q) /\ Len(agents') = Len(agents) BY <1>18, <1>20
    <3>2. queued' = Len(q) BY <1>3, <1>4, <1>23, <3>1
    <3> QED BY <1>3, <1>23, <3>1, <3>2
  <2>2. ASSUME NEW k \in DOMAIN agents' PROVE InQueue(agents'[k]) <=> k > Len(rest)
    <3>1. CASE k \in DOMAIN rest BY <1>10, <1>18, <1>23, <3>1
    <3>2. CASE k \notin DOMAIN rest BY <1>10, <1>18, <1>23, <3>2
    <3> QED BY <3>1, <3>2
  <2>3. Len(agents') \in Nat /\ Len(agents') =< Len(agents') BY <1>4, <1>20
  <2> QED BY <1>1, <1>21, <2>1, <2>2, <2>3 DEF PartsInv, Whole, AsRead, Unread
<1>27. TablesInv' BY <1>21 DEF BoardInv, TablesInv
<1> QED BY <1>1, <1>24, <1>25, <1>26, <1>27 DEF BoardInv, Stages, Blocked, PanesInv, CarriedInv

LEMMA DemoteInv == BoardInv /\ demotePendingCI => BoardInv'
<1> SUFFICES ASSUME BoardInv, demotePendingCI PROVE BoardInv' OBVIOUS
<1>1. /\ at = "demotePendingCI" /\ at' = "page" /\ agents \in Seq(Rows) /\ Distinct(agents)
      /\ read \in [Ids(agents) -> ReadStatuses]
      /\ \A i \in DOMAIN agents : agents[i].status = Settled(agents[i].id)
  BY DEF BoardInv, RowsInv, StatusInv, Blocked, Unread, demotePendingCI
<1>2. agents' = [i \in DOMAIN agents |->
          IF InQueue(agents[i]) THEN Quieted(agents[i])
          ELSE IF agents[i].ci \in {"pending", "soft-failing", "done"}
               THEN Relaxed(agents[i], "waiting") ELSE agents[i]]
  BY DEF demotePendingCI, Each
<1>3. ASSUME NEW i \in DOMAIN agents
      PROVE  /\ agents'[i] \in Rows /\ agents'[i].id = agents[i].id /\ agents'[i].ci = agents[i].ci
             /\ agents'[i].status = Final(agents[i])
             /\ Demoted(agents[i]) = agents[i]
  <2>1. agents[i] \in Rows /\ "waiting" \in Statuses BY <1>1, RowFields DEF Statuses
  <2>2. Demoted(agents[i]) = agents[i] BY <1>1, <2>1 DEF Demoted, Rows
  <2>3. CASE InQueue(agents[i])
    <3>1. agents'[i] = Quieted(agents[i]) BY <1>2, <2>3
    <3> QED BY <2>1, <2>2, <2>3, <3>1, QuietedRow DEF Final
  <2>4. CASE ~InQueue(agents[i]) /\ agents[i].ci \in {"pending", "soft-failing", "done"}
    <3>1. agents'[i] = Relaxed(agents[i], "waiting") BY <1>2, <2>4
    <3> QED BY <2>1, <2>2, <2>4, <3>1, RelaxedRow DEF Final
  <2>5. CASE ~InQueue(agents[i]) /\ agents[i].ci \notin {"pending", "soft-failing", "done"}
    <3>1. agents'[i] = agents[i] BY <1>2, <2>5
    <3> QED BY <1>1, <2>1, <2>2, <2>5, <3>1 DEF Final
  <2> QED BY <2>3, <2>4, <2>5
<1>4. agents' \in [DOMAIN agents -> Rows] BY <1>2, <1>3
<1>5. agents' \in Seq(Rows) /\ Len(agents') = Len(agents) /\ DOMAIN agents' = DOMAIN agents
  BY <1>1, <1>4, EachRow
<1>6. SameRows(agents, agents') BY <1>1, <1>3, <1>5, InPlace
<1>7. Ids(agents') = Ids(agents) /\ Distinct(agents') BY <1>1, <1>5, <1>6, SameAre
<1>8. UNCHANGED <<n, queued, carried, blocks, waits, read>> BY DEF demotePendingCI
<1>9. \A s : Settled(s)' = Settled(s) BY <1>1, <1>5, <1>6, <1>8, SameBlocks
<1>10. RowsInv' BY <1>1, <1>5, <1>7, <1>8 DEF RowsInv, Unread
<1>11. Len(agents) \in Nat /\ DOMAIN agents = 1..Len(agents) BY <1>1, LenProperties
<1>12. PartsInv'
  BY <1>1, <1>3, <1>5, <1>8 DEF BoardInv, PartsInv, Whole, AsRead, Unread, InQueue
<1>13. TablesInv' BY <1>8 DEF BoardInv, TablesInv
<1>14. \A row : Demoted(row)' = Demoted(row) /\ Final(row)' = Final(row)
  <2>1. \A row : Demoted(row)' = Demoted(row) BY <1>9 DEF Demoted
  <2> QED BY <1>9, <2>1 DEF Final
<1>15. ASSUME NEW i \in DOMAIN agents
       PROVE  Demoted(agents'[i]) = Demoted(agents[i]) /\ Final(agents'[i]) = Final(agents[i])
  <2>1. agents[i] \in Rows /\ agents'[i] \in Rows BY <1>1, <1>3, RowFields
  <2>2. Demoted(agents'[i]) = Demoted(agents[i]) BY <1>3, <2>1, TwinRows DEF Demoted
  <2> QED BY <1>3, <2>2 DEF Final, InQueue
<1>16. StatusInv'
  <2>1. \A i \in DOMAIN agents' : agents'[i].status = Final(agents'[i]) BY <1>3, <1>5, <1>15
  <2> QED BY <1>1, <1>14, <2>1 DEF StatusInv, AsRead, Blocked
<1>17. CarriedInv'
  <2> DEFINE Gone == n + 1 .. Len(agents) - queued
  <2>1. /\ carried \subseteq Rows
        /\ {row.id : row \in carried} = {agents[i].id : i \in Gone}
        /\ \A row \in carried : row.status = Settled(row.id) /\ setAndForget(row)
        /\ \A i \in Gone : agents[i].ci = "done" /\ setAndForget(Demoted(agents[i]))
    BY <1>1 DEF BoardInv, CarriedInv
  <2>2. Gone \subseteq DOMAIN agents
    <3>1. n \in Nat /\ queued \in Nat BY DEF BoardInv, PartsInv
    <3> QED BY <1>11, <3>1
  <2>3. (n + 1 .. Len(agents) - queued)' = Gone BY <1>5, <1>8
  <2> HIDE DEF Gone
  <2>4. \A i \in Gone : agents'[i].id = agents[i].id /\ agents'[i].ci = agents[i].ci BY <1>3, <2>2
  <2>5. {agents'[i].id : i \in Gone} = {agents[i].id : i \in Gone} BY <2>4
  <2>6. \A i \in Gone : Demoted(agents'[i]) = Demoted(agents[i]) BY <1>15, <2>2
  <2>7. \A row \in carried : row.status = Settled(row.id)' BY <1>9, <2>1
  <2>8. \A i \in Gone : setAndForget((Demoted(agents[i]))') BY <1>14, <2>1, <2>6
  <2> QED BY <1>8, <2>1, <2>3, <2>4, <2>5, <2>7, <2>8 DEF CarriedInv
<1> QED BY <1>1, <1>10, <1>12, <1>13, <1>16, <1>17 DEF BoardInv, Stages, PanesInv

\* The two slices make up the array when carryOver gets it.
LEMMA Slices ==
    ASSUME agents \in Seq(Rows), n \in Nat, queued \in Nat, n + queued =< Len(agents)
    PROVE  /\ Roster \in Seq(Rows) /\ DOMAIN Roster = 1..n /\ Len(Roster) = n
           /\ \A i \in 1..n : i \in DOMAIN agents /\ Roster[i] = agents[i]
           /\ Queue \in Seq(Rows) /\ DOMAIN Queue = 1..queued
           /\ \A i \in 1..queued : /\ Len(agents) - queued + i \in DOMAIN agents
                                   /\ Queue[i] = agents[Len(agents) - queued + i]
<1>1. Len(agents) \in Nat /\ DOMAIN agents = 1..Len(agents) BY LenProperties
<1>2. \A i \in DOMAIN agents : agents[i] \in Rows BY RowFields
<1>3. /\ Roster \in Seq(Rows) /\ Len(Roster) = (IF 1 =< n THEN n - 1 + 1 ELSE 0)
      /\ \A i \in 1..(n - 1 + 1) : Roster[i] = agents[1 + i - 1]
  <2>1. \A i \in 1..n : agents[i] \in Rows BY <1>1, <1>2
  <2> QED BY <2>1, SubSeqProperties DEF Roster
<1> DEFINE l == Len(agents) - queued
<1>4. l \in Nat /\ l + queued = Len(agents) /\ n =< l BY <1>1
<1>5. /\ Queue \in Seq(Rows) /\ Len(Queue) = (IF l + 1 =< Len(agents) THEN Len(agents) - (l + 1) + 1 ELSE 0)
      /\ \A i \in 1..(Len(agents) - (l + 1) + 1) : Queue[i] = agents[l + 1 + i - 1]
  <2>1. \A i \in (l + 1)..Len(agents) : agents[i] \in Rows BY <1>1, <1>2, <1>4
  <2>2. Queue = SubSeq(agents, l + 1, Len(agents)) BY DEF Queue
  <2>3. l + 1 \in Int /\ Len(agents) \in Int BY <1>1, <1>4
  <2> HIDE DEF l
  <2> QED BY <2>1, <2>2, <2>3, SubSeqProperties
<1> HIDE DEF l
<1>6. Len(Roster) = n /\ Len(Queue) = queued BY <1>3, <1>4, <1>5
<1>7. DOMAIN Roster = 1..n /\ DOMAIN Queue = 1..queued BY <1>3, <1>5, <1>6, LenProperties
<1>8. ASSUME NEW i \in 1..n PROVE i \in DOMAIN agents /\ Roster[i] = agents[i]
  <2>1. i \in 1..(n - 1 + 1) /\ 1 + i - 1 = i OBVIOUS
  <2> QED BY <1>1, <1>3, <1>4, <2>1
<1>9. ASSUME NEW i \in 1..queued PROVE l + i \in DOMAIN agents /\ Queue[i] = agents[l + i]
  <2>1. i \in 1..(Len(agents) - (l + 1) + 1) /\ l + 1 + i - 1 = l + i /\ l + i \in 1..Len(agents)
    BY <1>1, <1>4
  <2>2. Queue[i] = agents[l + 1 + i - 1] BY <1>5, <2>1
  <2> QED BY <1>1, <2>1, <2>2
<1> QED BY <1>3, <1>5, <1>6, <1>7, <1>8, <1>9 DEF l

LEMMA CarryInv == BoardInv /\ carryOver => BoardInv'
<1> SUFFICES ASSUME BoardInv, carryOver PROVE BoardInv' OBVIOUS
<1>1. /\ at = "carryOver" /\ at' = "demotePendingCI" /\ agents \in Seq(Rows) /\ Distinct(agents)
      /\ read \in [Ids(agents) -> ReadStatuses] /\ carried = {}
      /\ \A i \in DOMAIN agents : agents[i].status = Settled(agents[i].id)
      /\ n \in Nat /\ queued \in Nat /\ n + queued = Len(agents)
  BY DEF BoardInv, RowsInv, StatusInv, PartsInv, Whole, Blocked, Unread, carryOver
<1>2. \A i \in DOMAIN agents : InQueue(agents[i]) <=> i > Len(agents) - queued
  BY <1>1 DEF BoardInv, PartsInv, Whole, Unread, AsRead
<1>3. PICK entries \in SUBSET Ids(Roster) :
          LET stay == Keep(Roster, LAMBDA row : ~Moves(row, entries))
              move == Keep(Roster, LAMBDA row : Moves(row, entries))
          IN  agents' = stay \o move \o Queue /\ n' = Len(stay) /\ carried' = Range(move)
  BY DEF carryOver
<1> DEFINE K    == {i \in DOMAIN Roster : ~Moves(Roster[i], entries)}
           M    == {i \in DOMAIN Roster : Moves(Roster[i], entries)}
           stay == Pick(Roster, K)
           move == Pick(Roster, M)
           both == stay \o move
<1>4. agents' = both \o Queue /\ n' = Len(stay) /\ carried' = Range(move)
  BY <1>3 DEF Keep
<1>5. /\ Len(agents) \in Nat /\ n = Len(agents) - queued
      /\ Roster \in Seq(Rows) /\ DOMAIN Roster = 1..n /\ Len(Roster) = n
      /\ \A i \in 1..n : i \in DOMAIN agents /\ Roster[i] = agents[i]
      /\ Queue \in Seq(Rows) /\ DOMAIN Queue = 1..queued
      /\ \A i \in 1..queued : n + i \in DOMAIN agents /\ Queue[i] = agents[n + i]
  <2>1. Len(agents) \in Nat BY <1>1, LenProperties
  <2>2. n + queued =< Len(agents) /\ n = Len(agents) - queued BY <1>1, <2>1
  <2> QED BY <1>1, <2>1, <2>2, Slices
<1>6. DOMAIN agents = 1..(n + queued) BY <1>1, LenProperties
<1>7. agents = Roster \o Queue
  <2>1. /\ Roster \o Queue \in Seq(Rows) /\ Len(Roster \o Queue) = n + Len(Queue)
        /\ \A i \in 1..(n + Len(Queue)) : (Roster \o Queue)[i] = IF i =< n THEN Roster[i] ELSE Queue[i - n]
    <3>1. /\ Roster \o Queue \in Seq(Rows) /\ Len(Roster \o Queue) = Len(Roster) + Len(Queue)
          /\ \A i \in 1..(Len(Roster) + Len(Queue)) :
                (Roster \o Queue)[i] = IF i =< Len(Roster) THEN Roster[i] ELSE Queue[i - Len(Roster)]
      <4>1. Roster \in Seq(Rows) /\ Queue \in Seq(Rows) BY <1>5
      <4> QED BY <4>1, Joined
    <3>2. Len(Roster) = n BY <1>5
    <3> QED BY <3>1, <3>2
  <2>2. Len(Queue) = queued
    <3>1. Len(Queue) \in Nat /\ DOMAIN Queue = 1..Len(Queue) BY <1>5, LenProperties
    <3> QED BY <1>1, <1>5, <3>1
  <2>3. ASSUME NEW i \in 1..Len(agents) PROVE (Roster \o Queue)[i] = agents[i]
    <3>1. CASE i =< n
      <4>1. i \in 1..n /\ i \in 1..(n + queued) BY <1>1, <3>1
      <4> QED BY <1>5, <2>1, <2>2, <3>1, <4>1
    <3>2. CASE i > n
      <4>1. i - n \in 1..queued /\ i \in 1..(n + queued) /\ ~(i =< n) /\ n + (i - n) = i BY <1>1, <1>5, <3>2
      <4> QED BY <1>5, <2>1, <2>2, <4>1
    <3> QED BY <1>1, <1>5, <3>1, <3>2
  <2> QED BY <1>1, <2>1, <2>2, <2>3, SeqEqual
<1>8. /\ K \in SUBSET DOMAIN Roster /\ M \in SUBSET DOMAIN Roster /\ M = DOMAIN Roster \ K
      /\ \A i \in M : Moves(Roster[i], entries)
  OBVIOUS
<1> HIDE DEF K, M, stay, move, both
<1>9. move \in Seq(Rows) /\ From(Roster, M, move)
  BY <1>5, <1>8, Picked DEF move
<1>10. InParts(Roster, K, stay, move, both)
  BY <1>5, <1>8, <1>9, Parted DEF stay, both
<1>11. /\ stay \in Seq(Rows) /\ both \in Seq(Rows) /\ Len(both) = Len(stay) + Len(move)
       /\ Shuffled(Roster, both)
       /\ \A k \in DOMAIN both \ DOMAIN stay :
             /\ k - Len(stay) \in DOMAIN move
             /\ both[k] = move[k - Len(stay)]
  BY <1>10 DEF InParts
<1>12. Len(both) = n
  <2>1. Distinct(Roster) BY <1>1, <1>5 DEF Distinct
  <2> QED BY <1>5, <1>11, <2>1, ShuffledAreSame, SameAre
<1>13. Shuffled(agents, agents') BY <1>4, <1>5, <1>7, <1>11, <1>12, Suffixed
<1>14. agents' \in Seq(Rows)
  <2>1. both \in Seq(Rows) /\ Queue \in Seq(Rows) /\ agents' = both \o Queue BY <1>4, <1>5, <1>11
  <2> QED BY <2>1, Joined
<1>15. SameRows(agents, agents') /\ \A k \in DOMAIN agents' : \E i \in DOMAIN agents : agents'[k] = agents[i]
  BY <1>13, ShuffledAreSame
<1>16. Len(agents') = Len(agents) /\ Distinct(agents') /\ Ids(agents') = Ids(agents)
  BY <1>1, <1>14, <1>15, SameAre
<1>17. UNCHANGED <<queued, blocks, waits, read>> BY DEF carryOver
<1>18. \A s : Settled(s)' = Settled(s) BY <1>1, <1>14, <1>15, <1>17, SameBlocks
<1>19. RowsInv' BY <1>1, <1>14, <1>16, <1>17 DEF RowsInv, Unread
<1>20. StatusInv'
  <2>1. \A k \in DOMAIN agents' : agents'[k].status = Settled(agents'[k].id) BY <1>1, <1>15
  <2> QED BY <1>1, <1>18, <2>1 DEF StatusInv, AsRead, Blocked
<1>21. /\ Len(stay) \in Nat /\ DOMAIN stay = 1..Len(stay)
       /\ Len(move) \in Nat /\ DOMAIN move = 1..Len(move)
       /\ DOMAIN both = 1..n /\ n = Len(stay) + Len(move)
       /\ DOMAIN agents' = 1..(n + queued)
  <2>1. /\ Len(stay) \in Nat /\ DOMAIN stay = 1..Len(stay)
        /\ Len(move) \in Nat /\ DOMAIN move = 1..Len(move)
    BY <1>9, <1>11, LenProperties
  <2>2. DOMAIN both = 1..Len(both) BY <1>11, LenProperties
  <2>3. DOMAIN agents' = 1..Len(agents') BY <1>14, LenProperties
  <2> QED BY <1>1, <1>11, <1>12, <1>16, <2>1, <2>2, <2>3
<1>22. ASSUME NEW k \in DOMAIN agents'
       PROVE  /\ k =< n => agents'[k] = both[k] /\ \E i \in 1..n : both[k] = Roster[i]
              /\ k > n => agents'[k] = agents[k]
  <2>1. \A i \in 1..(Len(both) + Len(Queue)) :
            (both \o Queue)[i] = IF i =< Len(both) THEN both[i] ELSE Queue[i - Len(both)]
    <3>1. both \in Seq(Rows) /\ Queue \in Seq(Rows) BY <1>5, <1>11
    <3> QED BY <3>1, Joined
  <2>2. Len(Queue) = queued
    <3>1. Len(Queue) \in Nat /\ DOMAIN Queue = 1..Len(Queue) BY <1>5, LenProperties
    <3> QED BY <1>1, <1>5, <3>1
  <2>3. agents'[k] = IF k =< n THEN both[k] ELSE Queue[k - n] BY <1>4, <1>12, <1>21, <2>1, <2>2
  <2>4. k \in Nat BY <1>21
  <2>5. CASE k =< n
    <3>1. k \in DOMAIN both BY <1>1, <1>21, <2>5
    <3>2. \E i \in DOMAIN Roster : both[k] = Roster[i]
      <4>1. Shuffled(Roster, both) BY <1>11
      <4>2. \A j \in DOMAIN both : \E i \in DOMAIN Roster : both[j] = Roster[i]
        BY <4>1, ShuffledAreSame
      <4> QED BY <3>1, <4>2
    <3>3. ~(k > n) BY <1>1, <2>5, <2>4
    <3> QED BY <1>5, <2>3, <2>5, <3>2, <3>3
  <2>6. CASE k > n
    <3>1. k - n \in 1..queued /\ n + (k - n) = k /\ ~(k =< n) BY <1>1, <1>21, <2>6
    <3>2. Queue[k - n] = agents[n + (k - n)] BY <1>5, <3>1
    <3>3. agents'[k] = agents[k] BY <2>3, <3>1, <3>2
    <3> QED BY <1>1, <2>6, <3>1, <3>3
  <2> QED BY <1>1, <2>5, <2>6, <2>4
<1>23. PartsInv'
  <2>1. n' \in Nat /\ queued' \in Nat /\ n' + queued' =< Len(agents')
    BY <1>1, <1>4, <1>16, <1>17, <1>21
  <2>2. ASSUME NEW k \in DOMAIN agents' PROVE InQueue(agents'[k]) <=> k > n
    <3>1. CASE k =< n
      <4>1. PICK i \in 1..n : agents'[k] = Roster[i] BY <1>22, <3>1
      <4>2. agents'[k] = agents[i] /\ i \in DOMAIN agents /\ ~(i > n) BY <1>5, <4>1
      <4>3. ~InQueue(agents[i]) BY <1>2, <1>5, <4>2
      <4>4. k \in Nat BY <1>21
      <4> QED BY <1>1, <3>1, <4>2, <4>3, <4>4
    <3>2. CASE k > n BY <1>2, <1>5, <1>6, <1>21, <1>22, <3>2
    <3> QED BY <1>1, <1>21, <3>1, <3>2
  <2>3. Len(agents') - queued' = n BY <1>5, <1>16, <1>17
  <2> QED BY <1>1, <2>1, <2>2, <2>3 DEF PartsInv, Whole, AsRead, Unread
<1>24. n' = Len(stay) /\ Len(agents') - queued' = n BY <1>4, <1>5, <1>16, <1>17
<1>25. ASSUME NEW row \in carried'
       PROVE  /\ row \in Rows /\ row.status = Settled(row.id) /\ setAndForget(row) /\ row.ci = "done"
              /\ Demoted(row) = row
  <2>1. PICK k \in DOMAIN move : row = move[k] BY <1>4 DEF Range
  <2>2. PICK i \in M : row = Roster[i] BY <1>9, <2>1 DEF From, Bijection, Injection
  <2>3. i \in DOMAIN agents /\ row = agents[i] BY <1>5, <1>8, <2>2
  <2>4. Moves(row, entries) BY <1>8, <2>2
  <2>5. row \in Rows /\ row.status = Settled(row.id) BY <1>1, <2>3, RowFields
  <2> QED BY <2>4, <2>5 DEF Moves, Demoted, Rows
<1>26. ASSUME NEW k \in (n' + 1 .. Len(agents') - queued') PROVE k \in DOMAIN agents' /\ agents'[k] \in carried'
  <2>1. k \in DOMAIN both \ DOMAIN stay /\ k =< n /\ k \in DOMAIN agents'
    <3>1. k \in Len(stay) + 1 .. n BY <1>24
    <3> QED BY <1>1, <1>21, <3>1
  <2>2. agents'[k] = move[k - Len(stay)] /\ k - Len(stay) \in DOMAIN move BY <1>11, <1>22, <2>1
  <2> QED BY <1>4, <2>1, <2>2 DEF Range
<1>27. ASSUME NEW row \in carried' PROVE \E k \in (n' + 1 .. Len(agents') - queued') : agents'[k] = row
  <2>1. PICK j \in DOMAIN move : row = move[j] BY <1>4 DEF Range
  <2>2. /\ j + Len(stay) \in (n' + 1 .. Len(agents') - queued') /\ (j + Len(stay)) - Len(stay) = j
        /\ j + Len(stay) \in DOMAIN both \ DOMAIN stay
        /\ j + Len(stay) =< n /\ j + Len(stay) \in DOMAIN agents'
    <3>1. j + Len(stay) \in Len(stay) + 1 .. n /\ (j + Len(stay)) - Len(stay) = j BY <1>1, <1>21
    <3> QED BY <1>1, <1>21, <1>24, <3>1
  <2>3. agents'[j + Len(stay)] = move[j] BY <1>11, <1>22, <2>2
  <2> QED BY <2>1, <2>2, <2>3
<1>28. CarriedInv'
  <2>1. {row.id : row \in carried'} = {agents'[i].id : i \in (n' + 1 .. Len(agents') - queued')}
    BY <1>26, <1>27
  <2>2. \A row \in carried' : row.status = Settled(row.id)' BY <1>18, <1>25
  <2>3. \A row : Demoted(row)' = Demoted(row) BY <1>18 DEF Demoted
  <2>4. \A i \in (n' + 1 .. Len(agents') - queued') :
            agents'[i].ci = "done" /\ setAndForget((Demoted(agents[i]))')
    BY <1>25, <1>26, <2>3
  <2>5. carried' \subseteq Rows BY <1>25
  <2> QED BY <1>25, <2>1, <2>2, <2>4, <2>5 DEF CarriedInv
<1>29. TablesInv' BY <1>17 DEF BoardInv, TablesInv
<1> QED BY <1>1, <1>19, <1>20, <1>23, <1>28, <1>29 DEF BoardInv, Stages, Blocked, PanesInv
-----------------------------------------------------------------------------
(* The invariant and what follows from it.                                   *)
LEMMA StepInv == BoardInv /\ [Next]_vars => BoardInv'
<1> SUFFICES ASSUME BoardInv, [Next]_vars PROVE BoardInv' OBVIOUS
<1>1. CASE Next
  BY <1>1, RosterInv, PanesStep, DropInv, EnrichInv, WatchInv, BlocksInv, PRBlocksInv,
     SplitInv, CarryInv, DemoteInv, PollInv DEF Next
<1>2. CASE UNCHANGED vars
  <2>1. UNCHANGED <<at, agents, listing, view, running, n, queued, carried, blocks, waits, read>>
    BY <1>2 DEF vars, tmux
  <2>2. \A b : Applies(b)' = Applies(b) BY <2>1 DEF Applies, Ids, ciOf, Range
  <2>3. \A s : Settled(s)' = Settled(s) /\ OnSession(s)' = OnSession(s) BY <2>1, <2>2 DEF Settled, OnSession
  <2>4. \A row : Demoted(row)' = Demoted(row) BY <2>3 DEF Demoted
  <2>5. \A row : Final(row)' = Final(row) BY <2>3, <2>4 DEF Final
  <2>6. PanesInv' BY <2>1 DEF BoardInv, PanesInv, Ids
  <2>7. RowsInv' BY <2>1 DEF BoardInv, RowsInv, Ids
  <2>8. StatusInv' BY <2>1, <2>3, <2>5 DEF BoardInv, StatusInv
  <2>9. PartsInv' BY <2>1 DEF BoardInv, PartsInv
  <2>10. CarriedInv'
    <3>1. \A i : setAndForget((Demoted(agents[i]))') <=> setAndForget(Demoted(agents[i])) BY <2>1, <2>4
    <3>2. \A row : row.status = Settled(row.id)' <=> row.status = Settled(row.id) BY <2>3
    <3> QED BY <2>1, <3>1, <3>2 DEF BoardInv, CarriedInv
  <2> QED BY <2>1, <2>6, <2>7, <2>8, <2>9, <2>10 DEF BoardInv, TablesInv
<1> QED BY <1>1, <1>2

(* A render keeps its invariant, whatever rows, listings, answers and blocks *)
(* it is given.                                                              *)
THEOREM BoardInvariant == Spec => []BoardInv
BY InitInv, StepInv, PTL DEF Spec

LEMMA InvTypes == BoardInv => TypeOK
BY DEF BoardInv, TypeOK, RowsInv, PartsInv, CarriedInv, TablesInv, Stages, Whole, Unread, AsRead, Blocked

(* Every variable holds a value of its kind.                                 *)
THEOREM BoardTypes == Spec => []TypeOK
BY BoardInvariant, InvTypes, PTL

\* What the invariant says of a page: its shape,
LEMMA PageShape ==
    ASSUME BoardInv, OnPage
    PROVE  /\ Len(agents) \in Nat /\ DOMAIN agents = 1..Len(agents)
           /\ n \in Nat /\ queued \in Nat /\ n + queued =< Len(agents)
           /\ Len(agents) - queued \in Nat
           /\ \A i \in DOMAIN agents : i \in Nat /\ i > 0 /\ i =< Len(agents)
<1>1. agents \in Seq(Rows) BY DEF BoardInv, RowsInv
<1>2. Len(agents) \in Nat /\ DOMAIN agents = 1..Len(agents) BY <1>1, LenProperties
<1>3. n \in Nat /\ queued \in Nat /\ n + queued =< Len(agents) BY DEF BoardInv, PartsInv
<1> QED BY <1>2, <1>3

\* and its rows.
LEMMA PageRows ==
    ASSUME BoardInv, OnPage
    PROVE  /\ agents \in Seq(Rows) /\ Distinct(agents)
           /\ read \in [Ids(agents) -> ReadStatuses]
           /\ Len(agents) \in Nat /\ DOMAIN agents = 1..Len(agents)
           /\ n \in Nat /\ queued \in Nat /\ n + queued =< Len(agents)
           /\ \A i \in DOMAIN agents :
                 /\ agents[i].id \in DOMAIN read
                 /\ agents[i].status = Final(agents[i])
                 /\ ciOf(agents, agents[i].id) = agents[i].ci
                 /\ InQueue(agents[i]) <=> i > Len(agents) - queued
                 /\ n < i /\ i =< Len(agents) - queued =>
                       agents[i].ci = "done" /\ setAndForget(Demoted(agents[i]))
           /\ {row.id : row \in carried} = {agents[i].id : i \in n + 1 .. Len(agents) - queued}
           /\ \A row \in carried : row \in Rows /\ row.status = Settled(row.id) /\ setAndForget(row)
<1>1. at = "page" /\ at \notin Unread \cup AsRead \cup Blocked \cup Whole
  BY DEF OnPage, Unread, AsRead, Blocked, Whole
<1>2. agents \in Seq(Rows) /\ Distinct(agents) /\ read \in [Ids(agents) -> ReadStatuses]
  BY <1>1 DEF BoardInv, RowsInv
<1>3. Len(agents) \in Nat /\ DOMAIN agents = 1..Len(agents) BY <1>2, LenProperties
<1>4. n \in Nat /\ queued \in Nat /\ n + queued =< Len(agents) BY DEF BoardInv, PartsInv
<1>5. /\ carried \subseteq Rows
      /\ {row.id : row \in carried} = {agents[i].id : i \in n + 1 .. Len(agents) - queued}
      /\ \A row \in carried : row.status = Settled(row.id) /\ setAndForget(row)
      /\ \A i \in n + 1 .. Len(agents) - queued :
            agents[i].ci = "done" /\ setAndForget(Demoted(agents[i]))
  BY <1>1 DEF BoardInv, CarriedInv
<1>6. ASSUME NEW i \in DOMAIN agents
      PROVE  /\ agents[i].id \in DOMAIN read
             /\ agents[i].status = Final(agents[i])
             /\ ciOf(agents, agents[i].id) = agents[i].ci
             /\ InQueue(agents[i]) <=> i > Len(agents) - queued
  <2>1. agents[i].id \in DOMAIN read BY <1>2, RowFields
  <2>2. agents[i].status = Final(agents[i]) BY <1>1 DEF BoardInv, StatusInv
  <2>3. InQueue(agents[i]) <=> i > Len(agents) - queued BY <1>1 DEF BoardInv, PartsInv
  <2> QED BY <1>2, <2>1, <2>2, <2>3, ChosenRow
<1>7. ASSUME NEW i \in DOMAIN agents, n < i, i =< Len(agents) - queued
      PROVE  agents[i].ci = "done" /\ setAndForget(Demoted(agents[i]))
  <2>1. i \in n + 1 .. Len(agents) - queued BY <1>3, <1>4, <1>7
  <2> QED BY <1>5, <2>1
<1> QED BY <1>2, <1>3, <1>4, <1>5, <1>6, <1>7

\* The status of a row on a page, by what was read.
LEMMA Settles ==
    ASSUME NEW s
    PROVE  /\ read[s] \notin Soft => Settled(s) = read[s]
           /\ Settled(s) \in {read[s], "blocked"}
           /\ Settled(s) = read[s] \/ read[s] \in Soft
           /\ read[s] \in Soft =>
                 (Settled(s) = read[s] <=> s \notin waits /\ ~\E b \in blocks : b[1] = s /\ Applies(b))
BY DEF Settled, OnSession, Soft

\* On a page, the blocks that apply are those of two rows read, the second one's
\* PR not known to be done.
LEMMA AppliesOnPage ==
    ASSUME BoardInv, OnPage, NEW s \in DOMAIN read
    PROVE  (\E b \in blocks : b[1] = s /\ Applies(b))
               <=> \E t \in DOMAIN read : <<s, t>> \in blocks /\ ciOf(agents, t) # "done"
<1>1. DOMAIN read = Ids(agents) /\ blocks \subseteq Sessions \X Sessions
  BY PageRows DEF BoardInv, TablesInv, RowsInv, OnPage, Unread
<1>2. \A b \in blocks : b = <<b[1], b[2]>> BY <1>1
<1>3. \A t : <<s, t>>[1] = s /\ <<s, t>>[2] = t OBVIOUS
<1> QED BY <1>1, <1>2, <1>3 DEF Applies

LEMMA Finals ==
    ASSUME NEW row \in Rows, ~InQueue(row)
    PROVE  Final(row) = IF row.ci \in {"pending", "soft-failing", "done"} /\ Settled(row.id) \in Soft
                        THEN "waiting" ELSE Settled(row.id)
<1>1. Demoted(row).status = Settled(row.id) BY DEF Demoted, Rows
<1>2. [Demoted(row) EXCEPT !.status = "waiting"].status = "waiting" BY DEF Demoted, Rows
<1> QED BY <1>1, <1>2 DEF Final, Relaxed, Soft

LEMMA PageSlices ==
    ASSUME BoardInv, OnPage
    PROVE  /\ DOMAIN Roster = 1..n /\ \A i \in 1..n : i \in DOMAIN agents /\ Roster[i] = agents[i]
           /\ DOMAIN Queue = 1..queued
           /\ \A i \in 1..queued : /\ Len(agents) - queued + i \in DOMAIN agents
                                   /\ Queue[i] = agents[Len(agents) - queued + i]
BY PageRows, Slices

\* A row that is neither queued nor wants nothing more of its user is on the roster.
LEMMA OnRoster ==
    ASSUME BoardInv, OnPage, NEW i \in DOMAIN agents, ~InQueue(agents[i]),
           agents[i].ci = "done" => ~setAndForget(Demoted(agents[i]))
    PROVE  agents[i] \in Range(Roster)
<1>1. ~(i > Len(agents) - queued) /\ ~(n < i /\ i =< Len(agents) - queued) BY PageRows
<1>2. i \in 1..n BY <1>1, PageShape
<1> QED BY <1>2, PageSlices DEF Range

LEMMA InvAlerts == BoardInv => AlertsReachUser
<1> SUFFICES ASSUME BoardInv, OnPage, NEW s \in DOMAIN read, read[s] \in Alerting,
                    ciOf(agents, s) # "queued", read[s] \in {"needs you", "waiting for you"} => ~Excused(s)
             PROVE  \E row \in Range(Roster) : row.id = s /\ row.status = read[s]
  BY DEF AlertsReachUser
<1>1. PICK i \in DOMAIN agents : agents[i].id = s BY PageRows DEF Ids
<1>2. /\ agents[i] \in Rows /\ agents[i].status = Final(agents[i]) /\ ciOf(agents, s) = agents[i].ci
      /\ ~InQueue(agents[i])
  BY <1>1, PageRows, RowFields DEF InQueue
<1>3. Settled(s) = read[s]
  BY Settles, AppliesOnPage DEF Excused, Soft
<1>4. agents[i].ci \in {"pending", "soft-failing", "done"} => read[s] \notin Soft
  BY <1>2 DEF Excused, Soft
<1>5. agents[i].status = read[s] BY <1>1, <1>2, <1>3, <1>4, Finals
<1>6. Demoted(agents[i]).status = read[s] BY <1>1, <1>2, <1>3 DEF Demoted, Rows
<1>7. read[s] \notin Soft => ~setAndForget(Demoted(agents[i]))
  BY <1>6 DEF setAndForget, Alerting, Soft
<1>8. agents[i] \in Range(Roster) BY <1>2, <1>4, <1>7, OnRoster
<1> QED BY <1>1, <1>5, <1>8

(* A row that wants its user, for something only the user can do, is on the  *)
(* roster and says so.                                                       *)
THEOREM Alerts == Spec => []AlertsReachUser
BY BoardInvariant, InvAlerts, PTL

LEMMA InvOthers == BoardInv => OthersRest
<1> SUFFICES ASSUME BoardInv, OnPage, NEW row \in Range(Roster), row.status \in Alerting
             PROVE  row.status = read[row.id] /\ (row.status \in {"needs you", "waiting for you"} => ~Excused(row.id))
  BY DEF OthersRest
<1>1. PICK i \in 1..n : i \in DOMAIN agents /\ row = agents[i] BY PageSlices DEF Range
<1>2. /\ row \in Rows /\ row.status = Final(row) /\ ciOf(agents, row.id) = row.ci
      /\ InQueue(row) <=> i > Len(agents) - queued
  BY <1>1, PageRows, RowFields
<1>3. ~InQueue(row) BY <1>1, <1>2, PageRows
<1>4. row.status = Settled(row.id) /\ ~(row.ci \in {"pending", "soft-failing", "done"} /\ row.status \in Soft)
  BY <1>2, <1>3, Finals DEF Alerting
<1>5. row.status = read[row.id] BY <1>4, Settles DEF Alerting
<1>6. row.id \in DOMAIN read BY <1>1, PageRows
<1> QED BY <1>2, <1>4, <1>5, <1>6, Settles, AppliesOnPage DEF Excused, Soft

(* No other row of the roster alerts.                                        *)
THEOREM Others == Spec => []OthersRest
BY BoardInvariant, InvOthers, PTL

LEMMA InvQuiet == BoardInv => TablesAreQuiet
<1> SUFFICES ASSUME BoardInv, OnPage PROVE TablesAreQuiet BY DEF TablesAreQuiet
<1>1. ASSUME NEW row \in Range(Queue) PROVE row.status \notin Alerting
  <2>1. PICK k \in 1..queued : Len(agents) - queued + k \in DOMAIN agents /\ row = agents[Len(agents) - queued + k]
    BY PageSlices DEF Range
  <2>2. PICK i \in DOMAIN agents : row = agents[i] /\ i > Len(agents) - queued BY <2>1, PageRows
  <2>3. row \in Rows /\ InQueue(row) /\ row.status = Final(row) BY <2>2, PageRows, RowFields
  <2>4. Demoted(row) \in Rows
    <3>1. row.id \in Ids(agents) BY <2>2, PageRows, RowFields
    <3>2. Settled(row.id) \in Statuses BY <3>1, PageRows, Settles DEF Statuses
    <3> QED BY <2>3, <3>2, Relabelled DEF Demoted
  <2> QED BY <2>3, <2>4, QuietedRow DEF Final
<1>2. ASSUME NEW row \in carried, read[row.id] \in {"needs you", "needs approval", "shell stuck?"}
      PROVE  row.status = "blocked"
  <2>1. row.status = Settled(row.id) /\ setAndForget(row) BY PageRows
  <2>2. row.status # read[row.id] BY <1>2, <2>1 DEF setAndForget
  <2> QED BY <2>1, <2>2, Settles
<1> QED BY <1>1, <1>2 DEF TablesAreQuiet

(* The merge queue and the ledger's part never cry for the user.             *)
THEOREM Quiet == Spec => []TablesAreQuiet
BY BoardInvariant, InvQuiet, PTL

LEMMA InvOnce == BoardInv => EveryRowOnce
<1> SUFFICES ASSUME BoardInv, OnPage PROVE EveryRowOnce BY DEF EveryRowOnce
<1> DEFINE R == Ids(Roster)
           Q == Ids(Queue)
           C == {row.id : row \in carried}
           m == Len(agents) - queued
<1>1. m \in Nat /\ n =< m /\ m =< Len(agents) BY PageRows
<1>2. \A s : s \in R <=> \E i \in DOMAIN agents : agents[i].id = s /\ i =< n
  <2>1. ASSUME NEW i \in DOMAIN agents, i =< n PROVE agents[i].id \in R
    <3>1. i \in 1..n BY <2>1, PageRows
    <3> QED BY <3>1, PageSlices DEF Ids
  <2>2. ASSUME NEW s \in R PROVE \E i \in DOMAIN agents : agents[i].id = s /\ i =< n
    <3>1. PICK i \in 1..n : Roster[i].id = s BY PageSlices DEF Ids
    <3> QED BY <3>1, PageSlices, PageRows
  <2> QED BY <2>1, <2>2
<1>3. \A s : s \in Q <=> \E i \in DOMAIN agents : agents[i].id = s /\ i > m
  <2>1. ASSUME NEW i \in DOMAIN agents, i > m PROVE agents[i].id \in Q
    <3>1. i - m \in 1..queued /\ m + (i - m) = i BY <2>1, PageRows
    <3>2. Queue[i - m] = agents[m + (i - m)] BY <3>1, PageSlices
    <3> QED BY <3>1, <3>2, PageSlices DEF Ids
  <2>2. ASSUME NEW s \in Q PROVE \E i \in DOMAIN agents : agents[i].id = s /\ i > m
    <3>1. PICK k \in 1..queued : Queue[k].id = s BY PageSlices DEF Ids
    <3>2. m + k \in DOMAIN agents /\ Queue[k] = agents[m + k] /\ m + k > m BY <1>1, PageSlices
    <3> QED BY <3>1, <3>2
  <2> QED BY <2>1, <2>2
<1>4. \A s : s \in C <=> \E i \in DOMAIN agents : agents[i].id = s /\ n < i /\ i =< m
  <2>1. C = {agents[i].id : i \in n + 1 .. m} BY PageRows
  <2>2. \A i : i \in n + 1 .. m <=> i \in DOMAIN agents /\ n < i /\ i =< m
    BY <1>1, PageRows
  <2> HIDE DEF C, m
  <2> QED BY <2>1, <2>2
<1>5. DOMAIN read = Ids(agents) BY PageRows
<1>6. \A i \in DOMAIN agents : i \in Nat BY PageRows
<1> HIDE DEF R, Q, C, m
<1>7. ASSUME NEW s \in DOMAIN read
      PROVE  \/ s \in R /\ s \notin Q /\ s \notin C
             \/ s \in Q /\ s \notin R /\ s \notin C
             \/ s \in C /\ s \notin R /\ s \notin Q
  <2>1. PICK i \in DOMAIN agents : agents[i].id = s BY <1>5 DEF Ids
  <2>2. \A j \in DOMAIN agents : agents[j].id = s => j = i BY <2>1, PageRows DEF Distinct
  <2>3. /\ s \in R <=> i =< n
        /\ s \in Q <=> i > m
        /\ s \in C <=> n < i /\ i =< m
    BY <1>2, <1>3, <1>4, <2>1, <2>2
  <2>4. n \in Nat /\ i \in Nat BY <1>6, PageRows
  <2> QED BY <1>1, <2>3, <2>4
<1>8. R \cup Q \cup C = DOMAIN read
  <2>1. R \cup Q \cup C \subseteq Ids(agents) BY <1>2, <1>3, <1>4 DEF Ids
  <2> QED BY <1>5, <1>7, <2>1
<1>9. Len(agents) = Cardinality(DOMAIN read)
  <2> DEFINE f == [i \in DOMAIN agents |-> agents[i].id]
  <2>1. f \in Bijection(DOMAIN agents, Ids(agents))
    BY PageRows DEF Bijection, Injection, Surjection, IsInjective, Distinct, Ids
  <2>2. ASSUME NEW k \in Nat PROVE IsFiniteSet(1..k) /\ Cardinality(1..k) = k BY FS_Interval
  <2>3. IsFiniteSet(1..Len(agents)) /\ Cardinality(1..Len(agents)) = Len(agents) BY <2>2, PageRows
  <2>4. ExistsBijection(1..Len(agents), Ids(agents)) BY <2>1, PageRows DEF ExistsBijection
  <2> QED BY <1>5, <2>3, <2>4, FS_Bijection
<1> DEFINE shown == <<R, Q, C>>
<1>10. \A s \in DOMAIN read : \E i \in 1..3 : \A j \in 1..3 : s \in shown[j] <=> i = j
  <2> SUFFICES ASSUME NEW s \in DOMAIN read PROVE \E i \in 1..3 : \A j \in 1..3 : s \in shown[j] <=> i = j
    OBVIOUS
  <2>1. CASE s \in R /\ s \notin Q /\ s \notin C
    <3>1. \A j \in 1..3 : s \in shown[j] <=> 1 = j BY <2>1
    <3> QED BY <3>1
  <2>2. CASE s \in Q /\ s \notin R /\ s \notin C
    <3>1. \A j \in 1..3 : s \in shown[j] <=> 2 = j BY <2>2
    <3> QED BY <3>1
  <2>3. CASE s \in C /\ s \notin R /\ s \notin Q
    <3>1. \A j \in 1..3 : s \in shown[j] <=> 3 = j BY <2>3
    <3> QED BY <3>1
  <2> QED BY <1>7, <2>1, <2>2, <2>3
<1>11. UNION Range(shown) = R \cup Q \cup C
  <2>1. Range(shown) = {R, Q, C} BY DEF Range
  <2> QED BY <2>1
<1> QED BY <1>5, <1>8, <1>9, <1>10, <1>11 DEF EveryRowOnce, R, Q, C

(* A page shows every row that is not hidden exactly once, though the parts  *)
(* are made in one array, and the array still holds them all.                *)
THEOREM RowsOnce == Spec => []EveryRowOnce
BY BoardInvariant, InvOnce, PTL
-----------------------------------------------------------------------------
\* The rows that stay are those that are not judged dead.
LEMMA Stayers ==
    ASSUME BoardInv, dropDeadPanes
    PROVE  Ids(agents') = Ids(agents) \ Dead(listing, view)
<1> DEFINE K == {i \in DOMAIN agents : agents[i].id \notin Dead(listing, view)}
<1>1. agents \in Seq(Rows) /\ agents' = Pick(agents, K) /\ K \in SUBSET DOMAIN agents
  BY DEF BoardInv, RowsInv, dropDeadPanes, Keep
<1>2. \A i : i \in K <=> i \in DOMAIN agents /\ agents[i].id \notin Dead(listing, view) OBVIOUS
<1> HIDE DEF K
<1>3. From(agents, K, agents') BY <1>1, Picked
<1>4. PICK f \in [DOMAIN agents' -> K] : /\ \A k \in DOMAIN agents' : agents'[k] = agents[f[k]]
                                         /\ \A i \in K : \E k \in DOMAIN agents' : f[k] = i
  BY <1>3 DEF From, Bijection, Injection, Surjection
<1>5. \A s : s \in Ids(agents') <=> \E i \in K : agents[i].id = s
  <2>1. ASSUME NEW i \in K PROVE agents[i].id \in Ids(agents')
    <3>1. PICK k \in DOMAIN agents' : f[k] = i BY <1>4
    <3>2. agents'[k].id = agents[i].id BY <1>4, <3>1
    <3> QED BY <3>2 DEF Ids
  <2>2. ASSUME NEW k \in DOMAIN agents' PROVE \E i \in K : agents[i].id = agents'[k].id
    BY <1>4
  <2> QED BY <2>1, <2>2 DEF Ids
<1>6. \A s : s \in Ids(agents) <=> \E i \in DOMAIN agents : agents[i].id = s BY DEF Ids
<1> QED BY <1>2, <1>5, <1>6

LEMMA OnlyDrop ==
    ASSUME BoardInv, [Next]_vars, at = "dropDeadPanes", at' # at
    PROVE  dropDeadPanes
BY DEF Next, vars, agentRoster, panes, enrichCI, suppressWatchedCI, applyBlocks, applyPRBlocks,
       splitQueued, carryOver, demotePendingCI, Poll

\* A session that runs in its pane is judged dead only if another is heard there.
LEMMA RunningIsAlive ==
    ASSUME NEW listing_ \in Listings, NEW D, NEW view_ \in [D -> Views], NEW t \in D, NEW p \in Panes,
           Fallback(listing_, view_[t]), view_[t].pane = p, \A s \in D \ {t} : view_[s].pane # p
    PROVE  t \notin Dead(listing_, view_)
<1>1. Runs(listing_, view_[t]) = "launcher" BY DEF Fallback
<1>2. Listed(listing_, view_[t]) /\ ~Exited(listing_, view_[t]) BY <1>1 DEF Listed, Exited
<1>3. Matched(listing_, view_, t)
  <2>1. CASE ByLabel(listing_, view_[t]) BY <2>1 DEF Matched
  <2>2. CASE ~ByLabel(listing_, view_[t])
    <3>1. ~Claimed(listing_, view_, p) BY <2>2 DEF Claimed
    <3>2. Candidates(listing_, view_, p) = {t} BY <2>2 DEF Candidates
    <3> QED BY <3>1, <3>2 DEF Matched
  <2> QED BY <2>1, <2>2
<1>4. Alive(listing_, view_, t) BY <1>2, <1>3 DEF Alive
<1> QED BY <1>2, <1>4 DEF Dead

LEMMA StepStays ==
    ASSUME BoardInv, [Next]_vars, NEW p \in Panes, at = "dropDeadPanes", running[p] # NoPane,
           at' # at
    PROVE  \/ running[p] \in Ids(agents')
           \/ \E s \in DOMAIN view \ {running[p]} : view[s].pane = p
<1>1. dropDeadPanes BY OnlyDrop
<1>2. /\ listing \in Listings /\ view \in [Ids(agents) -> Views] /\ running[p] \in Ids(agents)
      /\ Fallback(listing, view[running[p]]) /\ view[running[p]].pane = p
  BY DEF BoardInv, PanesInv
<1>3. (\A s \in DOMAIN view \ {running[p]} : view[s].pane # p) => running[p] \notin Dead(listing, view)
  BY <1>2, RunningIsAlive
<1> QED BY <1>1, <1>2, <1>3, Stayers

(* The row of a session that runs in its pane is hidden only if another row  *)
(* was last heard from that pane.                                            *)
THEOREM LiveStay == Spec => LiveRowsStay
<1>1. ASSUME BoardInv, [Next]_vars
      PROVE  [\A p \in Panes : at = "dropDeadPanes" /\ running[p] # NoPane =>
                \/ running[p] \in Ids(agents')
                \/ \E s \in DOMAIN view \ {running[p]} : view[s].pane = p]_vars
  <2>1. CASE UNCHANGED vars BY <2>1
  <2>2. CASE Next
    <3> SUFFICES ASSUME NEW p \in Panes, at = "dropDeadPanes", running[p] # NoPane
                 PROVE  \/ running[p] \in Ids(agents')
                        \/ \E s \in DOMAIN view \ {running[p]} : view[s].pane = p
      OBVIOUS
    <3>1. at' # at
      BY <2>2 DEF Next, agentRoster, panes, dropDeadPanes, enrichCI, suppressWatchedCI, applyBlocks,
         applyPRBlocks, splitQueued, carryOver, demotePendingCI, Poll
    <3> QED BY <1>1, <3>1, StepStays
  <2> QED BY <1>1, <2>1, <2>2
<1> QED BY <1>1, BoardInvariant, PTL DEF Spec, LiveRowsStay

(* No row stays whose pane is not listed, once the listing is the rows'.     *)
THEOREM GoneLeave == Spec => GoneRowsLeave
<1>1. ASSUME BoardInv, [Next]_vars
      PROVE  [\A s, t \in DOMAIN view :
                 at = "dropDeadPanes" /\ ByLabel(listing, view[s])
                     /\ view[t].pane # NoPane /\ ~Listed(listing, view[t])
                 => t \notin Ids(agents')]_vars
  <2>1. CASE UNCHANGED vars BY <2>1
  <2>2. CASE Next
    <3> SUFFICES ASSUME NEW s \in DOMAIN view, NEW t \in DOMAIN view, at = "dropDeadPanes",
                        ByLabel(listing, view[s]), view[t].pane # NoPane, ~Listed(listing, view[t])
                 PROVE  t \notin Ids(agents')
      OBVIOUS
    <3>1. at' # at
      BY <2>2 DEF Next, agentRoster, panes, dropDeadPanes, enrichCI, suppressWatchedCI, applyBlocks,
         applyPRBlocks, splitQueued, carryOver, demotePendingCI, Poll
    <3>2. dropDeadPanes BY <1>1, <3>1, OnlyDrop
    <3>3. Alive(listing, view, s) /\ ~Alive(listing, view, t) BY DEF Alive, Matched, ByLabel
    <3>4. t \in Dead(listing, view) BY <3>3 DEF Dead
    <3> QED BY <1>1, <3>2, <3>4, Stayers
  <2> QED BY <1>1, <2>1, <2>2
<1> QED BY <1>1, BoardInvariant, PTL DEF Spec, GoneRowsLeave

-----------------------------------------------------------------------------
(* The feed.                                                                 *)

LEMMA MinOf ==
    ASSUME NEW S, S \subseteq Nat, S # {}
    PROVE  Min(S) \in S /\ \A y \in S : Min(S) =< y
<1>1. \E x \in S : \A y \in S : x =< y BY LeastNat
<1> QED BY <1>1 DEF Min

Types == {"PreToolUse", "PostToolUse", "PostToolUseFailure", "Stop"}
PageEvents == [id : Nat, call : Calls \cup {NoCall}, type : Types]

\* The events of a page: newest first.
Newest(events) ==
    /\ events \in Seq(PageEvents)
    /\ \A i, j \in 1..Len(events) : i < j => events[i].id > events[j].id

LEMMA FirstOfIs ==
    ASSUME NEW events, Newest(events), NEW call, NEW types
    PROVE  LET i == FirstOf(events, call, types)
           IN  \/ i = 0 /\ \A j \in 1..Len(events) : ~(events[j].call = call /\ events[j].type \in types)
               \/ /\ i \in 1..Len(events) /\ events[i].call = call /\ events[i].type \in types
                  /\ \A j \in 1..Len(events) : events[j].call = call /\ events[j].type \in types => i =< j
<1> DEFINE S == {j \in DOMAIN events : events[j].call = call /\ events[j].type \in types}
           i == FirstOf(events, call, types)
<1>1. Len(events) \in Nat /\ DOMAIN events = 1..Len(events)
  BY LenProperties DEF Newest
<1>2. S \subseteq Nat BY <1>1
<1>3. i = IF S = {} THEN 0 ELSE Min(S) BY DEF FirstOf
<1>4. CASE S = {} BY <1>1, <1>3, <1>4
<1>5. CASE S # {}
  <2> HIDE DEF S
  <2>1. i \in S /\ \A y \in S : i =< y BY <1>2, <1>3, <1>5, MinOf
  <2> QED BY <1>1, <2>1 DEF S
<1> QED BY <1>4, <1>5

\* An event that has a row: one that is no call's, a call's start, the first of
\* them on the page, or the first of a call whose start is not.
Anchor(events, i) ==
    LET call == events[i].call
    IN  \/ call = NoCall
        \/ Pre(events, call) # 0 /\ i = Pre(events, call)
        \/ Pre(events, call) = 0 /\ \A j \in 1..i - 1 : events[j].call # call

\* The rows of the first len events.
Folded(events, rows, len) ==
    /\ rows \in Seq({RowOf(events, i) : i \in 1..len})
    /\ \A k \in 1..Len(rows) : \E i \in 1..len : Anchor(events, i) /\ rows[k] = RowOf(events, i)
    /\ \A i \in 1..len : Anchor(events, i) => \E k \in 1..Len(rows) : rows[k] = RowOf(events, i)
    /\ \A j, k \in 1..Len(rows) : j < k => rows[j].id > rows[k].id

\* Every call that is heard of in the first len events up to its start has an anchor there.
LEMMA CallAnchored ==
    ASSUME NEW events, Newest(events), NEW len \in 1..Len(events), events[len].call # NoCall,
           Pre(events, events[len].call) =< len
    PROVE  \E i \in 1..len : Anchor(events, i) /\ events[i].call = events[len].call
<1> DEFINE c == events[len].call
           p == Pre(events, c)
<1>1. \/ p = 0
      \/ p \in 1..Len(events) /\ events[p].call = c
  BY FirstOfIs DEF Pre
<1>2. CASE p = 0
  <2> DEFINE S == {i \in 1..len : events[i].call = c}
  <2>1. S \subseteq Nat /\ len \in S OBVIOUS
  <2> HIDE DEF S
  <2>2. PICK i \in S : \A y \in S : i =< y BY <2>1, LeastNat
  <2>3. i \in 1..len /\ events[i].call = c BY <2>2 DEF S
  <2>4. \A j \in 1..i - 1 : events[j].call # c BY <2>2, <2>3 DEF S
  <2> QED BY <1>2, <2>3, <2>4 DEF Anchor
<1>3. CASE p # 0
  <2>1. p \in 1..len /\ events[p].call = c BY <1>1, <1>3
  <2> QED BY <1>3, <2>1 DEF Anchor
<1> QED BY <1>2, <1>3

LEMMA SkipsIffNotAnchor ==
    ASSUME NEW events, Newest(events), NEW len \in Nat, len + 1 \in 1..Len(events),
           NEW rows, Folded(events, rows, len)
    PROVE  Skips(events, rows, len + 1) <=> ~Anchor(events, len + 1)
<1> DEFINE m == len + 1
           c == events[m].call
           p == Pre(events, c)
           Has == \E k \in DOMAIN rows : rows[k].call = c
<1>1. DOMAIN rows = 1..Len(rows) BY LenProperties DEF Folded
<1>2. Has <=> \E i \in 1..len : Anchor(events, i) /\ events[i].call = c
  <2>1. ASSUME Has PROVE \E i \in 1..len : Anchor(events, i) /\ events[i].call = c
    <3>1. PICK k \in DOMAIN rows : rows[k].call = c BY <2>1
    <3>2. PICK i \in 1..len : Anchor(events, i) /\ rows[k] = RowOf(events, i)
      BY <1>1, <3>1 DEF Folded
    <3> QED BY <3>1, <3>2 DEF RowOf
  <2>2. ASSUME NEW i \in 1..len, Anchor(events, i), events[i].call = c PROVE Has
    <3>1. PICK k \in 1..Len(rows) : rows[k] = RowOf(events, i) BY <2>2 DEF Folded
    <3> QED BY <1>1, <2>2, <3>1 DEF RowOf
  <2> QED BY <2>1, <2>2
<1>3. \/ p = 0 /\ \A j \in 1..Len(events) : ~(events[j].call = c /\ events[j].type = "PreToolUse")
      \/ /\ p \in 1..Len(events) /\ events[p].call = c /\ events[p].type = "PreToolUse"
         /\ \A j \in 1..Len(events) : events[j].call = c /\ events[j].type = "PreToolUse" => p =< j
  BY FirstOfIs DEF Pre
<1>4. CASE c = NoCall BY <1>4 DEF Skips, Anchor
<1>5. CASE c # NoCall /\ p = 0
  <2>1. Skips(events, rows, m) <=> Has BY <1>5 DEF Skips
  <2>2. Anchor(events, m) <=> \A j \in 1..len : events[j].call # c BY <1>5 DEF Anchor
  <2>3. ASSUME NEW j \in 1..len, events[j].call = c
        PROVE  \E i \in 1..len : Anchor(events, i) /\ events[i].call = c
    <3>1. \E i \in 1..j : Anchor(events, i) /\ events[i].call = events[j].call
      BY <1>5, <2>3, CallAnchored
    <3> QED BY <2>3, <3>1
  <2> QED BY <1>2, <2>1, <2>2, <2>3
<1>6. CASE c # NoCall /\ p # 0
  <2>1. Anchor(events, m) <=> m = p BY <1>6 DEF Anchor
  <2>2. Skips(events, rows, m) <=> Has \/ events[m].type # "PreToolUse" BY <1>6 DEF Skips
  <2>3. \A i \in 1..len : Anchor(events, i) /\ events[i].call = c <=> i = p
    BY <1>3, <1>6 DEF Anchor
  <2> QED BY <1>2, <1>3, <1>6, <2>1, <2>2, <2>3
<1> QED BY <1>4, <1>5, <1>6

LEMMA FoldedStep ==
    ASSUME NEW events, Newest(events), NEW len \in Nat, len + 1 \in 1..Len(events),
           NEW rows, Folded(events, rows, len)
    PROVE  Folded(events, IF Skips(events, rows, len + 1) THEN rows
                          ELSE Append(rows, RowOf(events, len + 1)), len + 1)
<1> DEFINE m == len + 1
           R(b) == {RowOf(events, i) : i \in 1..b}
<1>1. /\ rows \in Seq(R(len)) /\ Len(rows) \in Nat
      /\ \A k \in 1..Len(rows) : \E i \in 1..len : Anchor(events, i) /\ rows[k] = RowOf(events, i)
      /\ \A i \in 1..len : Anchor(events, i) => \E k \in 1..Len(rows) : rows[k] = RowOf(events, i)
      /\ \A j, k \in 1..Len(rows) : j < k => rows[j].id > rows[k].id
  BY LenProperties DEF Folded
<1>2. \A i \in 1..len : i \in 1..m OBVIOUS
<1>3. \A i \in 1..m : i \in 1..len \/ i = m OBVIOUS
<1>4. rows \in Seq(R(m))
  <2>1. R(len) \subseteq R(m) BY <1>2
  <2> HIDE DEF R
  <2> QED BY <1>1, <2>1
<1>5. CASE Skips(events, rows, m)
  <2>1. ~Anchor(events, m) BY <1>5, SkipsIffNotAnchor
  <2>2. Folded(events, rows, m) BY <1>1, <1>2, <1>3, <1>4, <2>1 DEF Folded
  <2> QED BY <1>5, <2>2
<1>6. CASE ~Skips(events, rows, m)
  <2> DEFINE e == RowOf(events, m)
             out == Append(rows, e)
  <2>1. Anchor(events, m) BY <1>6, SkipsIffNotAnchor
  <2>2. e \in R(m) OBVIOUS
  <2> HIDE DEF R
  <2>3. /\ out \in Seq(R(m)) /\ Len(out) = Len(rows) + 1 /\ out[Len(rows) + 1] = e
        /\ \A k \in 1..Len(rows) : out[k] = rows[k]
    BY <1>1, <1>4, <2>2, AppendProperties
  <2> HIDE DEF out
  <2>4. ASSUME NEW k \in 1..Len(out) PROVE \E i \in 1..m : Anchor(events, i) /\ out[k] = RowOf(events, i)
    <3>1. CASE k \in 1..Len(rows)
      <4>1. PICK i \in 1..len : Anchor(events, i) /\ rows[k] = RowOf(events, i) BY <1>1, <3>1
      <4> QED BY <1>2, <2>3, <3>1, <4>1
    <3>2. CASE k = Len(rows) + 1 BY <2>1, <2>3, <3>2
    <3> QED BY <1>1, <2>3, <3>1, <3>2
  <2>5. ASSUME NEW i \in 1..m, Anchor(events, i) PROVE \E k \in 1..Len(out) : out[k] = RowOf(events, i)
    <3>1. CASE i = m
      <4>1. Len(rows) + 1 \in 1..Len(out) BY <1>1, <2>3
      <4> QED BY <2>3, <3>1, <4>1
    <3>2. CASE i \in 1..len
      <4>1. PICK k \in 1..Len(rows) : rows[k] = RowOf(events, i) BY <1>1, <2>5, <3>2
      <4> QED BY <1>1, <2>3, <4>1
    <3> QED BY <1>3, <3>1, <3>2
  <2>6. ASSUME NEW j \in 1..Len(out), NEW k \in 1..Len(out), j < k PROVE out[j].id > out[k].id
    <3>0. 1..Len(out) = 1..(Len(rows) + 1) BY <2>3
    <3>1. j \in 1..Len(rows) /\ (k \in 1..Len(rows) \/ k = Len(rows) + 1)
      <4> DEFINE l == Len(rows)
      <4>1. l \in Nat /\ j \in 1..(l + 1) /\ k \in 1..(l + 1) BY <1>1, <3>0
      <4> HIDE DEF l
      <4>2. j \in 1..l /\ (k \in 1..l \/ k = l + 1) BY <2>6, <4>1
      <4> QED BY <4>2 DEF l
    <3>2. CASE k \in 1..Len(rows) BY <1>1, <2>3, <2>6, <3>1, <3>2
    <3>3. CASE k = Len(rows) + 1
      <4>1. PICK i \in 1..len : out[j] = RowOf(events, i) BY <1>1, <2>3, <3>1
      <4>2. events[i].id > events[m].id BY DEF Newest
      <4> QED BY <2>3, <3>3, <4>1, <4>2 DEF RowOf
    <3> QED BY <3>1, <3>2, <3>3
  <2>7. Folded(events, out, m)
    <3>1. out \in Seq({RowOf(events, i) : i \in 1..m}) BY <2>3 DEF R
    <3> QED BY <2>4, <2>5, <2>6, <3>1 DEF Folded
  <2> QED BY <1>6, <2>7 DEF out
<1> QED BY <1>5, <1>6

\* The recursion of the fold, up to the len-th event.
Folding(f, events, len) ==
    f = [i \in 0..len |-> IF i = 0 THEN <<>>
                        ELSE IF Skips(events, f[i - 1], i) THEN f[i - 1]
                        ELSE Append(f[i - 1], RowOf(events, i))]

LEMMA FoldExists ==
    ASSUME NEW events, NEW len \in Nat
    PROVE  \E f : Folding(f, events, len)
<1> DEFINE Good(b) == \E f : Folding(f, events, b)
           Bad == {b \in Nat : ~Good(b)}
<1>1. Good(0)
  <2> DEFINE f == [i \in 0..0 |-> <<>>]
  <2>1. Folding(f, events, 0) BY DEF Folding
  <2> QED BY <2>1
<1>2. ASSUME NEW b \in Nat, Good(b) PROVE Good(b + 1)
  <2>1. PICK f : Folding(f, events, b) BY <1>2
  <2> DEFINE m == b + 1
             last == IF Skips(events, f[b], m) THEN f[b] ELSE Append(f[b], RowOf(events, m))
             g == [i \in 0..m |-> IF i = m THEN last ELSE f[i]]
  <2>2. g[m] = last /\ \A i \in 0..b : g[i] = f[i] OBVIOUS
  <2>3. \A i \in 0..b : f[i] = IF i = 0 THEN <<>>
                               ELSE IF Skips(events, f[i - 1], i) THEN f[i - 1]
                               ELSE Append(f[i - 1], RowOf(events, i))
    BY <2>1 DEF Folding
  <2>4. ASSUME NEW i \in 0..m
        PROVE  g[i] = IF i = 0 THEN <<>>
                      ELSE IF Skips(events, g[i - 1], i) THEN g[i - 1]
                      ELSE Append(g[i - 1], RowOf(events, i))
    <3> HIDE DEF g
    <3>1. CASE i \in 0..b
      <4>1. i # 0 => i - 1 \in 0..b BY <3>1
      <4>2. i # 0 => g[i - 1] = f[i - 1] BY <2>2, <4>1
      <4> QED BY <2>2, <2>3, <3>1, <4>2
    <3>2. CASE i = m
      <4>1. i # 0 /\ i - 1 = b /\ b \in 0..b BY <3>2
      <4> QED BY <2>2, <3>2, <4>1
    <3> QED BY <3>1, <3>2
  <2>5. g = [i \in 0..m |-> g[i]] OBVIOUS
  <2> HIDE DEF g, last
  <2>6. Folding(g, events, m) BY <2>4, <2>5 DEF Folding
  <2> QED BY <2>6
<1> HIDE DEF Good
<1>3. Bad = {}
  <2> SUFFICES ASSUME Bad # {} PROVE FALSE OBVIOUS
  <2>1. PICK b \in Bad : \A y \in Bad : b =< y BY LeastNat
  <2>2. b # 0 BY <1>1, <2>1
  <2>3. b - 1 \in Nat /\ b - 1 \notin Bad /\ (b - 1) + 1 = b BY <2>1, <2>2
  <2> QED BY <1>2, <2>1, <2>3
<1> QED BY <1>3 DEF Good

LEMMA FoldIs ==
    ASSUME NEW events, Newest(events)
    PROVE  Folded(events, foldToolEvents(events), Len(events))
<1> DEFINE l == Len(events)
           w == CHOOSE f : Folding(f, events, l)
<1>1. l \in Nat BY LenProperties DEF Newest
<1>2. Folding(w, events, l) BY <1>1, FoldExists
<1>3. foldToolEvents(events) = w[l] BY DEF foldToolEvents, Folding
<1> DEFINE Bad == {b \in 0..l : ~Folded(events, w[b], b)}
<1> HIDE DEF w
<1>4. \A i \in 0..l : w[i] = IF i = 0 THEN <<>>
                             ELSE IF Skips(events, w[i - 1], i) THEN w[i - 1]
                             ELSE Append(w[i - 1], RowOf(events, i))
  BY <1>2 DEF Folding
<1>5. Folded(events, w[0], 0)
  <2>1. w[0] = <<>> BY <1>1, <1>4
  <2>2. Folded(events, <<>>, 0) BY DEF Folded
  <2> QED BY <2>1, <2>2
<1>6. Bad = {}
  <2> SUFFICES ASSUME Bad # {} PROVE FALSE OBVIOUS
  <2>1. Bad \subseteq Nat BY <1>1
  <2>2. PICK b \in Bad : \A y \in Bad : b =< y BY <2>1, LeastNat
  <2>3. b # 0 BY <1>5, <2>2
  <2>4. b \in 1..l /\ b - 1 \in 0..l BY <1>1, <2>2, <2>3
  <2> DEFINE a == b - 1
  <2>5. a \in Nat /\ a + 1 = b /\ a \in 0..l /\ a \notin Bad BY <1>1, <2>2, <2>4
  <2>6. Folded(events, w[a], a) BY <2>5
  <2>7. w[a + 1] = IF Skips(events, w[a], a + 1) THEN w[a] ELSE Append(w[a], RowOf(events, a + 1))
    BY <1>4, <2>3, <2>4, <2>5
  <2> HIDE DEF a, Bad, l
  <2>8. a + 1 \in 1..Len(events) BY <2>4, <2>5 DEF l
  <2>9. Folded(events, w[a + 1], a + 1) BY <2>5, <2>6, <2>7, <2>8, FoldedStep
  <2> QED BY <2>2, <2>5, <2>9 DEF Bad
<1>7. Folded(events, w[l], l) BY <1>1, <1>6
<1> QED BY <1>3, <1>7

LEMMA QueryIs ==
    ASSUME NEW log \in Seq(LogEvents)
    PROVE  LET events == queryEvents(log)
               len == Len(events)
           IN  /\ Newest(events) /\ len \in Nat /\ DOMAIN events = 1..len
               /\ len =< Len(log) /\ len =< Limit /\ (len = Len(log) \/ len = Limit)
               /\ \A i \in 1..len : /\ Len(log) - i + 1 \in DOMAIN log
                                  /\ events[i].id = Len(log) - i + 1
                                  /\ events[i].call = log[Len(log) - i + 1].call
                                  /\ events[i].type = log[Len(log) - i + 1].type
<1> DEFINE L == Len(log)
           m == Min({Limit, L})
           E(i) == [id |-> L - i + 1, call |-> log[L - i + 1].call, type |-> log[L - i + 1].type]
           events == queryEvents(log)
<1>1. L \in Nat /\ Limit \in Nat /\ DOMAIN log = 1..L BY LenProperties, FeedParameters
<1>2. m \in Nat /\ m =< L /\ m =< Limit /\ (m = L \/ m = Limit)
  <2> DEFINE S == {Limit, L}
  <2>1. S \subseteq Nat /\ S # {} BY <1>1
  <2>2. Min(S) \in S /\ \A y \in S : Min(S) =< y
    <3> HIDE DEF S
    <3> QED BY <2>1, MinOf
  <2> QED BY <1>1, <2>2
<1>3. events = [i \in 1..m |-> E(i)] BY DEF queryEvents
<1> HIDE DEF L, m, events
<1>4. ASSUME NEW i \in 1..m
      PROVE  /\ L - i + 1 \in 1..L /\ E(i) \in PageEvents
             /\ E(i).id = L - i + 1 /\ E(i).call = log[L - i + 1].call /\ E(i).type = log[L - i + 1].type
  <2>1. L - i + 1 \in 1..L BY <1>1, <1>2
  <2>2. log[L - i + 1] \in LogEvents BY <1>1, <2>1
  <2>3. log[L - i + 1].call \in Calls \cup {NoCall} /\ log[L - i + 1].type \in Types
    BY <2>2 DEF LogEvents, Types
  <2>4. L - i + 1 \in Nat BY <1>1, <2>1
  <2> QED BY <2>1, <2>3, <2>4 DEF PageEvents
<1>5. events \in Seq(PageEvents) /\ Len(events) = m /\ DOMAIN events = 1..m
  <2>1. events \in [1..m -> PageEvents] BY <1>3, <1>4
  <2> QED BY <1>2, <2>1, LenProperties
<1>6. \A i \in 1..m : events[i] = E(i) BY <1>3
<1>7. \A i, j \in 1..m : i < j => L - i + 1 > L - j + 1 BY <1>1, <1>2
<1>8. Newest(events) BY <1>4, <1>5, <1>6, <1>7 DEF Newest
<1> QED BY <1>1, <1>2, <1>4, <1>5, <1>6, <1>8 DEF L, events

\* A call has one anchor on a page that has an event of it.
LEMMA OneAnchor ==
    ASSUME NEW events, NEW i \in Nat \ {0}, NEW j \in Nat \ {0}, Anchor(events, i), Anchor(events, j),
           events[i].call = events[j].call, events[i].call # NoCall
    PROVE  i = j
BY DEF Anchor

LEMMA AnchorOf ==
    ASSUME NEW events, Newest(events), NEW m \in 1..Len(events), events[m].call # NoCall
    PROVE  \E i \in 1..Len(events) : Anchor(events, i) /\ events[i].call = events[m].call
<1> DEFINE p == Pre(events, events[m].call)
<1>0. Len(events) \in Nat BY LenProperties DEF Newest
<1>1. p = 0 \/ (p \in 1..Len(events) /\ events[p].call = events[m].call)
  BY FirstOfIs DEF Pre
<1>2. CASE p = 0
  <2>1. p =< m BY <1>2
  <2>2. \E i \in 1..m : Anchor(events, i) /\ events[i].call = events[m].call BY <2>1, CallAnchored
  <2> QED BY <1>0, <2>2
<1>3. CASE p # 0 BY <1>1, <1>3 DEF Anchor
<1> QED BY <1>2, <1>3

\* The key of an event, or of its row.
KeyOf(e) == IF e.call = NoCall THEN e.id ELSE e.call

\* A page in terms of the events behind it.
LEMMA PageIs ==
    ASSUME NEW log \in Seq(LogEvents)
    PROVE  LET events == queryEvents(log)
               rows == Page(log)
           IN  /\ Len(rows) \in Nat /\ DOMAIN rows = 1..Len(rows)
               /\ DOMAIN Keys(rows) = 1..Len(rows)
               /\ \A k \in 1..Len(rows) : \E i \in 1..Len(events) :
                     /\ Anchor(events, i) /\ rows[k] = RowOf(events, i)
                     /\ Keys(rows)[k] = KeyOf(events[i])
               /\ \A i \in 1..Len(events) : Anchor(events, i) =>
                     \E k \in 1..Len(rows) : rows[k] = RowOf(events, i) /\ Keys(rows)[k] = KeyOf(events[i])
               /\ \A j, k \in 1..Len(rows) : j < k => rows[j].id > rows[k].id
<1> DEFINE events == queryEvents(log)
           rows == Page(log)
<1>1. Newest(events) BY QueryIs
<1>2. Folded(events, rows, Len(events)) BY <1>1, FoldIs DEF Page
<1> HIDE DEF events, rows
<1>3. Len(rows) \in Nat /\ DOMAIN rows = 1..Len(rows) BY <1>2, LenProperties DEF Folded
<1>4. \A k \in DOMAIN rows : Keys(rows)[k] = IF rows[k].call = NoCall THEN rows[k].id ELSE rows[k].call
  BY DEF Keys
<1>5. DOMAIN Keys(rows) = DOMAIN rows BY DEF Keys
<1>6. \A i : \A k \in 1..Len(rows) : rows[k] = RowOf(events, i) => Keys(rows)[k] = KeyOf(events[i])
  BY <1>3, <1>4 DEF RowOf, KeyOf
<1>7. \A k \in 1..Len(rows) : \E i \in 1..Len(events) : Anchor(events, i) /\ rows[k] = RowOf(events, i)
  BY <1>2 DEF Folded
<1>8. \A i \in 1..Len(events) : Anchor(events, i) => \E k \in 1..Len(rows) : rows[k] = RowOf(events, i)
  BY <1>2 DEF Folded
<1>9. \A j, k \in 1..Len(rows) : j < k => rows[j].id > rows[k].id BY <1>2 DEF Folded
<1> QED BY <1>3, <1>5, <1>6, <1>7, <1>8, <1>9 DEF events, rows

LEMMA AtMostOne ==
    ASSUME NEW S, IsFiniteSet(S), Cardinality(S) =< 1, NEW x \in S, NEW y \in S
    PROVE  x = y
<1>1. Cardinality(S) \in Nat /\ Cardinality(S) # 0 BY FS_CardinalityType, FS_EmptySet
<1>2. Cardinality(S) = 1 BY <1>1
<1>3. PICK z : S = {z} BY <1>2, FS_Singleton
<1> QED BY <1>3

LEMMA HeardFinite ==
    ASSUME NEW log \in Seq(LogEvents), NEW c, NEW types
    PROVE  IsFiniteSet(Heard(log, c, types))
<1>1. IsFiniteSet(1..Len(log)) BY LenProperties, FS_Interval
<1>2. Heard(log, c, types) \in SUBSET (1..Len(log)) BY LenProperties DEF Heard
<1> QED BY <1>1, <1>2, FS_Subset

\* What a row says of its call, when the hooks were in order.
LEMMA OutcomeIs ==
    ASSUME NEW log \in Seq(LogEvents), InOrder(log), NEW i \in 1..Len(queryEvents(log)),
           queryEvents(log)[i].call # NoCall
    PROVE  LET c == queryEvents(log)[i].call
           IN  Outcome(queryEvents(log), c) = TrueOutcome(log, c)
<1> DEFINE events == queryEvents(log)
           len == Len(events)
           L == Len(log)
           c == events[i].call
           r == Resolved(events, c)
           id(j) == L - j + 1
<1>1. /\ Newest(events) /\ len \in Nat /\ DOMAIN events = 1..len /\ L \in Nat /\ DOMAIN log = 1..L
      /\ len =< L /\ len =< Limit /\ (len = L \/ len = Limit) /\ Limit \in Nat
      /\ \A j \in 1..len : /\ id(j) \in DOMAIN log /\ events[j].id = id(j)
                         /\ events[j].call = log[id(j)].call /\ events[j].type = log[id(j)].type
  BY QueryIs, LenProperties, FeedParameters
<1>s. log \in Seq(LogEvents) /\ \A x \in 1..L : log[x] \in LogEvents BY <1>1, ElementOfSeq
<1>2. /\ i \in 1..len /\ c = log[id(i)].call /\ c # NoCall /\ id(i) \in 1..L
  BY <1>1
<1> HIDE DEF events, len, r, c, L
<1> USE DEF TrueOutcome
<1>3. \A x \in 1..L : log[x].call = c => log[x].type \in {"PreToolUse"} \cup Results
  <2> TAKE x \in 1..L
  <2>1. log[x] \in LogEvents BY <1>s
  <2> QED BY <1>2, <2>1 DEF LogEvents, Results
<1>4. c \in Calling(log) BY <1>1, <1>2 DEF Calling
<1>5. /\ Cardinality(Heard(log, c, {"PreToolUse"})) = 1
      /\ Cardinality(Heard(log, c, Results)) =< 1
      /\ \A a \in Heard(log, c, {"PreToolUse"}), b \in Heard(log, c, Results) : a < b
  BY <1>4 DEF InOrder
<1>6. \/ r = 0 /\ \A j \in 1..len : ~(events[j].call = c /\ events[j].type \in Results)
      \/ r \in 1..len /\ events[r].call = c /\ events[r].type \in Results
  BY <1>1, FirstOfIs DEF r, len, Resolved, Results
<1>7. \A x : x \in Heard(log, c, Results) <=> x \in 1..L /\ log[x].call = c /\ log[x].type \in Results
  BY <1>1 DEF Heard
<1>8. CASE r = 0
  <2>1. ASSUME NEW b \in Heard(log, c, Results) PROVE FALSE
    <3>1. b \in 1..L /\ log[b].call = c /\ log[b].type \in Results BY <1>7
    <3>2. id(i) \in Heard(log, c, Results) \/ id(i) \in Heard(log, c, {"PreToolUse"})
      BY <1>1, <1>2, <1>3 DEF Heard
    <3>3. id(i) =< b
      <4>1. CASE id(i) \in Heard(log, c, {"PreToolUse"})
        <5>1. id(i) < b BY <1>5, <4>1
        <5>2. id(i) \in Int /\ b \in Int BY <1>2, <3>1
        <5> HIDE DEF id
        <5> QED BY <5>1, <5>2
      <4>2. CASE id(i) \in Heard(log, c, Results)
        <5>1. IsFiniteSet(Heard(log, c, Results)) BY <1>s, HeardFinite
        <5>2. id(i) = b
          <6> HIDE DEF id
          <6> QED BY <1>5, <4>2, <5>1, AtMostOne
        <5>3. b \in Int BY <3>1
        <5> HIDE DEF id
        <5> QED BY <5>2, <5>3
      <4> QED BY <3>2, <4>1, <4>2
    <3> DEFINE j == L - b + 1
    <3>4. j \in 1..len /\ id(j) = b
      <4>1. L \in Nat /\ len \in Nat /\ i \in 1..len /\ b \in 1..L /\ L - i + 1 =< b BY <1>1, <1>2, <3>1, <3>3
      <4> QED BY <4>1
    <3> HIDE DEF j
    <3>5. events[j].call = c /\ events[j].type \in Results BY <1>1, <3>1, <3>4
    <3>6. ~(r \in 1..len) BY <1>1, <1>8
    <3> QED BY <1>6, <3>4, <3>5, <3>6
  <2>2. Heard(log, c, Results) = {} BY <2>1
  <2>3. Outcome(events, c) = "running" BY <1>2, <1>8 DEF Outcome, r
  <2> QED BY <2>2, <2>3 DEF c, events
<1>9. CASE r # 0
  <2>1. r \in 1..len /\ events[r].call = c /\ events[r].type \in Results BY <1>6, <1>9
  <2>2. id(r) \in Heard(log, c, Results) BY <1>1, <1>7, <2>1
  <2>3. \A x \in Heard(log, c, Results) : x = id(r) BY <1>5, <2>2, HeardFinite, AtMostOne
  <2>4. Heard(log, c, {"PostToolUseFailure"}) # {} <=> events[r].type = "PostToolUseFailure"
    <3>1. \A x \in Heard(log, c, {"PostToolUseFailure"}) : x \in Heard(log, c, Results) /\ log[x].type = "PostToolUseFailure"
      BY DEF Heard, Results
    <3>2. events[r].type = log[id(r)].type /\ events[r].call = log[id(r)].call /\ id(r) \in DOMAIN log
      BY <1>1, <2>1
    <3> QED BY <2>1, <2>3, <3>1, <3>2 DEF Heard
  <2>5. Outcome(events, c) = IF events[r].type = "PostToolUseFailure" THEN "failed" ELSE "ok"
    BY <1>2, <1>9 DEF Outcome, r
  <2>6. Outcome(events, c) = IF Heard(log, c, Results) = {} THEN "running"
                             ELSE IF Heard(log, c, {"PostToolUseFailure"}) # {} THEN "failed" ELSE "ok"
    BY <2>2, <2>4, <2>5
  <2> QED BY <2>6 DEF c, events
<1> QED BY <1>8, <1>9

LEMMA MaxIs ==
    ASSUME NEW S, S \subseteq Nat, NEW x \in S, \A y \in S : y =< x
    PROVE  Max(S) = x
<1>1. \A y \in S : x >= y OBVIOUS
<1>2. Max(S) \in S /\ \A y \in S : Max(S) >= y BY <1>1 DEF Max
<1>3. Max(S) >= x /\ x >= Max(S) /\ Max(S) \in Nat /\ x \in Nat BY <1>1, <1>2
<1> HIDE DEF Max
<1> QED BY <1>3

\* The first of a call's events on the page is the last in the log.
LEMMA SeenOnPage ==
    ASSUME NEW log \in Seq(LogEvents), NEW c, NEW types
    PROVE  LET r == FirstOf(queryEvents(log), c, types)
           IN  /\ r = 0 <=> Seen(log, c, types) = {}
               /\ r # 0 => /\ r \in 1..Len(queryEvents(log)) /\ Len(log) - r + 1 \in DOMAIN log
                           /\ Max(Seen(log, c, types)) = Len(log) - r + 1
<1> DEFINE events == queryEvents(log)
           len == Len(events)
           L == Len(log)
           r == FirstOf(events, c, types)
           id(j) == L - j + 1
           S == Seen(log, c, types)
<1>1. /\ Newest(events) /\ len \in Nat /\ DOMAIN events = 1..len /\ L \in Nat /\ DOMAIN log = 1..L
      /\ len =< L /\ len =< Limit /\ (len = L \/ len = Limit) /\ Limit \in Nat
      /\ \A j \in 1..len : /\ id(j) \in DOMAIN log /\ events[j].id = id(j)
                         /\ events[j].call = log[id(j)].call /\ events[j].type = log[id(j)].type
  BY QueryIs, LenProperties, FeedParameters
<1>2. \/ r = 0 /\ \A j \in 1..len : ~(events[j].call = c /\ events[j].type \in types)
      \/ /\ r \in 1..len /\ events[r].call = c /\ events[r].type \in types
         /\ \A j \in 1..len : events[j].call = c /\ events[j].type \in types => r =< j
  BY <1>1, FirstOfIs
<1>3. \A x : x \in S <=> x \in 1..L /\ log[x].call = c /\ log[x].type \in types /\ x > L - Limit
  BY <1>1 DEF Seen, Heard
<1> HIDE DEF events, len, L, r, S
<1>4. ASSUME NEW x \in S
      PROVE  /\ L - x + 1 \in 1..len /\ id(L - x + 1) = x
             /\ events[L - x + 1].call = c /\ events[L - x + 1].type \in types
  <2>1. x \in 1..L /\ log[x].call = c /\ log[x].type \in types /\ x > L - Limit BY <1>3
  <2>2. L - x + 1 \in 1..len /\ id(L - x + 1) = x BY <1>1, <2>1
  <2> HIDE DEF id
  <2> QED BY <1>1, <2>1, <2>2
<1>5. ASSUME NEW j \in 1..len, events[j].call = c, events[j].type \in types PROVE id(j) \in S
  <2>1. id(j) \in 1..L /\ log[id(j)].call = c /\ log[id(j)].type \in types BY <1>1, <1>5
  <2>2. id(j) > L - Limit BY <1>1
  <2> HIDE DEF id
  <2> QED BY <1>3, <2>1, <2>2
<1>6. CASE r = 0
  <2>1. S = {} BY <1>1, <1>2, <1>4, <1>6
  <2> QED BY <1>6, <2>1 DEF r, S, events
<1>7. CASE r # 0
  <2>1. /\ r \in 1..len /\ events[r].call = c /\ events[r].type \in types
        /\ \A j \in 1..len : events[j].call = c /\ events[j].type \in types => r =< j
    BY <1>2, <1>7
  <2>2. id(r) \in S BY <1>5, <2>1
  <2>3. S \subseteq Nat BY <1>3
  <2>4. \A y \in S : y =< id(r)
    <3> TAKE y \in S
    <3>1. r =< L - y + 1 BY <1>4, <2>1
    <3>2. y \in Nat BY <2>3
    <3> QED BY <1>1, <2>1, <3>1, <3>2
  <2>5. Max(S) = id(r)
    <3> HIDE DEF id
    <3> QED BY <2>2, <2>3, <2>4, MaxIs
  <2>6. id(r) \in DOMAIN log BY <1>1, <2>1
  <2> QED BY <1>7, <2>1, <2>2, <2>5, <2>6 DEF r, S, events, len, L
<1> QED BY <1>6, <1>7

\* A call's row is at its start, or else at its last result, and says how the last
\* of its results on the page went.
LEMMA CallRow ==
    ASSUME NEW log \in Seq(LogEvents), NEW i \in 1..Len(queryEvents(log)),
           Anchor(queryEvents(log), i), queryEvents(log)[i].call # NoCall
    PROVE  LET row    == RowOf(queryEvents(log), i)
               starts == Seen(log, row.call, {"PreToolUse"})
               ends   == Seen(log, row.call, Results)
           IN  /\ row.id = Max(IF starts # {} THEN starts ELSE ends)
               /\ row.outcome = IF ends = {} THEN "running"
                                ELSE IF log[Max(ends)].type = "PostToolUseFailure" THEN "failed" ELSE "ok"
<1> DEFINE events == queryEvents(log)
           len == Len(events)
           L == Len(log)
           c == events[i].call
           p == Pre(events, c)
           r == Resolved(events, c)
           id(j) == L - j + 1
           starts == Seen(log, c, {"PreToolUse"})
           ends == Seen(log, c, Results)
<1>1. /\ Newest(events) /\ len \in Nat /\ DOMAIN events = 1..len /\ L \in Nat /\ DOMAIN log = 1..L
      /\ \A j \in 1..len : /\ id(j) \in DOMAIN log /\ events[j].id = id(j)
                         /\ events[j].call = log[id(j)].call /\ events[j].type = log[id(j)].type
  BY QueryIs, LenProperties
<1>2. /\ p = 0 <=> starts = {}
      /\ p # 0 => p \in 1..len /\ Max(starts) = id(p)
  BY SeenOnPage DEF Pre
<1>3. /\ r = 0 <=> ends = {}
      /\ r # 0 => r \in 1..len /\ Max(ends) = id(r)
  BY SeenOnPage DEF Resolved, Results
<1>4. i \in 1..len /\ Anchor(events, i) /\ c # NoCall OBVIOUS
<1>5. events[i].type \in {"PreToolUse"} \cup Results
  <2>1. log[id(i)] \in LogEvents
    <3>1. id(i) \in 1..L BY <1>1, <1>4
    <3> HIDE DEF id
    <3> QED BY <1>1, <3>1, ElementOfSeq
  <2>2. log[id(i)].call # NoCall /\ log[id(i)].type = events[i].type BY <1>1, <1>4
  <2> QED BY <2>1, <2>2 DEF LogEvents, Results
<1>6. /\ RowOf(events, i).id = id(i) /\ RowOf(events, i).call = c
      /\ RowOf(events, i).outcome = Outcome(events, c)
  BY <1>1, <1>4 DEF RowOf
<1>f. /\ p = 0 => \A j \in 1..len : ~(events[j].call = c /\ events[j].type = "PreToolUse")
      /\ r = 0 => \A j \in 1..len : ~(events[j].call = c /\ events[j].type \in Results)
      /\ r # 0 => /\ r \in 1..len /\ events[r].call = c /\ events[r].type \in Results
                  /\ \A j \in 1..len : events[j].call = c /\ events[j].type \in Results => r =< j
  <2>1. p = 0 => \A j \in 1..len : ~(events[j].call = c /\ events[j].type = "PreToolUse")
    <3>1. \/ p = 0 /\ \A j \in 1..len : ~(events[j].call = c /\ events[j].type \in {"PreToolUse"})
          \/ p \in 1..len
      BY <1>1, FirstOfIs DEF Pre
    <3> QED BY <1>1, <3>1
  <2>2. /\ r = 0 => \A j \in 1..len : ~(events[j].call = c /\ events[j].type \in Results)
        /\ r # 0 => /\ r \in 1..len /\ events[r].call = c /\ events[r].type \in Results
                    /\ \A j \in 1..len : events[j].call = c /\ events[j].type \in Results => r =< j
    BY <1>1, FirstOfIs DEF Resolved, Results
  <2> QED BY <2>1, <2>2
<1> HIDE DEF events, len, L, c, p, r, starts, ends
<1>7. id(i) = Max(IF starts # {} THEN starts ELSE ends)
  <2>1. CASE p # 0
    <3>1. i = p BY <1>4, <2>1 DEF Anchor, p, c
    <3> QED BY <1>2, <2>1, <3>1
  <2>2. CASE p = 0
    <3>1. \A j \in 1..i - 1 : events[j].call # c BY <1>4, <2>2 DEF Anchor, p, c
    <3>2. events[i].type \in Results BY <1>4, <1>5, <1>f, <2>2 DEF c
    <3>3. r # 0 BY <1>4, <1>f, <3>2 DEF c
    <3>4. r =< i BY <1>4, <1>f, <3>2, <3>3 DEF c
    <3>5. ~(r \in 1..i - 1) BY <1>f, <3>1, <3>3
    <3>6. r = i BY <1>1, <1>3, <1>4, <3>3, <3>4, <3>5
    <3> QED BY <1>2, <1>3, <2>2, <3>3, <3>6
  <2> QED BY <2>1, <2>2
<1>8. Outcome(events, c) = IF ends = {} THEN "running"
                           ELSE IF log[Max(ends)].type = "PostToolUseFailure" THEN "failed" ELSE "ok"
  <2>1. CASE r = 0 BY <1>3, <1>4, <2>1 DEF Outcome, r
  <2>2. CASE r # 0
    <3>1. log[Max(ends)].type = events[r].type BY <1>1, <1>3, <2>2
    <3>2. Outcome(events, c) = IF events[r].type = "PostToolUseFailure" THEN "failed" ELSE "ok"
      BY <1>4, <2>2 DEF Outcome, r
    <3> QED BY <1>3, <2>2, <3>1, <3>2
  <2> QED BY <2>1, <2>2
<1> QED BY <1>6, <1>7, <1>8 DEF events, starts, ends

LEMMA FeedFaithful ==
    ASSUME NEW log \in Seq(LogEvents)
    PROVE  Faithful(log)
<1> DEFINE events == queryEvents(log)
           len == Len(events)
           L == Len(log)
           rows == Page(log)
           keys == Keys(rows)
           window == {id \in DOMAIN log : id > L - Limit}
           id(j) == L - j + 1
           K(x) == IF log[x].call = NoCall THEN x ELSE log[x].call
<1>1. /\ Newest(events) /\ len \in Nat /\ L \in Nat /\ DOMAIN log = 1..L
      /\ len =< L /\ len =< Limit /\ (len = L \/ len = Limit) /\ Limit \in Nat
      /\ \A j \in 1..len : /\ id(j) \in DOMAIN log /\ events[j].id = id(j)
                         /\ events[j].call = log[id(j)].call /\ events[j].type = log[id(j)].type
  BY QueryIs, LenProperties, FeedParameters
<1>2. /\ Len(rows) \in Nat /\ DOMAIN rows = 1..Len(rows) /\ DOMAIN keys = 1..Len(rows)
      /\ \A k \in 1..Len(rows) : \E i \in 1..len :
            Anchor(events, i) /\ rows[k] = RowOf(events, i) /\ keys[k] = KeyOf(events[i])
      /\ \A i \in 1..len : Anchor(events, i) =>
            \E k \in 1..Len(rows) : rows[k] = RowOf(events, i) /\ keys[k] = KeyOf(events[i])
      /\ \A j, k \in 1..Len(rows) : j < k => rows[j].id > rows[k].id
  BY PageIs
<1>3. \A j \in 1..len : /\ events[j].call = NoCall \/ events[j].call \in Calls
                        /\ events[j].id \in Nat
  <2> TAKE j \in 1..len
  <2>1. events[j] \in PageEvents BY <1>1, ElementOfSeq DEF Newest
  <2> QED BY <2>1 DEF PageEvents
<1>4. \A j \in 1..len : id(j) \in window /\ KeyOf(events[j]) = K(id(j)) BY <1>1 DEF KeyOf
<1>5. \A x \in window : \E j \in 1..len : id(j) = x
  <2> TAKE x \in window
  <2>1. L - x + 1 \in 1..len /\ id(L - x + 1) = x BY <1>1
  <2> QED BY <2>1
<1>6. ASSUME NEW j \in 1..Len(rows), NEW k \in 1..Len(rows), j < k
      PROVE  rows[j].id > rows[k].id /\ keys[j] # keys[k]
  <2>1. rows[j].id > rows[k].id BY <1>2, <1>6
  <2>2. PICK a \in 1..len : Anchor(events, a) /\ rows[j] = RowOf(events, a) /\ keys[j] = KeyOf(events[a]) BY <1>2
  <2>3. PICK b \in 1..len : Anchor(events, b) /\ rows[k] = RowOf(events, b) /\ keys[k] = KeyOf(events[b]) BY <1>2
  <2>4. events[a].id > events[b].id /\ events[a].id \in Nat /\ events[b].id \in Nat
    <3> HIDE DEF events, len, rows, L
    <3>1. events[a].id > events[b].id BY <2>1, <2>2, <2>3 DEF RowOf
    <3>2. events[a].id \in Nat /\ events[b].id \in Nat BY <1>3
    <3> QED BY <3>1, <3>2
  <2>5. ASSUME keys[j] = keys[k] PROVE FALSE
    <3> HIDE DEF events, len, rows, keys, L
    <3>1. CASE events[a].call = NoCall /\ events[b].call = NoCall BY <2>2, <2>3, <2>4, <2>5, <3>1 DEF KeyOf
    <3>2. CASE events[a].call # NoCall /\ events[b].call # NoCall
      <4>1. events[a].call = events[b].call BY <2>2, <2>3, <2>5, <3>2 DEF KeyOf
      <4>2. a = b BY <2>2, <2>3, <3>2, <4>1, OneAnchor
      <4> QED BY <2>4, <4>2
    <3>3. CASE events[a].call = NoCall /\ events[b].call # NoCall
      BY <1>3, <2>2, <2>3, <2>4, <2>5, <3>3, FeedParameters DEF KeyOf
    <3>4. CASE events[a].call # NoCall /\ events[b].call = NoCall
      BY <1>3, <2>2, <2>3, <2>4, <2>5, <3>4, FeedParameters DEF KeyOf
    <3> QED BY <3>1, <3>2, <3>3, <3>4
  <2> QED BY <2>1, <2>5
<1>7. Range(keys) = {K(x) : x \in window}
  <2>1. ASSUME NEW k \in 1..Len(rows) PROVE keys[k] \in {K(x) : x \in window}
    <3>1. PICK a \in 1..len : keys[k] = KeyOf(events[a]) BY <1>2
    <3> QED BY <1>4, <3>1
  <2>2. ASSUME NEW x \in window PROVE \E k \in 1..Len(rows) : keys[k] = K(x)
    <3>1. PICK j \in 1..len : id(j) = x BY <1>5
    <3>2. \E i \in 1..len : Anchor(events, i) /\ KeyOf(events[i]) = KeyOf(events[j])
      <4>1. CASE events[j].call = NoCall BY <4>1 DEF Anchor
      <4>2. CASE events[j].call # NoCall
        <5>1. PICK i \in 1..len : Anchor(events, i) /\ events[i].call = events[j].call
          BY <1>1, <4>2, AnchorOf
        <5> QED BY <4>2, <5>1 DEF KeyOf
      <4> QED BY <4>1, <4>2
    <3>3. PICK i \in 1..len : Anchor(events, i) /\ KeyOf(events[i]) = KeyOf(events[j]) BY <3>2
    <3>4. KeyOf(events[j]) = K(x) BY <1>4, <3>1
    <3> QED BY <1>2, <3>3, <3>4
  <2> HIDE DEF keys, window, K
  <2> QED BY <1>2, <2>1, <2>2 DEF Range
<1>8. ASSUME NEW row \in Range(rows), row.call # NoCall
      PROVE  LET starts == Seen(log, row.call, {"PreToolUse"})
                 ends   == Seen(log, row.call, Results)
             IN  /\ row.id = Max(IF starts # {} THEN starts ELSE ends)
                 /\ row.outcome = IF ends = {} THEN "running"
                                  ELSE IF log[Max(ends)].type = "PostToolUseFailure" THEN "failed" ELSE "ok"
                 /\ InOrder(log) => row.outcome = TrueOutcome(log, row.call)
  <2>1. PICK k \in 1..Len(rows) : row = rows[k]
    <3> HIDE DEF rows
    <3> QED BY <1>2 DEF Range
  <2>2. PICK i \in 1..len : Anchor(events, i) /\ row = RowOf(events, i) BY <1>2, <2>1
  <2>3. row.call = events[i].call /\ row.outcome = Outcome(events, events[i].call) BY <2>2 DEF RowOf
  <2>4. InOrder(log) => row.outcome = TrueOutcome(log, row.call) BY <1>8, <2>3, OutcomeIs
  <2> QED BY <1>8, <2>2, <2>3, <2>4, CallRow
<1> QED BY <1>2, <1>6, <1>7, <1>8 DEF Faithful

\* id is the last start of a call in the log.
LastStart(log, call, id) ==
    /\ id \in DOMAIN log /\ log[id].call = call /\ log[id].type = "PreToolUse"
    /\ \A x \in DOMAIN log : log[x].call = call /\ log[x].type = "PreToolUse" => x =< id

\* The row of an event that is no call's, or of a call whose start is on the
\* page, is where the log says.
LEMMA RowPlace ==
    ASSUME NEW log \in Seq(LogEvents), NEW k \in 1..Len(Page(log))
    PROVE  LET id == Page(log)[k].id
               key == Keys(Page(log))[k]
           IN  /\ id \in Nat
               /\ key \in Nat => id = key
               /\ key \in Calls /\ Pre(queryEvents(log), key) # 0 => LastStart(log, key, id)
<1> DEFINE events == queryEvents(log)
           len == Len(events)
           L == Len(log)
           rows == Page(log)
           key == Keys(rows)[k]
           id(j) == L - j + 1
<1>1. /\ Newest(events) /\ len \in Nat /\ L \in Nat /\ DOMAIN log = 1..L
      /\ len =< L /\ len =< Limit /\ (len = L \/ len = Limit) /\ Limit \in Nat
      /\ \A j \in 1..len : /\ id(j) \in DOMAIN log /\ events[j].id = id(j)
                         /\ events[j].call = log[id(j)].call /\ events[j].type = log[id(j)].type
  BY QueryIs, LenProperties, FeedParameters
<1>2. PICK i \in 1..len : Anchor(events, i) /\ rows[k] = RowOf(events, i) /\ key = KeyOf(events[i])
  BY PageIs
<1> HIDE DEF events, len, L, rows, key
<1>3. rows[k].id = id(i) /\ events[i].id = id(i) /\ id(i) \in 1..L BY <1>1, <1>2 DEF RowOf
<1>4. events[i].call = NoCall \/ events[i].call \in Calls
  <2>1. events[i] \in PageEvents BY <1>1, <1>2, ElementOfSeq DEF Newest, len
  <2> QED BY <2>1 DEF PageEvents
<1>5. ASSUME key \in Nat PROVE rows[k].id = key
  <2>1. events[i].call = NoCall BY <1>2, <1>4, <1>5, FeedParameters DEF KeyOf
  <2> QED BY <1>2, <2>1 DEF KeyOf, RowOf
<1>6. ASSUME key \in Calls, Pre(events, key) # 0 PROVE LastStart(log, key, rows[k].id)
  <2>1. events[i].call = key
    <3>1. events[i].id \in Nat
      <4> HIDE DEF id
      <4> QED BY <1>3
    <3> QED BY <1>2, <1>6, <3>1, FeedParameters DEF KeyOf
  <2>2. i = Pre(events, key) BY <1>2, <1>6, <2>1, FeedParameters DEF Anchor
  <2>3. /\ events[i].call = key /\ events[i].type = "PreToolUse"
        /\ \A j \in 1..len : events[j].call = key /\ events[j].type = "PreToolUse" => i =< j
    BY <1>1, <1>6, <2>2, FirstOfIs DEF Pre, len
  <2>4. ASSUME NEW x \in 1..L, log[x].call = key, log[x].type = "PreToolUse", ~(x =< id(i)) PROVE FALSE
    <3> DEFINE j == L - x + 1
    <3>1. j \in 1..len /\ id(j) = x /\ j < i
      <4>1. L \in Nat /\ len \in Nat /\ i \in 1..len /\ x \in 1..L /\ x > L - i + 1 BY <1>1, <1>2, <1>3, <2>4
      <4> QED BY <4>1
    <3> HIDE DEF j
    <3>2. events[j].call = key /\ events[j].type = "PreToolUse" BY <1>1, <2>4, <3>1
    <3>3. i =< j BY <2>3, <3>1, <3>2
    <3> QED BY <3>1, <3>3
  <2> QED BY <1>1, <1>2, <1>3, <2>3, <2>4 DEF LastStart
<1>7. rows[k].id \in Nat BY <1>1, <1>3
<1> QED BY <1>5, <1>6, <1>7 DEF events, rows, key

LEMMA FeedStays ==
    ASSUME NEW log \in Seq(LogEvents), NEW e \in LogEvents
    PROVE  StayPut(log, e)
<1> DEFINE after == Append(log, e)
           old == Keys(Page(log))
           new == Keys(Page(after))
           Started(l) == {c \in Calls : Seen(l, c, {"PreToolUse"}) # {}}
           restarted == IF e.type = "PreToolUse" THEN {e.call} ELSE {}
           kept == (Nat \cup (Started(log) \cap Started(after))) \ restarted
<1>1. /\ after \in Seq(LogEvents) /\ Len(log) \in Nat /\ Len(after) = Len(log) + 1
      /\ DOMAIN log = 1..Len(log) /\ DOMAIN after = 1..(Len(log) + 1)
      /\ \A x \in 1..Len(log) : after[x] = log[x]
      /\ after[Len(log) + 1] = e
  BY AppendProperties, LenProperties
<1> HIDE DEF after
<1>2. /\ DOMAIN old = 1..Len(Page(log)) /\ Len(Page(log)) \in Nat
      /\ \A i, j \in 1..Len(Page(log)) : i < j => Page(log)[i].id > Page(log)[j].id
  BY PageIs
<1>3. /\ DOMAIN new = 1..Len(Page(after)) /\ Len(Page(after)) \in Nat
      /\ \A i, j \in 1..Len(Page(after)) : i < j => Page(after)[i].id > Page(after)[j].id
  BY <1>1, PageIs
<1>4. ASSUME NEW i \in DOMAIN old, NEW k \in DOMAIN new, old[i] = new[k], old[i] \in kept
      PROVE  /\ Page(log)[i].id = Page(after)[k].id
             /\ Page(log)[i].id \in Nat
  <2> DEFINE key == old[i]
             x == Page(log)[i].id
             y == Page(after)[k].id
  <2>1. /\ x \in Nat /\ (key \in Nat => x = key)
        /\ key \in Calls /\ Pre(queryEvents(log), key) # 0 => LastStart(log, key, x)
    BY <1>2, RowPlace
  <2>2. /\ y \in Nat /\ (key \in Nat => y = key)
        /\ key \in Calls /\ Pre(queryEvents(after), key) # 0 => LastStart(after, key, y)
    BY <1>1, <1>3, <1>4, RowPlace
  <2>3. key \in kept BY <1>4
  <2>s. \A l \in {log, after} : key \in Started(l) => key \in Calls /\ Pre(queryEvents(l), key) # 0
    BY <1>1, SeenOnPage DEF Pre
  <2> HIDE DEF old, new, x, y, key
  <2>4. CASE key \in Nat BY <2>1, <2>2, <2>4 DEF x, y
  <2>5. CASE key \notin Nat
    <3>1. LastStart(log, key, x) /\ LastStart(after, key, y) /\ key \notin restarted
      BY <2>1, <2>2, <2>3, <2>s, <2>5
    <3>2. y # Len(log) + 1 BY <1>1, <3>1 DEF LastStart
    <3>3. y \in 1..Len(log) /\ log[y].call = key /\ log[y].type = "PreToolUse" BY <1>1, <3>1, <3>2 DEF LastStart
    <3>4. x \in 1..Len(log) /\ x \in DOMAIN after /\ after[x].call = key /\ after[x].type = "PreToolUse"
      BY <1>1, <3>1 DEF LastStart
    <3>5. y =< x /\ x =< y BY <1>1, <3>1, <3>3, <3>4 DEF LastStart
    <3>6. x = y BY <2>1, <2>2, <3>5
    <3> QED BY <2>1, <3>6 DEF x, y
  <2> QED BY <2>4, <2>5
<1>5. ASSUME NEW i \in DOMAIN old, NEW j \in DOMAIN old, NEW k \in DOMAIN new, NEW l \in DOMAIN new,
             i < j, old[i] = new[k], old[j] = new[l], {old[i], old[j]} \subseteq kept
      PROVE  k < l
  <2>1. /\ Page(log)[i].id = Page(after)[k].id /\ Page(log)[i].id \in Nat
        /\ Page(log)[j].id = Page(after)[l].id /\ Page(log)[j].id \in Nat
    <3>1. old[i] \in kept /\ old[j] \in kept BY <1>5
    <3> HIDE DEF kept, old, new
    <3> QED BY <1>4, <1>5, <3>1
  <2>2. Page(log)[i].id > Page(log)[j].id BY <1>2, <1>5
  <2>3. k \in Int /\ l \in Int BY <1>3
  <2>4. ~(l < k) /\ k # l BY <1>3, <2>1, <2>2
  <2> QED BY <2>3, <2>4
<1> QED BY <1>5 DEF StayPut, after

-----------------------------------------------------------------------------
(* The colours.                                                              *)

Slots == 0..Colors - 1

LEMMA Wraps ==
    ASSUME NEW a \in Slots
    PROVE  /\ \A i \in Slots : (a + i) % Colors \in Slots
           /\ \A x \in Slots : \E i \in Slots : (a + i) % Colors = x
<1>1. Colors \in Nat /\ Colors > 0 BY FeedParameters
<1>2. ASSUME NEW i \in Slots PROVE (a + i) % Colors \in Slots BY <1>1 DEF Slots
<1>3. ASSUME NEW x \in Slots PROVE \E i \in Slots : (a + i) % Colors = x
  <2>1. CASE a =< x
    <3>1. x - a \in Slots /\ a + (x - a) = x BY <1>1, <2>1 DEF Slots
    <3>2. x % Colors = x BY <1>1 DEF Slots
    <3> QED BY <3>1, <3>2
  <2>2. CASE x < a
    <3>1. x - a + Colors \in Slots /\ a + (x - a + Colors) = x + Colors BY <1>1, <2>2 DEF Slots
    <3>2. (x + Colors) % Colors = x BY <1>1 DEF Slots
    <3> QED BY <3>1, <3>2
  <2> QED BY <1>1, <2>1, <2>2 DEF Slots
<1> QED BY <1>2, <1>3

\* A slot is free unless all are used.
LEMMA ProbeIs ==
    ASSUME NEW start \in Slots, NEW used
    PROVE  /\ Probe(start, used) \in Slots
           /\ ~(Slots \subseteq used) => Probe(start, used) \notin used
<1> DEFINE free == {i \in Slots : (start + i) % Colors \notin used}
<1>1. Probe(start, used) = IF free = {} THEN start ELSE (start + Min(free)) % Colors
  BY DEF Probe, Slots
<1>2. free \subseteq Nat BY FeedParameters DEF Slots
<1>3. CASE free = {}
  <2>1. \A i \in Slots : (start + i) % Colors \in used BY <1>3
  <2>2. Slots \subseteq used BY <2>1, Wraps
  <2> QED BY <1>1, <1>3, <2>2
<1>4. CASE free # {}
  <2> HIDE DEF free
  <2>1. Min(free) \in free BY <1>2, <1>4, MinOf
  <2>2. Min(free) \in Slots /\ (start + Min(free)) % Colors \notin used BY <2>1 DEF free
  <2> QED BY <1>1, <1>4, <2>2, Wraps
<1> QED BY <1>3, <1>4

\* The colours after the first len sessions.
Colored(out, ids, len) ==
    /\ DOMAIN out = {ids[i] : i \in 1..len}
    /\ \A s \in DOMAIN out : out[s] \in Slots
    /\ IsFiniteSet(DOMAIN out)
    /\ Cardinality(DOMAIN out) =< Colors => IsInjective(out)
    /\ Cardinality(DOMAIN out) > Colors => Range(out) = Slots

\* A board of as many sessions as there are colours uses all of them.
LEMMA AllUsed ==
    ASSUME NEW out, \A s \in DOMAIN out : out[s] \in Slots, IsInjective(out),
           IsFiniteSet(DOMAIN out), Cardinality(DOMAIN out) = Colors
    PROVE  Range(out) = Slots
<1> DEFINE D == DOMAIN out
           f == [s \in D |-> out[s]]
<1>1. Colors \in Nat BY FeedParameters
<1>2. IsFiniteSet(Slots) /\ Cardinality(Slots) = Colors
  <2>1. IsFiniteSet(0..Colors - 1) BY <1>1, FS_Interval
  <2>2. Cardinality(0..Colors - 1) = IF 0 > Colors - 1 THEN 0 ELSE (Colors - 1) - 0 + 1 BY <1>1, FS_Interval
  <2> QED BY <1>1, <2>1, <2>2 DEF Slots
<1>3. f \in [D -> Slots] /\ \A s, t \in D : f[s] = f[t] => s = t BY DEF IsInjective
<1>4. f \in Injection(D, Slots) BY <1>3 DEF Injection, IsInjective
<1> HIDE DEF f
<1>5. f \in Surjection(D, Slots) BY <1>2, <1>4, FS_Injection
<1>6. \A x \in Slots : \E s \in D : f[s] = x BY <1>5 DEF Surjection
<1>7. \A s \in D : f[s] = out[s] BY DEF f
<1> QED BY <1>6, <1>7 DEF Range

LEMMA ColoredStep ==
    ASSUME NEW ids, NEW len \in Nat, NEW out, Colored(out, ids, len), NEW start \in Slots
    PROVE  /\ Colored(Give(out, ids[len + 1], start), ids, len + 1)
           /\ \A t \in DOMAIN out : Give(out, ids[len + 1], start)[t] = out[t]
<1> DEFINE s == ids[len + 1]
           D == DOMAIN out
           color == Probe(start, Range(out))
           new == [t \in D \cup {s} |-> IF t = s THEN color ELSE out[t]]
           give == Give(out, s, start)
<1>0. Colors \in Nat BY FeedParameters
<1>1. /\ D = {ids[i] : i \in 1..len} /\ \A t \in D : out[t] \in Slots
      /\ IsFiniteSet(D) /\ Cardinality(D) \in Nat
      /\ Cardinality(D) =< Colors => IsInjective(out)
      /\ Cardinality(D) > Colors => Range(out) = Slots
  BY FS_CardinalityType DEF Colored
<1>2. {ids[i] : i \in 1..len + 1} = D \cup {s}
  <2>1. \A i \in 1..len + 1 : i \in 1..len \/ i = len + 1 OBVIOUS
  <2>2. len + 1 \in 1..len + 1 /\ \A i \in 1..len : i \in 1..len + 1 OBVIOUS
  <2> QED BY <1>1, <2>1, <2>2
<1>3. CASE s \in D
  <2>1. give = out BY <1>3 DEF Give
  <2>2. D \cup {s} = D BY <1>3
  <2> HIDE DEF give
  <2> QED BY <1>1, <1>2, <2>1, <2>2 DEF Colored, give
<1>4. CASE s \notin D
  <2>1. give = new BY <1>4 DEF Give
  <2>2. color \in Slots /\ (~(Slots \subseteq Range(out)) => color \notin Range(out)) BY ProbeIs
  <2>3. /\ DOMAIN new = D \cup {s} /\ new[s] = color /\ \A t \in D : new[t] = out[t]
    BY <1>4
  <2>4. IsFiniteSet(D \cup {s}) /\ Cardinality(D \cup {s}) = Cardinality(D) + 1 BY <1>1, <1>4, FS_AddElement
  <2> HIDE DEF give, new, color
  <2>5. \A t \in DOMAIN new : new[t] \in Slots BY <1>1, <2>2, <2>3
  <2>6. ASSUME Cardinality(D) + 1 =< Colors PROVE IsInjective(new)
    <3>1. IsInjective(out) BY <1>0, <1>1, <2>6
    <3>2. Range(out) # Slots
      <4> SUFFICES ASSUME Range(out) = Slots PROVE FALSE OBVIOUS
      <4> DEFINE f == [t \in D |-> out[t]]
      <4>1. f \in Surjection(D, Slots) BY <1>1 DEF Surjection, Range
      <4> HIDE DEF f
      <4>2. Cardinality(Slots) =< Cardinality(D) BY <1>1, <4>1, FS_Surjection
      <4>3. Cardinality(0..Colors - 1) = IF 0 > Colors - 1 THEN 0 ELSE (Colors - 1) - 0 + 1 BY <1>0, FS_Interval
      <4> QED BY <1>0, <1>1, <2>6, <4>2, <4>3, FeedParameters DEF Slots
    <3>3. ~(Slots \subseteq Range(out))
      <4>1. Range(out) \subseteq Slots BY <1>1 DEF Range
      <4> QED BY <3>2, <4>1
    <3>4. \A t \in D : out[t] # color BY <2>2, <3>3 DEF Range
    <3> QED BY <2>3, <3>1, <3>4 DEF IsInjective
  <2>7. ASSUME Cardinality(D) + 1 > Colors PROVE Range(new) = Slots
    <3>1. Range(out) = Slots
      <4>1. CASE Cardinality(D) > Colors BY <1>1, <4>1
      <4>2. CASE Cardinality(D) = Colors
        <5>1. IsInjective(out) BY <1>0, <1>1, <4>2
        <5> QED BY <1>1, <4>2, <5>1, AllUsed
      <4> QED BY <1>0, <1>1, <2>7, <4>1, <4>2
    <3>2. Range(out) \subseteq Range(new) BY <2>3 DEF Range
    <3>3. Range(new) \subseteq Slots BY <2>5 DEF Range
    <3> QED BY <3>1, <3>2, <3>3
  <2>8. Colored(new, ids, len + 1) BY <1>2, <2>3, <2>4, <2>5, <2>6, <2>7 DEF Colored
  <2> QED BY <2>1, <2>3, <2>8 DEF give
<1> QED BY <1>3, <1>4

\* The recursion of the colours, up to the len-th session.
Coloring(f, ids, hash, len) ==
    f = [i \in 0..len |-> IF i = 0 THEN <<>> ELSE Give(f[i - 1], ids[i], hash[ids[i]])]

LEMMA ColoringExists ==
    ASSUME NEW ids, NEW hash, NEW len \in Nat
    PROVE  \E f : Coloring(f, ids, hash, len)
<1> DEFINE Good(b) == \E f : Coloring(f, ids, hash, b)
           Bad == {b \in Nat : ~Good(b)}
<1>1. Good(0)
  <2> DEFINE f == [i \in 0..0 |-> <<>>]
  <2>1. Coloring(f, ids, hash, 0) BY DEF Coloring
  <2> QED BY <2>1
<1>2. ASSUME NEW b \in Nat, Good(b) PROVE Good(b + 1)
  <2>1. PICK f : Coloring(f, ids, hash, b) BY <1>2
  <2> DEFINE m == b + 1
             last == Give(f[b], ids[m], hash[ids[m]])
             g == [i \in 0..m |-> IF i = m THEN last ELSE f[i]]
  <2>2. g[m] = last /\ \A i \in 0..b : g[i] = f[i] OBVIOUS
  <2>3. \A i \in 0..b : f[i] = IF i = 0 THEN <<>> ELSE Give(f[i - 1], ids[i], hash[ids[i]])
    BY <2>1 DEF Coloring
  <2>4. ASSUME NEW i \in 0..m
        PROVE  g[i] = IF i = 0 THEN <<>> ELSE Give(g[i - 1], ids[i], hash[ids[i]])
    <3> HIDE DEF g
    <3>1. CASE i \in 0..b
      <4>1. i # 0 => i - 1 \in 0..b BY <3>1
      <4>2. i # 0 => g[i - 1] = f[i - 1] BY <2>2, <4>1
      <4> QED BY <2>2, <2>3, <3>1, <4>2
    <3>2. CASE i = m
      <4>1. i # 0 /\ i - 1 = b /\ b \in 0..b BY <3>2
      <4> QED BY <2>2, <3>2, <4>1
    <3> QED BY <3>1, <3>2
  <2>5. g = [i \in 0..m |-> g[i]] OBVIOUS
  <2> HIDE DEF g, last
  <2>6. Coloring(g, ids, hash, m) BY <2>4, <2>5 DEF Coloring
  <2> QED BY <2>6
<1> HIDE DEF Good
<1>3. Bad = {}
  <2> SUFFICES ASSUME Bad # {} PROVE FALSE OBVIOUS
  <2>1. PICK b \in Bad : \A y \in Bad : b =< y BY LeastNat
  <2>2. b # 0 BY <1>1, <2>1
  <2>3. b - 1 \in Nat /\ b - 1 \notin Bad /\ (b - 1) + 1 = b BY <2>1, <2>2
  <2> QED BY <1>2, <2>1, <2>3
<1> QED BY <1>3 DEF Good

LEMMA ColoringIs ==
    ASSUME NEW ids \in Seq(Chips), NEW hash \in [Chips -> Slots], NEW w, Coloring(w, ids, hash, Len(ids))
    PROVE  \A b \in 0..Len(ids) :
             /\ Colored(w[b], ids, b)
             /\ \A a \in 0..b : \A t \in DOMAIN w[a] : t \in DOMAIN w[b] /\ w[b][t] = w[a][t]
<1> DEFINE l == Len(ids)
           Kept(b) == \A a \in 0..b : \A t \in DOMAIN w[a] : t \in DOMAIN w[b] /\ w[b][t] = w[a][t]
           Bad == {b \in 0..l : ~(Colored(w[b], ids, b) /\ Kept(b))}
<1>1. l \in Nat /\ \A i \in 1..l : ids[i] \in Chips BY LenProperties, ElementOfSeq
<1>2. \A i \in 0..l : w[i] = IF i = 0 THEN <<>> ELSE Give(w[i - 1], ids[i], hash[ids[i]])
  BY DEF Coloring
<1>3. Colored(w[0], ids, 0) /\ Kept(0)
  <2>1. w[0] = <<>> BY <1>1, <1>2
  <2>2. DOMAIN <<>> = {} OBVIOUS
  <2>3. IsFiniteSet({}) /\ Cardinality({}) = 0 BY FS_EmptySet
  <2>4. Colored(<<>>, ids, 0) BY <2>2, <2>3, FeedParameters DEF Colored, IsInjective
  <2>5. Kept(0) BY <2>1, <2>2
  <2> QED BY <2>1, <2>4, <2>5
<1>4. ASSUME NEW b \in Nat, b + 1 \in 1..l, Colored(w[b], ids, b), Kept(b)
      PROVE  Colored(w[b + 1], ids, b + 1) /\ Kept(b + 1)
  <2> DEFINE out == Give(w[b], ids[b + 1], hash[ids[b + 1]])
  <2>1. w[b + 1] = out
    <3>1. b + 1 \in 0..l /\ b + 1 # 0 /\ (b + 1) - 1 = b BY <1>4
    <3> QED BY <1>2, <3>1
  <2>2. hash[ids[b + 1]] \in Slots BY <1>1, <1>4
  <2>3. Colored(out, ids, b + 1) /\ \A t \in DOMAIN w[b] : out[t] = w[b][t]
    BY <1>4, <2>2, ColoredStep
  <2> HIDE DEF out
  <2>4. DOMAIN w[b] \subseteq DOMAIN out
    <3>1. \A i \in 1..b : i \in 1..b + 1 BY <1>4
    <3> QED BY <1>4, <2>3, <3>1 DEF Colored
  <2>5. ASSUME NEW a \in 0..b + 1, NEW t \in DOMAIN w[a]
        PROVE  t \in DOMAIN w[b + 1] /\ w[b + 1][t] = w[a][t]
    <3>1. CASE a = b + 1 BY <3>1
    <3>2. CASE a \in 0..b
      <4>1. t \in DOMAIN w[b] /\ w[b][t] = w[a][t] BY <1>4, <2>5, <3>2
      <4> QED BY <2>1, <2>3, <2>4, <4>1
    <3> QED BY <1>4, <3>1, <3>2
  <2> QED BY <2>1, <2>3, <2>5
<1> HIDE DEF Kept
<1>5. Bad = {}
  <2> SUFFICES ASSUME Bad # {} PROVE FALSE OBVIOUS
  <2>1. Bad \subseteq Nat BY <1>1
  <2>2. PICK b \in Bad : \A y \in Bad : b =< y BY <2>1, LeastNat
  <2>3. b # 0 BY <1>3, <2>2
  <2> DEFINE a == b - 1
  <2>4. a \in Nat /\ a + 1 = b /\ a \in 0..l /\ a \notin Bad /\ b \in 1..l BY <1>1, <2>2, <2>3
  <2>5. Colored(w[a], ids, a) /\ Kept(a) BY <2>4
  <2> HIDE DEF a
  <2>6. a + 1 \in 1..l BY <2>4
  <2>7. Colored(w[a + 1], ids, a + 1) /\ Kept(a + 1) BY <1>4, <2>4, <2>5, <2>6
  <2> QED BY <2>2, <2>4, <2>7
<1> QED BY <1>5 DEF Kept

\* Two runs give the same colours as long as they meet the same sessions.
LEMMA SameColors ==
    ASSUME NEW hash, NEW v, NEW w, NEW ids, NEW more, NEW l \in Nat, NEW m \in Nat, NEW len \in 0..l,
           len =< m, Coloring(v, ids, hash, l), Coloring(w, more, hash, m),
           \A i \in 1..len : ids[i] = more[i]
    PROVE  v[len] = w[len]
<1> DEFINE Bad == {b \in 0..len : v[b] # w[b]}
<1>1. \A i \in 0..l : v[i] = IF i = 0 THEN <<>> ELSE Give(v[i - 1], ids[i], hash[ids[i]])
  BY DEF Coloring
<1>2. \A i \in 0..m : w[i] = IF i = 0 THEN <<>> ELSE Give(w[i - 1], more[i], hash[more[i]])
  BY DEF Coloring
<1>3. Bad = {}
  <2> SUFFICES ASSUME Bad # {} PROVE FALSE OBVIOUS
  <2>1. Bad \subseteq Nat OBVIOUS
  <2>2. PICK b \in Bad : \A y \in Bad : b =< y BY <2>1, LeastNat
  <2>3. b \in 0..l /\ b \in 0..m /\ b \in 0..len BY <2>2
  <2>4. b # 0 BY <1>1, <1>2, <2>2, <2>3
  <2>5. b \in 1..len /\ b - 1 \in 0..len /\ b - 1 \notin Bad BY <2>2, <2>3, <2>4
  <2>6. v[b - 1] = w[b - 1] /\ ids[b] = more[b] BY <2>5
  <2>7. v[b] = w[b]
    <3>1. v[b] = Give(v[b - 1], ids[b], hash[ids[b]]) BY <1>1, <2>3, <2>4
    <3>2. w[b] = Give(w[b - 1], more[b], hash[more[b]]) BY <1>2, <2>3, <2>4
    <3> QED BY <2>6, <3>1, <3>2
  <2> QED BY <2>2, <2>7
<1> QED BY <1>3

LEMMA OrderedIs ==
    ASSUME NEW agents_ \in Seq(Chips), NEW logged \in Seq(Chips)
    PROVE  LET ids == Ordered(agents_, logged)
               len == Len(agents_)
           IN  /\ ids \in Seq(Chips) /\ len \in Nat /\ Len(ids) = len + Len(logged) /\ Len(logged) \in Nat
               /\ \A i \in 1..len : ids[i] = agents_[i]
               /\ \A i \in 1..Len(logged) : ids[len + i] = logged[i]
<1> DEFINE len == Len(agents_)
           ids == Ordered(agents_, logged)
<1>0. len \in Nat /\ Len(logged) \in Nat BY LenProperties
<1>1. /\ ids \in Seq(Chips) /\ Len(ids) = len + Len(logged)
      /\ \A i \in 1..len + Len(logged) : ids[i] = IF i =< len THEN agents_[i] ELSE logged[i - len]
  BY ConcatProperties DEF Ordered
<1> HIDE DEF ids, len
<1>2. \A i \in 1..len : ids[i] = agents_[i] BY <1>0, <1>1
<1>3. ASSUME NEW i \in 1..Len(logged) PROVE ids[len + i] = logged[i]
  <2>1. len + i \in 1..len + Len(logged) /\ ~(len + i =< len) /\ (len + i) - len = i BY <1>0
  <2> QED BY <1>1, <2>1
<1> QED BY <1>0, <1>1, <1>2, <1>3 DEF ids, len

LEMMA ColorsAre ==
    ASSUME NEW agents_ \in Seq(Chips), NEW logged \in Seq(Chips), NEW hash
    PROVE  \E w : /\ Coloring(w, Ordered(agents_, logged), hash, Len(Ordered(agents_, logged)))
                  /\ assignSessColors(agents_, logged, hash) = w[Len(Ordered(agents_, logged))]
<1> DEFINE ids == Ordered(agents_, logged)
           l == Len(ids)
           w == CHOOSE f : Coloring(f, ids, hash, l)
<1>1. l \in Nat BY OrderedIs
<1>2. Coloring(w, ids, hash, l) BY <1>1, ColoringExists
<1>3. assignSessColors(agents_, logged, hash) = w[l] BY DEF assignSessColors, Coloring
<1> HIDE DEF w
<1> QED BY <1>2, <1>3

LEMMA ColorsApart ==
    ASSUME NEW agents_ \in Seq(Chips), NEW logged \in Seq(Chips), NEW hash \in [Chips -> Slots]
    PROVE  Apart(agents_, logged, hash)
<1> DEFINE len == Len(agents_)
           ids == Ordered(agents_, logged)
           l == Len(ids)
           color == assignSessColors(agents_, logged, hash)
<1>1. /\ ids \in Seq(Chips) /\ len \in Nat /\ l = len + Len(logged) /\ Len(logged) \in Nat
      /\ \A i \in 1..len : ids[i] = agents_[i]
      /\ \A i \in 1..Len(logged) : ids[len + i] = logged[i]
  BY OrderedIs
<1>2. PICK w : Coloring(w, ids, hash, l) /\ color = w[l] BY ColorsAre
<1>3. Colored(color, ids, l)
  <2>1. l \in 0..l BY <1>1
  <2>2. Colored(w[l], ids, l) BY <1>1, <1>2, <2>1, ColoringIs
  <2> QED BY <1>2, <2>2
<1> HIDE DEF ids, color, l, len
<1>4. DOMAIN color = Range(agents_) \cup Range(logged)
  <2>1. DOMAIN agents_ = 1..len /\ DOMAIN logged = 1..Len(logged) BY LenProperties DEF len
  <2>2. ASSUME NEW i \in 1..l PROVE ids[i] \in Range(agents_) \cup Range(logged)
    <3>1. CASE i =< len
      <4>1. i \in 1..len BY <1>1, <3>1
      <4> QED BY <1>1, <2>1, <4>1 DEF Range
    <3>2. CASE ~(i =< len)
      <4>1. i - len \in 1..Len(logged) /\ len + (i - len) = i BY <1>1, <3>2
      <4> QED BY <1>1, <2>1, <4>1 DEF Range
    <3> QED BY <3>1, <3>2
  <2>3. ASSUME NEW i \in 1..len PROVE \E j \in 1..l : ids[j] = agents_[i]
    <3>1. i \in 1..l BY <1>1
    <3> QED BY <1>1, <3>1
  <2>4. ASSUME NEW i \in 1..Len(logged) PROVE \E j \in 1..l : ids[j] = logged[i]
    <3>1. len + i \in 1..l BY <1>1
    <3> QED BY <1>1, <3>1
  <2>5. DOMAIN color = {ids[i] : i \in 1..l} BY <1>3 DEF Colored
  <2> QED BY <2>1, <2>2, <2>3, <2>4, <2>5 DEF Range
<1>5. IF Cardinality(DOMAIN color) =< Colors THEN IsInjective(color) ELSE Range(color) = Slots
  <2>1. Cardinality(DOMAIN color) \in Nat BY <1>3, FS_CardinalityType DEF Colored
  <2> QED BY <1>3, <2>1, FeedParameters DEF Colored
<1> QED BY <1>4, <1>5 DEF Apart, color, Slots

LEMMA ColorsStay ==
    ASSUME NEW agents_ \in Seq(Chips), NEW logged \in Seq(Chips), NEW hash \in [Chips -> Slots]
    PROVE  Incumbent(agents_, logged, hash)
<1> SUFFICES ASSUME agents_ # <<>>, NEW s \in Range(Front(agents_))
             PROVE  assignSessColors(agents_, logged, hash)[s] = assignSessColors(Front(agents_), <<>>, hash)[s]
  BY DEF Incumbent
<1> DEFINE old == Front(agents_)
           len == Len(agents_) - 1
           ids == Ordered(old, <<>>)
           more == Ordered(agents_, logged)
<1>1. /\ Len(agents_) \in Nat /\ len \in Nat /\ old \in Seq(Chips) /\ Len(old) = len /\ DOMAIN old = 1..len
      /\ \A i \in 1..len : old[i] = agents_[i]
  <2>1. Len(agents_) \in Nat /\ Len(agents_) # 0 BY LenProperties, EmptySeq
  <2>2. len \in Nat BY <2>1
  <2>3. old = SubSeq(agents_, 1, len) BY DEF Front
  <2>4. len =< Len(agents_) /\ 1 =< len + 1 BY <2>1
  <2> HIDE DEF old, len
  <2>5. /\ SubSeq(agents_, 1, len) \in Seq(Chips)
        /\ Len(SubSeq(agents_, 1, len)) = len
        /\ \A i \in 1..len : SubSeq(agents_, 1, len)[i] = agents_[i]
    BY <2>1, <2>2, <2>4
  <2> QED BY <2>1, <2>2, <2>3, <2>5, LenProperties
<1>2. <<>> \in Seq(Chips) /\ Len(<<>>) = 0 OBVIOUS
<1> HIDE DEF old, len
<1>3. /\ ids \in Seq(Chips) /\ Len(ids) = len /\ \A i \in 1..len : ids[i] = old[i]
      /\ \E w : Coloring(w, ids, hash, Len(ids)) /\ assignSessColors(old, <<>>, hash) = w[Len(ids)]
  <2>1. /\ ids \in Seq(Chips) /\ Len(ids) = Len(old) + Len(<<>>)
        /\ \A i \in 1..Len(old) : ids[i] = old[i]
    BY <1>1, <1>2, OrderedIs
  <2>2. \E w : Coloring(w, ids, hash, Len(ids)) /\ assignSessColors(old, <<>>, hash) = w[Len(ids)] BY <1>1, <1>2, ColorsAre, Zenon
  <2> HIDE DEF ids
  <2> QED BY <1>1, <1>2, <2>1, <2>2
<1>4. /\ more \in Seq(Chips) /\ Len(more) \in Nat /\ len =< Len(more) /\ \A i \in 1..len : more[i] = agents_[i]
      /\ \E w : Coloring(w, more, hash, Len(more)) /\ assignSessColors(agents_, logged, hash) = w[Len(more)]
  <2>1. /\ more \in Seq(Chips) /\ Len(more) = Len(agents_) + Len(logged) /\ Len(logged) \in Nat
        /\ \A i \in 1..Len(agents_) : more[i] = agents_[i]
    BY OrderedIs
  <2>3. \E w : Coloring(w, more, hash, Len(more)) /\ assignSessColors(agents_, logged, hash) = w[Len(more)]
    BY ColorsAre
  <2>2. len =< Len(agents_) /\ \A i \in 1..len : i \in 1..Len(agents_) BY <1>1 DEF len
  <2> HIDE DEF more
  <2> QED BY <1>1, <2>1, <2>2, <2>3
<1> HIDE DEF ids, more
<1>5. PICK v : Coloring(v, ids, hash, len) /\ assignSessColors(old, <<>>, hash) = v[len] BY <1>3
<1>6. PICK w : Coloring(w, more, hash, Len(more)) /\ assignSessColors(agents_, logged, hash) = w[Len(more)]
  BY <1>4
<1>7. v[len] = w[len]
  <2>1. len \in 0..len /\ \A i \in 1..len : ids[i] = more[i] BY <1>1, <1>3, <1>4
  <2> QED BY <1>1, <1>4, <1>5, <1>6, <2>1, SameColors
<1>8. s \in DOMAIN w[len]
  <2>1. Colored(w[len], more, len)
    <3>1. len \in 0..Len(more) BY <1>1, <1>4
    <3> QED BY <1>4, <1>6, <3>1, ColoringIs
  <2>2. s \in {more[i] : i \in 1..len}
    <3>1. PICK i \in 1..len : s = old[i] BY <1>1 DEF Range, old
    <3> QED BY <1>1, <1>4, <3>1
  <2> QED BY <2>1, <2>2 DEF Colored
<1>9. w[Len(more)][s] = w[len][s]
  <2>1. Len(more) \in 0..Len(more) /\ len \in 0..Len(more) BY <1>1, <1>4
  <2> QED BY <1>4, <1>6, <1>8, <2>1, ColoringIs
<1> QED BY <1>5, <1>6, <1>7, <1>9 DEF old

-----------------------------------------------------------------------------
(* What follows for a page.                                                  *)

LEMMA LogsAreSequences ==
    /\ Logs \subseteq Seq(LogEvents)
    /\ Arrivals \subseteq Seq(Chips) /\ Logged \subseteq Seq(Chips)
    /\ Hashes = [Chips -> Slots]
<1>1. ASSUME NEW S, NEW b \in Nat PROVE BoundedSeq(S, b) \subseteq Seq(S)
  <2>1. \A c \in 0..b : \A s \in [1..c -> S] : s \in Seq(S) OBVIOUS
  <2> QED BY <2>1 DEF BoundedSeq, SeqOf
<1>2. LogLength \in Nat /\ Cardinality(Chips) \in Nat BY FeedParameters, FS_CardinalityType
<1> QED BY <1>1, <1>2 DEF Logs, Arrivals, Logged, Hashes, Slots

(* A page has each call and each other event of the newest once, each call at *)
(* its start and running until its result is in, for any log and limit.      *)
THEOREM FaithfulFeed ==
    /\ \A log \in Seq(LogEvents) : Faithful(log)
    /\ FeedIsFaithful
BY LogsAreSequences, FeedFaithful DEF FeedIsFaithful

(* What happens next moves no row whose event is still on the page, for any   *)
(* log and limit, unless it starts the row's call again.                     *)
THEOREM SteadyFeed ==
    /\ \A log \in Seq(LogEvents), e \in LogEvents : StayPut(log, e)
    /\ FeedStaysPut
BY LogsAreSequences, FeedStays DEF FeedStaysPut

(* The colours tell sessions apart while there are enough, and no newcomer   *)
(* recolours an agent, for any palette, sessions and hashes.                 *)
THEOREM DistinctColors ==
    ColorsTellApart
BY LogsAreSequences, ColorsApart, ColorsStay DEF ColorsTellApart
=============================================================================
