---------------------------- MODULE LedgerProofs ----------------------------
(***************************************************************************)
(* Proofs about Ledger, for any number of sessions, PRs and renders and any *)
(* TTL and limit: what is shown merged is, the limit holds, and a row stays *)
(* for as long as it should although renders record out of order.           *)
(***************************************************************************)
EXTENDS Ledger, FiniteSetTheorems, TLAPS

Pairs == Sessions \X PRs
RenderRecords ==
    [at : {"idle", "record", "clone", "keep"}, now : Nat, queued : SUBSET Pairs,
     gone : SUBSET Sessions, todo : SUBSET Pairs]

Typed ==
    /\ clock \in 0..MaxClock
    /\ board \in [Sessions -> BOOLEAN] /\ current \in [Sessions -> PRs] /\ done \subseteq PRs
    /\ m \in [Sessions -> Entries \cup {None}]
    /\ render \in [Renders -> RenderRecords]
    /\ last \in [Sessions -> 0..clock]
    /\ \A r \in Renders : render[r].now =< clock

Limited == Cardinality(Known(m)) =< Max

\* A render records within MaxRender of the instant it took the roster.
Prompt == \A r \in Renders : At(r, "record") => clock - render[r].now =< MaxRender

\* An entry's time is that of a render that saw its session queued, and not long
\* before the latest one that did, whichever of them recorded last.
Timely ==
    \A s \in Sessions : m[s] # None =>
        m[s].seen =< last[s] /\ last[s] - MaxRender =< m[s].seen

LedgerInv == Typed /\ Limited /\ Prompt /\ Timely /\ FinalIsTrue

LEMMA Constants == /\ TTL \in Nat /\ Max \in Nat /\ MaxRender \in Nat /\ MaxClock \in Nat
                   /\ MaxRender < TTL /\ IsFiniteSet(Sessions)
BY LedgerParameters

LEMMA NoneIsNoEntry == None \notin Entries
BY LedgerParameters

LEMMA InvTyped == LedgerInv => TypeOK
<1> SUFFICES ASSUME LedgerInv PROVE TypeOK
    OBVIOUS
<1>1. \A r \in Renders :
        /\ render[r].at \in {"idle", "record", "clone", "keep"}
        /\ render[r].now \in 0..clock
        /\ render[r].gone \subseteq Sessions
        /\ render[r].queued \cup render[r].todo \subseteq Pairs
    <2> TAKE r \in Renders
    <2>1. render[r] \in RenderRecords /\ render[r].now =< clock
        BY DEF LedgerInv, Typed
    <2>2. render[r].now \in Nat /\ clock \in Nat
        BY <2>1, Constants DEF RenderRecords, LedgerInv, Typed
    <2> QED BY <2>1, <2>2 DEF RenderRecords
<1> QED BY <1>1 DEF TypeOK, LedgerInv, Typed, Limited, Pairs

LEMMA KnownFinite == \A led : IsFiniteSet(Known(led)) /\ Cardinality(Known(led)) \in Nat
<1> TAKE led
<1>1. Known(led) \subseteq Sessions
    BY DEF Known
<1> QED BY <1>1, Constants, FS_Subset, FS_CardinalityType

\* Entries may go, but none may come, and those that stay keep their times.
LEMMA FewerKnown ==
    ASSUME LedgerInv, NEW led, Known(led) \subseteq Known(m)
    PROVE  Cardinality(Known(led)) =< Max
<1>1. Cardinality(Known(led)) =< Cardinality(Known(m))
    BY KnownFinite, FS_Subset
<1> QED BY <1>1, KnownFinite, Constants DEF LedgerInv, Limited

LEMMA InitInv == Init => LedgerInv
<1> SUFFICES ASSUME Init PROVE LedgerInv
    OBVIOUS
<1>1. NoRender \in RenderRecords /\ NoRender.now = 0 /\ NoRender.at = "idle"
    BY DEF NoRender, RenderRecords
<1>2. Typed
    BY <1>1, Constants DEF Init, Typed
<1>3. Known(m) = {}
    BY DEF Known, Init
<1>4. Limited
    BY <1>3, FS_EmptySet, Constants DEF Limited
<1>5. Prompt /\ Timely /\ FinalIsTrue
    BY <1>1 DEF Init, Prompt, Timely, FinalIsTrue, At
<1> QED BY <1>2, <1>4, <1>5 DEF LedgerInv

-----------------------------------------------------------------------------
(* record. *)

\* What record makes of the entries before it drops any.
LEMMA RecordedEntries ==
    ASSUME LedgerInv, NEW r \in Renders, At(r, "record"),
           last' = [s \in Sessions |->
               IF s \in Queued(r) /\ last[s] < render[r].now THEN render[r].now ELSE last[s]]
    PROVE  /\ \A s \in Sessions : last'[s] \in 0..clock /\ last[s] =< last'[s]
           /\ \A s \in Sessions :
                /\ Recorded(r)[s] \in Entries \cup {None}
                /\ Recorded(r)[s] # None =>
                     /\ Recorded(r)[s].seen =< last'[s]
                     /\ last'[s] - MaxRender =< Recorded(r)[s].seen
                     /\ Recorded(r)[s].final => Recorded(r)[s].pr \in done
                /\ s \in Queued(r) => /\ Recorded(r)[s] \in Entries
                                      /\ Recorded(r)[s].seen = render[r].now
                /\ s \notin Queued(r) => Recorded(r)[s] = m[s]
<1> DEFINE now == render[r].now
<1>0. /\ now \in 0..clock /\ clock \in 0..MaxClock /\ clock - now =< MaxRender
      /\ render[r] \in RenderRecords
    BY Constants DEF LedgerInv, Typed, Prompt, RenderRecords
<1>1. \A s \in Sessions : last'[s] \in 0..clock /\ last[s] =< last'[s]
    BY <1>0, Constants DEF LedgerInv, Typed
<1>2. ASSUME NEW s \in Sessions, s \in Queued(r)
      PROVE  /\ Recorded(r)[s] \in Entries /\ Recorded(r)[s].seen = now
             /\ Recorded(r)[s].final = FALSE
    <2>1. PICK q \in render[r].queued : q[1] = s
        BY <1>2 DEF Queued
    <2>2. q \in Pairs
        BY <2>1, <1>0 DEF RenderRecords
    <2>3. q[2] \in PRs /\ <<s, q[2]>> \in render[r].queued
        BY <2>1, <2>2 DEF Pairs
    <2> DEFINE p == CHOOSE p \in PRs : <<s, p>> \in render[r].queued
    <2>4. p \in PRs
        BY <2>3
    <2>5. Recorded(r)[s] = [pr |-> p, seen |-> now, final |-> FALSE]
        BY <1>2 DEF Recorded
    <2>6. now \in 0..MaxClock
        BY <1>0, Constants
    <2> HIDE DEF p
    <2> QED BY <2>4, <2>5, <2>6 DEF Entries
<1>3. ASSUME NEW s \in Sessions, s \notin Queued(r)
      PROVE  Recorded(r)[s] = m[s] /\ last'[s] = last[s]
    BY <1>3 DEF Recorded
<1>4. ASSUME NEW s \in Sessions, s \in Queued(r)
      PROVE  now =< last'[s] /\ last'[s] - MaxRender =< now
    <2>1. last[s] \in 0..clock
        BY DEF LedgerInv, Typed
    <2>2. now =< last'[s]
        BY <1>4, <1>0, <2>1
    <2> QED BY <1>0, <1>1, <2>2, Constants
<1>5. \A s \in Sessions : m[s] \in Entries \cup {None}
    BY DEF LedgerInv, Typed
<1> QED BY <1>1, <1>2, <1>3, <1>4, <1>5 DEF LedgerInv, Timely, FinalIsTrue

\* What record keeps: an entry it made, or nothing.
LEMMA RecordKeeps ==
    ASSUME LedgerInv, NEW r \in Renders, record(r)
    PROVE  \E S \in Capped(Unexpired(Recorded(r), render[r].now)) :
             /\ m' \in [Sessions -> Entries \cup {None}]
             /\ Known(m') = S
             /\ S \subseteq Known(Unexpired(Recorded(r), render[r].now))
             /\ \A s \in S : m'[s] = Recorded(r)[s]
<1> DEFINE led == Unexpired(Recorded(r), render[r].now)
<1>1. PICK S \in Capped(led) : m' = [s \in Sessions |-> IF s \in S THEN led[s] ELSE None]
    BY DEF record
<1>2. \A s \in Sessions : Recorded(r)[s] \in Entries \cup {None}
    BY RecordedEntries DEF record
<1>3. \A s \in Sessions : led[s] = None \/ led[s] = Recorded(r)[s]
    BY DEF Unexpired
<1>4. S \subseteq Known(led) /\ Known(led) \subseteq Sessions
    BY <1>1 DEF Capped, Known
<1>5. \A s \in S : led[s] # None /\ s \in Sessions
    BY <1>4 DEF Known
<1> HIDE DEF led
<1>6. Known(m') = S
    BY <1>1, <1>5 DEF Known
<1>7. \A s \in Sessions : m'[s] \in Entries \cup {None}
    BY <1>1, <1>2, <1>3
<1> QED BY <1>1, <1>3, <1>4, <1>5, <1>6, <1>7 DEF led

LEMMA RecordInv ==
    ASSUME LedgerInv, NEW r \in Renders, record(r)
    PROVE  LedgerInv'
<1> DEFINE led == Unexpired(Recorded(r), render[r].now)
<1>1. PICK S \in Capped(led) :
        /\ m' \in [Sessions -> Entries \cup {None}]
        /\ Known(m') = S
        /\ S \subseteq Known(led)
        /\ \A s \in S : m'[s] = Recorded(r)[s]
    BY RecordKeeps
<1>2. /\ last' = [s \in Sessions |->
            IF s \in Queued(r) /\ last[s] < render[r].now THEN render[r].now ELSE last[s]]
      /\ render' = [render EXCEPT ![r].at = "clone", ![r].now = 0, ![r].queued = {}]
      /\ At(r, "record") /\ UNCHANGED <<clock, board, current, done>>
    BY DEF record, world
<1>3. \A s \in Sessions : last'[s] \in 0..clock
    BY <1>2, RecordedEntries
<1>4. render' \in [Renders -> RenderRecords] /\ \A a \in Renders : render'[a].now =< clock
    <2> DEFINE x == [[[render[r] EXCEPT !.at = "clone"] EXCEPT !.now = 0] EXCEPT !.queued = {}]
    <2>1. render[r] \in RenderRecords /\ render \in [Renders -> RenderRecords]
        BY DEF LedgerInv, Typed
    <2>2. x \in RenderRecords /\ x.now = 0
        BY <2>1 DEF RenderRecords
    <2>3. render' = [render EXCEPT ![r] = x]
        BY <1>2, <2>1
    <2>4. 0 =< clock
        BY Constants DEF LedgerInv, Typed
    <2> HIDE DEF x
    <2>5. render' \in [Renders -> RenderRecords]
        BY <2>1, <2>2, <2>3
    <2>6. \A a \in Renders : render'[a].now =< clock
        BY <2>1, <2>2, <2>3, <2>4 DEF LedgerInv, Typed
    <2> QED BY <2>5, <2>6
<1>5. Typed'
    <2>1. last' \in [Sessions -> 0..clock]
        BY <1>2, <1>3
    <2> QED BY <1>1, <1>2, <1>4, <2>1 DEF LedgerInv, Typed
<1>6. Limited'
    <2>1. Cardinality(S) = Max \/ (S = Known(led) /\ ~(Cardinality(Known(led)) > Max))
        BY DEF Capped
    <2> HIDE DEF led
    <2> QED BY <1>1, <2>1, KnownFinite, Constants DEF Limited
<1>7. Prompt'
    BY <1>2, <1>4 DEF LedgerInv, Typed, Prompt, At, RenderRecords
<1>8. Timely' /\ FinalIsTrue'
    <2>1. \A s \in Sessions : m'[s] # None => m'[s] = Recorded(r)[s]
        BY <1>1 DEF Known
    <2> QED BY <2>1, <1>2, RecordedEntries DEF Timely, FinalIsTrue
<1> QED BY <1>5, <1>6, <1>7, <1>8 DEF LedgerInv
-----------------------------------------------------------------------------
(* The other steps. *)

\* A step of a render that records nothing: its record is replaced by one whose
\* instant, if it is to record, is the clock's.
LEMMA RenderStepInv ==
    ASSUME LedgerInv, NEW r \in Renders, NEW x \in RenderRecords,
           x.now =< clock, x.at = "record" => x.now = clock,
           render' = [render EXCEPT ![r] = x],
           UNCHANGED <<clock, board, current, done, last, m>>
    PROVE  LedgerInv'
<1>1. Typed'
    BY DEF LedgerInv, Typed
<1>2. clock \in Nat
    BY Constants DEF LedgerInv, Typed
<1>3. Prompt'
    BY <1>2, Constants DEF LedgerInv, Typed, Prompt, At
<1> QED BY <1>1, <1>3 DEF LedgerInv, Limited, Timely, FinalIsTrue, Known

LEMMA NoRenderTyped == /\ NoRender \in RenderRecords
                       /\ NoRender.at = "idle" /\ NoRender.now = 0
BY DEF NoRender, RenderRecords

LEMMA BeginInv ==
    ASSUME LedgerInv, NEW r \in Renders, Begin(r)
    PROVE  LedgerInv'
<1>1. PICK Q \in SUBSET (Sessions \ Gone) :
        render' = [render EXCEPT ![r] =
            [at |-> "record", now |-> clock, queued |-> {<<s, current[s]>> : s \in Q},
             gone |-> Gone, todo |-> {}]]
    BY DEF Begin
<1> DEFINE q == {<<s, current[s]>> : s \in Q}
           x == [at |-> "record", now |-> clock, queued |-> q, gone |-> Gone, todo |-> {}]
<1>2. render' = [render EXCEPT ![r] = x]
    BY <1>1
<1>3. q \subseteq Pairs /\ Gone \subseteq Sessions
    BY DEF LedgerInv, Typed, Pairs, Gone
<1>4. clock \in Nat
    BY Constants DEF LedgerInv, Typed
<1> HIDE DEF q
<1>5. x \in RenderRecords /\ x.now = clock /\ x.now =< clock
    BY <1>3, <1>4 DEF RenderRecords
<1> HIDE DEF x
<1> QED BY <1>2, <1>5, RenderStepInv DEF Begin, world

LEMMA CloneInv ==
    ASSUME LedgerInv, NEW r \in Renders, Clone(r)
    PROVE  LedgerInv'
<1> DEFINE todo == {<<s, m[s].pr>> : s \in {a \in render[r].gone : m[a] # None /\ ~m[a].final}}
           x == [at |-> "keep", now |-> 0, queued |-> {}, gone |-> {}, todo |-> todo]
<1>1. render' = [render EXCEPT ![r] = x]
    BY DEF Clone
<1>2. todo \subseteq Pairs
    <2>1. render[r].gone \subseteq Sessions
        BY DEF LedgerInv, Typed, RenderRecords
    <2>2. \A s \in Sessions : m[s] # None => m[s].pr \in PRs
        BY DEF LedgerInv, Typed, Entries
    <2> QED BY <2>1, <2>2 DEF Pairs
<1>3. clock \in Nat
    BY Constants DEF LedgerInv, Typed
<1> HIDE DEF todo
<1>4. x \in RenderRecords /\ x.now =< clock /\ x.at # "record"
    BY <1>2, <1>3 DEF RenderRecords
<1> HIDE DEF x
<1> QED BY <1>1, <1>4, RenderStepInv DEF Clone, world

LEMMA FinishInv ==
    ASSUME LedgerInv, NEW r \in Renders, Finish(r)
    PROVE  LedgerInv'
<1>1. clock \in Nat
    BY Constants DEF LedgerInv, Typed
<1>2. NoRender \in RenderRecords /\ NoRender.now =< clock /\ NoRender.at # "record"
    BY <1>1, NoRenderTyped
<1> QED BY <1>2, RenderStepInv DEF Finish, world

\* An entry is only marked final for its own PR.
LEMMA KeepInv ==
    ASSUME LedgerInv, NEW r \in Renders, NEW s \in Sessions, NEW p \in PRs, keepFinal(r, s, p)
    PROVE  LedgerInv'
<1> DEFINE x == [render[r] EXCEPT !.todo = @ \ {<<s, p>>}]
<1>1. render[r] \in RenderRecords /\ render \in [Renders -> RenderRecords] /\ At(r, "keep")
    BY DEF LedgerInv, Typed, keepFinal
<1>2. x \in RenderRecords /\ x.now = render[r].now /\ x.at = "keep"
    BY <1>1 DEF RenderRecords, At
<1>3. render' = [render EXCEPT ![r] = x]
    BY <1>1 DEF keepFinal
<1>4. UNCHANGED <<clock, board, current, done, last>> /\ p \in done
    BY DEF keepFinal, world
<1>5. \A t \in Sessions : m[t] \in Entries \cup {None}
    BY DEF LedgerInv, Typed
<1>6. \A t \in Sessions :
        \/ m'[t] = m[t]
        \/ /\ m[t] # None /\ m[t].pr = p
           /\ m'[t] = [m[t] EXCEPT !.final = TRUE]
    BY DEF keepFinal, LedgerInv, Typed
<1>7. \A t \in Sessions :
        /\ m'[t] \in Entries \cup {None}
        /\ m'[t] # None => /\ m[t] # None /\ m'[t].seen = m[t].seen
                           /\ m'[t].final => m'[t].pr \in done
    BY ZenonT(30), <1>4, <1>5, <1>6 DEF Entries, LedgerInv, FinalIsTrue
<1>8. DOMAIN m' = Sessions /\ m' = [t \in Sessions |-> m'[t]]
    BY DEF keepFinal, LedgerInv, Typed
<1>9. m' \in [Sessions -> Entries \cup {None}]
    BY <1>7, <1>8
<1> HIDE DEF x
<1>10. Typed'
    BY <1>1, <1>2, <1>3, <1>4, <1>9 DEF LedgerInv, Typed
<1>11. Prompt'
    BY <1>1, <1>2, <1>3, <1>4 DEF LedgerInv, Prompt, At
<1>12. Known(m') \subseteq Known(m)
    BY <1>7 DEF Known
<1>13. Limited'
    BY <1>12, FewerKnown DEF Limited
<1>14. Timely' /\ FinalIsTrue'
    BY <1>4, <1>7 DEF LedgerInv, Timely, FinalIsTrue
<1> QED BY <1>10, <1>11, <1>13, <1>14 DEF LedgerInv

LEMMA DismissInv ==
    ASSUME LedgerInv, NEW s \in Sessions, dismiss(s)
    PROVE  LedgerInv'
<1>1. UNCHANGED <<clock, board, current, done, render, last>> /\ m' = [m EXCEPT ![s] = None]
    BY DEF dismiss, world
<1>2. \A t \in Sessions : m'[t] = None \/ m'[t] = m[t]
    BY <1>1 DEF LedgerInv, Typed
<1>3. Typed'
    BY <1>1 DEF LedgerInv, Typed
<1>4. Known(m') \subseteq Known(m)
    BY <1>2 DEF Known
<1>5. Limited'
    BY <1>4, FewerKnown DEF Limited
<1>6. Prompt' /\ Timely' /\ FinalIsTrue'
    BY <1>1, <1>2 DEF LedgerInv, Prompt, Timely, FinalIsTrue, At
<1> QED BY <1>3, <1>5, <1>6 DEF LedgerInv

\* The world moves: of what the ledger reads, only done grows.
LEMMA WorldInv ==
    ASSUME LedgerInv, UNCHANGED <<clock, m, render, last>>,
           board' \in [Sessions -> BOOLEAN], current' \in [Sessions -> PRs],
           done' \subseteq PRs, done \subseteq done'
    PROVE  LedgerInv'
<1>1. Typed'
    BY DEF LedgerInv, Typed
<1> QED BY <1>1 DEF LedgerInv, Limited, Prompt, Timely, FinalIsTrue, At, Known

LEMMA TickInv ==
    ASSUME LedgerInv, Tick
    PROVE  LedgerInv'
<1>1. /\ clock \in Nat /\ clock < MaxClock /\ clock' = clock + 1
      /\ UNCHANGED <<board, current, done, m, render, last>>
      /\ \A r \in Renders : At(r, "record") => clock - render[r].now < MaxRender
    BY Constants DEF LedgerInv, Typed, Tick, world
<1>2. \A r \in Renders : render[r].now \in Nat /\ render[r].now =< clock
    BY DEF LedgerInv, Typed, RenderRecords
<1>3. Typed'
    <2>1. clock' \in 0..MaxClock /\ 0..clock \subseteq 0..clock'
        BY <1>1, Constants
    <2>2. last \in [Sessions -> 0..clock']
        BY <2>1 DEF LedgerInv, Typed
    <2>3. \A r \in Renders : render[r].now =< clock'
        BY <1>1, <1>2
    <2> QED BY <1>1, <2>1, <2>2, <2>3 DEF LedgerInv, Typed
<1>4. Prompt'
    BY <1>1, <1>2, Constants DEF Prompt, At
<1> QED BY <1>1, <1>3, <1>4 DEF LedgerInv, Limited, Timely, FinalIsTrue, Known

LEMMA NextInv == LedgerInv /\ [Next]_vars => LedgerInv'
<1> SUFFICES ASSUME LedgerInv, [Next]_vars PROVE LedgerInv'
    OBVIOUS
<1>1. CASE \E r \in Renders : Render(r)
    <2>1. PICK r \in Renders : Render(r)
        BY <1>1
    <2> QED BY <2>1, BeginInv, RecordInv, CloneInv, FinishInv, KeepInv DEF Render
<1>2. CASE \E s \in Sessions : dismiss(s)
    BY <1>2, DismissInv
<1>3. ASSUME NEW s \in Sessions, ComeOrGo(s) PROVE LedgerInv'
    <2>1. board' \in [Sessions -> BOOLEAN]
        BY <1>3 DEF ComeOrGo, LedgerInv, Typed
    <2> QED BY <1>3, <2>1, WorldInv DEF ComeOrGo, LedgerInv, Typed
<1>4. ASSUME NEW s \in Sessions, NEW p \in PRs, NewPR(s, p) PROVE LedgerInv'
    <2>1. current' \in [Sessions -> PRs]
        BY <1>4 DEF NewPR, LedgerInv, Typed
    <2> QED BY <1>4, <2>1, WorldInv DEF NewPR, LedgerInv, Typed
<1>5. ASSUME NEW p \in PRs, Land(p) PROVE LedgerInv'
    BY <1>5, WorldInv DEF Land, LedgerInv, Typed
<1>6. CASE Tick
    BY <1>6, TickInv
<1>7. CASE UNCHANGED vars
    BY <1>7, WorldInv DEF vars, LedgerInv, Typed
<1> QED BY <1>1, <1>2, <1>3, <1>4, <1>5, <1>6, <1>7 DEF Next

LEMMA InvAlways == Spec => []LedgerInv
BY InitInv, NextInv, PTL DEF Spec

\* Every variable holds a value of its kind, and the ledger has at most Max
\* entries, whatever the renders interleave (ledger.go:79-97).
THEOREM LedgerTyping == Spec => []TypeOK
BY InvAlways, InvTyped, PTL

\* A row is shown merged or closed only if its own PR is, although the PR was
\* looked up with the lock released (ledger.go:185-195).
THEOREM FinalsAreTrue == Spec => []FinalIsTrue
<1>1. LedgerInv => FinalIsTrue
    BY DEF LedgerInv
<1> QED BY <1>1, InvAlways, PTL

-----------------------------------------------------------------------------
(* What may leave the ledger. *)

Kept(s) ==
    \/ clock - last'[s] >= TTL - MaxRender
    \/ Cardinality({t \in Sessions \ {s} : m'[t] # None
                      /\ last'[t] >= last'[s] - MaxRender}) >= Max

\* record drops what expired, and past Max the least recently seen: the times
\* it compares are at most MaxRender older than the latest ones.
LEMMA RecordDrops ==
    ASSUME LedgerInv, NEW r \in Renders, record(r), NEW s \in Sessions,
           m[s] # None, m'[s] = None
    PROVE  Kept(s)
<1> DEFINE rec == Recorded(r)
           now == render[r].now
           led == Unexpired(rec, now)
<1>0. last' = [a \in Sessions |->
          IF a \in Queued(r) /\ last[a] < render[r].now THEN render[r].now ELSE last[a]]
    BY DEF record
<1>1. /\ \A a \in Sessions : last'[a] \in 0..clock
      /\ \A a \in Sessions :
            /\ rec[a] \in Entries \cup {None}
            /\ rec[a] # None => rec[a].seen =< last'[a] /\ last'[a] - MaxRender =< rec[a].seen
            /\ a \in Queued(r) => rec[a] \in Entries
            /\ a \notin Queued(r) => rec[a] = m[a]
    BY <1>0, RecordedEntries DEF record
<1>2. now \in Nat /\ clock \in Nat /\ now =< clock
    BY Constants DEF LedgerInv, Typed, RenderRecords
<1>3. rec[s] # None
    BY <1>1, NoneIsNoEntry
<1>4. PICK S \in Capped(led) : m' = [a \in Sessions |-> IF a \in S THEN led[a] ELSE None]
    BY DEF record
<1>5. \A a \in Sessions : led[a] = IF rec[a] # None /\ now - rec[a].seen >= TTL THEN None ELSE rec[a]
    BY DEF Unexpired
<1>6. CASE led[s] = None
    <2>1. now - rec[s].seen >= TTL
        BY <1>3, <1>5, <1>6
    <2>2. rec[s].seen \in Nat
        BY <1>1, <1>3, Constants DEF Entries
    <2>3. clock - last'[s] >= TTL - MaxRender
        BY <1>1, <1>2, <1>3, <2>1, <2>2, Constants
    <2> QED BY <2>3 DEF Kept
<1>7. CASE led[s] # None
    <2> HIDE DEF led
    <2> DEFINE U == {t \in Sessions \ {s} : m'[t] # None /\ last'[t] >= last'[s] - MaxRender}
    <2>1. S \subseteq Known(led) /\ Known(led) \subseteq Sessions /\ s \in Known(led)
        BY <1>4, <1>7 DEF Capped, Known
    <2>2. s \notin S
        BY <1>4, <1>7
    <2>3. Cardinality(S) = Max
        BY <1>4, <2>1, <2>2 DEF Capped
    <2>4. ASSUME NEW t \in S PROVE t \in U
        <3>1. t \in Sessions /\ t # s /\ led[t] # None
            BY <2>1, <2>2 DEF Known
        <3>2. m'[t] # None
            BY <1>4, <3>1
        <3>3. led[s].seen =< led[t].seen
            BY <1>4, <2>1, <2>2, <2>4 DEF Capped
        <3>4. led[t] = rec[t] /\ led[s] = rec[s] /\ rec[t] # None
            BY <1>5, <1>7, <3>1
        <3>5. rec[t].seen \in Nat /\ rec[s].seen \in Nat
            BY <1>1, <1>3, <3>1, <3>4, Constants DEF Entries
        <3>6. last'[t] >= last'[s] - MaxRender
            BY <1>1, <1>3, <3>1, <3>3, <3>4, <3>5, Constants
        <3> QED BY <3>1, <3>2, <3>6
    <2>5. S \subseteq U /\ U \subseteq Sessions
        BY <2>4
    <2>6. IsFiniteSet(U) /\ Cardinality(U) >= Max
        BY <2>3, <2>5, Constants, FS_Subset, FS_CardinalityType
    <2> QED BY <2>6 DEF Kept
<1> QED BY <1>6, <1>7

\* A row stays for the TTL however the renders that recorded it were ordered,
\* unless it is dismissed or Max others were seen as recently (ledger.go:60-98).
THEOREM KeptLongEnough == Spec => KeptForTTL
<1>1. ASSUME LedgerInv, [Next]_vars
      PROVE  [\A s \in Sessions : m[s] # None /\ m'[s] = None /\ ~dismiss(s) => Kept(s)]_m
    <2> SUFFICES ASSUME NEW s \in Sessions, m[s] # None, m'[s] = None, ~dismiss(s)
                 PROVE  Kept(s)
        OBVIOUS
    <2>1. CASE \E r \in Renders : record(r)
        BY <1>1, <2>1, RecordDrops
    <2>2. ASSUME NEW r \in Renders, NEW a \in Sessions, NEW p \in PRs, keepFinal(r, a, p)
          PROVE  FALSE
        <3>1. m[s] \in Entries /\ m \in [Sessions -> Entries \cup {None}]
            BY <1>1 DEF LedgerInv, Typed
        <3>2. m'[s] = m[s] \/ m'[s] = [m[s] EXCEPT !.final = TRUE]
            BY <2>2, <3>1 DEF keepFinal
        <3>3. [m[s] EXCEPT !.final = TRUE] \in Entries
            BY <3>1 DEF Entries
        <3> QED BY <3>2, <3>3, NoneIsNoEntry
    <2>3. ASSUME NEW a \in Sessions, dismiss(a) PROVE FALSE
        <3>1. a # s
            BY <2>3
        <3> QED BY <1>1, <2>3, <3>1 DEF dismiss, LedgerInv, Typed
    <2>4. CASE UNCHANGED m
        BY <2>4
    <2> QED BY <1>1, <2>1, <2>2, <2>3, <2>4
        DEF Next, Render, Begin, Clone, Finish, ComeOrGo, NewPR, Land, Tick, vars
<1> QED BY <1>1, InvAlways, PTL DEF Spec, KeptForTTL, Kept
=============================================================================
