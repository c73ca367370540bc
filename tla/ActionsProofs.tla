---------------------------- MODULE ActionsProofs ----------------------------
(***************************************************************************)
(* Proofs about Actions, for any number of sessions, panes, requests and    *)
(* spellings of paths: the in-flight set holds the keys of the requests in  *)
(* progress and no more, each held by one; hence two actions never run in   *)
(* one directory, and the set implements the lock table of module Locks; a  *)
(* click never types into a dialog that was on the roster.                  *)
(***************************************************************************)
EXTENDS Actions, TLAPS

Stages == {"idle", "pane", "check", "lock", "end", "worktree", "start", "run",
           "broadcast", "roster", "take", "send", "return"}

RequestRecords ==
    [at : Stages, kind : Kinds \cup {None}, session : Sessions \cup {None}, locks : SUBSET Keys,
     todo : SUBSET Targets, targets : SUBSET Targets, sending : SUBSET Targets,
     fresh : SUBSET Panes]

WorldTyped ==
    /\ pane \in [Sessions -> Panes \cup {None}]
    /\ status \in [Sessions -> {"waiting", "working", "prompt", "gone"}]
    /\ later \subseteq Sessions \X Sessions
    /\ front \in [Panes -> Sessions \cup {None}]
    /\ \A p \in Panes : front[p] # None => pane[front[p]] = p
    /\ dialog \subseteq Panes
    /\ exists \subseteq {Real[p] : p \in Paths}

\* A request that left "idle" has a kind and a session.
Asked(q) == q.at # "idle" => q.kind \in Kinds /\ q.session \in Sessions

RequestsTyped ==
    /\ inflight \subseteq Keys
    /\ req \in [Requests -> RequestRecords]
    /\ \A r \in Requests : Asked(req[r])

TypeInv == WorldTyped /\ RequestsTyped

LEMMA KeyTypes ==
    /\ \A s \in Sessions : sidKey(s) \in Keys
    /\ \A k \in Broadcasts : broadcastKey(k) \in Keys
    /\ \A p \in Paths : cwdKey(p) \in Keys
<1>1. \A p \in Paths : cwdKey(p) \in Keys
    <2> TAKE p \in Paths
    <2>1. CASE Real[p] \in exists
        BY <2>1 DEF cwdKey, Keys
    <2>2. CASE Real[p] \notin exists
        BY <2>2 DEF cwdKey, Keys
    <2> QED BY <2>1, <2>2
<1> QED BY <1>1 DEF Keys

LEMMA InitTyped == Init => TypeInv
<1> SUFFICES ASSUME Init PROVE TypeInv
    OBVIOUS
<1>1. WorldTyped
    BY ActionParameters DEF Init, WorldTyped
<1>2. NoRequest \in RequestRecords /\ Asked(NoRequest)
    BY DEF NoRequest, RequestRecords, Stages, Asked
<1> QED BY <1>1, <1>2 DEF Init, TypeInv, RequestsTyped

LEMMA HeardTyped ==
    ASSUME NEW s \in Sessions, later \subseteq Sessions \X Sessions
    PROVE  LastHeard(s) \subseteq Sessions \X Sessions
BY DEF LastHeard

\* A request's step keeps the types; the sessions' steps follow.
LEMMA ServeTyped ==
    ASSUME TypeInv, NEW r \in Requests, Arrive(r) \/ Serve(r)
    PROVE  TypeInv'
<1> USE DEF TypeInv
<1> DEFINE q == req[r]
<1>q. q \in RequestRecords /\ Asked(q)
    BY DEF RequestsTyped
<1>set. ASSUME NEW x \in RequestRecords, Asked(x), req' = [req EXCEPT ![r] = x],
               inflight' \subseteq Keys
        PROVE  RequestsTyped'
    BY <1>set DEF RequestsTyped
<1>1. CASE Arrive(r)
    <2>1. PICK k \in Kinds, s \in Sessions :
            req' = [req EXCEPT ![r] = [NoRequest EXCEPT !.kind = k, !.session = s,
                !.at = CASE k \in PaneKinds  -> "pane"
                         [] k \in Broadcasts -> "broadcast"
                         [] OTHER            -> "lock"]]
        BY <1>1 DEF Arrive
    <2> DEFINE at == CASE k \in PaneKinds  -> "pane"
                       [] k \in Broadcasts -> "broadcast"
                       [] OTHER            -> "lock"
               x == [NoRequest EXCEPT !.kind = k, !.session = s, !.at = at]
    <2>2. at \in Stages
        BY DEF Stages
    <2>3. x \in RequestRecords /\ x.kind = k /\ x.session = s
        BY <2>2 DEF RequestRecords, NoRequest
    <2> QED BY <1>1, <1>set, <2>1, <2>3 DEF Arrive, world, WorldTyped, RequestsTyped, Asked
<1>2. CASE ReadPane(r)
    <2> DEFINE s == q.session
               tg == {Target(s, pane[s])}
               at == IF q.kind = "reload-plugins" THEN "check" ELSE "lock"
    <2>0. s \in Sessions /\ q.kind \in Kinds /\ at \in Stages
        BY <1>2, <1>q DEF ReadPane, At, Asked, Stages
    <2>1. CASE pane[s] = None
        <3>1. [q EXCEPT !.at = "return"] \in RequestRecords /\ Asked([q EXCEPT !.at = "return"])
            BY <1>q, <2>0 DEF RequestRecords, Stages, Asked
        <3>2. req' = [req EXCEPT ![r] = [q EXCEPT !.at = "return"]]
            BY <1>2, <2>1 DEF ReadPane
        <3> QED BY <3>1, <3>2, <1>set, <1>2 DEF ReadPane, world, WorldTyped, RequestsTyped
    <2>2. CASE pane[s] # None
        <3>1. tg \in SUBSET Targets
            BY <2>0, <2>2 DEF WorldTyped, Target, Targets
        <3> DEFINE x == [q EXCEPT !.targets = tg, !.at = at]
        <3>2. x \in RequestRecords /\ Asked(x)
            BY <1>q, <2>0, <3>1 DEF RequestRecords, Asked
        <3>3. req' = [req EXCEPT ![r] = x]
            BY <1>2, <2>2 DEF ReadPane
        <3> QED BY <3>2, <3>3, <1>set, <1>2 DEF ReadPane, world, WorldTyped, RequestsTyped
    <2> QED BY <2>1, <2>2
<1>3. CASE CheckPrompt(r)
    BY <1>3, <1>q DEF CheckPrompt, Goes, world, WorldTyped, RequestsTyped, RequestRecords, Stages, Asked, At
<1>4. CASE LockSession(r)
    BY SMTT(30), <1>4, <1>q, KeyTypes
    DEF LockSession, Acquires, Goes, world, WorldTyped, RequestsTyped, RequestRecords, Stages, Asked, At
<1>5. CASE End(r)
    BY <1>5, <1>q DEF End, Goes, WorldTyped, RequestsTyped, RequestRecords, Stages, Asked, At
<1>6. CASE LockWorktree(r)
    BY SMTT(30), <1>6, <1>q, KeyTypes, ActionParameters
    DEF LockWorktree, Acquires, Goes, world, WorldTyped, RequestsTyped, RequestRecords, Stages, Asked, At
<1>7. CASE Start(r) \/ Exit(r) \/ Taken(r) \/ Report(r)
    BY <1>7, <1>q DEF Start, Exit, Taken, Report, Goes, world, WorldTyped, RequestsTyped,
                      RequestRecords, Stages, Asked, At
<1>8. CASE LockBroadcast(r)
    <2>1. q.kind \in Kinds
        BY <1>8, <1>q DEF LockBroadcast, At, Asked
    <2> QED BY <2>1, <1>8, <1>q, KeyTypes
            DEF LockBroadcast, Acquires, Goes, world, WorldTyped, RequestsTyped, RequestRecords, Stages,
                Asked, At
<1>9. CASE ReadRoster(r)
    <2>1. PICK includeBusy \in BOOLEAN :
            req' = [req EXCEPT ![r].at = "take", ![r].todo =
                {Target(s, pane[s]) : s \in {a \in OnRoster :
                    pane[a] # None /\ Newest(a) /\ Eligible(a, q.kind, includeBusy)}}]
        BY <1>9 DEF ReadRoster
    <2> DEFINE td == {Target(s, pane[s]) : s \in {a \in OnRoster :
                    pane[a] # None /\ Newest(a) /\ Eligible(a, q.kind, includeBusy)}}
               x == [q EXCEPT !.at = "take", !.todo = td]
    <2>2. td \in SUBSET Targets
        BY DEF WorldTyped, Target, Targets, OnRoster
    <2>3. x \in RequestRecords /\ Asked(x)
        <3>1. q.at # "idle"
            BY <1>9 DEF ReadRoster, At
        <3> HIDE DEF td
        <3> QED BY <1>q, <2>2, <3>1 DEF RequestRecords, Asked, Stages
    <2>4. req' = [req EXCEPT ![r] = x]
        BY <2>1
    <2> QED BY <2>3, <2>4, <1>set, <1>9 DEF ReadRoster, world, WorldTyped, RequestsTyped
<1>10. CASE \E t \in req[r].todo : Take(r, t)
    <2>1. PICK t \in q.todo : Take(r, t)
        BY <1>10
    <2> DEFINE free == sidKey(t.session) \notin inflight
               keys == IF free THEN {sidKey(t.session)} ELSE {}
               tg == IF free THEN q.targets \cup {t} ELSE q.targets
               x == [q EXCEPT !.todo = @ \ {t}, !.locks = @ \cup keys, !.targets = tg]
    <2>2. t \in Targets /\ t.session \in Sessions
        BY <1>q DEF RequestRecords, Targets
    <2>3. keys \in SUBSET Keys /\ tg \in SUBSET Targets
        BY <1>q, <2>2, KeyTypes DEF RequestRecords
    <2>4. x \in RequestRecords /\ Asked(x)
        <3>1. q.at # "idle"
            BY <2>1 DEF Take, At
        <3> HIDE DEF keys, tg
        <3> QED BY <1>q, <2>3, <3>1 DEF RequestRecords, Asked
    <2>5. req' = [req EXCEPT ![r] = x]
        BY <2>1 DEF Take
    <2>6. inflight' \subseteq Keys
        BY <2>1, <2>3 DEF Take, RequestsTyped
    <2> QED BY <2>4, <2>5, <2>6, <1>set, <2>1 DEF Take, world, WorldTyped
<1>11. CASE \E t \in req[r].targets : SendKeys(r, t)
    <2>1. PICK t \in q.targets : SendKeys(r, t)
        BY <1>11
    <2> DEFINE x == [q EXCEPT !.targets = @ \ {t}, !.sending = @ \cup {t}]
    <2>2. x \in RequestRecords /\ Asked(x)
        BY <1>q, <2>1 DEF RequestRecords, Asked, SendKeys, At
    <2>3. req' = [req EXCEPT ![r] = x]
        BY <2>1 DEF SendKeys
    <2> QED BY <2>2, <2>3, <1>set, <2>1 DEF SendKeys, WorldTyped, RequestsTyped
<1>12. CASE \E t \in req[r].sending : Sent(r, t)
    <2>1. PICK t \in q.sending : Sent(r, t)
        BY <1>12
    <2> DEFINE keys == IF q.kind \in Broadcasts THEN {sidKey(t.session)} ELSE {}
               x == [q EXCEPT !.sending = @ \ {t}, !.locks = @ \ keys]
    <2>2. x \in RequestRecords /\ Asked(x)
        <3>1. q.at # "idle"
            BY <2>1 DEF Sent, At
        <3> HIDE DEF keys
        <3> QED BY <1>q, <3>1 DEF RequestRecords, Asked
    <2>3. req' = [req EXCEPT ![r] = x]
        BY <2>1 DEF Sent
    <2>4. inflight' \subseteq Keys
        BY <2>1 DEF Sent, RequestsTyped
    <2> QED BY <2>2, <2>3, <2>4, <1>set, <2>1 DEF Sent, world, WorldTyped
<1>13. CASE Return(r)
    <2>1. NoRequest \in RequestRecords /\ Asked(NoRequest)
        BY DEF NoRequest, RequestRecords, Stages, Asked
    <2> QED BY <1>13, <2>1 DEF Return, world, WorldTyped, RequestsTyped
<1> QED
    BY <1>1, <1>2, <1>3, <1>4, <1>5, <1>6, <1>7, <1>8, <1>9, <1>10, <1>11, <1>12, <1>13 DEF Serve

LEMMA WorldStepTyped ==
    ASSUME TypeInv, NEW s \in Sessions, NEW p \in Panes,
           \/ \E to \in {"waiting", "working"} : Hear(s, to)
           \/ Ask(s, p) \/ Answer(s, p) \/ TakeOver(s, p) \/ Nest(s, p)
    PROVE  TypeInv'
<1> USE DEF TypeInv
<1>1. LastHeard(s) \subseteq Sessions \X Sessions
    BY HeardTyped DEF WorldTyped
<1>2. CASE \E to \in {"waiting", "working"} : Hear(s, to)
    BY <1>1, <1>2 DEF Hear, WorldTyped, RequestsTyped
<1>3. CASE Ask(s, p)
    <2>1. WorldTyped'
        BY <1>1, <1>3 DEF Ask, WorldTyped
    <2>2. \A r \in Requests : req'[r] \in RequestRecords /\ Asked(req'[r])
        <3> TAKE r \in Requests
        <3>1. req[r] \in RequestRecords /\ Asked(req[r])
            BY DEF RequestsTyped
        <3>2. [req[r] EXCEPT !.fresh = @ \cup {p}] \in RequestRecords
              /\ Asked([req[r] EXCEPT !.fresh = @ \cup {p}])
            BY <3>1 DEF RequestRecords, Asked
        <3> QED BY <1>3, <3>1, <3>2 DEF Ask
    <2>3. req' \in [Requests -> RequestRecords]
        BY <1>3, <2>2 DEF Ask
    <2> QED BY <1>3, <2>1, <2>2, <2>3 DEF Ask, RequestsTyped
<1>4. CASE Answer(s, p)
    BY <1>1, <1>4 DEF Answer, WorldTyped, RequestsTyped
<1>5. CASE TakeOver(s, p)
    BY <1>1, <1>5, ActionParameters DEF TakeOver, WorldTyped, RequestsTyped
<1>6. CASE Nest(s, p)
    BY <1>1, <1>6, ActionParameters DEF Nest, WorldTyped, RequestsTyped
<1> QED BY <1>2, <1>3, <1>4, <1>5, <1>6

LEMMA NextTyped == TypeInv /\ [Next]_vars => TypeInv'
<1> SUFFICES ASSUME TypeInv, [Next]_vars PROVE TypeInv'
    OBVIOUS
<1>1. CASE \E r \in Requests : Arrive(r) \/ Serve(r)
    BY <1>1, ServeTyped
<1>2. CASE \E s \in Sessions, to \in {"waiting", "working"} : Hear(s, to)
    <2>1. PICK s \in Sessions : \E to \in {"waiting", "working"} : Hear(s, to)
        BY <1>2
    <2>2. pane[s] \in Panes
        BY <2>1 DEF Hear, TypeInv, WorldTyped
    <2> QED BY <2>1, <2>2, WorldStepTyped
<1>3. CASE \E s \in Sessions, p \in Panes :
             Ask(s, p) \/ Answer(s, p) \/ TakeOver(s, p) \/ Nest(s, p)
    BY <1>3, WorldStepTyped
<1>4. CASE \E d \in exists : RemoveWorktree(d)
    BY <1>4 DEF RemoveWorktree, TypeInv, WorldTyped, RequestsTyped
<1>5. CASE UNCHANGED vars
    BY <1>5 DEF vars, TypeInv, WorldTyped, RequestsTyped
<1> QED BY <1>1, <1>2, <1>3, <1>4, <1>5 DEF Next

\* Panes, rows, directories, the in-flight set and the requests keep their
\* types: in particular no request ever types into a row that has no pane.
THEOREM ActionsTyping == Spec => []TypeOK
<1>1. TypeInv => TypeOK
    BY DEF TypeInv, WorldTyped, RequestsTyped, RequestRecords, Stages, TypeOK
<1> QED BY <1>1, InitTyped, NextTyped, PTL DEF Spec

-----------------------------------------------------------------------------
(* Locks. *)

Unlocked == {"idle", "pane", "check", "lock", "broadcast"}
OfBroadcast == {"broadcast", "roster", "take"}
OfRow == {"pane", "check", "lock", "end", "worktree", "start", "run"}

Rows(q) == q.todo \cup q.targets \cup q.sending

\* What a request of kind k holds at its stage: a broadcast the lock of every
\* row it types for, each row once; a click no other lock is released for.
Kept(q) ==
    /\ q.at \in Unlocked => q.locks = {}
    /\ q.at \in OfBroadcast => q.kind \in Broadcasts
    /\ q.at \in OfRow => q.kind \notin Broadcasts
    /\ q.at \in {"idle", "pane", "broadcast", "roster"} => Rows(q) = {}
    /\ \A t, u \in Rows(q) : t.session = u.session => t = u
    /\ q.todo \cap q.targets = {} /\ q.todo \cap q.sending = {} /\ q.targets \cap q.sending = {}
    /\ q.kind \in Broadcasts =>
         \A t \in q.targets \cup q.sending : sidKey(t.session) \in q.locks

LocksInv == TypeInv /\ LocksMatch /\ \A r \in Requests : Kept(req[r])

\* One request's step: it may take keys that are free, and release its own.
LEMMA LocksStep ==
    ASSUME LocksInv, TypeInv', NEW r \in Requests, NEW x \in RequestRecords, Kept(x),
           req' = [req EXCEPT ![r] = x],
           \/ /\ x.locks \subseteq req[r].locks
              /\ inflight' = inflight \ (req[r].locks \ x.locks)
           \/ /\ req[r].locks \subseteq x.locks
              /\ (x.locks \ req[r].locks) \cap inflight = {}
              /\ inflight' = inflight \cup x.locks
    PROVE  LocksInv'
<1> DEFINE L(a) == req[a].locks
<1>1. req[r] \in RequestRecords /\ req'[r] = x /\ \A a \in Requests \ {r} : req'[a] = req[a]
    BY DEF LocksInv, TypeInv, RequestsTyped
<1>2. inflight = UNION {L(a) : a \in Requests}
    BY DEF LocksInv, LocksMatch
<1>3. \A a, b \in Requests : a # b => L(a) \cap L(b) = {}
    BY DEF LocksInv, LocksMatch
<1>4. \A a \in Requests \ {r} : L(a) \cap x.locks = {}
    <2> TAKE a \in Requests \ {r}
    <2>1. L(a) \cap L(r) = {} /\ L(a) \subseteq inflight
        BY <1>2, <1>3
    <2> QED BY <2>1
<1>5. \A k : k \in inflight' <=> k \in x.locks \/ \E a \in Requests \ {r} : k \in L(a)
    <2> TAKE k
    <2>1. k \in inflight <=> k \in L(r) \/ \E a \in Requests \ {r} : k \in L(a)
        BY <1>2
    <2>2. k \in L(r) => \A a \in Requests \ {r} : k \notin L(a)
        BY <1>3
    <2> QED BY <2>1, <2>2
<1>6. inflight' = UNION {req'[a].locks : a \in Requests}
    BY <1>1, <1>5
<1>7. \A a, b \in Requests : a # b => req'[a].locks \cap req'[b].locks = {}
    BY <1>1, <1>3, <1>4
<1>8. \A a \in Requests : Kept(req'[a])
    BY <1>1 DEF LocksInv
<1> QED BY <1>6, <1>7, <1>8 DEF LocksInv, LocksMatch

LEMMA ServeLocks ==
    ASSUME LocksInv, TypeInv', NEW r \in Requests, Arrive(r) \/ Serve(r)
    PROVE  LocksInv'
<1> DEFINE q == req[r]
<1>q. q \in RequestRecords /\ Kept(q) /\ q.locks \subseteq inflight
    BY DEF LocksInv, TypeInv, RequestsTyped, LocksMatch
<1>r. req' \in [Requests -> RequestRecords] /\ req \in [Requests -> RequestRecords]
    BY DEF LocksInv, TypeInv, RequestsTyped
\* Steps that change no lock.
<1>same. ASSUME NEW x \in RequestRecords, Kept(x), x.locks = q.locks,
                req' = [req EXCEPT ![r] = x], inflight' = inflight
         PROVE  LocksInv'
    <2>1. inflight' = inflight \ (q.locks \ x.locks)
        BY <1>same
    <2> QED BY <2>1, <1>same, LocksStep
\* Steps that try for a lock.
<1>try. ASSUME NEW key, NEW next \in Stages \ (Unlocked \cup {"idle"}),
               Acquires(r, key, next), Rows(q) = {} \/ q.kind \notin Broadcasts,
               next \in OfBroadcast => q.kind \in Broadcasts,
               next \in OfRow => q.kind \notin Broadcasts,
               next = "roster" => Rows(q) = {}
        PROVE  LocksInv'
    <2>1. CASE key \in inflight
        <3> DEFINE x == [q EXCEPT !.at = "return"]
        <3>1. x \in RequestRecords /\ x.locks = q.locks
            BY <1>q DEF RequestRecords, Stages
        <3>2. Kept(x)
            BY <1>q DEF Kept, RequestRecords, Rows, Unlocked, OfBroadcast, OfRow
        <3> QED BY <3>1, <3>2, <2>1, <1>try, <1>same DEF Acquires, Goes
    <2>2. CASE key \notin inflight
        <3> DEFINE x == [q EXCEPT !.locks = @ \cup {key}, !.at = next]
        <3>0. req' = [req EXCEPT ![r] = x] /\ inflight' = inflight \cup {key}
            BY <2>2, <1>try DEF Acquires
        <3>1. x \in RequestRecords /\ x.locks = q.locks \cup {key}
            BY <3>0, <1>q, <1>r DEF RequestRecords
        <3>2. Kept(x)
            BY <1>q, <1>try DEF Kept, RequestRecords, Rows, Unlocked, OfBroadcast, OfRow
        <3>3. inflight' = inflight \cup x.locks
            BY <3>0, <3>1, <1>q
        <3>4. (x.locks \ q.locks) \cap inflight = {}
            BY <3>1, <2>2
        <3> QED BY <3>0, <3>1, <3>2, <3>3, <3>4, LocksStep
    <2> QED BY <2>1, <2>2
\* Steps that move to another stage, and change nothing else of the request.
<1>goes. ASSUME NEW at \in Stages \ (Unlocked \cup {"roster"}), Goes(r, at), UNCHANGED inflight,
                at \in OfBroadcast => q.kind \in Broadcasts,
                at \in OfRow => q.kind \notin Broadcasts
         PROVE  LocksInv'
    <2> DEFINE x == [q EXCEPT !.at = at]
    <2>1. x \in RequestRecords /\ x.locks = q.locks
        BY <1>q DEF RequestRecords
    <2>2. Kept(x)
        BY <1>q, <1>goes DEF Kept, RequestRecords, Rows, Unlocked, OfBroadcast, OfRow
    <2> QED BY <2>1, <2>2, <1>goes, <1>same DEF Goes
<1>1. CASE Arrive(r)
    <2>1. PICK k \in Kinds, s \in Sessions :
            req' = [req EXCEPT ![r] = [NoRequest EXCEPT !.kind = k, !.session = s,
                !.at = CASE k \in PaneKinds  -> "pane"
                         [] k \in Broadcasts -> "broadcast"
                         [] OTHER            -> "lock"]]
        BY <1>1 DEF Arrive
    <2> DEFINE at == CASE k \in PaneKinds  -> "pane"
                       [] k \in Broadcasts -> "broadcast"
                       [] OTHER            -> "lock"
               x == [NoRequest EXCEPT !.kind = k, !.session = s, !.at = at]
    <2>2. /\ at \in {"pane", "broadcast", "lock"}
          /\ at = "broadcast" <=> k \in Broadcasts
        BY DEF PaneKinds, Broadcasts
    <2>3. /\ x.at = at /\ x.kind = k /\ x.locks = {}
          /\ x.todo = {} /\ x.targets = {} /\ x.sending = {}
        BY DEF NoRequest
    <2>4. x \in RequestRecords
        BY <2>1, <1>r
    <2>5. Kept(x)
        BY <2>2, <2>3 DEF Kept, Rows, Unlocked, OfBroadcast, OfRow
    <2>6. q.locks = {}
        BY <1>1, <1>q DEF Arrive, At, Kept, Unlocked
    <2> QED BY <1>1, <2>1, <2>3, <2>4, <2>5, <2>6, <1>same DEF Arrive
<1>2. CASE ReadPane(r)
    <2>0. q.at = "pane"
        BY <1>2 DEF ReadPane, At
    <2>1. CASE pane[q.session] = None
        <3>1. req' = [req EXCEPT ![r].at = "return"]
            BY <1>2, <2>1 DEF ReadPane
        <3> QED BY <3>1, <1>2, <1>goes DEF ReadPane, Goes, Stages, Unlocked, OfBroadcast, OfRow
    <2>2. CASE pane[q.session] # None
        <3> DEFINE tg == {Target(q.session, pane[q.session])}
                   at == IF q.kind = "reload-plugins" THEN "check" ELSE "lock"
                   x == [q EXCEPT !.targets = tg, !.at = at]
        <3>1. req' = [req EXCEPT ![r] = x]
            BY <1>2, <2>2 DEF ReadPane
        <3>2. x \in RequestRecords /\ x.locks = q.locks
            BY <3>1, <1>q, <1>r DEF RequestRecords
        <3>3. /\ x.at = at /\ x.kind = q.kind /\ x.todo = {} /\ x.sending = {}
              /\ x.targets = tg /\ x.locks = {} /\ q.kind \notin Broadcasts
            BY <2>0, <1>q DEF RequestRecords, Kept, Rows, Unlocked, OfRow
        <3>4. at \in {"check", "lock"}
            OBVIOUS
        <3>5. \A t, u \in tg : t = u
            OBVIOUS
        <3>6. Kept(x)
            <4> HIDE DEF x, at, tg
            <4> QED BY <3>3, <3>4, <3>5 DEF Kept, Rows, Unlocked, OfBroadcast, OfRow
        <3> QED BY <1>2, <3>1, <3>2, <3>6, <1>same DEF ReadPane
    <2> QED BY <2>1, <2>2
<1>3. CASE CheckPrompt(r)
    <2>1. q.at = "check"
        BY <1>3 DEF CheckPrompt, At
    <2>2. CASE Goes(r, "return")
        BY <1>3, <2>2, <1>goes DEF CheckPrompt, Stages, Unlocked, OfBroadcast, OfRow
    <2>3. CASE Goes(r, "lock")
        <3> DEFINE x == [q EXCEPT !.at = "lock"]
        <3>1. x \in RequestRecords /\ x.locks = q.locks
            BY <1>q DEF RequestRecords, Stages
        <3>2. Kept(x)
            BY <2>1, <1>q DEF Kept, RequestRecords, Rows, Unlocked, OfBroadcast, OfRow
        <3> QED BY <3>1, <3>2, <1>3, <2>3, <1>same DEF CheckPrompt, Goes
    <2> QED BY <1>3, <2>2, <2>3 DEF CheckPrompt
<1>4. CASE LockSession(r)
    <2> DEFINE next == CASE q.kind \in PaneKinds -> "send"
                         [] q.kind \in CwdKinds  -> "worktree"
                         [] OTHER                -> "end"
    <2>1. next \in {"send", "worktree", "end"} /\ q.kind \notin Broadcasts
        BY <1>4, <1>q DEF LockSession, At, Kept, OfRow
    <2>2. Acquires(r, sidKey(q.session), next)
        BY <1>4 DEF LockSession
    <2> HIDE DEF next
    <2> QED BY <2>1, <2>2, <1>try DEF Stages, Unlocked, OfBroadcast, OfRow
<1>5. CASE End(r)
    BY <1>5, <1>goes DEF End, Stages, Unlocked, OfBroadcast, OfRow
<1>6. CASE LockWorktree(r)
    <2>1. q.kind \notin Broadcasts /\ Acquires(r, cwdKey(Cwd[q.session]), "start")
        BY <1>6, <1>q DEF LockWorktree, At, Kept, OfRow
    <2> QED BY <2>1, <1>try DEF Stages, Unlocked, OfBroadcast, OfRow
<1>7. CASE Start(r) \/ Exit(r) \/ Taken(r) \/ Report(r)
    <2>1. q.at = "start" => q.kind \notin Broadcasts
        BY <1>q DEF Kept, OfRow
    <2>2. PICK at \in {"run", "return", "send"} : Goes(r, at) /\ (at = "run" => q.at = "start")
        BY <1>7 DEF Start, Exit, Taken, Report, At
    <2>3. UNCHANGED inflight
        BY <1>7 DEF Start, Exit, Taken, Report
    <2> QED BY <2>1, <2>2, <2>3, <1>goes DEF Stages, Unlocked, OfBroadcast, OfRow
<1>8. CASE LockBroadcast(r)
    <2>1. q.kind \in Broadcasts /\ Rows(q) = {} /\ Acquires(r, broadcastKey(q.kind), "roster")
        BY <1>8, <1>q DEF LockBroadcast, At, Kept, OfBroadcast
    <2> QED BY <2>1, <1>try DEF Stages, Unlocked, OfBroadcast, OfRow
<1>9. CASE ReadRoster(r)
    <2>1. PICK includeBusy \in BOOLEAN :
            req' = [req EXCEPT ![r].at = "take", ![r].todo =
                {Target(s, pane[s]) : s \in {a \in OnRoster :
                    pane[a] # None /\ Newest(a) /\ Eligible(a, q.kind, includeBusy)}}]
        BY <1>9 DEF ReadRoster
    <2> DEFINE td == {Target(s, pane[s]) : s \in {a \in OnRoster :
                    pane[a] # None /\ Newest(a) /\ Eligible(a, q.kind, includeBusy)}}
               x == [q EXCEPT !.at = "take", !.todo = td]
    <2>2. req' = [req EXCEPT ![r] = x]
        BY <2>1
    <2>3. \A t, u \in td : t.session = u.session => t = u
        BY DEF Target
    <2>4. x \in RequestRecords /\ x.locks = q.locks
        BY <2>2, <1>q, <1>r DEF RequestRecords
    <2>5. /\ x.at = "take" /\ x.kind = q.kind /\ q.kind \in Broadcasts
          /\ x.todo = td /\ x.targets = {} /\ x.sending = {}
        BY <1>9, <1>q DEF ReadRoster, At, RequestRecords, Kept, Rows, OfBroadcast
    <2>6. Kept(x)
        <3> HIDE DEF x, td
        <3> QED BY <2>3, <2>5 DEF Kept, Rows, Unlocked, OfBroadcast, OfRow
    <2> QED BY <1>9, <2>2, <2>4, <2>6, <1>same DEF ReadRoster
<1>10. CASE \E t \in req[r].todo : Take(r, t)
    <2>1. PICK t \in q.todo : Take(r, t)
        BY <1>10
    <2> DEFINE free == sidKey(t.session) \notin inflight
               keys == IF free THEN {sidKey(t.session)} ELSE {}
               tg == IF free THEN q.targets \cup {t} ELSE q.targets
               x == [q EXCEPT !.todo = @ \ {t}, !.locks = @ \cup keys, !.targets = tg]
    <2>2. req' = [req EXCEPT ![r] = x] /\ inflight' = inflight \cup keys
        BY <2>1 DEF Take
    <2>3. x \in RequestRecords
        BY <2>2, <1>r
    <2>4. /\ x.at = q.at /\ x.kind = q.kind /\ q.at = "take" /\ x.todo = q.todo \ {t}
          /\ x.targets = tg /\ x.sending = q.sending /\ x.locks = q.locks \cup keys
        BY <2>1, <1>q DEF Take, At, RequestRecords
    <2>5. Kept(x)
        <3>1. \A u \in tg : u \in q.targets \/ (u = t /\ sidKey(t.session) \in keys)
            OBVIOUS
        <3>2. tg \subseteq q.targets \cup {t}
            OBVIOUS
        <3> HIDE DEF x, tg, keys
        <3> QED BY <1>q, <2>4, <3>1, <3>2 DEF Kept, Rows, Unlocked, OfBroadcast, OfRow
    <2>6. inflight' = inflight \cup x.locks /\ (x.locks \ q.locks) \cap inflight = {}
        BY <2>2, <2>4, <1>q
    <2> QED BY <2>2, <2>3, <2>4, <2>5, <2>6, LocksStep
<1>11. CASE \E t \in req[r].targets : SendKeys(r, t)
    <2>1. PICK t \in q.targets : SendKeys(r, t)
        BY <1>11
    <2> DEFINE x == [q EXCEPT !.targets = @ \ {t}, !.sending = @ \cup {t}]
    <2>2. req' = [req EXCEPT ![r] = x]
        BY <2>1 DEF SendKeys
    <2>3. x \in RequestRecords
        BY <2>2, <1>r
    <2>4. /\ x.at = q.at /\ x.kind = q.kind /\ q.at = "send" /\ x.todo = q.todo
          /\ x.targets = q.targets \ {t} /\ x.sending = q.sending \cup {t} /\ x.locks = q.locks
        BY <2>1, <1>q DEF SendKeys, At, RequestRecords
    <2>5. Kept(x)
        <3> HIDE DEF x
        <3> QED BY <1>q, <2>4 DEF Kept, Rows, Unlocked, OfBroadcast, OfRow
    <2> QED BY <2>1, <2>2, <2>3, <2>4, <2>5, <1>same DEF SendKeys
<1>12. CASE \E t \in req[r].sending : Sent(r, t)
    <2>1. PICK t \in q.sending : Sent(r, t)
        BY <1>12
    <2> DEFINE keys == IF q.kind \in Broadcasts THEN {sidKey(t.session)} ELSE {}
               x == [q EXCEPT !.sending = @ \ {t}, !.locks = @ \ keys]
    <2>2. req' = [req EXCEPT ![r] = x] /\ inflight' = inflight \ keys
        BY <2>1 DEF Sent
    <2>3. x \in RequestRecords
        BY <2>2, <1>r
    <2>4. /\ x.at = q.at /\ x.kind = q.kind /\ q.at = "send" /\ x.todo = q.todo
          /\ x.targets = q.targets /\ x.sending = q.sending \ {t} /\ x.locks = q.locks \ keys
        BY <2>1, <1>q DEF Sent, At, RequestRecords
    <2>5. keys \subseteq q.locks
        BY <1>q DEF Kept
    <2>6. q.kind \in Broadcasts =>
            \A u \in q.targets \cup (q.sending \ {t}) : sidKey(u.session) \notin keys
        <3> SUFFICES ASSUME q.kind \in Broadcasts, NEW u \in q.targets \cup (q.sending \ {t}),
                            u.session = t.session
                     PROVE  FALSE
            BY DEF sidKey
        <3> QED BY <1>q DEF Kept, Rows
    <2>7. Kept(x)
        <3> HIDE DEF x, keys
        <3> QED BY <1>q, <2>4, <2>6 DEF Kept, Rows, Unlocked, OfBroadcast, OfRow
    <2>8. x.locks \subseteq q.locks /\ inflight' = inflight \ (q.locks \ x.locks)
        BY <2>2, <2>4, <2>5
    <2> QED BY <2>2, <2>3, <2>7, <2>8, LocksStep
<1>13. CASE Return(r)
    <2>1. req' = [req EXCEPT ![r] = NoRequest] /\ inflight' = inflight \ q.locks
        BY <1>13 DEF Return, Released
    <2>2. NoRequest \in RequestRecords
        BY <2>1, <1>r
    <2>3. Kept(NoRequest) /\ NoRequest.locks = {}
        BY DEF NoRequest, Kept, Rows, Unlocked, OfBroadcast, OfRow
    <2>4. inflight' = inflight \ (q.locks \ NoRequest.locks)
        BY <2>1, <2>3
    <2>5. NoRequest.locks \subseteq q.locks
        BY <2>3
    <2> QED BY <2>1, <2>2, <2>3, <2>4, <2>5, LocksStep
<1> QED
    BY <1>1, <1>2, <1>3, <1>4, <1>5, <1>6, <1>7, <1>8, <1>9, <1>10, <1>11, <1>12, <1>13 DEF Serve

LEMMA InitLocks == Init => LocksInv
<1> SUFFICES ASSUME Init PROVE LocksInv
    OBVIOUS
<1>1. NoRequest.locks = {} /\ Kept(NoRequest)
    BY DEF NoRequest, Kept, Rows, Unlocked, OfBroadcast, OfRow
<1> QED BY <1>1, InitTyped DEF Init, LocksInv, LocksMatch

LEMMA NextLocks == LocksInv /\ [Next]_vars => LocksInv'
<1> SUFFICES ASSUME LocksInv, [Next]_vars PROVE LocksInv'
    OBVIOUS
<1>t. TypeInv'
    BY NextTyped DEF LocksInv
<1>same. ASSUME UNCHANGED <<inflight, req>> PROVE LocksInv'
    BY <1>t, <1>same DEF LocksInv, LocksMatch, Kept
<1>1. CASE \E r \in Requests : Arrive(r) \/ Serve(r)
    BY <1>1, <1>t, ServeLocks
<1>2. CASE \E s \in Sessions, p \in Panes : Ask(s, p)
    <2>1. PICK p \in Panes :
            /\ inflight' = inflight
            /\ req' = [r \in Requests |->
                 IF req[r].at \in {"lock", "take", "send"}
                 THEN [req[r] EXCEPT !.fresh = @ \cup {p}] ELSE req[r]]
        BY <1>2 DEF Ask
    <2>2. ASSUME NEW r \in Requests
          PROVE  Kept(req'[r]) /\ req'[r].locks = req[r].locks
        <3>1. req[r] \in RequestRecords /\ Kept(req[r])
            BY DEF LocksInv, TypeInv, RequestsTyped
        <3> DEFINE x == [req[r] EXCEPT !.fresh = @ \cup {p}]
        <3>2. /\ x.at = req[r].at /\ x.kind = req[r].kind /\ x.locks = req[r].locks
              /\ x.todo = req[r].todo /\ x.targets = req[r].targets /\ x.sending = req[r].sending
            BY <3>1 DEF RequestRecords
        <3>3. Kept(x)
            <4> HIDE DEF x
            <4> QED BY <3>1, <3>2 DEF Kept, Rows
        <3> QED BY <2>1, <3>1, <3>2, <3>3
    <2> QED BY <1>t, <2>1, <2>2 DEF LocksInv, LocksMatch
<1>3. CASE \/ \E s \in Sessions, to \in {"waiting", "working"} : Hear(s, to)
           \/ \E s \in Sessions, p \in Panes : Answer(s, p) \/ TakeOver(s, p) \/ Nest(s, p)
           \/ \E d \in exists : RemoveWorktree(d)
    BY <1>3, <1>same DEF Hear, Answer, TakeOver, Nest, RemoveWorktree
<1>4. CASE UNCHANGED vars
    BY <1>4, <1>same DEF vars
<1> QED BY <1>1, <1>2, <1>3, <1>4 DEF Next

\* The keys in flight are at all times those of the requests in progress, each
\* held by one: no lock leaks, whatever worktree goes away while it is held, and
\* no broadcast releases a row's lock that it does not hold.
THEOREM LocksMatched == Spec => []LocksMatch
<1>2. LocksInv => LocksMatch
    BY DEF LocksInv
<1> QED BY InitLocks, <1>2, NextLocks, PTL DEF Spec

-----------------------------------------------------------------------------
(* Worktrees. *)

WorktreeKey(q) == <<"cwd", Real[Cwd[q.session]]>>

\* A running action holds the key of its directory: it took the directory's own
\* when the directory was there, and it starts only if that still is.
RunHolds(q) ==
    /\ q.at = "run" => WorktreeKey(q) \in q.locks
    /\ q.at = "start" /\ Real[Cwd[q.session]] \in exists => WorktreeKey(q) \in q.locks

WorktreeInv == LocksInv /\ \A r \in Requests : RunHolds(req[r])

\* A request's step leaves the directories and the other requests alone; only
\* two steps lead to a start.
LEMMA ServeFrame ==
    ASSUME NEW a \in Requests, req \in [Requests -> RequestRecords], Arrive(a) \/ Serve(a)
    PROVE  /\ exists' = exists
           /\ \A r \in Requests \ {a} : req'[r] = req[r]
           /\ LockWorktree(a) \/ Start(a) \/ req'[a].at \notin {"run", "start"}
<1> DEFINE Frame == /\ exists' = exists
                    /\ \A r \in Requests \ {a} : req'[r] = req[r]
                    /\ LockWorktree(a) \/ Start(a) \/ req'[a].at \notin {"run", "start"}
<1>q. req[a] \in RequestRecords
    OBVIOUS
<1>1. CASE Arrive(a)
    <2>1. PICK k \in Kinds, s \in Sessions :
            req' = [req EXCEPT ![a] = [NoRequest EXCEPT !.kind = k, !.session = s,
                !.at = CASE k \in PaneKinds  -> "pane"
                         [] k \in Broadcasts -> "broadcast"
                         [] OTHER            -> "lock"]]
        BY <1>1 DEF Arrive
    <2> DEFINE at == CASE k \in PaneKinds  -> "pane"
                       [] k \in Broadcasts -> "broadcast"
                       [] OTHER            -> "lock"
               x == [NoRequest EXCEPT !.kind = k, !.session = s, !.at = at]
    <2>2. at \in {"pane", "broadcast", "lock"} /\ x.at = at
        BY DEF NoRequest
    <2>3. req'[a] = x /\ \A r \in Requests \ {a} : req'[r] = req[r]
        BY <2>1
    <2> HIDE DEF at, x
    <2> QED BY <1>1, <2>2, <2>3 DEF Arrive, world
<1>2. CASE ReadPane(a)
    BY <1>2, <1>q DEF ReadPane, world, RequestRecords
<1>3. CASE CheckPrompt(a)
    BY <1>3, <1>q DEF CheckPrompt, world, RequestRecords, Goes
<1>4. CASE LockSession(a)
    BY <1>4, <1>q DEF LockSession, world, RequestRecords, Goes, Acquires
<1>5. CASE End(a)
    BY <1>5, <1>q DEF End, world, RequestRecords, Goes
<1>6. CASE LockWorktree(a)
    BY <1>6, <1>q DEF LockWorktree, world, RequestRecords, Goes, Acquires
<1>7. CASE Start(a)
    BY <1>7, <1>q DEF Start, world, RequestRecords, Goes
<1>8. CASE Exit(a)
    BY <1>8, <1>q DEF Exit, world, RequestRecords, Goes
<1>9. CASE LockBroadcast(a)
    BY <1>9, <1>q DEF LockBroadcast, world, RequestRecords, Goes, Acquires
<1>10. CASE ReadRoster(a)
    BY <1>10, <1>q DEF ReadRoster, world, RequestRecords
<1>11. CASE \E t \in req[a].todo : Take(a, t)
    BY <1>11, <1>q DEF Take, world, RequestRecords, At
<1>12. CASE \E t \in req[a].targets : SendKeys(a, t)
    BY <1>12, <1>q DEF SendKeys, world, RequestRecords, At
<1>13. CASE \E t \in req[a].sending : Sent(a, t)
    BY <1>13, <1>q DEF Sent, world, RequestRecords, At
<1>14. CASE Taken(a)
    BY <1>14, <1>q DEF Taken, world, RequestRecords, Goes
<1>15. CASE Report(a)
    BY <1>15, <1>q DEF Report, world, RequestRecords, Goes
<1>16. CASE Return(a)
    BY <1>16, <1>q DEF Return, world, RequestRecords, NoRequest
<1> QED BY <1>1, <1>2, <1>3, <1>4, <1>5, <1>6, <1>7, <1>8, <1>9, <1>10, <1>11, <1>12, <1>13, <1>14, <1>15, <1>16 DEF Serve

LEMMA NextWorktree == WorktreeInv /\ [Next]_vars => WorktreeInv'
<1> SUFFICES ASSUME WorktreeInv, [Next]_vars PROVE WorktreeInv'
    OBVIOUS
<1>0. LocksInv'
    BY NextLocks DEF WorktreeInv
<1> SUFFICES ASSUME NEW r \in Requests, req'[r].at \in {"run", "start"}
             PROVE  RunHolds(req[r])'
    BY <1>0 DEF WorktreeInv, RunHolds
<1>q. req[r] \in RequestRecords /\ RunHolds(req[r])
    BY DEF WorktreeInv, LocksInv, TypeInv, RequestsTyped
<1>r. req \in [Requests -> RequestRecords]
    BY DEF WorktreeInv, LocksInv, TypeInv, RequestsTyped
<1>same. ASSUME req'[r] = req[r], exists' \subseteq exists PROVE RunHolds(req[r])'
    BY <1>same, <1>q DEF RunHolds, WorktreeKey
<1>1. CASE \E a \in Requests \ {r} : Arrive(a) \/ Serve(a)
    BY <1>1, <1>r, <1>same, ServeFrame
<1>2. CASE LockWorktree(r)
    <2>1. CASE cwdKey(Cwd[req[r].session]) \in inflight
        <3>1. req'[r].at = "return"
            BY <2>1, <1>2, <1>r, <1>q DEF LockWorktree, Acquires, Goes, RequestRecords
        <3> QED BY <3>1
    <2>2. CASE cwdKey(Cwd[req[r].session]) \notin inflight
        <3>1. /\ req'[r].at = "start" /\ req'[r].session = req[r].session /\ exists' = exists
              /\ req'[r].locks = req[r].locks \cup {cwdKey(Cwd[req[r].session])}
            BY <2>2, <1>2, <1>r, <1>q DEF LockWorktree, Acquires, world, RequestRecords
        <3> QED BY <3>1 DEF RunHolds, WorktreeKey, cwdKey
    <2> QED BY <2>1, <2>2
<1>3. CASE Start(r)
    <2>1. /\ req[r].at = "start" /\ exists' = exists
          /\ req' = [req EXCEPT ![r].at =
                IF Real[Cwd[req[r].session]] \in exists THEN "run" ELSE "return"]
        BY <1>3 DEF Start, At, Goes, world
    <2>2. Real[Cwd[req[r].session]] \in exists
        BY <2>1, <1>r
    <2>3. req'[r].session = req[r].session /\ req'[r].locks = req[r].locks
        BY <2>1, <1>r, <1>q DEF RequestRecords
    <2> QED BY <2>1, <2>2, <2>3, <1>q DEF RunHolds, WorktreeKey
<1>4. CASE Arrive(r) \/ (Serve(r) /\ ~LockWorktree(r) /\ ~Start(r))
    <2>1. Arrive(r) \/ Serve(r)
        BY <1>4
    <2>2. ~LockWorktree(r) /\ ~Start(r)
        <3>1. Arrive(r) => req[r].at = "idle"
            BY DEF Arrive, At
        <3> QED BY <1>4, <3>1 DEF LockWorktree, Start, At
    <2>3. req'[r].at \notin {"run", "start"}
        BY <2>1, <2>2, <1>r, ServeFrame
    <2> QED BY <2>3
<1>5. CASE \E s \in Sessions, p \in Panes : Ask(s, p)
    <2>1. /\ req'[r].at = req[r].at /\ req'[r].locks = req[r].locks
          /\ req'[r].session = req[r].session /\ exists' = exists
        BY <1>5, <1>q DEF Ask, RequestRecords
    <2> QED BY <2>1, <1>q DEF RunHolds, WorktreeKey
<1>6. CASE \/ \E s \in Sessions, to \in {"waiting", "working"} : Hear(s, to)
           \/ \E s \in Sessions, p \in Panes : Answer(s, p) \/ TakeOver(s, p) \/ Nest(s, p)
           \/ \E d \in exists : RemoveWorktree(d)
    BY <1>6, <1>same DEF Hear, Answer, TakeOver, Nest, RemoveWorktree
<1>7. CASE UNCHANGED vars
    BY <1>7, <1>same DEF vars
<1> QED BY <1>1, <1>2, <1>3, <1>4, <1>5, <1>6, <1>7 DEF Next

\* Two actions never run in one directory at once, however their rows spell its
\* path, and also when it is removed while one of them runs.
THEOREM Worktrees == Spec => []WorktreeExclusive
<1>1. Init => WorktreeInv
    <2>1. RunHolds(NoRequest)
        BY DEF NoRequest, RunHolds
    <2> QED BY InitLocks, <2>1 DEF Init, WorktreeInv
<1>2. WorktreeInv => WorktreeExclusive
    <2> SUFFICES ASSUME WorktreeInv, NEW q \in Requests, NEW r \in Requests, q # r,
                        req[q].at = "run", req[r].at = "run",
                        Real[Cwd[req[q].session]] = Real[Cwd[req[r].session]]
                 PROVE  FALSE
        BY DEF WorktreeExclusive, At
    <2>1. WorktreeKey(req[q]) \in req[q].locks /\ WorktreeKey(req[r]) \in req[r].locks
        BY DEF WorktreeInv, RunHolds
    <2>2. WorktreeKey(req[q]) = WorktreeKey(req[r])
        BY DEF WorktreeKey
    <2> QED BY <2>1, <2>2 DEF WorktreeInv, LocksInv, LocksMatch
<1> QED BY <1>1, <1>2, NextWorktree, PTL DEF Spec

-----------------------------------------------------------------------------
(* The lock table of module Locks.                                            *)

Held == [r \in Requests |-> req[r].locks]

\* What one step of a request does to the keys it holds: it takes a free one, or
\* gives some back.
Changes(r) ==
    \/ \E k \in Keys \ inflight : req'[r].locks = req[r].locks \cup {k}
    \/ req'[r].locks \subseteq req[r].locks

LEMMA AcquireChanges ==
    ASSUME NEW r \in Requests, req \in [Requests -> RequestRecords], NEW key \in Keys, NEW next,
           Acquires(r, key, next)
    PROVE  Changes(r)
<1>q. req[r] \in RequestRecords
    OBVIOUS
<1>1. CASE key \in inflight
    BY <1>1, <1>q DEF Acquires, Goes, Changes, RequestRecords
<1>2. CASE key \notin inflight
    <2>1. req'[r].locks = req[r].locks \cup {key}
        BY <1>2, <1>q DEF Acquires, RequestRecords
    <2> QED BY <2>1, <1>2 DEF Changes
<1> QED BY <1>1, <1>2

LEMMA ServeChanges ==
    ASSUME LocksInv, NEW r \in Requests, Arrive(r) \/ Serve(r)
    PROVE  Changes(r)
<1>r. req \in [Requests -> RequestRecords]
    BY DEF LocksInv, TypeInv, RequestsTyped
<1>q. req[r] \in RequestRecords /\ Kept(req[r]) /\ Asked(req[r])
    BY DEF LocksInv, TypeInv, RequestsTyped
<1>1. CASE Arrive(r)
    <2>1. PICK x : x.locks = {} /\ req' = [req EXCEPT ![r] = x]
        BY <1>1 DEF Arrive, NoRequest
    <2> QED BY <2>1, <1>r DEF Changes
<1>2. CASE LockSession(r) \/ LockWorktree(r) \/ LockBroadcast(r)
    <2>1. req[r].session \in Sessions /\ req[r].kind \in Kinds
        BY <1>2, <1>q DEF LockSession, LockWorktree, LockBroadcast, At, Asked
    <2>2. /\ sidKey(req[r].session) \in Keys /\ cwdKey(Cwd[req[r].session]) \in Keys
          /\ LockBroadcast(r) => broadcastKey(req[r].kind) \in Keys
        <3>1. LockBroadcast(r) => req[r].kind \in Broadcasts
            BY <1>q DEF LockBroadcast, At, Kept, OfBroadcast
        <3> QED BY <2>1, <3>1, KeyTypes, ActionParameters
    <2> QED BY <1>2, <1>r, <2>2, AcquireChanges DEF LockSession, LockWorktree, LockBroadcast
<1>3. CASE \E t \in req[r].todo : Take(r, t)
    <2>1. PICK t \in req[r].todo : Take(r, t)
        BY <1>3
    <2>2. sidKey(t.session) \in Keys
        BY <1>q, KeyTypes DEF RequestRecords, Targets
    <2>3. CASE sidKey(t.session) \in inflight
        BY <2>1, <2>3, <1>q, <1>r DEF Take, Changes, RequestRecords
    <2>4. CASE sidKey(t.session) \notin inflight
        <3>1. req'[r].locks = req[r].locks \cup {sidKey(t.session)}
            BY <2>1, <2>4, <1>q, <1>r DEF Take, RequestRecords
        <3> QED BY <3>1, <2>2, <2>4 DEF Changes
    <2> QED BY <2>3, <2>4
<1>4. CASE \E t \in req[r].sending : Sent(r, t)
    BY <1>4, <1>q, <1>r DEF Sent, Changes, RequestRecords
<1>5. CASE Return(r)
    BY <1>5, <1>q, <1>r DEF Return, NoRequest, Changes, RequestRecords
<1>6. CASE ReadPane(r) \/ ReadRoster(r) \/ \E t \in req[r].targets : SendKeys(r, t)
    <2>1. ReadPane(r) => req'[r].locks = req[r].locks
        BY <1>q, <1>r DEF ReadPane, RequestRecords
    <2>2. ReadRoster(r) => req'[r].locks = req[r].locks
        BY <1>q, <1>r DEF ReadRoster, RequestRecords
    <2>3. ASSUME NEW t, SendKeys(r, t) PROVE req'[r].locks = req[r].locks
        BY <2>3, <1>q, <1>r DEF SendKeys, RequestRecords
    <2> QED BY <1>6, <2>1, <2>2, <2>3 DEF Changes
<1>7. CASE CheckPrompt(r) \/ End(r) \/ Start(r) \/ Exit(r) \/ Taken(r) \/ Report(r)
    <2>1. PICK at : Goes(r, at)
        BY <1>7 DEF CheckPrompt, End, Start, Exit, Taken, Report
    <2> QED BY <2>1, <1>q, <1>r DEF Goes, Changes, RequestRecords
<1> QED BY <1>1, <1>2, <1>3, <1>4, <1>5, <1>6, <1>7 DEF Serve

\* A key that is not in flight is free: the set the code tests stands for the
\* holders it does not keep.
LEMMA ChangesRefine ==
    ASSUME LocksInv, NEW r \in Requests, Changes(r), req' \in [Requests -> RequestRecords],
           \A a \in Requests \ {r} : req'[a] = req[a]
    PROVE  Table!Next
<1>1. Held' = [a \in Requests |-> req'[a].locks]
    BY DEF Held
<1>2. CASE \E k \in Keys \ inflight : req'[r].locks = req[r].locks \cup {k}
    <2>1. PICK k \in Keys \ inflight : req'[r].locks = req[r].locks \cup {k}
        BY <1>2
    <2>2. \A a \in Requests : k \notin Held[a]
        BY <2>1 DEF Held, LocksInv, LocksMatch
    <2>3. Held' = [Held EXCEPT ![r] = @ \cup {k}]
        BY <1>1, <2>1 DEF Held
    <2>4. Table!Take(r, k)
        BY <2>2, <2>3 DEF Table!Take, Table!Free, Held
    <2> QED BY <2>4 DEF Table!Next
<1>3. CASE req'[r].locks \subseteq req[r].locks
    <2> DEFINE ks == req[r].locks \ req'[r].locks
    <2>1. ks \in SUBSET Held[r]
        BY DEF Held
    <2>2. Held' = [Held EXCEPT ![r] = @ \ ks]
        BY <1>1, <1>3 DEF Held
    <2>3. \E gone \in SUBSET Held[r] :
            gone \subseteq Held[r] /\ Held' = [Held EXCEPT ![r] = @ \ gone]
        <3> HIDE DEF ks
        <3> QED BY <2>1, <2>2
    <2>4. \E gone \in SUBSET Held[r] : Table!Release(r, gone)
        BY <2>3 DEF Table!Release, Held
    <2> QED BY <2>4 DEF Table!Next, Held
<1> QED BY <1>2, <1>3 DEF Changes

LEMMA NextRefines == LocksInv /\ TypeInv' /\ [Next]_vars => [Table!Next]_Held
<1> SUFFICES ASSUME LocksInv, TypeInv', [Next]_vars PROVE [Table!Next]_Held
    OBVIOUS
<1>r. req \in [Requests -> RequestRecords] /\ req' \in [Requests -> RequestRecords]
    BY DEF LocksInv, TypeInv, RequestsTyped
<1>1. CASE \E r \in Requests : Arrive(r) \/ Serve(r)
    BY <1>1, <1>r, ServeChanges, ServeFrame, ChangesRefine
<1>2. CASE \E s \in Sessions, p \in Panes : Ask(s, p)
    <2>1. \A r \in Requests : req'[r].locks = req[r].locks
        BY <1>2, <1>r DEF Ask, RequestRecords
    <2> QED BY <2>1 DEF Held
<1>3. CASE \/ \E s \in Sessions, to \in {"waiting", "working"} : Hear(s, to)
           \/ \E s \in Sessions, p \in Panes : Answer(s, p) \/ TakeOver(s, p) \/ Nest(s, p)
           \/ \E d \in exists : RemoveWorktree(d)
           \/ UNCHANGED vars
    BY <1>3 DEF Hear, Answer, TakeOver, Nest, RemoveWorktree, vars, Held
<1> QED BY <1>1, <1>2, <1>3 DEF Next

\* The write path implements the lock table, for any number of requests, rows
\* and keys: what acquire and release do to one set of strings is what an owner
\* recorded with each key would allow.
THEOREM ImplementsLocks == Spec => LockTable
<1>1. Init => Table!Init
    BY DEF Init, Table!Init, NoRequest
<1>2. LocksInv => TypeInv
    BY DEF LocksInv
<1>3. LocksInv /\ LocksInv' /\ [Next]_vars => [Table!Next]_[r \in Requests |-> req[r].locks]
    BY <1>2, NextRefines DEF Held, LocksInv
<1> QED BY <1>1, <1>3, InitLocks, NextLocks, PTL DEF Spec, LockTable, Table!Spec

-----------------------------------------------------------------------------
(* Dialogs.                                                                  *)

\* A pane shows a dialog that is on the row of its session.
Prompting(p) == p \in dialog /\ status[front[p]] = "prompt"

\* From its check to its keys, a click's reload-plugins is for one pane, and a
\* dialog there is on the row only if it opened in between.
Spared(q) ==
    /\ q.at = "check" => \A t, u \in q.targets : t = u
    /\ q.kind = "reload-plugins" /\ q.at \in {"lock", "send"} =>
         \A t \in q.targets : Prompting(t.pane) => t.pane \in q.fresh

ClickInv ==
    /\ LocksInv
    /\ \A p \in dialog : front[p] \in Sessions
    /\ \A r \in Requests : Spared(req[r])

\* No step of the world but Ask opens a dialog or puts one on a row.
Calms ==
    /\ \A p \in dialog' : p \in dialog /\ front'[p] \in Sessions
    /\ \A p \in dialog' : Prompting(p)' => Prompting(p)

LEMMA ServeCalms ==
    ASSUME ClickInv, NEW a \in Requests, Arrive(a) \/ Serve(a)
    PROVE  Calms
<1>1. CASE End(a)
    <2>1. /\ dialog' = dialog /\ front' = front
          /\ status' = [status EXCEPT ![req[a].session] = "gone"]
        BY <1>1 DEF End
    <2>2. status \in [Sessions -> {"waiting", "working", "prompt", "gone"}]
        BY DEF ClickInv, LocksInv, TypeInv, WorldTyped
    <2>3. \A s \in Sessions : status'[s] = "prompt" => status[s] = "prompt"
        BY <2>1, <2>2
    <2> QED BY <2>1, <2>3 DEF ClickInv, Calms, Prompting
<1>2. CASE \E t \in req[a].targets : SendKeys(a, t)
    BY <1>2 DEF SendKeys, ClickInv, Calms, Prompting
<1>3. CASE UNCHANGED world
    BY <1>3 DEF world, ClickInv, Calms, Prompting
<1>4. End(a) \/ (\E t \in req[a].targets : SendKeys(a, t)) \/ UNCHANGED world
    BY DEF Serve, Arrive, ReadPane, CheckPrompt, LockSession, LockWorktree, Start, Exit,
           LockBroadcast, ReadRoster, Take, Sent, Taken, Report, Return
<1> QED BY <1>1, <1>2, <1>3, <1>4

LEMMA WorldCalms ==
    ASSUME ClickInv, NEW s \in Sessions, NEW p \in Panes,
           \/ \E to \in {"waiting", "working"} : Hear(s, to)
           \/ Answer(s, p) \/ TakeOver(s, p) \/ Nest(s, p)
    PROVE  Calms
<1>w. WorldTyped /\ \A o \in dialog : front[o] \in Sessions /\ o \in Panes
    BY DEF ClickInv, LocksInv, TypeInv, WorldTyped
<1>1. CASE \E to \in {"waiting", "working"} : Hear(s, to)
    <2>1. PICK to \in {"waiting", "working"} : Hear(s, to)
        BY <1>1
    <2>2. /\ dialog' = dialog /\ front' = front
          /\ \A o \in Sessions : status'[o] = "prompt" => status[o] = "prompt"
        BY <2>1, <1>w DEF Hear, WorldTyped
    <2> QED BY <2>2, <1>w DEF Calms, Prompting
<1>2. CASE Answer(s, p) \/ Nest(s, p)
    <2>1. /\ dialog' \subseteq dialog /\ front' = front
          /\ \A o \in Sessions : status'[o] = "prompt" => status[o] = "prompt"
        BY <1>2, <1>w DEF Answer, Nest, WorldTyped
    <2> QED BY <2>1, <1>w DEF Calms, Prompting
<1>3. CASE TakeOver(s, p)
    <2>1. /\ dialog' = dialog \ {p} /\ front' = [front EXCEPT ![p] = s]
          /\ \A o \in Sessions : status'[o] = "prompt" => status[o] = "prompt"
        BY <1>3, <1>w DEF TakeOver, WorldTyped
    <2>2. \A o \in dialog' : o \in dialog /\ front'[o] = front[o]
        BY <2>1, <1>w DEF WorldTyped
    <2> QED BY <2>1, <2>2, <1>w DEF Calms, Prompting
<1> QED BY <1>1, <1>2, <1>3

\* The check: the row whose dialog the pane shows is in that pane, and so counts.
LEMMA CheckSpares ==
    ASSUME ClickInv, NEW t \in Targets, Prompting(t.pane)
    PROVE  AtPrompt(t.session, t.pane)
<1>1. front[t.pane] \in Sessions /\ status[front[t.pane]] = "prompt"
    BY DEF ClickInv, Prompting
<1>2. pane[front[t.pane]] = t.pane
    BY <1>1, ActionParameters DEF Targets, ClickInv, LocksInv, TypeInv, WorldTyped
<1> QED BY <1>1, <1>2 DEF AtPrompt, OnRoster

LEMMA SparedCalm ==
    ASSUME ClickInv, Calms, NEW r \in Requests, req'[r] = req[r]
    PROVE  Spared(req[r])'
<1>1. \A p : Prompting(p)' => Prompting(p)
    BY DEF Calms, Prompting
<1>2. Spared(req[r])
    BY DEF ClickInv
<1> QED BY <1>1, <1>2 DEF Spared

\* What a request is for when it locks and when it types.
LEMMA ServeSpares ==
    ASSUME ClickInv, NEW r \in Requests, Arrive(r) \/ Serve(r)
    PROVE  Spared(req[r])'
<1> DEFINE q == req[r]
<1>q. q \in RequestRecords /\ Kept(q) /\ Spared(q)
    BY DEF ClickInv, LocksInv, TypeInv, RequestsTyped
<1>r. req \in [Requests -> RequestRecords]
    BY DEF ClickInv, LocksInv, TypeInv, RequestsTyped
<1>p. \A p : Prompting(p)' => Prompting(p)
    BY ServeCalms DEF Calms, Prompting
\* To a stage where nothing is owed.
<1>else. ASSUME req'[r].at \notin {"check", "lock", "send"} PROVE Spared(req[r])'
    BY <1>else DEF Spared
\* On the way to the keys.
<1>on. ASSUME q.at \in {"lock", "send"}, req'[r].at # "check", req'[r].kind = q.kind,
              req'[r].targets \subseteq q.targets, req'[r].fresh = q.fresh
       PROVE  Spared(req[r])'
    BY <1>on, <1>p, <1>q DEF Spared
<1>1. CASE Arrive(r)
    <2>1. PICK k \in Kinds, s \in Sessions :
            req' = [req EXCEPT ![r] = [NoRequest EXCEPT !.kind = k, !.session = s,
                !.at = CASE k \in PaneKinds  -> "pane"
                         [] k \in Broadcasts -> "broadcast"
                         [] OTHER            -> "lock"]]
        BY <1>1 DEF Arrive
    <2> DEFINE at == CASE k \in PaneKinds  -> "pane"
                       [] k \in Broadcasts -> "broadcast"
                       [] OTHER            -> "lock"
               x == [NoRequest EXCEPT !.kind = k, !.session = s, !.at = at]
    <2>2. x.at = at /\ x.targets = {} /\ req'[r] = x
        BY <2>1, <1>r DEF NoRequest
    <2>3. req'[r].targets = {}
        BY <2>2
    <2> QED BY <2>3 DEF Spared
<1>2. CASE ReadPane(r)
    <2>1. CASE pane[q.session] = None
        <3>1. req'[r].at = "return"
            BY <1>2, <2>1, <1>r, <1>q DEF ReadPane, RequestRecords
        <3> QED BY <3>1, <1>else
    <2>2. CASE pane[q.session] # None
        <3>1. /\ req'[r].targets = {Target(q.session, pane[q.session])} /\ req'[r].kind = q.kind
              /\ req'[r].at = IF q.kind = "reload-plugins" THEN "check" ELSE "lock"
            BY <1>2, <2>2, <1>r, <1>q DEF ReadPane, RequestRecords
        <3>2. \A t, u \in req'[r].targets : t = u
            BY <3>1
        <3>3. req'[r].kind = "reload-plugins" => req'[r].at = "check"
            BY <3>1
        <3> QED BY <3>2, <3>3 DEF Spared
    <2> QED BY <2>1, <2>2
<1>3. CASE CheckPrompt(r)
    <2>1. PICK t \in q.targets :
            Goes(r, IF AtPrompt(t.session, t.pane) \/ t.session \notin OnRoster
                    THEN "return" ELSE "lock")
        BY <1>3 DEF CheckPrompt
    <2>2. CASE AtPrompt(t.session, t.pane) \/ t.session \notin OnRoster
        <3>1. req'[r].at = "return"
            BY <2>1, <2>2, <1>r, <1>q DEF Goes, RequestRecords
        <3> QED BY <3>1, <1>else
    <2>3. CASE ~AtPrompt(t.session, t.pane)
        <3>1. req'[r].targets = q.targets
            BY <2>1, <1>r, <1>q DEF Goes, RequestRecords
        <3>2. \A u \in q.targets : u = t
            BY <1>3, <1>q DEF CheckPrompt, At, Spared
        <3>3. t \in Targets
            BY <1>q DEF RequestRecords
        <3>4. ~Prompting(t.pane)
            BY <2>3, <3>3, CheckSpares
        <3>5. req'[r].at \in {"return", "lock"}
            BY <2>1, <1>r, <1>q DEF Goes, RequestRecords
        <3>6. \A u \in req'[r].targets : ~Prompting(u.pane)'
            BY <3>1, <3>2, <3>4, <1>p
        <3> QED BY <3>5, <3>6 DEF Spared
    <2> QED BY <2>2, <2>3
<1>4. CASE LockSession(r)
    <2> DEFINE next == CASE q.kind \in PaneKinds -> "send"
                         [] q.kind \in CwdKinds  -> "worktree"
                         [] OTHER                -> "end"
    <2>1. next \in {"send", "worktree", "end"}
        OBVIOUS
    <2>2. Acquires(r, sidKey(q.session), next) /\ q.at = "lock"
        BY <1>4 DEF LockSession, At
    <2> HIDE DEF next
    <2>3. /\ req'[r].kind = q.kind /\ req'[r].targets = q.targets /\ req'[r].fresh = q.fresh
          /\ req'[r].at \in {next, "return"}
        BY <2>2, <1>r, <1>q DEF Acquires, Goes, RequestRecords
    <2> QED BY <2>1, <2>2, <2>3, <1>on
<1>5. CASE End(r) \/ Start(r) \/ Exit(r) \/ Report(r)
    <2>1. PICK at \in {"return", "run"} : Goes(r, at)
        BY <1>5 DEF End, Start, Exit, Report
    <2>2. req'[r].at = at
        BY <2>1, <1>r, <1>q DEF Goes, RequestRecords
    <2> QED BY <2>2, <1>else
<1>6. CASE LockWorktree(r) \/ LockBroadcast(r)
    <2>1. PICK next \in {"start", "roster"} : \E key : Acquires(r, key, next)
        BY <1>6 DEF LockWorktree, LockBroadcast
    <2>2. req'[r].at \in {next, "return"}
        BY <2>1, <1>r, <1>q DEF Acquires, Goes, RequestRecords
    <2> QED BY <2>2, <1>else
<1>7. CASE ReadRoster(r)
    <2>1. req'[r].at = "take"
        BY <1>7, <1>r, <1>q DEF ReadRoster, RequestRecords
    <2> QED BY <2>1, <1>else
<1>8. CASE \E t \in req[r].todo : Take(r, t)
    <2>1. req'[r].at = "take"
        BY <1>8, <1>r, <1>q DEF Take, At, RequestRecords
    <2> QED BY <2>1, <1>else
<1>9. CASE \E t \in req[r].targets : SendKeys(r, t)
    <2>1. /\ q.at = "send" /\ req'[r].at = q.at /\ req'[r].kind = q.kind
          /\ req'[r].targets \subseteq q.targets /\ req'[r].fresh = q.fresh
        BY <1>9, <1>r, <1>q DEF SendKeys, At, RequestRecords
    <2> QED BY <2>1, <1>on
<1>10. CASE \E t \in req[r].sending : Sent(r, t)
    <2>1. /\ q.at = "send" /\ req'[r].at = q.at /\ req'[r].kind = q.kind
          /\ req'[r].targets \subseteq q.targets /\ req'[r].fresh = q.fresh
        BY <1>10, <1>r, <1>q DEF Sent, At, RequestRecords
    <2> QED BY <2>1, <1>on
\* A broadcast takes no part.
<1>11. CASE Taken(r)
    <2>1. q.kind \in Broadcasts
        BY <1>11, <1>q DEF Taken, At, Kept, OfBroadcast
    <2>2. req'[r].kind = q.kind /\ req'[r].at = "send"
        BY <1>11, <1>r, <1>q DEF Taken, Goes, RequestRecords
    <2> QED BY <2>1, <2>2 DEF Spared, Broadcasts
<1>12. CASE Return(r)
    <2>1. req'[r].at = "idle"
        BY <1>12, <1>r DEF Return, NoRequest
    <2> QED BY <2>1, <1>else
<1> QED BY <1>1, <1>2, <1>3, <1>4, <1>5, <1>6, <1>7, <1>8, <1>9, <1>10, <1>11, <1>12 DEF Serve

\* A dialog that opens while a request is on its way is fresh for it; those of
\* other panes belong to other sessions.
LEMMA AskSpares ==
    ASSUME ClickInv, NEW s \in Sessions, NEW p \in Panes, Ask(s, p), NEW r \in Requests
    PROVE  Spared(req[r])'
<1>q. req[r] \in RequestRecords /\ Spared(req[r]) /\ WorldTyped
    BY DEF ClickInv, LocksInv, TypeInv, RequestsTyped
<1>1. /\ front' = front /\ front[p] = s /\ dialog' = dialog \cup {p}
      /\ status' = [status EXCEPT ![s] = "prompt"]
    BY DEF Ask
<1>2. pane[s] = p
    BY <1>1, <1>q, ActionParameters DEF WorldTyped
<1>3. ASSUME NEW o \in Panes, o # p, Prompting(o)' PROVE Prompting(o)
    <2>1. o \in dialog /\ front[o] \in Sessions
        BY <1>1, <1>3 DEF Prompting, ClickInv
    <2>2. front[o] # s
        BY <2>1, <1>2, <1>3, <1>q, ActionParameters DEF WorldTyped
    <2>3. status'[front[o]] = status[front[o]]
        BY <1>1, <1>q, <2>1, <2>2 DEF WorldTyped
    <2> QED BY <1>1, <1>3, <2>1, <2>3 DEF Prompting
<1>4. /\ req'[r].at = req[r].at /\ req'[r].kind = req[r].kind /\ req'[r].targets = req[r].targets
      /\ req[r].fresh \subseteq req'[r].fresh
      /\ req[r].at \in {"lock", "send"} => p \in req'[r].fresh
    BY <1>q DEF Ask, RequestRecords
<1>5. \A t \in req[r].targets : t.pane \in Panes
    BY <1>q DEF RequestRecords, Targets
<1> QED BY <1>3, <1>4, <1>5, <1>q DEF Spared

LEMMA NextSpares == ClickInv /\ [Next]_vars => ClickInv'
<1> SUFFICES ASSUME ClickInv, [Next]_vars PROVE ClickInv'
    OBVIOUS
<1>0. LocksInv'
    BY NextLocks DEF ClickInv
<1>r. req \in [Requests -> RequestRecords]
    BY DEF ClickInv, LocksInv, TypeInv, RequestsTyped
<1>same. ASSUME Calms, req' = req PROVE ClickInv'
    BY <1>0, <1>same, SparedCalm DEF ClickInv, Calms
<1>1. CASE \E a \in Requests : Arrive(a) \/ Serve(a)
    <2>1. PICK a \in Requests : Arrive(a) \/ Serve(a)
        BY <1>1
    <2>2. Calms /\ Spared(req[a])'
        BY <2>1, ServeCalms, ServeSpares
    <2>3. \A r \in Requests \ {a} : Spared(req[r])'
        BY <2>1, <2>2, <1>r, ServeFrame, SparedCalm
    <2> QED BY <1>0, <2>2, <2>3 DEF ClickInv, Calms
<1>2. CASE \E s \in Sessions, p \in Panes : Ask(s, p)
    <2>1. PICK s \in Sessions, p \in Panes : Ask(s, p)
        BY <1>2
    <2>2. \A r \in Requests : Spared(req[r])'
        BY <2>1, AskSpares
    <2>3. \A o \in dialog' : front'[o] \in Sessions
        BY <2>1 DEF Ask, ClickInv
    <2> QED BY <1>0, <2>2, <2>3 DEF ClickInv
<1>3. CASE \E s \in Sessions, to \in {"waiting", "working"} : Hear(s, to)
    <2>1. PICK s \in Sessions : \E to \in {"waiting", "working"} : Hear(s, to)
        BY <1>3
    <2>2. pane[s] \in Panes /\ req' = req
        BY <2>1 DEF Hear, ClickInv, LocksInv, TypeInv, WorldTyped
    <2> QED BY <2>1, <2>2, <1>same, WorldCalms
<1>4. CASE \E s \in Sessions, p \in Panes : Answer(s, p) \/ TakeOver(s, p) \/ Nest(s, p)
    <2>1. PICK s \in Sessions, p \in Panes : Answer(s, p) \/ TakeOver(s, p) \/ Nest(s, p)
        BY <1>4
    <2>2. req' = req
        BY <2>1 DEF Answer, TakeOver, Nest
    <2> QED BY <2>1, <2>2, <1>same, WorldCalms
<1>5. CASE (\E d \in exists : RemoveWorktree(d)) \/ UNCHANGED vars
    <2>1. UNCHANGED <<status, front, dialog, req>>
        BY <1>5 DEF RemoveWorktree, vars
    <2>2. Calms
        BY <2>1 DEF Calms, Prompting, ClickInv
    <2> QED BY <2>1, <2>2, <1>same
<1> QED BY <1>1, <1>2, <1>3, <1>4, <1>5 DEF Next

\* Only SendKeys starts to type for a row.
LEMMA OnlySendKeysTypes ==
    ASSUME LocksInv, Next, NEW r \in Requests, NEW t \in Typing(r)' \ Typing(r)
    PROVE  req[r].at = "send" /\ t \in req[r].targets
<1>r. req \in [Requests -> RequestRecords]
    BY DEF LocksInv, TypeInv, RequestsTyped
<1>q. req[r] \in RequestRecords
    BY <1>r
<1>same. req'[r].sending \subseteq req[r].sending => FALSE
    BY DEF Typing
<1>1. CASE \E a \in Requests \ {r} : Arrive(a) \/ Serve(a)
    BY <1>1, <1>r, <1>same, ServeFrame
<1>2. CASE Arrive(r) \/ Return(r)
    <2>1. Arrive(r) => req'[r].sending = {}
        BY <1>r DEF Arrive, NoRequest
    <2>2. Return(r) => req'[r].sending = {}
        BY <1>r DEF Return, NoRequest
    <2> QED BY <1>2, <1>same, <2>1, <2>2
<1>3. CASE LockSession(r) \/ LockWorktree(r) \/ LockBroadcast(r)
    <2>1. PICK key, next : Acquires(r, key, next)
        BY <1>3 DEF LockSession, LockWorktree, LockBroadcast
    <2> QED BY <2>1, <1>r, <1>q, <1>same DEF Acquires, Goes, RequestRecords
<1>4. CASE CheckPrompt(r) \/ End(r) \/ Start(r) \/ Exit(r) \/ Taken(r) \/ Report(r)
    <2>1. PICK at : Goes(r, at)
        BY <1>4 DEF CheckPrompt, End, Start, Exit, Taken, Report
    <2> QED BY <2>1, <1>r, <1>q, <1>same DEF Goes, RequestRecords
<1>5. CASE ReadPane(r)
    BY <1>5, <1>r, <1>q, <1>same DEF ReadPane, RequestRecords
<1>6. CASE ReadRoster(r)
    BY <1>6, <1>r, <1>q, <1>same DEF ReadRoster, RequestRecords
<1>7. CASE \E u \in req[r].todo : Take(r, u)
    BY <1>7, <1>r, <1>q, <1>same DEF Take, RequestRecords
<1>8. CASE \E u \in req[r].sending : Sent(r, u)
    BY <1>8, <1>r, <1>q, <1>same DEF Sent, RequestRecords
<1>9. CASE \E u \in req[r].targets : SendKeys(r, u)
    <2>1. PICK u \in req[r].targets : SendKeys(r, u)
        BY <1>9
    <2>2. req'[r].sending = req[r].sending \cup {u} /\ req[r].at = "send"
        BY <2>1, <1>r, <1>q DEF SendKeys, At, RequestRecords
    <2> QED BY <2>1, <2>2 DEF Typing
<1>10. CASE \/ \E s \in Sessions, to \in {"waiting", "working"} : Hear(s, to)
            \/ \E s \in Sessions, p \in Panes : Answer(s, p) \/ TakeOver(s, p) \/ Nest(s, p)
            \/ \E d \in exists : RemoveWorktree(d)
    BY <1>10, <1>same DEF Hear, Answer, TakeOver, Nest, RemoveWorktree
<1>11. CASE \E s \in Sessions, p \in Panes : Ask(s, p)
    BY <1>11, <1>q, <1>same DEF Ask, RequestRecords
<1> QED BY <1>1, <1>2, <1>3, <1>4, <1>5, <1>6, <1>7, <1>8, <1>9, <1>10, <1>11 DEF Next, Serve

\* A click's reload-plugins or rebase never types into a dialog that was on the
\* roster when it was read, for any number of rows in the pane, of requests, and
\* of sessions that come to own the pane on the way.
THEOREM ClicksSparePrompts == Spec => ClickSparesPrompts
<1>1. Init => ClickInv
    <2>1. \A r \in Requests : Init => Spared(req[r])
        BY DEF Init, NoRequest, Spared
    <2> QED BY InitLocks, <2>1 DEF Init, ClickInv
<1>2. ClickInv /\ [Next]_vars =>
        [\A r \in Requests : \A t \in Typing(r)' \ Typing(r) :
           req[r].kind = "reload-plugins" => ~KnownPrompt(r, t.pane)]_vars
    <2> SUFFICES ASSUME ClickInv, Next, NEW r \in Requests, NEW t \in Typing(r)' \ Typing(r),
                        req[r].kind = "reload-plugins", KnownPrompt(r, t.pane)
                 PROVE  FALSE
        OBVIOUS
    <2>1. req[r].at = "send" /\ t \in req[r].targets
        BY OnlySendKeysTypes DEF ClickInv
    <2> QED BY <2>1 DEF ClickInv, Spared, Prompting, KnownPrompt
<1> QED BY <1>1, <1>2, NextSpares, PTL DEF Spec, ClickSparesPrompts
=============================================================================
