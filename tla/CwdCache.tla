------------------------------ MODULE CwdCache ------------------------------
(***************************************************************************)
(* cwdCache (server.go): lookups by key - a worktree's CI verdict, its      *)
(* GitHub repo, a PR's final state - kept for a TTL, shared by the requests *)
(* of every dashboard tab.  Each request is a goroutine: it captures now,   *)
(* and calls get some time later.  A critical section of c.mu is one step.  *)
(*                                                                         *)
(* What a lookup finds is abstracted to the instant at which it found it,   *)
(* a failed lookup included, since a failure is cached as any value is.     *)
(***************************************************************************)
EXTENDS Integers, FiniteSets

CONSTANTS
    Keys,
    Getters,          \* concurrent calls of get
    TTL,              \* c.ttl
    ForceMinInterval, \* ciForceMinInterval
    MaxClock,         \* bound: the last instant
    None

Instants == 0..MaxClock
Entries  == [val : Instants, at : Instants]

ASSUME CacheParameters ==
    /\ {TTL, ForceMinInterval, MaxClock} \subseteq Nat
    /\ TTL > 0 /\ ForceMinInterval > 0
    /\ None \notin Nat \cup Getters \cup Entries

VARIABLES
    clock,
    m,        \* the entry of each key: val, and the instant at it is stamped with
    forcedAt, \* the last effective expire, None before one
    inflight, \* the getter whose lookup of a key the others wait for
    call      \* each getter's call of get

vars == <<clock, m, forcedAt, inflight, call>>

-----------------------------------------------------------------------------
\* A call: its stage, key and now; the last expire when it entered the cache
\* (history, for the properties); the flight it waits for, its own included,
\* and its answer.
NoCall == [at |-> "idle", key |-> None, now |-> None, forced |-> None,
           flight |-> None, val |-> None]

At(g, at) == call[g].at = at

Expired(e, now) == now - e.at >= TTL \/ (forcedAt # None /\ e.at < forcedAt)

Fresh(k, now) == m[k] # None /\ ~Expired(m[k], now)

\* A request captures now and works its way to get.
Request(g, k) ==
    /\ At(g, "idle")
    /\ call' = [call EXCEPT ![g] = [at |-> "called", key |-> k, now |-> clock,
                                     forced |-> None, flight |-> None, val |-> None]]
    /\ UNCHANGED <<clock, m, forcedAt, inflight>>

Enter(g, at, flight, val) ==
    call' = [call EXCEPT ![g] = [at |-> at, key |-> call[g].key, now |-> call[g].now,
                                 forced |-> forcedAt, flight |-> flight, val |-> val]]

\* get's first critical section: serve the entry, ...
Hit(g) ==
    /\ At(g, "called")
    /\ Fresh(call[g].key, call[g].now)
    /\ Enter(g, "returned", None, m[call[g].key].val)
    /\ UNCHANGED <<clock, m, forcedAt, inflight>>

\* ... or wait for the lookup in flight, ...
Join(g) ==
    /\ At(g, "called")
    /\ ~Fresh(call[g].key, call[g].now)
    /\ inflight[call[g].key] # None
    /\ Enter(g, "waiting", inflight[call[g].key], None)
    /\ UNCHANGED <<clock, m, forcedAt, inflight>>

\* Mutant: whether a lookup is in flight is not asked.
MutLead(g) ==
    /\ At(g, "called")
    /\ ~Fresh(call[g].key, call[g].now)
    /\ Enter(g, "looking", g, None)
    /\ inflight' = [inflight EXCEPT ![call[g].key] = g]
    /\ UNCHANGED <<clock, m, forcedAt>>

\* ... or start one.
Lead(g) ==
    /\ At(g, "called")
    /\ ~Fresh(call[g].key, call[g].now)
    /\ inflight[call[g].key] = None
    /\ Enter(g, "looking", g, None)
    /\ inflight' = [inflight EXCEPT ![call[g].key] = g]
    /\ UNCHANGED <<clock, m, forcedAt>>

\* The subprocess reads the outside world once, and ends later.
Read(g) ==
    /\ At(g, "looking")
    /\ call' = [call EXCEPT ![g].val = clock, ![g].at = "read"]
    /\ UNCHANGED <<clock, m, forcedAt, inflight>>

\* Mutant: the deferred clean-up is skipped when the lookup panics.
MutPanic(g) ==
    /\ At(g, "looking")
    /\ call' = [call EXCEPT ![g].at = "returned"]
    /\ UNCHANGED <<clock, m, forcedAt, inflight>>

\* A panicking lookup stores nothing; the deferred clean-up still runs.
Panic(g) ==
    /\ At(g, "looking")
    /\ call' = [call EXCEPT ![g].at = "stored"]
    /\ UNCHANGED <<clock, m, forcedAt, inflight>>

\* Mutant: the entry is stamped with the time of the store.
MutStore(g) ==
    /\ At(g, "read")
    /\ m' = [m EXCEPT ![call[g].key] = [val |-> call[g].val, at |-> clock]]
    /\ call' = [call EXCEPT ![g].at = "stored"]
    /\ UNCHANGED <<clock, forcedAt, inflight>>

Store(g) ==
    /\ At(g, "read")
    /\ m' = [m EXCEPT ![call[g].key] = [val |-> call[g].val, at |-> call[g].now]]
    /\ call' = [call EXCEPT ![g].at = "stored"]
    /\ UNCHANGED <<clock, forcedAt, inflight>>

Unlink(g) ==
    /\ At(g, "stored")
    /\ inflight' = [inflight EXCEPT ![call[g].key] = None]
    /\ call' = [call EXCEPT ![g].at = "unlinked"]
    /\ UNCHANGED <<clock, m, forcedAt>>

Waiting(g) == {h \in Getters : At(h, "waiting") /\ call[h].flight = g}

\* close(f.done) hands f.val to whoever joined the flight.
Close(g) ==
    /\ At(g, "unlinked")
    /\ call' = [h \in Getters |->
                  IF h = g THEN [call[h] EXCEPT !.at = "returned"]
                  ELSE IF h \in Waiting(g) THEN [call[h] EXCEPT !.at = "returned", !.val = call[g].val]
                  ELSE call[h]]
    /\ UNCHANGED <<clock, m, forcedAt, inflight>>

\* The render is done with the answer.
Leave(g) ==
    /\ At(g, "returned")
    /\ call' = [call EXCEPT ![g] = NoCall]
    /\ UNCHANGED <<clock, m, forcedAt, inflight>>

\* A tab's "refresh CI".
expire ==
    /\ \A t \in {forcedAt} \ {None} : clock - t >= ForceMinInterval
    /\ forcedAt' = clock
    /\ UNCHANGED <<clock, m, inflight, call>>

Tick ==
    /\ clock < MaxClock
    /\ clock' = clock + 1
    /\ UNCHANGED <<m, forcedAt, inflight, call>>

Call(g) ==
    \/ Hit(g) \/ Join(g) \/ Lead(g) \/ Read(g) \/ Panic(g)
    \/ Store(g) \/ Unlink(g) \/ Close(g)

Init ==
    /\ clock = 0
    /\ m = [k \in Keys |-> None]
    /\ forcedAt = None
    /\ inflight = [k \in Keys |-> None]
    /\ call = [g \in Getters |-> NoCall]

Next ==
    \/ \E g \in Getters : Call(g) \/ Leave(g) \/ (\E k \in Keys : Request(g, k))
    \/ expire \/ Tick

Spec == Init /\ [][Next]_vars

\* Goroutines are scheduled fairly, and every lookup has a timeout.
FairSpec == Spec /\ \A g \in Getters : WF_vars(Call(g))

-----------------------------------------------------------------------------
Stages   == {"idle", "called", "waiting", "looking", "read", "stored", "unlinked", "returned"}
LookingUp == {"looking", "read", "stored"}

CallRecords ==
    [at : Stages, key : Keys \cup {None}, now : Instants \cup {None},
     forced : Instants \cup {None},
     flight : Getters \cup {None}, val : Instants \cup {None}]

\* Every variable holds a value of its kind, and a call that waits does so for
\* a flight that has yet to be closed.
TypeOK ==
    /\ clock \in Instants
    /\ m \in [Keys -> Entries \cup {None}]
    /\ forcedAt \in Instants \cup {None}
    /\ inflight \in [Keys -> Getters \cup {None}]
    /\ call \in [Getters -> CallRecords]
    /\ \A g \in Getters : At(g, "waiting") =>
        /\ call[g].flight \in Getters
        /\ call[call[g].flight].at \in LookingUp \cup {"unlinked"}
        /\ call[call[g].flight].key = call[g].key

\* An answer served from the cache was found within the TTL before the caller's
\* now, and not before the expire that preceded the call: a lookup that an
\* expire overtakes leaves an entry that the next get refuses (server.go:596).
\* A call that joins a lookup in flight may be answered from before the expire.
HitIsFresh ==
    \A g \in Getters : At(g, "returned") /\ call[g].flight = None =>
        /\ call[g].now - call[g].val < TTL
        /\ call[g].forced # None => call[g].val >= call[g].forced

\* A lookup never overwrites an entry with something found earlier, however
\* long it ran and however old its request: there is one lookup at a time.
EntriesNeverGoBack ==
    [][\A k \in Keys : m[k] # None => m'[k] # None /\ m'[k].val >= m[k].val]_m

\* Every get returns, panics of lookups included (server.go:648).
Answered == \A g \in Getters : At(g, "called") ~> At(g, "returned")
=============================================================================
