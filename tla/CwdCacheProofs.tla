--------------------------- MODULE CwdCacheProofs ---------------------------
(***************************************************************************)
(* Proofs about CwdCache, for any number of keys and of concurrent gets, any *)
(* TTL and any interval between forced refreshes.                           *)
(***************************************************************************)
EXTENDS CwdCache, TLAPS

Typed ==
    /\ clock \in Instants
    /\ m \in [Keys -> Entries \cup {None}]
    /\ forcedAt \in Instants \cup {None}
    /\ inflight \in [Keys -> Getters \cup {None}]
    /\ call \in [Getters -> CallRecords]

Looks(g) == call[g].at \in LookingUp

\* A lookup reads after its call began, an entry is stamped no later than it was
\* found, and nothing is found in the future.
Ordered ==
    /\ \A k \in Keys : m[k] # None => m[k].at =< m[k].val /\ m[k].val =< clock
    /\ \A g \in Getters : ~At(g, "idle") =>
        /\ call[g].key \in Keys /\ call[g].now \in Instants
        /\ call[g].now =< clock

\* A key is being looked up by the getter the others wait for, and no other.
OneFlight ==
    \A g \in Getters :
        /\ Looks(g) => inflight[call[g].key] = g
        /\ \A k \in Keys : inflight[k] = g => Looks(g) /\ call[g].key = k

\* What a lookup read is no older than the entry it will replace.
Newer ==
    \A g \in Getters : At(g, "read") =>
        /\ call[g].val \in Instants /\ call[g].now =< call[g].val /\ call[g].val =< clock
        /\ m[call[g].key] # None => m[call[g].key].val =< call[g].val

\* A call is of its own flight or waits for one that is not closed.
Flights ==
    \A g \in Getters :
        /\ Looks(g) \/ At(g, "unlinked") => call[g].flight = g
        /\ At(g, "waiting") =>
            /\ call[g].flight \in Getters
            /\ Looks(call[g].flight) \/ At(call[g].flight, "unlinked")
            /\ call[call[g].flight].key = call[g].key

\* HitIsFresh, of values that are instants.
Hits ==
    \A g \in Getters : At(g, "returned") /\ call[g].flight = None =>
        /\ call[g].val \in Instants
        /\ call[g].now - call[g].val < TTL
        /\ call[g].forced # None => call[g].val >= call[g].forced

CacheInv == Typed /\ Ordered /\ OneFlight /\ Newer /\ Flights /\ Hits

LEMMA Constants == /\ TTL \in Nat /\ TTL > 0 /\ ForceMinInterval \in Nat /\ MaxClock \in Nat
                   /\ None \notin Nat /\ None \notin Getters /\ None \notin Entries
BY CacheParameters

LEMMA InvTyped == CacheInv => TypeOK /\ HitIsFresh
BY DEF CacheInv, Typed, Flights, Hits, TypeOK, HitIsFresh, Looks, At, LookingUp

LEMMA InitInv == Init => CacheInv
<1> SUFFICES ASSUME Init PROVE CacheInv
    OBVIOUS
<1>1. NoCall \in CallRecords /\ NoCall.at = "idle"
    BY DEF NoCall, CallRecords, Stages
<1>2. Typed
    BY <1>1, Constants DEF Init, Typed, Instants
<1>3. \A g \in Getters : At(g, "idle") /\ call[g].at = "idle"
    BY <1>1 DEF Init, At
<1>4. \A k \in Keys : inflight[k] = None /\ m[k] = None
    BY DEF Init
<1> QED BY <1>2, <1>3, <1>4, Constants
        DEF CacheInv, Ordered, OneFlight, Newer, Flights, Hits, Looks, LookingUp, At

\* The fields of a call's record.
LEMMA CallFields ==
    ASSUME Typed, NEW g \in Getters
    PROVE  /\ call[g] \in CallRecords
           /\ call[g].at \in Stages
           /\ call[g].key \in Keys \cup {None}
           /\ call[g].now \in Instants \cup {None}
           /\ call[g].forced \in Instants \cup {None}
           /\ call[g].flight \in Getters \cup {None}
           /\ call[g].val \in Instants \cup {None}
BY DEF Typed, CallRecords

LEMMA EntryFields ==
    ASSUME Typed, NEW k \in Keys, m[k] # None
    PROVE  m[k] \in Entries /\ m[k].val \in Nat /\ m[k].at \in Nat
           /\ m[k].val \in Instants /\ m[k].at \in Instants
BY Constants DEF Typed, Entries, Instants

-----------------------------------------------------------------------------
(* Steps of one call that touch neither the entries nor the flights. *)

\* A call that looks nothing up, before and after, with nobody waiting for it.
LEMMA QuietStep ==
    ASSUME CacheInv, NEW g \in Getters, NEW x \in CallRecords,
           call' = [call EXCEPT ![g] = x],
           UNCHANGED <<clock, m, forcedAt, inflight>>,
           ~Looks(g), ~At(g, "unlinked"),
           x.at \in {"idle", "called", "waiting", "returned"},
           x.at # "idle" => x.key \in Keys /\ x.now \in Instants /\ x.now =< clock,
           x.at = "waiting" => /\ x.flight \in Getters
                               /\ Looks(x.flight) \/ At(x.flight, "unlinked")
                               /\ call[x.flight].key = x.key,
           x.at = "returned" /\ x.flight = None =>
               /\ x.val \in Instants /\ x.now - x.val < TTL
               /\ x.forced # None => x.val >= x.forced
    PROVE  CacheInv'
<1>1. Typed'
    BY DEF CacheInv, Typed
<1>2. /\ call'[g] = x
      /\ \A h \in Getters : h # g => call'[h] = call[h]
    BY DEF CacheInv, Typed
<1>3. Ordered'
    BY <1>2 DEF CacheInv, Ordered, At
<1>4. OneFlight'
    BY <1>2 DEF CacheInv, OneFlight, Looks, LookingUp
<1>5. Newer'
    BY <1>2 DEF CacheInv, Newer, At
<1>6. Flights'
    BY <1>2 DEF CacheInv, Flights, At, Looks, LookingUp
<1>7. Hits'
    BY <1>2 DEF CacheInv, Hits, At
<1> QED BY <1>1, <1>3, <1>4, <1>5, <1>6, <1>7 DEF CacheInv

LEMMA RequestInv ==
    ASSUME CacheInv, NEW g \in Getters, NEW k \in Keys, Request(g, k)
    PROVE  CacheInv'
<1> DEFINE x == [at |-> "called", key |-> k, now |-> clock,
                 forced |-> None, flight |-> None, val |-> None]
<1>1. call' = [call EXCEPT ![g] = x] /\ UNCHANGED <<clock, m, forcedAt, inflight>>
    BY DEF Request
<1>2. clock \in Instants /\ clock =< clock
    BY Constants DEF CacheInv, Typed, Instants
<1>3. x \in CallRecords /\ x.at = "called" /\ x.key = k /\ x.now = clock
    BY <1>2 DEF CallRecords, Stages
<1>4. ~Looks(g) /\ ~At(g, "unlinked")
    BY DEF Request, At, Looks, LookingUp
<1> HIDE DEF x
<1> QED BY <1>1, <1>2, <1>3, <1>4, QuietStep

LEMMA HitInv ==
    ASSUME CacheInv, NEW g \in Getters, Hit(g)
    PROVE  CacheInv'
<1> DEFINE k == call[g].key
           x == [at |-> "returned", key |-> k, now |-> call[g].now,
                 forced |-> forcedAt, flight |-> None, val |-> m[k].val]
<1>1. call' = [call EXCEPT ![g] = x] /\ UNCHANGED <<clock, m, forcedAt, inflight>>
    BY DEF Hit, Enter
<1>2. ~Looks(g) /\ ~At(g, "unlinked") /\ ~At(g, "idle")
    BY DEF Hit, At, Looks, LookingUp
<1>3. k \in Keys /\ call[g].now \in Instants /\ call[g].now =< clock
    BY <1>2 DEF CacheInv, Ordered
<1>4. /\ m[k] # None /\ call[g].now - m[k].at < TTL
      /\ forcedAt # None => forcedAt =< m[k].at
    <2>1. m[k] # None /\ ~(call[g].now - m[k].at >= TTL)
          /\ ~(forcedAt # None /\ m[k].at < forcedAt)
        BY DEF Hit, Fresh, Expired
    <2>2. m[k].at \in Nat /\ call[g].now \in Nat
        BY <1>3, <2>1, EntryFields, Constants DEF CacheInv, Instants
    <2>3. forcedAt # None => forcedAt \in Nat
        BY Constants DEF CacheInv, Typed, Instants
    <2> QED BY <2>1, <2>2, <2>3, Constants
<1>5. m[k].val \in Instants /\ m[k].at \in Instants /\ m[k].at =< m[k].val
    BY <1>3, <1>4, EntryFields DEF CacheInv, Ordered
<1>6. /\ call[g].now - m[k].val < TTL
      /\ forcedAt # None => m[k].val >= forcedAt
    <2>1. forcedAt # None => forcedAt \in Nat
        BY Constants DEF CacheInv, Typed, Instants
    <2> QED BY <1>3, <1>4, <1>5, <2>1, Constants DEF Instants
<1>7. /\ x \in CallRecords /\ x.at = "returned" /\ x.key = k /\ x.now = call[g].now
      /\ x.val = m[k].val /\ x.forced = forcedAt
    BY <1>3, <1>5 DEF CallRecords, Stages, CacheInv, Typed
<1> HIDE DEF x, k
<1> QED BY <1>1, <1>2, <1>3, <1>5, <1>6, <1>7, QuietStep

LEMMA JoinInv ==
    ASSUME CacheInv, NEW g \in Getters, Join(g)
    PROVE  CacheInv'
<1> DEFINE k == call[g].key
           f == inflight[k]
           x == [at |-> "waiting", key |-> k, now |-> call[g].now,
                 forced |-> forcedAt, flight |-> f, val |-> None]
<1>1. call' = [call EXCEPT ![g] = x] /\ UNCHANGED <<clock, m, forcedAt, inflight>>
    BY DEF Join, Enter
<1>2. ~Looks(g) /\ ~At(g, "unlinked") /\ ~At(g, "idle") /\ f # None
    BY DEF Join, At, Looks, LookingUp
<1>3. k \in Keys /\ call[g].now \in Instants /\ call[g].now =< clock
    BY <1>2 DEF CacheInv, Ordered
<1>4. f \in Getters
    BY <1>2, <1>3 DEF CacheInv, Typed
<1>5. Looks(f) /\ call[f].key = k
    BY <1>3, <1>4 DEF CacheInv, OneFlight
<1>6. /\ x \in CallRecords /\ x.at = "waiting" /\ x.key = k /\ x.now = call[g].now
      /\ x.flight = f
    BY <1>3, <1>4 DEF CallRecords, Stages, CacheInv, Typed
<1> HIDE DEF x, k, f
<1> QED BY <1>1, <1>2, <1>3, <1>4, <1>5, <1>6, QuietStep

LEMMA LeaveInv ==
    ASSUME CacheInv, NEW g \in Getters, Leave(g)
    PROVE  CacheInv'
<1>1. NoCall \in CallRecords /\ NoCall.at = "idle"
    BY DEF NoCall, CallRecords, Stages
<1>2. ~Looks(g) /\ ~At(g, "unlinked")
    BY DEF Leave, At, Looks, LookingUp
<1> QED BY <1>1, <1>2, QuietStep DEF Leave
-----------------------------------------------------------------------------
(* The leader of a flight. *)

\* A lookup starts, so that its key has exactly one.
LEMMA LeadInv ==
    ASSUME CacheInv, NEW g \in Getters, Lead(g)
    PROVE  CacheInv'
<1> DEFINE k == call[g].key
           x == [at |-> "looking", key |-> k, now |-> call[g].now,
                 forced |-> forcedAt, flight |-> g, val |-> None]
<1>1. /\ call' = [call EXCEPT ![g] = x] /\ UNCHANGED <<clock, m, forcedAt>>
      /\ inflight' = [inflight EXCEPT ![k] = g]
    BY DEF Lead, Enter
<1>2. /\ ~Looks(g) /\ ~At(g, "unlinked") /\ ~At(g, "idle")
      /\ inflight[k] = None
    BY DEF Lead, At, Looks, LookingUp
<1>3. k \in Keys /\ call[g].now \in Instants /\ call[g].now =< clock
    BY <1>2 DEF CacheInv, Ordered
<1>4. /\ x \in CallRecords /\ x.at = "looking" /\ x.key = k /\ x.now = call[g].now
      /\ x.flight = g
    BY <1>3 DEF CallRecords, Stages, CacheInv, Typed
<1> HIDE DEF x, k
<1>5. /\ call'[g] = x
      /\ \A h \in Getters : h # g => call'[h] = call[h]
      /\ inflight'[k] = g
      /\ \A l \in Keys : l # k => inflight'[l] = inflight[l]
    BY <1>1, <1>3 DEF CacheInv, Typed
<1>6. Typed'
    BY <1>1, <1>3, <1>4 DEF CacheInv, Typed
<1>7. Ordered'
    BY <1>1, <1>3, <1>4, <1>5 DEF CacheInv, Ordered, At
<1>8. \A h \in Getters : Looks(h) => call[h].key # k
    BY <1>2, Constants DEF CacheInv, OneFlight
<1>9. OneFlight'
    <2>1. \A h \in Getters : Looks(h) => call[h].key \in Keys /\ call[h].key # k
        BY <1>8 DEF CacheInv, Ordered, Looks, LookingUp, At
    <2>2. Looks(g)' /\ \A h \in Getters : h # g => (Looks(h)' <=> Looks(h))
        BY <1>4, <1>5 DEF Looks, LookingUp
    <2>3. \A l \in Keys : inflight[l] # g
        BY <1>2 DEF CacheInv, OneFlight
    <2> QED BY <1>4, <1>5, <2>1, <2>2, <2>3, Constants DEF CacheInv, OneFlight
<1>10. Newer'
    BY <1>1, <1>4, <1>5 DEF CacheInv, Newer, At
<1>11. Flights'
    BY <1>2, <1>4, <1>5 DEF CacheInv, Flights, At, Looks, LookingUp
<1>12. Hits'
    BY <1>4, <1>5 DEF CacheInv, Hits, At
<1> QED BY <1>6, <1>7, <1>9, <1>10, <1>11, <1>12 DEF CacheInv

\* A lookup goes on: it has its key and its flight still.
LEMMA LookStep ==
    ASSUME CacheInv, NEW g \in Getters, Looks(g), NEW x \in CallRecords,
           x.key = call[g].key, x.now = call[g].now, x.flight = call[g].flight,
           x.at \in {"read", "stored"},
           x.at = "read" => x.val = clock,
           call' = [call EXCEPT ![g] = x],
           UNCHANGED <<clock, m, forcedAt, inflight>>
    PROVE  CacheInv'
<1>1. Typed'
    BY DEF CacheInv, Typed
<1>2. /\ call'[g] = x
      /\ \A h \in Getters : h # g => call'[h] = call[h]
    BY DEF CacheInv, Typed
<1>3. ~At(g, "idle") /\ ~At(g, "waiting") /\ ~At(g, "unlinked")
    BY DEF At, Looks, LookingUp
<1>4. Ordered'
    BY <1>2, <1>3 DEF CacheInv, Ordered, At
<1>5. OneFlight'
    BY <1>2 DEF CacheInv, OneFlight, Looks, LookingUp
<1>6. Newer'
    <2>1. call[g].key \in Keys /\ call[g].now =< clock
        BY <1>3 DEF CacheInv, Ordered
    <2>2. m[call[g].key] # None => m[call[g].key].val =< clock
        BY <2>1 DEF CacheInv, Ordered
    <2>3. clock \in Instants /\ clock =< clock
        BY Constants DEF CacheInv, Typed, Instants
    <2> QED BY <1>2, <2>1, <2>2, <2>3 DEF CacheInv, Newer, At
<1>7. Flights'
    BY <1>2, <1>3 DEF CacheInv, Flights, At, Looks, LookingUp
<1>8. Hits'
    BY <1>2 DEF CacheInv, Hits, At
<1> QED BY <1>1, <1>4, <1>5, <1>6, <1>7, <1>8 DEF CacheInv

LEMMA ReadInv ==
    ASSUME CacheInv, NEW g \in Getters, Read(g)
    PROVE  CacheInv'
<1> DEFINE x == [[call[g] EXCEPT !.val = clock] EXCEPT !.at = "read"]
<1>1. Looks(g) /\ UNCHANGED <<clock, m, forcedAt, inflight>>
    BY DEF Read, At, Looks, LookingUp
<1>2. call[g] \in CallRecords /\ call \in [Getters -> CallRecords] /\ clock \in Instants
    BY DEF CacheInv, Typed
<1>3. call' = [call EXCEPT ![g] = x]
    BY <1>2 DEF Read
<1>4. /\ x \in CallRecords /\ x.at = "read" /\ x.val = clock /\ x.key = call[g].key
      /\ x.now = call[g].now /\ x.flight = call[g].flight
    BY <1>2 DEF CallRecords, Stages
<1> HIDE DEF x
<1> QED BY <1>1, <1>3, <1>4, LookStep

LEMMA PanicInv ==
    ASSUME CacheInv, NEW g \in Getters, Panic(g)
    PROVE  CacheInv'
<1> DEFINE x == [call[g] EXCEPT !.at = "stored"]
<1>1. Looks(g) /\ UNCHANGED <<clock, m, forcedAt, inflight>>
    BY DEF Panic, At, Looks, LookingUp
<1>2. call[g] \in CallRecords /\ call \in [Getters -> CallRecords]
    BY DEF CacheInv, Typed
<1>3. call' = [call EXCEPT ![g] = x]
    BY <1>2 DEF Panic
<1>4. /\ x \in CallRecords /\ x.at = "stored" /\ x.key = call[g].key
      /\ x.now = call[g].now /\ x.flight = call[g].flight
    BY <1>2 DEF CallRecords, Stages
<1> HIDE DEF x
<1> QED BY <1>1, <1>3, <1>4, LookStep

\* No other lookup of the key is in progress, so none read earlier than this
\* entry's value is left to store.
LEMMA StoreInv ==
    ASSUME CacheInv, NEW g \in Getters, Store(g)
    PROVE  /\ CacheInv'
           /\ \A k \in Keys : m[k] # None => m'[k] # None /\ m'[k].val >= m[k].val
<1> DEFINE k == call[g].key
           e == [val |-> call[g].val, at |-> call[g].now]
           x == [call[g] EXCEPT !.at = "stored"]
<1>1. /\ Looks(g) /\ At(g, "read") /\ ~At(g, "idle") /\ ~At(g, "waiting")
      /\ UNCHANGED <<clock, forcedAt, inflight>>
      /\ m' = [m EXCEPT ![k] = e]
    BY DEF Store, At, Looks, LookingUp
<1>2. call[g] \in CallRecords /\ call \in [Getters -> CallRecords]
    BY DEF CacheInv, Typed
<1>3. call' = [call EXCEPT ![g] = x]
    BY <1>2 DEF Store
<1>4. /\ x \in CallRecords /\ x.at = "stored" /\ x.key = k
      /\ x.now = call[g].now /\ x.flight = call[g].flight
    BY <1>2 DEF CallRecords, Stages
<1>5. k \in Keys /\ call[g].now \in Instants /\ call[g].now =< clock
    BY <1>1 DEF CacheInv, Ordered
<1>6. /\ call[g].val \in Instants /\ call[g].now =< call[g].val /\ call[g].val =< clock
      /\ m[k] # None => m[k].val =< call[g].val
    BY <1>1 DEF CacheInv, Newer
<1>7. e \in Entries /\ e.val = call[g].val /\ e.at = call[g].now
    BY <1>5, <1>6 DEF Entries
<1> HIDE DEF x, e, k
<1>8. /\ call'[g] = x
      /\ \A h \in Getters : h # g => call'[h] = call[h]
      /\ m'[k] = e
      /\ \A l \in Keys : l # k => m'[l] = m[l]
    BY <1>1, <1>3, <1>5 DEF CacheInv, Typed
<1>9. Typed'
    BY <1>1, <1>3, <1>4, <1>5, <1>7 DEF CacheInv, Typed
<1>10. Ordered'
    BY <1>1, <1>4, <1>5, <1>6, <1>7, <1>8 DEF CacheInv, Ordered, At
<1>11. OneFlight'
    BY <1>1, <1>4, <1>8 DEF CacheInv, OneFlight, Looks, LookingUp, k
<1>12. \A h \in Getters : h # g /\ Looks(h) => call[h].key # k
    BY <1>1 DEF CacheInv, OneFlight, k
<1>13. Newer'
    <2> SUFFICES ASSUME NEW h \in Getters, At(h, "read")'
                 PROVE  /\ call'[h].val \in Instants /\ call'[h].now =< call'[h].val
                        /\ call'[h].val =< clock
                        /\ m'[call'[h].key] # None => m'[call'[h].key].val =< call'[h].val
        BY <1>1 DEF Newer
    <2>1. h # g /\ call'[h] = call[h] /\ At(h, "read")
        BY <1>4, <1>8 DEF At
    <2>2. Looks(h) /\ call[h].key \in Keys /\ call[h].key # k
        BY <2>1, <1>12 DEF At, Looks, LookingUp, CacheInv, Ordered
    <2> QED BY <2>1, <2>2, <1>8 DEF CacheInv, Newer
<1>14. Flights'
    BY <1>1, <1>4, <1>8 DEF CacheInv, Flights, At, Looks, LookingUp, k
<1>15. Hits'
    BY <1>4, <1>8 DEF CacheInv, Hits, At
<1>16. \A l \in Keys : m[l] # None => m'[l] # None /\ m'[l].val >= m[l].val
    <2> TAKE l \in Keys
    <2> HAVE m[l] # None
    <2>1. m[l].val \in Nat
        BY EntryFields DEF CacheInv
    <2>2. CASE l = k
        <3>1. m'[l] # None
            BY <1>7, <1>8, <2>2, Constants
        <3>2. m[l].val =< e.val /\ e.val \in Nat
            BY <1>6, <1>7, <2>2, Constants DEF Instants
        <3> QED BY <1>8, <2>1, <2>2, <3>1, <3>2
    <2>3. CASE l # k
        BY <1>8, <2>1, <2>3
    <2> QED BY <2>2, <2>3
<1> QED BY <1>9, <1>10, <1>11, <1>13, <1>14, <1>15, <1>16 DEF CacheInv

LEMMA UnlinkInv ==
    ASSUME CacheInv, NEW g \in Getters, Unlink(g)
    PROVE  CacheInv'
<1> DEFINE k == call[g].key
           x == [call[g] EXCEPT !.at = "unlinked"]
<1>1. /\ Looks(g) /\ ~At(g, "idle") /\ ~At(g, "waiting")
      /\ UNCHANGED <<clock, m, forcedAt>> /\ inflight' = [inflight EXCEPT ![k] = None]
    BY DEF Unlink, At, Looks, LookingUp
<1>2. call[g] \in CallRecords /\ call \in [Getters -> CallRecords]
    BY DEF CacheInv, Typed
<1>3. call' = [call EXCEPT ![g] = x]
    BY <1>2 DEF Unlink
<1>4. /\ x \in CallRecords /\ x.at = "unlinked" /\ x.key = k
      /\ x.now = call[g].now /\ x.flight = call[g].flight
    BY <1>2 DEF CallRecords, Stages
<1>5. k \in Keys
    BY <1>1 DEF CacheInv, Ordered
<1> HIDE DEF x, k
<1>6. /\ call'[g] = x
      /\ \A h \in Getters : h # g => call'[h] = call[h]
      /\ inflight'[k] = None
      /\ \A l \in Keys : l # k => inflight'[l] = inflight[l]
    BY <1>1, <1>3, <1>5 DEF CacheInv, Typed
<1>7. Typed'
    BY <1>1, <1>3, <1>4 DEF CacheInv, Typed
<1>8. Ordered'
    BY <1>1, <1>4, <1>5, <1>6 DEF CacheInv, Ordered, At
<1>9. \A h \in Getters : h # g /\ Looks(h) => call[h].key # k
    BY <1>1 DEF CacheInv, OneFlight, k
<1>10. \A l \in Keys : inflight[l] = g => l = k
    BY DEF CacheInv, OneFlight, k
<1>11. \A h \in Getters : Looks(h) => call[h].key \in Keys
    BY DEF CacheInv, Ordered, Looks, LookingUp, At
<1>12. OneFlight'
    BY <1>4, <1>5, <1>6, <1>9, <1>10, <1>11, Constants
       DEF CacheInv, OneFlight, Looks, LookingUp
<1>13. Newer'
    BY <1>1, <1>4, <1>6 DEF CacheInv, Newer, At
<1>14. Flights'
    BY <1>1, <1>4, <1>6 DEF CacheInv, Flights, At, Looks, LookingUp, k
<1>15. Hits'
    BY <1>4, <1>6 DEF CacheInv, Hits, At
<1> QED BY <1>7, <1>8, <1>12, <1>13, <1>14, <1>15 DEF CacheInv

\* Everyone that waits for the flight returns with it.
LEMMA CloseInv ==
    ASSUME CacheInv, NEW g \in Getters, Close(g)
    PROVE  CacheInv'
<1>1. /\ At(g, "unlinked") /\ UNCHANGED <<clock, m, forcedAt, inflight>>
      /\ call' = [h \in Getters |->
                    IF h = g THEN [call[h] EXCEPT !.at = "returned"]
                    ELSE IF h \in Waiting(g)
                         THEN [call[h] EXCEPT !.at = "returned", !.val = call[g].val]
                    ELSE call[h]]
    BY DEF Close
<1>2. \A h \in Getters : call[h] \in CallRecords
    BY DEF CacheInv, Typed
<1>3. \A h \in Getters :
        /\ call'[h] \in CallRecords
        /\ call'[h].key = call[h].key /\ call'[h].now = call[h].now
        /\ call'[h].flight = call[h].flight
        /\ (h = g \/ h \in Waiting(g)) => call'[h].at = "returned"
        /\ ~(h = g \/ h \in Waiting(g)) => call'[h] = call[h]
    BY <1>1, <1>2 DEF CallRecords, Stages
<1>4. \A h \in Getters : h = g \/ h \in Waiting(g) =>
        ~Looks(h) /\ ~At(h, "idle") /\ ~At(h, "read") /\ call[h].flight = g
    BY <1>1 DEF Waiting, At, Looks, LookingUp, CacheInv, Flights
<1>5. \A h \in Getters : ~(h = g \/ h \in Waiting(g)) /\ At(h, "waiting") =>
        call[h].flight # g
    BY DEF Waiting
<1>6. \A h \in Getters : At(h, "unlinked") \/ Looks(h) => h \notin Waiting(g)
    BY DEF Waiting, At, Looks, LookingUp
<1>7. Typed'
    <2>1. call' \in [Getters -> CallRecords]
        BY <1>1, <1>3
    <2> QED BY <1>1, <2>1 DEF CacheInv, Typed
<1>8. Ordered'
    BY <1>1, <1>3, <1>4 DEF CacheInv, Ordered, At
<1>9. OneFlight'
    <2>1. \A h \in Getters : Looks(h)' <=> Looks(h)
        BY <1>3, <1>4 DEF Looks, LookingUp
    <2>2. inflight' = inflight
        BY <1>1
    <2>3. \A h \in Getters : call'[h].key = call[h].key
        BY <1>3
    <2>4. OneFlight
        BY DEF CacheInv
    <2> QED BY <2>1, <2>2, <2>3, <2>4 DEF OneFlight
<1>10. Newer'
    BY <1>1, <1>3 DEF CacheInv, Newer, At
<1>11. Flights'
    <2>1. \A h \in Getters : (Looks(h) \/ At(h, "unlinked"))' => call'[h] = call[h]
        BY <1>3 DEF Looks, LookingUp, At
    <2>2. \A h \in Getters : At(h, "waiting")' =>
            call'[h] = call[h] /\ At(h, "waiting") /\ call[h].flight # g
        BY <1>3, <1>5 DEF At
    <2>3. \A h \in Getters : At(h, "waiting") /\ call[h].flight # g =>
            call[h].flight \in Getters /\ call'[call[h].flight] = call[call[h].flight]
        BY <1>3, <1>6 DEF CacheInv, Flights
    <2> QED BY <2>1, <2>2, <2>3 DEF CacheInv, Flights, At, Looks
<1>12. Hits'
    BY <1>3, <1>4, Constants DEF CacheInv, Hits, At
<1> QED BY <1>7, <1>8, <1>9, <1>10, <1>11, <1>12 DEF CacheInv

-----------------------------------------------------------------------------
LEMMA ExpireInv ==
    ASSUME CacheInv, expire
    PROVE  CacheInv'
BY DEF expire, CacheInv, Typed, Ordered, OneFlight, Newer, Flights, Hits, At, Looks

LEMMA TickInv ==
    ASSUME CacheInv, Tick
    PROVE  CacheInv'
<1>1. /\ clock \in Nat /\ clock' = clock + 1 /\ clock' \in Instants
      /\ UNCHANGED <<m, forcedAt, inflight, call>>
    BY Constants DEF CacheInv, Typed, Tick, Instants
<1>2. Typed'
    BY <1>1 DEF CacheInv, Typed
<1>3. Ordered'
    <2>1. \A k \in Keys : m[k] # None => m[k].val \in Instants
        BY EntryFields DEF CacheInv
    <2>2. \A t \in Instants : t =< clock => t =< clock'
        BY <1>1, Constants DEF Instants
    <2> QED BY <1>1, <2>1, <2>2 DEF CacheInv, Ordered, At
<1>4. Newer'
    <2>1. \A t \in Instants : t =< clock => t =< clock'
        BY <1>1, Constants DEF Instants
    <2> QED BY <1>1, <2>1 DEF CacheInv, Newer, At
<1>5. OneFlight' /\ Flights' /\ Hits'
    BY <1>1 DEF CacheInv, OneFlight, Flights, Hits, At, Looks
<1> QED BY <1>2, <1>3, <1>4, <1>5 DEF CacheInv

LEMMA NextInv == CacheInv /\ [Next]_vars => CacheInv'
<1> SUFFICES ASSUME CacheInv, [Next]_vars PROVE CacheInv'
    OBVIOUS
<1>1. ASSUME NEW g \in Getters, Call(g) PROVE CacheInv'
    BY <1>1, HitInv, JoinInv, LeadInv, ReadInv, PanicInv, StoreInv, UnlinkInv, CloseInv
       DEF Call
<1>2. ASSUME NEW g \in Getters, Leave(g) PROVE CacheInv'
    BY <1>2, LeaveInv
<1>3. ASSUME NEW g \in Getters, NEW k \in Keys, Request(g, k) PROVE CacheInv'
    BY <1>3, RequestInv
<1>4. CASE expire
    BY <1>4, ExpireInv
<1>5. CASE Tick
    BY <1>5, TickInv
<1>6. CASE UNCHANGED vars
    BY <1>6 DEF vars, CacheInv, Typed, Ordered, OneFlight, Newer, Flights, Hits, At, Looks
<1> QED BY <1>1, <1>2, <1>3, <1>4, <1>5, <1>6 DEF Next

LEMMA InvAlways == Spec => []CacheInv
BY InitInv, NextInv, PTL DEF Spec

\* A call that waits does so for a flight of its key that is not closed
\* (server.go:634-644).
THEOREM CacheTyping == Spec => []TypeOK
<1>1. CacheInv => TypeOK
    BY InvTyped
<1> QED BY <1>1, InvAlways, PTL

\* What the cache serves is within the TTL and, after a forced refresh, was found
\* since, also when a lookup that began before it ends after it (server.go:596).
THEOREM HitsAreFresh == Spec => []HitIsFresh
<1>1. CacheInv => HitIsFresh
    BY InvTyped
<1> QED BY <1>1, InvAlways, PTL

\* No lookup replaces an entry by something found earlier (server.go:634-657).
THEOREM NeverBack == Spec => EntriesNeverGoBack
<1>1. ASSUME CacheInv, [Next]_vars
      PROVE  [\A k \in Keys : m[k] # None => m'[k] # None /\ m'[k].val >= m[k].val]_m
    <2>1. CASE \E g \in Getters : Store(g)
        BY <1>1, <2>1, StoreInv
    <2>2. CASE UNCHANGED m
        BY <2>2
    <2> QED BY <1>1, <2>1, <2>2
        DEF Next, vars, Call, Hit, Join, Lead, Enter, Read, Panic, Unlink, Close, Leave, Request,
            expire, Tick
<1> QED BY <1>1, InvAlways, PTL DEF Spec, EntriesNeverGoBack
=============================================================================
