-------------------------------- MODULE Feed --------------------------------
(***************************************************************************)
(* The Recent events of a page: the newest events (queryEvents), each tool  *)
(* call folded into one row (foldToolEvents), and the colour that tells the *)
(* rows and events of a session from the others' (assignSessColors).        *)
(*                                                                         *)
(* The log is kept oldest first, an event's id being its place in it.       *)
(* Filters by source or branch leave out whole sessions, and are left out   *)
(* here.                                                                    *)
(***************************************************************************)
EXTENDS Integers, SequencesExt

CONSTANTS
    Calls,     \* tool_use_ids
    NoCall,    \* the tool_use_id of an event that has none
    LogLength, \* bound: the events in the log
    Limit,     \* how many of them the page asks for
    Chips,     \* session ids
    Colors     \* the length of sessPalette

ASSUME FeedParameters ==
    /\ NoCall \notin Calls
    /\ Calls \cap Nat = {}    \* an event's id is no call's
    /\ {LogLength, Limit, Colors} \subseteq Nat /\ Colors > 0
    /\ IsFiniteSet(Chips)

LogEvents ==
    [call : Calls, type : {"PreToolUse", "PostToolUse", "PostToolUseFailure"}]
    \cup [call : {NoCall}, type : {"Stop"}]

Logs == BoundedSeq(LogEvents, LogLength)

-----------------------------------------------------------------------------
\* The newest of the log, newest first.
queryEvents(log) ==
    [i \in 1..Min({Limit, Len(log)}) |->
        LET id == Len(log) - i + 1 IN [id |-> id, call |-> log[id].call, type |-> log[id].type]]

\* The first event of a call, in the order of the page, of one of these types.
FirstOf(events, call, types) ==
    LET S == {i \in DOMAIN events : events[i].call = call /\ events[i].type \in types}
    IN  IF S = {} THEN 0 ELSE Min(S)

Pre(events, call) == FirstOf(events, call, {"PreToolUse"})

\* Mutant: a failure is not taken for a result.
MutResolved(events, call) == FirstOf(events, call, {"PostToolUse"})

Resolved(events, call) == FirstOf(events, call, {"PostToolUse", "PostToolUseFailure"})

Outcome(events, call) ==
    LET i == Resolved(events, call)
    IN  CASE call = NoCall -> ""
          [] call # NoCall /\ i = 0 -> "running"
          [] OTHER -> IF events[i].type = "PostToolUseFailure" THEN "failed" ELSE "ok"

\* Mutant: a row is where its call was last heard of.
MutSkips(events, rows, i) ==
    events[i].call # NoCall /\ \E k \in DOMAIN rows : rows[k].call = events[i].call

\* An event of a call that has a row, or will have it further down, at its start.
Skips(events, rows, i) ==
    /\ events[i].call # NoCall
    /\ \/ \E k \in DOMAIN rows : rows[k].call = events[i].call
       \/ Pre(events, events[i].call) # 0 /\ events[i].type # "PreToolUse"

RowOf(events, i) ==
    [id |-> events[i].id, call |-> events[i].call, outcome |-> Outcome(events, events[i].call)]

foldToolEvents(events) ==
    LET rows[i \in 0..Len(events)] ==  \* the rows of the first i events
            IF i = 0 THEN <<>>
            ELSE IF Skips(events, rows[i - 1], i) THEN rows[i - 1]
            ELSE Append(rows[i - 1], RowOf(events, i))
    IN  rows[Len(events)]

-----------------------------------------------------------------------------
\* Mutant: the sessions of the log go first.
MutOrdered(agents, logged) == logged \o agents

\* The sessions to colour: the rows' in the order they arrived, then the log's.
\* One that was there before is passed over below.
Ordered(agents, logged) == agents \o logged

\* The slot a session gets: the first free one from its own on, its own when
\* there is none.
Probe(start, used) ==
    LET free == {i \in 0..Colors - 1 : (start + i) % Colors \notin used}
    IN  IF free = {} THEN start ELSE (start + Min(free)) % Colors

\* The colours once s has one.
Give(out, s, start) ==
    IF s \in DOMAIN out THEN out
    ELSE [t \in DOMAIN out \cup {s} |-> IF t = s THEN Probe(start, Range(out)) ELSE out[t]]

assignSessColors(agents, logged, sessIndex) ==
    LET ids == Ordered(agents, logged)
        out[i \in 0..Len(ids)] ==
            IF i = 0 THEN <<>> ELSE Give(out[i - 1], ids[i], sessIndex[ids[i]])
    IN  out[Len(ids)]

-----------------------------------------------------------------------------
(* The feeds and boards to look at. *)

Calling(log) == {log[id].call : id \in DOMAIN log} \ {NoCall}

\* The ids of a call's events of a type.
Heard(log, call, types) == {id \in DOMAIN log : log[id].call = call /\ log[id].type \in types}

Results == {"PostToolUse", "PostToolUseFailure"}

\* Every call started once before its one end, as Claude Code's hooks have it
\* when none is late.
InOrder(log) ==
    \A c \in Calling(log) :
        /\ Cardinality(Heard(log, c, {"PreToolUse"})) = 1
        /\ Cardinality(Heard(log, c, Results)) =< 1
        /\ \A a \in Heard(log, c, {"PreToolUse"}), b \in Heard(log, c, Results) : a < b

\* What tells a row from another, from one page to the next.
Keys(rows) == [k \in DOMAIN rows |-> IF rows[k].call = NoCall THEN rows[k].id ELSE rows[k].call]

Page(log) == foldToolEvents(queryEvents(log))

\* Those among the newest events.
Seen(log, call, types) == {id \in Heard(log, call, types) : id > Len(log) - Limit}

\* What the log says of a call.
TrueOutcome(log, call) ==
    IF Heard(log, call, Results) = {} THEN "running"
    ELSE IF Heard(log, call, {"PostToolUseFailure"}) # {} THEN "failed" ELSE "ok"

\* A page has each call and each other event among the newest once, the newest
\* first.  In any log, a call is at its start, the last one if a hook was retried,
\* or at its last result when its start is not among the newest; and it is said to
\* run until a result is among them, then to have ended as the last of them says.
\* If no hook was late, lost or retried, that is the truth for the whole log.
Faithful(log) ==
    LET rows   == Page(log)
        window == {id \in DOMAIN log : id > Len(log) - Limit}
    IN  /\ \A j, k \in DOMAIN rows : j < k => rows[j].id > rows[k].id /\ Keys(rows)[j] # Keys(rows)[k]
        /\ Range(Keys(rows)) = {IF log[id].call = NoCall THEN id ELSE log[id].call : id \in window}
        /\ \A row \in Range(rows) : row.call # NoCall =>
            LET starts == Seen(log, row.call, {"PreToolUse"})
                ends   == Seen(log, row.call, Results)
            IN  /\ row.id = Max(IF starts # {} THEN starts ELSE ends)
                /\ row.outcome = IF ends = {} THEN "running"
                                 ELSE IF log[Max(ends)].type = "PostToolUseFailure" THEN "failed" ELSE "ok"
                /\ InOrder(log) => row.outcome = TrueOutcome(log, row.call)

\* An event leaves in their order the rows of other events, and of the calls whose
\* start was and stays among the newest, unless it is that of a retried start.  A
\* call whose start leaves the page moves: to its result, when that stays.
StayPut(log, e) ==
    LET after == Append(log, e)
        old == Keys(Page(log))
        new == Keys(Page(after))
        Started(l) == {c \in Calls : Seen(l, c, {"PreToolUse"}) # {}}
        restarted == IF e.type = "PreToolUse" THEN {e.call} ELSE {}
        kept == (Nat \cup (Started(log) \cap Started(after))) \ restarted
    IN  \A i, j \in DOMAIN old, k, l \in DOMAIN new :
            i < j /\ old[i] = new[k] /\ old[j] = new[l] /\ {old[i], old[j]} \subseteq kept => k < l

\* Agents in the order they arrived, and a log of at most two sessions (a bound),
\* on the board or not.
Arrivals == {ids \in BoundedSeq(Chips, Cardinality(Chips)) : IsInjective(ids)}
Logged == BoundedSeq(Chips, 2)
Hashes == [Chips -> 0..Colors - 1]

\* No two sessions share a colour while there are colours left.
Apart(agents, logged, hash) ==
    LET color == assignSessColors(agents, logged, hash)
    IN  /\ DOMAIN color = Range(agents) \cup Range(logged)
        /\ IF Cardinality(DOMAIN color) =< Colors THEN IsInjective(color) ELSE Range(color) = 0..Colors - 1

\* Neither a newcomer nor the log recolours an agent on the board.
Incumbent(agents, logged, hash) ==
    agents # <<>> =>
        LET before == assignSessColors(Front(agents), <<>>, hash)
            after  == assignSessColors(agents, logged, hash)
        IN  \A s \in Range(Front(agents)) : after[s] = before[s]
=============================================================================
