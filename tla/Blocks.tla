------------------------------- MODULE Blocks -------------------------------
(***************************************************************************)
(* Blocks between rows: the blocks and pr_blocks tables (store.go), the     *)
(* commands that write them (block.go, end.go, and the block, unblock and   *)
(* end actions of action.go), the prune that sweeps them, and which blocks  *)
(* hold a row of the board (applyBlocks, server.go).                        *)
(*                                                                         *)
(* A command is a process of its own (the CLI) or an HTTP handler; no       *)
(* transaction spans its statements, so every SQL statement is a step.  A   *)
(* session is kept as where its latest event puts it:                       *)
(*   "new"       no event yet                                               *)
(*   "shown"     a row of the board                                         *)
(*   "paneless"  on the roster, hidden because its tmux pane is gone        *)
(*   "quiet"     not ended, but silent for longer than the roster's window  *)
(*   "ended"     its latest event is a SessionEnd                           *)
(*   "pruned"    its events are deleted                                     *)
(***************************************************************************)
EXTENDS FiniteSets, Naturals

CONSTANTS
    Sessions,
    PRs,
    Commands, \* concurrent invocations of block, unblock and end
    Adders,   \* those among them that may block one session on another
    None

ASSUME BlocksParameters ==
    /\ Adders \subseteq Commands
    /\ None \notin Sessions \cup PRs

VARIABLES
    row,      \* where each session stands
    blocks,   \* <<blocked, blocker>> rows
    prBlocks, \* <<blocked, PR>> rows
    landed,   \* PRs that are merged or closed
    cmd,      \* the state of each command
    sweep,    \* the statement a running prune is at
    returned, \* history: sessions that left the roster and came back
    overtaken,\* history: commands another one's insert came between the read of and the write
    raced     \* history: blocks that such a command inserted

vars == <<row, blocks, prBlocks, landed, cmd, sweep, returned, overtaken, raced>>

-----------------------------------------------------------------------------
Live   == {s \in Sessions : row[s] \in {"shown", "paneless", "quiet"}} \* liveSessions
Roster == {s \in Sessions : row[s] \in {"shown", "paneless"}}          \* rosterIDs
Board  == {s \in Sessions : row[s] = "shown"}       \* agentRoster, dropDeadPanes
Silent == {s \in Sessions : row[s] \in {"new", "pruned"}} \* no row in events

Edges == Sessions \X Sessions

\* The ends of b are both in S.
Among(b, S) == b[1] \in S /\ b[2] \in S

\* from is, transitively, blocked on to through edges between live sessions:
\* to is in every set that holds from's blockers and is closed under blocking.
blockedOn(E, live, from, to) ==
    \A S \in SUBSET Sessions :
        (\A b \in E : Among(b, live) /\ (b[1] = from \/ b[1] \in S) => b[2] \in S) => to \in S

-----------------------------------------------------------------------------
(* Commands.  A failing statement, or a kill, ends one where it stands. *)

NoCommand == [at |-> "idle", blocked |-> None, on |-> None, set |-> {}]

At(c, at)     == cmd[c].at = at
Goto(c, at)   == cmd' = [cmd EXCEPT ![c].at = at]
Done(c)       == cmd' = [cmd EXCEPT ![c] = NoCommand]
Begin(c, at, blocked, on, set) ==
    /\ At(c, "idle")
    /\ cmd' = [cmd EXCEPT ![c] = [at |-> at, blocked |-> blocked, on |-> on, set |-> set]]

tables == <<row, blocks, prBlocks, landed, sweep, returned>>

\* runBlock: resolve the blocked side, then the blocker, then read who is live.
Resolve(c) ==
    /\ \E s \in Live : Begin(c, "blocker", s, None, {})
    /\ UNCHANGED tables

ResolveBlocker(c) ==
    /\ At(c, "blocker")
    /\ \E s \in Live : cmd' = [cmd EXCEPT ![c].on = s, ![c].at = "live"]
    /\ UNCHANGED tables

ReadLive(c) ==
    /\ At(c, "live")
    /\ cmd' = [cmd EXCEPT ![c].set = Live, ![c].at = "check"]
    /\ UNCHANGED tables

\* blockAction: one read of the roster answers for both sides.
BlockAction(c) ==
    /\ \E s, t \in Roster : Begin(c, "check", s, t, Roster)
    /\ UNCHANGED tables

\* addBlock refuses a self-block and a cycle, ...
CheckBlock(c) ==
    /\ At(c, "check")
    /\ IF \/ cmd[c].blocked = cmd[c].on
          \/ blockedOn(blocks, cmd[c].set, cmd[c].on, cmd[c].blocked)
       THEN Done(c) ELSE Goto(c, "insert")
    /\ UNCHANGED tables

\* ... and inserts in a statement of its own.
InsertBlock(c) ==
    /\ At(c, "insert")
    /\ blocks' = blocks \cup {<<cmd[c].blocked, cmd[c].on>>}
    /\ Done(c)
    /\ UNCHANGED <<row, prBlocks, landed, sweep, returned>>

\* blockOnPR and blockPRAction: gh confirms that the PR is open, then the insert.
ResolvePR(c) ==
    /\ \E s \in Live, p \in PRs : Begin(c, "confirm", s, p, {})
    /\ UNCHANGED tables

ConfirmPR(c) ==
    /\ At(c, "confirm")
    /\ IF cmd[c].on \in landed THEN Done(c) ELSE Goto(c, "insertPR")
    /\ UNCHANGED tables

InsertPRBlock(c) ==
    /\ At(c, "insertPR")
    /\ prBlocks' = prBlocks \cup {<<cmd[c].blocked, cmd[c].on>>}
    /\ Done(c)
    /\ UNCHANGED <<row, blocks, landed, sweep, returned>>

\* runUnblock takes the live sessions of a branch; unblockAction any one session.
Unblock(c) ==
    /\ \/ \E S \in (SUBSET Live) \ {{}} : Begin(c, "unblock", None, None, S)
       \/ \E s \in Sessions : Begin(c, "unblock", None, None, {s})
    /\ UNCHANGED tables

\* unblockSession deletes from blocks, then from pr_blocks.
DeleteBlocks(c) ==
    /\ At(c, "unblock")
    /\ \E s \in cmd[c].set :
        /\ blocks' = {b \in blocks : b[1] # s}
        /\ cmd' = [cmd EXCEPT ![c].blocked = s, ![c].at = "unblockPR"]
    /\ UNCHANGED <<row, prBlocks, landed, sweep, returned>>

DeletePRBlocks(c) ==
    /\ At(c, "unblockPR")
    /\ prBlocks' = {b \in prBlocks : b[1] # cmd[c].blocked}
    /\ LET left == cmd[c].set \ {cmd[c].blocked}
       IN  IF left = {} THEN Done(c)
           ELSE cmd' = [cmd EXCEPT ![c] = [NoCommand EXCEPT !.at = "unblock", !.set = left]]
    /\ UNCHANGED <<row, blocks, landed, sweep, returned>>

\* endSessions reads the live sessions that match, then ends them one by one.
End(c) ==
    /\ \E S \in (SUBSET Live) \ {{}} : Begin(c, "end", None, None, S)
    /\ UNCHANGED tables

InsertEnd(c) ==
    /\ At(c, "end")
    /\ \E s \in cmd[c].set :
        /\ row' = [row EXCEPT ![s] = "ended"]
        /\ IF cmd[c].set = {s} THEN Done(c)
           ELSE cmd' = [cmd EXCEPT ![c].set = @ \ {s}]
    /\ UNCHANGED <<blocks, prBlocks, landed, sweep, returned>>

Fail(c) ==
    /\ ~At(c, "idle")
    /\ Done(c)
    /\ UNCHANGED tables

Command(c) ==
    \/ c \in Adders /\ (Resolve(c) \/ BlockAction(c))
    \/ ResolveBlocker(c) \/ ReadLive(c) \/ CheckBlock(c) \/ InsertBlock(c)
    \/ ResolvePR(c) \/ ConfirmPR(c) \/ InsertPRBlock(c)
    \/ Unblock(c) \/ DeleteBlocks(c) \/ DeletePRBlocks(c)
    \/ End(c) \/ InsertEnd(c) \/ Fail(c)

-----------------------------------------------------------------------------
(* Sessions come and go. *)

Becomes(s, from, to) ==
    /\ row[s] \in from
    /\ row' = [row EXCEPT ![s] = to]
    /\ UNCHANGED <<blocks, prBlocks, landed, cmd, sweep>>

Moves(s, from, to) == Becomes(s, from, to) /\ UNCHANGED returned

Start(s)      == Moves(s, {"new"}, "shown")
LosePane(s)   == Moves(s, {"shown"}, "paneless")
GoQuiet(s)    == Moves(s, {"shown", "paneless"}, "quiet")
EndItself(s)  == Moves(s, {"shown", "paneless", "quiet"}, "ended")

\* A session reports again: a resume, a restart, a late hook.
Revive(s) ==
    /\ Becomes(s, {"paneless", "quiet", "ended", "pruned"}, "shown")
    /\ returned' = returned \cup ({s} \ Roster)

Session(s) == Start(s) \/ LosePane(s) \/ GoQuiet(s) \/ EndItself(s) \/ Revive(s)

Land(p) ==
    /\ p \notin landed
    /\ landed' = landed \cup {p}
    /\ UNCHANGED <<row, blocks, prBlocks, cmd, sweep, returned>>

-----------------------------------------------------------------------------
(* pruneOld: three DELETE statements, each of its own. *)

\* The sessions whose every event is past the cutoff lose them all; the
\* roster's window, 30 days by default, is the longer one.
PruneEvents ==
    /\ sweep = "idle"
    /\ \E S \in SUBSET Sessions :
        /\ \A s \in S : row[s] \notin {"new", "pruned"}
        /\ row' = [s \in Sessions |-> IF s \in S THEN "pruned" ELSE row[s]]
    /\ sweep' = "blocks"
    /\ UNCHANGED <<blocks, prBlocks, landed, cmd, returned>>

\* Mutant: only the blocked side is looked up.
MutSweepBlocks ==
    /\ sweep = "blocks"
    /\ blocks' = {b \in blocks : b[1] \notin Silent}
    /\ sweep' = "prBlocks"
    /\ UNCHANGED <<row, prBlocks, landed, cmd, returned>>

SweepBlocks ==
    /\ sweep = "blocks"
    /\ blocks' = {b \in blocks : b[1] \notin Silent /\ b[2] \notin Silent}
    /\ sweep' = "prBlocks"
    /\ UNCHANGED <<row, prBlocks, landed, cmd, returned>>

SweepPRBlocks ==
    /\ sweep = "prBlocks"
    /\ prBlocks' = {b \in prBlocks : b[1] \notin Silent}
    /\ sweep' = "idle"
    /\ UNCHANGED <<row, blocks, landed, cmd, returned>>

FailPrune ==
    /\ sweep # "idle"
    /\ sweep' = "idle"
    /\ UNCHANGED <<row, blocks, prBlocks, landed, cmd, returned>>

Prune == PruneEvents \/ SweepBlocks \/ SweepPRBlocks

-----------------------------------------------------------------------------
Init ==
    /\ row = [s \in Sessions |-> "new"]
    /\ blocks = {} /\ prBlocks = {} /\ landed = {}
    /\ cmd = [c \in Commands |-> NoCommand]
    /\ sweep = "idle"
    /\ returned = {} /\ overtaken = {} /\ raced = {}

\* A command is overtaken when another block is inserted after it has read who
\* is live and before its own insert.
Overtaken ==
    {c \in Commands :
        /\ cmd[c].at \in {"check", "insert"} /\ cmd'[c].at \in {"check", "insert"}
        /\ c \in overtaken \/ ~(blocks' \subseteq blocks)}

Raced ==
    {b \in blocks' : IF b \in blocks THEN b \in raced
                     ELSE \E c \in overtaken : cmd'[c] # cmd[c]}

Acts ==
    \/ \E c \in Commands : Command(c)
    \/ \E s \in Sessions : Session(s)
    \/ \E p \in PRs : Land(p)
    \/ Prune \/ FailPrune

Next == Acts /\ overtaken' = Overtaken /\ raced' = Raced

Spec == Init /\ [][Next]_vars

\* The CLI's prune, and the one in a hundred ingests that runs it, keep coming
\* and do not fail for ever.
FairSpec ==
    /\ Spec
    /\ WF_sweep(PruneEvents)
    /\ SF_sweep(SweepBlocks) /\ SF_sweep(SweepPRBlocks)

-----------------------------------------------------------------------------
Stages == {"idle", "blocker", "live", "check", "insert", "confirm", "insertPR",
           "unblock", "unblockPR", "end"}

\* Every variable holds a value of its kind, and a command that is about to
\* check or insert a block has both its sides.
TypeOK ==
    /\ row \in [Sessions -> {"new", "shown", "paneless", "quiet", "ended", "pruned"}]
    /\ blocks \subseteq Edges
    /\ prBlocks \subseteq Sessions \X PRs
    /\ landed \subseteq PRs
    /\ returned \subseteq Sessions
    /\ overtaken \subseteq Commands /\ raced \subseteq Edges
    /\ sweep \in {"idle", "blocks", "prBlocks"}
    /\ cmd \in [Commands -> [at : Stages, blocked : Sessions \cup {None},
                             on : Sessions \cup PRs \cup {None}, set : SUBSET Sessions]]
    /\ \A c \in Commands :
        /\ cmd[c].at \in {"blocker", "live", "check", "insert", "confirm", "insertPR", "unblockPR"}
              => cmd[c].blocked \in Sessions
        /\ cmd[c].at \in {"live", "check", "insert"} => cmd[c].on \in Sessions
        /\ cmd[c].at \in {"confirm", "insertPR"} => cmd[c].on \in PRs

\* Every set of rows has one that no row of the set holds.
Grounded(E) ==
    \A S \in SUBSET Sessions :
        S # {} => \E s \in S : \A b \in E : b[1] = s => b[2] \notin S

\* However many commands block rows on one another at once, the blocks that
\* applyBlocks acts on silence no cycle of rows that stayed on the roster, but for
\* the blocks whose command was overtaken: from any other row that is blocked,
\* following blockers leads to one that is free to move (addBlock, store.go:354).
CyclesAreRaced == Grounded({b \in blocks \ raced : Among(b, Board \ returned)})

\* The same of every block between such rows: store.go:354 refuses a cycle, as
\* README.md:114 promises, in a check that no transaction ties to the insert.
NoCycleOfStayers == Grounded({b \in blocks : Among(b, Board \ returned)})

\* The same of every row of the board, as README.md:114 and errBlockCycle
\* promise it.
NoCycleOnBoard == Grounded({b \in blocks : Among(b, Board)})

\* A block with a session whose events are pruned, and that never reports
\* again, is swept, from whichever side it hangs (README.md:122).
OrphansSwept ==
    \A b \in Edges :
        (b \in blocks /\ "pruned" \in {row[b[1]], row[b[2]]})
            ~> (b \notin blocks \/ (b[1] \notin Silent /\ b[2] \notin Silent))
=============================================================================
