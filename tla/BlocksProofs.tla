---------------------------- MODULE BlocksProofs ----------------------------
(***************************************************************************)
(* Proofs about Blocks.  The main result: of the rows that stay on the      *)
(* roster, every cycle of blocks has one whose command was overtaken by     *)
(* another insert, whatever the number of sessions and of commands at once, *)
(* and whatever unblocks, ends, prunes and returns run beside them.  Both   *)
(* exceptions are needed: without either one TLC finds a cycle on the board.*)
(***************************************************************************)
EXTENDS Blocks, TLAPS

Rows == {"new", "shown", "paneless", "quiet", "ended", "pruned"}

CommandRecords == [at : Stages, blocked : Sessions \cup {None},
                   on : Sessions \cup PRs \cup {None}, set : SUBSET Sessions]

\* What a command at its stage holds; TypeOK's last conjunct.
Equipped(r) ==
    /\ r.at \in {"blocker", "live", "check", "insert", "confirm", "insertPR", "unblockPR"}
          => r.blocked \in Sessions
    /\ r.at \in {"live", "check", "insert"} => r.on \in Sessions
    /\ r.at \in {"confirm", "insertPR"} => r.on \in PRs

-----------------------------------------------------------------------------
(* Graphs without cycles. *)

LEMMA GroundedSubset ==
    ASSUME NEW E, NEW F, F \subseteq E, Grounded(E)
    PROVE  Grounded(F)
BY DEF Grounded

\* A new edge closes no cycle when a set closed under E's edges holds all that
\* its head is blocked on, and not its tail.
LEMMA GroundedAdd ==
    ASSUME NEW E \in SUBSET Edges, NEW b \in Sessions, NEW r \in Sessions, b # r,
           Grounded(E),
           NEW S \in SUBSET Sessions, b \notin S,
           \A e \in E : e[1] = r \/ e[1] \in S => e[2] \in S
    PROVE  Grounded(E \cup {<<b, r>>})
<1> SUFFICES ASSUME NEW T \in SUBSET Sessions, T # {}
             PROVE  \E s \in T : \A e \in E \cup {<<b, r>>} : e[1] = s => e[2] \notin T
    BY DEF Grounded
<1>1. CASE r \in T /\ b \in T
    <2> DEFINE T2 == T \cap (S \cup {r})
    <2>1. T2 \in SUBSET Sessions /\ T2 # {}
        BY <1>1
    <2>2. PICK t \in T2 : \A e \in E : e[1] = t => e[2] \notin T2
        BY <2>1 DEF Grounded
    <2>3. t # b
        BY <2>2
    <2>4. ASSUME NEW e \in E, e[1] = t PROVE e[2] \notin T
        <3>1. e[2] \in S
            BY <2>4, <2>2
        <3> QED BY <3>1, <2>2, <2>4
    <2>5. <<b, r>>[1] # t
        BY <2>3
    <2> QED BY <2>2, <2>4, <2>5
<1>2. CASE ~(r \in T /\ b \in T)
    <2>1. PICK t \in T : \A e \in E : e[1] = t => e[2] \notin T
        BY DEF Grounded
    <2>2. <<b, r>>[1] = b /\ <<b, r>>[2] = r
        OBVIOUS
    <2> QED BY <1>2, <2>1, <2>2
<1> QED BY <1>1, <1>2

-----------------------------------------------------------------------------
(* Typing. *)

Typed ==
    /\ row \in [Sessions -> Rows]
    /\ blocks \subseteq Edges
    /\ prBlocks \subseteq Sessions \X PRs
    /\ landed \subseteq PRs
    /\ returned \subseteq Sessions
    /\ overtaken \subseteq Commands /\ raced \subseteq Edges
    /\ sweep \in {"idle", "blocks", "prBlocks"}
    /\ cmd \in [Commands -> CommandRecords]
    /\ \A c \in Commands : Equipped(cmd[c])

LEMMA TypeOKParts == (TypeOK <=> Typed) /\ (TypeOK' <=> Typed')
BY DEF TypeOK, Typed, Rows, CommandRecords, Equipped

LEMMA NoCommandTyped == NoCommand \in CommandRecords /\ Equipped(NoCommand)
BY DEF NoCommand, CommandRecords, Equipped, Stages

\* One command moves to a well-typed record.
LEMMA CommandMoves ==
    ASSUME TypeOK, NEW c \in Commands, NEW r \in CommandRecords, Equipped(r),
           cmd' = [cmd EXCEPT ![c] = r]
    PROVE  cmd' \in [Commands -> CommandRecords] /\ \A d \in Commands : Equipped(cmd'[d])
BY TypeOKParts DEF Typed

LEMMA CommandTyping ==
    ASSUME TypeOK, NEW c \in Commands, Command(c),
           overtaken' \subseteq Commands, raced' \subseteq blocks'
    PROVE  TypeOK'
<1> DEFINE r == cmd[c]
<1> USE TypeOKParts DEF Typed
<1>t. r \in CommandRecords /\ Equipped(r)
    OBVIOUS
<1>r. /\ row' \in [Sessions -> Rows]
      /\ blocks' \subseteq Edges
      /\ prBlocks' \subseteq Sessions \X PRs
      /\ landed' \subseteq PRs
      /\ returned' \subseteq Sessions
      /\ sweep' \in {"idle", "blocks", "prBlocks"}
    <2>1. CASE InsertBlock(c)
        BY <2>1, <1>t DEF InsertBlock, At, Equipped, Edges
    <2>2. CASE InsertPRBlock(c)
        BY <2>2, <1>t DEF InsertPRBlock, At, Equipped
    <2>3. CASE DeleteBlocks(c)
        BY <2>3 DEF DeleteBlocks
    <2>4. CASE DeletePRBlocks(c)
        BY <2>4 DEF DeletePRBlocks
    <2>5. CASE InsertEnd(c)
        BY <2>5 DEF InsertEnd, Rows
    <2>6. CASE UNCHANGED tables
        BY <2>6 DEF tables
    <2> QED BY <2>1, <2>2, <2>3, <2>4, <2>5, <2>6
            DEF Command, Resolve, ResolveBlocker, ReadLive, BlockAction, CheckBlock,
                ResolvePR, ConfirmPR, Unblock, End, Fail
<1>c. \E q \in CommandRecords : Equipped(q) /\ cmd' = [cmd EXCEPT ![c] = q]
    <2> USE DEF CommandRecords, Equipped, Stages, At, Goto
    <2>0. CASE Done(c)
        BY <2>0, NoCommandTyped DEF Done
    <2>1. CASE Resolve(c)
        <3>1. PICK s \in Live : Begin(c, "blocker", s, None, {})
            BY <2>1 DEF Resolve
        <3> DEFINE q == [at |-> "blocker", blocked |-> s, on |-> None, set |-> {}]
        <3>2. q \in CommandRecords /\ Equipped(q)
            BY DEF Live
        <3> QED BY <3>1, <3>2 DEF Begin
    <2>2. CASE ResolveBlocker(c)
        <3>1. PICK s \in Live : cmd' = [cmd EXCEPT ![c].on = s, ![c].at = "live"]
            BY <2>2 DEF ResolveBlocker
        <3> DEFINE q == [r EXCEPT !.on = s, !.at = "live"]
        <3>2. q \in CommandRecords /\ Equipped(q)
            BY <1>t, <2>2 DEF Live, ResolveBlocker
        <3>3. cmd' = [cmd EXCEPT ![c] = q]
            BY <3>1
        <3> QED BY <3>2, <3>3
    <2>3. CASE ReadLive(c)
        <3> DEFINE q == [r EXCEPT !.set = Live, !.at = "check"]
        <3>2. q \in CommandRecords /\ Equipped(q)
            BY <1>t, <2>3 DEF Live, ReadLive
        <3>3. cmd' = [cmd EXCEPT ![c] = q]
            BY <2>3 DEF ReadLive
        <3> QED BY <3>2, <3>3
    <2>4. CASE BlockAction(c)
        <3>1. PICK s \in Roster, t \in Roster : Begin(c, "check", s, t, Roster)
            BY <2>4 DEF BlockAction
        <3> DEFINE q == [at |-> "check", blocked |-> s, on |-> t, set |-> Roster]
        <3>2. q \in CommandRecords /\ Equipped(q)
            BY DEF Roster
        <3> QED BY <3>1, <3>2 DEF Begin
    <2>5. CASE At(c, "check") /\ Goto(c, "insert")
        <3> DEFINE q == [r EXCEPT !.at = "insert"]
        <3>2. q \in CommandRecords /\ Equipped(q)
            BY <1>t, <2>5
        <3>3. cmd' = [cmd EXCEPT ![c] = q]
            BY <2>5
        <3> QED BY <3>2, <3>3
    <2>6. CASE ResolvePR(c)
        <3>1. PICK s \in Live, p \in PRs : Begin(c, "confirm", s, p, {})
            BY <2>6 DEF ResolvePR
        <3> DEFINE q == [at |-> "confirm", blocked |-> s, on |-> p, set |-> {}]
        <3>2. q \in CommandRecords /\ Equipped(q)
            BY DEF Live
        <3> QED BY <3>1, <3>2 DEF Begin
    <2>7. CASE At(c, "confirm") /\ Goto(c, "insertPR")
        <3> DEFINE q == [r EXCEPT !.at = "insertPR"]
        <3>2. q \in CommandRecords /\ Equipped(q)
            BY <1>t, <2>7
        <3>3. cmd' = [cmd EXCEPT ![c] = q]
            BY <2>7
        <3> QED BY <3>2, <3>3
    <2>8. ASSUME NEW S \in SUBSET Sessions, NEW at \in {"unblock", "end"},
                 Begin(c, at, None, None, S)
          PROVE  \E q \in CommandRecords : Equipped(q) /\ cmd' = [cmd EXCEPT ![c] = q]
        <3> DEFINE q == [at |-> at, blocked |-> None, on |-> None, set |-> S]
        <3>2. q \in CommandRecords /\ Equipped(q)
            OBVIOUS
        <3> QED BY <2>8, <3>2 DEF Begin
    <2>9. CASE DeleteBlocks(c)
        <3>1. PICK s \in r.set : cmd' = [cmd EXCEPT ![c].blocked = s, ![c].at = "unblockPR"]
            BY <2>9 DEF DeleteBlocks
        <3> DEFINE q == [r EXCEPT !.blocked = s, !.at = "unblockPR"]
        <3>2. q \in CommandRecords /\ Equipped(q)
            BY <1>t
        <3>3. cmd' = [cmd EXCEPT ![c] = q]
            BY <3>1
        <3> QED BY <3>2, <3>3
    <2>10. CASE DeletePRBlocks(c)
        <3> DEFINE left == r.set \ {r.blocked}
                   q == [NoCommand EXCEPT !.at = "unblock", !.set = left]
        <3>1. Done(c) \/ cmd' = [cmd EXCEPT ![c] = q]
            BY <2>10 DEF DeletePRBlocks
        <3>2. q \in CommandRecords /\ Equipped(q)
            BY <1>t DEF NoCommand
        <3> QED BY <2>0, <3>1, <3>2
    <2>11. CASE InsertEnd(c)
        <3>1. PICK s \in r.set : Done(c) \/ cmd' = [cmd EXCEPT ![c].set = @ \ {s}]
            BY <2>11 DEF InsertEnd
        <3> DEFINE q == [r EXCEPT !.set = r.set \ {s}]
        <3>2. q \in CommandRecords /\ Equipped(q)
            BY <1>t, <2>11 DEF InsertEnd
        <3>3. Done(c) \/ cmd' = [cmd EXCEPT ![c] = q]
            BY <3>1
        <3> QED BY <2>0, <3>2, <3>3
    <2>12. CASE Unblock(c)
        <3>1. PICK S \in SUBSET Sessions : Begin(c, "unblock", None, None, S)
            BY <2>12 DEF Unblock, Live
        <3> QED BY <2>8, <3>1
    <2>13. CASE End(c)
        <3>1. PICK S \in SUBSET Sessions : Begin(c, "end", None, None, S)
            BY <2>13 DEF End, Live
        <3> QED BY <2>8, <3>1
    <2> QED BY <2>0, <2>1, <2>2, <2>3, <2>4, <2>5, <2>6, <2>7, <2>9, <2>10, <2>11, <2>12, <2>13
            DEF Command, CheckBlock, ConfirmPR, InsertBlock, InsertPRBlock, Fail
<1> QED BY <1>r, <1>c, CommandMoves

LEMMA InitTyping == Init => TypeOK
BY NoCommandTyped, TypeOKParts DEF Typed, Init, Rows

LEMMA StepTyping == TypeOK /\ [Next]_vars => TypeOK'
<1> SUFFICES ASSUME TypeOK, [Next]_vars PROVE TypeOK'
    OBVIOUS
<1> USE TypeOKParts DEF Typed
<1>h. CASE Acts /\ overtaken' \subseteq Commands /\ raced' \subseteq blocks'
  <2>1. CASE \E c \in Commands : Command(c)
    BY <1>h, <2>1, CommandTyping
  <2>2. CASE \E s \in Sessions : Session(s)
    BY <1>h, <2>2 DEF Session, Start, LosePane, GoQuiet, EndItself, Revive, Becomes, Moves, Rows
  <2>3. CASE \E p \in PRs : Land(p)
    BY <1>h, <2>3 DEF Land
  <2>4. CASE Prune \/ FailPrune
    BY <1>h, <2>4 DEF Prune, PruneEvents, SweepBlocks, SweepPRBlocks, FailPrune, Rows
  <2> QED BY <1>h, <2>1, <2>2, <2>3, <2>4 DEF Acts
<1>5. CASE UNCHANGED vars
    BY <1>5 DEF vars
<1> QED BY <1>h, <1>5 DEF Next, Overtaken, Raced

\* Every variable of Blocks keeps its type, and a command that checks or
\* inserts a block has both sides resolved (runBlock, blockAction).
THEOREM BlocksTyping == Spec => []TypeOK
BY InitTyping, StepTyping, PTL DEF Spec

-----------------------------------------------------------------------------
(* No cycle.  A cycle is closed by an insert, so the invariant says what a    *)
(* command about to insert knows, unless it was overtaken: its snapshot holds *)
(* every stayer that some block mentions (a row that started since the        *)
(* snapshot is in no block yet), and the blocks have not grown since.         *)

Adding   == {"blocker", "live", "check", "insert"}
Checking == {"check", "insert"} \* past the read of who is live

\* The rows of the roster that never left it.
Stayers     == Roster \ returned
HeldStayers == {b \in blocks \ raced : Among(b, Stayers)}

\* Blocks only name sessions that have reported.
KnownBlocks == \A b \in blocks : row[b[1]] # "new" /\ row[b[2]] # "new"

\* A command that adds a block names sessions that have reported.
KnownSides ==
    \A c \in Commands :
        /\ cmd[c].at \in Adding => row[cmd[c].blocked] # "new"
        /\ cmd[c].at \in {"live", "check", "insert"} => row[cmd[c].on] # "new"

\* The snapshot misses none of those that a block names.
SnapshotCovers ==
    \A c \in Commands \ overtaken : cmd[c].at \in Checking =>
        \A b \in blocks : {b[1], b[2]} \cap Stayers \subseteq cmd[c].set

\* The check still holds when the insert runs.
CheckStands ==
    \A c \in Commands \ overtaken : cmd[c].at = "insert" =>
        /\ cmd[c].blocked # cmd[c].on
        /\ ~blockedOn(blocks, cmd[c].set, cmd[c].on, cmd[c].blocked)

Chosen   == KnownBlocks /\ KnownSides /\ SnapshotCovers /\ CheckStands
CycleInv == TypeOK /\ Chosen /\ Grounded(HeldStayers)

LEMMA FewerBlocks ==
    ASSUME NEW E, NEW F, F \subseteq E, NEW live, NEW from, NEW to,
           ~blockedOn(E, live, from, to)
    PROVE  ~blockedOn(F, live, from, to)
BY DEF blockedOn

\* The history kept: what was raced stays so while it stays, and who was
\* overtaken does while it has its insert before it.
Remembers ==
    /\ blocks' \ raced' \subseteq blocks \ raced
    /\ \A c \in overtaken : cmd[c].at \in Checking /\ cmd'[c].at \in Checking => c \in overtaken'

LEMMA NothingInserted ==
    ASSUME TypeOK, blocks' \subseteq blocks, overtaken' = Overtaken, raced' = Raced
    PROVE  Remembers
BY TypeOKParts DEF Typed, Remembers, Overtaken, Raced, Checking

\* Steps that leave the commands be: blocks may go, rows may come and go, but
\* only a new session joins the stayers.
LEMMA QuietStep ==
    ASSUME CycleInv, TypeOK', cmd' = cmd, blocks' \subseteq blocks, Remembers,
           \A s \in Sessions : row'[s] = "new" => row[s] = "new",
           \A s \in Stayers' : s \in Stayers \/ row[s] = "new"
    PROVE  CycleInv'
<1> USE TypeOKParts DEF CycleInv, Chosen, Typed
<1>1. \A b \in blocks : b[1] \in Sessions /\ b[2] \in Sessions
    BY DEF Edges
<1>2. KnownBlocks'
    BY <1>1 DEF KnownBlocks
<1>3. \A c \in Commands : Equipped(cmd[c])
    OBVIOUS
<1>4. KnownSides'
    BY <1>3 DEF KnownSides, Equipped, Adding
<1>5. \A b \in blocks' : {b[1], b[2]} \cap Stayers' \subseteq Stayers
    BY <1>1 DEF KnownBlocks
<1>6. SnapshotCovers'
    BY <1>5 DEF SnapshotCovers, Remembers
<1>7. CheckStands'
    BY FewerBlocks DEF CheckStands, Remembers, Checking
<1>8. HeldStayers' \subseteq HeldStayers
    BY <1>5 DEF HeldStayers, Among, Remembers
<1>9. Grounded(HeldStayers)' 
    BY <1>8, GroundedSubset DEF Grounded
<1> QED BY <1>2, <1>4, <1>6, <1>7, <1>9

LEMMA InitCycle == Init => CycleInv
<1> SUFFICES ASSUME Init PROVE CycleInv
    OBVIOUS
<1>1. TypeOK
    BY InitTyping
<1>2. Chosen
    BY DEF Init, NoCommand, Chosen, KnownBlocks, KnownSides, SnapshotCovers, CheckStands, Adding, Checking
<1>3. Grounded(HeldStayers)
    BY DEF Init, HeldStayers, Grounded
<1> QED BY <1>1, <1>2, <1>3 DEF CycleInv

\* Command c moves to q, which knows all that its stage needs.
LEMMA CommandTo ==
    ASSUME CycleInv, TypeOK', NEW c \in Commands, NEW q \in CommandRecords,
           cmd' = [cmd EXCEPT ![c] = q], blocks' \subseteq blocks, Remembers,
           Stayers' \subseteq Stayers,
           \A s \in Sessions : row'[s] = "new" => row[s] = "new",
           q.at \in Adding => row[q.blocked] # "new",
           q.at \in {"live", "check", "insert"} => row[q.on] # "new",
           q.at \in Checking /\ c \notin overtaken' =>
               \A b \in blocks : {b[1], b[2]} \cap Stayers \subseteq q.set,
           q.at = "insert" /\ c \notin overtaken' =>
               /\ q.blocked # q.on
               /\ ~blockedOn(blocks, q.set, q.on, q.blocked)
    PROVE  CycleInv'
<1> USE TypeOKParts DEF CycleInv, Chosen, Typed
<1>0. /\ cmd'[c] = q
      /\ \A d \in Commands : d # c => cmd'[d] = cmd[d]
    OBVIOUS
<1>1. \A b \in blocks : b[1] \in Sessions /\ b[2] \in Sessions
    BY DEF Edges
<1>2. KnownBlocks'
    BY <1>1 DEF KnownBlocks
<1>4. KnownSides'
    <2> SUFFICES ASSUME NEW d \in Commands
                 PROVE  /\ cmd'[d].at \in Adding => row'[cmd'[d].blocked] # "new"
                        /\ cmd'[d].at \in {"live", "check", "insert"} => row'[cmd'[d].on] # "new"
        BY DEF KnownSides
    <2>1. Equipped(cmd'[d])
        OBVIOUS
    <2>2. CASE d = c
        BY <1>0, <2>1, <2>2 DEF Equipped, Adding
    <2>3. CASE d # c
        BY <1>0, <2>1, <2>3 DEF Equipped, Adding, KnownSides
    <2> QED BY <2>2, <2>3
<1>6. SnapshotCovers'
    BY <1>0 DEF SnapshotCovers, Remembers
<1>7. CheckStands'
    BY <1>0, FewerBlocks DEF CheckStands, Remembers, Checking
<1>8. HeldStayers' \subseteq HeldStayers
    BY DEF HeldStayers, Among, Remembers
<1>9. Grounded(HeldStayers)'
    BY <1>8, GroundedSubset DEF Grounded
<1> QED BY <1>2, <1>4, <1>6, <1>7, <1>9

LEMMA InsertBlockStep ==
    ASSUME CycleInv, TypeOK', NEW c \in Commands, InsertBlock(c),
           overtaken' = Overtaken, raced' = Raced
    PROVE  CycleInv'
<1> DEFINE b == cmd[c].blocked
           r == cmd[c].on
           L == cmd[c].set
<1> USE TypeOKParts DEF CycleInv, Chosen, Typed
<1>1. /\ cmd[c].at = "insert" /\ b \in Sessions /\ r \in Sessions
      /\ blocks' = blocks \cup {<<b, r>>} /\ row' = row
      /\ Stayers' = Stayers
      /\ cmd' = [cmd EXCEPT ![c] = NoCommand]
    BY DEF InsertBlock, At, Done, Equipped, Stayers, Roster
<1>2. /\ cmd'[c] = NoCommand /\ cmd'[c] # cmd[c]
      /\ \A d \in Commands : d # c => cmd'[d] = cmd[d]
    BY <1>1 DEF NoCommand
<1>a. CASE <<b, r>> \in blocks
    <2>1. blocks' = blocks
        BY <1>1, <1>a
    <2>2. Remembers
        BY <2>1, NothingInserted
    <2>3. NoCommand.at \notin Adding /\ NoCommand.at \notin Checking /\ NoCommand.at # "insert"
        BY DEF NoCommand, Adding, Checking
    <2> QED BY <1>1, <2>1, <2>2, <2>3, NoCommandTyped, CommandTo DEF Adding
<1>b. CASE <<b, r>> \notin blocks
  <2>1. \A d \in Commands : cmd'[d].at \in Checking => d \in overtaken'
    BY <1>1, <1>2, <1>b DEF Overtaken, Checking, NoCommand
  <2>2. KnownBlocks'
    <3>1. row[b] # "new" /\ row[r] # "new"
        BY <1>1 DEF KnownSides, Adding
    <3>2. <<b, r>>[1] = b /\ <<b, r>>[2] = r
        OBVIOUS
    <3> QED BY <1>1, <3>1, <3>2 DEF KnownBlocks
  <2>3. KnownSides'
    BY <1>1, <1>2 DEF KnownSides, NoCommand, Adding
  <2>4. SnapshotCovers' /\ CheckStands'
    BY <2>1 DEF SnapshotCovers, CheckStands, Checking
  <2>5. CASE c \in overtaken
    <3>1. <<b, r>> \in raced' /\ blocks \ raced' \subseteq blocks \ raced
        BY <1>1, <1>2, <1>b, <2>5 DEF Raced
    <3>2. HeldStayers' \subseteq HeldStayers
        BY <1>1, <3>1 DEF HeldStayers, Among
    <3>3. Grounded(HeldStayers)'
        BY <3>2, GroundedSubset DEF Grounded
    <3> QED BY <2>2, <2>3, <2>4, <3>3
  <2>6. CASE c \notin overtaken
    <3>1. blocks' \ raced' \subseteq (blocks \ raced) \cup {<<b, r>>}
        BY <1>1, <1>2, <2>6 DEF Raced
    <3>5. PICK S \in SUBSET Sessions :
              /\ \A e \in blocks : Among(e, L) /\ (e[1] = r \/ e[1] \in S) => e[2] \in S
              /\ b \notin S
        BY <1>1, <2>6 DEF CheckStands, blockedOn
    <3>6. \A e \in HeldStayers : Among(e, L)
        BY <1>1, <2>6 DEF SnapshotCovers, HeldStayers, Among, Checking
    <3>7. HeldStayers \in SUBSET Edges /\ b # r
        BY <1>1, <2>6 DEF HeldStayers, CheckStands
    <3>8. \A e \in HeldStayers : e[1] = r \/ e[1] \in S => e[2] \in S
        BY <3>5, <3>6 DEF HeldStayers
    <3>9. Grounded(HeldStayers \cup {<<b, r>>})
        BY <1>1, <3>5, <3>7, <3>8, GroundedAdd
    <3>10. HeldStayers' \subseteq HeldStayers \cup {<<b, r>>}
        BY <1>1, <3>1 DEF HeldStayers, Among
    <3>11. Grounded(HeldStayers)'
        <4> HIDE DEF Typed, Chosen
        <4> SUFFICES ASSUME NEW T \in SUBSET Sessions, T # {}
                     PROVE  \E s \in T : \A e \in HeldStayers' : e[1] = s => e[2] \notin T
            BY DEF Grounded
        <4>1. PICK s \in T : \A e \in HeldStayers \cup {<<b, r>>} : e[1] = s => e[2] \notin T
            BY <3>9 DEF Grounded
        <4> QED BY <3>10, <4>1
    <3> QED BY <2>2, <2>3, <2>4, <3>11
  <2> QED BY <2>5, <2>6
<1> QED BY <1>a, <1>b

LEMMA AddingStep ==
    ASSUME CycleInv, TypeOK', NEW c \in Commands, UNCHANGED tables, Remembers,
           \/ c \in Adders /\ (Resolve(c) \/ BlockAction(c))
           \/ ResolveBlocker(c) \/ ReadLive(c) \/ CheckBlock(c)
    PROVE  CycleInv'
<1> USE TypeOKParts DEF CycleInv, Chosen, Typed
<1>0. blocks' = blocks /\ row' = row /\ Roster' = Roster /\ Stayers' = Stayers
    BY DEF tables, Roster, Stayers
<1>t. cmd[c] \in CommandRecords /\ Equipped(cmd[c])
    OBVIOUS
<1>1. CASE c \in Adders /\ Resolve(c)
    <2>1. PICK s \in Live : Begin(c, "blocker", s, None, {})
        BY <1>1 DEF Resolve
    <2> DEFINE q == [at |-> "blocker", blocked |-> s, on |-> None, set |-> {}]
    <2>2. q \in CommandRecords /\ row[s] # "new"
        BY DEF Live, CommandRecords, Stages
    <2>3. cmd' = [cmd EXCEPT ![c] = q]
        BY <2>1 DEF Begin
    <2> QED BY <1>0, <1>1, <2>2, <2>3, CommandTo DEF Checking
<1>2. CASE c \in Adders /\ BlockAction(c)
    <2>1. PICK s \in Roster, t \in Roster : Begin(c, "check", s, t, Roster)
        BY <1>2 DEF BlockAction
    <2> DEFINE q == [at |-> "check", blocked |-> s, on |-> t, set |-> Roster]
    <2>2. q \in CommandRecords /\ row[s] # "new" /\ row[t] # "new"
        BY DEF Roster, CommandRecords, Stages
    <2>3. cmd' = [cmd EXCEPT ![c] = q]
        BY <2>1 DEF Begin
    <2>4. \A b \in blocks : {b[1], b[2]} \cap Stayers \subseteq q.set
        BY DEF Stayers
    <2> QED BY <1>0, <1>2, <2>2, <2>3, <2>4, CommandTo
<1>3. CASE ResolveBlocker(c)
    <2>1. PICK s \in Live : cmd' = [cmd EXCEPT ![c].on = s, ![c].at = "live"]
        BY <1>3 DEF ResolveBlocker
    <2> DEFINE q == [cmd[c] EXCEPT !.on = s, !.at = "live"]
    <2>2. q \in CommandRecords /\ row[s] # "new"
        BY <1>t DEF Live, CommandRecords, Stages
    <2>3. cmd' = [cmd EXCEPT ![c] = q]
        BY <2>1
    <2>4. row[q.blocked] # "new" /\ q.on = s /\ q.at = "live"
        BY <1>t, <1>3 DEF ResolveBlocker, At, KnownSides, Adding, CommandRecords
    <2> QED BY <1>0, <2>2, <2>3, <2>4, CommandTo DEF Checking
<1>4. CASE ReadLive(c)
    <2> DEFINE q == [cmd[c] EXCEPT !.set = Live, !.at = "check"]
    <2>2. q \in CommandRecords
        BY <1>t DEF Live, CommandRecords, Stages
    <2>3. cmd' = [cmd EXCEPT ![c] = q]
        BY <1>4 DEF ReadLive
    <2>4. /\ row[q.blocked] # "new" /\ row[q.on] # "new"
          /\ q.at = "check" /\ q.set = Live
        BY <1>t, <1>4 DEF ReadLive, At, KnownSides, Adding, CommandRecords
    <2>5. Stayers \subseteq Live
        BY DEF Stayers, Roster, Live
    <2>6. \A b \in blocks : {b[1], b[2]} \cap Stayers \subseteq q.set
        BY <2>4, <2>5
    <2> QED BY <1>0, <2>2, <2>3, <2>4, <2>6, CommandTo
<1>5. CASE CheckBlock(c) /\ Goto(c, "insert")
    <2> DEFINE q == [cmd[c] EXCEPT !.at = "insert"]
    <2>2. /\ q \in CommandRecords
          /\ q.blocked = cmd[c].blocked /\ q.on = cmd[c].on /\ q.set = cmd[c].set /\ q.at = "insert"
        BY <1>t DEF CommandRecords, Stages
    <2>3. cmd' = [cmd EXCEPT ![c] = q]
        BY <1>5 DEF Goto
    <2>4. /\ row[q.blocked] # "new" /\ row[q.on] # "new"
          /\ c \notin overtaken' => \A b \in blocks : {b[1], b[2]} \cap Stayers \subseteq q.set
        BY <1>5, <2>2, <2>3 DEF CheckBlock, At, KnownSides, SnapshotCovers, Adding, Checking, Remembers
    <2>5. cmd[c].at = "check" /\ cmd'[c] = q
        BY <1>5, <2>3 DEF CheckBlock, At
    <2>6. cmd' # [cmd EXCEPT ![c] = NoCommand]
        BY <2>2, <2>5 DEF NoCommand
    <2>7. q.blocked # q.on /\ ~blockedOn(blocks, q.set, q.on, q.blocked)
        BY <1>5, <2>2, <2>6 DEF CheckBlock, Done
    <2> QED BY <1>0, <2>2, <2>3, <2>4, <2>7, CommandTo
<1>6. CASE Done(c)
    <2>1. NoCommand.at \notin Adding /\ cmd' = [cmd EXCEPT ![c] = NoCommand]
        BY <1>6 DEF Done, NoCommand, Adding
    <2> QED BY <1>0, <2>1, NoCommandTyped, CommandTo DEF Adding, Checking
<1> QED BY <1>1, <1>2, <1>3, <1>4, <1>5, <1>6 DEF CheckBlock

\* The steps of the commands that add no session block.
LEMMA OtherStep ==
    ASSUME CycleInv, TypeOK', NEW c \in Commands, Remembers,
           \/ ResolvePR(c) \/ ConfirmPR(c) \/ InsertPRBlock(c)
           \/ Unblock(c) \/ DeleteBlocks(c) \/ DeletePRBlocks(c)
           \/ End(c) \/ InsertEnd(c) \/ Fail(c)
    PROVE  CycleInv'
<1> USE TypeOKParts DEF CycleInv, Typed
<1>1. /\ blocks' \subseteq blocks
      /\ Stayers' \subseteq Stayers
      /\ \A s \in Sessions : row'[s] = "new" => row[s] = "new"
    BY DEF ResolvePR, ConfirmPR, InsertPRBlock, Unblock, DeleteBlocks, DeletePRBlocks,
           End, InsertEnd, Fail, tables, Roster, Stayers
<1>2. cmd' = [cmd EXCEPT ![c] = cmd'[c]] /\ cmd'[c] \in CommandRecords
    BY DEF ResolvePR, ConfirmPR, InsertPRBlock, Unblock, DeleteBlocks, DeletePRBlocks,
           End, InsertEnd, Fail, Begin, Goto, Done
<1>t. cmd[c] \in CommandRecords
    OBVIOUS
<1>3. cmd'[c].at \notin Adding
    <2>0. ASSUME Done(c) PROVE cmd'[c].at \notin Adding
        BY <2>0 DEF Done, NoCommand, Adding
    <2>1. CASE ResolvePR(c) \/ Unblock(c) \/ End(c)
        <3>1. PICK at \in {"confirm", "unblock", "end"} :
                \E s, o, S : cmd'[c] = [at |-> at, blocked |-> s, on |-> o, set |-> S]
            BY <2>1 DEF ResolvePR, Unblock, End, Begin
        <3> QED BY <3>1 DEF Adding
    <2>2. CASE ConfirmPR(c)
        <3>1. Done(c) \/ cmd' = [cmd EXCEPT ![c].at = "insertPR"]
            BY <2>2 DEF ConfirmPR, Goto
        <3>2. CASE cmd' = [cmd EXCEPT ![c].at = "insertPR"]
            <4>1. cmd'[c] = [cmd[c] EXCEPT !.at = "insertPR"]
                BY <3>2
            <4>2. cmd'[c].at = "insertPR"
                BY <1>t, <4>1 DEF CommandRecords
            <4> QED BY <4>2 DEF Adding
        <3> QED BY <2>0, <3>1, <3>2
    <2>3. CASE InsertPRBlock(c) \/ Fail(c)
        BY <2>0, <2>3 DEF InsertPRBlock, Fail
    <2>4. CASE DeleteBlocks(c)
        <3>1. PICK s \in cmd[c].set : cmd' = [cmd EXCEPT ![c].blocked = s, ![c].at = "unblockPR"]
            BY <2>4 DEF DeleteBlocks
        <3>2. cmd'[c].at = "unblockPR"
            BY <1>t, <3>1 DEF CommandRecords
        <3> QED BY <3>2 DEF Adding
    <2>5. CASE DeletePRBlocks(c)
        <3>1. \/ Done(c)
              \/ \E left : cmd'[c] = [NoCommand EXCEPT !.at = "unblock", !.set = left]
            BY <2>5 DEF DeletePRBlocks
        <3> QED BY <2>0, <3>1 DEF NoCommand, Adding
    <2>6. CASE InsertEnd(c)
        <3>1. Done(c) \/ \E S : cmd'[c] = [cmd[c] EXCEPT !.set = S]
            BY <2>6 DEF InsertEnd
        <3>2. cmd[c].at = "end"
            BY <2>6 DEF InsertEnd, At
        <3> QED BY <1>t, <2>0, <3>1, <3>2 DEF CommandRecords, Adding
    <2> QED BY <2>1, <2>2, <2>3, <2>4, <2>5, <2>6
<1> QED BY <1>1, <1>2, <1>3, CommandTo DEF Adding, Checking

LEMMA StepCycle == CycleInv /\ [Next]_vars => CycleInv'
<1> SUFFICES ASSUME CycleInv, [Next]_vars PROVE CycleInv'
    OBVIOUS
<1> USE DEF CycleInv
<1>0. TypeOK'
    BY StepTyping
<1>s. CASE UNCHANGED vars
    <2>1. /\ cmd' = cmd /\ blocks' = blocks /\ row' = row /\ Stayers' = Stayers
          /\ Remembers
        BY <1>s DEF vars, Stayers, Roster, Remembers
    <2> QED BY <1>0, <2>1, QuietStep
<1>h. CASE Acts /\ overtaken' = Overtaken /\ raced' = Raced
 <2> USE <1>h
 <2>r. blocks' \subseteq blocks => Remembers
    BY <1>0, NothingInserted
 <2>1. CASE \E c \in Commands : Command(c)
    <3>1. PICK c \in Commands : Command(c)
        BY <2>1
    <3>2. Resolve(c) \/ BlockAction(c) \/ ResolveBlocker(c) \/ ReadLive(c) \/ CheckBlock(c)
              => UNCHANGED tables
        BY DEF Resolve, BlockAction, ResolveBlocker, ReadLive, CheckBlock
    <3>3. UNCHANGED tables => Remembers
        BY <2>r DEF tables
    <3>4. CASE InsertBlock(c)
        BY <1>0, <3>4, InsertBlockStep
    <3>5. CASE \/ c \in Adders /\ (Resolve(c) \/ BlockAction(c))
               \/ ResolveBlocker(c) \/ ReadLive(c) \/ CheckBlock(c)
        BY <1>0, <3>2, <3>3, <3>5, AddingStep
    <3>6. CASE \/ ResolvePR(c) \/ ConfirmPR(c) \/ InsertPRBlock(c)
               \/ Unblock(c) \/ DeleteBlocks(c) \/ DeletePRBlocks(c)
               \/ End(c) \/ InsertEnd(c) \/ Fail(c)
        <4> HIDE DEF CycleInv
        <4>1. Remembers
            BY <2>r, <3>6 DEF ResolvePR, ConfirmPR, InsertPRBlock, Unblock, DeleteBlocks,
                              DeletePRBlocks, End, InsertEnd, Fail, tables
        <4> QED BY <1>0, <3>6, <4>1, OtherStep, Zenon
    <3> QED BY <3>1, <3>4, <3>5, <3>6 DEF Command
 <2>2. CASE \E s \in Sessions : Session(s)
    <3>1. /\ cmd' = cmd /\ blocks' = blocks
          /\ \A s \in Sessions : row'[s] = "new" => row[s] = "new"
          /\ \A s \in Stayers' : s \in Stayers \/ row[s] = "new"
        BY <2>2, TypeOKParts
           DEF Session, Start, LosePane, GoQuiet, EndItself, Revive, Becomes, Moves, Roster, Stayers, Typed
    <3> QED BY <1>0, <2>r, <3>1, QuietStep
 <2>3. CASE (\E p \in PRs : Land(p)) \/ Prune \/ FailPrune
    <3>1. /\ cmd' = cmd /\ blocks' \subseteq blocks
          /\ \A s \in Sessions : row'[s] = "new" => row[s] = "new"
          /\ Stayers' \subseteq Stayers
        BY <2>3, TypeOKParts
           DEF Land, Prune, PruneEvents, SweepBlocks, SweepPRBlocks, FailPrune, Roster, Stayers, Typed
    <3> QED BY <1>0, <2>r, <3>1, QuietStep
 <2> QED BY <2>1, <2>2, <2>3 DEF Acts
<1> QED BY <1>s, <1>h DEF Next

LEMMA CycleInvExcludes == CycleInv => CyclesAreRaced
<1> SUFFICES ASSUME CycleInv PROVE CyclesAreRaced
    OBVIOUS
<1>1. {b \in blocks \ raced : Among(b, Board \ returned)} \subseteq HeldStayers
    BY DEF HeldStayers, Among, Board, Stayers, Roster
<1> QED BY <1>1, GroundedSubset DEF CycleInv, CyclesAreRaced

\* However many block commands run at once, every cycle of blocks between rows
\* that stay on the roster holds one whose command was overtaken: for a command
\* that no other's insert came between, addBlock's check is enough, although no
\* transaction ties the read of who is live, the check and the insert together
\* (store.go:354).
THEOREM RacedCycles == Spec => []CyclesAreRaced
<1>1. CycleInv /\ [Next]_vars => CycleInv'
    BY StepCycle
<1> QED BY <1>1, InitCycle, CycleInvExcludes, PTL DEF Spec
=============================================================================
