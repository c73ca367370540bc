----------------------------- MODULE PageProofs -----------------------------
(***************************************************************************)
(* Proofs about Page, for every set of rows: the counter __ckActionBusy is  *)
(* the number of groups that are firing, so no repaint and no other row's   *)
(* answer brings a group back to life while its request is in flight.       *)
(***************************************************************************)
EXTENDS Page, FiniteSetTheorems, TLAPS

Groups == [at : {"idle", "armed", "firing", "locked"},
           action : Actions \cup {"none"}, left : 0 .. ArmIdle]

Firing == {r \in Rows : Is(r, "firing")}

\* A group fires exactly while its request is in flight, and busy counts them.
Counted ==
    /\ \A r \in Rows : pending[r] = IF Is(r, "firing") THEN 1 ELSE 0
    /\ busy = Cardinality(Firing)
    /\ Firing \subseteq shown

PageInv == TypeOK /\ Counted /\ ArmedIsAttended

Typed ==
    /\ board \subseteq Rows /\ shown \subseteq Rows /\ sig \subseteq Rows
    /\ polls \subseteq SUBSET Rows
    /\ group \in [Rows -> Groups]
    /\ busy \in Nat /\ pending \in [Rows -> Nat]
    /\ focus \in Rows \cup {"page", "picker"} /\ hidden \in BOOLEAN
    /\ alone \in [Rows -> 0 .. ArmIdle] /\ behind \in BOOLEAN

LEMMA TypeOKParts == (TypeOK <=> Typed) /\ (TypeOK' <=> Typed')
BY DEF TypeOK, Typed, Groups

LEMMA Bounds == ArmIdle \in Nat /\ ArmIdle > 0 /\ 0 \in 0 .. ArmIdle
BY PageParameters

LEMMA FiringFinite == IsFiniteSet(Firing)
BY PageParameters, FS_Subset DEF Firing

(* Every group the actions build is a group. *)

LEMMA IdleGroup == Idle \in Groups
BY Bounds DEF Idle, Groups

LEMMA ArmedGroup ==
    ASSUME NEW a \in Actions \cup {"none"}
    PROVE  Armed(a) \in Groups
BY Bounds DEF Armed, Groups

LEMMA FiringGroup ==
    ASSUME NEW a \in Actions
    PROVE  /\ [Idle EXCEPT !.at = "firing", !.action = a] \in Groups
           /\ [Idle EXCEPT !.at = "firing", !.action = a].at = "firing"
BY Bounds DEF Idle, Groups

LEMMA LockedGroup ==
    ASSUME NEW g \in Groups
    PROVE  [g EXCEPT !.at = "locked"] \in Groups
BY DEF Groups

LEMMA TickedGroup ==
    ASSUME NEW g \in Groups
    PROVE  /\ [g EXCEPT !.left = Less(@)] \in Groups
           /\ [g EXCEPT !.left = Less(@)].at = g.at
           /\ [g EXCEPT !.left = Less(@)].left = Less(g.left)
BY Bounds DEF Groups, Less

LEMMA GroupParts ==
    ASSUME NEW g \in Groups
    PROVE  /\ g.at \in {"idle", "armed", "firing", "locked"}
           /\ g.action \in Actions \cup {"none"} /\ g.left \in 0 .. ArmIdle
BY DEF Groups

-----------------------------------------------------------------------------
(* Typing. *)

LEMMA InitTyping == Init => TypeOK
<1> SUFFICES ASSUME Init PROVE Typed
    BY TypeOKParts
<1>1. group \in [Rows -> Groups]
    BY IdleGroup DEF Init
<1>2. pending \in [Rows -> Nat] /\ alone \in [Rows -> 0 .. ArmIdle]
    BY Bounds DEF Init
<1>3. board \subseteq Rows /\ shown \subseteq Rows /\ sig \subseteq Rows /\ polls \subseteq SUBSET Rows
    BY DEF Init
<1>4. busy \in Nat
    BY DEF Init
<1>5. focus \in Rows \cup {"page", "picker"} /\ hidden \in BOOLEAN /\ behind \in BOOLEAN
    BY DEF Init
<1> QED BY <1>1, <1>2, <1>3, <1>4, <1>5 DEF Typed

LEMMA StepTyping == TypeOK /\ [Next]_vars => TypeOK'
<1> SUFFICES ASSUME Typed, [Next]_vars PROVE Typed'
    BY TypeOKParts
<1> USE Bounds DEF Typed
<1>1. ASSUME NEW r \in Rows, NEW a \in Actions, Press(r, a) PROVE Typed'
    <2>1. group' \in [Rows -> Groups]
        <3>1. PICK g \in Groups : group' = [group EXCEPT ![r] = g]
            <4>1. \/ Sets(r, [Idle EXCEPT !.at = "firing", !.action = a])
                  \/ Sets(r, Armed(a))
                BY <1>1 DEF Press
            <4> QED BY <4>1, FiringGroup, ArmedGroup DEF Sets
        <3> QED BY <3>1
    <2>2. busy' \in Nat
        BY <1>1 DEF Press
    <2>3. pending' \in [Rows -> Nat]
        BY <1>1 DEF Press
    <2>4. alone' \in [Rows -> 0 .. ArmIdle]
        BY <1>1 DEF Press
    <2>5. UNCHANGED <<board, polls, page, focus, hidden>>
        BY <1>1 DEF Press
    <2> QED BY <2>1, <2>2, <2>3, <2>4, <2>5 DEF page
<1>2. ASSUME NEW r \in Rows, Touch(r) \/ Cancel(r) \/ Expire(r) PROVE Typed'
    <2>1. Armed(group[r].action) \in Groups
        BY ArmedGroup, GroupParts
    <2>2. group' \in [Rows -> Groups]
        BY <1>2, <2>1, IdleGroup DEF Touch, Cancel, Expire, Sets
    <2>3. alone' \in [Rows -> 0 .. ArmIdle]
        BY <1>2 DEF Touch, Cancel, Expire
    <2>4. UNCHANGED <<board, polls, page, busy, pending, focus, hidden>>
        BY <1>2 DEF Touch, Cancel, Expire
    <2> QED BY <2>2, <2>3, <2>4 DEF page
<1>3. ASSUME NEW r \in Rows, Settle(r) PROVE Typed'
    <2>1. group' \in [Rows -> Groups]
        BY <1>3, IdleGroup, LockedGroup DEF Settle, Sets
    <2>2. busy' \in Nat
        BY <1>3 DEF Settle, Settled, Less
    <2>3. pending' \in [Rows -> Nat]
        BY <1>3 DEF Settle
    <2>4. board' \subseteq Rows
        BY <1>3 DEF Settle
    <2>5. UNCHANGED <<polls, page, alone, focus, hidden>>
        BY <1>3 DEF Settle
    <2> QED BY <2>1, <2>2, <2>3, <2>4, <2>5 DEF page
<1>4. CASE Tick
    <2>1. group' \in [Rows -> Groups]
        BY <1>4, TickedGroup DEF Tick
    <2>2. alone' \in [Rows -> 0 .. ArmIdle]
        BY <1>4 DEF Tick
    <2>3. UNCHANGED <<board, polls, page, busy, pending, focus, hidden>>
        BY <1>4 DEF Tick
    <2> QED BY <2>1, <2>2, <2>3 DEF page
<1>5. CASE Hide
    <2>1. group' \in [Rows -> Groups]
        BY <1>5, IdleGroup DEF Hide, Disarmed
    <2>2. UNCHANGED <<board, polls, page, busy, pending, alone, focus>> /\ hidden' = TRUE
        BY <1>5 DEF Hide
    <2> QED BY <2>1, <2>2 DEF page
<1>6. CASE Unhide \/ Focus
    <2>1. UNCHANGED <<board, polls, page, actions>>
        BY <1>6 DEF Unhide, Focus
    <2>2. focus' \in Rows \cup {"page", "picker"}
        BY <1>6 DEF Unhide, Focus
    <2>3. hidden' \in BOOLEAN
        BY <1>6 DEF Unhide, Focus
    <2> QED BY <2>1, <2>2, <2>3 DEF page, actions
<1>7. CASE Change
    <2>1. UNCHANGED <<polls, page, actions, focus, hidden>>
        BY <1>7 DEF Change
    <2>2. board' \subseteq Rows
        BY <1>7 DEF Change
    <2> QED BY <2>1, <2>2 DEF page, actions
<1>8. CASE Poll \/ \E p \in polls : Lose(p)
    <2>1. UNCHANGED <<board, page, actions, focus, hidden>>
        BY <1>8 DEF Poll, Lose
    <2>2. polls' \subseteq SUBSET Rows
        BY <1>8 DEF Poll, Lose
    <2> QED BY <2>1, <2>2 DEF page, actions
<1>9. ASSUME NEW p \in polls, Arrive(p) PROVE Typed'
    <2>1. p \subseteq Rows
        OBVIOUS
    <2>2. polls' \subseteq SUBSET Rows
        BY <1>9 DEF Arrive
    <2>3. \A r \in Rows : Carried(r, p) \in Groups
        BY IdleGroup DEF Carried
    <2>4. shown' \subseteq Rows /\ sig' \subseteq Rows
        BY <1>9, <2>1 DEF Arrive, page
    <2>7. behind' \in BOOLEAN
        <3>0. behind \in BOOLEAN
            OBVIOUS
        <3>1. CASE behind' = behind
            BY <3>0, <3>1, Zenon
        <3>2. CASE behind' = Peeks(p)
            <4>1. CASE Peeks(p)
                <5>1. behind' = TRUE
                    BY <3>2, <4>1
                <5> QED BY <5>1
            <4>2. CASE ~Peeks(p)
                <5>1. behind' = FALSE
                    BY <3>2, <4>2
                <5> QED BY <5>1
            <4> QED BY <4>1, <4>2
        <3> QED BY <1>9, <3>1, <3>2 DEF Arrive, page
    <2>8. focus' \in Rows \cup {"page", "picker"}
        BY <1>9 DEF Arrive
    <2>5. group' \in [Rows -> Groups]
        BY <1>9, <2>3 DEF Arrive
    <2>6. UNCHANGED <<board, busy, pending, alone, hidden>>
        BY <1>9 DEF Arrive
    <2> QED BY <2>2, <2>4, <2>5, <2>6, <2>7, <2>8
<1>10. CASE UNCHANGED vars
    BY <1>10 DEF vars, page, actions
<1> QED BY <1>1, <1>2, <1>3, <1>4, <1>5, <1>6, <1>7, <1>8, <1>9, <1>10 DEF Next

\* Every variable of Page keeps its type, for every number of rows.
THEOREM PageTyping == Spec => []TypeOK
BY InitTyping, StepTyping, PTL DEF Spec

-----------------------------------------------------------------------------
(* Requests. *)

LEMMA InitInv == Init => PageInv
<1> SUFFICES ASSUME Init PROVE PageInv
    OBVIOUS
<1>1. \A r \in Rows : group[r].at = "idle"
    BY DEF Init, Idle
<1>2. Firing = {}
    BY <1>1 DEF Firing, Is
<1>3. Counted
    BY <1>1, <1>2, FS_EmptySet DEF Init, Counted, Is
<1>4. ArmedIsAttended
    BY <1>1 DEF ArmedIsAttended, Is
<1> QED BY <1>3, <1>4, InitTyping DEF PageInv

\* The steps that fire nothing and settle nothing.
LEMMA OtherStepCounted ==
    ASSUME PageInv, TypeOK', UNCHANGED <<busy, pending>>,
           \A r \in Rows : Is(r, "firing")' <=> Is(r, "firing"),
           Firing \subseteq shown'
    PROVE  Counted'
<1>1. Firing' = Firing
    BY DEF Firing
<1> QED BY <1>1 DEF PageInv, Counted

LEMMA StepCounted == PageInv /\ [Next]_vars => Counted'
<1> SUFFICES ASSUME PageInv, [Next]_vars PROVE Counted'
    OBVIOUS
<1>0. Typed /\ TypeOK'
    BY StepTyping, TypeOKParts DEF PageInv
<1>c. /\ \A r \in Rows : pending[r] = IF Is(r, "firing") THEN 1 ELSE 0
      /\ busy = Cardinality(Firing) /\ Firing \subseteq shown
    BY DEF PageInv, Counted
<1>1. ASSUME NEW r \in Rows, NEW a \in Actions, Press(r, a) PROVE Counted'
    <2>0. ~Is(r, "firing") /\ r \in shown /\ shown' = shown
        BY <1>1 DEF Press, Is, page
    <2>1. CASE Sets(r, [Idle EXCEPT !.at = "firing", !.action = a])
               /\ busy' = busy + 1 /\ pending' = [pending EXCEPT ![r] = @ + 1]
        <3>1. \A q \in Rows : Is(q, "firing")' <=> q = r \/ Is(q, "firing")
            BY <1>0, <2>1, FiringGroup DEF Sets, Is, Typed
        <3>2. Firing' = Firing \cup {r} /\ r \notin Firing
            BY <2>0, <3>1 DEF Firing
        <3>3. Cardinality(Firing') = Cardinality(Firing) + 1
            BY <3>2, FiringFinite, FS_AddElement
        <3>4. \A q \in Rows : pending'[q] = IF Is(q, "firing")' THEN 1 ELSE 0
            BY <1>0, <1>c, <2>0, <2>1, <3>1 DEF Typed
        <3>5. Firing' \subseteq shown'
            BY <1>c, <2>0, <3>2
        <3> QED BY <1>c, <2>1, <3>3, <3>4, <3>5 DEF Counted
    <2>2. CASE Sets(r, Armed(a)) /\ UNCHANGED <<busy, pending>>
        <3>1. \A q \in Rows : Is(q, "firing")' <=> Is(q, "firing")
            BY <1>0, <2>0, <2>2 DEF Sets, Is, Typed, Armed
        <3> QED BY <1>0, <1>c, <2>0, <2>2, <3>1, OtherStepCounted
    <2> QED BY <1>1, <2>1, <2>2 DEF Press
<1>2. ASSUME NEW r \in Rows, Touch(r) \/ Cancel(r) \/ Expire(r) PROVE Counted'
    <2>1. \A q \in Rows : Is(q, "firing")' <=> Is(q, "firing")
        BY <1>0, <1>2 DEF Touch, Cancel, Expire, Sets, Is, Typed, Armed, Idle
    <2>2. UNCHANGED <<busy, pending, shown>>
        BY <1>2 DEF Touch, Cancel, Expire, page
    <2> QED BY <1>0, <1>c, <2>1, <2>2, OtherStepCounted
<1>3. ASSUME NEW r \in Rows, Settle(r) PROVE Counted'
    <2>0. Is(r, "firing") /\ shown' = shown
        BY <1>3, <1>c DEF Settle, page
    <2>1. \E g : Sets(r, g) /\ g.at # "firing"
        <3>1. Idle.at # "firing" /\ [group[r] EXCEPT !.at = "locked"].at # "firing"
            BY <1>0 DEF Idle, Typed, Groups
        <3> QED BY <1>3, <3>1 DEF Settle
    <2>2. \A q \in Rows : Is(q, "firing")' <=> q # r /\ Is(q, "firing")
        BY <1>0, <2>1 DEF Sets, Is, Typed
    <2>3. Firing' = Firing \ {r} /\ r \in Firing
        BY <2>0, <2>2 DEF Firing
    <2>4. Cardinality(Firing') = Cardinality(Firing) - 1 /\ Cardinality(Firing) \in Nat
        BY <2>3, FiringFinite, FS_RemoveElement, FS_CardinalityType
    <2>5. Cardinality(Firing') \in Nat
        BY <2>3, FiringFinite, FS_Subset, FS_CardinalityType
    <2>6. busy' = Cardinality(Firing')
        BY <1>3, <1>c, <2>4, <2>5 DEF Settle, Settled, Less
    <2>7. \A q \in Rows : pending'[q] = IF Is(q, "firing")' THEN 1 ELSE 0
        BY <1>0, <1>3, <1>c, <2>0, <2>2 DEF Typed, Settle
    <2> QED BY <1>c, <2>0, <2>3, <2>6, <2>7 DEF Counted
<1>4. CASE Tick
    <2>1. \A q \in Rows : Is(q, "firing")' <=> Is(q, "firing")
        BY <1>0, <1>4, TickedGroup DEF Tick, Is, Typed
    <2>2. UNCHANGED <<busy, pending, shown>>
        BY <1>4 DEF Tick, page
    <2> QED BY <1>0, <1>c, <2>1, <2>2, OtherStepCounted
<1>5. CASE Hide
    <2>1. \A q \in Rows : Is(q, "firing")' <=> Is(q, "firing")
        BY <1>0, <1>5 DEF Hide, Is, Disarmed, Idle, Typed
    <2>2. UNCHANGED <<busy, pending, shown>>
        BY <1>5 DEF Hide, page
    <2> QED BY <1>0, <1>c, <2>1, <2>2, OtherStepCounted
<1>6. CASE UNCHANGED <<page, actions>>
    <2>1. UNCHANGED <<busy, pending, shown, group>>
        BY <1>6 DEF page, actions
    <2> QED BY <1>0, <1>c, <2>1, OtherStepCounted DEF Is
<1>7. ASSUME NEW p \in polls, Arrive(p) PROVE Counted'
    <2>1. CASE UNCHANGED <<page, group>>
        <3>1. UNCHANGED <<busy, pending, shown, group>>
            BY <1>7, <2>1 DEF Arrive, page
        <3> QED BY <1>0, <1>c, <3>1, OtherStepCounted DEF Is
    <2>2. CASE ~Declines /\ group' = [r \in Rows |-> Carried(r, p)]
        <3>1. Firing = {}
            BY <1>0, <1>c, <2>2, FiringFinite, FS_EmptySet, FS_CardinalityType DEF Declines
        <3>2. \A q \in Rows : ~Is(q, "firing")
            BY <3>1 DEF Firing
        <3>3. \A q \in Rows : Is(q, "firing")' <=> Is(q, "firing")
            BY <2>2, <3>2 DEF Is, Carried, Idle
        <3>4. UNCHANGED <<busy, pending>>
            BY <1>7 DEF Arrive
        <3> QED BY <1>0, <3>1, <3>3, <3>4, OtherStepCounted
    <2> QED BY <1>7, <2>1, <2>2 DEF Arrive
<1>8. Unhide \/ Focus \/ Change \/ Poll \/ (\E p \in polls : Lose(p)) \/ UNCHANGED vars
          => UNCHANGED <<page, actions>>
    BY DEF Unhide, Focus, Change, Poll, Lose, vars
<1> QED BY <1>1, <1>2, <1>3, <1>4, <1>5, <1>6, <1>7, <1>8 DEF Next

LEMMA StepAttended == PageInv /\ [Next]_vars => ArmedIsAttended'
<1> SUFFICES ASSUME PageInv, [Next]_vars, NEW q \in Rows, Is(q, "armed")'
             PROVE  /\ q \in shown' /\ ~hidden'
                    /\ group'[q].left + alone'[q] = ArmIdle
    BY DEF ArmedIsAttended
<1>0. Typed
    BY TypeOKParts DEF PageInv
<1>a. Is(q, "armed") => q \in shown /\ ~hidden /\ group[q].left + alone[q] = ArmIdle
    BY DEF PageInv, ArmedIsAttended
<1>r. group[q].left \in 0 .. ArmIdle /\ alone[q] \in 0 .. ArmIdle
    BY <1>0, GroupParts DEF Typed
<1> USE Bounds
<1>1. ASSUME NEW r \in Rows, NEW a \in Actions, Press(r, a)
      PROVE  /\ q \in shown' /\ ~hidden' /\ group'[q].left + alone'[q] = ArmIdle
    <2>0. UNCHANGED <<shown, hidden>> /\ r \in shown /\ ~hidden
        BY <1>1 DEF Press, page
    <2>1. CASE Sets(r, [Idle EXCEPT !.at = "firing", !.action = a]) /\ UNCHANGED alone
        <3>1. q # r /\ group'[q] = group[q]
            BY <1>0, <2>1, FiringGroup DEF Sets, Is, Typed
        <3> QED BY <1>a, <2>0, <2>1, <3>1 DEF Is
    <2>2. CASE Sets(r, Armed(a)) /\ alone' = [alone EXCEPT ![r] = 0]
        <3>1. CASE q = r
            BY <1>0, <2>0, <2>2, <3>1 DEF Sets, Armed, Typed
        <3>2. CASE q # r
            <4>1. group'[q] = group[q] /\ alone'[q] = alone[q]
                BY <1>0, <2>2, <3>2 DEF Sets, Typed
            <4> QED BY <1>a, <2>0, <4>1 DEF Is
        <3> QED BY <3>1, <3>2
    <2> QED BY <1>1, <2>1, <2>2 DEF Press
<1>2. ASSUME NEW r \in Rows, Touch(r) \/ Cancel(r) \/ Expire(r) \/ Settle(r)
      PROVE  /\ q \in shown' /\ ~hidden' /\ group'[q].left + alone'[q] = ArmIdle
    <2>0. UNCHANGED <<shown, hidden>>
        BY <1>2 DEF Touch, Cancel, Expire, Settle, page
    <2>1. CASE q # r
        <3>1. group'[q] = group[q] /\ alone'[q] = alone[q]
            BY <1>0, <1>2, <2>1 DEF Touch, Cancel, Expire, Settle, Sets, Typed
        <3> QED BY <1>a, <2>0, <3>1 DEF Is
    <2>2. CASE q = r /\ Touch(r)
        <3>1. Is(q, "armed") /\ group'[q] = Armed(group[q].action) /\ alone'[q] = 0
            BY <1>0, <2>2 DEF Touch, Sets, Typed
        <3> QED BY <1>a, <2>0, <3>1 DEF Armed
    <2>3. CASE q = r /\ (Cancel(r) \/ Expire(r) \/ Settle(r))
        <3>1. PICK g : Sets(r, g) /\ g.at # "armed"
            <4>1. Idle.at # "armed" /\ [group[r] EXCEPT !.at = "locked"].at # "armed"
                BY <1>0 DEF Idle, Typed, Groups
            <4> QED BY <2>3, <4>1 DEF Cancel, Expire, Settle
        <3>2. group'[q].at # "armed"
            BY <1>0, <2>3, <3>1 DEF Sets, Typed
        <3> QED BY <3>2 DEF Is
    <2> QED BY <1>2, <2>1, <2>2, <2>3
<1>3. CASE Tick
    <2>1. /\ group'[q].at = group[q].at /\ group'[q].left = Less(group[q].left)
          /\ alone'[q] = IF alone[q] < ArmIdle THEN alone[q] + 1 ELSE ArmIdle
        BY <1>0, <1>3, TickedGroup DEF Tick, Typed
    <2>2. UNCHANGED <<shown, hidden>>
        BY <1>3 DEF Tick, page
    <2>3. q \in shown /\ ~hidden /\ group[q].left + alone[q] = ArmIdle
        BY <1>a, <2>1 DEF Is
    <2>4. group'[q].left + alone'[q] = ArmIdle
        BY <1>r, <2>1, <2>3 DEF Less
    <2> QED BY <2>2, <2>3, <2>4
<1>4. CASE Hide
    <2>1. group'[q] = Disarmed(group[q])
        BY <1>4 DEF Hide
    <2>2. Disarmed(group[q]).at # "armed"
        BY DEF Disarmed, Idle
    <2> QED BY <2>1, <2>2 DEF Is
<1>5. CASE UNCHANGED <<page, actions>> /\ (hidden' = hidden \/ ~hidden')
    BY <1>a, <1>5 DEF page, actions, Is
<1>6. ASSUME NEW p \in polls, Arrive(p)
      PROVE  /\ q \in shown' /\ ~hidden' /\ group'[q].left + alone'[q] = ArmIdle
    <2>0. UNCHANGED <<alone, hidden>>
        BY <1>6 DEF Arrive
    <2>1. CASE UNCHANGED <<page, group>>
        BY <1>a, <2>0, <2>1 DEF page, Is
    <2>2. CASE shown' = p /\ group' = [r \in Rows |-> Carried(r, p)]
        <3>1. group'[q] = Carried(q, p)
            BY <2>2
        <3>2. Idle.at # "armed"
            BY DEF Idle
        <3>3. q \in p /\ Is(q, "armed") /\ group'[q] = group[q]
            BY <3>1, <3>2 DEF Carried, Is
        <3> QED BY <1>a, <2>0, <2>2, <3>3
    <2> QED BY <1>6, <2>1, <2>2 DEF Arrive
<1>7. Unhide \/ Focus \/ Change \/ Poll \/ (\E p \in polls : Lose(p)) \/ UNCHANGED vars
          => UNCHANGED <<page, actions>> /\ (hidden' = hidden \/ ~hidden')
    BY DEF Unhide, Focus, Change, Poll, Lose, vars
<1> QED BY <1>1, <1>2, <1>3, <1>4, <1>5, <1>6, <1>7 DEF Next

LEMMA PageInvariance == Spec => []PageInv
<1>1. PageInv /\ [Next]_vars => PageInv'
    BY StepTyping, StepCounted, StepAttended DEF PageInv
<1> QED BY <1>1, InitInv, PTL DEF Spec

\* A row never has two requests in flight, and none is in flight whose group the
\* tab does not show as firing: for every number of rows, requests and polls.
THEOREM RequestsShown == Spec => []OneRequestShown
<1>1. PageInv => OneRequestShown
    BY DEF PageInv, Counted, OneRequestShown, Firing, Is
<1> QED BY <1>1, PageInvariance, PTL

\* No repaint gives an armed confirmation more time, and none survives a hidden
\* tab.
THEOREM ArmedAttended == Spec => []ArmedIsAttended
<1>1. PageInv => ArmedIsAttended
    BY DEF PageInv
<1> QED BY <1>1, PageInvariance, PTL
=============================================================================
