------------------------- MODULE CandylaneLogProofs -------------------------
(***************************************************************************)
(* The program implements Engine: every answer of a handler is one Engine  *)
(* leaves open, so the theorems on Engine are theorems on the program.     *)
(* What the log keeps for the machine's sake (LogFits) is proved with it.  *)
(***************************************************************************)
EXTENDS CandylaneInvariant, EngineLogProofs

-----------------------------------------------------------------------------
(* What a step does to the rows *)

\* A pull records an item.
RowAdded ==
    /\ pc = "plan" /\ op' = op /\ profile' = profile /\ seq \in Nat
    /\ Len(acts) + 1 \notin DOMAIN acts
    /\ DOMAIN acts' = DOMAIN acts \cup {Len(acts) + 1}
    /\ \A a \in DOMAIN acts : acts'[a] = acts[a]
    /\ LET row == acts'[Len(acts) + 1]
       IN  /\ row.op = op /\ row.seq = seq /\ row.before = probe
           /\ row.handler = CurrentItem.handler /\ row.target = CurrentItem.target
           /\ row.status = IF pc' = "item" THEN "skipped" ELSE "pending"
           /\ row.undoKind \in PlannedUndoKinds(CurrentItem.handler) \cup {"noop"}

\* One row moves on: an intent is settled, or an undo failed once or is over.
RowMoved(a) ==
    /\ DOMAIN acts' = DOMAIN acts
    /\ \A b \in DOMAIN acts : b # a => acts'[b] = acts[b]
    /\ SameIdentity(acts'[a], acts[a])
    /\ \/ acts[a].status = "pending" /\ acts'[a].status = "failed"
       \/ acts[a].status = "pending" /\ acts'[a].status = "skipped" /\ pc = "reconcile"
       \/ acts[a].status = "pending" /\ acts'[a].status = "applied"
          /\ a = act /\ pc \in {"apply", "synthesize"}
       \/ /\ pc = "undo" /\ a = act /\ acts[a].status = "applied"
          /\ acts'[a].status \in {"applied", "reverted", "undo_skipped", "undo_failed"}
          /\ acts'[a].status = "undo_skipped" => acts[a].undoKind = "one_way"
          /\ acts'[a].undo = acts[a].undo /\ acts'[a].after = acts[a].after

\* An item the pull records gets a new row.
LEMMA ItemRecorded ==
    ASSUME IInv, pc = "plan", op' = op, profile' = profile,
           NEW k \in PlannedUndoKinds(CurrentItem.handler) \cup {"noop"}, NEW status, status = IF pc' = "item" THEN "skipped" ELSE "pending",
           InsertAction(op, seq, CurrentItem.handler, CurrentItem.target, probe, k, status)
    PROVE  RowAdded
<1>store. StoreTypeOK /\ TypeOK
  BY DEF IInv, TypeInv, TypeOK
<1>1. op \in Nat /\ seq \in Nat /\ probe \in Values /\ seq < Len(profile)
  BY DEF IInv, TypeInv, TypeOK, Control
<1>2. CurrentItem.handler \in HandlerKind /\ CurrentItem.target \in Targets
  BY <1>store, <1>1, CurrentItemTyped
<1>3. status \in ActionStatus /\ k \in UndoKind
  BY <1>2, PlannedKindsTyped DEF ActionStatus, UndoKind
<1> DEFINE row == acts'[Len(acts) + 1]
<1>4. /\ DOMAIN acts' = DOMAIN acts \cup {Len(acts) + 1}
      /\ Len(acts) + 1 \notin DOMAIN acts
      /\ \A a \in DOMAIN acts : a < Len(acts) + 1 /\ acts'[a] = acts[a]
  BY <1>store, <1>1, <1>2, <1>3, InsertActionFacts
<1>5. /\ row.op = op /\ row.seq = seq /\ row.before = probe /\ row.status = status
      /\ row.handler = CurrentItem.handler /\ row.target = CurrentItem.target
      /\ row.undoKind = k
  BY <1>store, <1>1, <1>2, <1>3, InsertActionFacts
<1> QED BY <1>1, <1>4, <1>5 DEF RowAdded

\* The same with the undo kind of a planned action.
LEMMA IntentRecorded ==
    ASSUME IInv, pc = "plan", NEW k \in PlannedUndoKinds(CurrentItem.handler), PlanSome(k)
    PROVE  RowAdded
  BY ItemRecorded DEF PlanSome, Goto

\* A step adds a row, moves one, or leaves them alone.
LEMMA RowsMove ==
    ASSUME IInv, [Next]_vars
    PROVE  UNCHANGED acts \/ RowAdded \/ \E a \in DOMAIN acts : RowMoved(a)
<1>store. StoreTypeOK /\ TypeOK
  BY DEF IInv, TypeInv, TypeOK
<1>1. ASSUME UNCHANGED vars \/ Start \/ Crash \/ StoreErr \/ RebootStep PROVE UNCHANGED acts
  BY <1>1 DEF vars, storeVars, Start, StartPull, StartRevert, StartRecover, Enter, Crash, StoreErr, RebootStep,
              PreflightRefuses, BeginPull, GateClear, GateAborts
<1>2. ASSUME LogStep, ~GiveUp PROVE UNCHANGED acts
  BY <1>2 DEF storeVars, LogStep, FinishPull, NothingToRevert, RevertLast, NothingToRecover,
              BeginRecover, NothingInFlight, Rollback, NextUndo, RollbackDone, Finalize, Cleanup, Mirror
<1>3. ASSUME pc = "undo", NEW status \in {"reverted", "undo_skipped", "undo_failed"}, Settle(status),
             status = "undo_skipped" => acts[act].undoKind = "one_way"
      PROVE  \E a \in DOMAIN acts : RowMoved(a)
  <2>1. act \in DOMAIN acts /\ acts[act].status = "applied"
    BY <1>3, RowAtHand DEF IInv, HandInv, RowInHand, ListInHand, HighestSeq, AppliedActions
  <2>2. RowMoved(act)
    BY <1>3, <1>store, <2>1, SetActionStatusFacts DEF Settle, RowMoved, ActionStatus
  <2> QED BY <2>1, <2>2
<1>4. ASSUME GiveUp PROVE \E a \in DOMAIN acts : RowMoved(a)
  BY <1>3, <1>4 DEF GiveUp
<1>5. ASSUME UndoOk PROVE \E a \in DOMAIN acts : RowMoved(a)
  BY <1>3, <1>5 DEF UndoOk, UndoneStatus
<1>6. ASSUME UndoErr PROVE \E a \in DOMAIN acts : RowMoved(a)
  <2>1. act \in DOMAIN acts /\ acts[act].status = "applied"
    BY <1>6, RowAtHand DEF UndoErr, IInv, HandInv, RowInHand, ListInHand, HighestSeq, AppliedActions
  <2>2. RowMoved(act)
    BY <1>6, <1>store, <2>1, BumpUndoAttemptFacts DEF UndoErr, RowMoved
  <2> QED BY <2>1, <2>2
<1>8. ASSUME PlanNone PROVE RowAdded
  BY <1>8, ItemRecorded DEF PlanNone, Goto
<1>9. ASSUME pc = "plan", NEW k \in PlannedUndoKinds(CurrentItem.handler), PlanSome(k) PROVE RowAdded
  BY <1>9, IntentRecorded
<1>10. ASSUME pc \in {"apply", "synthesize"}, NEW v \in Values, NEW r \in Recipes,
              SetActionApplied(act, v, r)
       PROVE  \E a \in DOMAIN acts : RowMoved(a)
  <2>1. act \in DOMAIN acts /\ acts[act].status = "pending"
    BY <1>10, RowAtHand DEF IInv, HandInv, RowInHand
  <2>2. RowMoved(act)
    BY <1>10, <1>store, <2>1, SetActionAppliedFacts DEF RowMoved
  <2> QED BY <2>1, <2>2
<1>11. ASSUME pc = "apply", NEW v \in AfterValues[acts[act].handler], NEW r \in Recipes, ApplyOk(v, r)
       PROVE  \E a \in DOMAIN acts : RowMoved(a)
  <2>1. v \in Values
    BY <1>11, RowAtHand, <1>store, StoreRows, ValuesAssumption DEF Action
  <2> QED BY <1>10, <1>11, <2>1 DEF ApplyOk
<1>12. ASSUME NEW r \in Recipes, Synthesize(probe, r) PROVE \E a \in DOMAIN acts : RowMoved(a)
  <2>1. probe \in Values /\ pc = "synthesize"
    BY <1>12 DEF Synthesize, IInv, TypeInv, Control
  <2> QED BY <1>10, <1>12, <2>1 DEF Synthesize
<1>13. ASSUME NEW a \in DOMAIN acts, acts[a].status = "pending",
              NEW status \in {"failed", "skipped"}, SetActionStatus(a, status),
              status = "skipped" => pc = "reconcile"
       PROVE  RowMoved(a)
  BY <1>13, <1>store, SetActionStatusFacts DEF RowMoved, ActionStatus
<1>14. ASSUME ApplyErr PROVE \E a \in DOMAIN acts : RowMoved(a)
  <2>1. act \in DOMAIN acts /\ acts[act].status = "pending"
    BY <1>14, RowAtHand DEF ApplyErr, IInv, HandInv, RowInHand
  <2> QED BY <1>13, <1>14, <2>1 DEF ApplyErr
<1>15. ASSUME NEW a \in DOMAIN acts, NEW v, ReconcileNeverRan(a, v) PROVE RowMoved(a)
  BY <1>13, <1>15 DEF ReconcileNeverRan, IsPendingAction
<1>16. ASSUME \/ \E v : ProbeItem(v)
              \/ ItemErr \/ ReconcileErr
              \/ \E a, v : ReconcileApplied(a, v)
       PROVE  UNCHANGED acts
  BY <1>16 DEF storeVars, ProbeItem, ItemErr, ReconcileErr, ReconcileApplied
<1> QED
  BY <1>1, <1>2, <1>4, <1>5, <1>6, <1>8, <1>9, <1>11, <1>12, <1>14, <1>15, <1>16
  DEF Next, Run, HandlerStep

\* A pull goes on with the same profile and operation, which BeginPull opened.
LEMMA PullGoesOn ==
    ASSUME [Next]_vars, pc' \in Pulling
    PROVE  \/ \E s, b : BeginPull(s, b)
           \/ pc \in Pulling /\ UNCHANGED <<ops, cmd, op, profile>>
  BY DEF vars, procVars, locals, storeVars, Goto, Pulling, Next, Start, StartPull, StartRevert,
         StartRecover, Enter, Run, Crash, StoreErr, Return, HandlerStep, ProbeItem, ItemErr, PlanNone, PlanSome,
         ApplyOk, ApplyErr, ReconcileNeverRan, ReconcileApplied, Synthesize, ReconcileErr, UndoOk,
         UndoErr, Settle, RebootStep, PreflightRefuses, GateClear, GateAborts, LogStep, FinishPull,
         NothingToRevert, RevertLast, NothingToRecover, BeginRecover, NothingInFlight, Rollback,
         NextUndo, RollbackDone, GiveUp, Finalize, Cleanup, Mirror

\* Operations are opened where there was room for one.
LEMMA OpsBoundedStep ==
    ASSUME IInv, IInv', OpsBounded, [Next]_vars
    PROVE  OpsBounded'
<1>len. /\ Len(ops) \in Nat /\ DOMAIN ops = 1 .. Len(ops) /\ MaxOps \in Nat
        /\ Len(ops') \in Nat /\ DOMAIN ops' = 1 .. Len(ops')
  <2>1. ops \in Seq(Operation) /\ ops' \in Seq(Operation)
    BY DEF IInv, TypeInv, TypeOK, StoreTypeOK
  <2> QED BY <2>1, LenProperties, BoundsAssumption
<1>store. StoreTypeOK /\ TypeOK
  BY DEF IInv, TypeInv, TypeOK
<1>1. ASSUME UNCHANGED ops, pc' \in {"preflight", "unfinished"} => Len(ops) < MaxOps
      PROVE  OpsBounded'
  BY <1>1 DEF OpsBounded
<1>2. ASSUME NEW o \in DOMAIN ops, NEW status \in OpStatus, SetOpStatus(o, status),
             pc' \notin {"preflight", "unfinished"}
      PROVE  OpsBounded'
  <2>1. DOMAIN ops' = DOMAIN ops
    BY <1>2, <1>store, SetOpStatusFacts
  <2>2. Len(ops') = Len(ops)
    <3>1. Len(ops') > 0 => Len(ops') \in 1 .. Len(ops)
      BY <1>len, <2>1
    <3>2. Len(ops) > 0 => Len(ops) \in 1 .. Len(ops')
      BY <1>len, <2>1
    <3>3. Len(ops) \in Nat /\ Len(ops') \in Nat
      BY <1>len
    <3> QED BY <3>1, <3>2, <3>3
  <2> QED BY <1>2, <2>2 DEF OpsBounded
<1>3. ASSUME pc \in {"preflight", "unfinished"}, NEW kind \in {"pull", "recover"}, NEW o \in Nat,
             BeginOp(kind, o), pc' \notin {"preflight", "unfinished"}
      PROVE  OpsBounded'
  <2>1. Len(ops') = Len(ops) + 1
    BY <1>3, <1>store, BeginOpFacts DEF OpKind
  <2> QED BY <1>3, <1>len, <2>1 DEF OpsBounded
<1>4. ASSUME NEW s, NEW b, BeginPull(s, b) PROVE OpsBounded'
  BY <1>3, <1>4 DEF BeginPull, Goto
<1>5. ASSUME NEW o \in DOMAIN ops, BeginRecover(o) PROVE OpsBounded'
  BY <1>3, <1>5, <1>len DEF BeginRecover, Goto
<1>6. ASSUME FinishPull PROVE OpsBounded'
  BY <1>2, <1>6 DEF FinishPull, Return, IInv, TypeInv, Control, NoOpYet, OpStatus
<1>7. ASSUME Finalize PROVE OpsBounded'
  BY <1>2, <1>7 DEF Finalize, Goto, Outcome, IInv, TypeInv, Control, NoOpYet, OpStatus
<1>8. ASSUME Mirror PROVE OpsBounded'
  <2>1. /\ op \in DOMAIN ops /\ rec \in DOMAIN ops /\ ops[op].status \in OpStatus
    BY <1>8, <1>store, StoreRows DEF Mirror, IInv, TypeInv, Control, NoOpYet, Operation
  <2> QED BY <1>2, <1>8, <2>1 DEF Mirror, Return
<1>9. ASSUME UNCHANGED vars PROVE OpsBounded'
  BY <1>1, <1>9 DEF vars, procVars, storeVars, OpsBounded
<1>10. ASSUME Start PROVE OpsBounded'
  BY <1>1, <1>10 DEF Start, StartPull, StartRevert, StartRecover, Enter, storeVars
<1>11. ASSUME \/ Crash \/ StoreErr \/ HandlerStep
              \/ \E s, b : PreflightRefuses(s, b) \/ GateClear(s, b) \/ GateAborts(s, b)
              \/ NothingToRevert \/ \E o \in DOMAIN ops : RevertLast(o)
              \/ NothingToRecover \/ NothingInFlight \/ Rollback
              \/ \E a \in DOMAIN acts : NextUndo(a)
              \/ RollbackDone \/ GiveUp \/ Cleanup
       PROVE  UNCHANGED ops /\ pc' \notin {"preflight", "unfinished"}
  BY <1>11 DEF storeVars, Goto, Return, Crash, StoreErr, HandlerStep, ProbeItem, ItemErr, PlanNone, PlanSome, ApplyOk,
               ApplyErr, ReconcileNeverRan, ReconcileApplied, Synthesize, ReconcileErr, UndoOk, UndoErr,
               Settle, PreflightRefuses, GateClear, GateAborts, NothingToRevert, RevertLast,
               NothingToRecover, NothingInFlight, Rollback, NextUndo, RollbackDone, GiveUp, Cleanup
<1> QED
  BY <1>1, <1>4, <1>5, <1>6, <1>7, <1>8, <1>9, <1>10, <1>11 DEF Next, Run, RebootStep, LogStep

\* The profile in hand stays, and the row an item gets is the item's.
LEMMA ItemInHandStep ==
    ASSUME IInv, ItemInHand, [Next]_vars
    PROVE  ItemInHand'
<1>1. cmd' = "pull" => profile' \in Profiles
  <2>1. ASSUME Start PROVE cmd' = "pull" => profile' \in Profiles
    BY <2>1 DEF Start, StartPull, StartRevert, StartRecover, Enter
  <2>2. ASSUME ~Start PROVE cmd' # "pull" \/ UNCHANGED <<cmd, profile>>
    BY <2>2 DEF vars, procVars, locals, storeVars, Goto, Next, Run, Crash, StoreErr, Return, HandlerStep, ProbeItem,
                ItemErr, PlanNone, PlanSome, ApplyOk, ApplyErr, ReconcileNeverRan, ReconcileApplied, Synthesize,
                ReconcileErr, UndoOk, UndoErr, Settle, RebootStep, PreflightRefuses, BeginPull, GateClear,
                GateAborts, LogStep, FinishPull, NothingToRevert, RevertLast, NothingToRecover,
                BeginRecover, NothingInFlight, Rollback, NextUndo, RollbackDone, GiveUp, Finalize,
                Cleanup, Mirror
  <2> QED BY <2>1, <2>2 DEF ItemInHand
<1>2. ASSUME pc' = "apply" PROVE acts'[act'].handler = CurrentItem'.handler
  <2>1. UNCHANGED vars \/ (pc = "plan" /\ \E k \in PlannedUndoKinds(CurrentItem.handler) : PlanSome(k))
    BY <1>2 DEF vars, procVars, locals, storeVars, Goto, Next, Start, StartPull, StartRevert, StartRecover, Enter,
                Run, Crash, StoreErr, Return, HandlerStep, ProbeItem, ItemErr, PlanNone, ApplyOk, ApplyErr,
                ReconcileNeverRan, ReconcileApplied, Synthesize, ReconcileErr, UndoOk, UndoErr, Settle,
                RebootStep, PreflightRefuses, BeginPull, GateClear, GateAborts, LogStep, FinishPull,
                NothingToRevert, RevertLast, NothingToRecover, BeginRecover, NothingInFlight, Rollback,
                NextUndo, RollbackDone, GiveUp, Finalize, Cleanup, Mirror
  <2>2. CASE UNCHANGED vars
    BY <1>2, <2>2 DEF vars, procVars, locals, storeVars, ItemInHand, CurrentItem
  <2>3. CASE pc = "plan" /\ \E k \in PlannedUndoKinds(CurrentItem.handler) : PlanSome(k)
    <3>1. PICK k \in PlannedUndoKinds(CurrentItem.handler) : PlanSome(k)
      BY <2>3
    <3>2. /\ act' = Len(acts) + 1 /\ CurrentItem' = CurrentItem
      BY <3>1 DEF PlanSome, CurrentItem
    <3>3. RowAdded
      BY <2>3, <3>1, IntentRecorded
    <3> QED BY <3>2, <3>3 DEF RowAdded
  <2> QED BY <2>1, <2>2, <2>3
<1> QED BY <1>1, <1>2 DEF ItemInHand

\* The item a pull is at is an item of the machine.
LEMMA CurrentItemFits ==
    ASSUME IInv, pc = "plan"
    PROVE  /\ CurrentItem \in Items
           /\ CurrentItem.handler = "dotfile" => CurrentItem.target \in DOMAIN InitialFiles
           /\ CurrentItem.handler = "winget" => CurrentItem.target \in DOMAIN InitialPackages
<1>1. profile \in Seq(Items) /\ seq + 1 \in 1 .. Len(profile)
  <2>1. profile \in Seq(Items) /\ seq \in Nat /\ seq < Len(profile)
    BY DEF IInv, TypeInv, TypeOK, Control
  <2> QED BY <2>1, LenProperties
<1>2. CurrentItem \in Items
  BY <1>1, ElementOfSeq DEF CurrentItem
<1> QED BY <1>2, ItemsOnMachine

\* Rows are about what items are about.
LEMMA RowsOnMachineStep ==
    ASSUME IInv, RowsOnMachine, [Next]_vars
    PROVE  RowsOnMachine'
<1>1. CASE UNCHANGED acts
  BY <1>1 DEF RowsOnMachine
<1>2. CASE RowAdded
  BY <1>2, CurrentItemFits DEF RowAdded, RowsOnMachine
<1>3. ASSUME NEW a \in DOMAIN acts, RowMoved(a) PROVE RowsOnMachine'
  BY <1>3 DEF RowMoved, SameIdentity, RowsOnMachine
<1> QED BY <1>1, <1>2, <1>3, RowsMove

\* The item a pull is at is one of its profile.
LEMMA ItemOfProfile ==
    ASSUME IInv, ItemInHand, pc = "plan"
    PROVE  profile \in Profiles /\ seq + 1 \in DOMAIN profile
<1>1. profile \in Seq(Items) /\ seq \in Nat /\ seq < Len(profile) /\ cmd = "pull"
  BY DEF IInv, TypeInv, TypeOK, Control, Pulling
<1> QED BY <1>1, LenProperties DEF ItemInHand

\* The rows of the pull in hand follow its items.
LEMMA RowsFollowStep ==
    ASSUME IInv, ItemInHand, RowsOfOneProfile, [Next]_vars, pc' \in Pulling
    PROVE  \A a \in (ActionsOf(op))' : Follows(a, profile)'
<1>1. ASSUME NEW s, NEW b, BeginPull(s, b) PROVE (ActionsOf(op))' = {}
  <2>1. op' = Len(ops) + 1 /\ acts' = acts
    BY <1>1 DEF BeginPull
  <2>2. \A a \in DOMAIN acts : acts[a].op \in DOMAIN ops
    BY DEF IInv, LogInv, RowsRefer
  <2>3. Len(ops) \in Nat /\ DOMAIN ops = 1 .. Len(ops)
    BY LogRows DEF IInv
  <2> QED BY <2>1, <2>2, <2>3 DEF ActionsOf
<1>2. ASSUME pc \in Pulling, UNCHANGED <<op, profile>>
      PROVE  \A a \in (ActionsOf(op))' : Follows(a, profile)'
  <2>1. \A a \in ActionsOf(op) : Follows(a, profile)
    BY <1>2 DEF RowsOfOneProfile
  <2>2. CASE UNCHANGED acts
    BY <1>2, <2>1, <2>2 DEF ActionsOf, Follows
  <2>3. CASE RowAdded
    BY <1>2, <2>1, <2>3, ItemOfProfile DEF RowAdded, CurrentItem, ActionsOf, Follows
  <2>4. ASSUME NEW x \in DOMAIN acts, RowMoved(x)
        PROVE  \A a \in (ActionsOf(op))' : Follows(a, profile)'
    BY <1>2, <2>1, <2>4 DEF RowMoved, SameIdentity, ActionsOf, Follows
  <2> QED BY <2>2, <2>3, <2>4, RowsMove
<1> QED BY <1>1, <1>2, PullGoesOn

\* Every step keeps the rows of an operation those of one profile.
LEMMA RowsOfOneProfileStep ==
    ASSUME IInv, ItemInHand, RowsOfOneProfile, [Next]_vars
    PROVE  RowsOfOneProfile'
<1>1. pc' \in Pulling => \A a \in (ActionsOf(op))' : Follows(a, profile)'
  BY RowsFollowStep
<1>2. \A a, b \in DOMAIN acts' : acts'[a].op = acts'[b].op =>
         \E p \in Profiles : Follows(a, p)' /\ Follows(b, p)'
  <2>1. CASE UNCHANGED acts
    BY <2>1 DEF RowsOfOneProfile, Follows
  <2>2. CASE RowAdded
    <3>1. PICK n :
             /\ n \notin DOMAIN acts /\ DOMAIN acts' = DOMAIN acts \cup {n}
             /\ \A a \in DOMAIN acts : acts'[a] = acts[a]
             /\ acts'[n].op = op /\ acts'[n].seq = seq /\ pc = "plan"
             /\ acts'[n].handler = CurrentItem.handler /\ acts'[n].target = CurrentItem.target
      BY <2>2 DEF RowAdded
    <3>2. PICK p \in Profiles : p = profile /\ p = profile' /\ seq + 1 \in DOMAIN p
      BY <2>2, <3>1, ItemOfProfile DEF RowAdded
    <3>3. Follows(n, p)'
      BY <3>1, <3>2 DEF Follows, CurrentItem
    <3>4. ASSUME NEW a \in DOMAIN acts, acts[a].op = op PROVE Follows(a, p)'
      <4>1. Follows(a, p)
        BY <3>1, <3>2, <3>4 DEF RowsOfOneProfile, Pulling, ActionsOf
      <4> QED BY <3>1, <4>1 DEF Follows
    <3>5. ASSUME NEW a \in DOMAIN acts, NEW b \in DOMAIN acts, acts[a].op = acts[b].op
          PROVE  \E q \in Profiles : Follows(a, q)' /\ Follows(b, q)'
      BY <3>1, <3>5 DEF RowsOfOneProfile, Follows
    <3> QED BY <3>1, <3>2, <3>3, <3>4, <3>5
  <2>3. ASSUME NEW x \in DOMAIN acts, RowMoved(x)
        PROVE  \A a, b \in DOMAIN acts' : acts'[a].op = acts'[b].op =>
                  \E p \in Profiles : Follows(a, p)' /\ Follows(b, p)'
    <3>1. DOMAIN acts' = DOMAIN acts /\ \A a \in DOMAIN acts : SameIdentity(acts'[a], acts[a])
      BY <2>3 DEF RowMoved, SameIdentity
    <3>2. \A a \in DOMAIN acts : \A p : Follows(a, p) => Follows(a, p)'
      BY <3>1 DEF SameIdentity, Follows
    <3> QED BY <3>1, <3>2 DEF RowsOfOneProfile, SameIdentity
  <2> QED BY <2>1, <2>2, <2>3, RowsMove
<1> QED BY <1>1, <1>2 DEF RowsOfOneProfile

\* A script's row comes after those of its packages and dotfiles, and those stay until
\* the script is undone: a row in flight is the latest, and rollback takes the newest first.
LEMMA ScriptsOrderedStep ==
    ASSUME IInv, ItemInHand, RowsOfOneProfile, ScriptsOrdered, [Next]_vars
    PROVE  ScriptsOrdered'
<1>1. CASE UNCHANGED acts
  BY <1>1 DEF ScriptsOrdered
<1>2. CASE RowAdded
  <2> DEFINE n == Len(acts) + 1
  <2>1. /\ n \notin DOMAIN acts /\ DOMAIN acts' = DOMAIN acts \cup {n}
        /\ \A a \in DOMAIN acts : acts'[a] = acts[a]
        /\ acts'[n].op = op /\ acts'[n].seq = seq /\ acts'[n].handler = CurrentItem.handler
        /\ pc = "plan" /\ seq \in Nat
    BY <1>2 DEF RowAdded
  <2>2. ASSUME NEW b \in DOMAIN acts, acts[b].op = op
        PROVE  /\ acts[b].seq < seq /\ acts[b].status \in {"applied", "skipped"}
               /\ acts[b].handler = "script" => CurrentItem.handler = "script"
    <3>1. op # 0 /\ cmd = "pull" /\ acts[b].seq \in Nat /\ seq < Len(profile)
      BY <2>1, LogRows DEF IInv, TypeInv, Control, NoOpYet, Pulling
    <3>2. /\ acts[b].seq < seq /\ acts[b].status \in {"applied", "skipped"}
          /\ acts[b].handler = profile[acts[b].seq + 1].handler
      BY <2>1, <2>2, <3>1 DEF IInv, HandInv, RowInHand, PullInHand, Pulling, ActionsOf,
                             RowsOfOneProfile, Follows
    <3>3. profile \in Profiles /\ DOMAIN profile = 1 .. Len(profile) /\ Len(profile) \in Nat
      <4>1. profile \in Seq(Items)
        BY DEF IInv, TypeInv, TypeOK
      <4> QED BY <3>1, <4>1, LenProperties DEF ItemInHand
    <3>4. acts[b].seq + 1 \in DOMAIN profile /\ seq + 1 \in DOMAIN profile
      BY <2>1, <3>1, <3>2, <3>3
    <3>5. acts[b].seq + 1 < seq + 1
      BY <2>1, <3>1, <3>2
    <3> QED BY <3>2, <3>3, <3>4, <3>5, ScriptsLast DEF CurrentItem
  <2> HIDE DEF n
  <2> QED BY <2>1, <2>2 DEF ScriptsOrdered
<1>3. ASSUME NEW x \in DOMAIN acts, RowMoved(x) PROVE ScriptsOrdered'
  <2>1. \A a \in DOMAIN acts : SameIdentity(acts'[a], acts[a])
    BY <1>3 DEF RowMoved, SameIdentity
  <2>2. \A a \in DOMAIN acts : a \in Nat /\ acts[a].seq \in Nat
    BY LogRows DEF IInv
  <2> SUFFICES ASSUME NEW a \in DOMAIN acts, NEW b \in DOMAIN acts,
                      acts[a].op = acts[b].op, acts[a].handler = "script", acts[b].handler # "script"
               PROVE  /\ acts[b].seq < acts[a].seq
                      /\ acts'[a].status \in {"pending", "applied"} =>
                            acts'[b].status \in {"applied", "skipped"}
    BY <1>3, <2>1 DEF ScriptsOrdered, RowMoved, SameIdentity
  <2>3. /\ acts[b].seq < acts[a].seq /\ a # b
        /\ acts[a].status \in {"pending", "applied"} => acts[b].status \in {"applied", "skipped"}
    BY DEF ScriptsOrdered
  <2>4. acts'[a].status \in {"pending", "applied"} => acts[a].status \in {"pending", "applied"}
    BY <1>3 DEF RowMoved
  <2>5. CASE b # x
    BY <1>3, <2>3, <2>4, <2>5 DEF RowMoved
  <2>6. CASE b = x /\ acts[x].status # "applied"
    BY <1>3, <2>3, <2>4, <2>6 DEF RowMoved
  <2>7. CASE b = x /\ acts[x].status = "applied" /\ acts'[x].status # "applied"
    <3>1. pc = "undo" /\ x = act
      BY <1>3, <2>7 DEF RowMoved
    <3>2. acts[x].op = op /\ op # 0
      BY <3>1, RowAtHand
    <3>3. /\ HighestSeq(x, AppliedActions(op))
          /\ \A c \in ActionsOf(op) : acts[c].status # "pending"
      BY <3>1, <3>2 DEF IInv, HandInv, RowInHand, ListInHand
    <3>4. acts[a].status \notin {"pending", "applied"}
      BY <2>2, <2>3, <2>7, <3>2, <3>3 DEF HighestSeq, AppliedActions, ActionsOf
    <3> QED BY <2>3, <2>4, <3>4
  <2> QED BY <2>3, <2>5, <2>6, <2>7
<1> QED BY <1>1, <1>2, <1>3, RowsMove

\* Only plan of a script says one_way.
LEMMA OneWayScriptsStep ==
    ASSUME IInv, OneWayScripts, [Next]_vars
    PROVE  OneWayScripts'
<1>1. CASE UNCHANGED acts
  BY <1>1 DEF OneWayScripts
<1>2. CASE RowAdded
  <2> DEFINE n == Len(acts) + 1
  <2>1. /\ DOMAIN acts' = DOMAIN acts \cup {n}
        /\ \A a \in DOMAIN acts : acts'[a] = acts[a]
        /\ acts'[n].handler = CurrentItem.handler
        /\ acts'[n].undoKind \in PlannedUndoKinds(CurrentItem.handler) \cup {"noop"}
    BY <1>2 DEF RowAdded
  <2>2. CurrentItem.handler \in HandlerKind
    BY <1>2, CurrentItemTyped DEF RowAdded, IInv, TypeInv, Control
  <2>3. acts'[n].undoKind = "one_way" => acts'[n].handler = "script"
    BY <2>1, <2>2 DEF PlannedUndoKinds, HandlerKind
  <2> HIDE DEF n
  <2> QED BY <2>1, <2>3 DEF OneWayScripts
<1>3. ASSUME NEW a \in DOMAIN acts, RowMoved(a) PROVE OneWayScripts'
  BY <1>3 DEF RowMoved, SameIdentity, OneWayScripts
<1> QED BY <1>1, <1>2, <1>3, RowsMove

\* What the log keeps for the machine's sake.
LEMMA LogFitsStep ==
    ASSUME IInv, IInv', LogFits, [Next]_vars
    PROVE  LogFits'
  BY OpsBoundedStep, ItemInHandStep, RowsOnMachineStep, RowsOfOneProfileStep, ScriptsOrderedStep,
     OneWayScriptsStep
  DEF LogFits

\* And at the start.
LEMMA LogFitsInit == Init => LogFits
<1> SUFFICES ASSUME Init PROVE LogFits
  OBVIOUS
<1>1. ops = <<>> /\ acts = <<>> /\ pc = "idle" /\ cmd = "none"
  BY DEF Init, StoreInit, NoCommand
<1>2. Len(ops) = 0 /\ DOMAIN acts = {}
  BY <1>1, EmptySeq
<1> QED
  BY <1>1, <1>2, BoundsAssumption
  DEF LogFits, OpsBounded, ItemInHand, RowsOnMachine, RowsOfOneProfile, ScriptsOrdered, OneWayScripts,
      Pulling

-----------------------------------------------------------------------------
(* Every step of the program is a step of Engine, or none *)

\* parse_list finds the version in what list prints, and nothing when there is none.
LEMMA ProbeFindsPackage ==
    ASSUME MachineTypeOK, NEW p \in DOMAIN InitialPackages
    PROVE  W!Probe(p) = packages[p]
<1> DEFINE lines == W!List(p)
           Ids(line) == {k \in DOMAIN line : line[k] = p}
           rows == {i \in DOMAIN lines : Ids(lines[i]) # {}}
<1>1. p \notin W!Words
  BY MachineAssumption
<1>2. DOMAIN lines = {1, 2} /\ lines[1] = W!Header
  BY DEF W!List
<1>3. Ids(lines[1]) = {}
  BY <1>1, <1>2 DEF W!Header, W!Words
<1>4. CASE packages[p] = Absent
  <2>1. lines[2] = W!Nothing
    BY <1>4 DEF W!List
  <2>2. Ids(lines[2]) = {}
    BY <1>1, <2>1 DEF W!Nothing, W!Words
  <2>3. rows = {}
    BY <1>2, <1>3, <2>2
  <2> QED BY <1>4, <2>3 DEF W!Probe, W!ParseList
<1>5. CASE packages[p] # Absent
  <2> DEFINE row == lines[2]
  <2>1. row = <<"A", "Name", p, packages[p], "winget">>
    BY <1>5 DEF W!List
  <2>2. 3 \in Ids(row) /\ \A k \in Ids(row) : 3 <= k
    BY <1>1, <2>1 DEF W!Words
  <2>3. rows = {2}
    BY <1>2, <1>3, <2>2
  <2>4. W!FX!Min(rows) = 2 /\ W!FX!Min(Ids(row)) = 3
    BY <2>2, <2>3 DEF W!FX!Min
  <2>5. Len(row) = 5 /\ row[3 + 1] = packages[p]
    BY <2>1
  <2>6. W!Probe(p) = IF rows = {} THEN Absent
                     ELSE LET line == lines[W!FX!Min(rows)]
                              id   == W!FX!Min(Ids(line))
                          IN  IF id = Len(line) THEN Null ELSE line[id + 1]
    BY DEF W!Probe, W!ParseList
  <2> HIDE DEF lines, rows, Ids
  <2> QED BY <2>3, <2>4, <2>5, <2>6
<1> QED BY <1>4, <1>5

\* A probe answers with a value of its kind.
LEMMA ProbeTyped ==
    ASSUME MachineTypeOK, NEW h \in HandlerKind, NEW t,
           h = "dotfile" => t \in DOMAIN InitialFiles,
           h = "winget" => t \in DOMAIN InitialPackages
    PROVE  Probe(h, t) \in ProbeValues[h]
<1>1. CASE h = "dotfile"
  BY <1>1 DEF Probe, MachineTypeOK, Contents
<1>2. CASE h = "winget"
  BY <1>2, ProbeFindsPackage DEF Probe, MachineTypeOK, Versions
<1>3. CASE h = "script"
  BY <1>3, MachineAssumption DEF Probe
<1> QED BY <1>1, <1>2, <1>3 DEF HandlerKind

\* The row a handler works on has a handler and a target of the machine.
LEMMA RowTyped ==
    ASSUME IInv, RowsOnMachine, pc \in {"apply", "synthesize", "undo"}
    PROVE  /\ act \in DOMAIN acts /\ Row = acts[act] /\ Row.handler \in HandlerKind
           /\ Row.op = op /\ Row.before \in Values /\ Row.target \in Targets
           /\ Row.handler = "dotfile" => Row.target \in DOMAIN InitialFiles
           /\ Row.handler = "winget" => Row.target \in DOMAIN InitialPackages
<1>1. act \in DOMAIN acts /\ acts[act].op = op
  BY RowAtHand
<1>2. acts[act] \in Action
  BY <1>1, StoreRows DEF IInv, TypeInv, TypeOK
<1> QED BY <1>1, <1>2 DEF Row, Action, RowsOnMachine

\* Winget's one recipe is a recipe.
LEMMA UninstallTyped ==
    ASSUME NEW before
    PROVE  W!Uninstall(before) \in Recipes
  BY MachineAssumption DEF W!Uninstall, W!Installed

\* What apply of each handler reports is typed, and so is what undo needs.
LEMMA ApplyImplements ==
    ASSUME IInv, MachineTypeOK, RowsOnMachine, DotfileApplied \/ WingetApplied \/ ScriptApplied
    PROVE  pc = "apply" /\ \E v \in AfterValues[acts[act].handler], r \in Recipes : ApplyOk(v, r)
<1>pc. pc = "apply"
  BY DEF DotfileApplied, WingetApplied, ScriptApplied, Calling
<1>row. Row = acts[act]
  BY DEF Row
<1>1. CASE DotfileApplied
  <2>1. acts[act].handler = "dotfile" /\ call.step = "written" /\ ApplyOk(call.desired, call.undo)
    BY <1>1, <1>row DEF DotfileApplied, Calling, D!Confirmed
  <2>2. call.desired \in AfterValues["dotfile"] /\ call.undo \in Recipes
    BY <2>1, MachineAssumption DEF MachineTypeOK, Contents
  <2> QED BY <1>pc, <2>1, <2>2
<1>2. CASE WingetApplied
  <2>1. /\ acts[act].handler = "winget"
        /\ ApplyOk(W!Probe(Row.target), W!Uninstall(Row.before))
    BY <1>2, <1>row DEF WingetApplied, Calling
  <2>2. Row.target \in DOMAIN InitialPackages /\ Row.before \in Values
    BY <1>pc, <1>row, <2>1, RowTyped
  <2>3. W!Probe(Row.target) \in AfterValues["winget"]
    BY <2>2, ProbeFindsPackage, MachineAssumption DEF MachineTypeOK, Versions
  <2>4. W!Uninstall(Row.before) \in Recipes
    BY UninstallTyped
  <2> QED BY <1>pc, <2>1, <2>3, <2>4
<1>3. CASE ScriptApplied
  <2>1. acts[act].handler = "script" /\ ApplyOk(Ran, S!Recipe(Row.undoKind))
    BY <1>3, <1>row DEF ScriptApplied, Calling
  <2>2. Ran \in AfterValues["script"] /\ S!Recipe(Row.undoKind) \in Recipes
    BY MachineAssumption DEF S!Recipe
  <2> QED BY <1>pc, <2>1, <2>2
<1> QED BY <1>1, <1>2, <1>3

\* The steps inside a handler call, of a script and of the user are not the engine's.
LEMMA InsideStutters ==
    ASSUME \/ DotfileBacksUp \/ DotfileWrites \/ WingetInstalls \/ ScriptSpawns
           \/ DotfileUndoes \/ WingetRemoves \/ ScriptUndoSpawns \/ ScriptExits \/ WingetExits
           \/ \E t \in DOMAIN files : EditFile(t)
           \/ \E s \in DOMAIN sources : EditSource(s)
           \/ \E p \in DOMAIN packages : EditPackage(p)
    PROVE  UNCHANGED vars
  BY DEF DotfileBacksUp, DotfileWrites, WingetInstalls, ScriptSpawns, DotfileUndoes, WingetRemoves,
         ScriptUndoSpawns, ScriptExits, WingetExits, Inside, EditFile, EditSource, EditPackage, Edits

\* A handler answers as Engine leaves it free to.
LEMMA StepImplements ==
    ASSUME IInv, MachineTypeOK, RowsOnMachine, [CandylaneNext]_allVars
    PROVE  [Next]_vars
<1>1. CASE UNCHANGED allVars
  BY <1>1 DEF allVars
<1>2. CASE CallProbe
  <2>1. pc = "item" /\ seq < Len(profile) /\ ProbeItem(Probe(CurrentItem.handler, CurrentItem.target))
    BY <1>2 DEF CallProbe
  <2>2. CurrentItem \in Items
    BY <2>1, ElementOfSeq, LenProperties DEF CurrentItem, IInv, TypeInv, TypeOK
  <2>3. Probe(CurrentItem.handler, CurrentItem.target) \in ProbeValues[CurrentItem.handler]
    BY <2>2, ItemsAssumption, ItemsOnMachine, ProbeTyped
  <2> QED BY <2>1, <2>3 DEF Next, Run, HandlerStep
<1>3. CASE ProbeErr \/ PlanUnreadable \/ PlanUnsafe
  BY <1>3 DEF ProbeErr, PlanUnreadable, PlanUnsafe, Next, Run, HandlerStep
<1>4. CASE PlanSatisfied
  BY <1>4 DEF PlanSatisfied, Next, Run, HandlerStep
<1>5. CASE PlanDotfile \/ PlanWinget \/ PlanScript
  <2>1. pc = "plan" /\ \E k \in PlannedUndoKinds(CurrentItem.handler) : PlanSome(k)
    BY <1>5 DEF PlanDotfile, PlanWinget, PlanScript, ItemOf, PlannedUndoKinds, S!PlannedKind
  <2> QED BY <2>1 DEF Next, Run, HandlerStep
<1>6. CASE DotfileApplied \/ WingetApplied \/ ScriptApplied
  BY <1>6, ApplyImplements DEF Next, Run, HandlerStep
<1>7. CASE ScriptTimesOut \/ ApplyFails
  BY <1>7 DEF ScriptTimesOut, ApplyFails, Next, Run, HandlerStep
<1>8. CASE DotfileUndone \/ WingetUndone \/ ScriptUndone
  BY <1>8 DEF DotfileUndone, WingetUndone, ScriptUndone, Next, Run, HandlerStep
<1>9. CASE ScriptUndoTimesOut \/ UndoFails
  BY <1>9 DEF ScriptUndoTimesOut, UndoFails, Next, Run, HandlerStep
<1>10. ASSUME NEW a \in DOMAIN acts, ReconcileCall(a) PROVE [Next]_vars
  <2> DEFINE real == Probe(acts[a].handler, acts[a].target)
  <2>1. ReconcileNeverRan(a, real) \/ ReconcileApplied(a, real)
    BY <1>10 DEF ReconcileCall
  <2>2. acts[a].handler \in HandlerKind
    BY StoreRows DEF IInv, TypeInv, TypeOK, Action
  <2>3. real \in ProbeValues[acts[a].handler]
    BY <2>2, ProbeTyped DEF RowsOnMachine
  <2> HIDE DEF real
  <2> QED BY <2>1, <2>3 DEF Next, Run, HandlerStep
<1>11. CASE ReconcileProbeErr
  BY <1>11 DEF ReconcileProbeErr, Next, Run, HandlerStep
<1>12. CASE SynthesizeDotfile \/ SynthesizeWinget
  <2>1. \E r \in Recipes : Synthesize(probe, r)
    BY <1>12, UninstallTyped, MachineAssumption DEF SynthesizeDotfile, SynthesizeWinget, D!Synthesized
  <2> QED BY <2>1 DEF Next, Run, HandlerStep
<1>13. CASE CleanUp \/ EngineStep \/ Commands \/ Crashes \/ StoreErrs
  BY <1>13 DEF CleanUp, EngineStep, Commands, Crashes, StoreErrs, Next, Run, LogStep
<1>14. CASE \/ DotfileBacksUp \/ DotfileWrites \/ WingetInstalls \/ ScriptSpawns
            \/ DotfileUndoes \/ WingetRemoves \/ ScriptUndoSpawns \/ ScriptExits \/ WingetExits
            \/ \E t \in DOMAIN files : EditFile(t)
            \/ \E s \in DOMAIN sources : EditSource(s)
            \/ \E p \in DOMAIN packages : EditPackage(p)
  BY <1>14, InsideStutters
<1> QED
  BY <1>1, <1>2, <1>3, <1>4, <1>5, <1>6, <1>7, <1>8, <1>9, <1>10, <1>11, <1>12, <1>13, <1>14
  DEF CandylaneNext, HandlerCalls

-----------------------------------------------------------------------------
(* The types of the machine *)

\* The machine at the start, and a free lock.
LEMMA MachineTypeInit == CandylaneInit => MachineTypeOK
<1> SUFFICES ASSUME CandylaneInit PROVE MachineTypeOK
  OBVIOUS
<1>1. /\ files = InitialFiles /\ sources = InitialSources /\ packages = InitialPackages
      /\ backups = [o \in 1 .. MaxOps |-> [t \in DOMAIN InitialFiles |-> Absent]]
      /\ wingets = {} /\ strays = {} /\ done = {} /\ running = {} /\ edits = {}
      /\ call = [step |-> "start", desired |-> Absent, undo |-> NoRecipe]
  BY DEF CandylaneInit, MachineInit, NoCall
<1>2. Absent \in Contents
  BY MachineAssumption DEF Contents
<1>3. backups \in [1 .. MaxOps -> [DOMAIN InitialFiles -> Contents]]
  BY <1>1, <1>2
<1> QED BY <1>1, <1>2, <1>3, MachineAssumption DEF MachineTypeOK, Contents, Versions

\* A handler call that returned leaves the machine as it is.
LEMMA ReturnedTyped ==
    ASSUME MachineTypeOK, call' = NoCall, UNCHANGED <<machine, edits>>
    PROVE  MachineTypeOK'
  BY MachineAssumption DEF MachineTypeOK, machine, diskVars, packageVars, scriptVars, NoCall, Contents

\* The item of an apply is that of the row it works on.
LEMMA ItemAtHand ==
    ASSUME IInv, ItemInHand, pc = "apply"
    PROVE  /\ CurrentItem.handler = Row.handler /\ CurrentItem.target = Row.target
           /\ Row.handler = "dotfile" => CurrentItem.src \in DOMAIN InitialSources
<1>1. CurrentItem.handler = Row.handler /\ CurrentItem.target = Row.target
  BY DEF ItemInHand, Row, IInv, HandInv, PullInHand, Pulling
<1>2. profile \in Seq(Items) /\ seq \in Nat /\ seq < Len(profile)
  BY DEF IInv, TypeInv, TypeOK, Control
<1>3. CurrentItem \in Items
  BY <1>2, ElementOfSeq, LenProperties DEF CurrentItem
<1> QED BY <1>1, <1>3, ItemsOnMachine

\* The operation in hand has its backup directory.
LEMMA OpAtHand ==
    ASSUME IInv, OpsBounded, op # 0
    PROVE  op \in 1 .. MaxOps
<1>1. op \in DOMAIN ops /\ op \in Nat
  BY DEF IInv, TypeInv, TypeOK, Control
<1>2. DOMAIN ops = 1 .. Len(ops) /\ Len(ops) \in Nat /\ Len(ops) <= MaxOps /\ MaxOps \in Nat
  BY LogRows, BoundsAssumption DEF OpsBounded, IInv
<1> QED BY <1>1, <1>2

\* The steps of a dotfile's calls keep contents where contents are.
LEMMA DotfileTyped ==
    ASSUME IInv, MachineTypeOK, LogFits, DotfileBacksUp \/ DotfileWrites \/ DotfileUndoes
    PROVE  MachineTypeOK'
<1>0. /\ files \in [DOMAIN InitialFiles -> Contents]
      /\ sources \in [DOMAIN InitialSources -> Contents]
      /\ backups \in [1 .. MaxOps -> [DOMAIN InitialFiles -> Contents]]
      /\ call \in [step : {"start", "backed_up", "written", "undone", "spawned"},
                   desired : Contents, undo : Recipes \cup {NoRecipe}]
      /\ Absent \in Contents
  BY MachineAssumption DEF MachineTypeOK, Contents
<1>1. /\ Row.target \in DOMAIN InitialFiles /\ op \in 1 .. MaxOps
      /\ UNCHANGED <<packageVars, scriptVars, edits>>
  <2>1. Row.handler = "dotfile" /\ pc \in {"apply", "undo"}
    BY DEF DotfileBacksUp, DotfileWrites, DotfileUndoes, Undoing, Calling
  <2>2. op # 0
    BY <2>1, RowAtHand
  <2> QED BY <2>1, <2>2, RowTyped, OpAtHand
          DEF LogFits, DotfileBacksUp, DotfileWrites, DotfileUndoes, Inside
<1>2. CASE DotfileBacksUp
  <2>1. UNCHANGED <<files, sources>>
    BY <1>2 DEF DotfileBacksUp, D!BackUp, D!NothingToBackUp
  <2>2. backups' \in [1 .. MaxOps -> [DOMAIN InitialFiles -> Contents]]
    <3>1. CASE UNCHANGED backups
      BY <1>0, <3>1
    <3>2. CASE backups' = [backups EXCEPT ![op] = [backups[op] EXCEPT ![Row.target] = files[Row.target]]]
      <4>1. [backups[op] EXCEPT ![Row.target] = files[Row.target]] \in [DOMAIN InitialFiles -> Contents]
        BY <1>0, <1>1
      <4> QED BY <1>0, <3>2, <4>1
    <3> QED BY <1>2, <3>1, <3>2 DEF DotfileBacksUp, D!BackUp, D!NothingToBackUp, D!AtomicWrite
  <2>3. /\ call' \in [step : {"start", "backed_up", "written", "undone", "spawned"},
                     desired : Contents, undo : Recipes \cup {NoRecipe}]
        /\ call'.undo \in Recipes
    <3>1. files[Row.target] \in Contents
      BY <1>0, <1>1
    <3>2. D!Delete \in Recipes /\ D!Restore(files[Row.target]) \in Recipes
      BY <3>1, MachineAssumption DEF Contents
    <3> QED BY <1>0, <1>2, <3>2 DEF DotfileBacksUp, D!BackUp, D!NothingToBackUp
  <2> QED BY <1>0, <1>1, <2>1, <2>2, <2>3 DEF MachineTypeOK, packageVars, scriptVars
<1>3. CASE DotfileWrites
  <2>1. /\ files' = [files EXCEPT ![CurrentItem.target] = sources[CurrentItem.src]]
        /\ UNCHANGED <<sources, backups>> /\ call.step = "backed_up"
        /\ call' = [call EXCEPT !.step = "written"]
    BY <1>3 DEF DotfileWrites, D!Write, D!AtomicWrite
  <2>2. sources[CurrentItem.src] \in Contents
    BY <1>0, <1>3, ItemAtHand DEF DotfileWrites, Calling, LogFits
  <2>3. files' \in [DOMAIN InitialFiles -> Contents]
    BY <1>0, <2>1, <2>2
  <2>4. /\ call' \in [step : {"start", "backed_up", "written", "undone", "spawned"},
                     desired : Contents, undo : Recipes \cup {NoRecipe}]
        /\ call'.undo = call.undo
    BY <1>0, <2>1
  <2> QED BY <1>0, <1>1, <2>1, <2>3, <2>4 DEF MachineTypeOK, packageVars, scriptVars
<1>4. CASE DotfileUndoes
  <2>1. /\ \/ files' = [files EXCEPT ![Row.target] = Absent]
           \/ files' = [files EXCEPT ![Row.target] = backups[op][Row.target]]
        /\ UNCHANGED <<sources, backups>>
        /\ call' = [call EXCEPT !.step = "undone"]
    BY <1>4 DEF DotfileUndoes, D!UndoDelete, D!UndoRestore, D!AtomicWrite
  <2>2. backups[op][Row.target] \in Contents
    BY <1>0, <1>1
  <2>3. files' \in [DOMAIN InitialFiles -> Contents]
    BY <1>0, <2>1, <2>2
  <2>4. /\ call' \in [step : {"start", "backed_up", "written", "undone", "spawned"},
                     desired : Contents, undo : Recipes \cup {NoRecipe}]
        /\ call'.step = "undone"
    BY <1>0, <2>1
  <2> QED BY <1>0, <1>1, <2>1, <2>3, <2>4 DEF MachineTypeOK, packageVars, scriptVars
<1> QED BY <1>2, <1>3, <1>4

\* A process of winget.
WingetProcess ==
    [pkg : DOMAIN InitialPackages, way : {"install", "uninstall"}, owner : {"engine", "nobody"}]

\* The life of a winget keeps versions where versions are.
LEMMA WingetTyped ==
    ASSUME IInv, MachineTypeOK, RowsOnMachine, WingetInstalls \/ WingetRemoves \/ WingetExits
    PROVE  MachineTypeOK'
<1>1. /\ packages \in [DOMAIN InitialPackages -> Versions]
      /\ {Absent} \cup Offers \subseteq Versions
      /\ wingets \subseteq WingetProcess /\ strays \subseteq DOMAIN InitialPackages
  BY MachineAssumption DEF MachineTypeOK, Versions, WingetProcess
<1>2. UNCHANGED <<diskVars, scriptVars, edits>>
  BY DEF WingetInstalls, WingetRemoves, WingetExits, Inside
<1>3. CASE WingetInstalls \/ WingetRemoves
  <2>1. Row.target \in DOMAIN InitialPackages
    BY <1>3, RowTyped DEF WingetInstalls, WingetRemoves, Undoing, Calling
  <2>2. PICK way \in {"install", "uninstall"} : W!Spawn(Row.target, way)
    BY <1>3 DEF WingetInstalls, WingetRemoves, W!Install, W!Remove
  <2>3. wingets' \subseteq WingetProcess /\ UNCHANGED <<packages, strays>>
    BY <1>1, <2>1, <2>2 DEF W!Spawn, WingetProcess
  <2>4. /\ call' \in [step : {"start", "backed_up", "written", "undone", "spawned"},
                     desired : Contents, undo : Recipes \cup {NoRecipe}]
        /\ call'.step = "spawned"
    BY <2>2 DEF MachineTypeOK, W!Spawn
  <2> QED BY <1>1, <1>2, <2>3, <2>4 DEF MachineTypeOK, diskVars, scriptVars, WingetProcess
<1>4. CASE WingetExits
  <2>1. PICK w \in wingets : W!Exit(w, Told(w.pkg))
    BY <1>4 DEF WingetExits
  <2>2. w.pkg \in DOMAIN InitialPackages /\ W!Outcomes(w.way) \subseteq Versions
    BY <1>1 DEF WingetProcess, W!Outcomes
  <2>3. packages' \in [DOMAIN InitialPackages -> Versions]
    BY <1>1, <2>1, <2>2 DEF W!Exit
  <2>4. wingets' \subseteq wingets /\ strays' \subseteq strays \cup {w.pkg} /\ UNCHANGED call
    BY <2>1 DEF W!Exit
  <2> QED BY <1>1, <1>2, <2>2, <2>3, <2>4 DEF MachineTypeOK, diskVars, scriptVars, WingetProcess
<1> QED BY <1>3, <1>4

\* A process of the scripts.
Process == [script : Targets, way : {"run", "undo"}, owner : {"engine", "nobody"}]

\* The life of a process, whoever started it.
LEMMA ScriptTyped ==
    ASSUME IInv, MachineTypeOK, RowsOnMachine,
           \/ ScriptSpawns \/ ScriptUndoSpawns \/ ScriptTimesOut \/ ScriptUndoTimesOut
           \/ Crashes \/ ScriptExits
    PROVE  MachineTypeOK'
<1>1. running \subseteq Process /\ done \subseteq Targets
  BY DEF MachineTypeOK, Process
<1>2. \A p \in running : S!Effect(p) \subseteq Targets
  BY <1>1 DEF S!Effect, Process
<1>3. /\ UNCHANGED <<files, sources, backups, packages, strays, edits>>
      /\ wingets' \subseteq WingetProcess
  <2>1. UNCHANGED wingets \/ wingets' \subseteq {[w EXCEPT !.owner = "nobody"] : w \in wingets}
    BY DEF ScriptSpawns, ScriptUndoSpawns, ScriptTimesOut, ScriptUndoTimesOut, Crashes, ScriptExits,
           Inside, packageVars, W!Orphan
  <2>2. wingets \subseteq WingetProcess
    BY DEF MachineTypeOK, WingetProcess
  <2>3. \A w \in wingets : [w EXCEPT !.owner = "nobody"] \in WingetProcess
    BY <2>2 DEF WingetProcess
  <2>4. UNCHANGED <<files, sources, backups, packages, strays, edits>>
    BY DEF ScriptSpawns, ScriptUndoSpawns, ScriptTimesOut, ScriptUndoTimesOut, Crashes, ScriptExits,
           Inside, diskVars, packageVars, W!Orphan
  <2> QED BY <2>1, <2>2, <2>3, <2>4
<1>4. CASE ScriptSpawns \/ ScriptUndoSpawns
  <2>1. Row.target \in Targets
    BY <1>4, RowTyped DEF ScriptSpawns, ScriptUndoSpawns, Undoing, Calling
  <2>2. PICK way \in {"run", "undo"} : S!Spawn(Row.target, way)
    BY <1>4 DEF ScriptSpawns, ScriptUndoSpawns
  <2>3. running' \subseteq Process /\ UNCHANGED done
    BY <1>1, <2>1, <2>2 DEF S!Spawn, Process
  <2>4. call' = [call EXCEPT !.step = "spawned"]
    BY <2>2 DEF S!Spawn
  <2>5. /\ call' \in [step : {"start", "backed_up", "written", "undone", "spawned"},
                     desired : Contents, undo : Recipes \cup {NoRecipe}]
        /\ call'.step = "spawned"
    BY <2>4 DEF MachineTypeOK
  <2> QED BY <1>3, <2>3, <2>5 DEF MachineTypeOK, Process, WingetProcess
<1>5. CASE ScriptTimesOut \/ ScriptUndoTimesOut \/ Crashes
  <2>1. call' = NoCall
    BY <1>5 DEF ScriptTimesOut, ScriptUndoTimesOut, Crashes
  <2>2. running' \subseteq Process /\ done' \subseteq Targets
    <3>1. CASE S!Kill
      BY <1>1, <1>2, <3>1 DEF S!Kill, S!Owned
    <3>2. CASE S!Orphan
      <4>1. \A p \in running : [p EXCEPT !.owner = "nobody"] \in Process
        BY <1>1 DEF Process
      <4> QED BY <1>1, <3>2, <4>1 DEF S!Orphan
    <3> QED BY <1>5, <3>1, <3>2 DEF ScriptTimesOut, ScriptUndoTimesOut, Crashes
  <2> QED BY <1>3, <2>1, <2>2, MachineAssumption
        DEF MachineTypeOK, NoCall, Contents, Process, WingetProcess
<1>6. CASE ScriptExits
  <2>1. PICK p \in running : S!Exit(p)
    BY <1>6 DEF ScriptExits
  <2>2. running' \subseteq Process /\ done' \subseteq Targets /\ UNCHANGED call
    BY <1>1, <1>2, <2>1 DEF S!Exit
  <2> QED BY <1>3, <2>2 DEF MachineTypeOK, Process, WingetProcess
<1> QED BY <1>4, <1>5, <1>6

\* What the user puts somewhere is of the kind of what was there.
LEMMA EditTyped ==
    ASSUME MachineTypeOK,
           \/ \E t \in DOMAIN files : EditFile(t)
           \/ \E s \in DOMAIN sources : EditSource(s)
           \/ \E p \in DOMAIN packages : EditPackage(p)
    PROVE  MachineTypeOK'
<1>0. {Absent, Upgrade} \subseteq Contents /\ {Absent, Upgrade} \subseteq Versions
  BY MachineAssumption DEF Contents, Versions
<1>1. ASSUME NEW t \in DOMAIN files, EditFile(t) PROVE MachineTypeOK'
  BY <1>0, <1>1 DEF EditFile, Edits, MachineTypeOK, packageVars, scriptVars
<1>2. ASSUME NEW s \in DOMAIN sources, EditSource(s) PROVE MachineTypeOK'
  BY <1>0, <1>2 DEF EditSource, Edits, MachineTypeOK, packageVars, scriptVars
<1>3. ASSUME NEW p \in DOMAIN packages, EditPackage(p) PROVE MachineTypeOK'
  BY <1>0, <1>3 DEF EditPackage, Edits, MachineTypeOK, diskVars, scriptVars
<1> QED BY <1>1, <1>2, <1>3

\* Every step keeps the types of the machine.
LEMMA MachineTypeStep ==
    ASSUME IInv, MachineTypeOK, LogFits, [CandylaneNext]_allVars
    PROVE  MachineTypeOK'
<1>1. CASE UNCHANGED allVars
  BY <1>1 DEF allVars, machine, diskVars, packageVars, scriptVars, MachineTypeOK
<1>2. CASE \/ CallProbe \/ ProbeErr \/ PlanUnreadable \/ PlanUnsafe \/ PlanSatisfied
           \/ PlanWinget \/ PlanScript
           \/ DotfileApplied \/ WingetApplied \/ ScriptApplied \/ ApplyFails
           \/ DotfileUndone \/ WingetUndone \/ ScriptUndone \/ UndoFails
           \/ \E a \in DOMAIN acts : ReconcileCall(a)
           \/ ReconcileProbeErr \/ SynthesizeDotfile \/ SynthesizeWinget \/ EngineStep \/ StoreErrs
  BY <1>2, ReturnedTyped
  DEF CallProbe, ProbeErr, PlanUnreadable, PlanUnsafe, PlanSatisfied, PlanWinget, PlanScript,
      DotfileApplied, WingetApplied, ScriptApplied, ApplyFails, DotfileUndone, WingetUndone,
      ScriptUndone, UndoFails, ReconcileCall, ReconcileProbeErr, SynthesizeDotfile,
      SynthesizeWinget, EngineStep, StoreErrs, Returned
<1>3. CASE PlanDotfile
  <2>1. /\ call' = [step |-> "start", desired |-> sources[CurrentItem.src], undo |-> NoRecipe]
        /\ UNCHANGED <<machine, edits>>
    BY <1>3 DEF PlanDotfile, D!Planned
  <2>2. sources[CurrentItem.src] \in Contents
    <3>1. CurrentItem \in Items /\ CurrentItem.handler = "dotfile"
      BY <1>3, CurrentItemFits DEF PlanDotfile, ItemOf
    <3> QED BY <3>1, ItemsOnMachine DEF MachineTypeOK
  <2> QED BY <2>1, <2>2 DEF MachineTypeOK, machine, diskVars, packageVars, scriptVars
<1>4. CASE DotfileBacksUp \/ DotfileWrites \/ DotfileUndoes
  BY <1>4, DotfileTyped
<1>5. CASE WingetInstalls \/ WingetRemoves \/ WingetExits
  BY <1>5, WingetTyped DEF LogFits
<1>6. CASE \/ ScriptSpawns \/ ScriptUndoSpawns \/ ScriptTimesOut \/ ScriptUndoTimesOut
           \/ Crashes \/ ScriptExits
  BY <1>6, ScriptTyped DEF LogFits
<1>7. CASE CleanUp
  <2>1. UNCHANGED <<files, sources, packages, wingets, strays, done, running, call, edits>>
    BY <1>7 DEF CleanUp, RemoveBackups, D!RemoveBackups, diskVars, packageVars, scriptVars
  <2>2. \/ UNCHANGED backups
        \/ backups' = [backups EXCEPT ![op] = [t \in DOMAIN backups[op] |-> Absent]]
    BY <1>7 DEF CleanUp, RemoveBackups, D!RemoveBackups, diskVars
  <2>3. op \in 1 .. MaxOps
    BY <1>7, OpAtHand DEF CleanUp, Cleanup, IInv, TypeInv, Control, NoOpYet, LogFits
  <2>4. backups' \in [1 .. MaxOps -> [DOMAIN InitialFiles -> Contents]]
    <3>1. /\ backups \in [1 .. MaxOps -> [DOMAIN InitialFiles -> Contents]]
          /\ Absent \in Contents
      BY MachineAssumption DEF MachineTypeOK, Contents
    <3>2. [t \in DOMAIN backups[op] |-> Absent] \in [DOMAIN InitialFiles -> Contents]
      BY <2>3, <3>1
    <3> QED BY <2>2, <3>1, <3>2
  <2> QED BY <2>1, <2>4 DEF MachineTypeOK
<1>8. CASE Commands
  BY <1>8 DEF Commands, machine, diskVars, packageVars, scriptVars, MachineTypeOK
<1>9. CASE \/ \E t \in DOMAIN files : EditFile(t)
           \/ \E s \in DOMAIN sources : EditSource(s)
           \/ \E p \in DOMAIN packages : EditPackage(p)
  BY <1>9, EditTyped
<1> QED
  BY <1>1, <1>2, <1>3, <1>4, <1>5, <1>6, <1>7, <1>8, <1>9 DEF CandylaneNext, HandlerCalls

-----------------------------------------------------------------------------
(* The theorems *)

\* What the refinement needs of the program's states.
ProgramInv == IInv /\ MachineTypeOK /\ LogFits

LEMMA ProgramInit == CandylaneInit => ProgramInv
<1>1. CandylaneInit => Init
  BY DEF CandylaneInit
<1>2. Init => IInv
  BY TypeInit, LogInit DEF IInv
<1> QED BY <1>1, <1>2, MachineTypeInit, LogFitsInit DEF ProgramInv

\* A step of the program keeps it, and is a step of the engine or none.
LEMMA ProgramStep ==
    ASSUME ProgramInv, [CandylaneNext]_allVars
    PROVE  ProgramInv' /\ [Next]_vars
<1>1. [Next]_vars
  BY StepImplements DEF ProgramInv, LogFits
<1>2. IInv'
  BY <1>1, TypeStep, LogStepKeeps DEF IInv, ProgramInv
<1>3. LogFits'
  BY <1>1, <1>2, LogFitsStep DEF ProgramInv
<1>4. MachineTypeOK'
  BY MachineTypeStep DEF ProgramInv
<1> QED BY <1>1, <1>2, <1>3, <1>4 DEF ProgramInv

\* The three handlers answer only what Engine leaves open, and nothing inside their
\* calls touches the log: the theorems on Engine hold of the program, whatever the
\* profiles, the machine and its user do.
THEOREM ImplementsEngine == CandylaneSpec => EngineSpec
<1>1. CandylaneInit => ProgramInv /\ Init
  BY ProgramInit DEF CandylaneInit
<1>2. ProgramInv /\ [CandylaneNext]_allVars => ProgramInv' /\ [Next]_vars
  BY ProgramStep
<1> QED BY <1>1, <1>2, PTL DEF CandylaneSpec, EngineSpec, Spec

LEMMA ProgramKeeps == CandylaneSpec => []ProgramInv
<1>1. ProgramInv /\ [CandylaneNext]_allVars => ProgramInv'
  BY ProgramStep
<1> QED BY <1>1, ProgramInit, PTL DEF CandylaneSpec

\* The files, packages and processes keep their types through every handler call.
THEOREM MachineTyped == CandylaneSpec => []CandylaneTypeOK
<1>1. MachineTypeOK => CandylaneTypeOK
  <2> SUFFICES ASSUME MachineTypeOK PROVE CandylaneTypeOK
    OBVIOUS
  <2>1. Contents \subseteq Values /\ Versions \subseteq Values
    BY ValuesAssumption DEF HandlerKind, Contents, Versions
  <2>2. \A o \in DOMAIN backups : \A t \in DOMAIN files : backups[o][t] \in Contents
    BY DEF MachineTypeOK
  <2> QED BY <2>1, <2>2 DEF MachineTypeOK, CandylaneTypeOK
<1> QED BY <1>1, ProgramKeeps, PTL DEF ProgramInv
=============================================================================
