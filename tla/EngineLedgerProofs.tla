------------------------- MODULE EngineLedgerProofs -------------------------
(***************************************************************************)
(* Engine implements Ledger, for any profiles, handlers, crashes and       *)
(* number of operations: the refinement mapping is the log itself, and     *)
(* IInv tells the engine that the row it writes is one Ledger allows.      *)
(***************************************************************************)
EXTENDS EngineLogProofs

\* begin_op opens an operation of Ledger.
LEMMA OpenRefines ==
    ASSUME TypeInv,
           \/ \E s, b : BeginPull(s, b)
           \/ \E o \in DOMAIN ops : BeginRecover(o)
    PROVE  Log!Open
<1> USE DEF Log!Open, Log!BeginOp, BeginOp
<1>1. CASE \E s, b : BeginPull(s, b)
  <2>1. 0 \in 0 .. Len(ops) /\ UNCHANGED acts /\ BeginOp("pull", 0)
    BY <1>1, LogRows DEF BeginPull
  <2> QED BY <2>1
<1>2. ASSUME NEW o \in DOMAIN ops, BeginRecover(o) PROVE Log!Open
  <2>1. o \in 0 .. Len(ops) /\ o # 0 /\ UNCHANGED acts /\ BeginOp("recover", o)
    BY <1>2, LogRows DEF BeginRecover
  <2> QED BY <2>1
<1> QED BY <1>1, <1>2

\* insert_action records the next item of the pull in hand.
LEMMA RecordRefines ==
    ASSUME IInv, pc = "plan", NEW status \in {"pending", "skipped"}, NEW undoKind \in UndoKind,
           undoKind = "noop" <=> status = "skipped",
           InsertAction(op, seq, CurrentItem.handler, CurrentItem.target, probe, undoKind, status),
           UNCHANGED ops
    PROVE  Log!Record(op)
<1>1. /\ op # 0 /\ op \in DOMAIN ops /\ cmd = "pull" /\ seq \in Nat /\ probe \in Values
      /\ ops[op].kind = "pull" /\ ops[op].status = "pending"
  BY DEF IInv, TypeInv, TypeOK, Control, NoOpYet, Pulling, HandInv, OpInHand
<1>2. CurrentItem.handler \in HandlerKind /\ CurrentItem.target \in Targets
  BY CurrentItemTyped DEF IInv, TypeInv, Control
<1>3. /\ \A a \in ActionsOf(op) :
           acts[a].status \in {"applied", "skipped"} /\ acts[a].seq < seq
      /\ \A i \in 1 .. seq : \E a \in ActionsOf(op) : acts[a].seq = i - 1
  BY <1>1 DEF IInv, HandInv, RowInHand, PullInHand, Pulling, Recorded
<1>4. Log!Advancing(op) /\ Log!InFlight(op) = {}
  BY <1>3 DEF Log!Advancing, Log!InFlight, Log!ActionsOf, ActionsOf
<1>5. seq \in {0} \cup {acts[a].seq + 1 : a \in ActionsOf(op)}
  <2>1. CASE seq = 0
    BY <2>1
  <2>2. CASE seq # 0
    <3>1. seq \in 1 .. seq
      BY <1>1, <2>2
    <3>2. PICK a \in ActionsOf(op) : acts[a].seq = seq - 1
      BY <1>3, <3>1
    <3>3. acts[a].seq + 1 = seq
      BY <1>1, <3>2
    <3> QED BY <3>3
  <2> QED BY <2>1, <2>2
<1>6. ActionsOf(op) = Log!ActionsOf(op)
  BY DEF ActionsOf, Log!ActionsOf
<1>7. Log!InsertAction(op, seq, CurrentItem.handler, CurrentItem.target, probe, undoKind, status)
  BY DEF InsertAction, Log!InsertAction
<1> QED
  BY <1>1, <1>2, <1>3, <1>4, <1>5, <1>6, <1>7
  DEF Log!Record, Log!HandlerKind, HandlerKind, Log!UndoKind, UndoKind

\* What apply and reconcile write concludes the intent in flight.
LEMMA ConcludeRefines ==
    ASSUME IInv, NEW a \in DOMAIN acts, acts[a].status = "pending", UNCHANGED ops,
           \/ SetActionStatus(a, "failed")
           \/ SetActionStatus(a, "skipped")
           \/ \E after \in Values, undo \in Recipes : SetActionApplied(a, after, undo)
    PROVE  Log!Conclude(a)
  BY DEF IInv, LogInv, IntentsOpen, Log!Conclude, SetActionStatus, Log!SetActionStatus,
         SetActionApplied, Log!SetActionApplied

\* What rollback has in hand is the newest row that is not settled.
LEMMA HandIsNewest ==
    ASSUME IInv, pc = "undo"
    PROVE  /\ act \in DOMAIN acts /\ acts[act].op = op /\ acts[act].status = "applied"
           /\ Log!HighestSeq(act, Log!Unsettled(op))
           /\ ops[op].status \in {"pending", "applied"}
           /\ tries = acts[act].attempts
<1>1. /\ act \in DOMAIN acts /\ acts[act].op = op /\ op # 0
      /\ ops[op].status \in {"pending", "applied"}
  BY RowAtHand
<1>2. /\ HighestSeq(act, todo) /\ todo = AppliedActions(op) /\ tries = acts[act].attempts
      /\ \A a \in ActionsOf(op) : acts[a].status # "pending"
  BY <1>1 DEF IInv, HandInv, RowInHand, ListInHand
<1>3. Log!Unsettled(op) = AppliedActions(op)
  BY <1>2 DEF Log!Unsettled, Log!ActionsOf, AppliedActions, ActionsOf
<1> QED
  BY <1>1, <1>2, <1>3 DEF HighestSeq, Log!HighestSeq, AppliedActions

\* The end of the loop over one action's undo is Ledger's Undo.
LEMMA UndoRefines ==
    ASSUME IInv, UndoOk \/ GiveUp
    PROVE  Log!Undo(act)
<1>1. pc = "undo" /\ UNCHANGED ops
  BY DEF UndoOk, GiveUp, Settle
<1>2. CASE UndoOk
  <2>1. SetActionStatus(act, UndoneStatus(act))
    BY <1>2 DEF UndoOk, Settle
  <2> QED
    BY <1>1, <2>1, HandIsNewest
    DEF UndoneStatus, Log!Undo, SetActionStatus, Log!SetActionStatus
<1>3. CASE GiveUp
  <2>1. SetActionStatus(act, "undo_failed") /\ tries >= MaxUndoAttempts
    BY <1>3 DEF GiveUp, Settle
  <2> QED
    BY <1>1, <2>1, HandIsNewest DEF Log!Undo, SetActionStatus, Log!SetActionStatus
<1> QED BY <1>2, <1>3

\* The three ways an operation closes.
LEMMA CloseRefines ==
    ASSUME IInv, FinishPull \/ Finalize \/ Mirror
    PROVE  \E o \in DOMAIN ops : Log!CloseApplied(o) \/ Log!CloseReverted(o) \/ Log!CloseRecovery(o)
<1> USE DEF SetOpStatus, Log!SetOpStatus
<1>1. op # 0 /\ op \in DOMAIN ops /\ UNCHANGED acts
  BY DEF FinishPull, Finalize, Mirror, IInv, TypeInv, Control, NoOpYet
<1>2. CASE FinishPull
  <2>1. cmd = "pull" /\ ops[op].kind = "pull" /\ ops[op].status = "pending"
    BY <1>1, <1>2 DEF FinishPull, IInv, TypeInv, Control, Pulling, HandInv, OpInHand
  <2>2. \A a \in ActionsOf(op) : acts[a].status \in {"applied", "skipped"}
    BY <1>1, <1>2 DEF FinishPull, IInv, HandInv, RowInHand, PullInHand, Pulling
  <2>3. Log!Advancing(op) /\ Log!InFlight(op) = {}
    BY <2>2 DEF Log!Advancing, Log!InFlight, Log!ActionsOf, ActionsOf
  <2> QED BY <1>1, <1>2, <2>1, <2>3 DEF FinishPull, Log!CloseApplied
<1>3. CASE Finalize
  <2>1. \A a \in ActionsOf(op) : acts[a].status \notin {"pending", "applied"}
    BY <1>1, <1>3 DEF Finalize, IInv, HandInv, RowInHand, ListInHand, AppliedActions
  <2>2. Log!Unsettled(op) = {} /\ "applied" \notin ActionStatuses(op)
    BY <2>1 DEF Log!Unsettled, Log!ActionsOf, ActionsOf, ActionStatuses
  <2>3. ops[op].status \in {"pending", "applied"}
    BY <1>1, <1>3 DEF Finalize, IInv, HandInv, OpInHand
  <2>4. Log!ActionStatuses(op) = ActionStatuses(op)
    BY DEF Log!ActionStatuses, ActionStatuses, Log!ActionsOf, ActionsOf
  <2> QED BY <1>1, <1>3, <2>2, <2>3, <2>4 DEF Finalize, Outcome, Log!CloseReverted
<1>4. CASE Mirror
  <2>1. /\ rec \in DOMAIN ops /\ ops[rec].kind = "recover" /\ ops[rec].parent = op
        /\ ops[rec].status = "pending" /\ ops[op].status \in {"reverted", "revert_failed"}
    BY <1>1, <1>4 DEF Mirror, IInv, TypeInv, Control, HandInv, OpInHand
  <2> QED BY <1>1, <1>4, <2>1 DEF Mirror, Log!CloseRecovery
<1> QED BY <1>2, <1>3, <1>4

\* Every step of the engine is a step of Ledger or leaves the log alone.
LEMMA StepRefines == IInv /\ [Next]_vars => [Log!Next]_(Log!storeVars)
<1> SUFFICES ASSUME IInv, [Next]_vars PROVE Log!Next \/ UNCHANGED storeVars
  BY DEF storeVars, Log!storeVars
<1> USE DEF Log!Next, storeVars
<1>1. CASE UNCHANGED vars \/ Start \/ Crash \/ StoreErr
  BY <1>1 DEF vars, Start, StartPull, StartRevert, StartRecover, Enter, Crash, StoreErr
<1>2. CASE HandlerStep
  <2>1. CASE \/ \E v : ProbeItem(v)
             \/ ItemErr
             \/ \E a, v : ReconcileApplied(a, v)
             \/ ReconcileErr
    BY <2>1 DEF ProbeItem, ItemErr, ReconcileApplied, ReconcileErr
  <2>2. CASE PlanNone
    <3>1. Log!Record(op)
      BY <2>2, RecordRefines DEF PlanNone, UndoKind
    <3> QED BY <2>2, <3>1 DEF PlanNone, IInv, TypeInv, Control, NoOpYet
  <2>3. CASE pc = "plan" /\ \E k \in PlannedUndoKinds(CurrentItem.handler) : PlanSome(k)
    <3>1. CurrentItem.handler \in HandlerKind
      BY <2>3, CurrentItemTyped DEF IInv, TypeInv, Control
    <3>2. PICK k \in UndoKind : k # "noop" /\ PlanSome(k)
      BY <2>3, <3>1 DEF PlannedUndoKinds, UndoKind, HandlerKind
    <3>3. Log!Record(op)
      BY <2>3, <3>2, RecordRefines DEF PlanSome
    <3> QED BY <2>3, <3>3 DEF IInv, TypeInv, Control, NoOpYet
  <2>4. CASE pc = "apply"
               /\ \E v \in AfterValues[acts[act].handler], r \in Recipes : ApplyOk(v, r)
    <3>1. acts[act].handler \in HandlerKind /\ act \in DOMAIN acts
      BY <2>4, StoreRows, RowAtHand DEF IInv, TypeInv, TypeOK, Action
    <3>2. \E v \in Values, r \in Recipes : SetActionApplied(act, v, r)
      BY <2>4, <3>1, ValuesAssumption DEF ApplyOk
    <3>3. acts[act].status = "pending" /\ UNCHANGED ops
      BY <2>4 DEF ApplyOk, IInv, HandInv, RowInHand
    <3> QED BY <3>1, <3>2, <3>3, ConcludeRefines
  <2>5. CASE ApplyErr
    <3>1. /\ act \in DOMAIN acts /\ acts[act].status = "pending"
          /\ SetActionStatus(act, "failed") /\ UNCHANGED ops
      BY <2>5, RowAtHand DEF ApplyErr, IInv, HandInv, RowInHand
    <3> QED BY <3>1, ConcludeRefines
  <2>6. CASE \E r \in Recipes : Synthesize(probe, r)
    <3>1. PICK r \in Recipes : SetActionApplied(act, probe, r)
      BY <2>6 DEF Synthesize
    <3>2. /\ act \in DOMAIN acts /\ acts[act].status = "pending" /\ probe \in Values
          /\ UNCHANGED ops
      BY <2>6, RowAtHand DEF Synthesize, IInv, HandInv, RowInHand, TypeInv, Control
    <3> QED BY <3>1, <3>2, ConcludeRefines
  <2>7. ASSUME NEW a \in DOMAIN acts, NEW v, ReconcileNeverRan(a, v)
        PROVE  Log!Next
    BY <2>7, ConcludeRefines DEF ReconcileNeverRan, IsPendingAction
  <2>8. CASE UndoOk
    BY <2>8, UndoRefines, HandIsNewest DEF UndoOk
  <2>9. CASE UndoErr
    <3>1. pc = "undo" /\ tries < MaxUndoAttempts /\ BumpUndoAttempt(act) /\ UNCHANGED ops
      BY <2>9 DEF UndoErr
    <3>2. Log!Retry(act)
      BY <3>1, HandIsNewest DEF Log!Retry, BumpUndoAttempt, Log!BumpUndoAttempt
    <3> QED BY <3>1, <3>2, HandIsNewest
  <2> QED BY <1>2, <2>1, <2>2, <2>3, <2>4, <2>5, <2>6, <2>7, <2>8, <2>9 DEF HandlerStep
<1>3. CASE RebootStep
  <2>1. ASSUME NEW s, NEW b, PreflightRefuses(s, b) \/ GateClear(s, b) \/ GateAborts(s, b)
        PROVE  UNCHANGED storeVars
    BY <2>1 DEF PreflightRefuses, GateClear, GateAborts
  <2> QED BY <1>3, <2>1, OpenRefines DEF RebootStep, IInv
<1>4. CASE LogStep
  <2>1. CASE FinishPull \/ Finalize \/ Mirror
    BY <2>1, CloseRefines
  <2>2. CASE \E o \in DOMAIN ops : BeginRecover(o)
    BY <2>2, OpenRefines DEF IInv
  <2>3. CASE GiveUp
    BY <2>3, UndoRefines, HandIsNewest DEF GiveUp
  <2>4. CASE \/ NothingToRevert \/ \E o \in DOMAIN ops : RevertLast(o)
             \/ NothingToRecover \/ NothingInFlight \/ Rollback
             \/ \E a \in DOMAIN acts : NextUndo(a)
             \/ RollbackDone \/ Cleanup
    BY <2>4
    DEF NothingToRevert, RevertLast, NothingToRecover, NothingInFlight, Rollback, NextUndo,
        RollbackDone, Cleanup
  <2> QED BY <1>4, <2>1, <2>2, <2>3, <2>4 DEF LogStep
<1> QED BY <1>1, <1>2, <1>3, <1>4 DEF Next, Run

\* The log of engine.rs and store.rs behaves as Ledger promises a reader of history:
\* intents before outcomes, undo strictly newest first, no closed operation reopened.
THEOREM ImplementsLedger == Spec => LogSpec
<1>1. Init => Log!StoreInit
  BY DEF Init, StoreInit, Log!StoreInit
<1> QED BY <1>1, StepRefines, Invariant, PTL DEF Spec, LogSpec, Log!Spec
=============================================================================
