-------------------------- MODULE EngineLogProofs --------------------------
(***************************************************************************)
(* The log stays honest: the safety invariants of Engine, from the         *)
(* inductive invariant IInv.  The proof that a step keeps IInv has one     *)
(* lemma per kind of statement; TypeStep has done the types.               *)
(***************************************************************************)
EXTENDS EngineProofs, FiniteSetTheorems

\* Row ids, and the rows' fields that are compared or counted.
LEMMA LogRows ==
    ASSUME TypeInv
    PROVE  /\ Len(ops) \in Nat /\ DOMAIN ops = 1 .. Len(ops)
           /\ Len(acts) \in Nat /\ DOMAIN acts = 1 .. Len(acts)
           /\ \A a \in DOMAIN acts : a \in Nat /\ acts[a].seq \in Nat /\ acts[a].attempts \in Nat
  BY StoreRows DEF TypeInv, TypeOK, Action

\* OutcomeHonest, row by row.
Honest ==
    /\ \A a \in DOMAIN acts :
          /\ ops[acts[a].op].status = "applied" => acts[a].status \notin {"pending", "failed"}
          /\ ops[acts[a].op].status \in {"reverted", "revert_failed"} =>
                acts[a].status \notin {"pending", "applied"}
          /\ ops[acts[a].op].status = "reverted" => acts[a].status # "undo_failed"
    /\ \A o \in DOMAIN ops :
          ops[o].kind = "pull" /\ ops[o].status = "revert_failed" =>
              \E a \in DOMAIN acts : acts[a].op = o /\ acts[a].status = "undo_failed"

\* Every row belongs to a pull, so the two ways of saying it agree.
LEMMA HonestRows == RowsRefer => (OutcomeHonest <=> Honest)
<1> SUFFICES ASSUME RowsRefer PROVE OutcomeHonest <=> Honest
  OBVIOUS
<1>1. ASSUME OutcomeHonest PROVE Honest
  <2>1. ASSUME NEW a \in DOMAIN acts
        PROVE  acts[a].op \in DOMAIN ops /\ ops[acts[a].op].kind = "pull"
               /\ acts[a].status \in Statuses(acts[a].op)
    BY DEF RowsRefer, Statuses, ActionsOf
  <2>2. ASSUME NEW o \in DOMAIN ops, "undo_failed" \in Statuses(o)
        PROVE  \E a \in DOMAIN acts : acts[a].op = o /\ acts[a].status = "undo_failed"
    BY <2>2 DEF Statuses, ActionsOf
  <2> QED BY <1>1, <2>1, <2>2 DEF OutcomeHonest, Honest
<1>2. ASSUME Honest PROVE OutcomeHonest
  <2>1. ASSUME NEW o \in DOMAIN ops, NEW s \in Statuses(o)
        PROVE  \E a \in DOMAIN acts : acts[a].op = o /\ acts[a].status = s
    BY DEF Statuses, ActionsOf
  <2>2. ASSUME NEW a \in DOMAIN acts PROVE acts[a].status \in Statuses(acts[a].op)
    BY DEF Statuses, ActionsOf
  <2> QED BY <1>2, <2>1, <2>2 DEF OutcomeHonest, Honest
<1> QED BY <1>1, <1>2

-----------------------------------------------------------------------------
(* Steps that do not write to the log *)

\* The log's own part holds as long as the log does not change.
LEMMA LogUnchanged ==
    ASSUME LogInv, UNCHANGED storeVars
    PROVE  LogInv'
  BY DEF storeVars, LogInv, RowsRefer, RowsOrdered, IntentsOpen, OutcomeHonest, Statuses,
         ActionsOf, RetriesBounded

\* Once the command has returned there is nothing in hand.
LEMMA ReturnHands ==
    ASSUME NEW r, Return(r)
    PROVE  HandInv'
  BY DEF Return, HandInv, OpInHand, RowInHand, ListInHand, PullInHand, Pulling

\* A command starts with nothing in hand.
LEMMA EnterHands ==
    ASSUME TypeInv, NEW label \in NoOpYet, NEW command, NEW items, Enter(label, command, items)
    PROVE  HandInv'
  BY DEF Enter, TypeInv, Control, NoOpYet, HandInv, OpInHand, RowInHand, ListInHand, PullInHand,
         Pulling

\* The steps that read the log, or a handler's answer, and go on.
LEMMA QuietHands ==
    ASSUME IInv, UNCHANGED storeVars,
           \/ \E v \in Values : ProbeItem(v)
           \/ \E s, b : GateClear(s, b) \/ GateAborts(s, b)
           \/ \E o \in DOMAIN ops : RevertLast(o)
           \/ NothingInFlight
           \/ \E a \in DOMAIN acts, v \in Values : ReconcileApplied(a, v)
           \/ Rollback
           \/ \E a \in DOMAIN acts : NextUndo(a)
           \/ RollbackDone
           \/ Cleanup /\ cmd = "recover"
    PROVE  HandInv'
<1> USE DEF IInv, storeVars, locals, Goto
<1>rows. /\ \A a \in DOMAIN acts : a \in Nat /\ acts[a].seq \in Nat
         /\ seq \in Nat /\ Len(profile) \in Nat
  BY LogRows, LenProperties DEF TypeInv, TypeOK
<1>1. ASSUME NEW v \in Values, ProbeItem(v) PROVE HandInv'
  BY <1>1
  DEF ProbeItem, TypeInv, Control, HandInv, OpInHand, RowInHand, ListInHand, PullInHand,
      Pulling, Recorded, ActionsOf, NoOpYet
<1>2. ASSUME NEW s, NEW b, GateClear(s, b) PROVE HandInv'
  BY <1>2, <1>rows
  DEF GateClear, TypeInv, Control, HandInv, OpInHand, RowInHand, ListInHand, PullInHand,
      Pulling, Recorded, ActionsOf, NoOpYet
<1>3. ASSUME NEW s, NEW b, GateAborts(s, b) PROVE HandInv'
  BY <1>3
  DEF GateAborts, TypeInv, Control, HandInv, OpInHand, RowInHand, ListInHand, PullInHand,
      Pulling, ActionsOf, NoOpYet
<1>4. ASSUME NEW o \in DOMAIN ops, RevertLast(o) PROVE HandInv'
  <2>1. ops[o].status = "applied" /\ ops[o].kind = "pull"
    BY <1>4 DEF RevertLast, IsLastAppliedOp, AppliedPull
  <2>2. \A a \in ActionsOf(o) : acts[a].status # "pending"
    BY <2>1 DEF LogInv, IntentsOpen, ActionsOf
  <2> QED
    BY <1>4, <2>1, <2>2
    DEF RevertLast, TypeInv, Control, HandInv, OpInHand, RowInHand, ListInHand, PullInHand,
        Pulling, ActionsOf, NoOpYet
<1>5. ASSUME NothingInFlight PROVE HandInv'
  <2>1. \A a \in ActionsOf(op) : acts[a].status # "pending"
    BY <1>5 DEF NothingInFlight, IsPendingAction, ActionsOf
  <2> QED
    BY <1>5, <2>1
    DEF NothingInFlight, TypeInv, Control, HandInv, OpInHand, RowInHand, ListInHand,
        PullInHand, Pulling, ActionsOf, NoOpYet
<1>6. ASSUME NEW a \in DOMAIN acts, NEW v \in Values, ReconcileApplied(a, v) PROVE HandInv'
  <2>1. /\ acts[a].op = op /\ acts[a].status = "pending"
        /\ \A b \in ActionsOf(op) : acts[b].status = "pending" => b = a
    BY <1>6, <1>rows DEF ReconcileApplied, IsPendingAction, ActionsOf, LogInv, RowsOrdered
  <2> QED
    BY <1>6, <2>1
    DEF ReconcileApplied, TypeInv, Control, HandInv, OpInHand, RowInHand, ListInHand,
        PullInHand, Pulling, ActionsOf, NoOpYet
<1>7. ASSUME Rollback PROVE HandInv'
  BY <1>7
  DEF Rollback, TypeInv, Control, HandInv, OpInHand, RowInHand, ListInHand, PullInHand,
      Pulling, ActionsOf, AppliedActions, NoOpYet
<1>8. ASSUME NEW a \in DOMAIN acts, NextUndo(a) PROVE HandInv'
  BY <1>8
  DEF NextUndo, HighestSeq, TypeInv, Control, HandInv, OpInHand, RowInHand, ListInHand,
      PullInHand, Pulling, ActionsOf, AppliedActions, NoOpYet
<1>9. ASSUME RollbackDone PROVE HandInv'
  BY <1>9
  DEF RollbackDone, TypeInv, Control, HandInv, OpInHand, RowInHand, ListInHand,
      PullInHand, Pulling, ActionsOf, AppliedActions, NoOpYet
<1>10. ASSUME Cleanup, cmd = "recover" PROVE HandInv'
  BY <1>10
  DEF Cleanup, TypeInv, Control, HandInv, OpInHand, RowInHand, ListInHand,
      PullInHand, Pulling, ActionsOf, AppliedActions, NoOpYet
<1> QED BY <1>1, <1>2, <1>3, <1>4, <1>5, <1>6, <1>7, <1>8, <1>9, <1>10

-----------------------------------------------------------------------------
(* Steps that write to the table operations *)

\* The parts of LogInv make up LogInv in the next state too.
LEMMA LogParts ==
    ASSUME RowsRefer', RowsOrdered', IntentsOpen', Honest', RetriesBounded'
    PROVE  LogInv'
<1>1. (RowsRefer => (OutcomeHonest <=> Honest))'
  BY HonestRows, PTL
<1> QED BY <1>1 DEF LogInv

\* begin_op: the new operation is pending and has no rows.
LEMMA OpenKeeps ==
    ASSUME IInv, NEW kind \in {"pull", "recover"}, NEW parent \in Nat,
           BeginOp(kind, parent), UNCHANGED acts
    PROVE  LogInv'
<1>1. /\ \A o \in DOMAIN ops : ops'[o] = ops[o]
      /\ DOMAIN ops' = DOMAIN ops \cup {Len(ops) + 1}
      /\ ops'[Len(ops) + 1].status = "pending"
  <2>1. kind \in OpKind /\ StoreTypeOK
    BY DEF OpKind, IInv, TypeInv, TypeOK
  <2>2. ops'[Len(ops) + 1] = [kind |-> kind, parent |-> parent, status |-> "pending"]
    BY <2>1, BeginOpFacts
  <2>3. ops'[Len(ops) + 1].status = "pending"
    BY <2>2
  <2>4. /\ \A o \in DOMAIN ops : ops'[o] = ops[o]
        /\ DOMAIN ops' = DOMAIN ops \cup {Len(ops) + 1}
    BY <2>1, BeginOpFacts
  <2> QED BY <2>3, <2>4
<1>2. RowsRefer /\ RowsOrdered /\ IntentsOpen /\ Honest /\ RetriesBounded
  BY HonestRows DEF IInv, LogInv
<1>3. RowsRefer' /\ RowsOrdered'
  BY <1>1, <1>2 DEF RowsRefer, RowsOrdered
<1>4. IntentsOpen' /\ Honest'
  BY <1>1, <1>2 DEF RowsRefer, IntentsOpen, Honest
<1>5. RetriesBounded'
  BY <1>2 DEF RetriesBounded
<1> QED BY <1>3, <1>4, <1>5, LogParts

\* The pull's own row, and then no rows of its actions.
LEMMA BeginPullKeeps ==
    ASSUME IInv, NEW s, NEW b, BeginPull(s, b)
    PROVE  LogInv' /\ HandInv'
<1>1. LogInv'
  BY OpenKeeps DEF BeginPull
<1>2. /\ ops'[Len(ops) + 1] = [kind |-> "pull", parent |-> 0, status |-> "pending"]
      /\ Len(ops) + 1 \notin DOMAIN ops
  BY BeginOpFacts DEF BeginPull, IInv, TypeInv, TypeOK, OpKind
<1>3. /\ op' = Len(ops) + 1 /\ pc' = "item" /\ cmd' = "pull" /\ seq' = 0
      /\ acts' = acts /\ Len(ops) \in Nat
  BY LogRows DEF BeginPull, Goto, IInv, TypeInv, Control, NoOpYet
<1>4. (ActionsOf(op))' = {}
  BY <1>2, <1>3 DEF ActionsOf, IInv, LogInv, RowsRefer
<1>5. OpInHand' /\ RowInHand' /\ ListInHand'
  BY <1>2, <1>3, <1>4 DEF OpInHand, RowInHand, ListInHand
<1>6. PullInHand'
  BY <1>3, <1>4 DEF PullInHand, Pulling, Recorded
<1> QED BY <1>1, <1>5, <1>6 DEF HandInv

\* The recovery's row, beside the operation it found unfinished.
LEMMA BeginRecoverKeeps ==
    ASSUME IInv, NEW o \in DOMAIN ops, BeginRecover(o)
    PROVE  LogInv' /\ HandInv'
<1>1. o \in Nat /\ o # 0 /\ Len(ops) \in Nat
  BY StoreRows DEF IInv, TypeInv, TypeOK
<1>2. LogInv'
  BY <1>1, OpenKeeps DEF BeginRecover
<1>3. /\ ops'[Len(ops) + 1] = [kind |-> "recover", parent |-> o, status |-> "pending"]
      /\ Len(ops) + 1 \notin DOMAIN ops
      /\ ops'[o] = ops[o]
  BY <1>1, BeginOpFacts DEF BeginRecover, IInv, TypeInv, TypeOK, OpKind
<1>4. /\ op' = o /\ rec' = Len(ops) + 1 /\ pc' = "reconcile" /\ cmd' = "recover"
      /\ ops[o].status = "pending"
  BY DEF BeginRecover, Goto, IsUnfinishedOp, IInv, TypeInv, Control
<1> QED
  BY <1>2, <1>3, <1>4
  DEF HandInv, OpInHand, RowInHand, ListInHand, PullInHand, Pulling

\* set_op_status to a status that the rows of o allow.
LEMMA CloseKeeps ==
    ASSUME IInv, NEW o \in DOMAIN ops, NEW status \in {"applied", "reverted", "revert_failed"},
           SetOpStatus(o, status), UNCHANGED acts,
           \A a \in ActionsOf(o) :
              /\ acts[a].status # "pending"
              /\ status = "applied" => acts[a].status # "failed"
              /\ status # "applied" => acts[a].status # "applied"
              /\ status = "reverted" => acts[a].status # "undo_failed",
           ops[o].kind = "pull" /\ status = "revert_failed" =>
              \E a \in ActionsOf(o) : acts[a].status = "undo_failed"
    PROVE  LogInv'
<1>1. /\ DOMAIN ops' = DOMAIN ops
      /\ \A p \in DOMAIN ops : p # o => ops'[p] = ops[p]
      /\ ops'[o].kind = ops[o].kind /\ ops'[o].status = status
  <2>1. status \in OpStatus /\ StoreTypeOK
    BY DEF OpStatus, IInv, TypeInv, TypeOK
  <2>2. ops'[o] = [kind |-> ops[o].kind, parent |-> ops[o].parent, status |-> status]
    BY <2>1, SetOpStatusFacts
  <2> QED BY <2>1, <2>2, SetOpStatusFacts
<1>2. RowsRefer /\ RowsOrdered /\ IntentsOpen /\ Honest /\ RetriesBounded
  BY HonestRows DEF IInv, LogInv
<1>3. RowsRefer' /\ RowsOrdered' /\ RetriesBounded'
  BY <1>1, <1>2 DEF RowsRefer, RowsOrdered, RetriesBounded
<1>4. IntentsOpen'
  BY <1>1, <1>2 DEF RowsRefer, IntentsOpen, ActionsOf
<1>5. Honest'
  BY <1>1, <1>2 DEF RowsRefer, Honest, ActionsOf
<1> QED BY <1>3, <1>4, <1>5, LogParts

\* Every item is recorded, applied or skipped, when a pull succeeds.
LEMMA FinishPullKeeps ==
    ASSUME IInv, FinishPull
    PROVE  LogInv'
<1>1. op \in DOMAIN ops /\ cmd = "pull" /\ op # 0
  BY DEF FinishPull, IInv, TypeInv, Control, NoOpYet, Pulling
<1>2. \A a \in ActionsOf(op) : acts[a].status \in {"applied", "skipped"}
  BY <1>1 DEF FinishPull, IInv, HandInv, RowInHand, PullInHand, Pulling
<1> QED BY <1>1, <1>2, CloseKeeps DEF FinishPull

\* After rollback nothing is applied or in flight, so the outcome is honest.
LEMMA FinalizeKeeps ==
    ASSUME IInv, Finalize
    PROVE  LogInv' /\ HandInv'
<1>1. /\ op \in DOMAIN ops /\ op # 0 /\ pc = "finalize" /\ pc' = "cleanup"
      /\ acts' = acts /\ op' = op /\ cmd' = cmd /\ rec' = rec
      /\ cmd = "recover" => rec \in DOMAIN ops
  BY DEF Finalize, Goto, locals, IInv, TypeInv, Control, NoOpYet
<1>2. \A a \in ActionsOf(op) : acts[a].status \notin {"pending", "applied"}
  BY <1>1 DEF IInv, HandInv, RowInHand, ListInHand, AppliedActions
<1> DEFINE outcome == Outcome(ActionStatuses(op))
<1>3. outcome = IF \E a \in ActionsOf(op) : acts[a].status = "undo_failed"
                THEN "revert_failed" ELSE "reverted"
  <2>1. "applied" \notin ActionStatuses(op)
    BY <1>2 DEF ActionStatuses
  <2>2. "undo_failed" \in ActionStatuses(op) <=>
           \E a \in ActionsOf(op) : acts[a].status = "undo_failed"
    BY DEF ActionStatuses
  <2> QED BY <2>1, <2>2 DEF Outcome
<1>4. outcome \in {"reverted", "revert_failed"} /\ SetOpStatus(op, outcome)
  BY <1>3 DEF Finalize
<1> HIDE DEF outcome
<1>5. LogInv'
  BY <1>1, <1>2, <1>3, <1>4, CloseKeeps
<1>6. /\ \A p \in DOMAIN ops : p # op => ops'[p] = ops[p]
      /\ ops'[op].kind = ops[op].kind /\ ops'[op].status = outcome
  <2>1. outcome \in OpStatus /\ StoreTypeOK
    BY <1>4 DEF OpStatus, IInv, TypeInv, TypeOK
  <2>2. ops'[op] = [kind |-> ops[op].kind, parent |-> ops[op].parent, status |-> outcome]
    BY <1>1, <1>4, <2>1, SetOpStatusFacts
  <2> QED BY <1>1, <1>4, <2>1, <2>2, SetOpStatusFacts
<1>7. HandInv'
  BY <1>1, <1>2, <1>4, <1>6
  DEF IInv, HandInv, OpInHand, RowInHand, ListInHand, PullInHand, Pulling, ActionsOf,
      AppliedActions
<1> QED BY <1>5, <1>7

\* No row belongs to a recovery, whose outcome is the one it copies.
LEMMA MirrorKeeps ==
    ASSUME IInv, Mirror
    PROVE  LogInv'
<1>1. /\ op \in DOMAIN ops /\ rec \in DOMAIN ops /\ ops[rec].kind = "recover"
      /\ ops[op].status \in {"reverted", "revert_failed"}
  BY DEF Mirror, IInv, TypeInv, Control, NoOpYet, HandInv, OpInHand
<1>2. ActionsOf(rec) = {}
  BY <1>1 DEF IInv, LogInv, RowsRefer, ActionsOf
<1> QED BY <1>1, <1>2, CloseKeeps DEF Mirror

-----------------------------------------------------------------------------
(* Steps that write to the table actions *)

\* insert_action of the item that comes next, by the pull in hand.
LEMMA RecordKeeps ==
    ASSUME IInv, pc = "plan", NEW status \in {"pending", "skipped"}, NEW undoKind \in UndoKind,
           InsertAction(op, seq, CurrentItem.handler, CurrentItem.target, probe, undoKind, status),
           UNCHANGED ops
    PROVE  /\ LogInv'
           /\ DOMAIN acts' = DOMAIN acts \cup {Len(acts) + 1}
           /\ Len(acts) + 1 \notin DOMAIN acts
           /\ \A a \in DOMAIN acts : acts'[a] = acts[a]
           /\ LET row == acts'[Len(acts) + 1]
              IN  row.op = op /\ row.seq = seq /\ row.status = status
                  /\ row.target = CurrentItem.target
<1>1. /\ op \in DOMAIN ops /\ op \in Nat /\ op # 0 /\ cmd = "pull"
      /\ seq \in Nat /\ seq < Len(profile) /\ probe \in Values
      /\ seq + 1 \in 1 .. Len(profile) /\ profile \in Seq(Items)
  BY LenProperties DEF IInv, TypeInv, TypeOK, Control, NoOpYet, Pulling
<1>2. CurrentItem.handler \in HandlerKind /\ CurrentItem.target \in Targets
  BY <1>1, CurrentItemTyped DEF IInv, TypeInv
<1>3. status \in ActionStatus /\ StoreTypeOK
  BY DEF ActionStatus, IInv, TypeInv, TypeOK
<1>4. /\ DOMAIN acts' = DOMAIN acts \cup {Len(acts) + 1}
      /\ Len(acts) + 1 \notin DOMAIN acts
      /\ \A a \in DOMAIN acts : a < Len(acts) + 1 /\ acts'[a] = acts[a]
      /\ LET row == acts'[Len(acts) + 1]
         IN  /\ row.op = op /\ row.seq = seq /\ row.target = CurrentItem.target
             /\ row.status = status /\ row.attempts = 0
  <2>1. op \in Nat /\ seq \in Nat /\ probe \in Values
    BY <1>1
  <2>2. /\ DOMAIN acts' = DOMAIN acts \cup {Len(acts) + 1}
        /\ Len(acts) + 1 \notin DOMAIN acts
        /\ \A a \in DOMAIN acts : a < Len(acts) + 1 /\ acts'[a] = acts[a]
    BY <1>2, <1>3, <2>1, InsertActionFacts
  <2>3. LET row == acts'[Len(acts) + 1]
        IN  /\ row.op = op /\ row.seq = seq /\ row.target = CurrentItem.target
            /\ row.status = status /\ row.attempts = 0
    BY <1>2, <1>3, <2>1, InsertActionFacts
  <2> QED BY <2>2, <2>3
<1>5. /\ ops[op].status = "pending" /\ ops[op].kind = "pull"
      /\ \A a \in DOMAIN acts : acts[a].op = op =>
            acts[a].status # "pending" /\ acts[a].seq < seq
  BY <1>1 DEF IInv, HandInv, OpInHand, RowInHand, PullInHand, Pulling, ActionsOf
<1>6. RowsRefer /\ RowsOrdered /\ IntentsOpen /\ Honest /\ RetriesBounded
  BY HonestRows DEF IInv, LogInv
<1>7. \A a \in DOMAIN acts : a \in Nat /\ acts[a].seq \in Nat
  BY LogRows DEF IInv
<1>8. Len(acts) \in Nat
  BY LogRows DEF IInv
<1>9. RowsRefer'
  BY <1>1, <1>4, <1>5, <1>6 DEF RowsRefer
<1>10. RowsOrdered'
  BY <1>1, <1>4, <1>5, <1>6, <1>7, <1>8 DEF RowsOrdered
<1>11. IntentsOpen'
  BY <1>4, <1>5, <1>6 DEF IntentsOpen
<1>12. Honest'
  BY <1>4, <1>5, <1>6 DEF Honest
<1>13. RetriesBounded'
  <2>1. status # "undo_failed" /\ 0 <= MaxUndoAttempts
    BY BoundsAssumption
  <2> QED BY <1>4, <1>6, <2>1 DEF RetriesBounded
<1> QED BY <1>4, <1>9, <1>10, <1>11, <1>12, <1>13, LogParts

\* A row for an item that plan finds satisfied.
LEMMA PlanNoneKeeps ==
    ASSUME IInv, PlanNone
    PROVE  LogInv' /\ HandInv'
<1>1. /\ pc = "plan" /\ pc' = "item" /\ op' = op /\ cmd' = cmd /\ seq' = seq + 1
      /\ profile' = profile /\ ops' = ops /\ rec' = rec /\ op # 0
      /\ seq \in Nat
  BY DEF PlanNone, Goto, IInv, TypeInv, TypeOK, Control, NoOpYet
<1>2. /\ LogInv'
      /\ DOMAIN acts' = DOMAIN acts \cup {Len(acts) + 1}
      /\ Len(acts) + 1 \notin DOMAIN acts
      /\ \A a \in DOMAIN acts : acts'[a] = acts[a]
      /\ LET row == acts'[Len(acts) + 1]
         IN  row.op = op /\ row.seq = seq /\ row.status = "skipped"
             /\ row.target = CurrentItem.target
  BY <1>1, RecordKeeps DEF PlanNone, UndoKind
<1>3. OpInHand' /\ RowInHand' /\ ListInHand'
  BY <1>1, <1>2 DEF IInv, HandInv, OpInHand, RowInHand, ListInHand, ActionsOf
<1>4. PullInHand'
  <2>1. ASSUME NEW a \in DOMAIN acts', acts'[a].op = op
        PROVE  /\ acts'[a].status \in {"applied", "skipped"}
               /\ acts'[a].seq <= seq' /\ acts'[a].seq < seq'
    <3>1. \A b \in DOMAIN acts : acts[b].seq \in Nat
      BY LogRows DEF IInv
    <3> QED
      BY <1>1, <1>2, <2>1, <3>1
      DEF IInv, HandInv, RowInHand, PullInHand, Pulling, ActionsOf
  <2>2. ASSUME NEW i \in 1 .. seq'
        PROVE  \E a \in DOMAIN acts' :
                  /\ acts'[a].op = op /\ acts'[a].seq = i - 1
                  /\ acts'[a].target = profile[i].target
                  /\ acts'[a].status \in {"applied", "skipped"}
    <3>1. CASE i = seq + 1
      BY <1>1, <1>2, <3>1 DEF CurrentItem
    <3>2. CASE i # seq + 1
      <4>1. i \in 1 .. Recorded
        BY <1>1, <3>2 DEF Recorded
      <4> QED BY <1>1, <1>2, <4>1 DEF IInv, HandInv, PullInHand, Pulling, ActionsOf
    <3> QED BY <3>1, <3>2
  <2> QED BY <1>1, <2>1, <2>2 DEF PullInHand, Pulling, ActionsOf, Recorded
<1> QED BY <1>2, <1>3, <1>4 DEF HandInv

\* The intent of an item that plan wants to change.
LEMMA PlanSomeKeeps ==
    ASSUME IInv, NEW k \in UndoKind, PlanSome(k)
    PROVE  LogInv' /\ HandInv'
<1>1. /\ pc = "plan" /\ pc' = "apply" /\ op' = op /\ cmd' = cmd /\ seq' = seq
      /\ act' = Len(acts) + 1
      /\ profile' = profile /\ ops' = ops /\ rec' = rec /\ op # 0
      /\ seq \in Nat
  BY DEF PlanSome, Goto, IInv, TypeInv, TypeOK, Control, NoOpYet
<1>2. /\ LogInv'
      /\ DOMAIN acts' = DOMAIN acts \cup {Len(acts) + 1}
      /\ Len(acts) + 1 \notin DOMAIN acts
      /\ \A a \in DOMAIN acts : acts'[a] = acts[a]
      /\ LET row == acts'[Len(acts) + 1]
         IN  row.op = op /\ row.seq = seq /\ row.status = "pending"
             /\ row.target = CurrentItem.target
  BY <1>1, RecordKeeps DEF PlanSome
<1>3. OpInHand' /\ RowInHand' /\ ListInHand'
  BY <1>1, <1>2 DEF IInv, HandInv, OpInHand, RowInHand, ListInHand, ActionsOf
<1>4. PullInHand'
  <2>1. Recorded' = seq /\ Recorded = seq /\ CurrentItem' = CurrentItem
    BY <1>1 DEF Recorded, CurrentItem
  <2>2. PullInHand /\ \A b \in DOMAIN acts : acts[b].seq \in Nat
    BY LogRows DEF IInv, HandInv
  <2>3. ASSUME NEW a \in DOMAIN acts', acts'[a].op = op
        PROVE  acts'[a].status \in {"pending", "applied", "skipped"} /\ acts'[a].seq <= seq
    BY <1>1, <1>2, <2>2, <2>3 DEF PullInHand, Pulling, ActionsOf
  <2>4. ASSUME NEW i \in 1 .. seq
        PROVE  \E a \in DOMAIN acts' :
                  /\ acts'[a].op = op /\ acts'[a].seq = i - 1
                  /\ acts'[a].target = profile[i].target
                  /\ acts'[a].status \in {"applied", "skipped"}
    <3>1. i \in 1 .. Recorded
      BY <2>1
    <3>2. PICK a \in ActionsOf(op) :
              /\ acts[a].seq = i - 1 /\ acts[a].target = profile[i].target
              /\ acts[a].status \in {"applied", "skipped"}
      BY <1>1, <2>2, <3>1 DEF PullInHand, Pulling
    <3> QED BY <1>2, <3>2 DEF ActionsOf
  <2>5. acts'[act'].seq = seq' /\ acts'[act'].target = CurrentItem'.target
    BY <1>1, <1>2, <2>1
  <2>6. \A a \in (ActionsOf(op))' :
           acts'[a].status \in {"pending", "applied", "skipped"} /\ acts'[a].seq <= seq'
    BY <1>1, <2>3 DEF ActionsOf
  <2>7. \A i \in 1 .. Recorded' : \E a \in (ActionsOf(op))' :
           /\ acts'[a].seq = i - 1
           /\ acts'[a].target = profile'[i].target
           /\ acts'[a].status \in {"applied", "skipped"}
    BY <1>1, <2>1, <2>4 DEF ActionsOf
  <2> QED BY <1>1, <2>5, <2>6, <2>7 DEF PullInHand
<1> QED BY <1>2, <1>3, <1>4 DEF HandInv

\* A statement about row a of an operation that is still open, or applied and
\* being reverted: everything else stays, and a is not an intent any more.
RowSet(a) ==
    /\ DOMAIN acts' = DOMAIN acts
    /\ \A b \in DOMAIN acts : b # a => acts'[b] = acts[b]
    /\ SameIdentity(acts'[a], acts[a])
    /\ acts'[a].status # "pending"

\* Such a statement keeps LogInv if it keeps to the bound on retries.
LEMMA RowSetKeeps ==
    ASSUME IInv, NEW a \in DOMAIN acts, RowSet(a), UNCHANGED ops,
           ops[acts[a].op].status \in {"pending", "applied"},
           ops[acts[a].op].status = "applied" => acts'[a].status # "failed",
           acts'[a].attempts <= MaxUndoAttempts,
           acts'[a].status = "undo_failed" => acts'[a].attempts = MaxUndoAttempts
    PROVE  LogInv'
<1>1. RowsRefer /\ RowsOrdered /\ IntentsOpen /\ Honest /\ RetriesBounded
  BY HonestRows DEF IInv, LogInv
<1>2. \A b \in DOMAIN acts : acts'[b].op = acts[b].op /\ acts'[b].seq = acts[b].seq
  BY DEF RowSet, SameIdentity
<1>3. RowsRefer' /\ RowsOrdered'
  BY <1>1, <1>2 DEF RowSet, RowsRefer, RowsOrdered
<1>4. IntentsOpen' /\ Honest'
  BY <1>1, <1>2 DEF RowSet, IntentsOpen, Honest
<1>5. RetriesBounded'
  BY <1>1 DEF RowSet, RetriesBounded
<1> QED BY <1>3, <1>4, <1>5, LogParts

\* The row in hand belongs to the operation in hand, which is open to change.
LEMMA RowAtHand ==
    ASSUME IInv, pc \in {"apply", "synthesize", "undo"}
    PROVE  /\ act \in DOMAIN acts /\ acts[act].op = op /\ op # 0 /\ op \in DOMAIN ops
           /\ ops[op].status \in {"pending", "applied"}
           /\ pc \in {"apply", "synthesize"} => ops[op].status = "pending"
           /\ acts[act].attempts \in Nat /\ acts[act].attempts <= MaxUndoAttempts
<1>1. act \in DOMAIN acts /\ acts[act].op = op /\ op # 0 /\ op \in DOMAIN ops
  BY DEF IInv, TypeInv, Control, NoOpYet
<1>2. /\ ops[op].status \in {"pending", "applied"}
      /\ pc \in {"apply", "synthesize"} => ops[op].status = "pending"
  BY <1>1 DEF IInv, HandInv, OpInHand, TypeInv, Control, Pulling
<1>3. acts[act].attempts \in Nat /\ acts[act].attempts <= MaxUndoAttempts
  BY <1>1, LogRows DEF IInv, LogInv, RetriesBounded
<1> QED BY <1>1, <1>2, <1>3

\* apply returned Ok: the intent is now an applied action of the item.
LEMMA ApplyOkKeeps ==
    ASSUME IInv, NEW v \in Values, NEW r \in Recipes, ApplyOk(v, r)
    PROVE  LogInv' /\ HandInv'
<1>1. /\ pc = "apply" /\ pc' = "gate" /\ op' = op /\ cmd' = cmd /\ rec' = rec
      /\ seq' = seq /\ profile' = profile /\ ops' = ops
      /\ SetActionApplied(act, v, r) /\ seq \in Nat
  BY DEF ApplyOk, Goto, IInv, TypeInv, TypeOK
<1>2. RowSet(act) /\ acts'[act].status = "applied" /\ acts'[act].attempts = acts[act].attempts
  BY <1>1, RowAtHand, SetActionAppliedFacts DEF IInv, TypeInv, TypeOK, RowSet
<1>3. LogInv'
  BY <1>1, <1>2, RowAtHand, RowSetKeeps
<1>4. OpInHand' /\ RowInHand' /\ ListInHand'
  BY <1>1, <1>2, RowAtHand
  DEF IInv, HandInv, OpInHand, RowInHand, ListInHand, ActionsOf, RowSet, SameIdentity
<1>5. PullInHand'
  <2>1. Recorded' = seq + 1 /\ Recorded = seq
    BY <1>1 DEF Recorded
  <2>2. /\ acts'[act].op = op /\ acts'[act].seq = seq
        /\ acts'[act].target = profile[seq + 1].target
    BY <1>1, <1>2, RowAtHand
    DEF IInv, HandInv, PullInHand, Pulling, CurrentItem, RowSet, SameIdentity
  <2>3. ASSUME NEW i \in 1 .. seq + 1
        PROVE  \E a \in DOMAIN acts' :
                  /\ acts'[a].op = op /\ acts'[a].seq = i - 1
                  /\ acts'[a].target = profile[i].target
                  /\ acts'[a].status \in {"applied", "skipped"}
    <3>1. CASE i = seq + 1
      BY <1>1, <1>2, <2>2, <3>1, RowAtHand DEF RowSet
    <3>2. CASE i # seq + 1
      <4>1. i \in 1 .. Recorded
        BY <1>1, <2>1, <3>2
      <4>2. PICK a \in ActionsOf(op) :
                /\ acts[a].seq = i - 1 /\ acts[a].target = profile[i].target
                /\ acts[a].status \in {"applied", "skipped"}
        BY <1>1, <4>1 DEF IInv, HandInv, PullInHand, Pulling
      <4>3. a # act
        BY <1>1, <4>2 DEF IInv, HandInv, RowInHand
      <4> QED BY <1>2, <4>2, <4>3 DEF RowSet, ActionsOf
    <3> QED BY <3>1, <3>2
  <2>4. ASSUME NEW a \in DOMAIN acts', acts'[a].op = op
        PROVE  acts'[a].status \in {"pending", "applied", "skipped"} /\ acts'[a].seq <= seq
    <3>1. CASE a = act
      BY <1>1, <1>2, <2>2, <3>1
    <3>2. CASE a # act
      <4>1. acts'[a] = acts[a] /\ a \in ActionsOf(op)
        BY <1>2, <2>4, <3>2 DEF RowSet, ActionsOf
      <4>2. acts[a].status \in {"pending", "applied", "skipped"} /\ acts[a].seq <= seq
        BY <1>1, <4>1 DEF IInv, HandInv, PullInHand, Pulling
      <4> QED BY <4>1, <4>2
    <3> QED BY <3>1, <3>2
  <2> QED BY <1>1, <2>1, <2>3, <2>4 DEF PullInHand, Pulling, ActionsOf
<1> QED BY <1>3, <1>4, <1>5 DEF HandInv

\* The intent in hand is settled one way or another and rollback comes next.
LEMMA SettleIntent ==
    ASSUME IInv, NEW a \in DOMAIN acts, RowSet(a), UNCHANGED <<ops, op, cmd, rec>>,
           pc \in {"apply", "reconcile", "synthesize"}, pc' = "rollback",
           acts[a].op = op, acts[a].status = "pending",
           acts'[a].status \in {"failed", "skipped", "applied"},
           acts'[a].attempts = acts[a].attempts
    PROVE  LogInv' /\ HandInv'
<1>1. ops[op].status = "pending" /\ op # 0
  BY DEF IInv, LogInv, IntentsOpen, TypeInv, Control, NoOpYet
<1>2. acts[a].attempts <= MaxUndoAttempts
  BY DEF IInv, LogInv, RetriesBounded
<1>3. LogInv'
  BY <1>1, <1>2, RowSetKeeps
<1>4. \A b \in ActionsOf(op) : acts[b].status = "pending" => b = a
  <2>1. \A b \in DOMAIN acts : b \in Nat
    BY LogRows DEF IInv
  <2> QED BY <2>1 DEF IInv, LogInv, RowsOrdered, ActionsOf
<1>5. OpInHand'
  BY <1>1 DEF IInv, HandInv, OpInHand
<1>6. RowInHand' /\ ListInHand' /\ PullInHand'
  BY <1>1, <1>4
  DEF RowInHand, ListInHand, PullInHand, Pulling, ActionsOf, RowSet, SameIdentity
<1> QED BY <1>3, <1>5, <1>6 DEF HandInv

\* apply returned Err, or reconcile found out what became of the intent.
LEMMA IntentKeeps ==
    ASSUME IInv,
           \/ ApplyErr
           \/ \E a \in DOMAIN acts, v \in Values : ReconcileNeverRan(a, v)
           \/ \E r \in Recipes : Synthesize(probe, r)
    PROVE  LogInv' /\ HandInv'
<1>1. StoreTypeOK
  BY DEF IInv, TypeInv, TypeOK
<1>2. ASSUME ApplyErr PROVE LogInv' /\ HandInv'
  <2>1. /\ pc = "apply" /\ pc' = "rollback" /\ UNCHANGED <<ops, op, cmd, rec>>
        /\ SetActionStatus(act, "failed") /\ acts[act].status = "pending"
    BY <1>2 DEF ApplyErr, Goto, IInv, HandInv, RowInHand
  <2>2. act \in DOMAIN acts /\ acts[act].op = op
    BY <2>1, RowAtHand
  <2>3. /\ RowSet(act) /\ acts'[act].status = "failed"
        /\ acts'[act].attempts = acts[act].attempts
    BY <1>1, <2>1, <2>2, SetActionStatusFacts DEF RowSet, ActionStatus
  <2> QED BY <2>1, <2>2, <2>3, SettleIntent
<1>3. ASSUME NEW a \in DOMAIN acts, NEW v \in Values, ReconcileNeverRan(a, v)
      PROVE  LogInv' /\ HandInv'
  <2>1. /\ pc = "reconcile" /\ pc' = "rollback" /\ UNCHANGED <<ops, op, cmd, rec>>
        /\ SetActionStatus(a, "skipped") /\ acts[a].status = "pending" /\ acts[a].op = op
    BY <1>3 DEF ReconcileNeverRan, Goto, locals, IsPendingAction, ActionsOf
  <2>2. /\ RowSet(a) /\ acts'[a].status = "skipped"
        /\ acts'[a].attempts = acts[a].attempts
    BY <1>1, <2>1, SetActionStatusFacts DEF RowSet, ActionStatus
  <2> QED BY <2>1, <2>2, SettleIntent
<1>4. ASSUME NEW r \in Recipes, Synthesize(probe, r) PROVE LogInv' /\ HandInv'
  <2>1. /\ pc = "synthesize" /\ pc' = "rollback" /\ UNCHANGED <<ops, op, cmd, rec>>
        /\ SetActionApplied(act, probe, r) /\ acts[act].status = "pending"
        /\ probe \in Values
    BY <1>4 DEF Synthesize, Goto, IInv, HandInv, RowInHand, TypeInv, Control
  <2>2. act \in DOMAIN acts /\ acts[act].op = op
    BY <2>1, RowAtHand
  <2>3. /\ RowSet(act) /\ acts'[act].status = "applied"
        /\ acts'[act].attempts = acts[act].attempts
    BY <1>1, <2>1, <2>2, SetActionAppliedFacts DEF RowSet
  <2> QED BY <2>1, <2>2, <2>3, SettleIntent
<1> QED BY <1>2, <1>3, <1>4

\* The loop over one action's undo ends: it is not applied any more, and it
\* leaves rollback's list.
LEMMA SettleKeeps ==
    ASSUME IInv, pc = "undo", NEW status \in {"reverted", "undo_skipped", "undo_failed"},
           Settle(status), status = "undo_failed" => tries >= MaxUndoAttempts
    PROVE  LogInv' /\ HandInv'
<1>1. /\ pc' = "next_undo" /\ UNCHANGED <<ops, op, cmd, rec>>
      /\ todo' = todo \ {act} /\ SetActionStatus(act, status)
  BY DEF Settle, Goto
<1>2. /\ RowSet(act) /\ acts'[act].status = status
      /\ acts'[act].attempts = acts[act].attempts
  BY <1>1, RowAtHand, SetActionStatusFacts DEF IInv, TypeInv, TypeOK, RowSet, ActionStatus
<1>3. status = "undo_failed" => acts[act].attempts = MaxUndoAttempts
  <2>1. tries = acts[act].attempts
    BY DEF IInv, HandInv, RowInHand
  <2> QED BY <2>1, RowAtHand, BoundsAssumption
<1>4. LogInv'
  BY <1>1, <1>2, <1>3, RowAtHand, RowSetKeeps
<1>5. OpInHand'
  BY <1>1 DEF IInv, HandInv, OpInHand
<1>6. RowInHand' /\ PullInHand'
  BY <1>1, <1>2, RowAtHand
  DEF IInv, HandInv, RowInHand, PullInHand, Pulling, ActionsOf, RowSet, SameIdentity
<1>7. ListInHand'
  <2>1. todo = AppliedActions(op)
    BY DEF IInv, HandInv, ListInHand
  <2>2. AppliedActions(op)' = AppliedActions(op) \ {act}
    BY <1>1, <1>2, RowAtHand DEF AppliedActions, ActionsOf, RowSet, SameIdentity
  <2> QED BY <1>1, <2>1, <2>2 DEF ListInHand
<1> QED BY <1>4, <1>5, <1>6, <1>7 DEF HandInv

\* A failed undo is counted in the row; the loop's own count is the same.
LEMMA UndoErrKeeps ==
    ASSUME IInv, UndoErr
    PROVE  LogInv' /\ HandInv'
<1>1. /\ pc = "undo" /\ tries < MaxUndoAttempts /\ BumpUndoAttempt(act)
      /\ tries' = acts[act].attempts + 1
      /\ UNCHANGED <<ops, pc, cmd, op, rec, act, todo>>
  BY DEF UndoErr
<1>2. /\ tries = acts[act].attempts /\ HighestSeq(act, todo) /\ todo = AppliedActions(op)
  BY <1>1 DEF IInv, HandInv, RowInHand, ListInHand
<1>3. acts[act].status = "applied"
  BY <1>2 DEF HighestSeq, AppliedActions
<1>4. /\ RowSet(act) /\ acts'[act].status = "applied"
      /\ acts'[act].attempts = acts[act].attempts + 1
  BY <1>1, <1>3, RowAtHand, BumpUndoAttemptFacts DEF IInv, TypeInv, TypeOK, RowSet
<1>5. acts'[act].attempts <= MaxUndoAttempts
  BY <1>1, <1>2, <1>4, RowAtHand, BoundsAssumption
<1>6. LogInv'
  BY <1>1, <1>4, <1>5, RowAtHand, RowSetKeeps
<1>7. /\ \A a \in DOMAIN acts : acts'[a].op = acts[a].op /\ acts'[a].seq = acts[a].seq
                                /\ acts'[a].status = acts[a].status
  BY <1>3, <1>4 DEF RowSet, SameIdentity
<1>8. OpInHand' /\ PullInHand'
  BY <1>1 DEF IInv, HandInv, OpInHand, PullInHand, Pulling
<1>9. ListInHand'
  <2>1. AppliedActions(op)' = AppliedActions(op)
    BY <1>1, <1>4, <1>7 DEF AppliedActions, ActionsOf, RowSet
  <2> QED BY <1>1, <1>2, <2>1 DEF ListInHand
<1>10. RowInHand'
  <2>1. HighestSeq(act, todo)'
    BY <1>1, <1>2, <1>7 DEF HighestSeq, AppliedActions, ActionsOf
  <2>2. \A a \in ActionsOf(op) : acts[a].status # "pending"
    BY <1>1, RowAtHand DEF IInv, HandInv, RowInHand
  <2> QED BY <1>1, <1>4, <1>7, <2>1, <2>2 DEF RowInHand, ActionsOf, RowSet
<1> QED BY <1>6, <1>8, <1>9, <1>10 DEF HandInv

-----------------------------------------------------------------------------
(* The invariant *)

\* An empty log is honest.
LEMMA LogInit == Init => LogInv /\ HandInv
<1> SUFFICES ASSUME Init PROVE LogInv /\ HandInv
  OBVIOUS
<1>1. DOMAIN ops = {} /\ DOMAIN acts = {} /\ op = 0 /\ pc = "idle"
  BY DEF Init, StoreInit, NoCommand
<1>2. LogInv
  BY <1>1 DEF LogInv, RowsRefer, RowsOrdered, IntentsOpen, OutcomeHonest, RetriesBounded
<1>3. HandInv
  BY <1>1 DEF HandInv, OpInHand, RowInHand, ListInHand, PullInHand, Pulling
<1> QED BY <1>2, <1>3

\* Every step keeps the log honest and the engine's picture of it right.
LEMMA LogStepKeeps == IInv /\ [Next]_vars => LogInv' /\ HandInv'
<1> SUFFICES ASSUME IInv, [Next]_vars PROVE LogInv' /\ HandInv'
  OBVIOUS
<1>rows. \A a \in DOMAIN acts : acts[a].handler \in HandlerKind
  BY StoreRows DEF IInv, TypeInv, TypeOK, Action
<1>back. ASSUME NEW r, Return(r), UNCHANGED storeVars PROVE LogInv' /\ HandInv'
  BY <1>back, LogUnchanged, ReturnHands DEF IInv
<1>1. CASE UNCHANGED vars
  BY <1>1, LogUnchanged
  DEF vars, procVars, locals, storeVars, IInv, HandInv, OpInHand, RowInHand, ListInHand,
      PullInHand, Pulling, ActionsOf, AppliedActions, HighestSeq, Recorded, CurrentItem
<1>2. CASE Start
  <2>1. \E label \in NoOpYet : \E command, items : Enter(label, command, items)
    BY <1>2 DEF Start, StartPull, StartRevert, StartRecover, NoOpYet
  <2>2. UNCHANGED storeVars
    BY <2>1 DEF Enter, storeVars
  <2> QED BY <2>1, <2>2, EnterHands, LogUnchanged DEF IInv
<1>3. CASE Crash \/ StoreErr
  BY <1>3, <1>back DEF Crash, StoreErr
<1>4. CASE HandlerStep
  <2>1. CASE pc = "item" /\ seq < Len(profile)
               /\ \E v \in ProbeValues[CurrentItem.handler] : ProbeItem(v)
    <3>1. CurrentItem.handler \in HandlerKind
      BY <2>1, CurrentItemTyped DEF IInv, TypeInv
    <3>2. \E v \in Values : ProbeItem(v)
      BY <2>1, <3>1, ValuesAssumption
    <3>3. UNCHANGED storeVars
      BY <3>2 DEF ProbeItem, storeVars
    <3> QED BY <3>2, <3>3, QuietHands, LogUnchanged DEF IInv
  <2>2. CASE ItemErr \/ ReconcileErr
    BY <2>2, <1>back DEF ItemErr, ReconcileErr
  <2>3. CASE PlanNone
    BY <2>3, PlanNoneKeeps
  <2>4. CASE pc = "plan" /\ \E k \in PlannedUndoKinds(CurrentItem.handler) : PlanSome(k)
    <3>1. CurrentItem.handler \in HandlerKind
      BY <2>4, CurrentItemTyped DEF IInv, TypeInv, Control
    <3> QED BY <2>4, <3>1, PlannedKindsTyped, PlanSomeKeeps
  <2>5. CASE pc = "apply"
               /\ \E v \in AfterValues[acts[act].handler], r \in Recipes : ApplyOk(v, r)
    <3>1. acts[act].handler \in HandlerKind
      BY <2>5, <1>rows, RowAtHand
    <3> QED BY <2>5, <3>1, ApplyOkKeeps, ValuesAssumption
  <2>6. CASE ApplyErr \/ \E r \in Recipes : Synthesize(probe, r)
    BY <2>6, IntentKeeps
  <2>7. CASE \E a \in DOMAIN acts : \E v \in ProbeValues[acts[a].handler] :
               ReconcileNeverRan(a, v) \/ ReconcileApplied(a, v)
    <3>1. PICK a \in DOMAIN acts, v \in Values : ReconcileNeverRan(a, v) \/ ReconcileApplied(a, v)
      BY <2>7, <1>rows, ValuesAssumption
    <3>2. CASE ReconcileNeverRan(a, v)
      BY <3>2, IntentKeeps
    <3>3. CASE ReconcileApplied(a, v)
      <4>1. UNCHANGED storeVars
        BY <3>3 DEF ReconcileApplied, storeVars
      <4> QED BY <3>3, <4>1, QuietHands, LogUnchanged DEF IInv
    <3> QED BY <3>1, <3>2, <3>3
  <2>8. CASE UndoOk
    <3>1. /\ pc = "undo" /\ Settle(UndoneStatus(act))
          /\ UndoneStatus(act) \in {"reverted", "undo_skipped"}
      BY <2>8 DEF UndoOk, UndoneStatus
    <3> QED BY <3>1, SettleKeeps
  <2>9. CASE UndoErr
    BY <2>9, UndoErrKeeps
  <2> QED BY <1>4, <2>1, <2>2, <2>3, <2>4, <2>5, <2>6, <2>7, <2>8, <2>9 DEF HandlerStep
<1>5. CASE RebootStep
  <2>1. ASSUME NEW s, NEW b, PreflightRefuses(s, b) PROVE LogInv' /\ HandInv'
    BY <2>1, <1>back DEF PreflightRefuses
  <2>2. ASSUME NEW s, NEW b, GateClear(s, b) \/ GateAborts(s, b) PROVE LogInv' /\ HandInv'
    <3>1. UNCHANGED storeVars
      BY <2>2 DEF GateClear, GateAborts, storeVars
    <3> QED BY <2>2, <3>1, QuietHands, LogUnchanged DEF IInv
  <2> QED BY <1>5, <2>1, <2>2, BeginPullKeeps DEF RebootStep
<1>6. CASE LogStep
  <2>1. CASE FinishPull \/ Mirror
    <3>1. HandInv'
      BY <2>1, ReturnHands DEF FinishPull, Mirror
    <3> QED BY <2>1, <3>1, FinishPullKeeps, MirrorKeeps
  <2>2. CASE NothingToRevert \/ NothingToRecover
    BY <2>2, <1>back DEF NothingToRevert, NothingToRecover
  <2>3. CASE \/ \E o \in DOMAIN ops : RevertLast(o)
             \/ NothingInFlight \/ Rollback \/ RollbackDone
             \/ \E a \in DOMAIN acts : NextUndo(a)
    <3>1. UNCHANGED storeVars
      BY <2>3 DEF RevertLast, NothingInFlight, Rollback, RollbackDone, NextUndo, storeVars
    <3> QED BY <2>3, <3>1, QuietHands, LogUnchanged DEF IInv
  <2>4. CASE \E o \in DOMAIN ops : BeginRecover(o)
    BY <2>4, BeginRecoverKeeps
  <2>5. CASE GiveUp
    BY <2>5, SettleKeeps DEF GiveUp
  <2>6. CASE Finalize
    BY <2>6, FinalizeKeeps
  <2>7. CASE Cleanup
    <3>1. UNCHANGED storeVars
      BY <2>7 DEF Cleanup
    <3>2. CASE cmd = "recover"
      BY <2>7, <3>1, <3>2, QuietHands, LogUnchanged DEF IInv
    <3>3. CASE cmd # "recover"
      BY <2>7, <3>1, <3>3, <1>back DEF Cleanup
    <3> QED BY <3>2, <3>3
  <2> QED BY <1>6, <2>1, <2>2, <2>3, <2>4, <2>5, <2>6, <2>7 DEF LogStep
<1> QED BY <1>1, <1>2, <1>3, <1>4, <1>5, <1>6 DEF Next, Run

\* The inductive invariant holds in every reachable state.
THEOREM Invariant == Spec => []IInv
<1>1. Init => IInv
  BY TypeInit, LogInit DEF IInv
<1>2. IInv /\ [Next]_vars => IInv'
  BY TypeStep, LogStepKeeps DEF IInv
<1> QED BY <1>1, <1>2, PTL DEF Spec

\* history never calls an operation finished while a row of it is still pending
\* or applied (finalize_op), for any profiles, handlers and crashes.
THEOREM HistoryHonest == Spec => []OutcomeHonest
<1>1. IInv => OutcomeHonest
  BY DEF IInv, LogInv
<1> QED BY <1>1, Invariant, PTL

\* pending_action's LIMIT 1 misses nothing: one intent at most is in flight.
THEOREM SingleIntent == Spec => []OneInFlight
<1>1. IInv => OneInFlight
  <2> SUFFICES ASSUME IInv PROVE OneInFlight
    OBVIOUS
  <2>1. \A a \in DOMAIN acts : a \in Nat /\ acts[a].seq \in Nat
    BY LogRows DEF IInv
  <2> QED BY <2>1 DEF IInv, LogInv, RowsOrdered, IntentsOpen, OneInFlight, ActionsOf
<1> QED BY <1>1, Invariant, PTL

\* undo_attempts counts across crashes: no action is undone more often than
\* max_undo_attempts allows, or given up before (rollback).
THEOREM RetriesCounted == Spec => []RetriesBounded
<1>1. IInv => RetriesBounded
  BY DEF IInv, LogInv
<1> QED BY <1>1, Invariant, PTL

-----------------------------------------------------------------------------
(* What a command that succeeds has done *)

\* Three statements return success, each in a command of its own.
LEMMA Successes ==
    ASSUME IInv, [Next]_vars, ret # "ok", ret' = "ok"
    PROVE  \/ cmd = "pull" /\ FinishPull
           \/ cmd = "revert" /\ Cleanup
           \/ cmd = "recover" /\ op = 0
           \/ cmd = "recover" /\ Mirror
<1> USE DEF Goto, Return, IInv, TypeInv, Control, NoOpYet, Pulling
<1>1. ~ UNCHANGED vars /\ ~ Start /\ ~ Crash /\ ~ StoreErr
  BY DEF vars, procVars, Start, StartPull, StartRevert, StartRecover, Enter, Crash, StoreErr
<1>2. ~ RebootStep
  BY DEF RebootStep, PreflightRefuses, BeginPull, GateClear, GateAborts
<1>3. ~ HandlerStep
  BY DEF HandlerStep, ProbeItem, ItemErr, PlanNone, PlanSome, ApplyOk, ApplyErr,
         ReconcileNeverRan, ReconcileApplied, Synthesize, ReconcileErr, UndoOk, UndoErr, Settle
<1>4. CASE LogStep
  BY <1>4
  DEF LogStep, FinishPull, NothingToRevert, RevertLast, NothingToRecover, BeginRecover,
      NothingInFlight, Rollback, NextUndo, RollbackDone, GiveUp, Settle, Finalize, Cleanup, Mirror
<1> QED BY <1>1, <1>2, <1>3, <1>4 DEF Next, Run

\* A pull that reports success has a row for every item of its profile, in
\* order, applied or satisfied already (the end of pull).
THEOREM PullsComplete == Spec => PullOkComplete
<1>1. IInv /\ [Next]_vars =>
        [(cmd = "pull" /\ ret # "ok" /\ ret' = "ok") =>
           /\ ops'[op].status = "applied"
           /\ \A i \in 1 .. Len(profile) : \E a \in ActionsOf(op) :
                 /\ acts[a].seq = i - 1
                 /\ acts[a].target = profile[i].target
                 /\ acts[a].status \in {"applied", "skipped"}]_vars
  <2> SUFFICES ASSUME IInv, [Next]_vars, cmd = "pull", ret # "ok", ret' = "ok"
               PROVE  /\ ops'[op].status = "applied"
                      /\ \A i \in 1 .. Len(profile) : \E a \in ActionsOf(op) :
                            /\ acts[a].seq = i - 1
                            /\ acts[a].target = profile[i].target
                            /\ acts[a].status \in {"applied", "skipped"}
    OBVIOUS
  <2>1. /\ pc = "item" /\ seq = Len(profile) /\ SetOpStatus(op, "applied")
        /\ op \in DOMAIN ops
    BY Successes DEF FinishPull, IInv, TypeInv, Control, NoOpYet
  <2>2. ops'[op] = [kind |-> ops[op].kind, parent |-> ops[op].parent, status |-> "applied"]
    BY <2>1, SetOpStatusFacts DEF IInv, TypeInv, TypeOK, OpStatus
  <2>3. Recorded = Len(profile)
    BY <2>1 DEF Recorded
  <2> QED BY <2>1, <2>2, <2>3 DEF IInv, HandInv, PullInHand, Pulling
<1> QED BY <1>1, Invariant, PTL DEF Spec, PullOkComplete

\* A recover that reports success has closed what it found and its own row
\* with one outcome, and left nothing of it applied (the end of recover).
THEOREM RecoveriesSettle == Spec => RecoverOkSettles
<1>1. IInv /\ [Next]_vars =>
        [(cmd = "recover" /\ op # 0 /\ ret # "ok" /\ ret' = "ok") =>
           /\ ops'[op].status \in {"reverted", "revert_failed"}
           /\ ops'[rec].status = ops'[op].status
           /\ Statuses(op) \cap {"pending", "applied"} = {}]_vars
  <2> SUFFICES ASSUME IInv, [Next]_vars, cmd = "recover", op # 0, ret # "ok", ret' = "ok"
               PROVE  /\ ops'[op].status \in {"reverted", "revert_failed"}
                      /\ ops'[rec].status = ops'[op].status
                      /\ Statuses(op) \cap {"pending", "applied"} = {}
    OBVIOUS
  <2>1. /\ pc = "mirror" /\ SetOpStatus(rec, ops[op].status)
        /\ op \in DOMAIN ops /\ rec \in DOMAIN ops /\ rec # op
        /\ ops[op].status \in {"reverted", "revert_failed"}
    BY Successes DEF Mirror, IInv, TypeInv, Control, HandInv, OpInHand
  <2>2. /\ ops'[op] = ops[op]
        /\ ops'[rec] = [kind |-> ops[rec].kind, parent |-> ops[rec].parent,
                        status |-> ops[op].status]
    <3>1. ops[op].status \in OpStatus /\ StoreTypeOK
      BY <2>1 DEF OpStatus, IInv, TypeInv, TypeOK
    <3> QED BY <2>1, <3>1, SetOpStatusFacts
  <2>3. Statuses(op) \cap {"pending", "applied"} = {}
    BY <2>1 DEF IInv, LogInv, OutcomeHonest
  <2> QED BY <2>1, <2>2, <2>3
<1> QED BY <1>1, Invariant, PTL DEF Spec, RecoverOkSettles

\* A pull breaks its promise to roll back only where a probe, a plan or a call of the store
\* fails and `?` takes it out of the loop or out of the rollback: a pull that returns any
\* other error, once it has an operation, has closed it, and nothing of it is applied or in
\* flight.
THEOREM OtherPullsRollBack ==
    Spec => [][(cmd = "pull" /\ op # 0 /\ ~ItemErr /\ ~StoreErr /\ ret # "err" /\ ret' = "err") =>
                 /\ ops'[op].status \in {"reverted", "revert_failed"}
                 /\ Statuses(op) \cap {"pending", "applied"} = {}]_vars
<1>1. IInv /\ [Next]_vars =>
        [(cmd = "pull" /\ op # 0 /\ ~ItemErr /\ ~StoreErr /\ ret # "err" /\ ret' = "err") =>
            /\ ops'[op].status \in {"reverted", "revert_failed"}
            /\ Statuses(op) \cap {"pending", "applied"} = {}]_vars
  <2> SUFFICES ASSUME IInv, [Next]_vars, cmd = "pull", op # 0, ~ItemErr, ~StoreErr,
                      ret # "err", ret' = "err"
               PROVE  /\ ops'[op].status \in {"reverted", "revert_failed"}
                      /\ Statuses(op) \cap {"pending", "applied"} = {}
    OBVIOUS
  <2>1. Cleanup
    <3> USE DEF Goto, Return, IInv, TypeInv, Control, NoOpYet, Pulling
    <3>1. ~UNCHANGED vars /\ ~Start /\ ~Crash
      BY DEF vars, procVars, Start, StartPull, StartRevert, StartRecover, Enter, Crash
    <3>2. ~RebootStep
      BY DEF RebootStep, PreflightRefuses, BeginPull, GateClear, GateAborts
    <3>3. ~HandlerStep
      BY DEF HandlerStep, ProbeItem, PlanNone, PlanSome, ApplyOk, ApplyErr,
             ReconcileNeverRan, ReconcileApplied, Synthesize, ReconcileErr, UndoOk, UndoErr, Settle
    <3>4. CASE LogStep
      BY <3>4
      DEF LogStep, FinishPull, NothingToRevert, RevertLast, NothingToRecover, BeginRecover,
          NothingInFlight, Rollback, NextUndo, RollbackDone, GiveUp, Settle, Finalize, Mirror
    <3> QED BY <3>1, <3>2, <3>3, <3>4 DEF Next, Run
  <2>2. ops' = ops /\ op \in DOMAIN ops /\ ops[op].status \in {"reverted", "revert_failed"}
    BY <2>1 DEF Cleanup, storeVars, IInv, TypeInv, Control, NoOpYet, HandInv, OpInHand
  <2> QED BY <2>2 DEF IInv, LogInv, OutcomeHonest
<1> QED BY <1>1, Invariant, PTL DEF Spec

-----------------------------------------------------------------------------
(* How far a command is from its end *)

Ahead   == Len(profile) - seq
Applied == Cardinality(AppliedActions(op))

\* StepsLeft, label by label.
LeftAt ==
    /\ pc = "idle" => StepsLeft = 0
    /\ pc = "mirror" => StepsLeft = 1
    /\ pc = "cleanup" => StepsLeft = 2
    /\ pc = "finalize" => StepsLeft = 3
    /\ pc = "undo" => StepsLeft = 3 + UndoSteps(Cardinality(todo)) - tries
    /\ pc = "next_undo" => StepsLeft = 4 + UndoSteps(Cardinality(todo))
    /\ pc = "rollback" => StepsLeft = 5 + UndoSteps(Applied)
    /\ pc = "synthesize" => StepsLeft = 6 + UndoSteps(Applied + 1)
    /\ pc = "reconcile" => StepsLeft = 7 + UndoSteps(Applied + 1)
    /\ pc \in {"last_applied", "unfinished"} => StepsLeft = 8 + UndoSteps(Len(acts) + 1)
    /\ pc = "gate" => StepsLeft = 3 + 4 * Ahead + UndoSteps(Ahead - 1 + Applied)
    /\ pc = "apply" => StepsLeft = 4 + 4 * Ahead + UndoSteps(Ahead + Applied)
    /\ pc = "plan" => StepsLeft = 5 + 4 * Ahead + UndoSteps(Ahead + Applied)
    /\ pc = "item" => StepsLeft = 6 + 4 * Ahead + UndoSteps(Ahead + Applied)
    /\ pc = "preflight" => StepsLeft = 7 + 4 * Ahead + UndoSteps(Ahead)

LEMMA StepsLeftAt == LeftAt
  BY DEF LeftAt, StepsLeft, Ahead, Applied

\* One undo more is so many steps more, and more undos are not fewer steps.
LEMMA UndoStepsGrow ==
    ASSUME NEW n \in Nat, NEW m \in Nat
    PROVE  /\ UndoSteps(n) \in Nat
           /\ UndoSteps(n + 1) = UndoSteps(n) + MaxUndoAttempts + 2
           /\ n <= m => UndoSteps(n) <= UndoSteps(m)
<1>1. MaxUndoAttempts \in Nat
  BY BoundsAssumption
<1>2. UndoSteps(n) \in Nat
  BY <1>1 DEF UndoSteps
<1>3. UndoSteps(n + 1) = UndoSteps(n) + MaxUndoAttempts + 2
  BY <1>1 DEF UndoSteps
<1>4. n <= m => UndoSteps(n) <= UndoSteps(m)
  BY <1>1 DEF UndoSteps
<1> QED BY <1>2, <1>3, <1>4

\* An operation has finitely many applied actions, no more than the log has rows.
LEMMA AppliedCounted ==
    ASSUME TypeInv, NEW o
    PROVE  /\ IsFiniteSet(AppliedActions(o))
           /\ Cardinality(AppliedActions(o)) \in Nat
           /\ Cardinality(AppliedActions(o)) <= Len(acts)
<1>1. Len(acts) \in Nat /\ DOMAIN acts = 1 .. Len(acts)
  BY LogRows
<1>2. IsFiniteSet(DOMAIN acts) /\ Cardinality(DOMAIN acts) = Len(acts)
  <2>1. /\ IsFiniteSet(1 .. Len(acts))
        /\ Cardinality(1 .. Len(acts)) = IF 1 > Len(acts) THEN 0 ELSE Len(acts) - 1 + 1
    BY <1>1, FS_Interval
  <2> QED BY <1>1, <2>1
<1>3. AppliedActions(o) \in SUBSET DOMAIN acts
  BY DEF AppliedActions, ActionsOf
<1> QED BY <1>2, <1>3, FS_Subset, FS_CardinalityType

\* The counters StepsLeft is made of, at every label.
LEMMA CountersTyped ==
    ASSUME IInv
    PROVE  /\ Applied \in Nat /\ Len(acts) \in Nat /\ MaxUndoAttempts \in Nat /\ tries \in Nat
           /\ pc \in {"preflight", "item"} => Ahead \in Nat
           /\ pc \in {"plan", "apply", "gate"} => Ahead \in Nat /\ Ahead - 1 \in Nat
           /\ pc \in {"next_undo", "undo"} => Cardinality(todo) \in Nat
           /\ pc = "undo" => /\ IsFiniteSet(todo) /\ act \in todo /\ Cardinality(todo) - 1 \in Nat
                             /\ Cardinality(todo \ {act}) = Cardinality(todo) - 1
                             /\ tries <= MaxUndoAttempts
<1>1. Applied \in Nat /\ Len(acts) \in Nat /\ MaxUndoAttempts \in Nat /\ tries \in Nat
  BY AppliedCounted, LogRows, BoundsAssumption DEF Applied, IInv, TypeInv, TypeOK
<1>2. /\ pc \in {"preflight", "item"} => Ahead \in Nat
      /\ pc \in {"plan", "apply", "gate"} => Ahead \in Nat /\ Ahead - 1 \in Nat
  <2>1. Len(profile) \in Nat /\ seq \in Nat
    BY LenProperties DEF IInv, TypeInv, TypeOK
  <2> QED BY <2>1 DEF IInv, TypeInv, Control, NoOpYet, Ahead
<1>3. pc \in {"next_undo", "undo"} => IsFiniteSet(todo) /\ Cardinality(todo) \in Nat
  BY AppliedCounted DEF IInv, HandInv, ListInHand
<1>4. pc = "undo" => act \in todo /\ tries <= MaxUndoAttempts
  BY RowAtHand DEF IInv, HandInv, RowInHand, HighestSeq
<1>5. ASSUME pc = "undo"
      PROVE  Cardinality(todo) - 1 \in Nat /\ Cardinality(todo \ {act}) = Cardinality(todo) - 1
  <2>1. /\ IsFiniteSet(todo) /\ act \in todo
        /\ Cardinality(todo \ {act}) = Cardinality(todo) - 1 /\ IsFiniteSet(todo \ {act})
    BY <1>3, <1>4, <1>5, FS_RemoveElement
  <2> QED BY <2>1, FS_CardinalityType
<1> QED BY <1>1, <1>2, <1>3, <1>4, <1>5

\* A running command has steps left.
LEMMA StepsLeftTyped ==
    ASSUME IInv
    PROVE  StepsLeft \in Nat /\ (pc # "idle" => 0 < StepsLeft)
<1>1. CASE pc \in {"idle", "mirror", "cleanup", "finalize"}
  BY <1>1, StepsLeftAt DEF LeftAt
<1>nat. \A n \in Nat : UndoSteps(n) \in Nat
  BY UndoStepsGrow
<1>2. CASE pc \in {"next_undo", "rollback", "synthesize", "reconcile", "last_applied", "unfinished"}
  <2>0. /\ pc = "next_undo" => Cardinality(todo) \in Nat
        /\ Applied \in Nat /\ Applied + 1 \in Nat /\ Len(acts) + 1 \in Nat
    BY CountersTyped
  <2>1. /\ pc = "next_undo" => UndoSteps(Cardinality(todo)) \in Nat
        /\ UndoSteps(Applied) \in Nat /\ UndoSteps(Applied + 1) \in Nat
        /\ UndoSteps(Len(acts) + 1) \in Nat
    BY <1>nat, <2>0
  <2> QED BY <1>2, <2>1, StepsLeftAt DEF LeftAt
<1>3. CASE pc \in {"gate", "apply", "plan", "item", "preflight"}
  <2>0. /\ Ahead \in Nat /\ Ahead + Applied \in Nat
        /\ pc = "gate" => Ahead - 1 + Applied \in Nat
    BY <1>3, CountersTyped
  <2>1. /\ UndoSteps(Ahead) \in Nat /\ UndoSteps(Ahead + Applied) \in Nat
        /\ pc = "gate" => UndoSteps(Ahead - 1 + Applied) \in Nat
    BY <1>nat, <2>0
  <2> QED BY <1>3, <2>0, <2>1, StepsLeftAt DEF LeftAt
<1>4. CASE pc = "undo"
  <2> DEFINE n == Cardinality(todo) - 1
  <2>1. n \in Nat /\ Cardinality(todo) = n + 1
    BY <1>4, CountersTyped
  <2>2. UndoSteps(Cardinality(todo)) = UndoSteps(n) + MaxUndoAttempts + 2 /\ UndoSteps(n) \in Nat
    BY <2>1, UndoStepsGrow
  <2> QED BY <1>4, <2>2, StepsLeftAt, CountersTyped DEF LeftAt
<1> QED BY <1>1, <1>2, <1>3, <1>4 DEF IInv, TypeInv, TypeOK, PC

\* An undo list stays as long as no row of the operation is applied or undone.
LEMMA AppliedStays ==
    ASSUME IInv, UNCHANGED op,
           \/ UNCHANGED acts
           \/ PlanNone
           \/ \E k \in UndoKind : pc = "plan" /\ PlanSome(k)
           \/ \E a \in DOMAIN acts, status \in {"skipped", "failed"} :
                 acts[a].status = "pending" /\ SetActionStatus(a, status)
    PROVE  Applied' = Applied
<1>store. StoreTypeOK
  BY DEF IInv, TypeInv, TypeOK
<1>1. CASE UNCHANGED acts
  BY <1>1 DEF Applied, AppliedActions, ActionsOf
<1>2. ASSUME NEW k \in UndoKind, NEW status \in {"skipped", "pending"}, pc = "plan",
             InsertAction(op, seq, CurrentItem.handler, CurrentItem.target, probe, k, status)
      PROVE  AppliedActions(op)' = AppliedActions(op)
  <2>1. /\ op \in Nat /\ seq \in Nat /\ probe \in Values /\ status \in ActionStatus
        /\ CurrentItem.handler \in HandlerKind /\ CurrentItem.target \in Targets
    BY <1>2, CurrentItemTyped DEF IInv, TypeInv, TypeOK, Control, ActionStatus
  <2> DEFINE n == Len(acts) + 1
             row == [op |-> op, seq |-> seq, handler |-> CurrentItem.handler,
                     target |-> CurrentItem.target, status |-> status, before |-> probe,
                     after |-> NoValue, undoKind |-> k, undo |-> NoRecipe, attempts |-> 0]
  <2>a. acts' = Append(acts, row) /\ row.status = status
    BY <1>2 DEF InsertAction
  <2> HIDE DEF row
  <2>b. acts \in Seq(Action) /\ row \in Action
    <3>1. acts \in Seq(Action)
      BY <1>store DEF StoreTypeOK
    <3> QED BY <2>1, <3>1 DEF Action, row
  <2>2. /\ n \notin DOMAIN acts /\ DOMAIN acts' = DOMAIN acts \cup {n}
        /\ \A a \in DOMAIN acts : acts'[a] = acts[a]
        /\ acts'[n].status = status
    BY <2>a, <2>b
  <2> HIDE DEF n
  <2>3. op' = op /\ status # "applied"
    BY <1>2
  <2>4. \A a \in DOMAIN acts : (acts'[a].op = op' <=> acts[a].op = op) /\ acts'[a].status = acts[a].status
    BY <2>2, <2>3
  <2> QED BY <2>2, <2>3, <2>4 DEF AppliedActions, ActionsOf
<1>3. ASSUME NEW a \in DOMAIN acts, NEW status \in {"skipped", "failed"},
             acts[a].status = "pending", SetActionStatus(a, status)
      PROVE  AppliedActions(op)' = AppliedActions(op)
  <2>1. /\ DOMAIN acts' = DOMAIN acts
        /\ \A b \in DOMAIN acts : b # a => acts'[b] = acts[b]
        /\ acts'[a].status = status
    BY <1>3, <1>store, SetActionStatusFacts DEF ActionStatus
  <2> QED BY <1>3, <2>1 DEF AppliedActions, ActionsOf
<1> QED BY <1>1, <1>2, <1>3 DEF Applied, PlanNone, PlanSome, UndoKind

\* It has one action more when the intent in hand is applied.
LEMMA AppliedGains ==
    ASSUME IInv, UNCHANGED op, pc \in {"apply", "synthesize"},
           NEW v \in Values, NEW r \in Recipes, SetActionApplied(act, v, r)
    PROVE  Applied' = Applied + 1
<1>1. act \in DOMAIN acts /\ acts[act].op = op /\ acts[act].status = "pending" /\ StoreTypeOK
  BY RowAtHand DEF IInv, HandInv, RowInHand, TypeInv, TypeOK
<1>2. /\ DOMAIN acts' = DOMAIN acts
      /\ \A b \in DOMAIN acts : b # act => acts'[b] = acts[b]
      /\ SameIdentity(acts'[act], acts[act]) /\ acts'[act].status = "applied"
  BY <1>1, SetActionAppliedFacts
<1>3. AppliedActions(op)' = AppliedActions(op) \cup {act} /\ act \notin AppliedActions(op)
  BY <1>1, <1>2 DEF AppliedActions, ActionsOf, SameIdentity
<1> QED BY <1>3, AppliedCounted, FS_AddElement DEF Applied, IInv

\* Every statement of a running command leaves it fewer steps.
LEMMA WindsDown ==
    ASSUME IInv, IInv', Run
    PROVE  StepsLeft' < StepsLeft
<1> USE DEF Goto, locals
<1>left. StepsLeft \in Nat /\ (pc # "idle" => 0 < StepsLeft) /\ LeftAt
  BY StepsLeftTyped, StepsLeftAt
<1>left2. LeftAt'
  BY StepsLeftAt, PTL
<1>typed. /\ Applied \in Nat /\ Len(acts) \in Nat /\ MaxUndoAttempts \in Nat /\ tries \in Nat
          /\ pc \in {"preflight", "item"} => Ahead \in Nat
          /\ pc \in {"plan", "apply", "gate"} => Ahead \in Nat /\ Ahead - 1 \in Nat
          /\ pc \in {"next_undo", "undo"} => Cardinality(todo) \in Nat
  BY CountersTyped
<1>undos. \A n \in Nat : /\ UndoSteps(n) \in Nat
                         /\ UndoSteps(n + 1) = UndoSteps(n) + MaxUndoAttempts + 2
                         /\ \A m \in Nat : n <= m => UndoSteps(n) <= UndoSteps(m)
  BY UndoStepsGrow
<1>back. ASSUME NEW r, Return(r), pc # "idle" PROVE StepsLeft' < StepsLeft
  BY <1>back, <1>left, <1>left2 DEF Return, LeftAt
<1>item. Ahead' = Len(profile') - seq' /\ Len(profile) \in Nat /\ seq \in Nat
  BY LenProperties DEF Ahead, IInv, TypeInv, TypeOK
<1>1. ASSUME NEW s, NEW b, BeginPull(s, b) PROVE StepsLeft' < StepsLeft
  <2>1. AppliedActions(op)' = {}
    <3>1. op' = Len(ops) + 1 /\ acts' = acts
      BY <1>1 DEF BeginPull
    <3>2. \A a \in DOMAIN acts : acts[a].op \in DOMAIN ops
      BY DEF IInv, LogInv, RowsRefer
    <3>3. Len(ops) \in Nat /\ DOMAIN ops = 1 .. Len(ops)
      BY LogRows DEF IInv
    <3> QED BY <3>1, <3>2, <3>3 DEF AppliedActions, ActionsOf
  <2>2. Applied' = 0 /\ Ahead' = Ahead /\ Ahead \in Nat /\ pc = "preflight" /\ pc' = "item"
    BY <1>1, <1>typed, <2>1, FS_EmptySet DEF BeginPull, Ahead, Applied
  <2>3. UndoSteps(Ahead) \in Nat
    BY <1>undos, <2>2
  <2> QED BY <1>left, <1>left2, <2>2, <2>3 DEF LeftAt
<1>2. ASSUME NEW v, ProbeItem(v) PROVE StepsLeft' < StepsLeft
  <2>1. Applied' = Applied /\ Ahead' = Ahead /\ pc = "item" /\ pc' = "plan"
    BY <1>2, AppliedStays DEF ProbeItem, storeVars, Ahead
  <2>2. Ahead + Applied \in Nat
    BY <1>typed, <2>1
  <2>3. UndoSteps(Ahead + Applied) \in Nat
    BY <1>undos, <2>2
  <2> QED BY <1>left, <1>left2, <1>typed, <2>1, <2>3 DEF LeftAt
<1>3. ASSUME PlanNone PROVE StepsLeft' < StepsLeft
  <2>1. Applied' = Applied /\ Ahead' = Ahead - 1 /\ pc = "plan" /\ pc' = "item"
    BY <1>3, <1>item, AppliedStays DEF PlanNone, Ahead
  <2>2. Ahead + Applied \in Nat /\ Ahead - 1 + Applied \in Nat /\ Ahead - 1 + Applied <= Ahead + Applied
    BY <1>typed, <2>1
  <2>3. /\ UndoSteps(Ahead + Applied) \in Nat /\ UndoSteps(Ahead - 1 + Applied) \in Nat
        /\ UndoSteps(Ahead - 1 + Applied) <= UndoSteps(Ahead + Applied)
    BY <1>undos, <2>2
  <2>4. StepsLeft' = 6 + 4 * (Ahead - 1) + UndoSteps(Ahead - 1 + Applied)
    BY <1>left2, <2>1 DEF LeftAt
  <2>5. StepsLeft = 5 + 4 * Ahead + UndoSteps(Ahead + Applied)
    BY <1>left, <2>1 DEF LeftAt
  <2>6. Ahead \in Nat /\ 4 * (Ahead - 1) = 4 * Ahead - 4
    BY <1>typed, <2>1
  <2> QED BY <2>3, <2>4, <2>5, <2>6
<1>4. ASSUME NEW k \in UndoKind, pc = "plan", PlanSome(k) PROVE StepsLeft' < StepsLeft
  <2>1. Applied' = Applied /\ Ahead' = Ahead /\ pc' = "apply"
    BY <1>4, AppliedStays DEF PlanSome, Ahead
  <2>2. Ahead + Applied \in Nat
    BY <1>4, <1>typed
  <2>3. UndoSteps(Ahead + Applied) \in Nat
    BY <1>undos, <2>2
  <2> QED BY <1>4, <1>left, <1>left2, <1>typed, <2>1, <2>3 DEF LeftAt
<1>5. ASSUME NEW v \in Values, NEW r \in Recipes, ApplyOk(v, r) PROVE StepsLeft' < StepsLeft
  <2>1. Applied' = Applied + 1 /\ Ahead' = Ahead /\ pc = "apply" /\ pc' = "gate"
    BY <1>5, AppliedGains DEF ApplyOk, Ahead
  <2>2. Ahead - 1 + (Applied + 1) = Ahead + Applied /\ Ahead + Applied \in Nat
    BY <1>typed, <2>1
  <2>3. UndoSteps(Ahead + Applied) \in Nat
    BY <1>undos, <2>2
  <2>4. StepsLeft' = 3 + 4 * Ahead + UndoSteps(Ahead + Applied)
    BY <1>left2, <2>1, <2>2 DEF LeftAt
  <2>5. StepsLeft = 4 + 4 * Ahead + UndoSteps(Ahead + Applied)
    BY <1>left, <2>1 DEF LeftAt
  <2>6. Ahead \in Nat
    BY <1>typed, <2>1
  <2> QED BY <2>3, <2>4, <2>5, <2>6
<1>6. ASSUME ApplyErr PROVE StepsLeft' < StepsLeft
  <2>1. Applied' = Applied /\ pc = "apply" /\ pc' = "rollback"
    <3>1. act \in DOMAIN acts /\ acts[act].status = "pending" /\ SetActionStatus(act, "failed")
      BY <1>6, RowAtHand DEF ApplyErr, IInv, HandInv, RowInHand
    <3> QED BY <1>6, <3>1, AppliedStays DEF ApplyErr
  <2>2. Ahead + Applied \in Nat /\ Applied <= Ahead + Applied
    BY <1>typed, <2>1
  <2>3. /\ UndoSteps(Applied) \in Nat /\ UndoSteps(Ahead + Applied) \in Nat
        /\ UndoSteps(Applied) <= UndoSteps(Ahead + Applied)
    BY <1>undos, <1>typed, <2>2
  <2> QED BY <1>left, <1>left2, <1>typed, <2>1, <2>3 DEF LeftAt
<1>7. ASSUME NEW s, NEW b, GateClear(s, b) PROVE StepsLeft' < StepsLeft
  <2>1. Applied' = Applied /\ Ahead' = Ahead - 1 /\ pc = "gate" /\ pc' = "item"
    BY <1>7, <1>item, AppliedStays DEF GateClear, storeVars, Ahead
  <2>2. Ahead - 1 + Applied \in Nat
    BY <1>typed, <2>1
  <2>3. UndoSteps(Ahead - 1 + Applied) \in Nat
    BY <1>undos, <2>2
  <2>4. StepsLeft' = 6 + 4 * (Ahead - 1) + UndoSteps(Ahead - 1 + Applied)
    BY <1>left2, <2>1 DEF LeftAt
  <2>5. StepsLeft = 3 + 4 * Ahead + UndoSteps(Ahead - 1 + Applied)
    BY <1>left, <2>1 DEF LeftAt
  <2>6. Ahead \in Nat /\ 4 * (Ahead - 1) = 4 * Ahead - 4
    BY <1>typed, <2>1
  <2> QED BY <2>3, <2>4, <2>5, <2>6
<1>8. ASSUME NEW s, NEW b, GateAborts(s, b) PROVE StepsLeft' < StepsLeft
  <2>1. Applied' = Applied /\ pc = "gate" /\ pc' = "rollback"
    BY <1>8, AppliedStays DEF GateAborts, storeVars
  <2>2. Ahead - 1 + Applied \in Nat /\ Applied <= Ahead - 1 + Applied
    BY <1>typed, <2>1
  <2>3. /\ UndoSteps(Applied) \in Nat /\ UndoSteps(Ahead - 1 + Applied) \in Nat
        /\ UndoSteps(Applied) <= UndoSteps(Ahead - 1 + Applied)
    BY <1>undos, <1>typed, <2>2
  <2>4. StepsLeft' = 5 + UndoSteps(Applied)
    BY <1>left2, <2>1 DEF LeftAt
  <2>5. StepsLeft = 3 + 4 * Ahead + UndoSteps(Ahead - 1 + Applied)
    BY <1>left, <2>1 DEF LeftAt
  <2>6. Ahead \in Nat /\ 1 <= Ahead
    BY <1>typed, <2>1
  <2> QED BY <2>3, <2>4, <2>5, <2>6
<1>9. ASSUME NEW o \in DOMAIN ops, RevertLast(o) \/ BeginRecover(o) PROVE StepsLeft' < StepsLeft
  <2>1. /\ pc \in {"last_applied", "unfinished"} /\ pc' \in {"rollback", "reconcile"}
        /\ acts' = acts /\ op' = o
    BY <1>9 DEF RevertLast, BeginRecover, storeVars
  <2>2. Applied' = Cardinality(AppliedActions(o))
    BY <2>1 DEF Applied, AppliedActions, ActionsOf
  <2>3. Applied' \in Nat /\ Applied' <= Len(acts)
    BY <2>2, AppliedCounted DEF IInv
  <2>4. /\ UndoSteps(Applied') \in Nat /\ UndoSteps(Applied' + 1) \in Nat /\ UndoSteps(Len(acts) + 1) \in Nat
        /\ UndoSteps(Applied') <= UndoSteps(Len(acts) + 1)
        /\ UndoSteps(Applied' + 1) <= UndoSteps(Len(acts) + 1)
    <3>1. Applied' + 1 \in Nat /\ Len(acts) + 1 \in Nat /\ Applied' + 1 <= Len(acts) + 1
          /\ Applied' <= Len(acts) + 1
      <4> DEFINE m == Applied'
      <4>1. m \in Nat /\ m <= Len(acts) /\ Len(acts) \in Nat
        BY <1>typed, <2>3
      <4> HIDE DEF m
      <4>2. m + 1 \in Nat /\ Len(acts) + 1 \in Nat /\ m + 1 <= Len(acts) + 1 /\ m <= Len(acts) + 1
        BY <4>1
      <4> QED BY <4>2 DEF m
    <3> QED BY <1>undos, <2>3, <3>1
  <2> QED BY <1>left, <1>left2, <2>1, <2>4 DEF LeftAt
<1>10. ASSUME NothingInFlight \/ \E a \in DOMAIN acts, v \in Values : ReconcileNeverRan(a, v)
       PROVE  StepsLeft' < StepsLeft
  <2>1. Applied' = Applied /\ pc = "reconcile" /\ pc' = "rollback"
    BY <1>10, AppliedStays
    DEF NothingInFlight, ReconcileNeverRan, IsPendingAction, ActionsOf, storeVars
  <2>2. UndoSteps(Applied) \in Nat /\ UndoSteps(Applied + 1) = UndoSteps(Applied) + MaxUndoAttempts + 2
    BY <1>undos, <1>typed
  <2> QED BY <1>left, <1>left2, <1>typed, <2>1, <2>2 DEF LeftAt
<1>11. ASSUME NEW a, NEW v, ReconcileApplied(a, v) PROVE StepsLeft' < StepsLeft
  <2>1. Applied' = Applied /\ pc = "reconcile" /\ pc' = "synthesize"
    BY <1>11, AppliedStays DEF ReconcileApplied, storeVars
  <2>2. UndoSteps(Applied) \in Nat /\ UndoSteps(Applied + 1) = UndoSteps(Applied) + MaxUndoAttempts + 2
    BY <1>undos, <1>typed
  <2> QED BY <1>left, <1>left2, <1>typed, <2>1, <2>2 DEF LeftAt
<1>12. ASSUME NEW r \in Recipes, Synthesize(probe, r) PROVE StepsLeft' < StepsLeft
  <2>1. Applied' = Applied + 1 /\ pc = "synthesize" /\ pc' = "rollback"
    BY <1>12, AppliedGains DEF Synthesize, IInv, TypeInv, Control
  <2>2. UndoSteps(Applied) \in Nat /\ UndoSteps(Applied + 1) = UndoSteps(Applied) + MaxUndoAttempts + 2
    BY <1>undos, <1>typed
  <2> QED BY <1>left, <1>left2, <1>typed, <2>1, <2>2 DEF LeftAt
<1>13. ASSUME Rollback PROVE StepsLeft' < StepsLeft
  <2>1. Cardinality(todo') = Applied /\ pc = "rollback" /\ pc' = "next_undo"
    BY <1>13 DEF Rollback, Applied
  <2>2. UndoSteps(Applied) \in Nat
    BY <1>undos, <1>typed
  <2> QED BY <1>left, <1>left2, <2>1, <2>2 DEF LeftAt
<1>14. ASSUME NEW a \in DOMAIN acts, NextUndo(a) PROVE StepsLeft' < StepsLeft
  <2>1. todo' = todo /\ tries' \in Nat /\ pc = "next_undo" /\ pc' = "undo"
    BY <1>14, LogRows DEF NextUndo, IInv
  <2>2. UndoSteps(Cardinality(todo)) \in Nat
    BY <1>undos, <1>typed, <2>1
  <2> QED BY <1>left, <1>left2, <2>1, <2>2 DEF LeftAt
<1>15. ASSUME NEW status, pc = "undo", Settle(status) PROVE StepsLeft' < StepsLeft
  <2> DEFINE n == Cardinality(todo \ {act})
  <2>1. n \in Nat /\ Cardinality(todo) = n + 1 /\ tries <= MaxUndoAttempts
    BY <1>15, CountersTyped
  <2>2. UndoSteps(n) \in Nat /\ UndoSteps(Cardinality(todo)) = UndoSteps(n) + MaxUndoAttempts + 2
    BY <1>undos, <2>1
  <2>3. StepsLeft' = 4 + UndoSteps(n)
    BY <1>15, <1>left2 DEF LeftAt, Settle
  <2>4. StepsLeft = 3 + UndoSteps(Cardinality(todo)) - tries
    BY <1>15, <1>left DEF LeftAt
  <2> QED BY <1>typed, <2>1, <2>2, <2>3, <2>4
<1>16. ASSUME UndoErr PROVE StepsLeft' < StepsLeft
  <2>1. todo' = todo /\ tries' = tries + 1 /\ pc = "undo" /\ pc' = "undo"
    BY <1>16 DEF UndoErr, IInv, HandInv, RowInHand
  <2>2. UndoSteps(Cardinality(todo)) \in Nat
    BY <1>undos, <1>typed, <2>1
  <2> QED BY <1>left, <1>left2, <1>typed, <2>1, <2>2 DEF LeftAt
<1>17. ASSUME RollbackDone \/ Finalize \/ (Cleanup /\ cmd = "recover") PROVE StepsLeft' < StepsLeft
  <2>1. pc = "next_undo" => UndoSteps(Cardinality(todo)) \in Nat
    BY <1>undos, <1>typed
  <2> QED BY <1>17, <1>left, <1>left2, <2>1 DEF LeftAt, RollbackDone, Finalize, Cleanup
<1>18. CASE HandlerStep
  <2>rows. \A a \in DOMAIN acts : ProbeValues[acts[a].handler] \subseteq Values
                                 /\ AfterValues[acts[a].handler] \subseteq Values
    BY StoreRows, ValuesAssumption DEF IInv, TypeInv, TypeOK, Action
  <2>1. CASE ItemErr \/ ReconcileErr
    BY <1>back, <2>1 DEF ItemErr, ReconcileErr
  <2>2. CASE pc = "plan" /\ \E k \in PlannedUndoKinds(CurrentItem.handler) : PlanSome(k)
    <3>1. CurrentItem.handler \in HandlerKind
      BY <2>2, CurrentItemTyped DEF IInv, TypeInv, Control
    <3> QED BY <1>4, <2>2, <3>1, PlannedKindsTyped
  <2>3. CASE \/ UndoOk
             \/ pc = "apply" /\ \E v \in AfterValues[acts[act].handler], r \in Recipes : ApplyOk(v, r)
    BY <1>5, <1>15, <2>rows, <2>3, RowAtHand DEF UndoOk
  <2>4. CASE \E a \in DOMAIN acts : \E v \in ProbeValues[acts[a].handler] :
               ReconcileNeverRan(a, v) \/ ReconcileApplied(a, v)
    BY <1>10, <1>11, <2>rows, <2>4
  <2> QED BY <1>2, <1>3, <1>6, <1>12, <1>16, <1>18, <2>1, <2>2, <2>3, <2>4 DEF HandlerStep
<1>19. CASE RebootStep
  BY <1>1, <1>7, <1>8, <1>19, <1>back DEF RebootStep, PreflightRefuses
<1>20. CASE LogStep
  <2>1. CASE FinishPull \/ NothingToRevert \/ NothingToRecover \/ Mirror \/ (Cleanup /\ cmd # "recover")
    BY <1>back, <2>1 DEF FinishPull, NothingToRevert, NothingToRecover, Mirror, Cleanup
  <2>2. CASE GiveUp
    BY <1>15, <2>2 DEF GiveUp
  <2> QED BY <1>9, <1>10, <1>13, <1>14, <1>17, <1>20, <2>1, <2>2 DEF LogStep
<1> QED BY <1>18, <1>19, <1>20 DEF Run

\* Every statement brings its command nearer to the end: however long the profile, however
\* many tries an undo has, and however the crashes before it left the log.
THEOREM CommandsRunOut == Spec => CommandsWindDown
<1>1. IInv /\ IInv' /\ [Next]_vars => [pc # "idle" => 0 <= StepsLeft' /\ StepsLeft' < StepsLeft]_vars
  <2> SUFFICES ASSUME IInv, IInv', Next, pc # "idle" PROVE 0 <= StepsLeft' /\ StepsLeft' < StepsLeft
    OBVIOUS
  <2>1. StepsLeft \in Nat /\ 0 < StepsLeft
    BY StepsLeftTyped
  <2>2. StepsLeft' \in Nat
    <3>1. (IInv => StepsLeft \in Nat)'
      BY StepsLeftTyped, PTL
    <3> QED BY <3>1
  <2>3. CASE Run
    BY <2>2, <2>3, WindsDown
  <2>4. CASE Crash \/ StoreErr
    <3>1. pc' = "idle"
      BY <2>4 DEF Crash, StoreErr, Return
    <3>2. LeftAt'
      BY StepsLeftAt, PTL
    <3> QED BY <2>1, <3>1, <3>2 DEF LeftAt
  <2>5. ~Start
    BY DEF Start, StartPull, StartRevert, StartRecover, Enter
  <2> QED BY <2>3, <2>4, <2>5 DEF Next
<1>2. IInv /\ [Next]_vars => IInv'
  BY TypeStep, LogStepKeeps DEF IInv
<1> QED BY <1>1, <1>2, Invariant, PTL DEF Spec, CommandsWindDown
=============================================================================
