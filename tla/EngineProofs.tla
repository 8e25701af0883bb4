---------------------------- MODULE EngineProofs ----------------------------
(***************************************************************************)
(* Engine keeps its types, for every set of profiles, handlers' values and *)
(* bounds.  First what each statement of the store does to the log, row by *)
(* row: the facts the proofs use in place of the sequences.  Then the type *)
(* invariant, with what each label says of the locals (Control).           *)
(***************************************************************************)
EXTENDS EngineInvariant, SequenceTheorems, TLAPS

-----------------------------------------------------------------------------
(* The statements of the store *)

\* Row ids are positive numbers, and rows have their types.
LEMMA StoreRows ==
    ASSUME StoreTypeOK
    PROVE  /\ Len(ops) \in Nat /\ DOMAIN ops = 1 .. Len(ops)
           /\ Len(acts) \in Nat /\ DOMAIN acts = 1 .. Len(acts)
           /\ \A o \in DOMAIN ops : o \in Nat /\ o # 0 /\ ops[o] \in Operation
           /\ \A a \in DOMAIN acts : a \in Nat /\ a # 0 /\ acts[a] \in Action
<1>1. /\ Len(ops) \in Nat /\ DOMAIN ops = 1 .. Len(ops)
      /\ Len(acts) \in Nat /\ DOMAIN acts = 1 .. Len(acts)
  BY LenProperties DEF StoreTypeOK
<1>2. \A o \in 1 .. Len(ops) : ops[o] \in Operation
  BY ElementOfSeq DEF StoreTypeOK
<1>3. \A a \in 1 .. Len(acts) : acts[a] \in Action
  BY ElementOfSeq DEF StoreTypeOK
<1> QED BY <1>1, <1>2, <1>3

\* begin_op appends one pending operation, whose id is new.
LEMMA BeginOpFacts ==
    ASSUME StoreTypeOK, NEW kind \in OpKind, NEW parent \in Nat,
           BeginOp(kind, parent)
    PROVE  /\ ops' \in Seq(Operation)
           /\ DOMAIN ops' = DOMAIN ops \cup {Len(ops) + 1}
           /\ Len(ops) + 1 \notin DOMAIN ops
           /\ Len(ops') = Len(ops) + 1
           /\ \A o \in DOMAIN ops : ops'[o] = ops[o]
           /\ ops'[Len(ops) + 1] = [kind |-> kind, parent |-> parent, status |-> "pending"]
<1> DEFINE row == [kind |-> kind, parent |-> parent, status |-> "pending"]
<1>1. row \in Operation
  BY DEF Operation, OpStatus
<1>2. ops' = Append(ops, row)
  BY DEF BeginOp
<1>3. ops \in Seq(Operation)
  BY DEF StoreTypeOK
<1> HIDE DEF row
<1>4. /\ ops' \in Seq(Operation)
      /\ Len(ops') = Len(ops) + 1
      /\ \A i \in 1 .. Len(ops) : ops'[i] = ops[i]
      /\ ops'[Len(ops) + 1] = row
  BY <1>1, <1>2, <1>3, AppendProperties
<1>5. Len(ops) \in Nat /\ DOMAIN ops = 1 .. Len(ops) /\ DOMAIN ops' = 1 .. Len(ops')
  BY <1>3, <1>4, LenProperties
<1> QED BY <1>4, <1>5 DEF row

\* set_op_status changes the status of one operation.
LEMMA SetOpStatusFacts ==
    ASSUME StoreTypeOK, NEW o \in DOMAIN ops, NEW status \in OpStatus,
           SetOpStatus(o, status)
    PROVE  /\ ops' \in Seq(Operation)
           /\ DOMAIN ops' = DOMAIN ops
           /\ \A p \in DOMAIN ops : p # o => ops'[p] = ops[p]
           /\ ops'[o] = [kind |-> ops[o].kind, parent |-> ops[o].parent, status |-> status]
<1> DEFINE row == [ops[o] EXCEPT !.status = status]
<1>1. ops[o] \in Operation /\ o \in 1 .. Len(ops) /\ DOMAIN ops = 1 .. Len(ops)
  BY StoreRows
<1>2. row \in Operation
  BY <1>1 DEF Operation
<1>3. row = [kind |-> ops[o].kind, parent |-> ops[o].parent, status |-> status]
  BY <1>1 DEF Operation
<1>4. ops' = [ops EXCEPT ![o] = row]
  BY DEF SetOpStatus
<1>5. ops \in Seq(Operation)
  BY DEF StoreTypeOK
<1> HIDE DEF row
<1>6. /\ ops' \in Seq(Operation)
      /\ Len(ops') = Len(ops)
      /\ \A p \in 1 .. Len(ops) : ops'[p] = IF p = o THEN row ELSE ops[p]
  BY <1>1, <1>2, <1>4, <1>5, ExceptSeq
<1>7. DOMAIN ops' = 1 .. Len(ops')
  BY <1>6, LenProperties
<1> QED BY <1>1, <1>3, <1>6, <1>7

\* insert_action appends one row, whose id is new.
LEMMA InsertActionFacts ==
    ASSUME StoreTypeOK, NEW o \in Nat, NEW n \in Nat, NEW handler \in HandlerKind,
           NEW target \in Targets, NEW before \in Values, NEW undoKind \in UndoKind,
           NEW status \in ActionStatus,
           InsertAction(o, n, handler, target, before, undoKind, status)
    PROVE  /\ acts' \in Seq(Action)
           /\ DOMAIN acts' = DOMAIN acts \cup {Len(acts) + 1}
           /\ Len(acts) + 1 \notin DOMAIN acts
           /\ \A a \in DOMAIN acts : a < Len(acts) + 1 /\ acts'[a] = acts[a]
           /\ LET row == acts'[Len(acts) + 1]
              IN  /\ row.op = o /\ row.seq = n /\ row.target = target
                  /\ row.status = status /\ row.attempts = 0 /\ row.undoKind = undoKind
                  /\ row.handler = handler /\ row.before = before
<1> DEFINE row == [op |-> o, seq |-> n, handler |-> handler, target |-> target,
                   status |-> status, before |-> before, after |-> NoValue,
                   undoKind |-> undoKind, undo |-> NoRecipe, attempts |-> 0]
<1>1. row \in Action
  BY DEF Action
<1>2. acts' = Append(acts, row)
  BY DEF InsertAction
<1>3. acts \in Seq(Action)
  BY DEF StoreTypeOK
<1>4. /\ row.op = o /\ row.seq = n /\ row.target = target
      /\ row.status = status /\ row.attempts = 0 /\ row.undoKind = undoKind
      /\ row.handler = handler /\ row.before = before
  OBVIOUS
<1> HIDE DEF row
<1>5. /\ acts' \in Seq(Action)
      /\ Len(acts') = Len(acts) + 1
      /\ \A i \in 1 .. Len(acts) : acts'[i] = acts[i]
      /\ acts'[Len(acts) + 1] = row
  BY <1>1, <1>2, <1>3, AppendProperties
<1>6. Len(acts) \in Nat /\ DOMAIN acts = 1 .. Len(acts) /\ DOMAIN acts' = 1 .. Len(acts')
  BY <1>3, <1>5, LenProperties
<1> QED BY <1>4, <1>5, <1>6

\* What the log keeps of a row through every later statement.
SameIdentity(new, old) ==
    /\ new.op = old.op /\ new.seq = old.seq /\ new.handler = old.handler
    /\ new.target = old.target /\ new.before = old.before /\ new.undoKind = old.undoKind

\* Replacing row a by one of its type changes row a only.
LEMMA ReplaceRow ==
    ASSUME StoreTypeOK, NEW a \in DOMAIN acts, NEW row \in Action,
           acts' = [acts EXCEPT ![a] = row]
    PROVE  /\ acts' \in Seq(Action)
           /\ DOMAIN acts' = DOMAIN acts
           /\ acts'[a] = row
           /\ \A b \in DOMAIN acts : b # a => acts'[b] = acts[b]
<1>1. a \in 1 .. Len(acts) /\ DOMAIN acts = 1 .. Len(acts)
  BY StoreRows
<1>2. acts \in Seq(Action)
  BY DEF StoreTypeOK
<1>3. /\ acts' \in Seq(Action)
      /\ Len(acts') = Len(acts)
      /\ \A b \in 1 .. Len(acts) : acts'[b] = IF b = a THEN row ELSE acts[b]
  BY <1>1, <1>2, ExceptSeq
<1>4. DOMAIN acts' = 1 .. Len(acts')
  BY <1>3, LenProperties
<1> QED BY <1>1, <1>3, <1>4

\* set_action_status changes the status of one row.
LEMMA SetActionStatusFacts ==
    ASSUME StoreTypeOK, NEW a \in DOMAIN acts, NEW status \in ActionStatus,
           SetActionStatus(a, status)
    PROVE  /\ acts' \in Seq(Action)
           /\ DOMAIN acts' = DOMAIN acts
           /\ \A b \in DOMAIN acts : b # a => acts'[b] = acts[b]
           /\ SameIdentity(acts'[a], acts[a])
           /\ acts'[a].status = status /\ acts'[a].attempts = acts[a].attempts
           /\ acts'[a].undo = acts[a].undo /\ acts'[a].after = acts[a].after
<1> DEFINE row == [acts[a] EXCEPT !.status = status]
<1>1. acts[a] \in Action
  BY StoreRows
<1>2. /\ row \in Action
      /\ SameIdentity(row, acts[a])
      /\ row.status = status /\ row.attempts = acts[a].attempts
      /\ row.undo = acts[a].undo /\ row.after = acts[a].after
  BY <1>1 DEF Action, SameIdentity
<1>3. acts' = [acts EXCEPT ![a] = row]
  BY DEF SetActionStatus
<1> QED BY <1>2, <1>3, ReplaceRow

\* set_action_applied also fills in the after-state and the recipe.
LEMMA SetActionAppliedFacts ==
    ASSUME StoreTypeOK, NEW a \in DOMAIN acts, NEW after \in Values, NEW undo \in Recipes,
           SetActionApplied(a, after, undo)
    PROVE  /\ acts' \in Seq(Action)
           /\ DOMAIN acts' = DOMAIN acts
           /\ \A b \in DOMAIN acts : b # a => acts'[b] = acts[b]
           /\ SameIdentity(acts'[a], acts[a])
           /\ acts'[a].status = "applied" /\ acts'[a].attempts = acts[a].attempts
           /\ acts'[a].undo = undo /\ acts'[a].after = after
<1> DEFINE row == [acts[a] EXCEPT !.status = "applied", !.after = after, !.undo = undo]
<1>1. acts[a] \in Action
  BY StoreRows
<1>2. /\ row \in Action
      /\ SameIdentity(row, acts[a])
      /\ row.status = "applied" /\ row.attempts = acts[a].attempts
      /\ row.undo = undo /\ row.after = after
  BY <1>1 DEF Action, SameIdentity, ActionStatus
<1>3. acts' = [acts EXCEPT ![a] = row]
  BY <1>1, <1>2 DEF SetActionApplied, Action
<1> QED BY <1>2, <1>3, ReplaceRow

\* bump_undo_attempt adds one to the tries of one row.
LEMMA BumpUndoAttemptFacts ==
    ASSUME StoreTypeOK, NEW a \in DOMAIN acts, BumpUndoAttempt(a)
    PROVE  /\ acts' \in Seq(Action)
           /\ DOMAIN acts' = DOMAIN acts
           /\ \A b \in DOMAIN acts : b # a => acts'[b] = acts[b]
           /\ SameIdentity(acts'[a], acts[a])
           /\ acts'[a].status = acts[a].status
           /\ acts'[a].attempts = acts[a].attempts + 1
           /\ acts'[a].undo = acts[a].undo /\ acts'[a].after = acts[a].after
<1> DEFINE row == [acts[a] EXCEPT !.attempts = @ + 1]
<1>1. acts[a] \in Action
  BY StoreRows
<1>2. /\ row \in Action
      /\ SameIdentity(row, acts[a])
      /\ row.status = acts[a].status /\ row.attempts = acts[a].attempts + 1
      /\ row.undo = acts[a].undo /\ row.after = acts[a].after
  BY <1>1 DEF Action, SameIdentity
<1>3. acts' = [acts EXCEPT ![a] = row]
  BY DEF BumpUndoAttempt
<1> QED BY <1>2, <1>3, ReplaceRow

-----------------------------------------------------------------------------
(* Type correctness *)

\* An empty log and a free lock.
LEMMA TypeInit == Init => TypeInv
<1> SUFFICES ASSUME Init PROVE TypeInv
  OBVIOUS
<1>1. /\ ops = <<>> /\ acts = <<>> /\ profile = <<>>
      /\ pc = "idle" /\ cmd = "none" /\ ret = "none"
      /\ op = 0 /\ rec = 0 /\ seq = 0 /\ act = 0 /\ tries = 0
      /\ probe = NoValue /\ todo = {}
  BY DEF Init, StoreInit, NoCommand
<1>2. TypeOK
  BY <1>1, EmptySeq DEF TypeOK, StoreTypeOK, PC, Ret
<1>3. Control
  BY <1>1 DEF Control, NoOpYet, Pulling
<1> QED BY <1>2, <1>3 DEF TypeInv

\* Returning resets the locals to values of their types.
LEMMA TypeReturn ==
    ASSUME TypeInv, NEW r \in Ret, Return(r), StoreTypeOK'
    PROVE  TypeInv'
<1>1. TypeOK'
  BY EmptySeq DEF TypeInv, TypeOK, Return, PC
<1>2. Control'
  BY DEF Return, Control, NoOpYet, Pulling
<1> QED BY <1>1, <1>2 DEF TypeInv

\* The item a pull is at is one of the profile's.
LEMMA CurrentItemTyped ==
    ASSUME TypeOK, seq < Len(profile)
    PROVE  CurrentItem.handler \in HandlerKind /\ CurrentItem.target \in Targets
<1>1. seq + 1 \in 1 .. Len(profile) /\ profile \in Seq(Items)
  BY LenProperties DEF TypeOK
<1>2. CurrentItem \in Items
  BY <1>1, ElementOfSeq DEF CurrentItem
<1> QED BY <1>2, ItemsAssumption

\* What a handler plans is one of the undo kinds of the log.
LEMMA PlannedKindsTyped ==
    ASSUME NEW h \in HandlerKind
    PROVE  PlannedUndoKinds(h) \subseteq UndoKind
<1>1. h = "winget" \/ h = "dotfile" \/ h = "script"
  BY DEF HandlerKind
<1> QED BY <1>1 DEF PlannedUndoKinds, UndoKind

\* Every step keeps the types and what its label says of the locals.
LEMMA TypeStep == TypeInv /\ [Next]_vars => TypeInv'
<1> SUFFICES ASSUME TypeInv, [Next]_vars PROVE TypeInv'
  OBVIOUS
<1>rows. /\ Len(ops) \in Nat /\ DOMAIN ops = 1 .. Len(ops)
         /\ Len(acts) \in Nat /\ DOMAIN acts = 1 .. Len(acts)
         /\ \A o \in DOMAIN ops : o \in Nat /\ o # 0 /\ ops[o] \in Operation
         /\ \A a \in DOMAIN acts : a \in Nat /\ a # 0 /\ acts[a] \in Action
  BY StoreRows DEF TypeInv, TypeOK
<1>store. StoreTypeOK
  BY DEF TypeInv, TypeOK
<1> USE DEF Goto, locals, storeVars
<1>1. ASSUME NEW p \in Profiles, StartPull(p) PROVE TypeInv'
  BY <1>1, ItemsAssumption
  DEF StartPull, Enter, TypeInv, TypeOK, StoreTypeOK, Control, PC, Ret, Command, NoOpYet, Pulling
<1>2. ASSUME StartRevert \/ StartRecover PROVE TypeInv'
  BY <1>2, EmptySeq
  DEF StartRevert, StartRecover, Enter, TypeInv, TypeOK, StoreTypeOK, Control, PC, Ret,
      Command, NoOpYet, Pulling
<1>3. ASSUME NEW r \in Ret, Return(r), UNCHANGED storeVars PROVE TypeInv'
  BY <1>3, <1>store, TypeReturn DEF StoreTypeOK
<1>4. ASSUME NEW s, NEW b, BeginPull(s, b) PROVE TypeInv'
  <2>1. /\ ops' \in Seq(Operation)
        /\ DOMAIN ops' = DOMAIN ops \cup {Len(ops) + 1}
    BY <1>4, <1>store, BeginOpFacts DEF BeginPull, OpKind
  <2> QED
    BY <1>4, <1>rows, <2>1
    DEF BeginPull, TypeInv, TypeOK, StoreTypeOK, Control, PC, Ret, Command, NoOpYet, Pulling
<1>5. ASSUME NEW v \in Values, ProbeItem(v) PROVE TypeInv'
  BY <1>5
  DEF ProbeItem, TypeInv, TypeOK, StoreTypeOK, Control, PC, Ret, Command, NoOpYet, Pulling
<1>6. ASSUME pc \in {"item", "plan"}, seq < Len(profile)
      PROVE  CurrentItem.handler \in HandlerKind /\ CurrentItem.target \in Targets
  BY <1>6, CurrentItemTyped DEF TypeInv
<1>7. ASSUME PlanNone PROVE TypeInv'
  <2>1. /\ pc = "plan" /\ seq < Len(profile) /\ probe \in Values
        /\ op \in Nat /\ seq \in Nat
    BY <1>7 DEF PlanNone, TypeInv, TypeOK, Control
  <2>2. acts' \in Seq(Action) /\ DOMAIN acts' = DOMAIN acts \cup {Len(acts) + 1}
    BY <1>6, <1>7, <1>store, <2>1, InsertActionFacts DEF PlanNone, UndoKind, ActionStatus
  <2>3. Len(profile) \in Nat
    BY LenProperties DEF TypeInv, TypeOK
  <2> QED
    BY <1>7, <2>1, <2>2, <2>3
    DEF PlanNone, TypeInv, TypeOK, StoreTypeOK, Control, PC, Ret, Command, NoOpYet, Pulling
<1>8. ASSUME NEW k \in UndoKind, PlanSome(k) PROVE TypeInv'
  <2>1. /\ pc = "plan" /\ seq < Len(profile) /\ probe \in Values
        /\ op \in Nat /\ seq \in Nat
    BY <1>8 DEF PlanSome, TypeInv, TypeOK, Control
  <2>2. /\ acts' \in Seq(Action) /\ DOMAIN acts' = DOMAIN acts \cup {Len(acts) + 1}
        /\ acts'[Len(acts) + 1].op = op
    BY <1>6, <1>8, <1>store, <2>1, InsertActionFacts DEF PlanSome, ActionStatus
  <2> QED
    BY <1>8, <1>rows, <2>1, <2>2
    DEF PlanSome, TypeInv, TypeOK, StoreTypeOK, Control, PC, Ret, Command, NoOpYet, Pulling
<1>9. ASSUME NEW v \in Values, NEW r \in Recipes, ApplyOk(v, r) PROVE TypeInv'
  <2>1. act \in DOMAIN acts /\ pc = "apply"
    BY <1>9 DEF ApplyOk, TypeInv, Control
  <2>2. acts' \in Seq(Action) /\ DOMAIN acts' = DOMAIN acts
    BY <1>9, <1>store, <2>1, SetActionAppliedFacts DEF ApplyOk
  <2> QED
    BY <1>9, <2>1, <2>2
    DEF ApplyOk, TypeInv, TypeOK, StoreTypeOK, Control, PC, Ret, Command, NoOpYet, Pulling
<1>10. ASSUME ApplyErr PROVE TypeInv'
  <2>1. act \in DOMAIN acts /\ pc = "apply"
    BY <1>10 DEF ApplyErr, TypeInv, Control
  <2>2. acts' \in Seq(Action) /\ DOMAIN acts' = DOMAIN acts
    BY <1>10, <1>store, <2>1, SetActionStatusFacts DEF ApplyErr, ActionStatus
  <2> QED
    BY <1>10, <2>1, <2>2
    DEF ApplyErr, TypeInv, TypeOK, StoreTypeOK, Control, PC, Ret, Command, NoOpYet, Pulling
<1>11. ASSUME NEW s, NEW b, GateClear(s, b) \/ GateAborts(s, b) PROVE TypeInv'
  <2>1. Len(profile) \in Nat
    BY LenProperties DEF TypeInv, TypeOK
  <2> QED
    BY <1>11, <2>1
    DEF GateClear, GateAborts, TypeInv, TypeOK, StoreTypeOK, Control, PC, Ret, Command,
        NoOpYet, Pulling
<1>12. ASSUME FinishPull PROVE TypeInv'
  <2>1. op \in DOMAIN ops
    BY <1>12 DEF FinishPull, TypeInv, Control, NoOpYet
  <2>2. StoreTypeOK'
    BY <1>12, <1>store, <2>1, SetOpStatusFacts DEF FinishPull, StoreTypeOK, OpStatus
  <2> QED BY <1>12, <2>2, TypeReturn DEF FinishPull, Ret
<1>13. ASSUME NEW o \in DOMAIN ops, RevertLast(o) PROVE TypeInv'
  BY <1>13, <1>rows
  DEF RevertLast, TypeInv, TypeOK, StoreTypeOK, Control, PC, Ret, Command, NoOpYet, Pulling
<1>14. ASSUME NEW o \in DOMAIN ops, BeginRecover(o) PROVE TypeInv'
  <2>1. /\ ops' \in Seq(Operation)
        /\ DOMAIN ops' = DOMAIN ops \cup {Len(ops) + 1}
    BY <1>14, <1>rows, <1>store, BeginOpFacts DEF BeginRecover, OpKind
  <2> QED
    BY <1>14, <1>rows, <2>1
    DEF BeginRecover, TypeInv, TypeOK, StoreTypeOK, Control, PC, Ret, Command, NoOpYet, Pulling
<1>15. ASSUME NothingInFlight \/ RollbackDone PROVE TypeInv'
  BY <1>15
  DEF NothingInFlight, RollbackDone, TypeInv, TypeOK, StoreTypeOK, Control, PC, Ret, Command,
      NoOpYet, Pulling
<1>16. ASSUME NEW a \in DOMAIN acts, NEW v \in Values, ReconcileNeverRan(a, v) PROVE TypeInv'
  <2>1. acts' \in Seq(Action) /\ DOMAIN acts' = DOMAIN acts
    BY <1>16, <1>store, SetActionStatusFacts DEF ReconcileNeverRan, ActionStatus
  <2> QED
    BY <1>16, <2>1
    DEF ReconcileNeverRan, TypeInv, TypeOK, StoreTypeOK, Control, PC, Ret, Command,
        NoOpYet, Pulling
<1>17. ASSUME NEW a \in DOMAIN acts, NEW v \in Values, ReconcileApplied(a, v) PROVE TypeInv'
  BY <1>17, <1>rows
  DEF ReconcileApplied, IsPendingAction, ActionsOf, TypeInv, TypeOK, StoreTypeOK, Control, PC,
      Ret, Command, NoOpYet, Pulling
<1>18. ASSUME NEW r \in Recipes, Synthesize(probe, r) PROVE TypeInv'
  <2>1. act \in DOMAIN acts /\ pc = "synthesize" /\ probe \in Values
    BY <1>18 DEF Synthesize, TypeInv, Control
  <2>2. acts' \in Seq(Action) /\ DOMAIN acts' = DOMAIN acts
    BY <1>18, <1>store, <2>1, SetActionAppliedFacts DEF Synthesize
  <2> QED
    BY <1>18, <2>1, <2>2
    DEF Synthesize, TypeInv, TypeOK, StoreTypeOK, Control, PC, Ret, Command, NoOpYet, Pulling
<1>19. ASSUME Rollback PROVE TypeInv'
  BY <1>19
  DEF Rollback, AppliedActions, ActionsOf, TypeInv, TypeOK, StoreTypeOK, Control, PC, Ret,
      Command, NoOpYet, Pulling
<1>20. ASSUME NEW a \in DOMAIN acts, NextUndo(a) PROVE TypeInv'
  <2>1. acts[a].op = op /\ acts[a].attempts \in Nat /\ a \in Nat /\ a # 0
    BY <1>20, <1>rows DEF NextUndo, HighestSeq, ActionsOf, TypeInv, Control, Action
  <2> QED
    BY <1>20, <2>1
    DEF NextUndo, ActionsOf, TypeInv, TypeOK, StoreTypeOK, Control, PC, Ret, Command,
        NoOpYet, Pulling
<1>21. ASSUME NEW status \in ActionStatus, pc = "undo", Settle(status) PROVE TypeInv'
  <2>1. act \in DOMAIN acts
    BY <1>21 DEF TypeInv, Control
  <2>2. /\ acts' \in Seq(Action) /\ DOMAIN acts' = DOMAIN acts
        /\ \A b \in DOMAIN acts : acts'[b].op = acts[b].op
    BY <1>21, <1>store, <2>1, SetActionStatusFacts DEF Settle, SameIdentity
  <2> QED
    BY <1>21, <2>1, <2>2
    DEF Settle, ActionsOf, TypeInv, TypeOK, StoreTypeOK, Control, PC, Ret, Command, NoOpYet, Pulling
<1>22. ASSUME UndoErr PROVE TypeInv'
  <2>1. act \in DOMAIN acts /\ acts[act].attempts \in Nat
    BY <1>22, <1>rows DEF UndoErr, TypeInv, Control, Action
  <2>2. /\ acts' \in Seq(Action) /\ DOMAIN acts' = DOMAIN acts
        /\ \A b \in DOMAIN acts : acts'[b].op = acts[b].op
    BY <1>22, <1>store, <2>1, BumpUndoAttemptFacts DEF UndoErr, SameIdentity
  <2>3. TypeOK'
    BY <1>22, <2>1, <2>2 DEF UndoErr, TypeInv, TypeOK, StoreTypeOK
  <2>4. UNCHANGED <<pc, cmd, op, act, seq, rec, profile, probe, todo>> /\ DOMAIN ops' = DOMAIN ops
    BY <1>22 DEF UndoErr
  <2>5. Control'
    BY <2>1, <2>2, <2>4 DEF TypeInv, Control, ActionsOf, NoOpYet, Pulling
  <2> QED
    BY <2>3, <2>5 DEF TypeInv
<1>23. ASSUME Finalize PROVE TypeInv'
  <2>1. op \in DOMAIN ops
    BY <1>23 DEF Finalize, TypeInv, Control, NoOpYet
  <2>2. ops' \in Seq(Operation) /\ DOMAIN ops' = DOMAIN ops
    BY <1>23, <1>store, <2>1, SetOpStatusFacts DEF Finalize, Outcome, OpStatus
  <2> QED
    BY <1>23, <2>1, <2>2
    DEF Finalize, TypeInv, TypeOK, StoreTypeOK, Control, PC, Ret, Command, NoOpYet, Pulling
<1>24. ASSUME Cleanup PROVE TypeInv'
  <2>1. CASE cmd \in {"pull", "revert"}
    BY <1>24, <1>3, <2>1 DEF Cleanup, Ret
  <2>2. CASE cmd = "recover"
    BY <1>24, <2>2
    DEF Cleanup, TypeInv, TypeOK, StoreTypeOK, Control, PC, Ret, Command, NoOpYet, Pulling
  <2> QED BY <1>24, <2>1, <2>2 DEF Cleanup
<1>25. ASSUME Mirror PROVE TypeInv'
  <2>1. /\ op \in DOMAIN ops /\ rec \in DOMAIN ops
        /\ ops[op].status \in OpStatus
    BY <1>25, <1>rows DEF Mirror, TypeInv, Control, NoOpYet, Operation
  <2>2. StoreTypeOK'
    BY <1>25, <1>store, <2>1, SetOpStatusFacts DEF Mirror, StoreTypeOK
  <2> QED BY <1>25, <2>2, TypeReturn DEF Mirror, Ret
<1>26. ASSUME UNCHANGED vars PROVE TypeInv'
  BY <1>26 DEF vars, procVars, TypeInv, TypeOK, StoreTypeOK, Control, ActionsOf
<1>28. ASSUME NEW a \in DOMAIN acts PROVE acts[a].handler \in HandlerKind
  BY <1>rows DEF Action
<1>29. ASSUME HandlerStep PROVE TypeInv'
  <2>1. CASE pc = "item" /\ seq < Len(profile)
               /\ \E v \in ProbeValues[CurrentItem.handler] : ProbeItem(v)
    BY <2>1, <1>5, <1>6, ValuesAssumption
  <2>2. CASE ItemErr \/ ReconcileErr
    BY <2>2, <1>3 DEF ItemErr, ReconcileErr, Ret
  <2>3. CASE pc = "plan" /\ \E k \in PlannedUndoKinds(CurrentItem.handler) : PlanSome(k)
    <3>1. seq < Len(profile)
      BY <2>3 DEF TypeInv, Control
    <3> QED BY <2>3, <3>1, <1>6, <1>8, PlannedKindsTyped
  <2>4. CASE pc = "apply"
               /\ \E v \in AfterValues[acts[act].handler], r \in Recipes : ApplyOk(v, r)
    <3>1. act \in DOMAIN acts
      BY <2>4 DEF TypeInv, Control
    <3> QED BY <2>4, <3>1, <1>9, <1>28, ValuesAssumption
  <2>5. CASE \E a \in DOMAIN acts : \E v \in ProbeValues[acts[a].handler] :
               ReconcileNeverRan(a, v) \/ ReconcileApplied(a, v)
    BY <2>5, <1>16, <1>17, <1>28, ValuesAssumption
  <2>6. CASE \E r \in Recipes : Synthesize(probe, r)
    BY <2>6, <1>18
  <2>7. CASE UndoOk
    <3>1. UndoneStatus(act) \in ActionStatus
      BY DEF UndoneStatus, ActionStatus
    <3> QED BY <2>7, <3>1, <1>21 DEF UndoOk
  <2> QED
    BY <1>29, <2>1, <2>2, <2>3, <2>4, <2>5, <2>6, <2>7, <1>7, <1>10, <1>22 DEF HandlerStep
<1>30. ASSUME RebootStep PROVE TypeInv'
  <2>1. ASSUME NEW s, NEW b, PreflightRefuses(s, b) PROVE TypeInv'
    BY <2>1, <1>3 DEF PreflightRefuses, Ret
  <2> QED BY <1>30, <2>1, <1>4, <1>11 DEF RebootStep
<1>31. ASSUME LogStep PROVE TypeInv'
  <2>1. CASE NothingToRevert \/ NothingToRecover
    BY <2>1, <1>3 DEF NothingToRevert, NothingToRecover, Ret
  <2>2. CASE GiveUp
    BY <2>2, <1>21 DEF GiveUp, ActionStatus
  <2> QED
    BY <1>31, <2>1, <2>2, <1>12, <1>13, <1>14, <1>15, <1>19, <1>20, <1>23, <1>24, <1>25
    DEF LogStep
<1>32. ASSUME Crash \/ StoreErr PROVE TypeInv'
  BY <1>32, <1>3 DEF Crash, StoreErr, Ret
<1> QED
  BY <1>1, <1>2, <1>26, <1>29, <1>30, <1>31, <1>32 DEF Next, Start, Run

\* Every row, label and local keeps its type, whatever the handlers return and
\* wherever the process dies.
THEOREM TypeCorrect == Spec => []TypeOK
<1>1. Init => TypeInv
  BY TypeInit
<1>2. TypeInv /\ [Next]_vars => TypeInv'
  BY TypeStep
<1>3. TypeInv => TypeOK
  BY DEF TypeInv
<1> QED BY <1>1, <1>2, <1>3, PTL DEF Spec
=============================================================================
