------------------------------- MODULE Engine -------------------------------
(***************************************************************************)
(* The transaction engine of engine.rs: pull, revert_last and recover over *)
(* the operation log of Store, with the handlers and the reboot check left *)
(* open as the trait objects they are.  A call of a handler returns any    *)
(* value its signature allows; Candylane.tla closes that choice with the   *)
(* three handlers of the program.                                          *)
(*                                                                         *)
(* One process at a time holds the lock of lock.rs and mutates the log, so *)
(* pc is the program counter of that process and "idle" is a free lock.    *)
(* An action is one statement of the store or one call of a handler, with  *)
(* the pure code around it.  Crash is the end of the process between two   *)
(* of them: a kill or a power cut.  StoreErr is a store call that failed:  *)
(* its `?` leaves the log as a kill there would, but the command returns.  *)
(*                                                                         *)
(* Operators with the prefix Slip are plausible mistakes in the definition *)
(* that follows them.  No specification uses them: each is put in that     *)
(* definition's place to see that a property notices.                      *)
(***************************************************************************)
EXTENDS Store, FiniteSets

CONSTANTS
    Items,              \* profile items, [handler, target, ...]
    Profiles,           \* the profiles a user may pull
    ProbeValues,        \* what probe may return, for each handler
    AfterValues,        \* what apply may return as the after-state
    MaxUndoAttempts,    \* Engine.max_undo_attempts
    MaxOps              \* bound: operation rows the model opens

ASSUME ItemsAssumption ==
    /\ \A i \in Items : i.handler \in HandlerKind /\ i.target \in Targets
    /\ Profiles \subseteq Seq(Items)

ASSUME ValuesAssumption ==
    \A h \in HandlerKind : ProbeValues[h] \subseteq Values /\ AfterValues[h] \subseteq Values

ASSUME BoundsAssumption ==
    /\ MaxUndoAttempts \in Nat
    /\ MaxOps \in Nat

VARIABLES
    pc,         \* what the lock holder does next
    cmd,        \* the command it runs
    profile,    \* the parsed profile of a pull
    op,         \* the operation being pulled, reverted or recovered
    rec,        \* the Recover operation of a recover
    seq,        \* items of profile already recorded; the loop's i
    probe,      \* what probe returned for the item
    act,        \* the action row a handler is working on
    todo,       \* rollback's list: actions not yet undone
    tries,      \* rollback's local `attempts`
    ret         \* how the last command ended

locals  == <<cmd, profile, op, rec, seq, probe, act, todo, tries>>
procVars == <<pc, locals, ret>>
vars    == <<storeVars, procVars>>

Command == {"pull", "revert", "recover"}
PC == {"idle", "preflight", "item", "plan", "apply", "gate",
       "last_applied", "unfinished", "reconcile", "synthesize",
       "rollback", "next_undo", "undo", "finalize", "cleanup", "mirror"}
Ret == {"none", "ok", "err", "crashed"}

TypeOK ==
    /\ StoreTypeOK
    /\ pc \in PC
    /\ cmd \in Command \cup {"none"}
    /\ profile \in Seq(Items)
    /\ op \in Nat /\ rec \in Nat /\ seq \in Nat /\ tries \in Nat
    /\ probe \in Values \cup {NoValue}
    /\ act \in Nat
    /\ todo \subseteq DOMAIN acts
    /\ ret \in Ret

NoCommand ==
    /\ cmd = "none" /\ profile = <<>> /\ op = 0 /\ rec = 0 /\ seq = 0
    /\ probe = NoValue /\ act = 0 /\ todo = {} /\ tries = 0

Init ==
    /\ StoreInit
    /\ pc = "idle" /\ ret = "none"
    /\ NoCommand

-----------------------------------------------------------------------------
(* Commands start under the lock and end by releasing it. *)

\* The fields of the process that a command starts with.
Enter(label, command, items) ==
    /\ pc = "idle"
    /\ pc' = label
    /\ cmd' = command
    /\ profile' = items
    /\ ret' = "none"
    /\ UNCHANGED <<storeVars, op, rec, seq, probe, act, todo, tries>>

StartPull(p) == Len(ops) < MaxOps /\ Enter("preflight", "pull", p)
StartRevert  == Enter("last_applied", "revert", <<>>)
StartRecover == Len(ops) < MaxOps /\ Enter("unfinished", "recover", <<>>)

\* The command returns r and its locals are gone.
Return(r) ==
    /\ pc' = "idle"
    /\ cmd' = "none" /\ profile' = <<>> /\ op' = 0 /\ rec' = 0 /\ seq' = 0
    /\ probe' = NoValue /\ act' = 0 /\ todo' = {} /\ tries' = 0
    /\ ret' = r

Crash == pc # "idle" /\ Return("crashed") /\ UNCHANGED storeVars

\* The next call of the store fails: `?` returns its error, and nothing rolls back.
StoreErr ==
    /\ pc \notin {"idle", "gate", "next_undo", "cleanup"}
    /\ pc = "item" => seq = Len(profile)
    /\ Return("err")
    /\ UNCHANGED storeVars

Goto(label) == pc' = label /\ UNCHANGED ret

-----------------------------------------------------------------------------
(* The reboot gate.  signals is what the three registry probes show; an    *)
(* unreadable probe is taken as all-clear.                                 *)

RebootSignals == {"cbs", "wu", "pfro"}

MustAbort(signals) == "cbs" \in signals \/ "wu" \in signals

RebootStateLenient(signals, readable) == IF readable THEN signals ELSE {}

RebootPending(signals, readable) == MustAbort(RebootStateLenient(signals, readable))

-----------------------------------------------------------------------------
(* pull *)

PreflightRefuses(signals, readable) ==
    /\ pc = "preflight"
    /\ RebootPending(signals, readable)
    /\ Return("err")
    /\ UNCHANGED storeVars

BeginPull(signals, readable) ==
    /\ pc = "preflight"
    /\ ~RebootPending(signals, readable)
    /\ BeginOp("pull", 0)
    /\ op' = Len(ops) + 1
    /\ Goto("item")
    /\ UNCHANGED <<acts, cmd, profile, rec, seq, probe, act, todo, tries>>

CurrentItem == profile[seq + 1]

ProbeItem(v) ==
    /\ pc = "item" /\ seq < Len(profile)
    /\ probe' = v
    /\ Goto("plan")
    /\ UNCHANGED <<storeVars, cmd, profile, op, rec, seq, act, todo, tries>>

\* probe or plan returned Err: `?` leaves the loop, and nothing rolls back.
ItemErr ==
    /\ \/ pc = "item" /\ seq < Len(profile)
       \/ pc = "plan"
    /\ Return("err")
    /\ UNCHANGED storeVars

\* plan returned None: the item is already satisfied.
PlanNone ==
    /\ pc = "plan"
    /\ InsertAction(op, seq, CurrentItem.handler, CurrentItem.target, probe,
                    "noop", "skipped")
    /\ seq' = seq + 1
    /\ probe' = NoValue
    /\ Goto("item")
    /\ UNCHANGED <<ops, cmd, profile, op, rec, act, todo, tries>>

\* How reversible each handler says the action it plans is.
PlannedUndoKinds(handler) ==
    CASE handler = "winget"  -> {"best_effort"}
      [] handler = "dotfile" -> {"inverse"}
      [] handler = "script"  -> {"inverse", "one_way"}

\* plan returned Some: the intent is recorded before apply is called.
PlanSome(undoKind) ==
    /\ pc = "plan"
    /\ InsertAction(op, seq, CurrentItem.handler, CurrentItem.target, probe,
                    undoKind, "pending")
    /\ act' = Len(acts) + 1
    /\ probe' = NoValue
    /\ Goto("apply")
    /\ UNCHANGED <<ops, cmd, profile, op, rec, seq, todo, tries>>

ApplyOk(after, undo) ==
    /\ pc = "apply"
    /\ SetActionApplied(act, after, undo)
    /\ act' = 0
    /\ Goto("gate")
    /\ UNCHANGED <<ops, cmd, profile, op, rec, seq, probe, todo, tries>>

\* The failed action keeps its pending status.
SlipApplyErrStatus ==
    /\ pc = "apply"
    /\ act' = 0
    /\ Goto("rollback")
    /\ UNCHANGED <<storeVars, cmd, profile, op, rec, seq, probe, todo, tries>>

\* The loop goes on with the next item.
SlipApplyErrGoesOn ==
    /\ pc = "apply"
    /\ SetActionStatus(act, "failed")
    /\ act' = 0 /\ seq' = seq + 1
    /\ Goto("item")
    /\ UNCHANGED <<ops, cmd, profile, op, rec, probe, todo, tries>>

ApplyErr ==
    /\ pc = "apply"
    /\ SetActionStatus(act, "failed")
    /\ act' = 0
    /\ Goto("rollback")
    /\ UNCHANGED <<ops, cmd, profile, op, rec, seq, probe, todo, tries>>

GateClear(signals, readable) ==
    /\ pc = "gate"
    /\ ~RebootPending(signals, readable)
    /\ seq' = seq + 1
    /\ Goto("item")
    /\ UNCHANGED <<storeVars, cmd, profile, op, rec, probe, act, todo, tries>>

GateAborts(signals, readable) ==
    /\ pc = "gate"
    /\ RebootPending(signals, readable)
    /\ Goto("rollback")
    /\ UNCHANGED <<storeVars, locals>>

FinishPull ==
    /\ pc = "item" /\ seq = Len(profile)
    /\ SetOpStatus(op, "applied")
    /\ Return("ok")
    /\ UNCHANGED acts

-----------------------------------------------------------------------------
(* revert_last and the entry of recover *)

NothingToRevert ==
    /\ pc = "last_applied"
    /\ NoAppliedOp
    /\ Return("err")
    /\ UNCHANGED storeVars

RevertLast(o) ==
    /\ pc = "last_applied"
    /\ IsLastAppliedOp(o)
    /\ op' = o
    /\ Goto("rollback")
    /\ UNCHANGED <<storeVars, cmd, profile, rec, seq, probe, act, todo, tries>>

NothingToRecover ==
    /\ pc = "unfinished"
    /\ NoUnfinishedOp
    /\ Return("ok")
    /\ UNCHANGED storeVars

\* Rolls back without reconciling first.
SlipBeginRecover(o) ==
    /\ pc = "unfinished"
    /\ IsUnfinishedOp(o)
    /\ BeginOp("recover", o)
    /\ op' = o
    /\ rec' = Len(ops) + 1
    /\ Goto("rollback")
    /\ UNCHANGED <<acts, cmd, profile, seq, probe, act, todo, tries>>

BeginRecover(o) ==
    /\ pc = "unfinished"
    /\ IsUnfinishedOp(o)
    /\ BeginOp("recover", o)
    /\ op' = o
    /\ rec' = Len(ops) + 1
    /\ Goto("reconcile")
    /\ UNCHANGED <<acts, cmd, profile, seq, probe, act, todo, tries>>

-----------------------------------------------------------------------------
(* reconcile: did the one action in flight take effect before the crash? *)

NothingInFlight ==
    /\ pc = "reconcile"
    /\ ~ \E a \in DOMAIN acts : IsPendingAction(a, op)
    /\ Goto("rollback")
    /\ UNCHANGED <<storeVars, locals>>

\* Does not compare the probe with before.
SlipReconcileNeverRan(a, real) ==
    /\ pc = "reconcile"
    /\ IsPendingAction(a, op)
    /\ SetActionStatus(a, "skipped")
    /\ Goto("rollback")
    /\ UNCHANGED <<ops, locals>>

ReconcileNeverRan(a, real) ==
    /\ pc = "reconcile"
    /\ IsPendingAction(a, op)
    /\ real = acts[a].before
    /\ SetActionStatus(a, "skipped")
    /\ Goto("rollback")
    /\ UNCHANGED <<ops, locals>>

ReconcileApplied(a, real) ==
    /\ pc = "reconcile"
    /\ IsPendingAction(a, op)
    /\ real # acts[a].before
    /\ act' = a
    /\ probe' = real
    /\ Goto("synthesize")
    /\ UNCHANGED <<storeVars, cmd, profile, op, rec, seq, todo, tries>>

Synthesize(after, undo) ==
    /\ pc = "synthesize"
    /\ SetActionApplied(act, after, undo)
    /\ act' = 0
    /\ probe' = NoValue
    /\ Goto("rollback")
    /\ UNCHANGED <<ops, cmd, profile, op, rec, seq, todo, tries>>

\* probe or synthesize_undo returned Err (a script's always does).
ReconcileErr ==
    /\ \/ pc = "reconcile" /\ \E a \in DOMAIN acts : IsPendingAction(a, op)
       \/ pc = "synthesize"
    /\ Return("err")
    /\ UNCHANGED storeVars

-----------------------------------------------------------------------------
(* rollback *)

Rollback ==
    /\ pc = "rollback"
    /\ todo' = AppliedActions(op)
    /\ Goto("next_undo")
    /\ UNCHANGED <<storeVars, cmd, profile, op, rec, seq, probe, act, tries>>

\* Takes the actions in any order.
SlipNextUndoOrder(a) ==
    /\ pc = "next_undo"
    /\ a \in todo
    /\ act' = a
    /\ tries' = acts[a].attempts
    /\ Goto("undo")
    /\ UNCHANGED <<storeVars, cmd, profile, op, rec, seq, probe, todo>>

\* Counts the tries of this process only.
SlipNextUndoTries(a) ==
    /\ pc = "next_undo"
    /\ HighestSeq(a, todo)
    /\ act' = a
    /\ tries' = 0
    /\ Goto("undo")
    /\ UNCHANGED <<storeVars, cmd, profile, op, rec, seq, probe, todo>>

NextUndo(a) ==
    /\ pc = "next_undo"
    /\ HighestSeq(a, todo)
    /\ act' = a
    /\ tries' = acts[a].attempts
    /\ Goto("undo")
    /\ UNCHANGED <<storeVars, cmd, profile, op, rec, seq, probe, todo>>

RollbackDone ==
    /\ pc = "next_undo" /\ todo = {}
    /\ Goto("finalize")
    /\ UNCHANGED <<storeVars, locals>>

\* The loop is over for this action: status is what the log says of it.
Settle(status) ==
    /\ SetActionStatus(act, status)
    /\ todo' = todo \ {act}
    /\ act' = 0
    /\ tries' = 0
    /\ Goto("next_undo")
    /\ UNCHANGED <<ops, cmd, profile, op, rec, seq, probe>>

\* Writes the undo kind where the status goes.
SlipUndoneStatus(a) ==
    IF acts[a].undoKind = "one_way" THEN acts[a].undoKind ELSE "reverted"

UndoneStatus(a) ==
    IF acts[a].undoKind = "one_way" THEN "undo_skipped" ELSE "reverted"

UndoOk ==
    /\ pc = "undo" /\ tries < MaxUndoAttempts
    /\ Settle(UndoneStatus(act))

\* The row counts the failure, the loop does not.
SlipUndoErr ==
    /\ pc = "undo" /\ tries < MaxUndoAttempts
    /\ BumpUndoAttempt(act)
    /\ UNCHANGED <<ops, pc, ret, cmd, profile, op, rec, seq, probe, act, todo, tries>>

UndoErr ==
    /\ pc = "undo" /\ tries < MaxUndoAttempts
    /\ BumpUndoAttempt(act)
    /\ tries' = acts[act].attempts + 1
    /\ UNCHANGED <<ops, pc, ret, cmd, profile, op, rec, seq, probe, act, todo>>

\* Takes the action up again instead of going on to the rest.
SlipGiveUp ==
    /\ pc = "undo" /\ tries >= MaxUndoAttempts
    /\ SetActionStatus(act, "undo_failed")
    /\ Goto("next_undo")
    /\ UNCHANGED <<ops, cmd, profile, op, rec, seq, probe, act, todo, tries>>

GiveUp ==
    /\ pc = "undo" /\ tries >= MaxUndoAttempts
    /\ Settle("undo_failed")

-----------------------------------------------------------------------------
(* finalize_op, and what each caller does after it *)

\* Looks for stranded rows only.
SlipOutcome(statuses) ==
    IF "applied" \in statuses THEN "partially_reverted" ELSE "reverted"

Outcome(statuses) ==
    IF "undo_failed" \in statuses THEN "revert_failed"
    ELSE IF "applied" \in statuses THEN "partially_reverted"
    ELSE "reverted"

Finalize ==
    /\ pc = "finalize"
    /\ SetOpStatus(op, Outcome(ActionStatuses(op)))
    /\ Goto("cleanup")
    /\ UNCHANGED <<acts, locals>>

\* The backup directory of a reverted operation goes; the log does not change.
Cleanup ==
    /\ pc = "cleanup"
    /\ UNCHANGED storeVars
    /\ \/ cmd = "pull"    /\ Return("err")
       \/ cmd = "revert"  /\ Return("ok")
       \/ cmd = "recover" /\ Goto("mirror") /\ UNCHANGED locals

\* The outcome of op is copied to the recovery operation.
Mirror ==
    /\ pc = "mirror"
    /\ SetOpStatus(rec, ops[op].status)
    /\ Return("ok")
    /\ UNCHANGED acts

-----------------------------------------------------------------------------
Start ==
    \/ \E p \in Profiles : StartPull(p)
    \/ StartRevert
    \/ StartRecover

\* The steps whose result a handler or the registry decides.
HandlerStep ==
    \/ /\ pc = "item" /\ seq < Len(profile)
       /\ \E v \in ProbeValues[CurrentItem.handler] : ProbeItem(v)
    \/ ItemErr
    \/ PlanNone
    \/ /\ pc = "plan"
       /\ \E k \in PlannedUndoKinds(CurrentItem.handler) : PlanSome(k)
    \/ /\ pc = "apply"
       /\ \E v \in AfterValues[acts[act].handler], r \in Recipes : ApplyOk(v, r)
    \/ ApplyErr
    \/ \E a \in DOMAIN acts : \E v \in ProbeValues[acts[a].handler] :
           ReconcileNeverRan(a, v) \/ ReconcileApplied(a, v)
    \/ \E r \in Recipes : Synthesize(probe, r)
    \/ ReconcileErr
    \/ UndoOk
    \/ UndoErr

RebootStep ==
    \E signals \in SUBSET RebootSignals, readable \in BOOLEAN :
        \/ PreflightRefuses(signals, readable)
        \/ BeginPull(signals, readable)
        \/ GateClear(signals, readable)
        \/ GateAborts(signals, readable)

\* The steps that depend on the log alone.
LogStep ==
    \/ FinishPull
    \/ NothingToRevert
    \/ \E o \in DOMAIN ops : RevertLast(o)
    \/ NothingToRecover
    \/ \E o \in DOMAIN ops : BeginRecover(o)
    \/ NothingInFlight
    \/ Rollback
    \/ \E a \in DOMAIN acts : NextUndo(a)
    \/ RollbackDone
    \/ GiveUp
    \/ Finalize
    \/ Cleanup
    \/ Mirror

\* A running command takes its next step.
Run == HandlerStep \/ RebootStep \/ LogStep

Next == Start \/ Run \/ Crash \/ StoreErr

Spec == Init /\ [][Next]_vars

\* Every call of a handler and of the store returns, so a running command is
\* never stuck between two statements.  No user has to start one, and no store
\* call has to fail.
FairSpec == Spec /\ WF_vars(Run)

-----------------------------------------------------------------------------
(* Properties *)

Statuses(o) == {acts[a].status : a \in ActionsOf(o)}

\* What history says of an operation agrees with its actions, so no row that is
\* pending or applied belongs to an operation that recover and revert no longer
\* look at (finalize_op, reconcile's "silently strands it").
OutcomeHonest ==
    \A o \in DOMAIN ops :
        /\ ops[o].status = "applied" => Statuses(o) \cap {"pending", "failed"} = {}
        /\ ops[o].status \in {"reverted", "revert_failed"} =>
              Statuses(o) \cap {"pending", "applied"} = {}
        /\ ops[o].kind = "pull" =>
              (ops[o].status = "reverted" => "undo_failed" \notin Statuses(o))
        /\ ops[o].kind = "pull" =>
              (ops[o].status = "revert_failed" => "undo_failed" \in Statuses(o))

\* pending_action takes any one pending row (LIMIT 1), and recover looks at pending
\* operations only: both suffice because an operation has one intent in flight,
\* its latest row, and only while it is pending itself.  The seq values are distinct, as UNIQUE (op_id, seq) asks.
OneInFlight ==
    \A a \in DOMAIN acts :
        /\ \A b \in ActionsOf(acts[a].op) :
              /\ acts[b].seq = acts[a].seq => b = a
              /\ acts[a].status = "pending" => acts[b].seq <= acts[a].seq
        /\ acts[a].status = "pending" => ops[acts[a].op].status = "pending"

\* The retries of an undo are counted across crashes: never more recorded than
\* max_undo_attempts, and an action is given up only when they are used up.
RetriesBounded ==
    \A a \in DOMAIN acts :
        /\ acts[a].attempts <= MaxUndoAttempts
        /\ acts[a].status = "undo_failed" => acts[a].attempts = MaxUndoAttempts

\* A pull that reports success recorded every item of its profile, in order,
\* and each took effect or was satisfied already.
PullOkComplete ==
    [][(cmd = "pull" /\ ret # "ok" /\ ret' = "ok") =>
        /\ ops'[op].status = "applied"
        /\ \A i \in 1 .. Len(profile) : \E a \in ActionsOf(op) :
              /\ acts[a].seq = i - 1
              /\ acts[a].target = profile[i].target
              /\ acts[a].status \in {"applied", "skipped"}]_vars

\* A recover that reports success leaves the operation it found closed, its
\* own row closed with the same outcome, and nothing of it applied.
RecoverOkSettles ==
    [][(cmd = "recover" /\ op # 0 /\ ret # "ok" /\ ret' = "ok") =>
        /\ ops'[op].status \in {"reverted", "revert_failed"}
        /\ ops'[rec].status = ops'[op].status
        /\ Statuses(op) \cap {"pending", "applied"} = {}]_vars

\* Statements it takes to undo n actions: each is taken up, fails as often as it may, and
\* is given up.
UndoSteps(n) == n * (MaxUndoAttempts + 2)

\* The statements a command still has before it, at most.  An item costs a pull four,
\* and one more undo should a later item fail.
StepsLeft ==
    LET ahead   == Len(profile) - seq
        applied == Cardinality(AppliedActions(op))
    IN  CASE pc = "idle"       -> 0
          [] pc = "mirror"     -> 1
          [] pc = "cleanup"    -> 2
          [] pc = "finalize"   -> 3
          [] pc = "undo"       -> 3 + UndoSteps(Cardinality(todo)) - tries
          [] pc = "next_undo"  -> 4 + UndoSteps(Cardinality(todo))
          [] pc = "rollback"   -> 5 + UndoSteps(applied)
          [] pc = "synthesize" -> 6 + UndoSteps(applied + 1)
          [] pc = "reconcile"  -> 7 + UndoSteps(applied + 1)
          [] pc \in {"last_applied", "unfinished"} -> 8 + UndoSteps(Len(acts) + 1)
          [] pc = "gate"       -> 3 + 4 * ahead + UndoSteps(ahead - 1 + applied)
          [] pc = "apply"      -> 4 + 4 * ahead + UndoSteps(ahead + applied)
          [] pc = "plan"       -> 5 + 4 * ahead + UndoSteps(ahead + applied)
          [] pc = "item"       -> 6 + 4 * ahead + UndoSteps(ahead + applied)
          [] pc = "preflight"  -> 7 + 4 * ahead + UndoSteps(ahead)

\* Every statement brings its command nearer to the end, whatever the handlers answer and
\* however the crashes before it left the log: a pull of n items is over after at most
\* 7 + 4n + UndoSteps(n) statements (the bounded retry loop of rollback).
CommandsWindDown == [][pc # "idle" => 0 <= StepsLeft' /\ StepsLeft' < StepsLeft]_vars

\* Rollback with an undo that keeps failing never loops forever: every command
\* that starts comes to an end.
CommandsReturn == pc # "idle" ~> pc = "idle"

\* The log behaves as Ledger allows.
Log == INSTANCE Ledger
LogSpec == Log!Spec

\* The comment on pull: "either it fully applies, or it rolls back to clean and
\* returns the error".  A pull that returns an error leaves nothing applied.
PullAtomic ==
    [][(cmd = "pull" /\ op # 0 /\ ret # "err" /\ ret' = "err") =>
        "applied" \notin Statuses(op)]_vars
=============================================================================
