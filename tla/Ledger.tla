------------------------------- MODULE Ledger -------------------------------
(***************************************************************************)
(* What the operation log promises a reader of history, whatever the       *)
(* engine, the handlers and the crashes do: the life of a row.  Engine     *)
(* implements it with the log itself as the refinement mapping.            *)
(*                                                                         *)
(*   - rows are appended and keep what they recorded of the past;          *)
(*   - an intent is recorded before its outcome, one intent at a time;     *)
(*   - an operation undoes its actions in the reverse of the order in      *)
(*     which it recorded them, and gives one up only after its last try;   *)
(*   - an operation is closed with a status its actions agree with, and a  *)
(*     closed operation is never reopened.                                 *)
(***************************************************************************)
EXTENDS Store

CONSTANT MaxUndoAttempts

Unsettled(o) == {a \in ActionsOf(o) : acts[a].status \in {"pending", "applied"}}

\* An operation that undo has not touched and that has not failed.
Advancing(o) ==
    \A a \in ActionsOf(o) : acts[a].status \in {"pending", "applied", "skipped"}

InFlight(o) == {a \in ActionsOf(o) : acts[a].status = "pending"}

-----------------------------------------------------------------------------
Open == \E kind \in {"pull", "recover"}, parent \in 0 .. Len(ops) :
    /\ parent = 0 <=> kind = "pull"
    /\ BeginOp(kind, parent)
    /\ UNCHANGED acts

\* An item's row: satisfied already, or an intent.
Record(o) ==
    /\ ops[o].kind = "pull" /\ ops[o].status = "pending"
    /\ Advancing(o) /\ InFlight(o) = {}
    /\ \E seq \in {0} \cup {acts[a].seq + 1 : a \in ActionsOf(o)},
          handler \in HandlerKind, target \in Targets, before \in Values,
          undoKind \in UndoKind, status \in {"pending", "skipped"} :
        /\ \A a \in ActionsOf(o) : acts[a].seq < seq
        /\ (undoKind = "noop") <=> (status = "skipped")
        /\ InsertAction(o, seq, handler, target, before, undoKind, status)
    /\ UNCHANGED ops

\* The outcome of an intent: applied, failed, or never ran.
Conclude(a) ==
    /\ acts[a].status = "pending"
    /\ ops[acts[a].op].status = "pending"
    /\ \/ SetActionStatus(a, "failed")
       \/ SetActionStatus(a, "skipped")
       \/ \E after \in Values, undo \in Recipes : SetActionApplied(a, after, undo)
    /\ UNCHANGED ops

\* One more undo failed.
Retry(a) ==
    /\ acts[a].status = "applied" /\ acts[a].attempts < MaxUndoAttempts
    /\ BumpUndoAttempt(a)
    /\ UNCHANGED ops

Undo(a) ==
    /\ acts[a].status = "applied"
    /\ ops[acts[a].op].status \in {"pending", "applied"}
    /\ HighestSeq(a, Unsettled(acts[a].op))
    /\ \/ acts[a].undoKind = "one_way" /\ SetActionStatus(a, "undo_skipped")
       \/ acts[a].undoKind # "one_way" /\ SetActionStatus(a, "reverted")
       \/ acts[a].attempts >= MaxUndoAttempts /\ SetActionStatus(a, "undo_failed")
    /\ UNCHANGED ops

\* Every item of a pull took effect.
CloseApplied(o) ==
    /\ ops[o].kind = "pull" /\ ops[o].status = "pending"
    /\ Advancing(o) /\ InFlight(o) = {}
    /\ SetOpStatus(o, "applied")
    /\ UNCHANGED acts

\* Nothing of o is left applied or in flight.  A recovery has no actions.
CloseReverted(o) ==
    /\ ops[o].status \in {"pending", "applied"}
    /\ Unsettled(o) = {}
    /\ SetOpStatus(o, IF "undo_failed" \in ActionStatuses(o) THEN "revert_failed"
                                                             ELSE "reverted")
    /\ UNCHANGED acts

\* A recovery that ends takes the outcome of the operation it recovered.
CloseRecovery(o) ==
    /\ ops[o].kind = "recover" /\ ops[o].status = "pending"
    /\ ops[ops[o].parent].status \in {"reverted", "revert_failed"}
    /\ SetOpStatus(o, ops[ops[o].parent].status)
    /\ UNCHANGED acts

Next ==
    \/ Open
    \/ \E o \in DOMAIN ops : Record(o) \/ CloseApplied(o) \/ CloseReverted(o) \/ CloseRecovery(o)
    \/ \E a \in DOMAIN acts : Conclude(a) \/ Retry(a) \/ Undo(a)

Spec == StoreInit /\ [][Next]_storeVars
=============================================================================
