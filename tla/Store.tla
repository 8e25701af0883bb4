------------------------------- MODULE Store -------------------------------
(***************************************************************************)
(* The operation log of store.rs: the rows of the tables operations and    *)
(* actions (migrations/0001_init.sql) and the methods of the StateStore    *)
(* trait as SqliteStore implements them.  Every method is one autocommit   *)
(* statement of a database that survives a crash, so each is one step of   *)
(* the process that calls it.  An id is the position of its row: rows are  *)
(* never deleted, and a rowid is one more than the largest.                *)
(*                                                                         *)
(* Left out: profile name and hash, timestamps, the version column and the *)
(* text of undo_error.  None is read back by the engine.                   *)
(***************************************************************************)
EXTENDS Naturals, Sequences

CONSTANTS
    Targets,    \* package ids, dotfile paths and script commands
    Values,     \* the JSON a probe returns, as stored in before and after
    Recipes,    \* the JSON undo recipes apply and synthesize_undo return
    NoValue,    \* a NULL after_json
    NoRecipe    \* the "{}" an action row is inserted with

VARIABLES
    ops,        \* operations: [kind, parent, status], parent 0 when NULL
    acts        \* actions: [op, seq, handler, target, status, before, after,
                \*           undoKind, undo, attempts]

storeVars == <<ops, acts>>

HandlerKind  == {"winget", "dotfile", "script"}
UndoKind     == {"inverse", "best_effort", "one_way", "noop"}
ActionStatus == {"pending", "applied", "failed", "reverted", "skipped",
                 "undo_failed", "undo_skipped"}
OpStatus     == {"pending", "applied", "failed", "reverted",
                 "partially_reverted", "revert_failed"}
OpKind       == {"pull", "revert", "recover"}

Operation == [kind : OpKind, parent : Nat, status : OpStatus]
Action    == [op : Nat, seq : Nat, handler : HandlerKind, target : Targets,
              status : ActionStatus, before : Values,
              after : Values \cup {NoValue}, undoKind : UndoKind,
              undo : Recipes \cup {NoRecipe}, attempts : Nat]

StoreTypeOK ==
    /\ ops \in Seq(Operation)
    /\ acts \in Seq(Action)

StoreInit ==
    /\ ops = <<>>
    /\ acts = <<>>

-----------------------------------------------------------------------------
(* Statements that write. *)

BeginOp(kind, parent) ==
    ops' = Append(ops, [kind |-> kind, parent |-> parent, status |-> "pending"])

SetOpStatus(o, status) ==
    ops' = [ops EXCEPT ![o].status = status]

InsertAction(o, seq, handler, target, before, undoKind, status) ==
    acts' = Append(acts,
        [op |-> o, seq |-> seq, handler |-> handler, target |-> target,
         status |-> status, before |-> before, after |-> NoValue,
         undoKind |-> undoKind, undo |-> NoRecipe, attempts |-> 0])

SetActionApplied(a, after, undo) ==
    acts' = [acts EXCEPT ![a].status = "applied",
                         ![a].after  = after,
                         ![a].undo   = undo]

SetActionStatus(a, status) ==
    acts' = [acts EXCEPT ![a].status = status]

BumpUndoAttempt(a) ==
    acts' = [acts EXCEPT ![a].attempts = @ + 1]

-----------------------------------------------------------------------------
(* Queries.  A list the code orders is the set of its ids; the caller takes *)
(* them in the query's order with HighestSeq.                               *)

ActionsOf(o) == {a \in DOMAIN acts : acts[a].op = o}

AppliedActions(o) == {a \in ActionsOf(o) : acts[a].status = "applied"}

\* The head of applied_actions_desc (ORDER BY seq DESC) among the ids left.
HighestSeq(a, ids) == a \in ids /\ \A b \in ids : acts[b].seq <= acts[a].seq

IsPendingAction(a, o) == a \in ActionsOf(o) /\ acts[a].status = "pending"

ActionStatuses(o) == {acts[a].status : a \in ActionsOf(o)}

\* Oldest operation of any kind that is still pending.
IsUnfinishedOp(o) ==
    /\ o \in DOMAIN ops
    /\ ops[o].status = "pending"
    /\ \A p \in DOMAIN ops : ops[p].status = "pending" => o <= p

NoUnfinishedOp == \A o \in DOMAIN ops : ops[o].status # "pending"

AppliedPull(o) == o \in DOMAIN ops /\ ops[o].kind = "pull" /\ ops[o].status = "applied"

\* Newest pull whose status is applied.
IsLastAppliedOp(o) == AppliedPull(o) /\ \A p \in DOMAIN ops : AppliedPull(p) => p <= o

NoAppliedOp == \A o \in DOMAIN ops : ~AppliedPull(o)
=============================================================================
