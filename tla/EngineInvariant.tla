-------------------------- MODULE EngineInvariant --------------------------
(***************************************************************************)
(* The inductive invariant of Engine.  OutcomeHonest, OneInFlight and      *)
(* RetriesBounded speak of the log at rest; to be kept by every step they  *)
(* need what the process knows of the log at each label: which operation   *)
(* it holds and in what status, that the row a handler works on is the one *)
(* intent in flight, and that rollback's list is exactly what is applied.  *)
(***************************************************************************)
EXTENDS Engine

\* Labels before the command has an operation.
NoOpYet == {"idle", "preflight", "last_applied", "unfinished"}

\* Labels of the loop of pull.
Pulling == {"item", "plan", "apply", "gate"}

\* What every label says of the locals; with TypeOK, inductive by itself.
Control ==
    /\ pc = "idle" <=> cmd = "none"
    /\ pc \in {"preflight"} \cup Pulling => cmd = "pull"
    /\ pc = "last_applied" => cmd = "revert"
    /\ pc \in {"unfinished", "reconcile", "synthesize", "mirror"} => cmd = "recover"
    /\ pc \in NoOpYet <=> op = 0
    /\ op # 0 => op \in DOMAIN ops
    /\ pc \in {"apply", "synthesize", "undo"} <=> act # 0
    /\ act # 0 => act \in DOMAIN acts /\ acts[act].op = op
    /\ pc \in {"plan", "synthesize"} => probe \in Values
    /\ pc \in {"plan", "apply", "gate"} => seq < Len(profile)
    /\ pc = "item" => seq <= Len(profile)
    /\ op # 0 /\ cmd = "recover" => rec \in DOMAIN ops
    /\ pc \in NoOpYet => seq = 0
    /\ pc \in {"next_undo", "undo"} => todo \subseteq ActionsOf(op)

TypeInv == TypeOK /\ Control

\* Every action belongs to a pull.
RowsRefer ==
    \A a \in DOMAIN acts : acts[a].op \in DOMAIN ops /\ ops[acts[a].op].kind = "pull"

\* Ids and seq agree within an operation, and an intent is its latest row.
RowsOrdered ==
    \A a, b \in DOMAIN acts : acts[a].op = acts[b].op =>
        /\ a < b => acts[a].seq < acts[b].seq
        /\ acts[a].status = "pending" => b <= a

\* Only an unfinished operation has an intent.
IntentsOpen ==
    \A a \in DOMAIN acts : acts[a].status = "pending" => ops[acts[a].op].status = "pending"

\* The operation in hand has the status its command found or gave it.
OpInHand ==
    op # 0 =>
        /\ pc \in {"cleanup", "mirror"} => ops[op].status \in {"reverted", "revert_failed"}
        /\ pc \notin {"cleanup", "mirror"} =>
              ops[op].status = (IF cmd = "revert" THEN "applied" ELSE "pending")
        /\ cmd # "recover" => ops[op].kind = "pull"
        /\ cmd = "recover" =>
              rec # op /\ ops[rec] = [kind |-> "recover", parent |-> op, status |-> "pending"]

\* The row in hand is the intent in flight, or the next to be undone.
RowInHand ==
    /\ pc \in {"apply", "synthesize"} =>
          /\ acts[act].status = "pending"
          /\ \A a \in ActionsOf(op) : acts[a].status = "pending" => a = act
    /\ pc = "undo" =>
          HighestSeq(act, todo) /\ tries = acts[act].attempts
    /\ op # 0 /\ pc \notin {"apply", "reconcile", "synthesize"} =>
          \A a \in ActionsOf(op) : acts[a].status # "pending"

\* rollback's list is what is still applied.
ListInHand ==
    /\ pc \in {"next_undo", "undo"} => todo = AppliedActions(op)
    /\ pc \in {"finalize", "cleanup", "mirror"} => AppliedActions(op) = {}

\* Items of the profile the pull has been through.
Recorded == IF pc = "gate" THEN seq + 1 ELSE seq

\* The rows of a pull so far are those of its first items.
PullInHand ==
    pc \in Pulling =>
        /\ \A a \in ActionsOf(op) :
              /\ acts[a].status \in {"pending", "applied", "skipped"}
              /\ acts[a].seq <= seq
              /\ pc \in {"item", "plan"} => acts[a].seq < seq
        /\ pc = "apply" => acts[act].seq = seq /\ acts[act].target = CurrentItem.target
        /\ \A i \in 1 .. Recorded : \E a \in ActionsOf(op) :
              /\ acts[a].seq = i - 1
              /\ acts[a].target = profile[i].target
              /\ acts[a].status \in {"applied", "skipped"}

\* What holds of the log, whoever holds the lock.
LogInv ==
    /\ RowsRefer
    /\ RowsOrdered
    /\ IntentsOpen
    /\ OutcomeHonest
    /\ RetriesBounded

\* What the lock holder knows of the log.
HandInv ==
    /\ OpInHand
    /\ RowInHand
    /\ ListInHand
    /\ PullInHand

\* The inductive invariant: each part needs the others to survive a step.  It
\* says that the engine's picture of the log is right at every statement.
IInv == TypeInv /\ LogInv /\ HandInv
=============================================================================
