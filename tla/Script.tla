------------------------------- MODULE Script -------------------------------
(***************************************************************************)
(* ScriptHandler (handlers/script.rs).  A script runs in a session of its  *)
(* own; what it does to the machine is one bit, `done`.  It may exit       *)
(* having done its work or not, and the handler does not tell the two      *)
(* apart: any exit is Ok, and only the timeout, which kills the process    *)
(* group, is an error.  Children a script leaves behind when it exits in   *)
(* time are nobody's business here; ScriptRunner.tla has them.             *)
(***************************************************************************)
VARIABLES
    done,           \* scripts whose effect is on the machine
    running,        \* processes: [script, way, owner]
    call            \* the handler call in progress

RunUndo == [do |-> "run_undo"]
OneWay  == [do |-> "one_way"]

\* A script without an undo is taken for one with nothing to undo.
SlipPlannedKind(item) == IF item.undo THEN "inverse" ELSE "noop"

\* plan: a blank undo counts as none.
PlannedKind(item) == IF item.undo THEN "inverse" ELSE "one_way"
Recipe(undoKind)  == IF undoKind = "inverse" THEN RunUndo ELSE OneWay

Owned == {p \in running : p.owner = "engine"}

\* done after the script or its undo script did its work.
Effect(p) == IF p.way = "run" THEN done \cup {p.script} ELSE done \ {p.script}

-----------------------------------------------------------------------------
Spawn(s, way) ==
    /\ call.step = "start"
    /\ running' = running \cup {[script |-> s, way |-> way, owner |-> "engine"]}
    /\ call' = [call EXCEPT !.step = "spawned"]
    /\ UNCHANGED done

\* A process ends on its own, whoever still waits for it.
Exit(p) ==
    /\ running' = running \ {p}
    /\ done' \in {done, Effect(p)}
    /\ UNCHANGED call

\* wait() returned before the timeout.
Exited == call.step = "spawned" /\ Owned = {}

\* The timeout gives up on the script and leaves it running.
SlipKill ==
    /\ call.step = "spawned"
    /\ UNCHANGED <<running, done>>

\* The timeout elapsed: the group is killed, after some of its work or all.
\* A script that ends at that very moment has timed out all the same.
Kill ==
    /\ call.step = "spawned"
    /\ running' = running \ Owned
    /\ done' \in {done} \cup {Effect(p) : p \in Owned}

\* The engine dies.  A script is in its own session and lives on, unless the
\* whole machine went down.
Orphan ==
    /\ running' \in {{}, {[p EXCEPT !.owner = "nobody"] : p \in running}}
    /\ UNCHANGED done

-----------------------------------------------------------------------------
(* One call after the other, as the engine makes them: what ScriptRunner, the *)
(* call at the level of its threads, is shown to implement.                  *)

Over == call' = [call EXCEPT !.step = "start"]

CallNext(scripts) ==
    \/ \E s \in scripts, way \in {"run", "undo"} : Spawn(s, way)
    \/ \E p \in running : Exit(p)
    \/ Exited /\ Over /\ UNCHANGED <<done, running>>
    \/ Kill /\ Over
    \/ Orphan /\ Over

CallInit == done = {} /\ running = {} /\ call.step = "start"
callVars == <<done, running, call>>
=============================================================================
