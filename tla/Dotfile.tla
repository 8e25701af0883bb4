------------------------------- MODULE Dotfile -------------------------------
(***************************************************************************)
(* DotfileHandler (handlers/dotfile.rs): the steps of its calls on the     *)
(* files of the machine.  A file's bytes are one value, and a sha256 is    *)
(* the value itself: two contents never share a digest.  A target is the   *)
(* path that expand makes of it, so "~/x" and "$HOME/x" are one target.    *)
(***************************************************************************)
CONSTANTS
    Absent,         \* a file that does not exist; also the probe {"exists": false}
    NoRecipe,
    UnsafeTargets   \* paths with a ".." component or an unexpanded variable

VARIABLES
    files,      \* content of every target path
    sources,    \* content of every file of the profile's box
    backups,    \* backups[op][target]: the copy under backups/<op>/, or Absent
    call        \* the handler call in progress: [step, desired, undo]

Delete       == [do |-> "delete"]
Restore(sha) == [do |-> "restore", sha |-> sha]
Noop         == [do |-> "noop"]

\* The temporary file beside path, which a crash may leave there, is not part of f:
\* the rename puts all the bytes at path or none.
AtomicWrite(f, path, bytes) == [f EXCEPT ![path] = bytes]

Unreadable(item) == sources[item.src] = Absent

\* plan: Ok(None) when the target already is what the source says.
Satisfied(item, probe) == probe = sources[item.src]

\* reject_unsafe_target, which plan asks after Satisfied.
Unsafe(item) == item.target \in UnsafeTargets

\* A payload without the digest.
SlipPlanned(item) == [step |-> "start", desired |-> NoRecipe, undo |-> NoRecipe]

\* plan's payload carries the digest of the source it read.
Planned(item) == [step |-> "start", desired |-> sources[item.src], undo |-> NoRecipe]

-----------------------------------------------------------------------------
(* apply *)

\* The target is overwritten before the copy is taken.
SlipBackUp(o, t) ==
    /\ call.step = "start"
    /\ files[t] # Absent
    /\ call' = [call EXCEPT !.step = "backed_up", !.undo = Restore(files[t])]
    /\ files' = [files EXCEPT ![t] = call.desired]
    /\ backups' = [backups EXCEPT ![o][t] = call.desired]
    /\ UNCHANGED sources

\* An existing target is copied first; the recipe remembers the copy's digest.
BackUp(o, t) ==
    /\ call.step = "start"
    /\ files[t] # Absent
    /\ backups' = [backups EXCEPT ![o] = AtomicWrite(@, t, files[t])]
    /\ call' = [call EXCEPT !.step = "backed_up", !.undo = Restore(files[t])]
    /\ UNCHANGED <<files, sources>>

NothingToBackUp(t) ==
    /\ call.step = "start"
    /\ files[t] = Absent
    /\ call' = [call EXCEPT !.step = "backed_up", !.undo = Delete]
    /\ UNCHANGED <<files, sources, backups>>

\* The source is read again, and replaces the target.
Write(item) ==
    /\ call.step = "backed_up"
    /\ ~Unreadable(item)
    /\ files' = AtomicWrite(files, item.target, sources[item.src])
    /\ call' = [call EXCEPT !.step = "written"]
    /\ UNCHANGED <<sources, backups>>

\* The target read back is what plan wanted.
Confirmed(t) == call.step = "written" /\ files[t] = call.desired

-----------------------------------------------------------------------------
(* undo *)

\* The copy is there and has the digest recorded: nothing else is restored.
Intact(o, t, undo) == backups[o][t] = undo.sha

UndoDelete(t, undo) ==
    /\ call.step = "start"
    /\ undo.do = "delete"
    /\ files' = [files EXCEPT ![t] = Absent]
    /\ call' = [call EXCEPT !.step = "undone"]
    /\ UNCHANGED <<sources, backups>>

UndoRestore(o, t, undo) ==
    /\ call.step = "start"
    /\ undo.do = "restore" /\ Intact(o, t, undo)
    /\ files' = AtomicWrite(files, t, backups[o][t])
    /\ call' = [call EXCEPT !.step = "undone"]
    /\ UNCHANGED <<sources, backups>>

Undone(undo) == call.step = "undone" \/ undo.do = "noop"

-----------------------------------------------------------------------------
\* Deletes a file that was there before.
SlipSynthesized(before) == Delete

\* What synthesize_undo makes of an action that took effect before a crash.
Synthesized(before) == IF before = Absent THEN Delete ELSE Noop

\* finalize_op removes backups/<op> and ignores an error.
RemoveBackups(o) ==
    /\ backups' \in {backups, [backups EXCEPT ![o] = [t \in DOMAIN @ |-> Absent]]}
    /\ UNCHANGED <<files, sources, call>>
=============================================================================
