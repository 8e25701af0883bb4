----------------------------- MODULE Candylane -----------------------------
(***************************************************************************)
(* The program on a machine: Engine with the three handlers behind its     *)
(* HandlerRegistry.  Each action is an action of Engine whose open choice  *)
(* a handler makes, or one step of a handler call, which Engine does not   *)
(* see.  The user edits targets and packages only while no command runs,   *)
(* and the source files of the box at any time.                            *)
(***************************************************************************)
EXTENDS Engine, FiniteSets

CONSTANTS
    Absent,         \* no file, no package
    Null,           \* the probe of a script
    Ran,            \* the after-state of a script
    Offers,         \* the versions winget may install
    Upgrade,        \* a version, or content, of the user's own
    InitialFiles, InitialSources, InitialPackages,
    UnsafeTargets,  \* Dotfile
    MaxEdits        \* bound: changes the user makes by hand

VARIABLES
    files, sources, backups,    \* Dotfile
    packages, wingets, strays,  \* Winget
    done, running,              \* Script
    call,                       \* the handler call in progress
    edits                       \* what the user has changed: targets, sources, packages

D == INSTANCE Dotfile
W == INSTANCE Winget WITH NotInstalled <- Absent, NoVersion <- Null
S == INSTANCE Script

\* What a handler stores and finds are values of its kind; an item names a file, a
\* source or a package of the machine; a profile ends in its scripts (profile.rs).
ASSUME MachineAssumption ==
    /\ InitialFiles \in [DOMAIN InitialFiles -> ProbeValues["dotfile"]]
    /\ InitialSources \in [DOMAIN InitialSources -> ProbeValues["dotfile"]]
    /\ InitialPackages \in [DOMAIN InitialPackages -> ProbeValues["winget"]]
    /\ {Absent, Upgrade} \subseteq ProbeValues["dotfile"]
    /\ {Absent, Upgrade} \cup Offers \subseteq ProbeValues["winget"] /\ Absent \notin Offers
    /\ Null \in ProbeValues["script"] /\ Ran \in AfterValues["script"]
    /\ \A h \in {"dotfile", "winget"} : ProbeValues[h] \subseteq AfterValues[h]
    /\ {D!Delete, D!Noop, S!RunUndo, S!OneWay} \subseteq Recipes
    /\ \A c \in ProbeValues["dotfile"] : D!Restore(c) \in Recipes
    /\ [do : {"uninstall"}, wasPresent : BOOLEAN] \subseteq Recipes
    /\ DOMAIN InitialPackages \cap W!Words = {}

ASSUME ItemsOnMachine ==
    \A i \in Items :
        /\ i.handler = "dotfile" => i.target \in DOMAIN InitialFiles /\ i.src \in DOMAIN InitialSources
        /\ i.handler = "winget"  => i.target \in DOMAIN InitialPackages
        /\ i.handler = "script"  => i.undo \in BOOLEAN

ASSUME ScriptsLast ==
    \A p \in Profiles : \A i, j \in DOMAIN p :
        (i < j /\ p[i].handler = "script") => p[j].handler = "script"

diskVars    == <<files, sources, backups>>
packageVars == <<packages, wingets, strays>>
scriptVars  == <<done, running>>
machine     == <<diskVars, packageVars, scriptVars>>
allVars     == <<vars, machine, call, edits>>

NoCall == [step |-> "start", desired |-> Absent, undo |-> NoRecipe]

MachineInit ==
    /\ files = InitialFiles
    /\ sources = InitialSources
    /\ backups = [o \in 1 .. MaxOps |-> [t \in DOMAIN InitialFiles |-> Absent]]
    /\ packages = InitialPackages /\ wingets = {} /\ strays = {}
    /\ done = {} /\ running = {}
    /\ call = NoCall
    /\ edits = {}

CandylaneInit == Init /\ MachineInit

-----------------------------------------------------------------------------
(* HandlerRegistry.get and the probe of each handler *)

Probe(handler, t) ==
    CASE handler = "dotfile" -> files[t]
      [] handler = "winget"  -> W!Probe(t)
      [] handler = "script"  -> Null

\* The row the handler works on, and whose call it is.
Row == acts[act]
Calling(label, handler) == pc = label /\ Row.handler = handler

ItemOf(label, handler) == pc = label /\ seq < Len(profile) /\ CurrentItem.handler = handler

\* A handler call returns to the engine.
Returned == call' = NoCall /\ UNCHANGED <<machine, edits>>

\* A handler call goes on.
Inside(untouched) == UNCHANGED <<vars, edits, untouched>>

-----------------------------------------------------------------------------
(* probe and plan *)

CallProbe ==
    /\ pc = "item" /\ seq < Len(profile)
    /\ ProbeItem(Probe(CurrentItem.handler, CurrentItem.target))
    /\ Returned

\* An unreadable target, or a winget that does not run.
ProbeErr == pc = "item" /\ ~ItemOf("item", "script") /\ ItemErr /\ Returned

PlanUnreadable ==
    ItemOf("plan", "dotfile") /\ D!Unreadable(CurrentItem) /\ ItemErr /\ Returned

PlanUnsafe ==
    /\ ItemOf("plan", "dotfile")
    /\ ~D!Unreadable(CurrentItem) /\ ~D!Satisfied(CurrentItem, probe)
    /\ D!Unsafe(CurrentItem)
    /\ ItemErr
    /\ Returned

PlanSatisfied ==
    /\ \/ /\ ItemOf("plan", "dotfile")
          /\ ~D!Unreadable(CurrentItem) /\ D!Satisfied(CurrentItem, probe)
       \/ ItemOf("plan", "winget") /\ W!Installed(probe)
    /\ PlanNone
    /\ Returned

PlanDotfile ==
    /\ ItemOf("plan", "dotfile")
    /\ ~D!Unreadable(CurrentItem) /\ ~D!Satisfied(CurrentItem, probe)
    /\ ~D!Unsafe(CurrentItem)
    /\ PlanSome("inverse")
    /\ call' = D!Planned(CurrentItem)
    /\ UNCHANGED <<machine, edits>>

PlanWinget ==
    ItemOf("plan", "winget") /\ ~W!Installed(probe) /\ PlanSome("best_effort") /\ Returned

PlanScript ==
    ItemOf("plan", "script") /\ PlanSome(S!PlannedKind(CurrentItem)) /\ Returned

-----------------------------------------------------------------------------
(* apply *)

DotfileBacksUp ==
    /\ Calling("apply", "dotfile")
    /\ D!BackUp(op, Row.target) \/ D!NothingToBackUp(Row.target)
    /\ Inside(<<packageVars, scriptVars>>)

DotfileWrites ==
    /\ Calling("apply", "dotfile")
    /\ D!Write(CurrentItem)
    /\ Inside(<<packageVars, scriptVars>>)

DotfileApplied ==
    /\ Calling("apply", "dotfile") /\ D!Confirmed(Row.target)
    /\ ApplyOk(call.desired, call.undo)
    /\ Returned

WingetInstalls ==
    /\ Calling("apply", "winget")
    /\ W!Install(Row.target)
    /\ Inside(<<diskVars, scriptVars>>)

WingetApplied ==
    /\ Calling("apply", "winget") /\ W!Confirmed(Row.target)
    /\ ApplyOk(W!Probe(Row.target), W!Uninstall(Row.before))
    /\ Returned

ScriptSpawns ==
    /\ Calling("apply", "script")
    /\ S!Spawn(Row.target, "run")
    /\ Inside(<<diskVars, packageVars>>)

ScriptApplied ==
    /\ Calling("apply", "script") /\ S!Exited
    /\ ApplyOk(Ran, S!Recipe(Row.undoKind))
    /\ Returned

ScriptTimesOut ==
    /\ Calling("apply", "script")
    /\ S!Kill
    /\ ApplyErr
    /\ call' = NoCall
    /\ UNCHANGED <<diskVars, packageVars, edits>>

\* A read, a write, winget or the spawn failed, or the confirmation did not
\* hold, at whatever step the call had reached.
ApplyFails ==
    /\ pc = "apply"
    /\ Row.handler = "script" => call.step = "start"
    /\ W!Owned = {}
    /\ ApplyErr
    /\ Returned

-----------------------------------------------------------------------------
(* undo *)

\* rollback calls undo only while tries are left.
Undoing(handler) == Calling("undo", handler) /\ tries < MaxUndoAttempts

DotfileUndoes ==
    /\ Undoing("dotfile")
    /\ D!UndoDelete(Row.target, Row.undo) \/ D!UndoRestore(op, Row.target, Row.undo)
    /\ Inside(<<packageVars, scriptVars>>)

DotfileUndone == Undoing("dotfile") /\ D!Undone(Row.undo) /\ UndoOk /\ Returned

WingetRemoves ==
    /\ Undoing("winget")
    /\ W!Remove(Row.target, Row.undo)
    /\ Inside(<<diskVars, scriptVars>>)

WingetUndone ==
    /\ Undoing("winget")
    /\ W!NothingToRemove(Row.target, Row.undo) \/ W!Removed(Row.target)
    /\ UndoOk
    /\ Returned

ScriptUndoSpawns ==
    /\ Undoing("script") /\ Row.undo = S!RunUndo
    /\ S!Spawn(Row.target, "undo")
    /\ Inside(<<diskVars, packageVars>>)

ScriptUndone ==
    /\ Undoing("script")
    /\ Row.undo = S!OneWay \/ S!Exited
    /\ UndoOk
    /\ Returned

ScriptUndoTimesOut ==
    /\ Undoing("script")
    /\ S!Kill
    /\ UndoErr
    /\ call' = NoCall
    /\ UNCHANGED <<diskVars, packageVars, edits>>

\* What the call needs cannot be read, written, run or confirmed.  A recipe
\* with nothing to do does not fail, and neither does a dotfile undone.
UndoFails ==
    /\ pc = "undo"
    /\ CASE Row.handler = "dotfile" ->
              /\ call.step = "start" /\ Row.undo.do # "noop"
              /\ Row.undo.do = "delete" => files[Row.target] # Absent
         [] Row.handler = "winget"  -> ~Row.undo.wasPresent /\ W!Owned = {}
         [] Row.handler = "script"  -> call.step = "start" /\ Row.undo = S!RunUndo
    /\ UndoErr
    /\ Returned

-----------------------------------------------------------------------------
(* reconcile *)

InFlightRow(a) == pc = "reconcile" /\ IsPendingAction(a, op)

ReconcileCall(a) ==
    /\ InFlightRow(a)
    /\ LET real == Probe(acts[a].handler, acts[a].target)
       IN  ReconcileNeverRan(a, real) \/ ReconcileApplied(a, real)
    /\ Returned

ReconcileProbeErr ==
    /\ \E a \in DOMAIN acts : InFlightRow(a) /\ acts[a].handler # "script"
    /\ ReconcileErr
    /\ Returned

SynthesizeDotfile ==
    /\ Calling("synthesize", "dotfile")
    /\ Synthesize(probe, D!Synthesized(Row.before))
    /\ Returned

SynthesizeWinget ==
    /\ Calling("synthesize", "winget")
    /\ Synthesize(probe, W!Uninstall(Row.before))
    /\ Returned

-----------------------------------------------------------------------------
(* The rest of the engine, the end of the process, and what else happens. *)

\* Backups go with every rollback.
SlipRemoveBackups == D!RemoveBackups(op)

\* Backups go only with a clean revert.
RemoveBackups ==
    IF ops[op].status = "reverted" THEN D!RemoveBackups(op) ELSE UNCHANGED <<diskVars, call>>

CleanUp == Cleanup /\ RemoveBackups /\ UNCHANGED <<packageVars, scriptVars, edits>>

\* A log step other than Cleanup.
EngineStep == (RebootStep \/ LogStep) /\ pc # "cleanup" /\ Returned

Commands == Start /\ UNCHANGED <<machine, call, edits>>

Crashes ==
    /\ Crash
    /\ S!Orphan /\ W!Orphan
    /\ call' = NoCall
    /\ UNCHANGED <<diskVars, edits>>

\* A handler that waits for a process has not come to its log.
StoreErrs == StoreErr /\ S!Owned = {} /\ W!Owned = {} /\ Returned

ScriptExits ==
    \E p \in running : S!Exit(p) /\ Inside(<<diskVars, packageVars>>)

\* An install of p that lands now has a row in flight, which the handler or reconcile
\* will compare with what is there.
Told(p) ==
    /\ packages[p] = Absent
    /\ \E a \in DOMAIN acts :
          acts[a].handler = "winget" /\ acts[a].target = p /\ acts[a].status = "pending"

WingetExits ==
    \E w \in wingets : W!Exit(w, Told(w.pkg)) /\ Inside(<<diskVars, scriptVars>>)

\* The user gives a file, a source or a package another content, or removes it.
Edits(thing) ==
    /\ thing \notin edits /\ Cardinality(edits) < MaxEdits
    /\ edits' = edits \cup {thing}
    /\ UNCHANGED <<vars, call>>

EditFile(t) ==
    /\ pc = "idle" /\ Edits(t)
    /\ \E c \in {Absent, Upgrade} \ {files[t]} : files' = [files EXCEPT ![t] = c]
    /\ UNCHANGED <<sources, backups, packageVars, scriptVars>>

EditSource(s) ==
    /\ Edits(s)
    /\ \E c \in {Absent, Upgrade} \ {sources[s]} : sources' = [sources EXCEPT ![s] = c]
    /\ UNCHANGED <<files, backups, packageVars, scriptVars>>

EditPackage(p) ==
    /\ pc = "idle" /\ Edits(p)
    /\ \E v \in {Absent, Upgrade} \ {packages[p]} : packages' = [packages EXCEPT ![p] = v]
    /\ UNCHANGED <<wingets, strays, diskVars, scriptVars>>

HandlerCalls ==
    \/ CallProbe \/ ProbeErr \/ PlanUnreadable \/ PlanUnsafe \/ PlanSatisfied
    \/ PlanDotfile \/ PlanWinget \/ PlanScript
    \/ DotfileBacksUp \/ DotfileWrites \/ DotfileApplied
    \/ WingetInstalls \/ WingetApplied
    \/ ScriptSpawns \/ ScriptApplied \/ ScriptTimesOut
    \/ ApplyFails
    \/ DotfileUndoes \/ DotfileUndone
    \/ WingetRemoves \/ WingetUndone
    \/ ScriptUndoSpawns \/ ScriptUndone \/ ScriptUndoTimesOut
    \/ UndoFails
    \/ \E a \in DOMAIN acts : ReconcileCall(a)
    \/ ReconcileProbeErr \/ SynthesizeDotfile \/ SynthesizeWinget

CandylaneNext ==
    \/ HandlerCalls \/ CleanUp \/ EngineStep \/ Commands
    \/ Crashes \/ StoreErrs \/ ScriptExits \/ WingetExits
    \/ \E t \in DOMAIN files : EditFile(t)
    \/ \E s \in DOMAIN sources : EditSource(s)
    \/ \E p \in DOMAIN packages : EditPackage(p)

CandylaneSpec == CandylaneInit /\ [][CandylaneNext]_allVars

-----------------------------------------------------------------------------
(* diff and status only read, and may run at any time: what each would show. *)

\* diff lists the items of a profile that plan would act on.
Diff(items) ==
    {i \in DOMAIN items :
        CASE items[i].handler = "dotfile" -> ~D!Satisfied(items[i], files[items[i].target])
          [] items[i].handler = "winget"  -> ~W!Installed(W!Probe(items[i].target))
          [] items[i].handler = "script"  -> TRUE}

\* An item that diff may list after a pull of items all the same: a script always, a
\* target that comes again is as the later item wants it, and a package that a process
\* nobody waits for has changed is as that process left it.
Excused(items, i) ==
    \/ items[i].handler = "script"
    \/ \E j \in DOMAIN items : j > i /\ items[j].target = items[i].target
    \/ items[i].handler = "winget" /\ items[i].target \in strays

\* status compares every applied action of the last pull with the machine.
SyncState(a) ==
    LET now == Probe(acts[a].handler, acts[a].target)
    IN  IF now = Null THEN "not_applicable"
        ELSE IF acts[a].after = now THEN "in_sync"
        ELSE "drifted"

-----------------------------------------------------------------------------
(* Properties *)

\* The handlers make only the choices Engine leaves open, so what holds of
\* Engine holds of the program.
EngineSpec == Spec

CandylaneTypeOK ==
    /\ DOMAIN files = DOMAIN InitialFiles /\ DOMAIN sources = DOMAIN InitialSources
    /\ \A t \in DOMAIN files : files[t] \in Values
    /\ \A o \in DOMAIN backups : \A t \in DOMAIN files : backups[o][t] \in Values
    /\ \A p \in DOMAIN packages : packages[p] \in Values
    /\ wingets \subseteq [pkg : DOMAIN packages, way : {"install", "uninstall"},
                         owner : {"engine", "nobody"}]
    /\ strays \subseteq DOMAIN packages
    /\ done \subseteq Targets
    /\ running \subseteq [script : Targets, way : {"run", "undo"}, owner : {"engine", "nobody"}]
    /\ call.step \in {"start", "backed_up", "written", "undone", "spawned"}
    /\ call.desired \in Values /\ call.undo \in Recipes \cup {NoRecipe}
    /\ edits \subseteq DOMAIN files \cup DOMAIN sources \cup DOMAIN packages

\* A later item of the same profile has the same target, and so the same backup.
Overtaken(a) ==
    \E b \in ActionsOf(acts[a].op) : acts[b].seq > acts[a].seq /\ acts[b].target = acts[a].target

\* As long as an action can still be restored, now or by hand after undo_failed,
\* the copy of the user's original is there and is the one its recipe names
\* (apply backs up before it writes; finalize_op removes the backups of a clean
\* revert only).
OriginalsKept ==
    \A a \in DOMAIN acts :
        (acts[a].status \in {"applied", "undo_failed"} /\ acts[a].handler = "dotfile"
         /\ acts[a].undo.do = "restore" /\ ~Overtaken(a))
        => backups[acts[a].op][acts[a].target] = acts[a].undo.sha

\* While apply has overwritten a file that existed and the action is not yet
\* recorded as applied, the original is already in the backup: a crash at any
\* point of the call loses nothing by itself.
CopiedBeforeOverwritten ==
    \A a \in DOMAIN acts :
        (acts[a].status = "pending" /\ acts[a].handler = "dotfile"
         /\ pc = "apply" /\ act = a /\ acts[a].before # Absent
         /\ files[acts[a].target] # acts[a].before)
        => backups[acts[a].op][acts[a].target] = acts[a].before

\* The steps at which rollback records an action as reversed.
Reverses(a) == acts[a].status = "applied" /\ acts'[a].status = "reverted"

\* Decision 7 of docs/PHASE1_ARCHITECTURE.md: an action recorded as reverted from
\* a real recipe left its target as the probe found it before the pull, however
\* many crashes and repeated undos lie in between.
UndoRestores ==
    [][\A a \in DOMAIN acts :
        (Reverses(a) /\ acts[a].handler # "script" /\ acts[a].undo.do # "noop")
        => Probe(acts[a].handler, acts[a].target) = acts[a].before]_allVars

\* A pull that reports success left every target as recorded, read from the machine
\* and not from an exit code: status then shows no drift, and diff of the profile,
\* unless somebody changed a source meanwhile, nothing but its scripts.  A target that
\* comes twice is as the later item wants it, and a package that a process left over from
\* a crash has changed behind the engine's back may be as that process left it.
PullLands ==
    [][(cmd = "pull" /\ ret # "ok" /\ ret' = "ok") =>
        /\ \A a \in AppliedActions(op) : SyncState(a) = "drifted" =>
              Overtaken(a) \/ (acts[a].handler = "winget" /\ acts[a].target \in strays)
        /\ edits \cap DOMAIN sources = {} => \A i \in Diff(profile) : Excused(profile, i)]_allVars

\* The order of profile.rs, packages, dotfiles, scripts, holds for pull and, reversed,
\* for every rollback.  When a script or its undo may run, its operation has taken back
\* nothing of what the script ran on top of, through crashes and recoveries too; and in
\* the process of the pull itself the packages and dotfiles before it are in place, read
\* from the machine.  A later revert of another operation may have taken them away.
ScriptsOnTop ==
    (pc \in {"apply", "undo"} /\ Row.handler = "script") =>
        /\ \A a \in ActionsOf(op) : acts[a].handler # "script" =>
              acts[a].status \in {"applied", "skipped"}
        /\ cmd = "pull" /\ edits \cap DOMAIN sources = {} =>
              \A i \in Diff(profile) \cap 1 .. seq : Excused(profile, i)

\* A row that answers for a change of its target.  A reverted one does when what it
\* restored is itself no longer what history ends in, as after undos out of order.
Answers(a, handler, t) ==
    /\ acts[a].handler = handler /\ acts[a].target = t
    /\ \/ acts[a].status \in {"pending", "applied", "failed", "undo_failed"}
       \/ acts[a].status = "reverted" /\ acts[a].undo.do = "noop"
       \/ acts[a].status = "reverted" /\ acts[a].before = Probe(handler, t)

\* Whatever differs from the machine as it was found, and the user did not touch, is on
\* record: no crash, no failed apply, no reconcile and no undo out of order leaves a
\* change that history does not show.  Only a winget that outlived its engine makes one,
\* when it lands after its row was reconciled (SkippedNeverRan).
EffectsOnRecord ==
    /\ \A t \in DOMAIN files \ edits : files[t] # InitialFiles[t] =>
          \E a \in DOMAIN acts : Answers(a, "dotfile", t)
    /\ \A p \in DOMAIN packages \ (edits \cup strays) : packages[p] # InitialPackages[p] =>
          \E a \in DOMAIN acts : Answers(a, "winget", p)

\* A script the engine waits for is gone when its call returns, by itself or by
\* the kill of its group: only a crash leaves one behind.
ScriptsContained == S!Owned # {} => pc \in {"apply", "undo"}

\* types.rs on UndoSkipped: "history/diff never claim a reversal that did not
\* happen".  A dotfile recorded as reverted is what it was before.
ReversalHappened ==
    [][\A a \in DOMAIN acts : (Reverses(a) /\ acts[a].handler = "dotfile") =>
        files[acts[a].target] = acts[a].before]_allVars

\* The comment on reconcile: "real state == before -> it never ran; mark Skipped".  Of
\* what is so marked nothing has run, and nothing is still running.
SkippedNeverRan ==
    \A a \in DOMAIN acts :
        (acts[a].status = "skipped" /\ acts[a].undoKind # "noop") =>
            CASE acts[a].handler = "winget" ->
                    ~ \E w \in wingets : w.pkg = acts[a].target /\ w.way = "install"
              [] acts[a].handler = "script" -> acts[a].target \notin done
              [] OTHER -> TRUE

\* The contract of undo in handler.rs: "don't uninstall a package the user
\* manually upgraded".  What undo has winget remove is what the pull recorded.
UpgradesKept ==
    [][\A w \in (W!Owned)' \ W!Owned :
        w.way = "uninstall" => packages[w.pkg] = Row.after]_allVars

\* The comment in finalize_op: the backups of a clean revert go because "the files
\* are already restored".
DroppedBackupsRestored ==
    [][\A o \in DOMAIN backups : \A t \in DOMAIN files :
        (backups[o][t] # Absent /\ backups'[o][t] = Absent) => files[t] = backups[o][t]]_allVars

\* The comment in finalize_op: backups are kept for revert_failed "so a manual retry
\* still has the originals".
RetryHasOriginals ==
    \A a \in DOMAIN acts :
        (acts[a].status = "undo_failed" /\ acts[a].handler = "dotfile"
         /\ acts[a].undo.do = "restore" /\ ops[acts[a].op].status = "revert_failed")
        => backups[acts[a].op][acts[a].target] = acts[a].undo.sha
=============================================================================
