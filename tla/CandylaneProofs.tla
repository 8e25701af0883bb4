--------------------------- MODULE CandylaneProofs ---------------------------
(***************************************************************************)
(* The handlers and the machine: while a call is on its way, the machine,  *)
(* the call and the row in hand agree (CallFits), and so a recipe leads    *)
(* back to what was there before, and its copy is there when it is needed. *)
(***************************************************************************)
EXTENDS CandylaneLogProofs

P == INSTANCE Profile

-----------------------------------------------------------------------------
(* Kinds of steps *)

\* Outside every call: the user, or a process that ends.
Around ==
    \/ ScriptExits \/ WingetExits
    \/ \E t \in DOMAIN files : EditFile(t)
    \/ \E s \in DOMAIN sources : EditSource(s)
    \/ \E p \in DOMAIN packages : EditPackage(p)

\* Inside a call of a handler.
Within ==
    \/ DotfileBacksUp \/ DotfileWrites \/ WingetInstalls \/ ScriptSpawns
    \/ DotfileUndoes \/ WingetRemoves \/ ScriptUndoSpawns

\* The end of a call, or a step of the engine between calls: the machine stays.
Returns ==
    \/ CallProbe \/ ProbeErr \/ PlanUnreadable \/ PlanUnsafe \/ PlanSatisfied
    \/ PlanWinget \/ PlanScript
    \/ DotfileApplied \/ WingetApplied \/ ScriptApplied \/ ApplyFails
    \/ DotfileUndone \/ WingetUndone \/ ScriptUndone \/ UndoFails
    \/ \E a \in DOMAIN acts : ReconcileCall(a)
    \/ ReconcileProbeErr \/ SynthesizeDotfile \/ SynthesizeWinget \/ EngineStep \/ StoreErrs

\* The end of a call, or of the command, with its scripts.
Kills == ScriptTimesOut \/ ScriptUndoTimesOut \/ Crashes

\* There are no others.
LEMMA Kinds ==
    ASSUME [CandylaneNext]_allVars
    PROVE  UNCHANGED allVars \/ Around \/ Within \/ Returns \/ Kills
           \/ PlanDotfile \/ CleanUp \/ Commands
  BY DEF CandylaneNext, HandlerCalls, Around, Within, Returns, Kills

LEMMA ReturnsLeave ==
    ASSUME Returns
    PROVE  /\ call' = NoCall
           /\ UNCHANGED <<files, sources, backups, packages, wingets, strays, done, running, edits>>
  BY DEF Returns, CallProbe, ProbeErr, PlanUnreadable, PlanUnsafe, PlanSatisfied, PlanWinget,
         PlanScript, DotfileApplied, WingetApplied, ScriptApplied, ApplyFails, DotfileUndone,
         WingetUndone, ScriptUndone, UndoFails, ReconcileCall, ReconcileProbeErr,
         SynthesizeDotfile, SynthesizeWinget, EngineStep, StoreErrs, Returned, machine, diskVars,
         packageVars, scriptVars

LEMMA WithinLeaves ==
    ASSUME Within
    PROVE  /\ UNCHANGED <<ops, acts, pc, cmd, profile, op, seq, probe, act, todo, tries, Row, sources>>
           /\ UNCHANGED <<packages, strays>>
           /\ pc \in {"apply", "undo"}
  BY DEF Within, DotfileBacksUp, DotfileWrites, WingetInstalls, ScriptSpawns, DotfileUndoes,
         WingetRemoves, ScriptUndoSpawns, Undoing, Calling, Inside, vars, storeVars, procVars, locals,
         diskVars, packageVars, Row, D!BackUp, D!NothingToBackUp, D!Write, D!UndoDelete, D!UndoRestore,
         W!Install, W!Remove, W!Spawn

LEMMA AroundLeaves ==
    ASSUME Around
    PROVE  /\ UNCHANGED <<ops, acts, pc, cmd, profile, op, seq, probe, act, todo, tries, Row, backups, call>>
           /\ pc = "idle" \/ UNCHANGED files
           /\ pc = "idle" \/ WingetExits \/ UNCHANGED packages
  BY DEF Around, ScriptExits, WingetExits, EditFile, EditSource, EditPackage, Edits, Inside, vars,
         storeVars, procVars, locals, diskVars, packageVars, Row, S!Exit, W!Exit

\* The commands start from a free lock, and cleanup reads the log only.
LEMMA OutsideLeaves ==
    ASSUME IInv, UNCHANGED allVars \/ Commands \/ CleanUp
    PROVE  /\ UNCHANGED <<acts, files, sources, packages, wingets, strays, done, running, call>>
           /\ \/ UNCHANGED <<ops, pc, cmd, profile, op, seq, probe, act, todo, tries, Row, backups>>
              \/ pc \notin {"plan", "apply", "undo"} /\ pc' \notin {"plan", "apply", "undo"}
  BY DEF allVars, Commands, Start, StartPull, StartRevert, StartRecover, Enter, CleanUp, Cleanup,
         RemoveBackups, D!RemoveBackups, Return, Goto, vars, storeVars, procVars, locals, machine,
         diskVars, packageVars, scriptVars, Row

-----------------------------------------------------------------------------
(* The call in hand *)

\* A call that starts, and none at all, take the first step.
LEMMA CallStarts ==
    ASSUME ProgramInv', call'.step = "start",
           call' = NoCall \/ pc' = "apply"
    PROVE  CallInHand'
<1>1. pc' \in {"apply", "undo"} => Row'.handler \in HandlerKind
  <2>1. (IInv /\ RowsOnMachine /\ pc \in {"apply", "synthesize", "undo"} => Row.handler \in HandlerKind)'
    BY RowTyped, PTL
  <2> QED BY <2>1 DEF ProgramInv, LogFits
<1> QED BY <1>1 DEF CallInHand, HandlerKind, NoCall

\* Every step keeps CallInHand.
LEMMA CallInHandStep ==
    ASSUME ProgramInv, ProgramInv', CallInHand, [CandylaneNext]_allVars
    PROVE  CallInHand'
<1>1. CASE Around
  BY <1>1, AroundLeaves DEF CallInHand
<1>2. CASE Within
  <2>1. /\ UNCHANGED <<pc, tries, Row>> /\ pc \in {"apply", "undo"}
        /\ call'.step # "start" /\ pc = "undo" => tries < MaxUndoAttempts
    BY <1>2, WithinLeaves DEF Within, DotfileUndoes, WingetRemoves, ScriptUndoSpawns, Undoing, Calling,
                              DotfileBacksUp, DotfileWrites, WingetInstalls, ScriptSpawns
  <2>2. CASE Row.handler = "dotfile"
    BY <1>2, <2>1, <2>2
    DEF CallInHand, Within, DotfileBacksUp, DotfileWrites, WingetInstalls, ScriptSpawns, DotfileUndoes,
        WingetRemoves, ScriptUndoSpawns, Undoing, Calling, D!BackUp, D!NothingToBackUp, D!Write,
        D!UndoDelete, D!UndoRestore, ProgramInv, MachineTypeOK
  <2>3. CASE Row.handler = "winget"
    BY <1>2, <2>1, <2>3
    DEF CallInHand, Within, DotfileBacksUp, DotfileWrites, WingetInstalls, ScriptSpawns, DotfileUndoes,
        WingetRemoves, ScriptUndoSpawns, Undoing, Calling, W!Install, W!Remove, W!Spawn, ProgramInv, MachineTypeOK
  <2>4. CASE Row.handler = "script"
    BY <1>2, <2>1, <2>4
    DEF CallInHand, Within, DotfileBacksUp, DotfileWrites, WingetInstalls, ScriptSpawns, DotfileUndoes,
        WingetRemoves, ScriptUndoSpawns, Undoing, Calling, S!Spawn, ProgramInv, MachineTypeOK
  <2> QED
    BY <2>1, <2>2, <2>3, <2>4, RowTyped DEF ProgramInv, LogFits, HandlerKind
<1>3. CASE Returns \/ Kills
  BY <1>3, ReturnsLeave, CallStarts DEF Kills, ScriptTimesOut, ScriptUndoTimesOut, Crashes, NoCall
<1>4. CASE PlanDotfile
  BY <1>4, CallStarts DEF PlanDotfile, PlanSome, Goto, D!Planned
<1>5. CASE UNCHANGED allVars \/ Commands \/ CleanUp
  BY <1>5, OutsideLeaves DEF CallInHand, ProgramInv
<1> QED BY <1>1, <1>2, <1>3, <1>4, <1>5, Kinds

-----------------------------------------------------------------------------
(* The recipes on record *)

\* A row becomes applied when a handler says what it did, or what it finds done.
Applies == DotfileApplied \/ WingetApplied \/ ScriptApplied \/ SynthesizeDotfile \/ SynthesizeWinget

\* No other step does it.
LEMMA OnlyApplies ==
    ASSUME ProgramInv, [CandylaneNext]_allVars, ~Applies, NEW a \in DOMAIN acts,
           acts[a].status = "pending", acts'[a].status = "applied"
    PROVE  FALSE
<1>1. acts' # acts
  OBVIOUS
<1>2. a = act /\ pc \in {"apply", "synthesize"}
  <2>1. [Next]_vars
    BY ProgramStep
  <2>2. RowAdded \/ \E x \in DOMAIN acts : RowMoved(x)
    BY <1>1, <2>1, RowsMove DEF ProgramInv
  <2> QED BY <2>2 DEF RowAdded, RowMoved
<1>3. ~Around /\ ~Within /\ ~UNCHANGED allVars /\ ~Commands /\ ~CleanUp
  BY <1>1, AroundLeaves, WithinLeaves, OutsideLeaves DEF ProgramInv
<1>4. ASSUME ScriptTimesOut \/ ApplyFails PROVE acts'[act].status = "failed"
  <2>1. pc = "apply" /\ SetActionStatus(act, "failed")
    BY <1>4 DEF ScriptTimesOut, ApplyFails, ApplyErr
  <2>2. act \in DOMAIN acts /\ StoreTypeOK
    BY <2>1, RowAtHand DEF ProgramInv, IInv, TypeInv, TypeOK
  <2> QED BY <2>1, <2>2, SetActionStatusFacts DEF ActionStatus
<1>5. ~Crashes /\ ~StoreErrs /\ ~ScriptUndoTimesOut /\ ~PlanDotfile
  BY <1>1, <1>2 DEF Crashes, Crash, StoreErrs, StoreErr, ScriptUndoTimesOut, UndoErr, PlanDotfile, PlanSome, storeVars
<1>6. Returns
  BY <1>2, <1>3, <1>4, <1>5, Kinds DEF Kills
<1>7. EngineStep => acts' = acts
  BY <1>2 DEF EngineStep, RebootStep, PreflightRefuses, BeginPull, GateClear, GateAborts, LogStep,
              FinishPull, NothingToRevert, RevertLast, NothingToRecover, BeginRecover, NothingInFlight,
              Rollback, NextUndo, RollbackDone, GiveUp, Finalize, Cleanup, Mirror
<1> QED
  BY <1>1, <1>2, <1>4, <1>5, <1>6, <1>7
  DEF Returns, Applies, CallProbe, ProbeItem, ProbeErr, ItemOf, ItemErr, PlanUnreadable, PlanUnsafe,
      PlanSatisfied, PlanWinget, PlanScript, PlanNone, PlanSome, DotfileUndone, WingetUndone, ScriptUndone,
      Undoing, Calling, UndoFails, ReconcileCall, InFlightRow, ReconcileProbeErr

\* What an applied row says: the handler's recipe, and the rest as it was.
LEMMA AppliedRow ==
    ASSUME ProgramInv, RecipesTrue, DotfileInHand, Applies
    PROVE  /\ act \in DOMAIN acts /\ acts[act].status = "pending"
           /\ DOMAIN acts' = DOMAIN acts
           /\ \A b \in DOMAIN acts : b # act => acts'[b] = acts[b]
           /\ SameIdentity(acts'[act], acts[act])
           /\ acts'[act].status = "applied"
           /\ acts[act].handler = "dotfile" =>
                 \/ acts'[act].undo = D!Noop
                 \/ acts'[act].undo = D!Delete /\ acts[act].before = Absent
                 \/ /\ acts'[act].undo = D!Restore(acts[act].before)
                    /\ backups[op][acts[act].target] = acts[act].before
           /\ acts[act].handler = "winget" => acts'[act].undo = W!Uninstall(Absent)
           /\ pc = "apply" /\ acts[act].handler # "script" =>
                 acts'[act].after = Probe(acts[act].handler, acts[act].target)
           /\ pc = "synthesize" => acts'[act].after = probe
<1>pc. pc \in {"apply", "synthesize"}
  BY DEF Applies, DotfileApplied, WingetApplied, ScriptApplied, SynthesizeDotfile, SynthesizeWinget, Calling
<1>row. /\ act \in DOMAIN acts /\ acts[act].status = "pending" /\ Row = acts[act]
        /\ acts[act].handler = "winget" => acts[act].before = Absent
        /\ StoreTypeOK
  BY <1>pc, RowTyped DEF ProgramInv, LogFits, IInv, TypeInv, TypeOK, HandInv, RowInHand, RecipesTrue
<1>1. ASSUME NEW v \in Values, NEW r \in Recipes, SetActionApplied(act, v, r)
      PROVE  /\ DOMAIN acts' = DOMAIN acts
             /\ \A b \in DOMAIN acts : b # act => acts'[b] = acts[b]
             /\ SameIdentity(acts'[act], acts[act])
             /\ acts'[act].status = "applied" /\ acts'[act].undo = r /\ acts'[act].after = v
  BY <1>1, <1>row, SetActionAppliedFacts
<1>2. CASE DotfileApplied
  <2>1. /\ pc = "apply" /\ Row.handler = "dotfile" /\ call.step = "written"
        /\ files[Row.target] = call.desired
        /\ SetActionApplied(act, call.desired, call.undo)
    BY <1>2 DEF DotfileApplied, Calling, D!Confirmed, ApplyOk
  <2>2. call.desired \in Values /\ call.undo \in Recipes
    BY <2>1, ValuesAssumption DEF ProgramInv, MachineTypeOK, Contents, HandlerKind
  <2>3. IF Row.before = Absent THEN call.undo = D!Delete
        ELSE call.undo = D!Restore(Row.before) /\ backups[op][Row.target] = Row.before
    BY <2>1 DEF DotfileInHand
  <2> QED BY <1>1, <1>row, <2>1, <2>2, <2>3 DEF Probe
<1>3. CASE WingetApplied
  <2>1. /\ Row.handler = "winget" /\ pc = "apply"
        /\ SetActionApplied(act, W!Probe(Row.target), W!Uninstall(Row.before))
    BY <1>3 DEF WingetApplied, Calling, ApplyOk
  <2>2. W!Probe(Row.target) \in Values
    <3>1. Row.target \in DOMAIN InitialPackages
      BY <1>pc, <2>1, RowTyped DEF ProgramInv, LogFits
    <3> QED BY <3>1, ProbeFindsPackage, ValuesAssumption
            DEF ProgramInv, MachineTypeOK, Versions, HandlerKind
  <2> QED BY <1>1, <1>row, <2>1, <2>2, UninstallTyped DEF Probe
<1>4. CASE ScriptApplied
  <2>1. Row.handler = "script" /\ pc = "apply" /\ SetActionApplied(act, Ran, S!Recipe(Row.undoKind))
    BY <1>4 DEF ScriptApplied, Calling, ApplyOk
  <2>2. Ran \in Values /\ S!Recipe(Row.undoKind) \in Recipes
    BY MachineAssumption, ValuesAssumption DEF S!Recipe, HandlerKind
  <2> QED BY <1>1, <1>row, <2>1, <2>2
<1>5. CASE SynthesizeDotfile
  <2>1. /\ Row.handler = "dotfile" /\ probe \in Values /\ pc = "synthesize"
        /\ SetActionApplied(act, probe, D!Synthesized(Row.before))
    BY <1>5 DEF SynthesizeDotfile, Calling, Synthesize, ProgramInv, IInv, TypeInv, Control
  <2>2. /\ D!Synthesized(Row.before) \in Recipes
        /\ \/ D!Synthesized(Row.before) = D!Delete /\ Row.before = Absent
           \/ D!Synthesized(Row.before) = D!Noop
    BY MachineAssumption DEF D!Synthesized
  <2> QED BY <1>1, <1>row, <2>1, <2>2
<1>6. CASE SynthesizeWinget
  <2>1. /\ Row.handler = "winget" /\ probe \in Values /\ pc = "synthesize"
        /\ SetActionApplied(act, probe, W!Uninstall(Row.before))
    BY <1>6 DEF SynthesizeWinget, Calling, Synthesize, ProgramInv, IInv, TypeInv, Control
  <2> QED BY <1>1, <1>row, <2>1, UninstallTyped
<1> QED BY <1>2, <1>3, <1>4, <1>5, <1>6 DEF Applies

\* A step that applies nothing moves a row without touching its recipe.
LEMMA OtherMoves ==
    ASSUME ProgramInv, [CandylaneNext]_allVars, ~Applies
    PROVE  \/ UNCHANGED acts
           \/ RowAdded
           \/ \E a \in DOMAIN acts :
                 /\ RowMoved(a)
                 /\ acts'[a].status \in WithRecipe =>
                       acts[a].status \in WithRecipe /\ acts'[a].undo = acts[a].undo
                 /\ acts'[a].status \in {"applied", "undo_failed"} =>
                       acts[a].status \in {"applied", "undo_failed"}
                 /\ acts'[a].status # "skipped" => acts[a].status # "skipped"
<1>1. [Next]_vars
  BY ProgramStep
<1>2. ASSUME NEW a \in DOMAIN acts, RowMoved(a)
      PROVE  /\ acts'[a].status \in WithRecipe =>
                   acts[a].status \in WithRecipe /\ acts'[a].undo = acts[a].undo
             /\ acts'[a].status \in {"applied", "undo_failed"} =>
                   acts[a].status \in {"applied", "undo_failed"}
             /\ acts'[a].status # "skipped" => acts[a].status # "skipped"
  <2>1. ~(acts[a].status = "pending" /\ acts'[a].status = "applied")
    BY OnlyApplies
  <2> QED BY <1>2, <2>1 DEF RowMoved, WithRecipe
<1> QED BY <1>1, <1>2, RowsMove DEF ProgramInv

\* A package is planned only when it is not there.
LEMMA WingetPlanned ==
    ASSUME ProgramInv, [CandylaneNext]_allVars, RowAdded, pc' # "item",
           CurrentItem.handler = "winget"
    PROVE  probe = Absent
<1>1. pc = "plan" /\ acts' # acts
  BY DEF RowAdded
<1>2. ~Around /\ ~Within /\ ~UNCHANGED allVars /\ ~Commands /\ ~CleanUp /\ ~Kills
  BY <1>1, AroundLeaves, WithinLeaves, OutsideLeaves
  DEF ProgramInv, Kills, ScriptTimesOut, ScriptUndoTimesOut, Crashes, Crash, ApplyErr, UndoErr, storeVars
<1>3. Returns \/ PlanDotfile
  BY <1>2, Kinds
<1>4. ~EngineStep /\ ~StoreErrs
  BY <1>1 DEF StoreErrs, StoreErr, storeVars, EngineStep, RebootStep, PreflightRefuses, BeginPull, GateClear, GateAborts, LogStep,
              FinishPull, NothingToRevert, RevertLast, NothingToRecover, BeginRecover, NothingInFlight,
              Rollback, NextUndo, RollbackDone, GiveUp, Finalize, Cleanup, Mirror
<1>5. PlanWinget
  BY <1>1, <1>3, <1>4
  DEF Returns, CallProbe, ProbeErr, ItemOf, ItemErr, storeVars, PlanUnreadable, PlanUnsafe, PlanSatisfied,
      PlanNone, Goto, PlanScript, PlanDotfile, DotfileApplied, WingetApplied, ScriptApplied, ApplyFails,
      DotfileUndone, WingetUndone, ScriptUndone, Undoing, Calling, UndoFails, ReconcileCall,
      InFlightRow, ReconcileProbeErr, SynthesizeDotfile, SynthesizeWinget
<1> QED BY <1>5 DEF PlanWinget, W!Installed

\* Every step keeps the recipes true.
LEMMA RecipesTrueStep ==
    ASSUME ProgramInv, RecipesTrue, DotfileInHand, [CandylaneNext]_allVars
    PROVE  RecipesTrue'
<1>1. CASE UNCHANGED acts
  BY <1>1 DEF RecipesTrue
<1>2. CASE RowAdded
  <2> DEFINE n == Len(acts) + 1
  <2>1. /\ DOMAIN acts' = DOMAIN acts \cup {n}
        /\ \A a \in DOMAIN acts : acts'[a] = acts[a]
        /\ acts'[n].handler = CurrentItem.handler /\ acts'[n].before = probe
        /\ acts'[n].status \in {"skipped", "pending"}
        /\ acts'[n].status # "skipped" => pc' # "item"
    BY <1>2 DEF RowAdded
  <2>2. acts'[n].handler = "winget" /\ acts'[n].status # "skipped" => acts'[n].before = Absent
    BY <1>2, <2>1, WingetPlanned
  <2> HIDE DEF n
  <2> QED BY <2>1, <2>2 DEF RecipesTrue, WithRecipe
<1>3. ASSUME NEW x \in DOMAIN acts, RowMoved(x),
             acts'[x].status \in WithRecipe =>
                acts[x].status \in WithRecipe /\ acts'[x].undo = acts[x].undo,
             acts'[x].status # "skipped" => acts[x].status # "skipped"
      PROVE  RecipesTrue'
  <2>1. /\ DOMAIN acts' = DOMAIN acts
        /\ \A b \in DOMAIN acts : b # x => acts'[b] = acts[b]
        /\ acts'[x].handler = acts[x].handler /\ acts'[x].before = acts[x].before
    BY <1>3 DEF RowMoved, SameIdentity
  <2> QED BY <1>3, <2>1 DEF RecipesTrue
<1>4. CASE Applies
  <2>1. /\ act \in DOMAIN acts /\ acts[act].status = "pending"
        /\ DOMAIN acts' = DOMAIN acts
        /\ \A b \in DOMAIN acts : b # act => acts'[b] = acts[b]
        /\ acts'[act].handler = acts[act].handler /\ acts'[act].before = acts[act].before
        /\ acts[act].handler = "dotfile" =>
              \/ acts'[act].undo = D!Noop
              \/ acts'[act].undo = D!Delete /\ acts[act].before = Absent
              \/ acts'[act].undo = D!Restore(acts[act].before)
        /\ acts[act].handler = "winget" => acts'[act].undo = W!Uninstall(Absent)
    BY <1>4, AppliedRow DEF SameIdentity
  <2> QED BY <2>1 DEF RecipesTrue
<1> QED BY <1>1, <1>2, <1>3, <1>4, OtherMoves

-----------------------------------------------------------------------------
(* A dotfile between its probe and its record *)

\* Which steps lead to, or stay at, the labels where a dotfile is in hand.
LEMMA DotfileLabels ==
    ASSUME ProgramInv, [CandylaneNext]_allVars
    PROVE  /\ pc' = "plan" => UNCHANGED allVars \/ Around \/ CallProbe
           /\ pc' = "apply" => UNCHANGED allVars \/ Around \/ Within \/ PlanDotfile \/ PlanWinget \/ PlanScript
           /\ pc' = "undo" => UNCHANGED allVars \/ Around \/ Within \/ call' = NoCall
<1>1. CASE Commands \/ CleanUp \/ UNCHANGED allVars
  BY <1>1 DEF Commands, Start, StartPull, StartRevert, StartRecover, Enter, CleanUp, Cleanup, Return, Goto
<1>2. CASE Kills
  BY <1>2 DEF Kills, ScriptTimesOut, ScriptUndoTimesOut, Crashes, Crash, Return, ApplyErr, UndoErr, Goto
<1>3. CASE Returns
  <2>1. CASE EngineStep
    BY <2>1
    DEF EngineStep, Returned, RebootStep, PreflightRefuses, BeginPull, GateClear, GateAborts, LogStep,
        FinishPull, NothingToRevert, RevertLast, NothingToRecover, BeginRecover, NothingInFlight,
        Rollback, NextUndo, RollbackDone, GiveUp, Settle, Finalize, Cleanup, Mirror, Goto, Return
  <2>2. CASE ~EngineStep
    BY <1>3, <2>2, ReturnsLeave
    DEF Returns, CallProbe, ProbeItem, ProbeErr, ItemErr, PlanUnreadable, PlanUnsafe, PlanSatisfied,
        PlanNone, PlanWinget, PlanScript, PlanSome, Goto, Return, DotfileApplied, WingetApplied,
        ScriptApplied, ApplyOk, ApplyFails, ApplyErr, DotfileUndone, WingetUndone, ScriptUndone, UndoOk,
        Settle, UndoFails, UndoErr, ReconcileCall, ReconcileNeverRan, ReconcileApplied,
        ReconcileProbeErr, ReconcileErr, SynthesizeDotfile, SynthesizeWinget, Synthesize, StoreErrs,
        StoreErr
  <2> QED BY <2>1, <2>2
<1>4. CASE PlanDotfile
  BY <1>4 DEF PlanDotfile, PlanSome, Goto
<1>5. CASE Within
  BY <1>5, WithinLeaves
<1> QED BY <1>1, <1>2, <1>3, <1>4, <1>5, Kinds

\* The row of an item that is planned.
LEMMA RowPlanned ==
    ASSUME ProgramInv, PlanDotfile \/ PlanWinget \/ PlanScript
    PROVE  /\ RowAdded /\ act' = Len(acts) + 1 /\ Row'.before = probe
           /\ Row'.handler = CurrentItem.handler /\ Row'.target = CurrentItem.target
<1>1. pc = "plan" /\ \E k \in PlannedUndoKinds(CurrentItem.handler) : PlanSome(k)
  BY DEF PlanDotfile, PlanWinget, PlanScript, ItemOf, PlannedUndoKinds, S!PlannedKind
<1>2. RowAdded
  BY <1>1, IntentRecorded DEF ProgramInv
<1>3. act' = Len(acts) + 1
  BY <1>1 DEF PlanSome
<1> QED BY <1>2, <1>3 DEF RowAdded, Row

\* Copy first, then write: the steps of apply as the row sees them.
LEMMA DotfileApplySteps ==
    ASSUME ProgramInv, CallInHand, DotfileInHand, DotfileBacksUp \/ DotfileWrites
    PROVE  /\ call'.step \in {"start", "backed_up"} => files'[Row.target] = Row.before
           /\ call'.step \in {"backed_up", "written"} =>
                 IF Row.before = Absent THEN call'.undo = D!Delete
                 ELSE /\ call'.undo = D!Restore(Row.before)
                      /\ backups'[op][Row.target] = Row.before
<1>1. /\ pc = "apply" /\ Row.handler = "dotfile"
      /\ call \in [step : {"start", "backed_up", "written", "undone", "spawned"},
                   desired : Contents, undo : Recipes \cup {NoRecipe}]
  BY DEF DotfileBacksUp, DotfileWrites, Calling, ProgramInv, MachineTypeOK
<1>2. /\ Row.target \in DOMAIN InitialFiles /\ op \in 1 .. MaxOps
      /\ backups \in [1 .. MaxOps -> [DOMAIN InitialFiles -> Contents]]
  <2>1. op # 0
    BY <1>1, RowAtHand DEF ProgramInv
  <2> QED BY <1>1, <2>1, RowTyped, OpAtHand DEF ProgramInv, LogFits, MachineTypeOK
<1>3. CASE DotfileBacksUp
  <2>1. call.step = "start" /\ files[Row.target] = Row.before /\ UNCHANGED files
    BY <1>1, <1>3 DEF DotfileBacksUp, D!BackUp, D!NothingToBackUp, DotfileInHand
  <2>2. CASE D!BackUp(op, Row.target)
    <3>1. /\ backups' = [backups EXCEPT ![op] = [backups[op] EXCEPT ![Row.target] = files[Row.target]]]
          /\ call' = [call EXCEPT !.step = "backed_up", !.undo = D!Restore(files[Row.target])]
          /\ files[Row.target] # Absent
      BY <2>2 DEF D!BackUp, D!AtomicWrite
    <3>2. backups'[op][Row.target] = files[Row.target]
      BY <1>2, <3>1
    <3>3. call'.undo = D!Restore(files[Row.target])
      BY <1>1, <3>1
    <3> QED BY <2>1, <3>1, <3>2, <3>3
  <2>3. CASE D!NothingToBackUp(Row.target)
    BY <1>1, <2>1, <2>3 DEF D!NothingToBackUp
  <2> QED BY <1>3, <2>2, <2>3 DEF DotfileBacksUp
<1>4. CASE DotfileWrites
  <2>1. /\ call.step = "backed_up" /\ UNCHANGED backups
        /\ call' = [call EXCEPT !.step = "written"]
    BY <1>4 DEF DotfileWrites, D!Write
  <2>2. call'.step = "written" /\ call'.undo = call.undo
    BY <1>1, <2>1
  <2> QED BY <1>1, <2>1, <2>2 DEF DotfileInHand
<1> QED BY <1>3, <1>4

\* What undo leaves is what was there before.
LEMMA DotfileUndoSteps ==
    ASSUME ProgramInv, RecipesTrue, DotfileUndoes
    PROVE  files'[Row.target] = Row.before
<1>1. /\ pc = "undo" /\ Row.handler = "dotfile" /\ Row = acts[act] /\ act \in DOMAIN acts
      /\ Row.target \in DOMAIN InitialFiles /\ files \in [DOMAIN InitialFiles -> Contents]
  BY RowTyped DEF DotfileUndoes, Undoing, Calling, ProgramInv, LogFits, MachineTypeOK
<1>2. Row.status = "applied"
  BY <1>1 DEF ProgramInv, IInv, HandInv, RowInHand, ListInHand, HighestSeq, AppliedActions
<1>3. \/ Row.undo = D!Noop
      \/ Row.undo = D!Delete /\ Row.before = Absent
      \/ Row.undo = D!Restore(Row.before)
  BY <1>1, <1>2 DEF RecipesTrue, WithRecipe
<1>4. CASE D!UndoDelete(Row.target, Row.undo)
  <2>1. Row.undo.do = "delete" /\ files' = [files EXCEPT ![Row.target] = Absent]
    BY <1>4 DEF D!UndoDelete
  <2>2. Row.before = Absent
    BY <1>3, <2>1 DEF D!Noop, D!Restore
  <2> QED BY <1>1, <2>1, <2>2
<1>5. CASE D!UndoRestore(op, Row.target, Row.undo)
  <2>1. /\ Row.undo.do = "restore" /\ backups[op][Row.target] = Row.undo.sha
        /\ files' = [files EXCEPT ![Row.target] = backups[op][Row.target]]
    BY <1>5 DEF D!UndoRestore, D!Intact, D!AtomicWrite
  <2>2. Row.undo.sha = Row.before
    BY <1>3, <2>1 DEF D!Noop, D!Delete, D!Restore
  <2> QED BY <1>1, <2>1, <2>2
<1> QED BY <1>4, <1>5 DEF DotfileUndoes

\* Every step keeps DotfileInHand.
LEMMA DotfileInHandStep ==
    ASSUME ProgramInv, CallInHand, RecipesTrue, DotfileInHand, [CandylaneNext]_allVars
    PROVE  DotfileInHand'
<1>same. ASSUME pc' \in {"plan", "apply", "undo"}, UNCHANGED allVars \/ Around
         PROVE  UNCHANGED <<pc, profile, op, seq, probe, Row, files, backups, call>>
  <2>1. CASE UNCHANGED allVars
    BY <2>1 DEF allVars, vars, storeVars, procVars, locals, machine, diskVars, packageVars, Row
  <2>2. CASE Around
    BY <1>same, <2>2, AroundLeaves
  <2> QED BY <1>same, <2>1, <2>2
<1>1. ASSUME pc' = "plan", CurrentItem'.handler = "dotfile"
      PROVE  probe' = files'[CurrentItem'.target]
  <2>1. CASE UNCHANGED allVars \/ Around
    BY <1>1, <1>same, <2>1 DEF DotfileInHand, CurrentItem
  <2>2. CASE CallProbe
    BY <1>1, <2>2 DEF CallProbe, ProbeItem, Probe, Returned, machine, diskVars, CurrentItem
  <2> QED BY <1>1, <2>1, <2>2, DotfileLabels
<1>2. ASSUME pc' = "apply", Row'.handler = "dotfile"
      PROVE  /\ call'.step \in {"start", "backed_up"} => files'[Row'.target] = Row'.before
             /\ call'.step \in {"backed_up", "written"} =>
                   IF Row'.before = Absent THEN call'.undo = D!Delete
                   ELSE /\ call'.undo = D!Restore(Row'.before)
                        /\ backups'[op'][Row'.target] = Row'.before
  <2>1. CASE UNCHANGED allVars \/ Around
    BY <1>2, <1>same, <2>1 DEF DotfileInHand
  <2>2. CASE Within
    <3>1. UNCHANGED <<pc, op, Row>>
      BY <2>2, WithinLeaves
    <3>2. DotfileBacksUp \/ DotfileWrites
      BY <1>2, <2>2, <3>1 DEF Within, WingetInstalls, ScriptSpawns, DotfileUndoes, WingetRemoves,
                              ScriptUndoSpawns, Undoing, Calling
    <3> QED BY <3>1, <3>2, DotfileApplySteps
  <2>3. CASE PlanDotfile \/ PlanWinget \/ PlanScript
    <3>1. CurrentItem.handler = "dotfile" /\ Row'.target = CurrentItem.target /\ Row'.before = probe
      BY <1>2, <2>3, RowPlanned
    <3>2. PlanDotfile
      BY <2>3, <3>1 DEF PlanWinget, PlanScript, ItemOf
    <3>3. pc = "plan" /\ UNCHANGED files /\ call'.step = "start"
      BY <3>2 DEF PlanDotfile, ItemOf, machine, diskVars, D!Planned
    <3> QED BY <3>1, <3>3 DEF DotfileInHand
  <2> QED BY <1>2, <2>1, <2>2, <2>3, DotfileLabels
<1>3. ASSUME pc' = "undo", Row'.handler = "dotfile", call'.step = "undone"
      PROVE  files'[Row'.target] = Row'.before
  <2>1. CASE UNCHANGED allVars \/ Around
    BY <1>3, <1>same, <2>1 DEF DotfileInHand
  <2>2. CASE Within
    <3>1. UNCHANGED <<pc, Row>>
      BY <2>2, WithinLeaves
    <3>2. DotfileUndoes
      BY <1>3, <2>2, <3>1 DEF Within, DotfileBacksUp, DotfileWrites, WingetInstalls, ScriptSpawns,
                              WingetRemoves, ScriptUndoSpawns, Undoing, Calling
    <3> QED BY <3>1, <3>2, DotfileUndoSteps
  <2>3. call' # NoCall
    BY <1>3 DEF NoCall
  <2> QED BY <1>3, <2>1, <2>2, <2>3, DotfileLabels
<1> QED BY <1>1, <1>2, <1>3 DEF DotfileInHand

-----------------------------------------------------------------------------
(* The script in hand *)

\* A process the engine owns is nobody's any more, or gone, when the call is over.
LEMMA KillsContain ==
    ASSUME ProgramInv, Kills
    PROVE  (S!Owned)' = {}
<1>1. CASE S!Kill
  BY <1>1 DEF S!Kill, S!Owned
<1>2. CASE S!Orphan
  <2>1. \A p \in running : [p EXCEPT !.owner = "nobody"].owner = "nobody"
    BY DEF ProgramInv, MachineTypeOK
  <2>2. \A p \in running' : p.owner = "nobody"
    <3>1. running' = {} \/ running' = {[p EXCEPT !.owner = "nobody"] : p \in running}
      BY <1>2 DEF S!Orphan
    <3>2. CASE running' = {[p EXCEPT !.owner = "nobody"] : p \in running}
      <4> SUFFICES ASSUME NEW q \in running' PROVE q.owner = "nobody"
        OBVIOUS
      <4>1. PICK p \in running : q = [p EXCEPT !.owner = "nobody"]
        BY <3>2
      <4> QED BY <2>1, <4>1
    <3> QED BY <3>1, <3>2
  <2> QED BY <2>2 DEF S!Owned
<1> QED BY <1>1, <1>2 DEF Kills, ScriptTimesOut, ScriptUndoTimesOut, Crashes

\* A call that returns waited for its process, or never had one.
LEMMA ReturnsContain ==
    ASSUME ProgramInv, CallInHand, ScriptInHand, Returns
    PROVE  (S!Owned)' = {}
<1>1. UNCHANGED running
  BY ReturnsLeave
<1>2. SUFFICES ASSUME S!Owned # {} PROVE FALSE
  BY <1>1 DEF S!Owned
<1>3. /\ pc \in {"apply", "undo"} /\ Row.handler = "script" /\ call.step = "spawned"
      /\ pc = "undo" => Row.undo = S!RunUndo /\ tries < MaxUndoAttempts
  BY <1>2 DEF ScriptInHand, CallInHand
<1>4. ~EngineStep /\ ~StoreErrs
  <2>1. tries \in Nat
    BY DEF ProgramInv, IInv, TypeInv, TypeOK
  <2> QED
    BY <1>2, <1>3, <2>1, BoundsAssumption
    DEF StoreErrs, EngineStep, RebootStep, PreflightRefuses, BeginPull, GateClear, GateAborts, LogStep,
        FinishPull, NothingToRevert, RevertLast, NothingToRecover, BeginRecover, NothingInFlight,
        Rollback, NextUndo, RollbackDone, GiveUp, Finalize, Cleanup, Mirror
<1>5. ~ScriptApplied /\ ~ScriptUndone
  BY <1>2, <1>3 DEF ScriptApplied, ScriptUndone, Undoing, Calling, S!Exited, S!RunUndo, S!OneWay
<1> QED
  BY <1>3, <1>4, <1>5
  DEF Returns, CallProbe, ProbeErr, ItemOf, PlanUnreadable, PlanUnsafe, PlanSatisfied, PlanWinget,
      PlanScript, DotfileApplied, WingetApplied, ApplyFails, DotfileUndone, WingetUndone, Undoing,
      Calling, UndoFails, ReconcileCall, InFlightRow, ReconcileProbeErr, SynthesizeDotfile,
      SynthesizeWinget

\* Every step keeps ScriptInHand.
LEMMA ScriptInHandStep ==
    ASSUME ProgramInv, CallInHand, ScriptInHand, [CandylaneNext]_allVars
    PROVE  ScriptInHand'
<1>1. CASE Around
  <2>1. running' \subseteq running
    BY <1>1 DEF Around, ScriptExits, WingetExits, Inside, S!Exit, EditFile, EditSource, EditPackage,
                scriptVars
  <2>2. UNCHANGED <<pc, Row, call>>
    BY <1>1, AroundLeaves
  <2> QED BY <2>1, <2>2 DEF ScriptInHand, S!Owned
<1>2. CASE Within
  <2>1. UNCHANGED <<pc, Row>> /\ pc \in {"apply", "undo"}
    BY <1>2, WithinLeaves
  <2>2. CASE ScriptSpawns \/ ScriptUndoSpawns
    <3>1. call' = [call EXCEPT !.step = "spawned"] /\ Row.handler = "script"
      BY <2>2 DEF ScriptSpawns, ScriptUndoSpawns, Undoing, Calling, S!Spawn
    <3>2. call'.step = "spawned"
      BY <3>1 DEF ProgramInv, MachineTypeOK
    <3>3. pc = "undo" => Row.undo = S!RunUndo
      BY <2>2 DEF ScriptSpawns, ScriptUndoSpawns, Calling
    <3> QED BY <2>1, <3>1, <3>2, <3>3 DEF ScriptInHand
  <2>3. CASE ~(ScriptSpawns \/ ScriptUndoSpawns)
    <3>1. Row.handler # "script" /\ UNCHANGED running
      BY <1>2, <2>3 DEF Within, DotfileBacksUp, DotfileWrites, WingetInstalls, DotfileUndoes, WingetRemoves,
                        Undoing, Calling, Inside, scriptVars
    <3>2. (S!Owned)' = {}
      BY <3>1 DEF ScriptInHand, S!Owned
    <3> QED BY <3>2 DEF ScriptInHand
  <2> QED BY <2>2, <2>3
<1>3. CASE Returns \/ Kills
  BY <1>3, ReturnsContain, KillsContain DEF ScriptInHand
<1>4. CASE PlanDotfile
  <2>1. pc = "plan" /\ UNCHANGED running
    BY <1>4 DEF PlanDotfile, ItemOf, machine, scriptVars
  <2> QED BY <2>1 DEF ScriptInHand, S!Owned
<1>5. CASE UNCHANGED allVars \/ Commands \/ CleanUp
  BY <1>5, OutsideLeaves DEF ScriptInHand, S!Owned, ProgramInv
<1> QED BY <1>1, <1>2, <1>3, <1>4, <1>5, Kinds

-----------------------------------------------------------------------------
(* The winget in hand *)

\* The winget a call waits for is what the row asks for.
LEMMA WingetSpawned ==
    ASSUME ProgramInv, WingetInHand, WingetInstalls \/ WingetRemoves
    PROVE  WingetInHand'
<1>1. UNCHANGED <<pc, Row>> /\ pc \in {"apply", "undo"}
  BY WithinLeaves DEF Within
<1>2. Row.handler = "winget" /\ call.step = "start"
  BY DEF WingetInstalls, WingetRemoves, Undoing, Calling, W!Install, W!Remove, W!Spawn
<1>3. W!Owned = {}
  BY <1>2 DEF WingetInHand
<1>4. PICK way \in {"install", "uninstall"} :
        /\ W!Spawn(Row.target, way)
        /\ way = IF pc = "apply" THEN "install" ELSE "uninstall"
        /\ pc = "undo" => ~Row.undo.wasPresent
  BY DEF WingetInstalls, WingetRemoves, Undoing, Calling, W!Install, W!Remove
<1>5. call'.step = "spawned"
  BY <1>4 DEF W!Spawn, ProgramInv, MachineTypeOK
<1>6. \A w \in (W!Owned)' : w = [pkg |-> Row.target, way |-> way, owner |-> "engine"]
  BY <1>3, <1>4 DEF W!Spawn, W!Owned
<1> QED BY <1>1, <1>2, <1>4, <1>5, <1>6 DEF WingetInHand

\* A call that returns, or is cut off, waits for no winget any more.
LEMMA WingetsLeft ==
    ASSUME ProgramInv, CallInHand, WingetInHand, Returns \/ Kills
    PROVE  (W!Owned)' = {}
<1>1. CASE Crashes
  <2>1. wingets' \subseteq {[w EXCEPT !.owner = "nobody"] : w \in wingets}
    BY <1>1 DEF Crashes, W!Orphan
  <2>2. \A w \in wingets : [w EXCEPT !.owner = "nobody"].owner = "nobody"
    BY DEF ProgramInv, MachineTypeOK
  <2>3. \A w \in wingets' : w.owner = "nobody"
    BY <2>1, <2>2
  <2> QED BY <2>3 DEF W!Owned
<1>2. CASE ~Crashes
  <2>1. UNCHANGED wingets
    BY <1>2, ReturnsLeave DEF Kills, ScriptTimesOut, ScriptUndoTimesOut, packageVars
  <2>2. SUFFICES ASSUME W!Owned # {} PROVE FALSE
    BY <2>1 DEF W!Owned
  <2>3. /\ pc \in {"apply", "undo"} /\ Row.handler = "winget" /\ call.step = "spawned"
        /\ pc = "undo" => ~Row.undo.wasPresent /\ tries < MaxUndoAttempts
    BY <2>2 DEF WingetInHand, CallInHand
  <2>4. ~EngineStep /\ ~StoreErrs
    <3>1. tries \in Nat
      BY DEF ProgramInv, IInv, TypeInv, TypeOK
    <3> QED
      BY <2>2, <2>3, <3>1, BoundsAssumption
      DEF StoreErrs, EngineStep, RebootStep, PreflightRefuses, BeginPull, GateClear, GateAborts, LogStep,
          FinishPull, NothingToRevert, RevertLast, NothingToRecover, BeginRecover, NothingInFlight,
          Rollback, NextUndo, RollbackDone, GiveUp, Finalize, Cleanup, Mirror
  <2>5. ~WingetApplied /\ ~WingetUndone /\ ~ApplyFails /\ ~UndoFails
    BY <2>2, <2>3 DEF WingetApplied, WingetUndone, ApplyFails, UndoFails, Undoing, Calling, W!Confirmed,
                      W!NothingToRemove, W!Removed, W!Exited
  <2> QED
    BY <1>2, <2>3, <2>4, <2>5
    DEF Returns, Kills, CallProbe, ProbeErr, ItemOf, PlanUnreadable, PlanUnsafe, PlanSatisfied, PlanWinget,
        PlanScript, DotfileApplied, ScriptApplied, DotfileUndone, ScriptUndone, Undoing, Calling,
        ReconcileCall, InFlightRow, ReconcileProbeErr, SynthesizeDotfile, SynthesizeWinget,
        ScriptTimesOut, ScriptUndoTimesOut
<1> QED BY <1>1, <1>2

\* Every step keeps WingetInHand.
LEMMA WingetInHandStep ==
    ASSUME ProgramInv, CallInHand, WingetInHand, [CandylaneNext]_allVars
    PROVE  WingetInHand'
<1>1. ASSUME UNCHANGED <<pc, Row, call>>, wingets' \subseteq wingets PROVE WingetInHand'
  BY <1>1 DEF WingetInHand, W!Owned
<1>2. CASE Around
  <2>1. wingets' \subseteq wingets
    BY <1>2 DEF Around, ScriptExits, WingetExits, Inside, W!Exit, EditFile, EditSource, EditPackage,
                packageVars
  <2> QED BY <1>1, <1>2, <2>1, AroundLeaves
<1>3. CASE Within
  <2>1. CASE WingetInstalls \/ WingetRemoves
    BY <2>1, WingetSpawned
  <2>2. CASE ~(WingetInstalls \/ WingetRemoves)
    <3>1. Row.handler # "winget" /\ UNCHANGED wingets
      BY <1>3, <2>2 DEF Within, DotfileBacksUp, DotfileWrites, ScriptSpawns, DotfileUndoes,
                        ScriptUndoSpawns, Undoing, Calling, Inside, packageVars
    <3>2. (W!Owned)' = {}
      BY <3>1 DEF WingetInHand, W!Owned
    <3> QED BY <3>2 DEF WingetInHand
  <2> QED BY <2>1, <2>2
<1>4. CASE Returns \/ Kills
  BY <1>4, WingetsLeft DEF WingetInHand
<1>5. CASE PlanDotfile
  <2>1. pc = "plan" /\ UNCHANGED wingets
    BY <1>5 DEF PlanDotfile, ItemOf, machine, packageVars
  <2> QED BY <2>1 DEF WingetInHand, W!Owned
<1>6. CASE UNCHANGED allVars \/ Commands \/ CleanUp
  BY <1>6, OutsideLeaves DEF WingetInHand, W!Owned, ProgramInv
<1> QED BY <1>2, <1>3, <1>4, <1>5, <1>6, Kinds

-----------------------------------------------------------------------------
(* The copies *)

\* Only a backup and the end of a rollback touch the copies.
LEMMA CopiesStay ==
    ASSUME [CandylaneNext]_allVars, ~DotfileBacksUp, ~CleanUp
    PROVE  UNCHANGED backups
<1>1. ASSUME Within PROVE UNCHANGED backups
  BY <1>1 DEF Within, DotfileWrites, WingetInstalls, ScriptSpawns, DotfileUndoes, WingetRemoves,
              ScriptUndoSpawns, Inside, diskVars, D!Write, D!UndoDelete, D!UndoRestore
<1>2. ASSUME Kills \/ PlanDotfile \/ Commands \/ UNCHANGED allVars PROVE UNCHANGED backups
  BY <1>2 DEF Kills, ScriptTimesOut, ScriptUndoTimesOut, Crashes, PlanDotfile, Commands, allVars, machine, diskVars
<1> QED BY <1>1, <1>2, AroundLeaves, ReturnsLeave, Kinds

\* A copy is taken of the last row that has its target.
LEMMA BackUpKeeps ==
    ASSUME ProgramInv, OriginalsKept, DotfileBacksUp
    PROVE  OriginalsKept'
<1>1. /\ UNCHANGED <<acts, op>> /\ pc = "apply" /\ Row.handler = "dotfile"
  BY WithinLeaves DEF Within, DotfileBacksUp, Calling
<1>2. /\ act \in DOMAIN acts /\ acts[act].op = op /\ Row = acts[act] /\ acts[act].status = "pending"
      /\ Row.target \in DOMAIN InitialFiles /\ op \in 1 .. MaxOps
      /\ backups \in [1 .. MaxOps -> [DOMAIN InitialFiles -> Contents]]
  <2>1. op # 0 /\ act \in DOMAIN acts /\ acts[act].op = op
    BY <1>1, RowAtHand DEF ProgramInv
  <2>2. acts[act].status = "pending"
    BY <1>1 DEF ProgramInv, IInv, HandInv, RowInHand
  <2> QED BY <1>1, <2>1, <2>2, OpAtHand DEF ProgramInv, LogFits, MachineTypeOK, RowsOnMachine, Row
<1>3. \/ UNCHANGED backups
      \/ backups' = [backups EXCEPT ![op] = [backups[op] EXCEPT ![Row.target] = files[Row.target]]]
  BY DEF DotfileBacksUp, D!BackUp, D!NothingToBackUp, D!AtomicWrite
<1>4. ASSUME NEW a \in DOMAIN acts, acts[a].status \in {"applied", "undo_failed"},
             acts[a].handler = "dotfile", acts[a].undo.do = "restore", ~Overtaken(a)
      PROVE  backups'[acts[a].op][acts[a].target] = acts[a].undo.sha
  <2>1. backups[acts[a].op][acts[a].target] = acts[a].undo.sha
    BY <1>4 DEF OriginalsKept
  <2>2. acts[a].op = op => acts[a].target # Row.target
    <3> SUFFICES ASSUME acts[a].op = op, acts[a].target = Row.target PROVE Overtaken(a)
      BY <1>4
    <3>1. a # act /\ a <= act /\ a \in Nat /\ act \in Nat /\ acts[a].seq \in Nat /\ acts[act].seq \in Nat
      BY <1>2, <1>4, LogRows DEF ProgramInv, IInv, LogInv, RowsOrdered
    <3>2. acts[a].seq < acts[act].seq
      BY <1>2, <3>1 DEF ProgramInv, IInv, LogInv, RowsOrdered
    <3> QED BY <1>2, <3>1, <3>2 DEF Overtaken, ActionsOf
  <2>3. acts[a].op \in 1 .. MaxOps /\ acts[a].target \in DOMAIN InitialFiles
    <3>1. acts[a].op \in DOMAIN ops /\ acts[a].op \in Nat
      BY <1>4, LogRows DEF ProgramInv, IInv, LogInv, RowsRefer
    <3>2. DOMAIN ops = 1 .. Len(ops) /\ Len(ops) \in Nat /\ Len(ops) <= MaxOps /\ MaxOps \in Nat
      BY LogRows, BoundsAssumption DEF ProgramInv, LogFits, OpsBounded, IInv
    <3> QED BY <1>4, <3>1, <3>2 DEF ProgramInv, LogFits, RowsOnMachine
  <2>4. CASE UNCHANGED backups
    BY <2>1, <2>4
  <2>5. CASE backups' = [backups EXCEPT ![op] = [backups[op] EXCEPT ![Row.target] = files[Row.target]]]
    <3>1. CASE acts[a].op # op
      BY <1>2, <2>1, <2>3, <2>5, <3>1
    <3>2. CASE acts[a].op = op
      <4>1. backups'[op] = [backups[op] EXCEPT ![Row.target] = files[Row.target]]
        BY <1>2, <2>5
      <4>2. backups[op] \in [DOMAIN InitialFiles -> Contents]
        BY <1>2
      <4>3. backups'[op][acts[a].target] = backups[op][acts[a].target]
        BY <2>2, <2>3, <3>2, <4>1, <4>2
      <4> QED BY <2>1, <3>2, <4>3
    <3> QED BY <3>1, <3>2
  <2> QED BY <1>3, <2>4, <2>5
<1>5. acts' = acts
  BY <1>1
<1> QED BY <1>4, <1>5 DEF OriginalsKept, Overtaken, ActionsOf

\* The copies that go are those of an operation that has nothing left to restore.
LEMMA CleanUpKeeps ==
    ASSUME ProgramInv, OriginalsKept, CleanUp
    PROVE  OriginalsKept'
<1>1. UNCHANGED acts
  BY OutsideLeaves DEF ProgramInv
<1>2. CASE UNCHANGED backups
  BY <1>1, <1>2 DEF OriginalsKept, Overtaken, ActionsOf
<1>3. CASE backups' # backups
  <2>1. /\ ops[op].status = "reverted" /\ op \in 1 .. MaxOps /\ op \in DOMAIN ops
        /\ backups' = [backups EXCEPT ![op] = [t \in DOMAIN backups[op] |-> Absent]]
    <3>1. pc = "cleanup" /\ op # 0 /\ op \in DOMAIN ops
      BY DEF CleanUp, Cleanup, ProgramInv, IInv, TypeInv, Control, NoOpYet
    <3> QED BY <1>3, <3>1, OpAtHand DEF CleanUp, RemoveBackups, D!RemoveBackups, diskVars, ProgramInv, LogFits
  <2>2. \A a \in DOMAIN acts : acts[a].op = op => acts[a].status \notin {"applied", "undo_failed"}
    BY <2>1 DEF ProgramInv, IInv, LogInv, RowsRefer, OutcomeHonest, Statuses, ActionsOf
  <2>3. \A a \in DOMAIN acts : acts[a].op # op => backups'[acts[a].op] = backups[acts[a].op]
    BY <2>1 DEF ProgramInv, MachineTypeOK
  <2> QED BY <1>1, <2>2, <2>3 DEF OriginalsKept, Overtaken, ActionsOf
<1> QED BY <1>2, <1>3

\* Every step keeps the copies a recipe names.
LEMMA OriginalsKeptStep ==
    ASSUME ProgramInv, CallInHand, RecipesTrue, DotfileInHand, OriginalsKept, [CandylaneNext]_allVars
    PROVE  OriginalsKept'
<1>1. CASE Applies
  <2>1. UNCHANGED backups
    BY <1>1, ReturnsLeave DEF Applies, Returns
  <2>2. /\ act \in DOMAIN acts
        /\ DOMAIN acts' = DOMAIN acts
        /\ \A b \in DOMAIN acts : b # act => acts'[b] = acts[b]
        /\ SameIdentity(acts'[act], acts[act])
        /\ acts[act].handler = "dotfile" =>
              \/ acts'[act].undo = D!Noop
              \/ acts'[act].undo = D!Delete /\ acts[act].before = Absent
              \/ /\ acts'[act].undo = D!Restore(acts[act].before)
                 /\ backups[acts[act].op][acts[act].target] = acts[act].before
    <3>1. pc \in {"apply", "synthesize"}
      BY <1>1 DEF Applies, DotfileApplied, WingetApplied, ScriptApplied, SynthesizeDotfile,
                  SynthesizeWinget, Calling
    <3>2. acts[act].op = op
      BY <3>1, RowAtHand DEF ProgramInv
    <3> QED BY <1>1, <3>2, AppliedRow
  <2> SUFFICES ASSUME NEW a \in DOMAIN acts, acts'[a].status \in {"applied", "undo_failed"},
                      acts'[a].handler = "dotfile", acts'[a].undo.do = "restore", ~Overtaken(a)'
               PROVE  backups[acts'[a].op][acts'[a].target] = acts'[a].undo.sha
    BY <2>1, <2>2 DEF OriginalsKept
  <2>3. CASE a = act
    BY <2>2, <2>3 DEF SameIdentity, D!Noop, D!Delete, D!Restore
  <2>4. CASE a # act
    <3>1. acts'[a] = acts[a] /\ ~Overtaken(a)
      BY <2>2, <2>4 DEF Overtaken, ActionsOf, SameIdentity
    <3> QED BY <3>1 DEF OriginalsKept
  <2> QED BY <2>3, <2>4
<1>2. CASE DotfileBacksUp \/ CleanUp
  BY <1>2, BackUpKeeps, CleanUpKeeps
<1>3. CASE ~Applies /\ ~DotfileBacksUp /\ ~CleanUp
  <2>1. UNCHANGED backups
    BY <1>3, CopiesStay
  <2>2. CASE UNCHANGED acts
    BY <2>1, <2>2 DEF OriginalsKept, Overtaken, ActionsOf
  <2>3. CASE RowAdded
    <3> DEFINE n == Len(acts) + 1
    <3>1. /\ n \notin DOMAIN acts /\ DOMAIN acts' = DOMAIN acts \cup {n}
          /\ \A a \in DOMAIN acts : acts'[a] = acts[a]
          /\ acts'[n].status \in {"skipped", "pending"}
      BY <2>3 DEF RowAdded
    <3> HIDE DEF n
    <3>2. \A a \in DOMAIN acts : ~Overtaken(a)' => ~Overtaken(a)
      BY <3>1 DEF Overtaken, ActionsOf
    <3> QED BY <2>1, <3>1, <3>2 DEF OriginalsKept
  <2>4. ASSUME NEW x \in DOMAIN acts, RowMoved(x),
               acts'[x].status \in WithRecipe => acts'[x].undo = acts[x].undo,
               acts'[x].status \in {"applied", "undo_failed"} => acts[x].status \in {"applied", "undo_failed"}
        PROVE  OriginalsKept'
    <3>1. /\ DOMAIN acts' = DOMAIN acts
          /\ \A b \in DOMAIN acts : b # x => acts'[b] = acts[b]
          /\ \A b \in DOMAIN acts : /\ acts'[b].op = acts[b].op /\ acts'[b].seq = acts[b].seq
                                    /\ acts'[b].target = acts[b].target
                                    /\ acts'[b].handler = acts[b].handler
      BY <2>4 DEF RowMoved, SameIdentity
    <3>2. \A a \in DOMAIN acts : ~Overtaken(a)' => ~Overtaken(a)
      BY <3>1 DEF Overtaken, ActionsOf
    <3> QED BY <2>1, <2>4, <3>1, <3>2 DEF OriginalsKept, WithRecipe
  <2> QED BY <1>3, <2>2, <2>3, <2>4, OtherMoves
<1> QED BY <1>1, <1>2, <1>3

-----------------------------------------------------------------------------
(* The invariant of the program *)

LEMMA CallFitsInit == CandylaneInit => CallFits
<1> SUFFICES ASSUME CandylaneInit PROVE CallFits
  OBVIOUS
<1>1. DOMAIN acts = {}
  BY LenProperties DEF CandylaneInit, Init, StoreInit
<1>2. pc = "idle" /\ call = NoCall /\ running = {} /\ wingets = {}
  BY DEF CandylaneInit, Init, MachineInit
<1>3. RecipesTrue /\ OriginalsKept
  BY <1>1 DEF RecipesTrue, OriginalsKept
<1>4. CallInHand /\ DotfileInHand /\ ScriptInHand /\ WingetInHand
  BY <1>2 DEF CallInHand, DotfileInHand, ScriptInHand, S!Owned, WingetInHand, W!Owned
<1> QED BY <1>3, <1>4 DEF CallFits

LEMMA MachineKeeps == CandylaneSpec => [](ProgramInv /\ CallFits)
<1>1. CandylaneInit => ProgramInv /\ CallFits
  BY ProgramInit, CallFitsInit
<1>2. ASSUME ProgramInv, CallFits, [CandylaneNext]_allVars PROVE ProgramInv' /\ CallFits'
  <2>1. ProgramInv'
    BY <1>2, ProgramStep
  <2>2. CallInHand' /\ RecipesTrue'
    BY <1>2, <2>1, CallInHandStep, RecipesTrueStep DEF CallFits
  <2>3. DotfileInHand' /\ ScriptInHand' /\ WingetInHand' /\ OriginalsKept'
    BY <1>2, DotfileInHandStep, ScriptInHandStep, WingetInHandStep, OriginalsKeptStep DEF CallFits
  <2> QED BY <2>1, <2>2, <2>3 DEF CallFits
<1> QED BY <1>1, <1>2, PTL DEF CandylaneSpec

-----------------------------------------------------------------------------
(* The theorems *)

\* A recipe that can still restore a file finds the user's original in its copy,
\* through crashes, other pulls, edits of the user and rollbacks that gave up.
THEOREM OriginalsStay == CandylaneSpec => []OriginalsKept
  BY MachineKeeps, PTL DEF CallFits

\* Apply never overwrites a file it has not copied: a crash in the middle finds the
\* original beside it.
THEOREM CopiesFirst == CandylaneSpec => []CopiedBeforeOverwritten
<1>1. ProgramInv /\ CallFits => CopiedBeforeOverwritten
  <2> SUFFICES ASSUME ProgramInv, CallInHand, DotfileInHand, pc = "apply",
                      acts[act].handler = "dotfile", acts[act].before # Absent,
                      files[acts[act].target] # acts[act].before
               PROVE  backups[acts[act].op][acts[act].target] = acts[act].before
    BY DEF CallFits, CopiedBeforeOverwritten
  <2>1. acts[act].op = op
    BY RowAtHand DEF ProgramInv
  <2>2. call.step = "written"
    BY DEF CallInHand, DotfileInHand, Row
  <2> QED BY <2>1, <2>2 DEF DotfileInHand, Row
<1> QED BY <1>1, MachineKeeps, PTL

\* No call of the script handler returns and leaves a process it still owns.
THEOREM ScriptsGone == CandylaneSpec => []ScriptsContained
<1>1. CallFits => ScriptsContained
  BY DEF CallFits, ScriptInHand, ScriptsContained
<1> QED BY <1>1, MachineKeeps, PTL

\* Which step records a reversal, and of which row.
LEMMA ReversalsAreUndos ==
    ASSUME ProgramInv, [CandylaneNext]_allVars, NEW a \in DOMAIN acts, Reverses(a),
           acts[a].handler # "script"
    PROVE  /\ pc = "undo" /\ a = act
           /\ DotfileUndone \/ WingetUndone
<1>1. pc = "undo" /\ a = act /\ act \in DOMAIN acts
  <2>1. RowAdded \/ \E x \in DOMAIN acts : RowMoved(x)
    BY ProgramStep, RowsMove DEF ProgramInv, Reverses
  <2> QED BY <2>1 DEF RowAdded, RowMoved, Reverses
<1>2. StoreTypeOK /\ acts' # acts /\ acts'[act].status = "reverted" /\ acts[act].status = "applied"
  BY <1>1 DEF ProgramInv, IInv, TypeInv, TypeOK, Reverses
<1>3. ~Around /\ ~Within /\ ~UNCHANGED allVars /\ ~Commands /\ ~CleanUp /\ ~Kills /\ ~PlanDotfile
  BY <1>1, <1>2, AroundLeaves, WithinLeaves, OutsideLeaves
  DEF ProgramInv, Kills, ScriptTimesOut, ScriptUndoTimesOut, Calling, Undoing, Row, Crashes, Crash,
      storeVars, PlanDotfile, ItemOf
<1>4. Returns
  BY <1>3, Kinds
<1>5. ~UndoErr
  BY <1>1, <1>2, BumpUndoAttemptFacts DEF UndoErr
<1>6. ~GiveUp
  BY <1>1, <1>2, SetActionStatusFacts DEF GiveUp, Settle, ActionStatus
<1>7. ~EngineStep /\ ~StoreErrs
  BY <1>1, <1>2, <1>6
  DEF StoreErrs, StoreErr, EngineStep, RebootStep, PreflightRefuses, BeginPull, GateClear, GateAborts, LogStep, FinishPull,
      NothingToRevert, RevertLast, NothingToRecover, BeginRecover, NothingInFlight, Rollback, NextUndo,
      RollbackDone, Finalize, Cleanup, Mirror, storeVars
<1> QED
  BY <1>1, <1>4, <1>5, <1>7
  DEF Returns, CallProbe, ProbeErr, ItemErr, ItemOf, PlanUnreadable, PlanUnsafe, PlanSatisfied, PlanWinget,
      PlanScript, DotfileApplied, WingetApplied, ScriptApplied, ApplyFails, ScriptUndone, Undoing, Calling,
      Row, UndoFails, ReconcileCall, InFlightRow, ReconcileProbeErr, SynthesizeDotfile, SynthesizeWinget

\* What it leaves behind.
LEMMA ReversalsRestore ==
    ASSUME ProgramInv, CallFits, [CandylaneNext]_allVars, NEW a \in DOMAIN acts, Reverses(a),
           acts[a].handler # "script", acts[a].undo.do # "noop"
    PROVE  Probe(acts[a].handler, acts[a].target) = acts[a].before
<1>1. pc = "undo" /\ a = act /\ (DotfileUndone \/ WingetUndone) /\ acts[act].status = "applied"
  BY ReversalsAreUndos DEF Reverses
<1>2. CASE DotfileUndone
  <2>1. Row.handler = "dotfile" /\ call.step = "undone"
    BY <1>1, <1>2 DEF DotfileUndone, Undoing, Calling, D!Undone, Row
  <2> QED BY <1>1, <2>1 DEF CallFits, DotfileInHand, Row, Probe
<1>3. CASE WingetUndone
  <2>1. acts[act].handler = "winget" /\ acts[act].before = Absent /\ acts[act].undo = W!Uninstall(Absent)
    BY <1>1, <1>3 DEF CallFits, RecipesTrue, WithRecipe, WingetUndone, Undoing, Calling, Row
  <2>2. Row.undo.wasPresent = FALSE
    <3>1. W!Uninstall(Absent) = [do |-> "uninstall", wasPresent |-> FALSE]
      BY DEF W!Uninstall, W!Installed
    <3> QED BY <2>1, <3>1 DEF Row
  <2>3. ~W!Installed(W!Probe(acts[act].target))
    BY <1>3, <2>2 DEF WingetUndone, W!NothingToRemove, W!Removed, Row
  <2> QED BY <1>1, <2>1, <2>3 DEF Probe, W!Installed
<1> QED BY <1>1, <1>2, <1>3

\* An action recorded as reverted from a real recipe left its target as the probe
\* found it before the pull, on every machine and for every profile.
THEOREM UndosRestore == CandylaneSpec => UndoRestores
<1>1. ProgramInv /\ CallFits /\ [CandylaneNext]_allVars
      => [\A a \in DOMAIN acts :
            (Reverses(a) /\ acts[a].handler # "script" /\ acts[a].undo.do # "noop")
            => Probe(acts[a].handler, acts[a].target) = acts[a].before]_allVars
  BY ReversalsRestore
<1> QED BY <1>1, MachineKeeps, PTL DEF CandylaneSpec, UndoRestores

\* build_profile appends its three tables in a fixed order, so a document of any size
\* gives a profile that ends in its scripts: what ScriptsLast asks of Profiles.
THEOREM ScriptsComeLast ==
    ASSUME NEW Entry, NEW doc,
           \A key \in {"install", "file", "post_install"} : P!Table(doc, key) \in Seq(Entry),
           NEW i \in DOMAIN P!BuildProfile(doc), NEW j \in DOMAIN P!BuildProfile(doc),
           i < j, P!BuildProfile(doc)[i].handler = "script"
    PROVE  P!BuildProfile(doc)[j].handler = "script"
<1> DEFINE w == P!Winget(P!Table(doc, "install"))
           d == P!Dotfile(P!Table(doc, "file"))
           scripts == P!Script(P!Table(doc, "post_install"))
           All == {w[k] : k \in DOMAIN w} \cup {d[k] : k \in DOMAIN d}
                  \cup {scripts[k] : k \in DOMAIN scripts}
<1>1. w \in Seq(All) /\ \A k \in DOMAIN w : w[k].handler = "winget"
  <2>1. PICK n \in Nat : DOMAIN P!Table(doc, "install") = 1 .. n
    BY LenProperties
  <2> QED BY <2>1 DEF P!Winget
<1>2. d \in Seq(All) /\ \A k \in DOMAIN d : d[k].handler = "dotfile"
  <2>1. PICK n \in Nat : DOMAIN P!Table(doc, "file") = 1 .. n
    BY LenProperties
  <2> QED BY <2>1 DEF P!Dotfile
<1>3. scripts \in Seq(All) /\ \A k \in DOMAIN scripts : scripts[k].handler = "script"
  <2>1. PICK n \in Nat : DOMAIN P!Table(doc, "post_install") = 1 .. n
    BY LenProperties
  <2> QED BY <2>1 DEF P!Script
<1> HIDE DEF w, d, scripts, All
<1>4. P!BuildProfile(doc) = w \o d \o scripts
  BY DEF P!BuildProfile, w, d, scripts
<1>5. Len(w \o d) = Len(w) + Len(d) /\ w \o d \in Seq(All)
  BY <1>1, <1>2
<1>6. ASSUME NEW k \in 1 .. Len(w \o d) PROVE (w \o d)[k].handler # "script"
  BY <1>1, <1>2, <1>6
<1>7. i > Len(w \o d)
  BY <1>3, <1>4, <1>5, <1>6
<1> QED BY <1>3, <1>4, <1>5, <1>7
=============================================================================
