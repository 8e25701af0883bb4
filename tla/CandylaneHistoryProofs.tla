----------------------- MODULE CandylaneHistoryProofs -----------------------
(***************************************************************************)
(* What the log and the machine tell together (HistoryFits): every change  *)
(* of the machine is accounted for by a row, and a pull that succeeds has  *)
(* brought about what it recorded and what its profile wants.              *)
(***************************************************************************)
EXTENDS CandylaneProofs

-----------------------------------------------------------------------------
(* Every change has its row *)

\* A step moves a row or changes the machine, never both.
LEMMA RowsOrMachine ==
    ASSUME ProgramInv, [CandylaneNext]_allVars, acts' # acts
    PROVE  UNCHANGED <<files, sources, packages, strays, edits>>
<1>1. ~Around /\ ~Within /\ ~UNCHANGED allVars /\ ~Commands /\ ~CleanUp
  BY AroundLeaves, WithinLeaves, OutsideLeaves DEF ProgramInv
<1>2. ~Crashes
  BY DEF Crashes, Crash, storeVars
<1>3. ASSUME ScriptTimesOut \/ ScriptUndoTimesOut \/ PlanDotfile
      PROVE  UNCHANGED <<files, sources, packages, strays, edits>>
  BY <1>3 DEF ScriptTimesOut, ScriptUndoTimesOut, PlanDotfile, machine, diskVars, packageVars
<1> QED BY <1>1, <1>2, <1>3, ReturnsLeave, Kinds DEF Kills

\* What nobody waited for and changed stays on the list, as does what the user changed.
LEMMA StraysStay ==
    ASSUME [CandylaneNext]_allVars
    PROVE  strays \subseteq strays' /\ edits \subseteq edits'
<1>1. CASE Around
  BY <1>1 DEF Around, ScriptExits, WingetExits, W!Exit, Inside, packageVars, EditFile, EditSource,
              EditPackage, Edits
<1>2. CASE Within
  BY <1>2, WithinLeaves
  DEF Within, DotfileBacksUp, DotfileWrites, WingetInstalls, ScriptSpawns, DotfileUndoes, WingetRemoves,
      ScriptUndoSpawns, Inside
<1>3. CASE Kills \/ PlanDotfile \/ Commands \/ CleanUp \/ UNCHANGED allVars
  BY <1>3 DEF Kills, ScriptTimesOut, ScriptUndoTimesOut, Crashes, W!Orphan, PlanDotfile, Commands, CleanUp,
              allVars, machine, packageVars
<1> QED BY <1>1, <1>2, <1>3, ReturnsLeave, Kinds

\* Besides the user, only a winget changes a package: one the call in hand waits for, or
\* one that nobody waits for, which makes it a stray or leaves it to a row in flight.
LEMMA PackagesMove ==
    ASSUME ProgramInv, CallFits, [CandylaneNext]_allVars, NEW p \in DOMAIN packages,
           packages'[p] # packages[p], p \notin edits' \/ pc # "idle"
    PROVE  /\ UNCHANGED <<vars, call, files, sources, edits>>
           /\ \E w \in wingets : w.pkg = p
           /\ packages'[p] \in Offers \cup {Absent}
           /\ \/ p \in strays'
              \/ pc = "apply" /\ Row.handler = "winget" /\ Row.target = p /\ packages'[p] \in Offers
              \/ pc = "undo" /\ Row.handler = "winget" /\ Row.target = p /\ packages'[p] = Absent
              \/ /\ packages[p] = Absent /\ packages'[p] \in Offers
                 /\ \E a \in DOMAIN acts :
                       acts[a].handler = "winget" /\ acts[a].target = p /\ acts[a].status = "pending"
<1>typed. packages \in [DOMAIN InitialPackages -> Versions]
  BY DEF ProgramInv, MachineTypeOK
<1>1. ~Returns /\ ~Within
  BY ReturnsLeave, WithinLeaves
<1>2. ~Kills /\ ~PlanDotfile /\ ~CleanUp /\ ~Commands /\ ~UNCHANGED allVars
  BY DEF Kills, ScriptTimesOut, ScriptUndoTimesOut, Crashes, W!Orphan, PlanDotfile, CleanUp, Commands,
         allVars, machine, packageVars
<1>3. WingetExits
  <2>1. Around
    BY <1>1, <1>2, Kinds
  <2>2. ASSUME NEW q \in DOMAIN packages, EditPackage(q) PROVE FALSE
    BY <1>typed, <2>2 DEF EditPackage, Edits
  <2> QED BY <2>1, <2>2 DEF Around, ScriptExits, Inside, EditFile, EditSource, packageVars
<1>4. PICK w \in wingets : W!Exit(w, Told(w.pkg)) /\ Inside(<<diskVars, scriptVars>>)
  BY <1>3 DEF WingetExits
<1>5. /\ w.pkg = p /\ packages'[p] \in W!Outcomes(w.way)
      /\ w.owner # "engine" /\ ~Told(w.pkg) => p \in strays'
  BY <1>typed, <1>4 DEF W!Exit
<1>6. UNCHANGED <<vars, call, files, sources, edits>>
  BY <1>4 DEF W!Exit, Inside, diskVars
<1>7. packages'[p] \in Offers \cup {Absent}
  BY <1>5 DEF W!Outcomes
<1>8. CASE w.owner = "engine"
  BY <1>5, <1>6, <1>7, <1>8 DEF CallFits, WingetInHand, W!Owned, W!Outcomes
<1>9. CASE Told(w.pkg)
  BY <1>5, <1>6, <1>7, <1>9 DEF Told
<1> QED BY <1>5, <1>6, <1>7, <1>8, <1>9

\* Only a call of the dotfile handler changes a file, its own, and so does the user.
LEMMA FilesMove ==
    ASSUME ProgramInv, [CandylaneNext]_allVars, NEW t \in DOMAIN files,
           files'[t] # files[t], t \notin edits' \/ pc # "idle"
    PROVE  /\ Row.handler = "dotfile" /\ Row.target = t
           /\ DotfileWrites \/ DotfileUndoes
           /\ UNCHANGED <<acts, packages, strays>>
<1>typed. files \in [DOMAIN InitialFiles -> Contents]
  BY DEF ProgramInv, MachineTypeOK
<1>1. ~Returns
  BY ReturnsLeave
<1>2. ~Kills /\ ~PlanDotfile /\ ~CleanUp /\ ~Commands /\ ~UNCHANGED allVars
  BY DEF Kills, ScriptTimesOut, ScriptUndoTimesOut, Crashes, PlanDotfile, CleanUp, RemoveBackups,
         D!RemoveBackups, Commands, allVars, machine, diskVars
<1>3. ~Around
  <2>1. ASSUME NEW u \in DOMAIN files, EditFile(u) PROVE FALSE
    BY <1>typed, <2>1 DEF EditFile, Edits
  <2> QED BY <2>1 DEF Around, ScriptExits, WingetExits, Inside, EditSource, EditPackage, diskVars
<1>4. Within
  BY <1>1, <1>2, <1>3, Kinds
<1>5. DotfileWrites \/ DotfileUndoes
  BY <1>4 DEF Within, DotfileBacksUp, D!BackUp, D!NothingToBackUp, WingetInstalls, WingetRemoves,
              ScriptSpawns, ScriptUndoSpawns, Inside, diskVars
<1>6. CASE DotfileWrites
  <2>1. CurrentItem.target = Row.target
    BY <1>6, ItemAtHand DEF DotfileWrites, Calling, ProgramInv, LogFits
  <2> QED BY <1>typed, <1>4, <1>6, <2>1, WithinLeaves
          DEF DotfileWrites, Calling, D!Write, D!AtomicWrite
<1>7. CASE DotfileUndoes
  BY <1>typed, <1>4, <1>7, WithinLeaves
  DEF DotfileUndoes, Undoing, Calling, D!UndoDelete, D!UndoRestore, D!AtomicWrite
<1> QED BY <1>5, <1>6, <1>7

\* A file or a package is as it was, or the user or a stray has touched it, or a row
\* explains it.
LEMMA MachineMoves ==
    ASSUME ProgramInv, CallFits, [CandylaneNext]_allVars, UNCHANGED acts
    PROVE  /\ \A t \in DOMAIN files : t \notin edits' =>
                 files'[t] = files[t] \/ \E a \in DOMAIN acts : Explains(a, "dotfile", t, files'[t])
           /\ \A p \in DOMAIN packages : p \notin edits' \cup strays' =>
                 packages'[p] = packages[p] \/ \E a \in DOMAIN acts : Explains(a, "winget", p, packages'[p])
<1>row. pc \in {"apply", "undo"} =>
           /\ act \in DOMAIN acts /\ Row = acts[act]
           /\ pc = "apply" => acts[act].status = "pending"
           /\ pc = "undo" => acts[act].status = "applied"
  BY RowAtHand
  DEF Row, ProgramInv, IInv, HandInv, RowInHand, ListInHand, HighestSeq, AppliedActions
<1>1. ASSUME NEW t \in DOMAIN files, t \notin edits', files'[t] # files[t]
      PROVE  \E a \in DOMAIN acts : Explains(a, "dotfile", t, files'[t])
  <2>1. Row.handler = "dotfile" /\ Row.target = t /\ (DotfileWrites \/ DotfileUndoes)
    BY <1>1, FilesMove
  <2>2. CASE DotfileUndoes
    BY <1>row, <2>1, <2>2 DEF Explains, DotfileUndoes, Undoing, Calling
  <2>3. CASE DotfileWrites
    <3>1. pc = "apply" /\ call.step = "backed_up"
      BY <2>3 DEF DotfileWrites, Calling, D!Write
    <3>2. files[t] = Row.before
      BY <2>1, <3>1 DEF CallFits, DotfileInHand
    <3> QED BY <1>row, <1>1, <2>1, <3>1, <3>2 DEF Explains
  <2> QED BY <2>1, <2>2, <2>3
<1>2. ASSUME NEW p \in DOMAIN packages, p \notin edits' \cup strays', packages'[p] # packages[p]
      PROVE  \E a \in DOMAIN acts : Explains(a, "winget", p, packages'[p])
  <2>1. \/ pc = "undo" /\ Row.handler = "winget" /\ Row.target = p
        \/ /\ packages'[p] # Absent
           /\ \E a \in DOMAIN acts :
                 acts[a].handler = "winget" /\ acts[a].target = p /\ acts[a].status = "pending"
    BY <1>row, <1>2, PackagesMove, MachineAssumption
  <2> QED BY <1>row, <2>1 DEF Explains, CallFits, RecipesTrue
<1> QED BY <1>1, <1>2

\* reconcile strikes out an intent only where the machine still is as before it.
LEMMA IntentsStruckOut ==
    ASSUME ProgramInv, [CandylaneNext]_allVars, NEW a \in DOMAIN acts,
           acts[a].status = "pending", acts'[a].status = "skipped"
    PROVE  acts[a].before = Probe(acts[a].handler, acts[a].target)
<1>1. pc = "reconcile" /\ acts' # acts
  <2>1. RowAdded \/ \E x \in DOMAIN acts : RowMoved(x)
    BY ProgramStep, RowsMove DEF ProgramInv
  <2> QED BY <2>1 DEF RowAdded, RowMoved
<1>2. Returns \/ Crashes
  BY <1>1, AroundLeaves, WithinLeaves, OutsideLeaves, Kinds
  DEF ProgramInv, Kills, ScriptTimesOut, ScriptUndoTimesOut, Undoing, Calling, PlanDotfile, ItemOf
<1>3. ~EngineStep /\ ~Crashes /\ ~StoreErrs
  BY <1>1
  DEF Crashes, Crash, StoreErrs, StoreErr, EngineStep, RebootStep, PreflightRefuses, BeginPull, GateClear, GateAborts, LogStep,
      FinishPull, NothingToRevert, RevertLast, NothingToRecover, BeginRecover, NothingInFlight, Rollback,
      NextUndo, RollbackDone, GiveUp, Finalize, Cleanup, Mirror, storeVars
<1>4. PICK b \in DOMAIN acts : ReconcileCall(b)
  BY <1>1, <1>2, <1>3
  DEF Returns, CallProbe, ProbeErr, ItemOf, PlanUnreadable, PlanUnsafe, PlanSatisfied, PlanWinget, PlanScript,
      DotfileApplied, WingetApplied, ScriptApplied, ApplyFails, DotfileUndone, WingetUndone, ScriptUndone,
      Undoing, Calling, UndoFails, ReconcileProbeErr, ReconcileErr, storeVars, SynthesizeDotfile, SynthesizeWinget
<1>5. ReconcileNeverRan(b, Probe(acts[b].handler, acts[b].target))
  BY <1>1, <1>4 DEF ReconcileCall, ReconcileApplied, storeVars
<1>6. \A x \in DOMAIN acts : x # b => acts'[x] = acts[x]
  <2>1. StoreTypeOK /\ SetActionStatus(b, "skipped")
    BY <1>5 DEF ReconcileNeverRan, ProgramInv, IInv, TypeInv, TypeOK
  <2> QED BY <2>1, SetActionStatusFacts DEF ActionStatus
<1> QED BY <1>5, <1>6 DEF ReconcileNeverRan

\* The row that explains a target goes on explaining it, whatever is recorded of it.
LEMMA ExplanationsStay ==
    ASSUME ProgramInv, CallFits, [CandylaneNext]_allVars, acts' # acts,
           NEW a \in DOMAIN acts, NEW handler \in {"dotfile", "winget"}, NEW t, NEW now,
           now = Probe(handler, t), Explains(a, handler, t, now)
    PROVE  \E b \in DOMAIN acts' : Explains(b, handler, t, now)'
<1>1. CASE RowAdded
  BY <1>1 DEF RowAdded, Explains
<1>2. ASSUME NEW x \in DOMAIN acts, x # a, RowMoved(x)
      PROVE  \E b \in DOMAIN acts' : Explains(b, handler, t, now)'
  BY <1>2 DEF RowMoved, Explains
<1>3. CASE RowMoved(a)
  <2>1. /\ DOMAIN acts' = DOMAIN acts /\ SameIdentity(acts'[a], acts[a])
        /\ acts[a].handler = handler /\ acts[a].target = t
    BY <1>3 DEF RowMoved, Explains
  <2>2. CASE acts[a].status = "pending"
    <3>1. acts'[a].status # "skipped"
      BY <2>1, <2>2, IntentsStruckOut DEF Explains
    <3> QED BY <1>3, <2>1, <2>2, <3>1 DEF RowMoved, Explains, SameIdentity
  <2>3. CASE acts[a].status = "applied" /\ acts'[a].status = "reverted"
    <3>1. acts[a].undo.do = "noop" \/ acts[a].before = now
      BY <2>1, <2>3, ReversalsRestore DEF Reverses
    <3> QED BY <1>3, <2>1, <2>3, <3>1 DEF RowMoved, Explains, SameIdentity
  <2>4. CASE acts[a].status = "applied" /\ acts'[a].status # "reverted"
    <3>1. acts'[a].status # "undo_skipped"
      BY <1>3, <2>1, <2>4 DEF RowMoved, ProgramInv, LogFits, OneWayScripts
    <3> QED BY <1>3, <2>1, <2>4, <3>1 DEF RowMoved, Explains, SameIdentity
  <2> QED BY <1>3, <2>2, <2>3, <2>4 DEF RowMoved
<1>4. RowAdded \/ \E x \in DOMAIN acts : RowMoved(x)
  BY ProgramStep, RowsMove DEF ProgramInv
<1> QED BY <1>1, <1>2, <1>3, <1>4

\* Every step leaves every change explained.
LEMMA EffectsExplainedStep ==
    ASSUME ProgramInv, CallFits, EffectsExplained, [CandylaneNext]_allVars, MachineTypeOK'
    PROVE  EffectsExplained'
<1>typed. /\ DOMAIN files = DOMAIN InitialFiles /\ DOMAIN files' = DOMAIN InitialFiles
          /\ DOMAIN packages = DOMAIN InitialPackages /\ DOMAIN packages' = DOMAIN InitialPackages
  BY DEF ProgramInv, MachineTypeOK
<1>1. CASE UNCHANGED acts
  <2>1. /\ edits \subseteq edits' /\ strays \subseteq strays'
        /\ \A t \in DOMAIN files : t \notin edits' =>
              files'[t] = files[t] \/ \E a \in DOMAIN acts : Explains(a, "dotfile", t, files'[t])
        /\ \A p \in DOMAIN packages : p \notin edits' \cup strays' =>
              packages'[p] = packages[p] \/ \E a \in DOMAIN acts : Explains(a, "winget", p, packages'[p])
    BY <1>1, MachineMoves, StraysStay
  <2>2. ASSUME NEW t \in DOMAIN files' \ edits', files'[t] # InitialFiles[t]
        PROVE  \E a \in DOMAIN acts' : Explains(a, "dotfile", t, files[t])'
    <3>1. \E a \in DOMAIN acts : Explains(a, "dotfile", t, files'[t])
      BY <1>typed, <2>1, <2>2 DEF EffectsExplained
    <3> QED BY <1>1, <3>1 DEF Explains
  <2>3. ASSUME NEW p \in DOMAIN packages' \ (edits' \cup strays'), packages'[p] # InitialPackages[p]
        PROVE  \E a \in DOMAIN acts' : Explains(a, "winget", p, packages[p])'
    <3>1. \E a \in DOMAIN acts : Explains(a, "winget", p, packages'[p])
      BY <1>typed, <2>1, <2>3 DEF EffectsExplained
    <3> QED BY <1>1, <3>1 DEF Explains
  <2> QED BY <2>2, <2>3 DEF EffectsExplained
<1>2. CASE acts' # acts
  <2>1. UNCHANGED <<files, packages, strays, edits>>
    BY <1>2, RowsOrMachine
  <2>2. ASSUME NEW t \in DOMAIN files \ edits, files[t] # InitialFiles[t]
        PROVE  \E a \in DOMAIN acts' : Explains(a, "dotfile", t, files[t])'
    <3>1. PICK a \in DOMAIN acts : Explains(a, "dotfile", t, files[t])
      BY <2>2 DEF EffectsExplained
    <3>2. files[t] = Probe("dotfile", t)
      BY DEF Probe
    <3>3. \E b \in DOMAIN acts' : Explains(b, "dotfile", t, files[t])'
      BY <1>2, <2>1, <3>1, <3>2, ExplanationsStay DEF Explains
    <3> QED BY <3>3
  <2>3. ASSUME NEW p \in DOMAIN packages \ (edits \cup strays), packages[p] # InitialPackages[p]
        PROVE  \E a \in DOMAIN acts' : Explains(a, "winget", p, packages[p])'
    <3>1. PICK a \in DOMAIN acts : Explains(a, "winget", p, packages[p])
      BY <2>3 DEF EffectsExplained
    <3>2. packages[p] = Probe("winget", p)
      BY <1>typed, ProbeFindsPackage DEF Probe, ProgramInv
    <3>3. \E b \in DOMAIN acts' : Explains(b, "winget", p, packages[p])'
      BY <1>2, <2>1, <3>1, <3>2, ExplanationsStay DEF Explains
    <3> QED BY <3>3
  <2> QED BY <2>1, <2>2, <2>3 DEF EffectsExplained
<1> QED BY <1>1, <1>2

-----------------------------------------------------------------------------
(* The item in hand *)

\* The items of a profile are about things of the machine.
LEMMA ProfileFits ==
    ASSUME ProgramInv
    PROVE  /\ DOMAIN profile = 1 .. Len(profile) /\ Len(profile) \in Nat /\ seq \in Nat
           /\ \A i \in DOMAIN profile :
                 /\ profile[i].handler \in HandlerKind
                 /\ profile[i].handler = "dotfile" => profile[i].target \in DOMAIN InitialFiles
                 /\ profile[i].handler = "winget" => profile[i].target \in DOMAIN InitialPackages
<1>1. profile \in Seq(Items) /\ seq \in Nat
  BY DEF ProgramInv, IInv, TypeInv, TypeOK
<1>2. DOMAIN profile = 1 .. Len(profile) /\ Len(profile) \in Nat
  BY <1>1, LenProperties
<1>3. \A i \in DOMAIN profile : profile[i] \in Items
  BY <1>1, <1>2, ElementOfSeq
<1> QED BY <1>1, <1>2, <1>3, ItemsAssumption, ItemsOnMachine

\* While nobody has changed a source, the sources are the ones they were.
LEMMA SourcesStay ==
    ASSUME ProgramInv, [CandylaneNext]_allVars, (edits \cap DOMAIN sources)' = {}
    PROVE  UNCHANGED sources /\ edits \cap DOMAIN sources = {}
<1>typed. DOMAIN sources' = DOMAIN sources
  BY ProgramStep DEF ProgramInv, MachineTypeOK
<1>1. CASE Around
  BY <1>1, <1>typed DEF Around, ScriptExits, WingetExits, Inside, diskVars, EditFile, EditSource, EditPackage, Edits
<1>2. CASE Within
  BY <1>2, WithinLeaves
  DEF Within, DotfileBacksUp, DotfileWrites, WingetInstalls, ScriptSpawns, DotfileUndoes, WingetRemoves,
      ScriptUndoSpawns, Inside
<1>3. CASE Kills \/ PlanDotfile \/ Commands \/ CleanUp \/ UNCHANGED allVars
  BY <1>3 DEF Kills, ScriptTimesOut, ScriptUndoTimesOut, Crashes, PlanDotfile, Commands, CleanUp,
              RemoveBackups, D!RemoveBackups, allVars, machine, diskVars
<1>4. CASE Returns
  BY <1>4, ReturnsLeave
<1> QED BY <1>1, <1>2, <1>3, <1>4, Kinds

\* Which steps lead to synthesize_undo, or stay there.
LEMMA SynthesizeLabels ==
    ASSUME ProgramInv, [CandylaneNext]_allVars, pc' = "synthesize"
    PROVE  UNCHANGED allVars \/ Around \/ \E a \in DOMAIN acts : ReconcileCall(a) /\ pc # "synthesize"
<1>1. ~Commands /\ ~CleanUp
  BY DEF Commands, Start, StartPull, StartRevert, StartRecover, Enter, CleanUp, Cleanup, Return, Goto
<1>2. ~Kills /\ ~PlanDotfile
  BY DEF Kills, ScriptTimesOut, ScriptUndoTimesOut, Undoing, Calling, Crashes, Crash, Return, ApplyErr,
         UndoErr, Goto, PlanDotfile, PlanSome
<1>3. ~Within
  BY WithinLeaves
<1>4. CASE Returns
  <2>1. ~EngineStep
    BY DEF EngineStep, RebootStep, PreflightRefuses, BeginPull, GateClear, GateAborts, LogStep, FinishPull,
           NothingToRevert, RevertLast, NothingToRecover, BeginRecover, NothingInFlight, Rollback, NextUndo,
           RollbackDone, GiveUp, Settle, Finalize, Cleanup, Mirror, Goto, Return
  <2> QED
    BY <1>4, <2>1
    DEF Returns, StoreErrs, StoreErr, CallProbe, ProbeItem, ProbeErr, ItemErr, PlanUnreadable, PlanUnsafe, PlanSatisfied,
        PlanNone, PlanWinget, PlanScript, PlanSome, Goto, Return, DotfileApplied, WingetApplied,
        ScriptApplied, ApplyOk, ApplyFails, ApplyErr, DotfileUndone, WingetUndone, ScriptUndone, UndoOk,
        Settle, UndoFails, UndoErr, ReconcileCall, InFlightRow, ReconcileProbeErr, ReconcileErr,
        SynthesizeDotfile, SynthesizeWinget, Synthesize
<1> QED BY <1>1, <1>2, <1>3, <1>4, Kinds

\* A package that is there goes by a stray, or by the undo in hand.
LEMMA PackagesGo ==
    ASSUME ProgramInv, CallFits, [CandylaneNext]_allVars, pc # "idle",
           NEW p \in DOMAIN packages, packages[p] # Absent, packages'[p] = Absent
    PROVE  p \in strays' \/ (pc = "undo" /\ Row.handler = "winget")
  BY PackagesMove, MachineAssumption

\* Only a process nobody waits for comes between a probe and its plan, nothing between
\* reconcile and synthesize_undo, and apply is told what the source said.
LEMMA ItemFreshStep ==
    ASSUME ProgramInv, CallFits, ItemFresh, [CandylaneNext]_allVars
    PROVE  ItemFresh'
<1>same. ASSUME pc' \in {"plan", "apply", "synthesize"}, UNCHANGED allVars \/ Around
         PROVE  UNCHANGED <<pc, profile, seq, probe, Row, files, call>>
  <2>1. CASE UNCHANGED allVars
    BY <2>1 DEF allVars, vars, storeVars, procVars, locals, machine, diskVars, Row
  <2>2. CASE Around
    BY <1>same, <2>2, AroundLeaves
  <2> QED BY <1>same, <2>1, <2>2
<1>1. ASSUME pc' = "plan"
      PROVE  (CASE CurrentItem.handler = "dotfile" -> probe = files[CurrentItem.target]
                [] CurrentItem.handler = "winget"  ->
                      W!Installed(probe) =>
                          W!Installed(packages[CurrentItem.target]) \/ CurrentItem.target \in strays
                [] OTHER -> probe = Null)'
  <2>1. CASE CallProbe
    <3>1. /\ UNCHANGED <<profile, seq, files, packages>> /\ CurrentItem' = CurrentItem
          /\ probe' = Probe(CurrentItem.handler, CurrentItem.target)
          /\ seq + 1 \in DOMAIN profile
      <4>1. seq < Len(profile)
        BY <2>1 DEF CallProbe
      <4> QED BY <2>1, <4>1, ProfileFits
              DEF CallProbe, ProbeItem, Returned, machine, diskVars, packageVars, CurrentItem
    <3>2. /\ CurrentItem.handler \in HandlerKind
          /\ CurrentItem.handler = "winget" => CurrentItem.target \in DOMAIN InitialPackages
      BY <3>1, ProfileFits DEF CurrentItem
    <3>3. CASE CurrentItem.handler = "winget"
      BY <3>1, <3>2, <3>3, ProbeFindsPackage DEF Probe, ProgramInv, W!Installed
    <3>4. CASE CurrentItem.handler # "winget"
      BY <3>1, <3>2, <3>4 DEF Probe, HandlerKind
    <3> QED BY <3>3, <3>4
  <2>2. CASE UNCHANGED allVars \/ Around
    <3>1. UNCHANGED <<pc, profile, seq, probe, files>> /\ CurrentItem' = CurrentItem
      BY <1>1, <1>same, <2>2 DEF CurrentItem
    <3>2. CASE CurrentItem.handler = "winget"
      <4>1. CurrentItem.target \in DOMAIN packages
        BY <1>1, <3>1, <3>2, CurrentItemFits DEF ProgramInv, MachineTypeOK
      <4>2. strays \subseteq strays'
        BY StraysStay
      <4>3. packages[CurrentItem.target] # Absent /\ packages'[CurrentItem.target] = Absent
            => CurrentItem.target \in strays'
        BY <1>1, <3>1, <4>1, PackagesGo
      <4> QED BY <1>1, <3>1, <3>2, <4>2, <4>3 DEF ItemFresh, W!Installed
    <3>3. CASE CurrentItem.handler # "winget"
      BY <1>1, <3>1, <3>3 DEF ItemFresh
    <3> QED BY <3>2, <3>3
  <2> QED BY <1>1, <2>1, <2>2, DotfileLabels
<1>2. ASSUME pc' = "apply", Row'.handler = "dotfile", (edits \cap DOMAIN sources)' = {}
      PROVE  call'.desired = sources'[CurrentItem'.src]
  <2>1. UNCHANGED sources /\ edits \cap DOMAIN sources = {}
    BY <1>2, SourcesStay
  <2>2. CASE UNCHANGED allVars \/ Around
    BY <1>2, <1>same, <2>1, <2>2 DEF ItemFresh, CurrentItem
  <2>3. CASE Within
    <3>1. UNCHANGED <<pc, profile, seq, Row>>
      BY <2>3, WithinLeaves
    <3>2. DotfileBacksUp \/ DotfileWrites
      BY <1>2, <2>3, <3>1 DEF Within, WingetInstalls, ScriptSpawns, DotfileUndoes, WingetRemoves,
                              ScriptUndoSpawns, Undoing, Calling
    <3>3. call'.desired = call.desired
      BY <3>2 DEF DotfileBacksUp, DotfileWrites, D!BackUp, D!NothingToBackUp, D!Write, ProgramInv, MachineTypeOK
    <3> QED BY <1>2, <2>1, <3>1, <3>3 DEF ItemFresh, CurrentItem
  <2>4. CASE PlanDotfile \/ PlanWinget \/ PlanScript
    <3>1. PlanDotfile
      BY <1>2, <2>4, RowPlanned DEF PlanWinget, PlanScript, ItemOf
    <3> QED BY <2>1, <3>1 DEF PlanDotfile, PlanSome, D!Planned, CurrentItem
  <2> QED BY <1>2, <2>2, <2>3, <2>4, DotfileLabels
<1>3. ASSUME pc' = "synthesize"
      PROVE  /\ probe' # Row'.before
             /\ Row'.handler = "dotfile" => probe' = files'[Row'.target]
  <2>1. CASE UNCHANGED allVars \/ Around
    BY <1>3, <1>same, <2>1 DEF ItemFresh
  <2>2. ASSUME NEW a \in DOMAIN acts, ReconcileCall(a)
        PROVE  /\ probe' # Row'.before
               /\ Row'.handler = "dotfile" => probe' = files'[Row'.target]
    <3>1. ReconcileApplied(a, Probe(acts[a].handler, acts[a].target))
      BY <1>3, <2>2 DEF ReconcileCall, ReconcileNeverRan, Goto
    <3> QED BY <2>2, <3>1
            DEF ReconcileCall, ReconcileApplied, Returned, machine, diskVars, storeVars, Row, Probe
  <2> QED BY <1>3, <2>1, <2>2, SynthesizeLabels
<1> QED BY <1>1, <1>2, <1>3 DEF ItemFresh

-----------------------------------------------------------------------------
(* Packages *)

\* A process of winget is about a package that a process was about, or about the row in
\* hand.
LEMMA WingetsMove ==
    ASSUME ProgramInv, [CandylaneNext]_allVars, NEW w \in wingets'
    PROVE  \/ \E v \in wingets : v.pkg = w.pkg
           \/ pc \in {"apply", "undo"} /\ Row.handler = "winget" /\ Row.target = w.pkg
<1>1. CASE Around
  BY <1>1 DEF Around, ScriptExits, WingetExits, W!Exit, Inside, packageVars, EditFile, EditSource, EditPackage
<1>2. CASE Within
  BY <1>2 DEF Within, DotfileBacksUp, DotfileWrites, ScriptSpawns, DotfileUndoes, ScriptUndoSpawns,
              WingetInstalls, WingetRemoves, W!Install, W!Remove, W!Spawn, Undoing, Calling, Inside, packageVars
<1>3. CASE Crashes
  <2>1. PICK v \in wingets : w = [v EXCEPT !.owner = "nobody"]
    BY <1>3 DEF Crashes, W!Orphan
  <2>2. v \in [pkg : DOMAIN InitialPackages, way : {"install", "uninstall"}, owner : {"engine", "nobody"}]
    BY DEF ProgramInv, MachineTypeOK
  <2> QED BY <2>1, <2>2
<1>4. CASE ScriptTimesOut \/ ScriptUndoTimesOut \/ PlanDotfile \/ Commands \/ CleanUp \/ UNCHANGED allVars
  BY <1>4 DEF ScriptTimesOut, ScriptUndoTimesOut, PlanDotfile, Commands, CleanUp, allVars, machine, packageVars
<1> QED BY <1>1, <1>2, <1>3, <1>4, ReturnsLeave, Kinds DEF Kills

\* Every step keeps the packages the user's or ours.
LEMMA PackagesOursStep ==
    ASSUME ProgramInv, CallFits, PackagesOurs, [CandylaneNext]_allVars, MachineTypeOK'
    PROVE  PackagesOurs'
<1>typed. DOMAIN packages = DOMAIN InitialPackages /\ DOMAIN packages' = DOMAIN InitialPackages
  BY DEF ProgramInv, MachineTypeOK
<1> SUFFICES ASSUME NEW p \in DOMAIN packages, p \notin edits'
             PROVE  /\ \/ packages'[p] = InitialPackages[p]
                       \/ InitialPackages[p] = Absent /\ packages'[p] \in Offers \cup {Absent}
                    /\ \A w \in wingets' : w.pkg = p => InitialPackages[p] = Absent
                    /\ \A a \in DOMAIN acts' :
                          (acts'[a].handler = "winget" /\ acts'[a].target = p /\ acts'[a].status # "skipped") =>
                              InitialPackages[p] = Absent
                    /\ pc' = "plan" /\ CurrentItem'.handler = "winget" /\ CurrentItem'.target = p =>
                          probe' = InitialPackages[p] \/ InitialPackages[p] = Absent
  BY <1>typed DEF PackagesOurs
<1>found. W!Probe(p) = packages[p] /\ Probe("winget", p) = packages[p]
  BY <1>typed, ProbeFindsPackage DEF Probe, ProgramInv
<1>ours. /\ packages[p] = InitialPackages[p] \/ (InitialPackages[p] = Absent /\ packages[p] \in Offers \cup {Absent})
         /\ \A w \in wingets : w.pkg = p => InitialPackages[p] = Absent
         /\ \A a \in DOMAIN acts :
               (acts[a].handler = "winget" /\ acts[a].target = p /\ acts[a].status # "skipped") =>
                   InitialPackages[p] = Absent
         /\ pc = "plan" /\ CurrentItem.handler = "winget" /\ CurrentItem.target = p =>
               probe = InitialPackages[p] \/ InitialPackages[p] = Absent
  BY StraysStay DEF PackagesOurs
<1>1. \/ packages'[p] = InitialPackages[p]
      \/ InitialPackages[p] = Absent /\ packages'[p] \in Offers \cup {Absent}
  <2>1. CASE packages'[p] # packages[p]
    <3>1. packages'[p] \in Offers \cup {Absent} /\ \E w \in wingets : w.pkg = p
      BY <2>1, PackagesMove
    <3> QED BY <1>ours, <3>1
  <2> QED BY <1>ours, <2>1
<1>2. ASSUME NEW w \in wingets', w.pkg = p PROVE InitialPackages[p] = Absent
  <2>1. CASE \E v \in wingets : v.pkg = w.pkg
    BY <1>2, <1>ours, <2>1
  <2>2. CASE pc \in {"apply", "undo"} /\ Row.handler = "winget" /\ Row.target = p
    <3>1. act \in DOMAIN acts /\ Row = acts[act] /\ acts[act].status # "skipped"
      BY <2>2, RowAtHand
      DEF Row, ProgramInv, IInv, HandInv, RowInHand, ListInHand, HighestSeq, AppliedActions
    <3> QED BY <1>ours, <2>2, <3>1
  <2> QED BY <1>2, <2>1, <2>2, WingetsMove
<1>3. ASSUME NEW a \in DOMAIN acts', acts'[a].handler = "winget", acts'[a].target = p,
             acts'[a].status # "skipped"
      PROVE  InitialPackages[p] = Absent
  <2>1. CASE UNCHANGED acts
    BY <1>3, <1>ours, <2>1
  <2>2. ASSUME NEW x \in DOMAIN acts, RowMoved(x) PROVE InitialPackages[p] = Absent
    BY <1>3, <1>ours, <2>2 DEF RowMoved, SameIdentity
  <2>3. CASE RowAdded
    <3>1. CASE a \in DOMAIN acts
      BY <1>3, <1>ours, <2>3, <3>1 DEF RowAdded
    <3>2. CASE a \notin DOMAIN acts
      <4>1. /\ pc = "plan" /\ pc' # "item"
            /\ CurrentItem.handler = "winget" /\ CurrentItem.target = p
        BY <1>3, <2>3, <3>2 DEF RowAdded
      <4> QED BY <1>ours, <2>3, <4>1, WingetPlanned
    <3> QED BY <3>1, <3>2
  <2> QED BY <2>1, <2>2, <2>3, ProgramStep, RowsMove DEF ProgramInv
<1>4. ASSUME pc' = "plan", CurrentItem'.handler = "winget", CurrentItem'.target = p
      PROVE  probe' = InitialPackages[p] \/ InitialPackages[p] = Absent
  <2>1. CASE CallProbe
    BY <1>4, <1>found, <1>ours, <2>1 DEF CallProbe, ProbeItem, CurrentItem
  <2>2. CASE UNCHANGED allVars
    BY <1>4, <1>ours, <2>2 DEF allVars, vars, procVars, locals, CurrentItem
  <2>3. CASE Around
    BY <1>4, <1>ours, <2>3, AroundLeaves DEF CurrentItem
  <2> QED BY <1>4, <2>1, <2>2, <2>3, DotfileLabels
<1> QED BY <1>1, <1>2, <1>3, <1>4

-----------------------------------------------------------------------------
(* The loop of pull *)

\* The steps of the loop: a process of winget ends, a step inside a call of apply, a row
\* recorded, a row applied, and those that change neither rows nor targets.
LEMMA LoopSteps ==
    ASSUME ProgramInv, [CandylaneNext]_allVars, pc \in Pulling, pc' \in Pulling
    PROVE  \/ UNCHANGED <<acts, files, packages>> /\ Recorded' = Recorded
           \/ WingetExits /\ UNCHANGED <<acts, files>> /\ Recorded' = Recorded
           \/ Within /\ pc = "apply" /\ pc' = "apply" /\ UNCHANGED seq
           \/ PlanSatisfied \/ PlanDotfile \/ PlanWinget \/ PlanScript
           \/ DotfileApplied \/ WingetApplied \/ ScriptApplied
<1>1. CASE Around
  BY <1>1, AroundLeaves DEF Recorded, Pulling
<1>2. CASE Within
  BY <1>2, WithinLeaves DEF Pulling
<1>3. CASE UNCHANGED allVars
  BY <1>3 DEF allVars, vars, storeVars, procVars, locals, machine, diskVars, packageVars, Recorded
<1>4. ~Commands /\ ~CleanUp
  BY DEF Commands, Start, StartPull, StartRevert, StartRecover, Enter, CleanUp, Cleanup, Pulling
<1>5. ~Kills
  BY DEF Kills, ScriptTimesOut, ScriptUndoTimesOut, Crashes, Crash, Return, ApplyErr, Undoing, Calling,
         Goto, Pulling
<1>6. CASE EngineStep
  <2>1. \E s, b : GateClear(s, b)
    BY <1>6
    DEF EngineStep, RebootStep, PreflightRefuses, BeginPull, GateAborts, LogStep, FinishPull, Return,
        NothingToRevert, RevertLast, NothingToRecover, BeginRecover, NothingInFlight, Rollback, NextUndo,
        RollbackDone, GiveUp, Finalize, Cleanup, Mirror, Goto, Pulling
  <2> QED BY <1>6, <2>1, ReturnsLeave DEF Returns, GateClear, Goto, Recorded, storeVars
<1>7. CASE Returns /\ ~EngineStep
  <2>1. CASE CallProbe
    BY <2>1, ReturnsLeave DEF Returns, CallProbe, ProbeItem, Goto, Recorded, storeVars
  <2> QED
    BY <1>7, <2>1
    DEF Returns, StoreErrs, StoreErr, ProbeErr, ItemErr, Return, PlanUnreadable, PlanUnsafe, ApplyFails,
        ApplyErr, Goto, DotfileUndone, WingetUndone, ScriptUndone, Undoing, Calling, UndoFails,
        ReconcileCall, InFlightRow, ReconcileProbeErr, ReconcileErr, SynthesizeDotfile, SynthesizeWinget,
        Pulling
<1> QED BY <1>1, <1>2, <1>3, <1>4, <1>5, <1>6, <1>7, Kinds

\* A call of apply changes its own target, as far as a probe can tell.
LEMMA OthersStay ==
    ASSUME ProgramInv, [CandylaneNext]_allVars, Within, NEW handler \in HandlerKind, NEW t,
           t # Row.target, handler = "dotfile" => t \in DOMAIN InitialFiles
    PROVE  Probe(handler, t)' = Probe(handler, t)
<1>1. pc # "idle" /\ UNCHANGED packages
  BY WithinLeaves
<1>2. handler = "dotfile" => files'[t] = files[t]
  BY <1>1, FilesMove DEF ProgramInv, MachineTypeOK
<1>3. CASE handler = "dotfile" \/ handler = "script"
  BY <1>2, <1>3 DEF Probe
<1>4. CASE handler = "winget"
  BY <1>1, <1>4 DEF Probe, W!Probe, W!List
<1> QED BY <1>3, <1>4 DEF HandlerKind

\* A row a pull applied before is overtaken by a later one of the same target.
LEMMA EarlierRows ==
    ASSUME ProgramInv, pc = "apply", NEW a \in AppliedActions(op)
    PROVE  /\ a # act /\ acts[a].seq < acts[act].seq
           /\ acts[a].target = Row.target => Overtaken(a)
<1>1. /\ a \in DOMAIN acts /\ acts[a].op = op /\ acts[a].status = "applied"
      /\ act \in DOMAIN acts /\ acts[act].op = op /\ acts[act].status = "pending" /\ Row = acts[act]
  BY RowAtHand DEF AppliedActions, ActionsOf, Row, ProgramInv, IInv, HandInv, RowInHand
<1>2. a # act /\ a <= act /\ a \in Nat /\ act \in Nat
  BY <1>1, LogRows DEF ProgramInv, IInv, LogInv, RowsOrdered
<1>3. acts[a].seq < acts[act].seq
  BY <1>1, <1>2 DEF ProgramInv, IInv, LogInv, RowsOrdered
<1> QED BY <1>1, <1>2, <1>3 DEF Overtaken, ActionsOf

\* What is overtaken stays so.
LEMMA OvertakenStays ==
    ASSUME DOMAIN acts \subseteq DOMAIN acts',
           \A b \in DOMAIN acts : SameIdentity(acts'[b], acts[b]),
           NEW a \in DOMAIN acts, Overtaken(a)
    PROVE  Overtaken(a)'
  BY DEF Overtaken, ActionsOf, SameIdentity

\* What plan returns is recorded of the item.
LEMMA PlansRecord ==
    ASSUME ProgramInv, PlanSatisfied \/ PlanDotfile \/ PlanWinget \/ PlanScript
    PROVE  /\ RowAdded /\ UNCHANGED <<files, sources, packages>>
           /\ Recorded' = IF PlanSatisfied THEN seq + 1 ELSE seq
<1>1. CASE PlanSatisfied
  <2>1. RowAdded
    BY <1>1, ItemRecorded DEF PlanSatisfied, PlanNone, Goto, ItemOf, ProgramInv
  <2> QED BY <1>1, <2>1 DEF PlanSatisfied, PlanNone, Goto, Recorded, Returned, machine, diskVars, packageVars
<1>2. CASE ~PlanSatisfied
  <2>1. RowAdded
    BY <1>2, RowPlanned
  <2> QED
    BY <1>2, <2>1
    DEF PlanDotfile, PlanWinget, PlanScript, PlanSome, Goto, Recorded, Returned, machine, diskVars, packageVars
<1> QED BY <1>1, <1>2

\* What winget lists is what is there.
LEMMA ProbesFindPackages ==
    MachineTypeOK => \A q \in DOMAIN InitialPackages : W!Probe(q) = packages[q]
  BY ProbeFindsPackage

LEMMA ProbesFindPackagesNext ==
    MachineTypeOK' => \A q \in DOMAIN InitialPackages : W!Probe(q)' = packages'[q]
<1>1. (MachineTypeOK => \A q \in DOMAIN InitialPackages : W!Probe(q) = packages[q])'
  BY ProbesFindPackages, PTL
<1> QED BY <1>1

\* Every step of the loop keeps the rows as recorded.
LEMMA RowsLandedStep ==
    ASSUME ProgramInv, CallFits, RowsLanded, [CandylaneNext]_allVars
    PROVE  RowsLanded'
<1> DEFINE Landed(x) == /\ acts[x].handler = "winget" => acts[x].after # Absent
                        /\ \/ acts[x].handler = "script"
                           \/ Overtaken(x) \/ StrayOn(x)
                           \/ acts[x].after = Probe(acts[x].handler, acts[x].target)
<1> SUFFICES ASSUME pc' \in Pulling, NEW a \in AppliedActions(op)'
             PROVE  Landed(a)'
  BY DEF RowsLanded
<1>1. ASSUME NEW s, NEW b, BeginPull(s, b) PROVE FALSE
  <2>1. op' = Len(ops) + 1 /\ acts' = acts
    BY <1>1 DEF BeginPull
  <2>2. \A x \in DOMAIN acts : acts[x].op \in DOMAIN ops
    BY DEF ProgramInv, IInv, LogInv, RowsRefer
  <2>3. Len(ops) \in Nat /\ DOMAIN ops = 1 .. Len(ops)
    BY LogRows DEF ProgramInv, IInv
  <2> QED BY <2>1, <2>2, <2>3 DEF AppliedActions, ActionsOf
<1>2. ASSUME pc \in Pulling, UNCHANGED op PROVE Landed(a)'
  <2>rows. \A x \in DOMAIN acts : acts[x] \in Action
    BY StoreRows DEF ProgramInv, IInv, TypeInv, TypeOK
  <2>landed. \A x \in AppliedActions(op) : Landed(x)
    BY <1>2 DEF RowsLanded
  <2>strays. \A x \in DOMAIN acts :
                SameIdentity(acts'[x], acts[x]) /\ StrayOn(x) => StrayOn(x)'
    BY StraysStay DEF StrayOn, SameIdentity
  <2>1. CASE UNCHANGED <<acts, files, packages>>
    <3>1. a \in AppliedActions(op) /\ a \in DOMAIN acts
      BY <1>2, <2>1 DEF AppliedActions, ActionsOf
    <3>2. Probe(acts[a].handler, acts[a].target)' = Probe(acts[a].handler, acts[a].target)
      BY <2>1 DEF Probe, W!Probe, W!List
    <3> QED BY <2>1, <2>landed, <2>strays, <3>1, <3>2 DEF Overtaken, ActionsOf, SameIdentity
  <2>2. CASE WingetExits /\ UNCHANGED <<acts, files>>
    <3>1. a \in AppliedActions(op) /\ a \in DOMAIN acts /\ acts[a].handler \in HandlerKind
      BY <1>2, <2>2, <2>rows DEF AppliedActions, ActionsOf, Action
    <3>2. Overtaken(a) => Overtaken(a)'
      BY <2>2 DEF Overtaken, ActionsOf
    <3>3. CASE acts[a].handler # "winget"
      <4>1. Probe(acts[a].handler, acts[a].target)' = Probe(acts[a].handler, acts[a].target)
        BY <2>2, <3>1, <3>3 DEF Probe, HandlerKind
      <4> QED BY <2>2, <2>landed, <2>strays, <3>1, <3>2, <4>1 DEF SameIdentity
    <3>4. CASE acts[a].handler = "winget"
      <4> DEFINE p == acts[a].target
      <4>1. /\ p \in DOMAIN packages
            /\ Probe("winget", p) = packages[p] /\ Probe("winget", p)' = packages'[p]
        <5>1. p \in DOMAIN InitialPackages
          BY <3>1, <3>4 DEF ProgramInv, LogFits, RowsOnMachine
        <5>2. \A q \in DOMAIN InitialPackages : W!Probe(q) = packages[q] /\ W!Probe(q)' = packages'[q]
          BY ProgramStep, ProbesFindPackages, ProbesFindPackagesNext DEF ProgramInv
        <5>3. DOMAIN packages = DOMAIN InitialPackages
          BY DEF ProgramInv, MachineTypeOK
        <5> QED BY <2>2, <5>1, <5>2, <5>3 DEF Probe
      <4>2. CASE packages'[p] = packages[p]
        BY <2>2, <2>landed, <2>strays, <3>1, <3>2, <3>4, <4>1, <4>2 DEF SameIdentity
      <4>3. CASE packages'[p] # packages[p]
        <5>1. \/ p \in strays'
              \/ pc = "apply" /\ Row.target = p
              \/ packages[p] = Absent
          BY <1>2, <4>1, <4>3, PackagesMove DEF Pulling
        <5>2. pc = "apply" /\ Row.target = p => Overtaken(a)
          BY <3>1, EarlierRows
        <5>3. Landed(a)
          BY <2>landed, <3>1
        <5>4. acts[a].after # Absent /\ (Overtaken(a) \/ StrayOn(a) \/ acts[a].after = packages[p])
          BY <3>4, <4>1, <5>3
        <5>5. Overtaken(a) \/ p \in strays'
          BY <5>1, <5>2, <5>4, StraysStay DEF StrayOn
        <5> QED BY <2>2, <3>2, <3>4, <5>4, <5>5 DEF StrayOn
      <4> QED BY <4>2, <4>3
    <3> QED BY <3>3, <3>4
  <2>3. CASE Within /\ pc = "apply"
    <3>1. UNCHANGED <<acts, op>> /\ a \in AppliedActions(op) /\ a \in DOMAIN acts
      BY <2>3, WithinLeaves DEF AppliedActions, ActionsOf
    <3>2. Overtaken(a) => Overtaken(a)'
      BY <3>1 DEF Overtaken, ActionsOf
    <3>3. CASE acts[a].target = Row.target
      <4>1. Overtaken(a) /\ Landed(a)
        BY <2>3, <2>landed, <3>1, <3>3, EarlierRows
      <4> QED BY <3>1, <3>2, <4>1
    <3>4. CASE acts[a].target # Row.target
      <4>1. acts[a].handler \in HandlerKind
        BY <2>rows, <3>1 DEF Action
      <4>2. Probe(acts[a].handler, acts[a].target)' = Probe(acts[a].handler, acts[a].target)
        BY <2>3, <3>1, <3>4, <4>1, OthersStay DEF ProgramInv, LogFits, RowsOnMachine
      <4> QED BY <2>landed, <2>strays, <3>1, <3>2, <4>2 DEF SameIdentity
    <3> QED BY <3>3, <3>4
  <2>4. CASE PlanSatisfied \/ PlanDotfile \/ PlanWinget \/ PlanScript
    <3>1. /\ UNCHANGED <<files, packages>> /\ DOMAIN acts \subseteq DOMAIN acts'
          /\ \A x \in DOMAIN acts : acts'[x] = acts[x]
          /\ a \in AppliedActions(op) /\ a \in DOMAIN acts
      BY <1>2, <2>4, PlansRecord DEF RowAdded, AppliedActions, ActionsOf
    <3>2. Overtaken(a) => Overtaken(a)'
      BY <3>1, OvertakenStays DEF SameIdentity
    <3>3. Probe(acts[a].handler, acts[a].target)' = Probe(acts[a].handler, acts[a].target)
      BY <3>1 DEF Probe, W!Probe, W!List
    <3> QED BY <2>landed, <2>strays, <3>1, <3>2, <3>3 DEF SameIdentity
  <2>5. CASE DotfileApplied \/ WingetApplied \/ ScriptApplied
    <3>1. /\ DOMAIN acts' = DOMAIN acts /\ act \in DOMAIN acts
          /\ \A x \in DOMAIN acts : x # act => acts'[x] = acts[x]
          /\ SameIdentity(acts'[act], acts[act])
          /\ acts[act].handler # "script" =>
                acts'[act].after = Probe(acts[act].handler, acts[act].target)
      BY <2>5, AppliedRow DEF Applies, CallFits, DotfileApplied, WingetApplied, ScriptApplied, Calling
    <3>2. UNCHANGED <<files, packages>>
      BY <2>5, ReturnsLeave DEF Returns
    <3>3. a \in DOMAIN acts /\ \A x \in DOMAIN acts : SameIdentity(acts'[x], acts[x])
      BY <3>1 DEF AppliedActions, ActionsOf, SameIdentity
    <3>4. Probe(acts[a].handler, acts[a].target)' = Probe(acts[a].handler, acts[a].target)
      BY <3>2, <3>3 DEF Probe, W!Probe, W!List, SameIdentity
    <3>5. CASE a = act
      <4>1. acts[act].handler = "winget" => acts'[act].after # Absent
        BY <2>5, <3>1
        DEF DotfileApplied, WingetApplied, ScriptApplied, Calling, W!Confirmed, W!Installed, Row, Probe
      <4> QED BY <3>1, <3>4, <3>5, <4>1 DEF SameIdentity
    <3>6. CASE a # act
      <4>1. acts'[a] = acts[a] /\ a \in AppliedActions(op)
        BY <1>2, <3>1, <3>3, <3>6 DEF AppliedActions, ActionsOf
      <4>2. Overtaken(a) => Overtaken(a)'
        BY <3>1, <3>3, OvertakenStays
      <4> QED BY <2>landed, <2>strays, <3>3, <3>4, <4>1, <4>2
    <3> QED BY <3>5, <3>6
  <2> QED BY <1>2, <2>1, <2>2, <2>3, <2>4, <2>5, LoopSteps
<1>3. (\E s, b : BeginPull(s, b)) \/ (pc \in Pulling /\ UNCHANGED op)
  BY ProgramStep, PullGoesOn
<1> QED BY <1>1, <1>2, <1>3

\* diff looks at the source and at what the probe finds.
LEMMA DiffProbes ==
    ProgramInv =>
        \A i \in DOMAIN profile :
            i \in Diff(profile) <=>
                \/ /\ profile[i].handler = "dotfile"
                   /\ Probe("dotfile", profile[i].target) # sources[profile[i].src]
                \/ /\ profile[i].handler = "winget"
                   /\ Probe("winget", profile[i].target) = Absent
                \/ profile[i].handler = "script"
<1> SUFFICES ASSUME ProgramInv, NEW i \in DOMAIN profile
             PROVE  i \in Diff(profile) <=>
                        \/ /\ profile[i].handler = "dotfile"
                           /\ Probe("dotfile", profile[i].target) # sources[profile[i].src]
                        \/ /\ profile[i].handler = "winget"
                           /\ Probe("winget", profile[i].target) = Absent
                        \/ profile[i].handler = "script"
  OBVIOUS
<1>1. profile[i].handler \in HandlerKind
  BY ProfileFits
<1> QED BY <1>1 DEF HandlerKind, Diff, Probe, D!Satisfied, W!Installed

\* What diff comes to list has lost its package, or its dotfile has changed.
LEMMA DiffMoves ==
    ASSUME ProgramInv, ProgramInv', UNCHANGED <<profile, sources>>,
           NEW i \in Diff(profile)', i \notin Diff(profile)
    PROVE  /\ i \in DOMAIN profile
           /\ \/ /\ profile[i].handler = "dotfile" /\ profile[i].target \in DOMAIN files
                 /\ files'[profile[i].target] # files[profile[i].target]
              \/ /\ profile[i].handler = "winget" /\ profile[i].target \in DOMAIN packages
                 /\ packages[profile[i].target] # Absent /\ packages'[profile[i].target] = Absent
<1>1. /\ i \in DOMAIN profile /\ profile[i].handler \in HandlerKind
      /\ profile[i].handler = "dotfile" => profile[i].target \in DOMAIN files
      /\ profile[i].handler = "winget" => profile[i].target \in DOMAIN packages
  BY ProfileFits DEF Diff, ProgramInv, MachineTypeOK
<1>2. profile[i].handler = "winget" =>
          /\ W!Probe(profile[i].target) = packages[profile[i].target]
          /\ W!Probe(profile[i].target)' = packages'[profile[i].target]
  BY <1>1, ProbesFindPackages, ProbesFindPackagesNext DEF ProgramInv, MachineTypeOK, W!Probe, W!List
<1> QED BY <1>1, <1>2 DEF HandlerKind, Diff, D!Satisfied, W!Installed

\* An item just dealt with is as the profile wants it.
LEMMA ItemLands ==
    ASSUME ProgramInv, CallFits, ItemFresh, edits \cap DOMAIN sources = {},
           PlanSatisfied \/ DotfileApplied \/ WingetApplied \/ ScriptApplied
    PROVE  /\ seq + 1 \in DOMAIN profile
           /\ Excused(profile, seq + 1) \/ seq + 1 \notin Diff(profile)
<1>1. seq + 1 \in DOMAIN profile
  <2>1. seq < Len(profile)
    BY DEF PlanSatisfied, ItemOf, PlanNone, DotfileApplied, WingetApplied, ScriptApplied, Calling,
           ProgramInv, IInv, TypeInv, Control
  <2> QED BY <2>1, ProfileFits
<1>2. CASE PlanSatisfied
  <2>1. CASE CurrentItem.handler = "dotfile"
    <3>1. files[CurrentItem.target] = sources[CurrentItem.src]
      BY <1>2, <2>1 DEF PlanSatisfied, ItemOf, D!Satisfied, ItemFresh
    <3> QED BY <1>1, <2>1, <3>1, DiffProbes DEF CurrentItem, Probe
  <2>2. CASE CurrentItem.handler = "winget"
    <3>1. packages[CurrentItem.target] # Absent \/ CurrentItem.target \in strays
      BY <1>2, <2>2 DEF PlanSatisfied, ItemOf, W!Installed, ItemFresh
    <3>2. Probe("winget", CurrentItem.target) = packages[CurrentItem.target]
      BY <1>1, <2>2, ProfileFits, ProbeFindsPackage DEF CurrentItem, Probe, ProgramInv
    <3> QED BY <1>1, <2>2, <3>1, <3>2, DiffProbes DEF CurrentItem, Excused
  <2> QED BY <1>2, <2>1, <2>2 DEF PlanSatisfied, ItemOf
<1>3. CASE DotfileApplied \/ WingetApplied \/ ScriptApplied
  <2>1. CurrentItem.handler = Row.handler /\ CurrentItem.target = Row.target
    BY <1>3, ItemAtHand DEF DotfileApplied, WingetApplied, ScriptApplied, Calling, ProgramInv, LogFits
  <2>2. \/ Row.handler = "dotfile" /\ files[Row.target] = sources[CurrentItem.src]
        \/ Row.handler = "winget" /\ W!Probe(Row.target) # Absent
        \/ Row.handler = "script"
    BY <1>3 DEF DotfileApplied, WingetApplied, ScriptApplied, Calling, D!Confirmed, W!Confirmed, W!Installed,
                ItemFresh
  <2> QED BY <1>1, <2>1, <2>2, DiffProbes DEF CurrentItem, Probe, Excused
<1> QED BY <1>1, <1>2, <1>3

\* An excuse holds on.
LEMMA ExcusesStay ==
    ASSUME [CandylaneNext]_allVars, UNCHANGED profile, NEW i, Excused(profile, i)
    PROVE  Excused(profile, i)'
  BY StraysStay DEF Excused

\* Every step of the loop keeps the items dealt with as the profile wants them.
LEMMA ItemsLandedStep ==
    ASSUME ProgramInv, ProgramInv', CallFits, ItemFresh, ItemsLanded, [CandylaneNext]_allVars
    PROVE  ItemsLanded'
<1> SUFFICES ASSUME pc' \in Pulling, (edits \cap DOMAIN sources)' = {},
                    NEW i \in (Diff(profile) \cap (1 .. Recorded))'
             PROVE  Excused(profile, i)'
  BY DEF ItemsLanded
<1>1. ASSUME NEW s, NEW b, BeginPull(s, b) PROVE FALSE
  <2>1. Recorded' = 0
    BY <1>1 DEF BeginPull, Goto, Recorded, ProgramInv, IInv, TypeInv, Control, NoOpYet
  <2> QED BY <2>1
<1>2. ASSUME pc \in Pulling, UNCHANGED profile PROVE Excused(profile, i)'
  <2>sources. UNCHANGED sources /\ edits \cap DOMAIN sources = {}
    BY SourcesStay
  <2>done. i \in Diff(profile) /\ i \in 1 .. Recorded => Excused(profile, i)'
    BY <1>2, <2>sources, ExcusesStay DEF ItemsLanded
  <2>seq. seq \in Nat /\ i \in 1 .. Recorded' /\ i \in Nat
    BY ProfileFits DEF Recorded, ProgramInv, IInv, TypeInv, TypeOK
  <2>1. CASE i \notin Diff(profile)
    <3>1. CASE profile[i].handler = "winget"
      <4>1. profile[i].target \in strays'
        BY <1>2, <2>sources, <2>1, <3>1, DiffMoves, PackagesGo DEF Pulling
      <4> QED BY <1>2, <3>1, <4>1 DEF Excused
    <3>2. CASE profile[i].handler # "winget"
      <4>1. /\ i \in DOMAIN profile /\ profile[i].target \in DOMAIN files
            /\ files'[profile[i].target] # files[profile[i].target]
        BY <1>2, <2>sources, <2>1, <3>2, DiffMoves
      <4>2. Row.target = profile[i].target /\ DotfileWrites /\ pc = "apply"
        BY <1>2, <4>1, FilesMove DEF Pulling, DotfileUndoes, DotfileWrites, Undoing, Calling
      <4>3. i \in 1 .. seq /\ CurrentItem.target = Row.target /\ seq + 1 \in DOMAIN profile
        <5>1. UNCHANGED <<pc, seq>> /\ seq < Len(profile)
          BY <4>2, WithinLeaves DEF Within, ProgramInv, IInv, TypeInv, Control
        <5> QED BY <2>seq, <4>2, <5>1, ItemAtHand, ProfileFits DEF Recorded, ProgramInv, LogFits
      <4> QED BY <1>2, <2>seq, <4>1, <4>2, <4>3 DEF Excused, CurrentItem
    <3> QED BY <3>1, <3>2
  <2>2. CASE i \in Diff(profile) /\ Recorded' = Recorded
    BY <2>done, <2>seq, <2>2
  <2>3. CASE PlanSatisfied \/ DotfileApplied \/ WingetApplied \/ ScriptApplied
    <3>1. Recorded = seq /\ Recorded' = seq + 1
      BY <2>3
      DEF PlanSatisfied, PlanNone, DotfileApplied, WingetApplied, ScriptApplied, ApplyOk, Goto, Recorded
    <3>2. Excused(profile, seq + 1) \/ seq + 1 \notin Diff(profile)
      BY <2>3, <2>sources, ItemLands
    <3>3. CASE i = seq + 1
      BY <1>2, <2>1, <3>2, <3>3, ExcusesStay
    <3>4. CASE i # seq + 1
      BY <2>1, <2>done, <2>seq, <3>1, <3>4
    <3> QED BY <3>3, <3>4
  <2>4. Recorded' = Recorded \/ PlanSatisfied \/ DotfileApplied \/ WingetApplied \/ ScriptApplied
    <3>1. PlanDotfile \/ PlanWinget \/ PlanScript => Recorded' = Recorded
      BY DEF PlanDotfile, PlanWinget, PlanScript, PlanSome, Goto, Recorded
    <3>2. Within /\ pc = "apply" /\ pc' = "apply" /\ UNCHANGED seq => Recorded' = Recorded
      BY DEF Recorded
    <3> QED BY <1>2, <3>1, <3>2, LoopSteps
  <2> QED BY <2>1, <2>2, <2>3, <2>4
<1>3. (\E s, b : BeginPull(s, b)) \/ (pc \in Pulling /\ UNCHANGED profile)
  BY ProgramStep, PullGoesOn
<1> QED BY <1>1, <1>2, <1>3

-----------------------------------------------------------------------------
(* The rollback of a pull *)

\* Its rollback follows the loop, and goes on with the same profile.
LEMMA RollbackGoesOn ==
    ASSUME IInv, [Next]_vars, pc' \in {"rollback", "next_undo", "undo"}, cmd' = "pull"
    PROVE  /\ pc \in {"apply", "gate", "rollback", "next_undo", "undo"}
           /\ UNCHANGED <<cmd, profile, op, seq>>
<1>1. pc \in {"last_applied", "unfinished", "reconcile", "synthesize"} => cmd # "pull"
  BY DEF IInv, TypeInv, Control
<1> QED
  BY <1>1
  DEF vars, procVars, locals, storeVars, Goto, Next, Start, StartPull, StartRevert, StartRecover, Enter,
      Run, Crash, StoreErr, Return, HandlerStep, ProbeItem, ItemErr, PlanNone, PlanSome,
      ApplyOk, ApplyErr, ReconcileNeverRan, ReconcileApplied, Synthesize, ReconcileErr, UndoOk,
      UndoErr, Settle, RebootStep, PreflightRefuses, BeginPull, GateClear, GateAborts, LogStep, FinishPull,
      NothingToRevert, RevertLast, NothingToRecover, BeginRecover, NothingInFlight, Rollback,
      NextUndo, RollbackDone, GiveUp, Finalize, Cleanup, Mirror

\* A rollback that has taken back scripts at most did not take back more before.
LEMMA ScriptsFirstBefore ==
    ASSUME ProgramInv, [CandylaneNext]_allVars, ScriptsFirst', pc \in {"rollback", "next_undo", "undo"}
    PROVE  ScriptsFirst
<1>1. UNCHANGED <<cmd, op>> /\ cmd = "pull"
  BY ProgramStep, RollbackGoesOn DEF ScriptsFirst, ProgramInv
<1>2. UNCHANGED acts \/ \E x \in DOMAIN acts : RowMoved(x)
  BY ProgramStep, RowsMove DEF ProgramInv, RowAdded
<1>3. ASSUME NEW a \in ActionsOf(op), acts[a].handler # "script"
      PROVE  acts[a].status \in {"applied", "skipped"} /\ acts'[a].status \in {"applied", "skipped"}
  <2>1. a \in ActionsOf(op)' /\ acts'[a].handler = acts[a].handler
    BY <1>1, <1>2 DEF ActionsOf, RowMoved, SameIdentity
  <2>2. acts'[a].status \in {"applied", "skipped"} /\ a \in DOMAIN acts
    BY <1>3, <2>1 DEF ScriptsFirst, ActionsOf
  <2> QED BY <1>2, <2>2 DEF RowMoved
<1>4. ASSUME pc = "undo" PROVE Row.handler = "script"
  <2>1. /\ act \in DOMAIN acts /\ acts[act].op = op /\ acts[act].status = "applied" /\ Row = acts[act]
    BY <1>4, RowAtHand
    DEF Row, ProgramInv, IInv, HandInv, RowInHand, ListInHand, HighestSeq, AppliedActions, ActionsOf
  <2>2. CASE UNCHANGED <<pc, act>>
    BY <1>2, <1>4, <2>1, <2>2 DEF ScriptsFirst, Row, RowMoved, SameIdentity
  <2>3. CASE ~UNCHANGED <<pc, act>>
    <3>1. \E status \in {"reverted", "undo_skipped", "undo_failed"} : Settle(status)
      <4>1. [Next]_vars /\ pc' \in {"rollback", "next_undo", "undo"}
        BY ProgramStep DEF ScriptsFirst
      <4> QED
        BY <1>4, <2>3, <4>1
        DEF vars, procVars, locals, storeVars, Goto, Next, Start, StartPull, StartRevert, StartRecover, Enter,
            Run, Crash, StoreErr, Return, HandlerStep, ProbeItem, ItemErr, PlanNone, PlanSome,
            ApplyOk, ApplyErr, ReconcileNeverRan, ReconcileApplied, Synthesize, ReconcileErr, UndoOk,
            UndoneStatus, UndoErr, RebootStep, PreflightRefuses, BeginPull, GateClear, GateAborts, LogStep,
            FinishPull, NothingToRevert, RevertLast, NothingToRecover, BeginRecover, NothingInFlight,
            Rollback, NextUndo, RollbackDone, GiveUp, Finalize, Cleanup, Mirror
    <3>2. acts'[act].status \in {"reverted", "undo_skipped", "undo_failed"}
      BY <2>1, <3>1, SetActionStatusFacts DEF Settle, ActionStatus, ProgramInv, IInv, TypeInv, TypeOK
    <3> QED BY <1>3, <2>1, <3>2 DEF ActionsOf
  <2> QED BY <2>2, <2>3
<1> QED BY <1>1, <1>3, <1>4 DEF ScriptsFirst

\* What the scripts ran on top of stays while they are taken back.
LEMMA ScriptsLandedStep ==
    ASSUME ProgramInv, ProgramInv', CallFits, ItemsLanded, ScriptsLanded, [CandylaneNext]_allVars
    PROVE  ScriptsLanded'
<1> SUFFICES ASSUME ScriptsFirst', (edits \cap DOMAIN sources)' = {},
                    NEW i \in (Diff(profile) \cap (1 .. seq))'
             PROVE  Excused(profile, i)'
  BY DEF ScriptsLanded
<1>1. /\ pc \in {"apply", "gate", "rollback", "next_undo", "undo"}
      /\ UNCHANGED <<cmd, profile, op, seq>> /\ cmd = "pull"
      /\ pc' \in {"rollback", "next_undo", "undo"}
  BY ProgramStep, RollbackGoesOn DEF ScriptsFirst, ProgramInv
<1>2. UNCHANGED sources /\ edits \cap DOMAIN sources = {}
  BY SourcesStay
<1>3. pc = "undo" => Row.handler = "script"
  BY ScriptsFirstBefore DEF ScriptsFirst
<1>4. CASE i \in Diff(profile)
  <2>1. CASE pc \in {"apply", "gate"}
    <3>1. i \in 1 .. Recorded
      BY <1>1, <2>1, ProfileFits DEF Recorded
    <3> QED BY <1>1, <1>2, <1>4, <2>1, <3>1, ExcusesStay DEF ItemsLanded, Pulling
  <2>2. CASE pc \in {"rollback", "next_undo", "undo"}
    <3>1. ScriptsFirst
      BY <2>2, ScriptsFirstBefore
    <3> QED BY <1>1, <1>2, <1>4, <3>1, ExcusesStay DEF ScriptsLanded
  <2> QED BY <1>1, <2>1, <2>2
<1>5. CASE i \notin Diff(profile)
  <2>1. CASE profile[i].handler = "winget"
    <3>1. profile[i].target \in strays'
      BY <1>1, <1>2, <1>3, <1>5, <2>1, DiffMoves, PackagesGo
    <3> QED BY <1>1, <2>1, <3>1 DEF Excused
  <2>2. CASE profile[i].handler # "winget"
    <3>1. /\ profile[i].target \in DOMAIN files
          /\ files'[profile[i].target] # files[profile[i].target]
      BY <1>1, <1>2, <1>5, <2>2, DiffMoves
    <3>2. Row.handler = "dotfile" /\ (DotfileWrites \/ DotfileUndoes)
      BY <1>1, <3>1, FilesMove
    <3>3. pc' = pc
      BY <3>2, WithinLeaves DEF Within
    <3> QED BY <1>1, <1>3, <3>2, <3>3 DEF DotfileWrites, DotfileUndoes, Undoing, Calling
  <2> QED BY <2>1, <2>2
<1> QED BY <1>4, <1>5

-----------------------------------------------------------------------------
(* The invariant of the program, with its history *)

LEMMA HistoryFitsInit == CandylaneInit => HistoryFits
<1> SUFFICES ASSUME CandylaneInit PROVE HistoryFits
  OBVIOUS
<1>1. pc = "idle" /\ files = InitialFiles /\ packages = InitialPackages /\ wingets = {}
  BY DEF CandylaneInit, Init, MachineInit
<1>2. EffectsExplained
  BY <1>1 DEF EffectsExplained
<1>3. ItemFresh /\ RowsLanded /\ ItemsLanded /\ ScriptsLanded
  BY <1>1 DEF ItemFresh, RowsLanded, ItemsLanded, ScriptsLanded, ScriptsFirst, Pulling
<1>4. PackagesOurs
  <2>1. DOMAIN acts = {}
    BY LenProperties DEF CandylaneInit, Init, StoreInit
  <2> QED BY <1>1, <2>1 DEF PackagesOurs
<1> QED BY <1>2, <1>3, <1>4 DEF HistoryFits

LEMMA HistoryKeeps == CandylaneSpec => [](ProgramInv /\ CallFits /\ HistoryFits)
<1>1. ASSUME ProgramInv, CallFits, HistoryFits, [CandylaneNext]_allVars PROVE HistoryFits'
  <2>1. ProgramInv'
    BY <1>1, ProgramStep
  <2>2. EffectsExplained' /\ ItemFresh'
    BY <1>1, <2>1, EffectsExplainedStep, ItemFreshStep DEF HistoryFits, ProgramInv
  <2>3. RowsLanded' /\ ItemsLanded' /\ ScriptsLanded'
    BY <1>1, <2>1, RowsLandedStep, ItemsLandedStep, ScriptsLandedStep DEF HistoryFits
  <2>4. PackagesOurs'
    BY <1>1, <2>1, PackagesOursStep DEF HistoryFits, ProgramInv
  <2> QED BY <2>2, <2>3, <2>4 DEF HistoryFits
<1> QED BY <1>1, HistoryFitsInit, MachineKeeps, PTL DEF CandylaneSpec

-----------------------------------------------------------------------------
(* The theorems *)

\* The machine, the call on its way and the log agree at every statement of the program,
\* whatever a winget that outlived its engine does to a package: what the theorems on the
\* machine rest on.
THEOREM MachineInvariant == CandylaneSpec => []MachineInv
<1>1. ProgramInv /\ CallFits /\ HistoryFits => MachineInv
  BY DEF ProgramInv, MachineInv
<1> QED BY <1>1, HistoryKeeps, PTL

\* Whatever differs from the machine as it was found, and the user did not touch, is
\* on record: no crash, failed apply, reconcile or undo out of order, of any number of
\* operations on any profiles, leaves a change that history does not show.  The one
\* exception is a package that a winget changed after its engine had died, when no row
\* in flight was there to answer for it.
THEOREM ChangesOnRecord == CandylaneSpec => []EffectsOnRecord
<1>1. ProgramInv /\ CallFits /\ HistoryFits => EffectsOnRecord
  <2> SUFFICES ASSUME MachineTypeOK, EffectsExplained PROVE EffectsOnRecord
    BY DEF ProgramInv, HistoryFits
  <2>1. ASSUME NEW t \in DOMAIN files \ edits, files[t] # InitialFiles[t]
        PROVE  \E a \in DOMAIN acts : Answers(a, "dotfile", t)
    BY <2>1 DEF EffectsExplained, Explains, Answers, Probe
  <2>2. ASSUME NEW p \in DOMAIN packages \ (edits \cup strays), packages[p] # InitialPackages[p]
        PROVE  \E a \in DOMAIN acts : Answers(a, "winget", p)
    <3>1. Probe("winget", p) = packages[p]
      BY ProbeFindsPackage DEF Probe, MachineTypeOK
    <3> QED BY <2>2, <3>1 DEF EffectsExplained, Explains, Answers
  <2> QED BY <2>1, <2>2 DEF EffectsOnRecord
<1> QED BY <1>1, HistoryKeeps, PTL

\* When a script or its undo may run, its operation has taken back nothing of what the
\* script ran on top of; and in the process of the pull the packages and dotfiles before
\* it are on the machine as the profile wants them, but for a package that a winget left
\* over from a crash took away: the order of profile.rs holds of any profile.
THEOREM ScriptsStayOnTop == CandylaneSpec => []ScriptsOnTop
<1>1. ProgramInv /\ CallFits /\ HistoryFits => ScriptsOnTop
  <2> SUFFICES ASSUME ProgramInv, HistoryFits, pc \in {"apply", "undo"}, Row.handler = "script"
               PROVE  /\ \A a \in ActionsOf(op) : acts[a].handler # "script" =>
                            acts[a].status \in {"applied", "skipped"}
                      /\ cmd = "pull" /\ edits \cap DOMAIN sources = {} =>
                            \A i \in Diff(profile) \cap 1 .. seq : Excused(profile, i)
    BY DEF ScriptsOnTop
  <2>1. /\ act \in DOMAIN acts /\ acts[act].op = op /\ acts[act].handler = "script"
        /\ acts[act].status \in {"pending", "applied"}
    BY RowAtHand
    DEF Row, ProgramInv, IInv, HandInv, RowInHand, ListInHand, HighestSeq, AppliedActions, ActionsOf
  <2>2. \A a \in ActionsOf(op) : acts[a].handler # "script" => acts[a].status \in {"applied", "skipped"}
    BY <2>1 DEF ProgramInv, LogFits, ScriptsOrdered, ActionsOf
  <2>3. pc = "apply" /\ edits \cap DOMAIN sources = {} =>
            \A i \in Diff(profile) \cap 1 .. seq : Excused(profile, i)
    BY DEF HistoryFits, ItemsLanded, Pulling, Recorded
  <2>4. pc = "undo" /\ cmd = "pull" /\ edits \cap DOMAIN sources = {} =>
            \A i \in Diff(profile) \cap 1 .. seq : Excused(profile, i)
    BY <2>2 DEF HistoryFits, ScriptsLanded, ScriptsFirst
  <2> QED BY <2>2, <2>3, <2>4
<1> QED BY <1>1, HistoryKeeps, PTL

\* What the last step of a pull finds.
LEMMA PullEnds ==
    ASSUME ProgramInv, HistoryFits, [CandylaneNext]_allVars, cmd = "pull", ret # "ok", ret' = "ok"
    PROVE  /\ \A a \in AppliedActions(op) : SyncState(a) = "drifted" => Overtaken(a) \/ StrayOn(a)
           /\ edits \cap DOMAIN sources = {} => \A i \in Diff(profile) : Excused(profile, i)
<1>1. pc = "item" /\ seq = Len(profile)
  BY ProgramStep, Successes DEF ProgramInv, FinishPull
<1>2. ASSUME NEW a \in AppliedActions(op), SyncState(a) = "drifted" PROVE Overtaken(a) \/ StrayOn(a)
  <2>1. /\ acts[a].handler = "script" => Probe(acts[a].handler, acts[a].target) = Null
        /\ acts[a].after # Probe(acts[a].handler, acts[a].target)
        /\ Probe(acts[a].handler, acts[a].target) # Null
    BY <1>2 DEF SyncState, Probe
  <2> QED BY <1>1, <1>2, <2>1 DEF HistoryFits, RowsLanded, Pulling
<1>3. Diff(profile) \subseteq 1 .. Recorded
  BY <1>1, ProfileFits DEF Diff, Recorded
<1> QED BY <1>1, <1>2, <1>3 DEF HistoryFits, ItemsLanded, Pulling

\* A package that was on the machine before the first pull is the user's: nothing that is
\* pulled, fails, crashes, is recovered or reverted changes it, and no winget left behind.
THEOREM FoundPackagesStay ==
    CandylaneSpec =>
        [](\A p \in DOMAIN packages \ edits :
              InitialPackages[p] # Absent => packages[p] = InitialPackages[p])
<1>1. HistoryFits => \A p \in DOMAIN packages \ edits :
                        InitialPackages[p] # Absent => packages[p] = InitialPackages[p]
  BY DEF HistoryFits, PackagesOurs
<1> QED BY <1>1, HistoryKeeps, PTL

\* A pull that reports success has brought about what it recorded, and a diff of its
\* profile finds nothing left to do but the scripts, items a later one overrode, and
\* packages that a winget left over from a crash has changed behind the engine's back.
THEOREM PullsLand == CandylaneSpec => PullLands
<1>1. ProgramInv /\ HistoryFits /\ [CandylaneNext]_allVars
      => [(cmd = "pull" /\ ret # "ok" /\ ret' = "ok") =>
           /\ \A a \in AppliedActions(op) : SyncState(a) = "drifted" =>
                 Overtaken(a) \/ (acts[a].handler = "winget" /\ acts[a].target \in strays)
           /\ edits \cap DOMAIN sources = {} => \A i \in Diff(profile) : Excused(profile, i)]_allVars
  BY PullEnds DEF StrayOn
<1> QED BY <1>1, HistoryKeeps, PTL DEF CandylaneSpec, PullLands

\* Profiles that name every target once.
TargetsApart ==
    \A p \in Profiles : \A i, j \in DOMAIN p : i # j => p[i].target # p[j].target

\* Then no row of an operation overtakes another.
LEMMA NothingOvertaken ==
    ASSUME ProgramInv, TargetsApart, NEW a \in DOMAIN acts, Overtaken(a)
    PROVE  FALSE
<1>1. PICK b \in DOMAIN acts :
         acts[b].op = acts[a].op /\ acts[b].seq > acts[a].seq /\ acts[b].target = acts[a].target
  BY DEF Overtaken, ActionsOf
<1>2. PICK p \in Profiles : Follows(a, p) /\ Follows(b, p)
  BY <1>1 DEF ProgramInv, LogFits, RowsOfOneProfile
<1>3. acts[a].seq \in Nat /\ acts[b].seq \in Nat
  BY LogRows DEF ProgramInv, IInv
<1> QED BY <1>1, <1>2, <1>3 DEF TargetsApart, Follows

\* What the comment in finalize_op says of a manual retry after revert_failed is true of
\* profiles that name every target once: whoever retries finds every original.
THEOREM RetriesHaveOriginals == CandylaneSpec => [](TargetsApart => RetryHasOriginals)
<1>1. ProgramInv /\ CallFits => (TargetsApart => RetryHasOriginals)
  BY NothingOvertaken DEF CallFits, OriginalsKept, RetryHasOriginals
<1> QED BY <1>1, MachineKeeps, PTL

\* And a pull of such a profile that reports success leaves nothing drifted, and nothing
\* for diff to show but the scripts, unless a winget that outlived a crash changed a package.
THEOREM PullsLandWhole ==
    CandylaneSpec =>
        [][(TargetsApart /\ strays = {} /\ cmd = "pull" /\ ret # "ok" /\ ret' = "ok") =>
             /\ \A a \in AppliedActions(op) : SyncState(a) # "drifted"
             /\ edits \cap DOMAIN sources = {} =>
                   \A i \in Diff(profile) : profile[i].handler = "script"]_allVars
<1>1. ProgramInv /\ HistoryFits /\ [CandylaneNext]_allVars
      => [(TargetsApart /\ strays = {} /\ cmd = "pull" /\ ret # "ok" /\ ret' = "ok") =>
           /\ \A a \in AppliedActions(op) : SyncState(a) # "drifted"
           /\ edits \cap DOMAIN sources = {} =>
                 \A i \in Diff(profile) : profile[i].handler = "script"]_allVars
  <2> SUFFICES ASSUME ProgramInv, HistoryFits, [CandylaneNext]_allVars, TargetsApart, strays = {},
                      cmd = "pull", ret # "ok", ret' = "ok"
               PROVE  /\ \A a \in AppliedActions(op) : SyncState(a) # "drifted"
                      /\ edits \cap DOMAIN sources = {} =>
                            \A i \in Diff(profile) : profile[i].handler = "script"
    OBVIOUS
  <2>1. \A a \in AppliedActions(op) : ~Overtaken(a) /\ ~StrayOn(a)
    BY NothingOvertaken DEF AppliedActions, ActionsOf, StrayOn
  <2>2. \A i, j \in DOMAIN profile : j > i => profile[j].target # profile[i].target
    <3>1. profile \in Profiles /\ DOMAIN profile = 1 .. Len(profile)
      BY ProfileFits DEF ProgramInv, LogFits, ItemInHand
    <3> QED BY <3>1 DEF TargetsApart
  <2>3. Diff(profile) \subseteq DOMAIN profile
    BY DEF Diff
  <2> QED BY <2>1, <2>2, <2>3, PullEnds DEF Excused
<1> QED BY <1>1, HistoryKeeps, PTL DEF CandylaneSpec
=============================================================================
