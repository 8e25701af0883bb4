------------------------- MODULE CandylaneInvariant -------------------------
(***************************************************************************)
(* What Candylane keeps besides the invariant of Engine: the machine has   *)
(* its types, and at every label the machine, the handler call and the     *)
(* log's rows agree.  Together with IInv it is inductive.                  *)
(***************************************************************************)
EXTENDS Candylane, EngineInvariant

Contents == ProbeValues["dotfile"]
Versions == ProbeValues["winget"]

\* The types of the machine.
MachineTypeOK ==
    /\ files \in [DOMAIN InitialFiles -> Contents]
    /\ sources \in [DOMAIN InitialSources -> Contents]
    /\ backups \in [1 .. MaxOps -> [DOMAIN InitialFiles -> Contents]]
    /\ packages \in [DOMAIN InitialPackages -> Versions]
    /\ wingets \subseteq [pkg : DOMAIN InitialPackages, way : {"install", "uninstall"},
                         owner : {"engine", "nobody"}]
    /\ strays \subseteq DOMAIN InitialPackages
    /\ done \subseteq Targets
    /\ running \subseteq [script : Targets, way : {"run", "undo"}, owner : {"engine", "nobody"}]
    /\ call \in [step : {"start", "backed_up", "written", "undone", "spawned"},
                 desired : Contents, undo : Recipes \cup {NoRecipe}]
    /\ call.step \in {"backed_up", "written"} => call.undo \in Recipes
    /\ edits \subseteq DOMAIN files \cup DOMAIN sources \cup DOMAIN packages

\* A command that will open an operation has room for it.
OpsBounded ==
    /\ Len(ops) <= MaxOps
    /\ pc \in {"preflight", "unfinished"} => Len(ops) < MaxOps

\* The profile in hand is one of the user's, or none; the row in hand is its item's.
ItemInHand ==
    /\ cmd = "pull" => profile \in Profiles
    /\ pc = "apply" => acts[act].handler = CurrentItem.handler

\* No call outlives its label, and each handler's calls take its own steps.
CallInHand ==
    /\ pc \notin {"apply", "undo"} => call = NoCall
    /\ pc \in {"apply", "undo"} =>
          CASE Row.handler = "dotfile" ->
                  call.step \in (IF pc = "apply" THEN {"start", "backed_up", "written"}
                                 ELSE {"start", "undone"})
            [] Row.handler \in {"winget", "script"} -> call.step \in {"start", "spawned"}
    /\ pc = "undo" /\ call.step # "start" => tries < MaxUndoAttempts

\* The rows a handler has are about things of the machine.
RowsOnMachine ==
    \A a \in DOMAIN acts :
        /\ acts[a].handler = "dotfile" => acts[a].target \in DOMAIN InitialFiles
        /\ acts[a].handler = "winget"  => acts[a].target \in DOMAIN InitialPackages

\* Statuses of a row that has, or had, a recipe.
WithRecipe == {"applied", "reverted", "undo_failed", "undo_skipped"}

\* A recipe leads back to what the probe found before the pull.
RecipesTrue ==
    \A a \in DOMAIN acts :
        /\ acts[a].handler = "dotfile" /\ acts[a].status \in WithRecipe =>
              \/ acts[a].undo = D!Noop
              \/ acts[a].undo = D!Delete /\ acts[a].before = Absent
              \/ acts[a].undo = D!Restore(acts[a].before)
        /\ acts[a].handler = "winget" =>
              /\ acts[a].status # "skipped" => acts[a].before = Absent
              /\ acts[a].status \in WithRecipe => acts[a].undo = W!Uninstall(Absent)

\* A dotfile between its probe and its record: only the call touches it.
DotfileInHand ==
    /\ pc = "plan" /\ CurrentItem.handler = "dotfile" => probe = files[CurrentItem.target]
    /\ pc = "apply" /\ Row.handler = "dotfile" =>
          /\ call.step \in {"start", "backed_up"} => files[Row.target] = Row.before
          /\ call.step \in {"backed_up", "written"} =>
                IF Row.before = Absent THEN call.undo = D!Delete
                ELSE /\ call.undo = D!Restore(Row.before)
                     /\ backups[op][Row.target] = Row.before
    /\ pc = "undo" /\ Row.handler = "dotfile" /\ call.step = "undone" =>
          files[Row.target] = Row.before

\* A process the engine owns is the one its call waits for.
ScriptInHand ==
    S!Owned # {} =>
        /\ pc \in {"apply", "undo"} /\ Row.handler = "script" /\ call.step = "spawned"
        /\ pc = "undo" => Row.undo = S!RunUndo

WingetInHand ==
    \A w \in W!Owned :
        /\ pc \in {"apply", "undo"} /\ Row.handler = "winget" /\ call.step = "spawned"
        /\ w.pkg = Row.target
        /\ w.way = IF pc = "apply" THEN "install" ELSE "uninstall"
        /\ pc = "undo" => ~Row.undo.wasPresent

\* In every operation the scripts come last, and as long as one of them may have an
\* effect, what it was run on top of stays.
ScriptsOrdered ==
    \A a, b \in DOMAIN acts :
        (acts[a].op = acts[b].op /\ acts[a].handler = "script" /\ acts[b].handler # "script") =>
            /\ acts[b].seq < acts[a].seq
            /\ acts[a].status \in {"pending", "applied"} => acts[b].status \in {"applied", "skipped"}

\* A row about an item of a profile, the one its seq counts.
Follows(a, p) ==
    /\ acts[a].seq + 1 \in DOMAIN p
    /\ acts[a].handler = p[acts[a].seq + 1].handler
    /\ acts[a].target = p[acts[a].seq + 1].target

\* The rows of an operation are about the items of one profile, the one in hand if the
\* operation is.
RowsOfOneProfile ==
    /\ pc \in Pulling => \A a \in ActionsOf(op) : Follows(a, profile)
    /\ \A a, b \in DOMAIN acts : acts[a].op = acts[b].op =>
          \E p \in Profiles : Follows(a, p) /\ Follows(b, p)

\* Only of a script does the log say that nothing takes it back.
OneWayScripts == \A a \in DOMAIN acts : acts[a].undoKind = "one_way" => acts[a].handler = "script"

\* What the log of Engine keeps for the machine's sake, whatever the handlers answer.
LogFits == OpsBounded /\ ItemInHand /\ RowsOnMachine /\ RowsOfOneProfile /\ ScriptsOrdered
           /\ OneWayScripts

\* What the handlers know of the log and the machine.
CallFits ==
    CallInHand /\ RecipesTrue /\ DotfileInHand /\ ScriptInHand /\ WingetInHand /\ OriginalsKept

\* A row that accounts for its target being as it is now: one that Answers, an intent
\* only once it took effect.
Explains(a, handler, t, now) ==
    /\ acts[a].handler = handler /\ acts[a].target = t
    /\ \/ acts[a].status \in {"applied", "failed", "undo_failed"}
       \/ acts[a].status = "pending" /\ acts[a].before # now
       \/ acts[a].status = "reverted" /\ acts[a].undo.do = "noop"
       \/ acts[a].status = "reverted" /\ acts[a].before = now

\* EffectsOnRecord as every step keeps it: reconcile strikes out an intent only where
\* it explains nothing.
EffectsExplained ==
    /\ \A t \in DOMAIN files \ edits : files[t] # InitialFiles[t] =>
          \E a \in DOMAIN acts : Explains(a, "dotfile", t, files[t])
    /\ \A p \in DOMAIN packages \ (edits \cup strays) : packages[p] # InitialPackages[p] =>
          \E a \in DOMAIN acts : Explains(a, "winget", p, packages[p])

\* What plan or synthesize_undo is given is still what is there, and what apply is to
\* bring about is what the source says, unless somebody changed a source.  A package may
\* have changed since its probe; one that was there then is, or a stray took it away.
ItemFresh ==
    /\ pc = "plan" =>
          CASE CurrentItem.handler = "dotfile" -> probe = files[CurrentItem.target]
            [] CurrentItem.handler = "winget"  ->
                  W!Installed(probe) =>
                      W!Installed(packages[CurrentItem.target]) \/ CurrentItem.target \in strays
            [] OTHER -> probe = Null
    /\ pc = "apply" /\ Row.handler = "dotfile" /\ edits \cap DOMAIN sources = {} =>
          call.desired = sources[CurrentItem.src]
    /\ pc = "synthesize" =>
          /\ probe # Row.before
          /\ Row.handler = "dotfile" => probe = files[Row.target]

\* What a pull has recorded of a package it goes on about may be overtaken by a stray.
StrayOn(a) == acts[a].handler = "winget" /\ acts[a].target \in strays

\* PullLands at every statement of the loop: the actions applied so far are as recorded,
\* the items dealt with so far as the profile wants them.
RowsLanded ==
    pc \in Pulling =>
        \A a \in AppliedActions(op) :
            /\ acts[a].handler = "winget" => acts[a].after # Absent
            /\ \/ acts[a].handler = "script"
               \/ Overtaken(a) \/ StrayOn(a)
               \/ acts[a].after = Probe(acts[a].handler, acts[a].target)

ItemsLanded ==
    pc \in Pulling /\ edits \cap DOMAIN sources = {} =>
        \A i \in Diff(profile) \cap (1 .. Recorded) : Excused(profile, i)

\* The rollback of a pull that has so far taken back scripts at most.
ScriptsFirst ==
    /\ pc \in {"rollback", "next_undo", "undo"} /\ cmd = "pull"
    /\ \A a \in ActionsOf(op) : acts[a].handler # "script" => acts[a].status \in {"applied", "skipped"}
    /\ pc = "undo" => Row.handler = "script"

\* What such a rollback finds in place.
ScriptsLanded ==
    ScriptsFirst /\ edits \cap DOMAIN sources = {} =>
        \A i \in Diff(profile) \cap (1 .. seq) : Excused(profile, i)

\* A package the user has left alone is as it was found, or one of Candylane's: then it
\* was not there, and what is there now is what winget has to offer.
PackagesOurs ==
    \A p \in DOMAIN packages \ edits :
        /\ \/ packages[p] = InitialPackages[p]
           \/ InitialPackages[p] = Absent /\ packages[p] \in Offers \cup {Absent}
        /\ \A w \in wingets : w.pkg = p => InitialPackages[p] = Absent
        /\ \A a \in DOMAIN acts :
              (acts[a].handler = "winget" /\ acts[a].target = p /\ acts[a].status # "skipped") =>
                  InitialPackages[p] = Absent
        /\ pc = "plan" /\ CurrentItem.handler = "winget" /\ CurrentItem.target = p =>
              probe = InitialPackages[p] \/ InitialPackages[p] = Absent

\* What the log and the machine tell together of the operations so far.
HistoryFits ==
    EffectsExplained /\ ItemFresh /\ RowsLanded /\ ItemsLanded /\ ScriptsLanded /\ PackagesOurs

MachineInv == MachineTypeOK /\ LogFits /\ CallFits /\ HistoryFits
=============================================================================
