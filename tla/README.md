# A TLA+ verification of Candylane

Candylane applies a profile (winget packages, dotfiles, post-install scripts)
to a machine and promises to take it back: every step is written to an
operation log in SQLite, a failed pull rolls back, a crashed one is recovered.
This directory models that promise, from the rows of the log to the threads of
a script call, with crashes between any two steps. TLC checks the models on
small instances; TLAPS proves the safety properties for every instance.
Paths below are relative to `src/crates/candylane-core/src/` unless they start
with another directory.

## Inventory

| Component | State it keeps | Operations | What makes it correct | Modelled in |
|---|---|---|---|---|
| Operation log (`store.rs`, `types.rs`, `migrations/`) | rows of `operations`, `actions` | `begin_op`, `set_op_status`, `insert_action`, `set_action_applied`, `set_action_status`, `bump_undo_attempt`, five queries | a row's life goes one way; intent before outcome; a closed operation stays closed | `Store`, `Ledger` |
| Engine (`engine.rs`) | local variables of one call | `pull`, `rollback`, `recover`, `reconcile`, `finalize_op`, `revert_last`, `preflight`, `diff`, `status` | the log agrees with the outcome after any failures and crashes; rollback is newest first, bounded, and ends | `Engine` |
| Dotfile handler (`handlers/dotfile.rs`) | target files, `backups/<op>/` | `probe`, `plan`, `apply`, `undo`, `synthesize_undo` | the original is copied before it is overwritten and only the right copy is restored | `Dotfile`, `Candylane` |
| Winget handler (`handlers/winget.rs`) | installed packages, the winget process it waits for | the same five, `parse_list` | the probe decides, not the exit code; only what the pull installed is removed | `Winget`, `Candylane` |
| Script handler (`handlers/script.rs`) | child processes, a waiter thread | the same five, `run_script` | a script is bounded by the timeout and its group is killed; one-way is never called reverted | `Script`, `ScriptRunner`, `Candylane` |
| Registry (`registry.rs`) | none | `get` | dispatch | `Candylane` |
| Reboot gate (`reboot.rs`) | three registry signals | `state`, `must_abort` | CBS or Windows Update aborts; an unreadable probe does not | `Engine` |
| Lock (`lock.rs`) | an exclusive file lock | `acquire`, drop | one process mutates the log, and none waits | `Home` |
| Profile parser (`profile.rs`) | none | `build_profile` | order: packages, dotfiles, scripts | `Profile` |
| CLI (`candylane-cli`) | none | `init`, `diff`, `pull`, `revert`, `recover`, `history`, `status` | lock before store; which commands take none | `Home`, `Engine` |
| Migration (`store.rs`) | the schema | `open`, `migrate` | runs once, also when two processes open | `Migration`, `Home` |
| Identity (`candylane-crypto`) | the key file and its mode | `generate`, `load` | a command on the key ends, and load refuses a file that is no key or not private | `Identity`, `Home` |
| PowerShell and winget processes (`reboot.rs`, `winget.rs`) | the machine | what they print and do | — | partly, in `Winget` and `Engine` |

The CLI takes the lock, opens the store and calls one method of the engine.
The engine calls the store and, through the registry, one handler at a time,
all synchronously. Concurrency is at two places: **several processes** meet at
`~/.candylane` (lock, database, key file), and **inside a script call** the main
thread, the waiter thread, the shell and its descendants run side by side. In
between, one lock holder works alone, next to scripts and winget processes a
crash left behind and the user, who edits files and packages. There the hard
behaviours are
**crashes** (between a handler's effect and its record, inside a rollback,
inside a recovery, which is itself recorded), **partial failures** (`probe`,
`plan`, `apply` or `undo` failing at any item), **retries** counted across
processes, **order** (a pull over an unfinished one, an older pull undone
under a newer one) and **stale state** (a source read twice, a backup of an
earlier process). `PROJECT.json` lists each hazard at its line.

## Modules

```
Store ── Engine ── EngineInvariant ── EngineProofs ── EngineLogProofs ── EngineLedgerProofs
  └─ Ledger ┘ │ (refines)                                   │
              ├── Candylane (INSTANCE Dotfile, Winget, Script) ── CandylaneInvariant
              │        │                                    └───────────┴─ CandylaneLogProofs ── CandylaneProofs ── CandylaneHistoryProofs
Profile ──────┴─ MCCandylane, MCEngine
Script ◄─(refines)─ ScriptRunner ── ScriptRunnerProofs
Home (INSTANCE Migration, Identity) ── HomeProofs
```

- **`Store`**: the two tables and the `StateStore` statements, one operator per
  method. An id is the position of its row. Both tables survive a crash; a
  statement is one autocommit transaction.
- **`Ledger`**: the abstract specification of the log: which rows may be
  written when, whoever writes them. It has no process, no program counter and
  no crash.
- **`Engine`**: `pull`, `recover` and `revert_last` as a process with a program
  counter. An action is one store statement or one handler call with the pure
  code around it; the table below gives the correspondence. What a handler or
  the registry answers is a free choice, as for a trait object. `Crash` ends
  the process between any two actions, and `StoreErr` is a store call that fails:
  its `?` takes the command out of wherever it is.
- **`Dotfile`**, **`Winget`**, **`Script`**: the steps of each handler's calls on its own
  part of the machine: backup, write and read-back of a file; the process of an
  install or uninstall, with `winget list` and its parser before and after it;
  spawn, exit and kill of a script. A winget and a script live on when the engine
  dies (`Orphan`), and may do their work at any later moment (`Exit`).
- **`Candylane`**: `Engine` with the three handlers. Each of its actions is an
  engine action whose free choice a handler now makes, or one step inside a
  handler call. Adds the user's edits, the life of orphaned scripts and winget
  processes, and the read-only `Diff` and `SyncState`. `strays` is a history
  variable: the packages that a winget nobody waited for has changed while no row in
  flight was there that could answer for it.
- **`Profile`**: the order in which a document's tables become items.
- **`ScriptRunner`**: `run_script_unix` at the level of its threads: the channel,
  `recv_timeout`, the process group, the kill, `wait()`, and pids the kernel may
  give to other programs. It implements `Script`.
- **`Home`**, with **`Migration`** and **`Identity`**: any number of processes that run
  any command; the lock, the five statements of the migration, the system calls
  of `generate` and `load`.
- **`EngineInvariant`**, **`CandylaneInvariant`**: the inductive invariants, in named parts.
- **`MCEngine`**, **`MCCandylane`**: the instances TLC checks. `ScriptRunner` and
  `Home` need none: their constants are sets of model values and bounds.
- the eight modules named `…Proofs`: the lemmas and theorems. Those on `Candylane` come in
  three layers: its log (`CandylaneLogProofs`), its handler calls
  (`CandylaneProofs`), and log and machine together (`CandylaneHistoryProofs`).

| `pc` in `Engine` | Code | Actions |
|---|---|---|
| `idle` | no lock held | `StartPull`, `StartRevert`, `StartRecover` |
| `preflight` | `engine.rs:78-83` | `PreflightRefuses`, `BeginPull` |
| `item`, `plan` | the loop, `:85-117` | `ProbeItem`, `ItemErr`, `PlanNone`, `PlanSome`, `FinishPull` |
| `apply`, `gate` | `:120-145` | `ApplyOk`, `ApplyErr`, `GateClear`, `GateAborts` |
| `last_applied`, `unfinished` | `:281-289`, `:202-204` | `NothingToRevert`, `RevertLast`, `NothingToRecover`, `BeginRecover` |
| `reconcile`, `synthesize` | `:219-246` | `NothingInFlight`, `ReconcileNeverRan`, `ReconcileApplied`, `Synthesize`, `ReconcileErr` |
| `rollback`, `next_undo`, `undo` | `:157-194` | `Rollback`, `NextUndo`, `UndoOk`, `UndoErr`, `GiveUp`, `RollbackDone` |
| `finalize`, `cleanup`, `mirror` | `:250-278`, `:207-209` | `Finalize`, `Cleanup`, `Mirror` |

`call.step` in `Candylane` is the place inside a handler call: `start`, then
`backed_up`, `written` (dotfile apply), `undone` (dotfile undo), `spawned` (winget
and script). In `ScriptRunner`, `main` is the thread that called
`run_script_unix` (`waiting` in `recv_timeout`, `killing`, `joining`) and `waiter`
the thread it started. In `Home`, `pc[p]` names the next system call or SQL
statement of process `p`.

Operators whose name starts with `Slip` are plausible mistakes in the operator
that follows them. No specification uses them; each one, put in that
operator's place, makes a named property fail.

## What is abstracted

- A probe, an after-state and a file's bytes are single values; a sha256 is the
  value it digests. A target is the path that `expand` makes of it; which paths
  `reject_unsafe_target` refuses is the constant `UnsafeTargets`.
- `atomic_write` is the rename; its temporary file is left out.
- A script's effect on the machine is one bit, done or not. For the engine a
  background child of a script that has itself exited is nobody's; `ScriptRunner`
  has such children. `wait()` does not fail.
- `winget list` prints lines of tokens. Spinner glyphs are left out, as
  `strip_spinner` leaves them out; `install` and `uninstall` change the machine or
  not, whatever they exit with. What winget may install is a set of versions
  (`Offers`), one of which an install over an older one may put in its place.
- A probe and the store statement that records it are one step, and so are the
  probe of an undo and the spawn after it. The only process that acts in between is
  a winget nobody waits for, which touches neither the log nor the call, so its step
  may as well be taken after both.
- A store call that fails leaves through `?` with the log as it was (`StoreErr`). Right
  after the kill of a script it has no action of its own: what is left then is what a
  script that ended by itself and a failed store call leave. A committed statement is
  durable.
- `Diff` is the list `diff` prints. That `diff` returns the error of a `probe` or
  `plan` instead (`engine.rs:297-298`) is left out; it changes nothing and no
  property is about it.
- The user edits target files and packages only while no command runs, and the
  source files at any time.
- Profile name and hash, timestamps and error texts are not kept: the engine
  never reads them back.

## Runs

| Run | Instance | Shows |
|---|---|---|
| `engine` | a pull of a dotfile and a script, 2 operations, 1 undo try, free handlers, store calls that fail, weak fairness of `Run` | `TypeOK`, `IInv`; `OutcomeHonest`, `OneInFlight`, `RetriesBounded`, `PullOkComplete`, `RecoverOkSettles`; `LogSpec` (it implements `Ledger`); `CommandsWindDown` (every statement leaves its command fewer of them); `CommandsReturn` (every command ends) |
| `candylane_files` | a dotfile that existed, an unrelated package, 3 operations, 1 undo try, 1 edit by the user of a file, a source or the package | `CandylaneTypeOK`, `MachineInv`, `OriginalsKept`, `CopiedBeforeOverwritten`, `UndoRestores`, `EffectsOnRecord` |
| `candylane_machine` | three profiles: a package and a script; two dotfiles with one target and a one-way script; an unsafe target. winget and scripts may outlive a crash. 2 operations, 1 try, no edits | `EngineSpec` (the handlers implement the open engine), `EffectsOnRecord`, `PullLands`, `ScriptsContained`, `ScriptsOnTop` |
| `script_runner` | 2 calls, 3 pids, 2 descendants at a time, weak fairness of both threads | `RunnerInv`, `TimeoutClears`, `NothingUnreaped`, `CallReturns`, `ScriptCalls` (it implements `Script`) |
| `home` | 2 processes, 3 keys, weak fairness of each process | `HomeInv`, `OneWriter`, `OneMigrator`, `OpensComplete`, `CommandsEnd` |

Seven more runs each check one statement of the repository that the code does
not keep, and end in a counterexample:

| Run | The statement | What the code does |
|---|---|---|
| `engine_atomic` | `engine.rs:75` a pull "either … fully applies, or it rolls back to clean" | an error of `probe` or `plan` leaves the loop through `?`, without rollback; so does a failed store call |
| `noop_reversal` | `types.rs:46` history never claims "a reversal that did not happen" | the `noop` recipe made after a crash ends as `reverted` |
| `script_crash` | `engine.rs:217` "real state == before → it never ran" | an install whose winget is still at work when its engine died looks the same, is recorded as skipped, and then lands; a script that ran always looks the same |
| `upgrade` | `handler.rs:29` "don't uninstall a package the user manually upgraded" | the version is never compared |
| `backups` | `engine.rs:269` "the files are already restored" | the backup of an apply that failed after its write is removed unrestored |
| `duplicate_targets` | `engine.rs:268` after `RevertFailed` "a manual retry still has the originals" | two items with one target share one backup file, and the second replaces the original |
| `migration` | `store.rs:176` open applies the migration when it is missing | `schema_version` is committed before the tables it speaks of, and no later open makes them |

**Bounds.** `MaxOps` bounds the operation rows: two give a pull and the
recovery of it, or two pulls, so that a recovery meets another operation's
rows; three, in `candylane_files`, give a pull over an unfinished one and its
recovery, an older pull undone under a newer one, and the recovery of an
interrupted recovery. `MaxUndoAttempts` stands for the CLI's 3: one is enough
for a budget used up by one process and met again by another, and for an undo
repeated after a crash; the theorems hold for every budget. Two items give rollback an order and a failure
after a success. `MaxEdits` is the number of changes made by the user. Reverts
need no row, so their number is not bounded, and neither is that of crashes.
In `ScriptRunner` a second call and a third pid are what it takes for a number
to be used again while the first call's descendants live, or by a stranger.
In `Home` two processes already meet at the lock, in the migration and in
`generate`, and each may run any number of commands; three keys let both hold
one while another is stored.

**Deadlock** is checked in every run: a command that cannot go on would show.
The machine never stops for good, since a user may always start a revert.

**Fairness.** `FairSpec` adds weak fairness of `Run`, the next step of the
running command. The code justifies it: the process is sequential, calls to
SQLite, the file system and winget return, and a script is killed at the
timeout (300 s). Nothing is assumed of `Start` or `Crash`. A crash also ends the
command, so what `CommandsReturn` excludes is a rollback that goes round for ever,
which is CRITICAL 5 of `docs/PHASE1_ARCHITECTURE.md`. `CommandsWindDown` is the measure behind it and needs no
fairness. `FairRunnerSpec` has weak
fairness of the main thread and of each waiter thread, which the scheduler
gives; a script, its descendants and other programs are owed nothing, so
`CallReturns` holds although a script may run for ever. `FairHomeSpec` has weak
fairness of each process; nobody has to start one.

**What the passing properties do not say.** `UndoRestores` speaks of the actions
recorded as `reverted` from a real recipe; a `noop` recipe is the finding
`noop_reversal`. `EffectsOnRecord` lets a `failed` row answer for a change: that
the change is not undone is the finding `backups`. `OriginalsKept` excludes a row
whose target a later item of its profile took over, which is the finding
`duplicate_targets`. `OpensComplete` excludes a death inside the migration, which is the
finding `migration`. The run `candylane_machine` has no edits by the user.

A winget that outlived its engine may change a package at any time. Two properties
allow for that, by `strays` and for the packages in it only. `EffectsOnRecord`: a
package such a process changed has no row that answers for it, if recover had settled
the row before; this is what `script_crash` finds, by way of `SkippedNeverRan`.
`PullLands`: a pull may find the package, skip it, and see it go before it returns
`ok`. An install that lands while its row is still pending is no stray: reconcile or
the handler's own probe will see it, and both properties hold of it without exception.

`ScriptsOnTop` says of every operation that nothing of it has been taken back when
one of its scripts, or the undo of one, may run; and of the process of a pull that the packages
and dotfiles before the script are on the machine. It does not say the second
of a revert or a recovery: by then another revert may have undone, say, a package
this pull had skipped because an earlier one had installed it.

**What no run shows.** Two comments of the code are false in windows the models reach.
They are listed as hazards and have no property: what is left of each when its window is
excluded is a guard.

- `script.rs:282-283`, on the kill: "the group was created by our setsid() call".
  Between the timeout and the kill the waiter thread may reap the shell; if the group
  is empty by then, the number may belong to another program (`Reap`,
  `StrangerStarts`, `Kill` in `ScriptRunner`).
- `candylane-crypto/src/lib.rs:38`, on `generate`: "Never clobbers an existing key".
  `init` takes no lock, so two of them may both find no file, and the second overwrites
  the key the first has stored and printed (`FindsNoKey`, `Writes` in `Home`).

## Proofs

TLAPS proves these for every value of the constants: any profiles, items,
targets and machines, any number of undo tries and operations, any number of
processes, pids, calls and descendants.

| Module | Theorem | Statement |
|---|---|---|
| `EngineProofs` | `TypeCorrect` | `Spec => []TypeOK` |
| `EngineLogProofs` | `Invariant` | `Spec => []IInv` |
| | `HistoryHonest` | `Spec => []OutcomeHonest` |
| | `SingleIntent` | `Spec => []OneInFlight` |
| | `RetriesCounted` | `Spec => []RetriesBounded` |
| | `PullsComplete` | `Spec => PullOkComplete` |
| | `RecoveriesSettle` | `Spec => RecoverOkSettles` |
| | `OtherPullsRollBack` | a pull that returns an error neither of `probe` or `plan` nor of a failed store call has closed its operation and left nothing applied |
| | `CommandsRunOut` | `Spec => CommandsWindDown` |
| `EngineLedgerProofs` | `ImplementsLedger` | `Spec => LogSpec` |
| `CandylaneLogProofs` | `ImplementsEngine` | `CandylaneSpec => EngineSpec` |
| | `MachineTyped` | `CandylaneSpec => []CandylaneTypeOK` |
| `CandylaneProofs` | `OriginalsStay` | `CandylaneSpec => []OriginalsKept` |
| | `CopiesFirst` | `CandylaneSpec => []CopiedBeforeOverwritten` |
| | `UndosRestore` | `CandylaneSpec => UndoRestores` |
| | `ScriptsGone` | `CandylaneSpec => []ScriptsContained` |
| | `ScriptsComeLast` | `BuildProfile(doc)` ends in its scripts |
| `CandylaneHistoryProofs` | `MachineInvariant` | `CandylaneSpec => []MachineInv` |
| | `ChangesOnRecord` | `CandylaneSpec => []EffectsOnRecord` |
| | `ScriptsStayOnTop` | `CandylaneSpec => []ScriptsOnTop` |
| | `PullsLand` | `CandylaneSpec => PullLands` |
| | `PullsLandWhole` | if no profile names a target twice and there are no strays, nothing is drifted after a successful pull, and `diff` shows only scripts |
| | `RetriesHaveOriginals` | `CandylaneSpec => [](TargetsApart => RetryHasOriginals)` |
| | `FoundPackagesStay` | a package that was there and the user left alone never changes |
| `ScriptRunnerProofs` | `RunnerInvariant` | `RunnerSpec => []RunnerInv` |
| | `TimedOutCallsClear`, `NothingLeftUnreaped` | `RunnerSpec => []TimeoutClears`, `RunnerSpec => []NothingUnreaped` |
| | `ImplementsScript` | `RunnerSpec => ScriptCalls` |
| `HomeProofs` | `HomeInvariant`, `SingleWriter`, `SingleMigrator`, `OpensOnComplete` | `HomeSpec => []HomeInv`, and `[]` of `OneWriter`, `OneMigrator`, `OpensComplete` |

**Assumptions.** `ItemsAssumption` (items have a handler and a target),
`ValuesAssumption` (handlers return values), `BoundsAssumption` (the bounds are
naturals), `HomeAssumption` and `RunnerBounds` (the same for their modules). On
the program: `MachineAssumption` (what is on the machine and what handlers make
is of their kind, no package id is a word of `winget list` itself, and what winget
installs is a version),
`ItemsOnMachine` (an item names a path, a source or a package the machine has a
place for) and `ScriptsLast` (a profile ends in its scripts). The last is what
`ScriptsComeLast` proves of `build_profile` for a document of any size. TLC
evaluates all of them on the instances.

**The log (`IInv`).** None of the engine's properties is inductive alone. `Finalize`
may close an operation as `reverted` because nothing of it is applied or pending: the list
rollback took was all that was applied when it took it and every row of it has
been settled, and nothing is pending because a pull settles its one intent before
it rolls back and a recovery reconciles first. `IInv` says all of that. `TypeInv`
has the types and, in `Control`, which local variables are set at which `pc`.
`LogInv` speaks of the log alone: rows belong to pulls, ids and `seq` agree within
an operation, an intent is the latest row of a pending operation, statuses agree.
`HandInv` ties the process to the log: the operation in hand has the status its
command found or gave it (`OpInHand`), the row in hand is the one intent in flight,
or the newest of the list with `tries` equal to its persisted count (`RowInHand`),
the list of rollback is exactly the applied rows (`ListInHand`), and the rows of a
pull so far are those of its first items (`PullInHand`, `Recorded`). `Crash`
changes no row and empties the hand, so it keeps `LogInv` and makes `HandInv`
hold vacuously: that is why a recovery may start from any state.

`EngineProofs` says what each store statement does to each row and has one lemma
per group of actions for the types, `EngineLogProofs` has one per action for the
log, and `EngineLedgerProofs` maps each step to one of `Ledger` or to a
stutter, with the log itself as the mapping.

**The end of a command (`StepsLeft`).** The number of statements a command still has
before it, at most: four for an item that is left, one for each try an undo has
left and two more to take it up and give it up, and at most one undo for each item
dealt with and each left. It is counted from the rows of the log (`Applied`),
since a rollback may begin with rows that other processes wrote. `CommandsRunOut` shows that every
statement makes it smaller and none makes it negative. So a pull of *n* items ends
within 7 + 4*n* + *n*(`max_undo_attempts` + 2) statements, and the retries of
`rollback` cannot go round for ever. The step from a decreasing measure to `CommandsReturn`
itself takes fairness and stays with TLC.

**The program (`MachineInv`).** A step of `Candylane` is a step of `Engine` only if
what the handler answers is among what `Engine` leaves open: a file holds
contents, a row about a file names a file, the package `winget list` shows has a
version. So `ImplementsEngine` needs the types of the machine (`MachineTypeOK`) and
what the log keeps for its sake (`LogFits`: there is room for the operation, the
profile and the row in hand are the item's, rows name things of the machine, the
rows of an operation are about the items of one profile, scripts come last in every
operation, undone first, and only they are one-way). Those two, with `IInv`, are
`ProgramInv`. From there on the theorems on `Engine` hold of the program.
`CallFits` is what the handlers add. `CallInHand`: no call outlives its label.
`RecipesTrue`: the recipe of a row leads back to its `before`, and a package that
may be removed was not there. `DotfileInHand`: between the probe and the record
only the call itself touches the file, so until the write it is still `before`, and
from the backup on the copy is. `ScriptInHand`, `WingetInHand`: a process the engine
owns is the one its call waits for. `OriginalsKept` is part of it: a copy that a row needs can
be touched only by a backup of the same operation and target, whose row is then the
later one, and by the cleanup of an operation, which `OutcomeHonest` shows has
nothing left to restore. `CandylaneProofs` sorts the steps into kinds first (outside every
call, inside a call, the end of a call, a kill; lemma `Kinds`), shows what each
kind leaves alone, and then has one lemma per conjunct. The fairness of no module
is used.

**What history tells (`HistoryFits`).** `EffectsOnRecord` is not inductive: reconcile
strikes an intent out, and with it the only row that may answer for a change.
`EffectsExplained` therefore lets a pending row answer only once the machine differs from
its `before`, which is when reconcile does not strike it out, and lets no `one_way`
row end as `undo_skipped` under a file or a package (`OneWayScripts`). A step then moves
a row or changes the machine, never both (`RowsOrMachine`), and each side has a
lemma: `MachineMoves` finds the row of a change, `ExplanationsStay` follows it. A
winget may land at any step. While the engine waits for it, or while a row in flight
will be compared with what is there, that row answers; otherwise the package becomes a
stray, and stays one (`StraysStay`).
`PullLands` is `RowsLanded` and `ItemsLanded` at the end of the loop: they say of the items dealt
with so far what it says of all of them, and rest on `ItemFresh` (nothing
comes between a probe and its plan, or its `synthesize_undo`, but a winget that nobody
waits for). `ScriptsOnTop` needs `ItemsLanded` for the scripts of a pull and
`ScriptsLanded` for their undos: as long as its rollback has come to scripts only, it has
taken nothing away. A call that changes the target of an
earlier row overtakes that row (`EarlierRows`), which is the exception `PullLands`
makes. `PackagesOurs` splits the packages the user has left alone in those that were found
and those that winget was asked for.

Two of the findings get their other half here. A statement of the repository that a
run refutes is proved of all cases but the ones named: `OtherPullsRollBack`
(`engine_atomic`: the calls of `probe` and `plan`, and store calls that fail) and
`RetriesHaveOriginals` (`duplicate_targets`: profiles that name a target twice,
`TargetsApart` excludes them).

**A script call, the home directory.** `RunnerInv` says who may still be waiting: a
waiter thread belongs to the call in progress and sends only what it has reaped, so
main joins after the reaping; a number in use names one group. The refinement maps
a call to `spawned` while main waits or is about to kill, so the timeout, the reaping
and the message are stutters and the kill is the kill of `Script`. `HomeInv` has no use for the lock in the migration: `CREATE TABLE
meta` fails for everyone but one, so whoever is past the first statement is alone
(`OneMigrator`), dies there (`cut`) or completes the batch.

**Model-checked only.** Liveness (`CommandsReturn`, `CallReturns`, and `CommandsEnd`
of `Home`) is beyond this prover. Every other property of the passing runs
is a theorem.

## Not modelled

- `history` reads rows and prints them; `diff` and `status` are modelled by what they
  show, not how.
- TOML, UTF-8 and the hash of a profile; the expansion of `~` and variables in a
  path. Pure conversions, out of which nothing but an error or an item comes.
- What PowerShell prints and its parser: any set of signals, or none readable. The
  branch of `parse_list` for a row that ends in the Id is there and never taken, as
  `winget list` prints a version in every row.
- The temporary files of `atomic_write`, the spinner's glyphs, progress output.
- DPAPI and ACLs on Windows, and the stub of `run_script` where there is no Unix:
  it always fails, which is `ApplyFails`.
- A `Recover` row of a recovery that died before it mirrored its outcome is itself
  recovered later and ends as `reverted`, whatever became of the pull
  (`engine.rs:209`). The model has the behaviour; `RecoverOkSettles` speaks of the
  recoveries that report success.

## What could come next

Nothing of the plan this project began with is open. What would add most: the other
half of `noop_reversal`, `script_crash`, `upgrade` and `backups`, in the way the two
findings above have theirs; a measure like `StepsLeft` for a script call; and, if the code takes up one of
the findings, the corresponding run turned from a counterexample into a property
that holds.
