-------------------------------- MODULE Home --------------------------------
(***************************************************************************)
(* Several candylane processes on one ~/.candylane: the commands of        *)
(* main.rs up to the point where Engine takes over.  pull, revert and      *)
(* recover take the lock of lock.rs before they open the store; diff,      *)
(* history and status open it without; init generates the identity.  A     *)
(* process may crash between any two steps and the kernel releases its     *)
(* lock.  Any process may start any command, again and again.              *)
(***************************************************************************)
EXTENDS Naturals

CONSTANTS
    Proc,                   \* processes
    NoProc,                 \* the lock is free
    Key, NoFile, Empty      \* Identity

ASSUME HomeAssumption == NoProc \notin Proc /\ NoFile \notin Key /\ Empty \notin Key

VARIABLES
    pc,                             \* what each process does next
    role,                           \* the command it runs
    lock,                           \* who holds ~/.candylane/lock
    db, next,                       \* Migration
    cut,                            \* a process died inside its batch
    content, ownerOnly, signing     \* Identity

M == INSTANCE Migration
I == INSTANCE Identity

dbVars   == <<db, next, cut>>
keyVars  == <<content, ownerOnly, signing>>
homeVars == <<pc, role, lock, dbVars, keyVars>>

InStore  == {"open", "migrate", "use"}
InInit   == {"generate", "create", "write", "enforce", "assert"}
HomePC   == {"off", "acquire", "exists", "load", "read"} \cup InStore \cup InInit

\* The commands by what they do first: pull, revert and recover write; diff, history
\* and status read; load is the library's and no command calls it yet.
Entry == [write |-> "acquire", read |-> "open", init |-> "exists", load |-> "load"]

HomeTypeOK ==
    /\ pc \in [Proc -> HomePC]
    /\ role \in [Proc -> {"none"} \cup DOMAIN Entry]
    /\ lock \in Proc \cup {NoProc}
    /\ db \subseteq M!Statements
    /\ next \in [Proc -> M!Statements \cup {0}]
    /\ cut \in BOOLEAN
    /\ content \in Key \cup {NoFile, Empty}
    /\ ownerOnly \in BOOLEAN
    /\ signing \in [Proc -> Key \cup {Empty}]

HomeInit ==
    /\ pc = [p \in Proc |-> "off"]
    /\ role = [p \in Proc |-> "none"]
    /\ lock = NoProc
    /\ db = {} /\ next = [p \in Proc |-> 0] /\ cut = FALSE
    /\ content = NoFile /\ ownerOnly = FALSE
    /\ signing = [p \in Proc |-> Empty]

Goto(p, from, to) == pc[p] = from /\ pc' = [pc EXCEPT ![p] = to]

\* The process ends: it drops the lock, which the code declares first and so
\* drops last, and its memory is gone.
Ends(p) ==
    /\ pc' = [pc EXCEPT ![p] = "off"]
    /\ role' = [role EXCEPT ![p] = "none"]
    /\ lock' = IF lock = p THEN NoProc ELSE lock
    /\ next' = [next EXCEPT ![p] = 0]
    /\ signing' = [signing EXCEPT ![p] = Empty]
    /\ UNCHANGED <<db, content, ownerOnly>>

\* A command returns.
Leave(p, from) == pc[p] = from /\ Ends(p) /\ UNCHANGED cut

-----------------------------------------------------------------------------
Command(p) ==
    /\ \E r \in DOMAIN Entry : Goto(p, "off", Entry[r]) /\ role' = [role EXCEPT ![p] = r]
    /\ UNCHANGED <<lock, dbVars, keyVars>>

\* Goes on although the lock is held.
SlipAcquire(p) ==
    /\ Goto(p, "acquire", "open")
    /\ lock' = p
    /\ UNCHANGED <<role, dbVars, keyVars>>

\* Lock::acquire: try_lock_exclusive.
Acquire(p) ==
    /\ lock = NoProc
    /\ Goto(p, "acquire", "open")
    /\ lock' = p
    /\ UNCHANGED <<role, dbVars, keyVars>>

\* Waits until the lock is free.
SlipAcquireFails(p) == FALSE

AcquireFails(p) == lock # NoProc /\ Leave(p, "acquire")

FindsVersion(p) ==
    /\ M!Current
    /\ Goto(p, "open", "use")
    /\ UNCHANGED <<role, lock, dbVars, keyVars>>

FindsNoVersion(p) ==
    /\ Goto(p, "open", "migrate")
    /\ M!Begin(p)
    /\ UNCHANGED <<role, lock, cut, keyVars>>

Migrates(p) ==
    /\ Goto(p, "migrate", IF M!IsLast(p) THEN "use" ELSE "migrate")
    /\ M!Execute(p)
    /\ UNCHANGED <<role, lock, cut, keyVars>>

MigrateFails(p) == ~M!Runs(p) /\ Leave(p, "migrate")

\* The command runs, Engine.tla if it holds the lock, and returns: an error when
\* a table is missing.
Uses(p) == Leave(p, "use")

StoreStep(p) ==
    \/ Acquire(p) \/ AcquireFails(p)
    \/ FindsVersion(p) \/ FindsNoVersion(p)
    \/ Migrates(p) \/ MigrateFails(p)
    \/ Uses(p)

-----------------------------------------------------------------------------
KeyStep(p, from, to) == Goto(p, from, to) /\ UNCHANGED <<role, lock, dbVars>>

Refuses(p) == I!Exists /\ Leave(p, "exists")

FindsNoKey(p) == ~I!Exists /\ KeyStep(p, "exists", "generate") /\ UNCHANGED keyVars

Generates(p) == KeyStep(p, "generate", "create") /\ I!Generate(p)
Creates(p)   == KeyStep(p, "create", "write") /\ I!Create(p)
Writes(p)    == KeyStep(p, "write", "enforce") /\ I!Write(p)
Enforces(p)  == KeyStep(p, "enforce", "assert") /\ I!EnforceOwnerOnly

\* assert_owner_only, and the identity is returned or the error.
Asserts(p) == Leave(p, "assert")

LoadAsserts(p) == I!AssertOwnerOnly /\ KeyStep(p, "load", "read") /\ UNCHANGED keyVars
LoadRefuses(p) == ~I!AssertOwnerOnly /\ Leave(p, "load")

\* A key, or the error that it is malformed.
LoadReads(p) == Leave(p, "read")

IdentityStep(p) ==
    \/ Refuses(p) \/ FindsNoKey(p) \/ Generates(p) \/ Creates(p) \/ Writes(p)
    \/ Enforces(p) \/ Asserts(p)
    \/ LoadAsserts(p) \/ LoadRefuses(p) \/ LoadReads(p)

\* The process dies; an error of the disk or a profile that does not parse ends the
\* command just there, too.
Crash(p) ==
    /\ pc[p] # "off"
    /\ Ends(p)
    /\ cut' = (cut \/ next[p] > M!Meta)

HomeStep(p) == StoreStep(p) \/ IdentityStep(p)

HomeNext == \E p \in Proc : Command(p) \/ HomeStep(p) \/ Crash(p)

HomeSpec == HomeInit /\ [][HomeNext]_homeVars

\* A running process is scheduled; nobody has to start one.
FairHomeSpec == HomeSpec /\ \A p \in Proc : WF_homeVars(HomeStep(p))

-----------------------------------------------------------------------------
(* Properties *)

\* lock.rs: "this guarantees only one runs at a time".  However processes start,
\* fail to get the lock and die, the log has one writer: what recover finds pending
\* was left by a process that is gone.
Writing(p) == role[p] = "write" /\ pc[p] \in InStore

OneWriter == \A p, q \in Proc : Writing(p) /\ Writing(q) => p = q

\* The batch runs outside a transaction and, for diff, history and status, without
\* the lock.  Still one process at most gets past its first statement, and it finds
\* the database as it left it: no statement takes effect twice.
OneMigrator ==
    \A p \in Proc : next[p] > M!Meta =>
        /\ db = 1 .. (next[p] - 1)
        /\ \A q \in Proc : next[q] > M!Meta => q = p

\* A command works on a complete database, unless another process is inside the
\* batch at that moment or died there.
OpensComplete ==
    \A p \in Proc : pc[p] = "use" =>
        M!Migrated \/ cut \/ \E q \in Proc : next[q] > M!Meta

\* Why they hold: a writer in the store has the lock, a process is in its batch
\* exactly while it migrates, and a half-made database, which has its first statement,
\* has someone to answer for it.
LockHeld   == \A p \in Proc : Writing(p) => lock = p
BatchAtHand ==
    \A p \in Proc : (next[p] # 0 <=> pc[p] = "migrate") /\ (pc[p] = "use" => M!Current)
HalfMade ==
    /\ db # {} => M!Meta \in db
    /\ db \notin {{}, M!Statements} => cut \/ \E q \in Proc : next[q] > M!Meta

HomeInv == HomeTypeOK /\ LockHeld /\ BatchAtHand /\ HalfMade /\ OneMigrator

\* "Fail-fast, not blocking": a command ends whatever the other processes do, and
\* none waits for another.
CommandsEnd == \A p \in Proc : pc[p] # "off" ~> pc[p] = "off"

\* The comments on SqliteStore::open and migrate: open will "run pending migrations",
\* and migrate is to apply 0001 "if the meta table is absent or schema_version < 1".
\* A store that was opened has the whole schema.
OpenMigrates == \A p \in Proc : pc[p] = "use" => M!Migrated
=============================================================================
