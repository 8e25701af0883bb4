----------------------------- MODULE HomeProofs -----------------------------
(***************************************************************************)
(* For any number of processes and keys: HomeInv is inductive, so the log  *)
(* has one writer, one process at most is inside the migration, and a      *)
(* database found half-made has a process at work on it or a death behind  *)
(* it.                                                                     *)
(***************************************************************************)
EXTENDS Home, TLAPS

\* HomeInv in the first state.
LEMMA HomeInvInit == HomeInit => HomeInv
<1> SUFFICES ASSUME HomeInit PROVE HomeInv
  OBVIOUS
<1> USE DEF HomeInit, M!Statements, M!Meta
<1>1. HomeTypeOK
  BY DEF HomeTypeOK, HomePC, InStore, InInit
<1>2. LockHeld
  BY DEF LockHeld, Writing, InStore
<1>3. BatchAtHand
  BY DEF BatchAtHand
<1>4. HalfMade
  BY DEF HalfMade
<1>5. OneMigrator
  BY DEF OneMigrator
<1>6. QED
  BY <1>1, <1>2, <1>3, <1>4, <1>5 DEF HomeInv

\* The label of every process after a step of p.
LEMMA GotoMoves ==
    ASSUME HomeTypeOK, NEW p \in Proc, NEW from, NEW to \in HomePC, Goto(p, from, to)
    PROVE  /\ pc[p] = from /\ pc' \in [Proc -> HomePC] /\ pc'[p] = to
           /\ \A q \in Proc : q # p => pc'[q] = pc[q]
  BY DEF HomeTypeOK, Goto

\* A step of p between labels outside the store, which leaves the store, the lock
\* and every batch alone.
LEMMA KeyStepKeeps ==
    ASSUME HomeInv, NEW p \in Proc, NEW from \in HomePC \ InStore, NEW to \in HomePC \ InStore,
           KeyStep(p, from, to),
           (content \in Key \cup {NoFile, Empty} /\ ownerOnly \in BOOLEAN
            /\ signing \in [Proc -> Key \cup {Empty}])'
    PROVE  HomeInv'
<1>1. /\ pc[p] = from /\ pc' \in [Proc -> HomePC] /\ pc'[p] = to
      /\ \A q \in Proc : q # p => pc'[q] = pc[q]
      /\ UNCHANGED <<role, lock, db, next, cut>>
  BY GotoMoves DEF HomeInv, KeyStep, dbVars
<1>2. HomeTypeOK'
  BY <1>1 DEF HomeInv, HomeTypeOK, M!Statements
<1>3. LockHeld'
  BY <1>1 DEF HomeInv, LockHeld, Writing
<1>4. BatchAtHand'
  BY <1>1 DEF HomeInv, BatchAtHand, M!Current, InStore
<1>5. HalfMade'
  BY <1>1 DEF HomeInv, HalfMade, M!Statements
<1>6. OneMigrator'
  BY <1>1 DEF HomeInv, OneMigrator
<1>7. QED
  BY <1>2, <1>3, <1>4, <1>5, <1>6 DEF HomeInv

\* The end of a process keeps HomeInv, if it was at the first statement or cut tells.
LEMMA EndKeeps ==
    ASSUME HomeInv, NEW p \in Proc, Ends(p), cut' \in BOOLEAN, cut => cut',
           next[p] > M!Meta => cut'
    PROVE  HomeInv'
<1> USE DEF HomeInv, M!Statements, M!Meta
<1>1. HomeTypeOK'
  BY HomeAssumption, SMTT(30) DEF HomeTypeOK, Ends, HomePC
<1>2. /\ \A q \in Proc : next'[q] = IF q = p THEN 0 ELSE next[q]
      /\ \A q \in Proc : pc'[q] = IF q = p THEN "off" ELSE pc[q]
      /\ db' = db
  BY DEF HomeTypeOK, Ends
<1>3. LockHeld'
  BY <1>2 DEF LockHeld, Ends, Writing, InStore, HomeTypeOK
<1>4. BatchAtHand' /\ OneMigrator'
  BY <1>2 DEF BatchAtHand, OneMigrator, M!Current
<1>5. HalfMade'
  BY <1>2 DEF HalfMade, HomeTypeOK
<1>6. QED
  BY <1>1, <1>3, <1>4, <1>5

\* A statement of the batch that takes effect: the first into an empty database with
\* nobody else past it, a later one by the only process there.
LEMMA MigratesKeeps ==
    ASSUME HomeInv, NEW p \in Proc, Migrates(p)
    PROVE  HomeInv'
<1> USE DEF M!Statements, M!Meta
<1>1. /\ next[p] \in 1 .. 5 /\ next[p] \notin db /\ db \subseteq 1 .. 5
      /\ UNCHANGED <<role, lock, cut, content, ownerOnly, signing>>
      /\ db' = db \cup {next[p]}
  BY DEF Migrates, M!Execute, M!Runs, HomeInv, HomeTypeOK, BatchAtHand, Goto, keyVars
<1>2. /\ next' \in [Proc -> 0 .. 5]
      /\ next'[p] = IF next[p] = 5 THEN 0 ELSE next[p] + 1
      /\ \A q \in Proc : q # p => next'[q] = next[q]
  BY <1>1 DEF Migrates, M!Execute, M!IsLast, HomeInv, HomeTypeOK
<1>3. /\ pc[p] = "migrate" /\ pc' \in [Proc -> HomePC]
      /\ pc'[p] = IF next[p] = 5 THEN "use" ELSE "migrate"
      /\ \A q \in Proc : q # p => pc'[q] = pc[q]
  BY DEF Migrates, Goto, M!IsLast, HomeInv, HomeTypeOK, HomePC, InStore
<1>4. \A q \in Proc : q # p => next[q] <= 1
  <2>1. CASE next[p] > 1
    BY <2>1, <1>1 DEF HomeInv, OneMigrator, HomeTypeOK
  <2>2. CASE next[p] = 1
    BY <2>2, <1>1 DEF HomeInv, OneMigrator, HomeTypeOK
  <2>3. QED
    BY <2>1, <2>2, <1>1
<1>5. db = 1 .. (next[p] - 1)
  BY <1>1 DEF HomeInv, OneMigrator, HalfMade
<1>6. db' = 1 .. next[p]
  BY <1>1, <1>5
<1>7. HomeTypeOK'
  <2>1. db' \subseteq M!Statements
    BY <1>1
  <2>2. next' \in [Proc -> M!Statements \cup {0}]
    BY <1>2
  <2>3. QED
    BY <2>1, <2>2, <1>1, <1>3 DEF HomeInv, HomeTypeOK
<1>8. LockHeld'
  BY <1>1, <1>3 DEF HomeInv, LockHeld, Writing, InStore
<1>9. BatchAtHand'
  <2>1. next'[p] # 0 <=> pc'[p] = "migrate"
    BY <1>1, <1>2, <1>3
  <2>2. pc'[p] = "use" => 2 \in db'
    BY <1>1, <1>3, <1>6
  <2>3. QED
    BY <2>1, <2>2, <1>1, <1>2, <1>3 DEF HomeInv, BatchAtHand, M!Current, M!Version
<1>10. HalfMade'
  BY <1>1, <1>2, <1>4, <1>5, <1>6 DEF HomeInv, HalfMade
<1>11. OneMigrator'
  <2>1. \A q \in Proc : next'[q] > 1 => q = p
    BY <1>2, <1>4
  <2>2. next'[p] > 1 => db' = 1 .. (next'[p] - 1)
    BY <1>1, <1>2, <1>6
  <2>3. QED
    BY <2>1, <2>2 DEF OneMigrator
<1>12. QED
  BY <1>7, <1>8, <1>9, <1>10, <1>11 DEF HomeInv

\* A step of p through the store other than a statement of the batch: at most its own
\* batch is begun.
LEMMA StoreKeeps ==
    ASSUME HomeInv, NEW p \in Proc,
           Acquire(p) \/ FindsVersion(p) \/ FindsNoVersion(p)
    PROVE  HomeInv'
<1> USE DEF M!Statements, M!Meta
<1>1. /\ pc' \in [Proc -> HomePC]
      /\ pc'[p] \in InStore
      /\ pc'[p] = "migrate" <=> next'[p] # 0
      /\ pc'[p] = "use" => M!Current
      /\ pc[p] \in {"acquire", "open"}
      /\ \A q \in Proc : q # p => pc'[q] = pc[q]
  <2>1. pc \in [Proc -> HomePC] /\ next \in [Proc -> 0 .. 5] /\ (next[p] # 0 <=> pc[p] = "migrate")
    BY DEF HomeInv, HomeTypeOK, BatchAtHand
  <2>2. QED
    BY <2>1 DEF Acquire, FindsVersion, FindsNoVersion, Goto, M!Begin, HomePC, InStore, dbVars
<1>2. /\ next' \in [Proc -> 0 .. 5] /\ next'[p] \in {next[p], 1}
      /\ \A q \in Proc : q # p => next'[q] = next[q]
      /\ UNCHANGED <<role, db, cut, content, ownerOnly, signing>>
  BY DEF HomeInv, HomeTypeOK, Acquire, FindsVersion, FindsNoVersion, M!Begin, dbVars, keyVars
<1>3. (lock' = p /\ lock = NoProc) \/ (lock' = lock /\ pc[p] = "open")
  BY DEF Acquire, FindsVersion, FindsNoVersion, Goto
<1>4. next[p] = 0 /\ next'[p] <= 1
  BY <1>1, <1>2 DEF HomeInv, HomeTypeOK, BatchAtHand
<1>5. HomeTypeOK'
  BY <1>1, <1>2, <1>3 DEF HomeInv, HomeTypeOK
<1>6. LockHeld'
  BY <1>1, <1>2, <1>3, HomeAssumption DEF HomeInv, LockHeld, Writing, InStore
<1>7. BatchAtHand'
  <2>1. ASSUME NEW q \in Proc
        PROVE  (next'[q] # 0 <=> pc'[q] = "migrate") /\ (pc'[q] = "use" => M!Current)
    BY <2>1, <1>1, <1>2 DEF HomeInv, BatchAtHand
  <2>2. QED
    BY <2>1, <1>2 DEF BatchAtHand, M!Current
<1>8. \A q \in Proc : next'[q] > 1 <=> next[q] > 1
  BY <1>2, <1>4 DEF HomeInv, HomeTypeOK
<1>9. HalfMade'
  BY <1>2, <1>8 DEF HomeInv, HalfMade
<1>10. OneMigrator'
  BY <1>2, <1>4, <1>8 DEF HomeInv, OneMigrator
<1>11. QED
  BY <1>5, <1>6, <1>7, <1>9, <1>10 DEF HomeInv

\* A process starts a command.
LEMMA CommandKeeps ==
    ASSUME HomeInv, NEW p \in Proc, Command(p)
    PROVE  HomeInv'
<1> USE DEF M!Statements, M!Meta
<1>1. /\ pc' \in [Proc -> HomePC] /\ role' \in [Proc -> {"none"} \cup DOMAIN Entry]
      /\ pc[p] = "off" /\ pc'[p] \in {"acquire", "open", "exists", "load"}
      /\ role'[p] = "write" => pc'[p] \notin InStore
      /\ \A q \in Proc : q # p => pc'[q] = pc[q] /\ role'[q] = role[q]
      /\ UNCHANGED <<lock, db, next, cut, content, ownerOnly, signing>>
  <2>1. PICK r \in DOMAIN Entry : Goto(p, "off", Entry[r]) /\ role' = [role EXCEPT ![p] = r]
    BY DEF Command
  <2>2. /\ Entry[r] \in {"acquire", "open", "exists", "load"}
        /\ r = "write" => Entry[r] = "acquire"
    BY DEF Entry
  <2>3. pc \in [Proc -> HomePC] /\ role \in [Proc -> {"none"} \cup DOMAIN Entry]
    BY DEF HomeInv, HomeTypeOK
  <2>4. UNCHANGED <<lock, db, next, cut, content, ownerOnly, signing>>
    BY DEF Command, dbVars, keyVars
  <2>5. {"acquire", "open", "exists", "load"} \subseteq HomePC
    BY DEF HomePC, InStore
  <2>6. pc[p] = "off" /\ pc' = [pc EXCEPT ![p] = Entry[r]]
    BY <2>1 DEF Goto
  <2>7. role'[p] = r
    BY <2>1, <2>3
  <2>8. "acquire" \notin InStore
    BY DEF InStore
  <2>9. /\ pc' \in [Proc -> HomePC] /\ pc'[p] = Entry[r]
        /\ \A q \in Proc : q # p => pc'[q] = pc[q]
    BY <2>2, <2>3, <2>5, <2>6
  <2>10. /\ role' \in [Proc -> {"none"} \cup DOMAIN Entry]
         /\ \A q \in Proc : q # p => role'[q] = role[q]
    BY <2>1, <2>3
  <2>11. QED
    BY <2>2, <2>4, <2>6, <2>7, <2>8, <2>9, <2>10
<1>2. HomeTypeOK'
  BY <1>1 DEF HomeInv, HomeTypeOK
<1>3. LockHeld'
  BY <1>1 DEF HomeInv, LockHeld, Writing
<1>4. BatchAtHand'
  BY <1>1 DEF HomeInv, BatchAtHand, M!Current
<1>5. HalfMade'
  BY <1>1 DEF HomeInv, HalfMade
<1>6. OneMigrator'
  BY <1>1 DEF HomeInv, OneMigrator
<1>7. QED
  BY <1>2, <1>3, <1>4, <1>5, <1>6 DEF HomeInv

\* Every step through the store keeps HomeInv.
LEMMA StoreStepKeeps ==
    ASSUME HomeInv, NEW p \in Proc, StoreStep(p)
    PROVE  HomeInv'
<1>1. CASE AcquireFails(p) \/ Uses(p)
  <2>1. ~(next[p] > M!Meta) /\ cut \in BOOLEAN
    BY <1>1 DEF AcquireFails, Uses, Leave, HomeInv, HomeTypeOK, BatchAtHand, M!Meta
  <2>2. QED
    BY <1>1, <2>1, EndKeeps DEF AcquireFails, Uses, Leave
<1>2. CASE MigrateFails(p)
  <2>1. ~(next[p] > M!Meta) /\ cut \in BOOLEAN
    BY <1>2 DEF MigrateFails, M!Runs, HomeInv, HomeTypeOK, OneMigrator, M!Meta, M!Statements
  <2>2. QED
    BY <1>2, <2>1, EndKeeps DEF MigrateFails, Leave
<1>3. CASE Migrates(p)
  BY <1>3, MigratesKeeps
<1>4. QED
  BY <1>1, <1>2, <1>3, StoreKeeps DEF StoreStep

\* Every step of init and of load keeps it.
LEMMA IdentityStepKeeps ==
    ASSUME HomeInv, NEW p \in Proc, IdentityStep(p)
    PROVE  HomeInv'
<1> DEFINE KeyOK == /\ content \in Key \cup {NoFile, Empty} /\ ownerOnly \in BOOLEAN
                    /\ signing \in [Proc -> Key \cup {Empty}]
<1>1. KeyOK /\ cut \in BOOLEAN
  BY DEF HomeInv, HomeTypeOK
<1>2. {"exists", "load", "read", "generate", "create", "write", "enforce", "assert"}
        \subseteq HomePC \ InStore
  BY DEF HomePC, InStore, InInit
<1>3. CASE FindsNoKey(p) \/ LoadAsserts(p)
  <2>1. KeyOK'
    BY <1>1, <1>3 DEF FindsNoKey, LoadAsserts, keyVars
  <2>2. QED
    BY <1>2, <1>3, <2>1, KeyStepKeeps DEF FindsNoKey, LoadAsserts
<1>4. CASE Generates(p)
  <2>1. KeyOK'
    BY <1>1, <1>4 DEF Generates, I!Generate, I!fileVars
  <2>2. QED
    BY <1>2, <1>4, <2>1, KeyStepKeeps DEF Generates
<1>5. CASE Creates(p)
  <2>1. KeyOK'
    BY <1>1, <1>5 DEF Creates, I!Create, I!Exists
  <2>2. QED
    BY <1>2, <1>5, <2>1, KeyStepKeeps DEF Creates
<1>6. CASE Writes(p)
  <2>1. KeyOK'
    BY <1>1, <1>6 DEF Writes, I!Write
  <2>2. QED
    BY <1>2, <1>6, <2>1, KeyStepKeeps DEF Writes
<1>7. CASE Enforces(p)
  <2>1. KeyOK'
    BY <1>1, <1>7 DEF Enforces, I!EnforceOwnerOnly
  <2>2. QED
    BY <1>2, <1>7, <2>1, KeyStepKeeps DEF Enforces
<1>8. CASE Refuses(p) \/ Asserts(p) \/ LoadRefuses(p) \/ LoadReads(p)
  <2>1. pc[p] # "migrate" /\ Ends(p) /\ UNCHANGED cut
    BY <1>8 DEF Refuses, Asserts, LoadRefuses, LoadReads, Leave
  <2>2. ~(next[p] > M!Meta)
    BY <2>1 DEF HomeInv, BatchAtHand, M!Meta
  <2>3. QED
    BY <1>1, <2>1, <2>2, EndKeeps
<1>9. QED
  BY <1>3, <1>4, <1>5, <1>6, <1>7, <1>8 DEF IdentityStep

\* Every step keeps it.
LEMMA HomeStepKeeps == HomeInv /\ [HomeNext]_homeVars => HomeInv'
<1> SUFFICES ASSUME HomeInv, [HomeNext]_homeVars PROVE HomeInv'
  OBVIOUS
<1>1. CASE UNCHANGED homeVars
  BY <1>1 DEF HomeInv, HomeTypeOK, LockHeld, BatchAtHand, HalfMade, OneMigrator, Writing,
              M!Statements, M!Meta, M!Current, homeVars, dbVars, keyVars
<1>2. ASSUME NEW p \in Proc, Crash(p) PROVE HomeInv'
  <2>1. cut' \in BOOLEAN /\ (cut => cut') /\ (next[p] > M!Meta => cut')
    BY <1>2 DEF Crash, HomeInv, HomeTypeOK
  <2>2. QED
    BY <1>2, <2>1, EndKeeps DEF Crash
<1>3. ASSUME HomeNext PROVE HomeInv'
  BY <1>2, <1>3, CommandKeeps, StoreStepKeeps, IdentityStepKeeps DEF HomeNext, HomeStep
<1>4. QED
  BY <1>1, <1>3

-----------------------------------------------------------------------------
\* HomeInv holds of every state: what lock.rs, open, migrate and generate keep among
\* them, whatever processes start, fail and die.
THEOREM HomeInvariant == HomeSpec => []HomeInv
  BY HomeInvInit, HomeStepKeeps, PTL DEF HomeSpec

\* Lock::acquire: however many processes start, one writes to the log.
THEOREM SingleWriter == HomeSpec => []OneWriter
<1>1. HomeInv => OneWriter
  BY DEF HomeInv, LockHeld, OneWriter
<1>2. QED
  BY <1>1, HomeInvariant, PTL

\* SqliteStore::migrate needs no lock to run once: whoever makes the table meta is alone
\* in the batch.
THEOREM SingleMigrator == HomeSpec => []OneMigrator
<1>1. HomeInv => OneMigrator
  BY DEF HomeInv
<1>2. QED
  BY <1>1, HomeInvariant, PTL

\* SqliteStore::open: an incomplete database is opened only while somebody migrates it,
\* or after a death inside the batch.
THEOREM OpensOnComplete == HomeSpec => []OpensComplete
<1>1. HomeInv => OpensComplete
  BY DEF HomeInv, HalfMade, BatchAtHand, OpensComplete, M!Migrated, M!Current
<1>2. QED
  BY <1>1, HomeInvariant, PTL

=============================================================================
