----------------------------- MODULE Migration -----------------------------
(***************************************************************************)
(* SqliteStore::open and migrate of store.rs.  The batch of 0001_init.sql  *)
(* is five statements, each committed by itself; db is the set of those    *)
(* that took effect.  A statement fails when what it makes is there, and   *)
(* the batch ends with it.  Each process is somewhere in its own batch.    *)
(***************************************************************************)
EXTENDS Naturals

VARIABLES
    db,         \* statements of the migration that took effect
    next        \* the statement each process runs next

\* CREATE TABLE meta; INSERT schema_version; CREATE TABLE operations; CREATE TABLE
\* actions; CREATE INDEX idx_actions_op.
Meta       == 1
Version    == 2
Operations == 3
Actions    == 4
Statements == 1 .. 5

Migrated == db = Statements

\* What begin_op and every query of the log need.
LogUsable == {Operations, Actions} \subseteq db

\* The SELECT finds schema_version.
Current == Version \in db

\* The SELECT finds no row, or fails: any error is taken for a missing table.
Begin(p) == next' = [next EXCEPT ![p] = Meta] /\ UNCHANGED db

\* CREATE TABLE IF NOT EXISTS: what is there is passed over.
SlipRuns(p) == TRUE
Runs(p)     == next[p] \notin db

\* execute in the place of execute_batch runs the first statement alone.
SlipIsLast(p) == next[p] = Meta
IsLast(p)     == next[p] = 5

Execute(p) ==
    /\ Runs(p)
    /\ db' = db \cup {next[p]}
    /\ next' = [next EXCEPT ![p] = IF IsLast(p) THEN 0 ELSE @ + 1]
=============================================================================
