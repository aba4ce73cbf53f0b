----------------------------- MODULE UnitOfWork -----------------------------
(***************************************************************************)
(* What a SQLAlchemy session writes at a flush or commit: the attributes   *)
(* of a loaded row that were assigned a value different from the loaded    *)
(* one, and nothing else.  The database is at READ COMMITTED and nothing   *)
(* compares versions, so other attributes keep what other transactions     *)
(* committed meanwhile, and a written attribute overwrites it.             *)
(***************************************************************************)

\* Mutant: the whole row is written.
FlushAll(current, loaded, changed) == changed

\* current: the row in the database; loaded: what the session read; changed: the
\* row as the handler left it in memory.
Flush(current, loaded, changed) ==
  [f \in DOMAIN current |-> IF changed[f] # loaded[f] THEN changed[f] ELSE current[f]]

\* The same for a table: a row the session did not touch is not written.
FlushTable(current, loaded, changed) ==
  [k \in DOMAIN current |-> Flush(current[k], loaded[k], changed[k])]
=============================================================================
