---------------------------- MODULE StoreBackend ----------------------------
(***************************************************************************)
(* The engine behind the store, chosen once when it is opened.             *)
(*                                                                         *)
(* A Postgres transaction reads, at each statement, what is committed when *)
(* the statement begins.  SQLite has one writer at a time.  A transaction  *)
(* that begins with a write waits for the writer's lock; one that begins   *)
(* with a read keeps the snapshot of that read (there is no BEGIN          *)
(* IMMEDIATE), and its first write fails at once, whatever busy_timeout    *)
(* says, when another writer holds the lock or committed since.            *)
(***************************************************************************)
VARIABLE backend

Backends == {"postgres", "sqlite"}

\* Open and OpenSQLite
BackendInit == backend \in Backends

IsSQLite == backend = "sqlite"
=============================================================================
