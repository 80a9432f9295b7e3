----------------------------- MODULE SqliteLock -----------------------------
(***************************************************************************)
(* The file lock of data.db as a statement of the server meets it.         *)
(*                                                                         *)
(* The server and PRICE_UPDATER open data.db with the default rollback     *)
(* journal and set no busy timeout, so a lock that is not free at once is  *)
(* SQLITE_BUSY at once.  LockLevels names what ANOTHER process holds; the  *)
(* server's own side is the set `reading' of its prepared SELECTs that     *)
(* were left at a row: each keeps the connection's SHARED lock.            *)
(***************************************************************************)
LockLevels == {"none", "shared", "reserved", "pending"}

(* A first reader needs SHARED, which PENDING and EXCLUSIVE refuse; a      *)
(* connection that still reads already has it.                             *)
CanRead(reading, other) == reading # {} \/ other # "pending"

(* A write takes RESERVED and, at its commit, EXCLUSIVE: nobody else may   *)
(* hold anything, while the writer's own readers do not stand in its way.  *)
CanWrite(other) == other = "none"

(* The same two facts seen from the other process: the server's readers    *)
(* let it take RESERVED and PENDING, but refuse it EXCLUSIVE.              *)
CanCommit(reading) == reading = {}
=============================================================================
