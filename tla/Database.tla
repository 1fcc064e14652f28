------------------------------- MODULE Database -------------------------------
(***************************************************************************)
(* The one SQLite file of the application (backend/db.py resolves its path *)
(* and opens every connection): what a connection opened now reads from    *)
(* it.  Accounts reads and writes its rows; Backup copies all of it, and    *)
(* may leave it torn.                                                      *)
(***************************************************************************)
CONSTANT
  Torn  \* a database cut short, or mixed with another one's WAL

VARIABLE db
===============================================================================
