------------------------------ MODULE MCDbPool ------------------------------
(* Queries for model checking DbPool: the databases of a server, writes and *)
(* a read, submitted in any order.                                          *)
EXTENDS DbPool

CONSTANTS backup, server, reader, save1, save2, ask

MCKind ==
    [q \in Queries |->
        CASE q = backup -> "addBackup"
          [] q = server -> "addWrite"
          [] q = reader -> "addRead"
          [] q \in {save1, save2} -> "write"
          [] q = ask -> "read"]
=============================================================================
