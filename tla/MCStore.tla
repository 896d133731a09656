-------------------------------- MODULE MCStore -------------------------------
(* Migrator and Memos for TLC: a database that releases come to and go from, or one that serves  *)
(* requests.  They share no state of the models, and one of them, chosen at the start, takes all  *)
(* the steps.                                                                                     *)
EXTENDS MCMigrator, MCMemos

VARIABLE part

Init ==
    /\ part \in {"migrator", "memos"}
    /\ MigratorInit /\ (part # "migrator" => ~tables)
    /\ MemosInit

Next ==
    /\ UNCHANGED part
    /\ \/ part = "migrator" /\ MigratorNext /\ UNCHANGED memosVars
       \/ part = "memos" /\ MemosNext /\ UNCHANGED migratorVars

===============================================================================
