------------------------------ MODULE MCMigrator ------------------------------
(* Instances of Migrator for TLC: the migration files around every place where *)
(* the order of paths and that of versions could differ, and releases that     *)
(* have some or all of them.                                                   *)
EXTENDS Migrator

\* store/migration/sqlite, thinned out.
MCFiles == {<<8, 0>>, <<8, 1>>, <<9, 0>>, <<10, 0>>, <<2, 0>>, <<22, 0>>, <<22, 3>>,
            <<3, 0>>, <<23, 0>>, <<24, 0>>, <<24, 1>>, <<28, 0>>, <<30, 0>>}

\* 0.22/00 and 0.23/00 could run twice.
MCRepeatable == {<<22, 0>>, <<23, 0>>}

V22 == <<22, 0>>

===============================================================================
