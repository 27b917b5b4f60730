----------------------------- MODULE MCMigrator -----------------------------
(* Small instances of Migrator: two years, the first begun by schema.sql. *)
EXTENDS Migrator

CONSTANTS y1, y2

MCYear == {y1, y2}
MCSchemaPartition == {<<y1, 1>>}
=============================================================================
