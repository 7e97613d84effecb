---------------------------- MODULE MCMigration ----------------------------
(***************************************************************************)
(* Model-checking instances of the migration.  The configurations choose   *)
(* the format the vault starts from; three wallets give a pass a wallet    *)
(* behind it, one under way and one still to come, and the salts let a     *)
(* migration be interrupted and retried.                                   *)
(***************************************************************************)
EXTENDS Migration
=============================================================================
