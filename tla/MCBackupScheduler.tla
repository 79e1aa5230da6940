------------------------ MODULE MCBackupScheduler ------------------------
EXTENDS BackupScheduler, TLC
CONSTANTS shop, blog
MCDue == shop :> {0, 2} @@ blog :> {0}
(* The archives of blog begin with the name of shop and a dash. *)
MCShadows == {<<shop, blog>>}
=============================================================================
