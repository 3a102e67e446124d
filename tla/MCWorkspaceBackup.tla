-------------------------- MODULE MCWorkspaceBackup --------------------------
(* One file of each kind, in the order of their names; two restores.       *)
EXTENDS WorkspaceBackup, TLC

CONSTANTS keys, profiles, server, x, y

MCOrder == <<keys, profiles, server>>

(* With everything, and with neither a store nor the record of a server.   *)
MCHomes ==
  {keys :> x @@ profiles :> x @@ server :> Stopped,
   keys :> x @@ profiles :> Absent @@ server :> Absent}
=============================================================================
