-------------------------- MODULE MCDeviceConnections --------------------------
(***************************************************************************)
(* DeviceConnections on small instances: the .cfg files name the           *)
(* connections.  No symmetry: the runs check liveness.                     *)
(***************************************************************************)
EXTENDS DeviceConnections
===============================================================================
