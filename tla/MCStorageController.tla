-------------------------- MODULE MCStorageController --------------------------
(* Small instances of StorageController for TLC. *)
EXTENDS StorageController

CONSTANTS api1, api2, tick, index, motion
===============================================================================
