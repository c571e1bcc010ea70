--------------------------- MODULE MCStorageInit ---------------------------
(***************************************************************************)
(* StorageInit with the two threads of `imr-proxy start` and one more      *)
(* command.                                                                *)
(***************************************************************************)
EXTENDS StorageInit

CONSTANTS web, main, command

MCStarters == {web, main, command}
MCProcesses == {{web, main}, {command}}
MCSavers == {main}
=============================================================================
