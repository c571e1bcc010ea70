----------------------------- MODULE MCStartup -----------------------------
(***************************************************************************)
(* Startup of one process, with one `ca` command next to it or without.    *)
(***************************************************************************)
EXTENDS Startup

CONSTANTS web, main, command

MCStarters == {web, main}
MCWorkers == {main, command}
MCNoCommand == {main}
MCProcesses == {{web, main}}
MCSavers == {main}
=============================================================================
