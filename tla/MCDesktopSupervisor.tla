------------------------ MODULE MCDesktopSupervisor ------------------------
(* Small instances of DesktopSupervisor.                                   *)
EXTENDS DesktopSupervisor
=============================================================================
