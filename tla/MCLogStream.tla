---------------------------- MODULE MCLogStream ----------------------------
(* The instances of LogStream that TLC checks. *)
EXTENDS LogStream

MCSlow == {"setup", "jobs", "publish"}
MCSetup == {"setup"}
MCFaults == {"crash", "escape", "disk full", "disconnect"}
=============================================================================
