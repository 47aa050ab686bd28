----------------------------- MODULE MCStartup -----------------------------
(* Startup with the names the code uses, for TLC.                          *)
EXTENDS Startup

MCDbPart == {"DB_HOST", "DB_NAME", "DB_USERNAME", "DB_PASSWORD"}
MCRoles == {"api", "worker", "migration"}
=============================================================================
