----------------------------- MODULE MCRufAudit -----------------------------
(* RufAudit with the constants of MCWorlds: each cfg chooses its Worlds.    *)
EXTENDS RufAudit, MCWorlds
=============================================================================
