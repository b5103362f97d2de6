---------------------------- MODULE MCPushService ----------------------------
(* The values of the constants, and nothing else, come from the cfg files.  *)
EXTENDS PushService
=============================================================================
