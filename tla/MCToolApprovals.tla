--------------------------- MODULE MCToolApprovals ---------------------------
(* A small instance of ToolApprovals: which agent and module each request   *)
(* has is fixed here, the sets are in the .cfg files.                        *)
EXTENDS ToolApprovals, TLC

CONSTANTS a1, r1

\* The one request is by agent a1 for a tool of add-on 1.
OneRequest == r1 :> a1
OneRequestModule == r1 :> 1
=============================================================================
