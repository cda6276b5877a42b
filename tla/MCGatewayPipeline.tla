-------------------------- MODULE MCGatewayPipeline --------------------------
(***************************************************************************)
(* Two messages of one conversation, for one slot or for two: the second   *)
(* waits for the first, or meets it at every await.  A fault of each kind  *)
(* may meet any step.                                                      *)
(***************************************************************************)
EXTENDS GatewayPipeline, TLC

CONSTANTS r1, r2, hello, bye

MCTexts == r1 :> hello @@ r2 :> bye
=============================================================================
