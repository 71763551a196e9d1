---------------------------- MODULE MCSceneSync ----------------------------
(* SceneSync with short timeouts and few boxes, for TLC.                   *)
EXTENDS SceneSync
=============================================================================
