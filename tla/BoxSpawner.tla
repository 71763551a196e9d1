----------------------------- MODULE BoxSpawner -----------------------------
(***************************************************************************)
(* box_spawner (src/src/conveyor_sim/src/box_spawner.cpp): conveyor/       *)
(* spawn_box blocks until scene_gateway has confirmed the ADD of the next  *)
(* box, or SpawnerTimeout has passed.  Only a confirmed box uses up its    *)
(* number, so a failed spawn is retried with the same id.                  *)
(***************************************************************************)
EXTENDS Naturals, Sequences

CONSTANT SpawnerTimeout   \* 6 s in the code

VARIABLES
  count,      \* count_
  spawnPc,    \* "idle", or "waiting" inside onSpawn()
  spawnWait,  \* seconds waited for scene_gateway
  addQ        \* requests at scene_gateway/add_object, the one in service first

spawnerVars == <<count, spawnPc, spawnWait, addQ>>

SpawnerInit ==
  /\ count = 0
  /\ spawnPc = "idle"
  /\ spawnWait = 0
  /\ addQ = <<>>

\* onSpawn() with scene_gateway up: ask for the next box.
OnSpawn ==
  /\ spawnPc = "idle"
  /\ spawnPc' = "waiting"
  /\ spawnWait' = 0
  /\ addQ' = Append(addQ, [id |-> count + 1, awaited |-> TRUE])
  /\ UNCHANGED count

\* Mutations of OnGatewayAnswer: a late answer is taken for the current one; a
\* refusal is taken for a success.
OnGatewayAnswerUnmatched(success) ==
  /\ addQ # <<>>
  /\ addQ' = Tail(addQ)
  /\ spawnPc' = "idle"
  /\ spawnWait' = 0
  /\ count' = IF success THEN count + 1 ELSE count
OnGatewayAnswerUnchecked(success) ==
  /\ addQ # <<>>
  /\ addQ' = Tail(addQ)
  /\ IF Head(addQ).awaited
     THEN /\ spawnPc' = "idle"
          /\ spawnWait' = 0
          /\ count' = count + 1
     ELSE UNCHANGED <<spawnPc, spawnWait, count>>

\* scene_gateway has answered the request in service; only an awaited answer
\* reaches onSpawn().
OnGatewayAnswer(success) ==
  /\ addQ # <<>>
  /\ addQ' = Tail(addQ)
  /\ IF Head(addQ).awaited
     THEN /\ spawnPc' = "idle"
          /\ spawnWait' = 0
          /\ count' = IF success THEN count + 1 ELSE count
     ELSE UNCHANGED <<spawnPc, spawnWait, count>>

SpawnerTimesOut ==
  /\ spawnPc = "waiting"
  /\ spawnWait = SpawnerTimeout
  /\ spawnPc' = "idle"
  /\ spawnWait' = 0
  /\ addQ' = [i \in 1..Len(addQ) |-> [addQ[i] EXCEPT !.awaited = FALSE]]
  /\ UNCHANGED count
=============================================================================
