--------------------------- MODULE SceneSyncProofs ---------------------------
(***************************************************************************)
(* The planning scene for any number of boxes, refusals, color changes and *)
(* waiting requests, and any timeouts: a MOVE never comes before its ADD,  *)
(* numbers are handed out with their box in the scene, as long as the      *)
(* sensor keeps up with the arm no box jumps back, and as long as          *)
(* move_group keeps up with the diffs no color is lost.                    *)
(***************************************************************************)
EXTENDS SceneSync, TopicTheorems

States  == UNION {[S -> StartX..PickX] : S \in SUBSET Ids}
Paints  == UNION {[S -> Colors] : S \in SUBSET Ids}
Diffs   == [move : States, paint : Paints]
Adds    == [id : Ids \cup {Belt}, color : Colors \cup {NoColor}, awaited : BOOLEAN]
Asks    == [id : Ids, awaited : BOOLEAN]

QueueInv ==
  /\ inScene \in States
  /\ applyQ \in Seq(Adds)
  /\ addQ \in Seq(Asks)
  /\ sceneQ \in Seq(Diffs) /\ Len(sceneQ) <= SceneDepth
  /\ statesQ \in Seq(States) /\ Len(statesQ) <= Depth
  /\ removedQ \in Seq(Ids) /\ Len(removedQ) <= Depth

\* Whoever waits, waits for the last request; all requests are for the next box.
AskInv ==
  /\ \A i \in 1..Len(applyQ) : applyQ[i].id \in {Belt, count + 1}
  /\ \A i \in 1..Len(applyQ) :
       applyQ[i].awaited => i = Len(applyQ) /\ applyQ[i].id = adding /\ svc # "idle"
  /\ \A i \in 1..Len(addQ) : addQ[i].id = count + 1
  /\ \A i \in 1..Len(addQ) : addQ[i].awaited => i = Len(addQ) /\ spawnPc = "waiting"
  /\ svc = "add" => addQ # <<>> /\ adding = count + 1
  /\ svc = "belt" => adding = Belt

\* An answer comes after all requests, those given up included.
ReplyInv ==
  /\ reply # "none" => svc # "idle" /\ applyQ = <<>>
  /\ reply = "success" /\ svc = "add" => world[adding] # Absent

\* Boxes are in the scene when they are known, and only boxes that were handed
\* out travel.
WorldInv ==
  /\ \A b \in Ids : b > count => world[b] \in {Absent, StartX}
  /\ \A b \in Ids : b <= count => world[b] # Absent
  /\ \A b \in DOMAIN inScene : world[b] # Absent
  /\ removed \subseteq 1..count
  /\ \A i \in 1..Len(statesQ) : DOMAIN statesQ[i] \subseteq 1..count
  /\ \A i \in 1..Len(sceneQ) : DOMAIN sceneQ[i].move \subseteq 1..count

\* From the belt to the scene positions only get older.
OrderInv ==
  /\ \A b \in DOMAIN inScene : world[b] <= inScene[b] /\ inScene[b] <= x[b]
  /\ \A i \in 1..Len(statesQ) : \A b \in DOMAIN statesQ[i] :
       /\ statesQ[i][b] <= x[b]
       /\ b \in DOMAIN inScene => inScene[b] <= statesQ[i][b]
       /\ \A j \in 1..Len(statesQ) : i < j /\ b \in DOMAIN statesQ[j] => statesQ[i][b] <= statesQ[j][b]
  /\ \A i \in 1..Len(sceneQ) : \A b \in DOMAIN sceneQ[i].move :
       /\ world[b] <= sceneQ[i].move[b]
       /\ b \in DOMAIN inScene => sceneQ[i].move[b] <= inScene[b]
       /\ \A j \in 1..Len(sceneQ) :
            i < j /\ b \in DOMAIN sceneQ[j].move => sceneQ[i].move[b] <= sceneQ[j].move[b]

\* Nothing moves a box on the pallet any more.
PalletInv == SensorKeepsUp => \A b \in Ids : world[b] = OnPallet => ~StillMoved(b)

Inv == TypeOK /\ QueueInv /\ AskInv /\ ReplyInv /\ WorldInv /\ OrderInv /\ PalletInv

-----------------------------------------------------------------------------
(* Facts about the data, once and for all.                                 *)

LEMMA Constants ==
  /\ MaxBoxes \in Nat /\ PickX \in Nat /\ PickX > 0 /\ Eps \in Nat
  /\ Depth \in Nat \ {0} /\ SceneDepth \in Nat \ {0}
  /\ GatewayTimeout \in Nat /\ SpawnerTimeout \in Nat
  /\ Ids \subseteq Nat /\ (\A b \in Ids : b >= 1 /\ b <= MaxBoxes)
  /\ Belt \notin Ids
  BY SceneAssumption DEF Ids

\* Positions of some boxes, and a diff.
LEMMA ReadStates ==
  ASSUME NEW f \in States
  PROVE  /\ DOMAIN f \subseteq Ids
         /\ \A b \in DOMAIN f : f[b] \in StartX..PickX
  BY DEF States

LEMMA ReadDiff ==
  ASSUME NEW d \in Diffs
  PROVE  /\ d.move \in States
         /\ DOMAIN d.paint \subseteq Ids
         /\ \A b \in DOMAIN d.paint : d.paint[b] \in Colors
  BY DEF Diffs, Paints

LEMMA InitInv == ASSUME Init PROVE Inv
<1> USE Constants DEF Init, Gateway!GatewayInit, Spawner!SpawnerInit, StartX, Absent, OnPallet, InGripper
<1>1. TypeOK
  <2>1. /\ world \in [Ids -> {Absent, InGripper, OnPallet} \cup StartX..PickX]
        /\ painted \in [Ids -> Colors \cup {NoColor}]
        /\ x \in [Ids -> StartX..PickX]
    OBVIOUS
  <2>2. DOMAIN inScene \subseteq Ids /\ count \in 0..MaxBoxes /\ waited \in 0..GatewayTimeout
        /\ spawnWait \in 0..SpawnerTimeout
    OBVIOUS
  <2>3. /\ adding \in Ids \cup {Belt} /\ {colorAtAdd, boxColor} \subseteq Colors \cup {NoColor}
        /\ colorPending \subseteq Ids /\ removed \subseteq Ids
    OBVIOUS
  <2>4. svc \in {"idle", "belt", "add"} /\ reply \in {"none", "success", "failure"}
        /\ spawnPc \in {"idle", "waiting"} /\ beltSpawned \in BOOLEAN
    OBVIOUS
  <2> QED BY ONLY <2>1, <2>2, <2>3, <2>4 DEF TypeOK
<1>2. inScene \in States
  BY DEF States
<1>3. /\ applyQ \in Seq(Adds) /\ addQ \in Seq(Asks) /\ sceneQ \in Seq(Diffs)
      /\ statesQ \in Seq(States) /\ removedQ \in Seq(Ids)
      /\ Len(applyQ) = 0 /\ Len(addQ) = 0 /\ Len(sceneQ) = 0 /\ Len(statesQ) = 0 /\ Len(removedQ) = 0
  BY EmptySeq
<1>4. QueueInv
  BY <1>2, <1>3 DEF QueueInv
<1>5. AskInv /\ ReplyInv /\ OrderInv /\ PalletInv
  BY <1>3 DEF AskInv, ReplyInv, OrderInv, PalletInv
<1>6. WorldInv
  BY <1>3 DEF WorldInv
<1> QED BY <1>1, <1>4, <1>5, <1>6 DEF Inv

-----------------------------------------------------------------------------
(* Requests for boxes.                                                     *)

LEMMA RequestBoxKeepsInv ==
  ASSUME Inv, RequestBox
  PROVE  Inv'
<1> USE Constants DEF Inv, RequestBox, Spawner!OnSpawn, gatewayVars, sceneVars, beltVars
<1>1. count + 1 \in Ids
  BY DEF TypeOK, Ids
<1>2. [id |-> count + 1, awaited |-> TRUE] \in Asks
  BY <1>1 DEF Asks
<1>3. /\ addQ' \in Seq(Asks) /\ Len(addQ') = Len(addQ) + 1
      /\ \A i \in 1..Len(addQ) : addQ'[i] = addQ[i]
      /\ addQ'[Len(addQ) + 1] = [id |-> count + 1, awaited |-> TRUE]
  BY <1>2, AppendProperties DEF QueueInv
<1>4. TypeOK' /\ QueueInv'
  <2>1. spawnPc' = "waiting" /\ spawnWait' = 0 /\ 0 \in 0..SpawnerTimeout /\ count' = count
    OBVIOUS
  <2>2. UNCHANGED <<gatewayVars, sceneVars, beltVars>>
    OBVIOUS
  <2>3. TypeOK'
    BY ONLY TypeOK, <2>1, <2>2 DEF TypeOK, gatewayVars, sceneVars, beltVars
  <2>4. QueueInv'
    BY ONLY QueueInv, <1>3, <2>2 DEF QueueInv, gatewayVars, beltVars
  <2> QED BY <2>3, <2>4
<1>5. AskInv'
  <2>1. Len(addQ) \in Nat
    BY DEF QueueInv
  <2>2. addQ # <<>> => addQ' # <<>>
    BY <1>3, <2>1
  <2> QED BY <1>3, <2>1, <2>2 DEF AskInv
<1> QED BY <1>4, <1>5 DEF ReplyInv, WorldInv, OrderInv, PalletInv, StillMoved

LEMMA SpawnerGivesUpKeepsInv ==
  ASSUME Inv, SpawnerGivesUp
  PROVE  Inv'
<1> USE Constants DEF Inv, SpawnerGivesUp, Spawner!SpawnerTimesOut, gatewayVars, sceneVars, beltVars
<1>1. /\ addQ' \in Seq(Asks) /\ Len(addQ') = Len(addQ)
      /\ \A i \in 1..Len(addQ') : addQ'[i].id = addQ[i].id /\ ~addQ'[i].awaited
  <2>1. Len(addQ) \in Nat /\ \A i \in 1..Len(addQ) : addQ[i] \in Asks
    BY DEF QueueInv
  <2>2. addQ' = [i \in 1..Len(addQ) |-> [addQ[i] EXCEPT !.awaited = FALSE]]
    OBVIOUS
  <2>3. \A i \in 1..Len(addQ) : addQ'[i] \in Asks /\ addQ'[i].id = addQ[i].id /\ ~addQ'[i].awaited
    BY ONLY <2>1, <2>2 DEF Asks
  <2> QED BY ONLY <2>1, <2>2, <2>3
<1>2. addQ # <<>> => addQ' # <<>>
  <2>1. addQ # <<>> => Len(addQ) # 0
    BY EmptySeq DEF QueueInv
  <2>2. Len(<<>>) = 0
    OBVIOUS
  <2> QED BY <1>1, <2>1, <2>2
<1>3. /\ UNCHANGED <<gatewayVars, sceneVars, beltVars, count>>
      /\ spawnPc' = "idle" /\ spawnWait' = 0
  OBVIOUS
<1>4. TypeOK'
  <2>1. spawnWait' \in 0..SpawnerTimeout
    BY <1>3
  <2> QED BY ONLY <1>3, <2>1, Inv DEF Inv, TypeOK, gatewayVars, sceneVars, beltVars
<1>5. QueueInv'
  BY ONLY <1>1, <1>3, Inv DEF Inv, QueueInv, gatewayVars, sceneVars, beltVars
<1>6. AskInv'
  BY ONLY <1>1, <1>2, <1>3, Inv DEF Inv, AskInv, gatewayVars
<1> QED BY <1>3, <1>4, <1>5, <1>6 DEF ReplyInv, WorldInv, OrderInv, PalletInv, StillMoved

LEMMA AskKeepsInv ==
  ASSUME Inv, AddBelt \/ BeginAdd
  PROVE  Inv'
<1> USE Constants DEF Inv, spawnerVars, sceneVars, beltVars
<1> DEFINE id == IF AddBelt THEN Belt ELSE Head(addQ).id
           color == IF AddBelt THEN NoColor ELSE boxColor
           r == [id |-> id, color |-> color, awaited |-> TRUE]
<1>1. addQ # <<>> => Head(addQ) \in Asks /\ Head(addQ).id = count + 1 /\ count + 1 \in Ids
  <2>1. SUFFICES ASSUME addQ # <<>> PROVE Head(addQ) \in Asks /\ Head(addQ).id = count + 1
    BY DEF Asks
  <2>2. Head(addQ) \in Asks /\ 1 \in 1..Len(addQ) /\ Head(addQ) = addQ[1]
    BY <2>1, DeliverType, DeliverElements DEF QueueInv
  <2> QED BY <2>2 DEF AskInv
<1>2. /\ svc = "idle" /\ svc' = IF AddBelt THEN "belt" ELSE "add"
      /\ adding' = id /\ waited' = 0 /\ reply' = "none" /\ applyQ' = Append(applyQ, r)
      /\ colorAtAdd' \in {colorAtAdd, boxColor}
      /\ ~AddBelt => addQ # <<>>
      /\ UNCHANGED <<beltSpawned, inScene, boxColor, colorPending, sceneQ, spawnerVars,
                     sceneVars, beltVars>>
  <2>1. CASE AddBelt
    BY <2>1 DEF AddBelt, Gateway!AddBelt, Gateway!Ask
  <2>2. CASE ~AddBelt
    BY <2>2 DEF BeginAdd, Gateway!BeginAdd, Gateway!Ask
  <2> QED BY <2>1, <2>2
<1>3. id \in Ids \cup {Belt} /\ (AddBelt => id = Belt) /\ (~AddBelt => id = count + 1)
  BY <1>1, <1>2
<1>4. r \in Adds /\ r.id = id
  BY <1>3 DEF Adds, TypeOK
<1> HIDE DEF id, color, r
<1>5. /\ applyQ' \in Seq(Adds) /\ Len(applyQ') = Len(applyQ) + 1
      /\ \A i \in 1..Len(applyQ) : applyQ'[i] = applyQ[i]
      /\ applyQ'[Len(applyQ) + 1] = r
  BY <1>2, <1>4, AppendProperties DEF QueueInv
<1>6. TypeOK' /\ QueueInv'
  <2>1. TypeOK'
    <3>1. /\ svc' \in {"idle", "belt", "add"} /\ waited' \in 0..GatewayTimeout
          /\ adding' \in Ids \cup {Belt} /\ reply' = "none"
          /\ colorAtAdd' \in Colors \cup {NoColor}
      BY <1>2, <1>3 DEF TypeOK
    <3>2. UNCHANGED <<beltSpawned, inScene, boxColor, colorPending, spawnerVars, sceneVars, beltVars>>
      BY <1>2
    <3> QED BY ONLY TypeOK, <3>1, <3>2 DEF TypeOK, spawnerVars, sceneVars, beltVars
  <2>2. UNCHANGED <<inScene, sceneQ, spawnerVars, beltVars>>
    BY <1>2
  <2>3. QueueInv'
    BY ONLY QueueInv, <1>5, <2>2 DEF QueueInv, spawnerVars, beltVars
  <2> QED BY <2>1, <2>3
<1>7. AskInv'
  <2>1. Len(applyQ) \in Nat
    BY DEF QueueInv
  <2>2. \A i \in 1..Len(applyQ) : applyQ[i].id \in {Belt, count + 1} /\ ~applyQ[i].awaited
    BY <1>2 DEF AskInv
  <2>3. /\ \A i \in 1..Len(applyQ') : applyQ'[i].id \in {Belt, count + 1}
        /\ \A i \in 1..Len(applyQ') :
             applyQ'[i].awaited => i = Len(applyQ') /\ applyQ'[i].id = id
    BY ONLY <1>3, <1>4, <1>5, <2>1, <2>2
  <2>4. /\ svc' = "belt" \/ (svc' = "add" /\ addQ # <<>>)
        /\ svc' = "add" => adding' = count + 1
        /\ svc' = "belt" => adding' = Belt
    <3>1. CASE AddBelt
      <4>1. svc' = "belt" /\ adding' = Belt
        BY ONLY <3>1 DEF AddBelt, Gateway!AddBelt, Gateway!Ask
      <4> QED BY ONLY <4>1
    <3>2. CASE ~AddBelt
      <4>1. svc' = "add" /\ adding' = count + 1 /\ addQ # <<>>
        BY <1>2, <1>3, <3>2
      <4> QED BY ONLY <4>1
    <3> QED BY <3>1, <3>2
  <2>5. adding' = id /\ UNCHANGED <<count, spawnPc, addQ>>
    BY <1>2
  <2>6. svc' # "idle"
    BY ONLY <2>4
  <2> QED BY ONLY AskInv, <2>3, <2>4, <2>5, <2>6 DEF AskInv
<1>8. UNCHANGED <<inScene, sceneQ, count, world, x, statesQ, removed>> /\ reply' = "none"
  BY <1>2
<1>9. ReplyInv' /\ WorldInv'
  BY ONLY WorldInv, <1>8 DEF ReplyInv, WorldInv
<1>10. OrderInv' /\ PalletInv'
  BY ONLY OrderInv, PalletInv, <1>8 DEF OrderInv, PalletInv, StillMoved
<1> QED BY <1>6, <1>7, <1>9, <1>10
-----------------------------------------------------------------------------
(* Answers.                                                                *)

\* A request at the gateway is for a box of the model.
LEMMA NextIsBox ==
  ASSUME Inv, addQ # <<>>
  PROVE  /\ 1 \in 1..Len(addQ) /\ addQ[1].id = count + 1
         /\ count + 1 \in Ids
<1>1. addQ \in Seq(Asks) /\ \A i \in 1..Len(addQ) : addQ[i].id = count + 1
  BY DEF Inv, QueueInv, AskInv
<1>2. 1 \in 1..Len(addQ) /\ addQ[1] \in Asks
  BY ONLY <1>1, addQ # <<>>, DeliverElements, DeliverType
<1>3. addQ[1].id = count + 1
  BY ONLY <1>1, <1>2
<1> QED BY ONLY <1>2, <1>3 DEF Asks

\* What an answer of the gateway does to the spawner.
LEMMA AnswerFacts ==
  ASSUME Inv, NEW success \in BOOLEAN, Spawner!OnGatewayAnswer(success)
  PROVE  /\ addQ # <<>> /\ count + 1 \in Ids
         /\ addQ' \in Seq(Asks)
         /\ count' = count \/ (count' = count + 1 /\ success)
         /\ \A i \in 1..Len(addQ') : addQ'[i].id = count' + 1
         /\ \A i \in 1..Len(addQ') : addQ'[i].awaited => i = Len(addQ') /\ spawnPc' = "waiting"
         /\ spawnPc' \in {"idle", "waiting"} /\ spawnWait' \in 0..SpawnerTimeout
<1> USE Constants
<1>1. addQ # <<>> /\ addQ \in Seq(Asks) /\ addQ' = Tail(addQ)
  BY DEF Inv, QueueInv, Spawner!OnGatewayAnswer
<1>2. /\ \A i \in 1..Len(addQ) : addQ[i].id = count + 1
      /\ spawnPc \in {"idle", "waiting"} /\ spawnWait \in 0..SpawnerTimeout
  BY DEF Inv, TypeOK, AskInv
<1>3. \A i \in 1..Len(addQ) : addQ[i].awaited => i = Len(addQ) /\ spawnPc = "waiting"
  BY DEF Inv, AskInv
<1>4. /\ addQ' \in Seq(Asks) /\ Head(addQ) = addQ[1] /\ 1 \in 1..Len(addQ)
      /\ Len(addQ') = Len(addQ) - 1 /\ Len(addQ) \in Nat /\ Len(addQ') \in Nat
  BY ONLY <1>1, DeliverType, DeliverElements, LenProperties
<1>5. \A i \in 1..Len(addQ') : i + 1 \in 1..Len(addQ) /\ addQ'[i] = addQ[i + 1]
  BY ONLY <1>1, DeliverElements
<1>6. addQ # <<>> /\ count + 1 \in Ids
  BY <1>1, NextIsBox
<1>7. CASE Head(addQ).awaited
  <2>1. Len(addQ') = 0
    BY ONLY <1>3, <1>4, <1>7
  <2>2. spawnPc' = "idle" /\ spawnWait' = 0 /\ count' = IF success THEN count + 1 ELSE count
    BY <1>7 DEF Spawner!OnGatewayAnswer
  <2>3. \A i \in 1..Len(addQ') : FALSE
    BY ONLY <2>1
  <2>4. 0 \in 0..SpawnerTimeout
    OBVIOUS
  <2> QED BY ONLY <1>4, <1>6, <2>2, <2>3, <2>4
<1>8. CASE ~Head(addQ).awaited
  <2>1. UNCHANGED <<spawnPc, spawnWait, count>>
    BY <1>8 DEF Spawner!OnGatewayAnswer
  <2>2. \A i \in 1..Len(addQ') : addQ'[i].id = count + 1
    BY ONLY <1>2, <1>5
  <2>3. \A i \in 1..Len(addQ') : addQ'[i].awaited => i = Len(addQ') /\ spawnPc = "waiting"
    BY ONLY <1>3, <1>4, <1>5
  <2> QED BY ONLY <1>2, <1>4, <1>6, <2>1, <2>2, <2>3
<1> QED BY <1>7, <1>8

LEMMA RefuseAddKeepsInv ==
  ASSUME Inv, RefuseAdd
  PROVE  Inv'
<1> USE Constants DEF Inv
<1>1. Spawner!OnGatewayAnswer(FALSE) /\ svc = "idle" /\ UNCHANGED <<gatewayVars, sceneVars, beltVars>>
  BY DEF RefuseAdd
<1>2. /\ addQ' \in Seq(Asks) /\ count' = count
      /\ \A i \in 1..Len(addQ') : addQ'[i].id = count' + 1
      /\ \A i \in 1..Len(addQ') : addQ'[i].awaited => i = Len(addQ') /\ spawnPc' = "waiting"
      /\ spawnPc' \in {"idle", "waiting"} /\ spawnWait' \in 0..SpawnerTimeout
  BY <1>1, AnswerFacts
<1> USE DEF gatewayVars, sceneVars, beltVars
<1>3. TypeOK'
  BY <1>1, <1>2 DEF TypeOK
<1>4. QueueInv'
  BY <1>1, <1>2 DEF QueueInv
<1>5. AskInv'
  BY <1>1, <1>2 DEF AskInv
<1>6. ReplyInv' /\ WorldInv'
  BY <1>1, <1>2 DEF ReplyInv, WorldInv
<1>7. OrderInv' /\ PalletInv'
  BY <1>1 DEF OrderInv, PalletInv, StillMoved
<1> QED BY <1>3, <1>4, <1>5, <1>6, <1>7

\* The end of a wait: who asked is told whether the box is there.
LEMMA FinishAskKeepsInv ==
  ASSUME Inv, FinishAsk
  PROVE  Inv'
<1> USE Constants DEF Inv
<1> DEFINE ok == reply = "success"
           added == svc = "add" /\ ok
<1>1. /\ svc # "idle" /\ svc' = "idle" /\ waited' = 0 /\ reply' = "none"
      /\ beltSpawned' \in BOOLEAN
      /\ inScene' = IF added THEN [b \in DOMAIN inScene \cup {adding} |->
                                     IF b = adding THEN StartX ELSE inScene[b]]
                    ELSE inScene
      /\ colorPending' = colorPending \/ (added /\ colorPending' = colorPending \cup {adding})
      /\ UNCHANGED <<adding, colorAtAdd, boxColor, sceneQ, sceneVars, beltVars>>
      /\ IF svc = "add" THEN Spawner!OnGatewayAnswer(ok) ELSE UNCHANGED spawnerVars
      /\ \/ reply # "none" /\ UNCHANGED applyQ
         \/ reply = "none" /\ applyQ' = [i \in 1..Len(applyQ) |-> [applyQ[i] EXCEPT !.awaited = FALSE]]
  <2>1. CASE Gateway!ReplyArrives
    BY <2>1 DEF FinishAsk, Gateway!ReplyArrives, Gateway!EndWait, Gateway!Confirmed
  <2>2. CASE Gateway!GatewayTimesOut
    BY <2>2 DEF FinishAsk, Gateway!GatewayTimesOut, Gateway!EndWait, Gateway!Confirmed
  <2> QED BY <2>1, <2>2 DEF FinishAsk
<1>2. /\ addQ' \in Seq(Asks)
      /\ count' = count \/ (count' = count + 1 /\ added)
      /\ \A i \in 1..Len(addQ') : addQ'[i].id = count' + 1
      /\ \A i \in 1..Len(addQ') : addQ'[i].awaited => i = Len(addQ') /\ spawnPc' = "waiting"
      /\ spawnPc' \in {"idle", "waiting"} /\ spawnWait' \in 0..SpawnerTimeout
      /\ svc = "add" => count + 1 \in Ids
  <2>1. CASE svc = "add"
    BY <1>1, <2>1, AnswerFacts
  <2>2. CASE svc # "add"
    BY <1>1, <2>2 DEF TypeOK, QueueInv, AskInv, spawnerVars
  <2> QED BY <2>1, <2>2
<1>3. added => adding = count + 1 /\ adding \in Ids /\ world[adding] # Absent
  BY <1>2 DEF AskInv, ReplyInv
<1>4. count \in Nat /\ count' \in 0..MaxBoxes
  BY <1>2 DEF TypeOK
<1>5. /\ applyQ' \in Seq(Adds) /\ Len(applyQ') \in Nat
      /\ \A i \in 1..Len(applyQ') : applyQ'[i].id \in {Belt, count' + 1} /\ ~applyQ'[i].awaited
  <2>1. Len(applyQ) \in Nat /\ \A i \in 1..Len(applyQ) :
          applyQ[i] \in Adds /\ applyQ[i].id \in {Belt, count + 1}
    BY DEF QueueInv, AskInv
  <2>2. CASE reply # "none"
    <3>1. applyQ' = applyQ /\ applyQ = <<>>
      BY <1>1, <2>2 DEF ReplyInv
    <3> QED BY <3>1, EmptySeq
  <2>3. CASE reply = "none"
    <3>1. count' = count
      BY <1>2, <2>3
    <3>2. applyQ' = [i \in 1..Len(applyQ) |-> [applyQ[i] EXCEPT !.awaited = FALSE]]
      BY <1>1, <2>3
    <3>3. \A i \in 1..Len(applyQ) :
            applyQ'[i] \in Adds /\ applyQ'[i].id = applyQ[i].id /\ ~applyQ'[i].awaited
      BY ONLY <2>1, <3>2 DEF Adds
    <3> QED BY ONLY <2>1, <3>1, <3>2, <3>3
  <2> QED BY <2>2, <2>3
<1>6. /\ DOMAIN inScene' = IF added THEN DOMAIN inScene \cup {adding} ELSE DOMAIN inScene
      /\ \A b \in DOMAIN inScene' : inScene'[b] = IF added /\ b = adding THEN StartX ELSE inScene[b]
  BY <1>1
<1>7. inScene' \in States
  <2>1. DOMAIN inScene \subseteq Ids /\ \A b \in DOMAIN inScene : inScene[b] \in StartX..PickX
    BY ReadStates DEF QueueInv
  <2>2. CASE added
    <3>1. DOMAIN inScene \cup {adding} \in SUBSET Ids
      BY <1>3, <2>1, <2>2
    <3>2. inScene' \in [DOMAIN inScene \cup {adding} -> StartX..PickX]
      BY <1>1, <2>1, <2>2 DEF StartX
    <3> QED BY <3>1, <3>2 DEF States
  <2> QED BY <1>1, <2>2 DEF QueueInv
<1> HIDE DEF ok, added
<1> USE DEF sceneVars, beltVars
<1>8. TypeOK'
  <2>1. waited' \in 0..GatewayTimeout /\ DOMAIN inScene' \subseteq Ids
    BY <1>1, <1>7, ReadStates
  <2>2. colorPending' \subseteq Ids
    BY <1>1, <1>3 DEF TypeOK
  <2> QED BY <1>1, <1>2, <1>4, <2>1, <2>2 DEF TypeOK
<1>9. QueueInv'
  BY <1>1, <1>2, <1>5, <1>7 DEF QueueInv
<1>10. AskInv' /\ ReplyInv'
  BY <1>1, <1>2, <1>5 DEF AskInv, ReplyInv
<1>11. WorldInv'
  <2>1. \A b \in Ids : b > count' => world[b] \in {Absent, StartX}
    BY <1>2, <1>4 DEF WorldInv
  <2>2. \A b \in Ids : b <= count' => world[b] # Absent
    BY <1>2, <1>3, <1>4 DEF WorldInv
  <2>3. \A b \in DOMAIN inScene' : world[b] # Absent
    BY <1>3, <1>6 DEF WorldInv
  <2>4. 1..count \subseteq 1..count'
    BY <1>2, <1>4
  <2> QED BY <1>1, <2>1, <2>2, <2>3, <2>4 DEF WorldInv
<1>12. added => /\ \A i \in 1..Len(statesQ) : adding \notin DOMAIN statesQ[i]
                /\ \A i \in 1..Len(sceneQ) : adding \notin DOMAIN sceneQ[i].move
                /\ world[adding] <= StartX /\ StartX <= x[adding]
                /\ world[adding] # OnPallet
  <2>1. added => adding \notin 1..count /\ adding > count
    BY <1>3, <1>4
  <2> QED BY <1>3, <2>1 DEF WorldInv, TypeOK, StartX, Absent, OnPallet
<1>13. OrderInv'
  BY <1>1, <1>6, <1>12 DEF OrderInv
<1>14. PalletInv'
  BY <1>1, <1>6, <1>12 DEF PalletInv, StillMoved
<1> QED BY <1>8, <1>9, <1>10, <1>11, <1>13, <1>14

LEMMA QuietKeepsInv ==
  ASSUME Inv, Second \/ SetColor
  PROVE  Inv'
<1> USE Constants DEF Inv, spawnerVars, sceneVars
<1>1. CASE Second
  <2> USE <1>1 DEF Second, beltVars
  <2>1. waited' \in 0..GatewayTimeout /\ spawnWait' \in 0..SpawnerTimeout
    BY DEF TypeOK
  <2>2. TypeOK'
    BY <2>1 DEF TypeOK
  <2> QED BY <2>2 DEF QueueInv, AskInv, ReplyInv, WorldInv, OrderInv, PalletInv, StillMoved
<1>2. CASE SetColor
  <2>1. PICK c \in Colors : Gateway!OnBoxColor(c)
    BY <1>2 DEF SetColor
  <2> USE <1>2, <2>1 DEF SetColor, Gateway!OnBoxColor
  <2>2. TypeOK'
    BY DEF TypeOK
  <2> QED BY <2>2 DEF QueueInv, AskInv, ReplyInv, WorldInv, OrderInv, PalletInv, StillMoved
<1> QED BY <1>1, <1>2
-----------------------------------------------------------------------------
(* move_group.                                                             *)

LEMMA ApplyAddKeepsInv ==
  ASSUME Inv, ApplyAdd
  PROVE  Inv' /\ NoStepBack
<1> USE Constants DEF Inv
<1> DEFINE r == Head(applyQ)
<1>1. /\ applyQ # <<>> /\ applyQ' = Tail(applyQ)
      /\ \/ /\ world' = IF r.id = Belt THEN world ELSE [world EXCEPT ![r.id] = StartX]
            /\ painted' = IF r.id = Belt THEN painted ELSE [painted EXCEPT ![r.id] = r.color]
            /\ reply' = IF r.awaited THEN "success" ELSE reply
         \/ /\ reply' = IF r.awaited THEN "failure" ELSE reply
            /\ UNCHANGED <<world, painted>>
      /\ UNCHANGED <<beltSpawned, svc, waited, adding, colorAtAdd, inScene, boxColor,
                     colorPending, sceneQ, spawnerVars, beltVars>>
  BY DEF ApplyAdd
<1>2. /\ r \in Adds /\ r.id \in {Belt, count + 1}
      /\ r.awaited => Len(applyQ) = 1 /\ r.id = adding /\ svc # "idle"
      /\ Len(applyQ) \in Nat
  <2>1. 1 \in 1..Len(applyQ) /\ r = applyQ[1] /\ r \in Adds /\ Len(applyQ) \in Nat
    BY <1>1, DeliverType, DeliverElements, LenProperties DEF QueueInv
  <2> QED BY <2>1 DEF AskInv
<1>3. /\ applyQ' \in Seq(Adds) /\ Len(applyQ') = Len(applyQ) - 1
      /\ \A i \in 1..Len(applyQ') : i + 1 \in 1..Len(applyQ) /\ applyQ'[i] = applyQ[i + 1]
  BY <1>1, DeliverType, DeliverElements DEF QueueInv
<1>4. /\ reply = "none" /\ (reply' # "none" => r.awaited)
      /\ reply' \in {"none", "success", "failure"}
  BY <1>1 DEF ReplyInv, TypeOK
<1>5. r.id # Belt => r.id = count + 1 /\ r.id \in Ids /\ r.color \in Colors \cup {NoColor}
  BY <1>2 DEF Adds
<1> HIDE DEF r
<1>6. /\ painted' \in [Ids -> Colors \cup {NoColor}]
      /\ world' \in [Ids -> {Absent, InGripper, OnPallet} \cup StartX..PickX]
  <2>1. /\ painted \in [Ids -> Colors \cup {NoColor}]
        /\ world \in [Ids -> {Absent, InGripper, OnPallet} \cup StartX..PickX]
        /\ StartX \in StartX..PickX
    BY DEF TypeOK, StartX
  <2>2. /\ painted' = painted \/ (r.id # Belt /\ painted' = [painted EXCEPT ![r.id] = r.color])
        /\ world' = world \/ (r.id # Belt /\ world' = [world EXCEPT ![r.id] = StartX])
    BY <1>1
  <2> QED BY ONLY <1>5, <2>1, <2>2
<1>7. TypeOK'
  BY <1>1, <1>4, <1>6 DEF TypeOK, spawnerVars, beltVars
<1>8. QueueInv'
  BY <1>1, <1>3 DEF QueueInv, spawnerVars, beltVars
<1>9. AskInv'
  <2>1. \A i \in 1..Len(applyQ') : applyQ'[i].id \in {Belt, count + 1}
    BY ONLY <1>3, AskInv DEF AskInv
  <2>2. \A i \in 1..Len(applyQ') :
          applyQ'[i].awaited => i = Len(applyQ') /\ applyQ'[i].id = adding /\ svc # "idle"
    <3>1. \A i \in 1..Len(applyQ) :
            applyQ[i].awaited => i = Len(applyQ) /\ applyQ[i].id = adding /\ svc # "idle"
      BY ONLY AskInv DEF AskInv
    <3>2. Len(applyQ) \in Nat
      BY <1>2
    <3> QED BY ONLY <1>3, <3>1, <3>2
  <2> QED BY <1>1, <2>1, <2>2 DEF AskInv, spawnerVars
<1>10. ReplyInv'
  <2>1. reply' # "none" => svc # "idle" /\ applyQ' = <<>>
    BY <1>2, <1>3, <1>4, EmptySeq
  <2>2. reply' = "success" /\ svc = "add" => world'[adding] = StartX
    <3> SUFFICES ASSUME reply' = "success", svc = "add" PROVE world'[adding] = StartX
      OBVIOUS
    <3>1. r.id = adding /\ adding = count + 1
      BY <1>2, <1>4 DEF AskInv
    <3>2. adding \in Ids
      BY <3>1, NextIsBox DEF AskInv
    <3>3. world' = [world EXCEPT ![adding] = StartX]
      BY <1>1, <1>4, <3>1, <3>2
    <3> QED BY <3>2, <3>3 DEF TypeOK
  <2> QED BY <1>1, <2>1, <2>2 DEF ReplyInv, StartX, Absent
\* Only the next box, which nobody has moved, is put to the start.
<1>11. \A b \in Ids : \/ world'[b] = world[b]
                      \/ b = count + 1 /\ world'[b] = StartX /\ world[b] \in {Absent, StartX}
  BY <1>1, <1>5 DEF TypeOK, WorldInv
<1>12. count + 1 \in Ids => /\ \A i \in 1..Len(statesQ) : count + 1 \notin DOMAIN statesQ[i]
                            /\ \A i \in 1..Len(sceneQ) : count + 1 \notin DOMAIN sceneQ[i].move
  BY DEF WorldInv, TypeOK
<1>13. DOMAIN inScene \subseteq Ids /\ \A b \in DOMAIN inScene : inScene[b] \in StartX..PickX
  BY ReadStates DEF QueueInv
<1>14. WorldInv'
  BY <1>1, <1>11, <1>13 DEF WorldInv, TypeOK, spawnerVars, beltVars, StartX, Absent
<1>15. OrderInv'
  <2>1. \A i \in 1..Len(sceneQ) : DOMAIN sceneQ[i].move \subseteq Ids
    BY DEF WorldInv, TypeOK, Ids
  <2>2. \A b \in DOMAIN inScene : world'[b] <= inScene[b] /\ inScene[b] <= x[b]
    <3>1. \A b \in DOMAIN inScene : world[b] <= inScene[b] /\ inScene[b] <= x[b]
      BY DEF OrderInv
    <3> QED BY ONLY <1>11, <1>13, <3>1 DEF StartX
  <2>3. \A i \in 1..Len(sceneQ) : \A b \in DOMAIN sceneQ[i].move : world'[b] = world[b]
    BY <1>11, <1>12, <2>1
  <2> QED BY <1>1, <2>2, <2>3 DEF OrderInv, spawnerVars, beltVars
<1>16. PalletInv'
  BY <1>1, <1>11 DEF PalletInv, StillMoved, StartX, OnPallet
<1>17. NoStepBack
  BY <1>11 DEF NoStepBack, TypeOK, StartX, Absent, InGripper, OnPallet
<1> QED BY <1>7, <1>8, <1>9, <1>10, <1>14, <1>15, <1>16, <1>17

LEMMA ApplyDiffKeepsInv ==
  ASSUME Inv, ApplyDiff
  PROVE  Inv' /\ (SensorKeepsUp => NoStepBack)
<1> USE Constants DEF Inv
<1> DEFINE d == Head(sceneQ)
           there == {b \in DOMAIN d.move : world[b] \notin {Absent, InGripper}}
<1>1. /\ sceneQ # <<>> /\ sceneQ' = Tail(sceneQ)
      /\ world' = [b \in Ids |-> IF b \in there THEN d.move[b] ELSE world[b]]
      /\ painted' = [b \in Ids |-> IF b \in DOMAIN d.paint THEN d.paint[b] ELSE painted[b]]
      /\ UNCHANGED <<beltSpawned, svc, waited, adding, colorAtAdd, inScene, boxColor,
                     colorPending, applyQ, reply, spawnerVars, refusals, beltVars>>
  BY DEF ApplyDiff
<1>2. 1 \in 1..Len(sceneQ) /\ d = sceneQ[1] /\ d \in Diffs /\ Len(sceneQ) \in Nat
  BY <1>1, DeliverType, DeliverElements, LenProperties DEF QueueInv
<1>3. /\ sceneQ' \in Seq(Diffs) /\ Len(sceneQ') = Len(sceneQ) - 1 /\ Len(sceneQ') \in Nat
      /\ \A i \in 1..Len(sceneQ') : i + 1 \in 1..Len(sceneQ) /\ sceneQ'[i] = sceneQ[i + 1]
  BY <1>1, DeliverType, DeliverElements, LenProperties DEF QueueInv
<1>4. /\ DOMAIN d.move \subseteq Ids /\ \A b \in DOMAIN d.move : d.move[b] \in StartX..PickX
      /\ \A b \in DOMAIN d.paint : d.paint[b] \in Colors
  BY <1>2, ReadDiff, ReadStates
\* The first of the queued positions, which none that follows is behind.
<1>5. /\ DOMAIN d.move \subseteq 1..count
      /\ \A b \in DOMAIN d.move :
           /\ world[b] <= d.move[b]
           /\ b \in DOMAIN inScene => d.move[b] <= inScene[b]
           /\ \A j \in 1..Len(sceneQ') : b \in DOMAIN sceneQ'[j].move => d.move[b] <= sceneQ'[j].move[b]
  <2>1. \A j \in 1..Len(sceneQ) : \A b \in DOMAIN d.move :
          1 < j /\ b \in DOMAIN sceneQ[j].move => d.move[b] <= sceneQ[j].move[b]
    BY <1>2 DEF OrderInv
  <2> QED BY <1>2, <1>3, <2>1 DEF OrderInv, WorldInv
<1>6. \A b \in Ids : \/ world'[b] = world[b]
                     \/ /\ b \in DOMAIN d.move /\ world'[b] = d.move[b]
                        /\ world[b] \notin {Absent, InGripper}
  BY <1>1
<1>7. /\ world' \in [Ids -> {Absent, InGripper, OnPallet} \cup StartX..PickX]
      /\ painted' \in [Ids -> Colors \cup {NoColor}]
  <2>1. world \in [Ids -> {Absent, InGripper, OnPallet} \cup StartX..PickX]
        /\ painted \in [Ids -> Colors \cup {NoColor}]
    BY DEF TypeOK
  <2> HIDE DEF d
  <2> QED BY <1>1, <1>4, <2>1
<1>8. DOMAIN inScene \subseteq Ids /\ \A b \in DOMAIN inScene : inScene[b] \in StartX..PickX
  BY ReadStates DEF QueueInv
<1> HIDE DEF d, there
<1> USE DEF spawnerVars, beltVars
<1>9. TypeOK'
  BY <1>1, <1>7 DEF TypeOK
<1>10. QueueInv' /\ AskInv'
  BY <1>1, <1>3 DEF QueueInv, AskInv
<1>11. \A b \in Ids : world[b] # Absent <=> world'[b] # Absent
  BY <1>4, <1>6 DEF StartX, Absent
<1>12. ReplyInv'
  <2>1. svc = "add" => adding = count + 1
    BY DEF AskInv
  <2>2. svc = "add" => adding \in Ids
    BY <2>1, NextIsBox DEF AskInv
  <2> QED BY <1>1, <1>11, <2>2 DEF ReplyInv
<1>13. WorldInv'
  <2>1. \A b \in Ids : b > count => world'[b] = world[b]
    BY <1>5, <1>6 DEF TypeOK
  <2>2. \A i \in 1..Len(sceneQ') : DOMAIN sceneQ'[i].move \subseteq 1..count
    BY <1>3 DEF WorldInv
  <2> QED BY <1>1, <1>8, <1>11, <2>1, <2>2 DEF WorldInv
<1>14. OrderInv'
  <2>1. \A i \in 1..Len(sceneQ') : \A b \in DOMAIN sceneQ'[i].move :
          /\ b \in Ids
          /\ world'[b] <= sceneQ'[i].move[b]
          /\ b \in DOMAIN inScene => sceneQ'[i].move[b] <= inScene[b]
    <3>1. \A i \in 1..Len(sceneQ') : DOMAIN sceneQ'[i].move \subseteq Ids
      <4>1. 1..count \subseteq Ids /\ \A i \in 1..Len(sceneQ) : DOMAIN sceneQ[i].move \subseteq 1..count
        BY DEF WorldInv, TypeOK, Ids
      <4> QED BY ONLY <1>3, <4>1
    <3>2. \A i \in 1..Len(sceneQ) : \A b \in DOMAIN sceneQ[i].move :
            /\ world[b] <= sceneQ[i].move[b]
            /\ b \in DOMAIN inScene => sceneQ[i].move[b] <= inScene[b]
      BY DEF OrderInv
    <3> QED BY ONLY <1>3, <1>5, <1>6, <3>1, <3>2
  <2>2. \A i, j \in 1..Len(sceneQ') : \A b \in DOMAIN sceneQ'[i].move :
          i < j /\ b \in DOMAIN sceneQ'[j].move => sceneQ'[i].move[b] <= sceneQ'[j].move[b]
    <3>1. \A i, j \in 1..Len(sceneQ) : \A b \in DOMAIN sceneQ[i].move :
            i < j /\ b \in DOMAIN sceneQ[j].move => sceneQ[i].move[b] <= sceneQ[j].move[b]
      BY DEF OrderInv
    <3> TAKE i, j \in 1..Len(sceneQ')
    <3>2. TAKE b \in DOMAIN sceneQ'[i].move
    <3>3. HAVE i < j /\ b \in DOMAIN sceneQ'[j].move
    <3>4. /\ i + 1 \in 1..Len(sceneQ) /\ j + 1 \in 1..Len(sceneQ) /\ i + 1 < j + 1
          /\ sceneQ'[i] = sceneQ[i + 1] /\ sceneQ'[j] = sceneQ[j + 1]
      BY ONLY <1>3, <3>3, i \in 1..Len(sceneQ'), j \in 1..Len(sceneQ')
    <3> QED BY ONLY <3>1, <3>3, <3>4, b \in DOMAIN sceneQ'[i].move
  <2>3. \A b \in DOMAIN inScene : world'[b] <= inScene[b] /\ inScene[b] <= x[b]
    BY <1>5, <1>6, <1>8 DEF OrderInv
  <2> QED BY <1>1, <2>1, <2>2, <2>3 DEF OrderInv
<1>15. \A b \in Ids : world'[b] = OnPallet => world[b] = OnPallet
  BY <1>4, <1>6 DEF StartX, OnPallet
<1>16. PalletInv'
  BY <1>1, <1>3, <1>15 DEF PalletInv, StillMoved
<1>17. SensorKeepsUp => NoStepBack
  <2>1. SensorKeepsUp => \A b \in DOMAIN d.move : world[b] # OnPallet
    BY <1>2, <1>4 DEF PalletInv, StillMoved
  <2> QED BY <1>5, <1>6, <2>1 DEF NoStepBack, TypeOK, StartX, Absent, InGripper, OnPallet
<1> QED BY <1>9, <1>10, <1>12, <1>13, <1>14, <1>16, <1>17
-----------------------------------------------------------------------------
(* The belt and its users.                                                 *)

\* A queue sorted by age stays sorted when the youngest states are appended.
LEMMA TickKeepsInv ==
  ASSUME Inv, AdvancerTick
  PROVE  Inv'
<1> USE Constants DEF Inv
<1> DEFINE s == [b \in OnBelt |-> x'[b]]
<1>1. /\ x' \in [Ids -> StartX..PickX] /\ \A b \in Ids : x[b] <= x'[b]
      /\ statesQ' = Publish(statesQ, s, Depth)
      /\ UNCHANGED <<gatewayVars, spawnerVars, sceneVars, colorsSent, removed, removedQ>>
  <2>1. x \in [Ids -> StartX..PickX] /\ OnBelt \subseteq Ids
    BY DEF TypeOK, OnBelt, Ids
  <2>2. CASE UNCHANGED x
    BY <2>1, <2>2 DEF AdvancerTick, StartX
  <2>3. CASE \E b \in OnBelt : x[b] < PickX /\ x' = [x EXCEPT ![b] = @ + 1]
    <3>1. PICK b \in OnBelt : x[b] < PickX /\ x' = [x EXCEPT ![b] = @ + 1]
      BY <2>3
    <3>2. x[b] + 1 \in StartX..PickX
      BY <2>1, <3>1 DEF StartX
    <3>3. \A a \in Ids : x'[a] = IF a = b THEN x[b] + 1 ELSE x[a]
      BY <2>1, <3>1
    <3>4. x' \in [Ids -> StartX..PickX]
      BY <2>1, <3>1, <3>2
    <3> QED BY <2>1, <3>3, <3>4 DEF AdvancerTick, StartX
  <2> QED BY <2>2, <2>3 DEF AdvancerTick
<1>2. OnBelt \in SUBSET Ids /\ OnBelt \subseteq 1..count
  BY DEF OnBelt, TypeOK, Ids
<1>3. s \in States /\ DOMAIN s = OnBelt /\ \A b \in OnBelt : s[b] = x'[b]
  <2>1. s \in [OnBelt -> StartX..PickX]
    BY <1>1, <1>2
  <2> QED BY <1>2, <2>1 DEF States
<1> HIDE DEF s
<1>4. statesQ' \in Seq(States) /\ Len(statesQ') <= Depth
  BY <1>1, <1>3, PublishType DEF QueueInv
<1>a. statesQ \in Seq(States) /\ Len(statesQ) <= Depth /\ Depth \in Nat \ {0}
  BY DEF QueueInv
<1>b. statesQ' = Publish(statesQ, s, Depth) /\ s \in States
  BY <1>1, <1>3
<1>5. Len(statesQ') \in Nat /\ statesQ'[Len(statesQ')] = s
  BY ONLY <1>a, <1>b, PublishElements
<1>6. PICK k \in {0, 1} : \A i \in 1..Len(statesQ') - 1 :
           i + k \in 1..Len(statesQ) /\ statesQ'[i] = statesQ[i + k]
  BY ONLY <1>a, <1>b, PublishElements
<1>7. \A i \in 1..Len(statesQ') : i = Len(statesQ') \/ i \in 1..Len(statesQ') - 1
  BY ONLY <1>5
<1> USE DEF gatewayVars, spawnerVars, sceneVars
<1>8. TypeOK'
  BY <1>1 DEF TypeOK
<1>9. QueueInv' /\ AskInv' /\ ReplyInv'
  BY <1>1, <1>4 DEF QueueInv, AskInv, ReplyInv
<1>10. \A i \in 1..Len(statesQ') : DOMAIN statesQ'[i] \subseteq 1..count
  <2>1. \A i \in 1..Len(statesQ) : DOMAIN statesQ[i] \subseteq 1..count
    BY DEF WorldInv
  <2> QED BY ONLY <1>2, <1>3, <1>5, <1>6, <1>7, <2>1
<1>11. WorldInv'
  BY <1>1, <1>10 DEF WorldInv
<1>12. /\ DOMAIN inScene \subseteq Ids
       /\ \A i \in 1..Len(statesQ) : DOMAIN statesQ[i] \subseteq Ids
             /\ \A b \in DOMAIN statesQ[i] : statesQ[i][b] \in StartX..PickX
       /\ \A b \in DOMAIN inScene : inScene[b] \in StartX..PickX
       /\ x \in [Ids -> StartX..PickX]
  BY ReadStates DEF QueueInv, TypeOK
<1>13. \A b \in DOMAIN inScene : world[b] <= inScene[b] /\ inScene[b] <= x'[b]
  <2>1. \A b \in DOMAIN inScene : world[b] <= inScene[b] /\ inScene[b] <= x[b]
    BY DEF OrderInv
  <2>2. PickX \in Nat /\ \A b \in Ids : x[b] <= x'[b] /\ x'[b] \in StartX..PickX
    BY <1>1
  <2> QED BY ONLY <1>12, <2>1, <2>2 DEF StartX
<1>14. \A i \in 1..Len(statesQ') : \A b \in DOMAIN statesQ'[i] :
         statesQ'[i][b] <= x'[b] /\ (b \in DOMAIN inScene => inScene[b] <= statesQ'[i][b])
  <2> SUFFICES ASSUME NEW i \in 1..Len(statesQ'), NEW b \in DOMAIN statesQ'[i]
               PROVE  statesQ'[i][b] <= x'[b] /\ (b \in DOMAIN inScene => inScene[b] <= statesQ'[i][b])
    OBVIOUS
  <2>1. CASE i = Len(statesQ')
    <3>1. b \in OnBelt /\ b \in Ids /\ statesQ'[i][b] = x'[b] /\ x'[b] \in StartX..PickX
      BY <1>1, <1>2, <1>3, <1>5, <2>1
    <3> QED BY <1>13, <3>1 DEF StartX
  <2>2. CASE i \in 1..Len(statesQ') - 1
    <3>1. i + k \in 1..Len(statesQ) /\ statesQ'[i] = statesQ[i + k]
      BY <1>6, <2>2
    <3>2. statesQ[i + k][b] <= x[b] /\ (b \in DOMAIN inScene => inScene[b] <= statesQ[i + k][b])
      BY <3>1 DEF OrderInv
    <3> QED BY ONLY <1>1, <1>12, <3>1, <3>2, b \in DOMAIN statesQ'[i] DEF StartX
  <2> QED BY <1>7, <2>1, <2>2
<1>15. \A i, j \in 1..Len(statesQ') : \A b \in DOMAIN statesQ'[i] :
         i < j /\ b \in DOMAIN statesQ'[j] => statesQ'[i][b] <= statesQ'[j][b]
  <2> SUFFICES ASSUME NEW i \in 1..Len(statesQ'), NEW j \in 1..Len(statesQ'),
                      NEW b \in DOMAIN statesQ'[i], i < j, b \in DOMAIN statesQ'[j]
               PROVE  statesQ'[i][b] <= statesQ'[j][b]
    OBVIOUS
  <2>1. CASE j = Len(statesQ')
    BY <1>2, <1>3, <1>5, <1>14, <2>1
  <2>2. CASE j \in 1..Len(statesQ') - 1
    <3>1. i \in 1..Len(statesQ') - 1
      BY ONLY <1>5, <2>2, i < j, i \in 1..Len(statesQ')
    <3>2. /\ i + k \in 1..Len(statesQ) /\ statesQ'[i] = statesQ[i + k]
          /\ j + k \in 1..Len(statesQ) /\ statesQ'[j] = statesQ[j + k]
      BY <1>6, <2>2, <3>1
    <3>3. i + k < j + k
      BY ONLY <2>2, <3>1, i < j, k \in {0, 1}, <1>5
    <3> QED BY <3>2, <3>3 DEF OrderInv
  <2> QED BY <1>7, <2>1, <2>2
<1>16. OrderInv'
  BY <1>1, <1>13, <1>14, <1>15 DEF OrderInv
<1>17. PalletInv'
  BY <1>1 DEF PalletInv, StillMoved
<1> QED BY <1>8, <1>9, <1>11, <1>16, <1>17

LEMMA DeliverRemovedKeepsInv ==
  ASSUME Inv, DeliverRemoved
  PROVE  Inv'
<1> USE Constants DEF Inv
<1>1. /\ removedQ # <<>> /\ removedQ' = Tail(removedQ)
      /\ inScene' = [b \in DOMAIN inScene \ {Head(removedQ)} |-> inScene[b]]
      /\ colorPending' = colorPending \ {Head(removedQ)}
      /\ UNCHANGED <<beltSpawned, svc, waited, adding, colorAtAdd, boxColor, applyQ, reply,
                     sceneQ, spawnerVars, sceneVars, colorsSent, x, statesQ, removed>>
  BY DEF DeliverRemoved, Gateway!OnBoxRemoved
<1>2. removedQ' \in Seq(Ids) /\ Len(removedQ') <= Depth
  BY <1>1, DeliverType DEF QueueInv
<1>3. /\ DOMAIN inScene' \subseteq DOMAIN inScene
      /\ \A b \in DOMAIN inScene' : inScene'[b] = inScene[b]
  BY <1>1
<1>4. DOMAIN inScene \subseteq Ids /\ \A b \in DOMAIN inScene : inScene[b] \in StartX..PickX
  BY ReadStates DEF QueueInv
<1>5. inScene' \in States
  <2>1. DOMAIN inScene \ {Head(removedQ)} \in SUBSET Ids
    BY <1>4
  <2>2. inScene' \in [DOMAIN inScene \ {Head(removedQ)} -> StartX..PickX]
    BY <1>1, <1>4
  <2> QED BY <2>1, <2>2 DEF States
<1> USE DEF spawnerVars, sceneVars
<1>6. TypeOK'
  BY <1>1, <1>3, <1>4 DEF TypeOK
<1>7. QueueInv' /\ AskInv' /\ ReplyInv'
  BY <1>1, <1>2, <1>5 DEF QueueInv, AskInv, ReplyInv
<1>8. WorldInv'
  BY <1>1, <1>3 DEF WorldInv
<1>9. OrderInv'
  BY <1>1, <1>3 DEF OrderInv
<1>10. PalletInv'
  BY <1>1, <1>3 DEF PalletInv, StillMoved
<1> QED BY <1>6, <1>7, <1>8, <1>9, <1>10

LEMMA ReportKeepsInv ==
  ASSUME Inv, SensorReports
  PROVE  Inv'
<1> USE Constants DEF Inv, SensorReports, gatewayVars, spawnerVars, sceneVars
<1>1. PICK b \in OnBelt : removed' = removed \cup {b} /\ removedQ' = Publish(removedQ, b, Depth)
  OBVIOUS
<1>2. b \in Ids /\ b \in 1..count
  BY DEF OnBelt, TypeOK, Ids
<1>3. removedQ' \in Seq(Ids) /\ Len(removedQ') <= Depth
  BY <1>1, <1>2, PublishType DEF QueueInv
<1>4. TypeOK'
  BY <1>1, <1>2 DEF TypeOK
<1>5. QueueInv' /\ AskInv' /\ ReplyInv'
  BY <1>3 DEF QueueInv, AskInv, ReplyInv
<1>6. WorldInv'
  BY <1>1, <1>2 DEF WorldInv
<1> QED BY <1>4, <1>5, <1>6 DEF OrderInv, PalletInv, StillMoved
LEMMA ArmKeepsInv ==
  ASSUME Inv, ArmTakes \/ ArmPuts
  PROVE  Inv' /\ NoStepBack
<1> USE Constants DEF Inv, gatewayVars, spawnerVars, beltVars
<1>1. /\ \E b \in Ids :
           \/ /\ world[b] = PickX /\ b \in OnBelt
              /\ world' = [world EXCEPT ![b] = InGripper]
           \/ /\ world[b] = InGripper
              /\ SensorKeepsUp => ~StillMoved(b)
              /\ world' = [world EXCEPT ![b] = OnPallet]
      /\ UNCHANGED <<gatewayVars, spawnerVars, painted, refusals, beltVars>>
  BY DEF ArmTakes, ArmPuts, OnBelt, TypeOK, Ids
<1>2. PICK b \in Ids : \/ /\ world[b] = PickX
                          /\ world' = [world EXCEPT ![b] = InGripper]
                       \/ /\ world[b] = InGripper
                          /\ SensorKeepsUp => ~StillMoved(b)
                          /\ world' = [world EXCEPT ![b] = OnPallet]
  BY <1>1
<1>3. \A a \in Ids : \/ world'[a] = world[a]
                     \/ a = b /\ world[a] = PickX /\ world'[a] = InGripper
                     \/ /\ a = b /\ world[a] = InGripper /\ world'[a] = OnPallet
                        /\ SensorKeepsUp => ~StillMoved(a)
  BY <1>2 DEF TypeOK
<1>b. PickX \in Nat
  OBVIOUS
<1>a. \A a \in Ids : world'[a] = world[a] \/ world'[a] \in {-1, -2}
  BY <1>3 DEF InGripper, OnPallet
<1>4. world' \in [Ids -> {Absent, InGripper, OnPallet} \cup StartX..PickX]
  BY <1>2 DEF TypeOK
<1>5. TypeOK' /\ QueueInv' /\ AskInv'
  <2>1. TypeOK'
    BY <1>1, <1>4 DEF TypeOK
  <2> QED BY <1>1, <2>1 DEF QueueInv, AskInv
<1>6. \A a \in Ids : world'[a] # Absent <=> world[a] # Absent
  BY <1>3 DEF Absent, InGripper, OnPallet
<1>7. DOMAIN inScene \subseteq Ids /\ \A a \in DOMAIN inScene : inScene[a] \in StartX..PickX
  BY ReadStates DEF QueueInv
<1>8. ReplyInv'
  <2>1. svc = "add" => adding \in Ids
    BY NextIsBox DEF AskInv
  <2> QED BY <1>1, <1>6, <2>1 DEF ReplyInv
<1>9. WorldInv'
  <2>1. \A a \in Ids : a > count => world'[a] = world[a]
    BY <1>3 DEF WorldInv, Absent, StartX, InGripper
  <2> QED BY <1>1, <1>6, <1>7, <2>1 DEF WorldInv
<1>10. OrderInv'
  <2>1. \A a \in DOMAIN inScene : world'[a] <= inScene[a] /\ inScene[a] <= x[a]
    <3>1. \A a \in DOMAIN inScene : world[a] <= inScene[a] /\ inScene[a] <= x[a]
      BY DEF OrderInv
    <3> QED BY ONLY <1>a, <1>b, <1>7, <3>1 DEF StartX
  <2>2. \A i \in 1..Len(sceneQ) : \A a \in DOMAIN sceneQ[i].move : world'[a] <= sceneQ[i].move[a]
    <3>1. \A i \in 1..Len(sceneQ) : /\ DOMAIN sceneQ[i].move \subseteq Ids
                                    /\ \A a \in DOMAIN sceneQ[i].move : sceneQ[i].move[a] \in StartX..PickX
      BY ReadDiff, ReadStates DEF QueueInv
    <3>2. \A i \in 1..Len(sceneQ) : \A a \in DOMAIN sceneQ[i].move : world[a] <= sceneQ[i].move[a]
      BY DEF OrderInv
    <3> QED BY ONLY <1>a, <1>b, <3>1, <3>2 DEF StartX
  <2> QED BY <1>1, <2>1, <2>2 DEF OrderInv
<1>11. PalletInv'
  <2>1. SensorKeepsUp => \A a \in Ids : world'[a] = OnPallet => ~StillMoved(a)
    BY <1>3 DEF PalletInv, InGripper, OnPallet
  <2> QED BY <1>1, <2>1 DEF PalletInv, StillMoved
<1>12. NoStepBack
  BY <1>3 DEF NoStepBack, TypeOK, StartX, Absent, InGripper, OnPallet
<1> QED BY <1>5, <1>8, <1>9, <1>10, <1>11, <1>12

\* A diff is made of the oldest states, and goes behind all diffs.
LEMMA DeliverStatesKeepsInv ==
  ASSUME Inv, DeliverStates
  PROVE  Inv'
<1> USE Constants DEF Inv
<1> DEFINE s == Head(statesQ)
           known == DOMAIN s \cap DOMAIN inScene
           repaint == known \cap colorPending
           touched == {b \in known : Gateway!Apart(s[b], inScene[b]) > Eps} \cup repaint
           d == [move  |-> [b \in touched |-> s[b]],
                 paint |-> [b \in {c \in repaint : boxColor # NoColor} |-> boxColor]]
<1>1. /\ statesQ # <<>> /\ statesQ' = Tail(statesQ)
      /\ colorPending' = colorPending \ repaint
      /\ inScene' = [b \in DOMAIN inScene |-> IF b \in touched THEN s[b] ELSE inScene[b]]
      /\ sceneQ' = IF touched = {} THEN sceneQ ELSE Publish(sceneQ, d, SceneDepth)
      /\ UNCHANGED <<beltSpawned, svc, waited, adding, colorAtAdd, boxColor, applyQ, reply,
                     spawnerVars, sceneVars, colorsSent, x, removed, removedQ>>
  <2>1. Gateway!OnBoxStates(s) /\ statesQ # <<>> /\ statesQ' = Tail(statesQ)
        /\ UNCHANGED <<spawnerVars, sceneVars, colorsSent, x, removed, removedQ>>
    BY ONLY DeliverStates DEF DeliverStates
  <2>2. colorPending' = colorPending \ repaint
    BY ONLY <2>1 DEF Gateway!OnBoxStates
  <2>3. inScene' = [b \in DOMAIN inScene |-> IF b \in touched THEN s[b] ELSE inScene[b]]
    BY ONLY <2>1, Zenon DEF Gateway!OnBoxStates
  <2>4. sceneQ' = IF touched = {} THEN sceneQ ELSE Publish(sceneQ, d, SceneDepth)
    <3>1. CASE touched = {}
      BY ONLY <2>1, <3>1, Zenon DEF Gateway!OnBoxStates
    <3>2. CASE touched # {}
      BY ONLY <2>1, <3>2, Zenon DEF Gateway!OnBoxStates, Gateway!Publish, Publish
    <3> QED BY ONLY <3>1, <3>2
  <2>5. UNCHANGED <<beltSpawned, svc, waited, adding, colorAtAdd, boxColor, applyQ, reply>>
    BY ONLY <2>1 DEF Gateway!OnBoxStates
  <2> QED BY ONLY <2>1, <2>2, <2>3, <2>4, <2>5
<1>2. 1 \in 1..Len(statesQ) /\ s = statesQ[1] /\ s \in States
  BY <1>1, DeliverType, DeliverElements DEF QueueInv
<1>3. /\ statesQ' \in Seq(States) /\ Len(statesQ') = Len(statesQ) - 1 /\ Len(statesQ') \in Nat
      /\ Len(statesQ) \in Nat
  BY <1>1, DeliverType, LenProperties DEF QueueInv
<1>4. \A i \in 1..Len(statesQ') : i + 1 \in 1..Len(statesQ) /\ statesQ'[i] = statesQ[i + 1]
  BY <1>1, DeliverElements DEF QueueInv
<1>5. /\ DOMAIN inScene \subseteq Ids /\ \A b \in DOMAIN inScene : inScene[b] \in StartX..PickX
      /\ DOMAIN s \subseteq 1..count /\ \A b \in DOMAIN s : s[b] \in StartX..PickX
  BY <1>2, ReadStates DEF QueueInv, WorldInv
<1>6. /\ touched \subseteq DOMAIN s /\ touched \subseteq DOMAIN inScene /\ repaint \subseteq touched
      /\ touched \in SUBSET Ids
  BY <1>5
\* The oldest states: not behind what the gateway knows, not ahead of the rest.
<1>7. \A b \in touched : inScene[b] <= s[b] /\ s[b] <= x[b]
  BY <1>2, <1>6 DEF OrderInv
<1>8. \A j \in 1..Len(statesQ') : \A b \in DOMAIN s :
        b \in DOMAIN statesQ'[j] => s[b] <= statesQ'[j][b]
  <2>1. \A j \in 1..Len(statesQ) : \A b \in DOMAIN s :
          1 < j /\ b \in DOMAIN statesQ[j] => s[b] <= statesQ[j][b]
    BY <1>2 DEF OrderInv
  <2> QED BY ONLY <1>3, <1>4, <2>1
<1>9. d \in Diffs /\ d.move \in States /\ DOMAIN d.move = touched /\ \A b \in touched : d.move[b] = s[b]
  <2>1. [b \in touched |-> s[b]] \in [touched -> StartX..PickX]
    BY <1>5, <1>6
  <2>2. [b \in touched |-> s[b]] \in States
    BY <1>6, <2>1 DEF States
  <2> DEFINE P == {c \in repaint : boxColor # NoColor}
  <2>3. P \in SUBSET Ids /\ [b \in P |-> boxColor] \in [P -> Colors]
    BY <1>6 DEF TypeOK
  <2>4. [b \in P |-> boxColor] \in Paints
    BY <2>3 DEF Paints
  <2> QED BY <2>2, <2>4 DEF Diffs
<1>10. /\ DOMAIN inScene' = DOMAIN inScene
       /\ \A b \in DOMAIN inScene : inScene'[b] = IF b \in touched THEN s[b] ELSE inScene[b]
  BY <1>1
<1>11. \A b \in DOMAIN inScene : /\ inScene[b] <= inScene'[b] /\ inScene'[b] <= x[b]
                                 /\ inScene'[b] \in StartX..PickX
  <2>1. \A b \in DOMAIN inScene : inScene[b] <= x[b]
    BY DEF OrderInv
  <2> HIDE DEF touched, s
  <2> QED BY <1>5, <1>6, <1>7, <1>10, <2>1 DEF StartX
<1>12. inScene' \in States
  <2>1. inScene' \in [DOMAIN inScene -> StartX..PickX]
    BY <1>1, <1>10, <1>11
  <2> QED BY <1>5, <2>1 DEF States
<1> HIDE DEF s, known, repaint, touched, d
<1>a. sceneQ \in Seq(Diffs) /\ Len(sceneQ) <= SceneDepth /\ SceneDepth \in Nat \ {0}
  BY DEF QueueInv
<1>13. sceneQ' \in Seq(Diffs) /\ Len(sceneQ') <= SceneDepth /\ Len(sceneQ') \in Nat
  <2>1. CASE touched = {}
    BY <1>1, <1>a, <2>1
  <2>2. CASE touched # {}
    <3>1. sceneQ' = Publish(sceneQ, d, SceneDepth)
      BY <1>1, <2>2
    <3> QED BY ONLY <1>a, <1>9, <3>1, PublishType
  <2> QED BY <2>1, <2>2
\* Every diff of the new queue was there before, or is the last one and new.
<1>14. \E k \in {0, 1} : \A i \in 1..Len(sceneQ') :
         \/ i + k \in 1..Len(sceneQ) /\ sceneQ'[i] = sceneQ[i + k]
         \/ i = Len(sceneQ') /\ sceneQ'[i] = d /\ touched # {}
  <2>1. CASE touched = {}
    <3>1. \A i \in 1..Len(sceneQ') : i + 0 \in 1..Len(sceneQ) /\ sceneQ'[i] = sceneQ[i + 0]
      BY <1>1, <1>13, <2>1
    <3> QED BY <3>1
  <2>2. CASE touched # {}
    <3>1. sceneQ' = Publish(sceneQ, d, SceneDepth)
      BY <1>1, <2>2
    <3>2. sceneQ'[Len(sceneQ')] = d
      BY ONLY <1>a, <1>9, <3>1, PublishElements
    <3>3. PICK k \in {0, 1} : \A i \in 1..Len(sceneQ') - 1 :
            i + k \in 1..Len(sceneQ) /\ sceneQ'[i] = sceneQ[i + k]
      BY ONLY <1>a, <1>9, <3>1, PublishElements
    <3>4. \A i \in 1..Len(sceneQ') : i = Len(sceneQ') \/ i \in 1..Len(sceneQ') - 1
      BY ONLY <1>13
    <3> QED BY <2>2, <3>2, <3>3, <3>4
  <2> QED BY <2>1, <2>2
<1>15. PICK k \in {0, 1} : \A i \in 1..Len(sceneQ') :
         \/ i + k \in 1..Len(sceneQ) /\ sceneQ'[i] = sceneQ[i + k]
         \/ i = Len(sceneQ') /\ sceneQ'[i] = d /\ touched # {}
  BY <1>14
<1> USE DEF spawnerVars, sceneVars
<1>16. TypeOK'
  BY <1>1, <1>5, <1>10 DEF TypeOK
<1>17. QueueInv' /\ AskInv' /\ ReplyInv'
  <2>1. Len(statesQ') <= Depth
    BY <1>3 DEF QueueInv
  <2> QED BY <1>1, <1>3, <1>12, <1>13, <2>1 DEF QueueInv, AskInv, ReplyInv
<1>18. WorldInv'
  <2>1. \A i \in 1..Len(statesQ') : DOMAIN statesQ'[i] \subseteq 1..count
    BY <1>4 DEF WorldInv
  <2>2. \A i \in 1..Len(sceneQ') : DOMAIN sceneQ'[i].move \subseteq 1..count
    BY <1>5, <1>6, <1>9, <1>15 DEF WorldInv
  <2> QED BY <1>1, <1>10, <2>1, <2>2 DEF WorldInv
<1>19. \A i \in 1..Len(sceneQ) :
         /\ DOMAIN sceneQ[i].move \subseteq Ids
         /\ \A b \in DOMAIN sceneQ[i].move : sceneQ[i].move[b] \in StartX..PickX
  BY ReadDiff, ReadStates DEF QueueInv
<1>20. \A b \in Ids : world[b] \in Int
  <2>1. world \in [Ids -> {Absent, InGripper, OnPallet} \cup StartX..PickX]
    BY DEF TypeOK
  <2> QED BY ONLY <2>1, Constants DEF Absent, InGripper, OnPallet, StartX
<1>21. \A b \in DOMAIN inScene : world[b] <= inScene'[b]
  <2>1. \A b \in DOMAIN inScene : world[b] <= inScene[b]
    BY DEF OrderInv
  <2>2. PickX \in Nat
    OBVIOUS
  <2> QED BY ONLY <1>5, <1>11, <1>20, <2>1, <2>2 DEF StartX
<1>22. \A i \in 1..Len(statesQ') : \A b \in DOMAIN statesQ'[i] :
         /\ statesQ'[i][b] <= x[b]
         /\ b \in DOMAIN inScene => inScene'[b] <= statesQ'[i][b]
  <2>1. \A i \in 1..Len(statesQ') : \A b \in DOMAIN statesQ'[i] :
          /\ statesQ'[i][b] <= x[b]
          /\ b \in DOMAIN inScene => inScene[b] <= statesQ'[i][b]
    BY <1>4 DEF OrderInv
  <2> QED BY ONLY <1>6, <1>8, <1>10, <2>1
<1>23. \A i, j \in 1..Len(statesQ') : \A b \in DOMAIN statesQ'[i] :
         i < j /\ b \in DOMAIN statesQ'[j] => statesQ'[i][b] <= statesQ'[j][b]
  <2> SUFFICES ASSUME NEW i \in 1..Len(statesQ'), NEW j \in 1..Len(statesQ'),
                      NEW b \in DOMAIN statesQ'[i], i < j, b \in DOMAIN statesQ'[j]
               PROVE  statesQ'[i][b] <= statesQ'[j][b]
    OBVIOUS
  <2>1. /\ i + 1 \in 1..Len(statesQ) /\ j + 1 \in 1..Len(statesQ)
        /\ statesQ'[i] = statesQ[i + 1] /\ statesQ'[j] = statesQ[j + 1]
    BY <1>4
  <2>2. i + 1 < j + 1
    BY ONLY <1>3, i \in 1..Len(statesQ'), j \in 1..Len(statesQ'), i < j
  <2> QED BY <2>1, <2>2 DEF OrderInv
<1>24. \A i \in 1..Len(sceneQ) : \A b \in DOMAIN sceneQ[i].move :
         /\ world[b] <= sceneQ[i].move[b]
         /\ b \in DOMAIN inScene => sceneQ[i].move[b] <= inScene[b]
         /\ \A j \in 1..Len(sceneQ) :
              i < j /\ b \in DOMAIN sceneQ[j].move => sceneQ[i].move[b] <= sceneQ[j].move[b]
  BY DEF OrderInv
<1>25. \A i \in 1..Len(sceneQ') : \A b \in DOMAIN sceneQ'[i].move :
         /\ world[b] <= sceneQ'[i].move[b]
         /\ b \in DOMAIN inScene => sceneQ'[i].move[b] <= inScene'[b]
  <2> SUFFICES ASSUME NEW i \in 1..Len(sceneQ'), NEW b \in DOMAIN sceneQ'[i].move
               PROVE  /\ world[b] <= sceneQ'[i].move[b]
                      /\ b \in DOMAIN inScene => sceneQ'[i].move[b] <= inScene'[b]
    OBVIOUS
  <2>1. CASE i + k \in 1..Len(sceneQ) /\ sceneQ'[i] = sceneQ[i + k]
    <3>1. /\ b \in Ids /\ sceneQ'[i].move[b] \in StartX..PickX
          /\ world[b] <= sceneQ'[i].move[b]
          /\ b \in DOMAIN inScene => sceneQ'[i].move[b] <= inScene[b]
      BY ONLY <1>19, <1>24, <2>1, b \in DOMAIN sceneQ'[i].move
    <3> QED BY ONLY <1>5, <1>11, <3>1, Constants DEF StartX
  <2>2. CASE sceneQ'[i] = d
    <3>1. b \in touched /\ sceneQ'[i].move[b] = s[b] /\ inScene'[b] = s[b] /\ b \in DOMAIN inScene
      BY ONLY <1>6, <1>9, <1>10, <2>2, b \in DOMAIN sceneQ'[i].move
    <3> QED BY ONLY <1>11, <1>21, <3>1, Constants DEF StartX
  <2> QED BY <1>15, <2>1, <2>2
<1>26. \A i, j \in 1..Len(sceneQ') : \A b \in DOMAIN sceneQ'[i].move :
         i < j /\ b \in DOMAIN sceneQ'[j].move => sceneQ'[i].move[b] <= sceneQ'[j].move[b]
  <2> SUFFICES ASSUME NEW i \in 1..Len(sceneQ'), NEW j \in 1..Len(sceneQ'),
                      NEW b \in DOMAIN sceneQ'[i].move, i < j, b \in DOMAIN sceneQ'[j].move
               PROVE  sceneQ'[i].move[b] <= sceneQ'[j].move[b]
    OBVIOUS
  <2>1. i + k \in 1..Len(sceneQ) /\ sceneQ'[i] = sceneQ[i + k]
    <3>1. i # Len(sceneQ')
      BY ONLY <1>13, i \in 1..Len(sceneQ'), j \in 1..Len(sceneQ'), i < j
    <3> QED BY <1>15, <3>1
  <2>2. CASE j + k \in 1..Len(sceneQ) /\ sceneQ'[j] = sceneQ[j + k]
    <3>1. i + k < j + k
      BY ONLY <1>13, i \in 1..Len(sceneQ'), j \in 1..Len(sceneQ'), i < j, k \in {0, 1}
    <3> QED BY ONLY <1>24, <2>1, <2>2, <3>1, b \in DOMAIN sceneQ'[i].move, b \in DOMAIN sceneQ'[j].move
  <2>3. CASE sceneQ'[j] = d
    <3>1. b \in touched /\ sceneQ'[j].move[b] = s[b] /\ inScene'[b] = s[b] /\ b \in DOMAIN inScene
      BY ONLY <1>6, <1>9, <1>10, <2>3, b \in DOMAIN sceneQ'[j].move
    <3> QED BY <1>25, <3>1
  <2> QED BY <1>15, <2>2, <2>3
<1>27. OrderInv'
  <2>1. UNCHANGED <<world, x>>
    BY <1>1
  <2>2. \A b \in DOMAIN inScene' : world[b] <= inScene'[b] /\ inScene'[b] <= x[b]
    BY ONLY <1>10, <1>11, <1>21
  <2> QED BY ONLY <1>10, <1>22, <1>23, <1>25, <1>26, <2>1, <2>2 DEF OrderInv
<1>28. PalletInv'
  <2> SUFFICES ASSUME SensorKeepsUp, NEW b \in Ids, world[b] = OnPallet PROVE ~StillMoved(b)'
    BY <1>1 DEF PalletInv
  <2>1. b \notin DOMAIN inScene /\ \A i \in 1..Len(sceneQ) : b \notin DOMAIN sceneQ[i].move
    BY DEF PalletInv, StillMoved
  <2>2. b \notin DOMAIN inScene' /\ b \notin touched
    BY ONLY <1>6, <1>10, <2>1
  <2>3. \A i \in 1..Len(sceneQ') : b \notin DOMAIN sceneQ'[i].move
    BY ONLY <1>9, <1>15, <2>1, <2>2
  <2> QED BY ONLY <2>2, <2>3 DEF StillMoved
<1> QED BY <1>16, <1>17, <1>18, <1>27, <1>28

-----------------------------------------------------------------------------
(* The theorems.                                                           *)

LEMMA NextKeepsInv ==
  ASSUME Inv, [Next]_vars
  PROVE  Inv'
<1>1. CASE UNCHANGED vars
  <2> USE <1>1 DEF vars, gatewayVars, spawnerVars, sceneVars, beltVars
  <2>1. TypeOK'
    BY DEF Inv, TypeOK
  <2>2. QueueInv' /\ AskInv' /\ ReplyInv'
    BY DEF Inv, QueueInv, AskInv, ReplyInv
  <2>3. WorldInv'
    BY DEF Inv, WorldInv
  <2>4. OrderInv'
    BY DEF Inv, OrderInv
  <2>5. PalletInv'
    BY DEF Inv, PalletInv, StillMoved
  <2> QED BY ONLY <2>1, <2>2, <2>3, <2>4, <2>5 DEF Inv
<1>2. CASE Next
  BY <1>2, RequestBoxKeepsInv, SpawnerGivesUpKeepsInv, AskKeepsInv, RefuseAddKeepsInv,
     FinishAskKeepsInv, QuietKeepsInv, ApplyAddKeepsInv, ApplyDiffKeepsInv, TickKeepsInv,
     DeliverStatesKeepsInv, ArmKeepsInv, ReportKeepsInv, DeliverRemovedKeepsInv
  DEF Next
<1> QED BY <1>1, <1>2

LEMMA InvHolds == Spec => []Inv
<1>1. Init => Inv
  BY InitInv
<1>2. Inv /\ [Next]_vars => Inv'
  BY NextKeepsInv
<1> QED BY <1>1, <1>2, PTL DEF Spec

\* Every variable of the two nodes, of move_group and of the belt keeps its type.
THEOREM TypeCorrect == Spec => []TypeOK
<1>1. Inv => TypeOK
  BY DEF Inv
<1> QED BY <1>1, InvHolds, PTL

\* A MOVE never reaches the scene before its box was added, however long ADDs
\* take, however many are refused, given up and repeated (scene_gateway.cpp:8-10).
THEOREM NeverMovedFirst == Spec => []MoveAfterAdd
<1>1. Inv => MoveAfterAdd
  BY Constants DEF Inv, TypeOK, WorldInv, MoveAfterAdd, Ids
<1> QED BY <1>1, InvHolds, PTL

\* The spawner hands out a number only when the scene has its box, and waits
\* only for the next one.
THEOREM NumbersConfirmed == Spec => []SpawnedIsConfirmed
<1>1. Inv => SpawnedIsConfirmed
  <2> SUFFICES ASSUME Inv PROVE SpawnedIsConfirmed
    OBVIOUS
  <2>1. \A b \in 1..count : b \in Ids /\ b <= count
    BY Constants DEF Inv, TypeOK, Ids
  <2>2. \A b \in 1..count : world[b] # Absent
    BY <2>1 DEF Inv, WorldInv
  <2>3. \A i \in 1..Len(addQ) : addQ[i].id = count + 1
    BY DEF Inv, AskInv
  <2> QED BY ONLY <2>2, <2>3 DEF SpawnedIsConfirmed
<1> QED BY <1>1, InvHolds, PTL

\* As long as the sensor keeps up with the arm, no late ADD and no old MOVE puts
\* a box back, or takes it from the arm or the pallet.
THEOREM NeverBack == SensorKeepsUp /\ Spec => NoJumpBack
<1> SUFFICES ASSUME SensorKeepsUp PROVE Spec => NoJumpBack
  OBVIOUS
<1>1. Inv /\ [Next]_vars => [NoStepBack]_vars
  <2> SUFFICES ASSUME Inv, [Next]_vars PROVE [NoStepBack]_vars
    OBVIOUS
  <2>1. CASE UNCHANGED vars
    BY <2>1
  <2>2. CASE UNCHANGED world
    BY <2>2 DEF NoStepBack, Inv, TypeOK, StartX, Absent, InGripper, OnPallet
  <2>3. CASE ApplyAdd \/ ApplyDiff \/ ArmTakes \/ ArmPuts
    BY <2>3, ApplyAddKeepsInv, ApplyDiffKeepsInv, ArmKeepsInv
  <2> QED
    BY <2>1, <2>2, <2>3
    DEF Next, RequestBox, SpawnerGivesUp, AddBelt, RefuseAdd, BeginAdd, FinishAsk, Second,
        AdvancerTick, DeliverStates, SetColor, SensorReports, DeliverRemoved, sceneVars
<1> QED BY <1>1, InvHolds, PTL DEF Spec, NoJumpBack

-----------------------------------------------------------------------------
(* Colors.  A box the gateway knows and is not about to repaint will show   *)
(* the current color once the queued diffs are applied, and whatever ADD of *)
(* it is still under way carries the current color.                         *)

WillShow(b, c) ==
  \/ /\ painted[b] = c
     /\ \A i \in 1..Len(sceneQ) : b \notin DOMAIN sceneQ[i].paint
  \/ \E i \in 1..Len(sceneQ) :
       /\ b \in DOMAIN sceneQ[i].paint /\ sceneQ[i].paint[b] = c
       /\ \A j \in 1..Len(sceneQ) : b \in DOMAIN sceneQ[j].paint => j <= i

ColorInv ==
  /\ boxColor = NoColor => colorAtAdd = NoColor /\ colorPending = {}
  /\ \A i \in 1..Len(sceneQ) : DOMAIN sceneQ[i].paint \subseteq 1..count
  /\ \A i \in 1..Len(applyQ) : svc = "add" /\ applyQ[i].awaited => applyQ[i].color = colorAtAdd
  /\ reply = "success" /\ svc = "add" => painted[adding] = colorAtAdd
  /\ \A b \in DOMAIN inScene : b \notin colorPending =>
       /\ WillShow(b, boxColor)
       /\ \A i \in 1..Len(applyQ) : applyQ[i].id = b => applyQ[i].color = boxColor

\* move_group takes the diffs before its queue is full.
KeepsUp == Len(sceneQ) < SceneDepth

LEMMA ShowsLast ==
  ASSUME sceneQ \in Seq(Diffs), NEW b, NEW c, WillShow(b, c)
  PROVE  LastPaint(b) = c
<1> DEFINE is == {i \in 1..Len(sceneQ) : b \in DOMAIN sceneQ[i].paint}
<1>1. Len(sceneQ) \in Nat
  BY LenProperties
<1>2. CASE is = {}
  BY <1>2 DEF WillShow, LastPaint
<1>3. CASE is # {}
  <2>1. PICK i \in is : sceneQ[i].paint[b] = c /\ \A j \in is : j <= i
    BY <1>3 DEF WillShow
  <2> DEFINE last == CHOOSE k \in is : \A j \in is : j <= k
  <2>2. last \in is /\ \A j \in is : j <= last
    BY <2>1
  <2>3. LastPaint(b) = sceneQ[last].paint[b]
    BY <1>3 DEF LastPaint
  <2> HIDE DEF last
  <2>4. last = i
    BY <1>1, <2>1, <2>2
  <2> QED BY <2>1, <2>3, <2>4
<1> QED BY <1>2, <1>3

LEMMA ColorInitially == Init => ColorInv
  BY EmptySeq DEF Init, Gateway!GatewayInit, ColorInv

\* The steps that leave colors, requests and diffs alone.
colorVars == <<svc, adding, colorAtAdd, inScene, boxColor, colorPending, applyQ, reply, sceneQ,
               painted>>

LEMMA ColorStays ==
  ASSUME ColorInv, UNCHANGED colorVars, UNCHANGED count
  PROVE  ColorInv'
  BY DEF ColorInv, WillShow, colorVars

LEMMA AskKeepsColor ==
  ASSUME Inv, ColorInv, AddBelt \/ BeginAdd
  PROVE  ColorInv'
<1> PICK id, color :
      /\ applyQ' = Append(applyQ, [id |-> id, color |-> color, awaited |-> TRUE])
      /\ \/ svc' = "belt" /\ id = Belt /\ color \in Colors \cup {NoColor} /\ UNCHANGED colorAtAdd
         \/ svc' = "add" /\ id \in Ids /\ color = boxColor /\ colorAtAdd' = boxColor
      /\ svc = "idle" /\ reply' = "none"
      /\ UNCHANGED <<inScene, boxColor, colorPending, sceneQ, painted, count>>
  <2>1. CASE AddBelt
    BY <2>1 DEF AddBelt, Gateway!AddBelt, Gateway!Ask, spawnerVars, sceneVars
  <2>2. CASE BeginAdd
    <3>1. Head(addQ).id \in Ids
      <4>1. addQ # <<>> /\ addQ \in Seq(Asks)
        BY <2>2 DEF BeginAdd, Inv, QueueInv
      <4>2. Head(addQ) \in Asks
        BY ONLY <4>1, DeliverType
      <4> QED BY <4>2 DEF Asks
    <3> QED BY <2>2, <3>1 DEF BeginAdd, Gateway!BeginAdd, Gateway!Ask, spawnerVars, sceneVars
  <2> QED BY <2>1, <2>2
<1> DEFINE r == [id |-> id, color |-> color, awaited |-> TRUE]
<1>1. r.id = id /\ r.color = color
  OBVIOUS
<1>2. /\ Len(applyQ) \in Nat /\ Len(applyQ') = Len(applyQ) + 1
      /\ \A i \in 1..Len(applyQ) : applyQ'[i] = applyQ[i]
      /\ applyQ'[Len(applyQ) + 1] = r
  <2>1. applyQ \in Seq(Adds) /\ r \in Adds
    BY DEF Inv, QueueInv, TypeOK, Adds
  <2>2. applyQ' = Append(applyQ, r)
    OBVIOUS
  <2> HIDE DEF r
  <2> QED BY ONLY <2>1, <2>2, AppendProperties, LenProperties
<1>3. \A i \in 1..Len(applyQ') : (i \in 1..Len(applyQ) /\ applyQ'[i] = applyQ[i]) \/ applyQ'[i] = r
  <2> HIDE DEF r
  <2> QED BY ONLY <1>2
<1>4. \A i \in 1..Len(applyQ) : ~applyQ[i].awaited
  BY DEF Inv, AskInv
<1> HIDE DEF r
<1>5. \A i \in 1..Len(applyQ') : svc' = "add" /\ applyQ'[i].awaited => applyQ'[i].color = colorAtAdd'
  BY <1>1, <1>3, <1>4
<1>6. \A b \in DOMAIN inScene' : b \notin colorPending' =>
        \A i \in 1..Len(applyQ') : applyQ'[i].id = b => applyQ'[i].color = boxColor'
  <2>1. DOMAIN inScene \subseteq Ids
    BY DEF Inv, TypeOK
  <2> QED BY <1>1, <1>3, <2>1, Constants DEF ColorInv
<1>7. \A b \in DOMAIN inScene' : b \notin colorPending' => WillShow(b, boxColor)'
  BY DEF ColorInv, WillShow
<1>8. boxColor' = NoColor => colorAtAdd' = NoColor /\ colorPending' = {}
  BY DEF ColorInv
<1> QED BY <1>5, <1>6, <1>7, <1>8 DEF ColorInv


\* A box that becomes known has the color its ADD was sent with, and nothing else
\* under way can change it; if the color changed meanwhile it is to be repainted.
LEMMA FinishAskKeepsColor ==
  ASSUME Inv, ColorInv, FinishAsk
  PROVE  ColorInv'
<1> DEFINE added == svc = "add" /\ reply = "success"
<1>1. /\ svc' = "idle" /\ reply' = "none"
      /\ DOMAIN inScene' = IF added THEN DOMAIN inScene \cup {adding} ELSE DOMAIN inScene
      /\ colorPending' = IF added /\ boxColor # NoColor /\ boxColor # colorAtAdd
                         THEN colorPending \cup {adding} ELSE colorPending
      /\ UNCHANGED <<adding, colorAtAdd, boxColor, sceneQ, painted>>
      /\ IF svc = "add" THEN Spawner!OnGatewayAnswer(reply = "success") ELSE UNCHANGED spawnerVars
      /\ \/ UNCHANGED applyQ
         \/ applyQ' = [i \in 1..Len(applyQ) |-> [applyQ[i] EXCEPT !.awaited = FALSE]]
  <2>1. CASE Gateway!ReplyArrives
    BY <2>1 DEF FinishAsk, Gateway!ReplyArrives, Gateway!EndWait, Gateway!Confirmed, sceneVars
  <2>2. CASE Gateway!GatewayTimesOut
    BY <2>2 DEF FinishAsk, Gateway!GatewayTimesOut, Gateway!EndWait, Gateway!Confirmed, sceneVars
  <2> QED BY <2>1, <2>2 DEF FinishAsk
<1>2. count \in Nat /\ count' \in {count, count + 1}
  <2>1. CASE svc = "add"
    <3>1. PICK success \in BOOLEAN : Spawner!OnGatewayAnswer(success)
      BY <1>1, <2>1
    <3>2. count' = count \/ count' = count + 1
      BY <3>1, AnswerFacts
    <3> QED BY <3>2 DEF Inv, TypeOK
  <2>2. CASE svc # "add"
    BY <1>1, <2>2 DEF spawnerVars, Inv, TypeOK
  <2> QED BY <2>1, <2>2
<1>3. Len(applyQ') = Len(applyQ) /\ Len(applyQ) \in Nat
      /\ \A i \in 1..Len(applyQ') : applyQ'[i].id = applyQ[i].id /\ applyQ'[i].color = applyQ[i].color
  <2>1. Len(applyQ) \in Nat /\ \A i \in 1..Len(applyQ) : applyQ[i] \in Adds
    BY DEF Inv, QueueInv
  <2>2. CASE UNCHANGED applyQ
    BY <2>1, <2>2
  <2>3. CASE applyQ' = [i \in 1..Len(applyQ) |-> [applyQ[i] EXCEPT !.awaited = FALSE]]
    BY ONLY <2>1, <2>3 DEF Adds
  <2> QED BY <1>1, <2>2, <2>3
<1>4. added => /\ adding = count + 1 /\ painted[adding] = colorAtAdd /\ applyQ = <<>>
               /\ \A i \in 1..Len(sceneQ) : adding \notin DOMAIN sceneQ[i].paint
  <2>1. added => adding = count + 1 /\ painted[adding] = colorAtAdd /\ applyQ = <<>>
    BY DEF Inv, AskInv, ReplyInv, ColorInv
  <2>2. count + 1 \notin 1..count
    BY <1>2
  <2> QED BY <2>1, <2>2 DEF ColorInv
<1>5. ASSUME NEW b \in DOMAIN inScene', b \notin colorPending'
      PROVE  /\ WillShow(b, boxColor)
             /\ \A i \in 1..Len(applyQ) : applyQ[i].id = b => applyQ[i].color = boxColor
  <2>1. CASE b \in DOMAIN inScene /\ b \notin colorPending
    BY <2>1 DEF ColorInv
  <2>2. CASE ~(b \in DOMAIN inScene /\ b \notin colorPending)
    <3>1. added /\ b = adding /\ ~(boxColor # NoColor /\ boxColor # colorAtAdd)
      BY <1>1, <1>5, <2>2
    <3>2. painted[b] = boxColor
      BY <1>4, <3>1 DEF ColorInv
    <3>3. Len(applyQ) = 0
      BY <1>4, <3>1, EmptySeq
    <3> QED BY <1>4, <3>1, <3>2, <3>3 DEF WillShow
  <2> QED BY <2>1, <2>2
<1>6. \A b \in DOMAIN inScene' : b \notin colorPending' =>
        /\ WillShow(b, boxColor)'
        /\ \A i \in 1..Len(applyQ') : applyQ'[i].id = b => applyQ'[i].color = boxColor'
  BY <1>1, <1>3, <1>5 DEF WillShow
<1>7. \A i \in 1..Len(sceneQ') : DOMAIN sceneQ'[i].paint \subseteq 1..count'
  <2>1. 1..count \subseteq 1..count'
    BY <1>2
  <2> QED BY <1>1, <2>1 DEF ColorInv
<1>8. boxColor' = NoColor => colorAtAdd' = NoColor /\ colorPending' = {}
  BY <1>1 DEF ColorInv
<1> QED BY <1>1, <1>6, <1>7, <1>8 DEF ColorInv

LEMMA ApplyAddKeepsColor ==
  ASSUME Inv, ColorInv, ApplyAdd
  PROVE  ColorInv'
<1> DEFINE r == Head(applyQ)
<1>1. /\ applyQ # <<>> /\ applyQ' = Tail(applyQ)
      /\ \/ /\ painted' = IF r.id = Belt THEN painted ELSE [painted EXCEPT ![r.id] = r.color]
            /\ reply' = IF r.awaited THEN "success" ELSE reply
         \/ reply' = (IF r.awaited THEN "failure" ELSE reply) /\ painted' = painted
      /\ UNCHANGED <<svc, adding, colorAtAdd, inScene, boxColor, colorPending, sceneQ, count>>
  BY DEF ApplyAdd, spawnerVars
<1>2. /\ 1 \in 1..Len(applyQ) /\ r = applyQ[1] /\ r \in Adds
      /\ \A i \in 1..Len(applyQ') : i + 1 \in 1..Len(applyQ) /\ applyQ'[i] = applyQ[i + 1]
  BY <1>1, DeliverType, DeliverElements DEF Inv, QueueInv
<1>3. reply = "none" /\ (reply' = "success" => r.awaited /\ painted' =
        IF r.id = Belt THEN painted ELSE [painted EXCEPT ![r.id] = r.color])
  BY <1>1 DEF Inv, ReplyInv, TypeOK
<1> HIDE DEF r
<1>4. \A b \in Ids : painted'[b] = painted[b] \/ (r.id = b /\ painted'[b] = r.color)
  BY <1>1 DEF Inv, TypeOK
<1>5. reply' = "success" /\ svc' = "add" => painted'[adding] = colorAtAdd
  <2> SUFFICES ASSUME reply' = "success", svc = "add" PROVE painted'[adding] = colorAtAdd
    BY <1>1
  <2>1. r.awaited /\ r.id = adding /\ r.color = colorAtAdd
    BY <1>2, <1>3 DEF Inv, AskInv, ColorInv
  <2>2. adding \in Ids /\ adding # Belt
    BY NextIsBox, Constants DEF Inv, AskInv
  <2> QED BY <1>3, <2>1, <2>2 DEF Inv, TypeOK
<1>6. ASSUME NEW b \in DOMAIN inScene, b \notin colorPending
      PROVE  /\ WillShow(b, boxColor)'
             /\ \A i \in 1..Len(applyQ') : applyQ'[i].id = b => applyQ'[i].color = boxColor
  <2>1. /\ b \in Ids /\ WillShow(b, boxColor)
        /\ \A i \in 1..Len(applyQ) : applyQ[i].id = b => applyQ[i].color = boxColor
    BY <1>6 DEF Inv, TypeOK, ColorInv
  <2>2. painted'[b] = painted[b] \/ painted'[b] = boxColor
    BY <1>2, <1>4, <2>1
  <2> QED BY <1>1, <1>2, <2>1, <2>2 DEF WillShow
<1>7. \A i \in 1..Len(applyQ') : svc' = "add" /\ applyQ'[i].awaited => applyQ'[i].color = colorAtAdd
  BY <1>1, <1>2 DEF ColorInv
<1> QED BY <1>1, <1>5, <1>6, <1>7 DEF ColorInv

LEMMA ApplyDiffKeepsColor ==
  ASSUME Inv, ColorInv, ApplyDiff
  PROVE  ColorInv'
<1> DEFINE d == Head(sceneQ)
<1>1. /\ sceneQ # <<>> /\ sceneQ' = Tail(sceneQ)
      /\ painted' = [b \in Ids |-> IF b \in DOMAIN d.paint THEN d.paint[b] ELSE painted[b]]
      /\ UNCHANGED <<svc, adding, colorAtAdd, inScene, boxColor, colorPending, applyQ, reply, count>>
  BY DEF ApplyDiff, spawnerVars
<1>2. /\ 1 \in 1..Len(sceneQ) /\ d = sceneQ[1] /\ Len(sceneQ) \in Nat
      /\ Len(sceneQ') = Len(sceneQ) - 1
      /\ \A i \in 1..Len(sceneQ') : i + 1 \in 1..Len(sceneQ) /\ sceneQ'[i] = sceneQ[i + 1]
  BY <1>1, DeliverType, DeliverElements, LenProperties DEF Inv, QueueInv
<1> HIDE DEF d
<1>3. ASSUME NEW b \in Ids, NEW c, WillShow(b, c) PROVE WillShow(b, c)'
  <2>1. CASE painted[b] = c /\ \A i \in 1..Len(sceneQ) : b \notin DOMAIN sceneQ[i].paint
    BY <1>1, <1>2, <2>1 DEF WillShow
  <2>2. ASSUME NEW i \in 1..Len(sceneQ), b \in DOMAIN sceneQ[i].paint, sceneQ[i].paint[b] = c,
               \A j \in 1..Len(sceneQ) : b \in DOMAIN sceneQ[j].paint => j <= i
        PROVE  WillShow(b, c)'
    <3>1. CASE i = 1
      <4>1. painted'[b] = c
        BY <1>1, <1>2, <2>2, <3>1
      <4>2. \A j \in 1..Len(sceneQ') : b \notin DOMAIN sceneQ'[j].paint
        BY <1>2, <2>2, <3>1
      <4> QED BY <4>1, <4>2 DEF WillShow
    <3>2. CASE i # 1
      <4>1. i - 1 \in 1..Len(sceneQ') /\ sceneQ'[i - 1] = sceneQ[i]
        <5>1. i - 1 \in 1..Len(sceneQ') /\ (i - 1) + 1 = i
          BY <1>2, <3>2
        <5> QED BY <1>2, <5>1
      <4>2. \A j \in 1..Len(sceneQ') : b \in DOMAIN sceneQ'[j].paint => j <= i - 1
        <5> SUFFICES ASSUME NEW j \in 1..Len(sceneQ'), b \in DOMAIN sceneQ'[j].paint
                     PROVE  j <= i - 1
          OBVIOUS
        <5>1. j + 1 \in 1..Len(sceneQ) /\ b \in DOMAIN sceneQ[j + 1].paint
          BY <1>2
        <5>2. j + 1 <= i
          BY <2>2, <5>1
        <5> QED BY <1>2, <5>2
      <4> QED BY <2>2, <4>1, <4>2 DEF WillShow
    <3> QED BY <3>1, <3>2
  <2> QED BY <1>3, <2>1, <2>2 DEF WillShow
<1>4. reply' = "success" /\ svc' = "add" => painted'[adding] = colorAtAdd
  <2> SUFFICES ASSUME reply = "success", svc = "add" PROVE painted'[adding] = colorAtAdd
    BY <1>1
  <2>1. adding = count + 1 /\ adding \in Ids /\ count \in Nat
    BY NextIsBox DEF Inv, AskInv, TypeOK
  <2>2. DOMAIN d.paint \subseteq 1..count
    BY <1>2 DEF ColorInv
  <2>3. adding \notin 1..count
    BY <2>1
  <2> QED BY <1>1, <2>1, <2>2, <2>3 DEF ColorInv
<1>5. ASSUME NEW b \in DOMAIN inScene, b \notin colorPending PROVE WillShow(b, boxColor)'
  <2> PICK c : c = boxColor
    OBVIOUS
  <2>1. b \in Ids /\ WillShow(b, boxColor)
    BY <1>5 DEF ColorInv, Inv, TypeOK
  <2>2. WillShow(b, c)
    BY <2>1 DEF WillShow
  <2>3. WillShow(b, c)'
    BY <1>3, <2>1, <2>2
  <2> QED BY <1>1, <2>3 DEF WillShow
<1>6. \A i \in 1..Len(sceneQ') : DOMAIN sceneQ'[i].paint \subseteq 1..count
  BY <1>2 DEF ColorInv
<1>7. \A b \in DOMAIN inScene' : b \notin colorPending' => WillShow(b, boxColor)'
  BY <1>1, <1>5
<1> QED BY <1>1, <1>4, <1>6, <1>7 DEF ColorInv


\* A box to repaint is painted with the current color by the diff that clears
\* its mark, behind everything that is queued.
LEMMA DeliverStatesKeepsColor ==
  ASSUME Inv, ColorInv, KeepsUp, DeliverStates
  PROVE  ColorInv'
<1> DEFINE s == Head(statesQ)
           known == DOMAIN s \cap DOMAIN inScene
           repaint == known \cap colorPending
           touched == {b \in known : Gateway!Apart(s[b], inScene[b]) > Eps} \cup repaint
           d == [move  |-> [b \in touched |-> s[b]],
                 paint |-> [b \in {c \in repaint : boxColor # NoColor} |-> boxColor]]
<1>1. /\ statesQ # <<>>
      /\ colorPending' = colorPending \ repaint
      /\ DOMAIN inScene' = DOMAIN inScene
      /\ sceneQ' = IF touched = {} THEN sceneQ ELSE Publish(sceneQ, d, SceneDepth)
      /\ UNCHANGED <<svc, adding, colorAtAdd, boxColor, applyQ, reply, painted, count>>
  <2>1. Gateway!OnBoxStates(s) /\ statesQ # <<>> /\ UNCHANGED <<spawnerVars, sceneVars>>
    BY ONLY DeliverStates DEF DeliverStates
  <2>2. colorPending' = colorPending \ repaint
    BY ONLY <2>1 DEF Gateway!OnBoxStates
  <2>3. inScene' = [b \in DOMAIN inScene |-> IF b \in touched THEN s[b] ELSE inScene[b]]
    BY ONLY <2>1, Zenon DEF Gateway!OnBoxStates
  <2>4. sceneQ' = IF touched = {} THEN sceneQ ELSE Publish(sceneQ, d, SceneDepth)
    <3>1. CASE touched = {}
      BY ONLY <2>1, <3>1, Zenon DEF Gateway!OnBoxStates
    <3>2. CASE touched # {}
      BY ONLY <2>1, <3>2, Zenon DEF Gateway!OnBoxStates, Gateway!Publish, Publish
    <3> QED BY ONLY <3>1, <3>2
  <2>5. UNCHANGED <<svc, adding, colorAtAdd, boxColor, applyQ, reply>>
    BY ONLY <2>1 DEF Gateway!OnBoxStates
  <2> HIDE DEF touched, d
  <2> QED BY ONLY <2>1, <2>2, <2>3, <2>4, <2>5 DEF spawnerVars, sceneVars
<1>2. s \in States /\ DOMAIN s \subseteq 1..count
  <2>1. 1 \in 1..Len(statesQ) /\ s = statesQ[1] /\ s \in States
    BY <1>1, DeliverType, DeliverElements DEF Inv, QueueInv
  <2> QED BY <2>1 DEF Inv, WorldInv
<1>3. repaint \subseteq touched /\ repaint \subseteq 1..count /\ repaint \subseteq colorPending
      /\ repaint \subseteq Ids
  BY <1>2 DEF Inv, TypeOK
<1>4. repaint # {} => boxColor # NoColor
  BY <1>3 DEF ColorInv
<1>5. DOMAIN d.paint = repaint /\ \A b \in repaint : d.paint[b] = boxColor
  BY <1>4
<1>6. /\ boxColor' = NoColor => colorAtAdd' = NoColor /\ colorPending' = {}
      /\ \A i \in 1..Len(applyQ') : svc' = "add" /\ applyQ'[i].awaited => applyQ'[i].color = colorAtAdd'
      /\ reply' = "success" /\ svc' = "add" => painted'[adding'] = colorAtAdd'
  BY <1>1 DEF ColorInv
<1>7. \A b \in DOMAIN inScene' : b \notin colorPending' =>
        \A i \in 1..Len(applyQ') : applyQ'[i].id = b => applyQ'[i].color = boxColor'
  <2> SUFFICES ASSUME NEW b \in DOMAIN inScene, b \notin colorPending \/ b \in repaint,
                      NEW i \in 1..Len(applyQ), applyQ[i].id = b
               PROVE  applyQ[i].color = boxColor
    BY <1>1
  <2>1. CASE b \notin colorPending
    BY <2>1 DEF ColorInv
  <2>2. CASE b \in repaint
    <3>1. b \in 1..count /\ b \in Ids /\ count \in Nat
      BY <1>3, <2>2 DEF Inv, TypeOK
    <3>2. b \in {Belt, count + 1}
      BY DEF Inv, AskInv
    <3> QED BY <3>1, <3>2, Constants
  <2> QED BY <2>1, <2>2
<1> HIDE DEF s, known, repaint, touched, d
<1>8. CASE touched = {}
  <2>1. repaint = {}
    BY <1>3, <1>8
  <2>2. UNCHANGED <<colorPending, sceneQ>>
    BY <1>1, <1>8, <2>1
  <2>3. \A b \in DOMAIN inScene' : b \notin colorPending' => WillShow(b, boxColor)'
    BY <1>1, <2>2 DEF ColorInv, WillShow
  <2>4. \A i \in 1..Len(sceneQ') : DOMAIN sceneQ'[i].paint \subseteq 1..count'
    BY <1>1, <2>2 DEF ColorInv
  <2> QED BY <1>6, <1>7, <2>3, <2>4 DEF ColorInv
<1>9. CASE touched # {}
  <2>1. Len(sceneQ) \in Nat /\ sceneQ' = Append(sceneQ, d)
    BY <1>1, <1>9, LenProperties DEF Publish, KeepsUp, Inv, QueueInv
  <2> DEFINE n == Len(sceneQ) + 1
  <2>2. /\ Len(sceneQ') = n /\ n \in 1..n /\ sceneQ'[n] = d
        /\ \A i \in 1..Len(sceneQ) : i \in 1..n /\ i # n /\ sceneQ'[i] = sceneQ[i]
        /\ \A i \in 1..n : i <= n /\ (i = n \/ i \in 1..Len(sceneQ))
    <3>1. sceneQ \in Seq(Diffs \cup {d}) /\ d \in Diffs \cup {d}
      BY DEF Inv, QueueInv
    <3>2. Len(sceneQ') = Len(sceneQ) + 1 /\ sceneQ'[Len(sceneQ) + 1] = d
          /\ \A i \in 1..Len(sceneQ) : sceneQ'[i] = sceneQ[i]
      BY ONLY <2>1, <3>1, AppendProperties
    <3> QED BY <2>1, <3>2
  <2> HIDE DEF n
  <2>3. \A i \in 1..Len(sceneQ') : DOMAIN sceneQ'[i].paint \subseteq 1..count'
    BY <1>1, <1>3, <1>5, <2>2 DEF ColorInv
  <2>4. ASSUME NEW b \in DOMAIN inScene', b \notin colorPending' PROVE WillShow(b, boxColor)'
    <3>1. CASE b \in repaint
      <4>1. b \in DOMAIN sceneQ'[n].paint /\ sceneQ'[n].paint[b] = boxColor'
        BY <1>1, <1>5, <2>2, <3>1
      <4> QED BY <2>2, <4>1 DEF WillShow
    <3>2. CASE b \notin repaint
      <4>1. WillShow(b, boxColor)
        BY <1>1, <2>4, <3>2 DEF ColorInv
      <4>2. b \notin DOMAIN sceneQ'[n].paint
        BY <1>5, <2>2, <3>2
      <4>3. CASE painted[b] = boxColor /\ \A i \in 1..Len(sceneQ) : b \notin DOMAIN sceneQ[i].paint
        <5>1. painted'[b] = boxColor' /\ \A i \in 1..Len(sceneQ') : b \notin DOMAIN sceneQ'[i].paint
          BY <1>1, <2>2, <4>2, <4>3
        <5> QED BY <5>1 DEF WillShow
      <4>4. ASSUME NEW i \in 1..Len(sceneQ),
                   b \in DOMAIN sceneQ[i].paint, sceneQ[i].paint[b] = boxColor,
                   \A j \in 1..Len(sceneQ) : b \in DOMAIN sceneQ[j].paint => j <= i
            PROVE  WillShow(b, boxColor)'
        <5>1. i \in 1..Len(sceneQ') /\ b \in DOMAIN sceneQ'[i].paint /\ sceneQ'[i].paint[b] = boxColor'
          BY <1>1, <2>2, <4>4
        <5>2. \A j \in 1..Len(sceneQ') : b \in DOMAIN sceneQ'[j].paint => j <= i
          BY <2>2, <4>2, <4>4
        <5> QED BY <5>1, <5>2 DEF WillShow
      <4> QED BY <4>1, <4>3, <4>4 DEF WillShow
    <3> QED BY <3>1, <3>2
  <2> QED BY <1>6, <1>7, <2>3, <2>4 DEF ColorInv
<1> QED BY <1>8, <1>9

LEMMA SetColorKeepsColor ==
  ASSUME Inv, ColorInv, SetColor
  PROVE  ColorInv'
<1>1. PICK c \in Colors : Gateway!OnBoxColor(c)
  BY DEF SetColor
<1>2. /\ boxColor' # NoColor /\ colorPending' = colorPending \cup DOMAIN inScene
      /\ UNCHANGED <<svc, adding, colorAtAdd, inScene, applyQ, reply, sceneQ, painted, count>>
  BY <1>1, SceneAssumption DEF SetColor, Gateway!OnBoxColor, spawnerVars, sceneVars
<1> QED BY <1>2 DEF ColorInv

LEMMA DeliverRemovedKeepsColor ==
  ASSUME Inv, ColorInv, DeliverRemoved
  PROVE  ColorInv'
<1> DEFINE id == Head(removedQ)
<1>1. /\ DOMAIN inScene' = DOMAIN inScene \ {id} /\ colorPending' = colorPending \ {id}
      /\ UNCHANGED <<svc, adding, colorAtAdd, boxColor, applyQ, reply, sceneQ, painted, count>>
  BY DEF DeliverRemoved, Gateway!OnBoxRemoved, spawnerVars, sceneVars
<1>2. \A b \in DOMAIN inScene' : b \notin colorPending' =>
        /\ WillShow(b, boxColor)'
        /\ \A i \in 1..Len(applyQ') : applyQ'[i].id = b => applyQ'[i].color = boxColor'
  BY <1>1 DEF ColorInv, WillShow
<1> QED BY <1>1, <1>2 DEF ColorInv

LEMMA ColorKept ==
  ASSUME Inv, ColorInv, KeepsUp, [Next]_vars
  PROVE  ColorInv'
<1>1. CASE UNCHANGED colorVars /\ UNCHANGED count
  BY <1>1, ColorStays
<1>2. CASE RefuseAdd
  <2>1. count' = count
    BY <1>2, AnswerFacts DEF RefuseAdd
  <2>2. UNCHANGED colorVars
    BY <1>2 DEF RefuseAdd, colorVars, gatewayVars, sceneVars
  <2> QED BY <1>1, <2>1, <2>2
<1>3. CASE RequestBox \/ SpawnerGivesUp
  BY <1>1, <1>3 DEF RequestBox, SpawnerGivesUp, Spawner!OnSpawn, Spawner!SpawnerTimesOut,
     colorVars, gatewayVars, sceneVars
<1>4. CASE Second \/ AdvancerTick \/ ArmTakes \/ ArmPuts \/ SensorReports \/ UNCHANGED vars
  BY <1>1, <1>4 DEF Second, AdvancerTick, ArmTakes, ArmPuts, SensorReports, vars,
     colorVars, gatewayVars, sceneVars, spawnerVars
<1> QED BY <1>2, <1>3, <1>4, AskKeepsColor, FinishAskKeepsColor, ApplyAddKeepsColor,
   ApplyDiffKeepsColor, DeliverStatesKeepsColor, SetColorKeepsColor, DeliverRemovedKeepsColor
   DEF Next

\* No change of color is lost, however ADDs, refusals, timeouts and changes of
\* color interleave (scene_gateway.cpp:12-15), as long as move_group applies the
\* diffs before their queue is full: a box of the gateway's has the current
\* color, will get it from a queued diff, or is marked for the next one.
THEOREM ColorsArrive == Spec /\ []KeepsUp => []ColorNotLost
<1>1. Init => ColorInv
  BY ColorInitially
<1>2. Inv /\ ColorInv /\ KeepsUp /\ [Next]_vars => ColorInv'
  BY ColorKept
<1>3. Inv /\ ColorInv => ColorNotLost
  <2> SUFFICES ASSUME Inv, ColorInv, NEW b \in DOMAIN inScene, b \notin colorPending
               PROVE  LastPaint(b) = boxColor
    BY DEF ColorNotLost
  <2>1. WillShow(b, boxColor) /\ sceneQ \in Seq(Diffs)
    BY DEF ColorInv, Inv, QueueInv
  <2> QED BY <2>1, ShowsLast
<1> QED BY <1>1, <1>2, <1>3, InvHolds, PTL DEF Spec
=============================================================================
