---------------------------- MODULE PickZoneProofs ----------------------------
(***************************************************************************)
(* The pick point for any number of boxes, restarts and queue depths: the  *)
(* sensor's removals are true and published once, and sensor and manager   *)
(* implement PickPoint, as long as the scene hides a box that is there     *)
(* fewer times in a row than the sensor debounces.                         *)
(***************************************************************************)
EXTENDS PickZone, TopicTheorems, FiniteSetTheorems

\* debounce_cycles outlasts the answers that miss the box.
Debounced == MaxMisses < Debounce

Requests == [id : Boxes, answer : {"none", "near", "away"}]
Pending(answer) == request # NoRequest /\ request.answer = answer

QueueInv == Len(removedQ) <= Depth /\ Len(pickQ) <= Depth

\* The lead box is the one that waits, until the arm has it; the scene shows no
\* other box near the pick point.
PlaceInv ==
  /\ \A b \in Boxes : place[b] = "pick" => lead = b
  /\ lead # NoBox => place[lead] # "belt"
  /\ scene \subseteq {b \in Boxes : place[b] = "pick"}

\* What was published is true, and published once.
RemovalInv ==
  /\ NoFalseRemoval
  /\ RemovedOnce
  /\ \A i \in 1..Len(removedQ) : place[removedQ[i]] = "taken"

\* A box was seen, or is about to be, only while it was there, and before its
\* removal was published.
SeenInv ==
  /\ Pending("near") =>
       /\ request.id \in scene \/ place[request.id] = "taken"
       /\ removals[request.id] = 0
  /\ watched # NoBox /\ seen =>
       /\ watched \in scene \/ place[watched] = "taken"
       /\ removals[watched] = 0
       /\ request # NoRequest => request.id = watched

\* While a box that was seen is there, each clear reading is one of the answers
\* in a row that missed it.
CountInv ==
  /\ ~seen => clearCount = 0
  /\ watched \in scene /\ seen =>
       \/ Pending("near")
       \/ Pending("away") /\ clearCount + 1 <= misses
       \/ ~Pending("away") /\ clearCount <= misses

Inv == TypeOK /\ QueueInv /\ PlaceInv /\ RemovalInv /\ SeenInv /\ CountInv

-----------------------------------------------------------------------------
(* The steps that touch a queue or the sensor, once and for all.           *)

LEMMA Names == NoBox \notin Boxes /\ NoRequest \notin Requests
  BY ZoneAssumption DEF Boxes, Requests

LEMMA Numbers ==
  /\ Debounce \in Nat /\ Debounce > 0 /\ MaxMisses \in Nat /\ MaxRestarts \in Nat
  /\ Depth \in Nat \ {0} /\ NumBoxes \in Nat
  BY ZoneAssumption

LEMMA InitInv == ASSUME Init PROVE Inv
<1> USE DEF Init, Sensor!SensorInit
<1>1. TypeOK
  <2>1. removals \in [Boxes -> Nat] /\ place \in [Boxes -> {"belt", "pick", "taken"}]
    OBVIOUS
  <2>2. clearCount \in 0..Debounce - 1 /\ misses \in 0..MaxMisses /\ restarts \in 0..MaxRestarts
    BY Numbers
  <2>3. removedQ \in Seq(Boxes) /\ pickQ \in Seq(Boxes \cup {NoBox})
    BY EmptySeq
  <2> QED BY <2>1, <2>2, <2>3 DEF TypeOK
<1>2. Len(removedQ) = 0 /\ Len(pickQ) = 0
  BY EmptySeq
<1>3. QueueInv
  BY <1>2, Numbers DEF QueueInv
<1>4. PlaceInv
  BY DEF PlaceInv
<1>5. RemovalInv
  BY <1>2 DEF RemovalInv, NoFalseRemoval, RemovedOnce
<1>6. SeenInv /\ CountInv
  BY Names DEF SeenInv, CountInv, Pending
<1> QED BY <1>1, <1>3, <1>4, <1>5, <1>6 DEF Inv

\* The belt, the scene and the arm.
LEMMA BeltKeepsInv ==
  ASSUME Inv, BoxArrives
  PROVE  Inv'
<1> USE DEF Inv, BoxArrives, sensorVars
<1>1. PICK b \in Boxes : place[b] = "belt" /\ lead' = b /\ place' = [place EXCEPT ![b] = "pick"]
  OBVIOUS
<1>2. \A a \in Boxes : place'[a] = IF a = b THEN "pick" ELSE place[a]
  BY <1>1 DEF TypeOK
<1>3. TypeOK'
  BY <1>1 DEF TypeOK
<1>4. PlaceInv'
  BY <1>1, <1>2, Names DEF TypeOK, PlaceInv
<1>5. RemovalInv'
  <2>1. \A i \in 1..Len(removedQ) : removedQ[i] \in Boxes
    BY DEF TypeOK
  <2> QED BY <1>1, <1>2, <2>1 DEF TypeOK, RemovalInv, NoFalseRemoval, RemovedOnce
<1>6. SeenInv'
  BY <1>1, <1>2, Names DEF TypeOK, SeenInv, PlaceInv, Pending, Requests
<1> QED BY <1>3, <1>4, <1>5, <1>6 DEF QueueInv, CountInv, Pending

LEMMA ReportKeepsInv ==
  ASSUME Inv, ReportLead
  PROVE  Inv'
<1>1. pickQ' \in Seq(Boxes \cup {NoBox}) /\ Len(pickQ') <= Depth
  BY PublishType, Numbers DEF ReportLead, Inv, TypeOK, QueueInv
<1> QED
  BY <1>1
  DEF ReportLead, Inv, TypeOK, QueueInv, PlaceInv, RemovalInv, NoFalseRemoval, RemovedOnce,
      SeenInv, CountInv, Pending, sensorVars

LEMMA SceneKeepsInv ==
  ASSUME Inv, SceneCatchesUp
  PROVE  Inv'
<1> USE DEF Inv, SceneCatchesUp, sensorVars
<1>1. PICK b \in Boxes \ scene : place[b] = "pick" /\ scene' = scene \cup {b}
  OBVIOUS
<1>2. TypeOK' /\ PlaceInv'
  BY <1>1 DEF TypeOK, PlaceInv
<1>3. SeenInv'
  BY <1>1 DEF SeenInv, Pending
<1>4. CountInv'
  <2>1. watched # NoBox /\ seen => watched \in scene \/ place[watched] = "taken"
    BY DEF SeenInv
  <2> QED BY <1>1, <2>1, Names DEF TypeOK, CountInv, Pending
<1> QED BY <1>2, <1>3, <1>4 DEF QueueInv, RemovalInv, NoFalseRemoval, RemovedOnce

LEMMA ArmKeepsInv ==
  ASSUME Inv, ArmTakes
  PROVE  Inv'
<1> USE DEF Inv, ArmTakes, sensorVars
<1>1. PICK b \in Boxes : /\ place[b] = "pick" /\ place' = [place EXCEPT ![b] = "taken"]
                         /\ scene' = scene \ {b}
  OBVIOUS
<1>2. \A a \in Boxes : place'[a] = IF a = b THEN "taken" ELSE place[a]
  BY <1>1 DEF TypeOK
<1>3. TypeOK'
  BY <1>1 DEF TypeOK
<1>4. PlaceInv'
  BY <1>1, <1>2, Names DEF TypeOK, PlaceInv
<1>5. RemovalInv'
  <2>1. \A i \in 1..Len(removedQ) : removedQ[i] \in Boxes
    BY DEF TypeOK
  <2> QED BY <1>1, <1>2, <2>1 DEF TypeOK, RemovalInv, NoFalseRemoval, RemovedOnce
<1>6. SeenInv'
  BY <1>1, <1>2, Names DEF TypeOK, SeenInv, Pending, Requests
<1> QED BY <1>1, <1>3, <1>4, <1>5, <1>6 DEF QueueInv, CountInv, Pending

LEMMA ManagerKeepsInv ==
  ASSUME Inv, ManagerReceivesRemoved
  PROVE  Inv'
<1> USE Numbers DEF Inv, QueueInv, PlaceInv, RemovalInv, NoFalseRemoval, RemovedOnce,
        SeenInv, CountInv, Pending, ManagerReceivesRemoved
<1>1. /\ Head(removedQ) \in Boxes /\ removedQ' \in Seq(Boxes) /\ Len(removedQ') <= Depth
      /\ Head(removedQ) = removedQ[1] /\ 1 \in 1..Len(removedQ)
      /\ \A i \in 1..Len(removedQ') : i + 1 \in 1..Len(removedQ) /\ removedQ'[i] = removedQ[i + 1]
  BY DeliverType, DeliverElements, LenProperties DEF TypeOK
<1>2. TypeOK' /\ QueueInv'
  BY <1>1 DEF TypeOK
<1>3. PlaceInv'
  <2>1. /\ \A b \in Boxes : place[b] = "pick" => lead = b
        /\ lead # NoBox => place[lead] # "belt"
        /\ scene \subseteq {b \in Boxes : place[b] = "pick"}
        /\ place[removedQ[1]] = "taken"
    BY <1>1
  <2>2. lead' \in {lead, NoBox} /\ (lead' = NoBox => lead = removedQ[1] \/ lead = NoBox)
        /\ UNCHANGED <<place, scene>>
    BY <1>1
  <2> QED BY ONLY <2>1, <2>2, Names DEF PlaceInv
<1>4. RemovalInv'
  BY <1>1 DEF TypeOK
<1> QED BY <1>2, <1>3, <1>4 DEF TypeOK

\* What the sensor receives and asks.
LEMMA AtPickKeepsInv ==
  ASSUME Inv, ReceiveAtPick
  PROVE  Inv'
<1> USE DEF Inv, ReceiveAtPick, Sensor!OnAtPick
<1>1. /\ Head(pickQ) \in Boxes \cup {NoBox} /\ pickQ' \in Seq(Boxes \cup {NoBox})
      /\ Len(pickQ') <= Depth
  BY DeliverType, LenProperties, Numbers DEF TypeOK, QueueInv
<1>2. TypeOK'
  <2>1. 0 \in 0..Debounce - 1
    BY Numbers
  <2>2. CASE Head(pickQ) \in {NoBox, watched, lastRemoved}
    BY <1>1, <2>2 DEF TypeOK
  <2>3. CASE Head(pickQ) \notin {NoBox, watched, lastRemoved}
    BY <1>1, <2>1, <2>3 DEF TypeOK
  <2> QED BY <2>2, <2>3
<1>3. QueueInv'
  BY <1>1 DEF QueueInv
<1>4. CASE Head(pickQ) \in {NoBox, watched, lastRemoved}
  BY <1>2, <1>3, <1>4
  DEF PlaceInv, RemovalInv, NoFalseRemoval, RemovedOnce, SeenInv, CountInv, Pending
<1>5. CASE Head(pickQ) \notin {NoBox, watched, lastRemoved}
  BY <1>2, <1>3, <1>5
  DEF PlaceInv, RemovalInv, NoFalseRemoval, RemovedOnce, SeenInv, CountInv, Pending
<1> QED BY <1>4, <1>5

LEMMA CheckKeepsInv ==
  ASSUME Inv, CheckScene
  PROVE  Inv'
<1>1. request = NoRequest /\ watched \in Boxes /\ request' = [id |-> watched, answer |-> "none"]
  BY DEF CheckScene, Sensor!CheckScene, Inv, TypeOK
<1>2. request' \in Requests /\ request'.id = watched /\ request'.answer = "none"
  BY <1>1 DEF Requests
<1>3. /\ UNCHANGED <<watched, lastRemoved, seen, clearCount, removedQ>>
      /\ UNCHANGED <<lead, place, scene, pickQ, restarts, misses, removals, shown>>
  BY DEF CheckScene, Sensor!CheckScene, zoneVars
<1>4. TypeOK' /\ QueueInv'
  BY <1>2, <1>3 DEF Inv, TypeOK, QueueInv, Requests
<1> QED
  BY <1>1, <1>2, <1>3, <1>4
  DEF Inv, PlaceInv, RemovalInv, NoFalseRemoval, RemovedOnce, SeenInv, CountInv, Pending

\* move_group reads the scene: what it shows, or nothing.
LEMMA ReadKeepsInv ==
  ASSUME Inv, SceneIsRead
  PROVE  Inv'
<1>1. request \in Requests /\ request # NoRequest /\ request.answer = "none"
  BY DEF SceneIsRead, Inv, TypeOK, Requests
<1>2. /\ request' \in Requests /\ request' # NoRequest /\ request'.id = request.id
      /\ \/ request'.answer = "near" /\ request.id \in scene /\ misses' = 0
         \/ request'.answer = "away" /\ request.id \notin scene /\ misses' = 0
         \/ /\ request'.answer = "away" /\ request.id \in scene
            /\ misses < MaxMisses /\ misses' = misses + 1
  BY <1>1, Names DEF SceneIsRead, Requests
<1>3. UNCHANGED <<watched, lastRemoved, seen, clearCount, removedQ,
                  lead, place, scene, pickQ, restarts, removals, shown>>
  BY DEF SceneIsRead
<1>4. TypeOK'
  BY <1>2, <1>3, Numbers DEF Inv, TypeOK, Requests
<1>5. SeenInv'
  <2>1. \A b \in scene : removals[b] = 0
    BY DEF Inv, TypeOK, PlaceInv, RemovalInv, NoFalseRemoval
  <2> QED BY <1>1, <1>2, <1>3, <2>1 DEF Inv, SeenInv, Pending
<1>6. CountInv'
  <2>1. clearCount \in Nat /\ misses \in Nat
    BY Numbers DEF Inv, TypeOK
  <2>2. watched \in scene /\ seen => request.id = watched /\ clearCount <= misses
    BY <1>1, Names DEF Inv, TypeOK, SeenInv, CountInv, Pending
  <2> QED BY <1>1, <1>2, <1>3, <2>1, <2>2 DEF Inv, CountInv, Pending
<1> QED
  BY <1>3, <1>4, <1>5, <1>6
  DEF Inv, QueueInv, PlaceInv, RemovalInv, NoFalseRemoval, RemovedOnce

LEMMA RestartKeepsInv ==
  ASSUME Inv, SensorRestarts
  PROVE  Inv'
<1>1. pickQ' \in Seq(Boxes \cup {NoBox}) /\ Len(pickQ') = 0
  BY EmptySeq DEF SensorRestarts
<1>2. /\ watched' = NoBox /\ lastRemoved' = NoBox /\ seen' = FALSE /\ clearCount' = 0
      /\ request' = NoRequest /\ shown' = {} /\ restarts < MaxRestarts /\ restarts' = restarts + 1
      /\ UNCHANGED <<removedQ, lead, place, scene, misses, removals>>
  BY DEF SensorRestarts, Sensor!Restart
<1>3. clearCount' \in 0..Debounce - 1 /\ restarts' \in 0..MaxRestarts
  BY <1>2, Numbers DEF Inv, TypeOK
<1>4. TypeOK'
  BY <1>1, <1>2, <1>3 DEF Inv, TypeOK
<1>5. QueueInv'
  BY <1>1, <1>2, Numbers DEF Inv, QueueInv
<1> QED
  BY <1>2, <1>4, <1>5, Names
  DEF Inv, PlaceInv, RemovalInv, NoFalseRemoval, RemovedOnce, SeenInv, CountInv, Pending

\* What an answer about a box that was seen, and is still there, cannot do.
LEMMA NotClearWhileThere ==
  ASSUME Debounced, Inv, ReceiveScene, watched # NoBox, watched \in scene, seen
  PROVE  ~Sensor!IsClear(Sensor!ClearReadings(request.answer = "near"))
  BY Numbers
  DEF Debounced, Inv, TypeOK, SeenInv, CountInv, Pending, ReceiveScene, Sensor!ReceiveScene,
      Sensor!IsClear, Sensor!ClearReadings

\* An answer that reports nothing: for another box, the first that shows the
\* box, or one more reading.
LEMMA QuietAnswerKeepsInv ==
  ASSUME Inv, ReceiveScene, UNCHANGED <<watched, lastRemoved, removedQ>>,
         \/ request.id # watched /\ UNCHANGED <<seen, clearCount>>
         \/ request.id = watched /\ ~seen /\ seen' = (request.answer = "near") /\ clearCount' = clearCount
         \/ /\ request.id = watched /\ seen /\ seen' = seen
            /\ clearCount' = Sensor!ClearReadings(request.answer = "near")
            /\ ~Sensor!IsClear(Sensor!ClearReadings(request.answer = "near"))
  PROVE  Inv'
<1>1. /\ request # NoRequest /\ request \in Requests /\ request.id \in Boxes /\ request' = NoRequest
      /\ request.answer \in {"near", "away"}
  BY DEF ReceiveScene, Sensor!ReceiveScene, Inv, TypeOK, Requests
<1>2. removals' = removals /\ UNCHANGED <<lead, place, scene, pickQ, restarts, misses>> /\ shown' \subseteq Boxes
  BY <1>1 DEF ReceiveScene, Inv, TypeOK
<1>3. clearCount \in 0..Debounce - 1 /\ misses \in Nat
  BY Numbers DEF Inv, TypeOK
<1>4. clearCount' \in 0..Debounce - 1
  BY <1>3, Numbers DEF Sensor!IsClear, Sensor!ClearReadings
<1>5. seen \in BOOLEAN /\ seen' \in BOOLEAN
  BY DEF Inv, TypeOK
<1>6. TypeOK'
  BY <1>1, <1>2, <1>4, <1>5 DEF Inv, TypeOK
<1>7. SeenInv'
  <2>1. CASE seen' = seen
    BY <1>1, <1>2, <2>1 DEF Inv, SeenInv, Pending
  <2>2. CASE seen' # seen
    BY <1>1, <1>2, <1>5, <2>2 DEF Inv, SeenInv, Pending
  <2> QED BY <2>1, <2>2
<1>8. CountInv'
  BY <1>1, <1>2, <1>3, Names
  DEF Inv, TypeOK, SeenInv, CountInv, Pending, Sensor!ClearReadings
<1> QED
  BY <1>2, <1>6, <1>7, <1>8
  DEF Inv, QueueInv, PlaceInv, RemovalInv, NoFalseRemoval, RemovedOnce

LEMMA AnswerKeepsInv ==
  ASSUME Debounced, Inv, ReceiveScene
  PROVE  Inv'
<1> DEFINE near == request.answer = "near"
<1>1. /\ request # NoRequest /\ request \in Requests /\ request.id \in Boxes /\ request' = NoRequest
      /\ Sensor!OnScene(request.id, near)
  BY DEF ReceiveScene, Sensor!ReceiveScene, Inv, TypeOK, Requests
<1>2. CASE ~(request.id = watched /\ seen /\ Sensor!IsClear(Sensor!ClearReadings(near)))
  BY <1>1, <1>2, QuietAnswerKeepsInv DEF Sensor!OnScene
<1>3. CASE request.id = watched /\ seen /\ Sensor!IsClear(Sensor!ClearReadings(near))
  <2>1. watched \in Boxes /\ watched # NoBox
    BY <1>1, <1>3, Names
  <2>2. place[watched] = "taken" /\ removals[watched] = 0
    BY <1>3, <2>1, NotClearWhileThere DEF Inv, SeenInv
  <2>3. Sensor!ReportRemoved /\ seen' = seen
    BY <1>1, <1>3 DEF Sensor!OnScene
  <2>4. removals' = [removals EXCEPT ![watched] = @ + 1] /\ shown' \subseteq Boxes
        /\ UNCHANGED <<lead, place, scene, pickQ, restarts, misses>>
    BY <1>1, <2>1, <2>3 DEF ReceiveScene, Sensor!ReportRemoved, Inv, TypeOK
  <2>5. /\ removedQ' = Publish(removedQ, watched, Depth)
        /\ lastRemoved' = watched /\ watched' = NoBox /\ clearCount' = 0
        /\ removedQ \in Seq(Boxes) /\ Len(removedQ) <= Depth
    BY <2>3 DEF Inv, TypeOK, QueueInv, Sensor!ReportRemoved, Sensor!Publish, Publish
  <2>6. removedQ' \in Seq(Boxes) /\ Len(removedQ') <= Depth
    BY <2>1, <2>5, Numbers, PublishType
  <2>7. clearCount' \in 0..Debounce - 1
    BY <2>5, Numbers
  <2>8. TypeOK' /\ QueueInv'
    BY <1>1, <2>1, <2>3, <2>4, <2>5, <2>6, <2>7 DEF Inv, TypeOK, QueueInv
  <2>9. RemovalInv'
    <3>1. /\ Len(removedQ') \in 1..Depth /\ removedQ'[Len(removedQ')] = watched
          /\ \E k \in {0, 1} : \A i \in 1..Len(removedQ') - 1 :
                i + k \in 1..Len(removedQ) /\ removedQ'[i] = removedQ[i + k]
      BY <2>1, <2>5, Numbers, PublishElements
    <3>2. \A i \in 1..Len(removedQ') : place[removedQ'[i]] = "taken"
      BY <2>2, <3>1, Numbers DEF Inv, RemovalInv
    <3> QED BY <2>1, <2>2, <2>4, <3>2 DEF Inv, TypeOK, RemovalInv, NoFalseRemoval, RemovedOnce
  <2>10. SeenInv' /\ CountInv'
    BY <1>1, <1>3, <2>3, <2>4, <2>5, Names DEF Inv, TypeOK, SeenInv, CountInv, Pending
  <2> QED BY <2>4, <2>8, <2>9, <2>10 DEF Inv, PlaceInv
<1> QED BY <1>2, <1>3

LEMMA NextKeepsInv ==
  ASSUME Debounced, Inv, [Next]_vars
  PROVE  Inv'
<1>1. CASE UNCHANGED vars
  BY <1>1
  DEF vars, sensorVars, zoneVars, Inv, TypeOK, QueueInv, PlaceInv, RemovalInv, NoFalseRemoval,
      RemovedOnce, SeenInv, CountInv, Pending
<1> QED
  BY <1>1, BeltKeepsInv, ReportKeepsInv, SceneKeepsInv, ArmKeepsInv, ManagerKeepsInv, AtPickKeepsInv,
     CheckKeepsInv, ReadKeepsInv, RestartKeepsInv, AnswerKeepsInv DEF Next

LEMMA InvHolds == Debounced /\ Spec => []Inv
<1> DEFINE Kept == Debounced /\ Inv
<1>1. Kept /\ [Next]_vars => Kept'
  BY NextKeepsInv DEF Debounced
<1>2. Debounced /\ Init => Kept
  BY InitInv
<1>3. Kept => Inv
  OBVIOUS
<1> QED BY <1>1, <1>2, <1>3, PTL DEF Spec

\* The sensor reports only boxes the arm took, each once, for every number of
\* boxes and restarts (proximity_sensor.cpp:109-149).
THEOREM Sound == Debounced /\ Spec => []SoundSensor
<1>1. Inv => SoundSensor
  BY DEF Inv, RemovalInv, SoundSensor
<1> QED BY <1>1, InvHolds, PTL

-----------------------------------------------------------------------------
(* The refinement.                                                         *)

Gone == {b \in Boxes : place[b] # "belt" /\ b # lead}

LEMMA GoneCount ==
  /\ IsFiniteSet(Boxes) /\ Cardinality(Boxes) = NumBoxes
  /\ IsFiniteSet(Gone) /\ Cardinality(Gone) \in Nat /\ Cardinality(Gone) <= NumBoxes
<1>1. IsFiniteSet(Boxes) /\ Cardinality(Boxes) = NumBoxes
  BY Numbers, FS_Interval DEF Boxes
<1>2. Gone \in SUBSET Boxes
  BY DEF Gone
<1> QED BY <1>1, <1>2, FS_Subset, FS_CardinalityType

\* A box that arrives is not yet cleared: there is room for one more.
LEMMA ArriveRefines ==
  ASSUME Inv, BoxArrives
  PROVE  Pick!Arrive
<1>1. PICK b \in Boxes : place[b] = "belt" /\ lead' = b /\ place' = [place EXCEPT ![b] = "pick"]
  BY DEF BoxArrives
<1>2. lead = NoBox /\ NoBox \notin Boxes
  BY Names DEF BoxArrives
<1>3. Gone' = Gone
  BY <1>1, <1>2 DEF Gone, Inv, TypeOK
<1>4. Cardinality(Gone) < NumBoxes
  <2>1. b \notin Gone
    BY <1>1 DEF Gone
  <2>2. Gone # Boxes
    BY <2>1
  <2> QED BY <2>2, GoneCount, Numbers, FS_Subset DEF Gone
<1>5. lead' # NoBox /\ ~(lead # NoBox /\ place[lead] = "taken")
      /\ ~(lead' # NoBox /\ place'[lead'] = "taken")
  BY <1>1, <1>2 DEF Inv, TypeOK
<1> QED BY <1>2, <1>3, <1>4, <1>5 DEF Pick!Arrive, Gone

LEMMA TakeRefines ==
  ASSUME Inv, ArmTakes
  PROVE  Pick!Take
<1>1. PICK b \in Boxes : place[b] = "pick" /\ place' = [place EXCEPT ![b] = "taken"]
  BY DEF ArmTakes
<1>2. lead = b /\ lead' = lead /\ b # NoBox
  BY <1>1, Names DEF ArmTakes, Inv, PlaceInv
<1>3. Gone' = Gone
  BY <1>1, <1>2 DEF Gone, Inv, TypeOK
<1>4. place[lead] # "taken" /\ place'[lead] = "taken"
  BY <1>1, <1>2 DEF Inv, TypeOK
<1> QED BY <1>2, <1>3, <1>4 DEF Pick!Take, Gone

\* The manager drops its lead box only when the arm has it.
LEMMA ClearRefines ==
  ASSUME Inv, ManagerReceivesRemoved, lead' # lead
  PROVE  Pick!Clear
<1>1. lead' = NoBox /\ Head(removedQ) = lead /\ removedQ # <<>> /\ place' = place
  BY DEF ManagerReceivesRemoved
<1>2. Head(removedQ) \in Boxes /\ Head(removedQ) = removedQ[1] /\ 1 \in 1..Len(removedQ)
  BY <1>1, DeliverType, DeliverElements DEF Inv, TypeOK
<1>3. lead \in Boxes /\ place[lead] = "taken" /\ NoBox \notin Boxes
  BY <1>1, <1>2, Names DEF Inv, RemovalInv
<1>4. Gone' = Gone \cup {lead} /\ lead \notin Gone
  BY <1>1, <1>3 DEF Gone
<1>5. Cardinality(Gone') = Cardinality(Gone) + 1
  BY <1>4, GoneCount, FS_AddElement
<1> QED BY <1>1, <1>3, <1>5 DEF Pick!Clear, Gone

\* All other steps change neither the lead box nor where the boxes are.
LEMMA StepRefines ==
  ASSUME Inv, [Next]_vars
  PROVE  [Pick!Next]_<<Cardinality(Gone), lead # NoBox, lead # NoBox /\ place[lead] = "taken">>
<1>1. CASE BoxArrives
  BY <1>1, ArriveRefines DEF Pick!Next
<1>2. CASE ArmTakes
  BY <1>2, TakeRefines DEF Pick!Next
<1>3. CASE ManagerReceivesRemoved /\ lead' # lead
  BY <1>3, ClearRefines DEF Pick!Next
<1>4. CASE UNCHANGED <<lead, place>>
  BY <1>4 DEF Gone
<1>5. BoxArrives \/ ArmTakes \/ (ManagerReceivesRemoved /\ lead' # lead) \/ UNCHANGED <<lead, place>>
  BY DEF Next, ReportLead, SceneCatchesUp, ManagerReceivesRemoved, ReceiveAtPick, CheckScene,
         SceneIsRead, ReceiveScene, SensorRestarts, vars, zoneVars
<1> QED BY <1>1, <1>2, <1>3, <1>4, <1>5

\* Sensor and manager implement the contract of the pick point, for every
\* number of boxes, restarts and missed readings.
THEOREM PickRefined == Debounced /\ Spec => PickSpec
<1>1. Init => Pick!Init
  <2> SUFFICES ASSUME Init PROVE Pick!Init
    OBVIOUS
  <2>1. Gone = {}
    BY DEF Init, Gone
  <2>2. lead = NoBox
    BY DEF Init
  <2> QED BY <2>1, <2>2, FS_EmptySet DEF Pick!Init, Gone
<1>2. Inv /\ [Next]_vars => [Pick!Next]_<<Cardinality(Gone), lead # NoBox,
                                           lead # NoBox /\ place[lead] = "taken">>
  BY StepRefines
<1> QED BY <1>1, <1>2, InvHolds, PTL DEF Spec, PickSpec, Pick!Spec, Gone
=============================================================================
