--------------------------- MODULE CommandServer ---------------------------
(***************************************************************************)
(* The remote command server of fairino_hardware (command_server.cpp): a   *)
(* service that takes a string such as MoveJ(JNT1,30,0,0), looks the       *)
(* command up, converts its arguments and calls the controller's SDK.      *)
(*                                                                         *)
(* The service and the server's timers share one mutually exclusive        *)
(* callback group and every SDK call is synchronous, so a handler runs as  *)
(* one step; the answer leaves in the next one.  An argument is a record:  *)
(* a number, a word, or the name of a stored point (JNT2 or CART1, where   *)
(* 0 stands for a name without its number).  The text of numbers and       *)
(* answers is left out, and so are the width a number is cut to and what   *)
(* the locals hold that a getter answers with when its SDK call fails.     *)
(***************************************************************************)
EXTENDS CommandTable, FiniteSets

CONSTANTS Requests,    \* the requests clients send: [cmd, args]
          MaxPoints    \* bound on the points a store holds

Number(n) == [kind |-> "number", val |-> n]
Word == [kind |-> "word", val |-> 0]
LongWord == [kind |-> "word", val |-> 1]        \* longer than the array it is copied into
Ref(store, i) == [kind |-> store, val |-> i]
Param(p) == [kind |-> "param", name |-> p]      \* the value of a node parameter
Garbage == [kind |-> "garbage"]
Smeared(a) == [kind |-> "smeared", of |-> a]    \* a name and what lay behind it

Stores == {"JNT", "CART"}

Argument == [kind : {"number", "word"} \union Stores, val : Nat]

ASSUME RequestsAssumption == Requests \subseteq [cmd : STRING, args : Seq(Argument)]
ASSUME MaxPointsAssumption == MaxPoints \in Nat

VARIABLES
  phase,     \* "idle", "handled" (the answer is ready) or "dead"
  points,    \* _cmd_jnt_pos_list and _cmd_cart_pos_list
  request,   \* the request handled last
  reply,     \* the answer to it
  call,      \* the command the handler made the SDK execute for it, if any
  defined    \* history: the points clients were told are stored

vars == <<phase, points, request, reply, call, defined>>

NoRequest == [cmd |-> "none", args |-> <<>>]
NoCall == [cmd |-> "none", to |-> <<>>, args |-> <<>>]
NoReply == [tag |-> "none", vals |-> <<>>]
Refused == [tag |-> "refused", vals |-> <<>>]
Stored == [tag |-> "stored", vals |-> <<>>]
Result == [tag |-> "result", vals |-> <<>>]
Noise == [tag |-> "garbage", vals |-> <<>>]
Shown(vals) == [tag |-> "point", vals |-> vals]

Init ==
  /\ phase = "idle"
  /\ points = [s \in Stores |-> <<>>]
  /\ request = NoRequest
  /\ reply = NoReply
  /\ call = NoCall
  /\ defined = [s \in Stores |-> <<>>]

-----------------------------------------------------------------------------
(* Converting an argument list.                                             *)

IsNumber(a) == a.kind \in {"number", "param"}
Readable(a, kind) == kind = "number" => IsNumber(a)

TooLong(a) == a.kind = "word" /\ a.val # 0

(* Names that are copied past the end of their array.                       *)
Overruns(list, kinds) ==
  {i \in DOMAIN kinds : i <= Len(list) /\ kinds[i] = "buffer" /\ TooLong(list[i])}

(* stoi and stod throw at the first element that is not a number; a list    *)
(* that ends too early is read beyond its end.                              *)
Parse(list, kinds) ==
  LET stops == {i \in DOMAIN kinds : i <= Len(list) /\ ~Readable(list[i], kinds[i])}
  IN IF \E i \in Overruns(list, kinds) : \A j \in stops : i < j THEN "wild"
     ELSE IF stops # {} THEN "refused"
     ELSE IF Len(list) < Len(kinds) THEN "wild"
     ELSE "ok"

Buffers(kinds) == {i \in DOMAIN kinds : kinds[i] = "buffer"}

(* What reaches the SDK: surplus elements are dropped, except where the     *)
(* whole string is handed on.  A name in a buffer ends where the array      *)
(* happens to hold a 0: those in smeared are followed by what lay there.    *)
Taken(list, kinds, smeared) ==
  CASE kinds = All -> list
    [] kinds = Name ->
         IF \E i \in DOMAIN list : TooLong(list[i]) THEN <<Garbage>> ELSE list
    [] OTHER -> [i \in DOMAIN kinds |-> IF i > Len(list) THEN Garbage
                                        ELSE IF i \in smeared THEN Smeared(list[i])
                                        ELSE list[i]]

(* MoveGripper reads four of the six elements it has put together and calls *)
(* the SDK with constants in the places of the other two.                   *)
Fixed(cmd) == IF cmd = "MoveGripper" THEN <<Number(30000), Number(1)>> ELSE <<>>

(* Reading beyond the end of a list is undefined, with libstdc++ a null     *)
(* string, which either throws the logic_error the server catches or kills  *)
(* it, or whatever lies on the stack; and so is writing beyond an array.    *)
Outcomes(list, kinds) ==
  CASE Parse(list, kinds) = "ok" -> {"called"}
    [] Parse(list, kinds) = "refused" -> {"refused"}
    [] Parse(list, kinds) = "wild" -> {"refused", "called", "dead"}

-----------------------------------------------------------------------------
(* The effect of one handler.                                               *)

(* Splitting the empty string gives one empty element.                      *)
Elements(r) == IF r.args = <<>> THEN <<Word>> ELSE r.args

Handled(r, answer, made) ==
  /\ phase' = "handled"
  /\ request' = r
  /\ reply' = answer
  /\ call' = made
  /\ UNCHANGED defined

Refuse(r) == Handled(r, Refused, NoCall) /\ UNCHANGED points

Die(r) ==
  /\ phase' = "dead"
  /\ request' = r
  /\ reply' = NoReply
  /\ call' = NoCall
  /\ UNCHANGED <<points, defined>>

(* The end of a handler that calls the SDK with the points of to and the    *)
(* elements of list it converts.                                            *)
Execute(r, to, list, kinds) ==
  \E outcome \in Outcomes(list, kinds) :
    \/ outcome = "refused" /\ Refuse(r)
    \/ outcome = "dead" /\ Die(r)
    \/ /\ outcome = "called"
       /\ \E smeared \in SUBSET Buffers(kinds) :
            Handled(r, Result, [cmd |-> r.cmd, to |-> to,
                                args |-> Taken(list, kinds, smeared) \o Fixed(r.cmd)])
       /\ UNCHANGED points

-----------------------------------------------------------------------------
(* Stored points: JNTPoint, CARTPoint and GET.                              *)

StoreOf == [JNTPoint |-> "JNT", CARTPoint |-> "CART"]

\* Mutation of PointOf: the parser is not moved past the index.
PointWithIndex(r) == [i \in DOMAIN r.args |-> r.args[i].val]

PointOf(r) == [i \in 1..6 |-> r.args[i + 1].val]

\* Mutation of MayDefine: a hole of one point is let through.
MayDefineBeyond(index, size) == index \in 1..(size + 2)

MayDefine(index, size) == index \in 1..(size + 1)

(* Seven numbers, the first of them an index: an index of the store is      *)
(* overwritten, the next one appended, every other refused.                 *)
Storable(r) ==
  /\ \A i \in DOMAIN r.args : r.args[i].kind = "number"
  /\ Len(r.args) = 7
  /\ MayDefine(r.args[1].val, Len(points[StoreOf[r.cmd]]))

WithPoint(store, index, point) ==
  IF index <= Len(store) THEN [store EXCEPT ![index] = point] ELSE Append(store, point)

Store(r) ==
  /\ r.args[1].val <= MaxPoints
  /\ points' = [points EXCEPT ![StoreOf[r.cmd]] = WithPoint(@, r.args[1].val, PointOf(r))]
  /\ Handled(r, Stored, NoCall)

Define(r) ==
  /\ r.cmd \in DOMAIN StoreOf
  /\ \/ Storable(r) /\ Store(r)
     \/ ~Storable(r) /\ Refuse(r)

(* No end of getVariable but the two that find the point returns anything.  *)
ReturnsNothing(r) ==
  \/ Die(r)
  \/ Handled(r, Noise, NoCall) /\ UNCHANGED points

Get(r) ==
  /\ r.cmd = "GET"
  /\ IF /\ Len(r.args) = 2
        /\ r.args[1].kind \in Stores /\ r.args[1].val = 0
        /\ r.args[2].kind = "number"
        /\ r.args[2].val \in DOMAIN points[r.args[1].kind]
     THEN /\ Handled(r, Shown(points[r.args[1].kind][r.args[2].val]), NoCall)
          /\ UNCHANGED points
     ELSE ReturnsNothing(r)

-----------------------------------------------------------------------------
(* Motions to stored points.  The controller computes the Cartesian pose of *)
(* a joint point and the joints of a Cartesian one, or fails to.            *)

Joints(how, point) == [kind |-> "joints", how |-> how, point |-> point]
Pose(how, point) == [kind |-> "pose", how |-> how, point |-> point]
Unset == Joints("unset", <<>>)       \* a JointPos as constructed

ByJoints(point) == <<Joints("stored", point), Pose("forward", point)>>
ByPose(point) == <<Joints("inverse", point), Pose("stored", point)>>

Single(stores, numbers, axes) ==
  [stores |-> stores, points |-> 1, numbers |-> numbers, axes |-> axes]

Motions ==
  [MoveJ |-> Single(Stores, 3, 4), MoveL |-> Single(Stores, 3, 4),
   MoveC |-> [stores |-> Stores, points |-> 2, numbers |-> 3, axes |-> 8],
   SplinePTP |-> Single({"JNT"}, 3, 0),
   NewSplinePoint |-> Single({"CART"}, 4, 0)]

\* Mutation of Target: every handler shadows its variables.
TargetShadowed(cmd, ref) ==
  LET point == points[ref.kind][ref.val]
  IN IF ref.kind = "CART" THEN ByPose(point) ELSE <<Unset, Pose("forward", point)>>

(* The joints and the pose a motion to a stored point is called with.       *)
(* MoveC declares its joint variables anew in the block that reads them, so *)
(* that its call sees the unset ones of the function.                       *)
Target(cmd, ref) ==
  LET point == points[ref.kind][ref.val]
  IN CASE ref.kind = "CART" -> ByPose(point)
       [] ref.kind = "JNT" /\ cmd # "MoveC" -> ByJoints(point)
       [] ref.kind = "JNT" /\ cmd = "MoveC" -> <<Unset, Pose("forward", point)>>

Targets(cmd, refs) == [i \in DOMAIN refs |-> Target(cmd, refs[i])]

(* The numbers behind the points, and the positions of the external axes    *)
(* if anything follows the numbers.                                         *)
Trailing(motion, list) ==
  Num(motion.numbers + (IF Len(list) > motion.numbers THEN motion.axes ELSE 0))

Move(r) ==
  /\ r.cmd \in DOMAIN Motions
  /\ LET motion == Motions[r.cmd]
         n == motion.points
         given == Elements(r)
         refs == SubSeq(given, 1, n)
         list == SubSeq(given, n + 1, Len(given))
     IN IF Len(given) < n THEN Refuse(r) \/ Die(r)
        ELSE IF /\ \E s \in motion.stores : \A i \in 1..n : refs[i].kind = s
                /\ \A i \in 1..n : refs[i].val \in DOMAIN points[refs[i].kind]
             THEN \/ Refuse(r)        \* the controller finds no solution
                  \/ Execute(r, Targets(r.cmd, refs), list, Trailing(motion, list))
             ELSE Refuse(r)

-----------------------------------------------------------------------------
(* Every other command.                                                     *)

(* Node parameters the handler puts around the arguments of the client.     *)
Prepended(cmd) ==
  IF cmd = "SetAnticollision" THEN <<Param("collision_mode")>> ELSE <<>>

\* Mutation of Appended: the parameters of a tool as they are declared.
AppendedAsDeclared(cmd) ==
  CASE cmd \in {"SetToolCoord", "SetToolList"} ->
         <<Param("toolcoord_install"), Param("toolcoord_type")>>
    [] cmd = "SetAnticollision" -> <<Param("collision_config")>>
    [] OTHER -> <<>>

Appended(cmd) ==
  CASE cmd \in {"SetToolCoord", "SetToolList"} ->
         <<Param("toolcoord_type"), Param("toolcoord_install")>>
    [] cmd = "SetAnticollision" -> <<Param("collision_config")>>
    [] cmd = "MoveGripper" -> <<Param("gripper_vel"), Param("gripper_force"),
                                Param("gripper_maxtime"), Param("gripper_block")>>
    [] cmd \in {"SetDO", "SetToolDO", "SetAuxDO"} ->
         <<Param("DO_smooth"), Param("DO_block")>>
    [] cmd \in {"SetAO", "SetToolAO", "SetAuxAO"} -> <<Param("AO_block")>>
    [] OTHER -> <<>>

Full(r) == Prepended(r.cmd) \o Elements(r) \o Appended(r.cmd)

(* Three handlers have a long form, chosen by the length of the list.       *)
LongForm == [FT_Control |-> 36, MoveToIntersectLineStart |-> 139,
             MoveIntersectLine |-> 150]

(* Three handlers read as many elements as they find or are told to.        *)
Counted == {"SetAxleLuaGripperFunc", "GetAxleGenComCycleData", "SndRcvAxleGenComCmdData"}

Announced(list) == IF list[1].kind = "number" THEN list[1].val ELSE 0

\* Mutation of Kinds: a list longer than the short form is read as the long one.
KindsByExcess(cmd, list) ==
  IF cmd \in DOMAIN LongForm
  THEN IF Len(list) > Len(Table[cmd]) THEN Num(LongForm[cmd]) ELSE Table[cmd]
  ELSE IF cmd \in Counted THEN Num(Len(list)) ELSE Table[cmd]

Kinds(cmd, list) ==
  CASE cmd = "SetAxleLuaGripperFunc" -> Num(Len(list))
    [] cmd = "GetAxleGenComCycleData" -> Num(1 + Announced(list))
    [] cmd = "SndRcvAxleGenComCmdData" -> Num(2 + Announced(list))
    [] cmd \in DOMAIN LongForm ->
         IF Len(list) = LongForm[cmd] THEN Num(LongForm[cmd]) ELSE Table[cmd]
    [] OTHER -> Table[cmd]

(* Answered without the SDK; the body of GetWeldingBreakOffState is         *)
(* commented out.                                                           *)
Local == {"GetVersion", "GetMsgVersion", "Circle", "GetWeldingBreakOffState"}

AnswerLocally(r) ==
  /\ r.cmd \in Local
  /\ CASE r.cmd = "Circle" -> Refuse(r)
       [] r.cmd = "GetWeldingBreakOffState" -> ReturnsNothing(r)
       [] OTHER -> Handled(r, Result, NoCall) /\ UNCHANGED points

Special == Local \union DOMAIN StoreOf \union {"GET"} \union DOMAIN Motions
Forwarded == DOMAIN Table \ Special

ForwardToSDK(r) ==
  /\ r.cmd \in Forwarded
  /\ Execute(r, <<>>, Full(r), Kinds(r.cmd, Full(r)))

(* Malformed requests and unknown names.                                    *)
Known == Special \union Forwarded

RefuseUnknown(r) == r.cmd \notin Known /\ Refuse(r)

-----------------------------------------------------------------------------
(* The service.                                                             *)

Handle(r) ==
  /\ phase = "idle"
  /\ \/ Define(r)
     \/ Get(r)
     \/ Move(r)
     \/ AnswerLocally(r)
     \/ ForwardToSDK(r)
     \/ RefuseUnknown(r)

(* The answer leaves; a client that stored a point now knows of it.         *)
Learn ==
  IF reply.tag = "stored"
  THEN LET store == StoreOf[request.cmd]
           index == request.args[1].val
           known == DOMAIN defined[store]
       IN [defined EXCEPT ![store] = [i \in known \union {index} |->
             IF i = index THEN PointOf(request) ELSE @[i]]]
  ELSE defined

Answer ==
  /\ phase = "handled"
  /\ phase' = "idle"
  /\ defined' = Learn
  /\ request' = NoRequest
  /\ reply' = NoReply
  /\ call' = NoCall
  /\ UNCHANGED points

(* Somebody starts the node again: its points are gone.                     *)
Restart ==
  /\ phase = "dead"
  /\ phase' = "idle"
  /\ points' = [s \in Stores |-> <<>>]
  /\ defined' = [s \in Stores |-> <<>>]
  /\ request' = NoRequest
  /\ UNCHANGED <<reply, call>>

Next ==
  \/ \E r \in Requests : Handle(r)
  \/ Answer
  \/ Restart

Spec == Init /\ [][Next]_vars

-----------------------------------------------------------------------------
(* Properties.                                                              *)

Point == [1..6 -> Nat]

(* The stores hold at most MaxPoints points of six numbers, and a dead      *)
(* server answers nothing (_cmd_jnt_pos_list, _cmd_cart_pos_list).          *)
TypeOK ==
  /\ phase \in {"idle", "handled", "dead"}
  /\ \A s \in Stores : /\ Len(points[s]) <= MaxPoints
                       /\ \A i \in DOMAIN points[s] : points[s][i] \in Point
  /\ reply.tag \in {"none", "refused", "stored", "result", "garbage", "point"}
  /\ reply.tag = "none" <=> phase # "handled"
  /\ call.cmd \in {"none", request.cmd}

(* What a client was told is stored is what the server holds, index by      *)
(* index, whatever was overwritten, refused or lost in between              *)
(* (defJntPosition and defCartPosition).                                    *)
ClientsKnowTheStore ==
  phase = "idle" => \A s \in Stores :
    /\ DOMAIN defined[s] = DOMAIN points[s]
    /\ \A i \in DOMAIN points[s] : defined[s][i] = points[s][i]

(* A motion that reaches the controller goes to the points its client named *)
(* as the clients last stored them, its joints and its pose one point       *)
(* (MoveJ, MoveL, SplinePTP, NewSplinePoint, and MoveC to Cartesian points; *)
(* for MoveC to joint points see ArcsToNamedPoints).                        *)
Named(s, i) ==
  IF s = "JNT" THEN ByJoints(defined[s][i]) ELSE ByPose(defined[s][i])

Reaches(i) ==
  LET ref == request.args[i]
  IN /\ ref.kind \in Motions[request.cmd].stores
     /\ ref.val \in DOMAIN defined[ref.kind]
     /\ call.to[i] = Named(ref.kind, ref.val)

MovesToNamedPoint ==
  call.cmd \in DOMAIN Motions =>
    \A i \in 1..Motions[call.cmd].points :
      Reaches(i) \/ (call.cmd = "MoveC" /\ request.args[i].kind = "JNT")

(* The same of every arc: MoveC takes two JNT points or two CART points     *)
(* (the comment at command_server.cpp:1751).                                *)
ArcsToNamedPoints == call.cmd = "MoveC" => Reaches(1) /\ Reaches(2)

(* A request with the arguments a command takes gets each node parameter    *)
(* into the place the SDK expects it in, behind the client's arguments      *)
(* (SetToolCoord, SetAnticollision, MoveGripper, SetDO, SetAO and others),  *)
(* except gripper_maxtime and gripper_block: MoveGripper appends them and   *)
(* passes 30000 and 1 whatever they say (command_server.cpp:1151-1153).     *)
Slot ==
  [SetToolCoord |-> [toolcoord_type |-> 8, toolcoord_install |-> 9],
   SetToolList |-> [toolcoord_type |-> 8, toolcoord_install |-> 9],
   SetAnticollision |-> [collision_mode |-> 1, collision_config |-> 8],
   MoveGripper |-> [gripper_vel |-> 3, gripper_force |-> 4,
                    gripper_maxtime |-> 5, gripper_block |-> 6],
   SetDO |-> [DO_smooth |-> 3, DO_block |-> 4],
   SetToolDO |-> [DO_smooth |-> 3, DO_block |-> 4],
   SetAuxDO |-> [DO_smooth |-> 3, DO_block |-> 4],
   SetAO |-> [AO_block |-> 3], SetToolAO |-> [AO_block |-> 3],
   SetAuxAO |-> [AO_block |-> 3]]

Ignored == {"gripper_maxtime", "gripper_block"}

Expected(p) ==
  CASE p = "gripper_maxtime" -> Number(30000)
    [] p = "gripper_block" -> Number(1)
    [] OTHER -> Param(p)

Supplied(c) == Len(Table[c]) - Cardinality(DOMAIN Slot[c] \ Ignored)

ParametersInSlots ==
  (call.cmd \in DOMAIN Slot /\ Len(request.args) = Supplied(call.cmd)) =>
    \A p \in DOMAIN Slot[call.cmd] : call.args[Slot[call.cmd][p]] = Expected(p)

(* Stray memory kills the process, reaches the SDK, or is answered by a     *)
(* handler that calls no SDK function, only for a request with fewer        *)
(* arguments than its command takes or with a name longer than the array it *)
(* is copied into, for a GET of no stored point, and for                    *)
(* GetWeldingBreakOffState; a name that goes through an array may always be *)
(* followed by what lay there, since no handler terminates it               *)
(* (LoadTrajectoryJ, GetRobotTeachingPoint, the TPD commands and others).   *)
(* What a getter answers when its SDK call fails is not modelled.           *)
CopiesName(cmd, i) ==
  cmd \in Forwarded /\ i \in DOMAIN Table[cmd] /\ Table[cmd][i] = "buffer"

Stray ==
  \/ phase = "dead"
  \/ reply.tag = "garbage"
  \/ \E i \in DOMAIN call.args :
       \/ call.args[i].kind = "garbage"
       \/ call.args[i].kind = "smeared" /\ ~CopiesName(call.cmd, i)

TooShort(r) ==
  CASE r.cmd \in DOMAIN Motions ->
         LET motion == Motions[r.cmd]
             n == Len(r.args) - motion.points
         IN n < motion.numbers \/ n \in motion.numbers + 1 .. motion.numbers + motion.axes - 1
    [] r.cmd \in Counted -> Len(Full(r)) < Len(Kinds(r.cmd, Full(r)))
    [] r.cmd \in Forwarded \ Counted -> Len(Full(r)) < Len(Table[r.cmd])
    [] OTHER -> FALSE

NameTooLong(r) ==
  /\ r.cmd \in Forwarded
  /\ \E i \in DOMAIN r.args :
       TooLong(r.args[i]) /\ (CopiesName(r.cmd, i) \/ Table[r.cmd] = Name)

UndefinedGet(r) ==
  /\ r.cmd = "GET"
  /\ ~\E s \in Stores : \E i \in DOMAIN points[s] : r.args = <<Ref(s, 0), Number(i)>>

StrayHasACause ==
  Stray => \/ TooShort(request)
           \/ NameTooLong(request)
           \/ UndefinedGet(request)
           \/ request.cmd = "GetWeldingBreakOffState"
=============================================================================
