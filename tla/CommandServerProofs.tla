------------------------ MODULE CommandServerProofs ------------------------
(***************************************************************************)
(* The command server, proved for every set of requests.                   *)
(*                                                                         *)
(* Stored points: what clients were told is stored is what the server      *)
(* holds, and motions go to the points their clients named.  While an      *)
(* answer is under way the server is ahead of the clients by the point it  *)
(* announces, so the invariant compares the stores with what clients will  *)
(* know after the answer (Learn).                                          *)
(*                                                                         *)
(* Arguments: what the table of handlers says is proved group by group;    *)
(* from it follow where node parameters stand in the list a handler        *)
(* converts, and when a handler reads beyond that list.                    *)
(***************************************************************************)
EXTENDS CommandServer, FiniteSetTheorems, TLAPS

Agree(known, held) ==
  \A s \in Stores : /\ DOMAIN known[s] = DOMAIN held[s]
                    /\ \A i \in DOMAIN held[s] : known[s][i] = held[s][i]

\* The request that stored a point had the form Define wants.
Announces ==
  /\ request.cmd \in DOMAIN StoreOf
  /\ request.args \in Seq(Argument)
  /\ Len(request.args) = 7

Tags == {"none", "refused", "stored", "result", "garbage", "point"}

TypeInv ==
  /\ phase \in {"idle", "handled", "dead"}
  /\ points \in [Stores -> Seq(Point)]
  /\ \A s \in Stores : Len(points[s]) <= MaxPoints
  /\ defined = [s \in Stores |-> defined[s]]
  /\ reply.tag \in Tags
  /\ reply.tag = "none" <=> phase # "handled"
  /\ call.cmd \in {"none", request.cmd}
  /\ reply.tag = "stored" => Announces
  /\ phase # "handled" => call = NoCall

KnownInv == TypeInv /\ Agree(Learn, points)

-----------------------------------------------------------------------------
(* Every handler but the one that stores a point leaves the stores alone.   *)

Quiet(r) ==
  /\ phase' \in {"handled", "dead"}
  /\ UNCHANGED <<points, defined>>
  /\ request' = r
  /\ reply'.tag \in Tags \ {"stored"}
  /\ reply'.tag = "none" <=> phase' # "handled"
  /\ call'.cmd \in {"none", r.cmd}
  /\ phase' = "dead" => call' = NoCall

StoresPoint(r) == r.cmd \in DOMAIN StoreOf /\ Storable(r) /\ Store(r)

LEMMA RefuseIsQuiet == ASSUME NEW r, Refuse(r) PROVE Quiet(r)
BY DEF Refuse, Handled, Refused, NoCall, Quiet, Tags

LEMMA DieIsQuiet == ASSUME NEW r, Die(r) PROVE Quiet(r)
BY DEF Die, NoReply, NoCall, Quiet, Tags

LEMMA ExecuteIsQuiet ==
  ASSUME NEW r, NEW to, NEW list, NEW kinds, Execute(r, to, list, kinds)
  PROVE  Quiet(r)
<1>1. CASE Refuse(r) BY <1>1, RefuseIsQuiet
<1>2. CASE Die(r) BY <1>2, DieIsQuiet
<1>3. CASE /\ \E args : Handled(r, Result, [cmd |-> r.cmd, to |-> to, args |-> args])
           /\ UNCHANGED points
  BY <1>3 DEF Handled, Result, Quiet, Tags
<1> QED BY <1>1, <1>2, <1>3 DEF Execute

LEMMA ReturnsNothingIsQuiet == ASSUME NEW r, ReturnsNothing(r) PROVE Quiet(r)
<1>1. CASE Die(r) BY <1>1, DieIsQuiet
<1>2. CASE Handled(r, Noise, NoCall) /\ UNCHANGED points
  BY <1>2 DEF Handled, Noise, NoCall, Quiet, Tags
<1> QED BY <1>1, <1>2 DEF ReturnsNothing

LEMMA GetIsQuiet == ASSUME NEW r, Get(r) PROVE Quiet(r)
<1>1. CASE ReturnsNothing(r) BY <1>1, ReturnsNothingIsQuiet
<1>2. CASE /\ Handled(r, Shown(points[r.args[1].kind][r.args[2].val]), NoCall)
           /\ UNCHANGED points
  BY <1>2 DEF Handled, Shown, NoCall, Quiet, Tags
<1> QED BY <1>1, <1>2 DEF Get

LEMMA AnswerLocallyIsQuiet == ASSUME NEW r, AnswerLocally(r) PROVE Quiet(r)
<1>1. CASE Refuse(r) BY <1>1, RefuseIsQuiet
<1>2. CASE ReturnsNothing(r) BY <1>2, ReturnsNothingIsQuiet
<1>3. CASE Handled(r, Result, NoCall) /\ UNCHANGED points
  BY <1>3 DEF Handled, Result, NoCall, Quiet, Tags
<1> QED BY <1>1, <1>2, <1>3 DEF AnswerLocally

\* The parts of a motion request: the points it names and what follows them.
Count(r) == Motions[r.cmd].points
RefsOf(r) == SubSeq(Elements(r), 1, Count(r))
RestOf(r) == SubSeq(Elements(r), Count(r) + 1, Len(Elements(r)))

\* The motion is carried out.
Executes(r) ==
  /\ \E s \in Motions[r.cmd].stores : \A i \in 1..Count(r) : RefsOf(r)[i].kind = s
  /\ \A i \in 1..Count(r) : RefsOf(r)[i].val \in DOMAIN points[RefsOf(r)[i].kind]
  /\ Execute(r, Targets(r.cmd, RefsOf(r)), RestOf(r), Trailing(Motions[r.cmd], RestOf(r)))

LEMMA MoveCases ==
  ASSUME NEW r, Move(r)
  PROVE  Refuse(r) \/ Die(r) \/ (r.cmd \in DOMAIN Motions /\ Executes(r))
BY DEF Move, Executes, Count, RefsOf, RestOf

LEMMA MoveIsQuiet == ASSUME NEW r, Move(r) PROVE Quiet(r)
<1>1. CASE Refuse(r) BY <1>1, RefuseIsQuiet
<1>2. CASE Die(r) BY <1>2, DieIsQuiet
<1>3. CASE Executes(r) BY <1>3, ExecuteIsQuiet DEF Executes
<1> QED BY <1>1, <1>2, <1>3, MoveCases

LEMMA HandleCases ==
  ASSUME NEW r, Handle(r)
  PROVE  Quiet(r) \/ StoresPoint(r)
<1>1. CASE Define(r) BY <1>1, RefuseIsQuiet DEF Define, StoresPoint
<1>2. CASE Get(r) BY <1>2, GetIsQuiet
<1>3. CASE Move(r) BY <1>3, MoveIsQuiet
<1>4. CASE AnswerLocally(r) BY <1>4, AnswerLocallyIsQuiet
<1>5. CASE ForwardToSDK(r) BY <1>5, ExecuteIsQuiet DEF ForwardToSDK
<1>6. CASE RefuseUnknown(r) BY <1>6, RefuseIsQuiet DEF RefuseUnknown
<1> QED BY <1>1, <1>2, <1>3, <1>4, <1>5, <1>6 DEF Handle

-----------------------------------------------------------------------------
(* The invariant.                                                           *)

LEMMA InitKnown == Init => KnownInv
<1> SUFFICES ASSUME Init PROVE KnownInv
  OBVIOUS
<1>1. TypeInv
  BY MaxPointsAssumption
  DEF Init, TypeInv, Stores, NoReply, NoCall, Tags
<1>2. Agree(Learn, points)
  BY DEF Init, Agree, Learn, NoReply
<1> QED BY <1>1, <1>2 DEF KnownInv

LEMMA QuietKnown ==
  ASSUME KnownInv, phase = "idle", NEW r, Quiet(r)
  PROVE  KnownInv'
<1>1. TypeInv'
  BY DEF KnownInv, TypeInv, Quiet
<1>2. Learn = defined /\ Learn' = defined'
  BY DEF KnownInv, TypeInv, Learn, Quiet
<1>3. Agree(Learn, points)'
  BY <1>2 DEF KnownInv, Agree, Quiet
<1> QED BY <1>1, <1>3 DEF KnownInv

\* A point read out of seven arguments is six numbers.
LEMMA PointOfType ==
  ASSUME NEW r \in Requests, Len(r.args) = 7
  PROVE  r.args \in Seq(Argument) /\ r.args[1].val \in Nat /\ PointOf(r) \in Point
<1>1. r.args \in Seq(Argument)
  BY RequestsAssumption
<1>2. \A i \in 1..7 : r.args[i] \in Argument
  BY <1>1
<1>3. \A i \in 1..7 : r.args[i].val \in Nat
  BY <1>2 DEF Argument
<1>4. \A i \in 1..6 : i + 1 \in 1..7
  OBVIOUS
<1>5. \A i \in 1..6 : r.args[i + 1].val \in Nat
  BY <1>3, <1>4
<1>6. PointOf(r) \in Point
  BY <1>5 DEF PointOf, Point
<1> QED BY <1>1, <1>3, <1>6

\* Store new is old with a point put at index.
WithPointAs(old, index, point, new) ==
  /\ new \in Seq(Point)
  /\ Len(new) \in {Len(old), index}
  /\ DOMAIN new = DOMAIN old \union {index}
  /\ \A i \in DOMAIN old \union {index} : new[i] = IF i = index THEN point ELSE old[i]

LEMMA WithPointFacts ==
  ASSUME NEW store \in Seq(Point), NEW index \in Nat, NEW point \in Point,
         MayDefine(index, Len(store))
  PROVE  WithPointAs(store, index, point, WithPoint(store, index, point))
<1>1. CASE index <= Len(store)
  <2>1. index \in 1..Len(store) /\ DOMAIN store = 1..Len(store)
    BY <1>1 DEF MayDefine
  <2>2. WithPoint(store, index, point) = [i \in 1..Len(store) |-> IF i = index THEN point ELSE store[i]]
    BY <1>1, <2>1 DEF WithPoint
  <2>3. [i \in 1..Len(store) |-> IF i = index THEN point ELSE store[i]] \in Seq(Point)
    BY <2>1
  <2>4. Len([i \in 1..Len(store) |-> IF i = index THEN point ELSE store[i]]) = Len(store)
    BY <2>1
  <2>5. DOMAIN store \union {index} = 1..Len(store)
    BY <2>1
  <2> QED BY <2>2, <2>3, <2>4, <2>5 DEF WithPointAs
<1>2. CASE index = Len(store) + 1 BY <1>2 DEF WithPoint, MayDefine, WithPointAs
<1> QED BY <1>1, <1>2 DEF MayDefine

LEMMA StoreKnown ==
  ASSUME KnownInv, phase = "idle", NEW r \in Requests, StoresPoint(r)
  PROVE  KnownInv'
<1> DEFINE s == StoreOf[r.cmd]
           index == r.args[1].val
           new == WithPoint(points[s], index, PointOf(r))
<1>1. s \in Stores
  BY DEF StoresPoint, StoreOf, Stores
<1>2. /\ Len(r.args) = 7
      /\ MayDefine(index, Len(points[s]))
      /\ index <= MaxPoints
      /\ points' = [points EXCEPT ![s] = new]
      /\ phase' = "handled" /\ request' = r /\ reply' = Stored /\ call' = NoCall
      /\ defined' = defined
  BY DEF StoresPoint, Storable, Store, Handled
<1>3. r.args \in Seq(Argument) /\ index \in Nat /\ PointOf(r) \in Point
  BY <1>2, PointOfType
<1>4. points \in [Stores -> Seq(Point)] /\ points[s] \in Seq(Point)
  BY <1>1 DEF KnownInv, TypeInv
<1> HIDE DEF s, index
<1>5. /\ new \in Seq(Point)
      /\ Len(new) \in {Len(points[s]), index}
      /\ DOMAIN new = DOMAIN points[s] \union {index}
      /\ \A i \in DOMAIN points[s] \union {index} :
           new[i] = IF i = index THEN PointOf(r) ELSE points[s][i]
  <2>1. MayDefine(index, Len(points[s]))
    BY <1>2
  <2>2. index \in Nat /\ PointOf(r) \in Point /\ points[s] \in Seq(Point)
    BY <1>3, <1>4
  <2>3. \A st \in Seq(Point), i \in Nat, p \in Point :
          MayDefine(i, Len(st)) => WithPointAs(st, i, p, WithPoint(st, i, p))
    BY WithPointFacts
  <2>4. WithPointAs(points[s], index, PointOf(r), new)
    BY <2>1, <2>2, <2>3
  <2> QED BY <2>4 DEF WithPointAs
<1> HIDE DEF new
<1>6. points' \in [Stores -> Seq(Point)] /\ points'[s] = new
      /\ \A t \in Stores \ {s} : points'[t] = points[t]
  BY <1>1, <1>2, <1>4, <1>5
<1>7. \A t \in Stores : Len(points'[t]) <= MaxPoints
  <2>1. Len(points[s]) <= MaxPoints
    BY <1>1 DEF KnownInv, TypeInv
  <2>2. Len(points'[s]) <= MaxPoints
    BY <1>2, <1>5, <1>6, <2>1
  <2>3. \A t \in Stores \ {s} : Len(points'[t]) <= MaxPoints
    BY <1>6 DEF KnownInv, TypeInv
  <2> QED BY <2>2, <2>3
<1>8. Announces'
  BY <1>2, <1>3 DEF Announces, StoresPoint
<1>9. TypeInv'
  BY <1>2, <1>6, <1>7, <1>8 DEF KnownInv, TypeInv, Stored, NoCall, Tags
<1>10. Learn = defined
  BY DEF KnownInv, TypeInv, Learn
<1>11. \A t \in Stores : /\ DOMAIN defined[t] = DOMAIN points[t]
                         /\ \A i \in DOMAIN points[t] : defined[t][i] = points[t][i]
  BY <1>10 DEF KnownInv, Agree
<1> DEFINE learned == [i \in DOMAIN defined[s] \union {index} |->
                        IF i = index THEN PointOf(r) ELSE defined[s][i]]
<1>12. Learn' = [defined EXCEPT ![s] = learned]
  BY <1>2 DEF Learn, Stored, s, index
<1>13. defined = [t \in Stores |-> defined[t]]
  BY DEF KnownInv, TypeInv
<1>14. Learn'[s] = learned /\ \A t \in Stores \ {s} : Learn'[t] = defined[t]
  BY <1>1, <1>12, <1>13
<1>15. DOMAIN learned = DOMAIN new /\ \A i \in DOMAIN new : learned[i] = new[i]
  BY <1>1, <1>5, <1>11
<1> HIDE DEF learned
<1>16. Agree(Learn', points')
  BY <1>6, <1>11, <1>14, <1>15 DEF Agree
<1> QED BY <1>9, <1>16 DEF KnownInv, Agree

LEMMA NextKnown == KnownInv /\ [Next]_vars => KnownInv'
<1> SUFFICES ASSUME KnownInv, [Next]_vars PROVE KnownInv'
  OBVIOUS
<1>1. ASSUME NEW r \in Requests, Handle(r) PROVE KnownInv'
  <2>1. phase = "idle"
    BY <1>1 DEF Handle
  <2> QED BY <1>1, <2>1, HandleCases, QuietKnown, StoreKnown
<1>2. CASE Answer
  <2>1. TypeInv'
    <3>1. Learn = [s \in Stores |-> Learn[s]]
      BY DEF KnownInv, TypeInv, Learn
    <3> QED BY <1>2, <3>1 DEF Answer, KnownInv, TypeInv, NoReply, NoRequest, NoCall, Tags
  <2>2. Learn' = defined' /\ defined' = Learn /\ points' = points
    BY <1>2 DEF Answer, Learn, NoReply
  <2> QED BY <2>1, <2>2 DEF KnownInv, Agree
<1>3. CASE Restart
  <2>1. reply' = reply /\ reply.tag # "stored"
    BY <1>3 DEF Restart, KnownInv, TypeInv
  <2>2. TypeInv'
    BY <1>3, MaxPointsAssumption DEF Restart, KnownInv, TypeInv, NoRequest, NoCall, Tags
  <2>3. Learn' = defined' /\ defined' = points'
    BY <1>3, <2>1 DEF Restart, Learn
  <2> QED BY <2>2, <2>3 DEF KnownInv, Agree
<1>4. CASE UNCHANGED vars
  <2>1. TypeInv' /\ Learn' = Learn /\ points' = points
    BY <1>4 DEF vars, KnownInv, TypeInv, Announces, Learn, PointOf
  <2> QED BY <2>1 DEF KnownInv, Agree
<1> QED BY <1>1, <1>2, <1>3, <1>4 DEF Next

\* Every variable of the command server keeps its type, and its stores their
\* bound.
THEOREM TypeCorrect == Spec => []TypeOK
<1>1. KnownInv => TypeOK
  BY DEF KnownInv, TypeInv, TypeOK, Tags, Point
<1> QED BY <1>1, InitKnown, NextKnown, PTL DEF Spec

\* Between two requests, clients and the server agree on every stored point.
THEOREM StoresKnown == Spec => []ClientsKnowTheStore
<1>1. KnownInv => ClientsKnowTheStore
  <2> SUFFICES ASSUME KnownInv, phase = "idle" PROVE Agree(defined, points)
    BY DEF ClientsKnowTheStore, Agree
  <2>1. Learn = defined
    BY DEF KnownInv, TypeInv, Learn
  <2> QED BY <2>1 DEF KnownInv
<1> QED BY <1>1, InitKnown, NextKnown, PTL DEF Spec

-----------------------------------------------------------------------------
(* Motions go to the points their clients named.                            *)

LEMMA NoMotion == NoCall.cmd \notin DOMAIN Motions
BY DEF NoCall, Motions

LEMMA MotionFacts ==
  ASSUME NEW cmd \in DOMAIN Motions
  PROVE  Motions[cmd].stores \subseteq Stores /\ Motions[cmd].points \in {1, 2}
BY DEF Motions, Single, Stores

\* The points a handler finds are the arguments of the client.
LEMMA NamedArguments ==
  ASSUME NEW r, r.cmd \in DOMAIN Motions, Executes(r), NEW i \in 1..Count(r)
  PROVE  /\ RefsOf(r)[i] = r.args[i]
         /\ r.args[i].kind \in Motions[r.cmd].stores
         /\ r.args[i].val \in DOMAIN points[r.args[i].kind]
<1>1. Count(r) \in {1, 2} /\ Motions[r.cmd].stores \subseteq Stores
  BY MotionFacts DEF Count
<1>2. \A j \in 1..Count(r) : RefsOf(r)[j] = Elements(r)[j]
  BY <1>1 DEF RefsOf
<1>3. PICK s \in Motions[r.cmd].stores : \A j \in 1..Count(r) : RefsOf(r)[j].kind = s
  BY DEF Executes
<1>4. r.args # <<>>
  <2> SUFFICES ASSUME r.args = <<>> PROVE FALSE
    OBVIOUS
  <2>1. RefsOf(r)[1] = Word
    BY <1>1, <1>2 DEF Elements
  <2>2. s = "word"
    BY <1>1, <1>3, <2>1 DEF Word
  <2> QED BY <1>1, <1>3, <2>2 DEF Stores
<1>5. Elements(r) = r.args
  BY <1>4 DEF Elements
<1> QED BY <1>2, <1>3, <1>5 DEF Executes

LEMMA MotionReaches ==
  ASSUME KnownInv, phase = "idle", NEW r, r.cmd \in DOMAIN Motions, Executes(r),
         request' = r, call'.to = Targets(r.cmd, RefsOf(r)), defined' = defined,
         NEW i \in 1..Count(r), ~(r.cmd = "MoveC" /\ r.args[i].kind = "JNT")
  PROVE  Reaches(i)'
<1> DEFINE k == r.args[i].kind
           v == r.args[i].val
<1>1. /\ RefsOf(r)[i] = r.args[i]
      /\ k \in Motions[r.cmd].stores
      /\ v \in DOMAIN points[k]
  BY NamedArguments
<1>2. k \in {"JNT", "CART"}
  BY <1>1, MotionFacts DEF Stores
<1>3. Learn = defined
  BY DEF KnownInv, TypeInv, Learn
<1>4. v \in DOMAIN defined[k] /\ defined[k][v] = points[k][v]
  BY <1>1, <1>2, <1>3 DEF KnownInv, Agree, Stores
<1>5. i \in DOMAIN RefsOf(r)
  BY MotionFacts DEF RefsOf, Count
<1>6. call'.to[i] = Target(r.cmd, r.args[i])
  BY <1>1, <1>5 DEF Targets
<1>7. CASE k = "CART"
  <2>1. Target(r.cmd, r.args[i]) = ByPose(points[k][v])
    BY <1>7 DEF Target
  <2>2. Named(k, v)' = ByPose(defined[k][v])
    BY <1>7 DEF Named
  <2> QED BY <1>1, <1>4, <1>6, <2>1, <2>2 DEF Reaches
<1>8. CASE k = "JNT"
  <2>1. Target(r.cmd, r.args[i]) = ByJoints(points[k][v])
    BY <1>8 DEF Target
  <2>2. Named(k, v)' = ByJoints(defined[k][v])
    BY <1>8 DEF Named
  <2> QED BY <1>1, <1>4, <1>6, <2>1, <2>2 DEF Reaches
<1> QED BY <1>2, <1>7, <1>8

\* What a handler that is not carrying out a motion leaves behind.
LEMMA OtherCalls ==
  ASSUME call' = NoCall \/ call'.cmd \notin DOMAIN Motions
  PROVE  MovesToNamedPoint'
BY NoMotion DEF MovesToNamedPoint

LEMMA ExecuteCalls ==
  ASSUME NEW r, NEW to, NEW list, NEW kinds, Execute(r, to, list, kinds)
  PROVE  \/ call' = NoCall
         \/ /\ call'.cmd = r.cmd /\ call'.to = to
            /\ request' = r /\ defined' = defined
BY DEF Execute, Refuse, Die, Handled

LEMMA MoveGoesToNamedPoint ==
  ASSUME KnownInv, phase = "idle", NEW r, Move(r)
  PROVE  MovesToNamedPoint'
<1>1. CASE Refuse(r) BY <1>1, OtherCalls DEF Refuse, Handled
<1>2. CASE Die(r) BY <1>2, OtherCalls DEF Die
<1>3. CASE r.cmd \in DOMAIN Motions /\ Executes(r)
  <2>1. CASE call' = NoCall BY <2>1, OtherCalls
  <2>2. CASE /\ call'.cmd = r.cmd /\ call'.to = Targets(r.cmd, RefsOf(r))
             /\ request' = r /\ defined' = defined
    <3> SUFFICES ASSUME NEW i \in 1..Count(r)
                 PROVE  Reaches(i)' \/ (r.cmd = "MoveC" /\ r.args[i].kind = "JNT")
      BY <2>2 DEF MovesToNamedPoint, Count
    <3> QED BY <1>3, <2>2, MotionReaches
  <2> QED BY <1>3, <2>1, <2>2, ExecuteCalls DEF Executes
<1> QED BY <1>1, <1>2, <1>3, MoveCases

LEMMA HandleGoesToNamedPoint ==
  ASSUME KnownInv, NEW r, Handle(r)
  PROVE  MovesToNamedPoint'
<1>1. phase = "idle"
  BY DEF Handle
<1>2. CASE Define(r)
  BY <1>2, OtherCalls DEF Define, Store, Refuse, Handled
<1>3. CASE Get(r)
  BY <1>3, OtherCalls DEF Get, ReturnsNothing, Die, Handled
<1>4. CASE Move(r)
  BY <1>1, <1>4, MoveGoesToNamedPoint
<1>5. CASE AnswerLocally(r)
  BY <1>5, OtherCalls DEF AnswerLocally, ReturnsNothing, Refuse, Die, Handled
<1>6. CASE ForwardToSDK(r)
  <2>1. r.cmd \notin DOMAIN Motions
    BY <1>6 DEF ForwardToSDK, Forwarded, Special
  <2>2. call' = NoCall \/ call'.cmd = r.cmd
    BY <1>6, ExecuteCalls DEF ForwardToSDK
  <2> QED BY <2>1, <2>2, OtherCalls
<1>7. CASE RefuseUnknown(r)
  BY <1>7, OtherCalls DEF RefuseUnknown, Refuse, Handled
<1> QED BY <1>2, <1>3, <1>4, <1>5, <1>6, <1>7 DEF Handle

\* A motion that reaches the controller goes to the points its client named, as
\* the clients last stored them, whatever requests and restarts came between.
THEOREM NamedPoints == Spec => []MovesToNamedPoint
<1> DEFINE Inv == KnownInv /\ MovesToNamedPoint
<1>1. Init => Inv
  <2> SUFFICES ASSUME Init PROVE MovesToNamedPoint
    BY InitKnown
  <2> QED BY NoMotion DEF Init, MovesToNamedPoint
<1>2. Inv /\ [Next]_vars => Inv'
  <2> SUFFICES ASSUME Inv, [Next]_vars PROVE MovesToNamedPoint'
    BY NextKnown
  <2>1. ASSUME NEW r \in Requests, Handle(r) PROVE MovesToNamedPoint'
    BY <2>1, HandleGoesToNamedPoint
  <2>2. CASE Answer
    BY <2>2, NoMotion DEF Answer, MovesToNamedPoint
  <2>3. CASE Restart
    BY <2>3, NoMotion DEF Restart, KnownInv, TypeInv, MovesToNamedPoint
  <2>4. CASE UNCHANGED vars
    BY <2>4 DEF vars, MovesToNamedPoint, Reaches, Named
  <2> QED BY <2>1, <2>2, <2>3, <2>4 DEF Next
<1> QED BY <1>1, <1>2, PTL DEF Spec

-----------------------------------------------------------------------------
(* What the table says: every handler takes a list of kinds, and the        *)
(* handlers that get node parameters take the numbers below.                *)

Kind == {"number", "string", "buffer", "rest", "name"}
KindList == Seq(Kind)

LEMMA Lists ==
  /\ None \in KindList /\ All \in KindList /\ Name \in KindList
  /\ \A n \in Nat : Num(n) \in KindList /\ Str(n) \in KindList /\ Buf(n) \in KindList
<1>1. None \in KindList /\ All \in KindList /\ Name \in KindList
  BY DEF None, All, Name, Kind, KindList
<1>2. \A n \in Nat : Num(n) \in KindList
  BY DEF Num, Kind, KindList
<1>3. \A n \in Nat : Str(n) \in KindList
  BY DEF Str, Kind, KindList
<1>4. \A n \in Nat : Buf(n) \in KindList
  BY DEF Buf, Kind, KindList
<1> QED BY <1>1, <1>2, <1>3, <1>4

LEMMA NumLength == \A n \in Nat : Len(Num(n)) = n
BY DEF Num

LEMMA MixedLists ==
  /\ Num(1) \o Str(1) \in KindList
  /\ Num(2) \o Str(1) \in KindList
  /\ Num(2) \o Str(12) \in KindList
  /\ Num(1) \o Buf(1) \in KindList
  /\ Num(1) \o Buf(4) \in KindList
  /\ Str(1) \o Num(1) \in KindList
  /\ Str(1) \o Num(3) \in KindList
  /\ Str(1) \o Num(6) \in KindList
  /\ Str(1) \o Num(9) \in KindList
  /\ Buf(1) \o Num(1) \in KindList
  /\ Buf(1) \o Num(2) \in KindList
  /\ Buf(1) \o Num(8) \in KindList
  /\ Num(1) \o Str(1) \o Num(1) \in KindList
  /\ Num(1) \o Buf(1) \o Num(3) \in KindList
<1>1. ASSUME NEW a \in KindList, NEW b \in KindList PROVE a \o b \in KindList
  BY DEF KindList
<1>2. /\ Num(1) \in KindList /\ Num(2) \in KindList /\ Num(3) \in KindList
      /\ Num(6) \in KindList /\ Num(8) \in KindList /\ Num(9) \in KindList
      /\ Str(1) \in KindList /\ Str(12) \in KindList
      /\ Buf(1) \in KindList /\ Buf(4) \in KindList
  BY Lists
<1>3. Num(1) \o Str(1) \in KindList /\ Num(1) \o Buf(1) \in KindList
  BY <1>1, <1>2
<1> QED BY <1>1, <1>2, <1>3

SlotNames == {"SetToolCoord", "SetToolList", "SetAnticollision", "MoveGripper",
              "SetDO", "SetToolDO", "SetAuxDO", "SetAO", "SetToolAO", "SetAuxAO"}

Width(name) ==
  CASE name \in {"SetToolCoord", "SetToolList"} -> 9
    [] name = "SetAnticollision" -> 8
    [] name \in {"MoveGripper", "SetDO", "SetToolDO", "SetAuxDO"} -> 4
    [] name \in {"SetAO", "SetToolAO", "SetAuxAO"} -> 3

Regular(h) ==
  /\ h[2] \in KindList
  /\ h[1] \in SlotNames => h[2] = Num(Width(h[1]))

LEMMA HandlersRegular == \A h \in Handlers : Regular(h)
<1> USE DEF Regular, SlotNames, Takes
<1>1. \A h \in CollisionAndFriction : Regular(h)
  BY Lists DEF CollisionAndFriction
<1>2. \A h \in ExtAxisSync : Regular(h)
  BY Lists DEF ExtAxisSync
<1>3. \A h \in Jogging : Regular(h)
  BY Lists DEF Jogging
<1>4. \A h \in CircleAndServoJ : Regular(h)
  BY Lists DEF CircleAndServoJ
<1>5. \A h \in SplineEnds : Regular(h)
  BY Lists DEF SplineEnds
<1>6. \A h \in StopOffsetAndAuxServo : Regular(h)
  BY Lists DEF StopOffsetAndAuxServo
<1>7. \A h \in AuxServoAndScripts : Regular(h)
  BY Lists DEF AuxServoAndScripts
<1>8. \A h \in StatusAndTractor : Regular(h)
  BY Lists DEF StatusAndTractor
<1>9. \A h \in TractorAndTrajectoryJ : Regular(h)
  <2>1. None \in KindList /\ All \in KindList /\ Name \in KindList /\ Num(2) \in KindList /\
        Str(2) \in KindList /\ Buf(1) \o Num(1) \in KindList
    BY Lists, MixedLists
  <2> QED BY <2>1 DEF TractorAndTrajectoryJ
<1>10. \A h \in LuaFilesAndArcBreak : Regular(h)
  BY Lists DEF LuaFilesAndArcBreak
<1>11. \A h \in ArcBreakAndInputs : Regular(h)
  BY Lists, MixedLists DEF ArcBreakAndInputs
<1>12. \A h \in InputsAndOutputLevels : Regular(h)
  BY Lists DEF InputsAndOutputLevels
<1>13. \A h \in OutputAndStandardLevels : Regular(h)
  BY Lists DEF OutputAndStandardLevels
<1>14. \A h \in ExtDeviceSetup : Regular(h)
  <2>1. None \in KindList /\ Num(1) \in KindList /\ Str(2) \in KindList /\
        Str(1) \o Num(9) \in KindList
    BY Lists, MixedLists
  <2> QED BY <2>1 DEF ExtDeviceSetup
<1>15. \A h \in WeldRelationAndWire : Regular(h)
  BY Lists DEF WeldRelationAndWire
<1>16. \A h \in WireAndArcTracing : Regular(h)
  BY Lists DEF WireAndArcTracing
<1>17. \A h \in WeldSignals : Regular(h)
  <2>1. Num(1) \in KindList /\ Num(2) \in KindList /\ Str(1) \in KindList
     /\ Num(1) \o Str(1) \in KindList
    BY Lists, MixedLists
  <2> QED BY <2>1 DEF WeldSignals
<1>18. \A h \in ServoProtocolParameters : Regular(h)
  BY Lists DEF ServoProtocolParameters
<1>19. \A h \in ServoAccAndDevices : Regular(h)
  BY Lists DEF ServoAccAndDevices
<1>20. \A h \in DigitalAndAnalogReads : Regular(h)
  BY Lists DEF DigitalAndAnalogReads
<1>21. \A h \in SpiralAndServoCart : Regular(h)
  BY Lists DEF SpiralAndServoCart
<1>22. \A h \in PauseAndAnalogWaits : Regular(h)
  BY Lists DEF PauseAndAnalogWaits
<1>23. \A h \in FramePointsAndLimits : Regular(h)
  BY Lists DEF FramePointsAndLimits
<1>24. \A h \in ActualJointsAndSpeeds : Regular(h)
  BY Lists DEF ActualJointsAndSpeeds
<1>25. \A h \in PosesAndInverseKin : Regular(h)
  BY Lists DEF PosesAndInverseKin
<1>26. \A h \in KinematicsAndPayload : Regular(h)
  BY Lists DEF KinematicsAndPayload
<1>27. \A h \in SoftLimitsAndTeaching : Regular(h)
  <2>1. None \in KindList /\ Buf(1) \in KindList /\ Num(1) \in KindList /\
        Num(1) \o Buf(1) \o Num(3) \in KindList
    BY Lists, MixedLists
  <2> QED BY <2>1 DEF SoftLimitsAndTeaching
<1>28. \A h \in TpdAndTrajectoryForce : Regular(h)
  <2>1. None \in KindList /\ Buf(1) \in KindList /\ Num(1) \in KindList /\
        Num(6) \in KindList /\ Buf(1) \o Num(2) \in KindList /\
        Num(1) \o Buf(1) \o Num(3) \in KindList
    BY Lists, MixedLists
  <2> QED BY <2>1 DEF TpdAndTrajectoryForce
<1>29. \A h \in TrajectoryForceAndPrograms : Regular(h)
  <2>1. None \in KindList /\ Buf(1) \in KindList /\ Num(1) \in KindList /\
        Num(1) \o Buf(1) \in KindList
    BY Lists, MixedLists
  <2> QED BY <2>1 DEF TrajectoryForceAndPrograms
<1>30. \A h \in ProgramStateAndGripper : Regular(h)
  BY Lists DEF ProgramStateAndGripper
<1>31. \A h \in GripperStateAndForceSensor : Regular(h)
  BY Lists DEF GripperStateAndForceSensor
<1>32. \A h \in ForceSensorIdentification : Regular(h)
  BY Lists DEF ForceSensorIdentification
<1>33. \A h \in ForceOriginAndGuard : Regular(h)
  BY Lists DEF ForceOriginAndGuard
<1>34. \A h \in ForceControlAndSpiral : Regular(h)
  BY Lists DEF ForceControlAndSpiral
<1>35. \A h \in ForceInsertion : Regular(h)
  BY Lists DEF ForceInsertion
<1>36. \A h \in LoadIdentifyAndConveyor : Regular(h)
  BY Lists DEF LoadIdentifyAndConveyor
<1>37. \A h \in ConveyorAndTrack : Regular(h)
  <2>1. None \in KindList /\ Buf(1) \in KindList /\ Num(3) \in KindList /\
        Num(9) \in KindList /\ Buf(1) \o Num(8) \in KindList /\
        Num(1) \o Buf(4) \in KindList
    BY Lists, MixedLists
  <2> QED BY <2>1 DEF ConveyorAndTrack
<1>38. \A h \in SafetyVersionsAndPointTables : Regular(h)
  BY Lists DEF SafetyVersionsAndPointTables
<1>39. \A h \in WeaveParameters : Regular(h)
  BY Lists DEF WeaveParameters
<1>40. \A h \in SegmentWeldAndLogger : Regular(h)
  <2>1. Num(1) \in KindList /\ Num(49) \in KindList /\
        Num(1) \o Str(1) \o Num(1) \in KindList
    BY Lists, MixedLists
  <2> QED BY <2>1 DEF SegmentWeldAndLogger
<1>41. \A h \in MovingOutputsAndAuxWaits : Regular(h)
  BY Lists DEF MovingOutputsAndAuxWaits
<1>42. \A h \in AuxReadsAndPositioner : Regular(h)
  BY Lists DEF AuxReadsAndPositioner
<1>43. \A h \in ExtSyncArcAndWireSearch : Regular(h)
  BY Lists DEF ExtSyncArcAndWireSearch
<1>44. \A h \in WireOffsetAndArcTrace : Regular(h)
  <2>1. Num(1) \in KindList /\ Str(1) \in KindList /\ Num(19) \in KindList
     /\ Str(1) \o Num(6) \in KindList /\ Num(2) \o Str(12) \in KindList
    BY Lists, MixedLists
  <2> QED BY <2>1 DEF WireOffsetAndArcTrace
<1>45. \A h \in ForceDrag : Regular(h)
  BY Lists DEF ForceDrag
<1>46. \A h \in SensorPayloadAndSegments : Regular(h)
  BY Lists DEF SensorPayloadAndSegments
<1>47. \A h \in AxleSensorAndOutputReset : Regular(h)
  BY Lists DEF AxleSensorAndOutputReset
<1>48. \A h \in WeaveSimulationAndCollision : Regular(h)
  BY Lists DEF WeaveSimulationAndCollision
<1>49. \A h \in ServoTorqueAndSampling : Regular(h)
  BY Lists DEF ServoTorqueAndSampling
<1>50. \A h \in MultilayerAndAxle : Regular(h)
  <2>1. None \in KindList /\ Num(1) \in KindList /\ Num(7) \in KindList /\
        Num(12) \in KindList /\ Str(1) \o Num(1) \in KindList
    BY Lists, MixedLists
  <2> QED BY <2>1 DEF MultilayerAndAxle
<1>51. \A h \in AxleLuaEnabling : Regular(h)
  BY Lists DEF AxleLuaEnabling
<1>52. \A h \in AxleLuaFiles : Regular(h)
  <2>1. None \in KindList /\ Num(1) \in KindList /\ Num(2) \in KindList /\
        Num(4) \in KindList /\ Str(1) \in KindList /\
        Num(2) \o Str(1) \in KindList
    BY Lists, MixedLists
  <2> QED BY <2>1 DEF AxleLuaFiles
<1>53. \A h \in PlanningAndLaserRecord : Regular(h)
  BY Lists DEF PlanningAndLaserRecord
<1>54. \A h \in LaserTracking : Regular(h)
  <2>1. None \in KindList /\ Num(1) \in KindList /\ Num(2) \in KindList /\
        Num(5) \in KindList /\ Num(7) \in KindList /\
        Str(1) \o Num(1) \in KindList
    BY Lists, MixedLists
  <2> QED BY <2>1 DEF LaserTracking
<1>55. \A h \in LaserReplayAndSeam : Regular(h)
  BY Lists DEF LaserReplayAndSeam
<1>56. \A h \in SeamAndCustomCollision : Regular(h)
  <2>1. None \in KindList /\ Num(4) \in KindList /\ Num(7) \in KindList /\
        Num(14) \in KindList /\ Buf(1) \o Num(8) \in KindList
    BY Lists, MixedLists
  <2> QED BY <2>1 DEF SeamAndCustomCollision
<1>57. \A h \in SmoothingAndLogs : Regular(h)
  BY Lists DEF SmoothingAndLogs
<1>58. \A h \in GradualWeldAndFocus : Regular(h)
  BY Lists DEF GradualWeldAndFocus
<1>59. \A h \in FocusAndUpgrades : Regular(h)
  <2>1. None \in KindList /\ Num(1) \in KindList /\ Num(3) \in KindList /\
        Str(1) \in KindList /\ Num(1) \o Str(1) \in KindList
    BY Lists, MixedLists
  <2> QED BY <2>1 DEF FocusAndUpgrades
<1>60. \A h \in LaserPointsAndFieldBus : Regular(h)
  BY Lists DEF LaserPointsAndFieldBus
<1>61. \A h \in FieldBusAndSucker : Regular(h)
  BY Lists DEF FieldBusAndSucker
<1>62. \A h \in SuckerImpedanceAndFrames : Regular(h)
  BY Lists DEF SuckerImpedanceAndFrames
<1>63. \A h \in FramesAndKernel : Regular(h)
  BY Lists DEF FramesAndKernel
<1>64. \A h \in CustomWeave : Regular(h)
  BY Lists DEF CustomWeave
<1>65. \A h \in QueueAndFeedForward : Regular(h)
  BY Lists DEF QueueAndFeedForward
<1>66. \A h \in IntersectLineStart : Regular(h)
  BY Lists DEF IntersectLineStart
<1>67. \A h \in IntersectLineAndHysteresis : Regular(h)
  BY Lists DEF IntersectLineAndHysteresis
<1>68. \A h \in AdmittanceAndTcp : Regular(h)
  BY Lists DEF AdmittanceAndTcp
<1>69. \A h \in TcpRecordAndAxleGenCom : Regular(h)
  BY Lists DEF TcpRecordAndAxleGenCom
<1>70. \A h \in ComStopAndTpdStart : Regular(h)
  <2>1. None \in KindList /\ Num(1) \in KindList /\ Num(3) \in KindList /\
        Num(9) \in KindList /\ Str(1) \in KindList /\
        Buf(1) \o Num(2) \in KindList
    BY Lists, MixedLists
  <2> QED BY <2>1 DEF ComStopAndTpdStart
<1>71. \A h \in ModeAndTool : Regular(h)
  BY Lists DEF Width, ModeAndTool
<1>72. \A h \in ToolListAndFrames : Regular(h)
  BY Lists DEF Width, ToolListAndFrames
<1>73. \A h \in GripperAndOutputs : Regular(h)
  BY Lists DEF Width, GripperAndOutputs
<1>74. \A h \in AuxOutputsAndExtAxes : Regular(h)
  <2>1. /\ None \in KindList /\ Num(1) \in KindList /\ Num(2) \in KindList
        /\ Num(3) \in KindList /\ Num(4) \in KindList /\ Num(5) \in KindList
    BY Lists
  <2> QED BY <2>1 DEF Width, AuxOutputsAndExtAxes
<1> HIDE DEF Regular, SlotNames, Takes
<1> QED
  BY
    <1>1, <1>2, <1>3, <1>4, <1>5, <1>6, <1>7, <1>8, <1>9, <1>10, <1>11,
       <1>12, <1>13, <1>14, <1>15, <1>16, <1>17, <1>18, <1>19, <1>20, <1>21,
       <1>22, <1>23, <1>24, <1>25, <1>26, <1>27, <1>28, <1>29, <1>30, <1>31,
       <1>32, <1>33, <1>34, <1>35, <1>36, <1>37, <1>38, <1>39, <1>40, <1>41,
       <1>42, <1>43, <1>44, <1>45, <1>46, <1>47, <1>48, <1>49, <1>50, <1>51,
       <1>52, <1>53, <1>54, <1>55, <1>56, <1>57, <1>58, <1>59, <1>60, <1>61,
       <1>62, <1>63, <1>64, <1>65, <1>66, <1>67, <1>68, <1>69, <1>70, <1>71,
       <1>72, <1>73, <1>74
     DEF Handlers

\* The kinds of a command are those of one handler of its name.
LEMMA TableFacts ==
  ASSUME NEW name \in DOMAIN Table
  PROVE  /\ Table[name] \in KindList
         /\ name \in SlotNames => Table[name] = Num(Width(name))
<1>1. \E h \in Handlers : h[1] = name
  BY DEF Table
<1> DEFINE chosen == CHOOSE h \in Handlers : h[1] = name
<1>2. chosen \in Handlers /\ chosen[1] = name
  BY <1>1
<1>3. Table[name] = chosen[2]
  BY DEF Table
<1> HIDE DEF chosen
<1> QED BY <1>2, <1>3, HandlersRegular DEF Regular

-----------------------------------------------------------------------------
(* The list a handler converts.                                             *)

ParameterNames ==
  {"toolcoord_type", "toolcoord_install", "collision_mode", "collision_config",
   "gripper_vel", "gripper_force", "gripper_maxtime", "gripper_block",
   "DO_smooth", "DO_block", "AO_block"}

Item == Argument \union {Param(p) : p \in ParameterNames}

LEMMA ItemsAreClean == \A a \in Item : a.kind \notin {"garbage", "smeared"}
<1>1. \A a \in Argument : a.kind \notin {"garbage", "smeared"}
  BY DEF Argument, Stores
<1>2. \A p : Param(p).kind \notin {"garbage", "smeared"}
  BY DEF Param
<1> QED BY <1>1, <1>2 DEF Item

LEMMA GivenFacts ==
  ASSUME NEW r \in Requests
  PROVE  /\ r.args \in Seq(Argument)
         /\ Elements(r) \in Seq(Argument)
         /\ r.args # <<>> => Elements(r) = r.args
<1>1. r.args \in Seq(Argument)
  BY RequestsAssumption
<1>2. <<Word>> \in Seq(Argument)
  BY DEF Word, Argument
<1> QED BY <1>1, <1>2 DEF Elements

LEMMA AddedFacts ==
  ASSUME NEW cmd
  PROVE  Prepended(cmd) \in Seq(Item) /\ Appended(cmd) \in Seq(Item)
<1>1. \A p \in ParameterNames : Param(p) \in Item
  BY DEF Item
<1> DEFINE P(p) == Param(p)
<1> HIDE DEF P
<1>2. \A p \in ParameterNames : P(p) \in Item
  BY <1>1 DEF P
<1>3. Prepended(cmd) \in Seq(Item)
  BY <1>1 DEF Prepended, ParameterNames
<1>4. Appended(cmd) \in Seq(Item)
  BY <1>1 DEF Appended, ParameterNames
<1> QED BY <1>3, <1>4

LEMMA FullFacts ==
  ASSUME NEW r \in Requests
  PROVE  Full(r) \in Seq(Item)
<1>1. Elements(r) \in Seq(Item)
  <2>1. Argument \subseteq Item
    BY DEF Item
  <2> QED BY <2>1, GivenFacts
<1> QED BY <1>1, AddedFacts DEF Full

-----------------------------------------------------------------------------
(* What a handler passes on of its list.                                    *)

Passed == Item \union {Smeared(a) : a \in Item} \union {Garbage}

LEMMA PlainKinds ==
  ASSUME NEW n \in Nat
  PROVE  Buffers(Num(n)) = {} /\ Num(n) # Name /\ Num(n) # All
<1>1. Buffers(Num(n)) = {}
  BY DEF Buffers, Num
<1>2. ASSUME NEW word, word # "number" PROVE Num(n) # <<word>>
  <2> SUFFICES ASSUME Num(n) = <<word>> PROVE FALSE
    OBVIOUS
  <2>1. n = 1
    BY NumLength
  <2>2. Num(n)[1] = "number"
    BY <2>1 DEF Num
  <2> QED BY <1>2, <2>2
<1> QED BY <1>1, <1>2 DEF Name, All

LEMMA TakenFacts ==
  ASSUME NEW kinds \in KindList, NEW list \in Seq(Item), NEW smeared \in SUBSET Buffers(kinds)
  PROVE  Taken(list, kinds, smeared) \in Seq(Passed)
<1>1. DOMAIN kinds = 1..Len(kinds) /\ Len(kinds) \in Nat
  BY DEF KindList
<1>2. Garbage \in Passed /\ \A a \in Item : a \in Passed /\ Smeared(a) \in Passed
  BY DEF Passed
<1>3. CASE kinds = All
  BY <1>2, <1>3 DEF Taken
<1>4. CASE kinds = Name
  <2>1. Name # All
    BY DEF Name, All
  <2> QED BY <1>2, <1>4, <2>1 DEF Taken
<1>5. CASE kinds # All /\ kinds # Name
  <2> DEFINE place(i) == IF i > Len(list) THEN Garbage
                         ELSE IF i \in smeared THEN Smeared(list[i]) ELSE list[i]
  <2>1. \A i \in 1..Len(kinds) : place(i) \in Passed
    BY <1>2
  <2>2. Taken(list, kinds, smeared) = [i \in 1..Len(kinds) |-> place(i)]
    BY <1>1, <1>5 DEF Taken
  <2> HIDE DEF place
  <2> QED BY <1>1, <2>1, <2>2
<1> QED BY <1>3, <1>4, <1>5

LEMMA FixedFacts ==
  ASSUME NEW cmd
  PROVE  /\ Fixed(cmd) \in Seq(Item)
         /\ cmd # "MoveGripper" => Fixed(cmd) = <<>>
<1>1. Number(30000) \in Item /\ Number(1) \in Item
  BY DEF Number, Item, Argument
<1> QED BY <1>1 DEF Fixed

-----------------------------------------------------------------------------
(* Stray memory is passed on only for a list that is too short or a name    *)
(* that is too long, and behind the names that are copied into an array.    *)

Clean(cmd, args) ==
  \A i \in DOMAIN args : /\ args[i].kind # "garbage"
                         /\ args[i].kind = "smeared" => CopiesName(cmd, i)

NotStray(r) ==
  /\ phase' = "handled"
  /\ request' = r
  /\ reply'.tag # "garbage"
  /\ Clean(call'.cmd, call'.args)

LEMMA NoCallIsClean == Clean(NoCall.cmd, NoCall.args)
BY DEF Clean, NoCall

LEMMA RefuseIsNotStray == ASSUME NEW r, Refuse(r) PROVE NotStray(r)
BY NoCallIsClean DEF Refuse, Handled, Refused, NotStray

\* A name too long for its array is among the elements converted.
Spills(list, kinds) ==
  \/ Overruns(list, kinds) # {}
  \/ kinds = Name /\ \E i \in DOMAIN list : TooLong(list[i])

LEMMA TakenIsClean ==
  ASSUME NEW cmd, NEW kinds \in KindList, NEW list \in Seq(Item),
         Len(list) >= Len(kinds), ~Spills(list, kinds),
         NEW smeared \in SUBSET Buffers(kinds),
         \A i \in Buffers(kinds) : CopiesName(cmd, i)
  PROVE  Clean(cmd, Taken(list, kinds, smeared))
<1>1. \A i \in DOMAIN list : list[i].kind \notin {"garbage", "smeared"}
  BY ItemsAreClean
<1>2. DOMAIN kinds = 1..Len(kinds) /\ DOMAIN list = 1..Len(list) /\ Len(kinds) \in Nat
  BY DEF KindList
<1>3. CASE Taken(list, kinds, smeared) = list
  BY <1>1, <1>3 DEF Clean
<1>4. CASE kinds # All /\ kinds # Name
  <2>1. \A i \in 1..Len(kinds) : Taken(list, kinds, smeared)[i] =
                                 IF i \in smeared THEN Smeared(list[i]) ELSE list[i]
    BY <1>2, <1>4 DEF Taken
  <2>2. DOMAIN Taken(list, kinds, smeared) = 1..Len(kinds)
    BY <1>2, <1>4 DEF Taken
  <2>3. \A i \in smeared : Smeared(list[i]).kind # "garbage" /\ CopiesName(cmd, i)
    BY DEF Smeared
  <2> QED BY <1>1, <1>2, <2>1, <2>2, <2>3 DEF Clean
<1>5. kinds \in {All, Name} => Taken(list, kinds, smeared) = list
  BY DEF Taken, Spills, All, Name
<1> QED BY <1>3, <1>4, <1>5

LEMMA CleanWithFixed ==
  ASSUME NEW cmd, NEW args \in Seq(Passed), Clean(cmd, args)
  PROVE  Clean(cmd, args \o Fixed(cmd))
<1> DEFINE fixed == Fixed(cmd)
<1>1. fixed \in Seq(Item)
  BY FixedFacts
<1>2. \A i \in DOMAIN fixed : fixed[i].kind \notin {"garbage", "smeared"}
  BY <1>1, ItemsAreClean
<1> HIDE DEF fixed
<1>3. ASSUME NEW i \in DOMAIN (args \o fixed)
      PROVE  \/ i \in DOMAIN args /\ (args \o fixed)[i] = args[i]
             \/ i - Len(args) \in DOMAIN fixed /\ (args \o fixed)[i] = fixed[i - Len(args)]
  BY <1>1
<1>4. Clean(cmd, args \o fixed)
  BY <1>2, <1>3 DEF Clean
<1> QED BY <1>4 DEF fixed

LEMMA ExecuteIsNotStray ==
  ASSUME NEW r, NEW to, NEW kinds \in KindList, NEW list \in Seq(Item),
         Len(list) >= Len(kinds), ~Spills(list, kinds),
         \A i \in Buffers(kinds) : CopiesName(r.cmd, i),
         Execute(r, to, list, kinds)
  PROVE  NotStray(r)
<1>1. Outcomes(list, kinds) \subseteq {"refused", "called"}
  <2>1. Parse(list, kinds) \in {"ok", "refused"}
    BY DEF Parse, KindList, Spills
  <2> QED BY <2>1 DEF Outcomes
<1>2. CASE Refuse(r)
  BY <1>2, RefuseIsNotStray
<1>3. ASSUME NEW smeared \in SUBSET Buffers(kinds),
             Handled(r, Result, [cmd |-> r.cmd, to |-> to,
                                 args |-> Taken(list, kinds, smeared) \o Fixed(r.cmd)])
      PROVE  NotStray(r)
  <2>1. Clean(r.cmd, Taken(list, kinds, smeared) \o Fixed(r.cmd))
    BY TakenIsClean, TakenFacts, CleanWithFixed
  <2> QED BY <1>3, <2>1 DEF Handled, Result, NotStray
<1> QED BY <1>1, <1>2, <1>3 DEF Execute

StrayAllowed(r) ==
  \/ TooShort(r)
  \/ NameTooLong(r)
  \/ UndefinedGet(r)
  \/ r.cmd = "GetWeldingBreakOffState"

\* What a handler may do: nothing stray, or what its request allows.
Safe(r) == NotStray(r) \/ (request' = r /\ points' = points /\ StrayAllowed(r))

LEMMA ExecuteIsSafe ==
  ASSUME NEW r, NEW to, NEW kinds \in KindList, NEW list \in Seq(Item),
         Len(list) < Len(kinds) => TooShort(r),
         Spills(list, kinds) => NameTooLong(r),
         \A i \in Buffers(kinds) : CopiesName(r.cmd, i),
         Execute(r, to, list, kinds)
  PROVE  Safe(r)
<1>1. CASE Len(list) >= Len(kinds) /\ ~Spills(list, kinds)
  BY <1>1, ExecuteIsNotStray DEF Safe
<1>2. CASE Len(list) < Len(kinds) \/ Spills(list, kinds)
  <2>1. request' = r /\ points' = points
    BY DEF Execute, Refuse, Die, Handled
  <2> QED BY <1>2, <2>1 DEF Safe, StrayAllowed
<1>3. Len(list) \in Nat /\ Len(kinds) \in Nat
  BY DEF KindList
<1> QED BY <1>1, <1>2, <1>3

\* A handler reads numbers, or what the table says.
LEMMA FormOfKinds ==
  ASSUME NEW cmd \in Forwarded, NEW list \in Seq(Item), Len(list) >= 1
  PROVE  /\ Kinds(cmd, list) \in KindList
         /\ \/ Kinds(cmd, list) = Table[cmd]
            \/ \E n \in Nat : Kinds(cmd, list) = Num(n)
<1>1. cmd \in DOMAIN Table
  BY DEF Forwarded
<1>2. Len(list) \in Nat /\ Table[cmd] \in KindList
  BY <1>1, TableFacts
<1>3. Announced(list) \in Nat
  <2>1. list[1] \in Item
    OBVIOUS
  <2>2. \A p : Param(p).kind # "number"
    BY DEF Param
  <2>3. list[1].kind = "number" => list[1].val \in Nat
    BY <2>1, <2>2 DEF Item, Argument
  <2> QED BY <2>3 DEF Announced
<1>4. \A c \in DOMAIN LongForm : LongForm[c] \in Nat
  BY DEF LongForm
<1>5. Kinds(cmd, list) = Table[cmd] \/ \E n \in Nat : Kinds(cmd, list) = Num(n)
  BY <1>2, <1>3, <1>4 DEF Kinds
<1> QED BY <1>2, <1>5, Lists

\* Without parameters around them, the elements are the client's.
LEMMA PlainList ==
  ASSUME NEW r \in Requests, r.cmd \notin SlotNames
  PROVE  /\ Full(r) = Elements(r)
         /\ \A i \in DOMAIN Full(r) :
              TooLong(Full(r)[i]) => i \in DOMAIN r.args /\ TooLong(r.args[i])
<1>1. Elements(r) \in Seq(Argument)
  BY GivenFacts
<1>2. Prepended(r.cmd) = <<>> /\ Appended(r.cmd) = <<>>
  BY DEF SlotNames, Prepended, Appended
<1>3. Full(r) = Elements(r)
  BY <1>1, <1>2 DEF Full
<1>4. CASE r.args = <<>>
  <2>1. Elements(r) = <<Word>> /\ ~TooLong(Word)
    BY <1>4 DEF Elements, TooLong, Word
  <2> QED BY <1>3, <2>1
<1>5. CASE r.args # <<>>
  BY <1>3, <1>5, GivenFacts
<1> QED BY <1>3, <1>4, <1>5

LEMMA KindsFacts ==
  ASSUME NEW r \in Requests, r.cmd \in Forwarded
  PROVE  /\ Kinds(r.cmd, Full(r)) \in KindList
         /\ Len(Full(r)) < Len(Kinds(r.cmd, Full(r))) => TooShort(r)
         /\ Spills(Full(r), Kinds(r.cmd, Full(r))) => NameTooLong(r)
         /\ \A i \in Buffers(Kinds(r.cmd, Full(r))) : CopiesName(r.cmd, i)
<1> DEFINE list == Full(r)
           kinds == Kinds(r.cmd, Full(r))
<1>1. r.cmd \in DOMAIN Table /\ r.cmd \notin DOMAIN Motions
  BY DEF Forwarded, Special
<1>2. list \in Seq(Item) /\ Len(list) \in Nat /\ Len(list) >= 1
  <2>1. Elements(r) \in Seq(Argument) /\ Len(Elements(r)) >= 1
    BY GivenFacts DEF Elements
  <2> QED BY <2>1, FullFacts, AddedFacts DEF Full
<1>3. kinds \in KindList /\ (kinds = Table[r.cmd] \/ \E n \in Nat : kinds = Num(n))
  BY <1>2, FormOfKinds
<1>4. Len(list) < Len(kinds) => TooShort(r)
  <2>1. CASE r.cmd \in Counted
    BY <1>1, <2>1 DEF TooShort
  <2>2. CASE r.cmd \notin Counted
    <3>1. TooShort(r) <=> Len(list) < Len(Table[r.cmd])
      BY <1>1, <2>2 DEF TooShort
    <3>2. CASE r.cmd \in DOMAIN LongForm /\ Len(list) = LongForm[r.cmd]
      <4>1. kinds = Num(LongForm[r.cmd]) /\ LongForm[r.cmd] \in Nat
        BY <3>2 DEF Kinds, LongForm
      <4> QED BY <1>2, <3>2, <4>1, NumLength
    <3>3. CASE ~(r.cmd \in DOMAIN LongForm /\ Len(list) = LongForm[r.cmd])
      <4>1. kinds = Table[r.cmd]
        BY <2>2, <3>3 DEF Kinds, Counted
      <4> QED BY <3>1, <4>1
    <3> QED BY <3>2, <3>3
  <2> QED BY <2>1, <2>2
<1>5. Buffers(kinds) # {} \/ kinds = Name => kinds = Table[r.cmd] /\ r.cmd \notin SlotNames
  <2>1. \A n \in Nat : Buffers(Num(n)) = {} /\ Num(n) # Name
    BY PlainKinds
  <2>2. r.cmd \in SlotNames => Width(r.cmd) \in Nat /\ Table[r.cmd] = Num(Width(r.cmd))
    BY <1>1, TableFacts DEF Width, SlotNames
  <2> HIDE DEF kinds
  <2> QED BY <1>3, <2>1, <2>2
<1>6. \A i \in Buffers(kinds) : CopiesName(r.cmd, i)
  BY <1>5 DEF Buffers, CopiesName
<1>7. ASSUME Spills(list, kinds) PROVE NameTooLong(r)
  <2>1. Overruns(list, kinds) # {} => Buffers(kinds) # {}
    BY DEF Overruns, Buffers
  <2>2. kinds = Table[r.cmd] /\ r.cmd \notin SlotNames
    BY <1>5, <1>7, <2>1 DEF Spills
  <2>3. \A i \in DOMAIN list : TooLong(list[i]) => i \in DOMAIN r.args /\ TooLong(r.args[i])
    BY <2>2, PlainList
  <2>4. \A i \in Overruns(list, kinds) :
          i \in DOMAIN list /\ TooLong(list[i]) /\ CopiesName(r.cmd, i)
    BY <1>2, <1>3, <1>6 DEF Overruns, Buffers, KindList
  <2> HIDE DEF list, kinds
  <2>5. CASE Overruns(list, kinds) # {}
    BY <2>3, <2>4, <2>5 DEF NameTooLong
  <2>6. CASE kinds = Name /\ \E i \in DOMAIN list : TooLong(list[i])
    BY <2>2, <2>3, <2>6 DEF NameTooLong
  <2> QED BY <1>7, <2>5, <2>6 DEF Spills
<1> QED BY <1>3, <1>4, <1>6, <1>7

LEMMA ForwardIsSafe == ASSUME NEW r \in Requests, ForwardToSDK(r) PROVE Safe(r)
<1>1. r.cmd \in Forwarded /\ Execute(r, <<>>, Full(r), Kinds(r.cmd, Full(r)))
  BY DEF ForwardToSDK
<1>2. Full(r) \in Seq(Item)
  BY FullFacts
<1> QED BY <1>1, <1>2, KindsFacts, ExecuteIsSafe

LEMMA MotionNumbers ==
  ASSUME NEW cmd \in DOMAIN Motions
  PROVE  /\ Motions[cmd].stores \subseteq Stores /\ Motions[cmd].points \in {1, 2}
         /\ Motions[cmd].numbers \in Nat \ {0} /\ Motions[cmd].axes \in Nat
BY DEF Motions, Single, Stores

LEMMA MoveIsSafe == ASSUME NEW r \in Requests, Move(r) PROVE Safe(r)
<1> DEFINE motion == Motions[r.cmd]
           given == Elements(r)
           n == motion.points
           list == RestOf(r)
<1>1. r.cmd \in DOMAIN Motions
  BY DEF Move
<1>2. /\ n \in {1, 2} /\ motion.numbers \in Nat \ {0} /\ motion.axes \in Nat
  BY <1>1, MotionNumbers
<1>3. /\ given \in Seq(Argument) /\ r.args \in Seq(Argument)
      /\ Len(given) >= Len(r.args) /\ (r.args # <<>> => given = r.args)
  BY GivenFacts DEF Elements
<1> DEFINE behind == Len(r.args) - n
<1>4. \/ behind < motion.numbers
      \/ behind \in motion.numbers + 1 .. motion.numbers + motion.axes - 1
      => TooShort(r)
  <2>1. r.cmd \notin Counted
    BY <1>1 DEF Motions, Counted
  <2>2. r.cmd \notin Forwarded
    BY <1>1 DEF Forwarded, Special
  <2> QED BY <1>1, <2>1, <2>2 DEF TooShort
<1> HIDE DEF motion, given, n
<1>5. CASE Refuse(r)
  BY <1>5, RefuseIsNotStray DEF Safe
<1>6. CASE Len(given) < n /\ Die(r)
  <2>1. TooShort(r)
    BY <1>2, <1>3, <1>4, <1>6
  <2> QED BY <1>6, <2>1 DEF Die, Safe, StrayAllowed
<1>7. CASE Len(given) >= n /\ Execute(r, Targets(r.cmd, RefsOf(r)), list, Trailing(motion, list))
  <2>1. list = SubSeq(given, n + 1, Len(given))
    BY DEF RestOf, Count, motion, given, n
  <2>2. list \in Seq(Argument) /\ Len(list) = Len(given) - n
    BY <1>2, <1>3, <1>7, <2>1
  <2>3. list \in Seq(Item)
    <3>1. Argument \subseteq Item
      BY DEF Item
    <3> QED BY <2>2, <3>1
  <2> DEFINE wanted == motion.numbers + (IF Len(list) > motion.numbers THEN motion.axes ELSE 0)
  <2>4. wanted \in Nat
    BY <1>2
  <2>5. Trailing(motion, list) \in KindList /\ Len(Trailing(motion, list)) = wanted
    BY <2>4, Lists, NumLength DEF Trailing
  <2>6. Len(list) < wanted => TooShort(r)
    <3>1. CASE r.args = <<>>
      BY <1>2, <1>4, <3>1
    <3>2. CASE r.args # <<>>
      BY <1>2, <1>3, <1>4, <2>2, <3>2
    <3> QED BY <3>1, <3>2
  <2>7. Buffers(Trailing(motion, list)) = {} /\ Trailing(motion, list) # Name
    BY <2>4, PlainKinds DEF Trailing
  <2>8. ~Spills(list, Trailing(motion, list))
    BY <2>7 DEF Spills, Overruns, Buffers
  <2> QED BY <1>7, <2>3, <2>5, <2>6, <2>7, <2>8, ExecuteIsSafe
<1>8. Refuse(r) \/ (Len(given) < n /\ Die(r))
      \/ (Len(given) >= n /\ Execute(r, Targets(r.cmd, RefsOf(r)), list, Trailing(motion, list)))
  BY <1>2, <1>3 DEF Move, RefsOf, RestOf, Count, motion, given, n
<1> QED BY <1>5, <1>6, <1>7, <1>8

LEMMA GetIsSafe == ASSUME NEW r \in Requests, Get(r) PROVE Safe(r)
<1>1. CASE ReturnsNothing(r)
  <2>1. request' = r /\ points' = points
    BY <1>1 DEF ReturnsNothing, Die, Handled
  <2>2. CASE UndefinedGet(r)
    BY <2>1, <2>2 DEF Safe, StrayAllowed
  <2>3. CASE ~UndefinedGet(r)
    <3>1. PICK s \in Stores : \E i \in DOMAIN points[s] : r.args = <<Ref(s, 0), Number(i)>>
      BY <2>3 DEF UndefinedGet, Get
    <3>2. PICK i \in DOMAIN points[s] : r.args = <<Ref(s, 0), Number(i)>>
      BY <3>1
    <3>3. /\ Len(r.args) = 2 /\ r.args[1].kind = s /\ r.args[1].val = 0
          /\ r.args[2].kind = "number" /\ r.args[2].val = i
      BY <3>2 DEF Ref, Number
    <3>4. Handled(r, Shown(points[s][i]), NoCall)
      BY <3>2, <3>3 DEF Get
    <3> QED BY <3>4, NoCallIsClean DEF Handled, Shown, Safe, NotStray
  <2> QED BY <2>2, <2>3
<1>2. CASE Handled(r, Shown(points[r.args[1].kind][r.args[2].val]), NoCall)
  BY <1>2, NoCallIsClean DEF Handled, Shown, Safe, NotStray
<1> QED BY <1>1, <1>2 DEF Get

LEMMA HandleIsSafe == ASSUME NEW r \in Requests, Handle(r) PROVE Safe(r)
<1>1. CASE Define(r)
  <2>1. CASE Refuse(r) BY <2>1, RefuseIsNotStray DEF Safe
  <2>2. CASE Store(r)
    BY <2>2, NoCallIsClean DEF Store, Handled, Stored, Safe, NotStray
  <2> QED BY <1>1, <2>1, <2>2 DEF Define
<1>2. CASE Get(r) BY <1>2, GetIsSafe
<1>3. CASE Move(r) BY <1>3, MoveIsSafe
<1>4. CASE AnswerLocally(r)
  <2>1. CASE Refuse(r) BY <2>1, RefuseIsNotStray DEF Safe
  <2>2. CASE r.cmd = "GetWeldingBreakOffState" /\ ReturnsNothing(r)
    BY <2>2 DEF ReturnsNothing, Die, Handled, Safe, StrayAllowed
  <2>3. CASE Handled(r, Result, NoCall)
    BY <2>3, NoCallIsClean DEF Handled, Result, Safe, NotStray
  <2> QED BY <1>4, <2>1, <2>2, <2>3 DEF AnswerLocally
<1>5. CASE ForwardToSDK(r) BY <1>5, ForwardIsSafe
<1>6. CASE RefuseUnknown(r) BY <1>6, RefuseIsNotStray DEF RefuseUnknown, Safe
<1> QED BY <1>1, <1>2, <1>3, <1>4, <1>5, <1>6 DEF Handle

\* Stray memory kills the process, reaches the controller, or is answered without
\* an SDK call only for the requests named: those with too few arguments or too
\* long a name, a GET of no stored point and GetWeldingBreakOffState.  Only behind a name copied into a
\* char array it may reach the controller at any time.
THEOREM StrayBounded == Spec => []StrayHasACause
<1> DEFINE Inv == KnownInv /\ StrayHasACause
<1>1. NoReply.tag # "garbage"
  BY DEF NoReply
<1>2. ASSUME phase # "dead", reply.tag # "garbage", Clean(call.cmd, call.args) PROVE ~Stray
  BY <1>2 DEF Stray, Clean
<1>3. ASSUME (phase # "dead")', (reply.tag # "garbage")', Clean(call.cmd, call.args)'
      PROVE  StrayHasACause'
  BY <1>3 DEF StrayHasACause, Stray, Clean
<1>4. Init => Inv
  <2> SUFFICES ASSUME Init PROVE StrayHasACause
    BY InitKnown
  <2> QED BY <1>1, <1>2, NoCallIsClean DEF Init, StrayHasACause
<1>5. Inv /\ [Next]_vars => Inv'
  <2> SUFFICES ASSUME Inv, [Next]_vars PROVE StrayHasACause'
    BY NextKnown
  <2>1. ASSUME NEW r \in Requests, Handle(r) PROVE StrayHasACause'
    <3>1. CASE NotStray(r)
      BY <1>3, <3>1 DEF NotStray
    <3>2. CASE request' = r /\ points' = points /\ StrayAllowed(r)
      BY <3>2 DEF StrayAllowed, StrayHasACause, UndefinedGet
    <3> QED BY <2>1, <3>1, <3>2, HandleIsSafe DEF Safe
  <2>2. CASE Answer
    BY <1>1, <1>3, <2>2, NoCallIsClean DEF Answer
  <2>3. CASE Restart
    <3>1. reply.tag = "none" /\ call = NoCall
      BY <2>3 DEF Restart, KnownInv, TypeInv
    <3> QED BY <1>3, <2>3, <3>1, NoCallIsClean DEF Restart
  <2>4. CASE UNCHANGED vars
    BY <2>4 DEF vars, StrayHasACause, Stray, UndefinedGet
  <2> QED BY <2>1, <2>2, <2>3, <2>4 DEF Next
<1> QED BY <1>4, <1>5, PTL DEF Spec

-----------------------------------------------------------------------------
(* Node parameters reach the place the SDK expects them in.                 *)

LEMMA SlotFacts == DOMAIN Slot = SlotNames /\ SlotNames \cap DOMAIN Motions = {}
BY DEF Slot, SlotNames, Motions

LEMMA PairSize == ASSUME NEW a, NEW b, a # b PROVE Cardinality({a, b}) = 2
<1>1. {a, b} = {a} \union {b}
  OBVIOUS
<1>2. IsFiniteSet({a}) /\ Cardinality({a}) = 1
  BY FS_Singleton
<1> QED BY <1>1, <1>2, FS_AddElement

\* The arguments each of these commands takes besides its parameters.
LEMMA SuppliedFacts ==
  ASSUME NEW cmd \in SlotNames, cmd \in DOMAIN Table
  PROVE  Supplied(cmd) = CASE cmd \in {"SetToolCoord", "SetToolList"} -> 7
                           [] cmd = "SetAnticollision" -> 6
                           [] OTHER -> 2
<1>1. Len(Table[cmd]) = Width(cmd)
  <2>1. Width(cmd) \in Nat
    BY DEF Width, SlotNames
  <2> QED BY <2>1, TableFacts, NumLength
<1>2. CASE cmd \in {"SetToolCoord", "SetToolList"}
  <2>1. DOMAIN Slot[cmd] \ Ignored = {"toolcoord_type", "toolcoord_install"}
    BY <1>2 DEF Slot, Ignored
  <2>2. "toolcoord_type" # "toolcoord_install"
    OBVIOUS
  <2>3. Cardinality({"toolcoord_type", "toolcoord_install"}) = 2
    BY <2>2, PairSize, Zenon
  <2>4. Cardinality(DOMAIN Slot[cmd] \ Ignored) = 2
    BY <2>1, <2>3
  <2>5. Supplied(cmd) = Width(cmd) - 2
    BY <1>1, <2>4 DEF Supplied
  <2> QED BY <1>2, <2>5 DEF Width
<1>3. CASE cmd = "SetAnticollision"
  <2>1. DOMAIN Slot[cmd] \ Ignored = {"collision_mode", "collision_config"}
    BY <1>3 DEF Slot, Ignored
  <2>2. "collision_mode" # "collision_config"
    OBVIOUS
  <2>3. Cardinality({"collision_mode", "collision_config"}) = 2
    BY <2>2, PairSize, Zenon
  <2>4. Cardinality(DOMAIN Slot[cmd] \ Ignored) = 2
    BY <2>1, <2>3
  <2>5. Supplied(cmd) = Width(cmd) - 2
    BY <1>1, <2>4 DEF Supplied
  <2> QED BY <1>3, <2>5 DEF Width
<1>4. CASE cmd = "MoveGripper"
  <2>1. DOMAIN Slot[cmd] \ Ignored = {"gripper_vel", "gripper_force"}
    BY <1>4 DEF Slot, Ignored
  <2>2. "gripper_vel" # "gripper_force"
    OBVIOUS
  <2>3. Cardinality({"gripper_vel", "gripper_force"}) = 2
    BY <2>2, PairSize, Zenon
  <2>4. Cardinality(DOMAIN Slot[cmd] \ Ignored) = 2
    BY <2>1, <2>3
  <2>5. Supplied(cmd) = Width(cmd) - 2
    BY <1>1, <2>4 DEF Supplied
  <2> QED BY <1>4, <2>5 DEF Width
<1>5. CASE cmd \in {"SetDO", "SetToolDO", "SetAuxDO"}
  <2>1. DOMAIN Slot[cmd] \ Ignored = {"DO_smooth", "DO_block"}
    BY <1>5 DEF Slot, Ignored
  <2>2. "DO_smooth" # "DO_block"
    OBVIOUS
  <2>3. Cardinality({"DO_smooth", "DO_block"}) = 2
    BY <2>2, PairSize, Zenon
  <2>4. Cardinality(DOMAIN Slot[cmd] \ Ignored) = 2
    BY <2>1, <2>3
  <2>5. Supplied(cmd) = Width(cmd) - 2
    BY <1>1, <2>4 DEF Supplied
  <2> QED BY <1>5, <2>5 DEF Width
<1>6. CASE cmd \in {"SetAO", "SetToolAO", "SetAuxAO"}
  <2>1. DOMAIN Slot[cmd] \ Ignored = {"AO_block"}
    BY <1>6 DEF Slot, Ignored
  <2>2. Cardinality(DOMAIN Slot[cmd] \ Ignored) = 1
    BY <2>1, FS_Singleton
  <2> QED BY <1>1, <1>6, <2>2 DEF Supplied, Width
<1> QED BY <1>2, <1>3, <1>4, <1>5, <1>6 DEF SlotNames

\* Where the elements of the whole list come from.
LEMMA FullPlaces ==
  ASSUME NEW r \in Requests, Len(r.args) > 0
  PROVE  /\ Len(Full(r)) = Len(Prepended(r.cmd)) + Len(r.args) + Len(Appended(r.cmd))
         /\ \A i \in 1..Len(Prepended(r.cmd)) : Full(r)[i] = Prepended(r.cmd)[i]
         /\ \A k \in 1..Len(Appended(r.cmd)), i \in Nat :
              i = Len(Prepended(r.cmd)) + Len(r.args) + k => Full(r)[i] = Appended(r.cmd)[k]
<1> DEFINE before == Prepended(r.cmd)
           behind == Appended(r.cmd)
<1>1. r.args # <<>>
  OBVIOUS
<1>2. r.args \in Seq(Item) /\ Elements(r) = r.args
  <2>1. Argument \subseteq Item
    BY DEF Item
  <2> QED BY <1>1, <2>1, GivenFacts
<1>3. before \in Seq(Item) /\ behind \in Seq(Item)
  BY AddedFacts
<1>4. Full(r) = before \o r.args \o behind
  BY <1>2 DEF Full
<1> HIDE DEF before, behind
<1>5. /\ Len(Full(r)) = Len(before) + Len(r.args) + Len(behind)
      /\ \A i \in 1..Len(before) : Full(r)[i] = before[i]
      /\ \A k \in 1..Len(behind), i \in Nat :
           i = Len(before) + Len(r.args) + k => Full(r)[i] = behind[k]
  BY <1>2, <1>3, <1>4
<1> QED BY <1>5 DEF before, behind

\* With these arguments, each parameter stands in its slot of the whole list.
LEMMA SlotsFilled ==
  ASSUME NEW r \in Requests, r.cmd \in SlotNames, r.cmd \in DOMAIN Table,
         Len(r.args) = Supplied(r.cmd),
         NEW p \in DOMAIN Slot[r.cmd] \ Ignored
  PROVE  /\ Slot[r.cmd][p] \in 1..Width(r.cmd)
         /\ Slot[r.cmd][p] \in DOMAIN Full(r)
         /\ Full(r)[Slot[r.cmd][p]] = Param(p)
<1>1. Full(r) \in Seq(Item) /\ DOMAIN Full(r) = 1..Len(Full(r))
  BY FullFacts
<1> DEFINE list == Full(r)
           before == Prepended(r.cmd)
           behind == Appended(r.cmd)
           n == Len(r.args)
<1>2. n > 0 =>
      /\ Len(list) = Len(before) + n + Len(behind)
      /\ \A i \in 1..Len(before) : list[i] = before[i]
      /\ \A k \in 1..Len(behind), i \in Nat :
           i = Len(before) + n + k => list[i] = behind[k]
  BY FullPlaces
<1>3. CASE r.cmd \in {"SetToolCoord", "SetToolList"}
  <2>1. n = 7
    BY <1>3, SuppliedFacts
  <2>2. /\ Prepended(r.cmd) = <<>>
        /\ Appended(r.cmd) = <<Param("toolcoord_type"),
                                Param("toolcoord_install")>>
    BY <1>3 DEF Prepended, Appended
  <2>3. /\ Len(before) = 0
        /\ Len(behind) = 2
        /\ behind[1] = Param("toolcoord_type")
        /\ behind[2] = Param("toolcoord_install")
    BY <2>2
  <2>4. /\ Len(list) = 9
        /\ list[8] = behind[1]
        /\ list[9] = behind[2]
    <3> HIDE DEF list, before, behind, n
    <3> QED BY ONLY <2>1, <2>3, <1>2
  <2>5. Slot[r.cmd] = [toolcoord_type |-> 8, toolcoord_install |-> 9] /\ Width(r.cmd) = 9
    BY <1>3 DEF Slot, Width
  <2> QED BY <1>1, <2>3, <2>4, <2>5
<1>4. CASE r.cmd = "SetAnticollision"
  <2>1. n = 6
    BY <1>4, SuppliedFacts
  <2>2. /\ Prepended(r.cmd) = <<Param("collision_mode")>>
        /\ Appended(r.cmd) = <<Param("collision_config")>>
    BY <1>4 DEF Prepended, Appended
  <2>3. /\ Len(before) = 1
        /\ Len(behind) = 1
        /\ before[1] = Param("collision_mode")
        /\ behind[1] = Param("collision_config")
    BY <2>2
  <2>4. /\ Len(list) = 8
        /\ list[1] = before[1]
        /\ list[8] = behind[1]
    <3> HIDE DEF list, before, behind, n
    <3> QED BY ONLY <2>1, <2>3, <1>2
  <2>5. Slot[r.cmd] = [collision_mode |-> 1, collision_config |-> 8] /\ Width(r.cmd) = 8
    BY <1>4 DEF Slot, Width
  <2> QED BY <1>1, <2>3, <2>4, <2>5
<1>5. CASE r.cmd = "MoveGripper"
  <2>1. n = 2
    BY <1>5, SuppliedFacts
  <2>2. /\ Prepended(r.cmd) = <<>>
        /\ Appended(r.cmd) = <<Param("gripper_vel"),
                                Param("gripper_force"),
                                Param("gripper_maxtime"),
                                Param("gripper_block")>>
    BY <1>5 DEF Prepended, Appended
  <2>3. /\ Len(before) = 0
        /\ Len(behind) = 4
        /\ behind[1] = Param("gripper_vel")
        /\ behind[2] = Param("gripper_force")
    BY <2>2
  <2>4. /\ Len(list) = 6
        /\ list[3] = behind[1]
        /\ list[4] = behind[2]
    <3> HIDE DEF list, before, behind, n
    <3> QED BY ONLY <2>1, <2>3, <1>2
  <2>5. /\ DOMAIN Slot[r.cmd] \ Ignored = {"gripper_vel", "gripper_force"}
        /\ Slot[r.cmd]["gripper_vel"] = 3 /\ Slot[r.cmd]["gripper_force"] = 4
        /\ Width(r.cmd) = 4
    BY <1>5 DEF Slot, Ignored, Width
  <2> QED BY <1>1, <2>3, <2>4, <2>5
<1>6. CASE r.cmd \in {"SetDO", "SetToolDO", "SetAuxDO"}
  <2>1. n = 2
    BY <1>6, SuppliedFacts
  <2>2. /\ Prepended(r.cmd) = <<>>
        /\ Appended(r.cmd) = <<Param("DO_smooth"), Param("DO_block")>>
    BY <1>6 DEF Prepended, Appended
  <2>3. /\ Len(before) = 0
        /\ Len(behind) = 2
        /\ behind[1] = Param("DO_smooth")
        /\ behind[2] = Param("DO_block")
    BY <2>2
  <2>4. /\ Len(list) = 4
        /\ list[3] = behind[1]
        /\ list[4] = behind[2]
    <3> HIDE DEF list, before, behind, n
    <3> QED BY ONLY <2>1, <2>3, <1>2
  <2>5. Slot[r.cmd] = [DO_smooth |-> 3, DO_block |-> 4] /\ Width(r.cmd) = 4
    BY <1>6 DEF Slot, Width
  <2> QED BY <1>1, <2>3, <2>4, <2>5
<1>7. CASE r.cmd \in {"SetAO", "SetToolAO", "SetAuxAO"}
  <2>1. n = 2
    BY <1>7, SuppliedFacts
  <2>2. /\ Prepended(r.cmd) = <<>>
        /\ Appended(r.cmd) = <<Param("AO_block")>>
    BY <1>7 DEF Prepended, Appended
  <2>3. /\ Len(before) = 0
        /\ Len(behind) = 1
        /\ behind[1] = Param("AO_block")
    BY <2>2
  <2>4. /\ Len(list) = 3
        /\ list[3] = behind[1]
    <3> HIDE DEF list, before, behind, n
    <3> QED BY ONLY <2>1, <2>3, <1>2
  <2>5. Slot[r.cmd] = [AO_block |-> 3] /\ Width(r.cmd) = 3
    BY <1>7 DEF Slot, Width
  <2> QED BY <1>1, <2>3, <2>4, <2>5
<1> QED BY <1>3, <1>4, <1>5, <1>6, <1>7 DEF SlotNames

\* MoveGripper alone gets parameters it ignores.
LEMMA IgnoredOnce ==
  ASSUME NEW cmd \in SlotNames, NEW p \in DOMAIN Slot[cmd], p \in Ignored
  PROVE  cmd = "MoveGripper"
<1> SUFFICES ASSUME cmd # "MoveGripper" PROVE p \notin Ignored
  OBVIOUS
<1>1. CASE cmd \in {"SetToolCoord", "SetToolList"}
  <2>1. DOMAIN Slot[cmd] = {"toolcoord_type", "toolcoord_install"}
    BY <1>1 DEF Slot
  <2> QED BY <2>1 DEF Ignored
<1>2. CASE cmd = "SetAnticollision"
  <2>1. DOMAIN Slot[cmd] = {"collision_mode", "collision_config"}
    BY <1>2 DEF Slot
  <2> QED BY <2>1 DEF Ignored
<1>3. CASE cmd \in {"SetDO", "SetToolDO", "SetAuxDO"}
  <2>1. DOMAIN Slot[cmd] = {"DO_smooth", "DO_block"}
    BY <1>3 DEF Slot
  <2> QED BY <2>1 DEF Ignored
<1>4. CASE cmd \in {"SetAO", "SetToolAO", "SetAuxAO"}
  <2>1. DOMAIN Slot[cmd] = {"AO_block"}
    BY <1>4 DEF Slot
  <2> QED BY <2>1 DEF Ignored
<1> QED BY <1>1, <1>2, <1>3, <1>4 DEF SlotNames

LEMMA KindsOfSlots ==
  ASSUME NEW cmd \in SlotNames, NEW list PROVE Kinds(cmd, list) = Table[cmd]
BY DEF SlotNames, Kinds, LongForm

\* What an executed command passes on of its list.
LEMMA ExecutePasses ==
  ASSUME NEW r, NEW to, NEW list, NEW kinds, Execute(r, to, list, kinds)
  PROVE  \/ call' = NoCall
         \/ /\ call'.cmd = r.cmd /\ request' = r
            /\ \E smeared \in SUBSET Buffers(kinds) :
                 call'.args = Taken(list, kinds, smeared) \o Fixed(r.cmd)
BY DEF Execute, Refuse, Die, Handled

LEMMA OtherSlots ==
  ASSUME call' = NoCall \/ call'.cmd \notin SlotNames
  PROVE  ParametersInSlots'
<1>1. NoCall.cmd \notin SlotNames
  BY DEF NoCall, SlotNames
<1> QED BY <1>1, SlotFacts DEF ParametersInSlots

LEMMA BehindIt ==
  ASSUME NEW s \in Seq(Passed), NEW t \in Seq(Passed)
  PROVE  \A k \in 1..Len(t), i \in Nat : i = Len(s) + k => (s \o t)[i] = t[k]
OBVIOUS

LEMMA FifthAndSixth ==
  ASSUME NEW s \in Seq(Passed), NEW t \in Seq(Passed), Len(s) = 4, Len(t) = 2
  PROVE  (s \o t)[5] = t[1] /\ (s \o t)[6] = t[2]
<1>1. \A k \in 1..Len(t), i \in Nat : i = Len(s) + k => (s \o t)[i] = t[k]
  BY BehindIt, Zenon
<1> DEFINE whole == s \o t
<1>2. \A k \in 1..Len(t), i \in Nat : i = Len(s) + k => whole[i] = t[k]
  BY <1>1
<1> HIDE DEF whole
<1>3. whole[5] = t[1] /\ whole[6] = t[2]
  BY <1>2
<1> QED BY <1>3 DEF whole

LEMMA ForwardFillsSlots ==
  ASSUME NEW r \in Requests, ForwardToSDK(r)
  PROVE  ParametersInSlots'
<1>1. r.cmd \in DOMAIN Table
  BY DEF ForwardToSDK, Forwarded
<1>2. CASE call' = NoCall
  BY <1>2, OtherSlots
<1>3. CASE call'.cmd = r.cmd /\ r.cmd \notin SlotNames
  BY <1>3, OtherSlots
<1>4. ASSUME call'.cmd = r.cmd, r.cmd \in SlotNames, request' = r,
             NEW smeared \in SUBSET Buffers(Kinds(r.cmd, Full(r))),
             call'.args = Taken(Full(r), Kinds(r.cmd, Full(r)), smeared) \o Fixed(r.cmd)
      PROVE  ParametersInSlots'
  <2> SUFFICES ASSUME Len(r.args) = Supplied(r.cmd), NEW p \in DOMAIN Slot[r.cmd]
               PROVE  call'.args[Slot[r.cmd][p]] = Expected(p)
    BY <1>4 DEF ParametersInSlots
  <2> DEFINE place == Slot[r.cmd][p]
             list == Full(r)
             width == Width(r.cmd)
             taken == Taken(list, Num(width), smeared)
             fixed == Fixed(r.cmd)
  <2>1. width \in Nat /\ Kinds(r.cmd, list) = Num(width)
    BY <1>1, <1>4, KindsOfSlots, TableFacts DEF Width, SlotNames
  <2>2. Num(width) \in KindList /\ Buffers(Num(width)) = {} /\ DOMAIN Num(width) = 1..width
    BY <2>1, Lists, PlainKinds DEF Num
  <2>3. list \in Seq(Item) /\ fixed \in Seq(Item)
    BY FullFacts, FixedFacts
  <2>4. call'.args = taken \o fixed
    BY <1>4, <2>1
  <2>5. smeared = {} /\ taken \in Seq(Passed)
    BY <1>4, <2>1, <2>2, <2>3, TakenFacts
  <2>6. taken = [i \in 1..width |-> IF i > Len(list) THEN Garbage ELSE list[i]]
    BY <2>1, <2>2, <2>5, PlainKinds DEF Taken
  <2> HIDE DEF taken
  <2>7. Len(taken) = width
    BY <2>1, <2>6
  <2>8. CASE p \notin Ignored
    <3>1. place \in 1..width /\ place \in DOMAIN list /\ list[place] = Param(p)
      BY <1>1, <1>4, <2>8, SlotsFilled
    <3>2. Expected(p) = Param(p)
      BY <2>8 DEF Expected, Ignored
    <3> HIDE DEF place, list, width, fixed
    <3>3. place <= Len(list)
      BY <2>3, <3>1
    <3>4. taken[place] = Param(p)
      BY <2>1, <2>6, <3>1, <3>3
    <3>5. (taken \o fixed)[place] = taken[place]
      BY <2>3, <2>5, <2>7, <3>1
    <3> QED BY <2>4, <3>2, <3>4, <3>5 DEF place
  <2>9. CASE p \in Ignored
    <3>1. r.cmd = "MoveGripper"
      BY <1>4, <2>9, IgnoredOnce
    <3>2. width = 4 /\ fixed = <<Number(30000), Number(1)>>
      BY <3>1 DEF Width, Fixed
    <3>3. place = (IF p = "gripper_maxtime" THEN 5 ELSE 6)
      BY <2>9, <3>1 DEF Slot, Ignored
    <3>4. Expected(p) = (IF p = "gripper_maxtime" THEN Number(30000) ELSE Number(1))
      BY <2>9 DEF Expected, Ignored
    <3> HIDE DEF place, list, width, fixed
    <3>5. (taken \o fixed)[5] = Number(30000) /\ (taken \o fixed)[6] = Number(1)
      <4>1. Len(taken) = 4 /\ Len(fixed) = 2
        BY <2>7, <3>2
      <4>0. fixed \in Seq(Passed)
        <5>1. Item \subseteq Passed
          BY DEF Passed
        <5> QED BY <2>3, <5>1
      <4>2. fixed[1] = Number(30000) /\ fixed[2] = Number(1)
        BY <3>2
      <4>3. (taken \o fixed)[5] = fixed[1] /\ (taken \o fixed)[6] = fixed[2]
        BY <2>5, <4>0, <4>1, FifthAndSixth
      <4> QED BY <4>2, <4>3
    <3> DEFINE whole == taken \o fixed
    <3>6. whole[5] = Number(30000) /\ whole[6] = Number(1) /\ call'.args = whole
      BY <2>4, <3>5
    <3> HIDE DEF whole
    <3>7. whole[place] = Expected(p)
      BY <3>3, <3>4, <3>6
    <3> QED BY <3>6, <3>7 DEF place
  <2> QED BY <2>8, <2>9
<1> QED BY <1>2, <1>3, <1>4, ExecutePasses DEF ForwardToSDK

LEMMA HandleFillsSlots ==
  ASSUME NEW r \in Requests, Handle(r)
  PROVE  ParametersInSlots'
<1>1. CASE Define(r)
  BY <1>1, OtherSlots DEF Define, Store, Refuse, Handled
<1>2. CASE Get(r)
  BY <1>2, OtherSlots DEF Get, ReturnsNothing, Die, Handled
<1>3. CASE Move(r)
  <2>1. r.cmd \notin SlotNames
    BY <1>3, SlotFacts DEF Move
  <2>2. call' = NoCall \/ call'.cmd = r.cmd
    BY <1>3, MoveCases, ExecutePasses DEF Executes, Refuse, Die, Handled
  <2> QED BY <2>1, <2>2, OtherSlots
<1>4. CASE AnswerLocally(r)
  BY <1>4, OtherSlots DEF AnswerLocally, ReturnsNothing, Refuse, Die, Handled
<1>5. CASE ForwardToSDK(r)
  BY <1>5, ForwardFillsSlots
<1>6. CASE RefuseUnknown(r)
  BY <1>6, OtherSlots DEF RefuseUnknown, Refuse, Handled
<1> QED BY <1>1, <1>2, <1>3, <1>4, <1>5, <1>6 DEF Handle

\* A request with the arguments its command takes gets every node parameter but
\* gripper_maxtime and gripper_block into the place the SDK expects it in, and the
\* places of these two hold 30000 and 1, for every request and every value sent.
THEOREM ParametersPlaced == Spec => []ParametersInSlots
<1> DEFINE Inv == KnownInv /\ ParametersInSlots
<1>1. NoCall.cmd \notin DOMAIN Slot
  BY SlotFacts DEF NoCall, SlotNames
<1>2. Init => Inv
  <2> SUFFICES ASSUME Init PROVE ParametersInSlots
    BY InitKnown
  <2> QED BY <1>1 DEF Init, ParametersInSlots
<1>3. Inv /\ [Next]_vars => Inv'
  <2> SUFFICES ASSUME Inv, [Next]_vars PROVE ParametersInSlots'
    BY NextKnown
  <2>1. ASSUME NEW r \in Requests, Handle(r) PROVE ParametersInSlots'
    BY <2>1, HandleFillsSlots
  <2>2. CASE Answer
    BY <1>1, <2>2 DEF Answer, ParametersInSlots
  <2>3. CASE Restart
    BY <1>1, <2>3 DEF Restart, KnownInv, TypeInv, ParametersInSlots
  <2>4. CASE UNCHANGED vars
    BY <2>4 DEF vars, ParametersInSlots
  <2> QED BY <2>1, <2>2, <2>3, <2>4 DEF Next
<1> QED BY <1>2, <1>3, PTL DEF Spec
=============================================================================
