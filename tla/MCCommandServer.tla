-------------------------- MODULE MCCommandServer --------------------------
(* Requests for TLC.  The i-th argument of an ordinary command is the       *)
(* number i, so that two arguments that change places are told apart.  Each *)
(* such command is sent with the arguments it takes, with one less and one  *)
(* more, with a word in the last place, and with every name too long.       *)
EXTENDS CommandServer

Numbers(n) == [i \in 1..n |-> Number(i)]

Sent(n) ==
  {Numbers(n), Numbers(n + 1)}
    \union (IF n > 0 THEN {Numbers(n - 1), [Numbers(n) EXCEPT ![n] = Word]} ELSE {})

ArgumentsOf(c) ==
  IF c \in DOMAIN Slot THEN Supplied(c)
  ELSE IF c = "SndRcvAxleGenComCmdData" THEN 3
  ELSE IF c = "GetAxleGenComCycleData" THEN 2
  ELSE Len(Table[c])

(* Every name once too long for its array.                                  *)
NamePlaces(c) ==
  IF Table[c] = Name THEN {1} ELSE {i \in DOMAIN Table[c] : Table[c][i] = "buffer"}

LongNames ==
  UNION {{[cmd |-> c, args |-> [Numbers(Len(Table[c])) EXCEPT ![i] = LongWord]] :
            i \in NamePlaces(c)} : c \in DOMAIN Table}

OrdinaryRequests ==
  UNION {{[cmd |-> c, args |-> a] : a \in Sent(ArgumentsOf(c))} : c \in DOMAIN Table}
    \union {[cmd |-> c, args |-> Numbers(LongForm[c])] : c \in DOMAIN LongForm}
    \union LongNames
    \union {[cmd |-> "?", args |-> <<>>]}

(* Points are six times the same number; an index is 0 to MaxPoints + 2.    *)
Repeated(v) == [i \in 1..6 |-> Number(v)]

DefiningRequests ==
  {[cmd |-> c, args |-> <<Number(i)>> \o Repeated(v)] :
     c \in DOMAIN StoreOf, i \in 0..(MaxPoints + 2), v \in {10, 20}}
  \union {[cmd |-> c, args |-> a] : c \in DOMAIN StoreOf, a \in {<<>>, Repeated(10)}}
  \union {[cmd |-> c, args |-> <<Word>> \o Repeated(10)] : c \in DOMAIN StoreOf}

GettingRequests ==
  {[cmd |-> "GET", args |-> <<Ref(s, 0), Number(i)>>] : s \in Stores, i \in 0..(MaxPoints + 1)}
  \union {[cmd |-> "GET", args |-> a] : a \in {<<>>, <<Word, Number(1)>>, <<Ref("JNT", 1)>>}}

Refs == {Ref(s, i) : s \in Stores, i \in 0..(MaxPoints + 1)}
Refss(n) == IF n = 1 THEN {<<p>> : p \in Refs} ELSE {<<p, q>> : p, q \in Refs}

Behind(m) == {0, m.numbers - 1, m.numbers, m.numbers + 1, m.numbers + m.axes}

MotionRequests ==
  UNION {{[cmd |-> c, args |-> refs \o Numbers(n)] :
            refs \in Refss(Motions[c].points), n \in Behind(Motions[c])} : c \in DOMAIN Motions}
  \union {[cmd |-> c, args |-> a] : c \in DOMAIN Motions, a \in {<<>>, <<Word>>, <<Ref("JNT", 1)>>}}

MCRequests == OrdinaryRequests \union DefiningRequests \union GettingRequests \union MotionRequests

(* Arcs between stored points, with every argument they take.               *)
ArcRequests ==
  DefiningRequests
    \union {[cmd |-> "MoveC", args |-> refs \o Numbers(3)] : refs \in Refss(2)}

(* The examples of the manual for motions: MoveL, MoveC and SplinePTP have  *)
(* one number behind the points.                                            *)
MotionExamples ==
  {[cmd |-> "MoveJ", args |-> <<Ref("JNT", 1)>> \o Numbers(3)],
   [cmd |-> "MoveL", args |-> <<Ref("CART", 1)>> \o Numbers(1)],
   [cmd |-> "MoveC", args |-> <<Ref("JNT", 1), Ref("JNT", 2)>> \o Numbers(1)],
   [cmd |-> "SplinePTP", args |-> <<Ref("JNT", 2)>> \o Numbers(1)]}

ExampleRequests == MotionExamples \union DefiningRequests

\* A motion written like the examples of the manual (lines 843, 860 and 886 of
\* the API document in the root of the repository) does not kill the server.
ExamplesAreServed == request \in MotionExamples => phase # "dead"
=============================================================================
