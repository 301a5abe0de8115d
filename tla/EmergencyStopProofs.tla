------------------------ MODULE EmergencyStopProofs ------------------------
(***************************************************************************)
(* Theorems about EmergencyStop, for every set of calls and of arm topics. *)
(***************************************************************************)
EXTENDS EmergencyStop, TLAPS

\* Was the zero velocity of call c handed to a connection?
HandedOver(c) == Base(c) \in sending \cup sent \cup dropped

\* Over rosbridge a call hands the velocity message over before it waits, and
\* no message of an arm topic exists before that.
StopInv ==
    kind = "rosbridge" =>
        \A c \in Calls :
          /\ pc[c] = "listing" => HandedOver(c)
          /\ pc[c] = "done" /\ rclpy /\ outcome[c] # "refused"
                => Base(c) \in sent \cup dropped
          /\ \A t \in Topics : <<c, t>> \in sending \cup sent \cup dropped => HandedOver(c)
          /\ \A t \in Arms : <<c, t>> \in sent => Base(c) \in sent \cup dropped

LEMMA StopInit == Init => StopInv
BY DEF Init, StopInv

LEMMA BaseIsItsOwn ==
    /\ \A c, d \in Calls : Base(c) = Base(d) => c = d
    /\ \A c, d \in Calls : \A t \in Arms : <<d, t>> # Base(c)
    /\ CmdVel \in Topics /\ Arms \subseteq Topics
BY StopAssumption DEF Base, Topics

LEMMA StopStep == TypeOK /\ StopInv /\ [Next]_vars => StopInv'
<1> SUFFICES ASSUME TypeOK, StopInv, [Next]_vars PROVE StopInv'
  OBVIOUS
<1> USE BaseIsItsOwn
<1>k. kind' = kind /\ rclpy' = rclpy
  <2>1. ASSUME NEW c \in Calls, CliConnect(c) \/ CallStep(c) PROVE UNCHANGED setting
    BY <2>1 DEF CallStep, CliConnect, CliConnected, CliRefused, StopOverRosbridge, StopOverDds,
                TopicsListed, FallbackStops, FallbackFails, Sends
  <2>2. ASSUME NEW l \in LinkState, LinkChanges(l) PROVE UNCHANGED setting
    BY <2>2 DEF LinkChanges
  <2> QED
    BY <2>1, <2>2 DEF Next, vars, setting
<1> SUFFICES ASSUME kind = "rosbridge" PROVE StopInv'
  BY <1>k DEF StopInv
<1> DEFINE Told(c) == pc[c] = "done" /\ rclpy /\ outcome[c] # "refused"
<1>1. ASSUME NEW c \in Calls, StopOverRosbridge(c) PROVE StopInv'
  BY <1>1, <1>k DEF TypeOK, StopInv, HandedOver, StopOverRosbridge, Publish, Base
<1>2. ASSUME NEW c \in Calls, TopicsListed(c) PROVE StopInv'
  <2>1. PICK arms \in {{}} \cup (IF Usable THEN {Arms} ELSE {}) : Publish(c, arms)
    BY <1>2 DEF TopicsListed
  <2>2. arms \subseteq Arms
    BY <2>1
  <2>3. /\ sending' = sending \cup ({c} \X arms) /\ UNCHANGED <<sent, dropped>>
        /\ pc' = [pc EXCEPT ![c] = "done"] /\ outcome' = [outcome EXCEPT ![c] = "success"]
        /\ Base(c) \in sent \cup dropped
    BY <1>2, <2>1 DEF StopInv, HandedOver, TopicsListed, Publish, Ends
  <2> QED
    BY <2>2, <2>3, <1>k DEF TypeOK, StopInv, HandedOver
<1>3. ASSUME NEW c \in Calls, FallbackStops(c) \/ FallbackFails(c) PROVE StopInv'
  BY <1>3, <1>k DEF TypeOK, StopInv, HandedOver, FallbackStops, FallbackFails, Ends, Base, messages
<1>4. ASSUME NEW c \in Calls, NEW t \in Topics, Sends(c, t) PROVE StopInv'
  <2>1. /\ UNCHANGED <<pc, outcome>> /\ sending' = sending \ {<<c, t>>}
        /\ sent \cup dropped \subseteq sent' \cup dropped'
        /\ <<c, t>> \in sent' \cup dropped'
        /\ sending' \cup sent' \cup dropped' = sending \cup sent \cup dropped
        /\ \A m \in sent' : m \in sent \/ m = <<c, t>>
    BY <1>4 DEF Sends
  <2>2. t # CmdVel => Base(c) \notin sending /\ HandedOver(c)
    BY <1>4 DEF Sends, StopInv
  <2>3. \A d \in Calls : HandedOver(d)' <=> HandedOver(d)
    BY <2>1 DEF HandedOver, Base
  <2>4. ASSUME NEW d \in Calls, NEW u \in Arms, <<d, u>> \in sent'
        PROVE  Base(d) \in sent' \cup dropped'
    <3>1. CASE <<d, u>> \in sent
      BY <2>1, <3>1 DEF StopInv
    <3>2. CASE <<d, u>> = <<c, t>>
      BY <2>1, <2>2, <3>2 DEF HandedOver, Base
    <3> QED
      BY <2>1, <2>4, <3>1, <3>2
  <2>5. ASSUME NEW d \in Calls, NEW u \in Topics,
               <<d, u>> \in sending' \cup sent' \cup dropped'
        PROVE  HandedOver(d)'
    BY <2>1, <2>3, <2>5 DEF StopInv
  <2>6. ASSUME NEW d \in Calls
        PROVE  /\ pc'[d] = "listing" => HandedOver(d)'
               /\ Told(d)' => Base(d) \in sent' \cup dropped'
    BY <1>k, <2>1, <2>3 DEF StopInv
  <2>7. \A d \in Calls : Base(d)' = Base(d)
    BY DEF Base
  <2> QED
    BY <2>4, <2>5, <2>6, <2>7 DEF StopInv
<1>5. ASSUME NEW l \in LinkState, LinkChanges(l) PROVE StopInv'
  BY <1>5, <1>k DEF StopInv, HandedOver, LinkChanges, messages
<1>6. ASSUME NEW c \in Calls, CliConnect(c) \/ CliConnected(c) \/ CliRefused(c) PROVE StopInv'
  BY <1>6, <1>k DEF TypeOK, StopInv, HandedOver, CliConnect, CliConnected, CliRefused, Ends, messages
<1>7. ASSUME NEW c \in Calls, StopOverDds(c) PROVE FALSE
  BY <1>7 DEF StopOverDds
<1>8. CASE UNCHANGED vars
  BY <1>8 DEF vars, setting, messages, StopInv, HandedOver
<1> QED
  BY <1>1, <1>2, <1>3, <1>4, <1>5, <1>6, <1>7, <1>8 DEF Next, CallStep

LEMMA TypeStep == TypeOK /\ [Next]_vars => TypeOK'
<1> SUFFICES ASSUME TypeOK, [Next]_vars PROVE TypeOK'
  OBVIOUS
<1> USE DEF TypeOK, setting, messages, LinkState, PcState, Ending, Topics
<1>1. ASSUME NEW c \in Calls, CliConnect(c) \/ CliConnected(c) \/ CliRefused(c) PROVE TypeOK'
  BY <1>1 DEF CliConnect, CliConnected, CliRefused, Ends
<1>2. ASSUME NEW c \in Calls, StopOverRosbridge(c) PROVE TypeOK'
  BY <1>2 DEF StopOverRosbridge, Publish
<1>3. ASSUME NEW c \in Calls, TopicsListed(c) PROVE TypeOK'
  <2>1. PICK arms \in {{}} \cup (IF Usable THEN {Arms} ELSE {}) :
          Publish(c, arms) /\ stopped' = [stopped EXCEPT ![c] = @ \cup arms]
    BY <1>3 DEF TopicsListed
  <2>2. arms \subseteq Topics
    BY <2>1
  <2> QED
    BY <1>3, <2>1, <2>2 DEF TopicsListed, Publish, Ends
<1>4. ASSUME NEW c \in Calls, StopOverDds(c) PROVE TypeOK'
  <2>1. PICK base \in SUBSET {CmdVel}, arms \in {{}, Arms} :
          /\ \E lost \in SUBSET arms : Publish(c, base \cup (arms \ lost))
          /\ stopped' = [stopped EXCEPT ![c] = @ \cup base \cup arms]
    BY <1>4 DEF StopOverDds
  <2>2. base \cup arms \subseteq Topics
    BY <2>1
  <2> QED
    BY <1>4, <2>1, <2>2 DEF StopOverDds, Publish, Ends
<1>5. ASSUME NEW c \in Calls, FallbackStops(c) \/ FallbackFails(c) PROVE TypeOK'
  BY <1>5 DEF FallbackStops, FallbackFails, Ends, Base
<1>6. ASSUME NEW c \in Calls, NEW t \in Topics, Sends(c, t) PROVE TypeOK'
  BY <1>6 DEF Sends
<1>7. ASSUME NEW l \in LinkState, LinkChanges(l) PROVE TypeOK'
  BY <1>7 DEF LinkChanges
<1>8. CASE UNCHANGED vars
  BY <1>8 DEF vars
<1> QED
  BY <1>1, <1>2, <1>3, <1>4, <1>5, <1>6, <1>7, <1>8 DEF Next, CallStep

\* The link, the calls and their messages keep their types.
THEOREM StopTypeCorrect == Spec => []TypeOK
<1>1. Init => TypeOK
  BY DEF Init, TypeOK, LinkState, PcState, Ending
<1>2. TypeOK /\ [Next]_vars => TypeOK'
  BY TypeStep
<1> QED
  BY <1>1, <1>2, PTL DEF Spec

LEMMA StopAlways == Spec => []StopInv
<1>1. Init => StopInv
  BY StopInit
<1>2. TypeOK /\ StopInv /\ [Next]_vars => StopInv'
  BY StopStep
<1> QED
  BY <1>1, <1>2, StopTypeCorrect, PTL DEF Spec

\* Over rosbridge, on a machine where rclpy works, no emergency stop ends
\* without zero velocity handed to a connection, whatever the transport does
\* meanwhile, unless the command line could not connect and never began it.
THEOREM ZeroIsAlwaysSent == Spec => []RosbridgeStopSendsZero
<1>1. StopInv => RosbridgeStopSendsZero
  BY DEF StopInv, RosbridgeStopSendsZero
<1> QED
  BY <1>1, StopAlways, PTL

\* ... and no arm topic is zeroed before the base.
THEOREM BaseIsFirst == Spec => []BaseGoesFirst
<1>1. StopInv => BaseGoesFirst
  BY DEF StopInv, BaseGoesFirst
<1> QED
  BY <1>1, StopAlways, PTL

-----------------------------------------------------------------------------
(* A stop ends *)

\* No message of a call exists before the call has begun, and none of an arm
\* topic before the topics are listed.
QuietInv ==
    \A c \in Calls :
        /\ pc[c] \in {"idle", "connecting", "ready"} => \A t \in Topics : <<c, t>> \notin sending
        /\ pc[c] = "listing" => \A t \in Arms : <<c, t>> \notin sending

LEMMA QuietStep == TypeOK /\ QuietInv /\ [Next]_vars => QuietInv'
<1> SUFFICES ASSUME TypeOK, QuietInv, [Next]_vars PROVE QuietInv'
  OBVIOUS
<1> USE DEF QuietInv, TypeOK
<1>1. ASSUME NEW c \in Calls, CliConnect(c) \/ CliConnected(c) \/ CliRefused(c) PROVE QuietInv'
  BY <1>1 DEF CliConnect, CliConnected, CliRefused, Ends, messages
<1>2. ASSUME NEW c \in Calls, StopOverRosbridge(c) PROVE QuietInv'
  BY <1>2, StopAssumption DEF StopOverRosbridge, Publish, Topics
<1>3. ASSUME NEW c \in Calls, TopicsListed(c) PROVE QuietInv'
  <2>1. PICK arms \in {{}} \cup (IF Usable THEN {Arms} ELSE {}) : Publish(c, arms)
    BY <1>3 DEF TopicsListed
  <2> QED
    BY <1>3, <2>1 DEF TopicsListed, Publish, Ends
<1>4. ASSUME NEW c \in Calls, StopOverDds(c) PROVE QuietInv'
  <2>1. kind = "dds" /\ pc' = [pc EXCEPT ![c] = "done"] /\ UNCHANGED sending
    BY <1>4 DEF StopOverDds, Publish, Ends
  <2> QED
    BY <2>1
<1>5. ASSUME NEW c \in Calls, FallbackStops(c) \/ FallbackFails(c) PROVE QuietInv'
  BY <1>5 DEF FallbackStops, FallbackFails, Ends, messages
<1>6. ASSUME NEW c \in Calls, NEW t \in Topics, Sends(c, t) PROVE QuietInv'
  BY <1>6 DEF Sends
<1>7. ASSUME NEW l \in LinkState, LinkChanges(l) PROVE QuietInv'
  BY <1>7 DEF LinkChanges, messages
<1>8. CASE UNCHANGED vars
  BY <1>8 DEF vars, messages
<1> QED
  BY <1>1, <1>2, <1>3, <1>4, <1>5, <1>6, <1>7, <1>8 DEF Next, CallStep

LEMMA QuietAlways == Spec => [](TypeOK /\ QuietInv)
<1>1. Init => QuietInv
  BY DEF Init, QuietInv
<1> QED
  BY <1>1, QuietStep, StopTypeCorrect, PTL DEF Spec

\* Every step leaves a call that lists where it is, or ends it, and hands over
\* no velocity message of its own again.
LEMMA ListingStep ==
    ASSUME TypeOK, [Next]_vars, NEW c \in Calls, pc[c] = "listing"
    PROVE  /\ pc'[c] \in {"listing", "done"}
           /\ pc'[c] = "listing" /\ Base(c) \notin sending => Base(c) \notin sending'
<1> USE DEF TypeOK
<1>1. ASSUME NEW d \in Calls, CliConnect(d) \/ CliConnected(d) \/ CliRefused(d)
      PROVE  pc'[c] = "listing" /\ sending' = sending
  BY <1>1 DEF CliConnect, CliConnected, CliRefused, Ends, messages
<1>2. ASSUME NEW d \in Calls, StopOverRosbridge(d)
      PROVE  pc'[c] = "listing" /\ (Base(c) \notin sending => Base(c) \notin sending')
  BY <1>2 DEF StopOverRosbridge, Publish, Base
<1>3. ASSUME NEW d \in Calls, TopicsListed(d)
      PROVE  /\ pc'[c] \in {"listing", "done"}
             /\ Base(c) \notin sending => Base(c) \notin sending'
  <2>1. PICK arms \in {{}} \cup (IF Usable THEN {Arms} ELSE {}) : Publish(d, arms)
    BY <1>3 DEF TopicsListed
  <2> QED
    BY <1>3, <2>1, BaseIsItsOwn DEF TopicsListed, Publish, Ends
<1>4. ASSUME NEW d \in Calls, StopOverDds(d) PROVE pc'[c] = "listing" /\ sending' = sending
  BY <1>4 DEF StopOverDds, Publish, Ends
<1>5. ASSUME NEW d \in Calls, FallbackStops(d) \/ FallbackFails(d)
      PROVE  pc'[c] = "listing" /\ sending' = sending
  BY <1>5 DEF FallbackStops, FallbackFails, Ends, messages
<1>6. ASSUME NEW d \in Calls, NEW t \in Topics, Sends(d, t)
      PROVE  pc' = pc /\ (Base(c) \notin sending => Base(c) \notin sending')
  BY <1>6 DEF Sends
<1>7. ASSUME NEW l \in LinkState, LinkChanges(l) PROVE pc' = pc /\ sending' = sending
  BY <1>7 DEF LinkChanges, messages
<1>8. CASE UNCHANGED vars
  BY <1>8 DEF vars, messages
<1> QED
  BY <1>1, <1>2, <1>3, <1>4, <1>5, <1>6, <1>7, <1>8 DEF Next, CallStep

\* A step of the call itself sends its velocity message if that waits, and
\* ends the call if it does not.
LEMMA ListingMoves ==
    ASSUME TypeOK, QuietInv, NEW c \in Calls, pc[c] = "listing", CallStep(c)
    PROVE  pc'[c] = "done" \/ (Base(c) \in sending /\ Base(c) \notin sending')
<1>1. CASE TopicsListed(c)
  BY <1>1 DEF TypeOK, TopicsListed, Ends
<1>2. ASSUME NEW t \in Topics, Sends(c, t) PROVE Base(c) \in sending /\ Base(c) \notin sending'
  <2>1. t = CmdVel
    BY <1>2 DEF QuietInv, Sends, Topics
  <2> QED
    BY <1>2, <2>1 DEF Sends, Base
<1> QED
  BY <1>1, <1>2 DEF CallStep, CliConnected, CliRefused, StopOverRosbridge, StopOverDds,
                    FallbackStops, FallbackFails

\* A call that lists can go on: its velocity message can be sent, or there is
\* none and the list may come back empty, whatever the link.  The provers
\* cannot expand ENABLED, so the theorem has this as a hypothesis.
ListingCanGoOn(c) == [](pc[c] = "listing" => ENABLED <<CallStep(c)>>_vars)

LEMMA ListingEnds ==
    ASSUME NEW c \in Calls
    PROVE  Spec /\ CallIsFair(c) /\ ListingCanGoOn(c)
              => ((pc[c] = "listing") ~> (pc[c] = "done"))
<1> DEFINE Listing == pc[c] = "listing"
           Waits   == Base(c) \in sending
           Inv     == TypeOK /\ QuietInv
<1>1. Listing /\ Inv /\ [Next]_vars => (Listing \/ pc[c] = "done")'
  BY ListingStep
<1>2. Listing /\ ~Waits /\ Inv /\ [Next]_vars => (~Waits \/ ~Listing)'
  BY ListingStep DEF Base
<1>3. Listing /\ Waits /\ Inv /\ <<CallStep(c)>>_vars => (~Waits \/ ~Listing)'
  BY ListingMoves DEF Base
<1>4. Listing /\ ~Waits /\ Inv /\ <<CallStep(c)>>_vars => (pc[c] = "done")'
  BY ListingMoves DEF Base
<1>5. Spec => []Inv
  BY QuietAlways
<1>6. Listing <=> pc[c] = "listing"
  OBVIOUS
<1> HIDE DEF Listing, Waits, Inv
<1> QED
  BY <1>1, <1>2, <1>3, <1>4, <1>5, <1>6, PTL DEF Spec, CallIsFair, ListingCanGoOn

\* An emergency stop that has begun over rosbridge ends, whatever the robot
\* answers and whatever becomes of the link, if calls that can go on do: the
\* velocity message goes first, and then nothing but the list is waited for.
THEOREM StopsEnd ==
    FairSpec /\ (\A c \in Calls : ListingCanGoOn(c)) => StopEnds
<1>1. FairSpec => Spec /\ \A c \in Calls : CallIsFair(c)
  BY PTL DEF FairSpec
<1>2. Spec /\ (\A c \in Calls : CallIsFair(c)) /\ (\A c \in Calls : ListingCanGoOn(c))
         => StopEnds
  <2>1. SUFFICES ASSUME NEW c \in Calls
                 PROVE  Spec /\ CallIsFair(c) /\ ListingCanGoOn(c)
                           => ((pc[c] = "listing") ~> (pc[c] = "done"))
    BY DEF StopEnds
  <2> QED
    BY ListingEnds
<1> QED
  BY <1>1, <1>2, PTL
=============================================================================
