--------------------------- MODULE MissionProofs ---------------------------
(***************************************************************************)
(* Theorems about Mission: for every mission, map, set of profiles and     *)
(* number of costmaps, whatever Nav2 and the server answer and however     *)
(* late the costmaps take and publish their footprints.                    *)
(***************************************************************************)
EXTENDS Mission, TLAPS, SequenceTheorems, FiniteSetTheorems, WellFoundedInduction

(***************************************************************************)
(* The inductive invariant, in parts.                                      *)
(***************************************************************************)
Driving == pc \in {"send", "answer", "drive", "canceling"}
Reconfiguring == pc \in {"settle", "reconfigure", "refresh"}

\* What a step's place in the program says about its kind.
StepInv ==
  /\ steps \in Seq(Step)
  /\ Driving => steps[i].kind = "navigate"
  /\ Reconfiguring => steps[i].kind = "reconfigure"

\* Who moves, and where main is then.
MotionInv ==
  /\ nav \in {"sent", "running"} => pc \in {"answer", "drive", "canceling", "ended"}
  /\ arm \in {"sent", "running"} => pc \in {"reconfigure", "ended"}
  /\ OneMotionAtATime

Reconfigured == \E n \in 1..i - 1 : steps[n].kind = "reconfigure"

\* The footprint that was sent is the profile's, but for the reconfiguration
\* that is changing it, and before the first one.
SentInv ==
  /\ pc = "reconfigure" => asked = steps[i].to
  /\ pc = "reconfigure" /\ arm = "succeeded" => sent = asked
  /\ pc = "refresh" => sent = profile
  /\ Driving \/ pc \in {"preflight", "begin", "settle"} => (Reconfigured => sent = profile)

\* A costmap's next footprint is never older than the one before: what was
\* heard, the last cycle's, the running cycle's, the one it holds, the one sent.
Settled(c) == inflated[c] = sent /\ used[c] = sent /\ fp[c] = sent

Heard(c) ==
  /\ wire[c] = <<>> \/ wire[c] = <<used[c]>>
  /\ latest[c] # "nothing" =>
       latest[c] = IF wire[c] = <<>> THEN used[c] ELSE inflated[c]
  /\ newer[c] => latest[c] # "nothing"

Catching(c) ==
  /\ used[c] = sent => fp[c] = sent
  /\ inflated[c] = sent => used[c] = sent

Seen(c) ==
  /\ used[c] = sent
  /\ newer[c] \/ wire[c] # <<>> => inflated[c] = sent

MapInv ==
  \A c \in Costmaps :
    /\ Heard(c)
    /\ pc \notin {"reconfigure", "refresh", "ended"} => Settled(c)
    /\ pc = "reconfigure" /\ sent # asked => Settled(c)
    /\ pc \in {"reconfigure", "refresh"} => Catching(c)
    /\ pc = "refresh" /\ shown => Seen(c)

\* The profile is the one that the checks of mission_problems went through.
CheckedInv ==
  pc # "ended" =>
    \E first \in Profiles :
      /\ Problems(first, steps) = {}
      /\ profile = ProfileBefore(first, steps, IF pc = "refresh" THEN i + 1 ELSE i)

MissionInv == TypeOK /\ StepInv /\ MotionInv /\ SentInv /\ MapInv /\ CheckedInv

(***************************************************************************)
(* The profile before a step.                                              *)
(***************************************************************************)
Reconfigurations(s, n) == {k \in 1..n - 1 : s[k].kind = "reconfigure"}

LEMMA BeforeFirst ==
  ASSUME NEW first, NEW s
  PROVE  ProfileBefore(first, s, 1) = first
<1>1. 1..1 - 1 = {}
  OBVIOUS
<1> QED BY <1>1 DEF ProfileBefore

\* A drive leaves the profile, a reconfiguration makes it its own.
LEMMA BeforeNext ==
  ASSUME NEW first, NEW s, NEW n \in Nat \ {0}
  PROVE  /\ s[n].kind # "reconfigure"
              => ProfileBefore(first, s, n + 1) = ProfileBefore(first, s, n)
         /\ s[n].kind = "reconfigure"
              => ProfileBefore(first, s, n + 1) = s[n].to
<1>1. n + 1 - 1 = n /\ 1..n = 1..n - 1 \cup {n} /\ n \in 1..n
  OBVIOUS
<1>2. ASSUME s[n].kind # "reconfigure"
      PROVE  Reconfigurations(s, n + 1) = Reconfigurations(s, n)
  BY <1>1, <1>2 DEF Reconfigurations
<1>3. ASSUME s[n].kind = "reconfigure"
      PROVE  /\ Reconfigurations(s, n + 1) # {}
             /\ (CHOOSE k \in Reconfigurations(s, n + 1) :
                   \A j \in Reconfigurations(s, n + 1) : j <= k) = n
  <2> DEFINE B == Reconfigurations(s, n + 1)
  <2>1. n \in B /\ \A j \in B : j \in Nat /\ j <= n
    BY <1>1, <1>3 DEF Reconfigurations
  <2> HIDE DEF B
  <2>2. \A k \in B : (\A j \in B : j <= k) => k = n
    BY <2>1
  <2>3. \E k \in B : \A j \in B : j <= k
    BY <2>1
  <2>4. (CHOOSE k \in B : \A j \in B : j <= k) = n
    BY <2>2, <2>3
  <2> QED BY <2>1, <2>4 DEF B
<1>4. \A m : ProfileBefore(first, s, m) =
        IF Reconfigurations(s, m) = {} THEN first
        ELSE s[CHOOSE k \in Reconfigurations(s, m) :
                 \A j \in Reconfigurations(s, m) : j <= k].to
  BY DEF ProfileBefore, Reconfigurations
<1> QED BY <1>2, <1>3, <1>4

(***************************************************************************)
(* Init.                                                                   *)
(***************************************************************************)
LEMMA MissionSteps ==
  ASSUME NEW s \in Missions
  PROVE  s \in Seq(Step) /\ Len(s) \in Nat \ {0}
<1>1. PICK n \in 1..MaxSteps : s \in [1..n -> Step]
  BY DEF Missions
<1>2. n \in Nat \ {0}
  BY <1>1, MissionConstants
<1> QED BY <1>1, <1>2

LEMMA InitInv == Init => MissionInv
<1> SUFFICES ASSUME Init PROVE MissionInv
  OBVIOUS
<1> USE MissionConstants
<1>1. steps \in Seq(Step) /\ Len(steps) \in Nat \ {0}
  BY MissionSteps DEF Init
<1>2. TypeOK
  <2>1. i \in 1..Len(steps) /\ still \in 0..Settle
    BY <1>1 DEF Init
  <2>2. wire \in [Costmaps -> Seq(Profiles)]
    <3>1. <<>> \in Seq(Profiles)
      OBVIOUS
    <3> QED BY <3>1 DEF Init
  <2> QED BY <2>1, <2>2 DEF Init, TypeOK
<1>3. StepInv /\ MotionInv /\ SentInv
  <2>1. 1..i - 1 = {}
    BY DEF Init
  <2> QED BY <1>1, <2>1 DEF Init, StepInv, MotionInv, SentInv, Driving,
             Reconfiguring, Reconfigured, OneMotionAtATime
<1>4. MapInv
  BY DEF Init, MapInv, Heard, Settled
<1>5. CheckedInv
  BY BeforeFirst DEF Init, CheckedInv
<1> QED BY <1>2, <1>3, <1>4, <1>5 DEF MissionInv

(***************************************************************************)
(* The steps.                                                              *)
(***************************************************************************)
OutsideSteps ==
  \/ \E c \in Costmaps : TakeFootprint(c) \/ EndCycle(c) \/ Receive(c)
  \/ Nav2 \/ ComeToRest \/ Odometry \/ Reconfigures

\* Only main changes where it is, and the step.
LEMMA OutsideSame ==
  ASSUME OutsideSteps \/ UNCHANGED vars
  PROVE  UNCHANGED <<plan, i, pc, profile, status, asked, shown>>
BY DEF OutsideSteps, TakeFootprint, EndCycle, Receive, Nav2, ComeToRest, Odometry,
       Reconfigures, vars, plan, maps, watch

LEMMA MainTypes ==
  ASSUME TypeOK, StepInv, Main
  PROVE  TypeOK'
<1> USE DEF TypeOK
<1>0. /\ Len(steps) \in Nat
      /\ \A n \in 1..Len(steps) : steps[n] \in Step
  BY DEF StepInv
<1>1. CASE Preflight
  BY <1>1 DEF Preflight, Finish, plan, maps, watch
<1>2. CASE Begin
  BY <1>2, MissionConstants DEF Begin, plan, maps, watch
<1>3. CASE SendDrive \/ DriveAnswered \/ DriveTimesOut
  BY <1>3 DEF SendDrive, DriveAnswered, DriveTimesOut, Finish, plan, maps, watch
<1>4. CASE DriveEnds
  <2>1. NextStep \/ Finish("failed")
    BY <1>4 DEF DriveEnds
  <2>2. i' \in 1..Len(steps) /\ pc' \in {"begin", "ended"}
        /\ status' \in {"succeeded", "failed", "preflight_failed"}
    BY <1>0, <2>1 DEF NextStep, Finish
  <2> QED BY <1>4, <2>2 DEF DriveEnds, plan, maps, watch
<1>5. ASSUME NEW late \in BOOLEAN, SendReconfigure(late) PROVE TypeOK'
  <2>1. steps[i].to \in Profiles
    BY <1>0, <1>5 DEF SendReconfigure, StepInv, Reconfiguring, Step
  <2> QED BY <1>5, <2>1 DEF SendReconfigure, plan, maps, watch
<1>6. CASE ReconfigureEnds
  <2>1. steps[i].to \in Profiles
    BY <1>0, <1>6 DEF ReconfigureEnds, StepInv, Reconfiguring, Step
  <2> QED BY <1>6, <2>1 DEF ReconfigureEnds, Finish, plan, maps, watch
<1>7. CASE Observe
  <2>1. CASE shown
    <3>1. NextStep
      BY <1>7, <2>1 DEF Observe, Refreshed
    <3>2. i' \in 1..Len(steps) /\ pc' \in {"begin", "ended"}
          /\ status' \in {"succeeded", "failed", "preflight_failed"}
      BY <1>0, <3>1 DEF NextStep, Finish
    <3> QED BY <1>7, <2>1, <3>2 DEF Observe, Refreshed, plan, maps
  <2>2. CASE ~shown
    BY <1>7, <2>2 DEF Observe, Refreshed, ShownFirst, plan, maps
  <2> QED BY <2>1, <2>2
<1>8. CASE RefreshTimesOut
  BY <1>8 DEF RefreshTimesOut, Finish, plan, maps, watch
<1> QED BY <1>1, <1>2, <1>3, <1>4, <1>5, <1>6, <1>7, <1>8 DEF Main

LEMMA OutsideTypes ==
  ASSUME TypeOK, MapInv, OutsideSteps \/ UNCHANGED vars
  PROVE  TypeOK'
<1> USE DEF TypeOK
<1>1. ASSUME NEW c \in Costmaps, TakeFootprint(c) \/ EndCycle(c) PROVE TypeOK'
  <2>1. wire' \in [Costmaps -> Seq(Profiles)]
    <3>1. CASE TakeFootprint(c)
      BY <3>1 DEF TakeFootprint
    <3>2. CASE EndCycle(c)
      <4>1. Append(wire[c], fp[c]) \in Seq(Profiles)
        OBVIOUS
      <4> QED BY <3>2, <4>1 DEF EndCycle
    <3> QED BY <1>1, <3>1, <3>2
  <2>2. CASE TakeFootprint(c)
    BY <2>1, <2>2 DEF TakeFootprint, plan, watch
  <2>3. CASE EndCycle(c)
    BY <2>1, <2>3 DEF EndCycle, plan, watch
  <2> QED BY <1>1, <2>2, <2>3
<1>2. ASSUME NEW c \in Costmaps, Receive(c) PROVE TypeOK'
  <2>1. Head(wire[c]) = used[c]
    BY <1>2 DEF Receive, MapInv, Heard
  <2> QED BY <1>2, <2>1 DEF Receive, plan
<1>3. CASE Nav2 \/ ComeToRest \/ Reconfigures
  BY <1>3 DEF Nav2, ComeToRest, Reconfigures, plan, maps, watch
<1>4. CASE Odometry
  BY <1>4, MissionConstants DEF Odometry, plan, maps, watch
<1>5. CASE UNCHANGED vars
  BY <1>5 DEF vars, plan, maps, watch
<1> QED BY <1>1, <1>2, <1>3, <1>4, <1>5 DEF OutsideSteps

LEMMA StepNext ==
  ASSUME TypeOK, StepInv, [Next]_vars
  PROVE  StepInv'
<1>1. CASE Main
  <2>1. steps' = steps
    BY <1>1 DEF Main, Preflight, Begin, SendDrive, DriveAnswered, DriveTimesOut,
         DriveEnds, SendReconfigure, ReconfigureEnds, Observe, RefreshTimesOut, plan
  <2>2. CASE Begin
    <3>1. steps[i].kind \in {"navigate", "reconfigure"}
      BY DEF StepInv, TypeOK, Step
    <3> QED BY <2>1, <2>2, <3>1 DEF Begin, StepInv, Driving, Reconfiguring
  <2>3. CASE ~Begin
    <3>1. pc' \in {"begin", "ended"} \/
          /\ i' = i
          /\ \/ pc' \in {"answer", "drive", "canceling"} /\ Driving
             \/ pc' \in {"reconfigure", "refresh"} /\ Reconfiguring
      BY <1>1, <2>3
         DEF Main, Preflight, SendDrive, DriveAnswered, DriveTimesOut, DriveEnds,
             SendReconfigure, ReconfigureEnds, Observe, RefreshTimesOut, Finish,
             NextStep, Refreshed, ShownFirst, Driving, Reconfiguring
    <3> QED BY <2>1, <3>1 DEF StepInv, Driving, Reconfiguring
  <2> QED BY <2>2, <2>3
<1>2. CASE OutsideSteps \/ UNCHANGED vars
  BY <1>2, OutsideSame DEF StepInv, Driving, Reconfiguring, plan
<1> QED BY <1>1, <1>2 DEF Next, OutsideSteps

\* A drive ends before the mission goes on: its goal succeeded; and so does a
\* reconfiguration.  What it gave up on may still run, but then it has ended.
LEMMA MotionNext ==
  ASSUME MotionInv, [Next]_vars
  PROVE  MotionInv'
<1> USE DEF MotionInv, OneMotionAtATime
<1>1. CASE Preflight \/ Begin \/ SendDrive \/ DriveAnswered \/ DriveTimesOut
  BY <1>1 DEF Preflight, Begin, SendDrive, DriveAnswered, DriveTimesOut, Finish
<1>2. CASE DriveEnds
  BY <1>2 DEF DriveEnds, DriveStatuses, NextStep, Finish
<1>3. CASE \E late \in BOOLEAN : SendReconfigure(late)
  BY <1>3 DEF SendReconfigure
<1>4. CASE ReconfigureEnds \/ Observe \/ RefreshTimesOut
  BY <1>4 DEF ReconfigureEnds, Observe, RefreshTimesOut, Refreshed, ShownFirst,
       NextStep, Finish
<1>5. CASE Nav2 \/ Reconfigures
  BY <1>5 DEF Nav2, Reconfigures
<1>6. CASE \/ \E c \in Costmaps : TakeFootprint(c) \/ EndCycle(c) \/ Receive(c)
           \/ ComeToRest \/ Odometry \/ UNCHANGED vars
  BY <1>6 DEF TakeFootprint, EndCycle, Receive, ComeToRest, Odometry, vars
<1> QED BY <1>1, <1>2, <1>3, <1>4, <1>5, <1>6 DEF Next, Main

LEMMA SentNext ==
  ASSUME TypeOK, StepInv, MotionInv, SentInv, [Next]_vars
  PROVE  SentInv'
<1>1. CASE Preflight
  BY <1>1 DEF Preflight, Finish, SentInv, Driving, Reconfigured, plan, TypeOK
<1>2. CASE Begin
  BY <1>2 DEF Begin, SentInv, Driving, Reconfigured, plan
<1>3. CASE SendDrive \/ DriveAnswered \/ DriveTimesOut
  BY <1>3 DEF SendDrive, DriveAnswered, DriveTimesOut, Finish, SentInv, Driving,
       Reconfigured, plan
<1>4. CASE DriveEnds
  <2>1. UNCHANGED <<steps, sent, profile>> /\ Driving
    BY <1>4 DEF DriveEnds, plan, Driving
  <2>2. CASE Finish("failed")
    BY <2>2 DEF Finish, SentInv, Driving
  <2>3. CASE NextStep
    <3>1. pc' = "ended" \/ (pc' = "begin" /\ i' = i + 1)
      BY <2>3 DEF NextStep, Finish
    <3>2. ASSUME i' = i + 1, Reconfigured' PROVE Reconfigured
      <4>1. i \in Nat
        BY DEF TypeOK
      <4>2. PICK n \in 1..i' - 1 : steps[n].kind = "reconfigure"
        BY <2>1, <3>2 DEF Reconfigured
      <4>3. n # i
        BY <2>1, <4>2 DEF StepInv
      <4> QED BY <3>2, <4>1, <4>2, <4>3 DEF Reconfigured
    <3> QED BY <2>1, <3>1, <3>2 DEF SentInv, Driving
  <2> QED BY <1>4, <2>2, <2>3 DEF DriveEnds
<1>5. ASSUME NEW late \in BOOLEAN, SendReconfigure(late) PROVE SentInv'
  BY <1>5 DEF SendReconfigure, SentInv, Driving, plan
<1>6. CASE ReconfigureEnds
  BY <1>6 DEF ReconfigureEnds, Finish, SentInv, Driving, plan
<1>7. CASE Observe \/ RefreshTimesOut
  <2>1. /\ UNCHANGED <<sent, profile>> /\ sent = profile
        /\ pc' \in {"refresh", "begin", "ended"}
    BY <1>7 DEF Observe, RefreshTimesOut, NextStep, Finish, Refreshed, ShownFirst,
         SentInv
  <2> QED BY <2>1 DEF SentInv, Driving
<1>8. CASE Reconfigures
  BY <1>8 DEF Reconfigures, SentInv, MotionInv, Driving, Reconfigured, plan
<1>9. CASE \/ \E c \in Costmaps : TakeFootprint(c) \/ EndCycle(c) \/ Receive(c)
           \/ Nav2 \/ ComeToRest \/ Odometry \/ UNCHANGED vars
  BY <1>9 DEF TakeFootprint, EndCycle, Receive, Nav2, ComeToRest, Odometry, vars,
       SentInv, Driving, Reconfigured, plan
<1> QED BY <1>1, <1>2, <1>3, <1>4, <1>5, <1>6, <1>7, <1>8, <1>9 DEF Next, Main

\* One costmap's part of MapInv.
OfMap(c) ==
  /\ Heard(c)
  /\ pc \notin {"reconfigure", "refresh", "ended"} => Settled(c)
  /\ pc = "reconfigure" /\ sent # asked => Settled(c)
  /\ pc \in {"reconfigure", "refresh"} => Catching(c)
  /\ pc = "refresh" /\ shown => Seen(c)

\* A second match, of messages received after the first had come from every
\* costmap, began after the running cycle had taken the new footprint.
LEMMA MapNext ==
  ASSUME TypeOK, MotionInv, SentInv, MapInv, [Next]_vars
  PROVE  MapInv'
<1>0. \A c \in Costmaps : OfMap(c)
  BY DEF MapInv, OfMap
<1> SUFFICES ASSUME NEW c \in Costmaps PROVE OfMap(c)'
  BY DEF MapInv, OfMap
<1>a. OfMap(c)
  BY <1>0
<1> USE DEF OfMap, Heard, Settled, Catching, Seen
<1>1. CASE Preflight \/ Begin \/ SendDrive \/ DriveAnswered \/ DriveTimesOut
           \/ DriveEnds \/ RefreshTimesOut
  <2>1. /\ UNCHANGED <<fp, used, inflated, wire, latest, newer, sent>>
        /\ pc' \in {"begin", "send", "settle", "answer", "drive", "canceling", "ended"}
        /\ pc \notin {"reconfigure", "refresh", "ended"} \/ pc' = "ended"
    BY <1>1 DEF Preflight, Begin, SendDrive, DriveAnswered, DriveTimesOut, DriveEnds,
         RefreshTimesOut, NextStep, Finish, maps, watch
  <2> QED BY <1>a, <2>1
<1>2. CASE \E late \in BOOLEAN : SendReconfigure(late)
  <2>1. /\ UNCHANGED <<fp, used, inflated, wire, latest, newer, sent>>
        /\ pc = "settle" /\ pc' = "reconfigure"
    BY <1>2 DEF SendReconfigure, maps, watch
  <2> QED BY <1>a, <2>1
<1>3. CASE ReconfigureEnds
  <2>1. /\ UNCHANGED <<fp, used, inflated, wire, sent>> /\ pc = "reconfigure"
        /\ \/ pc' = "ended" /\ UNCHANGED <<latest, newer>>
           \/ pc' = "refresh" /\ shown' = FALSE /\ latest' = latest
              /\ newer' = [d \in Costmaps |-> FALSE]
    BY <1>3 DEF ReconfigureEnds, Finish, maps, watch
  <2> QED BY <1>a, <2>1
<1>4. CASE Observe
  <2>1. /\ UNCHANGED <<fp, used, inflated, wire, latest, sent>> /\ pc = "refresh"
        /\ latest[c] = sent /\ newer[c]
    BY <1>4 DEF Observe, Applied, SentInv, maps
  <2>2. CASE shown
    <3>1. pc' \in {"begin", "ended"} /\ UNCHANGED <<newer, shown>>
      BY <1>4, <2>2 DEF Observe, Refreshed, NextStep, Finish
    <3> QED BY <1>a, <2>1, <2>2, <3>1
  <2>3. CASE ~shown
    <3>1. /\ pc' = "refresh" /\ shown' = TRUE
          /\ newer' = [d \in Costmaps |-> FALSE]
      BY <1>4, <2>1, <2>3 DEF Observe, Refreshed, ShownFirst
    <3>2. used[c] = sent /\ (wire[c] # <<>> => inflated[c] = sent)
      BY <1>a, <2>1
    <3> QED BY <1>a, <2>1, <3>1, <3>2
  <2> QED BY <2>2, <2>3
<1>5. ASSUME NEW d \in Costmaps, TakeFootprint(d) PROVE OfMap(c)'
  <2>1. /\ UNCHANGED <<pc, shown, asked, used, inflated, wire, latest, newer, sent>>
        /\ fp'[c] = fp[c] \/ fp'[c] = sent
    BY <1>5 DEF TakeFootprint, watch, TypeOK
  <2> QED BY <1>a, <2>1
<1>6. ASSUME NEW d \in Costmaps, EndCycle(d) PROVE OfMap(c)'
  <2>1. /\ UNCHANGED <<pc, shown, asked, fp, latest, newer, sent>>
    BY <1>6 DEF EndCycle, watch
  <2>2. CASE c # d
    <3>1. UNCHANGED <<used[c], inflated[c], wire[c]>>
      BY <1>6, <2>2 DEF EndCycle, TypeOK
    <3> QED BY <1>a, <2>1, <3>1
  <2>3. CASE c = d
    <3>1. wire[c] = <<>> /\ used'[c] = fp[c] /\ inflated'[c] = used[c]
      BY <1>6, <2>3 DEF EndCycle, TypeOK
    <3>2. wire' = [wire EXCEPT ![c] = Append(wire[c], fp[c])]
      BY <1>6, <2>3 DEF EndCycle
    <3>3. wire'[c] = <<fp[c]>>
      BY <3>1, <3>2 DEF TypeOK
    <3> QED BY <1>a, <2>1, <3>1, <3>3
  <2> QED BY <2>2, <2>3
<1>7. ASSUME NEW d \in Costmaps, Receive(d) PROVE OfMap(c)'
  <2>1. UNCHANGED <<pc, shown, asked, fp, used, inflated, sent>>
    BY <1>7 DEF Receive
  <2>2. CASE c # d
    <3>1. UNCHANGED <<latest[c], newer[c], wire[c]>>
      BY <1>7, <2>2 DEF Receive, TypeOK
    <3> QED BY <1>a, <2>1, <3>1
  <2>3. CASE c = d
    <3>1. wire[c] = <<used[c]>> /\ used[c] # "nothing"
      BY <1>7, <1>a, <2>3, MissionConstants DEF Receive, TypeOK
    <3>2. latest'[c] = used[c] /\ newer'[c] = TRUE
      BY <1>7, <2>3, <3>1 DEF Receive, TypeOK
    <3>3. wire' = [wire EXCEPT ![c] = Tail(wire[c])] /\ Tail(wire[c]) = <<>>
      BY <1>7, <2>3, <3>1 DEF Receive
    <3>4. wire'[c] = <<>>
      BY <3>3 DEF TypeOK
    <3> QED BY <1>a, <2>1, <3>1, <3>2, <3>4
  <2> QED BY <2>2, <2>3
<1>8. CASE Reconfigures
  <2>1. UNCHANGED <<pc, shown, asked, fp, used, inflated, wire, latest, newer>>
    BY <1>8 DEF Reconfigures, maps, watch
  <2>2. CASE sent' = sent
    BY <1>a, <2>1, <2>2
  <2>3. CASE sent' # sent
    <3>1. sent # asked /\ sent' = asked /\ pc \in {"reconfigure", "ended"}
      BY <1>8, <2>3 DEF Reconfigures, MotionInv
    <3> QED BY <1>a, <2>1, <3>1
  <2> QED BY <2>2, <2>3
<1>9. CASE Nav2 \/ ComeToRest \/ Odometry \/ UNCHANGED vars
  BY <1>9, <1>a DEF Nav2, ComeToRest, Odometry, vars, maps, watch
<1> QED BY <1>1, <1>2, <1>3, <1>4, <1>5, <1>6, <1>7, <1>8, <1>9 DEF Next, Main

LEMMA CheckedNext ==
  ASSUME TypeOK, StepInv, CheckedInv, [Next]_vars
  PROVE  CheckedInv'
<1> DEFINE Before(first) == ProfileBefore(first, steps, i)
           After(first) == ProfileBefore(first, steps, i + 1)
<1>0. i \in Nat \ {0}
  BY DEF TypeOK
<1>1. CASE UNCHANGED <<steps, i, pc, profile>>
  BY <1>1 DEF CheckedInv
<1>2. CASE pc' = "ended"
  BY <1>2 DEF CheckedInv
<1>3. CASE /\ UNCHANGED <<steps, i, profile>> /\ pc # "ended" /\ pc # "refresh"
           /\ pc' # "refresh"
  BY <1>3 DEF CheckedInv
<1>4. CASE UNCHANGED <<steps, profile>> /\ NextStep /\ (Driving \/ pc = "refresh")
  <2>1. CASE pc = "refresh"
    BY <1>4, <2>1, <1>2 DEF NextStep, Finish, CheckedInv
  <2>2. CASE Driving
    <3>1. steps[i].kind # "reconfigure"
      BY <2>2 DEF StepInv
    <3>2. \A first : After(first) = Before(first)
      BY <1>0, <3>1, BeforeNext
    <3>3. PICK first \in Profiles : Problems(first, steps) = {} /\ profile = Before(first)
      BY <1>4, <2>2 DEF CheckedInv, Driving
    <3>4. (pc' = "begin" /\ i' = i + 1) \/ pc' = "ended"
      BY <1>4 DEF NextStep, Finish
    <3> QED BY <1>2, <1>4, <3>2, <3>3, <3>4 DEF CheckedInv
  <2> QED BY <1>4, <2>1, <2>2
<1>5. CASE ReconfigureEnds /\ pc' = "refresh"
  <2>1. /\ UNCHANGED <<steps, i>> /\ profile' = steps[i].to
        /\ steps[i].kind = "reconfigure" /\ pc = "reconfigure"
    BY <1>5 DEF ReconfigureEnds, Finish, plan, StepInv, Reconfiguring
  <2>2. \A first : After(first) = steps[i].to
    BY <1>0, <2>1, BeforeNext
  <2> QED BY <1>5, <2>1, <2>2 DEF CheckedInv
<1>6. CASE Preflight \/ Begin \/ SendDrive \/ DriveAnswered \/ DriveTimesOut
           \/ RefreshTimesOut
  BY <1>2, <1>3, <1>6 DEF Preflight, Begin, SendDrive, DriveAnswered, DriveTimesOut,
     RefreshTimesOut, Finish, plan
<1>7. CASE DriveEnds
  <2>1. UNCHANGED <<steps, profile>> /\ Driving /\ (NextStep \/ pc' = "ended")
    BY <1>7 DEF DriveEnds, Finish, Driving, plan
  <2> QED BY <1>2, <1>4, <2>1
<1>8. CASE \E late \in BOOLEAN : SendReconfigure(late)
  BY <1>3, <1>8 DEF SendReconfigure, plan
<1>9. CASE ReconfigureEnds
  BY <1>2, <1>5, <1>9 DEF ReconfigureEnds, Finish
<1>10. CASE Observe
  BY <1>1, <1>4, <1>10 DEF Observe, plan
<1>11. CASE OutsideSteps \/ UNCHANGED vars
  BY <1>1, <1>11, OutsideSame DEF plan
<1> QED BY <1>6, <1>7, <1>8, <1>9, <1>10, <1>11 DEF Next, Main, OutsideSteps

\* The whole inductive invariant.
THEOREM Invariant == Spec => []MissionInv
<1>1. Init => MissionInv
  BY InitInv
<1>2. MissionInv /\ [Next]_vars => MissionInv'
  <2> SUFFICES ASSUME MissionInv, [Next]_vars PROVE MissionInv'
    OBVIOUS
  <2>1. TypeOK'
    BY MainTypes, OutsideTypes DEF MissionInv, Next, OutsideSteps
  <2> QED BY <2>1, StepNext, MotionNext, SentNext, MapNext, CheckedNext DEF MissionInv
<1> QED BY <1>1, <1>2, PTL DEF Spec

\* Every variable keeps its range.
THEOREM TypeCorrect == Spec => []TypeOK
<1>1. MissionInv => TypeOK
  BY DEF MissionInv
<1> QED BY <1>1, Invariant, PTL

\* For every mission and every map: no two motions overlap, a drive starts on
\* costmaps whose last whole cycle ran on the footprint it was checked with, and
\* its end is free for the profile the robot has by then.
THEOREM DrivesAsPlanned == Spec => []MissionDrivesAsPlanned
<1>1. MissionInv => OneMotionAtATime
  BY DEF MissionInv, MotionInv
<1>2. MissionInv => DriveOnFreshInflation
  BY DEF MissionInv, SentInv, MapInv, Settled, Driving, Reconfigured,
         DriveOnFreshInflation
<1>3. MissionInv => DrivesAsChecked
  <2> SUFFICES ASSUME MissionInv, Driving PROVE Free[profile][steps[i].pose]
    BY DEF DrivesAsChecked, Driving
  <2>1. PICK first \in Profiles : /\ Problems(first, steps) = {}
                                  /\ profile = ProfileBefore(first, steps, i)
    BY DEF MissionInv, CheckedInv, Driving
  <2>2. i \in 1..Len(steps) /\ steps[i].kind = "navigate"
    BY DEF MissionInv, TypeOK, StepInv
  <2> QED BY <2>1, <2>2 DEF Problems
<1>4. MissionInv => MissionDrivesAsPlanned
  BY <1>1, <1>2, <1>3 DEF MissionDrivesAsPlanned
<1> QED BY <1>4, Invariant, PTL

-----------------------------------------------------------------------------
(***************************************************************************)
(* The persistent obstacles in the costmap a mission drives on             *)
(* (PersistentObstacles), for every costmap and setting of the filter.     *)
(***************************************************************************)
CONSTANTS Cells, Persistence, MaxGap, Decay, Delay, MaxTime
VARIABLES now, grid, marked, master, updated, seen
Obstacles == INSTANCE PersistentObstacles

\* A set of integers with a lower bound has a least one, one with an upper bound
\* a greatest one.
LEMMA LeastExists ==
  ASSUME NEW S \in SUBSET Int, S # {}, NEW lo \in Int, \A x \in S : lo <= x
  PROVE  \E x \in S : \A y \in S : x <= y
  <1> DEFINE T == {n \in Nat : lo + n \in S}
  <1>1. T \subseteq Nat /\ T # {}
    <2>1. PICK x \in S : TRUE
      OBVIOUS
    <2>2. x - lo \in T
      BY <2>1
    <2> QED
      BY <2>2
  <1>2. PICK n \in T : \A m \in T : ~(<<m, n>> \in OpToRel(<, Nat))
    <2> HIDE DEF T
    <2> QED
      BY <1>1, NatLessThanWellFounded, WFMin, Zenon
  <1>3. \A m \in T : ~(m < n)
    BY <1>2, <1>1 DEF OpToRel
  <1>4. lo + n \in S /\ \A y \in S : y - lo \in T
    <2>1. lo + n \in S
      OBVIOUS
    <2>2. ASSUME NEW y \in S
          PROVE  y - lo \in T
      <3>1. y \in Int /\ lo <= y
        OBVIOUS
      <3>2. y - lo \in Nat /\ lo + (y - lo) = y
        BY <3>1
      <3> QED
        BY <3>2
    <2> QED
      BY <2>1, <2>2
  <1>5. \A y \in S : lo + n <= y
    BY <1>3, <1>4, <1>1
  <1> QED
    BY <1>4, <1>5

LEMMA GreatestExists ==
  ASSUME NEW S \in SUBSET Int, S # {}, NEW hi \in Int, \A x \in S : x <= hi
  PROVE  \E x \in S : \A y \in S : y <= x
  <1> DEFINE T == {-x : x \in S}
  <1>1. T \in SUBSET Int /\ T # {} /\ -hi \in Int /\ \A x \in T : -hi <= x
    <2>1. \A x \in S : x \in Int /\ x <= hi
      OBVIOUS
    <2>2. T \in SUBSET Int /\ \A x \in T : -hi <= x
      BY <2>1
    <2>3. PICK x \in S : TRUE
      OBVIOUS
    <2>4. -x \in T
      BY <2>3
    <2> QED
      BY <2>2, <2>4
  <1>2. PICK x \in T : \A y \in T : x <= y
    <2> HIDE DEF T
    <2> QED
      BY <1>1, LeastExists
  <1>3. -x \in S /\ \A y \in S : y <= -x
    BY <1>2
  <1> QED
    BY <1>3

\* The window that is rewritten holds every cell that was touched.
LEMMA WindowHolds ==
  ASSUME NEW lo \in Int, NEW hi \in Int, NEW touched \in SUBSET (lo .. hi)
  PROVE  touched \subseteq Obstacles!Window(touched)
  <1>1. CASE touched = {}
    BY <1>1
  <1>2. CASE touched # {}
    <2>1. touched \in SUBSET Int /\ \A x \in touched : lo <= x /\ x <= hi
      OBVIOUS
    <2>2. PICK least \in touched : \A y \in touched : least <= y
      BY <1>2, <2>1, LeastExists
    <2>3. PICK greatest \in touched : \A y \in touched : y <= greatest
      BY <1>2, <2>1, GreatestExists
    <2>4. /\ Obstacles!Min(touched) \in touched
          /\ \A y \in touched : Obstacles!Min(touched) <= y
      BY <2>2 DEF Obstacles!Min
    <2>5. /\ Obstacles!Max(touched) \in touched
          /\ \A y \in touched : y <= Obstacles!Max(touched)
      BY <2>3 DEF Obstacles!Max
    <2>6. touched \subseteq Obstacles!Min(touched) .. Obstacles!Max(touched)
      BY <2>1, <2>4, <2>5
    <2> QED
      BY <1>2, <2>6 DEF Obstacles!Window
  <1> QED
    BY <1>1, <1>2

-----------------------------------------------------------------------------
\* Sightings so close to each other that from any moment between two of them
\* the next one is at most the gap away.
Dense(stamps, from, to) ==
  \A x \in from .. to - 1 : \E u \in stamps : x < u /\ u - x <= MaxGap

Streaks ==
  \A c \in DOMAIN grid :
    /\ grid[c].first \in seen[c] /\ grid[c].last \in seen[c]
    /\ ~grid[c].confirmed => Dense(seen[c], grid[c].first, grid[c].last)
    /\ grid[c].confirmed =>
         \E from, to \in seen[c] : to - from >= Persistence /\ Dense(seen[c], from, to)

MarkedConfirmed ==
  /\ \A c \in marked : /\ c \in DOMAIN grid /\ grid[c].confirmed
                       /\ updated - grid[c].last <= Decay
  /\ master \subseteq marked

StreaksKept == Obstacles!TypeOK /\ Streaks /\ MarkedConfirmed

\* One more sighting at t, late or not, continues a streak or begins one.
LEMMA SightingKept ==
  ASSUME Obstacles!Parameters, StreaksKept,
         NEW c \in Cells, NEW t \in 0 .. now
  PROVE  LET after == Obstacles!Observed(c, t)
             stamps == seen[c] \cup {t}
         IN /\ after \in [first : 0 .. now, last : 0 .. now, confirmed : BOOLEAN]
            /\ after.first \in stamps /\ after.last \in stamps
            /\ ~after.confirmed => Dense(stamps, after.first, after.last)
            /\ after.confirmed =>
                 \E from, to \in stamps : to - from >= Persistence /\ Dense(stamps, from, to)
            /\ c \in DOMAIN grid => /\ grid[c].confirmed => after.confirmed
                                    /\ grid[c].last <= after.last
  <1> DEFINE cell == Obstacles!Streak(grid[c], t)
             stamps == seen[c] \cup {t}
             Good(d) == /\ d \in [first : 0 .. now, last : 0 .. now, confirmed : BOOLEAN]
                        /\ d.first \in stamps /\ d.last \in stamps
                        /\ ~d.confirmed => Dense(stamps, d.first, d.last)
                        /\ d.confirmed =>
                             \E from, to \in stamps : to - from >= Persistence /\ Dense(stamps, from, to)
  <1>0. /\ now \in Nat /\ MaxGap \in Nat /\ Persistence \in Int /\ seen[c] \in SUBSET (0 .. now)
        /\ t \in Nat
    BY DEF StreaksKept, Obstacles!TypeOK, Obstacles!Parameters
  <1>1. ASSUME NEW d, Good(d)
        PROVE  /\ Good(Obstacles!Confirm(d))
               /\ Obstacles!Confirm(d).last = d.last
               /\ d.confirmed => Obstacles!Confirm(d).confirmed
    <2> DEFINE e == Obstacles!Confirm(d)
    <2> DEFINE long == d.last - d.first >= Persistence
    <2>1. /\ e.first = d.first /\ e.last = d.last
          /\ e \in [first : 0 .. now, last : 0 .. now, confirmed : BOOLEAN]
      BY <1>1 DEF Obstacles!Confirm
    <2>2. (d.confirmed \/ long => e.confirmed) /\ (~d.confirmed /\ ~long => ~e.confirmed)
      BY <1>1 DEF Obstacles!Confirm
    <2> HIDE DEF e
    <2>4. ~e.confirmed => Dense(stamps, e.first, e.last)
      BY <2>1, <2>2, <1>1
    <2>5. e.confirmed => \E from, to \in stamps : to - from >= Persistence /\ Dense(stamps, from, to)
      BY <2>1, <2>2, <1>1
    <2> QED
      BY <2>1, <2>2, <2>4, <2>5, <1>1 DEF e
  <1>2. CASE c \notin DOMAIN grid
    <2> DEFINE new == [first |-> t, last |-> t, confirmed |-> FALSE]
    <2>1. Dense(stamps, t, t)
      BY <1>0 DEF Dense
    <2>2. Good(new)
      BY <2>1, <1>0
    <2>3. Obstacles!Observed(c, t) = Obstacles!Confirm(new)
      BY <1>2 DEF Obstacles!Observed
    <2> QED
      BY <1>1, <1>2, <2>2, <2>3
  <1>3. CASE c \in DOMAIN grid
    <2> DEFINE was == grid[c]
               broken == ~was.confirmed /\ t - was.last > MaxGap
    <2>1. /\ was \in [first : 0 .. now, last : 0 .. now, confirmed : BOOLEAN]
          /\ was.first \in seen[c] /\ was.last \in seen[c]
          /\ ~was.confirmed => Dense(seen[c], was.first, was.last)
          /\ was.confirmed =>
               \E from, to \in seen[c] : to - from >= Persistence /\ Dense(seen[c], from, to)
      BY <1>3 DEF StreaksKept, Obstacles!TypeOK, Streaks
    <2>2. /\ cell.first = (IF broken THEN t ELSE was.first)
          /\ cell.last = (IF t > was.last THEN t ELSE was.last)
          /\ cell.confirmed = was.confirmed
          /\ cell \in [first : 0 .. now, last : 0 .. now, confirmed : BOOLEAN]
      BY <2>1, <1>0 DEF Obstacles!Streak
    <2> HIDE DEF cell
    <2>3. cell.first \in stamps /\ cell.last \in stamps
      BY <2>1, <2>2
    <2>4. \A from, to \in Int : Dense(seen[c], from, to) => Dense(stamps, from, to)
      BY DEF Dense
    <2>5. ASSUME ~cell.confirmed
          PROVE  Dense(stamps, cell.first, cell.last)
      <3>1. CASE broken
        <4>1. cell.first = t /\ cell.last = t
          BY <3>1, <2>1, <2>2, <1>0
        <4> QED
          BY <4>1, <1>0 DEF Dense
      <3>2. CASE ~broken
        <4>1. cell.first = was.first /\ was.first \in Int /\ was.last \in Int /\ t - was.last <= MaxGap
          BY <2>1, <2>2, <2>5, <3>2, <1>0
        <4>2. Dense(stamps, was.first, was.last)
          BY <2>1, <2>2, <2>4, <2>5, <4>1
        <4>3. CASE t > was.last
          <5>1. cell.last = t
            BY <4>3, <2>2
          <5>2. ASSUME NEW x \in was.first .. t - 1
                PROVE  \E u \in stamps : x < u /\ u - x <= MaxGap
            <6>1. CASE x < was.last
              BY <6>1, <4>1, <4>2, <1>0 DEF Dense
            <6>2. CASE x >= was.last
              <7>1. t \in stamps /\ x < t /\ t - x <= MaxGap
                BY <6>2, <4>1, <1>0
              <7> QED
                BY <7>1
            <6> QED
              BY <6>1, <6>2, <4>1
          <5> QED
            BY <5>1, <5>2, <4>1 DEF Dense
        <4>4. CASE ~(t > was.last)
          BY <4>4, <4>1, <4>2, <2>2
        <4> QED
          BY <4>3, <4>4
      <3> QED
        BY <3>1, <3>2
    <2>6. ASSUME cell.confirmed
          PROVE  \E from, to \in stamps : to - from >= Persistence /\ Dense(stamps, from, to)
      <3>1. PICK from, to \in seen[c] : to - from >= Persistence /\ Dense(seen[c], from, to)
        BY <2>1, <2>2, <2>6
      <3>2. from \in stamps /\ to \in stamps /\ from \in Int /\ to \in Int
        BY <3>1, <1>0
      <3> QED
        BY <3>1, <3>2, <2>4
    <2>7. Good(cell)
      BY <2>2, <2>3, <2>5, <2>6
    <2>8. Obstacles!Observed(c, t) = Obstacles!Confirm(cell)
      BY <1>3 DEF Obstacles!Observed, cell
    <2>9. was.last <= cell.last
      BY <2>1, <2>2, <1>0
    <2> QED
      BY <1>1, <2>2, <2>7, <2>8, <2>9
  <1> QED
    BY <1>2, <1>3

-----------------------------------------------------------------------------
\* A cloud: the cells it does not show keep what is known of them.
LEMMA CloudKept ==
  ASSUME Obstacles!Parameters, StreaksKept,
         NEW stamp \in 0 .. MaxTime, NEW cells \in SUBSET Cells,
         Obstacles!OnCloud(stamp, cells)
  PROVE  StreaksKept'
  <1>0. /\ now \in Nat /\ stamp \in 0 .. now /\ updated \in Int
        /\ seen \in [Cells -> SUBSET (0 .. now)] /\ DOMAIN grid \subseteq Cells
        /\ now' = now /\ marked' = marked /\ master' = master /\ updated' = updated
    BY DEF StreaksKept, Obstacles!TypeOK, Obstacles!OnCloud, Obstacles!Parameters
  <1>1. /\ DOMAIN grid' = DOMAIN grid \cup cells
        /\ \A c \in cells : /\ grid'[c] = Obstacles!Observed(c, stamp)
                            /\ seen'[c] = seen[c] \cup {stamp}
        /\ \A c \in DOMAIN grid \ cells : grid'[c] = grid[c] /\ seen'[c] = seen[c]
        /\ seen' \in [Cells -> SUBSET (0 .. now)]
    BY <1>0 DEF Obstacles!OnCloud
  <1> DEFINE Good(d, stamps) ==
               /\ d \in [first : 0 .. now, last : 0 .. now, confirmed : BOOLEAN]
               /\ d.first \in stamps /\ d.last \in stamps
               /\ ~d.confirmed => Dense(stamps, d.first, d.last)
               /\ d.confirmed =>
                    \E from, to \in stamps : to - from >= Persistence /\ Dense(stamps, from, to)
  <1>2. ASSUME NEW c \in DOMAIN grid'
        PROVE  Good(grid'[c], seen'[c])
    <2>1. CASE c \in cells
      <3>1. c \in Cells /\ stamp \in 0 .. now
        BY <2>1, <1>0
      <3>2. Good(Obstacles!Observed(c, stamp), seen[c] \cup {stamp})
        BY <3>1, SightingKept
      <3>3. grid'[c] = Obstacles!Observed(c, stamp) /\ seen'[c] = seen[c] \cup {stamp}
        BY <2>1, <1>1
      <3> HIDE DEF Good
      <3> QED
        BY <3>2, <3>3
    <2>2. CASE c \notin cells
      BY <2>2, <1>1 DEF StreaksKept, Obstacles!TypeOK, Streaks
    <2> QED
      BY <2>1, <2>2
  <1>3. ASSUME NEW c \in marked
        PROVE  c \in DOMAIN grid' /\ grid'[c].confirmed /\ updated - grid'[c].last <= Decay
    <2>1. /\ c \in DOMAIN grid /\ grid[c].confirmed /\ updated - grid[c].last <= Decay
          /\ grid[c].last \in Int
      BY DEF StreaksKept, MarkedConfirmed, Obstacles!TypeOK
    <2>2. CASE c \in cells
      <3> DEFINE after == Obstacles!Observed(c, stamp)
      <3>1. c \in Cells /\ stamp \in 0 .. now
        BY <2>2, <1>0
      <3>2. /\ after \in [first : 0 .. now, last : 0 .. now, confirmed : BOOLEAN]
            /\ c \in DOMAIN grid => /\ grid[c].confirmed => after.confirmed
                                    /\ grid[c].last <= after.last
        BY <3>1, SightingKept
      <3>3. grid'[c] = after /\ c \in DOMAIN grid'
        BY <2>2, <1>1
      <3> HIDE DEF after
      <3> QED
        BY <3>2, <3>3, <2>1, <1>0 DEF Obstacles!Parameters
    <2>3. CASE c \notin cells
      BY <2>1, <2>3, <1>1
    <2> QED
      BY <2>2, <2>3
  <1>4. Obstacles!TypeOK'
    BY <1>0, <1>1, <1>2 DEF StreaksKept, Obstacles!TypeOK
  <1>5. Streaks'
    BY <1>2 DEF Streaks, Dense
  <1>6. MarkedConfirmed'
    BY <1>0, <1>3 DEF StreaksKept, MarkedConfirmed
  <1> QED
    BY <1>4, <1>5, <1>6 DEF StreaksKept

\* An update: a marked cell the grid no longer confirms was touched, and so lies
\* within the window that is rewritten.
LEMMA UpdateKept ==
  ASSUME Obstacles!Parameters, StreaksKept, Obstacles!Update
  PROVE  StreaksKept'
  <1> DEFINE Kept == {d \in DOMAIN grid : ~Obstacles!Expired(grid[d])}
             touched == Obstacles!Cleared \cup Obstacles!Obstacles
  <1>0. /\ now \in Nat /\ now' = now /\ updated' = now /\ seen' = seen
        /\ DOMAIN grid \subseteq Cells /\ Decay \in Int
        /\ \A c \in DOMAIN grid : grid[c].last \in Int
    BY DEF StreaksKept, Obstacles!TypeOK, Obstacles!Update, Obstacles!Parameters
  <1>1. DOMAIN grid' = Kept /\ \A c \in Kept : grid'[c] = grid[c]
    BY DEF Obstacles!Update, Obstacles!UpdateBounds, Obstacles!Pruned
  <1>2. /\ marked' = (marked \ Obstacles!Cleared) \cup Obstacles!Obstacles
        /\ master' = (master \ Obstacles!Window(touched)) \cup (marked' \cap Obstacles!Window(touched))
    BY DEF Obstacles!Update, Obstacles!UpdateBounds, Obstacles!UpdateCosts
  <1>3. touched \subseteq Obstacles!Window(touched)
    <2>1. touched \subseteq Cells
      BY <1>0 DEF Obstacles!Cleared, Obstacles!Obstacles
    <2>2. PICK lo \in Int, hi \in Int : Cells = lo .. hi
      BY DEF Obstacles!Parameters
    <2> HIDE DEF touched
    <2> QED
      BY <2>1, <2>2, WindowHolds
  <1>4. ASSUME NEW c \in marked'
        PROVE  c \in DOMAIN grid' /\ grid'[c].confirmed /\ updated' - grid'[c].last <= Decay
    <2>1. c \in DOMAIN grid /\ grid[c].confirmed
      BY <1>2 DEF StreaksKept, MarkedConfirmed, Obstacles!Obstacles
    <2>2. ~Obstacles!Expired(grid[c])
      <3>1. CASE c \in Obstacles!Obstacles
        BY <3>1, <2>1, <1>0 DEF Obstacles!Obstacles, Obstacles!Expired
      <3>2. CASE c \notin Obstacles!Cleared
        BY <3>2, <2>1 DEF Obstacles!Cleared
      <3> QED
        BY <3>1, <3>2, <1>2
    <2>3. now - grid[c].last <= Decay
      BY <2>1, <2>2, <1>0 DEF Obstacles!Expired
    <2> QED
      BY <2>1, <2>2, <2>3, <1>0, <1>1
  <1>5. master' \subseteq marked'
    BY <1>2, <1>3 DEF StreaksKept, MarkedConfirmed
  <1>6. Obstacles!TypeOK'
    <2>1. Obstacles!Obstacles \subseteq Cells
      BY <1>0 DEF Obstacles!Obstacles
    <2>2. marked' \subseteq Cells
      BY <2>1, <1>2 DEF StreaksKept, Obstacles!TypeOK
    <2>3. Kept \subseteq DOMAIN grid
      OBVIOUS
    <2> QED
      BY <2>2, <2>3, <1>0, <1>1, <1>5 DEF StreaksKept, Obstacles!TypeOK
  <1>7. Streaks'
    BY <1>0, <1>1 DEF StreaksKept, Streaks, Dense
  <1> QED
    BY <1>4, <1>5, <1>6, <1>7 DEF StreaksKept, MarkedConfirmed

LEMMA ObstaclesByEachStep ==
  ASSUME Obstacles!Parameters
  PROVE  StreaksKept /\ [Obstacles!Next]_Obstacles!vars => StreaksKept'
  <1> SUFFICES ASSUME StreaksKept, [Obstacles!Next]_Obstacles!vars
               PROVE  StreaksKept'
    OBVIOUS
  <1>0. MaxTime \in Nat
    BY DEF Obstacles!Parameters
  <1> USE DEF StreaksKept, Obstacles!TypeOK, Streaks, MarkedConfirmed, Dense
  <1>1. CASE Obstacles!Pass
    BY <1>0, <1>1 DEF Obstacles!Pass
  <1>2. CASE \E stamp \in 0 .. MaxTime : \E cells \in SUBSET Cells : Obstacles!OnCloud(stamp, cells)
    BY <1>2, CloudKept
  <1>3. CASE Obstacles!Update
    BY <1>3, UpdateKept
  <1>4. CASE Obstacles!Reset
    BY <1>4 DEF Obstacles!Reset
  <1>5. CASE UNCHANGED Obstacles!vars
    BY <1>5 DEF Obstacles!vars
  <1> QED
    BY <1>1, <1>2, <1>3, <1>4, <1>5 DEF Obstacles!Next

\* What is lethal in the master costmap was seen steadily for the persistence
\* time and again not longer than decay before the last update, for every
\* costmap and every setting of the filter, whatever clouds come late or twice.
THEOREM ObstaclesWereSteady ==
  ASSUME Obstacles!Parameters
  PROVE  Obstacles!Spec => []Obstacles!MarkedWasSteady
  <1>1. Obstacles!Init => StreaksKept
    BY DEF Obstacles!Init, Obstacles!Parameters, StreaksKept, Obstacles!TypeOK, Streaks,
           MarkedConfirmed
  <1>2. StreaksKept => Obstacles!MarkedWasSteady
    <2> SUFFICES ASSUME StreaksKept, NEW c \in master
                 PROVE  /\ \E from, to \in seen[c] :
                               /\ to - from >= Persistence
                               /\ Obstacles!Steady(seen[c], from, to)
                        /\ \E t \in seen[c] : updated - t <= Decay
      BY DEF Obstacles!MarkedWasSteady
    <2>1. c \in DOMAIN grid /\ grid[c].confirmed /\ updated - grid[c].last <= Decay
      BY DEF StreaksKept, MarkedConfirmed
    <2>2. /\ grid[c].last \in seen[c]
          /\ \E from, to \in seen[c] : to - from >= Persistence /\ Dense(seen[c], from, to)
      BY <2>1 DEF StreaksKept, Streaks
    <2>3. \A from, to : Dense(seen[c], from, to) => Obstacles!Steady(seen[c], from, to)
      BY DEF Dense, Obstacles!Steady
    <2> QED
      BY <2>1, <2>2, <2>3
  <1> QED
    BY <1>1, <1>2, ObstaclesByEachStep, PTL DEF Obstacles!Spec

(***************************************************************************)
(* Theorems about DemoServer: one client at a time, a session whose goals  *)
(* and records belong together, and a plant that moves for the client that *)
(* asked for it.                                                           *)
(***************************************************************************)
CONSTANTS Clients, Cap, MaxOut, HelloTimeout, MaxGoals, MaxLost, LogFails
VARIABLES client, came, inbox, controls, out, lost, quiet, greeted, running, hasRun, age,
          goals, goal, active, records, frames
Demo == INSTANCE DemoServer

DemoFrames == [kind : {"hello", "state", "event"}, for : Nat]

\* The session: the goal that is current, and a record of each before it.
SessionKept ==
  /\ goals \in Nat /\ goal \in Nat \ {0} /\ active \in BOOLEAN
  /\ records \in Seq(Demo!Outcomes) /\ frames \in Seq(DemoFrames)
  /\ goals = 0 => ~active
  /\ goals > 0 =>
       /\ goal <= goals
       /\ Len(records) = IF active THEN goal - 1 ELSE goal
       /\ \A n \in 1..goal - 1 : records[n] = "goal_reached"

\* The connection: a run goes on, and cycles are due, for a client that is there.
ConnectionKept ==
  /\ client \in Nat /\ came \in Nat
  /\ greeted \in BOOLEAN /\ running \in BOOLEAN /\ hasRun \in BOOLEAN
  /\ running => greeted
  /\ hasRun => goals > 0
  /\ pc = "cycle" => client # 0

\* The summary says what the records do.
LEMMA SummaryTrue ==
  ASSUME SessionKept
  PROVE  Demo!RecordPerGoal
  <1> SUFFICES ASSUME goals > 0
               PROVE  /\ Len(records) = IF active THEN goal - 1 ELSE goal
                      /\ Demo!SummaryReached <=> ~active /\ goal = goals /\ records[goal] = "goal_reached"
                      /\ \A n \in 1..goal - 1 : records[n] = "goal_reached"
    BY DEF Demo!RecordPerGoal
  <1>1. /\ goals \in Nat /\ goal \in Nat \ {0} /\ active \in BOOLEAN /\ goal <= goals
        /\ Len(records) = IF active THEN goal - 1 ELSE goal
        /\ \A n \in 1..goal - 1 : records[n] = "goal_reached"
    BY DEF SessionKept
  <1>2. CASE active
    BY <1>1, <1>2 DEF Demo!SummaryReached
  <1>3. CASE ~active
    <2>1. Len(records) = goal
      BY <1>1, <1>3
    <2>2. ASSUME goal = goals, records[goal] = "goal_reached", NEW n \in 1..Len(records)
          PROVE  records[n] = "goal_reached"
      BY <1>1, <2>1, <2>2
    <2> QED
      BY <1>1, <1>3, <2>1, <2>2 DEF Demo!SummaryReached
  <1> QED
    BY <1>2, <1>3

\* A goal ends: its record is added, and the next one begins if it was reached.
LEMMA FinishKept ==
  ASSUME SessionKept, active, goals > 0, NEW how \in Demo!Outcomes, Demo!Finish(how), frames' \in Seq(DemoFrames)
  PROVE  SessionKept'
  <1>1. /\ goals \in Nat /\ goal \in Nat \ {0} /\ goal <= goals /\ goals' = goals
        /\ records \in Seq(Demo!Outcomes) /\ Len(records) = goal - 1
        /\ \A n \in 1..goal - 1 : records[n] = "goal_reached"
    BY DEF SessionKept, Demo!Finish
  <1>2. /\ records' = Append(records, how) /\ records' \in Seq(Demo!Outcomes) /\ Len(records') = goal
        /\ records'[goal] = how /\ \A n \in 1..goal - 1 : records'[n] = "goal_reached"
    BY <1>1 DEF Demo!Finish
  <1>3. CASE how = "goal_reached" /\ goal < goals
    <2>1. goal' = goal + 1 /\ active' = TRUE
      <3>1. goal + 1 <= goals
        BY <1>1, <1>3
      <3> QED
        BY <1>3, <3>1, Zenon DEF Demo!Finish, Demo!start_next_goal
    <2>2. \A n \in 1..goal' - 1 : records'[n] = "goal_reached"
      BY <1>1, <1>2, <1>3, <2>1
    <2> QED
      BY <1>1, <1>2, <1>3, <2>1, <2>2 DEF SessionKept
  <1>4. CASE ~(how = "goal_reached" /\ goal < goals)
    <2>1. goal' = goal /\ active' = FALSE
      BY <1>4 DEF Demo!Finish
    <2> QED
      BY <1>1, <1>2, <2>1 DEF SessionKept
  <1> QED
    BY <1>3, <1>4

LEMMA CycleKept ==
  ASSUME SessionKept, client \in Nat, active, goals > 0, Demo!step_cycle
  PROVE  SessionKept' /\ goals' = goals
  <1>1. frames \in Seq(DemoFrames)
    BY DEF SessionKept
  <1>2. Demo!Frame("state") \in DemoFrames /\ Demo!Frame("event") \in DemoFrames
    BY DEF Demo!Frame, DemoFrames
  <1> HIDE DEF DemoFrames
  <1>5. /\ <<Demo!Frame("state")>> \in Seq(DemoFrames) /\ <<Demo!Frame("event")>> \in Seq(DemoFrames)
        /\ <<Demo!Frame("state"), Demo!Frame("event")>> \in Seq(DemoFrames) /\ <<>> \in Seq(DemoFrames)
    BY <1>2
  <1>3. CASE /\ UNCHANGED <<goals, goal, active, records>>
             /\ \/ frames' = frames \o <<Demo!Frame("state")>>
                \/ frames' = frames \o <<Demo!Frame("state"), Demo!Frame("event")>>
    <2>1. frames' \in Seq(DemoFrames)
      BY <1>1, <1>3, <1>5, ConcatProperties
    <2> QED
      BY <1>3, <2>1 DEF SessionKept
  <1>4. ASSUME NEW how \in Demo!Outcomes, Demo!Finish(how),
               frames' = frames \o (IF how = "stalled" THEN <<Demo!Frame("state")>> ELSE <<>>)
                           \o <<Demo!Frame("event")>>
        PROVE  SessionKept' /\ goals' = goals
    <2>1. frames' \in Seq(DemoFrames)
      BY <1>1, <1>4, <1>5, ConcatProperties
    <2> QED
      BY <1>4, <2>1, FinishKept DEF Demo!Finish
  <1> QED
    BY <1>3, <1>4 DEF Demo!step_cycle

\* A command: the session is only touched for a client that said hello.
LEMMA CommandKept ==
  ASSUME SessionKept, ConnectionKept, ~LogFails, NEW c, Demo!Obey(c), client # 0
  PROVE  /\ SessionKept'
         /\ UNCHANGED Demo!session \/ greeted
         /\ client' \in {0, client} /\ came' = came
         /\ greeted' \in BOOLEAN /\ running' \in BOOLEAN /\ hasRun' \in BOOLEAN
         /\ running' => greeted'
         /\ hasRun' => goals' > 0
  <1>1. CASE UNCHANGED Demo!session /\ UNCHANGED <<came, hasRun>> /\ client' \in {0, client}
             /\ (running' = running \/ running' = FALSE \/ (running' = TRUE /\ greeted))
             /\ (greeted' = greeted \/ greeted' = TRUE)
    <2>1. SessionKept'
      BY <1>1 DEF Demo!session, SessionKept
    <2>2. goals' = goals /\ hasRun' = hasRun /\ came' = came /\ client' \in {0, client}
      BY <1>1 DEF Demo!session
    <2>3. /\ running' => running \/ greeted
          /\ greeted => greeted'
      <3>1. greeted \in BOOLEAN /\ running \in BOOLEAN
        BY DEF ConnectionKept
      <3> QED
        BY <1>1, <3>1
    <2>4. greeted' \in BOOLEAN /\ running' \in BOOLEAN /\ hasRun' \in BOOLEAN
      BY <1>1, <2>2 DEF ConnectionKept
    <2>5. running => greeted
      BY DEF ConnectionKept
    <2>6. hasRun' => goals' > 0
      BY <2>2 DEF ConnectionKept
    <2> QED
      BY <1>1, <2>1, <2>2, <2>3, <2>4, <2>5, <2>6, Zenon
  <1>2. CASE /\ c = "reset" /\ Demo!Reset /\ running' = FALSE /\ hasRun' = TRUE
             /\ UNCHANGED <<Demo!socket, greeted>> /\ ~Demo!Refused(c)
    <2>1. PICK n \in 1..MaxGoals : goals' = n /\ records' = <<>> /\ goal' = 1 /\ active' = (1 <= n)
      BY <1>2 DEF Demo!Reset, Demo!start_next_goal
    <2>2. frames' \in Seq(DemoFrames)
      BY <1>2 DEF Demo!Reset, Demo!Frame, DemoFrames, ConnectionKept
    <2>3. n \in Nat \ {0} /\ 1 <= n
      OBVIOUS
    <2>4. active' = TRUE
      BY <2>1, <2>3, Zenon
    <2>5. SessionKept'
      BY <2>1, <2>2, <2>3, <2>4 DEF SessionKept
    <2>6. greeted
      BY <1>2 DEF Demo!Refused
    <2>7. client' = client /\ came' = came /\ greeted' = greeted /\ running' = FALSE /\ hasRun' = TRUE
      BY <1>2 DEF Demo!socket
    <2>8. greeted' \in BOOLEAN /\ running' \in BOOLEAN /\ hasRun' \in BOOLEAN
      <3>1. greeted \in BOOLEAN /\ FALSE \in BOOLEAN /\ TRUE \in BOOLEAN
        BY DEF ConnectionKept
      <3> QED
        BY <2>7, <3>1, Zenon
    <2>9. goals' > 0
      BY <2>1, <2>3
    <2> QED
      BY <2>5, <2>6, <2>7, <2>8, <2>9, Zenon
  <1>3. CASE c = "set_goal" /\ Demo!SetGoal /\ UNCHANGED <<Demo!socket, Demo!server>> /\ ~Demo!Refused(c)
    BY <1>3 DEF Demo!SetGoal, Demo!start_next_goal, Demo!socket, Demo!server, Demo!Refused,
                SessionKept, ConnectionKept
  <1>4. CASE /\ c = "step" /\ running' = FALSE /\ UNCHANGED <<Demo!socket, greeted, hasRun>>
             /\ active /\ Demo!step_cycle /\ ~Demo!Refused(c)
    <2>1. SessionKept' /\ goals' = goals
      BY <1>4, CycleKept DEF ConnectionKept, Demo!Refused
    <2> QED
      BY <1>4, <2>1 DEF Demo!socket, Demo!Refused, ConnectionKept
  <1>5. ASSUME Demo!Serve(c), ~Demo!Refused(c), c \notin Demo!Hellos
        PROVE  \/ /\ UNCHANGED Demo!session /\ UNCHANGED <<came, hasRun>> /\ client' = client
                  /\ running' = FALSE \/ (running' = TRUE /\ greeted)
                  /\ greeted' = greeted
               \/ /\ c = "reset" /\ Demo!Reset /\ running' = FALSE /\ hasRun' = TRUE
                  /\ UNCHANGED <<Demo!socket, greeted>> /\ ~Demo!Refused(c)
               \/ c = "set_goal" /\ Demo!SetGoal /\ UNCHANGED <<Demo!socket, Demo!server>> /\ ~Demo!Refused(c)
               \/ /\ c = "step" /\ running' = FALSE /\ UNCHANGED <<Demo!socket, greeted, hasRun>>
                  /\ active /\ Demo!step_cycle /\ ~Demo!Refused(c)
    BY <1>5 DEF Demo!Serve, Demo!ResetWithoutLog, Demo!socket, Demo!Refused
  <1>6. CASE c \notin Demo!Hellos /\ ~Demo!Refused(c) /\ Demo!Serve(c)
    BY <1>1, <1>2, <1>3, <1>4, <1>5, <1>6
  <1>7. CASE ~(c \notin Demo!Hellos /\ ~Demo!Refused(c) /\ Demo!Serve(c))
    BY <1>1, <1>7 DEF Demo!Obey, Demo!Fails, Demo!Answer, Demo!drop_client, Demo!socket, Demo!server
  <1> QED
    BY <1>6, <1>7

\* Every step keeps the session and the connection, and moves the plant only for
\* the client that is there.
LEMMA DemoByEachStep ==
  ASSUME ~LogFails, SessionKept, ConnectionKept, [Demo!Next]_Demo!vars
  PROVE  SessionKept' /\ ConnectionKept' /\ (Demo!MovesForIt \/ UNCHANGED Demo!vars)
  <1>0. /\ client \in Nat /\ came \in Nat /\ came + 1 # 0
        /\ greeted \in BOOLEAN /\ running \in BOOLEAN /\ hasRun \in BOOLEAN
        /\ (running => greeted) /\ (hasRun => goals > 0) /\ (pc = "cycle" => client # 0)
    BY DEF ConnectionKept
  <1>1. ASSUME UNCHANGED Demo!session
        PROVE  SessionKept' /\ Demo!MovesForIt /\ goals' = goals
    <2>1. Len(frames) \in Nat
      BY DEF SessionKept
    <2> QED
      BY <1>1, <2>1 DEF Demo!session, SessionKept, Demo!MovesForIt
  <1>2. CASE Demo!Accept
    <2>1. UNCHANGED Demo!session
      BY <1>2 DEF Demo!Accept
    <2>2. client' \in Nat /\ came' \in Nat /\ greeted' = FALSE /\ running' = FALSE /\ hasRun' = hasRun /\ pc' = "handle"
      BY <1>0, <1>2 DEF Demo!Accept
    <2> QED
      BY <1>0, <1>1, <2>1, <2>2 DEF ConnectionKept
  <1>3. CASE Demo!Read \/ Demo!Loses \/ (\E c \in Demo!Commands : Demo!Say(c)) \/ Demo!flush \/ Demo!Tick
    <2>1. UNCHANGED Demo!session
      BY <1>3 DEF Demo!Read, Demo!Loses, Demo!Say, Demo!flush, Demo!Tick
    <2>2. /\ client' \in Nat /\ came' \in Nat /\ UNCHANGED Demo!server
          /\ (pc' = pc /\ client' = client) \/ pc' = "handle"
      BY <1>0, <1>3 DEF Demo!Read, Demo!Loses, Demo!Say, Demo!flush, Demo!Tick, Demo!drop_client,
                        Demo!socket
    <2>3. greeted' = greeted /\ running' = running /\ hasRun' = hasRun
      BY <2>2 DEF Demo!server
    <2> QED
      BY <1>0, <1>1, <2>1, <2>2, <2>3 DEF ConnectionKept
  <1>4. CASE Demo!Handle
    <2>1. client # 0 /\ Demo!Obey(Head(controls)) /\ pc' # "cycle"
      BY <1>4 DEF Demo!Handle
    <2>2. /\ SessionKept' /\ client' \in {0, client} /\ came' = came
          /\ UNCHANGED Demo!session \/ greeted
          /\ greeted' \in BOOLEAN /\ running' \in BOOLEAN /\ hasRun' \in BOOLEAN
          /\ (running' => greeted') /\ (hasRun' => goals' > 0)
      BY <2>1, CommandKept, Zenon
    <2>3. client' \in Nat /\ came' \in Nat
      BY <1>0, <2>2
    <2>4. ConnectionKept'
      BY <2>1, <2>2, <2>3 DEF ConnectionKept
    <2>5. Demo!MovesForIt
      <3>1. CASE UNCHANGED Demo!session
        BY <3>1, <1>1
      <3>2. CASE greeted
        BY <3>2, <2>1 DEF Demo!MovesForIt
      <3> QED
        BY <2>2, <3>1, <3>2
    <2> QED
      BY <2>2, <2>4, <2>5
  <1>5. CASE Demo!AnswerLosesClient \/ Demo!Checked
    <2>1. UNCHANGED Demo!session
      BY <1>5 DEF Demo!AnswerLosesClient, Demo!Checked
    <2>2. /\ client' \in Nat /\ came' \in Nat /\ greeted' = greeted /\ hasRun' = hasRun
          /\ running' = running \/ running' = FALSE
          /\ pc' = "cycle" => client' # 0
      BY <1>0, <1>5 DEF Demo!AnswerLosesClient, Demo!Checked, Demo!drop_client, Demo!socket, Demo!server
    <2>3. /\ greeted' \in BOOLEAN /\ running' \in BOOLEAN /\ hasRun' \in BOOLEAN
          /\ (running' => greeted')
      <3>1. CASE running' = running
        BY <1>0, <2>2, <3>1
      <3>2. CASE running' = FALSE
        BY <1>0, <2>2, <3>2
      <3> QED
        BY <2>2, <3>1, <3>2
    <2>4. hasRun' => goals' > 0
      BY <1>0, <1>1, <2>1, <2>2
    <2>5. ConnectionKept'
      BY <2>2, <2>3, <2>4 DEF ConnectionKept
    <2> QED
      BY <1>1, <2>1, <2>5
  <1>6. CASE Demo!Cycle
    <2>1. pc = "cycle" /\ pc' = "forward" /\ client # 0 /\ greeted' = greeted /\ hasRun' = hasRun
      BY <1>0, <1>6 DEF Demo!Cycle
    <2>2. client' = client /\ came' = came
      BY <1>6 DEF Demo!Cycle, Demo!socket
    <2>3. CASE running /\ hasRun /\ active /\ Demo!step_cycle /\ running' = active'
      <3>1. SessionKept' /\ goals' = goals
        BY <1>0, <2>3, CycleKept
      <3>2. active' \in BOOLEAN
        BY <3>1 DEF SessionKept
      <3>3. running' \in BOOLEAN /\ greeted
        BY <1>0, <2>3, <3>2
      <3> QED
        BY <1>0, <2>1, <2>2, <3>1, <3>3 DEF ConnectionKept, Demo!MovesForIt
    <2>4. CASE UNCHANGED Demo!session /\ (running' = FALSE \/ running' = (running /\ (hasRun => active)))
      BY <1>0, <1>1, <2>1, <2>2, <2>4 DEF ConnectionKept
    <2>5. \/ running /\ hasRun /\ active /\ Demo!step_cycle /\ running' = active'
          \/ UNCHANGED Demo!session /\ (running' = FALSE \/ running' = (running /\ (hasRun => active)))
      BY <1>6 DEF Demo!Cycle
    <2> QED
      BY <2>3, <2>4, <2>5
  <1>7. CASE Demo!Forward \/ Demo!ForwardLosesClient
    <2>1. /\ frames' = <<>> /\ UNCHANGED <<goals, goal, active, records>> /\ UNCHANGED Demo!server /\ pc' = "poll"
          /\ client' \in {0, client} /\ came' = came
      BY <1>7 DEF Demo!Forward, Demo!ForwardLosesClient, Demo!drop_client, Demo!socket
    <2>2. /\ frames' \in Seq(DemoFrames) /\ Len(frames) \in Nat /\ Len(frames') = 0
      BY <2>1 DEF SessionKept
    <2>3. SessionKept' /\ Demo!MovesForIt
      BY <2>1, <2>2 DEF SessionKept, Demo!MovesForIt
    <2>4. greeted' = greeted /\ running' = running /\ hasRun' = hasRun
      BY <2>1 DEF Demo!server
    <2> QED
      BY <1>0, <2>1, <2>3, <2>4 DEF ConnectionKept
  <1>8. CASE UNCHANGED Demo!vars
    <2>1. UNCHANGED Demo!session /\ UNCHANGED Demo!server /\ pc' = pc /\ client' = client /\ came' = came
      BY <1>8 DEF Demo!vars, Demo!socket
    <2>2. greeted' = greeted /\ running' = running /\ hasRun' = hasRun
      BY <2>1 DEF Demo!server
    <2> QED
      BY <1>0, <1>1, <2>1, <2>2 DEF ConnectionKept
  <1> QED
    BY <1>2, <1>3, <1>4, <1>5, <1>6, <1>7, <1>8 DEF Demo!Next, Demo!iterate

LEMMA DemoReached ==
  ASSUME ~LogFails
  PROVE  Demo!Spec => [](SessionKept /\ ConnectionKept)
  <1>1. Demo!Init => SessionKept /\ ConnectionKept
    <2> SUFFICES ASSUME Demo!Init
                 PROVE  SessionKept /\ ConnectionKept
      OBVIOUS
    <2>1. SessionKept
      <3>1. goals = 0 /\ goal = 1 /\ active = FALSE /\ records = <<>> /\ frames = <<>>
        BY DEF Demo!Init
      <3>2. <<>> \in Seq(Demo!Outcomes) /\ <<>> \in Seq(DemoFrames)
        OBVIOUS
      <3>3. records \in Seq(Demo!Outcomes) /\ frames \in Seq(DemoFrames)
        BY <3>1, <3>2
      <3>4. goals \in Nat /\ goal \in Nat \ {0} /\ ~(goals > 0)
        BY <3>1
      <3>5. active \in BOOLEAN /\ ~active
        BY <3>1
      <3> QED
        BY <3>3, <3>4, <3>5, Zenon DEF SessionKept
    <2>2. greeted \in BOOLEAN /\ running \in BOOLEAN /\ hasRun \in BOOLEAN
      BY DEF Demo!Init
    <2>3. ~running /\ ~hasRun /\ pc = "poll" /\ client \in Nat /\ came \in Nat
      BY DEF Demo!Init
    <2>4. pc # "cycle"
      BY <2>3
    <2>5. ConnectionKept
      BY <2>2, <2>3, <2>4, Zenon DEF ConnectionKept
    <2> QED
      BY <2>1, <2>5
  <1>2. SessionKept /\ ConnectionKept /\ [Demo!Next]_Demo!vars => (SessionKept /\ ConnectionKept)'
    BY DemoByEachStep
  <1> QED
    BY <1>1, <1>2, PTL DEF Demo!Spec

\* As long as the run log's file can be opened, each goal that was begun has one
\* record or is the one that runs, and the summary says that the goals were
\* reached exactly when they were, whatever clients come and go (Session).
THEOREM RecordsTellEachGoal ==
  ASSUME ~LogFails
  PROVE  Demo!Spec => []Demo!RecordPerGoal
  <1>1. SessionKept => Demo!RecordPerGoal
    BY SummaryTrue
  <1> QED
    BY <1>1, DemoReached, PTL

\* Under the same assumption the plant only moves, and frames are only made, for
\* a client that is there and said hello (DemoServer::handle and iterate).
THEOREM PlantMovesForItsClient ==
  ASSUME ~LogFails
  PROVE  Demo!Spec => Demo!MovesForItsClient
  <1>1. SessionKept /\ ConnectionKept /\ [Demo!Next]_Demo!vars => [Demo!MovesForIt]_Demo!vars
    BY DemoByEachStep
  <1> QED
    BY <1>1, DemoReached, PTL DEF Demo!Spec, Demo!MovesForItsClient

(***************************************************************************)
(* Theorem about NavTelemetry: what is shown belongs to the goal it is     *)
(* shown with, and the log and the window keep their bounds.               *)
(***************************************************************************)
CONSTANTS Paths, Goals, Statuses, Deviations, Stamps, Threshold, Window, EventCap, MaxDrops
VARIABLES path, worst, worstOf, monitor, events, stamps, longGaps, onMap, connected, drops
Telemetry == INSTANCE NavTelemetry WITH shown <- onMap

Texts == Statuses \cup {"new plan", "goal received", "recovery", "lidar gap", "none", "stop"}

\* The goal's record, and the bounded sequences.
TelemetryKept ==
  /\ goal = [id |-> goal.id, status |-> goal.status, recoveries |-> goal.recoveries]
  /\ events \in Seq(Texts) /\ stamps \in Seq(Stamps)
  /\ Telemetry!TypeOK /\ Telemetry!WorstOfItsGoal

\* A bounded sequence stays bounded, and holds what it held and the new entry.
LEMMA BoundedIsBounded ==
  ASSUME NEW S, NEW s \in Seq(S), NEW x \in S, NEW cap \in Nat \ {0}, Len(s) <= cap
  PROVE  Telemetry!Bounded(s, x, cap) \in Seq(S) /\ Len(Telemetry!Bounded(s, x, cap)) <= cap
  <1>1. CASE Len(s) = cap
    <2>1. s # <<>> /\ Tail(s) \in Seq(S) /\ Len(Tail(s)) = cap - 1
      BY <1>1
    <2> QED
      BY <1>1, <2>1 DEF Telemetry!Bounded
  <1>2. CASE Len(s) # cap
    BY <1>2 DEF Telemetry!Bounded
  <1> QED
    BY <1>1, <1>2

LEMMA LogKept ==
  ASSUME EventCap \in Nat \ {0}, NEW log \in Seq(Texts), Len(log) <= EventCap, NEW text \in Texts,
         NEW condition \in BOOLEAN
  PROVE  /\ Telemetry!LoggedIf(condition, log, text) \in Seq(Texts)
         /\ Len(Telemetry!LoggedIf(condition, log, text)) <= EventCap
  <1>1. /\ Telemetry!Bounded(log, text, EventCap) \in Seq(Texts)
        /\ Len(Telemetry!Bounded(log, text, EventCap)) <= EventCap
    BY BoundedIsBounded
  <1> QED
    BY <1>1 DEF Telemetry!LoggedIf, Telemetry!Logged

LEMMA TelemetryByEachStep ==
  ASSUME Telemetry!Parameters, TelemetryKept, [Telemetry!Next]_Telemetry!vars
  PROVE  TelemetryKept'
  <1>0. /\ EventCap \in Nat \ {0} /\ Window \in Nat \ {0} /\ Threshold \in Nat \ {0}
        /\ Deviations \subseteq Nat /\ MaxDrops \in Nat
    BY DEF Telemetry!Parameters
  <1>1. /\ events \in Seq(Texts) /\ stamps \in Seq(Stamps) /\ Len(events) <= EventCap /\ Len(stamps) <= Window
        /\ goal.recoveries \in Nat /\ worst \in Nat /\ longGaps \in 0..2
        /\ connected \in BOOLEAN /\ drops \in 0..MaxDrops
        /\ worstOf \subseteq {goal.id} /\ (worstOf = {} => worst = 0)
        /\ goal = [id |-> goal.id, status |-> goal.status, recoveries |-> goal.recoveries]
    BY DEF TelemetryKept, Telemetry!TypeOK, Telemetry!WorstOfItsGoal
  <1> DEFINE Log == events' \in Seq(Texts) /\ Len(events') <= EventCap
  <1>l. ASSUME NEW condition \in BOOLEAN, NEW text \in Texts, events' = Telemetry!LoggedIf(condition, events, text)
        PROVE  Log
    BY <1>0, <1>1, <1>l, LogKept
  <1>2. ASSUME NEW p \in Paths, Telemetry!OnPlan(p)
        PROVE  TelemetryKept'
    <2>1. Log
      <3>1. events' = Telemetry!LoggedIf(TRUE, events, "new plan")
        BY <1>2 DEF Telemetry!OnPlan, Telemetry!Told, Telemetry!LoggedIf
      <3> QED
        BY <3>1, <1>l DEF Texts
    <2> QED
      BY <1>1, <1>2, <2>1 DEF Telemetry!OnPlan, Telemetry!unity, TelemetryKept, Telemetry!TypeOK, Telemetry!WorstOfItsGoal
  <1>3. ASSUME NEW id \in Goals, NEW said \in Statuses, Telemetry!OnStatus(id, said)
        PROVE  TelemetryKept'
    <2> DEFINE new == goal.id # <<id>>
               known == IF new THEN [id |-> <<id>>, status |-> said, recoveries |-> 0] ELSE goal
               received == Telemetry!LoggedIf(new, events, "goal received")
    <2>1. /\ goal' = [known EXCEPT !.status = said]
          /\ worst' = IF new THEN 0 ELSE worst
          /\ worstOf' = IF new THEN {} ELSE worstOf
          /\ events' = Telemetry!LoggedIf(known.status # said, received, said)
          /\ UNCHANGED <<stamps, longGaps, connected, drops>>
      BY <1>3 DEF Telemetry!OnStatus, Telemetry!Told, Telemetry!unity
    <2>2. Log
      <3>1. received \in Seq(Texts) /\ Len(received) <= EventCap
        BY <1>0, <1>1, LogKept DEF Texts
      <3>2. said \in Texts /\ (known.status # said) \in BOOLEAN
        BY DEF Texts
      <3> HIDE DEF received, known
      <3> QED
        BY <1>0, <2>1, <3>1, <3>2, LogKept
    <2>3. goal' = [id |-> <<id>>, status |-> said, recoveries |-> goal'.recoveries] /\ goal'.recoveries \in Nat
      BY <1>1, <2>1
    <2>4. worst' \in Nat /\ worstOf' \subseteq {goal'.id} /\ (worstOf' = {} => worst' = 0)
      BY <1>1, <2>1, <2>3
    <2> QED
      BY <1>1, <2>1, <2>2, <2>3, <2>4 DEF TelemetryKept, Telemetry!TypeOK, Telemetry!WorstOfItsGoal
  <1>4. ASSUME NEW recoveries \in 0..1, Telemetry!OnFeedback(recoveries)
        PROVE  TelemetryKept'
    <2>1. Log
      <3>1. \/ events' = Telemetry!LoggedIf(TRUE, events, "recovery")
            \/ events' = Telemetry!LoggedIf(FALSE, events, "recovery")
        BY <1>4 DEF Telemetry!OnFeedback, Telemetry!Told, Telemetry!LoggedIf
      <3>2. "recovery" \in Texts /\ TRUE \in BOOLEAN /\ FALSE \in BOOLEAN
        BY DEF Texts
      <3> HIDE DEF Log
      <3> QED
        BY <3>1, <3>2, <1>l
    <2>2. goal' = [id |-> goal.id, status |-> goal.status, recoveries |-> recoveries] /\ recoveries \in Nat
      BY <1>1, <1>4 DEF Telemetry!OnFeedback
    <2> QED
      BY <1>1, <1>4, <2>1, <2>2 DEF Telemetry!OnFeedback, Telemetry!unity, TelemetryKept, Telemetry!TypeOK, Telemetry!WorstOfItsGoal
  <1>5. ASSUME NEW action \in {"none", "stop"}, Telemetry!OnMonitor(action)
        PROVE  TelemetryKept'
    <2>1. Log
      <3>1. events' = Telemetry!LoggedIf(action # monitor /\ action # "none", events, action)
        BY <1>5 DEF Telemetry!OnMonitor, Telemetry!Told
      <3>2. (action # monitor /\ action # "none") \in BOOLEAN /\ action \in Texts
        BY DEF Texts
      <3> QED
        BY <3>1, <3>2, <1>l
    <2> QED
      BY <1>1, <1>5, <2>1 DEF Telemetry!OnMonitor, Telemetry!unity, TelemetryKept, Telemetry!TypeOK, Telemetry!WorstOfItsGoal
  <1>6. ASSUME longGaps < 2, NEW stamp \in Stamps, Telemetry!OnLidar(stamp)
        PROVE  TelemetryKept'
    <2> DEFINE long == stamps # <<>> /\ stamp > stamps[Len(stamps)] + Threshold
    <2>1. /\ stamps' = Telemetry!Bounded(stamps, stamp, Window)
          /\ longGaps' = IF long THEN longGaps + 1 ELSE longGaps
          /\ events' = Telemetry!LoggedIf(long, events, "lidar gap")
          /\ UNCHANGED <<goal, worst, worstOf, connected, drops>>
      BY <1>6 DEF Telemetry!OnLidar, Telemetry!Told, Telemetry!unity
    <2>2. Log
      <3>1. long \in BOOLEAN /\ "lidar gap" \in Texts
        BY DEF Texts
      <3> HIDE DEF long
      <3> QED
        BY <2>1, <3>1, <1>l
    <2>3. stamps' \in Seq(Stamps) /\ Len(stamps') <= Window
      BY <1>0, <1>1, <2>1, BoundedIsBounded
    <2>4. longGaps' \in 0..2
      <3>1. longGaps' = longGaps + 1 \/ longGaps' = longGaps
        BY <2>1
      <3> QED
        BY <1>1, <1>6, <3>1
    <2> QED
      BY <1>1, <2>1, <2>2, <2>3, <2>4 DEF TelemetryKept, Telemetry!TypeOK, Telemetry!WorstOfItsGoal
  <1>7. ASSUME NEW deviation \in Deviations, Telemetry!Publish(deviation)
        PROVE  TelemetryKept'
    <2>1. /\ worst' = deviation /\ worstOf' = worstOf \cup {goal.id} /\ goal' = goal
          /\ UNCHANGED <<events, stamps, longGaps, connected, drops>>
      BY <1>7 DEF Telemetry!Publish, Telemetry!unity
    <2>2. worstOf' \subseteq {goal'.id} /\ worstOf' # {} /\ worst' \in Nat
      BY <1>0, <1>1, <2>1
    <2> QED
      BY <1>1, <2>1, <2>2 DEF TelemetryKept, Telemetry!TypeOK, Telemetry!WorstOfItsGoal
  <1>8. CASE Telemetry!ResendPath \/ Telemetry!Disconnect \/ Telemetry!Reconnect \/ UNCHANGED Telemetry!vars
    <2>1. /\ UNCHANGED <<goal, worst, worstOf, events, stamps, longGaps>>
          /\ connected' = connected \/ connected' = FALSE \/ connected' = TRUE
          /\ drops' = drops \/ (drops < MaxDrops /\ drops' = drops + 1)
      BY <1>8 DEF Telemetry!ResendPath, Telemetry!Disconnect, Telemetry!Reconnect, Telemetry!vars,
                  Telemetry!unity
    <2>2. connected' \in BOOLEAN
      BY <1>1, <2>1
    <2>3. drops' \in 0..MaxDrops
      BY <1>0, <1>1, <2>1
    <2> QED
      BY <1>1, <2>1, <2>2, <2>3 DEF TelemetryKept, Telemetry!TypeOK, Telemetry!WorstOfItsGoal
  <1> QED
    BY <1>2, <1>3, <1>4, <1>5, <1>6, <1>7, <1>8 DEF Telemetry!Next

\* The largest deviation shown beside a goal was measured while that goal was
\* executed, the event log and the window of stamps keep their bounds, and every
\* variable its range, in whatever order the topics of Nav2 arrive (nav_telemetry_node).
THEOREM DeviationOfItsGoal ==
  ASSUME Telemetry!Parameters
  PROVE  Telemetry!FairSpec => [](Telemetry!TypeOK /\ Telemetry!WorstOfItsGoal)
  <1>1. Telemetry!Init => TelemetryKept
    <2> SUFFICES ASSUME Telemetry!Init
                 PROVE  TelemetryKept
      OBVIOUS
    <2>1. /\ goal = [id |-> <<>>, status |-> "idle", recoveries |-> 0] /\ worst = 0 /\ worstOf = {}
          /\ events = <<>> /\ stamps = <<>> /\ longGaps = 0 /\ connected = TRUE /\ drops = 0
      BY DEF Telemetry!Init, Telemetry!NoGoal
    <2>2. events \in Seq(Texts) /\ stamps \in Seq(Stamps) /\ Len(events) = 0 /\ Len(stamps) = 0
      BY <2>1
    <2>3. connected \in BOOLEAN /\ drops \in 0..MaxDrops
      BY <2>1 DEF Telemetry!Parameters
    <2> QED
      BY <2>1, <2>2, <2>3 DEF TelemetryKept, Telemetry!TypeOK, Telemetry!WorstOfItsGoal, Telemetry!Parameters
  <1>2. TelemetryKept /\ [Telemetry!Next]_Telemetry!vars => TelemetryKept'
    BY TelemetryByEachStep
  <1>3. TelemetryKept => Telemetry!TypeOK /\ Telemetry!WorstOfItsGoal
    BY DEF TelemetryKept
  <1> QED
    BY <1>1, <1>2, <1>3, PTL DEF Telemetry!FairSpec

(***************************************************************************)
(* Theorems about DynamicFootprint: for every arm, threshold and set of    *)
(* costmaps, whatever joint states, commands and plans come.               *)
(***************************************************************************)
CONSTANTS Modes, Joints, Reaches, Base, Padding, ZoneMargin, StaleAfter, MotionHold, PlanFresh,
          Judge, Launch, MaxMoves
VARIABLES mode, joints, motion, sweep, current, slowdown, zone, costmap, published, drift, moves
Footprints == INSTANCE DynamicFootprint WITH plan <- sweep

Polygons == [Joints -> Int]

\* Finitely many integers have a bound.
LEMMA BoundExists ==
  ASSUME NEW J, IsFiniteSet(J), NEW f \in [J -> Int]
  PROVE  \E hi \in Int : \A j \in J : f[j] <= hi
  <1> DEFINE Unbounded(K) == \A hi \in Int : \E j \in K : ~(f[j] <= hi)
             T == {n \in Nat : \E K \in SUBSET J :
                                 IsFiniteSet(K) /\ Cardinality(K) = n /\ Unbounded(K)}
  <1>1. ASSUME T # {} PROVE FALSE
    <2>1. PICK n \in T : \A m \in T : ~(<<m, n>> \in OpToRel(<, Nat))
      <3>1. T \subseteq Nat
        OBVIOUS
      <3> HIDE DEF T
      <3> QED
        BY <1>1, <3>1, NatLessThanWellFounded, WFMin, Zenon
    <2>2. \A m \in T : ~(m < n)
      BY <2>1 DEF OpToRel
    <2>3. PICK K \in SUBSET J : IsFiniteSet(K) /\ Cardinality(K) = n /\ Unbounded(K)
      OBVIOUS
    <2>4. PICK x \in K : ~(f[x] <= 0)
      BY <2>3
    <2>5. IsFiniteSet(K \ {x}) /\ Cardinality(K \ {x}) = n - 1
      BY <2>3, <2>4, FS_RemoveElement
    <2>6. n - 1 \in Nat
      BY <2>5, FS_CardinalityType
    <2>7. n - 1 \notin T
      BY <2>2, <2>6
    <2>8. PICK hi \in Int : \A j \in K \ {x} : f[j] <= hi
      BY <2>5, <2>6, <2>7
    <2>9. PICK top \in Int : hi <= top /\ f[x] <= top
      <3>1. f[x] \in Int /\ (hi <= f[x] \/ f[x] <= hi)
        BY <2>4
      <3>2. hi <= f[x] => \E top \in Int : hi <= top /\ f[x] <= top
        BY <3>1
      <3>3. f[x] <= hi => \E top \in Int : hi <= top /\ f[x] <= top
        BY <3>1
      <3> QED
        BY <3>1, <3>2, <3>3
    <2>10. \A j \in K : f[j] <= top
      BY <2>3, <2>8, <2>9
    <2> QED
      BY <2>3, <2>10
  <1>2. Cardinality(J) \in Nat /\ Cardinality(J) \notin T
    BY <1>1, FS_CardinalityType
  <1> QED
    BY <1>2

\* The distance of two polygons bounds their difference in each direction.
LEMMA DistanceBounds ==
  ASSUME Footprints!Parameters, NEW p \in Polygons, NEW q \in Polygons, NEW d \in Joints
  PROVE  /\ Footprints!Hausdorff(p, q) \in Int
         /\ p[d] - q[d] <= Footprints!Hausdorff(p, q) /\ q[d] - p[d] <= Footprints!Hausdorff(p, q)
  <1> DEFINE far == [e \in Joints |-> Footprints!Larger(p[e] - q[e], q[e] - p[e])]
             S == {far[e] : e \in Joints}
  <1>1. far \in [Joints -> Int]
    BY DEF Polygons, Footprints!Larger
  <1>2. IsFiniteSet(Joints)
    BY DEF Footprints!Parameters, Footprints!IsFiniteSet, IsFiniteSet
  <1>3. PICK hi \in Int : \A e \in Joints : far[e] <= hi
    <2> HIDE DEF far
    <2> QED
      BY <1>1, <1>2, BoundExists
  <1>4. Footprints!Hausdorff(p, q) = Footprints!Max(S)
    BY DEF Footprints!Hausdorff
  <1>5. S \in SUBSET Int /\ S # {} /\ \A x \in S : x <= hi
    <2> HIDE DEF far
    <2> QED
      BY <1>1, <1>3
  <1>6. \E x \in S : \A y \in S : x >= y
    <2> HIDE DEF S
    <2>1. PICK x \in S : \A y \in S : y <= x
      BY <1>5, GreatestExists
    <2>2. \A y \in S : x >= y
      BY <1>5, <2>1
    <2> QED
      BY <2>2
  <1>7. Footprints!Max(S) \in S /\ \A y \in S : Footprints!Max(S) >= y
    <2> HIDE DEF S
    <2> QED
      BY <1>6 DEF Footprints!Max
  <1>8. Footprints!Max(S) \in Int /\ far[d] \in Int /\ far[d] <= Footprints!Max(S)
    <2>1. far[d] \in S
      OBVIOUS
    <2> HIDE DEF S, far
    <2> QED
      BY <1>1, <1>5, <1>7, <2>1
  <1>9. p[d] - q[d] <= far[d] /\ q[d] - p[d] <= far[d] /\ p[d] \in Int /\ q[d] \in Int
    BY DEF Polygons, Footprints!Larger
  <1> HIDE DEF far, S
  <1> QED
    BY <1>4, <1>8, <1>9

\* What was published, and the zone that was made from it.
ShownKept ==
  /\ current # <<>> => current = <<current[1]>> /\ current[1] \in Polygons
  /\ mode = "dynamic" /\ current # <<>> => zone = <<Footprints!Offset(current[1], ZoneMargin)>>
  /\ mode = "wholebody" =>
       /\ current # <<>> => current[1] = Footprints!BaseOnly /\ slowdown # <<>>
       /\ slowdown # <<>> =>
            /\ current # <<>> /\ slowdown = <<slowdown[1]>> /\ slowdown[1] \in Polygons
            /\ zone = <<Footprints!Offset(slowdown[1], ZoneMargin)>>

FootprintInv ==
  /\ mode \in Modes /\ arm \in [Joints -> Reaches]
  /\ joints = [j \in Joints |-> [at |-> joints[j].at, age |-> joints[j].age]]
  /\ \A j \in Joints : joints[j].at \in Int
  /\ sweep # <<>> => /\ sweep = <<[hull |-> sweep[1].hull, age |-> sweep[1].age]>>
                     /\ sweep[1].hull \in Polygons
  /\ ShownKept

LEMMA FootprintInit ==
  ASSUME Footprints!Parameters, Footprints!Init
  PROVE  FootprintInv
  BY DEF Footprints!Parameters, Footprints!Init, FootprintInv, ShownKept, Footprints!None

\* The timer takes a plan as it came, until it is too old ...
LEMMA PlanPolygon ==
  ASSUME FootprintInv
  PROVE  Footprints!Aged.plan # <<>> => Footprints!Aged.plan[1].hull \in Polygons
  <1>1. Footprints!Aged.plan = IF sweep = <<>> \/ sweep[1].age = PlanFresh THEN <<>>
                               ELSE <<[sweep[1] EXCEPT !.age = @ + 1]>>
    BY DEF Footprints!Aged, Footprints!None
  <1> QED
    BY <1>1 DEF FootprintInv

\* ... and the joints as they were measured.
LEMMA MeasuredPolygons ==
  ASSUME Footprints!Parameters, FootprintInv
  PROVE  /\ Footprints!BaseOnly \in Polygons
         /\ Footprints!Footprint(Footprints!Measured(Footprints!Aged)) \in Polygons
         /\ Footprints!Swept(Footprints!Aged) \in Polygons
         /\ Footprints!Measured(Footprints!Aged) \in Polygons
  <1> DEFINE t == Footprints!Aged
  <1>1. t.joints = [j \in Joints |-> [joints[j] EXCEPT !.age = Footprints!Until(@, StaleAfter)]]
    BY DEF Footprints!Aged
  <1>2. \A j \in Joints : t.joints[j].at \in Int
    BY <1>1 DEF FootprintInv
  <1>3. t.plan # <<>> => t.plan[1].hull \in Polygons
    BY PlanPolygon
  <1>4. Base \in Int /\ Padding \in Int
    BY DEF Footprints!Parameters
  <1>5. Footprints!BaseOnly \in Polygons
    BY <1>4 DEF Footprints!BaseOnly, Polygons
  <1>6. Footprints!Measured(t) \in Polygons
    <2> HIDE DEF t
    <2> QED
      BY <1>2 DEF Footprints!Measured, Polygons
  <1>a. Footprints!Body(Footprints!Measured(t)) \in Polygons
    <2> HIDE DEF t
    <2> QED
      BY <1>4, <1>6 DEF Footprints!Body, Footprints!Larger, Polygons
  <1>b. \A p \in Polygons : Footprints!Offset(p, Padding) \in Polygons
    BY <1>4 DEF Footprints!Offset, Polygons
  <1>7. Footprints!Footprint(Footprints!Measured(t)) \in Polygons
    BY <1>a, <1>b DEF Footprints!Footprint
  <1>8. Footprints!Swept(t) \in Polygons
    <2> DEFINE body == Footprints!Body(Footprints!Measured(t))
               swept == IF t.plan # <<>> THEN Footprints!HullOf(t.plan[1].hull, body) ELSE body
    <2>1. t.plan # <<>> => Footprints!HullOf(t.plan[1].hull, body) \in Polygons
      <3> HIDE DEF t, body
      <3> QED
        BY <1>3, <1>a DEF body, Footprints!HullOf, Footprints!Larger, Polygons
    <2>2. swept \in Polygons
      BY <1>a, <2>1
    <2>3. Footprints!Swept(t) = Footprints!Offset(swept, Padding)
      BY DEF Footprints!Swept, Footprints!None
    <2> QED
      BY <1>b, <2>2, <2>3
  <1> QED
    BY <1>5, <1>6, <1>7, <1>8

\* What a tick does to what is shown: nothing, or one of the two modes
\* publishes.
PublishesDynamic ==
  /\ mode = "dynamic" /\ Footprints!Dynamic(Footprints!Aged) # <<>>
  /\ current' = <<Footprints!Dynamic(Footprints!Aged)[1]>>
  /\ zone' = <<Footprints!Offset(Footprints!Dynamic(Footprints!Aged)[1], ZoneMargin)>>

PublishesWholebody ==
  LET base == Footprints!Changed(current, Footprints!BaseOnly)
      around == Footprints!Changed(slowdown, Footprints!Swept(Footprints!Aged))
  IN /\ mode # "dynamic" /\ (base \/ around)
     /\ current' = <<IF base THEN Footprints!BaseOnly ELSE current[1]>>
     /\ slowdown' = IF around THEN <<Footprints!Swept(Footprints!Aged)>> ELSE slowdown
     /\ mode = "wholebody" => zone' = <<Footprints!Offset(slowdown'[1], ZoneMargin)>>

ShowsNothingNew ==
  /\ UNCHANGED <<current, slowdown, zone>>
  /\ \/ ~Footprints!Fresh(Footprints!Aged)
     \/ mode = "dynamic" /\ Footprints!Dynamic(Footprints!Aged) = <<>>
     \/ /\ mode # "dynamic" /\ ~Footprints!Changed(current, Footprints!BaseOnly)
        /\ ~Footprints!Changed(slowdown, Footprints!Swept(Footprints!Aged))

LEMMA TickShows ==
  ASSUME Footprints!Tick
  PROVE  /\ mode' = mode /\ arm' = arm
         /\ joints' = Footprints!Aged.joints /\ motion' = Footprints!Aged.motion
         /\ sweep' = Footprints!Aged.plan
         /\ ShowsNothingNew \/ (Footprints!Fresh(Footprints!Aged) /\ (PublishesDynamic \/ PublishesWholebody))
  <1> DEFINE t == Footprints!Aged
  <1>1. /\ mode' = mode /\ arm' = arm /\ joints' = t.joints /\ motion' = t.motion /\ sweep' = t.plan
    BY DEF Footprints!Tick
  <1>2. CASE ~Footprints!Fresh(t)
    BY <1>1, <1>2 DEF Footprints!Tick, Footprints!NothingPublished, Footprints!shown, ShowsNothingNew
  <1>3. CASE Footprints!Fresh(t) /\ mode = "dynamic"
    <2>1. IF Footprints!Dynamic(t) # <<>>
          THEN Footprints!Publish(t, Footprints!Dynamic(t)[1], <<>>, TRUE) ELSE Footprints!Repair(t)
      BY <1>3 DEF Footprints!Tick, Footprints!None
    <2> QED
      BY <1>1, <1>3, <2>1 DEF Footprints!Publish, Footprints!Repair, ShowsNothingNew, PublishesDynamic
  <1>4. CASE Footprints!Fresh(t) /\ mode # "dynamic"
    <2> DEFINE base == Footprints!Changed(current, Footprints!BaseOnly)
               around == Footprints!Changed(slowdown, Footprints!Swept(t))
    <2>1. IF base \/ around
          THEN Footprints!Publish(t, IF base THEN Footprints!BaseOnly ELSE current[1],
                                  IF around THEN <<Footprints!Swept(t)>> ELSE slowdown, base)
          ELSE Footprints!Repair(t)
      BY <1>4 DEF Footprints!Tick
    <2>2. CASE base \/ around
      BY <1>1, <1>4, <2>1, <2>2 DEF Footprints!Publish, PublishesWholebody
    <2>3. CASE ~(base \/ around)
      BY <1>1, <1>4, <2>1, <2>3 DEF Footprints!Repair, ShowsNothingNew
    <2> QED
      BY <2>2, <2>3
  <1> QED
    BY <1>1, <1>2, <1>3, <1>4

\* What the rule for dynamic footprints publishes, and what it leaves.
LEMMA DynamicPublishes ==
  ASSUME Footprints!Parameters, FootprintInv, Footprints!Dynamic(Footprints!Aged) # <<>>,
         NEW hull, hull = Footprints!Footprint(Footprints!Measured(Footprints!Aged))
  PROVE  /\ \/ /\ Footprints!Dynamic(Footprints!Aged)[1] = hull
               /\ current = <<>> \/ ~Footprints!Moving(Footprints!Aged)
            \/ /\ current # <<>> /\ current[1] \in Polygons
               /\ Footprints!Dynamic(Footprints!Aged)[1] = Footprints!HullOf(current[1], hull)
         /\ Footprints!Dynamic(Footprints!Aged)[1] \in Polygons
  <1> DEFINE t == Footprints!Aged
  <1>1. hull \in Polygons
    BY MeasuredPolygons
  <1>2. current # <<>> => current[1] \in Polygons
    BY DEF FootprintInv, ShownKept
  <1>3. \/ Footprints!Dynamic(t) = <<hull>> /\ (current = <<>> \/ ~Footprints!Moving(t))
        \/ current # <<>> /\ Footprints!Dynamic(t) = <<Footprints!HullOf(current[1], hull)>>
    <2>1. Footprints!Dynamic(t) =
            IF current = <<>> THEN <<hull>>
            ELSE IF Footprints!Moving(t)
            THEN IF Footprints!Contains(Footprints!Offset(current[1], Threshold), hull) THEN <<>>
                 ELSE <<Footprints!HullOf(current[1], hull)>>
            ELSE IF Footprints!Hausdorff(hull, current[1]) <= Threshold THEN <<>> ELSE <<hull>>
      BY DEF Footprints!Dynamic, Footprints!None
    <2>2. Footprints!Dynamic(t) # <<>>
      OBVIOUS
    <2> HIDE DEF t
    <2> QED
      BY <2>1, <2>2
  <1>4. current # <<>> => Footprints!HullOf(current[1], hull) \in Polygons
    BY <1>1, <1>2 DEF Footprints!HullOf, Footprints!Larger, Polygons
  <1> HIDE DEF t
  <1>5. /\ \/ Footprints!Dynamic(t)[1] = hull /\ (current = <<>> \/ ~Footprints!Moving(t))
           \/ /\ current # <<>> /\ current[1] \in Polygons
              /\ Footprints!Dynamic(t)[1] = Footprints!HullOf(current[1], hull)
        /\ Footprints!Dynamic(t)[1] \in Polygons
    BY <1>1, <1>2, <1>3, <1>4
  <1> QED
    BY <1>5 DEF t

LEMMA DynamicLeaves ==
  ASSUME Footprints!Parameters, FootprintInv, Footprints!Dynamic(Footprints!Aged) = <<>>,
         NEW hull, hull = Footprints!Footprint(Footprints!Measured(Footprints!Aged))
  PROVE  /\ current # <<>> /\ current[1] \in Polygons
         /\ \A d \in Joints : hull[d] <= current[1][d] + Threshold
  <1> DEFINE t == Footprints!Aged
  <1>1. hull \in Polygons /\ Threshold \in Nat
    BY MeasuredPolygons DEF Footprints!Parameters
  <1>2. /\ current # <<>>
        /\ \/ Footprints!Contains(Footprints!Offset(current[1], Threshold), hull)
           \/ Footprints!Hausdorff(hull, current[1]) <= Threshold
    <2>1. Footprints!Dynamic(t) =
            IF current = <<>> THEN <<hull>>
            ELSE IF Footprints!Moving(t)
            THEN IF Footprints!Contains(Footprints!Offset(current[1], Threshold), hull) THEN <<>>
                 ELSE <<Footprints!HullOf(current[1], hull)>>
            ELSE IF Footprints!Hausdorff(hull, current[1]) <= Threshold THEN <<>> ELSE <<hull>>
      BY DEF Footprints!Dynamic, Footprints!None
    <2>2. Footprints!Dynamic(t) = <<>>
      OBVIOUS
    <2> HIDE DEF t
    <2> QED
      BY <2>1, <2>2
  <1>3. current[1] \in Polygons
    BY <1>2 DEF FootprintInv, ShownKept
  <1>4. ASSUME NEW d \in Joints PROVE hull[d] <= current[1][d] + Threshold
    <2>1. CASE Footprints!Contains(Footprints!Offset(current[1], Threshold), hull)
      BY <1>1, <1>3, <2>1 DEF Footprints!Contains, Footprints!Offset, Polygons
    <2>2. CASE Footprints!Hausdorff(hull, current[1]) <= Threshold
      <3>1. hull[d] \in Int /\ current[1][d] \in Int
        BY <1>1, <1>3 DEF Polygons
      <3>2. Footprints!Hausdorff(hull, current[1]) \in Int
            /\ hull[d] - current[1][d] <= Footprints!Hausdorff(hull, current[1])
        BY <1>1, <1>3, DistanceBounds
      <3> QED
        BY <1>1, <2>2, <3>1, <3>2
    <2> QED
      BY <1>2, <2>1, <2>2
  <1> QED
    BY <1>2, <1>3, <1>4

LEMMA TickKeeps ==
  ASSUME Footprints!Parameters, FootprintInv, Footprints!Tick
  PROVE  FootprintInv'
  <1> DEFINE t == Footprints!Aged
  <1>1. /\ mode' \in Modes /\ arm' \in [Joints -> Reaches]
        /\ joints' = [j \in Joints |-> [at |-> joints'[j].at, age |-> joints'[j].age]]
        /\ \A j \in Joints : joints'[j].at \in Int
    <2>1. t.joints = [j \in Joints |-> [joints[j] EXCEPT !.age = Footprints!Until(@, StaleAfter)]]
      BY DEF Footprints!Aged
    <2>2. \A j \in Joints : joints[j] = [at |-> joints[j].at, age |-> joints[j].age] /\ joints[j].at \in Int
      BY DEF FootprintInv
    <2>3. \A j \in Joints :
            /\ t.joints[j] = [at |-> joints[j].at, age |-> Footprints!Until(joints[j].age, StaleAfter)]
            /\ t.joints[j].at = joints[j].at
      BY <2>1, <2>2
    <2> QED
      BY <2>1, <2>2, <2>3, TickShows DEF FootprintInv
  <1>2. sweep' # <<>> => /\ sweep' = <<[hull |-> sweep'[1].hull, age |-> sweep'[1].age]>>
                         /\ sweep'[1].hull \in Polygons
    <2>1. t.plan = IF sweep = <<>> \/ sweep[1].age = PlanFresh THEN <<>>
                   ELSE <<[sweep[1] EXCEPT !.age = @ + 1]>>
      BY DEF Footprints!Aged, Footprints!None
    <2> QED
      BY <2>1, TickShows DEF FootprintInv
  <1>3. ShownKept'
    <2>1. CASE ShowsNothingNew
      BY <2>1, TickShows DEF ShowsNothingNew, FootprintInv, ShownKept, Footprints!BaseOnly, Footprints!Offset
    <2>2. CASE PublishesDynamic
      <3>1. Footprints!Dynamic(t)[1] \in Polygons
        BY <2>2, DynamicPublishes DEF PublishesDynamic
      <3>2. mode' = "dynamic" /\ current' = <<current'[1]>> /\ current'[1] \in Polygons
            /\ zone' = <<Footprints!Offset(current'[1], ZoneMargin)>>
        BY <2>2, <3>1, TickShows DEF PublishesDynamic
      <3> QED
        BY <3>2 DEF ShownKept, Footprints!Offset
    <2>3. CASE PublishesWholebody /\ mode = "wholebody"
      <3>1. Footprints!BaseOnly \in Polygons /\ Footprints!Swept(t) \in Polygons
        BY MeasuredPolygons
      <3>2. mode' = "wholebody" /\ mode' # "dynamic"
        BY <2>3, TickShows
      <3>3. /\ current = <<>> \/ (current = <<Footprints!BaseOnly>> /\ slowdown # <<>>)
            /\ slowdown = <<>> \/ (slowdown = <<slowdown[1]>> /\ slowdown[1] \in Polygons)
        BY <2>3 DEF FootprintInv, ShownKept
      <3>4. current' = <<Footprints!BaseOnly>>
        <4>1. current = <<>> => Footprints!Changed(current, Footprints!BaseOnly)
          BY DEF Footprints!Changed, Footprints!None
        <4> QED
          BY <2>3, <3>3, <4>1 DEF PublishesWholebody
      <3>5. slowdown' # <<>> /\ slowdown' = <<slowdown'[1]>> /\ slowdown'[1] \in Polygons
        <4>1. slowdown = <<>> => Footprints!Changed(slowdown, Footprints!Swept(t))
          BY DEF Footprints!Changed, Footprints!None
        <4>2. slowdown' = <<Footprints!Swept(t)>> \/ (slowdown' = slowdown /\ slowdown # <<>>)
          BY <2>3, <4>1 DEF PublishesWholebody
        <4> QED
          BY <3>1, <3>3, <4>2
      <3>6. zone' = <<Footprints!Offset(slowdown'[1], ZoneMargin)>>
        BY <2>3 DEF PublishesWholebody
      <3> QED
        BY <3>1, <3>2, <3>4, <3>5, <3>6 DEF ShownKept, Footprints!Offset, Footprints!BaseOnly
    <2> QED
      BY <2>1, <2>2, <2>3, TickShows
      DEF FootprintInv, Footprints!Parameters, PublishesWholebody
  <1> QED
    BY <1>1, <1>2, <1>3 DEF FootprintInv

\* Every other step leaves what is shown alone.
OtherSteps ==
  \/ \E S \in SUBSET Joints : Footprints!OnJoints(S)
  \/ Footprints!OnCmdVel
  \/ \E rests \in BOOLEAN : Footprints!OnOdom(rests)
  \/ \E j \in Joints, r \in Reaches : Footprints!OnPlan([d \in Joints |-> IF d = j THEN r ELSE Base])
  \/ \E c \in Costmaps : Footprints!OnPublishedFootprint(c) \/ Footprints!Nav2Restarts(c)
  \/ Footprints!ArmMoves
  \/ UNCHANGED Footprints!vars

LEMMA OtherStepsKeep ==
  ASSUME Footprints!Parameters, FootprintInv, OtherSteps
  PROVE  FootprintInv' /\ UNCHANGED <<mode, current, slowdown, zone>>
  <1>0. Reaches \subseteq Int /\ Base \in Int
    BY DEF Footprints!Parameters
  <1>1. UNCHANGED <<mode, current, slowdown, zone>>
    BY DEF OtherSteps, Footprints!OnJoints, Footprints!OnCmdVel, Footprints!OnOdom, Footprints!OnPlan,
           Footprints!OnPublishedFootprint, Footprints!Nav2Restarts, Footprints!ArmMoves, Footprints!vars,
           Footprints!shown
  <1>2. ShownKept'
    BY <1>1 DEF FootprintInv, ShownKept, Footprints!Offset, Footprints!BaseOnly
  <1>3. ASSUME NEW S \in SUBSET Joints, Footprints!OnJoints(S) PROVE FootprintInv'
    <2>1. /\ joints' = [j \in Joints |-> IF j \in S THEN [at |-> arm[j], age |-> <<0>>] ELSE joints[j]]
          /\ UNCHANGED <<mode, arm, sweep>>
      BY <1>3 DEF Footprints!OnJoints
    <2>2. \A j \in Joints : arm[j] \in Int
      BY <1>0 DEF FootprintInv
    <2>3. \A j \in Joints : /\ joints'[j] = [at |-> joints'[j].at, age |-> joints'[j].age]
                            /\ joints'[j].at \in Int
      BY <2>1, <2>2 DEF FootprintInv
    <2> QED
      BY <1>2, <2>1, <2>3 DEF FootprintInv
  <1>4. ASSUME NEW j \in Joints, NEW r \in Reaches,
               Footprints!OnPlan([d \in Joints |-> IF d = j THEN r ELSE Base])
        PROVE  FootprintInv'
    <2>1. [d \in Joints |-> IF d = j THEN r ELSE Base] \in Polygons
      BY <1>0 DEF Polygons
    <2> QED
      BY <1>2, <1>4, <2>1 DEF FootprintInv, Footprints!OnPlan
  <1>5. CASE Footprints!ArmMoves
    BY <1>1, <1>2, <1>5 DEF Footprints!ArmMoves, Footprints!heard, FootprintInv
  <1>6. CASE \/ Footprints!OnCmdVel
             \/ \E rests \in BOOLEAN : Footprints!OnOdom(rests)
             \/ \E c \in Costmaps : Footprints!OnPublishedFootprint(c) \/ Footprints!Nav2Restarts(c)
             \/ UNCHANGED Footprints!vars
    <2>1. UNCHANGED <<mode, arm, joints, sweep>>
      BY <1>6 DEF Footprints!OnCmdVel, Footprints!OnOdom, Footprints!OnPublishedFootprint,
                  Footprints!Nav2Restarts, Footprints!vars, Footprints!heard
    <2> QED
      BY <1>1, <1>2, <2>1 DEF FootprintInv
  <1> QED
    BY <1>1, <1>3, <1>4, <1>5, <1>6 DEF OtherSteps

\* The hull a tick compares with what it published last.
Hull(t) == IF mode = "dynamic" THEN Footprints!Footprint(Footprints!Measured(t))
           ELSE Footprints!Swept(t)

\* The hull of a tick covers the measured robot and a fresh plan.
LEMMA HullCovers ==
  ASSUME Footprints!Parameters, FootprintInv, NEW p \in Footprints!Around(Footprints!Aged)
  PROVE  p \in Polygons /\ \A d \in Joints : p[d] <= Hull(Footprints!Aged)[d]
  <1> DEFINE t == Footprints!Aged
             body == Footprints!Body(Footprints!Measured(t))
  <1>1. Footprints!Footprint(Footprints!Measured(t)) \in Polygons /\ Padding \in Int
    BY MeasuredPolygons DEF Footprints!Parameters
  <1>2. body \in Polygons
    <2>1. Footprints!Footprint(Footprints!Measured(t)) = Footprints!Offset(body, Padding)
      BY DEF Footprints!Footprint
    <2>2. Footprints!Measured(t) \in Polygons
      BY MeasuredPolygons
    <2> HIDE DEF t
    <2> QED
      BY <2>2 DEF Footprints!Body, Footprints!Larger, Footprints!Parameters, Polygons
  <1>3. t.plan # <<>> => t.plan[1].hull \in Polygons
    BY PlanPolygon
  <1>4. CASE mode = "dynamic"
    <2>1. p = Footprints!Footprint(Footprints!Measured(t)) /\ Hull(t) = p
      BY <1>4 DEF Footprints!Around, Hull
    <2> HIDE DEF t
    <2> QED
      BY <1>1, <2>1 DEF Polygons, t
  <1>5. CASE mode # "dynamic" /\ t.plan = <<>>
    <2>1. p = Footprints!Footprint(Footprints!Measured(t)) /\ Hull(t) = p
      BY <1>5 DEF Footprints!Around, Footprints!Swept, Footprints!Footprint, Footprints!None, Hull
    <2> HIDE DEF t
    <2> QED
      BY <1>1, <2>1 DEF Polygons, t
  <1>6. CASE mode # "dynamic" /\ t.plan # <<>>
    <2> DEFINE hull == t.plan[1].hull
    <2>1. p \in {Footprints!Offset(body, Padding), Footprints!Offset(hull, Padding)}
      BY <1>6 DEF Footprints!Around, Footprints!Footprint, Footprints!None
    <2>2. Hull(t) = Footprints!Offset(Footprints!HullOf(hull, body), Padding)
      BY <1>6 DEF Footprints!Swept, Footprints!None, Hull
    <2>3. hull \in Polygons
      BY <1>3, <1>6
    <2>4. p \in Polygons /\ \A d \in Joints : p[d] <= Hull(t)[d]
      <3> HIDE DEF t, hull, body
      <3> QED
        BY <1>1, <1>2, <2>1, <2>2, <2>3
        DEF Footprints!Offset, Footprints!HullOf, Footprints!Larger, Polygons
    <2> QED
      BY <2>4
  <1> QED
    BY <1>4, <1>5, <1>6

\* A footprint and a zone that a tick leaves or makes cover its hull.
LEMMA TickCovers ==
  ASSUME Footprints!Parameters, FootprintInv, Footprints!Tick, Footprints!Fresh(Footprints!Aged)
  PROVE  /\ Footprints!Contains(Footprints!Offset(zone'[1], Threshold),
                                Footprints!Offset(Hull(Footprints!Aged), ZoneMargin))
         /\ \A d \in Joints : Footprints!Offset(zone'[1], Threshold)[d] \in Int
  <1> DEFINE t == Footprints!Aged
             hull == Footprints!Footprint(Footprints!Measured(t))
             swept == Footprints!Swept(t)
             Near(p, q) == \A d \in Joints : q[d] <= p[d] + Threshold
  <1>1. hull \in Polygons /\ swept \in Polygons /\ Footprints!BaseOnly \in Polygons
    BY MeasuredPolygons
  <1>2. Threshold \in Nat /\ ZoneMargin \in Nat
    BY DEF Footprints!Parameters
  <1>3. ASSUME NEW p \in Polygons, NEW q \in Polygons, Near(p, q),
               zone' = <<Footprints!Offset(p, ZoneMargin)>>, Hull(t) = q
        PROVE  /\ Footprints!Contains(Footprints!Offset(zone'[1], Threshold),
                                      Footprints!Offset(Hull(t), ZoneMargin))
               /\ \A d \in Joints : Footprints!Offset(zone'[1], Threshold)[d] \in Int
    <2>1. \A d \in Joints : p[d] \in Int /\ q[d] \in Int /\ q[d] <= p[d] + Threshold
      BY <1>3 DEF Polygons
    <2>2. \A d \in Joints :
            /\ Footprints!Offset(zone'[1], Threshold)[d] = p[d] + ZoneMargin + Threshold
            /\ Footprints!Offset(Hull(t), ZoneMargin)[d] = q[d] + ZoneMargin
      <3> HIDE DEF t
      <3> QED
        BY <1>3, <2>1 DEF Footprints!Offset
    <2> QED
      BY <1>2, <2>1, <2>2 DEF Footprints!Contains
  <1>4. CASE mode = "dynamic"
    <2>1. Hull(t) = hull
      BY <1>4 DEF Hull
    <2>2. CASE Footprints!Dynamic(t) # <<>>
      <3> DEFINE p == Footprints!Dynamic(t)[1]
      <3>1. p \in Polygons
        BY <2>2, DynamicPublishes
      <3>2. zone' = <<Footprints!Offset(p, ZoneMargin)>>
        BY <1>4, <2>2, TickShows DEF ShowsNothingNew, PublishesDynamic, PublishesWholebody
      <3>3. p = hull \/ (current[1] \in Polygons /\ p = Footprints!HullOf(current[1], hull))
        BY <2>2, DynamicPublishes
      <3>4. \A d \in Joints : hull[d] <= p[d]
        <4> HIDE DEF t, hull, p
        <4> QED
          BY <1>1, <3>3 DEF Polygons, Footprints!HullOf, Footprints!Larger
      <3>5. Near(p, hull)
        <4> HIDE DEF t, hull, p
        <4> QED
          BY <1>1, <1>2, <3>1, <3>4 DEF Polygons
      <3> QED
        BY <1>1, <1>3, <2>1, <3>1, <3>2, <3>5
    <2>3. CASE Footprints!Dynamic(t) = <<>>
      <3>1. current # <<>> /\ Near(current[1], hull) /\ current[1] \in Polygons
        BY <2>3, DynamicLeaves
      <3>2. zone' = <<Footprints!Offset(current[1], ZoneMargin)>>
        <4>1. zone' = zone
          BY <1>4, <2>3, TickShows DEF ShowsNothingNew, PublishesDynamic, PublishesWholebody
        <4> QED
          BY <1>4, <3>1, <4>1 DEF FootprintInv, ShownKept
      <3> QED
        BY <1>1, <1>3, <2>1, <3>1, <3>2
    <2> QED
      BY <2>2, <2>3
  <1>5. CASE mode = "wholebody"
    <2> DEFINE base == Footprints!Changed(current, Footprints!BaseOnly)
               around == Footprints!Changed(slowdown, swept)
    <2>1. Hull(t) = swept
      BY <1>5 DEF Hull
    <2>2. /\ slowdown' = IF around THEN <<swept>> ELSE slowdown
          /\ slowdown # <<>> \/ around => zone' = <<Footprints!Offset(slowdown'[1], ZoneMargin)>>
      <3>1. CASE ShowsNothingNew
        BY <1>5, <3>1 DEF ShowsNothingNew, FootprintInv, ShownKept
      <3>2. CASE PublishesWholebody
        BY <1>5, <3>2 DEF PublishesWholebody
      <3> QED
        BY <1>5, <3>1, <3>2, TickShows DEF PublishesDynamic
    <2>3. CASE around
      <3>1. Near(swept, swept)
        <4> HIDE DEF t, swept
        <4> QED
          BY <1>1, <1>2 DEF Polygons
      <3> QED
        BY <1>1, <1>3, <2>1, <2>2, <2>3, <3>1
    <2>4. CASE ~around
      <3>1. slowdown # <<>> /\ slowdown[1] \in Polygons
        BY <1>5, <2>4 DEF Footprints!Changed, Footprints!None, FootprintInv, ShownKept
      <3>2. Near(slowdown[1], swept)
        <4>1. ~(Footprints!Hausdorff(slowdown[1], swept) > Threshold)
          BY <2>4 DEF Footprints!Changed
        <4> HIDE DEF t, swept
        <4>2. ASSUME NEW d \in Joints
              PROVE  /\ Footprints!Hausdorff(slowdown[1], swept) \in Int
                     /\ swept[d] - slowdown[1][d] <= Footprints!Hausdorff(slowdown[1], swept)
                     /\ swept[d] \in Int /\ slowdown[1][d] \in Int
          BY <1>1, <3>1, DistanceBounds DEF Polygons
        <4> QED
          BY <1>2, <4>1, <4>2
      <3>3. slowdown' = slowdown /\ zone' = <<Footprints!Offset(slowdown[1], ZoneMargin)>>
        BY <2>2, <2>4, <3>1
      <3> QED
        BY <1>1, <1>3, <2>1, <3>1, <3>2, <3>3
    <2> QED
      BY <2>3, <2>4
  <1> QED
    BY <1>4, <1>5 DEF FootprintInv, Footprints!Parameters

\* So does every shape the hull covers.
LEMMA TickCoversAll ==
  ASSUME Footprints!Parameters, FootprintInv
  PROVE  Footprints!Covers
  <1> DEFINE t == Footprints!Aged
  <1> SUFFICES ASSUME Footprints!Fresh(t), Footprints!Tick, NEW p \in Footprints!Around(t)
               PROVE  Footprints!Contains(Footprints!Offset(zone'[1], Threshold),
                                          Footprints!Offset(p, ZoneMargin))
    BY DEF Footprints!Covers
  <1>1. \A d \in Joints : Footprints!Offset(Hull(t), ZoneMargin)[d]
                           <= Footprints!Offset(zone'[1], Threshold)[d]
    BY TickCovers DEF Footprints!Contains
  <1>2. p \in Polygons /\ \A d \in Joints : p[d] <= Hull(t)[d]
    BY HullCovers
  <1>3. Hull(t) \in Polygons /\ ZoneMargin \in Int /\ Threshold \in Int
    BY MeasuredPolygons DEF Hull, Footprints!Parameters
  <1>4. \A d \in Joints : Footprints!Offset(zone'[1], Threshold)[d] \in Int
    BY TickCovers
  <1> HIDE DEF t
  <1> QED
    BY <1>1, <1>2, <1>3, <1>4 DEF Footprints!Contains, Footprints!Offset, Polygons

\* What a tick loses of the footprint, it loses at rest and with fresh joints.
LEMMA TickShrinks ==
  ASSUME Footprints!Parameters, FootprintInv, Footprints!Tick
  PROVE  Footprints!Shrinks
  <1> DEFINE t == Footprints!Aged
             hull == Footprints!Footprint(Footprints!Measured(t))
  <1> SUFFICES ASSUME current # <<>>, ~Footprints!Contains(current'[1], current[1])
               PROVE  mode = "dynamic" /\ motion' = <<>> /\ \A j \in Joints : joints'[j].age # <<>>
    BY DEF Footprints!Shrinks, Footprints!None
  <1>1. current[1] \in Polygons /\ hull \in Polygons
    BY MeasuredPolygons DEF FootprintInv, ShownKept
  <1>2. Footprints!Contains(current[1], current[1])
    BY <1>1 DEF Footprints!Contains, Polygons
  <1>3. ~ShowsNothingNew
    BY <1>2 DEF ShowsNothingNew
  <1>4. Footprints!Fresh(t)
    BY <1>3, TickShows
  <1>5. \A j \in Joints : joints'[j].age # <<>>
    BY <1>4, TickShows DEF Footprints!Fresh, Footprints!None
  <1>6. CASE PublishesDynamic
    <2>1. current'[1] = Footprints!Dynamic(t)[1]
      BY <1>6 DEF PublishesDynamic
    <2>2. Footprints!Contains(Footprints!HullOf(current[1], hull), current[1])
      <3> HIDE DEF hull
      <3> QED
        BY <1>1 DEF Footprints!Contains, Footprints!HullOf, Footprints!Larger, Polygons
    <2>3. ~Footprints!Moving(t)
      BY <1>6, <2>1, <2>2, DynamicPublishes DEF PublishesDynamic
    <2> QED
      BY <1>5, <1>6, <2>3, TickShows DEF Footprints!Moving, Footprints!None, PublishesDynamic
  <1>7. CASE PublishesWholebody
    <2>1. mode = "wholebody"
      BY <1>7 DEF PublishesWholebody, FootprintInv, Footprints!Parameters
    <2>2. current[1] = Footprints!BaseOnly
      BY <2>1 DEF FootprintInv, ShownKept
    <2>3. current'[1] = current[1]
      BY <1>7, <2>2 DEF PublishesWholebody
    <2> QED
      BY <1>2, <2>3
  <1> QED
    BY <1>3, <1>6, <1>7, TickShows

LEMMA FootprintByEachStep ==
  ASSUME Footprints!Parameters, FootprintInv, [Footprints!Next]_Footprints!vars
  PROVE  FootprintInv' /\ Footprints!Covers /\ Footprints!Shrinks
  <1>1. Footprints!Tick \/ OtherSteps
    BY DEF Footprints!Next, OtherSteps
  <1>2. Footprints!Covers
    BY TickCoversAll
  <1>3. CASE Footprints!Tick
    BY <1>2, <1>3, TickKeeps, TickShrinks
  <1>4. CASE OtherSteps
    <2>1. FootprintInv' /\ current' = current
      BY <1>4, OtherStepsKeep
    <2>2. Footprints!Shrinks
      BY <2>1 DEF Footprints!Shrinks, Footprints!Contains, FootprintInv, ShownKept, Polygons, Footprints!None
    <2> QED
      BY <1>2, <2>1, <2>2
  <1> QED
    BY <1>1, <1>3, <1>4

\* A tick on fresh joints leaves a zone around the measured robot, and around a
\* plan still fresh, up to the threshold; the footprint shrinks at rest only, with
\* all joints fresh, and never in whole-body mode: for every arm and threshold,
\* whatever joint states, commands and plans come (dynamic_footprint.cpp:90-157).
THEOREM FootprintsCoverTheRobot ==
  ASSUME Footprints!Parameters
  PROVE  Footprints!Spec => Footprints!CoversTheRobot /\ Footprints!ShrinksOnlyAtRest
  <1>1. Footprints!Init => FootprintInv
    BY FootprintInit
  <1>2. FootprintInv /\ [Footprints!Next]_Footprints!vars => FootprintInv'
    BY FootprintByEachStep
  <1>3. FootprintInv /\ [Footprints!Next]_Footprints!vars => [Footprints!Covers]_Footprints!vars
    BY FootprintByEachStep
  <1>4. FootprintInv /\ [Footprints!Next]_Footprints!vars => [Footprints!Shrinks]_Footprints!vars
    BY FootprintByEachStep
  <1> QED
    BY <1>1, <1>2, <1>3, <1>4, PTL
    DEF Footprints!Spec, Footprints!CoversTheRobot, Footprints!ShrinksOnlyAtRest
=============================================================================
