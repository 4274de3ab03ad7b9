------------------------- MODULE ArmRecoveryProofs -------------------------
(***************************************************************************)
(* What the arm's hardware, its supervisor and the controller manager keep *)
(* of each other, proved for every timeout and whatever the manager and    *)
(* Unity do.                                                               *)
(***************************************************************************)
EXTENDS ArmRecovery, TLAPS

Hardware ==
  [active : BOOLEAN, claimed : BOOLEAN, fault : BOOLEAN, have : BOOLEAN,
   age : 0..Timeout, rel : Relations, cmd : Relations]

\* The controllers are active exactly while they claim the arm, and only on an
\* active component without a fault, whose interface is active too.
ArmInv ==
  /\ ctrl = hw.claimed
  /\ ctrl => component = "active"
  /\ component = "active" => hw.active /\ ~hw.fault

\* A request to activate is only under way while the component is inactive: what
\* the supervisor has seen can be late, but the component only goes down without it.
RequestInv ==
  /\ sup.phase = "set" => component = "inactive"
  /\ sup.phase = "listed" /\ sup.seen = "inactive" => component = "inactive"

RecoveryInv == TypeOK /\ ArmInv /\ RequestInv

\* What the constants are, one by one.
LEMMA Parameters ==
  /\ Timeout \in Nat /\ Timeout > 0
  /\ MaxGap \in Nat /\ MaxGap > 0
  /\ FreshFor \in Nat /\ FreshFor > 0
  /\ Retry \in Nat /\ Retry > 0
  /\ ActivationWait \in Nat /\ ActivationWait > 0
  /\ NoState \in Nat
  <1>1. \A n \in {Timeout, MaxGap, FreshFor, Retry, ActivationWait} : n \in Nat /\ n > 0
    BY RecoveryAssumption
  <1>2. /\ Timeout \in {Timeout, MaxGap, FreshFor, Retry, ActivationWait}
        /\ MaxGap \in {Timeout, MaxGap, FreshFor, Retry, ActivationWait}
        /\ FreshFor \in {Timeout, MaxGap, FreshFor, Retry, ActivationWait}
        /\ Retry \in {Timeout, MaxGap, FreshFor, Retry, ActivationWait}
        /\ ActivationWait \in {Timeout, MaxGap, FreshFor, Retry, ActivationWait}
    OBVIOUS
  <1> QED
    BY <1>1, <1>2 DEF NoState

-----------------------------------------------------------------------------
(***************************************************************************)
(* The parts of a cycle.                                                   *)
(***************************************************************************)

\* A message that is received changes neither the claim nor the commands.
LEMMA ReceivedKept ==
  ASSUME NEW h \in Hardware
  PROVE  /\ Received(h) \in Hardware
         /\ Received(h).active = h.active /\ Received(h).claimed = h.claimed
         /\ Received(h).cmd = h.cmd /\ (h.fault => Received(h).fault)
  <1>1. CASE ~box["hardware"] \/ ~whole \/ h.rel = "same"
    BY <1>1 DEF Received
  <1>2. CASE ~(~box["hardware"] \/ ~whole \/ h.rel = "same") /\ h.rel = "older"
    <2>1. Received(h) = [h EXCEPT !.fault = TRUE]
      BY <1>2 DEF Received
    <2> QED
      BY <2>1 DEF Hardware
  <1>3. CASE ~(~box["hardware"] \/ ~whole \/ h.rel = "same") /\ h.rel # "older"
    <2>1. Received(h) = [h EXCEPT !.rel = "same", !.age = 0, !.have = TRUE]
      BY <1>3 DEF Received
    <2>2. 0 \in 0..Timeout /\ "same" \in Relations
      BY Parameters DEF Relations
    <2> QED
      BY <2>1, <2>2 DEF Hardware
  <1> QED
    BY <1>1, <1>2, <1>3

\* A deactivated interface neither claims nor moves.
LEMMA DeactivatedKept ==
  ASSUME NEW h \in Hardware, NEW calls \in BOOLEAN
  PROVE  /\ Deactivated(h, calls) \in Hardware
         /\ Deactivated(h, calls).fault = h.fault /\ Deactivated(h, calls).cmd = h.cmd
         /\ ~h.claimed => ~Deactivated(h, calls).claimed
  BY DEF Deactivated, Hardware

\* What a write leaves: it sends for an arm that is claimed and fresh only, and an
\* invalid command is a fault that gives the claim up.
LEMMA WrittenKept ==
  ASSUME NEW h \in Hardware, NEW valid \in BOOLEAN
  PROVE  /\ Written(h, valid) \in Hardware
         /\ Written(h, valid).active = h.active
         /\ Written(h, valid).fault /\ ~h.fault => ~Written(h, valid).claimed
         /\ h.fault => Written(h, valid).fault
         /\ ~Written(h, valid).fault => /\ Written(h, valid).claimed = h.claimed
                                        /\ Fresh(h) => Fresh(Written(h, valid))
         /\ Written(h, valid).claimed => h.claimed
         /\ Written(h, valid).cmd # h.cmd => WriteSends(h) /\ ~Written(h, valid).fault
  BY DEF Written, WriteSends, Fresh, Hardware, Relations

-----------------------------------------------------------------------------
(***************************************************************************)
(* The manager's cycle: what it leaves of the arm, and what it sends.      *)
(***************************************************************************)
LEMMA CycleKept ==
  ASSUME RecoveryInv, NEW far \in BOOLEAN, NEW valid \in BOOLEAN, NEW answers \in BOOLEAN,
         NEW refuses \in BOOLEAN, NEW calls \in BOOLEAN,
         Cycle(far, valid, answers, refuses, calls)
  PROVE  /\ hw' \in Hardware /\ component' \in {"active", "inactive"} /\ ctrl' \in BOOLEAN
         /\ ArmInv'
         /\ component = "inactive" => component' = "inactive"
         /\ CommandsSent => ctrl' /\ component' = "active"
         /\ hw'.claimed /\ ~hw.claimed => Fresh(hw')
  <1> DEFINE h == Received(hw)
             failed == ReadFails(h, far)
             ok == answers /\ ~refuses /\ ~failed /\ component = "active"
             w == Written(Switched(h, ok), valid)
             error == failed \/ (w.fault /\ ~h.fault)
             gone == [h EXCEPT !.claimed = FALSE]
  <1>1. /\ hw' = IF failed THEN Deactivated(gone, calls)
                 ELSE IF error THEN Deactivated(w, calls) ELSE w
        /\ component' = IF error THEN "inactive" ELSE component
        /\ ctrl' = ((ctrl \/ ok) /\ ~error)
    BY DEF Cycle
  <1>2. hw \in Hardware /\ component \in {"active", "inactive"} /\ ctrl \in BOOLEAN
        /\ ArmInv
    BY DEF RecoveryInv, TypeOK, Hardware
  <1>3. /\ h \in Hardware /\ h.active = hw.active /\ h.claimed = hw.claimed
        /\ h.cmd = hw.cmd /\ (hw.fault => h.fault)
    BY <1>2, ReceivedKept
  <1>4. component = "active" /\ ~failed => Fresh(h)
    BY <1>2, <1>3, Parameters DEF ArmInv, ReadFails, Stale, Fresh, Hardware
  <1>5. failed \in BOOLEAN /\ ok \in BOOLEAN
    BY <1>3 DEF ReadFails, Stale, Hardware
  <1> HIDE DEF h, failed, ok
  <1> DEFINE s == Switched(h, ok)
  <1>6. /\ s \in Hardware /\ s.active = h.active /\ s.fault = h.fault /\ s.cmd = h.cmd
        /\ (Fresh(h) => Fresh(s)) /\ (s.claimed <=> h.claimed \/ ok)
    <2>1. CASE ok
      <3>1. s = [h EXCEPT !.claimed = TRUE]
        BY <2>1 DEF Switched
      <3> QED
        BY <1>3, <2>1, <3>1 DEF Hardware, Fresh
    <2>2. CASE ~ok
      <3>1. s = h
        BY <2>2 DEF Switched
      <3> QED
        BY <1>3, <1>5, <2>2, <3>1 DEF Hardware
    <2> QED
      BY <2>1, <2>2
  <1> HIDE DEF s
  <1>7. w \in Hardware /\ w.active = s.active /\ (w.fault /\ ~s.fault => ~w.claimed)
        /\ (s.fault => w.fault) /\ (w.claimed => s.claimed)
        /\ (~w.fault => w.claimed = s.claimed /\ (Fresh(s) => Fresh(w)))
        /\ (w.cmd # s.cmd => WriteSends(s) /\ ~w.fault)
    BY <1>6, WrittenKept DEF s
  <1> HIDE DEF w
  <1>8. CASE failed
    <2>1. gone \in Hardware /\ ~gone.claimed /\ gone.cmd = h.cmd
      BY <1>3 DEF Hardware
    <2>2. hw' = Deactivated(gone, calls) /\ component' = "inactive" /\ ctrl' = FALSE
      BY <1>1, <1>8
    <2>3. hw' \in Hardware /\ ~hw'.claimed /\ hw'.cmd = hw.cmd
      BY <1>3, <2>1, <2>2, DeactivatedKept
    <2> QED
      BY <2>2, <2>3 DEF ArmInv, CommandsSent, Hardware
  <1>9. CASE ~failed /\ w.fault /\ ~h.fault
    <2>1. hw' = Deactivated(w, calls) /\ component' = "inactive" /\ ctrl' = FALSE
      BY <1>1, <1>9
    <2>2. ~w.claimed /\ w.cmd = hw.cmd
      BY <1>3, <1>6, <1>7, <1>9
    <2>3. hw' \in Hardware /\ ~hw'.claimed /\ hw'.cmd = hw.cmd
      BY <1>7, <2>1, <2>2, DeactivatedKept
    <2> QED
      BY <2>1, <2>3 DEF ArmInv, CommandsSent, Hardware
  <1>10. CASE ~failed /\ ~(w.fault /\ ~h.fault)
    <2>1. hw' = w /\ component' = component /\ ctrl' = (ctrl \/ ok)
      BY <1>1, <1>2, <1>5, <1>10
    <2>2. ok => component = "active"
      BY DEF ok
    <2>3. CASE component = "inactive"
      <3>1. ~ctrl /\ ~hw.claimed /\ ~ok
        BY <1>2, <2>2, <2>3 DEF ArmInv
      <3>2. ~s.claimed /\ ~w.claimed
        BY <1>3, <1>5, <1>6, <1>7, <3>1
      <3>3. w.cmd = hw.cmd
        BY <1>3, <1>6, <1>7, <3>2 DEF WriteSends
      <3> QED
        BY <1>2, <1>7, <2>1, <2>3, <3>1, <3>2, <3>3 DEF ArmInv, CommandsSent, Hardware
    <2>4. CASE component = "active"
      <3>1. Fresh(h) /\ ~h.fault /\ h.active
        BY <1>2, <1>3, <1>4, <1>10, <2>4 DEF Fresh, ArmInv
      <3>2. ~w.fault /\ Fresh(w) /\ w.active
        BY <1>6, <1>7, <1>10, <3>1
      <3>3. s.claimed \in BOOLEAN /\ w.claimed \in BOOLEAN /\ hw.claimed \in BOOLEAN
        BY <1>2, <1>6, <1>7 DEF Hardware
      <3>4. w.claimed = s.claimed /\ h.claimed = hw.claimed /\ ctrl = hw.claimed
        BY <1>2, <1>3, <1>6, <1>7, <3>2 DEF ArmInv
      <3>5. ASSUME hw.claimed \/ ok PROVE ctrl' = w.claimed
        <4>1. w.claimed = TRUE
          BY <1>6, <3>3, <3>4, <3>5
        <4>2. ctrl' = TRUE
          BY <1>5, <2>1, <3>3, <3>4, <3>5
        <4> QED
          BY <4>1, <4>2
      <3>6. ASSUME ~(hw.claimed \/ ok) PROVE ctrl' = w.claimed
        <4>1. w.claimed = FALSE
          BY <1>6, <3>3, <3>4, <3>6
        <4>2. ctrl' = FALSE
          BY <1>5, <2>1, <3>3, <3>4, <3>6
        <4> QED
          BY <4>1, <4>2
      <3>7. ctrl' = w.claimed
        BY <3>5, <3>6
      <3>8. w.cmd # hw.cmd => w.claimed
        BY <1>3, <1>6, <1>7, <3>2 DEF WriteSends
      <3> QED
        BY <1>2, <1>7, <2>1, <2>4, <3>2, <3>7, <3>8 DEF ArmInv, CommandsSent, Hardware
    <2> QED
      BY <1>2, <2>3, <2>4
  <1> QED
    BY <1>5, <1>8, <1>9, <1>10

\* The variables a cycle does not decide.
LEMMA CycleRest ==
  ASSUME TypeOK, NEW far \in BOOLEAN, NEW valid \in BOOLEAN, NEW answers \in BOOLEAN,
         NEW refuses \in BOOLEAN, NEW calls \in BOOLEAN,
         Cycle(far, valid, answers, refuses, calls)
  PROVE  /\ UNCHANGED <<fresh, waited, smooth, sent, faults>> /\ whole' = TRUE
         /\ sup' = sup \/ sup' = [sup EXCEPT !.phase = "switched"]
         /\ box' = [box EXCEPT !["hardware"] = FALSE]
  BY DEF Cycle

-----------------------------------------------------------------------------
(***************************************************************************)
(* The types and the invariant, action by action.                          *)
(***************************************************************************)

\* Capping keeps an age below its cap.
LEMMA CappedKept ==
  ASSUME NEW n \in Nat, NEW cap \in Nat
  PROVE  Capped(n, cap) \in 0..cap
  BY DEF Capped

\* A message only moves the stamps' relations.
LEMMA PublishKept ==
  ASSUME RecoveryInv, NEW kind \in {"step", "repeat", "restart"}, NEW complete \in BOOLEAN,
         Publish(kind, complete)
  PROVE  RecoveryInv'
  <1> DEFINE To(rel, next) == CASE kind = "step" -> next
                                [] kind = "repeat" -> rel
                                [] kind = "restart" -> "older"
  <1>1. PICK hn \in Advanced(hw.rel), f \in Advanced(fresh.rel), c \in Advanced(hw.cmd) :
          /\ hw' = [hw EXCEPT !.rel = IF hw.have THEN To(hw.rel, hn) ELSE hw.rel,
                              !.cmd = IF hw.active THEN To(hw.cmd, c) ELSE hw.cmd]
          /\ fresh' = [fresh EXCEPT !.rel = IF fresh.have THEN To(fresh.rel, f) ELSE fresh.rel]
    BY DEF Publish
  <1>2. /\ box' = [r \in Receivers |-> TRUE] /\ whole' = complete /\ sent' = smooth
        /\ UNCHANGED <<sup, component, ctrl, waited, smooth, faults>>
    BY DEF Publish
  <1>3. hn \in Relations /\ f \in Relations /\ c \in Relations
    BY <1>1 DEF Advanced, Relations
  <1>4. \A rel, next \in Relations : To(rel, next) \in Relations
    BY DEF Relations
  <1>5. /\ hw' \in Hardware /\ hw'.claimed = hw.claimed /\ hw'.active = hw.active
        /\ hw'.fault = hw.fault
    <2> DEFINE r == IF hw.have THEN To(hw.rel, hn) ELSE hw.rel
               m == IF hw.active THEN To(hw.cmd, c) ELSE hw.cmd
    <2>1. hw \in Hardware
      BY DEF RecoveryInv, TypeOK, Hardware
    <2>2. r \in Relations /\ m \in Relations
      BY <1>3, <1>4, <2>1 DEF Hardware
    <2>3. hw' = [hw EXCEPT !.rel = r, !.cmd = m]
      BY <1>1
    <2> HIDE DEF r, m
    <2> QED
      BY <2>1, <2>2, <2>3 DEF Hardware
  <1>6. fresh' \in [last : 0..NoState, have : BOOLEAN, run : BOOLEAN, since : 0..FreshFor,
                    rel : Relations]
    <2> DEFINE r == IF fresh.have THEN To(fresh.rel, f) ELSE fresh.rel
    <2>1. r \in Relations
      BY <1>3, <1>4 DEF RecoveryInv, TypeOK
    <2>2. fresh' = [fresh EXCEPT !.rel = r]
      BY <1>1
    <2> HIDE DEF r
    <2> QED
      BY <2>1, <2>2 DEF RecoveryInv, TypeOK
  <1>7. TypeOK'
    BY <1>2, <1>5, <1>6 DEF RecoveryInv, TypeOK, Hardware
  <1> QED
    BY <1>2, <1>5, <1>7 DEF RecoveryInv, ArmInv, RequestInv

\* Time only ages.
LEMMA TickKept ==
  ASSUME RecoveryInv, Tick
  PROVE  RecoveryInv'
  <1>1. hw \in Hardware
    BY DEF RecoveryInv, TypeOK, Hardware
  <1>2. /\ hw' \in Hardware /\ hw'.claimed = hw.claimed /\ hw'.active = hw.active
        /\ hw'.fault = hw.fault
    <2>1. Capped(hw.age + 1, Timeout) \in 0..Timeout
      <3>1. hw.age + 1 \in Nat
        BY <1>1, Parameters DEF Hardware
      <3> QED
        BY <3>1, Parameters, CappedKept
    <2>2. hw' = [hw EXCEPT !.age = Capped(hw.age + 1, Timeout)]
      BY DEF Tick
    <2> QED
      BY <1>1, <2>1, <2>2 DEF Hardware
  <1>3. fresh' \in [last : 0..NoState, have : BOOLEAN, run : BOOLEAN, since : 0..FreshFor,
                    rel : Relations]
    <2> DEFINE r == IF fresh.run THEN Capped(fresh.since + 1, FreshFor) ELSE 0
    <2>1. Capped(fresh.last + 1, NoState) \in 0..NoState
      <3>1. fresh.last + 1 \in Nat
        BY Parameters DEF RecoveryInv, TypeOK
      <3> QED
        BY <3>1, Parameters, CappedKept
    <2>2. r \in 0..FreshFor
      <3>1. fresh.since + 1 \in Nat /\ 0 \in 0..FreshFor
        BY Parameters DEF RecoveryInv, TypeOK
      <3>2. Capped(fresh.since + 1, FreshFor) \in 0..FreshFor
        BY <3>1, Parameters, CappedKept
      <3> QED
        BY <3>1, <3>2
    <2>3. fresh' = [fresh EXCEPT !.last = Capped(fresh.last + 1, NoState), !.since = r]
      BY DEF Tick
    <2> HIDE DEF r
    <2> QED
      BY <2>1, <2>2, <2>3 DEF RecoveryInv, TypeOK
  <1>4. /\ sup' \in [phase : Phases, seen : {"active", "inactive"}, since : 0..Retry]
        /\ sup'.phase = sup.phase /\ sup'.seen = sup.seen
    <2>1. Capped(sup.since + 1, Retry) \in 0..Retry
      <3>1. sup.since + 1 \in Nat
        BY Parameters DEF RecoveryInv, TypeOK
      <3> QED
        BY <3>1, Parameters, CappedKept
    <2> QED
      BY <2>1 DEF RecoveryInv, TypeOK, Tick
  <1>5. waited' \in 0..ActivationWait + 1
    BY Parameters DEF RecoveryInv, TypeOK, Tick
  <1>6. TypeOK'
    BY <1>2, <1>3, <1>4, <1>5 DEF RecoveryInv, TypeOK, Tick, Hardware
  <1> QED
    BY <1>2, <1>4, <1>6 DEF RecoveryInv, ArmInv, RequestInv, Tick

\* An activation starts from an inactive component, and ends with an active one
\* only at a state that is fresh: the fault it may notice leaves it inactive.
LEMMA OnActivateKept ==
  ASSUME RecoveryInv, OnActivate
  PROVE  RecoveryInv' /\ ~CommandsSent /\ hw'.claimed = hw.claimed
  <1> DEFINE spins == ~hw.fault /\ ~Fresh(hw)
             h == IF spins THEN Received(hw) ELSE hw
  <1>1. /\ hw \in Hardware /\ component = "inactive" /\ ctrl = FALSE /\ hw.claimed = FALSE
        /\ sup.phase = "set"
    BY DEF RecoveryInv, TypeOK, ArmInv, RequestInv, OnActivate, Hardware
  <1>2. h \in Hardware /\ h.claimed = hw.claimed /\ h.active = hw.active /\ h.cmd = hw.cmd
    BY <1>1, ReceivedKept
  <1>3. /\ box' = IF spins THEN [box EXCEPT !["hardware"] = FALSE] ELSE box
        /\ whole' = (whole \/ ~box'["hardware"])
        /\ UNCHANGED <<fresh, ctrl, smooth, sent, faults>>
    BY DEF OnActivate
  <1>4. box' \in [Receivers -> BOOLEAN] /\ whole' \in BOOLEAN
    BY <1>3 DEF RecoveryInv, TypeOK
  <1>5. CASE Fresh(h)
    <2>1. /\ hw' = [h EXCEPT !.active = TRUE, !.cmd = "newer"]
          /\ component' = "active" /\ waited' = 0
          /\ sup' = [sup EXCEPT !.phase = "switch"]
      BY <1>5 DEF OnActivate
    <2>2. hw' \in Hardware /\ hw'.active /\ hw'.claimed = FALSE /\ ~hw'.fault /\ hw'.cmd = "newer"
      BY <1>1, <1>2, <1>5, <2>1 DEF Hardware, Relations, Fresh
    <2>3. TypeOK'
      BY <1>3, <1>4, <2>1, <2>2, Parameters DEF RecoveryInv, TypeOK, Phases, Hardware
    <2>4. sup'.phase = "switch"
      BY <2>1 DEF RecoveryInv, TypeOK
    <2> QED
      BY <1>1, <1>3, <2>1, <2>2, <2>3, <2>4 DEF RecoveryInv, ArmInv, RequestInv, CommandsSent
  <1>6. CASE ~Fresh(h)
    <2> DEFINE ends == hw.fault \/ waited > ActivationWait
    <2>1. /\ hw' = h /\ component' = component
          /\ sup' = IF ends THEN [sup EXCEPT !.phase = "refused"] ELSE sup
          /\ waited' = IF ends THEN 0 ELSE IF waited = 0 THEN 1 ELSE waited
      BY <1>6 DEF OnActivate
    <2>2. sup' \in [phase : Phases, seen : {"active", "inactive"}, since : 0..Retry]
      BY <2>1 DEF RecoveryInv, TypeOK, Phases
    <2>3. waited' \in 0..ActivationWait + 1
      BY <2>1, Parameters DEF RecoveryInv, TypeOK
    <2>4. TypeOK'
      BY <1>2, <1>3, <1>4, <2>1, <2>2, <2>3 DEF RecoveryInv, TypeOK, Hardware
    <2> QED
      BY <1>1, <1>2, <1>3, <2>1, <2>4 DEF RecoveryInv, ArmInv, RequestInv, CommandsSent
  <1> QED
    BY <1>5, <1>6

\* A cycle keeps the invariant.
LEMMA CycleKeepsInv ==
  ASSUME RecoveryInv, AnyCycle
  PROVE  RecoveryInv'
  <1>1. PICK far, valid, answers, refuses, calls \in BOOLEAN :
          Cycle(far, valid, answers, refuses, calls)
    BY DEF AnyCycle
  <1>2. TypeOK
    BY DEF RecoveryInv
  <1>3. /\ hw' \in Hardware /\ component' \in {"active", "inactive"} /\ ctrl' \in BOOLEAN
        /\ ArmInv' /\ (component = "inactive" => component' = "inactive")
    BY <1>1, CycleKept
  <1>4. /\ UNCHANGED <<fresh, waited, smooth, sent, faults>> /\ whole' = TRUE
        /\ sup' = sup \/ sup' = [sup EXCEPT !.phase = "switched"]
        /\ box' = [box EXCEPT !["hardware"] = FALSE]
    BY <1>1, <1>2, CycleRest
  <1>5. /\ sup' \in [phase : Phases, seen : {"active", "inactive"}, since : 0..Retry]
        /\ sup'.phase \in {sup.phase, "switched"} /\ sup'.seen = sup.seen
    BY <1>4 DEF RecoveryInv, TypeOK, Phases
  <1>6. TypeOK'
    BY <1>3, <1>4, <1>5 DEF RecoveryInv, TypeOK, Hardware
  <1>7. RequestInv'
    BY <1>3, <1>5 DEF RecoveryInv, RequestInv
  <1> QED
    BY <1>3, <1>6, <1>7 DEF RecoveryInv

\* What the supervisor does changes no arm, and it asks for an activation only
\* after it has seen the component inactive.
LEMMA SupervisorKept ==
  ASSUME RecoveryInv, SupervisorTick \/ AnswerList \/ OnList \/ EndRound \/ LoseResponse
  PROVE  RecoveryInv' /\ UNCHANGED hw
  <1>1. /\ UNCHANGED <<hw, fresh, component, ctrl, waited, box, whole, smooth, sent, faults>>
    BY DEF SupervisorTick, AnswerList, OnList, EndRound, LoseResponse
  <1>2. /\ sup' \in [phase : Phases, seen : {"active", "inactive"}, since : 0..Retry]
        /\ (sup'.phase = "set" => component = "inactive")
        /\ (sup'.phase = "listed" /\ sup'.seen = "inactive" => component = "inactive")
    <2>1. CASE SupervisorTick
      BY <2>1 DEF SupervisorTick, RecoveryInv, TypeOK, Phases
    <2>2. CASE AnswerList
      BY <2>2 DEF AnswerList, RecoveryInv, TypeOK, Phases
    <2>3. CASE OnList
      <3>1. CASE sup.seen = "active" \/ ~FeedbackFresh \/ sup.since < Retry
        <4>1. sup' = [sup EXCEPT !.phase = "idle", !.seen = "inactive"]
          BY <2>3, <3>1 DEF OnList
        <4> QED
          BY <4>1 DEF RecoveryInv, TypeOK, Phases
      <3>2. CASE ~(sup.seen = "active" \/ ~FeedbackFresh \/ sup.since < Retry)
        <4>1. sup' = [sup EXCEPT !.phase = "set", !.seen = "inactive", !.since = 0]
          BY <2>3, <3>2 DEF OnList
        <4>2. sup.phase = "listed" /\ sup.seen = "inactive" /\ 0 \in 0..Retry
          BY <2>3, <3>2, Parameters DEF OnList, RecoveryInv, TypeOK
        <4> QED
          BY <4>1, <4>2 DEF RecoveryInv, TypeOK, RequestInv, Phases
      <3> QED
        BY <3>1, <3>2
    <2>4. CASE EndRound
      BY <2>4 DEF EndRound, RecoveryInv, TypeOK, Phases
    <2>5. CASE LoseResponse
      BY <2>5 DEF LoseResponse, RecoveryInv, TypeOK, Phases
    <2> QED
      BY <2>1, <2>2, <2>3, <2>4, <2>5
  <1> QED
    BY <1>1, <1>2 DEF RecoveryInv, TypeOK, ArmInv, RequestInv

\* Neither does the stream of states the supervisor watches.
LEMMA FreshnessKept ==
  ASSUME RecoveryInv, OnState \/ Calm
  PROVE  RecoveryInv' /\ UNCHANGED hw
  <1>1. CASE OnState
    <2>1. fresh' \in [last : 0..NoState, have : BOOLEAN, run : BOOLEAN, since : 0..FreshFor,
                      rel : Relations]
      <3>1. 0 \in 0..NoState /\ 0 \in 0..FreshFor
        BY Parameters
      <3>2. CASE fresh.rel = "newer"
        <4> DEFINE since == IF fresh.last > MaxGap THEN 0 ELSE fresh.since
        <4>1. since \in 0..FreshFor
          BY <3>1 DEF RecoveryInv, TypeOK
        <4>2. fresh' = [last |-> 0, have |-> TRUE, run |-> TRUE, rel |-> "same",
                        since |-> since]
          BY <1>1, <3>2 DEF OnState
        <4> HIDE DEF since
        <4> QED
          BY <3>1, <4>1, <4>2 DEF Relations
      <3>3. CASE fresh.rel # "newer"
        <4>1. fresh' = [fresh EXCEPT !.last = 0, !.run = FALSE, !.since = 0]
          BY <1>1, <3>3 DEF OnState
        <4> QED
          BY <3>1, <4>1 DEF RecoveryInv, TypeOK
      <3> QED
        BY <3>2, <3>3
    <2> QED
      BY <1>1, <2>1 DEF OnState, RecoveryInv, TypeOK, ArmInv, RequestInv
  <1>2. CASE Calm
    BY <1>2 DEF Calm, RecoveryInv, TypeOK, ArmInv, RequestInv
  <1> QED
    BY <1>1, <1>2

\* The invariant is inductive.
LEMMA StepKept ==
  ASSUME RecoveryInv, [Next]_vars
  PROVE  RecoveryInv'
  <1>1. CASE UNCHANGED vars
    BY <1>1 DEF vars, RecoveryInv, TypeOK, ArmInv, RequestInv
  <1>2. CASE Next
    BY <1>2, PublishKept, TickKept, OnActivateKept, CycleKeepsInv, SupervisorKept,
       FreshnessKept DEF Next
  <1> QED
    BY <1>1, <1>2

-----------------------------------------------------------------------------
(***************************************************************************)
(* The theorems.                                                           *)
(***************************************************************************)

\* The invariant holds throughout.
LEMMA RecoveryInvHolds == Spec => []RecoveryInv
  <1>1. ASSUME Init PROVE RecoveryInv
    <2>1. hw \in Hardware /\ ~hw.claimed /\ ctrl = FALSE /\ component = "inactive"
      BY <1>1, Parameters DEF Init, Hardware, Relations
    <2>2. fresh \in [last : 0..NoState, have : BOOLEAN, run : BOOLEAN, since : 0..FreshFor,
                     rel : Relations]
      <3>1. NoState \in 0..NoState /\ 0 \in 0..FreshFor
        BY Parameters
      <3> QED
        BY <1>1, <3>1 DEF Init, Relations
    <2>3. sup \in [phase : Phases, seen : {"active", "inactive"}, since : 0..Retry]
          /\ sup.phase = "idle"
      <3>1. Retry \in 0..Retry
        BY Parameters
      <3> QED
        BY <1>1, <3>1 DEF Init, Phases
    <2>4. waited \in 0..ActivationWait + 1 /\ faults \subseteq Faults
          /\ box \in [Receivers -> BOOLEAN] /\ {whole, smooth, sent} \subseteq BOOLEAN
      <3>1. waited \in 0..ActivationWait + 1
        BY <1>1, Parameters DEF Init
      <3>2. faults \subseteq Faults
        BY <1>1 DEF Init
      <3>3. box \in [Receivers -> BOOLEAN] /\ {whole, smooth, sent} \subseteq BOOLEAN
        BY <1>1 DEF Init
      <3> QED
        BY <3>1, <3>2, <3>3
    <2>5. ctrl = hw.claimed
      BY <1>1 DEF Init
    <2> QED
      BY <2>1, <2>2, <2>3, <2>4, <2>5
      DEF RecoveryInv, TypeOK, ArmInv, RequestInv, Hardware
  <1>2. RecoveryInv /\ [Next]_vars => RecoveryInv'
    BY StepKept
  <1> QED
    BY <1>1, <1>2, PTL DEF Spec

\* Every variable of the arm, its supervisor and the manager keeps its range.
THEOREM TypeCorrect == Spec => []TypeOK
  <1>1. RecoveryInv => TypeOK
    BY DEF RecoveryInv
  <1> QED
    BY <1>1, RecoveryInvHolds, PTL

\* A fault, wherever the hardware interface noticed it, leaves no active
\* component, no active controllers and no claim on the arm.
THEOREM FaultedStopped == Spec => []FaultedArmStopped
  <1>1. RecoveryInv => FaultedArmStopped
    BY DEF RecoveryInv, TypeOK, ArmInv, FaultedArmStopped
  <1> QED
    BY <1>1, RecoveryInvHolds, PTL

\* Commands go out for active controllers on an active component only, and the
\* arm is claimed at a fresh state only, whatever answers are late or refused.
THEOREM CommandsFollow == Spec => CommandsFollowControllers
  <1> DEFINE Kept == /\ CommandsSent => ctrl' /\ component' = "active"
                     /\ hw'.claimed /\ ~hw.claimed => Fresh(hw')
  <1>1. RecoveryInv /\ [Next]_vars => [Kept]_vars
    <2> SUFFICES ASSUME RecoveryInv, Next
                 PROVE  Kept
      OBVIOUS
    <2>1. CASE \E kind \in {"step", "repeat", "restart"}, complete \in BOOLEAN :
                 Publish(kind, complete)
      <3>1. PICK kind \in {"step", "repeat", "restart"}, complete \in BOOLEAN :
              Publish(kind, complete)
        BY <2>1
      <3>2. hw'.claimed = hw.claimed /\ (hw'.cmd = "same" => hw.cmd = "same")
        BY <3>1 DEF Publish, Advanced, RecoveryInv, TypeOK, Relations
      <3> QED
        BY <3>2 DEF CommandsSent
    <2>2. CASE Tick
      <3>1. hw'.claimed = hw.claimed /\ hw'.cmd = hw.cmd
        BY <2>2 DEF Tick, RecoveryInv, TypeOK
      <3> QED
        BY <3>1 DEF CommandsSent
    <2>3. CASE OnActivate
      BY <2>3, OnActivateKept
    <2>4. CASE AnyCycle
      <3>1. PICK far, valid, answers, refuses, calls \in BOOLEAN :
              Cycle(far, valid, answers, refuses, calls)
        BY <2>4 DEF AnyCycle
      <3> QED
        BY <3>1, CycleKept
    <2>5. CASE Calm \/ OnState \/ SupervisorTick \/ AnswerList \/ OnList \/ EndRound
               \/ LoseResponse
      BY <2>5, SupervisorKept, FreshnessKept DEF CommandsSent
    <2> QED
      BY <2>1, <2>2, <2>3, <2>4, <2>5 DEF Next
  <1> QED
    BY <1>1, RecoveryInvHolds, PTL DEF Spec, CommandsFollowControllers
=============================================================================
