------------------------ MODULE MavlinkInjector_proofs ------------------------
(***************************************************************************)
(* Proofs about MavlinkInjector, for any number of reports and deltas and  *)
(* any clock: what is sent relates consecutive reports, and the interval   *)
(* in it is the real time between them unless the clock was set then.      *)
(***************************************************************************)
EXTENDS MavlinkInjector, TLAPS

\* The dictionary is about the latest reports: the times it holds, when its
\* velocity is valid, are those of the last two, and the real time since the
\* last is what the clock says unless it was set.
LastIsLatest ==
  /\ last.t_vel.n = Len(velocities)
  /\ Len(velocities) = 0 => last.t_vel = None /\ last.t_vel_prev = None
  /\ Len(velocities) > 0 /\ ~wasSet => last.t_vel.at + since = clock
  /\ last.att = positions

\* A dictionary, as it was at some time, that could be sent.
Consecutive(d) ==
  d.valid /\ d.t_vel_prev # None =>
    /\ d.t_vel_prev.n + 1 = d.t_vel.n
    /\ d.t_vel.n \in 1..Len(velocities)
    /\ velocities[d.t_vel.n].valid
    /\ d.v = d.t_vel.n
    /\ velocities[d.t_vel.n].set \/ Interval(d) = velocities[d.t_vel.n].apart

Turned(d) == d.prev_att + 1 = d.att \/ (d.prev_att = 0 /\ d.att = 0)

Sent(d) == d.valid /\ d.t_vel_prev # None /\ Consecutive(d) /\ Turned(d)

SentMessage(m) ==
  /\ Sent(m.delta)
  /\ m.interval = Interval(m.delta)
  /\ m.interval \in MinDelta + 1 .. MaxDelta

Inv ==
  /\ LastIsLatest
  /\ Consecutive(last) /\ Turned(last)
  /\ pc = "sending" => Sent(copy)
  /\ \A i \in DOMAIN sent : SentMessage(sent[i])

-----------------------------------------------------------------------------
(* The initial dictionary is one.                                          *)
LEMMA InitialType == Initial \in Last
  BY BoundsAssumption DEF Initial, Last, Stamp, None

(* Its times are integers.                                                 *)
LEMMA IntervalType ==
  ASSUME NEW d \in Last
  PROVE  Interval(d) \in Int
  BY BoundsAssumption DEF Last, Stamp, Interval

(* A report makes a dictionary of a dictionary.                            *)
LEMMA VelocityType ==
  ASSUME NEW l \in Last, NEW n \in 0..MaxReports, NEW valid \in BOOLEAN,
         clock \in 0..MaxTime
  PROVE  Velocity(l, n, valid) \in Last
<1>1. [n |-> n, at |-> clock] \in Stamp
  BY DEF Stamp
<1>2. (IF valid /\ l.t_vel # None THEN l.t_vel ELSE l.t_vel_prev) \in Stamp
  BY DEF Last
<1>3. (IF valid THEN n ELSE 0) \in 0..MaxReports
  BY BoundsAssumption
<1> QED BY <1>1, <1>2, <1>3 DEF Velocity, Last

(* A position report, too.                                                 *)
LEMMA AttitudeType ==
  ASSUME NEW l \in Last, NEW n \in 0..MaxReports
  PROVE  Attitude(l, n) \in Last
<1>1. l.att \in 0..MaxReports
  BY DEF Last
<1> QED BY <1>1 DEF Attitude, Last

(* Types hold at the start.                                                *)
LEMMA TypeInit == Init => TypeOK
<1> SUFFICES ASSUME Init PROVE TypeOK
  OBVIOUS
<1>1. velocities \in Seq(Reception) /\ sent \in Seq(Message)
  BY DEF Init
<1>2. clock \in 0..MaxTime /\ since \in 0..MaxTime /\ positions \in 0..MaxReports /\ attempts \in 0..MaxAttempts
  BY BoundsAssumption DEF Init
<1> QED BY <1>1, <1>2, InitialType DEF Init, TypeOK

(* And after every step.                                                   *)
LEMMA TypeStep == TypeOK /\ [Next]_vars => TypeOK'
<1> SUFFICES ASSUME TypeOK, [Next]_vars PROVE TypeOK'
  OBVIOUS
<1> USE BoundsAssumption DEF TypeOK, mainVars, recvVars, reportVars
<1>1. CASE SessionStarts BY <1>1 DEF SessionStarts
<1>2. CASE SessionEnds BY <1>2 DEF SessionEnds
<1>3. CASE ReceivePosition
  <2>1. positions + 1 \in 0..MaxReports
    BY <1>3 DEF ReceivePosition
  <2>2. Attitude(last, positions + 1) \in Last
    BY <2>1, AttitudeType
  <2> QED BY <1>3, <2>1, <2>2 DEF ReceivePosition
<1>4. CASE ReceiveVelocity
  <2>1. PICK valid \in BOOLEAN :
          /\ velocities' = Append(velocities, [valid |-> valid, apart |-> since, set |-> wasSet])
          /\ last' = Velocity(last, Len(velocities) + 1, valid)
    BY <1>4 DEF ReceiveVelocity
  <2>2. Len(velocities) + 1 \in 0..MaxReports
    BY <1>4 DEF ReceiveVelocity
  <2>3. last' \in Last
    BY <2>1, <2>2, VelocityType
  <2>4. velocities' \in Seq(Reception)
    <3>1. [valid |-> valid, apart |-> since, set |-> wasSet] \in Reception
      BY DEF Reception
    <3> QED BY <2>1, <3>1
  <2>5. since' = 0 /\ wasSet' = FALSE /\ UNCHANGED <<clock, session, positions, mainVars>>
    BY <1>4 DEF ReceiveVelocity
  <2>6. wasSet' \in BOOLEAN
    BY <2>5, Zenon
  <2>7. since' \in 0..MaxTime
    BY <2>5
  <2> QED BY <2>3, <2>4, <2>5, <2>6, <2>7
<1>5. CASE ConnectTarget BY <1>5 DEF ConnectTarget
<1>6. CASE SetOrigin
  <2>1. attempts' \in 0..MaxAttempts
    BY <1>6 DEF SetOrigin, MayAttempt
  <2>2. origin_set' \in BOOLEAN /\ pc' \in {"origin", "loop"}
    BY <1>6 DEF SetOrigin
  <2> QED BY <1>6, <2>1, <2>2 DEF SetOrigin
<1>7. CASE ContinueWithout BY <1>7 DEF ContinueWithout
<1>8. CASE SkipSend BY <1>8 DEF SkipSend, vars
<1>9. CASE CopyLast BY <1>9 DEF CopyLast
<1>10. CASE SendDelta
  <2>1. [delta |-> copy, interval |-> Interval(copy)] \in Message
    BY IntervalType DEF Message
  <2>2. sent' \in Seq(Message)
    BY <1>10, <2>1 DEF SendDelta
  <2> QED BY <1>10, <2>2 DEF SendDelta
<1>11. CASE Stop BY <1>11 DEF Stop
<1>12. CASE ClockTicks BY <1>12 DEF ClockTicks
<1>13. CASE ClockIsSet BY <1>13 DEF ClockIsSet
<1>14. CASE UNCHANGED vars BY <1>14 DEF vars
<1> QED
  BY <1>1, <1>2, <1>3, <1>4, <1>5, <1>6, <1>7, <1>8, <1>9, <1>10, <1>11, <1>12,
     <1>13, <1>14 DEF Next, Receiver, Main

(* The injector keeps its types, whatever the clock and the sensor do.     *)
THEOREM TypeCorrect == Spec => []TypeOK
  BY TypeInit, TypeStep, PTL DEF Spec

-----------------------------------------------------------------------------
(* A report received later does not change what a copy was about.          *)
LEMMA ConsecutiveSurvives ==
  ASSUME TypeOK, NEW d \in Last, NEW report \in Reception, Consecutive(d),
         velocities' = Append(velocities, report)
  PROVE  d.valid /\ d.t_vel_prev # None =>
           /\ d.t_vel_prev.n + 1 = d.t_vel.n
           /\ d.t_vel.n \in 1..Len(velocities')
           /\ velocities'[d.t_vel.n].valid
           /\ d.v = d.t_vel.n
           /\ velocities'[d.t_vel.n].set \/ Interval(d) = velocities'[d.t_vel.n].apart
<1>1. velocities \in Seq(Reception)
  BY DEF TypeOK
<1>2. Len(velocities') = Len(velocities) + 1
  BY <1>1
<1>3. \A k \in 1..Len(velocities) : velocities'[k] = velocities[k]
  BY <1>1
<1> QED BY <1>1, <1>2, <1>3 DEF Consecutive

(* A velocity report, valid or not, keeps all that is claimed.             *)
LEMMA ReceiveVelocityKeepsInv ==
  ASSUME TypeOK, Inv, ReceiveVelocity
  PROVE  Inv'
<1>1. PICK valid \in BOOLEAN :
        /\ velocities' = Append(velocities, [valid |-> valid, apart |-> since, set |-> wasSet])
        /\ last' = Velocity(last, Len(velocities) + 1, valid)
  BY DEF ReceiveVelocity
<1> DEFINE report == [valid |-> valid, apart |-> since, set |-> wasSet]
<1>2. UNCHANGED <<pc, copy, sent, positions, clock>> /\ since' = 0 /\ wasSet' = FALSE
  BY DEF ReceiveVelocity, mainVars
<1>3. /\ last \in Last /\ copy \in Last /\ sent \in Seq(Message) /\ report \in Reception
      /\ velocities \in Seq(Reception) /\ clock \in 0..MaxTime /\ since \in 0..MaxTime
  BY DEF TypeOK, Reception
<1>4. /\ Len(velocities') = Len(velocities) + 1
      /\ velocities'[Len(velocities')] = report
      /\ Len(velocities) \in Nat
  BY <1>1, <1>3
<1>5. /\ last'.t_vel = [n |-> Len(velocities) + 1, at |-> clock]
      /\ last'.valid = valid
      /\ valid => last'.v = Len(velocities) + 1
      /\ valid /\ last.t_vel # None => last'.t_vel_prev = last.t_vel
      /\ ~(valid /\ last.t_vel # None) => last'.t_vel_prev = last.t_vel_prev
      /\ last'.att = last.att /\ last'.prev_att = last.prev_att
  BY <1>1, <1>3 DEF Velocity, Last
<1>6. LastIsLatest'
  <2>1. last'.t_vel.n = Len(velocities') /\ Len(velocities') # 0
    BY <1>4, <1>5
  <2>2. last'.t_vel.at + since' = clock'
    BY <1>2, <1>3, <1>5, BoundsAssumption
  <2>3. last'.att = positions'
    BY <1>2, <1>5 DEF Inv, LastIsLatest
  <2> QED BY <2>1, <2>2, <2>3 DEF LastIsLatest
<1>7. Consecutive(last)'
  <2>1. last.t_vel = None => last.t_vel_prev = None
    BY <1>4 DEF Inv, LastIsLatest, None
  <2>2. last.t_vel.n = Len(velocities)
    BY DEF Inv, LastIsLatest
  <2>3. SUFFICES ASSUME last'.valid, last'.t_vel_prev # None
                 PROVE  /\ last'.t_vel_prev.n + 1 = last'.t_vel.n
                        /\ last'.t_vel.n \in 1..Len(velocities')
                        /\ velocities'[last'.t_vel.n].valid
                        /\ last'.v = last'.t_vel.n
                        /\ \/ velocities'[last'.t_vel.n].set
                           \/ last'.t_vel.at - last'.t_vel_prev.at = velocities'[last'.t_vel.n].apart
    BY DEF Consecutive, Interval, None
  <2>4. valid /\ last.t_vel # None
    BY <1>5, <2>1, <2>3
  <2>5. last'.t_vel.n = Len(velocities') /\ last'.v = Len(velocities')
    BY <1>4, <1>5, <2>4
  <2>6. last'.t_vel_prev.n + 1 = Len(velocities')
    BY <1>4, <1>5, <2>2, <2>4
  <2>7. velocities'[Len(velocities')].valid
    BY <1>4, <2>4
  <2>8. ASSUME ~wasSet PROVE clock - last.t_vel.at = since
    <3>1. Len(velocities) > 0
      BY <1>4, <2>4 DEF Inv, LastIsLatest
    <3>2. last.t_vel.at + since = clock
      BY <2>8, <3>1 DEF Inv, LastIsLatest
    <3>3. last.t_vel.at \in 0..MaxTime
      BY <1>3 DEF Last, Stamp
    <3> QED BY <1>3, <3>2, <3>3, BoundsAssumption
  <2>9. wasSet \/ last'.t_vel.at - last'.t_vel_prev.at = since
    BY <1>5, <2>4, <2>8
  <2>10. Len(velocities') \in 1..Len(velocities')
    BY <1>4
  <2> QED BY <1>4, <2>5, <2>6, <2>7, <2>9, <2>10
<1>8. Turned(last)'
  BY <1>5 DEF Inv, Turned
<1>9. (pc = "sending" => Sent(copy))'
  BY <1>1, <1>2, <1>3, ConsecutiveSurvives DEF Inv, Sent, Consecutive, Turned, Interval
<1>10. (\A i \in DOMAIN sent : SentMessage(sent[i]))'
  <2>1. ASSUME NEW i \in DOMAIN sent PROVE SentMessage(sent[i])'
    <3>1. sent[i] \in Message /\ SentMessage(sent[i]) /\ sent'[i] = sent[i]
      BY <1>2, <1>3 DEF Inv
    <3>2. sent[i].delta \in Last
      BY <3>1 DEF Message
    <3> QED
      BY <1>1, <1>3, <3>1, <3>2, ConsecutiveSurvives
      DEF SentMessage, Sent, Consecutive, Turned, Interval
  <2> QED BY <1>2, <2>1
<1> QED BY <1>6, <1>7, <1>8, <1>9, <1>10 DEF Inv

(* Nothing can be sent at the start.                                       *)
LEMMA InvInit == Init => Inv
  BY DEF Init, Inv, LastIsLatest, Consecutive, Turned, Initial, None

(* What is claimed survives every step.                                    *)
LEMMA InvStep == TypeOK /\ Inv /\ [Next]_vars => Inv'
<1> SUFFICES ASSUME TypeOK, Inv, [Next]_vars PROVE Inv'
  OBVIOUS
<1>1. CASE ReceiveVelocity BY <1>1, ReceiveVelocityKeepsInv
<1> USE DEF Inv, LastIsLatest, Consecutive, Turned, Sent, SentMessage, Interval,
            mainVars, recvVars, reportVars
<1>2. CASE SessionStarts \/ SessionEnds BY <1>2 DEF SessionStarts, SessionEnds
<1>3. CASE ReceivePosition
  <2>1. /\ last'.t_vel = last.t_vel /\ last'.t_vel_prev = last.t_vel_prev
        /\ last'.valid = last.valid /\ last'.v = last.v
        /\ last'.prev_att = last.att /\ last'.att = positions + 1
    BY <1>3 DEF ReceivePosition, Attitude, TypeOK, Last
  <2> QED BY <1>3, <2>1 DEF ReceivePosition
<1>4. CASE ConnectTarget \/ SetOrigin \/ ContinueWithout \/ Stop
  <2>1. UNCHANGED <<clock, last, velocities, since, wasSet, positions, sent>> /\ pc' # "sending"
    BY <1>4 DEF ConnectTarget, SetOrigin, ContinueWithout, Stop
  <2> QED BY <2>1
<1>5. CASE SkipSend BY <1>5 DEF SkipSend, vars
<1>6. CASE CopyLast BY <1>6 DEF CopyLast, Sendable
<1>7. CASE SendDelta
  <2>1. UNCHANGED <<clock, velocities, since, wasSet, last, positions, copy>> /\ pc' = "loop"
    BY <1>7 DEF SendDelta
  <2>2. CASE Accepted(Interval(copy))
               /\ sent' = Append(sent, [delta |-> copy, interval |-> Interval(copy)])
    <3>0. Accepted(Interval(copy))
      BY <2>2
    <3> DEFINE message == [delta |-> copy, interval |-> Interval(copy)]
    <3>1. message \in Message
      BY IntervalType DEF TypeOK, Message
    <3>2. sent \in Seq(Message) /\ sent' = Append(sent, message)
      BY <2>2 DEF TypeOK
    <3>3. message.delta = copy /\ message.interval = Interval(copy)
      OBVIOUS
    <3>4. SentMessage(message)
      <4>1. Interval(copy) \in MinDelta + 1 .. MaxDelta
        BY <3>0, IntervalType, BoundsAssumption DEF TypeOK, Accepted
      <4> QED BY <1>7, <3>3, <4>1 DEF SendDelta
    <3> HIDE DEF message
    <3>5. /\ Len(sent') = Len(sent) + 1 /\ DOMAIN sent' = 1..Len(sent) + 1
          /\ DOMAIN sent = 1..Len(sent) /\ Len(sent) \in Nat
          /\ \A i \in 1..Len(sent) : sent'[i] = sent[i]
          /\ sent'[Len(sent) + 1] = message
      BY <3>1, <3>2
    <3>6. ASSUME NEW i \in DOMAIN sent' PROVE SentMessage(sent'[i])
      <4>1. CASE i = Len(sent) + 1 BY <3>4, <3>5, <4>1
      <4>2. CASE i \in DOMAIN sent BY <3>5, <4>2
      <4> QED BY <3>5, <4>1, <4>2
    <3>7. ASSUME NEW i \in DOMAIN sent' PROVE SentMessage(sent[i])'
      BY <2>1, <3>6
    <3> QED BY <2>1, <3>7
  <2>3. CASE UNCHANGED sent BY <2>1, <2>3
  <2> QED BY <1>7, <2>2, <2>3 DEF SendDelta
<1>8. CASE ClockTicks
  <2>1. /\ clock' = clock + 1
        /\ since' = IF velocities = <<>> THEN 0 ELSE since + 1
        /\ UNCHANGED <<last, velocities, wasSet, positions, pc, copy, sent>>
    BY <1>8 DEF ClockTicks
  <2>2. ASSUME Len(velocities) > 0, ~wasSet
        PROVE  last.t_vel.at + since' = clock'
    <3>1. velocities # <<>> /\ last.t_vel.at + since = clock
      BY <2>2 DEF TypeOK
    <3>2. last.t_vel.at \in 0..MaxTime /\ since \in 0..MaxTime /\ clock \in 0..MaxTime
      BY DEF TypeOK, Last, Stamp
    <3> QED BY <2>1, <3>1, <3>2, BoundsAssumption
  <2>3. LastIsLatest'
    BY <2>1, <2>2
  <2> QED BY <2>1, <2>3
<1>9. CASE ClockIsSet
  <2>1. /\ wasSet' = (velocities # <<>>)
        /\ UNCHANGED <<last, velocities, positions, pc, copy, sent>>
    BY <1>9 DEF ClockIsSet
  <2>2. Len(velocities) > 0 => wasSet'
    <3>1. Len(velocities) > 0 => velocities # <<>>
      BY DEF TypeOK
    <3> QED BY <2>1, <3>1
  <2>3. LastIsLatest'
    BY <2>1, <2>2
  <2> QED BY <2>1, <2>3
<1>10. CASE UNCHANGED vars BY <1>10 DEF vars
<1> QED
  BY <1>1, <1>2, <1>3, <1>4, <1>5, <1>6, <1>7, <1>8, <1>9, <1>10 DEF Next, Receiver, Main

(* Every delta sent is about two consecutive velocity reports, the later   *)
(* one valid, although reports and reconnections come between its parts.   *)
THEOREM DeltasAreConsecutive == Spec => []DeltaIsConsecutive
<1>1. Inv => DeltaIsConsecutive
  BY DEF Inv, Sent, SentMessage, Consecutive, DeltaIsConsecutive
<1> QED BY <1>1, TypeCorrect, InvInit, InvStep, PTL DEF Spec

(* Its attitudes are those of two consecutive position reports.            *)
THEOREM AttitudesAreConsecutive == Spec => []AttitudeIsConsecutive
<1>1. Inv => AttitudeIsConsecutive
  BY DEF Inv, Sent, SentMessage, Turned, AttitudeIsConsecutive
<1> QED BY <1>1, TypeCorrect, InvInit, InvStep, PTL DEF Spec

(* The interval sent is the real time between its two reports, unless the  *)
(* clock was set between them, when it is still within its limits; setting *)
(* it at any other time, receiving more and reconnecting do not falsify    *)
(* it.                                                                     *)
THEOREM IntervalsAreReal == Spec => []IntervalIsReal
<1>1. Inv => IntervalIsReal
  BY DEF Inv, Sent, SentMessage, Consecutive, IntervalIsReal
<1> QED BY <1>1, TypeCorrect, InvInit, InvStep, PTL DEF Spec
=============================================================================
