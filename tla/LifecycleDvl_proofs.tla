-------------------------- MODULE LifecycleDvl_proofs --------------------------
(***************************************************************************)
(* Proofs about LifecycleDvl, for any reports, any number of transitions   *)
(* and any sequence of what the sensor sends.                              *)
(***************************************************************************)
EXTENDS LifecycleDvl, SequenceTheorems, TLAPS

\* The loop of on_configure runs again only because fault is not 0 whenever
\* the node is unconfigured.
Connection ==
  /\ ConfiguredMeansConnected
  /\ state = "unconfigured" => fault # 0

\* The altitude kept is the last measured, and every velocity report got the
\* one that was it then, whether all of its fields were there or not.
Altitudes ==
  /\ IsLastMeasured(handled, old_altitude, Len(handled))
  /\ \A i \in DOMAIN handled :
       handled[i].sent.type = "velocity" => IsLastMeasured(handled, handled[i].altitude, i)

-----------------------------------------------------------------------------
(* Types hold at the start.                                                *)
LEMMA TypeInit == Init => TypeOK
<1> SUFFICES ASSUME Init PROVE TypeOK
  OBVIOUS
<1>1. /\ rx \in Seq({Byte} \cup Reports)
      /\ handled \in Seq(Entry)
  BY DEF Init
<1>2. configures \in 0..MaxConfigures /\ sent \in 0..MaxTokens
  BY BoundsAssumption DEF Init
<1> QED BY <1>1, <1>2 DEF Init, TypeOK, Transitions

(* Transitions keep the types.                                             *)
LEMMA TypeTransition ==
  ASSUME TypeOK, Transition
  PROVE  TypeOK'
<1> USE BoundsAssumption DEF TypeOK, Answers, Transitions, connVars, peerVars, readVars
<1>1. <<>> \in Seq({Byte} \cup Reports)
  OBVIOUS
<1>2. CASE ConfigureNoSocket BY <1>2 DEF ConfigureNoSocket
<1>3. CASE Configure BY <1>1, <1>3 DEF Configure
<1>4. CASE Activate BY <1>4 DEF Activate
<1>5. CASE Deactivate BY <1>5 DEF Deactivate
<1>6. CASE Cleanup BY <1>1, <1>6 DEF Cleanup, Cleaned
<1>7. CASE Shutdown BY <1>7 DEF Shutdown
<1>8. CASE Refuse BY <1>8 DEF Refuse
<1> QED BY <1>2, <1>3, <1>4, <1>5, <1>6, <1>7, <1>8 DEF Transition

(* What the parser makes of a line is a report, and one that agrees with   *)
(* what was sent about the type and, for a velocity, about whether an      *)
(* altitude was measured; without a repeated byte it is what was sent.     *)
LEMMA ReadingsType ==
  ASSUME NEW s \in {"empty", "exact", "nul", "repeated"}, NEW line \in Reports,
         NEW r \in Readings(s, line), r.type # "other"
  PROVE  /\ r.type = line.type /\ r.altitude \in Int /\ r.complete \in BOOLEAN
         /\ Good(r) <=> line.valid /\ line.altitude >= 0
         /\ s = "exact" => r = line
<1>1. line \in ReportType
  BY ReportsAssumption
<1>2. r # Nothing
  BY DEF Nothing
<1>3. CASE s = "exact"
  BY <1>1, <1>3 DEF Readings, ReportType, Good
<1>4. CASE s = "repeated"
  <2>1. r \in Misread(line)
    BY <1>2, <1>4 DEF Readings
  <2>2. /\ r.type = line.type /\ r.valid = line.valid
        /\ r.complete \in {line.complete, FALSE} /\ r.altitude \in {line.altitude} \cup Garbled
        /\ r.altitude >= 0 <=> line.altitude >= 0
    BY <2>1 DEF Misread
  <2> QED BY <1>1, <1>4, <2>2, ReportsAssumption DEF Good, ReportType
<1>5. CASE s \in {"empty", "nul"}
  BY <1>2, <1>5 DEF Readings
<1> QED BY <1>3, <1>4, <1>5

(* Entries that were there stay the entries of their numbers.              *)
LEMMA LastMeasuredStays ==
  ASSUME NEW h \in Seq(Entry), NEW e,
         NEW a, NEW n \in 0..Len(h), IsLastMeasured(h, a, n)
  PROVE  IsLastMeasured(Append(h, e), a, n)
<1> DEFINE g == Append(h, e)
<1>1. \A k \in 1..n : g[k] = h[k]
  OBVIOUS
<1>2. \A k \in 1..n : \A j \in k + 1..n : j \in 1..n
  OBVIOUS
<1> HIDE DEF g
<1>3. IsLastMeasured(g, a, n)
  BY <1>1, <1>2 DEF IsLastMeasured
<1> QED BY <1>3 DEF g

(* An entry that measures is the last measured, up to a repeated byte.     *)
LEMMA MeasuringIsLast ==
  ASSUME NEW h \in Seq(Entry), NEW e, Measured(e.sent),
         NEW a \in Int, a >= 0, e.exact => a = e.sent.altitude
  PROVE  IsLastMeasured(Append(h, e), a, Len(h) + 1)
<1> DEFINE g == Append(h, e)
           n == Len(h)
<1>1. n \in Nat /\ g[n + 1] = e
  OBVIOUS
<1> HIDE DEF g, n
<1>2. n + 1 \in 1..n + 1 /\ \A j \in (n + 1) + 1..n + 1 : FALSE
  BY <1>1
<1>3. IsLastMeasured(g, a, n + 1)
  BY <1>1, <1>2 DEF IsLastMeasured
<1> QED BY <1>3 DEF g, n

(* An entry that does not measure leaves the last measured as it was.      *)
LEMMA OthersLeaveLast ==
  ASSUME NEW h \in Seq(Entry), NEW e, ~Measured(e.sent),
         NEW a, IsLastMeasured(h, a, Len(h))
  PROVE  IsLastMeasured(Append(h, e), a, Len(h) + 1)
<1> DEFINE g == Append(h, e)
           n == Len(h)
<1>1. /\ n \in Nat /\ g[n + 1] = e
      /\ \A k \in 1..n : g[k] = h[k]
  OBVIOUS
<1>2. IsLastMeasured(h, a, n)
  OBVIOUS
<1> HIDE DEF g, n
<1>3. CASE a = 0 /\ \A k \in 1..n : ~Measured(h[k].sent)
  <2>1. \A k \in 1..n + 1 : k \in 1..n \/ k = n + 1
    BY <1>1
  <2>2. \A k \in 1..n + 1 : ~Measured(g[k].sent)
    BY <1>1, <1>3, <2>1
  <2>3. IsLastMeasured(g, a, n + 1)
    BY <1>3, <2>2 DEF IsLastMeasured
  <2> QED BY <2>3 DEF g, n
<1>4. CASE \E k \in 1..n : /\ Measured(h[k].sent)
                           /\ \A j \in k + 1..n : ~Measured(h[j].sent)
                           /\ a >= 0
                           /\ h[k].exact => a = h[k].sent.altitude
  <2>1. PICK k \in 1..n : /\ Measured(h[k].sent)
                          /\ \A j \in k + 1..n : ~Measured(h[j].sent)
                          /\ a >= 0
                          /\ h[k].exact => a = h[k].sent.altitude
    BY <1>4
  <2>2. k \in 1..n + 1 /\ g[k] = h[k]
    BY <1>1
  <2>3. \A j \in k + 1..n + 1 : ~Measured(g[j].sent)
    <3> SUFFICES ASSUME NEW j \in k + 1..n + 1 PROVE ~Measured(g[j].sent)
      OBVIOUS
    <3>1. CASE j = n + 1
      BY <1>1, <3>1
    <3>2. CASE j # n + 1
      <4>1. j \in k + 1..n /\ j \in 1..n
        BY <1>1, <3>2
      <4> QED BY <1>1, <2>1, <4>1
    <3> QED BY <3>1, <3>2
  <2>4. IsLastMeasured(g, a, n + 1)
    BY <2>1, <2>2, <2>3 DEF IsLastMeasured
  <2> QED BY <2>4 DEF g, n
<1> QED BY <1>2, <1>3, <1>4 DEF IsLastMeasured

(* One more entry, with what was last measured when it was made.           *)
LEMMA EntryKeepsAltitudes ==
  ASSUME handled \in Seq(Entry), Altitudes, NEW e, handled' = Append(handled, e),
         IsLastMeasured(handled', old_altitude', Len(handled) + 1),
         e.sent.type = "velocity" => e.altitude = old_altitude'
  PROVE  Altitudes'
<1>1. /\ Len(handled) \in Nat /\ Len(handled') = Len(handled) + 1
      /\ DOMAIN handled = 1..Len(handled) /\ DOMAIN handled' = 1..Len(handled) + 1
      /\ handled'[Len(handled) + 1] = e
      /\ \A k \in 1..Len(handled) : handled'[k] = handled[k]
  OBVIOUS
<1>2. ASSUME NEW i \in DOMAIN handled', handled'[i].sent.type = "velocity"
      PROVE  IsLastMeasured(handled', handled'[i].altitude, i)
  <2>1. CASE i = Len(handled) + 1
    <3>1. handled'[i].altitude = old_altitude'
      BY <1>1, <1>2, <2>1
    <3> QED BY <2>1, <3>1
  <2>2. CASE i \in DOMAIN handled
    <3>1. handled'[i] = handled[i] /\ i \in 0..Len(handled)
      BY <1>1, <2>2
    <3>2. IsLastMeasured(handled, handled[i].altitude, i)
      BY <1>2, <2>2, <3>1 DEF Altitudes
    <3> QED BY <3>1, <3>2, LastMeasuredStays
  <2> QED BY <1>1, <2>1, <2>2
<1> QED BY <1>1, <1>2 DEF Altitudes

(* What a newline does to the altitudes: a report's effect, or none.       *)
LEMMA NewlineEffect ==
  ASSUME TypeOK, ReadNewline
  PROVE  /\ old_altitude' \in Int
         /\ handled' \in Seq(Entry)
         /\ Altitudes => Altitudes'
<1> DEFINE line == Head(rx)
<1>1. line \in Reports /\ str \in {"empty", "exact", "nul", "repeated"}
  BY DEF TypeOK, ReadNewline
<1>2. PICK r \in Readings(str, line) :
        \/ Velocity(line, r)
        \/ Position(line, r)
        \/ r.type = "other" /\ UNCHANGED <<old_altitude, handled>>
  BY DEF ReadNewline
<1>3. old_altitude \in Int /\ handled \in Seq(Entry)
  BY DEF TypeOK
<1> DEFINE e(a) == [sent |-> line, exact |-> str = "exact",
                    altitude |-> a, published |-> r.complete]
<1> HIDE DEF line
<1>4. CASE Velocity(line, r)
  <2>1. /\ r.type = line.type /\ r.altitude \in Int /\ r.complete \in BOOLEAN
        /\ Good(r) <=> line.valid /\ line.altitude >= 0
        /\ str = "exact" => r = line
        /\ r.type = "velocity"
    BY <1>1, <1>4, ReadingsType DEF Velocity
  <2>2. /\ old_altitude' = IF Good(r) THEN r.altitude ELSE old_altitude
        /\ handled' = Append(handled, e(old_altitude'))
    BY <1>4 DEF Velocity, Handles
  <2>3. old_altitude' \in Int
    BY <1>3, <2>1, <2>2
  <2>4. e(old_altitude') \in Entry
    BY <1>1, <2>1, <2>3 DEF Entry
  <2>5. e(old_altitude').sent = line /\ (e(old_altitude').exact => str = "exact")
        /\ e(old_altitude').altitude = old_altitude'
    OBVIOUS
  <2>6. PICK f : f = e(old_altitude')
    OBVIOUS
  <2> HIDE DEF e
  <2>7. Measured(f.sent) <=> Good(r)
    BY <2>1, <2>5, <2>6 DEF Measured
  <2>8. handled' = Append(handled, f) /\ f \in Entry
    BY <2>2, <2>4, <2>6
  <2>9. ASSUME Altitudes
        PROVE  IsLastMeasured(handled', old_altitude', Len(handled) + 1)
    <3>1. CASE Good(r)
      <4>1. Measured(f.sent) /\ old_altitude' \in Int /\ old_altitude' >= 0
            /\ (f.exact => old_altitude' = f.sent.altitude)
        BY <2>1, <2>2, <2>3, <2>5, <2>6, <2>7, <3>1 DEF Good
      <4> QED BY <1>3, <2>8, <4>1, MeasuringIsLast
    <3>2. CASE ~Good(r)
      <4>1. old_altitude' = old_altitude /\ ~Measured(f.sent)
        BY <2>2, <2>7, <3>2
      <4>2. IsLastMeasured(handled, old_altitude, Len(handled))
        BY <2>9 DEF Altitudes
      <4> QED BY <1>3, <2>8, <4>1, <4>2, OthersLeaveLast
    <3> QED BY <3>1, <3>2
  <2>10. Altitudes => Altitudes'
    BY <1>3, <2>5, <2>6, <2>8, <2>9, EntryKeepsAltitudes
  <2> QED BY <1>3, <2>3, <2>8, <2>10
<1>5. CASE Position(line, r)
  <2>1. /\ r.type = line.type /\ r.complete \in BOOLEAN /\ r.type = "position_local"
    BY <1>1, <1>5, ReadingsType DEF Position
  <2>2. old_altitude' = old_altitude /\ handled' = Append(handled, e(0))
    BY <1>5 DEF Position, Handles
  <2>3. e(0) \in Entry /\ e(0).sent = line
    BY <1>1, <2>1 DEF Entry
  <2>4. PICK f : f = e(0)
    OBVIOUS
  <2> HIDE DEF e
  <2>5. /\ handled' = Append(handled, f) /\ f \in Entry
        /\ f.sent.type # "velocity" /\ ~Measured(f.sent)
    BY <2>1, <2>2, <2>3, <2>4 DEF Measured
  <2>6. ASSUME Altitudes
        PROVE  IsLastMeasured(handled', old_altitude', Len(handled) + 1)
    <3>1. IsLastMeasured(handled, old_altitude, Len(handled))
      BY <2>6 DEF Altitudes
    <3> QED BY <1>3, <2>2, <2>5, <3>1, OthersLeaveLast
  <2>7. Altitudes => Altitudes'
    BY <1>3, <2>5, <2>6, EntryKeepsAltitudes
  <2> QED BY <1>3, <2>2, <2>5, <2>7
<1>6. CASE UNCHANGED <<old_altitude, handled>>
  BY <1>3, <1>6 DEF Altitudes, IsLastMeasured
<1> QED BY <1>2, <1>4, <1>5, <1>6

(* Every step keeps the types.                                             *)
LEMMA TypeStep == TypeOK /\ [Next]_vars => TypeOK'
<1> SUFFICES ASSUME TypeOK, [Next]_vars PROVE TypeOK'
  OBVIOUS
<1>1. CASE Transition BY <1>1, TypeTransition
<1>2. CASE ReadNewline
  <2>1. old_altitude' \in Int /\ handled' \in Seq(Entry)
    BY <1>2, NewlineEffect
  <2>2. rx' \in Seq({Byte} \cup Reports)
    BY <1>2 DEF ReadNewline, TypeOK
  <2> QED BY <1>2, <2>1, <2>2 DEF ReadNewline, TypeOK, connVars, peerVars
<1> USE BoundsAssumption DEF TypeOK, Transitions, connVars, peerVars, readVars
<1>3. CASE ClientRequests BY <1>3 DEF ClientRequests
<1>4. CASE TimerFires BY <1>4 DEF TimerFires
<1>5. CASE ReadByte
  <2>1. rx' \in Seq({Byte} \cup Reports)
    BY <1>5 DEF ReadByte
  <2> QED BY <1>5, <2>1 DEF ReadByte
<1>6. CASE ReadNothing BY <1>6 DEF ReadNothing
<1>7. CASE SensorSends
  <2>1. rx' \in Seq({Byte} \cup Reports)
    BY <1>7 DEF SensorSends
  <2> QED BY <1>7, <2>1 DEF SensorSends
<1>8. CASE SensorCloses BY <1>8 DEF SensorCloses
<1>9. CASE UNCHANGED vars BY <1>9 DEF vars
<1> QED
  BY <1>1, <1>2, <1>3, <1>4, <1>5, <1>6, <1>7, <1>8, <1>9 DEF Next, Executor, Read

(* The node keeps its types, for any reports and any transitions.          *)
THEOREM TypeCorrect == Spec => []TypeOK
  BY TypeInit, TypeStep, PTL DEF Spec

-----------------------------------------------------------------------------
(* The connection and the lifecycle state go together after every step.    *)
LEMMA ConnectionStep == Connection /\ [Next]_vars => Connection'
<1> SUFFICES ASSUME Connection, [Next]_vars PROVE Connection'
  OBVIOUS
<1> USE DEF Connection, ConfiguredMeansConnected, Answers, connVars
<1>1. CASE ConfigureNoSocket BY <1>1 DEF ConfigureNoSocket
<1>2. CASE Configure BY <1>2 DEF Configure
<1>3. CASE Activate \/ Deactivate BY <1>3 DEF Activate, Deactivate
<1>4. CASE Cleanup BY <1>4 DEF Cleanup, Cleaned
<1>5. CASE Shutdown \/ Refuse BY <1>5 DEF Shutdown, Refuse
<1>6. CASE TimerFires \/ Read
  BY <1>6 DEF TimerFires, Read, ReadByte, ReadNothing, ReadNewline
<1>7. CASE ClientRequests \/ SensorSends \/ SensorCloses
  BY <1>7 DEF ClientRequests, SensorSends, SensorCloses
<1>8. CASE UNCHANGED vars BY <1>8 DEF vars
<1> QED
  BY <1>1, <1>2, <1>3, <1>4, <1>5, <1>6, <1>7, <1>8 DEF Next, Executor, Transition

(* An inactive or active node has its connection, however often it was     *)
(* configured and cleaned up.                                              *)
THEOREM ConfiguredIsConnected == Spec => []ConfiguredMeansConnected
<1>1. Init => Connection
  BY DEF Init, Connection, ConfiguredMeansConnected
<1>2. Connection => ConfiguredMeansConnected
  BY DEF Connection
<1> QED BY <1>1, <1>2, ConnectionStep, PTL DEF Spec

(* Only a line that is handled touches the altitude.                       *)
LEMMA AltitudesStep == TypeOK /\ Altitudes /\ [Next]_vars => Altitudes'
<1> SUFFICES ASSUME TypeOK, Altitudes, [Next]_vars PROVE Altitudes'
  OBVIOUS
<1>1. CASE ReadNewline BY <1>1, NewlineEffect
<1>2. CASE UNCHANGED <<old_altitude, handled>>
  BY <1>2 DEF Altitudes, IsLastMeasured
<1>3. ReadNewline \/ UNCHANGED <<old_altitude, handled>>
  BY DEF Next, Executor, Transition, Read, ConfigureNoSocket, Configure, Activate,
     Deactivate, Cleanup, Shutdown, Refuse, TimerFires, ReadByte, ReadNothing,
     ClientRequests, SensorSends, SensorCloses, vars, readVars
<1> QED BY <1>1, <1>2, <1>3

(* Every velocity report is published with the altitude that was measured  *)
(* last, whatever comes in between: reports without one, reports that are  *)
(* not published, timeouts, reconfigurations.                              *)
THEOREM AltitudesAreLastMeasured == Spec => []AltitudeIsLastMeasured
<1>1. Init => Altitudes
  BY DEF Init, Altitudes, IsLastMeasured
<1>2. Altitudes => AltitudeIsLastMeasured
  BY DEF Altitudes, AltitudeIsLastMeasured
<1> QED BY <1>1, <1>2, TypeCorrect, AltitudesStep, PTL DEF Spec
=============================================================================
