------------------------- MODULE SampleBridge_proofs -------------------------
(***************************************************************************)
(* Theorems about SampleBridge.  Reports are numbered in the order they are*)
(* read, and last holds the number of the latest handled one (Numbered);   *)
(* the publishing thread copies no older one than that when it read its    *)
(* clock (CopyFollows); a derived velocity in last is about the two latest *)
(* reports of a connection (Derivations).                                  *)
(***************************************************************************)
EXTENDS SampleBridge, TLAPS

USE AgesAssumption, BoundsAssumption

Numbered ==
  /\ last.is.n = Handled
  /\ got # None => online /\ got.n = count /\ got.conn = connects
  /\ prev # None => script = "pose" /\ prev.n = Handled /\ prev.conn = connects
  /\ online => connects > 0

CopyFollows ==
  /\ pc \in {"copying", "deciding"} => seen <= last.is.n
  /\ pc = "deciding" => seen <= copy.is.n

\* The velocity of s, if not zero, is that of two successive reports.
DerivedSoundly(s) ==
  s.from # None => /\ s.from.conn = s.is.conn
                   /\ s.from.n = s.is.n - 1
                   /\ s.is.t - s.from.t \in 1..MaxGap - 1

Derivations == DerivedSoundly(last) /\ DerivedSoundly(copy)

IInv ==
  /\ TypeOK
  /\ Numbered
  /\ CopyFollows
  /\ Derivations
  /\ PublishesNewest
  /\ ExtrapolatesSoundly

-----------------------------------------------------------------------------
(* The values everything starts with have their types.                     *)
LEMMA EmptyTypes == Empty \in Sample /\ Nothing \in Message
BY DEF Empty, Nothing, None, Sample, Message

(* The invariant holds at the start.                                       *)
LEMMA InitHolds == Init => IInv
<1> SUFFICES ASSUME Init PROVE IInv
  OBVIOUS
<1> USE DEF Init
<1>1. 0 \in 0..MaxTime /\ 0 \in 0..MaxReports /\ 0 \in 0..MaxConnects
  OBVIOUS
<1>2. TypeOK
  BY EmptyTypes, <1>1 DEF TypeOK
<1>3. Numbered /\ CopyFollows /\ Derivations
  BY DEF Numbered, CopyFollows, Derivations, DerivedSoundly, Handled, Empty, None
<1>4. PublishesNewest /\ ExtrapolatesSoundly
  BY DEF PublishesNewest, ExtrapolatesSoundly, Nothing, Empty, None
<1> QED BY <1>2, <1>3, <1>4 DEF IInv

(* A report is not None.                                                   *)
LEMMA ReportIsSome == \A r \in Report : r # None
BY DEF Report, None

(* Types hold after every step.                                            *)
LEMMA TypeHolds == IInv /\ [Next]_vars => TypeOK'
<1> SUFFICES ASSUME IInv, [Next]_vars PROVE TypeOK'
    OBVIOUS
<1> USE DEF IInv, TypeOK, recvVars, pubVars
<1>1. CASE Connect BY <1>1 DEF Connect, AtConnect
<1>2. CASE Disconnect BY <1>2 DEF Disconnect
<1>3. CASE ReadReport
  <2>1. PICK valid \in BOOLEAN :
          got' = [n |-> count + 1, conn |-> connects, t |-> clock, valid |-> valid]
        BY <1>3 DEF ReadReport
  <2>2. connects \in 1..MaxConnects
        BY <1>3 DEF ReadReport, Numbered
  <2>3. QED BY <1>3, <2>1, <2>2 DEF ReadReport, Report
<1>4. CASE StoreVelocity BY <1>4 DEF StoreVelocity, Stored, Sample
<1>5. CASE StorePosition BY <1>5 DEF StorePosition, Derived, Sample
<1>6. CASE ReadClock BY <1>6 DEF ReadClock, Handled, Numbered, Report
<1>7. CASE CopyLast BY <1>7 DEF CopyLast
<1>8. CASE Decide
  <2>1. Ahead(Age) \in 0..MaxExtrapolate
        BY DEF Ahead, Age, Sample, Report, None
  <2>2. QED BY <1>8, <2>1 DEF Decide, PublishVelocity, PublishPosition, Skip, Message
<1>9. CASE Finish BY <1>9 DEF Finish
<1>10. CASE Tick BY <1>10 DEF Tick
<1>11. CASE UNCHANGED vars BY <1>11 DEF vars
<1>12. QED
  BY <1>1, <1>2, <1>3, <1>4, <1>5, <1>6, <1>7, <1>8, <1>9, <1>10, <1>11
     DEF Next, Receiver, Publisher

(* Reports stay numbered: storing one makes it the latest.                 *)
LEMMA NumberedHolds == IInv /\ [Next]_vars => Numbered'
<1> SUFFICES ASSUME IInv, [Next]_vars PROVE Numbered'
    OBVIOUS
<1> USE DEF IInv, TypeOK, Numbered, Handled, recvVars, pubVars
<1>1. CASE Connect BY <1>1 DEF Connect, AtConnect
<1>2. CASE Disconnect BY <1>2 DEF Disconnect
<1>3. CASE ReadReport BY <1>3 DEF ReadReport, None
<1>4. CASE StoreVelocity BY <1>4 DEF StoreVelocity, Stored
<1>5. CASE StorePosition BY <1>5 DEF StorePosition
<1>6. CASE Publisher BY <1>6 DEF Publisher, ReadClock, CopyLast, Decide
<1>7. CASE Finish BY <1>7 DEF Finish
<1>8. CASE Tick BY <1>8 DEF Tick
<1>9. CASE UNCHANGED vars BY <1>9 DEF vars
<1>10. QED
  BY <1>1, <1>2, <1>3, <1>4, <1>5, <1>6, <1>7, <1>8, <1>9 DEF Next, Receiver

(* What is copied is no older than what had been handled when the clock was*)
(* read, since a report that is stored is younger than the one it replaces.*)
LEMMA CopyHolds == IInv /\ [Next]_vars => CopyFollows'
<1> SUFFICES ASSUME IInv, [Next]_vars PROVE CopyFollows'
    OBVIOUS
<1> USE DEF IInv, TypeOK, Numbered, CopyFollows, Handled, recvVars, pubVars
<1>1. CASE Connect \/ Disconnect BY <1>1 DEF Connect, Disconnect
<1>2. CASE ReadReport BY <1>2 DEF ReadReport
<1>3. CASE StoreVelocity BY <1>3 DEF StoreVelocity, Stored
<1>4. CASE StorePosition BY <1>4 DEF StorePosition
<1>5. CASE ReadClock BY <1>5 DEF ReadClock
<1>6. CASE CopyLast BY <1>6 DEF CopyLast
<1>7. CASE Decide BY <1>7 DEF Decide
<1>8. CASE Finish \/ Tick BY <1>8 DEF Finish, Tick
<1>9. CASE UNCHANGED vars BY <1>9 DEF vars
<1>10. QED
  BY <1>1, <1>2, <1>3, <1>4, <1>5, <1>6, <1>7, <1>8, <1>9 DEF Next, Receiver, Publisher

(* prev is the report before got and of its connection, so what is derived *)
(* from the two is sound.                                                  *)
LEMMA DerivedHolds == IInv /\ [Next]_vars => Derivations'
<1> SUFFICES ASSUME IInv, [Next]_vars PROVE Derivations'
    OBVIOUS
<1> USE DEF IInv, Derivations, recvVars, pubVars
<1>1. CASE StoreVelocity BY <1>1 DEF StoreVelocity, Stored, DerivedSoundly
<1>2. CASE StorePosition
  <2>1. DerivedSoundly([is |-> got, from |-> Derived(prev, got)])
    <3>1. CASE Derived(prev, got) = None
          BY <3>1 DEF DerivedSoundly
    <3>2. CASE Derived(prev, got) # None
      <4>1. Derived(prev, got) = prev /\ prev # None /\ got.t - prev.t > 0 /\ got.t - prev.t < MaxGap
            BY <3>2 DEF Derived
      <4>2. got \in Report /\ prev \in Report
            BY <1>2, <4>1 DEF StorePosition, TypeOK
      <4>3. prev.n = got.n - 1 /\ prev.conn = got.conn
            BY <1>2, <4>1 DEF StorePosition, Numbered, Handled, TypeOK
      <4>4. got.t - prev.t \in 1..MaxGap - 1
            BY <4>1, <4>2 DEF Report
      <4> QED BY <4>1, <4>3, <4>4 DEF DerivedSoundly
    <3> QED BY <3>1, <3>2
  <2> QED BY <1>2, <2>1 DEF StorePosition
<1>3. CASE CopyLast BY <1>3 DEF CopyLast
<1>4. CASE Connect \/ Disconnect \/ ReadReport
      BY <1>4 DEF Connect, Disconnect, ReadReport
<1>5. CASE ReadClock \/ Decide \/ Finish \/ Tick
      BY <1>5 DEF ReadClock, Decide, Finish, Tick
<1>6. CASE UNCHANGED vars BY <1>6 DEF vars
<1>7. QED
  BY <1>1, <1>2, <1>3, <1>4, <1>5, <1>6 DEF Next, Receiver, Publisher

(* A message is decided on by what was copied.                             *)
LEMMA MessagesHold == IInv /\ [Next]_vars => PublishesNewest' /\ ExtrapolatesSoundly'
<1> SUFFICES ASSUME IInv, [Next]_vars PROVE PublishesNewest' /\ ExtrapolatesSoundly'
    OBVIOUS
<1>1. CASE Decide
  <2> USE <1>1 DEF Decide, IInv, recvVars
  <2>1. CASE PublishVelocity
    <3>1. copy.is.valid /\ now - copy.is.t <= DataTimeout
      <4>1. Age \in Int
            BY DEF Age, TypeOK, Sample, Report, None
      <4> QED BY <2>1, <4>1 DEF PublishVelocity, SkipsVelocity, TooOld, Age
    <3> QED BY <2>1, <3>1 DEF PublishVelocity, PublishesNewest, ExtrapolatesSoundly, CopyFollows
  <2>2. CASE PublishPosition
    <3>1. Ahead(Age) > 0 => Ahead(Age) = now - copy.is.t
          BY DEF Ahead, Age
    <3> QED BY <2>2, <3>1 DEF PublishPosition, PublishesNewest, ExtrapolatesSoundly,
                              CopyFollows, Derivations, DerivedSoundly
  <2>3. CASE Skip BY <2>3 DEF Skip, PublishesNewest, ExtrapolatesSoundly
  <2> QED BY <2>1, <2>2, <2>3
<1>2. CASE UNCHANGED <<script, sent>>
      BY <1>2 DEF IInv, PublishesNewest, ExtrapolatesSoundly
<1>3. CASE ~Decide
      BY <1>2, <1>3 DEF Next, Receiver, Publisher, Connect, Disconnect, ReadReport, StoreVelocity,
         StorePosition, ReadClock, CopyLast, Finish, Tick, vars, recvVars, pubVars
<1> QED BY <1>1, <1>3

-----------------------------------------------------------------------------
(* The parts together are inductive.                                       *)
LEMMA Invariance == Spec => []IInv
<1>1. IInv /\ [Next]_vars => IInv'
      BY TypeHolds, NumberedHolds, CopyHolds, DerivedHolds, MessagesHold DEF IInv
<1> QED BY InitHolds, <1>1, PTL DEF Spec

(* The bridges keep their types, for any ages and bounds.                  *)
THEOREM TypeCorrect == Spec => []TypeOK
BY Invariance, PTL DEF IInv

(* No message of either bridge passes over a report that was handled before*)
(* its time was read, and no velocity is invalid or too old for its stamp. *)
THEOREM NewestIsPublished == Spec => []PublishesNewest
BY Invariance, PTL DEF IInv

(* A position is moved on only by motion between two successive reports of *)
(* one connection, for any limits on the gap and the extrapolation.        *)
THEOREM ExtrapolationIsSound == Spec => []ExtrapolatesSoundly
BY Invariance, PTL DEF IInv
=============================================================================
