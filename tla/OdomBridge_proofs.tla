-------------------------- MODULE OdomBridge_proofs --------------------------
(***************************************************************************)
(* Proofs about OdomBridge, for any number of reports: the lock makes a    *)
(* message one state of the sensor, the event puts the origin first, and   *)
(* the bridge implements OdometryMailbox.                                  *)
(***************************************************************************)
EXTENDS OdomBridge, TLAPS

\* Who holds the lock is in a block under it, and nobody else is.
Exclusion ==
  /\ receiver \in {"stamp", "values"} <=> lock = "receiver"
  /\ main \in {"stamps", "values"} <=> lock = "main"

\* The report being handled is one that was received.
LineReceived ==
  receiver # "read" =>
    /\ line \in Report
    /\ line.type = "velocity" => /\ line.n <= Len(velocities)
                                /\ line.valid = velocities[line.n]

PositionWhole(d) == d.pos = d.t_pos

VelocityWhole(d) ==
  /\ d.t_vel <= Len(velocities)
  /\ d.t_vel = 0 => d.v = 0
  /\ d.t_vel # 0 => d.v = IF velocities[d.t_vel] THEN d.t_vel ELSE 0

\* What agrees where, with the half of last that is being written excepted.
LastWhole ==
  /\ receiver = "values" /\ line.type # "velocity" =>
       last.t_pos = line.n
  /\ ~(receiver = "values" /\ line.type # "velocity") => PositionWhole(last)
  /\ receiver = "values" /\ line.type = "velocity" =>
       last.t_vel = line.n
  /\ ~(receiver = "values" /\ line.type = "velocity") => VelocityWhole(last)

CopyWhole ==
  /\ main = "values" => copy.t_pos = last.t_pos /\ copy.t_vel = last.t_vel
  /\ main = "publish" => PositionWhole(copy) /\ VelocityWhole(copy)

PublishedWhole ==
  \A m \in published : m.t_vel # 0 /\ PositionWhole(m) /\ VelocityWhole(m)

Inv == Exclusion /\ LineReceived /\ LastWhole /\ CopyWhole /\ PublishedWhole

\* The event is set, and the main thread leaves its wait, after the origin
\* was sent.
Ordered ==
  /\ event => origin # "waiting"
  /\ main # "waiting" => event
  /\ published # {} => main # "waiting"

-----------------------------------------------------------------------------
(* The initial state has its types.                                        *)
LEMMA TypeInit == Init => TypeOK
<1> SUFFICES ASSUME Init PROVE TypeOK
  OBVIOUS
<1>1. Empty \in Last
  BY BoundsAssumption DEF Empty, Last, Numbers
<1>2. velocities \in Seq(BOOLEAN) /\ Len(velocities) = 0
  BY DEF Init
<1>3. Len(velocities) \in Numbers /\ positions \in Numbers
  BY <1>2, BoundsAssumption DEF Init, Numbers
<1> QED BY <1>1, <1>2, <1>3 DEF Init, TypeOK

(* Steps of the receiving thread keep the types.                           *)
LEMMA TypeReceiver ==
  ASSUME TypeOK, Receiver
  PROVE  TypeOK'
<1> USE BoundsAssumption DEF TypeOK, Last, Numbers, Report, recvVars, originVars, mainVars
<1>1. CASE SessionStarts BY <1>1 DEF SessionStarts
<1>2. CASE SessionEnds BY <1>2 DEF SessionEnds
<1>3. CASE ReadPosition BY <1>3 DEF ReadPosition
<1>4. CASE ReadVelocity
  <2>1. PICK valid \in BOOLEAN :
          /\ velocities' = Append(velocities, valid)
          /\ line' = [type |-> "velocity", n |-> Len(velocities) + 1, valid |-> valid]
    BY <1>4 DEF ReadVelocity
  <2>2. velocities' \in Seq(BOOLEAN) /\ Len(velocities') = Len(velocities) + 1
    BY <2>1
  <2> QED BY <1>4, <2>1, <2>2 DEF ReadVelocity
<1>5. CASE ReceiverEnters BY <1>5 DEF ReceiverEnters
<1>6. CASE WriteStamp
  <2>1. line.n \in Numbers BY DEF None
  <2> QED BY <1>6, <2>1 DEF WriteStamp
<1>7. CASE WriteValues
  <2>1. line.n \in Numbers /\ Kept(line) \in Numbers BY DEF None, Kept
  <2> QED BY <1>7, <2>1 DEF WriteValues, Released
<1> QED
  BY <1>1, <1>2, <1>3, <1>4, <1>5, <1>6, <1>7 DEF Receiver, Handle

(* So does every step.                                                     *)
LEMMA TypeStep == TypeOK /\ [Next]_vars => TypeOK'
<1> SUFFICES ASSUME TypeOK, [Next]_vars PROVE TypeOK'
  OBVIOUS
<1>1. CASE Receiver BY <1>1, TypeReceiver
<1>2. CASE Origin
  BY <1>2 DEF TypeOK, Origin, SendOrigin, SetEvent, OriginGoes, recvVars, mainVars
<1>3. CASE Main
  <2> USE DEF TypeOK, Last, recvVars, originVars, mainVars
  <2>1. CASE StartLoop BY <2>1 DEF StartLoop
  <2>2. CASE StartRound BY <2>2 DEF StartRound
  <2>3. CASE MainEnters BY <2>3 DEF MainEnters
  <2>4. CASE CopyStamps BY <2>4 DEF CopyStamps
  <2>5. CASE CopyValues BY <2>5 DEF CopyValues
  <2>6. CASE Publish BY <2>6 DEF Publish
  <2>7. CASE Finish BY <2>7 DEF Finish
  <2> QED BY <1>3, <2>1, <2>2, <2>3, <2>4, <2>5, <2>6, <2>7 DEF Main
<1>4. CASE RosShutdown
  BY <1>4 DEF TypeOK, RosShutdown, recvVars, originVars, mainVars
<1>5. CASE UNCHANGED vars
  BY <1>5 DEF TypeOK, vars, recvVars, originVars, mainVars
<1> QED BY <1>1, <1>2, <1>3, <1>4, <1>5 DEF Next

(* The bridge keeps its types, however many reports come.                  *)
THEOREM TypeCorrect == Spec => []TypeOK
  BY TypeInit, TypeStep, PTL DEF Spec

-----------------------------------------------------------------------------
(* A velocity report more leaves what agrees with the earlier ones.        *)
LEMMA VelocityWholeSurvives ==
  ASSUME TypeOK, NEW d \in Last, NEW valid \in BOOLEAN, VelocityWhole(d),
         velocities' = Append(velocities, valid)
  PROVE  /\ d.t_vel <= Len(velocities')
         /\ d.t_vel = 0 => d.v = 0
         /\ d.t_vel # 0 => d.v = IF velocities'[d.t_vel] THEN d.t_vel ELSE 0
<1>1. velocities \in Seq(BOOLEAN) /\ d.t_vel \in Nat
  BY BoundsAssumption DEF TypeOK, Last, Numbers
<1>2. Len(velocities') = Len(velocities) + 1
  BY <1>1
<1>3. d.t_vel # 0 => velocities'[d.t_vel] = velocities[d.t_vel]
  BY <1>1 DEF VelocityWhole
<1> QED BY <1>1, <1>2, <1>3 DEF VelocityWhole

(* Reading a velocity report disturbs neither the dictionary nor a copy.   *)
LEMMA ReadVelocityKeepsInv ==
  ASSUME TypeOK, Inv, ReadVelocity
  PROVE  Inv'
<1>1. PICK valid \in BOOLEAN :
        /\ velocities' = Append(velocities, valid)
        /\ line' = [type |-> "velocity", n |-> Len(velocities) + 1, valid |-> valid]
  BY DEF ReadVelocity
<1>2. /\ receiver = "read" /\ receiver' = "enter"
      /\ UNCHANGED <<lock, last, main, copy, published>>
  BY DEF ReadVelocity, Reading, mainVars
<1>3. /\ last \in Last /\ copy \in Last /\ published \subseteq Last
      /\ velocities \in Seq(BOOLEAN)
  BY DEF TypeOK
<1>4. Exclusion'
  BY <1>2 DEF Inv, Exclusion
<1>5. LineReceived'
  <2>1. Len(velocities) \in Nat /\ Len(velocities) < MaxReports
    BY <1>3 DEF ReadVelocity
  <2>2. line' \in Report
    BY <1>1, <2>1, BoundsAssumption DEF Report
  <2>3. line'.n <= Len(velocities') /\ line'.valid = velocities'[line'.n]
    BY <1>1, <1>3
  <2> QED BY <2>2, <2>3 DEF LineReceived
<1>6. LastWhole'
  BY <1>1, <1>2, <1>3, VelocityWholeSurvives DEF Inv, LastWhole, PositionWhole, VelocityWhole
<1>7. CopyWhole'
  BY <1>1, <1>2, <1>3, VelocityWholeSurvives DEF Inv, CopyWhole, PositionWhole, VelocityWhole
<1>8. PublishedWhole'
  <2>1. ASSUME NEW m \in published
        PROVE  m.t_vel # 0 /\ PositionWhole(m) /\ VelocityWhole(m)'
    BY <1>1, <1>3, <2>1, VelocityWholeSurvives DEF Inv, PublishedWhole, VelocityWhole
  <2> QED BY <1>2, <2>1 DEF PublishedWhole, PositionWhole
<1> QED BY <1>4, <1>5, <1>6, <1>7, <1>8 DEF Inv

(* The dictionary agrees with itself, and no message is out, at the start. *)
LEMMA InvInit == Init => Inv
  BY DEF Init, Inv, Exclusion, LineReceived, LastWhole, CopyWhole, PublishedWhole,
     PositionWhole, VelocityWhole, Empty, None

(* Agreement survives every step.                                          *)
LEMMA InvStep == TypeOK /\ Inv /\ [Next]_vars => Inv'
<1> SUFFICES ASSUME TypeOK, Inv, [Next]_vars PROVE Inv'
  OBVIOUS
<1>1. CASE ReadVelocity BY <1>1, ReadVelocityKeepsInv
<1> USE DEF Inv, Exclusion, LineReceived, LastWhole, CopyWhole, PublishedWhole,
            PositionWhole, VelocityWhole, recvVars, originVars, mainVars
<1>2. CASE SessionStarts BY <1>2 DEF SessionStarts
<1>3. CASE SessionEnds BY <1>3 DEF SessionEnds
<1>4. CASE ReadPosition
  <2>1. line' \in Report /\ line'.type # "velocity"
    BY <1>4, BoundsAssumption DEF ReadPosition, TypeOK, Numbers, Report
  <2> QED BY <1>4, <2>1 DEF ReadPosition, Reading
<1>5. CASE ReceiverEnters BY <1>5 DEF ReceiverEnters, MayEnter
<1>6. CASE WriteStamp
  <2>1. last \in Last /\ line.n # 0 /\ line.type \in {"velocity", "position_local"}
    BY <1>6, BoundsAssumption DEF WriteStamp, Report, TypeOK
  <2>2. main # "values" /\ UNCHANGED <<main, lock, copy, published, velocities, line>>
    BY <1>6 DEF WriteStamp
  <2> QED BY <1>6, <2>1, <2>2 DEF WriteStamp, Last
<1>7. CASE WriteValues
  <2>1. last \in Last /\ line.n # 0 /\ line.type \in {"velocity", "position_local"}
    BY <1>7, BoundsAssumption DEF WriteValues, Report, TypeOK
  <2>2. main # "values" /\ UNCHANGED <<main, copy, published, velocities, line>>
    BY <1>7 DEF WriteValues
  <2> QED BY <1>7, <2>1, <2>2 DEF WriteValues, Last, Kept, Released
<1>8. CASE Origin
  BY <1>8 DEF Origin, SendOrigin, SetEvent, OriginGoes
<1>9. CASE StartLoop BY <1>9 DEF StartLoop
<1>10. CASE StartRound BY <1>10 DEF StartRound
<1>11. CASE MainEnters BY <1>11 DEF MainEnters, MayEnter
<1>12. CASE CopyStamps BY <1>12 DEF CopyStamps, TypeOK, Last
<1>13. CASE CopyValues BY <1>13 DEF CopyValues, TypeOK, Last
<1>14. CASE Publish BY <1>14 DEF Publish
<1>15. CASE Finish BY <1>15 DEF Finish
<1>16. CASE RosShutdown BY <1>16 DEF RosShutdown
<1>17. CASE UNCHANGED vars BY <1>17 DEF vars
<1> QED
  BY <1>1, <1>2, <1>3, <1>4, <1>5, <1>6, <1>7, <1>8, <1>9, <1>10, <1>11, <1>12,
     <1>13, <1>14, <1>15, <1>16, <1>17 DEF Next, Receiver, Handle, Main

(* Every message published is one state of the sensor, however the writing *)
(* and the copying of the dictionary interleave.                           *)
THEOREM MessagesAreWhole == Spec => []MessageIsWhole
<1>1. Inv => MessageIsWhole
  BY DEF Inv, PublishedWhole, PositionWhole, VelocityWhole, MessageIsWhole
<1> QED BY <1>1, TypeCorrect, InvInit, InvStep, PTL DEF Spec

(* Who holds the lock is inside a block under it and can go on: no path of *)
(* either thread, an invalid report's included, leaves a block with it.    *)
THEOREM LockIsHeldInBlocks == Spec => []Exclusion
<1>1. Inv => Exclusion
  BY DEF Inv
<1> QED BY <1>1, TypeCorrect, InvInit, InvStep, PTL DEF Spec

-----------------------------------------------------------------------------
(* The order of the origin, the event and the odometry survives every step.*)
LEMMA OrderedStep == Ordered /\ [Next]_vars => Ordered'
<1> SUFFICES ASSUME Ordered, [Next]_vars PROVE Ordered'
  OBVIOUS
<1> USE DEF Ordered, recvVars, originVars, mainVars
<1>1. CASE Receiver
  BY <1>1 DEF Receiver, Handle, SessionStarts, SessionEnds, ReadPosition, ReadVelocity,
     ReceiverEnters, WriteStamp, WriteValues
<1>2. CASE Origin
  BY <1>2 DEF Origin, SendOrigin, SetEvent, Signals, OriginGoes
<1>3. CASE Main
  BY <1>3 DEF Main, StartLoop, StartRound, MainEnters, CopyStamps, CopyValues, Publish, Finish
<1>4. CASE RosShutdown BY <1>4 DEF RosShutdown
<1>5. CASE UNCHANGED vars BY <1>5 DEF vars
<1> QED BY <1>1, <1>2, <1>3, <1>4, <1>5 DEF Next

(* No odometry is published before the origin of the filter was sent.      *)
THEOREM OriginGoesFirst == Spec => []OriginFirst
<1>1. Init => Ordered
  BY DEF Init, Ordered
<1>2. TypeOK /\ Ordered => OriginFirst
  BY DEF TypeOK, Ordered, OriginFirst
<1> QED BY <1>1, <1>2, TypeCorrect, OrderedStep, PTL DEF Spec

-----------------------------------------------------------------------------
(* The mailbox.                                                            *)

\* A report that was read and is not in the dictionary yet.
Due(kind) == IF receiver \in {"enter", "stamp"} /\ line.type = kind THEN 1 ELSE 0

\* The dictionary has every report but the one that is due, which is next.
NextInLine ==
  /\ positions = last.t_pos + Due("position_local")
  /\ Len(velocities) = last.t_vel + Due("velocity")
  /\ receiver # "read" =>
       line.n = IF line.type = "velocity" THEN Len(velocities) ELSE positions

(* No report is left out of the dictionary or put into it twice.           *)
LEMMA NextInLineStep == TypeOK /\ Inv /\ NextInLine /\ [Next]_vars => NextInLine'
<1> SUFFICES ASSUME TypeOK, Inv, NextInLine, [Next]_vars PROVE NextInLine'
  OBVIOUS
<1>t. /\ last \in Last /\ last.t_pos \in Nat /\ last.t_vel \in Nat
      /\ positions \in Nat /\ velocities \in Seq(BOOLEAN) /\ Len(velocities) \in Nat
  BY BoundsAssumption DEF TypeOK, Last, Numbers
<1> USE DEF NextInLine, Due
<1>1. ASSUME UNCHANGED recvVars PROVE NextInLine'
  BY <1>1 DEF recvVars
<1>2. CASE SessionStarts BY <1>2 DEF SessionStarts
<1>3. CASE SessionEnds BY <1>3 DEF SessionEnds
<1>4. CASE ReadPosition BY <1>4, <1>t DEF ReadPosition, Reading
<1>5. CASE ReadVelocity
  <2>1. PICK valid \in BOOLEAN :
          /\ velocities' = Append(velocities, valid)
          /\ line' = [type |-> "velocity", n |-> Len(velocities) + 1, valid |-> valid]
    BY <1>5 DEF ReadVelocity
  <2>2. Len(velocities') = Len(velocities) + 1
    BY <2>1, <1>t
  <2> QED BY <1>5, <1>t, <2>1, <2>2 DEF ReadVelocity, Reading
<1>6. CASE ReceiverEnters BY <1>6 DEF ReceiverEnters
<1>7. CASE WriteStamp
  <2>1. line.type \in {"velocity", "position_local"}
    BY <1>7 DEF WriteStamp, Inv, LineReceived, Report
  <2> QED BY <1>7, <1>t, <2>1 DEF WriteStamp, Last
<1>8. CASE WriteValues BY <1>8, <1>t DEF WriteValues, Last
<1>9. CASE Origin \/ Main \/ RosShutdown
  BY <1>1, <1>9 DEF Origin, SendOrigin, SetEvent, OriginGoes, Main, StartLoop, StartRound,
     MainEnters, CopyStamps, CopyValues, Publish, Finish, RosShutdown
<1>10. CASE UNCHANGED vars BY <1>1, <1>10 DEF vars
<1> QED
  BY <1>2, <1>3, <1>4, <1>5, <1>6, <1>7, <1>8, <1>9, <1>10 DEF Next, Receiver, Handle

(* Every step under the lock is one of the mailbox or none of it: a report *)
(* is put in with its stamp, and looked up with the first value copied.    *)
LEMMA MailboxStep == TypeOK /\ Inv /\ NextInLine /\ [Next]_vars => [Mailbox!Next]_(Mailbox!mail)
<1> SUFFICES ASSUME TypeOK, Inv, NextInLine, [Next]_vars
             PROVE  [Mailbox!Next]_(Mailbox!mail)
  OBVIOUS
<1>t. last \in Last /\ copy \in Last
  BY DEF TypeOK
<1>1. ASSUME Latest' = Latest, Held' = Held, published' = published
      PROVE  UNCHANGED Mailbox!mail
  BY <1>1 DEF Mailbox!mail
<1>2. CASE SessionEnds \/ ReadPosition \/ ReadVelocity \/ ReceiverEnters
  <2>1. /\ receiver # "values" /\ receiver' # "values"
        /\ UNCHANGED <<last, main, copy, published>>
    BY <1>2 DEF SessionEnds, ReadPosition, ReadVelocity, ReceiverEnters, Reading, mainVars
  <2> QED BY <2>1, <1>1 DEF Latest, Held
<1>3. CASE WriteStamp
  <2>1. /\ receiver = "stamp" /\ receiver' = "values" /\ main # "values"
        /\ line \in Report /\ line.type \in {"velocity", "position_local"}
        /\ UNCHANGED <<line, main, copy, published>>
    BY <1>3 DEF WriteStamp, mainVars, Inv, Exclusion, LineReceived, Report
  <2>2. Latest = last /\ Held' = Held
    BY <2>1 DEF Latest, Held
  <2>3. CASE line.type = "velocity"
    <3>1. /\ last' = [last EXCEPT !.t_vel = line.n]
          /\ line.n = last.t_vel + 1
      BY <1>3, <2>1, <2>3 DEF WriteStamp, NextInLine, Due
    <3>2. Latest' = [last EXCEPT !.t_vel = line.n, !.v = Kept(line)]
      BY <2>1, <2>3, <3>1, <1>t DEF Latest, Kept, Last
    <3>3. Kept(line) \in {0, line.n}
      BY DEF Kept
    <3> QED BY <2>1, <2>2, <3>1, <3>2, <3>3 DEF Mailbox!Next, Mailbox!PutVelocity
  <2>4. CASE line.type # "velocity"
    <3>1. /\ last' = [last EXCEPT !.t_pos = line.n]
          /\ line.n = last.t_pos + 1
      BY <1>3, <2>1, <2>4 DEF WriteStamp, NextInLine, Due
    <3>2. Latest' = [last EXCEPT !.t_pos = line.n, !.pos = line.n]
      BY <2>1, <2>4, <3>1, <1>t DEF Latest, Last
    <3> QED BY <2>1, <2>2, <3>1, <3>2 DEF Mailbox!Next, Mailbox!PutPosition
  <2> QED BY <2>3, <2>4
<1>4. CASE WriteValues
  <2>1. /\ receiver = "values" /\ receiver' = "read" /\ main # "values"
        /\ UNCHANGED <<line, main, copy, published>>
    BY <1>4 DEF WriteValues, mainVars, Inv, Exclusion
  <2>2. Latest' = Latest
    BY <1>4, <2>1 DEF WriteValues, Latest
  <2> QED BY <2>1, <2>2, <1>1 DEF Held
<1>5. CASE CopyStamps
  <2>1. /\ main = "stamps" /\ main' = "values" /\ receiver \notin {"stamp", "values"}
        /\ UNCHANGED <<receiver, line, last, published>>
    BY <1>5 DEF CopyStamps, recvVars, Inv, Exclusion
  <2>2. Held' = Latest /\ Latest' = Latest
    BY <2>1 DEF Held, Latest
  <2> QED BY <2>1, <2>2 DEF Mailbox!Next, Mailbox!LookUp
<1>6. CASE CopyValues
  <2>1. /\ main = "values" /\ main' = "publish"
        /\ copy.t_pos = last.t_pos /\ copy.t_vel = last.t_vel
        /\ copy' = [copy EXCEPT !.pos = last.pos, !.v = last.v]
        /\ UNCHANGED <<receiver, line, last, published>>
    BY <1>6 DEF CopyValues, recvVars, Inv, CopyWhole
  <2>2. copy' = last
    BY <2>1, <1>t DEF Last
  <2> QED BY <2>1, <2>2, <1>1 DEF Held, Latest
<1>7. CASE Publish
  <2>1. /\ main = "publish" /\ main' = "loop"
        /\ UNCHANGED <<receiver, line, last, copy>>
        /\ published' = IF copy.t_pos # 0 /\ copy.t_vel # 0
                        THEN published \cup {copy} ELSE published
    BY <1>7 DEF Publish, recvVars
  <2>2. Held = copy /\ Held' = Held /\ Latest' = Latest
    BY <2>1 DEF Held, Latest
  <2> QED BY <2>1, <2>2, <1>1 DEF Mailbox!Next, Mailbox!Send
<1>8. CASE SessionStarts \/ Origin \/ StartLoop \/ StartRound \/ MainEnters \/ Finish
           \/ RosShutdown
  <2>1. /\ UNCHANGED <<receiver, line, last, copy, published>>
        /\ main' = main \/ (main # "values" /\ main' # "values")
    BY <1>8 DEF SessionStarts, Origin, SendOrigin, SetEvent, OriginGoes, StartLoop,
                StartRound, MainEnters, Finish, RosShutdown, recvVars, mainVars
  <2> QED BY <2>1, <1>1 DEF Held, Latest
<1>9. CASE UNCHANGED vars
  BY <1>1, <1>9 DEF vars, recvVars, mainVars, Held, Latest
<1> QED
  BY <1>2, <1>3, <1>4, <1>5, <1>6, <1>7, <1>8, <1>9 DEF Next, Receiver, Handle, Main

(* The bridge implements the mailbox: however the threads interleave, a    *)
(* report is put into the dictionary at one moment, every report once and  *)
(* in order, and a message is what the dictionary held at one moment.      *)
THEOREM MailboxImplemented == Spec => ImplementsMailbox
<1>1. Init => Mailbox!Init /\ NextInLine
  <2> SUFFICES ASSUME Init PROVE Mailbox!Init /\ NextInLine
    OBVIOUS
  <2>1. Latest = Empty /\ Held = Empty /\ published = {}
    BY DEF Init, Latest, Held
  <2>2. Empty = Mailbox!Nothing
    BY DEF Empty, Mailbox!Nothing
  <2>3. NextInLine
    BY DEF Init, NextInLine, Due, Empty
  <2> QED BY <2>1, <2>2, <2>3 DEF Mailbox!Init
<1>2. TypeOK /\ Inv /\ NextInLine /\ [Next]_vars => (TypeOK /\ Inv /\ NextInLine)'
  BY TypeStep, InvStep, NextInLineStep
<1>3. TypeOK /\ Inv /\ NextInLine /\ [Next]_vars => [Mailbox!Next]_(Mailbox!mail)
  BY MailboxStep
<1> QED BY <1>1, <1>2, <1>3, TypeInit, InvInit, PTL DEF Spec, ImplementsMailbox, Mailbox!Spec

\* What the mailbox keeps: it only goes forward, and what is held or was
\* sent came out of it.
State == [t_pos : Nat, pos : Nat, t_vel : Nat, v : Nat]

MailboxInv ==
  /\ Latest \in State /\ Held \in State /\ published \subseteq State
  /\ Mailbox!NotAfter(Held, Latest)
  /\ \A m \in published : Mailbox!NotAfter(m, Held)
  /\ Mailbox!Comparable

(* The order is one, and what only goes forward stays behind.              *)
LEMMA ForwardKeepsInv ==
  ASSUME MailboxInv, Latest' \in State, UNCHANGED <<Held, published>>,
         Latest'.t_pos >= Latest.t_pos, Latest'.t_vel >= Latest.t_vel
  PROVE  MailboxInv'
<1>1. Mailbox!NotAfter(Held, Latest')
  <2>1. Held.t_pos \in Nat /\ Latest.t_pos \in Nat /\ Latest'.t_pos \in Nat
        /\ Held.t_vel \in Nat /\ Latest.t_vel \in Nat /\ Latest'.t_vel \in Nat
    BY DEF MailboxInv, State
  <2> QED BY <2>1 DEF MailboxInv, Mailbox!NotAfter
<1> QED BY <1>1 DEF MailboxInv, Mailbox!Comparable, Mailbox!NotAfter

LEMMA MailboxInvStep == MailboxInv /\ [Mailbox!Next]_(Mailbox!mail) => MailboxInv'
<1> SUFFICES ASSUME MailboxInv, [Mailbox!Next]_(Mailbox!mail) PROVE MailboxInv'
  OBVIOUS
<1>t. Latest \in State /\ Latest.t_pos \in Nat /\ Latest.t_vel \in Nat
  BY DEF MailboxInv, State
<1>1. CASE Mailbox!PutPosition
  <2> DEFINE n == Latest.t_pos + 1
  <2>1. Latest' = [Latest EXCEPT !.t_pos = n, !.pos = n] /\ UNCHANGED <<Held, published>>
    BY <1>1 DEF Mailbox!PutPosition
  <2>2. n \in Nat /\ n >= Latest.t_pos
    BY <1>t
  <2> HIDE DEF n
  <2>3. Latest' \in State /\ Latest'.t_pos = n /\ Latest'.t_vel = Latest.t_vel
    BY <1>t, <2>1, <2>2 DEF State
  <2> QED BY <1>t, <2>1, <2>2, <2>3, ForwardKeepsInv
<1>2. CASE Mailbox!PutVelocity
  <2> DEFINE n == Latest.t_vel + 1
  <2>1. PICK v \in {0, n} : Latest' = [Latest EXCEPT !.t_vel = n, !.v = v]
    BY <1>2 DEF Mailbox!PutVelocity
  <2>2. UNCHANGED <<Held, published>>
    BY <1>2 DEF Mailbox!PutVelocity
  <2>3. n \in Nat /\ n >= Latest.t_vel /\ v \in Nat
    BY <1>t
  <2> HIDE DEF n
  <2>4. Latest' \in State /\ Latest'.t_vel = n /\ Latest'.t_pos = Latest.t_pos
    BY <1>t, <2>1, <2>3 DEF State
  <2> QED BY <1>t, <2>2, <2>3, <2>4, ForwardKeepsInv
<1> USE DEF MailboxInv, State, Mailbox!NotAfter, Mailbox!Comparable
<1>3. CASE Mailbox!LookUp
  BY <1>3 DEF Mailbox!LookUp
<1>4. CASE Mailbox!Send
  BY <1>4 DEF Mailbox!Send
<1>5. CASE UNCHANGED Mailbox!mail
  BY <1>5 DEF Mailbox!mail
<1> QED BY <1>1, <1>2, <1>3, <1>4, <1>5 DEF Mailbox!Next

(* Two messages never cross: one is the later in position and in velocity, *)
(* so none mixes a new position with a velocity older than one sent before.*)
THEOREM MessagesNeverCross == Spec => []Mailbox!Comparable
<1>1. Mailbox!Init => MailboxInv
  BY DEF Mailbox!Init, Mailbox!Nothing, MailboxInv, State, Mailbox!NotAfter,
         Mailbox!Comparable
<1>2. MailboxInv => Mailbox!Comparable
  BY DEF MailboxInv
<1>3. Spec => Mailbox!Spec
  BY MailboxImplemented DEF ImplementsMailbox
<1> QED BY <1>1, <1>2, <1>3, MailboxInvStep, PTL DEF Mailbox!Spec
=============================================================================
