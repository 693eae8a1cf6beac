----------------------------- MODULE SampleBridge -----------------------------
(***************************************************************************)
(* dvl2mavros_speed.py and dvl2mavros_pose.py.  Both keep the latest report*)
(* of their type in a dictionary that a receiving thread writes and a      *)
(* publishing thread copies, each inside one critical section, so a section*)
(* is a step; what lies between them is not protected.  The speed bridge   *)
(* publishes valid velocities that are not too old.  The pose bridge always*)
(* publishes, and moves a recent position on by a velocity it derives from *)
(* two reports.  Which of the two runs is settled at the start.            *)
(*                                                                         *)
(* A report is its number, the connection it came by, the time it was read *)
(* and whether the sensor called it valid; a derived velocity is the report*)
(* before, None for zero.                                                  *)
(***************************************************************************)
EXTENDS Integers

CONSTANTS
  DataTimeout,       \* data_timeout_s
  MaxGap,            \* one second, the limit on derived velocities
  MaxExtrapolate,    \* max_extrapolate_s
  UseExtrapolation,  \* use_extrapolation
  MaxReports,        \* bound on the reports
  MaxTime,           \* bound on the clock
  MaxConnects        \* bound on the connections

ASSUME AgesAssumption ==
  DataTimeout \in Nat /\ MaxGap \in Nat /\ MaxExtrapolate \in Nat /\ UseExtrapolation \in BOOLEAN
ASSUME BoundsAssumption == MaxReports \in Nat /\ MaxTime \in Nat /\ MaxConnects \in Nat

VARIABLES
  script,    \* "speed" or "pose"
  clock,
  connects,  \* connections so far
  online,    \* is the receiving thread in its inner loop?
  count,     \* reports read so far
  got,       \* the report read and not yet stored
  prev,      \* prev, in the pose bridge: the last report of this connection
  last,      \* _last_velocity, or _last with the derived velocity
  pc,        \* the publishing thread
  now,       \* its time, read before it takes the lock
  seen,      \* history: how many reports had been handled by then
  copy,      \* what it copied of last
  sent       \* the latest message

recvVars == <<connects, online, count, got, prev, last>>
pubVars == <<pc, now, seen, copy, sent>>
vars == <<script, clock, recvVars, pubVars>>

Report == [n : 1..MaxReports, conn : 1..MaxConnects, t : 0..MaxTime, valid : BOOLEAN]
None == [n |-> 0, conn |-> 0, t |-> 0, valid |-> FALSE]

Sample == [is : Report \cup {None}, from : Report \cup {None}]
Empty == [is |-> None, from |-> None]

Message == [of : Sample, at : 0..MaxTime, ahead : 0..MaxExtrapolate, seen : 0..MaxReports]
Nothing == [of |-> Empty, at |-> 0, ahead |-> 0, seen |-> 0]

TypeOK ==
  /\ script \in {"speed", "pose"}
  /\ clock \in 0..MaxTime
  /\ connects \in 0..MaxConnects
  /\ online \in BOOLEAN
  /\ count \in 0..MaxReports
  /\ got \in Report \cup {None}
  /\ prev \in Report \cup {None}
  /\ last \in Sample
  /\ pc \in {"top", "copying", "deciding", "done"}
  /\ now \in 0..MaxTime
  /\ seen \in 0..MaxReports
  /\ copy \in Sample
  /\ sent \in Message

Init ==
  /\ script \in {"speed", "pose"}
  /\ clock = 0
  /\ connects = 0
  /\ online = FALSE
  /\ count = 0
  /\ got = None
  /\ prev = None
  /\ last = Empty
  /\ pc = "top"
  /\ now = 0
  /\ seen = 0
  /\ copy = Empty
  /\ sent = Nothing

-----------------------------------------------------------------------------
(* recv_thread.                                                            *)

\* The pose bridge derives no velocity across a reconnection.
AtConnectKept(p) == p
AtConnect(p) == None

Connect ==
  /\ ~online
  /\ connects < MaxConnects
  /\ connects' = connects + 1
  /\ online' = TRUE
  /\ prev' = AtConnect(prev)
  /\ UNCHANGED <<script, clock, count, got, last, pubVars>>

\* readline() returns nothing, times out, or a line that is not an object.
Disconnect ==
  /\ online
  /\ got = None
  /\ online' = FALSE
  /\ UNCHANGED <<script, clock, connects, count, got, prev, last, pubVars>>

\* A report of the script's type and the time it was read; a line of another
\* type changes nothing.
ReadReport ==
  /\ online
  /\ got = None
  /\ count < MaxReports
  /\ count' = count + 1
  /\ \E valid \in BOOLEAN :
       /\ script = "pose" => valid
       /\ got' = [n |-> count + 1, conn |-> connects, t |-> clock, valid |-> valid]
  /\ UNCHANGED <<script, clock, connects, online, prev, last, pubVars>>

\* The speed bridge stores what it got, an invalid report as well.
StoredIfValid(s, r) == IF r.valid THEN [is |-> r, from |-> None] ELSE s
Stored(s, r) == [is |-> r, from |-> None]

StoreVelocity ==
  /\ script = "speed"
  /\ got # None
  /\ last' = Stored(last, got)
  /\ got' = None
  /\ UNCHANGED <<script, clock, connects, online, count, prev, pubVars>>

\* The difference quotient of two reports, zero if they are too close or too
\* far apart.
Derived(p, r) ==
  IF p # None /\ r.t - p.t > 0 /\ r.t - p.t < MaxGap THEN p ELSE None

StorePosition ==
  /\ script = "pose"
  /\ got # None
  /\ last' = [is |-> got, from |-> Derived(prev, got)]
  /\ prev' = got
  /\ got' = None
  /\ UNCHANGED <<script, clock, connects, online, count, pubVars>>

-----------------------------------------------------------------------------
(* publish_thread.                                                         *)

Handled == IF got = None THEN count ELSE count - 1

ReadClock ==
  /\ pc = "top"
  /\ now' = clock
  /\ seen' = Handled
  /\ pc' = "copying"
  /\ UNCHANGED <<script, clock, recvVars, copy, sent>>

CopyLast ==
  /\ pc = "copying"
  /\ copy' = last
  /\ pc' = "deciding"
  /\ UNCHANGED <<script, clock, recvVars, now, seen, sent>>

\* The report may be younger than now, and then its age is negative.
Age == now - copy.is.t

\* Milliseconds against seconds, as a slip.
TooOldInMs(age) == age * 1000 > DataTimeout
TooOld(age) == age > DataTimeout

SkipsVelocity == copy.is = None \/ ~copy.is.valid \/ TooOld(Age)

PublishVelocity ==
  /\ script = "speed"
  /\ ~SkipsVelocity
  /\ sent' = [of |-> copy, at |-> now, ahead |-> 0, seen |-> seen]

\* How far a position is moved on; one too old is published as it is.
AheadUnbounded(age) == IF UseExtrapolation /\ age > 0 THEN age ELSE 0
Ahead(age) == IF UseExtrapolation /\ age > 0 /\ age <= MaxExtrapolate THEN age ELSE 0

PublishPosition ==
  /\ script = "pose"
  /\ copy.is # None
  /\ sent' = [of |-> copy, at |-> now, ahead |-> Ahead(Age), seen |-> seen]

Skip ==
  /\ IF script = "speed" THEN SkipsVelocity ELSE copy.is = None
  /\ UNCHANGED sent

Decide ==
  /\ pc = "deciding"
  /\ PublishVelocity \/ PublishPosition \/ Skip
  /\ pc' = "top"
  /\ UNCHANGED <<script, clock, recvVars, now, seen, copy>>

\* A shutdown, seen at the top of the loop or in rate.sleep().
Finish ==
  /\ pc = "top"
  /\ pc' = "done"
  /\ UNCHANGED <<script, clock, recvVars, now, seen, copy, sent>>

Tick ==
  /\ clock < MaxTime
  /\ clock' = clock + 1
  /\ UNCHANGED <<script, recvVars, pubVars>>

-----------------------------------------------------------------------------
Receiver == Connect \/ Disconnect \/ ReadReport \/ StoreVelocity \/ StorePosition
Publisher == ReadClock \/ CopyLast \/ Decide

Next == Receiver \/ Publisher \/ Finish \/ Tick

Spec == Init /\ [][Next]_vars

\* The publishing thread is scheduled and gets the lock, which nobody keeps.
FairSpec == Spec /\ WF_vars(Publisher)

-----------------------------------------------------------------------------
(* A message passes over no report that was handled before the time it     *)
(* bears was read, an invalid one above all: a velocity goes out only while*)
(* the sensor's newest word is that it is valid, and not after DataTimeout.*)
PublishesNewest ==
  /\ sent.seen <= sent.of.is.n
  /\ script = "speed" /\ sent # Nothing =>
       sent.of.is.valid /\ sent.at - sent.of.is.t <= DataTimeout

(* A position is moved on for MaxExtrapolate at most, and by a velocity of *)
(* two successive reports of one connection, less than MaxGap apart: never *)
(* by the jump that a reconnection makes.                                  *)
ExtrapolatesSoundly ==
  LET r == sent.of.is
      p == sent.of.from
  IN  sent.ahead > 0 =>
        /\ sent.at - r.t = sent.ahead
        /\ p # None => p.conn = r.conn /\ p.n = r.n - 1 /\ r.t - p.t \in 1..MaxGap - 1

(* Whatever is stored gets out, unless a newer report replaces it first, or*)
(* the process ends, or it is a velocity that is invalid or expires.       *)
StoredGetsOut ==
  \A n \in 1..MaxReports :
    last.is.n = n ~> \/ sent.of.is.n >= n
                     \/ last.is.n > n
                     \/ pc = "done"
                     \/ script = "speed" /\ (~last.is.valid \/ clock - last.is.t > DataTimeout)
=============================================================================
