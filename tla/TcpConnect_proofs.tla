-------------------------- MODULE TcpConnect_proofs --------------------------
(***************************************************************************)
(* Proofs about TcpConnect, for all times and all errors of the network.   *)
(***************************************************************************)
EXTENDS TcpConnect, TLAPS

\* The loop is left as soon as fault is 0 or -10.
Decided ==
  /\ fault = 0 => /\ pc \in {"check", "finish", "done"}
                  /\ sock = "established"
                  /\ blocking = TRUE
  /\ pc = "finish" => fault \in {0, -10}
  /\ fault = -10 => pc \in {"finish", "done"}
  /\ pc = "done" => fault = 0 \/ (fault = -10 /\ sock = "closed")

\* While nothing was refused, time passes in the first select() and in the
\* sleeps that follow it, and each sleep but the last starts in time.
InTime ==
  /\ sock # "failed"
  /\ pc # "create" => sock # "none"
  /\ sock = "idle" => pc = "connect"
  /\ error_code \in {0, SelectExpired, EALREADY}
  /\ pc \in {"create", "select"} \/ sock = "idle" => elapsed = 0
  /\ pc \in {"connect", "check"} => elapsed < MaxSetup
  /\ elapsed < MaxSetup + RetrySleep

-----------------------------------------------------------------------------
(* Saturating time stays in its range, and does not pass the true time.    *)
LEMMA LaterInRange ==
  ASSUME TypeOK, NEW d \in Nat
  PROVE  /\ Later(d) \in 0..Horizon
         /\ Later(d) <= elapsed + d
BY TimesAssumption DEF TypeOK, Later

(* The initial state is well typed.                                        *)
LEMMA TypeInit == Init => TypeOK
<1> SUFFICES ASSUME Init PROVE TypeOK
  OBVIOUS
<1> USE DEF Init
<1>1. blocking \in BOOLEAN /\ trouble \in BOOLEAN
  OBVIOUS
<1> QED BY <1>1, TimesAssumption DEF TypeOK

(* Every step keeps the types.                                             *)
LEMMA TypeStep == TypeOK /\ [Next]_vars => TypeOK'
<1> SUFFICES ASSUME TypeOK, [Next]_vars PROVE TypeOK'
  OBVIOUS
<1> USE DEF TypeOK
<1>1. CASE Create
  BY <1>1 DEF Create
<1>2. CASE ConnectNotTried
  BY <1>2 DEF ConnectNotTried, Returns
<1>3. CASE ConnectStarts
  BY <1>3 DEF ConnectStarts, Connecting, Connected, Returns
<1>4. CASE ConnectAlready
  BY <1>4 DEF ConnectAlready, Connecting, Returns
<1>5. CASE ConnectFinds
  BY <1>5 DEF ConnectFinds, Connecting, Connected, Returns
<1>6. CASE ConnectFailed
  BY <1>6 DEF ConnectFailed, Connecting, Returns
<1>7. CASE SelectReady
  <2>1. elapsed' \in 0..Horizon
    BY <1>7, LaterInRange, TimesAssumption DEF SelectReady
  <2> QED BY <1>7, <2>1 DEF SelectReady, Connected, Returns
<1>8. CASE SelectGivesUp
  <2>1. elapsed' \in 0..Horizon
    BY <1>8, LaterInRange, TimesAssumption DEF SelectGivesUp
  <2> QED BY <1>8, <2>1 DEF SelectGivesUp, Returns
<1>9. CASE SelectFails
  <2>1. elapsed' \in 0..Horizon
    BY <1>9, LaterInRange, TimesAssumption DEF SelectFails
  <2>2. PICK e \in RouteErrors : Returns(-1, e)
    BY <1>9 DEF SelectFails
  <2> QED BY <1>9, <2>1, <2>2 DEF SelectFails, Returns
<1>10. CASE CheckAlready
  <2>1. elapsed' \in 0..Horizon
    BY <1>10, LaterInRange, TimesAssumption DEF CheckAlready
  <2> QED BY <1>10, <2>1 DEF CheckAlready, NextAttempt
<1>11. CASE CheckAborted
  <2>1. elapsed' \in 0..Horizon
    BY <1>11, LaterInRange, TimesAssumption DEF CheckAborted
  <2> QED BY <1>11, <2>1 DEF CheckAborted, NextAttempt
<1>12. CASE CheckOther
  BY <1>12 DEF CheckOther, NextAttempt
<1>13. CASE Finish
  BY <1>13 DEF Finish
<1>14. CASE Kernel
  BY <1>14 DEF Kernel, HandshakeCompletes, HandshakeFails
<1>15. CASE UNCHANGED vars
  BY <1>15 DEF vars
<1> QED BY <1>1, <1>2, <1>3, <1>4, <1>5, <1>6, <1>7, <1>8, <1>9, <1>10, <1>11, <1>12,
           <1>13, <1>14, <1>15 DEF Next, Node, Connect, Check

(* Every step keeps the decision.                                          *)
LEMMA DecidedStep == TypeOK /\ Decided /\ [Next]_vars => Decided'
<1> SUFFICES ASSUME TypeOK, Decided, [Next]_vars PROVE Decided'
  OBVIOUS
<1> USE DEF TypeOK, Decided
<1>1. CASE Create
  BY <1>1 DEF Create
<1>2. CASE ConnectNotTried
  BY <1>2 DEF ConnectNotTried, Returns
<1>3. CASE ConnectStarts
  BY <1>3 DEF ConnectStarts, Connecting, Connected, Returns
<1>4. CASE ConnectAlready \/ ConnectFinds \/ ConnectFailed
  BY <1>4 DEF ConnectAlready, ConnectFinds, ConnectFailed, Connecting, Connected, Returns
<1>5. CASE SelectReady \/ SelectGivesUp \/ SelectFails
  BY <1>5 DEF SelectReady, SelectGivesUp, SelectFails, Connected, Returns
<1>6. CASE Check
  BY <1>6 DEF Check, CheckAlready, CheckAborted, CheckOther, NextAttempt, Retry
<1>7. CASE Finish
  BY <1>7 DEF Finish
<1>8. CASE Kernel
  BY <1>8 DEF Kernel, HandshakeCompletes, HandshakeFails
<1>9. CASE UNCHANGED vars
  BY <1>9 DEF vars
<1> QED BY <1>1, <1>2, <1>3, <1>4, <1>5, <1>6, <1>7, <1>8, <1>9 DEF Next, Node, Connect

(* Every step that meets no error keeps to the time.                       *)
LEMMA InTimeStep ==
  TypeOK /\ (~trouble => InTime) /\ [Next]_vars => (~trouble' => InTime')
<1> SUFFICES ASSUME TypeOK, ~trouble => InTime, [Next]_vars, ~trouble'
             PROVE  InTime'
  OBVIOUS
<1> USE TimesAssumption DEF TypeOK, InTime, SelectExpired, EALREADY
<1>1. CASE Create
  <2>1. trouble' # TRUE
    OBVIOUS
  <2>2. sock' = "idle" /\ trouble' = trouble
    BY <1>1, <2>1 DEF Create
  <2>3. ~trouble
    BY <2>2, Zenon
  <2> QED BY <1>1, <2>2, <2>3 DEF Create
<1>2. CASE ConnectNotTried
  BY <1>2 DEF ConnectNotTried
<1>3. CASE ConnectStarts
  <2>1. trouble' # TRUE
    OBVIOUS
  <2> QED BY <1>3, <2>1 DEF ConnectStarts, Connecting, Connected, Returns
<1>4. CASE ConnectAlready \/ ConnectFinds \/ ConnectFailed
  BY <1>4 DEF ConnectAlready, ConnectFinds, ConnectFailed, Connecting, Connected, Returns
<1>5. CASE SelectReady \/ SelectGivesUp
  <2>1. elapsed' <= SelectTimeout /\ elapsed' \in 0..Horizon
    BY <1>5, LaterInRange DEF SelectReady, SelectGivesUp
  <2>2. elapsed' < MaxSetup /\ elapsed' < MaxSetup + RetrySleep
    BY <2>1
  <2>3. CASE SelectReady
    BY <2>2, <2>3 DEF SelectReady, Connected, Returns
  <2>4. CASE SelectGivesUp
    BY <2>2, <2>4 DEF SelectGivesUp, Returns
  <2> QED BY <1>5, <2>3, <2>4
<1>6. CASE CheckAlready
  <2>1. elapsed' <= elapsed + RetrySleep /\ elapsed' \in 0..Horizon
    BY <1>6, LaterInRange DEF CheckAlready
  <2> QED BY <1>6, <2>1 DEF CheckAlready, NextAttempt, Expired
<1>7. CASE CheckAborted
  BY <1>7 DEF CheckAborted, ECONNABORTED
<1>8. CASE CheckOther
  BY <1>8 DEF CheckOther, NextAttempt
<1>9. CASE Finish
  BY <1>9 DEF Finish
<1>10. CASE Kernel
  BY <1>10 DEF Kernel, HandshakeCompletes, HandshakeFails
<1>11. CASE SelectFails
  BY <1>11 DEF SelectFails
<1>12. CASE UNCHANGED vars
  BY <1>12 DEF vars
<1> QED BY <1>1, <1>2, <1>3, <1>4, <1>5, <1>6, <1>7, <1>8, <1>9, <1>10, <1>11, <1>12
        DEF Next, Node, Connect, Check

-----------------------------------------------------------------------------
(* Type correctness of the set-up.                                         *)
THEOREM TypeCorrect == Spec => []TypeOK
<1> QED BY TypeInit, TypeStep, PTL DEF Spec

(* A socket reported connected is connected, and is back in blocking mode. *)
THEOREM ConnectedMeansUsable == Spec => []ConnectedIsUsable
<1>1. Init => TypeOK /\ Decided
  BY TypeInit DEF Init, Decided
<1>2. TypeOK /\ Decided /\ [Next]_vars => (TypeOK /\ Decided)'
  BY TypeStep, DecidedStep
<1>3. Decided => ConnectedIsUsable
  BY DEF Decided, ConnectedIsUsable
<1> QED BY <1>1, <1>2, <1>3, PTL DEF Spec

(* A set-up that ends has connected, or given up and closed the socket.    *)
THEOREM DoneMeansDecided == Spec => []DoneIsDecided
<1>1. Init => TypeOK /\ Decided
  BY TypeInit DEF Init, Decided
<1>2. TypeOK /\ Decided /\ [Next]_vars => (TypeOK /\ Decided)'
  BY TypeStep, DecidedStep
<1>3. Decided => DoneIsDecided
  BY DEF Decided, DoneIsDecided
<1> QED BY <1>1, <1>2, <1>3, PTL DEF Spec

(* While nothing but silence comes back the set-up keeps its budget.       *)
THEOREM BudgetIsKept == Spec => []SetupWithinBudget
<1>1. Init => TypeOK /\ (~trouble => InTime)
  BY TypeInit, TimesAssumption DEF Init, InTime
<1>2. TypeOK /\ (~trouble => InTime) /\ [Next]_vars
        => (TypeOK /\ (~trouble => InTime))'
  BY TypeStep, InTimeStep
<1>3. (~trouble => InTime) => SetupWithinBudget
  BY DEF InTime, SetupWithinBudget
<1> QED BY <1>1, <1>2, <1>3, PTL DEF Spec
=============================================================================
