------------------------------ MODULE TcpConnect ------------------------------
(***************************************************************************)
(* Setting up the TCP connection to the sensor: the loop around            *)
(* TCPSocket::Connect that the constructor of dvl_sensor::DVL_A50 and      *)
(* LifecycleDVL::on_configure both run, with the kernel's side of a        *)
(* non-blocking connect(2).                                                *)
(*                                                                         *)
(* The loop reacts to error codes by their numbers, and error_code is      *)
(* written by a failing Connect only: a Connect that returns 0 leaves the  *)
(* code of the attempt before it in place.  Time is counted in whole       *)
(* seconds since first_time_error.  fcntl() and setsockopt() (the receive  *)
(* timeout) fail on a bad descriptor only, that is after a failed Create.  *)
(***************************************************************************)
EXTENDS Integers

CONSTANTS
  SelectTimeout,    \* seconds Connect waits in select(), 5
  RetrySleep,       \* seconds slept after error 114 or 103, 2
  MaxSetup,         \* seconds until a set-up that meets error 114 gives up, 78.5 rounded up
  Horizon,          \* elapsed time saturates here; bounds the model only
  AddressValid,     \* does inet_pton accept the configured address?
  SocketOutcomes,   \* what socket() may answer: TRUE for a descriptor
  HandshakeErrors,  \* errors an attempt in progress can end with (111 refused, 113 no route)
  RouteErrors       \* errors connect() can return at once (101 network unreachable),
                    \* or select() and getsockopt() (105 no buffer space)

ASSUME TimesAssumption ==
  /\ SelectTimeout \in Nat
  /\ RetrySleep \in Nat
  /\ MaxSetup \in Nat
  /\ Horizon \in Nat
  /\ SelectTimeout < MaxSetup
  /\ MaxSetup + RetrySleep <= Horizon

ASSUME OutcomesAssumption ==
  /\ AddressValid \in BOOLEAN
  /\ SocketOutcomes \subseteq BOOLEAN
  /\ HandshakeErrors \subseteq Nat \ {0, 103, 114}
  /\ RouteErrors \subseteq Nat \ {0, 103, 114}

EALREADY      == 114   \* an attempt is already in progress
ECONNABORTED  == 103   \* the attempt failed and its error has been read
SelectExpired == 100   \* what Connect reports when select() did not select

VARIABLES
  pc,          \* where the set-up is
  sock,        \* the kernel's state of the socket
  so_error,    \* the error the kernel holds for a failed attempt, 0 when read
  blocking,    \* is O_NONBLOCK off?
  fault,       \* what Connect returned last; -10 when the loop gave up
  error_code,  \* set by a failing Connect, never reset
  elapsed,     \* seconds since first_time_error
  trouble      \* history: has socket(), connect() or the network reported an error?

vars == <<pc, sock, so_error, blocking, fault, error_code, elapsed, trouble>>

TypeOK ==
  /\ pc \in {"create", "connect", "select", "check", "finish", "done"}
  /\ sock \in {"none", "idle", "connecting", "established", "failed", "closed"}
  /\ so_error \in HandshakeErrors \cup {0}
  /\ blocking \in BOOLEAN
  /\ fault \in {1, 0, -1, -10}
  /\ error_code \in HandshakeErrors \cup RouteErrors
                      \cup {0, SelectExpired, ECONNABORTED, EALREADY}
  /\ elapsed \in 0..Horizon
  /\ trouble \in BOOLEAN

Init ==
  /\ pc = "create"
  /\ sock = "none"
  /\ so_error = 0
  /\ blocking = TRUE
  /\ fault = 1
  /\ error_code = 0
  /\ elapsed = 0
  /\ trouble = FALSE

-----------------------------------------------------------------------------
(* Mutants: what a slip in the definition that follows each would be.      *)

LaterUnbounded(d) == elapsed + d
Later(d) == IF elapsed + d > Horizon THEN Horizon ELSE elapsed + d

NeverExpired(t) == FALSE
Expired(t) == t >= MaxSetup

RetryPositive(f) == f > 0
Retry(f) == f # 0

Returns(f, code) ==
  /\ fault' = f
  /\ error_code' = code
  /\ pc' = "check"

(* A connected socket is put back to blocking mode before Connect returns. *)
ConnectedNonblocking == Returns(0, error_code) /\ blocking' = FALSE
Connected == Returns(0, error_code) /\ blocking' = TRUE

-----------------------------------------------------------------------------
(* TCPSocket::Create; the constructor only logs a failure.                 *)
Create ==
  /\ pc = "create"
  /\ \/ TRUE \in SocketOutcomes  /\ sock' = "idle" /\ UNCHANGED trouble
     \/ FALSE \in SocketOutcomes /\ sock' = "none" /\ trouble' = TRUE
  /\ pc' = "connect"
  /\ UNCHANGED <<so_error, blocking, fault, error_code, elapsed>>

(* Connect returns before connect(): the address does not parse, or        *)
(* fcntl() fails on descriptor -1.  Neither writes error_code.             *)
ConnectNotTried ==
  /\ pc = "connect"
  /\ ~AddressValid \/ sock = "none"
  /\ Returns(-1, error_code)
  /\ trouble' = TRUE
  /\ UNCHANGED <<sock, so_error, blocking, elapsed>>

Connecting == pc = "connect" /\ AddressValid

(* connect() on a socket with no attempt pending: it connects at once,     *)
(* fails at once, or answers EINPROGRESS and Connect goes on to select().  *)
ConnectStarts ==
  /\ Connecting
  /\ sock = "idle"
  /\ \/ /\ sock' = "established"
        /\ Connected
        /\ UNCHANGED trouble
     \/ /\ \E e \in RouteErrors : Returns(-1, e)
        /\ blocking' = FALSE
        /\ trouble' = TRUE
        /\ UNCHANGED sock
     \/ /\ sock' = "connecting"
        /\ pc' = "select"
        /\ blocking' = FALSE
        /\ UNCHANGED <<fault, error_code, trouble>>
  /\ UNCHANGED <<so_error, elapsed>>

(* connect() while the attempt of an earlier Connect is still pending.     *)
ConnectAlready ==
  /\ Connecting
  /\ sock = "connecting"
  /\ Returns(-1, EALREADY)
  /\ blocking' = FALSE
  /\ UNCHANGED <<sock, so_error, elapsed, trouble>>

(* connect() after the pending attempt succeeded behind the loop's back.   *)
ConnectFinds ==
  /\ Connecting
  /\ sock = "established"
  /\ Connected
  /\ UNCHANGED <<sock, so_error, elapsed, trouble>>

(* connect() after the pending attempt failed: it reports the error that   *)
(* nobody has read yet, or ECONNABORTED, and the socket can be used again. *)
ConnectFailed ==
  /\ Connecting
  /\ sock = "failed"
  /\ Returns(-1, IF so_error # 0 THEN so_error ELSE ECONNABORTED)
  /\ sock' = "idle"
  /\ so_error' = 0
  /\ blocking' = FALSE
  /\ UNCHANGED <<elapsed, trouble>>

(* select() selects the socket: SO_ERROR tells how the attempt ended, and  *)
(* reading it clears it.                                                   *)
SelectReady ==
  /\ pc = "select"
  /\ \E d \in 0..SelectTimeout : elapsed' = Later(d)
  /\ \/ /\ sock = "established"
        /\ Connected
        /\ UNCHANGED so_error
     \/ /\ sock = "failed"
        /\ Returns(-1, so_error)
        /\ so_error' = 0
        /\ UNCHANGED blocking
  /\ UNCHANGED <<sock, trouble>>

(* select() runs out of time, or a signal interrupts it: EINTR falls into  *)
(* the same branch.                                                        *)
SelectGivesUp ==
  /\ pc = "select"
  /\ sock = "connecting"
  /\ \E d \in 0..SelectTimeout : elapsed' = Later(d)
  /\ Returns(-1, SelectExpired)
  /\ UNCHANGED <<sock, so_error, blocking, trouble>>

(* select() itself fails (and not by a signal), or getsockopt() does: the  *)
(* attempt, and the error it may have ended with, stay as they are.        *)
SelectFails ==
  /\ pc = "select"
  /\ \E d \in 0..SelectTimeout : elapsed' = Later(d)
  /\ \E e \in RouteErrors : Returns(-1, e)
  /\ trouble' = TRUE
  /\ UNCHANGED <<sock, so_error, blocking>>

NextAttempt == IF Retry(fault') THEN "connect" ELSE "finish"

(* The body of the loop after Connect, and the test of the while.          *)
CheckAlready ==
  /\ pc = "check"
  /\ error_code = EALREADY
  /\ elapsed' = Later(RetrySleep)
  /\ fault' = IF Expired(elapsed') THEN -10 ELSE fault
  /\ pc' = IF Expired(elapsed') THEN "finish" ELSE NextAttempt
  /\ UNCHANGED <<sock, so_error, blocking, error_code, trouble>>

CheckAborted ==
  /\ pc = "check"
  /\ error_code = ECONNABORTED
  /\ elapsed' = Later(RetrySleep)
  /\ UNCHANGED <<sock, so_error, blocking, fault, error_code, trouble>>
  /\ pc' = NextAttempt

CheckOther ==
  /\ pc = "check"
  /\ error_code \notin {EALREADY, ECONNABORTED}
  /\ UNCHANGED <<sock, so_error, blocking, fault, error_code, elapsed, trouble>>
  /\ pc' = NextAttempt

Finish ==
  /\ pc = "finish"
  /\ sock' = IF fault = -10 THEN "closed" ELSE sock
  /\ pc' = "done"
  /\ UNCHANGED <<so_error, blocking, fault, error_code, elapsed, trouble>>

-----------------------------------------------------------------------------
(* The kernel ends a pending attempt, at any time.                         *)
HandshakeCompletes ==
  /\ sock = "connecting"
  /\ sock' = "established"
  /\ UNCHANGED <<pc, so_error, blocking, fault, error_code, elapsed, trouble>>

HandshakeFails ==
  /\ sock = "connecting"
  /\ \E e \in HandshakeErrors : so_error' = e
  /\ sock' = "failed"
  /\ trouble' = TRUE
  /\ UNCHANGED <<pc, blocking, fault, error_code, elapsed>>

Connect ==
  \/ ConnectNotTried \/ ConnectStarts \/ ConnectAlready
  \/ ConnectFinds \/ ConnectFailed
  \/ SelectReady \/ SelectGivesUp \/ SelectFails

Check == CheckAlready \/ CheckAborted \/ CheckOther

Node == Create \/ Connect \/ Check \/ Finish

Kernel == HandshakeCompletes \/ HandshakeFails

Next == Node \/ Kernel

(* The set-up runs in a thread of its own: only its own steps are fair,    *)
(* nothing makes the sensor answer.                                        *)
Spec == Init /\ [][Next]_vars /\ WF_vars(Node)

-----------------------------------------------------------------------------
(* A set-up that reports the sensor connected leaves a socket that is      *)
(* connected and blocking: handle_receive relies on recv() waiting for up  *)
(* to the receive timeout, whichever of the four ways Connect returned 0.  *)
ConnectedIsUsable ==
  fault = 0 => sock = "established" /\ blocking

(* The loop is left connected or given up, never with the -1 of a failed   *)
(* attempt, and a set-up that gave up has closed the socket: send and      *)
(* receive are guarded by fault alone.                                     *)
DoneIsDecided ==
  pc = "done" => \/ fault = 0 /\ sock = "established"
                 \/ fault = -10 /\ sock = "closed"

(* As long as nothing but silence came back (no attempt was refused or     *)
(* could not be made) the set-up does not outlast its budget by more than  *)
(* the sleep it is in, whatever select() and the pending attempt do.       *)
SetupWithinBudget == ~trouble => elapsed < MaxSetup + RetrySleep

(* A sensor that falls silent for good, after whatever it did before, does *)
(* not keep the constructor for ever: from then on only error 114 and the  *)
(* timeout of select() come back, and the set-up ends.                     *)
SilentSetupEnds ==
  <>[](sock # "none" /\ error_code \in {0, SelectExpired, EALREADY}) => <>(pc = "done")

(* The comment "Max time to set up" at the deadline (dvl-sensor.cpp:72):   *)
(* the set-up ends.                                                        *)
SetupTerminates == <>(pc = "done")

(* Once Connect has returned 0 the set-up ends connected: it does not go   *)
(* on to log "Turn the sensor on and try again!".                          *)
ConnectedStaysConnected == [][fault = 0 => fault' = 0]_vars
=============================================================================
