-------------------------- MODULE StartScript_proofs --------------------------
(***************************************************************************)
(* Theorems about StartScript.  The script's steps are steps of the bridge *)
(* or leave it alone, so that what is proved of IntegratedBridge's Spec    *)
(* holds with the script.  There, the pieces in tcp_buffer and on the wire *)
(* together are numbered in order, above every line handled (Numbered); the*)
(* complete lines in tcp_buffer came with the chunk at hand, unless the    *)
(* first is malformed (Current); and what is cached was received no longer *)
(* before than its stamp tells (Cached).                                   *)
(* Of the tool and the script, an answer on the connection is true of the  *)
(* sensor as long as it is there (Truthful), the one reset is executed at  *)
(* most once (OneReset), and the sensor's delay has begun when the sleeps  *)
(* do (Delayed).                                                           *)
(***************************************************************************)
EXTENDS StartScript, SequenceTheorems, TLAPS

-----------------------------------------------------------------------------
(* The bridge.                                                             *)

Stream == tcp_buffer \o wire

InOrder(s, c) ==
  /\ \A i \in DOMAIN s : s[i].n <= c /\ (IsNewline(s[i]) <=> s[i].n = 0)
  /\ \A i, j \in DOMAIN s : i < j /\ s[j].n # 0 => s[i].n < s[j].n

Follows(s, h) == \A i \in DOMAIN h, j \in DOMAIN s : s[j].n # 0 => h[i] < s[j].n

Numbered ==
  /\ InOrder(Stream, count)
  /\ Follows(Stream, parsed)
  /\ \A i \in DOMAIN parsed : parsed[i] <= count

IsHandled(s, h) == \E i \in DOMAIN h : h[i] = s.line

Cached ==
  /\ idle <= clock
  /\ velocity # None => IsHandled(velocity, parsed) /\ Age(velocity) <= clock - velocity.at
  /\ pose # None => IsHandled(pose, parsed) /\ Age(pose) <= clock - pose.at

\* The first line of b is neither blank nor JSON.
HeadMalformed(b) ==
  \E k \in DOMAIN b : EndsLine(b, k) /\ LineTo(b, k) # <<>> /\ ~IsJson(LineTo(b, k))

Ends(b, k) == k \in DOMAIN b /\ k + 1 \in DOMAIN b /\ b[k].n # 0 /\ IsNewline(b[k + 1])

Timely(b) == \A k \in DOMAIN b : Ends(b, k) => arrived[b[k].n] = idle

Current ==
  /\ broken => pc \in {"connecting", "receiving"}
  /\ pc \in {"parsing", "publishing"} \/ broken => Timely(tcp_buffer) \/ HeadMalformed(tcp_buffer)
  /\ pc \in {"connecting", "receiving"} /\ ~broken => ~HasLine(tcp_buffer) \/ HeadMalformed(tcp_buffer)

BridgeInv ==
  /\ TypeOK
  /\ Numbered
  /\ NoLineTwice
  /\ Cached
  /\ Current

(* What is left of a stream at its end or in its middle is in order.       *)
LEMMA PartInOrder ==
  ASSUME NEW s \in Seq(Piece), NEW t \in Seq(Piece), NEW d \in Nat, NEW c \in Nat, NEW h,
         Len(t) + d <= Len(s), \A i \in 1..Len(t) : t[i] = s[i + d],
         InOrder(s, c), Follows(s, h)
  PROVE  InOrder(t, c) /\ Follows(t, h)
<1>a. DOMAIN t = 1..Len(t) /\ DOMAIN s = 1..Len(s) /\ Len(t) \in Nat /\ Len(s) \in Nat
  OBVIOUS
<1>1. \A i \in DOMAIN t : i + d \in DOMAIN s /\ t[i] = s[i + d]
  BY <1>a
<1>2. \A i, j \in DOMAIN t : i < j => i + d < j + d
  BY <1>a
<1> QED BY <1>1, <1>2 DEF InOrder, Follows

(* What the sensor adds to a stream keeps it in order.                     *)
LEMMA GrowsInOrder ==
  ASSUME NEW s \in Seq(Piece), NEW p \in Piece, NEW c \in Nat, NEW h,
         InOrder(s, c), Follows(s, h), \A i \in DOMAIN h : h[i] \in 1..c,
         NEW d \in Nat,
         \/ IsNewline(p) /\ p.n = 0 /\ d = c
         \/ ~IsNewline(p) /\ p.n = c + 1 /\ d = c + 1
  PROVE  InOrder(Append(s, p), d) /\ Follows(Append(s, p), h)
<1> DEFINE t == Append(s, p)
<1>1. /\ DOMAIN t = 1..Len(s) + 1 /\ DOMAIN s = 1..Len(s) /\ Len(s) \in Nat
      /\ \A i \in 1..Len(s) : t[i] = s[i]
      /\ t[Len(s) + 1] = p
  OBVIOUS
<1>2. \A i \in 1..Len(s) : s[i] \in Piece
  OBVIOUS
<1> HIDE DEF t
<1>3. \A i \in 1..Len(s) : s[i].n \in Nat /\ s[i].n <= c
  BY <1>1, <1>2 DEF InOrder, Piece
<1>4. Follows(t, h)
  BY <1>1, <1>3 DEF Follows
<1>5. \A i, j \in DOMAIN t : i < j /\ t[j].n # 0 => t[i].n < t[j].n
  BY <1>1, <1>3 DEF InOrder
<1>6. \A i \in DOMAIN t : t[i].n <= d /\ (IsNewline(t[i]) <=> t[i].n = 0)
  BY <1>1, <1>3 DEF InOrder
<1>7. InOrder(t, d)
  BY <1>5, <1>6 DEF InOrder
<1> QED BY <1>4, <1>7 DEF t

(* recv() moves pieces from the wire to the buffer and leaves the stream.  *)
LEMMA ReceiveMoves ==
  ASSUME NEW b \in Seq(Piece), NEW w \in Seq(Piece), NEW k \in 1..Len(w)
  PROVE  /\ b \o SubSeq(w, 1, k) \in Seq(Piece)
         /\ SubSeq(w, k + 1, Len(w)) \in Seq(Piece)
         /\ (b \o SubSeq(w, 1, k)) \o SubSeq(w, k + 1, Len(w)) = b \o w
<1>1. SubSeq(w, 1, k) \in Seq(Piece) /\ SubSeq(w, k + 1, Len(w)) \in Seq(Piece)
  BY SubSeqProperties
<1>2. SubSeq(w, 1, k) \o SubSeq(w, k + 1, Len(w)) = SubSeq(w, 1, Len(w))
  BY ConcatAdjacentSubSeq
<1>3. SubSeq(w, 1, Len(w)) = w
  BY SubSeqFull
<1> DEFINE u == SubSeq(w, 1, k)
           v == SubSeq(w, k + 1, Len(w))
<1> HIDE DEF u, v
<1>4. u \in Seq(Piece) /\ v \in Seq(Piece)
  BY <1>1 DEF u, v
<1>5. b \o u \in Seq(Piece) /\ (b \o u) \o v = b \o (u \o v)
  BY <1>4
<1> QED BY <1>1, <1>2, <1>3, <1>5 DEF u, v

(* An index of what is left when k pieces of m are gone and l follow.      *)
LEMMA ShiftedIndex ==
  ASSUME NEW m \in Nat, NEW l \in Nat, NEW k \in 1..m, NEW i \in 1..m - k + l
  PROVE  /\ i \in Int /\ m - k \in Int /\ i + k \in 1..m + l
         /\ i <= m - k <=> i + k <= m
         /\ i + k - m = i - (m - k)
OBVIOUS

(* Taking a line leaves the end of the stream.                             *)
LEMMA RestIsPart ==
  ASSUME NEW b \in Seq(Piece), NEW w \in Seq(Piece), NEW k \in DOMAIN b
  PROVE  /\ Rest(b, k) \in Seq(Piece)
         /\ Rest(b, k) \o w \in Seq(Piece)
         /\ Len(Rest(b, k) \o w) + k <= Len(b \o w)
         /\ \A i \in 1..Len(Rest(b, k) \o w) : (Rest(b, k) \o w)[i] = (b \o w)[i + k]
<1> DEFINE r == Rest(b, k)
<1>1. /\ r \in Seq(Piece)
      /\ Len(r) = Len(b) - k
      /\ \A i \in 1..Len(b) - k : r[i] = b[i + k]
  BY SubSeqProperties DEF Rest
<1> HIDE DEF r
<1> DEFINE u == r \o w
           v == b \o w
<1>2. /\ u \in Seq(Piece) /\ Len(u) = Len(r) + Len(w)
      /\ \A i \in 1..Len(r) + Len(w) : u[i] = IF i <= Len(r) THEN r[i] ELSE w[i - Len(r)]
  BY <1>1, ConcatProperties
<1>3. /\ Len(v) = Len(b) + Len(w)
      /\ \A i \in 1..Len(b) + Len(w) : v[i] = IF i <= Len(b) THEN b[i] ELSE w[i - Len(b)]
  BY ConcatProperties
<1> HIDE DEF u, v
<1>4. k \in 1..Len(b) /\ Len(b) \in Nat /\ Len(w) \in Nat
  OBVIOUS
<1>5. ASSUME NEW i \in 1..Len(u)
      PROVE  u[i] = v[i + k]
  <2>1. /\ i \in Int /\ Len(r) \in Int /\ i \in 1..Len(r) + Len(w)
        /\ i + k \in 1..Len(b) + Len(w)
        /\ i <= Len(r) <=> i + k <= Len(b)
        /\ i + k - Len(b) = i - Len(r)
    <3>1. Len(r) = Len(b) - k /\ Len(u) = Len(b) - k + Len(w)
      BY <1>1, <1>2
    <3>2. i \in 1..Len(b) - k + Len(w)
      BY <3>1
    <3> QED BY <3>1, <3>2, <1>4, ShiftedIndex
  <2>2. /\ u[i] = IF i <= Len(r) THEN r[i] ELSE w[i - Len(r)]
        /\ v[i + k] = IF i + k <= Len(b) THEN b[i + k] ELSE w[i + k - Len(b)]
    BY <1>2, <1>3, <2>1
  <2>3. i <= Len(r) => r[i] = b[i + k]
    BY <1>1, <1>4, <2>1
  <2> QED BY <2>1, <2>2, <2>3
<1>6. Len(u) + k <= Len(v)
  BY <1>1, <1>2, <1>3, <1>4
<1> QED BY <1>1, <1>2, <1>5, <1>6 DEF r, u, v

(* A JSON line is a text and its newline.                                  *)
LEMMA JsonLine ==
  ASSUME NEW b \in Seq(Piece), NEW k, EndsLine(b, k), IsJson(LineTo(b, k))
  PROVE  k = 2 /\ 1 \in DOMAIN b /\ ~IsNewline(b[1]) /\ k \in DOMAIN b
<1>1. k \in 1..Len(b)
  BY DEF EndsLine
<1>2. Len(LineTo(b, k)) = k - 1
  BY <1>1, SubSeqProperties DEF LineTo
<1> QED BY <1>1, <1>2 DEF EndsLine, IsJson

(* A buffer has one first line.                                            *)
LEMMA OneFirstLine ==
  ASSUME NEW b \in Seq(Piece), NEW k, EndsLine(b, k), NEW j, EndsLine(b, j)
  PROVE  j = k
<1>1. k \in 1..Len(b) /\ j \in 1..Len(b) /\ Len(b) \in Nat
  BY DEF EndsLine
<1> QED BY <1>1 DEF EndsLine

(* What is received does not change a first line.                          *)
LEMMA HeadStays ==
  ASSUME NEW b \in Seq(Piece), NEW u \in Seq(Piece), HeadMalformed(b)
  PROVE  HeadMalformed(b \o u)
<1>1. PICK k \in DOMAIN b : EndsLine(b, k) /\ LineTo(b, k) # <<>> /\ ~IsJson(LineTo(b, k))
  BY DEF HeadMalformed
<1> DEFINE c == b \o u
<1>2. /\ c \in Seq(Piece) /\ Len(c) = Len(b) + Len(u) /\ Len(b) \in Nat /\ Len(u) \in Nat
      /\ \A i \in 1..Len(b) : c[i] = b[i]
  BY ConcatProperties
<1> HIDE DEF c
<1>3. k \in 1..Len(b) /\ k \in DOMAIN c
  BY <1>1, <1>2
<1>4. EndsLine(c, k)
  BY <1>1, <1>2, <1>3 DEF EndsLine
<1>5. LineTo(c, k) = LineTo(b, k)
  <2>1. /\ LineTo(c, k) \in Seq(Piece) /\ Len(LineTo(c, k)) = k - 1
        /\ \A i \in 1..k - 1 : LineTo(c, k)[i] = c[i]
    BY <1>2, <1>3, SubSeqProperties DEF LineTo
  <2>2. /\ LineTo(b, k) \in Seq(Piece) /\ Len(LineTo(b, k)) = k - 1
        /\ \A i \in 1..k - 1 : LineTo(b, k)[i] = b[i]
    BY <1>2, <1>3, SubSeqProperties DEF LineTo
  <2>3. \A i \in 1..k - 1 : c[i] = b[i]
    BY <1>2, <1>3
  <2> QED BY <2>1, <2>2, <2>3, SeqEqual
<1> QED BY <1>1, <1>3, <1>4, <1>5 DEF HeadMalformed, c

(* What is left of a buffer came when the buffer did.                      *)
LEMMA RestTimely ==
  ASSUME NEW b \in Seq(Piece), NEW k \in DOMAIN b, Timely(b)
  PROVE  Timely(Rest(b, k))
<1> DEFINE r == Rest(b, k)
<1>1. /\ r \in Seq(Piece) /\ Len(r) = Len(b) - k
      /\ \A i \in 1..Len(b) - k : r[i] = b[i + k]
  BY SubSeqProperties DEF Rest
<1> HIDE DEF r
<1>2. ASSUME NEW j \in DOMAIN r, Ends(r, j)
      PROVE  Ends(b, j + k) /\ j + k \in DOMAIN b /\ b[j + k] = r[j]
  <2>1. /\ j \in 1..Len(b) - k /\ j + 1 \in 1..Len(b) - k /\ j + k \in 1..Len(b)
        /\ j + k + 1 \in 1..Len(b) /\ j + 1 + k = j + k + 1
    BY <1>1, <1>2 DEF Ends
  <2>2. r[j] = b[j + k] /\ r[j + 1] = b[j + k + 1]
    BY <1>1, <2>1
  <2> QED BY <1>2, <2>1, <2>2 DEF Ends
<1>3. Timely(r)
  BY <1>2 DEF Timely
<1> QED BY <1>3 DEF r

-----------------------------------------------------------------------------
(* The values everything starts with have their types.                     *)
LEMMA EmptyTypes ==
  /\ None \in Sample /\ Nothing \in [velocity : Sample, pose : Sample, at : 0..MaxTime]
  /\ <<>> \in Seq(Piece) /\ <<>> \in Seq(1..MaxTokens)
<1>1. 0 \in 0..MaxTime /\ 0 \in 0..MaxTokens
  BY BoundsAssumption
<1>2. None \in Sample
  BY <1>1 DEF None, Sample
<1> QED BY <1>1, <1>2, EmptySeq DEF Nothing

(* A line and the time it was handled make a sample.                       *)
LEMMA SampleTypes ==
  ASSUME NEW n \in 0..MaxTokens, n # 0, NEW t \in 0..MaxTime
  PROVE  [line |-> n, at |-> t] \in Sample /\ n \in 1..MaxTokens
BY BoundsAssumption DEF Sample

(* The invariant holds at the start.                                       *)
LEMMA BridgeInit == Init => BridgeInv
<1> SUFFICES ASSUME Init PROVE BridgeInv
  OBVIOUS
<1> USE BoundsAssumption DEF Init
<1>1. TypeOK
  <2>1. /\ velocity \in Sample /\ pose \in Sample
        /\ published \in [velocity : Sample, pose : Sample, at : 0..MaxTime]
    BY EmptyTypes
  <2>2. wire \in Seq(Piece) /\ tcp_buffer \in Seq(Piece) /\ parsed \in Seq(1..MaxTokens)
    BY EmptyTypes
  <2>3. /\ idle \in 0..MaxTime /\ arrived \in [1..MaxTokens -> 0..MaxTime]
        /\ clock \in 0..MaxTime /\ count \in 0..MaxTokens /\ connects \in 0..MaxConnects
    OBVIOUS
  <2> QED BY <2>1, <2>2, <2>3 DEF TypeOK
<1>2. Numbered
  <2>1. Stream = <<>>
    BY DEF Stream
  <2> QED BY <2>1 DEF Numbered, InOrder, Follows
<1>3. NoLineTwice /\ Current
  BY DEF NoLineTwice, Current, HasLine
<1>4. Cached
  BY DEF Cached
<1> QED BY <1>1, <1>2, <1>3, <1>4 DEF BridgeInv

(* Types hold after every step.                                            *)
LEMMA BridgeTypes == BridgeInv /\ [Next]_vars => TypeOK'
<1> SUFFICES ASSUME BridgeInv, [Next]_vars PROVE TypeOK'
  OBVIOUS
<1> USE BoundsAssumption DEF BridgeInv, TypeOK, sensorVars, cacheVars, arrivalVars
<1>1. CASE Connect
  <2>1. wire' \in Seq(Piece)
    BY <1>1, EmptyTypes DEF Connect
  <2>2. connects' \in 0..MaxConnects
    BY <1>1, connects \in 0..MaxConnects, connects' = connects + 1 DEF Connect
  <2> QED BY <1>1, <2>1, <2>2 DEF Connect
<1>2. CASE Receive
  <2>1. PICK k \in 1..Len(wire) : /\ tcp_buffer' = tcp_buffer \o SubSeq(wire, 1, k)
                                  /\ wire' = SubSeq(wire, k + 1, Len(wire))
    BY <1>2 DEF Receive
  <2>2. arrived' \in [1..MaxTokens -> 0..MaxTime]
    BY <1>2 DEF Receive
  <2> QED BY <1>2, <2>1, <2>2, ReceiveMoves DEF Receive
<1>3. CASE LoseConnection BY <1>3 DEF LoseConnection
<1>4. CASE SkipBlank
  <2>1. 1 \in DOMAIN tcp_buffer
    BY <1>4 DEF SkipBlank
  <2> QED BY <1>4, <2>1, RestIsPart DEF SkipBlank
<1>5. CASE PutBack BY <1>5 DEF PutBack
<1>6. CASE TakeLine
  <2> DEFINE p == tcp_buffer[1]
             s == [line |-> p.n, at |-> clock]
  <2>1. PICK k \in DOMAIN tcp_buffer :
          /\ EndsLine(tcp_buffer, k)
          /\ IsJson(LineTo(tcp_buffer, k))
          /\ tcp_buffer' = Rest(tcp_buffer, k)
          /\ parsed' = Append(parsed, p.n)
          /\ velocity' = IF p.text \in Velocities THEN s ELSE velocity
          /\ pose' = IF p.text \in Positions THEN s ELSE pose
          /\ pc' = IF p.text \in Others THEN "parsing" ELSE "publishing"
    BY <1>6 DEF TakeLine, Stamp
  <2>2. p \in Piece /\ p.n # 0
    <3>1. 1 \in DOMAIN tcp_buffer /\ ~IsNewline(p)
      BY <2>1, JsonLine
    <3>2. 1 \in DOMAIN Stream /\ Stream[1] = p
      BY <3>1, ConcatProperties DEF Stream
    <3> QED BY <3>1, <3>2 DEF Numbered, InOrder
  <2>3. s \in Sample /\ p.n \in 1..MaxTokens
    <3>1. p.n \in 0..MaxTokens /\ p.n # 0
      BY <2>2 DEF Piece
    <3>2. clock \in 0..MaxTime
      OBVIOUS
    <3> QED BY <3>1, <3>2, SampleTypes
  <2>4. parsed' \in Seq(1..MaxTokens)
    BY <2>1, <2>3
  <2>5. tcp_buffer' \in Seq(Piece)
    BY <2>1, RestIsPart
  <2> QED BY <1>6, <2>1, <2>3, <2>4, <2>5 DEF TakeLine
<1>7. CASE Publish BY <1>7 DEF Publish, AfterPublish, None, Sample
<1>8. CASE EndOfLines BY <1>8 DEF EndOfLines
<1>9. CASE SensorSendsText
  <2>1. PICK t \in Texts : wire' = Append(wire, [text |-> t, n |-> count + 1])
    BY <1>9 DEF SensorSendsText
  <2>2. count < MaxTokens /\ count' = count + 1
    BY <1>9 DEF SensorSendsText
  <2>3. [text |-> t, n |-> count + 1] \in Piece
    BY <2>2 DEF Piece
  <2>4. wire' \in Seq(Piece)
    BY <2>1, <2>3
  <2> QED BY <1>9, <2>2, <2>4 DEF SensorSendsText
<1>10. CASE SensorEndsLine
  <2>1. [text |-> Newline, n |-> 0] \in Piece
    BY DEF Piece
  <2>2. wire' \in Seq(Piece)
    BY <1>10, <2>1 DEF SensorEndsLine
  <2> QED BY <1>10, <2>2 DEF SensorEndsLine
<1>11. CASE Tick
  <2>1. idle <= clock /\ clock' \in 0..MaxTime
    BY <1>11 DEF Tick, Cached
  <2> QED BY <1>11, <2>1 DEF Tick
<1>12. CASE BreakOff
  <2>1. tcp_buffer' \in Seq(Piece)
    BY <1>12, RestIsPart DEF BreakOff
  <2> QED BY <1>12, <2>1 DEF BreakOff
<1>13. CASE UNCHANGED vars BY <1>13 DEF vars
<1>14. QED
  BY <1>1, <1>2, <1>3, <1>4, <1>5, <1>6, <1>7, <1>8, <1>9, <1>10, <1>11, <1>12, <1>13
     DEF Next, Reader, Parser

(* The stream stays in order, and above what was handled.                  *)
LEMMA BridgeNumbers == BridgeInv /\ [Next]_vars => Numbered' /\ NoLineTwice'
<1> SUFFICES ASSUME BridgeInv, [Next]_vars PROVE Numbered' /\ NoLineTwice'
  OBVIOUS
<1>a. /\ tcp_buffer \in Seq(Piece) /\ wire \in Seq(Piece) /\ parsed \in Seq(1..MaxTokens)
      /\ count \in 0..MaxTokens /\ MaxTokens \in Nat
  BY BoundsAssumption DEF BridgeInv, TypeOK
<1>b. Stream \in Seq(Piece)
  BY <1>a DEF Stream
<1>c. /\ InOrder(Stream, count) /\ Follows(Stream, parsed) /\ NoLineTwice
      /\ \A i \in DOMAIN parsed : parsed[i] \in 1..count
  BY <1>a DEF BridgeInv, Numbered
<1>1. CASE UNCHANGED <<Stream, count, parsed>>
  BY <1>1, <1>c, <1>a DEF Numbered, NoLineTwice
<1>2. CASE Connect
  <2>1. Stream' = tcp_buffer /\ UNCHANGED <<count, parsed>>
    BY <1>2, <1>a DEF Connect, Stream, cacheVars
  <2>2. PICK d \in Nat : /\ Len(tcp_buffer) + d <= Len(Stream)
                         /\ \A i \in 1..Len(tcp_buffer) : tcp_buffer[i] = Stream[i + d]
    <3>1. /\ Len(tcp_buffer) + 0 <= Len(Stream)
          /\ \A i \in 1..Len(tcp_buffer) : tcp_buffer[i] = Stream[i + 0]
      BY <1>a, ConcatProperties DEF Stream
    <3> QED BY <3>1
  <2>3. InOrder(tcp_buffer, count) /\ Follows(tcp_buffer, parsed)
    BY <2>2, <1>a, <1>b, <1>c, PartInOrder
  <2> QED BY <2>1, <2>3, <1>a, <1>c DEF Numbered, NoLineTwice
<1>3. CASE Receive
  <2>1. PICK k \in 1..Len(wire) : /\ tcp_buffer' = tcp_buffer \o SubSeq(wire, 1, k)
                                  /\ wire' = SubSeq(wire, k + 1, Len(wire))
    BY <1>3 DEF Receive
  <2>2. Stream' = Stream
    BY <2>1, <1>a, ReceiveMoves DEF Stream
  <2> QED BY <1>3, <2>2, <1>1 DEF Receive, sensorVars, cacheVars
<1>4. CASE SkipBlank
  <2>1. /\ 1 \in DOMAIN tcp_buffer /\ tcp_buffer' = Rest(tcp_buffer, 1)
        /\ wire' = wire /\ count' = count /\ parsed' = parsed
    BY <1>4, <1>a DEF SkipBlank, sensorVars, cacheVars
  <2>2. Stream' \in Seq(Piece) /\ Len(Stream') + 1 <= Len(Stream)
        /\ \A i \in 1..Len(Stream') : Stream'[i] = Stream[i + 1]
    <3>1. Stream' = Rest(tcp_buffer, 1) \o wire
      BY <2>1 DEF Stream
    <3>2. LET t == Rest(tcp_buffer, 1) \o wire
          IN  t \in Seq(Piece) /\ Len(t) + 1 <= Len(Stream) /\ \A i \in 1..Len(t) : t[i] = Stream[i + 1]
      BY <2>1, <1>a, RestIsPart DEF Stream
    <3> QED BY <3>1, <3>2
  <2>3. InOrder(Stream', count) /\ Follows(Stream', parsed)
    BY <2>2, <1>a, <1>b, <1>c, PartInOrder
  <2> QED BY <2>1, <2>3, <1>a, <1>c DEF Numbered, NoLineTwice
<1>5. CASE TakeLine
  <2> DEFINE p == tcp_buffer[1]
  <2>1. PICK k \in DOMAIN tcp_buffer :
          /\ EndsLine(tcp_buffer, k)
          /\ IsJson(LineTo(tcp_buffer, k))
          /\ tcp_buffer' = Rest(tcp_buffer, k)
          /\ parsed' = Append(parsed, p.n)
    BY <1>5 DEF TakeLine
  <2>2. wire' = wire /\ count' = count
    BY <1>5 DEF TakeLine, sensorVars
  <2>3. k = 2 /\ 1 \in DOMAIN tcp_buffer /\ ~IsNewline(p)
    BY <2>1, <1>a, JsonLine
  <2>4. Stream[1] = p /\ Len(Stream) >= 2 /\ p \in Piece
    BY <2>1, <2>3, <1>a, ConcatProperties DEF Stream
  <2>5. p.n # 0 /\ p.n <= count /\ p.n \in Nat
    BY <2>3, <2>4, <1>b, <1>c DEF InOrder, Piece
  <2>6. Stream' \in Seq(Piece) /\ Len(Stream') + k <= Len(Stream)
        /\ \A i \in 1..Len(Stream') : Stream'[i] = Stream[i + k]
    <3>1. Stream' = Rest(tcp_buffer, k) \o wire
      BY <2>1, <2>2 DEF Stream
    <3>2. LET t == Rest(tcp_buffer, k) \o wire
          IN  t \in Seq(Piece) /\ Len(t) + k <= Len(Stream) /\ \A i \in 1..Len(t) : t[i] = Stream[i + k]
      BY <1>a, RestIsPart DEF Stream
    <3> QED BY <3>1, <3>2
  <2>7. InOrder(Stream', count) /\ Follows(Stream', parsed)
    BY <2>6, <2>3, <1>a, <1>b, <1>c, PartInOrder
  <2>8. \A i \in DOMAIN Stream' : Stream'[i].n # 0 => p.n < Stream'[i].n
    <3> SUFFICES ASSUME NEW i \in DOMAIN Stream', Stream'[i].n # 0 PROVE p.n < Stream'[i].n
      OBVIOUS
    <3>1. i + 2 \in DOMAIN Stream /\ 1 \in DOMAIN Stream /\ 1 < i + 2 /\ Stream'[i] = Stream[i + 2]
      BY <2>3, <2>6, <2>4, <1>b
    <3> QED BY <3>1, <2>4, <1>c DEF InOrder
  <2>9. \A i \in DOMAIN parsed : parsed[i] < p.n
    BY <2>4, <2>5, <1>b, <1>c DEF Follows
  <2>10. /\ DOMAIN parsed' = 1..Len(parsed) + 1 /\ DOMAIN parsed = 1..Len(parsed) /\ Len(parsed) \in Nat
         /\ \A i \in 1..Len(parsed) : parsed'[i] = parsed[i]
         /\ parsed'[Len(parsed) + 1] = p.n
    <3> HIDE DEF p
    <3>1. p.n \in 1..MaxTokens
      BY <2>5, <1>a
    <3> QED BY <3>1, <2>1, <1>a, AppendProperties
  <2> HIDE DEF p
  <2>11. NoLineTwice'
    BY <2>9, <2>10, <1>c DEF NoLineTwice
  <2>12. Follows(Stream', parsed')
    BY <2>7, <2>8, <2>10 DEF Follows
  <2>13. \A i \in DOMAIN parsed' : parsed'[i] <= count
    BY <2>5, <2>10, <1>c
  <2> QED BY <2>2, <2>7, <2>11, <2>12, <2>13 DEF Numbered
<1>6. CASE SensorSendsText
  <2>1. PICK t \in Texts : wire' = Append(wire, [text |-> t, n |-> count + 1])
    BY <1>6 DEF SensorSendsText
  <2> DEFINE p == [text |-> t, n |-> count + 1]
  <2>2. p \in Piece /\ ~IsNewline(p) /\ p.n = count + 1 /\ p.n # 0
    BY <1>6, <1>a, TextsAssumption DEF SensorSendsText, Piece, IsNewline
  <2>3. count' = count + 1 /\ parsed' = parsed /\ tcp_buffer' = tcp_buffer /\ wire' = Append(wire, p)
    BY <1>6, <2>1 DEF SensorSendsText, cacheVars
  <2> HIDE DEF p
  <2>4. Stream' = Append(Stream, p)
    BY <2>2, <2>3, <1>a DEF Stream
  <2>5. InOrder(Stream', count + 1) /\ Follows(Stream', parsed)
    <3>1. Stream \in Seq(Piece) /\ count \in Nat /\ count + 1 \in Nat
      BY <1>a, <1>b
    <3>2. InOrder(Stream, count) /\ Follows(Stream, parsed)
      BY <1>c
    <3>3. \A i \in DOMAIN parsed : parsed[i] \in 1..count
      BY <1>a, <1>c
    <3> QED BY <2>2, <2>4, <3>1, <3>2, <3>3, GrowsInOrder
  <2> QED BY <2>3, <2>5, <1>a, <1>c DEF Numbered, NoLineTwice
<1>7. CASE SensorEndsLine
  <2> DEFINE p == [text |-> Newline, n |-> 0]
  <2>1. p \in Piece /\ IsNewline(p) /\ p.n = 0
    BY <1>a DEF Piece, IsNewline
  <2>2. count' = count /\ parsed' = parsed /\ tcp_buffer' = tcp_buffer /\ wire' = Append(wire, p)
    BY <1>7 DEF SensorEndsLine, cacheVars
  <2> HIDE DEF p
  <2>3. Stream' = Append(Stream, p)
    BY <2>1, <2>2, <1>a DEF Stream
  <2>4. InOrder(Stream', count) /\ Follows(Stream', parsed)
    <3>1. Stream \in Seq(Piece) /\ count \in Nat
      BY <1>a, <1>b
    <3>2. InOrder(Stream, count) /\ Follows(Stream, parsed)
      BY <1>c
    <3>3. \A i \in DOMAIN parsed : parsed[i] \in 1..count
      BY <1>a, <1>c
    <3> QED BY <2>1, <2>3, <3>1, <3>2, <3>3, GrowsInOrder
  <2> QED BY <2>2, <2>4, <1>a, <1>c DEF Numbered, NoLineTwice
<1>8. CASE BreakOff
  <2>1. PICK k \in DOMAIN tcp_buffer : tcp_buffer' = Rest(tcp_buffer, k)
    BY <1>8 DEF BreakOff
  <2>2. Stream' = Rest(tcp_buffer, k) \o wire /\ UNCHANGED <<count, parsed>> /\ k \in Nat
    BY <1>8, <2>1, <1>a DEF BreakOff, Stream, sensorVars, cacheVars
  <2>3. InOrder(Stream', count) /\ Follows(Stream', parsed)
    <3> DEFINE t == Rest(tcp_buffer, k) \o wire
    <3>1. t \in Seq(Piece) /\ Len(t) + k <= Len(Stream) /\ \A i \in 1..Len(t) : t[i] = Stream[i + k]
      BY <1>a, RestIsPart DEF Stream
    <3> HIDE DEF t
    <3>2. count \in Nat /\ k \in Nat
      BY <2>2, <1>a
    <3>3. InOrder(t, count) /\ Follows(t, parsed)
      BY <3>1, <3>2, <1>b, <1>c, PartInOrder
    <3> QED BY <2>2, <3>3 DEF t
  <2> QED BY <2>2, <2>3, <1>a, <1>c DEF Numbered, NoLineTwice
<1>9. CASE LoseConnection \/ PutBack \/ Publish \/ EndOfLines \/ Tick \/ UNCHANGED vars
  BY <1>9, <1>1 DEF LoseConnection, PutBack, Publish, EndOfLines, Tick, vars, Stream, sensorVars, cacheVars
<1> QED BY <1>2, <1>3, <1>4, <1>5, <1>6, <1>7, <1>8, <1>9 DEF Next, Reader, Parser

(* A line that can be taken is a text that came with this chunk.           *)
LEMMA TakenIsTimely ==
  ASSUME BridgeInv, pc = "parsing", NEW k, EndsLine(tcp_buffer, k), IsJson(LineTo(tcp_buffer, k))
  PROVE  /\ Timely(tcp_buffer)
         /\ tcp_buffer[1].n \in 1..MaxTokens /\ arrived[tcp_buffer[1].n] = idle
<1>a. tcp_buffer \in Seq(Piece) /\ wire \in Seq(Piece) /\ MaxTokens \in Nat
  BY BoundsAssumption DEF BridgeInv, TypeOK
<1>1. ~HeadMalformed(tcp_buffer)
  BY <1>a, OneFirstLine DEF HeadMalformed
<1>2. Timely(tcp_buffer)
  BY <1>1 DEF BridgeInv, Current
<1>3. /\ k = 2 /\ 1 \in DOMAIN tcp_buffer /\ 2 \in DOMAIN tcp_buffer
      /\ ~IsNewline(tcp_buffer[1]) /\ IsNewline(tcp_buffer[2])
  BY <1>a, JsonLine DEF EndsLine
<1>4. 1 \in DOMAIN Stream /\ Stream[1] = tcp_buffer[1]
  BY <1>a, <1>3, ConcatProperties DEF Stream
<1>5. tcp_buffer[1].n # 0
  BY <1>3, <1>4 DEF BridgeInv, Numbered, InOrder
<1>6. tcp_buffer[1].n \in 1..MaxTokens
  <2>1. tcp_buffer[1] \in Piece
    BY <1>a, <1>3
  <2>2. tcp_buffer[1].n \in 0..MaxTokens
    BY <2>1 DEF Piece
  <2> QED BY <1>a, <1>5, <2>2
<1>7. arrived[tcp_buffer[1].n] = idle
  BY <1>2, <1>3, <1>5 DEF Timely, Ends
<1> QED BY <1>2, <1>6, <1>7

(* A sample of a line that was handled has the number of a text.           *)
LEMMA HandledLines ==
  ASSUME NEW h \in Seq(1..MaxTokens), NEW s, IsHandled(s, h)
  PROVE  s.line \in 1..MaxTokens
<1>1. PICK i \in DOMAIN h : h[i] = s.line
  BY DEF IsHandled
<1>2. h[i] \in 1..MaxTokens
  BY <1>1, BoundsAssumption
<1> QED BY <1>1, <1>2

(* What was handled stays handled, and what is handled now is.             *)
LEMMA HandlesMore ==
  ASSUME NEW h \in Seq(1..MaxTokens), NEW n \in 1..MaxTokens
  PROVE  /\ \A x : IsHandled(x, h) => IsHandled(x, Append(h, n))
         /\ \A x : x.line = n => IsHandled(x, Append(h, n))
<1> DEFINE g == Append(h, n)
<1>1. /\ Len(h) \in Nat /\ DOMAIN h = 1..Len(h) /\ DOMAIN g = 1..Len(h) + 1
      /\ \A i \in 1..Len(h) : g[i] = h[i]
      /\ g[Len(h) + 1] = n
  OBVIOUS
<1> HIDE DEF g
<1>2. Len(h) + 1 \in DOMAIN g /\ \A i \in DOMAIN h : i \in DOMAIN g /\ g[i] = h[i]
  BY <1>1
<1>3. /\ \A x : IsHandled(x, h) => IsHandled(x, g)
      /\ \A x : x.line = n => IsHandled(x, g)
  BY <1>1, <1>2 DEF IsHandled
<1> QED BY <1>3 DEF g

(* What a chunk ends has not been handled.                                 *)
LEMMA HandledDoNotArrive ==
  ASSUME BridgeInv, Receive, NEW s \in Sample, IsHandled(s, parsed)
  PROVE  arrived'[s.line] = arrived[s.line]
<1>a. /\ tcp_buffer \in Seq(Piece) /\ wire \in Seq(Piece) /\ parsed \in Seq(1..MaxTokens)
      /\ s.line \in 1..MaxTokens
  BY HandledLines DEF BridgeInv, TypeOK
<1>1. PICK k \in 1..Len(wire) : /\ tcp_buffer' = tcp_buffer \o SubSeq(wire, 1, k)
                                /\ wire' = SubSeq(wire, k + 1, Len(wire))
  BY DEF Receive
<1>2. /\ tcp_buffer' \in Seq(Piece) /\ wire' \in Seq(Piece)
      /\ tcp_buffer' \o wire' = Stream
  BY <1>1, <1>a, ReceiveMoves DEF Stream
<1>3. \A j \in DOMAIN tcp_buffer' : j \in DOMAIN Stream /\ Stream[j] = tcp_buffer'[j]
  <2> DEFINE b == tcp_buffer'
             w == wire'
  <2> HIDE DEF b, w
  <2>1. b \in Seq(Piece) /\ w \in Seq(Piece)
    BY <1>2 DEF b, w
  <2>2. \A j \in DOMAIN b : j \in DOMAIN (b \o w) /\ (b \o w)[j] = b[j]
    BY <2>1, ConcatProperties
  <2> QED BY <1>2, <2>2 DEF b, w
<1>4. \A j \in DOMAIN tcp_buffer' : tcp_buffer'[j].n # 0 => s.line # tcp_buffer'[j].n
  <2> SUFFICES ASSUME NEW j \in DOMAIN tcp_buffer', tcp_buffer'[j].n # 0
               PROVE  s.line # tcp_buffer'[j].n
    OBVIOUS
  <2>1. PICK i \in DOMAIN parsed : parsed[i] = s.line
    BY DEF IsHandled
  <2>2. j \in DOMAIN Stream /\ Stream[j] = tcp_buffer'[j]
    BY <1>3
  <2>3. s.line < tcp_buffer'[j].n
    BY <2>1, <2>2 DEF BridgeInv, Numbered, Follows
  <2> QED BY <2>3, <1>a
<1>5. s.line \notin EndedAfter(tcp_buffer', Len(tcp_buffer))
  <2> SUFFICES ASSUME s.line \in EndedAfter(tcp_buffer', Len(tcp_buffer)) PROVE FALSE
    OBVIOUS
  <2>1. PICK j \in Len(tcp_buffer)..Len(tcp_buffer') - 1 : j > 0 /\ tcp_buffer'[j].n = s.line
    BY DEF EndedAfter
  <2>2. j \in DOMAIN tcp_buffer'
    BY <2>1, <1>2, <1>a
  <2> QED BY <2>1, <2>2, <1>4, <1>a
<1>6. arrived' = [n \in 1..MaxTokens |->
        IF n \in EndedAfter(tcp_buffer', Len(tcp_buffer)) THEN idle ELSE arrived[n]]
  BY DEF Receive
<1> QED BY <1>5, <1>6, <1>a

(* What is cached was received no longer before than its stamp tells.      *)
LEMMA BridgeCaches == BridgeInv /\ [Next]_vars => Cached'
<1> SUFFICES ASSUME BridgeInv, [Next]_vars PROVE Cached'
  OBVIOUS
<1>a. /\ velocity \in Sample /\ pose \in Sample /\ clock \in Int /\ idle \in Int /\ MaxTokens \in Nat
      /\ arrived \in [1..MaxTokens -> 0..MaxTime] /\ MaxTime \in Nat
      /\ parsed \in Seq(1..MaxTokens) /\ Cached
  BY BoundsAssumption DEF BridgeInv, TypeOK
<1>b. ASSUME NEW s \in Sample, IsHandled(s, parsed)
      PROVE  Age(s) \in Int /\ s.at \in Int
  <2>1. s.line \in 1..MaxTokens /\ s.at \in 0..MaxTime
    BY <1>a, <1>b, HandledLines DEF Sample
  <2> QED BY <2>1, <1>a DEF Age
<1>1. CASE TakeLine
  <2> DEFINE p == tcp_buffer[1]
             s == [line |-> p.n, at |-> clock]
  <2>1. /\ parsed' = Append(parsed, p.n)
        /\ velocity' = s \/ velocity' = velocity
        /\ pose' = s \/ pose' = pose
        /\ UNCHANGED <<clock, idle, arrived>>
    BY <1>1 DEF TakeLine, Stamp, arrivalVars
  <2>2. p.n \in 1..MaxTokens /\ arrived[p.n] = idle
    BY <1>1, TakenIsTimely DEF TakeLine
  <2>3. /\ \A x : IsHandled(x, parsed) => IsHandled(x, parsed')
        /\ \A x : x.line = p.n => IsHandled(x, parsed')
    <3> HIDE DEF p
    <3> QED BY <2>1, <2>2, <1>a, HandlesMore
  <2>4. IsHandled(s, parsed')
    BY <2>3
  <2>5. Age(s) <= clock - s.at
    BY <2>2, <1>a DEF Age
  <2> HIDE DEF s
  <2>6. \A x : Age(x)' = idle - arrived[x'.line]
    BY <2>1 DEF Age
  <2> QED BY <2>1, <2>3, <2>4, <2>5, <1>a DEF Cached, Age
<1>2. CASE Receive
  <2>1. UNCHANGED <<velocity, pose, parsed, clock, idle>>
    BY <1>2 DEF Receive, cacheVars
  <2>2. velocity # None => arrived'[velocity.line] = arrived[velocity.line]
    BY <1>2, <1>a, HandledDoNotArrive DEF Cached
  <2>3. pose # None => arrived'[pose.line] = arrived[pose.line]
    BY <1>2, <1>a, HandledDoNotArrive DEF Cached
  <2> QED BY <2>1, <2>2, <2>3, <1>a DEF Cached, Age
<1>3. CASE Tick
  <2>1. /\ UNCHANGED <<velocity, pose, parsed, arrived>>
        /\ clock' = clock + 1 /\ (idle' = idle + 1 \/ idle' = idle)
    BY <1>3 DEF Tick, cacheVars
  <2>2. velocity # None => idle' - arrived[velocity.line] <= clock' - velocity.at
    <3> SUFFICES ASSUME velocity # None PROVE idle' - arrived[velocity.line] <= clock' - velocity.at
      OBVIOUS
    <3>1. /\ arrived[velocity.line] \in Int /\ velocity.at \in Int
          /\ idle - arrived[velocity.line] <= clock - velocity.at
      <4>1. velocity.line \in 1..MaxTokens /\ velocity.at \in 0..MaxTime
        BY <1>a, HandledLines DEF Cached, Sample
      <4> QED BY <4>1, <1>a DEF Cached, Age
    <3>2. /\ clock \in Int /\ idle \in Int /\ clock' = clock + 1
          /\ idle' = idle + 1 \/ idle' = idle
      BY <2>1, <1>a
    <3> QED BY <3>1, <3>2
  <2>3. pose # None => idle' - arrived[pose.line] <= clock' - pose.at
    <3> SUFFICES ASSUME pose # None PROVE idle' - arrived[pose.line] <= clock' - pose.at
      OBVIOUS
    <3>1. /\ arrived[pose.line] \in Int /\ pose.at \in Int
          /\ idle - arrived[pose.line] <= clock - pose.at
      <4>1. pose.line \in 1..MaxTokens /\ pose.at \in 0..MaxTime
        BY <1>a, HandledLines DEF Cached, Sample
      <4> QED BY <4>1, <1>a DEF Cached, Age
    <3>2. /\ clock \in Int /\ idle \in Int /\ clock' = clock + 1
          /\ idle' = idle + 1 \/ idle' = idle
      BY <2>1, <1>a
    <3> QED BY <3>1, <3>2
  <2> QED BY <2>1, <2>2, <2>3, <1>a DEF Cached, Age
<1>4. CASE UNCHANGED <<cacheVars, clock, idle, arrived>>
  BY <1>4, <1>a DEF Cached, Age, cacheVars
<1> QED
  BY <1>1, <1>2, <1>3, <1>4 DEF Next, Reader, Parser, Connect, LoseConnection, SkipBlank, PutBack,
     BreakOff, Publish, EndOfLines, SensorSendsText, SensorEndsLine, vars, arrivalVars

(* The loop over the lines ends only at one that is not JSON, or at none,  *)
(* and starts with nothing but lines that came with the chunk.             *)
LEMMA BridgeCurrent == BridgeInv /\ [Next]_vars => Current'
<1> SUFFICES ASSUME BridgeInv, [Next]_vars PROVE Current'
  OBVIOUS
<1>a. /\ tcp_buffer \in Seq(Piece) /\ wire \in Seq(Piece) /\ broken \in BOOLEAN
      /\ arrived \in [1..MaxTokens -> 0..MaxTime] /\ Current
      /\ pc \in {"connecting", "receiving", "parsing", "publishing"}
  BY DEF BridgeInv, TypeOK
<1>1. CASE Receive
  <2>1. PICK k \in 1..Len(wire) : tcp_buffer' = tcp_buffer \o SubSeq(wire, 1, k)
    BY <1>1 DEF Receive
  <2> DEFINE u == SubSeq(wire, 1, k)
             b == tcp_buffer \o u
  <2>2. u \in Seq(Piece)
    BY <1>a, SubSeqProperties
  <2> HIDE DEF u
  <2>3. /\ b \in Seq(Piece) /\ Len(b) = Len(tcp_buffer) + Len(u)
        /\ Len(tcp_buffer) \in Nat /\ Len(u) \in Nat
        /\ \A i \in 1..Len(tcp_buffer) : b[i] = tcp_buffer[i]
    BY <1>a, <2>2, ConcatProperties
  <2>4. tcp_buffer' = b
    BY <2>1 DEF u
  <2>5. /\ pc = "receiving" /\ pc' = "parsing" /\ broken' = FALSE /\ idle' = idle
        /\ arrived' = [n \in 1..MaxTokens |-> IF n \in EndedAfter(b, Len(tcp_buffer)) THEN idle ELSE arrived[n]]
    BY <1>1, <2>4 DEF Receive
  <2>6. CASE HeadMalformed(tcp_buffer)
    <3>1. HeadMalformed(b)
      BY <1>a, <2>2, <2>6, HeadStays
    <3> HIDE DEF b
    <3> QED BY <2>5, <3>1, <2>4 DEF Current, HeadMalformed, EndsLine, LineTo, IsJson, IsNewline
  <2>7. CASE ~HasLine(tcp_buffer) \/ Timely(tcp_buffer)
    <3>1. ASSUME NEW j \in DOMAIN b, Ends(b, j)
          PROVE  arrived'[b[j].n] = idle
      <4>1. /\ j \in 1..Len(b) - 1 /\ b[j].n # 0 /\ IsNewline(b[j + 1]) /\ b[j] \in Piece
            /\ j \in Nat /\ j > 0
        BY <2>3, <3>1 DEF Ends
      <4>2. b[j].n \in 1..MaxTokens
        <5>1. b[j].n \in 0..MaxTokens /\ MaxTokens \in Nat
          BY <4>1, BoundsAssumption DEF Piece
        <5> QED BY <4>1, <5>1
      <4>3. CASE j >= Len(tcp_buffer)
        <5>1. j \in Len(tcp_buffer)..Len(b) - 1
          BY <4>1, <4>3, <2>3
        <5>2. b[j].n \in EndedAfter(b, Len(tcp_buffer))
          BY <4>1, <5>1 DEF EndedAfter
        <5> QED BY <2>5, <4>2, <5>2
      <4>4. CASE j < Len(tcp_buffer)
        <5>1. /\ j \in 1..Len(tcp_buffer) /\ j + 1 \in 1..Len(tcp_buffer)
              /\ b[j] = tcp_buffer[j] /\ b[j + 1] = tcp_buffer[j + 1]
          BY <4>1, <4>4, <2>3
        <5>2. HasLine(tcp_buffer)
          BY <4>1, <5>1 DEF HasLine
        <5>3. arrived[b[j].n] = idle
          BY <2>7, <4>1, <5>1, <5>2 DEF Timely, Ends
        <5> QED BY <2>5, <4>2, <5>3
      <4> QED BY <4>1, <4>3, <4>4, <2>3
    <3> HIDE DEF b
    <3>2. Timely(tcp_buffer)'
      BY <2>4, <2>5, <3>1 DEF Timely, Ends, IsNewline
    <3> QED BY <2>5, <3>2 DEF Current
  <2> QED BY <1>a, <2>5, <2>6, <2>7 DEF Current
<1>2. CASE SkipBlank
  <2>1. ~HeadMalformed(tcp_buffer)
    <3>1. 1 \in DOMAIN tcp_buffer /\ EndsLine(tcp_buffer, 1)
      BY <1>2, <1>a DEF SkipBlank, EndsLine
    <3>2. LineTo(tcp_buffer, 1) = <<>>
      BY <1>a DEF LineTo
    <3> QED BY <1>a, <3>1, <3>2, OneFirstLine DEF HeadMalformed
  <2>2. Timely(Rest(tcp_buffer, 1))
    <3>1. 1 \in DOMAIN tcp_buffer /\ Timely(tcp_buffer)
      BY <1>2, <1>a, <2>1 DEF SkipBlank, Current
    <3> QED BY <3>1, <1>a, RestTimely
  <2>3. Timely(tcp_buffer)'
    BY <1>2, <2>2 DEF SkipBlank, arrivalVars, Timely, Ends, IsNewline
  <2> QED BY <1>2, <1>a, <2>3 DEF SkipBlank, Current, arrivalVars
<1>3. CASE TakeLine \/ BreakOff
  <2>1. PICK k \in DOMAIN tcp_buffer : /\ EndsLine(tcp_buffer, k)
                                       /\ IsJson(LineTo(tcp_buffer, k))
                                       /\ tcp_buffer' = Rest(tcp_buffer, k)
    BY <1>3 DEF TakeLine, BreakOff
  <2>2. /\ pc = "parsing" /\ UNCHANGED <<idle, arrived>>
        /\ \/ pc' \in {"parsing", "publishing"} /\ broken' = broken
           \/ pc' = "connecting" /\ broken'
    BY <1>3 DEF TakeLine, BreakOff, arrivalVars
  <2>3. Timely(Rest(tcp_buffer, k))
    BY <2>1, <2>2, <1>a, TakenIsTimely, RestTimely
  <2>4. Timely(tcp_buffer)'
    BY <2>1, <2>2, <2>3 DEF Timely, Ends, IsNewline
  <2> QED BY <2>2, <2>4, <1>a DEF Current
<1>4. CASE PutBack
  <2>1. HeadMalformed(tcp_buffer)
    BY <1>4 DEF PutBack, HeadMalformed
  <2>2. HeadMalformed(tcp_buffer)'
    BY <1>4, <2>1 DEF PutBack, HeadMalformed, EndsLine, LineTo, IsJson, IsNewline
  <2> QED BY <1>4, <2>2, <1>a DEF PutBack, Current, arrivalVars
<1>5. CASE EndOfLines
  BY <1>5, <1>a DEF EndOfLines, Current, arrivalVars, HasLine, IsNewline
<1>6. CASE Tick
  BY <1>6, <1>a DEF Tick, Current, HeadMalformed, EndsLine, LineTo, IsJson, IsNewline, HasLine,
     Timely, Ends
<1>7. CASE Publish \/ Connect \/ LoseConnection \/ SensorSendsText \/ SensorEndsLine \/ UNCHANGED vars
  <2>1. /\ UNCHANGED <<tcp_buffer, idle, arrived, broken>>
        /\ pc' \in {"connecting", "receiving"} <=> pc \in {"connecting", "receiving"}
        /\ pc' \in {"connecting", "receiving", "parsing", "publishing"}
    BY <1>7, <1>a DEF Publish, AfterPublish, Connect, LoseConnection, SensorSendsText, SensorEndsLine,
       vars, arrivalVars
  <2> QED BY <2>1, <1>a DEF Current, HeadMalformed, EndsLine, LineTo, IsJson, IsNewline, HasLine,
       Timely, Ends
<1> QED BY <1>1, <1>2, <1>3, <1>4, <1>5, <1>6, <1>7 DEF Next, Reader, Parser

(* The parts together are inductive.                                       *)
LEMMA BridgeInvariance == Spec => []BridgeInv
<1>1. BridgeInv /\ [Next]_vars => BridgeInv'
  BY BridgeTypes, BridgeNumbers, BridgeCaches, BridgeCurrent DEF BridgeInv
<1> QED BY BridgeInit, <1>1, PTL DEF Spec

-----------------------------------------------------------------------------
(* The tool and the script.                                                *)

reset == "reset_dead_reckoning"

Budget ==
  /\ step \in {"connecting", "verifying"} => elapsed = 0
  /\ step = "waiting" => elapsed <= 2 * Timeout
  /\ step = "receiving" => waited <= Timeout /\ elapsed <= Timeout + waited

\* What a success on the wire says of the sensor.
Truth(line) ==
  line.kind = "answer" /\ line.success =>
    /\ command = "set_config" => mode = "new"
    /\ command = reset => zeroing # "no"
    /\ command = "get_config" /\ reported["set_config"] = "success" => line.mode = "new"

Truthful ==
  /\ \A i \in DOMAIN toolWire : Truth(toolWire[i])
  /\ ~Online => toolWire = <<>>
  /\ step = "verifying" => command = "set_config"
  /\ command # reset => reported[reset] = "nothing"
  /\ command # "get_config" \/ step # "ended" => reported["get_config"] = "nothing"

OneReset ==
  /\ script # "off" => command = reset
  /\ command # reset \/ step = "connecting" => reset \notin queue /\ zeroing = "no"
  /\ zeroing # "no" => reset \notin queue

Delayed ==
  /\ step = "pausing" => Succeeded /\ (zeroing = "pending" => waited <= age)
  /\ Succeeded => step \in {"pausing", "ended"}
  /\ step = "ended" /\ Succeeded /\ zeroing = "pending" => Delay + settled <= age
  /\ script \in {"off", "resetting"} => settled = 0
  /\ script = "settling" => step = "ended" /\ Succeeded
  /\ script = "running" => zeroing = "done"
  /\ connects > 0 => script = "running"

\* The types of what the tool and the script keep.
ScriptTypeOK ==
  /\ ToolTypeOK
  /\ script \in {"off", "resetting", "settling", "running", "aborted"}
  /\ settled \in 0..Settle

ScriptInv ==
  /\ ScriptTypeOK
  /\ Budget
  /\ Truthful
  /\ SuccessIsReal
  /\ OneReset
  /\ Delayed

Reports ==
  ToolCannotConnect \/ ToolExpires \/ ToolReadsLine \/ ToolHearsNothing \/ ToolLosesConnection

ToolQuiet == ToolConnects \/ ToolReceives \/ ToolReadsByte \/ ToolVerifies \/ ToolPaused \/ ToolTick

-----------------------------------------------------------------------------
(* The invariant holds at the start.                                       *)
LEMMA ScriptInit == StartInit => ScriptInv
<1> SUFFICES ASSUME StartInit PROVE ScriptInv
  OBVIOUS
<1> USE TimesAssumption, SettleAssumption DEF StartInit, ToolInit, reset
<1>1. ScriptTypeOK
  <2>1. toolWire \in Seq(ToolLine)
    BY EmptySeq
  <2>2. reported \in [ToolCommands -> {"nothing", "success", "failure", "error"}]
    OBVIOUS
  <2> QED BY <2>1, <2>2 DEF ScriptTypeOK, ToolTypeOK, ToolCommands, Modes
<1>2. \A c \in ToolCommands : reported[c] = "nothing"
  OBVIOUS
<1>3. Budget /\ Truthful /\ SuccessIsReal
  BY <1>2 DEF Budget, Truthful, SuccessIsReal, ToolCommands
<1>4. OneReset /\ Delayed
  BY <1>2 DEF OneReset, Delayed, ToolCommands, Succeeded, Init
<1> QED BY <1>1, <1>3, <1>4 DEF ScriptInv

(* A report of success is true, and what --set shows is the mode it set.   *)
LEMMA ReportsTruly ==
  ASSUME ScriptInv, Reports
  PROVE  \E r \in {"success", "failure", "error"} :
           /\ Report(r)
           /\ step \in {"connecting", "waiting", "receiving"}
           /\ shown' \in Modes \cup {"none"}
           /\ r = "success" =>
                /\ command = "set_config" => mode = "new"
                /\ command = reset => zeroing # "no"
                /\ command = "get_config" /\ reported["set_config"] = "success" => shown' = "new"
<1>1. CASE ToolReadsLine
  <2> DEFINE line == Head(toolWire)
  <2>1. toolWire \in Seq(ToolLine) /\ toolWire # <<>> /\ step = "receiving"
    BY <1>1 DEF ToolReadsLine, ScriptInv, ScriptTypeOK, ToolTypeOK
  <2>2. line \in ToolLine /\ Truth(line)
    <3>1. line = toolWire[1] /\ 1 \in DOMAIN toolWire /\ toolWire[1] \in ToolLine
      BY <2>1
    <3> QED BY <3>1 DEF ScriptInv, Truthful
  <2>3. /\ Report(Result(line))
        /\ shown' = IF command = "get_config" /\ Result(line) = "success" THEN line.mode ELSE shown
    BY <1>1 DEF ToolReadsLine
  <2> HIDE DEF line
  <2>4. /\ Result(line) \in {"success", "failure", "error"}
        /\ Result(line) = "success" => line.kind = "answer" /\ line.success
    BY <2>2 DEF Result, ToolLine
  <2>5. line.mode \in Modes /\ shown \in Modes \cup {"none"}
    BY <2>2 DEF ToolLine, ScriptInv, ScriptTypeOK, ToolTypeOK
  <2> QED BY <2>1, <2>2, <2>3, <2>4, <2>5 DEF Truth
<1>2. CASE ~ToolReadsLine
  BY <1>2 DEF Reports, ToolCannotConnect, ToolExpires, ToolHearsNothing, ToolLosesConnection,
     ScriptInv, ScriptTypeOK, ToolTypeOK
<1> QED BY <1>1, <1>2

(* What a report changes of what has been reported.                        *)
LEMMA ReportChanges ==
  ASSUME ScriptInv, NEW r \in {"success", "failure", "error"}, Report(r)
  PROVE  /\ reported' \in [ToolCommands -> {"nothing", "success", "failure", "error"}]
         /\ command \in ToolCommands
         /\ reported'[command] = r
         /\ \A c \in ToolCommands : c # command => reported'[c] = reported[c]
BY DEF Report, ScriptInv, ScriptTypeOK, ToolTypeOK

(* A report leaves the invariant.                                          *)
LEMMA ReportKeeps ==
  ASSUME ScriptInv, Reports, script \in {"off", "resetting"}, UNCHANGED <<connects, scriptVars>>
  PROVE  ScriptInv'
<1>1. PICK r \in {"success", "failure", "error"} :
           /\ Report(r)
           /\ step \in {"connecting", "waiting", "receiving"}
           /\ shown' \in Modes \cup {"none"}
           /\ r = "success" =>
                /\ command = "set_config" => mode = "new"
                /\ command = reset => zeroing # "no"
                /\ command = "get_config" /\ reported["set_config"] = "success" => shown' = "new"
  BY ReportsTruly
<1>2. /\ reported' \in [ToolCommands -> {"nothing", "success", "failure", "error"}]
      /\ command \in ToolCommands
      /\ reported'[command] = r
      /\ \A c \in ToolCommands : c # command => reported'[c] = reported[c]
  BY <1>1, ReportChanges
<1>3. /\ command' = command /\ elapsed' = 0 /\ waited' = 0 /\ toolWire' = <<>>
      /\ UNCHANGED sensorState
      /\ step' \in {"verifying", "pausing", "ended"}
      /\ step' = "verifying" <=> command = "set_config"
      /\ step' = "pausing" <=> command = reset /\ r = "success"
  BY <1>1, <1>2 DEF Report, ToolCommands, reset
<1>4. ScriptTypeOK'
  <2>1. toolWire' \in Seq(ToolLine)
    BY <1>3, EmptySeq
  <2> QED BY <1>1, <1>2, <1>3, <2>1 DEF ScriptInv, ScriptTypeOK, ToolTypeOK, sensorState, scriptVars
<1>5. Budget'
  BY <1>3 DEF Budget
<1>6. Truthful'
  BY <1>1, <1>2, <1>3 DEF ScriptInv, Truthful, ToolCommands, reset, Online
<1>7. SuccessIsReal'
  BY <1>1, <1>2, <1>3 DEF ScriptInv, SuccessIsReal, Truthful, ToolCommands, reset, sensorState
<1>8. OneReset'
  BY <1>1, <1>3 DEF ScriptInv, OneReset, sensorState, scriptVars
<1>9. Delayed'
  <2>1. Succeeded' <=> command = reset /\ r = "success"
    BY <1>1, <1>2 DEF ScriptInv, Truthful, Succeeded, ToolCommands, reset
  <2>2. age \in Nat
    BY TimesAssumption DEF ScriptInv, ScriptTypeOK, ToolTypeOK
  <2> QED BY <1>1, <1>3, <2>1, <2>2 DEF ScriptInv, Delayed, sensorState, scriptVars
<1> QED BY <1>4, <1>5, <1>6, <1>7, <1>8, <1>9 DEF ScriptInv

(* The tool's other steps leave the invariant.                             *)
LEMMA QuietKeeps ==
  ASSUME ScriptInv, ToolQuiet, script \in {"off", "resetting"}, UNCHANGED <<connects, scriptVars>>
  PROVE  ScriptInv'
<1>a. /\ toolWire \in Seq(ToolLine) /\ Timeout \in Nat /\ Delay \in Nat /\ ZeroDelay \in Nat
      /\ elapsed \in Nat /\ waited \in Nat /\ age \in 0..ZeroDelay
  BY TimesAssumption DEF ScriptInv, ScriptTypeOK, ToolTypeOK
<1> USE <1>a DEF ScriptInv, sensorState, scriptVars
<1>1. CASE ToolConnects
  <2> USE <1>1 DEF ToolConnects
  <2>1. ScriptTypeOK'
    BY DEF ScriptTypeOK, ToolTypeOK
  <2>2. Budget' /\ Truthful' /\ SuccessIsReal'
    BY DEF Budget, Truthful, Truth, SuccessIsReal, Online
  <2>3. OneReset' /\ Delayed'
    BY DEF OneReset, Delayed, Succeeded
  <2> QED BY <2>1, <2>2, <2>3
<1>2. CASE ToolReceives
  <2> USE <1>2 DEF ToolReceives, Expired
  <2>1. ScriptTypeOK'
    BY DEF ScriptTypeOK, ToolTypeOK
  <2>2. Budget' /\ Truthful' /\ SuccessIsReal'
    BY DEF Budget, Truthful, Truth, SuccessIsReal, Online
  <2>3. OneReset' /\ Delayed'
    BY DEF OneReset, Delayed, Succeeded
  <2> QED BY <2>1, <2>2, <2>3
<1>3. CASE ToolReadsByte
  <2> USE <1>3 DEF ToolReadsByte
  <2>1. ScriptTypeOK'
    BY DEF ScriptTypeOK, ToolTypeOK
  <2>2. Budget' /\ Truthful' /\ SuccessIsReal'
    BY DEF Budget, Truthful, Truth, SuccessIsReal, Online
  <2>3. OneReset' /\ Delayed'
    BY DEF OneReset, Delayed, Succeeded
  <2> QED BY <2>1, <2>2, <2>3
<1>4. CASE ToolVerifies
  <2> USE <1>4 DEF ToolVerifies, reset
  <2>1. ScriptTypeOK'
    BY DEF ScriptTypeOK, ToolTypeOK, ToolCommands
  <2>2. command = "set_config" /\ toolWire = <<>> /\ toolWire' = <<>>
    BY DEF Truthful, Online
  <2>3. Budget' /\ Truthful' /\ SuccessIsReal'
    BY <2>2 DEF Budget, Truthful, SuccessIsReal
  <2>4. OneReset' /\ Delayed'
    BY <2>2 DEF OneReset, Delayed, Succeeded
  <2> QED BY <2>1, <2>3, <2>4
<1>5. CASE ToolPaused
  <2> USE <1>5 DEF ToolPaused
  <2>1. ScriptTypeOK'
    BY DEF ScriptTypeOK, ToolTypeOK
  <2>2. Succeeded /\ command = reset
    BY DEF Delayed, Succeeded, Truthful, reset
  <2>3. Budget' /\ Truthful' /\ SuccessIsReal'
    BY <2>2 DEF Budget, Truthful, Truth, SuccessIsReal, Online, reset
  <2>4. OneReset' /\ Delayed'
    BY DEF OneReset, Delayed, Succeeded
  <2> QED BY <2>1, <2>3, <2>4
<1>6. CASE ToolTick
  <2> USE <1>6 DEF ToolTick, SensorAges
  <2>1. age' \in 0..ZeroDelay /\ waited' \in Nat /\ elapsed' \in Nat
    OBVIOUS
  <2>2. ScriptTypeOK'
    BY <2>1 DEF ScriptTypeOK, ToolTypeOK
  <2>3. Budget' /\ Truthful' /\ SuccessIsReal'
    BY DEF Budget, Truthful, Truth, SuccessIsReal, Online
  <2>4. OneReset' /\ Delayed'
    BY DEF OneReset, Delayed, Succeeded
  <2> QED BY <2>2, <2>3, <2>4
<1> QED BY <1>1, <1>2, <1>3, <1>4, <1>5, <1>6 DEF ToolQuiet

(* The sensor's steps leave the invariant: the answer it sends is true.    *)
LEMMA SensorKeeps ==
  ASSUME ScriptInv, SensorNext, UNCHANGED <<connects, scriptVars>>
  PROVE  ScriptInv'
<1>a. /\ toolWire \in Seq(ToolLine) /\ Timeout \in Nat /\ Delay \in Nat /\ ZeroDelay \in Nat
      /\ elapsed \in Nat /\ waited \in Nat /\ age \in 0..ZeroDelay /\ mode \in Modes
  BY TimesAssumption DEF ScriptInv, ScriptTypeOK, ToolTypeOK
<1> USE <1>a DEF ScriptInv, scriptVars
<1>1. CASE SensorStreams
  <2>1. PICK k \in Unsolicited :
          toolWire' = Append(toolWire, [kind |-> k, success |-> FALSE, mode |-> mode])
    BY <1>1 DEF SensorStreams
  <2> DEFINE line == [kind |-> k, success |-> FALSE, mode |-> mode]
  <2>2. line \in ToolLine
    BY DEF ToolLine
  <2>3. ~line.success /\ toolWire' = Append(toolWire, line)
    BY <2>1
  <2> HIDE DEF line
  <2>4. /\ toolWire' \in Seq(ToolLine)
        /\ \A i \in DOMAIN toolWire' : toolWire'[i] = line \/ (i \in DOMAIN toolWire /\ toolWire'[i] = toolWire[i])
    BY <2>2, <2>3
  <2>5. UNCHANGED <<command, step, elapsed, waited, sensorState, reported, shown>> /\ Online
    BY <1>1 DEF SensorStreams
  <2>6. ScriptTypeOK'
    BY <2>4, <2>5 DEF ScriptTypeOK, ToolTypeOK, sensorState
  <2>7. Truthful'
    BY <2>3, <2>4, <2>5 DEF Truthful, Truth, Online, sensorState
  <2>8. Budget' /\ SuccessIsReal' /\ OneReset' /\ Delayed'
    BY <2>5 DEF Budget, SuccessIsReal, OneReset, Delayed, Succeeded, sensorState
  <2> QED BY <2>6, <2>7, <2>8
<1>2. CASE SensorExecutes
  <2>1. PICK c \in queue, ok \in BOOLEAN :
          /\ queue' = queue \ {c}
          /\ mode' = IF c = "set_config" /\ ok THEN "new" ELSE mode
          /\ zeroing' = IF c = reset /\ ok THEN "pending" ELSE zeroing
          /\ toolWire' = IF c = command /\ Online
               THEN Append(toolWire, [kind |-> "answer", success |-> ok, mode |-> mode])
               ELSE toolWire
    BY <1>2 DEF SensorExecutes, reset
  <2>2. UNCHANGED <<command, step, elapsed, waited, age, reported, shown>>
    BY <1>2 DEF SensorExecutes
  <2> DEFINE line == [kind |-> "answer", success |-> ok, mode |-> mode]
  <2>3. line \in ToolLine /\ line.success = ok /\ line.mode = mode
    BY DEF ToolLine
  <2> HIDE DEF line
  <2>4. /\ toolWire' \in Seq(ToolLine)
        /\ \A i \in DOMAIN toolWire' : \/ toolWire'[i] = line /\ c = command /\ Online
                                       \/ i \in DOMAIN toolWire /\ toolWire'[i] = toolWire[i]
        /\ ~Online => toolWire' = toolWire
    BY <2>1, <2>3 DEF line
  <2>5. /\ mode' \in Modes /\ (mode = "new" => mode' = "new")
        /\ zeroing' \in {"no", "pending", "done"} /\ (zeroing # "no" => zeroing' = zeroing)
    BY <2>1 DEF Modes, ScriptTypeOK, ToolTypeOK, OneReset
  <2>6. ScriptTypeOK'
    BY <2>1, <2>2, <2>4, <2>5 DEF ScriptTypeOK, ToolTypeOK
  <2>7. SuccessIsReal'
    BY <2>2, <2>5 DEF SuccessIsReal
  <2>8. Truthful'
    <3>1. SUFFICES ASSUME NEW i \in DOMAIN toolWire', NEW t, t = toolWire'[i] PROVE Truth(t)'
      BY <2>2, <2>4 DEF Truthful, Online, Truth
    <3>2. CASE i \in DOMAIN toolWire /\ toolWire'[i] = toolWire[i]
      BY <3>1, <3>2, <2>2, <2>5 DEF Truthful, Truth, reset
    <3>3. CASE toolWire'[i] = line /\ c = command
      <4>1. ok => (command = "set_config" => mode' = "new") /\ (command = reset => zeroing' # "no")
        BY <3>3, <2>1 DEF reset
      <4>2. reported["set_config"] = "success" => mode = "new"
        BY DEF SuccessIsReal
      <4> QED BY <3>1, <3>3, <4>1, <4>2, <2>2, <2>3 DEF Truth
    <3> QED BY <3>2, <3>3, <2>4
  <2>9. OneReset' /\ Budget'
    BY <2>1, <2>2 DEF OneReset, Budget, Truthful
  <2>10. Delayed'
    <3>1. Succeeded' = Succeeded /\ (Succeeded => zeroing # "no")
      BY <2>2 DEF Succeeded, SuccessIsReal
    <3> QED BY <3>1, <2>2, <2>5 DEF Delayed
  <2> QED BY <2>6, <2>7, <2>8, <2>9, <2>10
<1>3. CASE SensorZeroes
  <2> USE <1>3 DEF SensorZeroes
  <2>1. ScriptTypeOK'
    BY DEF ScriptTypeOK, ToolTypeOK
  <2>2. Budget' /\ Truthful' /\ SuccessIsReal'
    BY DEF Budget, Truthful, Truth, SuccessIsReal, Online
  <2>3. OneReset' /\ Delayed'
    BY DEF OneReset, Delayed, Succeeded
  <2> QED BY <2>1, <2>2, <2>3
<1> QED BY <1>1, <1>2, <1>3 DEF SensorNext

(* The script's steps leave the invariant: when the bridge starts, both    *)
(* sleeps are over, and a position that still waited to be zeroed would    *)
(* have waited for longer than the sensor lets it.                         *)
LEMMA ScriptKeeps ==
  ASSUME ScriptInv, ResetEnds \/ SettleTick \/ BridgeStarts \/ BridgeSteps
  PROVE  ScriptInv'
<1>a. /\ Timeout \in Nat /\ Delay \in Nat /\ ZeroDelay \in Nat /\ Settle \in Nat
      /\ ZeroDelay < Delay + Settle /\ settled \in 0..Settle /\ age \in 0..ZeroDelay
  BY TimesAssumption, SettleAssumption DEF ScriptInv, ScriptTypeOK, ToolTypeOK
<1> USE <1>a DEF ScriptInv
<1>1. CASE SettleTick
  <2> USE <1>1 DEF SettleTick, SensorAges
  <2>1. age' \in 0..ZeroDelay /\ settled' \in 0..Settle
    OBVIOUS
  <2>2. ScriptTypeOK'
    BY <2>1 DEF ScriptTypeOK, ToolTypeOK
  <2>3. Budget' /\ Truthful' /\ SuccessIsReal'
    BY DEF Budget, Truthful, Truth, SuccessIsReal, Online
  <2>4. OneReset' /\ Delayed'
    BY DEF OneReset, Delayed, Succeeded, vars
  <2> QED BY <2>2, <2>3, <2>4
<1>2. CASE UNCHANGED toolVars
  <2> USE <1>2 DEF toolVars, sensorState
  <2>1. ToolTypeOK'
    BY DEF ScriptTypeOK, ToolTypeOK
  <2>2. Budget' /\ Truthful' /\ SuccessIsReal'
    BY DEF Budget, Truthful, Truth, SuccessIsReal, Online
  <2>3. CASE ResetEnds
    BY <2>1, <2>2, <2>3 DEF ResetEnds, OneReset, Delayed, Succeeded, ScriptTypeOK, vars
  <2>4. CASE BridgeStarts
    <3>1. zeroing = "done"
      BY <2>4 DEF BridgeStarts, Delayed, Succeeded, SuccessIsReal, ScriptTypeOK, ToolTypeOK
    <3> QED BY <3>1, <2>1, <2>2, <2>4
          DEF BridgeStarts, OneReset, Delayed, Succeeded, ScriptTypeOK, vars
  <2>5. CASE BridgeSteps
    BY <2>1, <2>2, <2>5 DEF BridgeSteps, OneReset, Delayed, Succeeded, ScriptTypeOK, scriptVars
  <2> QED BY <1>1, <2>3, <2>4, <2>5
<1> QED BY <1>1, <1>2 DEF ResetEnds, BridgeStarts, BridgeSteps

(* The parts together are inductive.                                       *)
LEMMA ScriptInvariance == StartSpec => []ScriptInv
<1>1. ScriptInv /\ [StartNext]_allVars => ScriptInv'
  <2> SUFFICES ASSUME ScriptInv, [StartNext]_allVars PROVE ScriptInv'
    OBVIOUS
  <2>1. CASE ToolSteps
    <3>1. (Reports \/ ToolQuiet) /\ script \in {"off", "resetting"} /\ UNCHANGED <<connects, scriptVars>>
      BY <2>1 DEF ToolSteps, ToolNext, Reports, ToolQuiet, vars
    <3> QED BY <3>1, ReportKeeps, QuietKeeps
  <2>2. CASE SensorSteps
    BY <2>2, SensorKeeps DEF SensorSteps, vars
  <2>3. CASE ResetEnds \/ SettleTick \/ BridgeStarts \/ BridgeSteps
    BY <2>3, ScriptKeeps
  <2>4. CASE UNCHANGED allVars
    BY <2>4 DEF allVars, vars, toolVars, sensorState, scriptVars, ScriptInv, ScriptTypeOK, ToolTypeOK,
       Budget, Truthful, Truth, Online, SuccessIsReal, OneReset, Delayed, Succeeded
  <2> QED BY <2>1, <2>2, <2>3, <2>4 DEF StartNext
<1> QED BY ScriptInit, <1>1, PTL DEF StartSpec

-----------------------------------------------------------------------------
(* The composition: whatever the tools and the script do, what the bridge  *)
(* does under them is a behaviour of the bridge on its own, so that all    *)
(* that is proved of the bridge alone holds in the script.                 *)
THEOREM BridgeImplemented == StartSpec => Spec
<1>1. StartInit => Init
  BY DEF StartInit
<1>2. [StartNext]_allVars => [Next]_vars
  BY DEF StartNext, ToolSteps, SensorSteps, ResetEnds, SettleTick, BridgeStarts, BridgeSteps, allVars
<1> QED BY <1>1, <1>2, PTL DEF StartSpec, Spec

(* Tool, script and bridge keep their types, for any bounds and times.     *)
THEOREM TypeCorrect == StartSpec => []StartTypeOK
<1>1. BridgeInv /\ ScriptInv => StartTypeOK
  BY DEF BridgeInv, ScriptInv, ScriptTypeOK, StartTypeOK
<1> QED BY <1>1, BridgeImplemented, BridgeInvariance, ScriptInvariance, PTL

(* The bridge handles no line twice and none after a later one, however    *)
(* recv() cuts the stream and whenever the connection is lost.             *)
THEOREM NoLineIsHandledTwice == StartSpec => []NoLineTwice
BY BridgeImplemented, BridgeInvariance, PTL DEF BridgeInv

(* What is published was received within its limit, not counting the time  *)
(* in which the thread was busy or kept the rest of a chunk, for any two   *)
(* limits, any chunks and any delays.                                      *)
THEOREM OnlyFreshIsPublished == StartSpec => PublishedFresh
<1>1. BridgeInv /\ [Next]_vars => [published' # published => PublishesFresh(published')]_vars
  <2> SUFFICES ASSUME BridgeInv, [Next]_vars, published' # published
               PROVE  PublishesFresh(published')
    OBVIOUS
  <2>1. Publish
    BY DEF Next, Reader, Parser, Connect, Receive, LoseConnection, SkipBlank, PutBack, TakeLine,
       BreakOff, EndOfLines, SensorSendsText, SensorEndsLine, Tick, vars
  <2>2. /\ Fresh(velocity, VelMaxAge) /\ published'.velocity = velocity
        /\ published'.pose = IF Fresh(pose, PoseMaxAge) THEN pose ELSE None
    BY <2>1 DEF Publish
  <2>3. ASSUME NEW s \in Sample, s # None => IsHandled(s, parsed) /\ Age(s) <= clock - s.at,
               NEW limit \in Nat, Fresh(s, limit)
        PROVE  Age(s) <= limit
    <3>1. s.line \in 1..MaxTokens /\ s.at \in 0..MaxTime /\ clock - s.at <= limit
      BY <2>3, HandledLines DEF Fresh, Sample, BridgeInv, TypeOK
    <3>2. Age(s) \in Int /\ clock \in Int /\ s.at \in Int /\ Age(s) <= clock - s.at
      BY <2>3, <3>1, BoundsAssumption DEF Age, Fresh, BridgeInv, TypeOK
    <3> QED BY <3>1, <3>2
  <2>4. Age(velocity) <= VelMaxAge
    BY <2>2, <2>3, BoundsAssumption DEF BridgeInv, TypeOK, Cached
  <2>5. Fresh(pose, PoseMaxAge) => Age(pose) <= PoseMaxAge
    BY <2>3, BoundsAssumption DEF BridgeInv, TypeOK, Cached
  <2> QED BY <2>2, <2>4, <2>5 DEF PublishesFresh, Age
<1> QED BY <1>1, BridgeImplemented, BridgeInvariance, PTL DEF Spec, PublishedFresh

(* A complete line waits behind one that is not JSON only, unless it came  *)
(* behind a literal.                                                       *)
THEOREM OnlyMalformedLinesWait == StartSpec => []OnlyMalformedWaits
<1>1. BridgeInv => OnlyMalformedWaits
  BY OneFirstLine DEF BridgeInv, TypeOK, Current, HeadMalformed, HasLine, EndsLine, OnlyMalformedWaits
<1> QED BY <1>1, BridgeImplemented, BridgeInvariance, PTL

(* A success that a tool reports is the sensor's.                          *)
THEOREM SuccessIsTrue == StartSpec => []SuccessIsReal
BY ScriptInvariance, PTL DEF ScriptInv

(* A tool gives up in twice its timeout, for every timeout.                *)
THEOREM ToolsEndInBudget == StartSpec => []ToolWithinBudget
<1>1. ScriptInv => ToolWithinBudget
  BY TimesAssumption DEF ScriptInv, ScriptTypeOK, ToolTypeOK, Budget, ToolWithinBudget, Online
<1> QED BY <1>1, ScriptInvariance, PTL

(* The bridge connects to a sensor whose position has been zeroed, for all *)
(* sleeps that together outlast the sensor's delay.                        *)
THEOREM BridgeStartsFromZero == StartSpec => []StartsFromZero
<1>1. ScriptInv => StartsFromZero
  BY DEF ScriptInv, Delayed, StartsFromZero
<1> QED BY <1>1, ScriptInvariance, PTL
=============================================================================
