--------------------------- MODULE PyDriver_proofs ---------------------------
(***************************************************************************)
(* Theorems about PyDriver.  What the node has not taken is in order and   *)
(* numbered above everything published (Numbered); what it has taken ends  *)
(* with a newline (WholeLines); and old_altitude is one that was measured  *)
(* (Measured).  A line that is published is one text, so its newline is the*)
(* second piece of the buffer (JsonLine).                                  *)
(***************************************************************************)
EXTENDS PyDriver, SequenceTheorems, TLAPS

Stream == _recv_buffer \o wire

InOrder(s, c) ==
  /\ \A i \in DOMAIN s : s[i].n <= c /\ (IsNewline(s[i]) <=> s[i].n = 0)
  /\ \A i, j \in DOMAIN s : i < j /\ s[j].n # 0 => s[i].n < s[j].n

Follows(s, h) == \A i \in DOMAIN h, j \in DOMAIN s : s[j].n # 0 => h[i].n < s[j].n

Ascending == \A i, j \in DOMAIN published : i < j => published[i].n < published[j].n

PublishedBelow == \A i \in DOMAIN published : published[i].n \in Nat /\ published[i].n <= count

Numbered ==
  /\ InOrder(Stream, count)
  /\ Follows(Stream, published)
  /\ PublishedBelow
  /\ Ascending

\* The text with number n is a line of its own in s.
LineIn(s, n) == \E k \in DOMAIN s : s[k].n = n /\ OwnLine(s, k)

WholeLines ==
  /\ taken = <<>> \/ IsNewline(taken[Len(taken)])
  /\ \A i \in DOMAIN published : LineIn(taken, published[i].n)

Measured == old_altitude \in seen

Publication == [n : 1..MaxTexts, type : {"velocity", "position_local"}, altitude : Nat]

IInv ==
  /\ TypeOK
  /\ LinesConserved
  /\ Numbered
  /\ WholeLines
  /\ DiesOfUnusableLineOnly
  /\ Measured
  /\ AltitudeWasValid

-----------------------------------------------------------------------------
(* What is left of a stream is in order.                                   *)
LEMMA PartInOrder ==
  ASSUME NEW s \in Seq(Piece), NEW t \in Seq(Piece), NEW d \in Nat, NEW c \in Nat, NEW h,
         Len(t) + d <= Len(s), \A i \in 1..Len(t) : t[i] = s[i + d],
         InOrder(s, c), Follows(s, h)
  PROVE  InOrder(t, c) /\ Follows(t, h)
<1>1. \A i \in DOMAIN t : i + d \in DOMAIN s /\ t[i] = s[i + d]
  OBVIOUS
<1>2. \A i, j \in DOMAIN t : i < j => i + d < j + d
  OBVIOUS
<1> QED BY <1>1, <1>2 DEF InOrder, Follows

(* What the sensor adds to a stream keeps it in order.                     *)
LEMMA GrowsInOrder ==
  ASSUME NEW s \in Seq(Piece), NEW p \in Piece, NEW c \in Nat, NEW h,
         InOrder(s, c), Follows(s, h), \A i \in DOMAIN h : h[i].n \in Nat /\ h[i].n <= c,
         NEW d \in Nat,
         \/ IsNewline(p) /\ p.n = 0 /\ d = c
         \/ ~IsNewline(p) /\ p.n = c + 1 /\ d = c + 1
  PROVE  InOrder(Append(s, p), d) /\ Follows(Append(s, p), h)
<1> DEFINE t == Append(s, p)
<1>1. /\ DOMAIN t = 1..Len(s) + 1 /\ DOMAIN s = 1..Len(s) /\ Len(s) \in Nat
      /\ \A i \in 1..Len(s) : t[i] = s[i]
      /\ t[Len(s) + 1] = p
  OBVIOUS
<1>2. \A i \in 1..Len(s) : s[i] \in Piece
  OBVIOUS
<1> HIDE DEF t
<1>3. \A i \in 1..Len(s) : s[i].n \in Nat /\ s[i].n <= c
  BY <1>1, <1>2 DEF InOrder, Piece
<1>4. Follows(t, h)
  BY <1>1, <1>3 DEF Follows
<1>5. \A i, j \in DOMAIN t : i < j /\ t[j].n # 0 => t[i].n < t[j].n
  BY <1>1, <1>3 DEF InOrder
<1>6. \A i \in DOMAIN t : t[i].n <= d /\ (IsNewline(t[i]) <=> t[i].n = 0)
  BY <1>1, <1>3 DEF InOrder
<1>7. InOrder(t, d)
  BY <1>5, <1>6 DEF InOrder
<1> QED BY <1>4, <1>7 DEF t

(* A chunk moves from the wire to the buffer and leaves the stream.        *)
LEMMA ReceiveMoves ==
  ASSUME NEW b \in Seq(Piece), NEW w \in Seq(Piece), NEW k \in 1..Len(w)
  PROVE  /\ SubSeq(w, 1, k) \in Seq(Piece)
         /\ b \o SubSeq(w, 1, k) \in Seq(Piece)
         /\ SubSeq(w, k + 1, Len(w)) \in Seq(Piece)
         /\ (b \o SubSeq(w, 1, k)) \o SubSeq(w, k + 1, Len(w)) = b \o w
<1>1. SubSeq(w, 1, k) \in Seq(Piece) /\ SubSeq(w, k + 1, Len(w)) \in Seq(Piece)
  BY SubSeqProperties
<1>2. SubSeq(w, 1, k) \o SubSeq(w, k + 1, Len(w)) = SubSeq(w, 1, Len(w))
  BY ConcatAdjacentSubSeq
<1>3. SubSeq(w, 1, Len(w)) = w
  BY SubSeqFull
<1> DEFINE u == SubSeq(w, 1, k)
           v == SubSeq(w, k + 1, Len(w))
<1> HIDE DEF u, v
<1>4. u \in Seq(Piece) /\ v \in Seq(Piece)
  BY <1>1 DEF u, v
<1>5. b \o u \in Seq(Piece) /\ (b \o u) \o v = b \o (u \o v)
  BY <1>4
<1> QED BY <1>1, <1>2, <1>3, <1>5 DEF u, v

(* An index of what is left when k pieces of m are gone and l follow.      *)
LEMMA ShiftedIndex ==
  ASSUME NEW m \in Nat, NEW l \in Nat, NEW k \in 1..m, NEW i \in 1..m - k + l
  PROVE  /\ i \in Int /\ m - k \in Int /\ i + k \in 1..m + l
         /\ i <= m - k <=> i + k <= m
         /\ i + k - m = i - (m - k)
OBVIOUS

(* What is left of the buffer and the wire is the end of the stream.       *)
LEMMA RestIsPart ==
  ASSUME NEW b \in Seq(Piece), NEW w \in Seq(Piece), NEW k \in DOMAIN b
  PROVE  /\ Rest(b, k) \in Seq(Piece)
         /\ Rest(b, k) \o w \in Seq(Piece)
         /\ Len(Rest(b, k) \o w) + k <= Len(b \o w)
         /\ \A i \in 1..Len(Rest(b, k) \o w) : (Rest(b, k) \o w)[i] = (b \o w)[i + k]
<1> DEFINE r == Rest(b, k)
<1>1. /\ r \in Seq(Piece)
      /\ Len(r) = Len(b) - k
      /\ \A i \in 1..Len(b) - k : r[i] = b[i + k]
  BY SubSeqProperties DEF Rest
<1> HIDE DEF r
<1> DEFINE u == r \o w
           v == b \o w
<1>2. /\ u \in Seq(Piece) /\ Len(u) = Len(r) + Len(w)
      /\ \A i \in 1..Len(r) + Len(w) : u[i] = IF i <= Len(r) THEN r[i] ELSE w[i - Len(r)]
  BY <1>1, ConcatProperties
<1>3. /\ Len(v) = Len(b) + Len(w)
      /\ \A i \in 1..Len(b) + Len(w) : v[i] = IF i <= Len(b) THEN b[i] ELSE w[i - Len(b)]
  BY ConcatProperties
<1> HIDE DEF u, v
<1>4. k \in 1..Len(b) /\ Len(b) \in Nat /\ Len(w) \in Nat
  OBVIOUS
<1>5. ASSUME NEW i \in 1..Len(u)
      PROVE  u[i] = v[i + k]
  <2>1. /\ i \in Int /\ Len(r) \in Int /\ i \in 1..Len(r) + Len(w)
        /\ i + k \in 1..Len(b) + Len(w)
        /\ i <= Len(r) <=> i + k <= Len(b)
        /\ i + k - Len(b) = i - Len(r)
    <3>1. Len(r) = Len(b) - k /\ Len(u) = Len(b) - k + Len(w)
      BY <1>1, <1>2
    <3>2. i \in 1..Len(b) - k + Len(w)
      BY <3>1
    <3> QED BY <3>1, <3>2, <1>4, ShiftedIndex
  <2>2. /\ u[i] = IF i <= Len(r) THEN r[i] ELSE w[i - Len(r)]
        /\ v[i + k] = IF i + k <= Len(b) THEN b[i + k] ELSE w[i + k - Len(b)]
    BY <1>2, <1>3, <2>1
  <2>3. i <= Len(r) => r[i] = b[i + k]
    BY <1>1, <1>4, <2>1
  <2> QED BY <2>1, <2>2, <2>3
<1>6. Len(u) + k <= Len(v)
  BY <1>1, <1>2, <1>3, <1>4
<1> QED BY <1>1, <1>2, <1>5, <1>6 DEF r, u, v

(* Cutting a line off the buffer: its pieces go to taken, the rest stays.  *)
LEMMA CutMoves ==
  ASSUME NEW b \in Seq(Piece), NEW h \in Seq(Piece), NEW n \in DOMAIN b
  PROVE  /\ Rest(b, n) \in Seq(Piece)
         /\ SubSeq(b, 1, n) \in Seq(Piece) /\ Len(SubSeq(b, 1, n)) = n
         /\ \A i \in 1..n : SubSeq(b, 1, n)[i] = b[i]
         /\ h \o SubSeq(b, 1, n) \in Seq(Piece)
         /\ (h \o SubSeq(b, 1, n)) \o Rest(b, n) = h \o b
<1>1. Rest(b, n) \in Seq(Piece)
  BY SubSeqProperties DEF Rest
<1>2. /\ SubSeq(b, 1, n) \in Seq(Piece) /\ Len(SubSeq(b, 1, n)) = n
      /\ \A i \in 1..n : SubSeq(b, 1, n)[i] = b[i]
  BY SubSeqProperties
<1>3. h \o SubSeq(b, 1, n) \in Seq(Piece) /\ (h \o SubSeq(b, 1, n)) \o Rest(b, n) = h \o b
  <2>1. n \in 1..Len(b)
    OBVIOUS
  <2> QED BY <2>1, ReceiveMoves DEF Rest
<1> QED BY <1>1, <1>2, <1>3

(* A JSON line is a text and its newline.                                  *)
LEMMA JsonLine ==
  ASSUME NEW b \in Seq(Piece), NEW n, CutsAt(b, n), IsJson(Before(b, n))
  PROVE  /\ n = 2 /\ 1 \in DOMAIN b /\ 2 \in DOMAIN b /\ IsNewline(b[2])
         /\ Before(b, n)[1] = b[1] /\ b[1] \in Piece
         /\ b[1].text \in Reports /\ ~IsNewline(b[1])
<1>1. n \in 1..Len(b)
  BY DEF CutsAt
<1>2. Len(Before(b, n)) = n - 1 /\ \A i \in 1..n - 1 : Before(b, n)[i] = b[i]
  BY <1>1, SubSeqProperties DEF Before
<1>3. n = 2 /\ ~IsNewline(b[1]) /\ IsNewline(b[2]) /\ b[1] \in Piece
  BY <1>1, <1>2 DEF CutsAt, IsJson
<1> QED BY <1>1, <1>2, <1>3 DEF Piece, IsNewline

(* A line of its own stays one when more is taken.                         *)
LEMMA LineStays ==
  ASSUME NEW s \in Seq(Piece), NEW t \in Seq(Piece), NEW n, LineIn(s, n)
  PROVE  LineIn(s \o t, n)
<1> DEFINE u == s \o t
<1>1. /\ Len(u) = Len(s) + Len(t) /\ Len(s) \in Nat /\ Len(t) \in Nat
      /\ DOMAIN u = 1..Len(u) /\ DOMAIN s = 1..Len(s)
      /\ \A i \in 1..Len(s) : u[i] = s[i]
  BY ConcatProperties
<1> HIDE DEF u
<1>2. PICK k \in DOMAIN s : s[k].n = n /\ OwnLine(s, k)
  BY DEF LineIn
<1>3. k \in DOMAIN u /\ u[k].n = n /\ OwnLine(u, k)
  BY <1>1, <1>2 DEF OwnLine
<1> QED BY <1>3 DEF LineIn, u

-----------------------------------------------------------------------------
(* The invariant holds at the start.                                       *)
LEMMA InitHolds == Init => IInv
<1> SUFFICES ASSUME Init PROVE IInv
  OBVIOUS
<1> USE BoundsAssumption DEF Init
<1>1. TypeOK
  <2>1. /\ wire \in Seq(Piece) /\ _recv_buffer \in Seq(Piece)
        /\ received \in Seq(Piece) /\ taken \in Seq(Piece)
    BY EmptySeq
  <2>2. published \in Seq(Publication)
    BY EmptySeq
  <2>3. connects \in 0..MaxConnects /\ count \in 0..MaxTexts /\ seen \subseteq Int
    OBVIOUS
  <2> QED BY <2>1, <2>2, <2>3 DEF TypeOK, Publication
<1>2. LinesConserved
  BY DEF LinesConserved
<1>3. Numbered
  <2>1. Stream = <<>>
    BY DEF Stream
  <2> QED BY <2>1 DEF Numbered, InOrder, Follows, Ascending, PublishedBelow
<1>4. WholeLines /\ DiesOfUnusableLineOnly /\ Measured /\ AltitudeWasValid
  BY DEF WholeLines, DiesOfUnusableLineOnly, Measured, AltitudeWasValid
<1> QED BY <1>1, <1>2, <1>3, <1>4 DEF IInv

(* Steps that touch neither the stream nor what has been taken.            *)
LEMMA QuietKeeps ==
  ASSUME IInv, UNCHANGED <<count, _recv_buffer, received, taken, old_altitude, seen, published>>,
         wire' = wire \/ wire' = <<>>,
         pc' \in {"connecting", "spinning", pc}, pc' = "dead" <=> pc = "dead",
         connects' \in 0..MaxConnects, peer' \in {"open", "closed"},
         midline' = midline \/ midline' = FALSE
  PROVE  IInv'
<1>a. wire \in Seq(Piece) /\ _recv_buffer \in Seq(Piece) /\ count \in Nat
  BY BoundsAssumption DEF IInv, TypeOK
<1>1. TypeOK'
  <2>1. wire' \in Seq(Piece)
    BY <1>a, EmptySeq
  <2>2. midline' \in BOOLEAN
    BY DEF IInv, TypeOK
  <2> QED BY <2>1, <2>2 DEF IInv, TypeOK
<1>2. Numbered'
  <2>1. CASE wire' = wire
    BY <2>1 DEF IInv, Numbered, Stream, InOrder, Follows, Ascending, PublishedBelow, IsNewline
  <2>2. CASE wire' = <<>>
    <3>1. PICK d \in Nat : /\ Len(_recv_buffer) + d <= Len(Stream)
                           /\ \A i \in 1..Len(_recv_buffer) : _recv_buffer[i] = Stream[i + d]
      <4>1. /\ Len(_recv_buffer) + 0 <= Len(Stream)
            /\ \A i \in 1..Len(_recv_buffer) : _recv_buffer[i] = Stream[i + 0]
        BY <1>a, ConcatProperties DEF Stream
      <4> QED BY <4>1
    <3>2. Stream \in Seq(Piece) /\ Stream' = _recv_buffer
      BY <1>a, <2>2 DEF Stream
    <3>3. InOrder(_recv_buffer, count) /\ Follows(_recv_buffer, published)
      BY <3>1, <3>2, <1>a, PartInOrder DEF IInv, Numbered
    <3> QED BY <3>2, <3>3 DEF IInv, Numbered, Ascending, PublishedBelow
  <2> QED BY <2>1, <2>2
<1>3. LinesConserved' /\ WholeLines' /\ DiesOfUnusableLineOnly' /\ Measured' /\ AltitudeWasValid'
  BY DEF IInv, LinesConserved, WholeLines, LineIn, OwnLine, IsNewline, DiesOfUnusableLineOnly, Measured, AltitudeWasValid
<1> QED BY <1>1, <1>2, <1>3 DEF IInv

(* A piece that the sensor sends leaves the invariant.                     *)
LEMMA SendingKeeps ==
  ASSUME IInv, SensorSendsText \/ SensorEndsLine
  PROVE  IInv'
<1>a. /\ wire \in Seq(Piece) /\ _recv_buffer \in Seq(Piece) /\ count \in 0..MaxTexts /\ MaxTexts \in Nat
      /\ published \in Seq(Publication)
      /\ UNCHANGED <<pc, connects, peer, _recv_buffer, received, taken, old_altitude, seen, published>>
  BY BoundsAssumption DEF IInv, TypeOK, Publication, SensorSendsText, SensorEndsLine, publishVars
<1>1. PICK p \in Piece :
        /\ wire' = Append(wire, p)
        /\ count' \in 0..MaxTexts
        /\ \/ IsNewline(p) /\ p.n = 0 /\ count' = count
           \/ ~IsNewline(p) /\ p.n = count + 1 /\ count' = count + 1
  <2>1. CASE SensorSendsText
    <3>1. PICK r \in Reports : wire' = Append(wire, [text |-> r, n |-> count + 1])
      BY <2>1 DEF SensorSendsText
    <3>2. count' = count + 1 /\ count < MaxTexts
      BY <2>1 DEF SensorSendsText
    <3> DEFINE p == [text |-> r, n |-> count + 1]
    <3>3. p \in Piece /\ ~IsNewline(p) /\ p.n = count + 1
      BY <3>2, <1>a, ReportsAssumption DEF Piece, IsNewline
    <3> QED BY <3>1, <3>2, <3>3, <1>a
  <2>2. CASE SensorEndsLine
    <3> DEFINE p == [text |-> Newline, n |-> 0]
    <3>1. p \in Piece /\ IsNewline(p) /\ p.n = 0
      BY <1>a DEF Piece, IsNewline
    <3> QED BY <2>2, <3>1, <1>a DEF SensorEndsLine
  <2> QED BY <2>1, <2>2
<1>2. TypeOK'
  <2>1. wire' \in Seq(Piece)
    BY <1>1, <1>a
  <2>2. midline' \in BOOLEAN
    BY DEF SensorSendsText, SensorEndsLine
  <2> QED BY <1>1, <1>a, <2>1, <2>2 DEF IInv, TypeOK
<1>3. Numbered'
  <2>1. Stream \in Seq(Piece) /\ Stream' = Append(Stream, p)
    BY <1>1, <1>a DEF Stream
  <2>2. \A i \in DOMAIN published : published[i].n \in Nat /\ published[i].n <= count
    BY <1>a DEF IInv, Numbered, PublishedBelow
  <2>3. InOrder(Stream, count) /\ Follows(Stream, published) /\ Ascending
    BY DEF IInv, Numbered
  <2>4. count \in Nat /\ count' \in Nat /\ count <= count'
    BY <1>1, <1>a
  <2>5. InOrder(Stream', count') /\ Follows(Stream', published)
    BY <1>1, <2>1, <2>2, <2>3, <2>4, GrowsInOrder
  <2>6. Follows(Stream', published') /\ Ascending'
    BY <2>3, <2>5, <1>a DEF Ascending
  <2>7. PublishedBelow'
    BY <2>2, <2>4, <1>a DEF PublishedBelow
  <2> QED BY <2>5, <2>6, <2>7 DEF Numbered
<1>4. LinesConserved' /\ WholeLines' /\ DiesOfUnusableLineOnly' /\ Measured' /\ AltitudeWasValid'
  BY <1>a DEF IInv, LinesConserved, WholeLines, LineIn, OwnLine, IsNewline, DiesOfUnusableLineOnly, Measured, AltitudeWasValid
<1> QED BY <1>2, <1>3, <1>4 DEF IInv

\* What is published of the text p, at the altitude a.
Publishes(p, a) ==
  /\ published' = Append(published, [n |-> p.n, type |-> p.text.type, altitude |-> a])
  /\ p.text.type \in {"velocity", "position_local"}
  /\ a \in Nat
  /\ p.text.type = "velocity" => a \in seen'

(* What handling a line does: it publishes nothing, or the text the line   *)
(* is, at an altitude that was measured; it ends the process exactly if    *)
(* that text is unusable.                                                  *)
LEMMA TakeLineEffects ==
  ASSUME IInv, NEW line, TakeLine(line), NEW p \in Piece,
         IsJson(line) => line[1] = p /\ p.text \in Reports
  PROVE  /\ \/ published' = published
            \/ IsJson(line) /\ \E a \in Nat : Publishes(p, a)
         /\ seen \subseteq seen' /\ seen' \subseteq Int
         /\ old_altitude' \in Nat /\ old_altitude' \in seen'
         /\ pc' \in {"spinning", "dead"}
         /\ pc' = "dead" <=> IsJson(line) /\ Unusable(p.text)
<1>a. old_altitude \in Nat /\ old_altitude \in seen /\ seen \subseteq Int
  BY DEF IInv, TypeOK, Measured
<1>1. CASE IsJson(line)
  <2>1. /\ p.text \in ReportType /\ line[1] = p /\ p.text.type # "fragment"
    BY <1>1, ReportsAssumption DEF IsJson
  <2>2. p.text.altitude \in Int /\ p.text.valid \in BOOLEAN
    BY <2>1 DEF ReportType
  <2>3. pc' \in {"spinning", "dead"} /\ (pc' = "dead" <=> Unusable(p.text))
    BY <1>1, <2>1 DEF TakeLine, Survives, Raises, Unusable
  <2>4. CASE PublishVelocity(p)
    <3> DEFINE a == IF Usable(p.text) THEN p.text.altitude ELSE old_altitude
    <3>1. /\ old_altitude' = a
          /\ seen' = IF p.text.valid THEN seen \cup {p.text.altitude} ELSE seen
          /\ published' = IF p.text.fields = "good"
               THEN Append(published, [n |-> p.n, type |-> p.text.type, altitude |-> a]) ELSE published
      BY <2>4 DEF PublishVelocity
    <3>2. a \in Nat /\ a \in seen' /\ seen \subseteq seen' /\ seen' \subseteq Int
      <4>1. CASE p.text.altitude >= 0 /\ p.text.valid
        <5>1. a = p.text.altitude
          BY <4>1 DEF Usable
        <5>2. seen' = seen \cup {p.text.altitude}
          BY <4>1, <3>1
        <5>3. p.text.altitude \in Int /\ p.text.altitude >= 0
          BY <4>1, <2>2
        <5> HIDE DEF a
        <5>4. a \in Nat
          BY <5>1, <5>3
        <5> QED BY <5>1, <5>2, <5>3, <5>4, <1>a
      <4>2. CASE ~(p.text.altitude >= 0 /\ p.text.valid)
        <5>1. a = old_altitude
          BY <4>2 DEF Usable
        <5> QED BY <5>1, <3>1, <2>2, <1>a
      <4> QED BY <4>1, <4>2
    <3> HIDE DEF a
    <3>3. published' = published \/ Publishes(p, a)
      BY <3>1, <3>2, <2>4 DEF Publishes, PublishVelocity
    <3> QED BY <1>1, <2>2, <2>3, <3>1, <3>2, <3>3
  <2>5. CASE PublishPosition(p)
    <3>1. published' = published \/ Publishes(p, 0)
      BY <2>5 DEF PublishPosition, Publishes
    <3>2. UNCHANGED <<old_altitude, seen>>
      BY <2>5 DEF PublishPosition
    <3> QED BY <1>1, <1>a, <2>2, <2>3, <3>1, <3>2
  <2>6. CASE UNCHANGED publishVars
    BY <1>1, <1>a, <2>2, <2>3, <2>6 DEF publishVars
  <2> QED BY <1>1, <2>1, <2>4, <2>5, <2>6 DEF TakeLine, PublishNothing
<1>2. CASE ~IsJson(line)
  <2>1. pc' = "spinning" /\ UNCHANGED publishVars
    BY <1>2 DEF TakeLine, Survives
  <2> QED BY <1>a, <1>2, <2>1 DEF publishVars
<1> QED BY <1>1, <1>2

(* A chunk, and the line that is handled with it, leave the invariant.     *)
LEMMA ReceiveKeeps ==
  ASSUME IInv, Receive
  PROVE  IInv'
<1>a. /\ wire \in Seq(Piece) /\ _recv_buffer \in Seq(Piece) /\ received \in Seq(Piece)
      /\ taken \in Seq(Piece) /\ published \in Seq(Publication)
      /\ count \in 0..MaxTexts /\ MaxTexts \in Nat /\ count' = count
      /\ received = taken \o _recv_buffer
      /\ UNCHANGED <<connects, peer, count, midline>>
  BY BoundsAssumption DEF IInv, TypeOK, LinesConserved, Publication, Receive, sensorVars
<1>1. PICK k \in 1..Len(wire) :
        LET chunk == SubSeq(wire, 1, k)
            buffer == _recv_buffer \o chunk
        IN  /\ wire' = SubSeq(wire, k + 1, Len(wire))
            /\ received' = received \o chunk
            /\ \/ \E n \in DOMAIN buffer :
                    /\ CutsAt(buffer, n)
                    /\ TakeLine(Before(buffer, n))
                    /\ _recv_buffer' = Rest(buffer, n)
                    /\ taken' = taken \o SubSeq(buffer, 1, n)
               \/ /\ ~HasLine(buffer)
                  /\ _recv_buffer' = buffer
                  /\ UNCHANGED <<pc, taken, publishVars>>
  BY DEF Receive
<1> DEFINE chunk == SubSeq(wire, 1, k)
           buffer == _recv_buffer \o chunk
<1>2. /\ wire' \in Seq(Piece) /\ chunk \in Seq(Piece) /\ buffer \in Seq(Piece)
      /\ buffer \o wire' = Stream
  BY <1>a, <1>1, ReceiveMoves DEF Stream
<1>3. received' = taken \o buffer /\ received' \in Seq(Piece)
  <2>1. received' = received \o chunk
    BY <1>1
  <2> HIDE DEF chunk
  <2>2. /\ taken \in Seq(Piece) /\ _recv_buffer \in Seq(Piece) /\ chunk \in Seq(Piece)
        /\ received = taken \o _recv_buffer
    BY <1>a, <1>2
  <2>3. (taken \o _recv_buffer) \o chunk = taken \o buffer
    BY <2>2, ConcatAssociative
  <2> HIDE DEF buffer
  <2>4. taken \o buffer \in Seq(Piece)
    BY <1>2, <2>2, ConcatProperties
  <2> QED BY <2>1, <2>2, <2>3, <2>4
<1>4. Stream \in Seq(Piece) /\ InOrder(Stream, count) /\ Follows(Stream, published)
      /\ PublishedBelow /\ Ascending
  BY <1>a DEF Stream, IInv, Numbered
<1>5. CASE ~HasLine(buffer) /\ _recv_buffer' = buffer /\ UNCHANGED <<pc, taken, publishVars>>
  <2> HIDE DEF chunk, buffer
  <2>1. Stream' = Stream
    BY <1>2, <1>5 DEF Stream
  <2>2. TypeOK'
    BY <1>a, <1>2, <1>3, <1>5 DEF IInv, TypeOK, publishVars
  <2>3. LinesConserved'
    BY <1>3, <1>5 DEF LinesConserved
  <2>4. Numbered'
    BY <1>a, <1>4, <1>5, <2>1 DEF Numbered, PublishedBelow, Ascending, publishVars
  <2>5. WholeLines' /\ DiesOfUnusableLineOnly' /\ Measured' /\ AltitudeWasValid'
    BY <1>5 DEF IInv, WholeLines, LineIn, OwnLine, IsNewline, DiesOfUnusableLineOnly, Measured,
                AltitudeWasValid, publishVars
  <2> QED BY <2>2, <2>3, <2>4, <2>5 DEF IInv
<1>6. CASE \E n \in DOMAIN buffer :
             /\ CutsAt(buffer, n)
             /\ TakeLine(Before(buffer, n))
             /\ _recv_buffer' = Rest(buffer, n)
             /\ taken' = taken \o SubSeq(buffer, 1, n)
  <2> HIDE DEF chunk, buffer
  <2>1. PICK n \in DOMAIN buffer :
             /\ CutsAt(buffer, n)
             /\ TakeLine(Before(buffer, n))
             /\ _recv_buffer' = Rest(buffer, n)
             /\ taken' = taken \o SubSeq(buffer, 1, n)
    BY <1>6
  <2> DEFINE p == buffer[1]
             line == Before(buffer, n)
             cut == SubSeq(buffer, 1, n)
  <2>2. /\ n \in 1..Len(buffer) /\ p \in Piece
        /\ IsNewline(buffer[n])
    BY <1>2, <2>1 DEF CutsAt
  <2>3. IsJson(line) => /\ n = 2 /\ IsNewline(buffer[2]) /\ line[1] = p
                        /\ p.text \in Reports /\ ~IsNewline(p)
    BY <1>2, <2>1, JsonLine
  <2>4. /\ cut \in Seq(Piece) /\ Len(cut) = n /\ \A i \in 1..n : cut[i] = buffer[i]
        /\ taken' = taken \o cut
        /\ taken' \in Seq(Piece) /\ _recv_buffer' \in Seq(Piece)
        /\ taken' \o _recv_buffer' = taken \o buffer
    <3>1. /\ cut \in Seq(Piece) /\ Len(cut) = n /\ \A i \in 1..n : cut[i] = buffer[i]
          /\ taken \o cut \in Seq(Piece) /\ Rest(buffer, n) \in Seq(Piece)
          /\ (taken \o cut) \o Rest(buffer, n) = taken \o buffer
      BY <1>2, <1>a, CutMoves
    <3>2. taken' = taken \o cut /\ _recv_buffer' = Rest(buffer, n)
      BY <2>1
    <3> HIDE DEF cut
    <3> QED BY <3>1, <3>2
  <2>5. /\ Stream' \in Seq(Piece) /\ Len(Stream') + n <= Len(Stream)
        /\ \A i \in 1..Len(Stream') : Stream'[i] = Stream[i + n]
    <3>1. Stream' = Rest(buffer, n) \o wire'
      BY <2>1 DEF Stream
    <3>2. LET t == Rest(buffer, n) \o wire'
          IN  t \in Seq(Piece) /\ Len(t) + n <= Len(Stream) /\ \A i \in 1..Len(t) : t[i] = Stream[i + n]
      BY <1>2, RestIsPart
    <3> QED BY <3>1, <3>2
  <2>6. InOrder(Stream', count) /\ Follows(Stream', published)
    <3>1. n \in Nat /\ count \in Nat
      BY <1>2, <1>a
    <3> DEFINE t == Stream'
    <3>2. t \in Seq(Piece) /\ Len(t) + n <= Len(Stream) /\ \A i \in 1..Len(t) : t[i] = Stream[i + n]
      BY <2>5
    <3> HIDE DEF t
    <3>3. InOrder(t, count) /\ Follows(t, published)
      BY <3>1, <3>2, <1>4, PartInOrder
    <3> QED BY <3>3 DEF t
  <2>7. Stream[1] = p /\ 1 \in DOMAIN Stream
    <3>1. buffer \o wire' = Stream /\ 1 \in 1..Len(buffer)
      BY <1>2, <2>2
    <3>2. (buffer \o wire')[1] = buffer[1] /\ 1 \in DOMAIN (buffer \o wire')
      BY <1>2, <3>1, ConcatProperties
    <3> QED BY <3>1, <3>2
  <2>8. /\ DOMAIN taken' = 1..Len(taken) + n /\ Len(taken) \in Nat
        /\ Len(taken') = Len(taken) + n
        /\ \A i \in 1..Len(taken) : taken'[i] = taken[i]
        /\ \A i \in 1..n : taken'[Len(taken) + i] = buffer[i]
    <3> HIDE DEF cut
    <3>1. n \in Nat /\ Len(taken) \in Nat
      BY <1>2, <1>a
    <3>2. /\ taken' \in Seq(Piece) /\ Len(taken') = Len(taken) + Len(cut)
          /\ \A i \in 1..Len(taken) + Len(cut) :
               taken'[i] = IF i <= Len(taken) THEN taken[i] ELSE cut[i - Len(taken)]
      BY <2>4, <1>a, ConcatProperties
    <3>3. \A i \in 1..n : taken'[Len(taken) + i] = cut[i]
      <4> SUFFICES ASSUME NEW i \in 1..n PROVE taken'[Len(taken) + i] = cut[i]
        OBVIOUS
      <4>1. Len(taken) + i \in 1..Len(taken) + Len(cut) /\ ~(Len(taken) + i <= Len(taken))
            /\ Len(taken) + i - Len(taken) = i
        BY <3>1, <2>4
      <4> QED BY <4>1, <3>2
    <3> QED BY <2>4, <3>1, <3>2, <3>3
  <2>9. TakeLine(line)
    BY <2>1
  <2> HIDE DEF line, cut
  <2>e. /\ \/ published' = published
           \/ IsJson(line) /\ \E a \in Nat : Publishes(p, a)
        /\ seen \subseteq seen' /\ seen' \subseteq Int
        /\ old_altitude' \in Nat /\ old_altitude' \in seen'
        /\ pc' \in {"spinning", "dead"}
        /\ pc' = "dead" <=> IsJson(line) /\ Unusable(p.text)
    BY <2>2, <2>3, <2>9, TakeLineEffects
  <2> HIDE DEF p
  <2>10. LinesConserved'
    BY <1>3, <2>4 DEF LinesConserved
  <2>11. IsJson(line) => /\ p.n \in 1..MaxTexts /\ p.n <= count
                         /\ \A i \in DOMAIN published : published[i].n < p.n
                         /\ \A i \in DOMAIN Stream' : Stream'[i].n # 0 => p.n < Stream'[i].n
    <3> SUFFICES ASSUME IsJson(line)
                 PROVE  /\ p.n \in 1..MaxTexts /\ p.n <= count
                        /\ \A i \in DOMAIN published : published[i].n < p.n
                        /\ \A i \in DOMAIN Stream' : Stream'[i].n # 0 => p.n < Stream'[i].n
      OBVIOUS
    <3>1. p.n # 0 /\ p.n <= count
      BY <2>3, <2>7, <1>4 DEF InOrder
    <3>2. p.n \in 0..MaxTexts
      BY <2>2 DEF Piece
    <3>3. \A i \in DOMAIN published : published[i].n < p.n
      BY <3>1, <2>7, <1>4 DEF Follows
    <3>4. ASSUME NEW i \in DOMAIN Stream', Stream'[i].n # 0
          PROVE  p.n < Stream'[i].n
      <4>1. i + n \in DOMAIN Stream /\ 1 < i + n /\ Stream'[i] = Stream[i + n]
        BY <2>2, <2>5, <1>4
      <4> QED BY <3>4, <4>1, <2>7, <1>4 DEF InOrder
    <3> QED BY <3>1, <3>2, <3>3, <3>4, <1>a
  <2>12. IsJson(line) => /\ OwnLine(taken', Len(taken) + 1) /\ taken'[Len(taken) + 1] = p
                          /\ Len(taken) + 1 \in DOMAIN taken'
    <3> SUFFICES ASSUME IsJson(line)
                 PROVE  /\ OwnLine(taken', Len(taken) + 1) /\ taken'[Len(taken) + 1] = p
                        /\ Len(taken) + 1 \in DOMAIN taken'
      OBVIOUS
    <3> DEFINE j == Len(taken) + 1
    <3>1. j \in DOMAIN taken' /\ taken'[j] = p /\ j < Len(taken') /\ IsNewline(taken'[j + 1])
      <4>1. taken'[Len(taken) + 1] = p
        BY <2>3, <2>8 DEF p
      <4>2. taken'[Len(taken) + 2] = buffer[2]
        BY <2>3, <2>8
      <4>3. Len(taken) + 1 + 1 = Len(taken) + 2
        BY <2>8
      <4> QED BY <2>3, <2>8, <4>1, <4>2, <4>3
    <3>2. j = 1 \/ IsNewline(taken'[j - 1])
      <4>1. taken = <<>> \/ IsNewline(taken[Len(taken)])
        BY DEF IInv, WholeLines
      <4>2. CASE taken = <<>>
        BY <4>2
      <4>3. CASE taken # <<>> /\ IsNewline(taken[Len(taken)])
        <5>1. Len(taken) \in 1..Len(taken) /\ j - 1 = Len(taken)
          BY <4>3, <1>a
        <5>2. taken'[j - 1] = taken[Len(taken)]
          BY <5>1, <2>8
        <5> QED BY <4>3, <5>2
      <4> QED BY <4>1, <4>2, <4>3
    <3>3. ~IsNewline(taken'[j])
      BY <2>3, <3>1
    <3>4. OwnLine(taken', j)
      BY <3>1, <3>2, <3>3 DEF OwnLine
    <3> QED BY <3>1, <3>4
  <2>19. IsJson(line) => LineIn(taken', p.n)
    BY <2>12, Zenon DEF LineIn
  <2>13. /\ published' \in Seq(Publication)
         /\ \A i \in DOMAIN published' :
              \/ i \in DOMAIN published /\ published'[i] = published[i]
              \/ /\ IsJson(line) /\ i \notin DOMAIN published
                 /\ published'[i].n = p.n
                 /\ published'[i].type = "velocity" => published'[i].altitude \in seen'
         /\ \A i, j \in DOMAIN published' : i < j /\ j \in DOMAIN published => i \in DOMAIN published
         /\ \A i, j \in DOMAIN published' : i \notin DOMAIN published /\ j \notin DOMAIN published => i = j
    <3>1. CASE published' = published
      BY <3>1, <1>a
    <3>2. CASE IsJson(line) /\ \E a \in Nat : Publishes(p, a)
      <4>1. PICK a \in Nat : Publishes(p, a)
        BY <3>2
      <4> DEFINE m == [n |-> p.n, type |-> p.text.type, altitude |-> a]
      <4>2. /\ published' = Append(published, m) /\ m \in Publication /\ m.n = p.n
            /\ m.type = "velocity" => m.altitude \in seen'
        BY <3>2, <4>1, <2>11 DEF Publishes, Publication
      <4> HIDE DEF m
      <4>3. /\ published' \in Seq(Publication)
            /\ DOMAIN published = 1..Len(published) /\ Len(published) \in Nat
            /\ DOMAIN published' = 1..Len(published) + 1
            /\ \A i \in 1..Len(published) : published'[i] = published[i]
            /\ published'[Len(published) + 1] = m
        BY <4>2, <1>a
      <4>4. \A i \in 1..Len(published) + 1 : i \in 1..Len(published) \/ i = Len(published) + 1
        BY <4>3
      <4> QED BY <3>2, <4>2, <4>3, <4>4
    <3> QED BY <3>1, <3>2, <2>e
  <2>14. TypeOK'
    BY <1>a, <1>2, <1>3, <2>4, <2>e, <2>13 DEF IInv, TypeOK, Publication
  <2>15. Numbered'
    <3>1. Follows(Stream', published')
      BY <2>6, <2>11, <2>13 DEF Follows
    <3>2. Ascending'
      <4> SUFFICES ASSUME NEW i \in DOMAIN published', NEW j \in DOMAIN published', i < j
                   PROVE  published'[i].n < published'[j].n
        BY DEF Ascending
      <4>1. i \in Int /\ j \in Int
        BY <2>13
      <4> QED BY <4>1, <2>11, <2>13, <1>4 DEF Ascending
    <3>3. PublishedBelow'
      BY <1>4, <1>a, <2>11, <2>13 DEF PublishedBelow
    <3> QED BY <3>1, <3>2, <3>3, <2>6, <1>a DEF Numbered
  <2>16. WholeLines'
    <3>1. IsNewline(taken'[Len(taken')])
      BY <2>2, <2>8
    <3>2. \A m : LineIn(taken, m) => LineIn(taken', m)
      BY <1>a, <2>4, LineStays
    <3>3. \A i \in DOMAIN published' : LineIn(taken', published'[i].n)
      BY <3>2, <2>19, <2>13 DEF IInv, WholeLines
    <3> QED BY <3>1, <3>3 DEF WholeLines, LineIn, OwnLine, IsNewline
  <2>17. DiesOfUnusableLineOnly'
    <3>0. n \in Nat /\ 1 <= n /\ Len(taken) \in Nat
      BY <1>2, <2>2, <2>8
    <3>1. /\ pc = "spinning"
          /\ \A q \in DOMAIN taken : ~(OwnLine(taken, q) /\ Unusable(taken[q].text))
      BY DEF Receive, IInv, DiesOfUnusableLineOnly
    <3>2. ASSUME NEW q \in DOMAIN taken', OwnLine(taken', q), Unusable(taken'[q].text)
          PROVE  q = Len(taken) + 1 /\ IsJson(line)
      <4>1. CASE q \in 1..Len(taken)
        <5>1. q # Len(taken)
          <6>1. taken # <<>>
            BY <4>1, <2>8
          <6> QED BY <3>2, <4>1, <6>1, <2>8 DEF IInv, WholeLines, OwnLine, IsNewline
        <5>2. /\ q + 1 \in 1..Len(taken)
              /\ q - 1 \in 1..Len(taken) \/ q = 1
              /\ Len(taken) < Len(taken') /\ q \in DOMAIN taken
          BY <4>1, <5>1, <2>2, <2>8, <1>a
        <5>3. OwnLine(taken, q) /\ taken'[q] = taken[q]
          BY <3>2, <4>1, <5>1, <5>2, <2>8 DEF OwnLine, IsNewline
        <5> QED BY <3>1, <3>2, <5>2, <5>3
      <4>2. CASE q = Len(taken) + 1
        <5>1. q + 1 \in DOMAIN taken' /\ IsNewline(taken'[q + 1]) /\ ~IsNewline(taken'[q])
          BY <3>2, <4>2, <2>8 DEF OwnLine
        <5>2. n >= 2 /\ IsNewline(buffer[2]) /\ taken'[q] = buffer[1]
          BY <4>2, <5>1, <2>2, <2>8 DEF IsNewline
        <5>3. n = 2
          BY <5>2, <2>1, <2>2 DEF CutsAt
        <5>4. Len(line) = 1 /\ line[1] = buffer[1]
          BY <5>3, <1>2, <2>2 DEF line, Before
        <5> QED BY <3>2, <4>2, <5>2, <5>4 DEF IsJson, Unusable
      <4>3. CASE q \in Len(taken) + 2..Len(taken) + n
        <5>1. PICK i \in 1..n : q = Len(taken) + i /\ 1 < i
          <6>1. q - Len(taken) \in 1..n /\ q = Len(taken) + (q - Len(taken)) /\ 1 < q - Len(taken)
            BY <3>0, <4>3
          <6> QED BY <6>1
        <5>2. i - 1 \in 1..n - 1 /\ q - 1 = Len(taken) + (i - 1) /\ q # 1 /\ i - 1 \in 1..n
          BY <3>0, <5>1
        <5>3. IsNewline(taken'[q - 1])
          BY <3>2, <5>2 DEF OwnLine
        <5>4. taken'[q - 1] = buffer[i - 1]
          BY <5>2, <2>8
        <5>5. ~IsNewline(buffer[i - 1])
          BY <5>2, <2>1 DEF CutsAt
        <5> QED BY <5>3, <5>4, <5>5 DEF IsNewline
      <4>4. q \in 1..Len(taken) \/ q = Len(taken) + 1 \/ q \in Len(taken) + 2..Len(taken) + n
        BY <3>0, <2>8
      <4> QED BY <4>1, <4>2, <4>3, <4>4
    <3>3. CASE IsJson(line) /\ Unusable(p.text)
      <4>1. OwnLine(taken', Len(taken) + 1) /\ taken'[Len(taken) + 1] = p /\ Len(taken) + 1 \in DOMAIN taken'
        BY <3>3, <2>12
      <4>2. Len(taken') - 1 = Len(taken) + 1
        BY <3>3, <2>3, <2>8
      <4> DEFINE one == Len(taken) + 1
                 fatal == {q \in DOMAIN taken' : OwnLine(taken', q) /\ Unusable(taken'[q].text)}
      <4>3. one \in fatal /\ \A q \in fatal : q = one
        BY <3>2, <3>3, <4>1
      <4> HIDE DEF fatal, one
      <4>4. fatal = {one}
        BY <4>3
      <4> QED BY <2>e, <3>3, <4>2, <4>4 DEF fatal, one, DiesOfUnusableLineOnly, OwnLine, IsNewline
    <3>4. CASE ~(IsJson(line) /\ Unusable(p.text))
      <4>1. \A q \in DOMAIN taken' : ~(OwnLine(taken', q) /\ Unusable(taken'[q].text))
        BY <3>2, <3>4, <2>8, <2>2 DEF p
      <4> QED BY <2>e, <3>4, <4>1 DEF DiesOfUnusableLineOnly, OwnLine, IsNewline
    <3> QED BY <3>3, <3>4
  <2>18. Measured' /\ AltitudeWasValid'
    <3>1. AltitudeWasValid'
      BY <2>e, <2>13 DEF IInv, AltitudeWasValid
    <3> QED BY <3>1, <2>e DEF Measured
  <2> QED BY <2>10, <2>14, <2>15, <2>16, <2>17, <2>18 DEF IInv
<1> QED BY <1>1, <1>5, <1>6

(* The parts together are inductive.                                       *)
LEMMA Invariance == Spec => []IInv
<1>1. IInv /\ [Next]_vars => IInv'
  <2> SUFFICES ASSUME IInv, [Next]_vars PROVE IInv'
    OBVIOUS
  <2>a. /\ connects \in 0..MaxConnects /\ peer \in {"open", "closed"} /\ MaxConnects \in Nat
        /\ pc \in {"connecting", "spinning", "dead"}
    BY BoundsAssumption DEF IInv, TypeOK
  <2>1. CASE Connect
    <3>1. connects' \in 0..MaxConnects
      BY <2>1, <2>a DEF Connect
    <3> QED BY <2>1, <3>1, QuietKeeps DEF Connect, publishVars
  <2>2. CASE Reconnect BY <2>2, <2>a, QuietKeeps DEF Reconnect, publishVars, sensorVars
  <2>3. CASE SensorCloses BY <2>3, <2>a, QuietKeeps DEF SensorCloses, publishVars, sensorVars
  <2>4. CASE UNCHANGED vars BY <2>4, <2>a, QuietKeeps DEF vars
  <2>5. CASE Receive BY <2>5, ReceiveKeeps
  <2>6. CASE SensorSendsText \/ SensorEndsLine BY <2>6, SendingKeeps
  <2> QED BY <2>1, <2>2, <2>3, <2>4, <2>5, <2>6 DEF Next, Driver, Sensor
<1> QED BY InitHolds, <1>1, PTL DEF Spec

-----------------------------------------------------------------------------
(* The node keeps its types, for any reports the sensor may send.          *)
THEOREM TypeCorrect == Spec => []TypeOK
BY Invariance, PTL DEF IInv

(* Nothing received is lost, repeated or reordered, however it is cut into *)
(* chunks and whenever a connection ends.                                  *)
THEOREM NoLineIsLost == Spec => []LinesConserved
BY Invariance, PTL DEF IInv

(* What is published comes in the order sent, and only from whole lines.   *)
THEOREM PublicationIsInOrder == Spec => []PublishedInOrder
<1>1. IInv => PublishedInOrder
  BY DEF IInv, Numbered, Ascending, WholeLines, LineIn, OwnLine, PublishedInOrder
<1> QED BY <1>1, Invariance, PTL

(* The node dies of the first line of its own that is JSON and that        *)
(* publish_data cannot use, and of nothing else, however the stream is cut *)
(* into chunks and connections.                                            *)
THEOREM OnlyUnusableLinesKill == Spec => []DiesOfUnusableLineOnly
BY Invariance, PTL DEF IInv

(* Every altitude published was measured with a valid velocity.            *)
THEOREM AltitudesWereValid == Spec => []AltitudeWasValid
BY Invariance, PTL DEF IInv
=============================================================================
