--------------------------- MODULE DvlSensor_proofs ---------------------------
(***************************************************************************)
(* Proofs about DvlSensor, for every MaxLine, every queue depth, every     *)
(* sensor and every interleaving: type correctness; the texts given to     *)
(* json::parse are lines of the stream; a refused command is not answered; *)
(* the node implements LineChannel; and the safety halves of the three     *)
(* liveness properties: newest commands, queries and unread bytes are kept.*)
(***************************************************************************)
EXTENDS DvlSensor, TLAPS

Tokens == {DataByte} \cup Contents
WireLine == [id : Nat, command : Commands,
             name : Parameters \cup {"invalid_param", "none"}, value : Values]
Message == [id : Nat, msg : Requests]
Report == [topic : Topics, nl : Nat, id : Nat]
Parsed == [text : Seq(Nat), nl : Nat]

StreamType ==
  /\ stream \in Seq(Tokens)
  /\ pos \in 0..Len(stream)

\* What the buffer holds between any two steps.
BufferFramed ==
  /\ receive_buffer \in Seq(Nat)
  /\ Len(receive_buffer) <= MaxLine
  /\ Framed(stream, receive_buffer, pos)

ParsedType ==
  /\ parsed \in Seq(Parsed)
  /\ \A i \in DOMAIN parsed : parsed[i].nl \in 1..Len(stream)

\* The inductive invariant.
Inv == StreamType /\ BufferFramed /\ ParsedType /\ LinesIntact

-----------------------------------------------------------------------------
(* Appending leaves the elements there were as they were.                  *)
LEMMA AppendKeeps ==
  ASSUME NEW S, NEW s \in Seq(S), NEW e \in S
  PROVE  /\ Append(s, e) \in Seq(S)
         /\ Len(Append(s, e)) = Len(s) + 1
         /\ \A j \in 1..Len(s) : Append(s, e)[j] = s[j]
         /\ Append(s, e)[Len(s) + 1] = e
  OBVIOUS

(* A text framed in the stream is framed in every stream that extends it.  *)
LEMMA FramedSurvives ==
  ASSUME NEW s \in Seq(Tokens), NEW r \in Seq(Tokens),
         Len(r) >= Len(s), \A j \in 1..Len(s) : r[j] = s[j],
         NEW last \in 0..Len(s), NEW text \in Seq(Nat),
         Framed(s, text, last)
  PROVE  Framed(r, text, last)
<1> DEFINE first == last - Len(text)
<1>1. Len(text) \in Nat /\ first \in 0..Len(s) /\ MaxLine \in Nat /\ Len(s) \in Nat
  BY BoundsAssumption DEF Framed
<1>2. Data(r, first + 1, last)
  <2>1. Data(s, first + 1, last)
    BY DEF Framed
  <2>2. \A j \in first + 1 .. last : j \in 1..Len(s)
    BY <1>1
  <2> QED BY <2>1, <2>2 DEF Data
<1>3. Starts(r, first)
  <2>1. CASE first = 0
    BY <2>1 DEF Starts
  <2>2. CASE first # 0 /\ s[first] # DataByte
    <3>1. first \in 1..Len(s)
      BY <2>2, <1>1
    <3>2. r[first] = s[first]
      BY <3>1
    <3> QED BY <2>2, <3>2 DEF Starts
  <2>3. CASE first > MaxLine /\ Data(s, first - MaxLine, first)
    <3>1. \A j \in first - MaxLine .. first : j \in 1..Len(s)
      BY <2>3, <1>1
    <3> QED BY <2>3, <3>1 DEF Starts, Data
  <2> QED BY <2>1, <2>2, <2>3 DEF Framed, Starts
<1> QED BY <1>2, <1>3 DEF Framed

(* A parsed text has the type the history gives it.                        *)
LEMMA ParsedElement ==
  ASSUME NEW h \in Seq(Parsed), NEW i \in DOMAIN h
  PROVE  h[i].text \in Seq(Nat) /\ h[i].nl \in Nat
<1>1. h[i] \in Parsed
  OBVIOUS
<1> QED BY <1>1 DEF Parsed

(* The sensor sending a token does not disturb what has been read.         *)
LEMMA SendingKeepsInv ==
  ASSUME Inv, NEW t \in Tokens, stream' = Append(stream, t), UNCHANGED readVars
  PROVE  Inv'
<1>1. /\ stream' \in Seq(Tokens)
      /\ Len(stream') = Len(stream) + 1
      /\ \A j \in 1..Len(stream) : stream'[j] = stream[j]
  BY AppendKeeps DEF Inv, StreamType
<1>2. /\ stream \in Seq(Tokens) /\ Len(stream) \in Nat /\ pos \in 0..Len(stream)
      /\ pos' = pos /\ receive_buffer' = receive_buffer /\ parsed' = parsed
  BY DEF Inv, StreamType, readVars
<1>3. StreamType'
  BY <1>1, <1>2 DEF StreamType
<1>g. ASSUME NEW text \in Seq(Nat), NEW last \in 0..Len(stream),
             Framed(stream, text, last)
      PROVE  Framed(stream', text, last)
  <2>1. Len(stream') >= Len(stream)
    BY <1>1, <1>2
  <2> QED BY <2>1, <1>1, <1>2, <1>g, FramedSurvives
<1>4. BufferFramed'
  <2>1. Framed(stream', receive_buffer, pos)
    BY <1>2, <1>g DEF Inv, BufferFramed
  <2> QED BY <1>2, <2>1 DEF Inv, BufferFramed
<1>5. ParsedType'
  BY <1>1, <1>2 DEF Inv, ParsedType
<1>6. LinesIntact'
  <2>1. SUFFICES ASSUME NEW i \in DOMAIN parsed
                 PROVE  /\ Len(parsed[i].text) \in 1..MaxLine
                        /\ Framed(stream', parsed[i].text, parsed[i].nl - 1)
    BY <1>2 DEF LinesIntact
  <2>2. /\ Len(parsed[i].text) \in 1..MaxLine
        /\ Framed(stream, parsed[i].text, parsed[i].nl - 1)
    BY DEF Inv, LinesIntact
  <2>3. parsed[i].text \in Seq(Nat) /\ parsed[i].nl - 1 \in 0..Len(stream)
    BY <1>2, ParsedElement DEF Inv, ParsedType
  <2>4. Framed(stream', parsed[i].text, parsed[i].nl - 1)
    BY <2>2, <2>3, <1>g
  <2> QED BY <2>2, <2>4
<1> QED BY <1>3, <1>4, <1>5, <1>6 DEF Inv

(* Reading a byte of a line.                                               *)
LEMMA ReadByteKeepsInv ==
  ASSUME Inv, ReadByte
  PROVE  Inv'
<1> DEFINE L == Len(receive_buffer)
<1>1. MaxLine \in Nat \ {0}
  BY BoundsAssumption
<1>2. /\ L \in Nat /\ L <= MaxLine /\ L <= pos /\ pos \in Nat
      /\ pos' = pos + 1 /\ pos' \in 1..Len(stream) /\ stream' = stream
      /\ stream[pos + 1] = DataByte /\ parsed' = parsed
      /\ receive_buffer' = Buffer(receive_buffer, pos + 1)
  BY DEF Inv, StreamType, BufferFramed, Framed, ReadByte, sensorVars
<1>3. StreamType'
  BY <1>2 DEF Inv, StreamType
<1>4. ParsedType' /\ LinesIntact'
  BY <1>2 DEF Inv, ParsedType, LinesIntact
<1>5. Data(stream, pos - L + 1, pos + 1)
  BY <1>2 DEF Inv, BufferFramed, Framed, Data
<1>6. CASE L + 1 > MaxLine
  <2>1. receive_buffer' = <<>>
    BY <1>2, <1>6 DEF Buffer
  <2>2. Data(stream, pos + 1 - MaxLine, pos + 1)
    BY <1>1, <1>2, <1>5, <1>6 DEF Data
  <2>3. Starts(stream, pos + 1)
    BY <2>2, <1>1, <1>2, <1>6 DEF Starts
  <2>4. Framed(stream, <<>>, pos + 1)
    BY <2>3, <1>2 DEF Framed, Data
  <2>5. BufferFramed'
    BY <2>1, <2>4, <1>1, <1>2 DEF BufferFramed
  <2> QED BY <2>5, <1>3, <1>4 DEF Inv
<1>7. CASE ~(L + 1 > MaxLine)
  <2> DEFINE new == Append(receive_buffer, pos + 1)
  <2>1. receive_buffer' = new
    BY <1>2, <1>7 DEF Buffer
  <2>2. /\ new \in Seq(Nat)
        /\ Len(new) = L + 1
        /\ \A j \in 1..L : new[j] = receive_buffer[j]
        /\ new[L + 1] = pos + 1
    BY <1>2, AppendKeeps DEF Inv, BufferFramed
  <2>3. \A k \in 1..L + 1 : new[k] = pos + 1 - (L + 1) + k
    BY <2>2, <1>2 DEF Inv, BufferFramed, Framed
  <2>4. pos + 1 - (L + 1) = pos - L
    BY <1>2
  <2>5. Starts(stream, pos - L)
    BY DEF Inv, BufferFramed, Framed
  <2>6. Framed(stream, new, pos + 1)
    BY <2>2, <2>3, <2>4, <2>5, <1>2, <1>5 DEF Framed
  <2>7. BufferFramed'
    BY <2>1, <2>2, <2>6, <1>1, <1>2, <1>7 DEF BufferFramed
  <2> QED BY <2>7, <1>3, <1>4 DEF Inv
<1> QED BY <1>6, <1>7

(* Reading a newline hands over what the buffer holds.                     *)
LEMMA ReadNewlineKeepsInv ==
  ASSUME Inv, ReadNewline
  PROVE  Inv'
<1> DEFINE n == pos + 1
<1>1. MaxLine \in Nat \ {0}
  BY BoundsAssumption
<1>2. /\ pos \in Nat /\ pos' = n /\ n \in 1..Len(stream) /\ stream' = stream
      /\ stream[n] # DataByte /\ receive_buffer' = <<>>
      /\ IF receive_buffer = <<>> THEN parsed' = parsed
         ELSE parsed' = Append(parsed, [text |-> receive_buffer, nl |-> n])
  BY DEF Inv, StreamType, ReadNewline, sensorVars
<1>3. StreamType'
  BY <1>2 DEF Inv, StreamType
<1>4. BufferFramed'
  <2>1. Framed(stream, <<>>, n)
    BY <1>2 DEF Framed, Data, Starts
  <2> QED BY <2>1, <1>1, <1>2 DEF BufferFramed
<1>5. CASE receive_buffer = <<>>
  <2>1. parsed' = parsed
    BY <1>2, <1>5
  <2>2. ParsedType' /\ LinesIntact'
    BY <2>1, <1>2 DEF Inv, ParsedType, LinesIntact
  <2> QED BY <2>2, <1>3, <1>4 DEF Inv
<1>6. CASE receive_buffer # <<>>
  <2> DEFINE new == [text |-> receive_buffer, nl |-> n]
  <2>1. new \in Parsed
    BY <1>2 DEF Inv, BufferFramed, Parsed
  <2>2. parsed' = Append(parsed, new) /\ parsed \in Seq(Parsed)
    BY <1>2, <1>6 DEF Inv, ParsedType
  <2>3. /\ parsed' \in Seq(Parsed)
        /\ DOMAIN parsed' = 1..Len(parsed) + 1
        /\ DOMAIN parsed = 1..Len(parsed)
        /\ \A j \in 1..Len(parsed) : parsed'[j] = parsed[j]
        /\ parsed'[Len(parsed) + 1] = new
    BY <2>1, <2>2, AppendKeeps
  <2>4. \A i \in DOMAIN parsed' : i \in DOMAIN parsed \/ i = Len(parsed) + 1
    BY <2>2, <2>3
  <2>5. ParsedType'
    <3>1. \A i \in DOMAIN parsed' : parsed'[i].nl \in 1..Len(stream)
      BY <2>3, <2>4, <1>2 DEF Inv, ParsedType
    <3> QED BY <3>1, <2>3, <1>2 DEF ParsedType
  <2>6. LinesIntact'
    <3>1. Len(receive_buffer) \in 1..MaxLine /\ n - 1 = pos
      BY <1>1, <1>2, <1>6 DEF Inv, BufferFramed
    <3>2. Framed(stream, new.text, new.nl - 1)
      BY <3>1 DEF Inv, BufferFramed
    <3>3. \A i \in DOMAIN parsed' :
            /\ Len(parsed'[i].text) \in 1..MaxLine
            /\ Framed(stream, parsed'[i].text, parsed'[i].nl - 1)
      BY <2>3, <2>4, <3>1, <3>2 DEF Inv, LinesIntact
    <3> QED BY <3>3, <1>2 DEF LinesIntact
  <2> QED BY <2>5, <2>6, <1>3, <1>4 DEF Inv
<1> QED BY <1>5, <1>6

-----------------------------------------------------------------------------
(* Type correctness.                                                       *)

(* A line of the right type leaves the wire with the right type.           *)
LEMMA SendType ==
  ASSUME TypeOK, NEW line \in WireLine, NEW ok, Send(line, ok)
  PROVE  /\ onWire' \in Seq(WireLine)
         /\ Len(onWire') >= Len(onWire)
<1>1. onWire \in Seq(WireLine)
  BY DEF TypeOK, WireLine
<1>2. onWire' = onWire \/ onWire' = Append(onWire, line)
  BY DEF Send
<1>3. Len(onWire) \in Nat
  BY <1>1
<1> QED BY <1>1, <1>2, <1>3, AppendKeeps

(* So does whatever set_json_parameter sends.                              *)
LEMMA SetParameterType ==
  ASSUME TypeOK, NEW id \in Nat, NEW name, NEW value \in Values,
         SetParameter(id, name, value)
  PROVE  /\ onWire' \in Seq(WireLine)
         /\ Len(onWire') >= Len(onWire)
<1>1. CASE Encodings(name, value) = {} /\ UNCHANGED onWire
  <2>1. onWire \in Seq(WireLine) /\ onWire' = onWire
    BY <1>1 DEF TypeOK, WireLine
  <2> QED BY <2>1
<1>2. ASSUME NEW v \in Encodings(name, value), NEW ok \in BOOLEAN,
             Send(Line(id, "set_config", resolveParameter(name), v), ok)
      PROVE  /\ onWire' \in Seq(WireLine)
             /\ Len(onWire') >= Len(onWire)
  <2>1. resolveParameter(name) \in Parameters \cup {"invalid_param", "none"}
    BY DEF resolveParameter, Parameters
  <2>2. v \in Values
    BY DEF Encodings, Values
  <2>3. Line(id, "set_config", resolveParameter(name), v) \in WireLine
    BY <2>1, <2>2 DEF Line, WireLine, Commands
  <2> QED BY <2>3, <1>2, SendType
<1> QED BY <1>1, <1>2 DEF SetParameter

(* The same for the commands that carry nothing but their name.            *)
LEMMA PlainLineType ==
  ASSUME NEW id \in Nat, NEW command \in Commands
  PROVE  Line(id, command, "none", "none") \in WireLine
BY DEF Line, WireLine, Values

(* What the middleware holds is a command a client published.              *)
LEMMA HeadType ==
  ASSUME TypeOK, inbox # <<>>
  PROVE  /\ Head(inbox) \in Message
         /\ Head(inbox).id \in Nat
         /\ Head(inbox).msg.value \in Values
         /\ Tail(inbox) \in Seq(Message)
         /\ Len(Tail(inbox)) = Len(inbox) - 1
<1>1. inbox \in Seq(Message)
  BY DEF TypeOK, Message
<1>2. /\ Head(inbox) \in Message
      /\ Tail(inbox) \in Seq(Message)
      /\ Len(Tail(inbox)) = Len(inbox) - 1
  BY <1>1
<1>3. Head(inbox).id \in Nat /\ Head(inbox).msg \in Requests
  BY <1>2 DEF Message
<1>4. Head(inbox).msg.value \in Values
  BY <1>3, RequestsAssumption
<1> QED BY <1>2, <1>3, <1>4

(* The types with the names given above to the sets of records.            *)
LEMMA TypeForms ==
  TypeOK <=>
    /\ stream \in Seq(Tokens)
    /\ pos \in 0..Len(stream)
    /\ receive_buffer \in Seq(Nat)
    /\ conn \in {"none", "open", "closed", "reset"}
    /\ fault \in {0, -1, -10}
    /\ pc \in {"startAcoustic", "startConfig", "idle", "receiving", "stopped"}
    /\ inbox \in Seq(Message)
    /\ Len(inbox) <= QueueDepth
    /\ nextId \in 1..MaxRequests + 1
    /\ onWire \in Seq(WireLine)
    /\ served \in 0..Len(onWire)
    /\ refused \subseteq Nat
    /\ taken \subseteq Message
    /\ parsed \in Seq(Parsed)
    /\ published \in Seq(Report)
BY DEF TypeOK, Tokens, Message, WireLine, Parsed, Report

(* The initial states are well typed.                                      *)
LEMMA TypeInit == Init => TypeOK
<1> SUFFICES ASSUME Init PROVE TypeOK
  OBVIOUS
<1>1. 1 \in 1..MaxRequests + 1 /\ 0 <= QueueDepth
  BY BoundsAssumption
<1> QED BY <1>1 DEF Init, TypeOK

(* A full inbox loses a command and none of its shape.                     *)
LEMMA EnqueueType ==
  ASSUME NEW q \in Seq(Message), Len(q) <= QueueDepth, NEW m \in Message
  PROVE  Enqueue(q, m) \in Seq(Message) /\ Len(Enqueue(q, m)) <= QueueDepth
<1>1. QueueDepth \in Nat \ {0} /\ Len(q) \in Nat
  BY BoundsAssumption
<1>2. CASE Len(q) = QueueDepth
  <2>1. q # <<>>
    BY <1>1, <1>2
  <2>2. Tail(q) \in Seq(Message) /\ Len(Tail(q)) = Len(q) - 1
    BY <2>1
  <2>3. Append(Tail(q), m) \in Seq(Message) /\ Len(Append(Tail(q), m)) = Len(Tail(q)) + 1
    BY <2>2, AppendKeeps
  <2> QED BY <2>2, <2>3, <1>1, <1>2 DEF Enqueue
<1>3. CASE Len(q) # QueueDepth
  <2>1. Append(q, m) \in Seq(Message) /\ Len(Append(q, m)) = Len(q) + 1
    BY AppendKeeps
  <2> QED BY <2>1, <1>1, <1>3 DEF Enqueue
<1> QED BY <1>2, <1>3

(* The newline of an answer is well formed and says whose answer it is.    *)
LEMMA AnswerType ==
  ASSUME TypeOK, SensorAnswers
  PROVE  \E t \in Contents :
           stream' = Append(stream, t) /\ t.id = onWire[served + 1].id
<1>1. served + 1 \in 1..Len(onWire) /\ onWire \in Seq(WireLine)
  BY TypeForms DEF SensorAnswers, Outstanding
<1>2. onWire[served + 1] \in WireLine
  BY <1>1
<1>3. onWire[served + 1].command \in Commands /\ onWire[served + 1].id \in Nat
  BY <1>2 DEF WireLine
<1>4. PICK success \in BOOLEAN :
        stream' = Append(stream,
          [type |-> "response",
           response_to |-> onWire[served + 1].command,
           complete |-> success \/ onWire[served + 1].command # "get_config",
           id |-> onWire[served + 1].id])
  BY DEF SensorAnswers
<1> DEFINE complete == success \/ onWire[served + 1].command # "get_config"
<1>5. complete \in BOOLEAN
  OBVIOUS
<1>6. ASSUME NEW b \in BOOLEAN
      PROVE  [type |-> "response", response_to |-> onWire[served + 1].command,
              complete |-> b, id |-> onWire[served + 1].id] \in Contents
  BY <1>3 DEF Contents
<1> HIDE DEF complete
<1> DEFINE answer == [type |-> "response", response_to |-> onWire[served + 1].command,
                      complete |-> complete, id |-> onWire[served + 1].id]
<1>7. answer \in Contents /\ answer.id = onWire[served + 1].id
  BY <1>5, <1>6
<1>8. stream' = Append(stream, answer)
  BY <1>4 DEF complete
<1> QED BY <1>7, <1>8

(* Every step of the sensor appends one token.                             *)
LEMMA SensorAppends ==
  ASSUME TypeOK, Sensor
  PROVE  \E t \in Tokens : stream' = Append(stream, t)
<1>1. CASE SensorSendsByte
  BY <1>1 DEF SensorSendsByte, Tokens
<1>2. CASE SensorReports
  BY <1>2, TelemetryAssumption DEF SensorReports, Tokens
<1>3. CASE SensorSendsBlank
  <2>1. [type |-> "other", response_to |-> "none", complete |-> FALSE, id |-> 0] \in Tokens
    BY DEF Tokens, Contents
  <2> QED BY <2>1, <1>3 DEF SensorSendsBlank
<1>4. CASE SensorAnswers
  BY <1>4, AnswerType DEF Tokens
<1> QED BY <1>1, <1>2, <1>3, <1>4 DEF Sensor

(* What a line is published as is a report.                                *)
LEMMA ParseType ==
  ASSUME TypeOK, NEW text, NEW n \in 1..Len(stream), stream[n] # DataByte,
         Parse(text, n)
  PROVE  published' \in Seq(Report)
<1>1. published \in Seq(Report) /\ stream \in Seq(Tokens)
  BY TypeForms
<1>2. stream[n] \in Contents
  BY <1>1 DEF Tokens
<1>3. stream[n].id \in Nat /\ stream[n].complete \in BOOLEAN
      /\ stream[n].type \in {"velocity", "velocity_water", "position_local", "response", "other"}
  BY <1>2 DEF Contents
<1>4. CASE published' = published
  BY <1>1, <1>4
<1>5. CASE published' # published
  <2>1. Topic(stream[n]) # "none"
        /\ published' = Append(published,
             [topic |-> Topic(stream[n]), nl |-> n, id |-> stream[n].id])
    BY <1>5 DEF Parse
  <2>2. Topic(stream[n]) \in Topics
    BY <1>3, <2>1 DEF Topic, Topics
  <2>3. [topic |-> Topic(stream[n]), nl |-> n, id |-> stream[n].id] \in Report
    BY <1>3, <2>2 DEF Report
  <2> QED BY <1>1, <2>1, <2>3, AppendKeeps
<1> QED BY <1>4, <1>5

(* Every step keeps the types.                                             *)
LEMMA TypeStep == TypeOK /\ [Next]_vars => TypeOK'
<1> SUFFICES ASSUME TypeOK, [Next]_vars PROVE TypeOK'
  OBVIOUS
<1>t. /\ stream \in Seq(Tokens) /\ Len(stream) \in Nat
      /\ pos \in 0..Len(stream) /\ receive_buffer \in Seq(Nat)
      /\ onWire \in Seq(WireLine) /\ Len(onWire) \in Nat /\ served \in 0..Len(onWire)
      /\ inbox \in Seq(Message) /\ Len(inbox) <= QueueDepth
      /\ parsed \in Seq(Parsed) /\ published \in Seq(Report)
      /\ refused \subseteq Nat /\ taken \subseteq Message
  BY TypeForms
<1>w. ASSUME onWire' \in Seq(WireLine), Len(onWire') >= Len(onWire), served' = served
      PROVE  served' \in 0..Len(onWire')
  BY <1>t, <1>w
<1>1. CASE StartAcoustic
  <2>1. onWire' \in Seq(WireLine) /\ Len(onWire') >= Len(onWire)
    <3>1. CASE ConfigureAcoustic
      <4>1. AcousticEnabled \in Values
        BY StartupAssumption DEF Values
      <4> QED BY <1>1, <3>1, <4>1, SetParameterType DEF StartAcoustic
    <3>2. CASE ~ConfigureAcoustic
      BY <1>1, <1>t, <3>2 DEF StartAcoustic
    <3> QED BY <3>1, <3>2
  <2> QED BY <1>1, <1>w, <2>1, TypeForms DEF TypeOK, WireLine, StartAcoustic, sensorVars, readVars
<1>2. CASE StartConfig
  <2>1. onWire' \in Seq(WireLine) /\ Len(onWire') >= Len(onWire)
    <3>1. CASE RequestConfig
      <4>1. Line(0, "get_config", "none", "none") \in WireLine
        BY PlainLineType DEF Commands
      <4> QED BY <1>2, <3>1, <4>1, SendType DEF StartConfig
    <3>2. CASE ~RequestConfig
      BY <1>2, <1>t, <3>2 DEF StartConfig
    <3> QED BY <3>1, <3>2
  <2> QED BY <1>2, <1>w, <2>1, TypeForms DEF TypeOK, WireLine, StartConfig, sensorVars, readVars
<1>3. CASE ClientPublishes
  <2>1. PICK m \in Requests : inbox' = Enqueue(inbox, [id |-> nextId, msg |-> m])
    BY <1>3 DEF ClientPublishes
  <2>2. [id |-> nextId, msg |-> m] \in Message
    BY DEF TypeOK, Message
  <2>3. inbox' \in Seq(Message) /\ Len(inbox') <= QueueDepth
    BY <1>t, <2>1, <2>2, EnqueueType
  <2>4. nextId' \in 1..MaxRequests + 1
    BY <1>3, BoundsAssumption DEF ClientPublishes, TypeOK
  <2> QED BY <1>3, <2>3, <2>4 DEF TypeOK, Message, ClientPublishes, sensorVars, readVars
<1>4. CASE TakeCommand
  <2> DEFINE c == Head(inbox)
  <2>1. /\ c \in Message /\ c.id \in Nat /\ c.msg.value \in Values
        /\ Tail(inbox) \in Seq(Message) /\ Len(Tail(inbox)) = Len(inbox) - 1
    BY <1>4, HeadType DEF TakeCommand
  <2>2. Command(c)
    BY <1>4 DEF TakeCommand
  <2> HIDE DEF c
  <2>3. /\ onWire' \in Seq(WireLine) /\ Len(onWire') >= Len(onWire)
        /\ refused' \subseteq Nat
    <3>1. CASE c.msg.command = "set_config"
      <4>1. SetParameter(c.id, c.msg.name, c.msg.value)
        BY <2>2, <3>1 DEF Command, Commands
      <4>2. refused' = refused
        BY <2>2, <3>1 DEF Command, Commands
      <4>3. onWire' \in Seq(WireLine) /\ Len(onWire') >= Len(onWire)
        BY <4>1, <2>1, SetParameterType
      <4> QED BY <4>2, <4>3, <1>t
    <3>2. CASE c.msg.command \in Commands \ {"set_config"}
      <4>1. PICK ok \in BOOLEAN :
              /\ Send(Line(c.id, c.msg.command, "none", "none"), ok)
              /\ refused' = IF ok THEN refused ELSE refused \cup {c.id}
        BY <2>2, <3>2 DEF Command
      <4>2. Line(c.id, c.msg.command, "none", "none") \in WireLine
        BY <2>1, <3>2, PlainLineType
      <4>3. onWire' \in Seq(WireLine) /\ Len(onWire') >= Len(onWire)
        BY <4>1, <4>2, SendType
      <4> QED BY <4>1, <4>3, <2>1, <1>t
    <3>3. CASE c.msg.command \notin Commands
      <4>1. onWire' = onWire /\ refused' = refused
        BY <2>2, <3>3 DEF Command, Commands
      <4> QED BY <4>1, <1>t
    <3> QED BY <3>1, <3>2, <3>3
  <2>4. inbox' \in Seq(Message) /\ Len(inbox') <= QueueDepth
    BY <1>4, <2>1, <1>t, BoundsAssumption DEF TakeCommand
  <2>5. taken' \subseteq Message
    BY <1>4, <2>1, <1>t DEF TakeCommand, c
  <2> QED BY <1>4, <1>w, <2>3, <2>4, <2>5
      DEF TypeOK, Message, WireLine, TakeCommand, sensorVars, readVars
<1>5. CASE TimerFires
  BY <1>5 DEF TypeOK, TimerFires, sensorVars, readVars, commandVars
<1>6. CASE ReadByte
  <2>1. pos' \in 0..Len(stream') /\ pos + 1 \in Nat
    BY <1>6, <1>t DEF ReadByte, sensorVars
  <2>2. receive_buffer' \in Seq(Nat)
    <3> DEFINE longer == Append(receive_buffer, pos + 1)
    <3>1. longer \in Seq(Nat)
      BY <1>t, <2>1, AppendKeeps
    <3>2. receive_buffer' = <<>> \/ receive_buffer' = longer
      BY <1>6 DEF ReadByte, Buffer
    <3> HIDE DEF longer
    <3>3. <<>> \in Seq(Nat)
      OBVIOUS
    <3> QED BY <3>1, <3>2, <3>3
  <2> QED BY <1>6, <2>1, <2>2 DEF TypeOK, ReadByte, sensorVars, commandVars
<1>7. CASE ReadNewline
  <2> DEFINE n == pos + 1
  <2>1. n \in 1..Len(stream) /\ stream[n] # DataByte /\ n \in Nat
    BY <1>7, <1>t DEF ReadNewline
  <2>2. parsed' \in Seq(Parsed)
    <3>1. [text |-> receive_buffer, nl |-> n] \in Parsed
      BY <2>1, <1>t DEF Parsed
    <3>2. Append(parsed, [text |-> receive_buffer, nl |-> n]) \in Seq(Parsed)
      BY <1>t, <3>1, AppendKeeps
    <3>3. CASE receive_buffer = <<>>
      BY <1>7, <1>t, <3>3 DEF ReadNewline
    <3>4. CASE receive_buffer # <<>>
      BY <1>7, <3>2, <3>4 DEF ReadNewline
    <3> QED BY <3>3, <3>4
  <2>3. published' \in Seq(Report)
    BY <1>7, <1>t, <2>1, ParseType DEF ReadNewline
  <2>4. pos' \in 0..Len(stream') /\ receive_buffer' \in Seq(Nat)
    BY <1>7, <1>t DEF ReadNewline, sensorVars
  <2> QED BY <1>7, <2>2, <2>3, <2>4
      DEF TypeOK, Parsed, Report, ReadNewline, sensorVars, commandVars
<1>8. CASE ReadTimesOut
  BY <1>8 DEF TypeOK, ReadTimesOut, Kept, AfterTimeout, sensorVars, commandVars
<1>9. CASE ReadEnds
  BY <1>9 DEF TypeOK, ReadEnds, sensorVars, readVars, commandVars
<1>10. CASE Sensor
  <2>1. PICK t \in Tokens : stream' = Append(stream, t)
    BY <1>10, SensorAppends
  <2>2. stream' \in Seq(Tokens) /\ Len(stream') = Len(stream) + 1
    BY <2>1, <1>t, AppendKeeps
  <2>3. served' \in 0..Len(onWire)
    BY <1>10, <1>t DEF Sensor, SensorSendsByte, SensorReports, SensorSendsBlank,
                      SensorAnswers, Outstanding
  <2>4. UNCHANGED <<readVars, commandVars, conn, fault, pc, nextId>>
    BY <1>10 DEF Sensor, SensorSendsByte, SensorReports, SensorSendsBlank, SensorAnswers
  <2>5. pos' \in 0..Len(stream')
    BY <2>2, <2>4, <1>t DEF readVars
  <2> QED BY <2>2, <2>3, <2>4, <2>5 DEF TypeOK, Tokens, readVars, commandVars
<1>11. CASE PeerEnds
  BY <1>11 DEF TypeOK, PeerEnds, sensorVars, readVars, commandVars
<1>12. CASE Shutdown
  BY <1>12 DEF TypeOK, Shutdown, sensorVars, readVars, commandVars
<1>13. CASE UNCHANGED vars
  BY <1>13 DEF TypeOK, vars
<1> QED BY <1>1, <1>2, <1>3, <1>4, <1>5, <1>6, <1>7, <1>8, <1>9, <1>10, <1>11,
           <1>12, <1>13 DEF Next, Startup, Read

(* Type correctness of the node, for every value of the constants.         *)
THEOREM TypeCorrect == Spec => []TypeOK
<1>1. Init => TypeOK
  BY TypeInit
<1>2. TypeOK /\ [Next]_vars => TypeOK'
  BY TypeStep
<1> QED BY <1>1, <1>2, PTL DEF Spec

-----------------------------------------------------------------------------
(* Framing.                                                                *)

(* The invariant holds before the first byte.                              *)
LEMMA InvInit == Init => Inv
<1> SUFFICES ASSUME Init PROVE Inv
  OBVIOUS
<1>1. /\ stream = <<>> /\ pos = 0 /\ receive_buffer = <<>> /\ parsed = <<>>
      /\ MaxLine \in Nat \ {0}
  BY BoundsAssumption DEF Init
<1>2. Framed(stream, receive_buffer, pos)
  <2>1. Len(receive_buffer) = 0
    BY <1>1
  <2>2. Starts(stream, 0) /\ Data(stream, 1, 0)
    BY DEF Starts, Data
  <2> QED BY <2>1, <2>2, <1>1 DEF Framed
<1> QED BY <1>1, <1>2 DEF Inv, StreamType, BufferFramed, ParsedType, LinesIntact

(* Every step keeps the invariant.                                         *)
LEMMA InvStep == TypeOK /\ Inv /\ [Next]_vars => Inv'
<1> SUFFICES ASSUME TypeOK, Inv, [Next]_vars PROVE Inv'
  OBVIOUS
<1>1. ASSUME UNCHANGED <<stream, readVars>> PROVE Inv'
  <2>1. /\ stream' = stream /\ pos' = pos /\ receive_buffer' = receive_buffer
        /\ parsed' = parsed
    BY <1>1 DEF readVars
  <2>2. StreamType' /\ BufferFramed'
    BY <2>1 DEF Inv, StreamType, BufferFramed
  <2>3. ParsedType' /\ LinesIntact'
    BY <2>1 DEF Inv, ParsedType, LinesIntact
  <2> QED BY <2>2, <2>3 DEF Inv
<1>2. CASE ReadByte
  BY <1>2, ReadByteKeepsInv
<1>3. CASE ReadNewline
  BY <1>3, ReadNewlineKeepsInv
<1>4. CASE Sensor
  <2>1. UNCHANGED readVars
    BY <1>4 DEF Sensor, SensorSendsByte, SensorReports, SensorSendsBlank, SensorAnswers
  <2> QED BY <1>4, <2>1, SensorAppends, SendingKeepsInv
<1>5. CASE ReadTimesOut
  BY <1>1, <1>5 DEF ReadTimesOut, Kept, sensorVars, readVars
<1>6. CASE ReadEnds
  BY <1>1, <1>6 DEF ReadEnds, sensorVars
<1>7. CASE Startup
  BY <1>1, <1>7 DEF Startup, StartAcoustic, StartConfig, sensorVars
<1>8. CASE ClientPublishes \/ TakeCommand \/ TimerFires \/ PeerEnds \/ Shutdown
  BY <1>1, <1>8 DEF ClientPublishes, TakeCommand, TimerFires, PeerEnds, Shutdown, sensorVars
<1>9. CASE UNCHANGED vars
  BY <1>1, <1>9 DEF vars, readVars
<1> QED BY <1>2, <1>3, <1>4, <1>5, <1>6, <1>7, <1>8, <1>9 DEF Next, Read

(* The texts given to json::parse are lines of the stream, whatever the    *)
(* sizes of lines and buffer and however recv() is interrupted.            *)
THEOREM LinesAreIntact == Spec => []LinesIntact
<1>1. Init => TypeOK /\ Inv
  BY TypeInit, InvInit
<1>2. TypeOK /\ Inv /\ [Next]_vars => (TypeOK /\ Inv)'
  BY TypeStep, InvStep
<1>3. Inv => LinesIntact
  BY DEF Inv
<1> QED BY <1>1, <1>2, <1>3, PTL DEF Spec

-----------------------------------------------------------------------------
(* Commands.  They are numbered as they are published, so those that wait  *)
(* are the newest, and everything older has been taken or lost.            *)
Oldest == nextId - Len(inbox)

OnWire(n) == \E j \in DOMAIN onWire : onWire[j].id = n

Numbered ==
  /\ Oldest \in 1..MaxRequests + 1
  /\ \A i \in DOMAIN inbox : inbox[i].id = Oldest + i - 1
  /\ \A c \in taken : c.id \in 1..Oldest - 1
  /\ \A n \in refused : n \in 1..Oldest - 1 /\ ~OnWire(n)
  /\ \A j \in DOMAIN onWire : onWire[j].id < Oldest

\* Every answer answers a line that reached the sensor.
AnswersSent ==
  /\ \A k \in Newlines : stream[k].id = 0 \/ OnWire(stream[k].id)
  /\ \A i \in DOMAIN published : published[i].id = 0 \/ OnWire(published[i].id)

CommandInv == Numbered /\ AnswersSent

\* A step that sends the line of command id, if it sends any.
Sends(id) ==
  \/ onWire' = onWire
  \/ \E line \in WireLine : line.id = id /\ onWire' = Append(onWire, line)

(* set_json_parameter sends one line at most, whatever it makes of the     *)
(* value.                                                                  *)
LEMMA SetParameterSends ==
  ASSUME NEW id \in Nat, NEW name, NEW value \in Values, SetParameter(id, name, value)
  PROVE  Sends(id)
<1>1. ASSUME NEW v \in Encodings(name, value), NEW ok \in BOOLEAN,
             Send(Line(id, "set_config", resolveParameter(name), v), ok)
      PROVE  Sends(id)
  <2>1. resolveParameter(name) \in Parameters \cup {"invalid_param", "none"}
    BY DEF resolveParameter, Parameters
  <2>2. v \in Values
    BY DEF Encodings, Values
  <2> DEFINE line == Line(id, "set_config", resolveParameter(name), v)
  <2>3. line \in WireLine /\ line.id = id
    BY <2>1, <2>2 DEF Line, WireLine, Commands
  <2>4. onWire' = onWire \/ onWire' = Append(onWire, line)
    BY <1>1 DEF Send
  <2> QED BY <2>3, <2>4 DEF Sends
<1> QED BY <1>1 DEF SetParameter, Sends

(* The commands that carry nothing but their name.                         *)
LEMMA PlainSends ==
  ASSUME NEW id \in Nat, NEW command \in Commands, NEW ok,
         Send(Line(id, command, "none", "none"), ok)
  PROVE  Sends(id) /\ (~ok => onWire' = onWire)
<1>1. Line(id, command, "none", "none") \in WireLine
  BY PlainLineType
<1>2. Line(id, command, "none", "none").id = id
  BY DEF Line
<1> QED BY <1>1, <1>2 DEF Send, Sends

(* command_subscriber: a command is refused or sent, never both.           *)
LEMMA CommandSends ==
  ASSUME NEW c \in Message, c.id \in Nat, c.msg.value \in Values, Command(c)
  PROVE  /\ Sends(c.id)
         /\ \/ refused' = refused
            \/ refused' = refused \cup {c.id} /\ onWire' = onWire
<1>1. CASE c.msg.command = "set_config"
  <2>1. SetParameter(c.id, c.msg.name, c.msg.value) /\ refused' = refused
    BY <1>1 DEF Command, Commands
  <2> QED BY <2>1, SetParameterSends
<1>2. CASE c.msg.command \in Commands \ {"set_config"}
  <2>1. PICK ok \in BOOLEAN :
          /\ Send(Line(c.id, c.msg.command, "none", "none"), ok)
          /\ refused' = IF ok THEN refused ELSE refused \cup {c.id}
    BY <1>2 DEF Command
  <2> QED BY <2>1, <1>2, PlainSends
<1>3. CASE c.msg.command \notin Commands
  BY <1>3 DEF Command, Commands, Sends
<1> QED BY <1>1, <1>2, <1>3

(* The constructor's commands have no number of their own.                 *)
LEMMA StartupSends ==
  ASSUME Startup
  PROVE  Sends(0) /\ UNCHANGED <<inbox, nextId, taken, refused>>
<1>1. CASE StartAcoustic /\ ConfigureAcoustic
  <2>1. AcousticEnabled \in Values
    BY StartupAssumption DEF Values
  <2> QED BY <1>1, <2>1, SetParameterSends DEF StartAcoustic
<1>2. CASE StartConfig /\ RequestConfig
  <2>1. "get_config" \in Commands
    BY DEF Commands
  <2> QED BY <1>2, <2>1, PlainSends DEF StartConfig
<1>3. CASE (StartAcoustic /\ ~ConfigureAcoustic) \/ (StartConfig /\ ~RequestConfig)
  BY <1>3 DEF StartAcoustic, StartConfig, Sends
<1> QED BY <1>1, <1>2, <1>3 DEF Startup, StartAcoustic, StartConfig

(* The lines the sensor has received are those of before and the new one.  *)
LEMMA SendsOnWire ==
  ASSUME onWire \in Seq(WireLine), NEW id \in Nat, Sends(id)
  PROVE  /\ \A n \in Nat : OnWire(n) => OnWire(n)'
         /\ \A n \in Nat : OnWire(n)' => OnWire(n) \/ n = id
         /\ \A j \in DOMAIN onWire' : onWire'[j].id = id \/ OnWire(onWire'[j].id)
         /\ \A j \in DOMAIN onWire : j \in DOMAIN onWire' /\ onWire'[j] = onWire[j]
<1>1. CASE onWire' = onWire
  BY <1>1 DEF OnWire
<1>2. CASE \E line \in WireLine : line.id = id /\ onWire' = Append(onWire, line)
  <2>1. PICK line \in WireLine : line.id = id /\ onWire' = Append(onWire, line)
    BY <1>2
  <2>2. /\ DOMAIN onWire = 1..Len(onWire) /\ Len(onWire) \in Nat
        /\ DOMAIN onWire' = 1..Len(onWire) + 1
        /\ \A j \in 1..Len(onWire) : onWire'[j] = onWire[j]
        /\ onWire'[Len(onWire) + 1] = line
    BY <2>1, AppendKeeps
  <2>3. \A j \in DOMAIN onWire' : j \in DOMAIN onWire \/ j = Len(onWire) + 1
    BY <2>2
  <2>4. \A j \in DOMAIN onWire : j \in DOMAIN onWire' /\ onWire'[j] = onWire[j]
    BY <2>2
  <2> QED BY <2>1, <2>2, <2>3, <2>4 DEF OnWire
<1> QED BY <1>1, <1>2 DEF Sends

(* The commands that wait stay consecutive when one is added, and when one *)
(* is lost for it: n is the number of the new one.                         *)
LEMMA EnqueueNumbers ==
  ASSUME NEW q \in Seq(Message), Len(q) <= QueueDepth, NEW m \in Message,
         NEW n \in Nat, m.id = n,
         \A i \in DOMAIN q : q[i].id = n - Len(q) + i - 1
  PROVE  /\ Enqueue(q, m) \in Seq(Message)
         /\ \/ Len(Enqueue(q, m)) = Len(q) + 1
            \/ Len(Enqueue(q, m)) = Len(q) /\ Len(q) = QueueDepth
         /\ \A i \in DOMAIN Enqueue(q, m) :
              Enqueue(q, m)[i].id = (n + 1) - Len(Enqueue(q, m)) + i - 1
<1>1. QueueDepth \in Nat \ {0} /\ Len(q) \in Nat /\ DOMAIN q = 1..Len(q)
  BY BoundsAssumption
<1>2. CASE Len(q) = QueueDepth
  <2> DEFINE t == Tail(q)
  <2>1. /\ t \in Seq(Message) /\ Len(t) = Len(q) - 1
        /\ \A i \in 1..Len(t) : t[i] = q[i + 1]
    BY <1>1, <1>2
  <2> HIDE DEF t
  <2>2. /\ Append(t, m) \in Seq(Message)
        /\ Len(Append(t, m)) = Len(t) + 1
        /\ \A i \in 1..Len(t) : Append(t, m)[i] = t[i]
        /\ Append(t, m)[Len(t) + 1] = m
    BY <2>1, AppendKeeps
  <2>3. Enqueue(q, m) = Append(t, m)
    BY <1>2 DEF Enqueue, t
  <2>4. \A i \in 1..Len(t) : t[i].id = n - Len(q) + i
    BY <2>1, <1>1
  <2> DEFINE r == Append(t, m)
  <2> HIDE DEF r
  <2>5. r \in Seq(Message) /\ Len(r) = Len(q) /\ DOMAIN r = 1..Len(q) /\ r = Enqueue(q, m)
    BY <2>1, <2>2, <2>3, <1>1 DEF r
  <2>6. ASSUME NEW i \in 1..Len(q) PROVE r[i].id = (n + 1) - Len(q) + i - 1
    <3>1. CASE i = Len(q)
      BY <3>1, <2>1, <2>2, <1>1 DEF r
    <3>2. CASE i # Len(q)
      <4>1. i \in 1..Len(t) /\ r[i] = t[i]
        BY <3>2, <2>1, <2>2, <1>1 DEF r
      <4> QED BY <4>1, <2>4, <1>1
    <3> QED BY <3>1, <3>2
  <2> QED BY <2>5, <2>6, <1>2
<1>3. CASE Len(q) # QueueDepth
  <2> DEFINE r == Append(q, m)
  <2>1. /\ r \in Seq(Message)
        /\ Len(r) = Len(q) + 1
        /\ \A i \in 1..Len(q) : r[i] = q[i]
        /\ r[Len(q) + 1] = m
    BY AppendKeeps
  <2>2. Enqueue(q, m) = r
    BY <1>3 DEF Enqueue
  <2> HIDE DEF r
  <2>3. ASSUME NEW i \in 1..Len(r) PROVE r[i].id = (n + 1) - Len(r) + i - 1
    <3>1. CASE i = Len(q) + 1
      BY <3>1, <2>1, <1>1
    <3>2. CASE i # Len(q) + 1
      <4>1. i \in 1..Len(q) /\ r[i] = q[i]
        BY <3>2, <2>1, <1>1
      <4> QED BY <4>1, <2>1, <1>1
    <3> QED BY <3>1, <3>2
  <2>4. DOMAIN r = 1..Len(r)
    BY <2>1
  <2> QED BY <2>1, <2>2, <2>3, <2>4
<1> QED BY <1>2, <1>3

(* A line on the wire carries the number of its command.                   *)
LEMMA WireIds ==
  ASSUME NEW w \in Seq(WireLine), NEW j \in DOMAIN w
  PROVE  w[j] \in WireLine /\ w[j].id \in Nat
<1>1. w[j] \in WireLine
  OBVIOUS
<1> QED BY <1>1 DEF WireLine

(* Steps that leave the commands alone leave their accounts alone.         *)
LEMMA NumberedRests ==
  ASSUME Numbered, UNCHANGED <<inbox, nextId, taken, refused, onWire>>
  PROVE  Numbered'
BY DEF Numbered, Oldest, OnWire

(* A client's command takes the next number.                               *)
LEMMA PublishKeepsNumbered ==
  ASSUME TypeOK, Numbered, ClientPublishes
  PROVE  Numbered'
<1>1. /\ inbox \in Seq(Message) /\ Len(inbox) \in Nat /\ Len(inbox) <= QueueDepth
      /\ nextId \in Nat /\ nextId' = nextId + 1 /\ nextId <= MaxRequests
      /\ MaxRequests \in Nat
      /\ UNCHANGED <<taken, refused, onWire>>
  BY TypeForms, BoundsAssumption DEF ClientPublishes
<1>2. PICK m \in Requests : inbox' = Enqueue(inbox, [id |-> nextId, msg |-> m])
  BY DEF ClientPublishes
<1> DEFINE command == [id |-> nextId, msg |-> m]
<1>3. command \in Message /\ command.id = nextId
  BY <1>1 DEF Message
<1>4. \A i \in DOMAIN inbox : inbox[i].id = nextId - Len(inbox) + i - 1
  BY DEF Numbered, Oldest
<1>5. /\ inbox' \in Seq(Message)
      /\ Len(inbox') = Len(inbox) + 1 \/ Len(inbox') = Len(inbox)
      /\ \A i \in DOMAIN inbox' : inbox'[i].id = (nextId + 1) - Len(inbox') + i - 1
  BY <1>1, <1>2, <1>3, <1>4, EnqueueNumbers
<1>6. Oldest' = Oldest \/ Oldest' = Oldest + 1
  BY <1>1, <1>5 DEF Oldest
<1>7. Oldest \in Nat /\ Oldest >= 1 /\ Oldest <= nextId /\ Oldest' <= MaxRequests + 1
  BY <1>1, <1>5 DEF Numbered, Oldest
<1>8. \A n \in 1..Oldest - 1 : n \in 1..Oldest' - 1
  BY <1>6, <1>7
<1>9. \A j \in DOMAIN onWire : onWire[j].id < Oldest'
  <2>1. \A j \in DOMAIN onWire : onWire[j].id \in Nat
    BY TypeForms, WireIds
  <2> QED BY <2>1, <1>6, <1>7 DEF Numbered
<1>10. \A i \in DOMAIN inbox' : inbox'[i].id = Oldest' + i - 1
  BY <1>1, <1>5 DEF Oldest
<1>11. Oldest' \in 1..MaxRequests + 1
  BY <1>1, <1>6, <1>7
<1>12. \A c \in taken : c.id \in 1..Oldest' - 1
  BY <1>8 DEF Numbered
<1>13. \A n \in refused : n \in 1..Oldest' - 1 /\ ~OnWire(n)
  BY <1>8 DEF Numbered
<1>14. \A n : OnWire(n)' <=> OnWire(n)
  BY <1>1 DEF OnWire
<1> QED BY <1>1, <1>9, <1>10, <1>11, <1>12, <1>13, <1>14 DEF Numbered

(* The command that is taken is the oldest.                                *)
LEMMA HeadNumber ==
  ASSUME TypeOK, Numbered, TakeCommand
  PROVE  Head(inbox).id = Oldest
<1>1. inbox \in Seq(Message) /\ Len(inbox) \in Nat \ {0} /\ Oldest \in Nat
  BY TypeForms DEF TakeCommand, Numbered
<1>2. Head(inbox) = inbox[1] /\ inbox[1].id = Oldest + 1 - 1
  BY <1>1 DEF Numbered
<1> QED BY <1>1, <1>2

(* Taking the oldest command.                                              *)
LEMMA TakeKeepsNumbered ==
  ASSUME TypeOK, Numbered, TakeCommand
  PROVE  Numbered'
<1> DEFINE c == Head(inbox)
<1>1. /\ c \in Message /\ c.id \in Nat /\ c.msg.value \in Values /\ Command(c)
      /\ inbox' = Tail(inbox) /\ Len(inbox') = Len(inbox) - 1 /\ nextId' = nextId
      /\ taken' = taken \cup {c}
  BY HeadType DEF TakeCommand
<1>2. /\ inbox \in Seq(Message) /\ Len(inbox) \in Nat \ {0} /\ nextId \in Nat
      /\ onWire \in Seq(WireLine) /\ nextId <= MaxRequests + 1 /\ MaxRequests \in Nat
  BY TypeForms, BoundsAssumption DEF TakeCommand
<1>3. c.id = Oldest /\ Oldest' = Oldest + 1 /\ Oldest' <= MaxRequests + 1
  BY <1>1, <1>2 DEF Numbered, Oldest
<1>4. /\ DOMAIN inbox' = 1..Len(inbox) - 1
      /\ \A i \in 1..Len(inbox) - 1 : inbox'[i] = inbox[i + 1]
  BY <1>1, <1>2
<1>5. Oldest \in Nat /\ Oldest >= 1
  BY DEF Numbered
<1> HIDE DEF c
<1>6. ASSUME NEW i \in DOMAIN inbox' PROVE inbox'[i].id = Oldest' + i - 1
  <2>1. i \in 1..Len(inbox) - 1 /\ i + 1 \in DOMAIN inbox /\ inbox'[i] = inbox[i + 1]
    BY <1>2, <1>4
  <2>2. inbox[i + 1].id = Oldest + (i + 1) - 1
    BY <2>1 DEF Numbered
  <2> QED BY <2>1, <2>2, <1>2, <1>3, <1>5
<1>7. /\ Sends(c.id)
      /\ \/ refused' = refused
         \/ refused' = refused \cup {c.id} /\ onWire' = onWire
  BY <1>1, CommandSends
<1>8. /\ \A n \in Nat : OnWire(n)' => OnWire(n) \/ n = c.id
      /\ \A j \in DOMAIN onWire' : onWire'[j].id = c.id \/ OnWire(onWire'[j].id)
  BY <1>1, <1>2, <1>7, SendsOnWire
<1>9. \A j \in DOMAIN onWire' : onWire'[j].id < Oldest'
  <2>1. ASSUME NEW n, OnWire(n) PROVE n \in Nat /\ n < Oldest
    <3>1. PICK j \in DOMAIN onWire : onWire[j].id = n
      BY <2>1 DEF OnWire
    <3> QED BY <3>1, <1>2, WireIds DEF Numbered
  <2> QED BY <2>1, <1>3, <1>5, <1>8
<1>10. ~OnWire(c.id)
  BY <1>3, <1>5 DEF Numbered, OnWire
<1>11. \A n \in 1..Oldest - 1 : n \in 1..Oldest' - 1 /\ n # c.id /\ n \in Nat
  BY <1>3, <1>5
<1>12. c.id \in 1..Oldest' - 1
  BY <1>3, <1>5
<1>13. \A n \in refused' : n \in 1..Oldest' - 1 /\ ~OnWire(n)'
  <2>1. ASSUME NEW n \in refused PROVE n \in 1..Oldest' - 1 /\ ~OnWire(n)'
    BY <1>8, <1>11 DEF Numbered
  <2>2. CASE refused' = refused
    BY <2>1, <2>2
  <2>3. CASE refused' = refused \cup {c.id} /\ onWire' = onWire
    <3>1. \A n : n = c.id => ~OnWire(n)'
      BY <1>10, <2>3 DEF OnWire
    <3>2. refused' = refused \cup {c.id}
      BY <2>3
    <3> QED BY <2>1, <3>1, <3>2, <1>12
  <2> QED BY <2>2, <2>3, <1>7
<1>14. \A d \in taken' : d.id \in 1..Oldest' - 1
  BY <1>1, <1>11, <1>12 DEF Numbered
<1>15. Oldest' \in 1..MaxRequests + 1
  BY <1>2, <1>3, <1>5
<1> QED BY <1>6, <1>9, <1>13, <1>14, <1>15 DEF Numbered

(* The accounts hold at the start and every step keeps them.               *)
LEMMA NumberedInit == Init => Numbered
<1> SUFFICES ASSUME Init PROVE Numbered
  OBVIOUS
<1>1. /\ inbox = <<>> /\ nextId = 1 /\ taken = {} /\ refused = {} /\ onWire = <<>>
      /\ MaxRequests \in Nat
  BY BoundsAssumption DEF Init
<1>2. Oldest = 1
  BY <1>1 DEF Oldest
<1> QED BY <1>1, <1>2 DEF Numbered

LEMMA NumberedStep == TypeOK /\ Numbered /\ [Next]_vars => Numbered'
<1> SUFFICES ASSUME TypeOK, Numbered, [Next]_vars PROVE Numbered'
  OBVIOUS
<1>1. CASE Startup
  <2>1. Sends(0) /\ UNCHANGED <<inbox, nextId, taken, refused>>
    BY <1>1, StartupSends
  <2>2. onWire \in Seq(WireLine)
    BY TypeForms
  <2>3. /\ \A n \in Nat : OnWire(n)' => OnWire(n) \/ n = 0
        /\ \A j \in DOMAIN onWire' : onWire'[j].id = 0 \/ OnWire(onWire'[j].id)
    BY <2>1, <2>2, SendsOnWire
  <2>4. Oldest' = Oldest /\ Oldest \in Nat /\ Oldest >= 1
    BY <2>1 DEF Numbered, Oldest
  <2>5. \A j \in DOMAIN onWire' : onWire'[j].id < Oldest'
    BY <2>3, <2>4 DEF Numbered, OnWire
  <2>6. \A n \in 1..Oldest - 1 : n \in Nat /\ n # 0
    OBVIOUS
  <2> QED BY <2>1, <2>3, <2>4, <2>5, <2>6 DEF Numbered
<1>2. CASE ClientPublishes
  BY <1>2, PublishKeepsNumbered
<1>3. CASE TakeCommand
  BY <1>3, TakeKeepsNumbered
<1>4. CASE TimerFires \/ Read \/ Sensor \/ PeerEnds \/ Shutdown
  <2>1. UNCHANGED <<commandVars, nextId>>
    BY <1>4 DEF TimerFires, Read, ReadByte, ReadNewline, ReadTimesOut, ReadEnds, Sensor,
                SensorSendsByte, SensorReports, SensorSendsBlank, SensorAnswers, PeerEnds,
                Shutdown
  <2> QED BY <2>1, NumberedRests DEF commandVars
<1>5. CASE UNCHANGED vars
  BY <1>5, NumberedRests DEF vars
<1> QED BY <1>1, <1>2, <1>3, <1>4, <1>5 DEF Next

(* What the sensor sends next answers a command it received, if any.       *)
LEMMA SentIds ==
  ASSUME TypeOK, Sensor
  PROVE  \E t \in Tokens :
           /\ stream' = Append(stream, t)
           /\ t # DataByte => t.id = 0 \/ OnWire(t.id)
<1>1. CASE SensorSendsByte
  BY <1>1 DEF SensorSendsByte, Tokens
<1>2. CASE SensorReports
  <2>1. PICK t \in Telemetry : stream' = Append(stream, t)
    BY <1>2 DEF SensorReports
  <2>2. t \in Tokens /\ t.id = 0
    BY TelemetryAssumption DEF Tokens
  <2> QED BY <2>1, <2>2
<1>3. CASE SensorSendsBlank
  <2> DEFINE t == [type |-> "other", response_to |-> "none", complete |-> FALSE, id |-> 0]
  <2>1. t \in Tokens /\ t.id = 0
    BY DEF Tokens, Contents
  <2> QED BY <2>1, <1>3 DEF SensorSendsBlank
<1>4. CASE SensorAnswers
  <2>1. PICK t \in Contents :
          stream' = Append(stream, t) /\ t.id = onWire[served + 1].id
    BY <1>4, AnswerType
  <2>4. served + 1 \in DOMAIN onWire
    BY <1>4, TypeForms DEF SensorAnswers, Outstanding
  <2> QED BY <2>1, <2>4 DEF OnWire, Tokens
<1> QED BY <1>1, <1>2, <1>3, <1>4 DEF Sensor

(* A token that is sent changes no earlier token.                          *)
LEMMA StreamGrows ==
  ASSUME stream \in Seq(Tokens), NEW t \in Tokens, stream' = Append(stream, t)
  PROVE  /\ stream' \in Seq(Tokens)
         /\ Len(stream) \in Nat
         /\ Len(stream') = Len(stream) + 1
         /\ \A j \in 1..Len(stream) : stream'[j] = stream[j]
         /\ stream'[Len(stream) + 1] = t
         /\ Newlines \subseteq 1..Len(stream)
         /\ Newlines' = Newlines \cup (IF t = DataByte THEN {} ELSE {Len(stream) + 1})
<1>1. /\ stream' \in Seq(Tokens)
      /\ Len(stream') = Len(stream) + 1
      /\ \A j \in 1..Len(stream) : stream'[j] = stream[j]
      /\ stream'[Len(stream) + 1] = t
  BY AppendKeeps
<1>2. /\ DOMAIN stream = 1..Len(stream) /\ DOMAIN stream' = 1..Len(stream) + 1
      /\ Len(stream) \in Nat
  BY <1>1
<1>3. DOMAIN stream' = DOMAIN stream \cup {Len(stream) + 1}
  BY <1>2
<1>4. Newlines' = Newlines \cup (IF t = DataByte THEN {} ELSE {Len(stream) + 1})
  BY <1>1, <1>2, <1>3 DEF Newlines
<1> QED BY <1>1, <1>2, <1>4 DEF Newlines

(* What a newline publishes: nothing, or one report with the place and the *)
(* request of the line it ends.                                            *)
LEMMA ReadPublishes ==
  ASSUME TypeOK, ReadNewline
  PROVE  /\ pos + 1 \in Newlines
         /\ \/ published' = published
            \/ \E r \in Report :
                 /\ published' = Append(published, r)
                 /\ r.topic = Topic(stream[pos + 1])
                 /\ r.nl = pos + 1
                 /\ r.id = stream[pos + 1].id
                 /\ receive_buffer # <<>> /\ r.topic # "none"
                 /\ IsLine(receive_buffer, pos + 1)
<1> DEFINE n == pos + 1
<1>1. stream \in Seq(Tokens) /\ n \in 1..Len(stream) /\ stream[n] # DataByte
  BY TypeForms DEF ReadNewline
<1>2. n \in Newlines /\ stream[n] \in Contents
  BY <1>1 DEF Newlines, Tokens
<1>3. CASE published' # published
  <2>1. /\ receive_buffer # <<>> /\ IsLine(receive_buffer, n)
        /\ Topic(stream[n]) # "none"
        /\ published' = Append(published,
             [topic |-> Topic(stream[n]), nl |-> n, id |-> stream[n].id])
    BY <1>3 DEF ReadNewline, Parse
  <2> DEFINE r == [topic |-> Topic(stream[n]), nl |-> n, id |-> stream[n].id]
  <2>2. stream[n].id \in Nat /\ stream[n].complete \in BOOLEAN
        /\ stream[n].type \in {"velocity", "velocity_water", "position_local", "response", "other"}
    BY <1>2 DEF Contents
  <2>3. Topic(stream[n]) \in Topics
    BY <2>1, <2>2 DEF Topic, Topics
  <2>4. /\ r \in Report /\ r.topic = Topic(stream[n]) /\ r.nl = n
        /\ r.id = stream[n].id
    BY <1>1, <2>2, <2>3 DEF Report
  <2>5. published' = Append(published, r)
    BY <2>1
  <2> HIDE DEF r
  <2> QED BY <1>2, <2>1, <2>4, <2>5
<1> QED BY <1>2, <1>3

(* A report carries its topic, its newline and its request.                *)
LEMMA ReportElement ==
  ASSUME NEW r \in Seq(Report), NEW i \in DOMAIN r
  PROVE  r[i] \in Report /\ r[i].topic \in Topics /\ r[i].nl \in Nat /\ r[i].id \in Nat
<1>1. r[i] \in Report
  OBVIOUS
<1> QED BY <1>1 DEF Report

(* Answers are to lines that were sent: what a step adds to the stream, to *)
(* the reports or to the wire keeps it so.                                 *)
LEMMA AnswersStep == TypeOK /\ AnswersSent /\ [Next]_vars => AnswersSent'
<1> SUFFICES ASSUME TypeOK, AnswersSent, [Next]_vars PROVE AnswersSent'
  OBVIOUS
<1>t. /\ stream \in Seq(Tokens) /\ published \in Seq(Report) /\ onWire \in Seq(WireLine)
      /\ \A k \in Newlines : stream[k] \in Contents /\ stream[k].id \in Nat
  <2>1. stream \in Seq(Tokens) /\ published \in Seq(Report) /\ onWire \in Seq(WireLine)
    BY TypeForms
  <2>2. \A k \in Newlines : stream[k] \in Contents
    BY <2>1 DEF Newlines, Tokens
  <2> QED BY <2>1, <2>2 DEF Contents
<1>1. ASSUME UNCHANGED <<stream, published>>, NEW id \in Nat, Sends(id) PROVE AnswersSent'
  <2>1. \A n \in Nat : OnWire(n) => OnWire(n)'
    BY <1>1, <1>t, SendsOnWire
  <2>2. \A i \in DOMAIN published : published[i].id \in Nat
    BY <1>t, ReportElement
  <2>3. \A k \in Newlines : stream[k].id = 0 \/ \A n : n = stream[k].id => OnWire(n)'
    BY <2>1, <1>t DEF AnswersSent
  <2>4. \A i \in DOMAIN published :
          published[i].id = 0 \/ \A n : n = published[i].id => OnWire(n)'
    BY <2>1, <2>2 DEF AnswersSent
  <2> QED BY <1>1, <2>3, <2>4 DEF AnswersSent, Newlines, OnWire
<1>2. CASE Sensor
  <2>1. PICK t \in Tokens :
          /\ stream' = Append(stream, t)
          /\ t # DataByte => t.id = 0 \/ OnWire(t.id)
    BY <1>2, SentIds
  <2>2. UNCHANGED <<published, onWire>>
    BY <1>2 DEF Sensor, SensorSendsByte, SensorReports, SensorSendsBlank, SensorAnswers,
                readVars, commandVars
  <2>3. /\ \A j \in 1..Len(stream) : stream'[j] = stream[j]
        /\ stream'[Len(stream) + 1] = t
        /\ Newlines \subseteq 1..Len(stream)
        /\ Newlines' = Newlines \cup (IF t = DataByte THEN {} ELSE {Len(stream) + 1})
    BY <1>t, <2>1, StreamGrows
  <2>4. \A k \in Newlines' : stream'[k].id = 0 \/ OnWire(stream'[k].id)
    BY <2>1, <2>3 DEF AnswersSent
  <2> QED BY <2>2, <2>4 DEF AnswersSent, OnWire
<1>3. CASE ReadNewline
  <2>1. UNCHANGED <<stream, onWire>>
    BY <1>3 DEF ReadNewline, sensorVars, commandVars
  <2>2. /\ pos + 1 \in Newlines
        /\ \/ published' = published
           \/ \E r \in Report : published' = Append(published, r) /\ r.id = stream[pos + 1].id
    BY <1>3, ReadPublishes
  <2>3. \A i \in DOMAIN published' : published'[i].id = 0 \/ OnWire(published'[i].id)
    <3>1. CASE published' = published
      BY <3>1 DEF AnswersSent
    <3>2. CASE published' # published
      <4>1. PICK r \in Report : published' = Append(published, r) /\ r.id = stream[pos + 1].id
        BY <2>2, <3>2
      <4>2. \A i \in DOMAIN published' :
              \/ i \in DOMAIN published /\ published'[i] = published[i]
              \/ published'[i] = r
        BY <4>1, <1>t
      <4>3. r.id = 0 \/ OnWire(r.id)
        BY <4>1, <2>2 DEF AnswersSent
      <4> QED BY <4>2, <4>3 DEF AnswersSent
    <3> QED BY <3>1, <3>2
  <2> QED BY <2>1, <2>3 DEF AnswersSent, OnWire, Newlines
<1>4. CASE Startup \/ TakeCommand
  <2>1. \E id \in Nat : Sends(id)
    <3>1. CASE Startup
      BY <3>1, StartupSends
    <3>2. CASE TakeCommand
      BY <3>2, HeadType, CommandSends DEF TakeCommand
    <3> QED BY <1>4, <3>1, <3>2
  <2>2. UNCHANGED <<stream, published>>
    BY <1>4 DEF Startup, StartAcoustic, StartConfig, TakeCommand, sensorVars, readVars
  <2> QED BY <1>1, <2>1, <2>2
<1>5. ASSUME UNCHANGED <<stream, published, onWire>> PROVE AnswersSent'
  BY <1>1, <1>5 DEF Sends
<1>6. CASE ReadByte \/ ReadTimesOut \/ ReadEnds \/ ClientPublishes \/ TimerFires
           \/ PeerEnds \/ Shutdown
  BY <1>5, <1>6 DEF ReadByte, ReadTimesOut, ReadEnds, ClientPublishes, TimerFires, PeerEnds,
                    Shutdown, sensorVars, readVars, commandVars
<1>7. CASE UNCHANGED vars
  BY <1>5, <1>7 DEF vars
<1> QED BY <1>2, <1>3, <1>4, <1>6, <1>7 DEF Next, Read

(* A client that is told that the transport is unavailable does not get    *)
(* the sensor's answer to that command as well: refused numbers are not on *)
(* the wire, and only what is on the wire is answered.                     *)
THEOREM RefusedStayUnanswered == Spec => []RefusedNeverAnswered
<1>1. Init => TypeOK /\ CommandInv
  BY TypeInit, NumberedInit DEF CommandInv, AnswersSent, Newlines, Init
<1>2. TypeOK /\ CommandInv /\ [Next]_vars => (TypeOK /\ CommandInv)'
  BY TypeStep, NumberedStep, AnswersStep DEF CommandInv
<1>3. CommandInv => RefusedNeverAnswered
  BY DEF CommandInv, Numbered, AnswersSent, RefusedNeverAnswered
<1> QED BY <1>1, <1>2, <1>3, PTL DEF Spec

-----------------------------------------------------------------------------
(* The newest commands.  Whatever the middleware dropped is older than the *)
(* last QueueDepth: the safety half of NewestTaken.                        *)
NewestKept ==
  \A n \in 1..nextId - 1 :
    \/ \E c \in taken : c.id = n
    \/ \E i \in DOMAIN inbox : inbox[i].id = n
    \/ nextId > n + QueueDepth

(* A command is lost only to make room, and is then the oldest of a full   *)
(* reader history.                                                         *)
LEMMA NewestPublish ==
  ASSUME TypeOK, Numbered, NewestKept, ClientPublishes
  PROVE  NewestKept'
<1>1. /\ inbox \in Seq(Message) /\ Len(inbox) \in Nat /\ Len(inbox) <= QueueDepth
      /\ nextId \in Nat /\ nextId >= 1 /\ nextId' = nextId + 1 /\ taken' = taken
      /\ QueueDepth \in Nat \ {0}
  BY TypeForms, BoundsAssumption DEF ClientPublishes
<1>2. PICK m \in Requests : inbox' = Enqueue(inbox, [id |-> nextId, msg |-> m])
  BY DEF ClientPublishes
<1>3. [id |-> nextId, msg |-> m] \in Message
  BY <1>1 DEF Message
<1>4. /\ inbox' \in Seq(Message)
      /\ \/ Len(inbox') = Len(inbox) + 1
         \/ Len(inbox') = Len(inbox) /\ Len(inbox) = QueueDepth
      /\ \A i \in DOMAIN inbox' : inbox'[i].id = (nextId + 1) - Len(inbox') + i - 1
  BY <1>1, <1>2, <1>3, EnqueueNumbers DEF Numbered, Oldest
<1>5. /\ DOMAIN inbox' = 1..Len(inbox') /\ DOMAIN inbox = 1..Len(inbox)
      /\ Len(inbox') \in Nat /\ Len(inbox') >= 1
  BY <1>1, <1>4
<1>6. ASSUME NEW n \in 1..nextId, n > nextId - QueueDepth, n \notin {c.id : c \in taken}
      PROVE  \E i \in DOMAIN inbox' : inbox'[i].id = n
  <2>1. n >= (nextId + 1) - Len(inbox')
    <3>1. CASE n = nextId
      BY <3>1, <1>1, <1>5
    <3>2. CASE Len(inbox') = Len(inbox) /\ Len(inbox) = QueueDepth
      BY <3>2, <1>1, <1>6
    <3>3. CASE n # nextId /\ Len(inbox') = Len(inbox) + 1
      <4>1. n \in 1..nextId - 1 /\ ~(nextId > n + QueueDepth)
        BY <3>3, <1>1, <1>6
      <4>2. PICK i \in DOMAIN inbox : inbox[i].id = n
        BY <4>1, <1>6 DEF NewestKept
      <4>3. n = nextId - Len(inbox) + i - 1
        BY <4>2 DEF Numbered, Oldest
      <4> QED BY <4>3, <3>3, <1>1, <1>5
    <3> QED BY <3>1, <3>2, <3>3, <1>4
  <2> DEFINE i == n - (nextId + 1) + Len(inbox') + 1
  <2>2. i \in 1..Len(inbox')
    BY <2>1, <1>1, <1>5
  <2>3. inbox'[i].id = (nextId + 1) - Len(inbox') + i - 1
    BY <2>2, <1>4, <1>5
  <2>4. (nextId + 1) - Len(inbox') + i - 1 = n
    BY <1>1, <1>5
  <2> QED BY <2>2, <2>3, <2>4, <1>5
<1>7. ASSUME NEW n \in 1..nextId' - 1
      PROVE  \/ \E c \in taken : c.id = n
             \/ \E i \in DOMAIN inbox' : inbox'[i].id = n
             \/ nextId' > n + QueueDepth
  <2>1. n \in 1..nextId /\ (n > nextId - QueueDepth \/ nextId' > n + QueueDepth)
    BY <1>1
  <2> QED BY <2>1, <1>6
<1> QED BY <1>1, <1>7 DEF NewestKept

LEMMA NewestStep == TypeOK /\ Numbered /\ NewestKept /\ [Next]_vars => NewestKept'
<1> SUFFICES ASSUME TypeOK, Numbered, NewestKept, [Next]_vars PROVE NewestKept'
  OBVIOUS
<1>1. CASE ClientPublishes
  BY <1>1, NewestPublish
<1>2. CASE TakeCommand
  <2>1. /\ inbox \in Seq(Message) /\ inbox # <<>> /\ inbox' = Tail(inbox)
        /\ taken' = taken \cup {Head(inbox)} /\ nextId' = nextId
    BY <1>2, TypeForms DEF TakeCommand
  <2>2. ASSUME NEW i \in DOMAIN inbox, i # 1
        PROVE  i - 1 \in DOMAIN inbox' /\ inbox'[i - 1] = inbox[i]
    <3>1. /\ DOMAIN inbox' = 1..Len(inbox) - 1 /\ DOMAIN inbox = 1..Len(inbox)
          /\ Len(inbox) \in Nat
          /\ \A j \in 1..Len(inbox) - 1 : inbox'[j] = inbox[j + 1]
      BY <2>1
    <3>2. i - 1 \in 1..Len(inbox) - 1 /\ (i - 1) + 1 = i
      BY <2>2, <3>1
    <3> QED BY <3>1, <3>2
  <2>3. inbox[1] = Head(inbox)
    BY <2>1
  <2>4. ASSUME NEW n, NEW i \in DOMAIN inbox, inbox[i].id = n
        PROVE  (\E c \in taken' : c.id = n) \/ \E j \in DOMAIN inbox' : inbox'[j].id = n
    BY <2>1, <2>2, <2>3, <2>4
  <2> QED BY <2>1, <2>4 DEF NewestKept
<1>3. CASE Startup
  BY <1>3, StartupSends DEF NewestKept
<1>4. CASE TimerFires \/ Read \/ Sensor \/ PeerEnds \/ Shutdown
  <2>1. UNCHANGED <<commandVars, nextId>>
    BY <1>4 DEF TimerFires, Read, ReadByte, ReadNewline, ReadTimesOut, ReadEnds, Sensor,
                SensorSendsByte, SensorReports, SensorSendsBlank, SensorAnswers, PeerEnds,
                Shutdown
  <2> QED BY <2>1 DEF NewestKept, commandVars
<1>5. CASE UNCHANGED vars
  BY <1>5 DEF NewestKept, vars
<1> QED BY <1>1, <1>2, <1>3, <1>4, <1>5 DEF Next

(* Of the commands published, the last QueueDepth are taken or wait: what  *)
(* the middleware loses while the constructor connects is older.           *)
THEOREM NewestAreKept == Spec => []NewestKept
<1>1. Init => TypeOK /\ Numbered /\ NewestKept
  <2>1. ASSUME Init PROVE NewestKept
    <3>1. nextId = 1
      BY <2>1 DEF Init
    <3>2. 1..nextId - 1 = {}
      BY <3>1
    <3> QED BY <3>2 DEF NewestKept
  <2> QED BY <2>1, TypeInit, NumberedInit
<1>2. TypeOK /\ Numbered /\ NewestKept /\ [Next]_vars => (TypeOK /\ Numbered /\ NewestKept)'
  BY TypeStep, NumberedStep, NewestStep
<1> QED BY <1>1, <1>2, PTL DEF Spec

-----------------------------------------------------------------------------
(* The channel.                                                            *)

(* What a line says decides its topic, one of those of the channel.        *)
LEMMA TopicType ==
  ASSUME NEW c \in Contents
  PROVE  Topic(c) \in Channel!Topics \cup {"none"}
<1>1. /\ c.complete \in BOOLEAN
      /\ c.type \in {"velocity", "velocity_water", "position_local", "response", "other"}
  BY DEF Contents
<1> QED BY <1>1 DEF Topic, Channel!Topics

LEMMA LineType ==
  ASSUME stream \in Seq(Tokens), NEW k \in Newlines
  PROVE  /\ LineAt(k) \in Channel!Line
         /\ LineAt(k).at = k
         /\ LineAt(k).topic = LineTopic(k)
<1>1. k \in Nat /\ stream[k] \in Contents
  BY DEF Newlines, Tokens
<1>2. Topic(stream[k]) \in Channel!Topics \cup {"none"}
  BY <1>1, TopicType
<1>3. LineTopic(k) \in Channel!Topics \cup {"none"}
  BY <1>2 DEF LineTopic
<1> QED BY <1>1, <1>3 DEF LineAt, Channel!Line

LEMMA LineTypeNext ==
  ASSUME stream' \in Seq(Tokens), NEW k \in Newlines'
  PROVE  /\ LineAt(k)' \in Channel!Line
         /\ LineAt(k)'.at = k
<1>1. k \in Nat /\ stream'[k] \in Contents
  BY DEF Newlines, Tokens
<1>2. Topic(stream'[k]) \in Channel!Topics \cup {"none"}
  BY <1>1, TopicType
<1>3. LineTopic(k)' \in Channel!Topics \cup {"none"}
  BY <1>2 DEF LineTopic
<1> QED BY <1>1, <1>3 DEF LineAt, Channel!Line

(* The topic of a line does not depend on what comes after it.             *)
LEMMA LineSurvives ==
  ASSUME stream \in Seq(Tokens), NEW t \in Tokens, stream' = Append(stream, t),
         NEW k \in Newlines
  PROVE  LineAt(k)' = LineAt(k)
<1>1. /\ Len(stream) \in Nat /\ k \in 1..Len(stream)
      /\ \A j \in 1..Len(stream) : stream'[j] = stream[j]
  BY StreamGrows
<1>2. ASSUME NEW n \in 1..MaxLine
      PROVE  HasLength(k, n)' <=> HasLength(k, n)
  <2>1. MaxLine \in Nat
    BY BoundsAssumption
  <2>2. CASE n < k
    <3>1. \A j \in k - n..k - 1 : stream'[j] = stream[j]
      BY <1>1, <2>1, <2>2
    <3>2. n = k - 1 \/ stream'[k - n - 1] = stream[k - n - 1]
      <4>1. n = k - 1 \/ k - n - 1 \in 1..Len(stream)
        BY <1>1, <2>1, <2>2
      <4> QED BY <1>1, <4>1
    <3> QED BY <3>1, <3>2 DEF HasLength, Data
  <2>3. CASE ~(n < k)
    BY <2>3 DEF HasLength
  <2> QED BY <2>2, <2>3
<1>3. LineTopic(k)' = LineTopic(k)
  BY <1>1, <1>2 DEF LineTopic
<1> QED BY <1>3 DEF LineAt

(* The assembled text is the line that ends at the next newline, exactly   *)
(* when that line is short enough: the buffer never starts in the middle   *)
(* of a short line, and never holds the end of the line before.            *)
LEMMA BufferIsLine ==
  ASSUME Inv, pos + 1 \in 1..Len(stream)
  PROVE  (receive_buffer # <<>> /\ IsLine(receive_buffer, pos + 1))
           <=> \E n \in 1..MaxLine : HasLength(pos + 1, n)
<1> DEFINE L == Len(receive_buffer)
           first == pos - L
<1>1. /\ pos \in Nat /\ MaxLine \in Nat \ {0}
      /\ L \in 0..MaxLine /\ L <= pos /\ first \in 0..pos
      /\ (receive_buffer = <<>> <=> L = 0)
  BY BoundsAssumption DEF Inv, StreamType, BufferFramed, Framed
<1>2. /\ Framed(stream, receive_buffer, pos)
      /\ Data(stream, first + 1, pos)
      /\ Starts(stream, first)
  BY DEF Inv, BufferFramed, Framed
<1>3. IsLine(receive_buffer, pos + 1) <=> (L = pos \/ stream[first] # DataByte)
  <2> DEFINE n == pos + 1
  <2>1. n - 1 = pos /\ n - 1 - L = first
    BY <1>1
  <2> HIDE DEF n
  <2>2. IsLine(receive_buffer, n) <=>
          Framed(stream, receive_buffer, pos) /\ (L = pos \/ stream[first] # DataByte)
    BY <2>1 DEF IsLine
  <2> QED BY <1>2, <2>2 DEF n
<1> HIDE DEF L
<1>4. ASSUME NEW n \in 1..MaxLine
      PROVE  HasLength(pos + 1, n) <=>
               n <= pos /\ Data(stream, pos - n + 1, pos)
               /\ (n = pos \/ stream[pos - n] # DataByte)
  <2> DEFINE k == pos + 1
  <2>1. /\ k - n = pos - n + 1 /\ k - 1 = pos /\ k - n - 1 = pos - n
        /\ (n < k <=> n <= pos)
    BY <1>1
  <2> HIDE DEF k
  <2>2. HasLength(k, n) <=>
          n <= pos /\ Data(stream, pos - n + 1, pos)
          /\ (n = pos \/ stream[pos - n] # DataByte)
    BY <2>1 DEF HasLength
  <2> QED BY <2>2 DEF k
<1>5. ASSUME receive_buffer # <<>>, IsLine(receive_buffer, pos + 1)
      PROVE  \E n \in 1..MaxLine : HasLength(pos + 1, n)
  <2>1. L \in 1..MaxLine
    BY <1>1, <1>5
  <2> QED BY <2>1, <1>1, <1>2, <1>3, <1>4, <1>5
<1>6. ASSUME NEW n \in 1..MaxLine, HasLength(pos + 1, n)
      PROVE  receive_buffer # <<>> /\ IsLine(receive_buffer, pos + 1)
  <2>1. /\ n <= pos /\ n \in Nat \ {0}
        /\ \A j \in pos - n + 1 .. pos : stream[j] = DataByte
        /\ n = pos \/ stream[pos - n] # DataByte
    BY <1>4, <1>6, <1>1 DEF Data
  <2>2. \A j \in first + 1 .. pos : stream[j] = DataByte
    BY <1>2 DEF Data
  <2>3. ASSUME n < L PROVE FALSE
    <3>1. n # pos /\ pos - n \in first + 1 .. pos
      BY <1>1, <2>1, <2>3
    <3> QED BY <3>1, <2>1, <2>2
  <2>4. CASE first = 0
    <3>1. L = pos
      BY <2>4, <1>1
    <3> QED BY <3>1, <2>1, <1>1, <1>3
  <2>5. CASE first # 0 /\ stream[first] # DataByte
    <3>1. ~(first \in pos - n + 1 .. pos)
      BY <2>1, <2>5
    <3>2. L # 0
      BY <3>1, <1>1, <2>1
    <3> QED BY <3>2, <2>5, <1>1, <1>3
  <2>6. CASE first > MaxLine /\ Data(stream, first - MaxLine, first)
    <3>1. n # pos /\ pos - n \in first - MaxLine .. pos
      BY <2>6, <1>1, <2>1
    <3>2. pos - n \in first - MaxLine .. first \/ pos - n \in first + 1 .. pos
      BY <3>1, <1>1, <2>1
    <3>3. stream[pos - n] = DataByte
      BY <2>2, <2>6, <3>2 DEF Data
    <3> QED BY <2>1, <3>1, <3>3
  <2> QED BY <2>4, <2>5, <2>6, <1>2 DEF Starts
<1> QED BY <1>5, <1>6

(* A newline's line is written when the sensor sends the newline, and what *)
(* the node has handled and published is not touched.                      *)
LEMMA SendingWrites ==
  ASSUME TypeOK, NEW t \in Tokens, stream' = Append(stream, t),
         UNCHANGED <<pos, published>>
  PROVE  [Channel!Next]_(Channel!chan)
<1> DEFINE new == Len(stream) + 1
<1>1. /\ stream \in Seq(Tokens) /\ stream' \in Seq(Tokens)
      /\ Len(stream) \in Nat /\ pos \in 0..Len(stream)
      /\ Newlines \subseteq 1..Len(stream)
      /\ Newlines' = Newlines \cup (IF t = DataByte THEN {} ELSE {new})
  BY TypeForms, StreamGrows
<1>2. \A k \in Newlines : LineAt(k)' = LineAt(k)
  BY <1>1, LineSurvives
<1>3. Out' = Out
  BY DEF Out
<1>4. ~(new <= pos)
  BY <1>1
<1> HIDE DEF new
<1>5. Handled' = Handled
  <2>1. {n \in Newlines' : n <= pos} = {n \in Newlines : n <= pos}
    BY <1>1, <1>4
  <2>2. \A k \in {n \in Newlines : n <= pos} : LineAt(k)' = LineAt(k)
    BY <1>2
  <2>3. Handled' = {LineAt(k)' : k \in {n \in Newlines : n <= pos}}
    BY <2>1 DEF Handled
  <2> QED BY <2>2, <2>3 DEF Handled
<1>6. CASE t = DataByte
  <2>1. Newlines' = Newlines
    BY <1>1, <1>6
  <2>2. Written' = Written
    BY <1>2, <2>1 DEF Written
  <2> QED BY <2>2, <1>3, <1>5 DEF Channel!chan
<1>7. CASE t # DataByte
  <2>1. Newlines' = Newlines \cup {new} /\ new \in Newlines'
    BY <1>1, <1>7
  <2> SUFFICES ASSUME NEW k, k = new PROVE Channel!Write
    BY DEF Channel!Next
  <2>2. k \in Newlines'
    BY <2>1
  <2>3. /\ LineAt(k)' \in Channel!Line
        /\ LineAt(k)'.at = k
    BY <2>2, LineTypeNext, <1>1
  <2>4. Written' = Written \cup {LineAt(k)'}
    BY <1>2, <2>1 DEF Written
  <2>5. \A m \in Written : m.at < LineAt(k)'.at
    <3>1. \A j \in Newlines : LineAt(j).at = j /\ j < new
      BY <1>1, LineType DEF new
    <3> QED BY <3>1, <2>3 DEF Written
  <2> QED BY <2>3, <2>4, <2>5, <1>3, <1>5 DEF Channel!Write
<1> QED BY <1>6, <1>7

(* Two sequences with the same elements are the same.                      *)
LEMMA SameElements ==
  ASSUME NEW S, NEW s \in Seq(S), NEW r \in Seq(S), Len(r) = Len(s),
         \A i \in 1..Len(s) : r[i] = s[i]
  PROVE  r = s
OBVIOUS

(* What has been published, as the channel sees it.                        *)
LEMMA OutForms ==
  ASSUME NEW s \in Seq(Report)
  PROVE  LET lines == [i \in DOMAIN s |-> [at |-> s[i].nl, topic |-> s[i].topic]]
         IN  lines \in Seq(Channel!Line) /\ Len(lines) = Len(s)
<1>1. DOMAIN s = 1..Len(s) /\ Len(s) \in Nat
  OBVIOUS
<1>2. \A i \in 1..Len(s) : [at |-> s[i].nl, topic |-> s[i].topic] \in Channel!Line
  <2>1. Topics = Channel!Topics
    BY DEF Topics, Channel!Topics
  <2> QED BY <2>1, <1>1, ReportElement DEF Channel!Line
<1> QED BY <1>1, <1>2

(* A newline is read: its line, the first one that was not handled, is     *)
(* handled, and published if it has a topic.                               *)
LEMMA ReadingHandles ==
  ASSUME TypeOK, Inv, ReadNewline
  PROVE  Channel!Handle
<1> DEFINE new == pos + 1
<1>1. /\ stream \in Seq(Tokens) /\ Len(stream) \in Nat /\ pos \in Nat /\ pos' = new
      /\ new \in Newlines /\ new \in 1..Len(stream) /\ stream' = stream
      /\ Newlines \subseteq 1..Len(stream)
      /\ published \in Seq(Report) /\ published' \in Seq(Report)
  <2>1. new \in Newlines /\ pos' = new /\ stream' = stream
    BY ReadPublishes DEF ReadNewline, sensorVars
  <2>2. TypeOK'
    BY TypeStep DEF Next, Read
  <2>3. published' \in Seq(Report)
    BY <2>2 DEF TypeOK, Report
  <2>4. Newlines \subseteq 1..Len(stream)
    BY TypeForms DEF Newlines
  <2> QED BY <2>1, <2>3, <2>4, TypeForms
<1>2. /\ LineAt(new) \in Channel!Line /\ LineAt(new).at = new
      /\ LineAt(new).topic = LineTopic(new)
      /\ \A k \in Newlines : LineAt(k).at = k
  BY <1>1, LineType
<1>3. Newlines' = Newlines /\ \A k : LineAt(k)' = LineAt(k)
  BY <1>1 DEF Newlines, LineAt, LineTopic, HasLength
<1>4. Written' = Written
  BY <1>3 DEF Written
<1>5. \A n \in Newlines : (n <= pos' <=> n <= pos \/ n = new) /\ ~(new <= pos)
  BY <1>1
<1>6. LineAt(new) \in Written \ Handled
  BY <1>1, <1>2, <1>5 DEF Written, Handled
<1>7. \A m \in Written \ Handled : LineAt(new).at <= m.at
  <2>1. ASSUME NEW k \in Newlines, LineAt(k) \notin Handled PROVE new <= k
    BY <1>1, <2>1 DEF Handled
  <2> QED BY <2>1, <1>2 DEF Written
<1>8. Handled' = Handled \cup {LineAt(new)}
  BY <1>1, <1>3, <1>5 DEF Handled
<1>9. published' = published <=> LineTopic(new) = "none"
  <2>1. LineTopic(new) = "none" <=>
          \/ ~(receive_buffer # <<>> /\ IsLine(receive_buffer, new))
          \/ Topic(stream[new]) = "none"
    BY <1>1, BufferIsLine DEF LineTopic
  <2>2. CASE receive_buffer = <<>>
    BY <2>1, <2>2 DEF ReadNewline
  <2>3. CASE receive_buffer # <<>>
    <3>1. Parse(receive_buffer, new)
      BY <2>3 DEF ReadNewline
    <3>2. ASSUME NEW r PROVE Append(published, r) # published
      BY <1>1
    <3> QED BY <2>1, <2>3, <3>1, <3>2 DEF Parse
  <2> QED BY <2>2, <2>3
<1>10. Out' = IF LineTopic(new) = "none" THEN Out ELSE Append(Out, LineAt(new))
  <2>1. CASE LineTopic(new) = "none"
    BY <2>1, <1>9 DEF Out
  <2>2. CASE LineTopic(new) # "none"
    <3>1. PICK r \in Report :
            /\ published' = Append(published, r)
            /\ r.topic = Topic(stream[new]) /\ r.nl = new
      BY <2>2, <1>9, ReadPublishes
    <3>2. r.topic = LineTopic(new)
      BY <2>2, <3>1 DEF LineTopic
    <3>3. /\ Len(published') = Len(published) + 1 /\ Len(published) \in Nat
          /\ \A i \in 1..Len(published) : published'[i] = published[i]
          /\ published'[Len(published) + 1] = r
      BY <1>1, <3>1, AppendKeeps
    <3>4. /\ Out \in Seq(Channel!Line) /\ Len(Out) = Len(published)
          /\ Out' \in Seq(Channel!Line) /\ Len(Out') = Len(published')
      BY <1>1, OutForms DEF Out
    <3> DEFINE more == Append(Out, LineAt(new))
    <3>5. /\ more \in Seq(Channel!Line) /\ Len(more) = Len(Out) + 1
          /\ \A i \in 1..Len(Out) : more[i] = Out[i]
          /\ more[Len(Out) + 1] = LineAt(new)
      BY <1>2, <3>4, AppendKeeps
    <3> HIDE DEF more
    <3>6. ASSUME NEW i \in 1..Len(published) PROVE Out'[i] = more[i]
      <4>1. i \in DOMAIN published /\ i \in DOMAIN published'
        BY <1>1, <3>3
      <4>2. published'[i] = published[i] /\ more[i] = Out[i]
        BY <3>3, <3>4, <3>5
      <4> QED BY <4>1, <4>2 DEF Out
    <3>7. Out'[Len(published) + 1] = LineAt(new)
      BY <1>1, <3>1, <3>2, <3>3 DEF Out, LineAt
    <3>8. \A i \in 1..Len(more) : Out'[i] = more[i]
      BY <3>3, <3>4, <3>5, <3>6, <3>7
    <3>9. Out' = more
      BY <3>3, <3>4, <3>5, <3>8, SameElements
    <3> QED BY <2>2, <3>9 DEF more
  <2> QED BY <2>1, <2>2
<1> QED BY <1>2, <1>4, <1>6, <1>7, <1>8, <1>10 DEF Channel!Handle

(* Every step of the node, the sensor and the clients is a step of the     *)
(* channel, or leaves it alone.                                            *)
LEMMA ChannelStep == TypeOK /\ Inv /\ [Next]_vars => [Channel!Next]_(Channel!chan)
<1> SUFFICES ASSUME TypeOK, Inv, [Next]_vars PROVE [Channel!Next]_(Channel!chan)
  OBVIOUS
<1>1. CASE Sensor
  <2>1. UNCHANGED <<pos, published>>
    BY <1>1 DEF Sensor, SensorSendsByte, SensorReports, SensorSendsBlank, SensorAnswers,
                readVars
  <2> QED BY <1>1, <2>1, SensorAppends, SendingWrites
<1>2. CASE ReadNewline
  BY <1>2, ReadingHandles DEF Channel!Next
<1>3. CASE ReadByte
  <2>1. /\ stream' = stream /\ published' = published /\ pos' = pos + 1 /\ pos \in Nat
        /\ Len(stream) \in Nat /\ stream[pos + 1] = DataByte
    BY <1>3, TypeForms DEF ReadByte, sensorVars
  <2>2. /\ Newlines \subseteq Nat /\ pos + 1 \notin Newlines
        /\ Newlines' = Newlines /\ \A k : LineAt(k)' = LineAt(k)
    BY <2>1 DEF Newlines, LineAt, LineTopic, HasLength
  <2>3. \A k \in Newlines : k <= pos' <=> k <= pos
    BY <2>1, <2>2
  <2>4. Written' = Written /\ Out' = Out
    BY <2>1, <2>2 DEF Written, Out
  <2>5. Handled' = Handled
    BY <2>2, <2>3 DEF Handled
  <2> QED BY <2>4, <2>5 DEF Channel!chan
<1>4. ASSUME UNCHANGED <<stream, pos, published>> PROVE UNCHANGED Channel!chan
  BY <1>4 DEF Channel!chan, Written, Handled, Out, Newlines, LineAt, LineTopic, HasLength
<1>5. CASE ReadTimesOut \/ ReadEnds \/ Startup \/ ClientPublishes \/ TakeCommand
           \/ TimerFires \/ PeerEnds \/ Shutdown
  BY <1>4, <1>5 DEF ReadTimesOut, ReadEnds, Startup, StartAcoustic, StartConfig,
                    ClientPublishes, TakeCommand, TimerFires, PeerEnds, Shutdown,
                    sensorVars, readVars
<1>6. CASE UNCHANGED vars
  BY <1>4, <1>6 DEF vars
<1> QED BY <1>1, <1>2, <1>3, <1>5, <1>6 DEF Next, Read

(* At the start nothing is written, handled or out.                        *)
LEMMA ChannelInit == Init => Channel!Init
<1> SUFFICES ASSUME Init PROVE Channel!Init
  OBVIOUS
<1>1. stream = <<>> /\ published = <<>>
  BY DEF Init
<1>2. Newlines = {} /\ DOMAIN published = {}
  BY <1>1 DEF Newlines
<1>3. Written = {} /\ Handled = {}
  BY <1>2 DEF Written, Handled
<1>4. Out = <<>>
  BY <1>1 DEF Out
<1> QED BY <1>3, <1>4 DEF Channel!Init

(* The node implements the channel: whatever the sizes of lines and buffer *)
(* and however recv() is interrupted, every line is published once, in the *)
(* order sent, on the topic its type calls for, or not at all for a reason *)
(* that lies in the line.                                                  *)
THEOREM ChannelImplemented == Spec => ImplementsChannel
<1>1. Init => TypeOK /\ Inv /\ Channel!Init
  BY TypeInit, InvInit, ChannelInit
<1>2. TypeOK /\ Inv /\ [Next]_vars => (TypeOK /\ Inv)'
  BY TypeStep, InvStep
<1>3. TypeOK /\ Inv /\ [Next]_vars => [Channel!Next]_(Channel!chan)
  BY ChannelStep
<1> QED BY <1>1, <1>2, <1>3, PTL DEF Spec, ImplementsChannel, Channel!Spec

(* What the channel keeps besides: the handled lines are the first ones.   *)
ChannelInv ==
  /\ Written \subseteq Channel!Line
  /\ Handled \subseteq Written
  /\ \A l, m \in Written : l.at = m.at => l = m
  /\ \A l \in Handled, m \in Written \ Handled : l.at < m.at
  /\ Out \in Seq(Channel!Line)
  /\ Channel!Complete

LEMMA ChannelInvStep == ChannelInv /\ [Channel!Next]_(Channel!chan) => ChannelInv'
<1> SUFFICES ASSUME ChannelInv, [Channel!Next]_(Channel!chan) PROVE ChannelInv'
  OBVIOUS
<1>1. /\ \A l \in Written : l.at \in Nat
      /\ Len(Out) \in Nat /\ DOMAIN Out = 1..Len(Out)
      /\ \A i \in DOMAIN Out : Out[i] \in Handled
  BY DEF ChannelInv, Channel!Line, Channel!Complete
<1>2. CASE Channel!Write
  <2>1. PICK l \in Channel!Line : /\ \A m \in Written : m.at < l.at
                                  /\ Written' = Written \cup {l}
    BY <1>2 DEF Channel!Write
  <2>2. Handled' = Handled /\ Out' = Out
    BY <1>2 DEF Channel!Write
  <2>3. l \notin Written /\ l.at \in Nat
    BY <2>1, <1>1 DEF Channel!Line
  <2>4. /\ Written' \subseteq Channel!Line /\ Handled' \subseteq Written'
        /\ Out' \in Seq(Channel!Line)
    BY <2>1, <2>2 DEF ChannelInv
  <2>5. \A m, n \in Written' : m.at = n.at => m = n
    BY <2>1, <2>3, <1>1 DEF ChannelInv
  <2>6. \A m \in Handled', n \in Written' \ Handled' : m.at < n.at
    BY <2>1, <2>2 DEF ChannelInv
  <2>7. Channel!Complete'
    BY <2>1, <2>2, <2>3, <1>1 DEF ChannelInv, Channel!Complete, Channel!OutOf
  <2> QED BY <2>4, <2>5, <2>6, <2>7 DEF ChannelInv
<1>3. CASE Channel!Handle
  <2>1. PICK l \in Written \ Handled :
          /\ \A m \in Written \ Handled : l.at <= m.at
          /\ Handled' = Handled \cup {l}
          /\ Out' = IF l.topic = "none" THEN Out ELSE Append(Out, l)
    BY <1>3 DEF Channel!Handle
  <2>2. Written' = Written /\ l \in Channel!Line /\ l.at \in Nat
    BY <1>3, <1>1 DEF Channel!Handle, ChannelInv
  <2>3. \A m \in Handled', n \in Written' \ Handled' : m.at < n.at
    <3>1. ASSUME NEW n \in Written \ Handled, n # l PROVE l.at < n.at
      BY <3>1, <2>1, <1>1 DEF ChannelInv
    <3> QED BY <3>1, <2>1, <2>2 DEF ChannelInv
  <2>4. CASE l.topic = "none"
    <3>1. Out' = Out
      BY <2>1, <2>4
    <3>2. Channel!Complete'
      BY <3>1, <2>1, <2>2, <2>4, <1>1 DEF ChannelInv, Channel!Complete, Channel!OutOf
    <3> QED BY <3>1, <3>2, <2>1, <2>2, <2>3 DEF ChannelInv
  <2>5. CASE l.topic # "none"
    <3>1. /\ Out' \in Seq(Channel!Line)
          /\ DOMAIN Out' = 1..Len(Out) + 1
          /\ \A i \in 1..Len(Out) : Out'[i] = Out[i]
          /\ Out'[Len(Out) + 1] = l
      BY <2>1, <2>2, <2>5, AppendKeeps DEF ChannelInv
    <3>2. \A i, j \in DOMAIN Out' : i < j => Out'[i].at < Out'[j].at
      <4> SUFFICES ASSUME NEW i \in DOMAIN Out', NEW j \in DOMAIN Out', i < j
                   PROVE  Out'[i].at < Out'[j].at
        OBVIOUS
      <4>1. i \in DOMAIN Out /\ Out'[i] = Out[i] /\ Out[i] \in Handled
        BY <1>1, <3>1
      <4>2. CASE j = Len(Out) + 1
        BY <4>1, <4>2, <2>1, <3>1 DEF ChannelInv
      <4>3. CASE j # Len(Out) + 1
        <5>1. j \in DOMAIN Out /\ Out'[j] = Out[j]
          BY <4>3, <1>1, <3>1
        <5> QED BY <4>1, <5>1 DEF ChannelInv, Channel!Complete
      <4> QED BY <4>2, <4>3
    <3>3. \A m : (\E i \in DOMAIN Out' : Out'[i] = m) <=>
                   (m = l \/ \E i \in DOMAIN Out : Out[i] = m)
      BY <1>1, <3>1
    <3>4. \A m \in Written' : m \in Handled' /\ m.topic # "none" <=>
                                \E i \in DOMAIN Out' : Out'[i] = m
      BY <3>3, <2>1, <2>2, <2>5 DEF ChannelInv, Channel!Complete, Channel!OutOf
    <3>5. \A i \in DOMAIN Out' : Out'[i] \in Handled'
      BY <1>1, <3>1, <2>1
    <3>6. Channel!Complete'
      BY <3>2, <3>4, <3>5 DEF Channel!Complete, Channel!OutOf
    <3> QED BY <3>1, <3>6, <2>1, <2>2, <2>3 DEF ChannelInv
  <2> QED BY <2>4, <2>5
<1>4. CASE UNCHANGED Channel!chan
  <2>1. Written' = Written /\ Handled' = Handled /\ Out' = Out
    BY <1>4 DEF Channel!chan
  <2> QED BY <2>1 DEF ChannelInv, Channel!Complete, Channel!OutOf
<1> QED BY <1>2, <1>3, <1>4 DEF Channel!Next

(* So a subscriber gets the lines in the order sent and none twice, and a  *)
(* line that has a topic is published as soon as it is handled: this holds *)
(* of every implementation of the channel, and of the node as one of them. *)
THEOREM ChannelIsComplete == Spec => []Channel!Complete
<1>1. Channel!Init => ChannelInv
  BY DEF Channel!Init, ChannelInv, Channel!Complete, Channel!OutOf
<1>2. ChannelInv /\ [Channel!Next]_(Channel!chan) => ChannelInv'
  BY ChannelInvStep
<1>3. ChannelInv => Channel!Complete
  BY DEF ChannelInv
<1>4. Spec => Channel!Spec
  BY ChannelImplemented DEF ImplementsChannel
<1> QED BY <1>1, <1>2, <1>3, <1>4, PTL DEF Channel!Spec

-----------------------------------------------------------------------------
(* Queries.  An accepted query is on the wire, or answered in a line that  *)
(* has not been read, or answered: the safety half of QueriesAnswered.     *)
OnItsWay(n) ==
  \/ \E j \in served + 1..Len(onWire) : onWire[j].id = n
  \/ \E k \in Newlines : k > pos /\ stream[k].id = n
  \/ Answered(n)

QueriesKept ==
  conn = "open" => \A n \in 1..MaxRequests : Accepted(n) => OnItsWay(n)

\* A report is about the request its line is about.
ReportsRead ==
  \A i \in DOMAIN published :
    published[i].nl \in Newlines /\ published[i].id = stream[published[i].nl].id

\* A line the sensor has answered has its answer in the stream.
ServedAnswered == \A j \in 1..served : \E k \in Newlines : stream[k].id = onWire[j].id

\* While the connection is up a command that is not refused gets through.
AcceptedSent ==
  conn = "open" => \A n \in 1..MaxRequests : Accepted(n) => OnWire(n)

QueryInv == ReportsRead /\ ServedAnswered /\ AcceptedSent

(* Reports: a newline is read with its line's contents, and the stream     *)
(* does not change under a report.                                         *)
LEMMA ReportsStep == TypeOK /\ ReportsRead /\ [Next]_vars => ReportsRead'
<1> SUFFICES ASSUME TypeOK, ReportsRead, [Next]_vars PROVE ReportsRead'
  OBVIOUS
<1>t. stream \in Seq(Tokens) /\ published \in Seq(Report)
  BY TypeForms
<1>1. CASE Sensor
  <2>1. PICK t \in Tokens : stream' = Append(stream, t)
    BY <1>1, SensorAppends
  <2>2. published' = published
    BY <1>1 DEF Sensor, SensorSendsByte, SensorReports, SensorSendsBlank, SensorAnswers,
                readVars
  <2>3. \A k \in Newlines : k \in Newlines' /\ stream'[k] = stream[k]
    BY <1>t, <2>1, StreamGrows
  <2> QED BY <2>2, <2>3 DEF ReportsRead
<1>2. CASE ReadNewline
  <2>1. stream' = stream /\ Newlines' = Newlines
    BY <1>2 DEF ReadNewline, sensorVars, Newlines
  <2>2. /\ pos + 1 \in Newlines
        /\ \/ published' = published
           \/ \E r \in Report : /\ published' = Append(published, r)
                                /\ r.nl = pos + 1 /\ r.id = stream[pos + 1].id
    BY <1>2, ReadPublishes
  <2>3. CASE published' = published
    BY <2>1, <2>3 DEF ReportsRead
  <2>4. CASE published' # published
    <3>1. PICK r \in Report : /\ published' = Append(published, r)
                              /\ r.nl = pos + 1 /\ r.id = stream[pos + 1].id
      BY <2>2, <2>4
    <3>2. \A i \in DOMAIN published' :
            \/ i \in DOMAIN published /\ published'[i] = published[i]
            \/ published'[i] = r
      BY <3>1, <1>t
    <3> QED BY <2>1, <2>2, <3>1, <3>2 DEF ReportsRead
  <2> QED BY <2>3, <2>4
<1>3. ASSUME UNCHANGED <<stream, published>> PROVE ReportsRead'
  BY <1>3 DEF ReportsRead, Newlines
<1>4. CASE Startup \/ ClientPublishes \/ TakeCommand \/ TimerFires \/ PeerEnds \/ Shutdown
           \/ ReadByte \/ ReadTimesOut \/ ReadEnds
  BY <1>3, <1>4 DEF Startup, StartAcoustic, StartConfig, ClientPublishes, TakeCommand,
                    TimerFires, PeerEnds, Shutdown, ReadByte, ReadTimesOut, ReadEnds,
                    sensorVars, readVars
<1>5. CASE UNCHANGED vars
  BY <1>3, <1>5 DEF vars
<1> QED BY <1>1, <1>2, <1>3, <1>4, <1>5 DEF Next, Read

(* Only SensorAnswers answers, and it answers the next line received.      *)
LEMMA ServedStep == TypeOK /\ ServedAnswered /\ [Next]_vars => ServedAnswered'
<1> SUFFICES ASSUME TypeOK, ServedAnswered, [Next]_vars PROVE ServedAnswered'
  OBVIOUS
<1>t. /\ stream \in Seq(Tokens) /\ onWire \in Seq(WireLine)
      /\ Len(onWire) \in Nat /\ served \in 0..Len(onWire) /\ DOMAIN onWire = 1..Len(onWire)
  BY TypeForms
<1>1. CASE Sensor
  <2>1. PICK t \in Tokens : stream' = Append(stream, t)
    BY <1>1, SensorAppends
  <2>2. \A k \in Newlines : k \in Newlines' /\ stream'[k] = stream[k]
    BY <1>t, <2>1, StreamGrows
  <2>3. onWire' = onWire
    BY <1>1 DEF Sensor, SensorSendsByte, SensorReports, SensorSendsBlank, SensorAnswers,
                commandVars
  <2>4. CASE SensorAnswers
    <3>1. PICK u \in Contents : stream' = Append(stream, u) /\ u.id = onWire[served + 1].id
      BY <2>4, AnswerType
    <3>2. u \in Tokens /\ u # DataByte
      BY DataByteAssumption DEF Tokens
    <3>3. Len(stream) + 1 \in Newlines' /\ stream'[Len(stream) + 1] = u
      BY <1>t, <3>1, <3>2, StreamGrows
    <3>4. \A j \in 1..served' : j \in 1..served \/ j = served + 1
      BY <2>4, <1>t DEF SensorAnswers
    <3> QED BY <2>2, <2>3, <3>1, <3>3, <3>4 DEF ServedAnswered
  <2>5. CASE served' = served
    BY <2>2, <2>3, <2>5 DEF ServedAnswered
  <2> QED BY <1>1, <2>4, <2>5 DEF Sensor, SensorSendsByte, SensorReports, SensorSendsBlank
<1>2. ASSUME UNCHANGED <<stream, served>>, NEW id \in Nat, Sends(id) PROVE ServedAnswered'
  <2>1. \A j \in 1..served : onWire'[j] = onWire[j]
    BY <1>2, <1>t, SendsOnWire
  <2> QED BY <1>2, <2>1 DEF ServedAnswered, Newlines
<1>3. CASE Startup \/ TakeCommand
  <2>1. \E id \in Nat : Sends(id)
    <3>1. CASE Startup
      BY <3>1, StartupSends
    <3>2. CASE TakeCommand
      BY <3>2, HeadType, CommandSends DEF TakeCommand
    <3> QED BY <1>3, <3>1, <3>2
  <2>2. UNCHANGED <<stream, served>>
    BY <1>3 DEF Startup, StartAcoustic, StartConfig, TakeCommand, sensorVars
  <2> QED BY <1>2, <2>1, <2>2
<1>4. ASSUME UNCHANGED <<stream, served, onWire>> PROVE ServedAnswered'
  BY <1>4 DEF ServedAnswered, Newlines
<1>5. CASE ClientPublishes \/ TimerFires \/ Read \/ PeerEnds \/ Shutdown
  BY <1>4, <1>5 DEF ClientPublishes, TimerFires, Read, ReadByte, ReadNewline, ReadTimesOut,
                    ReadEnds, PeerEnds, Shutdown, sensorVars, commandVars
<1>6. CASE UNCHANGED vars
  BY <1>4, <1>6 DEF vars
<1> QED BY <1>1, <1>3, <1>5, <1>6 DEF Next

(* A query whose send succeeds while the connection is up has reached the  *)
(* sensor, and one whose send fails is refused.                            *)
LEMMA AcceptedStep == TypeOK /\ Numbered /\ AcceptedSent /\ [Next]_vars => AcceptedSent'
<1> SUFFICES ASSUME TypeOK, Numbered, AcceptedSent, [Next]_vars PROVE AcceptedSent'
  OBVIOUS
<1>t. onWire \in Seq(WireLine)
  BY TypeForms
<1>1. ASSUME conn' = "open" => conn = "open", UNCHANGED <<refused, taken>>,
             NEW id \in Nat, Sends(id)
      PROVE  AcceptedSent'
  <2>1. \A n \in Nat : OnWire(n) => OnWire(n)'
    BY <1>1, <1>t, SendsOnWire
  <2>2. \A n : Accepted(n)' <=> Accepted(n)
    BY <1>1 DEF Accepted
  <2> QED BY <1>1, <2>1, <2>2 DEF AcceptedSent
<1>2. CASE TakeCommand
  <2> DEFINE c == Head(inbox)
  <2>1. /\ c \in Message /\ c.id \in Nat /\ c.msg.value \in Values /\ Command(c)
        /\ taken' = taken \cup {c} /\ conn' = conn
    BY <1>2, HeadType DEF TakeCommand
  <2>2. \A d \in taken : d.id # c.id
    <3>1. c.id = Oldest /\ Oldest \in Nat
      BY <1>2, HeadNumber DEF Numbered
    <3>2. \A n \in 1..Oldest - 1 : n # Oldest
      BY <3>1
    <3> QED BY <3>1, <3>2 DEF Numbered
  <2> HIDE DEF c
  <2>3. Sends(c.id) /\ refused \subseteq refused'
    BY <2>1, CommandSends
  <2>4. \A n \in Nat : OnWire(n) => OnWire(n)'
    BY <2>1, <2>3, <1>t, SendsOnWire
  <2>5. ASSUME NEW n \in 1..MaxRequests, conn = "open", n \notin refused',
               c.id = n, c.msg.command \in Commands \ {"set_config"}
        PROVE  OnWire(n)'
    <3>1. PICK ok \in BOOLEAN :
            /\ Send(Line(n, c.msg.command, "none", "none"), ok)
            /\ refused' = IF ok THEN refused ELSE refused \cup {n}
      BY <2>1, <2>5 DEF Command
    <3>2. ok
      BY <2>5, <3>1
    <3> DEFINE line == Line(n, c.msg.command, "none", "none")
    <3>3. onWire' = Append(onWire, line)
      BY <2>5, <3>1, <3>2 DEF Send
    <3>4. line \in WireLine /\ line.id = n
      BY <2>5, PlainLineType DEF Line
    <3> HIDE DEF line
    <3>5. Len(onWire) + 1 \in DOMAIN onWire' /\ onWire'[Len(onWire) + 1] = line
      BY <1>t, <3>3, <3>4
    <3> QED BY <3>4, <3>5 DEF OnWire
  <2>6. ASSUME NEW n \in 1..MaxRequests, conn = "open", Accepted(n)' PROVE OnWire(n)'
    <3>1. PICK d \in taken' : d.id = n /\ d.msg.command \in Commands \ {"set_config"}
      BY <2>6 DEF Accepted
    <3>2. n \notin refused' /\ n \notin refused
      BY <2>3, <2>6 DEF Accepted
    <3>3. CASE d = c
      BY <2>5, <2>6, <3>1, <3>2, <3>3
    <3>4. CASE d # c
      <4>1. d \in taken
        BY <2>1, <3>1, <3>4
      <4>2. Accepted(n)
        BY <3>1, <3>2, <4>1 DEF Accepted
      <4> QED BY <2>4, <2>6, <4>2 DEF AcceptedSent
    <3> QED BY <3>3, <3>4
  <2> QED BY <2>1, <2>6 DEF AcceptedSent
<1>3. CASE Startup
  <2>1. conn' = conn
    BY <1>3 DEF Startup, StartAcoustic, StartConfig
  <2> QED BY <1>1, <1>3, <2>1, StartupSends
<1>4. ASSUME conn' = "open" => conn = "open", UNCHANGED <<refused, taken, onWire>>
      PROVE  AcceptedSent'
  BY <1>1, <1>4 DEF Sends
<1>5. CASE ClientPublishes \/ TimerFires \/ Read \/ Sensor \/ PeerEnds \/ Shutdown
  BY <1>4, <1>5 DEF ClientPublishes, TimerFires, Read, ReadByte, ReadNewline, ReadTimesOut,
                    ReadEnds, Sensor, SensorSendsByte, SensorReports, SensorSendsBlank,
                    SensorAnswers, PeerEnds, Shutdown, commandVars
<1>6. CASE UNCHANGED vars
  BY <1>4, <1>6 DEF vars
<1> QED BY <1>2, <1>3, <1>5, <1>6 DEF Next

(* No accepted query is lost while the connection is up: its line waits at *)
(* the sensor, or its answer in the stream, or it is answered.             *)
THEOREM QueriesAreKept == Spec => []QueriesKept
<1>1. Init => TypeOK /\ Numbered /\ QueryInv
  <2>1. ASSUME Init PROVE QueryInv
    <3>1. stream = <<>> /\ published = <<>> /\ served = 0 /\ taken = {}
      BY <2>1 DEF Init
    <3>2. 1..served = {}
      BY <3>1
    <3> QED BY <3>1, <3>2 DEF QueryInv, ReportsRead, ServedAnswered, AcceptedSent, Accepted
  <2> QED BY <2>1, TypeInit, NumberedInit
<1>2. TypeOK /\ Numbered /\ QueryInv /\ [Next]_vars => (TypeOK /\ Numbered /\ QueryInv)'
  BY TypeStep, NumberedStep, ReportsStep, ServedStep, AcceptedStep DEF QueryInv
<1>3. TypeOK /\ QueryInv /\ Channel!Complete => QueriesKept
  <2> SUFFICES ASSUME TypeOK, QueryInv, Channel!Complete, conn = "open",
                      NEW n \in 1..MaxRequests, Accepted(n)
               PROVE  OnItsWay(n)
    BY DEF QueriesKept
  <2>1. PICK j \in DOMAIN onWire : onWire[j].id = n
    BY DEF QueryInv, AcceptedSent, OnWire
  <2>2. j \in 1..Len(onWire) /\ served \in Nat
    BY <2>1, TypeForms
  <2>3. CASE j > served
    BY <2>1, <2>2, <2>3 DEF OnItsWay
  <2>4. CASE j <= served
    <3>1. PICK k \in Newlines : stream[k].id = n
      BY <2>1, <2>2, <2>4 DEF QueryInv, ServedAnswered
    <3>2. CASE ~(k <= pos)
      <4>1. k > pos
        BY <3>1, <3>2, TypeForms DEF Newlines
      <4> QED BY <3>1, <4>1 DEF OnItsWay
    <3>3. CASE LineTopic(k) = "none"
      BY <3>1, <3>3 DEF OnItsWay, Answered
    <3>4. CASE k <= pos /\ LineTopic(k) # "none"
      <4>1. LineAt(k) \in Written /\ LineAt(k) \in Handled
        BY <3>4 DEF Written, Handled
      <4>2. LineAt(k).at = k /\ LineAt(k).topic # "none"
        BY <3>4 DEF LineAt
      <4>3. PICK i \in DOMAIN Out : Out[i] = LineAt(k)
        BY <4>1, <4>2 DEF Channel!Complete, Channel!OutOf
      <4>4. i \in DOMAIN published /\ published[i].nl = k
        BY <4>2, <4>3 DEF Out
      <4>5. published[i].id = n
        BY <3>1, <4>4 DEF QueryInv, ReportsRead
      <4> QED BY <4>4, <4>5 DEF OnItsWay, Answered
    <3> QED BY <3>2, <3>3, <3>4
  <2> QED BY <2>2, <2>3, <2>4
<1> QED BY <1>1, <1>2, <1>3, ChannelIsComplete, PTL DEF Spec

-----------------------------------------------------------------------------
(* Unread bytes.  The node gives a connection up only when it has read all *)
(* the sensor managed to send: the safety half of EventuallyRead.          *)
UnreadIsReadable == pos < Len(stream) => fault = 0

\* A connection that was given up has ended, so that nothing more comes.
GivenUp == fault # 0 => conn # "open" /\ pos = Len(stream)

LEMMA GivenUpStep == GivenUp /\ [Next]_vars => GivenUp'
<1> SUFFICES ASSUME GivenUp, [Next]_vars PROVE GivenUp'
  OBVIOUS
<1>1. ASSUME UNCHANGED <<stream, pos, conn, fault>> PROVE GivenUp'
  BY <1>1 DEF GivenUp
<1>2. CASE ReadByte \/ ReadNewline
  <2>1. pos # Len(stream) /\ fault' = fault
    BY <1>2 DEF ReadByte, ReadNewline
  <2> QED BY <2>1 DEF GivenUp
<1>3. CASE ReadTimesOut
  BY <1>1, <1>3 DEF ReadTimesOut, AfterTimeout, sensorVars
<1>4. CASE ReadEnds
  BY <1>4 DEF ReadEnds, GivenUp, sensorVars, readVars
<1>5. CASE Sensor
  <2>1. conn = "open" /\ fault' = fault
    BY <1>5 DEF Sensor, SensorSendsByte, SensorReports, SensorSendsBlank, SensorAnswers
  <2> QED BY <2>1 DEF GivenUp
<1>6. CASE PeerEnds
  BY <1>6 DEF PeerEnds, GivenUp, sensorVars, readVars
<1>7. CASE Shutdown
  BY <1>7 DEF Shutdown, GivenUp, sensorVars, readVars
<1>8. CASE Startup \/ ClientPublishes \/ TakeCommand \/ TimerFires
  BY <1>1, <1>8 DEF Startup, StartAcoustic, StartConfig, ClientPublishes, TakeCommand,
                    TimerFires, sensorVars, readVars
<1>9. CASE UNCHANGED vars
  BY <1>1, <1>9 DEF vars
<1> QED BY <1>2, <1>3, <1>4, <1>5, <1>6, <1>7, <1>8, <1>9 DEF Next, Read

(* What the sensor sent before it closed or reset the connection stays     *)
(* within reach of recv(): fault is not set while bytes are unread.        *)
THEOREM UnreadStaysReadable == Spec => []UnreadIsReadable
<1>1. Init => TypeOK /\ GivenUp
  <2>1. ASSUME Init PROVE GivenUp
    <3>1. pos = 0 /\ stream = <<>> /\ (fault # 0 => conn = "none")
      BY <2>1 DEF Init
    <3> QED BY <3>1 DEF GivenUp
  <2> QED BY <2>1, TypeInit
<1>2. TypeOK /\ GivenUp => UnreadIsReadable
  <2> SUFFICES ASSUME TypeOK, GivenUp, pos < Len(stream) PROVE fault = 0
    BY DEF UnreadIsReadable
  <2>1. pos \in Nat /\ Len(stream) \in Nat
    BY TypeForms
  <2> QED BY <2>1 DEF GivenUp
<1> QED BY <1>1, <1>2, TypeStep, GivenUpStep, PTL DEF Spec
=============================================================================
