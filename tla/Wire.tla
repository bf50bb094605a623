--------------------------------- MODULE Wire ----------------------------------
(***************************************************************************)
(* Published contents on their way to a server and back: publish() writes  *)
(* a method frame, a header frame and body frames (exchange.js,            *)
(* connection.js, serializer.js); the server reads them by the protocol    *)
(* and delivers what it read; the client parses the octets, which arrive   *)
(* in chunks (parser.js). One frame the server sends may be flawed.        *)
(***************************************************************************)
EXTENDS FrameParser

CONSTANTS Contents,    \* the contents the application publishes
          MaxContents, \* how many publish() calls
          FlawsSent    \* the flaws a frame of the server may have

VARIABLES given,       \* the contents published, but those that threw
          calls,       \* how many publish() calls were made
          threw,       \* a publish() threw after it had written its method
          toServer,    \* the frames written, in order
          expecting,   \* the frame the server expects next
          reading,     \* the content the server has read so far
          understood,  \* the contents it has read
          refused      \* it got another frame than the expected one

client == <<given, calls, threw>>
server == <<expecting, reading, understood, refused>>
vars   == <<parserVars, client, toServer, server>>

Channel == 1

-------------------------------------------------------------------------------
(* The client publishes.                                                   *)

PublishArgs(content) ==
  [reserved1 |-> 0, exchange |-> <<>>, routingKey |-> content.routingKey,
   mandatory |-> FALSE, immediate |-> content.immediate]

\* serializeFields throws at a parameter outside its domain.
Matches(properties) ==
  \A i \in 1 .. Len(BasicFields) :
    LET f == BasicFields[i]
    IN  f.name \in DOMAIN properties =>
          CASE f.domain = "octet"    -> properties[f.name] < Base
            [] f.domain = "shortstr" -> Len(properties[f.name]) < Base
            [] OTHER -> TRUE

\* The values a property may have.
Arguments(domain) ==
  CASE domain \in {"octet", "timestamp"} -> Nat
    [] domain = "shortstr" -> Seq(Octet)
    [] domain = "table"    -> Table

\* What the application may publish: a key that fits its length, a body that is a
\* Buffer, and properties whose header fits the buffer of maxFrameBuffer octets it
\* is written into. The least frame of the protocol holds any basic.deliver; and
\* the model counts delivery tags in one octet.
ASSUME ContentAssumption ==
  /\ MaxContents \in Nat /\ MaxContents < Base /\ Base + 16 <= MaxFrame
  /\ \A c \in Contents :
       /\ c.routingKey \in Text /\ c.immediate \in BOOLEAN
       /\ c.body \in Seq(Octet) /\ Len(c.body) < Pow2[WordBits - 1]
       /\ DOMAIN c.properties \subseteq {BasicFields[i].name : i \in DOMAIN BasicFields}
       /\ c.properties = [name \in DOMAIN c.properties |-> c.properties[name]]
       /\ \A i \in DOMAIN BasicFields :
            LET f == BasicFields[i]
            IN  f.name \in DOMAIN c.properties =>
                  c.properties[f.name] \in Arguments(f.domain)
       /\ Matches(c.properties) =>
            Len(SendHeader(Channel, Len(c.body), c.properties)) <= MaxFrame

\* The contents publish() takes: no parameter makes it throw.
Good == {c \in Contents : Matches(c.properties)}

\* No property of them is lost on its way to the reader: publish() takes a
\* priority of 0, an empty string and an integer of any size (connection.js:810-813,
\* serializer.js:27-66), which do not come back as they were.
NothingLost(reader) == \A c \in Good : Survives(reader, WithDefaults(c.properties))

SendMethod(content) ==
  Frame(METHOD, Channel, MethodPayload(60, 40, PublishFields, PublishArgs(content)))

\* The task of publish(): the method is written before the header is made.
Publish(content) ==
  /\ ~executing /\ calls < MaxContents
  /\ calls' = calls + 1
  /\ IF Matches(content.properties)
     THEN /\ given' = Append(given, content)
          /\ toServer' = toServer \o
               <<SendMethod(content),
                 SendHeader(Channel, Len(content.body), content.properties)>>
               \o SendBody(Channel, content.body, MaxFrame)
          /\ UNCHANGED threw
     ELSE /\ threw' = TRUE
          /\ toServer' = Append(toServer, SendMethod(content))
          /\ UNCHANGED given
  /\ UNCHANGED <<parserVars, server>>

-------------------------------------------------------------------------------
(* The server: it reads frames by the protocol, and delivers. (A step of   *)
(* its own while a chunk is parsed would change nothing the parser sees.)  *)

Sent(type, payload, flaw) ==
  [frame |-> [type |-> type, channel |-> Channel, payload |-> payload],
   flaw |-> flaw]

Octets(f) ==
  LET octets == Frame(f.frame.type, Channel, f.frame.payload)
  IN  IF f.flaw = "end" THEN Append(Front(octets), (FrameEnd + 1) % Base) ELSE octets

Write(frames) ==
  /\ sent' = sent \o frames
  /\ stream' = stream \o FlattenSeq([i \in 1 .. Len(frames) |-> Octets(frames[i])])

\* The content goes out again as it was read, in frames of half the size.
Delivery(content) ==
  LET key  == ReadMethod("server", PublishFields, content.method).routingKey
      tag  == [i \in 1 .. 8 |-> IF i = 8 THEN Len(understood) + 1 ELSE 0]
      args == [consumerTag |-> <<3>>, deliveryTag |-> tag, redelivered |-> TRUE,
               exchange |-> <<>>, routingKey |-> key]
      half == MaxFrame \div 2
  IN  <<Sent(METHOD, MethodPayload(60, 60, DeliverFields, args), "none"),
        Sent(HEADER, content.header, "none")>>
      \o [i \in 1 .. (Len(content.body) + half - 1) \div half |->
            Sent(BODY, Take(Drop(content.body, (i - 1) * half), half), "none")]

ServerReads ==
  LET f        == Head(toServer)
      payload  == SubSeq(f, 8, Len(f) - 1)
      read     == CASE f[1] = METHOD -> [method |-> payload, header |-> <<>>, body |-> <<>>]
                    [] f[1] = HEADER -> [reading EXCEPT !.header = payload]
                    [] f[1] = BODY   -> [reading EXCEPT !.body = @ \o payload]
      size     == ReadSize("server", read.header)
      complete == f[1] # METHOD /\ Len(read.body) = size
  IN  /\ ~executing /\ ~refused /\ toServer # <<>>
      /\ toServer' = Tail(toServer)
      /\ IF f[1] # expecting
         THEN refused' = TRUE /\ UNCHANGED <<expecting, reading, understood, bytes>>
         ELSE /\ reading' = read
              /\ expecting' = CASE f[1] = METHOD -> HEADER
                                [] complete      -> METHOD
                                [] OTHER         -> BODY
              /\ IF complete
                 THEN understood' = Append(understood, read) /\ Write(Delivery(read))
                 ELSE UNCHANGED <<understood, bytes>>
              /\ UNCHANGED refused
      /\ UNCHANGED <<client, data, parse, executing, frameHeader, frame, frameBuffer,
                     parsed, callbacks>>

\* Before the last content: a heartbeat, or a frame with a flaw.
SendOther(type, size, flaw) ==
  /\ ~executing /\ Len(understood) < MaxContents
  /\ \A i \in 1 .. Len(sent) : /\ sent[i].flaw = "none"
                               /\ sent[i].frame.type # Heartbeat
  /\ Write(<<Sent(type, [i \in 1 .. size |-> FrameEnd], flaw)>>)
  /\ UNCHANGED <<client, toServer, server, data, parse, executing, frameHeader, frame,
                 frameBuffer, parsed, callbacks>>

ServerSends ==
  \/ SendOther(Heartbeat, 0, "none")
  \/ "type" \in FlawsSent /\ SendOther(Heartbeat + 1, 1, "type")
  \/ "size" \in FlawsSent /\ SendOther(BODY, MaxFrame + 1, "size")
  \/ "end" \in FlawsSent /\ SendOther(BODY, 2, "end")

-------------------------------------------------------------------------------
Init ==
  /\ ParserInit
  /\ given = <<>> /\ calls = 0 /\ threw = FALSE /\ toServer = <<>>
  /\ expecting = METHOD /\ understood = <<>> /\ refused = FALSE
  /\ reading = [method |-> <<>>, header |-> <<>>, body |-> <<>>]

ParserStep ==
  /\ (\E n \in Chunks : Data(n)) \/ Execute
  /\ UNCHANGED <<client, toServer, server>>

Next ==
  \/ \E content \in Contents : Publish(content)
  \/ ServerReads
  \/ ServerSends
  \/ ParserStep

Spec == Init /\ [][Next]_vars

-------------------------------------------------------------------------------
(* Properties.                                                             *)

\* Every variable keeps its type: the parser's buffers never hold more than
\* the frame they collect (parser.js:49-87).
TypeOK ==
  /\ ParserTypeOK
  /\ given \in Seq(Contents) /\ calls \in 0 .. MaxContents /\ threw \in BOOLEAN
  /\ expecting \in {METHOD, HEADER, BODY} /\ refused \in BOOLEAN

\* What a content's properties are once publish() has added the default.
PropertiesOf(content) == WithDefaults(content.properties)

\* The server reads of every content what the application gave: the routing
\* key and flags, each property (none lost, none taken for another), and the
\* body (serializer.js:227-317, connection.js:734-877).
Understood ==
  \A i \in 1 .. Len(understood) :
    LET header == ReadHeader("server", understood[i].header)
    IN  /\ ReadMethod("server", PublishFields, understood[i].method) = PublishArgs(given[i])
        /\ header.args = PropertiesOf(given[i])
        /\ header.rest = <<>>
        /\ understood[i].body = given[i].body

\* The server never gets a frame it does not expect, but after a publish()
\* that threw on a property when its method frame was already written
\* (exchange.js:255-263): the content after it then breaks the connection.
FramingKept == refused => threw

Handed(type) == Filter(handed, [type : {type}, channel : {Channel}, payload : Seq(Octet)])

Join(frames) == FlattenSeq([i \in 1 .. Len(frames) |-> frames[i].payload])

\* The bodies of the first n contents.
Bodies(n) == FlattenSeq([i \in DOMAIN given \cap (1 .. n) |-> given[i].body])

CallbacksAgree ==
  failed \/
  /\ \A i \in 1 .. Len(Handed(METHOD)) :
       ReadMethod("client", DeliverFields, Handed(METHOD)[i].payload).routingKey
         = given[i].routingKey
  /\ \A i \in 1 .. Len(Handed(HEADER)) :
       LET payload == Handed(HEADER)[i].payload
       IN  /\ ReadHeader("client", payload).args = PropertiesOf(given[i])
           /\ ReadSize("client", payload) = Len(given[i].body)
  /\ IsPrefix(Join(Handed(BODY)), Bodies(Len(given)))

NothingHeldBack ==
  stream = <<>> /\ ~executing /\ ~failed =>
    handed = [i \in 1 .. Len(sent) |-> sent[i].frame]

\* The callbacks get, of the i-th content, the routing key, the properties and
\* the size that were published, and the bodies' octets in order, whatever the
\* chunks were (parser.js:282-409); and once the octets sent have all come in,
\* every frame has been handed on, whatever the last chunk ended with
\* (parser.js:72-121).
HeardAsGiven == CallbacksAgree /\ NothingHeldBack

\* The parser implements the reader of frames: in any chunks, every frame is
\* handed on once and in order, and an error means a flawed frame
\* (parser.js:36-139).
Stream == INSTANCE FrameStream WITH
            sent <- sent, passed <- parsed, handed <- handed, failed <- failed,
            stopped <- ~attached /\ ~executing

ImplementsFrameStream == Stream!Spec
===============================================================================
