------------------------------ MODULE FrameParser ------------------------------
(***************************************************************************)
(* The interruptible parser of parser.js, on the connection that feeds it: *)
(* the socket delivers chunks of any length, and execute() runs header(),  *)
(* frame() and frameEnd() over a chunk until one of them wants more. Each  *)
(* call is a step; nothing else runs until the chunk is used up.           *)
(*                                                                         *)
(* throwError() calls onError and returns, so parsing goes on after an     *)
(* error: an oversized frame is collected all the same, and what follows a *)
(* frame of an unknown type in the same chunk is still handed on. It ends  *)
(* with the chunk, because the connection has dropped its parser.          *)
(***************************************************************************)
EXTENDS Codec

CONSTANTS Heartbeat,   \* FrameType.HEARTBEAT
          Chunks,      \* the lengths of the chunks the socket delivers
          MaxFrame     \* maxFrameBuffer, of both ends

\* A frame fits into a Buffer, whose length is less than 2^31.
ASSUME ParserAssumption ==
  /\ {Heartbeat, Heartbeat + 1} \subseteq Octet \ {METHOD, HEADER, BODY}
  /\ Chunks \subseteq Nat \ {0}
  /\ MaxFrame \in Nat /\ MaxFrame > 8 /\ MaxFrame + 1 < Pow2[WordBits - 1]

VARIABLES sent,         \* the frames the server has written, in order
          stream,       \* their octets, not yet received
          data,         \* the rest of the chunk in hand
          parse,        \* the function that takes it on ("none" after a
                        \* missing end marker: undefined)
          executing,    \* inside execute()
          frameHeader,  \* the octets of the header read so far
          frame,        \* its type, channel and size
          frameBuffer,  \* the octets of the payload read so far
          parsed,       \* how many frames have come to their end
          handed,       \* the frames handed to the callbacks
          failed,       \* onError has been called
          attached      \* the connection has its parser

bytes     == <<sent, stream>>
callbacks == <<handed, failed, attached>>
parserVars == <<bytes, data, parse, executing, frameHeader, frame, frameBuffer,
                parsed, callbacks>>

FrameTypes == {METHOD, HEADER, BODY, Heartbeat}
Flaws == {"none", "type", "size", "end"}

ParserInit ==
  /\ sent = <<>> /\ stream = <<>> /\ data = <<>>
  /\ parse = "header" /\ executing = FALSE
  /\ frameHeader = <<>> /\ frame = [type |-> 0, channel |-> 0, size |-> 0]
  /\ frameBuffer = <<>>
  /\ parsed = 0 /\ handed = <<>> /\ failed = FALSE /\ attached = TRUE

ParserTypeOK ==
  /\ \A i \in 1 .. Len(sent) : sent[i].flaw \in Flaws
  /\ {stream[i] : i \in 1 .. Len(stream)} \subseteq Octet
  /\ parse \in {"header", "frame", "frameEnd", "none"}
  /\ executing \in BOOLEAN /\ failed \in BOOLEAN /\ attached \in BOOLEAN
  /\ data # <<>> => executing
  /\ Len(frameHeader) < HeaderSize
  /\ Len(frameBuffer) <= frame.size
  /\ parsed <= Len(sent)

-------------------------------------------------------------------------------
(* The connection: its 'data' listener, and its listener of errors, which  *)
(* sets parser to null.                                                    *)

Data(n) ==
  /\ ~executing /\ n <= Len(stream)
  /\ stream' = Drop(stream, n)
  /\ IF attached THEN data' = Take(stream, n) /\ executing' = TRUE
                 ELSE UNCHANGED <<data, executing>>
  /\ UNCHANGED <<sent, parse, frameHeader, frame, frameBuffer, parsed, callbacks>>

OnError == failed' = TRUE /\ attached' = FALSE

-------------------------------------------------------------------------------
(* execute()                                                               *)

In(function) == executing /\ parse = function

\* The function returns: execute() keeps it for the next chunk.
Return(function) == parse' = function /\ executing' = FALSE /\ data' = <<>>

\* Slip: one frame per chunk.
CallButHeader(function, rest) ==
  /\ parse' = function
  /\ executing' = (function # "header")
  /\ data' = IF function = "header" THEN <<>> ELSE rest

\* The function calls the next one with the rest of the chunk.
Call(function, rest) == parse' = function /\ executing' = TRUE /\ data' = rest

Header ==
  LET needed == HeaderSize - Len(frameHeader)
      octets == frameHeader \o Take(data, needed)
      size   == ParseInt(SubSeq(octets, 4, 7))
  IN  /\ In("header")
      /\ IF Len(data) < needed
         THEN /\ Return("header")
              /\ frameHeader' = octets
              /\ UNCHANGED <<frame, frameBuffer, callbacks>>
         ELSE /\ Call("frame", Drop(data, needed))
              /\ frameHeader' = <<>>
              /\ frame' = [type |-> octets[1], size |-> size,
                           channel |-> ParseInt(SubSeq(octets, 2, 3))]
              /\ frameBuffer' = <<>>
              /\ IF size > MaxFrame THEN OnError ELSE UNCHANGED <<failed, attached>>
              /\ UNCHANGED handed
      /\ UNCHANGED <<bytes, parsed>>

\* Slip: all of the chunk is copied.
PayloadCopiesAll ==
  LET needed == frame.size - Len(frameBuffer)
  IN  /\ In("frame")
      /\ frameBuffer' = frameBuffer \o data
      /\ CASE Len(data) > needed -> Call("frameEnd", Drop(data, needed))
           [] Len(data) = needed -> Return("frameEnd")
           [] OTHER -> Return("frame")
      /\ UNCHANGED <<bytes, frameHeader, frame, parsed, callbacks>>

Payload ==
  LET needed == frame.size - Len(frameBuffer)
  IN  /\ In("frame")
      /\ frameBuffer' = frameBuffer \o Take(data, needed)
      /\ CASE Len(data) > needed -> Call("frameEnd", Drop(data, needed))
           [] Len(data) = needed -> Return("frameEnd")
           [] OTHER -> Return("frame")
      /\ UNCHANGED <<bytes, frameHeader, frame, parsed, callbacks>>

\* The frame as the callbacks get it.
Received == [type |-> frame.type, channel |-> frame.channel, payload |-> frameBuffer]

\* Slip: a frame of any type is taken for good.
EndOfFrameAnyType ==
  /\ In("frameEnd") /\ Head(data) = FrameEnd
  /\ Call("header", Tail(data))
  /\ parsed' = parsed + 1
  /\ handed' = Append(handed, Received)
  /\ UNCHANGED <<bytes, frameHeader, frame, frameBuffer, failed, attached>>

EndOfFrame ==
  /\ In("frameEnd")
  /\ IF Head(data) = FrameEnd
     THEN /\ Call("header", Tail(data))
          /\ parsed' = parsed + 1
          /\ IF frame.type \in FrameTypes
             THEN handed' = Append(handed, Received) /\ UNCHANGED <<failed, attached>>
             ELSE OnError /\ UNCHANGED handed
     ELSE /\ Return("none")
          /\ OnError
          /\ UNCHANGED <<parsed, handed>>
  /\ UNCHANGED <<bytes, frameHeader, frame, frameBuffer>>

Execute == Header \/ Payload \/ EndOfFrame
===============================================================================
