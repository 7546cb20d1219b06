------------------------------ MODULE Framing -------------------------------
(***************************************************************************)
(* One direction of a WebSocket session: the writer that collects frames   *)
(* and sends several in one message, and the reader that takes messages    *)
(* apart again (sever/webtransport.py, sever/wire.py).                     *)
(*                                                                         *)
(* One coroutine at a time writes - transmit() of the node, the holder of  *)
(* the lock in the client: it hands over 1..Batch frames and then drains.  *)
(* A frame is a string of units <<number, position>>, the first of which   *)
(* is the header and tells the length.  aiohttp gives a message to the     *)
(* transport before send_bytes() first waits, and TCP keeps the order.     *)
(*                                                                         *)
(* The readers differ in what they take.  The node and Android take 65536  *)
(* bytes in a message, the Linux client 4615 and iOS one frame.  The       *)
(* codecs of Android and iOS hand a message over frame by frame, which is  *)
(* what ReadHeader and ReadBody do here for all of them.                   *)
(***************************************************************************)
EXTENDS Naturals, Sequences, SequencesExt

CONSTANTS
    Sizes,           \* lengths of frames, header and padding included
    MaxFrame,        \* 4615
    MaxMessage,      \* 65536
    Readers,         \* [max, single]: what the receiving end takes
    Batch,           \* frames written before one drain(): 32, in the client 1
    MaxPending,      \* 512
    MaxFrames        \* bound: frames of a session

ASSUME FramingAssumption ==
    /\ Sizes \subseteq 1..MaxFrame
    /\ MaxFrame <= MaxMessage /\ Batch <= MaxPending
    /\ {MaxFrame, MaxMessage, Batch, MaxPending, MaxFrames} \subseteq Nat
    /\ Readers \subseteq [max : Nat, single : BOOLEAN]
    /\ \A r \in Readers : MaxFrame <= r.max

VARIABLES
    written,     \* lengths of the frames handed to the writer so far
    outgoing,    \* WSWriter.pending: numbers of frames not yet sent
    sender,      \* "idle", "draining", or "sending" while send_bytes() waits
    channel,     \* messages under way
    link,        \* "open", "closing" once a side closed, "cut"
    reader,      \* which of Readers this session has
    buffer,      \* WSReader.buffer
    header,      \* << >>, or the header read_frame has taken already
    frames,      \* what read_frame has returned
    refused      \* << >>, or the message or frame the receiver refused

writerVars == <<written, outgoing, sender>>
readerVars == <<reader, buffer, header, frames, refused>>
framingVars == <<writerVars, channel, link, readerVars>>

Bytes(f) == [k \in 1..written[f] |-> <<f, k>>]
BytesOf(fs) == FlattenSeq([i \in DOMAIN fs |-> Bytes(fs[i])])

FramingInit ==
    /\ written = << >> /\ outgoing = << >> /\ sender = "idle"
    /\ channel = << >> /\ link = "open"
    /\ reader \in Readers
    /\ buffer = << >> /\ header = << >> /\ frames = << >> /\ refused = << >>

-----------------------------------------------------------------------------
(* The writer.                                                             *)

\* write() for each frame of a burst: there is no await between them.
Write(sizes) ==
    /\ link = "open" /\ sender = "idle"
    /\ Len(outgoing) + Len(sizes) <= MaxPending
    /\ Len(written) + Len(sizes) <= MaxFrames
    /\ written' = written \o sizes
    /\ outgoing' = outgoing \o [i \in DOMAIN sizes |-> Len(written) + i]
    /\ sender' = "draining"
    /\ UNCHANGED <<channel, link, readerVars>>

\* Mutant of Coalesced: the limit is looked at before the frame is added.
CoalescedOver(fs) ==
    CHOOSE n \in 1..Len(fs) :
        /\ n = 1 \/ Len(BytesOf(SubSeq(fs, 1, n - 1))) <= MaxMessage
        /\ n = Len(fs) \/ Len(BytesOf(SubSeq(fs, 1, n))) > MaxMessage

\* How many frames go into the next message: as many as fit, at least one.
Coalesced(fs) ==
    CHOOSE n \in 1..Len(fs) :
        /\ n = 1 \/ Len(BytesOf(SubSeq(fs, 1, n))) <= MaxMessage
        /\ n = Len(fs) \/ Len(BytesOf(SubSeq(fs, 1, n + 1))) > MaxMessage

\* Mutant of Left: the frame that did not fit was popped before the look.
LeftShort(n) == SubSeq(outgoing, n + 2, Len(outgoing))

Left(n) == SubSeq(outgoing, n + 1, Len(outgoing))

\* One round of drain(), as far as its await.
Drain ==
    /\ link = "open" /\ sender = "draining" /\ outgoing # << >>
    /\ LET n == Coalesced(outgoing) IN
         /\ channel' = Append(channel, BytesOf(SubSeq(outgoing, 1, n)))
         /\ outgoing' = Left(n)
    /\ sender' = "sending"
    /\ UNCHANGED <<written, link, readerVars>>

\* Mutant of Drained: drain() sends one message only.
DrainedOnce == TRUE

Drained == outgoing = << >>

\* The transport has room again.
SendDone ==
    /\ sender = "sending"
    /\ sender' = IF Drained THEN "idle" ELSE "draining"
    /\ UNCHANGED <<written, outgoing, channel, link, readerVars>>

\* close(): a time limit of 10 s ran out, a replacement, a revocation, an
\* error of the other task; what is still pending is dropped.
WriterClose ==
    /\ link = "open"
    /\ link' = "closing" /\ outgoing' = << >> /\ sender' = "idle"
    /\ UNCHANGED <<written, channel, readerVars>>

\* TCP breaks: what is under way is lost from some point on.
Cut ==
    /\ link # "cut"
    /\ \E n \in 0..Len(channel) : channel' = SubSeq(channel, 1, n)
    /\ link' = "cut" /\ outgoing' = << >> /\ sender' = "idle"
    /\ UNCHANGED <<written, readerVars>>

-----------------------------------------------------------------------------
(* The reader.                                                             *)

\* parse_header: the header of a frame tells its length.
IsHeader(u) == u[2] = 1
LengthOf(u) == written[u[1]]

\* check_message: whole frames, one after the other, and not too long.  The
\* offsets are those its loop visits, from 0 to the end of the message.
WholeFrames(m) ==
    \E offsets \in SUBSET (0..Len(m)) :
        /\ 0 \in offsets
        /\ \A o \in offsets \ {Len(m)} :
             IsHeader(m[o + 1]) /\ o + LengthOf(m[o + 1]) \in offsets

CheckMessage(m) == Len(m) \in 1..MaxMessage /\ WholeFrames(m)

\* max_msg_size, maximumMessageSize: the library ends the session at a longer
\* message before any code of this repository sees it.
WithinLimit(m) == Len(m) <= reader.max

\* Wire.decode of iOS: the message is as long as its header says.
OneFrame(m) == IsHeader(m[1]) /\ LengthOf(m[1]) = Len(m)

\* readexactly's argument.
Needed == IF header = << >> THEN 1 ELSE LengthOf(header[1]) - 1

Reads == refused = << >>

\* The session is closed from this side, and nothing is read any more; the
\* writer learns of it later (Cut).
Refuse(m) == refused' = m /\ UNCHANGED <<channel, buffer, header>>

Receive ==
    /\ Reads /\ Len(buffer) < Needed /\ channel # << >>
    /\ LET m == Head(channel) IN
         IF /\ WithinLimit(m) /\ CheckMessage(m)
            /\ reader.single => OneFrame(m)
            /\ Len(buffer \o m) <= 2 * MaxMessage
           THEN /\ buffer' = buffer \o m /\ channel' = Tail(channel)
                /\ UNCHANGED <<header, refused>>
           ELSE Refuse(m)
    /\ UNCHANGED <<writerVars, link, reader, frames>>

ReadHeader ==
    /\ Reads /\ header = << >> /\ buffer # << >>
    /\ IF IsHeader(Head(buffer))
         THEN /\ header' = <<Head(buffer)>> /\ buffer' = Tail(buffer)
              /\ UNCHANGED <<channel, refused>>
         ELSE Refuse(<<Head(buffer)>>)
    /\ UNCHANGED <<writerVars, link, reader, frames>>

ReadBody ==
    /\ Reads /\ header # << >> /\ Len(buffer) >= Needed
    /\ frames' = Append(frames, header \o SubSeq(buffer, 1, Needed))
    /\ buffer' = SubSeq(buffer, Needed + 1, Len(buffer))
    /\ header' = << >>
    /\ UNCHANGED <<writerVars, channel, link, reader, refused>>

Bursts == UNION {[1..n -> Sizes] : n \in 1..Batch}
Carry == Drain \/ SendDone \/ Receive \/ ReadHeader \/ ReadBody

FramingNext == (\E sizes \in Bursts : Write(sizes)) \/ Carry \/ WriterClose \/ Cut

\* On an open link the event loops run and the transport drains.
FramingFairness == WF_framingVars(Carry)

FramingSpec == FramingInit /\ [][FramingNext]_framingVars /\ FramingFairness

-----------------------------------------------------------------------------
Stream == INSTANCE FrameStream WITH
    sent <- [f \in DOMAIN written |-> Bytes(f)],
    got <- frames

\* Batching is invisible: frames come out whole, once and in order whatever
\* messages they travelled in and wherever the session broke off.
\* (drain in sever/webtransport.py, read_frame in sever/wire.py.)
FramesInOrder == Stream!Spec

\* What a client with a smaller limit than the writer's may refuse: a message of
\* several frames that is within the writer's limit and beyond the client's.
BeyondReader(m) ==
    /\ LengthOf(m[1]) < Len(m) /\ Len(m) <= MaxMessage
    /\ reader.single \/ Len(m) > reader.max

\* A refusal is always of that kind: no message is refused that is one frame, is
\* too long for the node's own limit, or ends inside a frame; an end that takes
\* what the writer may make refuses nothing.  (drain against check_message,
\* max_msg_size of the Linux client and Wire.decode of iOS.)
RefusesOnlyBeyond == refused # << >> => BeyondReader(refused)

\* A frame handed to the writer comes out at the other end, unless the session
\* was ended by somebody or the client refused a coalesced message beyond its own
\* limit: drain() leaves nothing behind for a later write to push out, and
\* nothing else is refused.  (drain, check_message, readexactly; the exception
\* is the disagreement MessageIsOneFrame shows.)
FramesArrive ==
    \A f \in 1..MaxFrames :
        (Len(written) >= f) ~>
            \/ Len(frames) >= f
            \/ IF Reads THEN link # "open" ELSE BeyondReader(refused)

\* docs/PROTOCOL.md:37 says that a message has at most 4615 bytes, one frame;
\* drain() makes longer ones.  (Checked as a disagreement.)
MessageIsOneFrame == \A i \in DOMAIN channel : Len(channel[i]) <= MaxFrame
=============================================================================
