----------------------------- MODULE MsgFraming -----------------------------
(***************************************************************************)
(* message_format in common/net/go_net.cpp: the callback of a connection's *)
(* read_buffer_ that cuts the bytes a read has added into frames.          *)
(*                                                                         *)
(* A frame is a header, which holds the type and the length of the body,   *)
(* and the body.  The stream is positions: frame i ends before ends[i],    *)
(* and read_buffer_ holds the positions from cut to arrived.  A read       *)
(* brings any number of the bytes that are on their way, so frames and     *)
(* headers arrive in pieces.  Frames are well-formed.                      *)
(***************************************************************************)
EXTENDS Integers, Sequences

CONSTANTS
    HeaderSize,     \* 16 in the code
    MaxBody,        \* bound: length of a body
    MaxFrames       \* bound: frames the peer sends

ASSUME HeaderAssumption == HeaderSize \in Nat \ {0}
ASSUME BoundsAssumption == MaxBody \in Nat /\ MaxFrames \in Nat

VARIABLES
    \* peer
    ends, kind,     \* per frame: its end, and whether this server knows its type
    peer,           \* "open", or "ended" when it has shut its sending side
    \* main thread
    processers,     \* s_msg_processers: "empty", "filling" or "full"
    ready_at,       \* frames on their way when protocol_init ended, or NotReady
    \* the worker that owns the connection
    pc,             \* "read", "format" inside message_format, "closed",
                    \* "crashed" with the process
    arrived, cut,
    sum_size,
    conn_read_msgs  \* the numbers of the frames queued

peerVars == <<ends, kind, peer>>
protoVars == <<processers, ready_at>>
vars == <<peerVars, protoVars, pc, arrived, cut, sum_size, conn_read_msgs>>

NotReady == MaxFrames + 1
Frames == 1 .. Len(ends)
Start(i) == IF i = 1 THEN 0 ELSE ends[i - 1]
Size(i) == ends[i] - Start(i)
Bare(i) == Size(i) = HeaderSize
OnTheWay == IF ends = <<>> THEN 0 ELSE ends[Len(ends)]

TypeOK ==
    /\ ends \in Seq(Nat) /\ Len(ends) <= MaxFrames
    /\ kind \in Seq({"known", "unknown"}) /\ Len(kind) = Len(ends)
    /\ peer \in {"open", "ended"}
    /\ processers \in {"empty", "filling", "full"}
    /\ ready_at \in 0 .. NotReady
    /\ pc \in {"read", "format", "closed", "crashed"}
    /\ arrived \in 0 .. OnTheWay
    /\ cut \in 0 .. arrived
    /\ sum_size \in Nat
    /\ conn_read_msgs \in Seq(1 .. MaxFrames)

Init ==
    /\ ends = <<>> /\ kind = <<>>
    /\ peer = "open"
    /\ processers = "empty"
    /\ ready_at = NotReady
    /\ pc = "read"
    /\ arrived = 0
    /\ cut = 0
    /\ sum_size = 0
    /\ conn_read_msgs = <<>>

-----------------------------------------------------------------------------
(* Peer (external) and main thread *)

PeerSend(body, k) ==
    /\ peer = "open"
    /\ Len(ends) < MaxFrames
    /\ ends' = Append(ends, OnTheWay + HeaderSize + body)
    /\ kind' = Append(kind, k)
    /\ UNCHANGED <<peer, protoVars, pc, arrived, cut, sum_size, conn_read_msgs>>

PeerEnd ==
    /\ peer = "open"
    /\ peer' = "ended"
    /\ UNCHANGED <<ends, kind, protoVars, pc, arrived, cut, sum_size,
                   conn_read_msgs>>

\* The network accepts connections before protocol_init begins to fill
\* s_msg_processers, which the workers read without a lock.
ProtocolInitBegins ==
    /\ pc # "crashed"
    /\ processers = "empty"
    /\ processers' = "filling"
    /\ UNCHANGED <<peerVars, ready_at, pc, arrived, cut, sum_size,
                   conn_read_msgs>>

ProtocolInitEnds ==
    /\ pc # "crashed"
    /\ processers = "filling"
    /\ processers' = "full"
    /\ ready_at' = Len(ends)
    /\ UNCHANGED <<peerVars, pc, arrived, cut, sum_size, conn_read_msgs>>

-----------------------------------------------------------------------------
(* Worker *)

\* evbuffer_read has added n bytes and calls message_format, which begins with
\* sum_size = info->orig_size + info->n_added.
AddedOnly(n) == n                                                \* mutation
OrigAndAdded(n) == arrived - cut + n

OnRead(n) ==
    /\ pc = "read"
    /\ arrived' = arrived + n
    /\ sum_size' = OrigAndAdded(n)
    /\ pc' = "format"
    /\ UNCHANGED <<peerVars, protoVars, cut, conn_read_msgs>>

\* Nothing left to read and nothing more to come: conn_close.
OnReadEof ==
    /\ pc = "read"
    /\ peer = "ended"
    /\ arrived = OnTheWay
    /\ pc' = "closed"
    /\ UNCHANGED <<peerVars, protoVars, arrived, cut, sum_size, conn_read_msgs>>

\* while (sum_size > 16), and the length in the header of frame i lets it go.
HeaderThere == sum_size > HeaderSize

ByteToSpare(i) == sum_size > Size(i)                             \* mutation
BodyThere(i) == sum_size >= Size(i)

\* What the lookup of the type may find: a frame without a processor is
\* dropped, the others are queued.  Nothing else happens to the connection:
\* the conn_close of go_net.cpp:305 is commented out.
Found(i) == CASE kind[i] = "unknown" \/ processers = "empty" -> {FALSE}
              [] kind[i] = "known" /\ processers = "filling" -> BOOLEAN
              [] kind[i] = "known" /\ processers = "full"    -> {TRUE}

QueuedInFront(i) == <<i>> \o conn_read_msgs                      \* mutation
Queued(i) == Append(conn_read_msgs, i)

\* sum_size -= (msg_len + 16)
Rest(i) == sum_size - Size(i)

NextFrame(i) ==
    /\ pc = "format"
    /\ Start(i) = cut
    /\ HeaderThere
    /\ BodyThere(i)

TakeFrame(i) ==
    /\ NextFrame(i)
    /\ cut' = cut + Size(i)
    /\ sum_size' = Rest(i)
    /\ \E found \in Found(i) :
          conn_read_msgs' = IF found THEN Queued(i) ELSE conn_read_msgs
    /\ UNCHANGED <<peerVars, protoVars, pc, arrived>>

\* regist_msg_processer puts the entry into the table before it sets nmd_,
\* which message_format calls.
TakeFrameCrashes(i) ==
    /\ NextFrame(i)
    /\ processers = "filling" /\ kind[i] = "known"
    /\ pc' = "crashed"
    /\ UNCHANGED <<peerVars, protoVars, arrived, cut, sum_size, conn_read_msgs>>

FormatEnd ==
    /\ pc = "format"
    /\ HeaderThere => \A i \in Frames : Start(i) = cut => ~BodyThere(i)
    /\ pc' = "read"
    /\ UNCHANGED <<peerVars, protoVars, arrived, cut, sum_size, conn_read_msgs>>

-----------------------------------------------------------------------------
PeerStep == PeerEnd \/ \E body \in 0 .. MaxBody, k \in {"known", "unknown"} :
                           PeerSend(body, k)

WorkerStep == \/ OnReadEof \/ FormatEnd
              \/ \E n \in 1 .. OnTheWay - arrived : OnRead(n)
              \/ \E i \in Frames : TakeFrame(i) \/ TakeFrameCrashes(i)

Next == PeerStep \/ ProtocolInitBegins \/ ProtocolInitEnds \/ WorkerStep

Spec == Init /\ [][Next]_vars

\* The worker keeps reading while there is something to read.
FairSpec == Spec /\ WF_vars(WorkerStep)

-----------------------------------------------------------------------------
(* Correctness *)

\* message_format never falls out of step with the stream: it looks for a
\* header only where one begins, and sum_size, kept beside the buffer, is what
\* the buffer holds.
InStep ==
    /\ cut = 0 \/ \E i \in Frames : cut = ends[i]
    /\ pc = "format" => sum_size = arrived - cut

\* When message_format returns, every whole frame that has arrived is cut out;
\* only one without a body that is the last of what has arrived may stay, and
\* it is lost when the peer ends there.
NothingLeftBehind ==
    pc \in {"read", "closed"} =>
        \A i \in Frames : ends[i] <= arrived =>
            ends[i] <= cut \/ (Bare(i) /\ ends[i] = arrived)

\* Frames are queued in the order of the stream, none twice, and of those sent
\* after protocol_init none of a known type is left out.
QueuedInOrder ==
    /\ \A m, n \in DOMAIN conn_read_msgs :
          m < n => conn_read_msgs[m] < conn_read_msgs[n]
    /\ \A i \in Frames :
          i > ready_at /\ kind[i] = "known" /\ ends[i] <= cut =>
              \E n \in DOMAIN conn_read_msgs : conn_read_msgs[n] = i

\* A frame that has a body or is followed by another frame is cut out in the
\* end, however its bytes are dealt out to reads, unless the process crashes.
\* Those behind a frame of an unknown type are no exception in the code, see
\* UnknownDisconnects.
MustBeCut(i) == i \in Frames /\ (i = Len(ends) => ~Bare(i))
IsCut(i) == pc = "crashed" \/ (i \in Frames /\ cut >= ends[i])

FramesCut == \A i \in 1 .. MaxFrames : MustBeCut(i) ~> IsCut(i)

\* The comment of go_net.cpp:303 says that a type which is not recognised
\* disconnects: message_format does not return to the reading of a connection
\* on which it has met one.
UnknownDisconnects ==
    \A i \in Frames : kind[i] = "unknown" /\ ends[i] <= cut => pc # "read"
=============================================================================
