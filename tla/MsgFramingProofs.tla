-------------------------- MODULE MsgFramingProofs --------------------------
(* Theorems about MsgFraming, for any sizes of header and bodies and any     *)
(* number of frames.                                                         *)
EXTENDS MsgFraming, TLAPS

\* The stream: every frame has a header at least, and ends after the last one.
Stream ==
    /\ \A i \in Frames : ends[i] >= Start(i) + HeaderSize
    /\ \A i, j \in Frames : i < j => ends[i] < ends[j]

\* What is queued has been cut out; until protocol_init is done, no frame
\* counts as sent after it.
Queue ==
    /\ \A n \in DOMAIN conn_read_msgs :
          conn_read_msgs[n] \in Frames /\ ends[conn_read_msgs[n]] <= cut
    /\ processers # "full" => ready_at = NotReady
    /\ QueuedInOrder

IInv == TypeOK /\ Stream /\ InStep /\ NothingLeftBehind /\ Queue

LEMMA SendEffect ==
    ASSUME TypeOK, NEW body \in 0 .. MaxBody, NEW k \in {"known", "unknown"},
           PeerSend(body, k)
    PROVE  /\ ends' \in Seq(Nat) /\ kind' \in Seq({"known", "unknown"})
           /\ Len(ends') = Len(ends) + 1 /\ Len(kind') = Len(ends')
           /\ \A i \in Frames : /\ ends'[i] = ends[i] /\ kind'[i] = kind[i]
                                /\ Start(i)' = Start(i)
           /\ OnTheWay \in Nat
           /\ \A i : i = Len(ends) + 1 => Start(i)' = OnTheWay
           /\ ends'[Len(ends) + 1] = OnTheWay + HeaderSize + body
           /\ OnTheWay' = OnTheWay + HeaderSize + body
           /\ Frames' = Frames \cup {Len(ends) + 1}
           /\ UNCHANGED <<peer, protoVars, pc, arrived, cut, sum_size, conn_read_msgs>>
<1> USE HeaderAssumption, BoundsAssumption DEF TypeOK, PeerSend
<1>1. OnTheWay \in Nat
  BY DEF OnTheWay
<1>2. /\ ends' \in Seq(Nat) /\ Len(ends') = Len(ends) + 1
      /\ ends'[Len(ends) + 1] = OnTheWay + HeaderSize + body
      /\ \A i \in 1 .. Len(ends) : ends'[i] = ends[i]
  BY <1>1
<1>3. /\ kind' \in Seq({"known", "unknown"}) /\ Len(kind') = Len(ends) + 1
      /\ \A i \in 1 .. Len(ends) : kind'[i] = kind[i]
  OBVIOUS
<1>4. Len(ends) \in Nat /\ (ends = <<>> <=> Len(ends) = 0)
  OBVIOUS
<1>5. \A i \in Frames : Start(i)' = Start(i)
  BY <1>2, <1>4 DEF Frames, Start
<1>6. ASSUME NEW i, i = Len(ends) + 1 PROVE Start(i)' = OnTheWay
  <2>1. CASE ends = <<>>
    BY <1>4, <1>6, <2>1 DEF Start, OnTheWay
  <2>2. CASE ends # <<>>
    <3>1. i # 1 /\ i - 1 = Len(ends) /\ Len(ends) \in 1 .. Len(ends)
      BY <1>4, <1>6, <2>2
    <3>2. ends'[i - 1] = ends[Len(ends)]
      BY <3>1, <1>2
    <3> QED
      BY <2>2, <3>1, <3>2 DEF Start, OnTheWay
  <2> QED
    BY <2>1, <2>2
<1>7. OnTheWay' = OnTheWay + HeaderSize + body
  <2>1. ends' # <<>>
    BY <1>2, <1>4
  <2> QED
    BY <2>1, <1>2 DEF OnTheWay
<1>8. UNCHANGED <<peer, protoVars, pc, arrived, cut, sum_size, conn_read_msgs>>
  BY DEF protoVars
<1> QED
  BY <1>1, <1>2, <1>3, <1>4, <1>5, <1>6, <1>7, <1>8 DEF Frames

LEMMA FrameBounds ==
    ASSUME TypeOK, Stream
    PROVE  \A i \in Frames : /\ ends[i] \in Nat /\ Start(i) \in Nat
                             /\ ends[i] <= OnTheWay
                             /\ Start(i) < ends[i]
                             /\ i > 1 => i - 1 \in Frames /\ Start(i) = ends[i - 1]
BY HeaderAssumption DEF TypeOK, Stream, Frames, Start, OnTheWay

LEMMA InitIInv == Init => IInv
BY HeaderAssumption, BoundsAssumption
DEF Init, IInv, TypeOK, Stream, InStep, NothingLeftBehind, Queue, QueuedInOrder,
    Frames, OnTheWay, NotReady

\* Cutting a frame leaves the buffer at the next one.
LEMMA TakeEffect ==
    ASSUME TypeOK, Stream, InStep, NEW i \in Frames, NextFrame(i)
    PROVE  /\ cut = Start(i) /\ cut + Size(i) = ends[i]
           /\ ends[i] <= arrived /\ cut < ends[i]
           /\ Rest(i) = arrived - ends[i]
<1>1. /\ ends[i] \in Nat /\ Start(i) \in Nat /\ cut \in Nat /\ arrived \in Nat
      /\ Start(i) < ends[i]
  BY FrameBounds DEF TypeOK, OnTheWay
<1>2. cut = Start(i) /\ sum_size = arrived - cut /\ sum_size >= Size(i)
  BY DEF NextFrame, InStep, BodyThere
<1> QED
  BY <1>1, <1>2 DEF Size, Rest

LEMMA TypeStep == IInv /\ [Next]_vars => TypeOK'
<1> SUFFICES ASSUME IInv, [Next]_vars PROVE TypeOK'
  OBVIOUS
<1> USE HeaderAssumption, BoundsAssumption
    DEF IInv, TypeOK, peerVars, protoVars, Frames, NotReady
<1>1. ASSUME NEW body \in 0 .. MaxBody, NEW k \in {"known", "unknown"},
             PeerSend(body, k)
      PROVE  TypeOK'
  <2>1. TypeOK
    OBVIOUS
  <2>2. OnTheWay \in Nat /\ OnTheWay' \in Nat /\ OnTheWay <= OnTheWay'
    <3>1. OnTheWay \in Nat /\ OnTheWay' = OnTheWay + HeaderSize + body
      BY <1>1, <2>1, SendEffect
    <3> HIDE DEF IInv, TypeOK
    <3> QED
      BY <1>1, <3>1
  <2>3. arrived' \in 0 .. OnTheWay' /\ cut' \in 0 .. arrived'
    BY <1>1, <2>2 DEF PeerSend
  <2>4. ends' \in Seq(Nat) /\ kind' \in Seq({"known", "unknown"})
        /\ Len(kind') = Len(ends') /\ Len(ends') <= MaxFrames
    <3>1. OnTheWay + HeaderSize + body \in Nat
      BY <2>2
    <3> QED
      BY <1>1, <3>1 DEF PeerSend
  <2> QED
    BY <1>1, <2>3, <2>4 DEF PeerSend
<1>2. CASE PeerEnd
  BY <1>2 DEF PeerEnd, OnTheWay
<1>3. CASE ProtocolInitBegins
  BY <1>3 DEF ProtocolInitBegins, OnTheWay
<1>4. CASE ProtocolInitEnds
  BY <1>4 DEF ProtocolInitEnds, OnTheWay
<1>5. ASSUME NEW n \in 1 .. OnTheWay - arrived, OnRead(n) PROVE TypeOK'
  <2>1. OnTheWay \in Nat /\ OnTheWay' = OnTheWay
    BY <1>5 DEF OnRead, OnTheWay
  <2> QED
    BY <1>5, <2>1 DEF OnRead, OrigAndAdded
<1>6. CASE OnReadEof
  BY <1>6 DEF OnReadEof, OnTheWay
<1>7. ASSUME NEW i \in Frames, TakeFrame(i) PROVE TypeOK'
  <2>1. NextFrame(i)
    BY <1>7 DEF TakeFrame
  <2>2. cut' = ends[i] /\ ends[i] \in 0 .. arrived /\ sum_size' \in Nat
    BY <1>7, <2>1, TakeEffect, FrameBounds DEF TakeFrame, OnTheWay
  <2>3. conn_read_msgs' \in Seq(1 .. MaxFrames)
    <3>1. i \in 1 .. MaxFrames
      OBVIOUS
    <3>2. Append(conn_read_msgs, i) \in Seq(1 .. MaxFrames)
      BY <3>1
    <3> QED
      BY <1>7, <3>2 DEF TakeFrame, Queued
  <2> QED
    BY <1>7, <2>2, <2>3 DEF TakeFrame, OnTheWay
<1>8. ASSUME NEW i \in Frames, TakeFrameCrashes(i) PROVE TypeOK'
  BY <1>8 DEF TakeFrameCrashes, OnTheWay
<1>9. CASE FormatEnd
  BY <1>9 DEF FormatEnd, OnTheWay
<1>10. CASE UNCHANGED vars
  BY <1>10 DEF vars, OnTheWay
<1> QED
  BY <1>1, <1>2, <1>3, <1>4, <1>5, <1>6, <1>7, <1>8, <1>9, <1>10
  DEF Next, PeerStep, WorkerStep

-----------------------------------------------------------------------------
LEMMA StreamStep == TypeOK /\ Stream /\ [Next]_vars => Stream'
<1> SUFFICES ASSUME TypeOK, Stream, [Next]_vars PROVE Stream'
  OBVIOUS
<1>1. ASSUME NEW body \in 0 .. MaxBody, NEW k \in {"known", "unknown"},
             PeerSend(body, k)
      PROVE  Stream'
  <2>1. /\ \A i \in Frames : ends'[i] = ends[i] /\ Start(i)' = Start(i)
        /\ \A i : i = Len(ends) + 1 => Start(i)' = OnTheWay
        /\ OnTheWay \in Nat
        /\ ends'[Len(ends) + 1] = OnTheWay + HeaderSize + body
        /\ Frames' = Frames \cup {Len(ends) + 1}
    BY <1>1, SendEffect
  <2>2. /\ Len(ends) \in Nat
        /\ \A i \in Frames : /\ ends[i] \in Nat /\ ends[i] <= OnTheWay
                             /\ i \in Nat /\ i < Len(ends) + 1
    BY FrameBounds DEF Frames, TypeOK
  <2>3. ASSUME NEW i \in Frames' PROVE ends'[i] >= Start(i)' + HeaderSize
    <3>1. CASE i \in Frames
      BY <2>1, <3>1 DEF Stream
    <3>2. CASE i = Len(ends) + 1
      BY <2>1, <3>2, HeaderAssumption, BoundsAssumption
    <3> QED
      BY <2>1, <3>1, <3>2
  <2>4. ASSUME NEW i \in Frames', NEW j \in Frames', i < j
        PROVE  ends'[i] < ends'[j]
    <3>1. i \in Frames
      BY <2>1, <2>2, <2>4
    <3>2. CASE j \in Frames
      BY <2>1, <2>4, <3>1, <3>2 DEF Stream
    <3>3. CASE j = Len(ends) + 1
      BY <2>1, <2>2, <3>1, <3>3, HeaderAssumption, BoundsAssumption
    <3> QED
      BY <2>1, <3>2, <3>3
  <2> QED
    BY <2>3, <2>4 DEF Stream
<1>2. CASE UNCHANGED ends
  BY <1>2 DEF Stream, Frames, Start
<1> QED
  BY <1>1, <1>2
  DEF Next, PeerStep, PeerEnd, ProtocolInitBegins, ProtocolInitEnds, WorkerStep,
      OnReadEof, FormatEnd, OnRead, TakeFrame, TakeFrameCrashes, vars, peerVars

LEMMA InStepStep == TypeOK /\ Stream /\ InStep /\ [Next]_vars => InStep'
<1> SUFFICES ASSUME TypeOK, Stream, InStep, [Next]_vars PROVE InStep'
  OBVIOUS
<1>1. ASSUME NEW body \in 0 .. MaxBody, NEW k \in {"known", "unknown"},
             PeerSend(body, k)
      PROVE  InStep'
  <2>1. /\ \A i \in Frames : ends'[i] = ends[i]
        /\ Frames \subseteq Frames'
        /\ UNCHANGED <<pc, arrived, cut, sum_size>>
    BY <1>1, SendEffect
  <2> QED
    BY <2>1 DEF InStep
<1>2. ASSUME NEW n \in 1 .. OnTheWay - arrived, OnRead(n) PROVE InStep'
  BY <1>2 DEF OnRead, OrigAndAdded, InStep, TypeOK, Frames, peerVars
<1>3. ASSUME NEW i \in Frames, TakeFrame(i) PROVE InStep'
  <2>1. cut' = ends[i] /\ sum_size' = arrived - ends[i]
    BY <1>3, TakeEffect DEF TakeFrame
  <2> QED
    BY <1>3, <2>1 DEF TakeFrame, InStep, Frames, peerVars
<1>4. CASE UNCHANGED <<ends, arrived, cut, sum_size>> /\ pc' # "format"
  BY <1>4 DEF InStep, Frames
<1>5. CASE UNCHANGED <<ends, arrived, cut, sum_size, pc>>
  BY <1>5 DEF InStep, Frames
<1> QED
  BY <1>1, <1>2, <1>3, <1>4, <1>5
  DEF Next, PeerStep, PeerEnd, ProtocolInitBegins, ProtocolInitEnds, WorkerStep,
      OnReadEof, FormatEnd, TakeFrameCrashes, vars, peerVars

-----------------------------------------------------------------------------
\* In front of a frame that is not cut out yet stands the one to be cut next.
LEMMA NextUncut ==
    ASSUME TypeOK, Stream, InStep, NEW i \in Frames, ends[i] > cut
    PROVE  \E j \in Frames : /\ Start(j) = cut
                             /\ ends[j] <= ends[i]
                             /\ ends[j] = ends[i] => j = i
<1>1. Len(ends) \in Nat /\ \A j \in Frames : ends[j] \in Nat
  BY DEF TypeOK, Frames
<1>2. \A j \in Frames : j <= i => ends[j] <= ends[i] /\ (ends[j] = ends[i] => j = i)
  BY <1>1 DEF Stream, Frames
<1>3. CASE cut = 0
  <2>1. 1 \in Frames /\ 1 <= i /\ Start(1) = 0
    BY <1>1 DEF Frames, Start
  <2> QED
    BY <1>2, <1>3, <2>1
<1>4. ASSUME NEW k \in Frames, cut = ends[k]
      PROVE  \E j \in Frames : Start(j) = cut /\ j <= i
  <2>1. k < i
    BY <1>1, <1>4 DEF Stream, Frames
  <2>2. k + 1 \in Frames /\ k + 1 <= i /\ Start(k + 1) = ends[k]
    BY <1>1, <2>1 DEF Frames, Start
  <2> QED
    BY <1>4, <2>2
<1> QED
  BY <1>2, <1>3, <1>4 DEF InStep

LEMMA NothingLeftStep ==
    TypeOK /\ Stream /\ InStep /\ NothingLeftBehind /\ [Next]_vars
        => NothingLeftBehind'
<1> SUFFICES ASSUME TypeOK, Stream, InStep, NothingLeftBehind, [Next]_vars
             PROVE  NothingLeftBehind'
  OBVIOUS
<1>1. ASSUME NEW body \in 0 .. MaxBody, NEW k \in {"known", "unknown"},
             PeerSend(body, k)
      PROVE  NothingLeftBehind'
  <2> DEFINE new == Len(ends) + 1
  <2>1. /\ \A i \in Frames : ends'[i] = ends[i] /\ Start(i)' = Start(i)
        /\ ends'[new] = OnTheWay + HeaderSize + body
        /\ OnTheWay \in Nat /\ Frames' = Frames \cup {new}
        /\ UNCHANGED <<pc, arrived, cut>>
    BY <1>1, SendEffect
  <2>2. arrived \in Nat /\ ~(ends'[new] <= arrived)
    BY <2>1, HeaderAssumption, BoundsAssumption DEF TypeOK
  <2>3. \A i \in Frames : Bare(i)' = Bare(i)
    BY <2>1 DEF Bare, Size
  <2> QED
    BY <2>1, <2>2, <2>3 DEF NothingLeftBehind
<1>2. CASE FormatEnd
  <2> SUFFICES ASSUME NEW i \in Frames, ends[i] <= arrived, ends[i] > cut
               PROVE  Bare(i) /\ ends[i] = arrived
    <3>1. UNCHANGED <<ends, arrived, cut>>
      BY <1>2 DEF FormatEnd, peerVars
    <3>2. \A i \in Frames : ends[i] \in Nat /\ cut \in Nat
      BY DEF TypeOK, Frames, OnTheWay
    <3> QED
      BY <3>1, <3>2 DEF NothingLeftBehind, Frames, Bare, Size, Start
  <2>1. PICK j \in Frames : /\ Start(j) = cut /\ ends[j] <= ends[i]
                            /\ ends[j] = ends[i] => j = i
    BY NextUncut
  <2>2. /\ ends[i] \in Nat /\ ends[j] \in Nat /\ cut \in Nat /\ arrived \in Nat
    BY FrameBounds DEF TypeOK, OnTheWay
  <2>3. sum_size = arrived - cut
    BY <1>2 DEF FormatEnd, InStep
  <2>4. BodyThere(j)
    BY <2>1, <2>2, <2>3 DEF BodyThere, Size
  <2>5. arrived - cut <= HeaderSize
    BY <1>2, <2>1, <2>2, <2>3, <2>4, HeaderAssumption DEF FormatEnd, HeaderThere
  <2>6. ends[j] >= cut + HeaderSize
    BY <2>1 DEF Stream
  <2>7. ends[j] = arrived /\ ends[i] = arrived /\ ends[j] - cut = HeaderSize
    BY <2>1, <2>2, <2>5, <2>6, HeaderAssumption
  <2>8. j = i
    BY <2>1, <2>7
  <2> QED
    BY <2>1, <2>7, <2>8 DEF Bare, Size
<1>3. CASE UNCHANGED <<ends, arrived, cut>> /\ (pc' = pc \/ pc = "read")
  BY <1>3 DEF NothingLeftBehind, Frames, Bare, Size, Start
<1>4. CASE pc' \in {"format", "crashed"}
  BY <1>4 DEF NothingLeftBehind
<1> QED
  BY <1>1, <1>2, <1>3, <1>4
  DEF Next, PeerStep, PeerEnd, ProtocolInitBegins, ProtocolInitEnds, WorkerStep,
      OnReadEof, OnRead, TakeFrame, NextFrame, TakeFrameCrashes, vars, peerVars

-----------------------------------------------------------------------------
LEMMA QueueStep ==
    TypeOK /\ Stream /\ InStep /\ Queue /\ [Next]_vars => Queue'
<1> SUFFICES ASSUME TypeOK, Stream, InStep, Queue, [Next]_vars PROVE Queue'
  OBVIOUS
<1>1. ASSUME NEW body \in 0 .. MaxBody, NEW k \in {"known", "unknown"},
             PeerSend(body, k)
      PROVE  Queue'
  <2> DEFINE new == Len(ends) + 1
  <2>1. /\ \A i \in Frames : ends'[i] = ends[i] /\ kind'[i] = kind[i]
        /\ ends'[new] = OnTheWay + HeaderSize + body
        /\ OnTheWay \in Nat /\ Frames' = Frames \cup {new}
        /\ UNCHANGED <<cut, ready_at, processers, conn_read_msgs>>
    BY <1>1, SendEffect DEF protoVars
  <2>2. ~(ends'[new] <= cut)
    BY <2>1, HeaderAssumption, BoundsAssumption DEF TypeOK
  <2> QED
    BY <2>1, <2>2 DEF Queue, QueuedInOrder, NotReady
<1>2. CASE ProtocolInitEnds
  <2>1. \A i \in Frames' : ~(i > ready_at')
    BY <1>2 DEF ProtocolInitEnds, Frames, TypeOK, peerVars
  <2> QED
    BY <1>2, <2>1 DEF ProtocolInitEnds, Queue, QueuedInOrder, Frames, peerVars
<1>3. ASSUME NEW i \in Frames, TakeFrame(i) PROVE Queue'
  <2>1. /\ cut = Start(i) /\ cut' = ends[i] /\ cut < ends[i]
        /\ UNCHANGED <<ends, kind, processers, ready_at>>
    BY <1>3, TakeEffect DEF TakeFrame, peerVars, protoVars
  <2>2. /\ Len(ends) \in Nat /\ cut \in Nat /\ ready_at \in Nat /\ i \in Nat
        /\ \A j \in Frames : j \in Nat /\ ends[j] \in Nat
        /\ conn_read_msgs \in Seq(1 .. MaxFrames)
        /\ Len(ends) <= MaxFrames
    BY FrameBounds DEF TypeOK, Frames, OnTheWay
  <2>3. \A j \in Frames : ends[j] <= cut => j < i
    BY <2>1, <2>2 DEF Stream
  <2>4. \A j \in Frames : ends[j] <= ends[i] => j = i \/ ends[j] <= cut
    <3> SUFFICES ASSUME NEW j \in Frames, ends[j] <= ends[i], j # i
                 PROVE  ends[j] <= cut
      OBVIOUS
    <3>1. j < i
      BY <2>2 DEF Stream
    <3>2. i > 1 /\ i - 1 \in Frames /\ Start(i) = ends[i - 1] /\ j <= i - 1
      BY <2>2, <3>1 DEF Frames, Start
    <3> QED
      BY <2>1, <2>2, <3>2 DEF Stream
  <2>5. PICK found \in Found(i) :
          conn_read_msgs' = IF found THEN Queued(i) ELSE conn_read_msgs
    BY <1>3 DEF TakeFrame
  <2>6. i > ready_at /\ kind[i] = "known" => found = TRUE
    <3> SUFFICES ASSUME i > ready_at, kind[i] = "known" PROVE found = TRUE
      OBVIOUS
    <3>1. processers = "full"
      BY <2>2, BoundsAssumption DEF Queue, NotReady, Frames
    <3> QED
      BY <2>5, <3>1 DEF Found
  <2>7. CASE found = TRUE
    <3> DEFINE n == Len(conn_read_msgs) + 1
    <3>1. /\ conn_read_msgs' = Append(conn_read_msgs, i)
          /\ Len(conn_read_msgs) \in Nat
          /\ DOMAIN conn_read_msgs = 1 .. Len(conn_read_msgs)
      BY <2>2, <2>5, <2>7 DEF Queued
    <3>2. /\ DOMAIN conn_read_msgs' = DOMAIN conn_read_msgs \cup {n}
          /\ conn_read_msgs'[n] = i
          /\ \A l \in DOMAIN conn_read_msgs :
                l < n /\ l \in Nat /\ conn_read_msgs'[l] = conn_read_msgs[l]
      BY <2>2, <3>1
    <3>3. \A l \in DOMAIN conn_read_msgs' :
             conn_read_msgs'[l] \in Frames' /\ ends'[conn_read_msgs'[l]] <= cut'
      BY <2>1, <2>2, <3>2 DEF Queue, Frames
    <3>4. ASSUME NEW l \in DOMAIN conn_read_msgs', NEW o \in DOMAIN conn_read_msgs',
                 l < o
          PROVE  conn_read_msgs'[l] < conn_read_msgs'[o]
      <4>1. l \in DOMAIN conn_read_msgs
        BY <3>1, <3>2, <3>4
      <4>2. CASE o \in DOMAIN conn_read_msgs
        BY <3>2, <3>4, <4>1, <4>2 DEF Queue, QueuedInOrder
      <4>3. CASE o = n
        BY <2>3, <3>2, <4>1, <4>3 DEF Queue
      <4> QED
        BY <3>2, <4>2, <4>3
    <3>5. ASSUME NEW j \in Frames', j > ready_at', kind'[j] = "known",
                 ends'[j] <= cut'
          PROVE  \E l \in DOMAIN conn_read_msgs' : conn_read_msgs'[l] = j
      <4>1. j \in Frames /\ (j = i \/ ends[j] <= cut)
        BY <2>1, <2>4, <3>5 DEF Frames
      <4> QED
        BY <2>1, <3>2, <3>5, <4>1 DEF Queue, QueuedInOrder
    <3>6. processers' # "full" => ready_at' = NotReady
      BY <2>1 DEF Queue
    <3> QED
      BY <3>3, <3>4, <3>5, <3>6 DEF Queue, QueuedInOrder, NotReady
  <2>8. CASE found # TRUE
    <3>1. conn_read_msgs' = conn_read_msgs
      BY <2>5, <2>8 DEF Found
    <3>2. \A l \in DOMAIN conn_read_msgs :
             conn_read_msgs[l] \in Frames' /\ ends'[conn_read_msgs[l]] <= cut'
      BY <2>1, <2>2 DEF Queue, Frames
    <3>3. ASSUME NEW j \in Frames', j > ready_at', kind'[j] = "known",
                 ends'[j] <= cut'
          PROVE  \E l \in DOMAIN conn_read_msgs : conn_read_msgs[l] = j
      <4>1. j \in Frames /\ ends[j] <= cut
        BY <2>1, <2>4, <2>6, <2>8, <3>3 DEF Frames
      <4> QED
        BY <2>1, <3>3, <4>1 DEF Queue, QueuedInOrder
    <3> QED
      BY <2>1, <3>1, <3>2, <3>3 DEF Queue, QueuedInOrder, NotReady
  <2> QED
    BY <2>7, <2>8
<1>4. CASE UNCHANGED <<ends, kind, cut, ready_at, conn_read_msgs>>
           /\ (processers' = processers \/ ProtocolInitBegins)
  BY <1>4 DEF Queue, QueuedInOrder, Frames, ProtocolInitBegins, NotReady
<1> QED
  BY <1>1, <1>2, <1>3, <1>4
  DEF Next, PeerStep, PeerEnd, ProtocolInitBegins, WorkerStep, OnReadEof,
      FormatEnd, OnRead, TakeFrameCrashes, vars, peerVars, protoVars

-----------------------------------------------------------------------------
LEMMA Inductive == Spec => []IInv
<1>1. Init => IInv
  BY InitIInv
<1>2. IInv /\ [Next]_vars => IInv'
  BY TypeStep, StreamStep, InStepStep, NothingLeftStep, QueueStep DEF IInv
<1> QED
  BY <1>1, <1>2, PTL DEF Spec

\* The worker's buffer, sum_size and queue keep their types.
THEOREM TypeCorrect == Spec => []TypeOK
<1>1. IInv => TypeOK
  BY DEF IInv
<1> QED
  BY <1>1, Inductive, PTL

\* message_format looks for a header only where a frame begins, and sum_size is
\* what the buffer holds, however the stream is dealt out to reads.
THEOREM StaysInStep == Spec => []InStep
<1>1. IInv => InStep
  BY DEF IInv
<1> QED
  BY <1>1, Inductive, PTL

\* When message_format returns, no whole frame is left in the buffer but a bare
\* one at its end.
THEOREM NothingIsLeftBehind == Spec => []NothingLeftBehind
<1>1. IInv => NothingLeftBehind
  BY DEF IInv
<1> QED
  BY <1>1, Inductive, PTL

\* The frames message_format queues are in the order of the stream, none twice,
\* and none sent after protocol_init whose type is known is left out.
THEOREM AllQueuedInOrder == Spec => []QueuedInOrder
<1>1. IInv => QueuedInOrder
  BY DEF IInv, Queue
<1> QED
  BY <1>1, Inductive, PTL
=============================================================================
