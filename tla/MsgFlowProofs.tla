---------------------------- MODULE MsgFlowProofs ----------------------------
(* Theorems about MsgFlow, for any number of connections, workers, frames    *)
(* and messages.                                                             *)
EXTENDS MsgFlow, SequenceTheorems, TLAPS

-----------------------------------------------------------------------------
(* Types *)

\* The first k elements of a sequence, and the others.
LEMMA Cut ==
    ASSUME NEW S, NEW q \in Seq(S), NEW k \in 0 .. Len(q)
    PROVE  /\ SubSeq(q, 1, k) \in Seq(S) /\ SubSeq(q, k + 1, Len(q)) \in Seq(S)
           /\ Len(SubSeq(q, 1, k)) = k /\ Len(SubSeq(q, k + 1, Len(q))) = Len(q) - k
           /\ \A i \in 1 .. k : SubSeq(q, 1, k)[i] = q[i]
           /\ \A i \in 1 .. Len(q) - k : SubSeq(q, k + 1, Len(q))[i] = q[k + i]
<1>1. Len(q) \in Nat /\ \A i \in 1 .. Len(q) : q[i] \in S
  BY LenProperties
<1>2. PICK a, b : a = SubSeq(q, 1, k) /\ b = SubSeq(q, k + 1, Len(q))
  OBVIOUS
<1>3. /\ a \in Seq(S) /\ Len(a) = IF 1 <= k THEN k - 1 + 1 ELSE 0
      /\ \A i \in 1 .. k - 1 + 1 : a[i] = q[1 + i - 1]
  <2>1. k \in Int /\ 1 \in Int /\ \A i \in 1 .. k : q[i] \in S
    BY <1>1
  <2> QED
    BY <1>2, <2>1, SubSeqProperties
<1>4. /\ b \in Seq(S) /\ Len(b) = IF k + 1 <= Len(q) THEN Len(q) - (k + 1) + 1 ELSE 0
      /\ \A i \in 1 .. Len(q) - (k + 1) + 1 : b[i] = q[(k + 1) + i - 1]
  <2>1. k + 1 \in Int /\ Len(q) \in Int /\ \A i \in k + 1 .. Len(q) : q[i] \in S
    BY <1>1
  <2> QED
    BY <1>2, <2>1, SubSeqProperties
<1>5. a \in Seq(S) /\ Len(a) = k /\ \A i \in 1 .. k : a[i] = q[i]
  BY <1>1, <1>3
<1>6. b \in Seq(S) /\ Len(b) = Len(q) - k /\ \A i \in 1 .. Len(q) - k : b[i] = q[k + i]
  BY <1>1, <1>4
<1> QED
  BY <1>2, <1>5, <1>6

\* on_read keeps the types of what it changes.
LEMMA ReadTypes ==
    ASSUME TypeOK, NEW c \in Conns, NEW armed \in [Conns -> BOOLEAN], OnRead(c, armed)
    PROVE  /\ inbox' \in [Conns -> Seq(1 .. MaxFrames)]
           /\ conn_read_msgs' \in [Conns -> Seq(1 .. MaxFrames)]
           /\ can_read' \in [Conns -> BOOLEAN] /\ read_armed' \in [Conns -> BOOLEAN]
           /\ state' \in [Conns -> {"LISTEN", "WAITING", "CLOSE"}]
           /\ cause' \in [Conns -> {"none", "eof", "reset", "logic", "fault"}]
<1>1. /\ inbox \in [Conns -> Seq(1 .. MaxFrames)]
      /\ conn_read_msgs \in [Conns -> Seq(1 .. MaxFrames)]
      /\ can_read \in [Conns -> BOOLEAN]
      /\ state \in [Conns -> {"LISTEN", "WAITING", "CLOSE"}]
      /\ cause \in [Conns -> {"none", "eof", "reset", "logic", "fault"}]
  BY DEF TypeOK
<1>2. inbox[c] \in Seq(1 .. MaxFrames) /\ conn_read_msgs[c] \in Seq(1 .. MaxFrames)
  BY <1>1
<1>3. \A k \in 1 .. Len(inbox[c]) : k \in 0 .. Len(inbox[c])
  BY <1>2, LenProperties
<1>4. \A k \in 1 .. Len(inbox[c]) :
         /\ SubSeq(inbox[c], 1, k) \in Seq(1 .. MaxFrames)
         /\ SubSeq(inbox[c], k + 1, Len(inbox[c])) \in Seq(1 .. MaxFrames)
  BY <1>2, <1>3, Cut
<1>5. /\ inbox' \in [Conns -> Seq(1 .. MaxFrames)]
      /\ conn_read_msgs' \in [Conns -> Seq(1 .. MaxFrames)]
  <2>1. CASE UNCHANGED <<inbox, conn_read_msgs>>
    BY <1>1, <2>1
  <2>2. CASE \E k \in 1 .. Len(inbox[c]) :
                /\ conn_read_msgs' = ReadFrames(c, k)
                /\ inbox' = [inbox EXCEPT ![c] = SubSeq(inbox[c], k + 1, Len(inbox[c]))]
    <3>1. PICK k \in 1 .. Len(inbox[c]) :
             /\ conn_read_msgs' = [conn_read_msgs EXCEPT ![c] =
                                      conn_read_msgs[c] \o SubSeq(inbox[c], 1, k)]
             /\ inbox' = [inbox EXCEPT ![c] = SubSeq(inbox[c], k + 1, Len(inbox[c]))]
      BY <2>2 DEF ReadFrames
    <3>2. conn_read_msgs[c] \o SubSeq(inbox[c], 1, k) \in Seq(1 .. MaxFrames)
      BY <1>2, <1>4, ConcatProperties
    <3> QED
      BY <1>1, <1>4, <3>1, <3>2
  <2> QED
    BY <2>1, <2>2 DEF OnRead
<1>6. /\ state' \in [Conns -> {"LISTEN", "WAITING", "CLOSE"}]
      /\ cause' \in [Conns -> {"none", "eof", "reset", "logic", "fault"}]
  <2>1. \/ UNCHANGED <<state, cause>>
        \/ \E why \in {"eof", "reset", "fault"} : ConnClose(c, why)
    BY DEF OnRead, closeVars
  <2> QED
    BY <1>1, <2>1 DEF ConnClose
<1>7. can_read' \in [Conns -> BOOLEAN]
  BY <1>1 DEF OnRead
<1>8. read_armed' \in [Conns -> BOOLEAN]
  BY DEF OnRead, Rearm
<1> QED
  BY <1>5, <1>6, <1>7, <1>8

\* So does on_write.
LEMMA WriteTypes ==
    ASSUME TypeOK, NEW c \in Conns, NEW armed \in [Conns -> BOOLEAN], OnWrite(c, armed)
    PROVE  /\ outbox' \in [Conns -> Seq(1 .. MaxSends)]
           /\ write_buffer' \in [Conns -> Seq(1 .. MaxSends)]
           /\ conn_write_msgs' \in [Conns -> Seq(1 .. MaxSends)]
           /\ can_write' \in [Conns -> BOOLEAN] /\ write_armed' \in [Conns -> BOOLEAN]
           /\ state' \in [Conns -> {"LISTEN", "WAITING", "CLOSE"}]
           /\ cause' \in [Conns -> {"none", "eof", "reset", "logic", "fault"}]
<1>1. /\ outbox \in [Conns -> Seq(1 .. MaxSends)]
      /\ write_buffer \in [Conns -> Seq(1 .. MaxSends)]
      /\ conn_write_msgs \in [Conns -> Seq(1 .. MaxSends)]
      /\ can_write \in [Conns -> BOOLEAN]
      /\ state \in [Conns -> {"LISTEN", "WAITING", "CLOSE"}]
      /\ cause \in [Conns -> {"none", "eof", "reset", "logic", "fault"}]
  BY DEF TypeOK
<1>2. /\ outbox[c] \in Seq(1 .. MaxSends) /\ write_buffer[c] \in Seq(1 .. MaxSends)
      /\ conn_write_msgs[c] \in Seq(1 .. MaxSends)
  BY <1>1
<1>3. Serialised(c) \in Seq(1 .. MaxSends)
  BY <1>2, ConcatProperties DEF Serialised
<1>4. \A k \in 1 .. Len(Serialised(c)) : k \in 0 .. Len(Serialised(c))
  BY <1>3, LenProperties
<1>5. \A k \in 1 .. Len(Serialised(c)) :
         /\ SubSeq(Serialised(c), 1, k) \in Seq(1 .. MaxSends)
         /\ Unsent(c, k) \in Seq(1 .. MaxSends)
  BY <1>3, <1>4, Cut DEF Unsent
<1>6. \A k \in 1 .. Len(Serialised(c)) :
         outbox[c] \o SubSeq(Serialised(c), 1, k) \in Seq(1 .. MaxSends)
  BY <1>2, <1>5, ConcatProperties
<1>7. outbox' \in [Conns -> Seq(1 .. MaxSends)]
  <2>1. \/ UNCHANGED outbox
        \/ \E k \in 1 .. Len(Serialised(c)) :
              outbox' = [outbox EXCEPT ![c] = outbox[c] \o SubSeq(Serialised(c), 1, k)]
    BY DEF OnWrite
  <2> QED
    BY <1>1, <1>6, <2>1
<1>8. write_buffer' \in [Conns -> Seq(1 .. MaxSends)]
  <2>1. \/ UNCHANGED write_buffer
        \/ \E k \in 1 .. Len(Serialised(c)) :
              write_buffer' = [write_buffer EXCEPT ![c] = Unsent(c, k)]
        \/ write_buffer' = [write_buffer EXCEPT ![c] = Serialised(c)]
    BY DEF OnWrite
  <2>2. CASE UNCHANGED write_buffer
    BY <1>1, <2>2
  <2>3. ASSUME NEW s \in Seq(1 .. MaxSends), write_buffer' = [write_buffer EXCEPT ![c] = s]
        PROVE  write_buffer' \in [Conns -> Seq(1 .. MaxSends)]
    BY <1>1, <2>3
  <2>4. CASE \E k \in 1 .. Len(Serialised(c)) :
                write_buffer' = [write_buffer EXCEPT ![c] = Unsent(c, k)]
    <3>1. PICK k \in 1 .. Len(Serialised(c)) :
             write_buffer' = [write_buffer EXCEPT ![c] = Unsent(c, k)]
      BY <2>4
    <3>2. Unsent(c, k) \in Seq(1 .. MaxSends)
      BY <1>5
    <3> QED
      BY <2>3, <3>1, <3>2
  <2>5. CASE write_buffer' = [write_buffer EXCEPT ![c] = Serialised(c)]
    BY <1>3, <2>3, <2>5
  <2> QED
    BY <2>1, <2>2, <2>4, <2>5
<1>9. conn_write_msgs' \in [Conns -> Seq(1 .. MaxSends)]
  <2>1. \/ UNCHANGED conn_write_msgs
        \/ conn_write_msgs' = [conn_write_msgs EXCEPT ![c] = <<>>]
    BY DEF OnWrite
  <2>2. <<>> \in Seq(1 .. MaxSends)
    BY EmptySeq
  <2> QED
    BY <1>1, <2>1, <2>2
<1>10. /\ state' \in [Conns -> {"LISTEN", "WAITING", "CLOSE"}]
       /\ cause' \in [Conns -> {"none", "eof", "reset", "logic", "fault"}]
  <2>1. UNCHANGED <<state, cause>> \/ ConnClose(c, "fault")
    BY DEF OnWrite, closeVars
  <2> QED
    BY <1>1, <2>1 DEF ConnClose
<1>11. can_write' \in [Conns -> BOOLEAN]
  BY <1>1 DEF OnWrite
<1>12. write_armed' \in [Conns -> BOOLEAN]
  BY DEF OnWrite, Rearm
<1> QED
  BY <1>7, <1>8, <1>9, <1>10, <1>11, <1>12

\* Every step keeps the types.
LEMMA TypeKept == ASSUME TypeOK, [Next]_vars PROVE TypeOK'
<1> USE NetThreadNumAssumption, BoundsAssumption
<1>0. /\ <<>> \in Seq(1 .. MaxFrames) /\ <<>> \in Seq(1 .. MaxSends)
      /\ <<>> \in Seq(Conns \X (0 .. MaxFrames))
  BY EmptySeq
<1>1. ASSUME NEW c \in Conns, PeerSend(c) PROVE TypeOK'
  <2>1. peer_sent[c] + 1 \in 1 .. MaxFrames /\ peer_sent[c] + 1 \in 0 .. MaxFrames
    BY <1>1 DEF PeerSend, TypeOK
  <2>2. Append(inbox[c], peer_sent[c] + 1) \in Seq(1 .. MaxFrames)
    BY <2>1, AppendProperties DEF TypeOK
  <2>3. /\ peer_sent' \in [Conns -> 0 .. MaxFrames]
        /\ inbox' \in [Conns -> Seq(1 .. MaxFrames)]
    BY <1>1, <2>1, <2>2 DEF PeerSend, TypeOK
  <2> QED
    BY <1>1, <2>3
    DEF PeerSend, TypeOK, flagVars, closeVars, bufferVars, threadVars, mainVars
<1>2. ASSUME NEW c \in Conns, PeerEof(c) PROVE TypeOK'
  BY <1>2 DEF PeerEof, TypeOK, flagVars, closeVars, bufferVars, threadVars, mainVars
<1>3. ASSUME NEW c \in Conns, PeerReset(c) PROVE TypeOK'
  <2>1. /\ sock' \in [Conns -> {"open", "eof", "reset", "shut"}]
        /\ inbox' \in [Conns -> Seq(1 .. MaxFrames)]
    BY <1>0, <1>3 DEF PeerReset, TypeOK
  <2> QED
    BY <1>3, <2>1
    DEF PeerReset, TypeOK, flagVars, closeVars, bufferVars, threadVars, mainVars
<1>4. ASSUME NEW c \in Conns, PeerRecv(c) PROVE TypeOK'
  <2>1. outbox[c] \in Seq(1 .. MaxSends) /\ got[c] \in Seq(1 .. MaxSends) /\ outbox[c] # <<>>
    BY <1>4 DEF PeerRecv, TypeOK
  <2>2. Append(got[c], Head(outbox[c])) \in Seq(1 .. MaxSends)
        /\ Tail(outbox[c]) \in Seq(1 .. MaxSends)
    BY <2>1, HeadTailProperties, AppendProperties
  <2>3. /\ got' \in [Conns -> Seq(1 .. MaxSends)]
        /\ outbox' \in [Conns -> Seq(1 .. MaxSends)]
    BY <1>4, <2>2 DEF PeerRecv, TypeOK
  <2> QED
    BY <1>4, <2>3
    DEF PeerRecv, TypeOK, flagVars, closeVars, bufferVars, threadVars, mainVars
<1>5. ASSUME NEW w \in Workers, Dispatch(w) PROVE TypeOK'
  <2>1. ASSUME NEW c \in Conns PROVE Dispatched(c) \in Seq(1 .. MaxSends)
    <3>1. conn_write_msgs[c] \in Seq(1 .. MaxSends) /\ td_write_msgs[c] \in Seq(1 .. MaxSends)
      BY DEF TypeOK
    <3> QED
      BY <3>1, ConcatProperties DEF Dispatched
  <2>2. /\ conn_write_msgs' \in [Conns -> Seq(1 .. MaxSends)]
        /\ td_write_msgs' \in [Conns -> Seq(1 .. MaxSends)]
    <3>1. conn_write_msgs' \in [Conns -> Seq(1 .. MaxSends)]
      BY <1>5, <2>1 DEF Dispatch, TypeOK
    <3>2. td_write_msgs' \in [Conns -> Seq(1 .. MaxSends)]
      BY <1>0, <1>5 DEF Dispatch, TypeOK
    <3> QED
      BY <3>1, <3>2
  <2> QED
    BY <1>5, <2>2
    DEF Dispatch, Goto, TypeOK, peerVars, flagVars, closeVars, mainVars
<1>6. ASSUME NEW w \in Workers, NEW c \in Conns, CollectOne(w, c) PROVE TypeOK'
  <2>1. conn_read_msgs[c] \in Seq(1 .. MaxFrames) /\ conn_read_msgs[c] # <<>>
    BY <1>6 DEF CollectOne, TypeOK
  <2>2. Head(conn_read_msgs[c]) \in 1 .. MaxFrames /\ Tail(conn_read_msgs[c]) \in Seq(1 .. MaxFrames)
    BY <2>1, HeadTailProperties
  <2>3. <<c, Head(conn_read_msgs[c])>> \in Conns \X (0 .. MaxFrames)
    BY <2>2
  <2>4. td_read_msgs[w] \in Seq(Conns \X (0 .. MaxFrames))
    BY DEF TypeOK
  <2>5. Append(td_read_msgs[w], <<c, Head(conn_read_msgs[c])>>) \in Seq(Conns \X (0 .. MaxFrames))
    BY <2>3, <2>4, AppendProperties
  <2>6. /\ conn_read_msgs' \in [Conns -> Seq(1 .. MaxFrames)]
        /\ td_read_msgs' \in [Workers -> Seq(Conns \X (0 .. MaxFrames))]
    BY <1>6, <2>2, <2>5 DEF CollectOne, TypeOK
  <2> QED
    BY <1>6, <2>6 DEF CollectOne, TypeOK, peerVars, flagVars, closeVars, mainVars
<1>7. ASSUME NEW w \in Workers, CollectEnd(w) PROVE TypeOK'
  <2>1. todo' \in [Workers -> SUBSET (Conns \X {"r", "w", "s"})]
    BY <1>7 DEF CollectEnd, TypeOK
  <2> QED
    BY <1>7, <2>1
    DEF CollectEnd, Goto, TypeOK, peerVars, flagVars, closeVars, bufferVars, threadVars, mainVars
<1>8. ASSUME NEW w \in Workers, NEW c \in Conns, IoRead(w, c) PROVE TypeOK'
  <2>1. OnRead(c, read_armed) /\ read_armed \in [Conns -> BOOLEAN]
    BY <1>8 DEF IoRead, TypeOK
  <2>2. todo' \in [Workers -> SUBSET (Conns \X {"r", "w", "s"})]
    BY <1>8 DEF IoRead, TypeOK
  <2> QED
    BY <1>8, <2>1, <2>2, ReadTypes DEF IoRead, TypeOK, threadVars, mainVars
<1>9. ASSUME NEW w \in Workers, NEW c \in Conns, IoWrite(w, c) PROVE TypeOK'
  <2>1. OnWrite(c, write_armed) /\ write_armed \in [Conns -> BOOLEAN]
    BY <1>9 DEF IoWrite, TypeOK
  <2>2. todo' \in [Workers -> SUBSET (Conns \X {"r", "w", "s"})]
    BY <1>9 DEF IoWrite, TypeOK
  <2> QED
    BY <1>9, <2>1, <2>2, WriteTypes DEF IoWrite, TypeOK, threadVars, mainVars
<1>10. ASSUME NEW w \in Workers, EpollWait(w) PROVE TypeOK'
  <2>1. todo' \in [Workers -> SUBSET (Conns \X {"r", "w", "s"})]
    BY <1>10 DEF EpollWait, TypeOK
  <2> QED
    BY <1>10, <2>1
    DEF EpollWait, Goto, TypeOK, peerVars, flagVars, closeVars, bufferVars, threadVars, mainVars
<1>11. ASSUME NEW w \in Workers, NEW c \in Conns, EventRead(w, c) PROVE TypeOK'
  <2>1. OnRead(c, Disarmed(read_armed, c)) /\ Disarmed(read_armed, c) \in [Conns -> BOOLEAN]
    BY <1>11 DEF EventRead, TypeOK, Disarmed
  <2>2. todo' \in [Workers -> SUBSET (Conns \X {"r", "w", "s"})]
    BY <1>11 DEF EventRead, TypeOK
  <2> QED
    BY <1>11, <2>1, <2>2, ReadTypes DEF EventRead, TypeOK, threadVars, mainVars
<1>12. ASSUME NEW w \in Workers, NEW c \in Conns, EventWrite(w, c) PROVE TypeOK'
  <2>1. OnWrite(c, Disarmed(write_armed, c)) /\ Disarmed(write_armed, c) \in [Conns -> BOOLEAN]
    BY <1>12 DEF EventWrite, TypeOK, Disarmed
  <2>2. todo' \in [Workers -> SUBSET (Conns \X {"r", "w", "s"})]
    BY <1>12 DEF EventWrite, TypeOK
  <2> QED
    BY <1>12, <2>1, <2>2, WriteTypes DEF EventWrite, TypeOK, threadVars, mainVars
<1>13. ASSUME NEW w \in Workers, NEW c \in Conns, Register(w, c) PROVE TypeOK'
  <2>1. /\ thread_connections' \in [Workers -> SUBSET Conns]
        /\ td' \in [Conns -> Workers \cup {NoThread}]
        /\ state' \in [Conns -> {"LISTEN", "WAITING", "CLOSE"}]
        /\ read_armed' \in [Conns -> BOOLEAN] /\ write_armed' \in [Conns -> BOOLEAN]
        /\ sfd_dup_for_write' \in [Conns -> BOOLEAN]
    BY <1>13 DEF Register, TypeOK
  <2> QED
    BY <1>13, <2>1 DEF Register, TypeOK, peerVars, bufferVars, threadVars, mainVars
<1>14. ASSUME NEW w \in Workers, EventsEnd(w) PROVE TypeOK'
  <2>1. todo' \in [Workers -> SUBSET (Conns \X {"r", "w", "s"})]
    BY <1>14 DEF EventsEnd, TypeOK
  <2> QED
    BY <1>14, <2>1
    DEF EventsEnd, Goto, TypeOK, peerVars, flagVars, closeVars, bufferVars, threadVars, mainVars
<1>15. ASSUME NEW w \in Workers, NEW c \in Conns, SweepVisit(w, c) PROVE TypeOK'
  <2>1. <<c, Shutdown>> \in Conns \X (0 .. MaxFrames)
    BY DEF Shutdown
  <2>2. td_read_msgs[w] \in Seq(Conns \X (0 .. MaxFrames))
    BY DEF TypeOK
  <2>3. ShutdownLast(w, c) \in Seq(Conns \X (0 .. MaxFrames))
    BY <2>1, <2>2, AppendProperties DEF ShutdownLast
  <2>4. /\ td_read_msgs' \in [Workers -> Seq(Conns \X (0 .. MaxFrames))]
        /\ thread_connections' \in [Workers -> SUBSET Conns]
        /\ todo' \in [Workers -> SUBSET (Conns \X {"r", "w", "s"})]
    <3>1. td_read_msgs' \in [Workers -> Seq(Conns \X (0 .. MaxFrames))]
      <4>1. \/ UNCHANGED td_read_msgs
            \/ td_read_msgs' = [td_read_msgs EXCEPT ![w] = ShutdownLast(w, c)]
        BY <1>15 DEF SweepVisit
      <4> QED
        BY <2>3, <4>1 DEF TypeOK
    <3>2. thread_connections' \in [Workers -> SUBSET Conns]
      <4>1. \/ UNCHANGED thread_connections
            \/ thread_connections' = [thread_connections EXCEPT ![w] = @ \ {c}]
        BY <1>15 DEF SweepVisit
      <4>2. thread_connections \in [Workers -> SUBSET Conns]
        BY DEF TypeOK
      <4>3. thread_connections[w] \ {c} \in SUBSET Conns
        BY <4>2
      <4> QED
        BY ONLY <4>1, <4>2, <4>3
    <3>3. todo' \in [Workers -> SUBSET (Conns \X {"r", "w", "s"})]
      BY <1>15 DEF SweepVisit, TypeOK
    <3> QED
      BY <3>1, <3>2, <3>3
  <2>5. /\ sock' \in [Conns -> {"open", "eof", "reset", "shut"}]
        /\ inbox' \in [Conns -> Seq(1 .. MaxFrames)]
        /\ read_armed' \in [Conns -> BOOLEAN] /\ write_armed' \in [Conns -> BOOLEAN]
        /\ write_buffer' \in [Conns -> Seq(1 .. MaxSends)]
    <3>1. sock' \in [Conns -> {"open", "eof", "reset", "shut"}]
      BY <1>15 DEF SweepVisit, TypeOK
    <3>2. inbox' \in [Conns -> Seq(1 .. MaxFrames)]
      BY <1>0, <1>15 DEF SweepVisit, TypeOK
    <3>3. read_armed' \in [Conns -> BOOLEAN] /\ write_armed' \in [Conns -> BOOLEAN]
      BY <1>15 DEF SweepVisit, TypeOK
    <3>4. write_buffer' \in [Conns -> Seq(1 .. MaxSends)]
      BY <1>0, <1>15 DEF SweepVisit, TypeOK
    <3> QED
      BY <3>1, <3>2, <3>3, <3>4
  <2> QED
    BY <1>15, <2>4, <2>5 DEF SweepVisit, TypeOK, closeVars, mainVars
<1>16. ASSUME NEW w \in Workers, SweepEnd(w) PROVE TypeOK'
  BY <1>16
  DEF SweepEnd, Goto, TypeOK, peerVars, flagVars, closeVars, bufferVars, threadVars, mainVars
<1>17. ASSUME GetNetMsgs PROVE TypeOK'
  <2>1. next_thread \in Workers /\ next_thread + 1 \in 0 .. NetThreadNum
    BY <1>17 DEF GetNetMsgs, TypeOK, Workers
  <2>2. /\ output \in Seq(Conns \X (0 .. MaxFrames))
        /\ td_read_msgs[next_thread] \in Seq(Conns \X (0 .. MaxFrames))
    BY <2>1 DEF TypeOK
  <2>3. output' \in Seq(Conns \X (0 .. MaxFrames))
    BY <1>17, <2>2, ConcatProperties DEF GetNetMsgs
  <2>4. td_read_msgs' \in [Workers -> Seq(Conns \X (0 .. MaxFrames))]
    BY <1>0, <1>17, <2>1 DEF GetNetMsgs, TypeOK
  <2> QED
    BY <1>17, <2>1, <2>3, <2>4
    DEF GetNetMsgs, TypeOK, peerVars, flagVars, closeVars, bufferVars
<1>18. ASSUME Handle PROVE TypeOK'
  <2>1. output \in Seq(Conns \X (0 .. MaxFrames)) /\ output # <<>>
    BY <1>18 DEF Handle, TypeOK
  <2>2. Head(output) \in Conns \X (0 .. MaxFrames) /\ Tail(output) \in Seq(Conns \X (0 .. MaxFrames))
    BY <2>1, HeadTailProperties
  <2>3. PICK c \in Conns, n \in 0 .. MaxFrames : c = Head(output)[1] /\ n = Head(output)[2]
    BY <2>2
  <2>4. handled' = [handled EXCEPT ![c] = Append(handled[c], n)]
    BY <1>18, <2>3 DEF Handle
  <2>5. Append(handled[c], n) \in Seq(0 .. MaxFrames)
    BY AppendProperties DEF TypeOK
  <2>6. handled' \in [Conns -> Seq(0 .. MaxFrames)]
    BY <2>4, <2>5 DEF TypeOK
  <2>7. /\ td_write_msgs' \in [Conns -> Seq(1 .. MaxSends)]
        /\ sends' \in [Conns -> 0 .. MaxSends]
    <3>1. CASE UNCHANGED <<td_write_msgs, sends>>
      BY <3>1 DEF TypeOK
    <3>2. ASSUME NEW d \in Conns, NetSend(d)
          PROVE  /\ td_write_msgs' \in [Conns -> Seq(1 .. MaxSends)]
                 /\ sends' \in [Conns -> 0 .. MaxSends]
      <4>1. sends[d] + 1 \in 1 .. MaxSends /\ sends[d] + 1 \in 0 .. MaxSends
        <5>1. sends[d] \in 0 .. MaxSends /\ sends[d] < MaxSends
          BY <3>2 DEF NetSend, TypeOK
        <5> QED
          BY <5>1
      <4>2. Append(td_write_msgs[d], sends[d] + 1) \in Seq(1 .. MaxSends)
        BY <4>1, AppendProperties DEF TypeOK
      <4> QED
        BY <3>2, <4>1, <4>2 DEF NetSend, TypeOK
    <3> QED
      BY <1>18, <3>1, <3>2 DEF Handle
  <2>8. /\ state' \in [Conns -> {"LISTEN", "WAITING", "CLOSE"}]
        /\ cause' \in [Conns -> {"none", "eof", "reset", "logic", "fault"}]
    <3>1. UNCHANGED <<state, cause>> \/ ConnClose(c, "logic")
      BY <1>18, <2>3 DEF Handle, closeVars
    <3> QED
      BY <3>1 DEF ConnClose, TypeOK
  <2> QED
    BY <1>18, <2>2, <2>6, <2>7, <2>8 DEF Handle, TypeOK, peerVars, flagVars, bufferVars
<1>19. ASSUME LogicTurnEnds PROVE TypeOK'
  <2>1. next_thread' \in 0 .. NetThreadNum
    BY <1>19 DEF LogicTurnEnds
  <2> QED
    BY <1>19, <2>1
    DEF LogicTurnEnds, TypeOK, peerVars, flagVars, closeVars, bufferVars, threadVars
<1>20. ASSUME UNCHANGED vars PROVE TypeOK'
  BY <1>20 DEF vars, TypeOK, peerVars, flagVars, closeVars, bufferVars, threadVars, mainVars
<1> QED
  BY <1>1, <1>2, <1>3, <1>4, <1>5, <1>6, <1>7, <1>8, <1>9, <1>10, <1>11, <1>12, <1>13,
     <1>14, <1>15, <1>16, <1>17, <1>18, <1>19, <1>20
  DEF Next, PeerStep, WorkerStep, MainStep

-----------------------------------------------------------------------------
(* Polled or armed *)

\* After on_read the connection is polled, armed or closed.
LEMMA ReadListens ==
    ASSUME TypeOK, NEW c \in Conns, NEW armed \in [Conns -> BOOLEAN], OnRead(c, armed)
    PROVE  /\ state'[c] = "CLOSE" \/ can_read'[c] \/ read_armed'[c]
           /\ \A d \in Conns \ {c} :
                 can_read'[d] = can_read[d] /\ read_armed'[d] = armed[d] /\ state'[d] = state[d]
           /\ state[c] = "CLOSE" => state'[c] = "CLOSE"
<1>1. can_read \in [Conns -> BOOLEAN] /\ state \in [Conns -> {"LISTEN", "WAITING", "CLOSE"}]
  BY DEF TypeOK
<1> QED
  BY <1>1 DEF OnRead, Rearm, ConnClose, closeVars

\* And after on_write, unless the peer has reset the connection.
LEMMA WriteListens ==
    ASSUME TypeOK, NEW c \in Conns, NEW armed \in [Conns -> BOOLEAN], OnWrite(c, armed)
    PROVE  /\ state'[c] = "CLOSE" \/ can_write'[c] \/ write_armed'[c] \/ sock[c] = "reset"
           /\ \A d \in Conns \ {c} :
                 can_write'[d] = can_write[d] /\ write_armed'[d] = armed[d] /\ state'[d] = state[d]
           /\ state[c] = "CLOSE" => state'[c] = "CLOSE"
<1>1. can_write \in [Conns -> BOOLEAN] /\ state \in [Conns -> {"LISTEN", "WAITING", "CLOSE"}]
  BY DEF TypeOK
<1> QED
  BY <1>1 DEF OnWrite, Rearm, ConnClose, closeVars

\* Listening, for one connection.
Listening(c) ==
    /\ can_read[c] \/ read_armed[c]
    /\ sfd_dup_for_write[c] => can_write[c] \/ write_armed[c] \/ sock[c] = "reset"

\* Every step keeps NeverDeaf.
LEMMA DeafKept == ASSUME TypeOK, NeverDeaf, [Next]_vars PROVE NeverDeaf'
<1>0. /\ can_read \in [Conns -> BOOLEAN] /\ can_write \in [Conns -> BOOLEAN]
      /\ read_armed \in [Conns -> BOOLEAN] /\ write_armed \in [Conns -> BOOLEAN]
      /\ sfd_dup_for_write \in [Conns -> BOOLEAN]
      /\ state \in [Conns -> {"LISTEN", "WAITING", "CLOSE"}]
      /\ sock \in [Conns -> {"open", "eof", "reset", "shut"}]
      /\ thread_connections \in [Workers -> SUBSET Conns]
  BY DEF TypeOK
<1> SUFFICES ASSUME NEW d \in Conns, Registered(d)', state'[d] # "CLOSE"
             PROVE  Listening(d)'
  BY DEF NeverDeaf, Listening
<1>1. Registered(d) /\ state[d] # "CLOSE" => Listening(d)
  BY DEF NeverDeaf, Listening
<1>2. CASE PeerStep
  <2>1. /\ UNCHANGED <<flagVars, closeVars, thread_connections>>
        /\ \A c \in Conns : sock[c] = "reset" => sock'[c] = "reset"
    BY <1>0, <1>2 DEF PeerStep, PeerSend, PeerEof, PeerReset, PeerRecv
  <2> QED
    BY <1>1, <2>1 DEF Listening, Registered, flagVars, closeVars
<1>3. CASE MainStep
  <2>1. UNCHANGED <<flagVars, sock, thread_connections>>
    BY <1>3 DEF MainStep, GetNetMsgs, Handle, LogicTurnEnds, peerVars
  <2>2. state[d] # "CLOSE"
    BY <1>0, <1>3
    DEF MainStep, GetNetMsgs, Handle, LogicTurnEnds, ConnClose, closeVars
  <2> QED
    BY <1>1, <2>1, <2>2 DEF Listening, Registered, flagVars
<1>4. ASSUME NEW w \in Workers,
             \/ Dispatch(w) \/ CollectEnd(w) \/ EpollWait(w) \/ EventsEnd(w) \/ SweepEnd(w)
             \/ \E c \in Conns : CollectOne(w, c)
      PROVE  Listening(d)'
  <2>1. UNCHANGED <<flagVars, sock, state, thread_connections>>
    BY <1>4 DEF Dispatch, CollectEnd, EpollWait, EventsEnd, SweepEnd, CollectOne, peerVars,
                closeVars
  <2> QED
    BY <1>1, <2>1 DEF Listening, Registered, flagVars
<1>5. ASSUME NEW w \in Workers, NEW c \in Conns, IoRead(w, c) \/ EventRead(w, c)
      PROVE  Listening(d)'
  <2>1. PICK armed \in [Conns -> BOOLEAN] :
           /\ OnRead(c, armed)
           /\ \A e \in Conns \ {c} : armed[e] = read_armed[e]
    <3>1. read_armed \in [Conns -> BOOLEAN] /\ Disarmed(read_armed, c) \in [Conns -> BOOLEAN]
          /\ \A e \in Conns \ {c} : Disarmed(read_armed, c)[e] = read_armed[e]
      BY <1>0 DEF Disarmed
    <3> QED
      BY <1>5, <3>1 DEF IoRead, EventRead
  <2>2. UNCHANGED <<can_write, write_armed, sfd_dup_for_write, sock, thread_connections>>
    BY <1>5 DEF IoRead, EventRead
  <2>3. /\ state'[c] = "CLOSE" \/ can_read'[c] \/ read_armed'[c]
        /\ \A e \in Conns \ {c} : /\ can_read'[e] = can_read[e] /\ read_armed'[e] = read_armed[e]
                                  /\ state'[e] = state[e]
        /\ state[c] = "CLOSE" => state'[c] = "CLOSE"
    BY <2>1, ReadListens
  <2> QED
    BY <1>1, <2>2, <2>3 DEF Listening, Registered
<1>6. ASSUME NEW w \in Workers, NEW c \in Conns, IoWrite(w, c) \/ EventWrite(w, c)
      PROVE  Listening(d)'
  <2>1. PICK armed \in [Conns -> BOOLEAN] :
           /\ OnWrite(c, armed)
           /\ \A e \in Conns \ {c} : armed[e] = write_armed[e]
    <3>1. write_armed \in [Conns -> BOOLEAN] /\ Disarmed(write_armed, c) \in [Conns -> BOOLEAN]
          /\ \A e \in Conns \ {c} : Disarmed(write_armed, c)[e] = write_armed[e]
      BY <1>0 DEF Disarmed
    <3> QED
      BY <1>6, <3>1 DEF IoWrite, EventWrite
  <2>2. UNCHANGED <<can_read, read_armed, sfd_dup_for_write, sock, thread_connections>>
    BY <1>6 DEF IoWrite, EventWrite
  <2>3. /\ state'[c] = "CLOSE" \/ can_write'[c] \/ write_armed'[c] \/ sock[c] = "reset"
        /\ \A e \in Conns \ {c} : /\ can_write'[e] = can_write[e]
                                  /\ write_armed'[e] = write_armed[e]
                                  /\ state'[e] = state[e]
        /\ state[c] = "CLOSE" => state'[c] = "CLOSE"
    BY <2>1, WriteListens
  <2> QED
    BY <1>1, <2>2, <2>3 DEF Listening, Registered
<1>7. ASSUME NEW w \in Workers, NEW c \in Conns, Register(w, c) PROVE Listening(d)'
  <2>1. CASE d = c
    <3>1. read_armed'[d]
      BY <1>0, <1>7, <2>1 DEF Register
    <3>2. CASE sfd_dup_for_write' = [sfd_dup_for_write EXCEPT ![c] = FALSE]
      BY <1>0, <2>1, <3>1, <3>2 DEF Listening
    <3>3. CASE write_armed' = [write_armed EXCEPT ![c] = TRUE]
      BY <1>0, <2>1, <3>1, <3>3 DEF Listening
    <3> QED
      BY <1>7, <3>2, <3>3 DEF Register
  <2>2. CASE d # c
    <3>1. /\ can_read'[d] = can_read[d] /\ can_write'[d] = can_write[d]
          /\ read_armed'[d] = read_armed[d] /\ write_armed'[d] = write_armed[d]
          /\ state'[d] = state[d] /\ sock'[d] = sock[d]
          /\ sfd_dup_for_write'[d] = sfd_dup_for_write[d]
      BY <1>0, <1>7, <2>2 DEF Register, peerVars
    <3>2. Registered(d)
      BY <1>0, <1>7, <2>2 DEF Register, Registered
    <3> QED
      BY <1>1, <3>1, <3>2 DEF Listening
  <2> QED
    BY <2>1, <2>2
<1>8. ASSUME NEW w \in Workers, NEW c \in Conns, SweepVisit(w, c) PROVE Listening(d)'
  <2>1. UNCHANGED <<state, can_read, can_write, sfd_dup_for_write>>
    BY <1>8 DEF SweepVisit, closeVars
  <2>2. CASE d = c
    <3>1. UNCHANGED <<thread_connections, read_armed, write_armed, sock>>
      BY <1>8, <2>1, <2>2 DEF SweepVisit
    <3> QED
      BY <1>1, <2>1, <3>1 DEF Listening, Registered
  <2>3. CASE d # c
    <3>1. /\ read_armed'[d] = read_armed[d] /\ write_armed'[d] = write_armed[d]
          /\ sock'[d] = sock[d]
      BY <1>0, <1>8, <2>3 DEF SweepVisit
    <3>2. Registered(d)
      BY <1>0, <1>8, <2>3 DEF SweepVisit, Registered
    <3> QED
      BY <1>1, <2>1, <3>1, <3>2 DEF Listening
  <2> QED
    BY <2>2, <2>3
<1>9. CASE UNCHANGED vars
  BY <1>1, <1>9 DEF vars, Listening, Registered, flagVars, closeVars, peerVars
<1> QED
  BY <1>2, <1>3, <1>4, <1>5, <1>6, <1>7, <1>8, <1>9 DEF Next, WorkerStep

-----------------------------------------------------------------------------
(* Queues of messages *)

Messages == Conns \X (0 .. MaxFrames)

\* A queue of messages has one of c; has its Shutdown.
Mentions(q, c) == \E i \in DOMAIN q : q[i][1] = c
Closes(q, c) == \E i \in DOMAIN q : q[i][1] = c /\ q[i][2] = Shutdown

\* push_back
LEMMA QueueAppend ==
    ASSUME NEW q \in Seq(Messages), NEW e \in Messages, NEW c
    PROVE  /\ Mentions(Append(q, e), c) <=> Mentions(q, c) \/ e[1] = c
           /\ Closes(Append(q, e), c) <=> Closes(q, c) \/ (e[1] = c /\ e[2] = Shutdown)
<1>0. PICK r : r = Append(q, e)
  OBVIOUS
<1>1. /\ DOMAIN r = 1 .. Len(q) + 1 /\ DOMAIN q = 1 .. Len(q) /\ Len(q) \in Nat
      /\ r[Len(q) + 1] = e /\ \A i \in DOMAIN q : r[i] = q[i]
  BY <1>0, LenProperties, AppendProperties
<1>2. /\ \A i \in DOMAIN r : i \in DOMAIN q \/ i = Len(q) + 1
      /\ Len(q) + 1 \in DOMAIN r /\ \A i \in DOMAIN q : i \in DOMAIN r
  BY <1>1
<1>3. Mentions(r, c) <=> Mentions(q, c) \/ e[1] = c
  BY <1>1, <1>2 DEF Mentions
<1>4. Closes(r, c) <=> Closes(q, c) \/ (e[1] = c /\ e[2] = Shutdown)
  BY <1>1, <1>2 DEF Closes
<1> QED
  BY ONLY <1>0, <1>3, <1>4, Zenon

\* Two queues joined: where the elements come from.
LEMMA Joined ==
    ASSUME NEW S, NEW p \in Seq(S), NEW q \in Seq(S), NEW r, r = p \o q
    PROVE  /\ DOMAIN p = 1 .. Len(p) /\ Len(p) \in Nat
           /\ DOMAIN q = 1 .. Len(q) /\ Len(q) \in Nat
           /\ DOMAIN r = 1 .. Len(p) + Len(q)
           /\ \A i \in DOMAIN p : i \in DOMAIN r /\ r[i] = p[i]
           /\ \A i \in DOMAIN q : Len(p) + i \in DOMAIN r /\ r[Len(p) + i] = q[i]
           /\ \A i \in DOMAIN r : \/ i \in DOMAIN p /\ r[i] = p[i]
                                  \/ i > Len(p) /\ i - Len(p) \in DOMAIN q
                                     /\ r[i] = q[i - Len(p)]
<1>1. /\ DOMAIN p = 1 .. Len(p) /\ Len(p) \in Nat
      /\ DOMAIN q = 1 .. Len(q) /\ Len(q) \in Nat
  BY LenProperties
<1>2. /\ p \o q \in Seq(S) /\ Len(p \o q) = Len(p) + Len(q)
      /\ \A i \in 1 .. Len(p) + Len(q) :
            (p \o q)[i] = IF i <= Len(p) THEN p[i] ELSE q[i - Len(p)]
  BY ONLY ConcatProperties, p \in Seq(S), q \in Seq(S), Zenon
<1>3. /\ r \in Seq(S) /\ Len(r) = Len(p) + Len(q)
      /\ \A i \in 1 .. Len(p) + Len(q) : r[i] = IF i <= Len(p) THEN p[i] ELSE q[i - Len(p)]
  BY ONLY <1>2, r = p \o q, Zenon
<1>4. DOMAIN r = 1 .. Len(p) + Len(q)
  BY <1>3, LenProperties
<1>5. \A i \in DOMAIN p : i \in DOMAIN r /\ r[i] = p[i]
  BY ONLY <1>1, <1>3, <1>4
<1>6. ASSUME NEW i \in DOMAIN q PROVE Len(p) + i \in DOMAIN r /\ r[Len(p) + i] = q[i]
  <2>1. Len(p) + i \in 1 .. Len(p) + Len(q) /\ ~(Len(p) + i <= Len(p)) /\ (Len(p) + i) - Len(p) = i
    BY ONLY <1>1, i \in DOMAIN q
  <2> QED
    BY ONLY <1>3, <1>4, <2>1
<1>7. \A i \in DOMAIN r : \/ i \in DOMAIN p /\ r[i] = p[i]
                          \/ i > Len(p) /\ i - Len(p) \in DOMAIN q /\ r[i] = q[i - Len(p)]
  BY ONLY <1>1, <1>3, <1>4
<1> QED
  BY <1>1, <1>4, <1>5, <1>6, <1>7

\* get_net_msgs
LEMMA QueueJoin ==
    ASSUME NEW p \in Seq(Messages), NEW q \in Seq(Messages), NEW c
    PROVE  /\ Mentions(p \o q, c) <=> Mentions(p, c) \/ Mentions(q, c)
           /\ Closes(p \o q, c) <=> Closes(p, c) \/ Closes(q, c)
<1>0. PICK r : r = p \o q
  OBVIOUS
<1>1. /\ \A i \in DOMAIN p : i \in DOMAIN r /\ r[i] = p[i]
      /\ \A i \in DOMAIN q : Len(p) + i \in DOMAIN r /\ r[Len(p) + i] = q[i]
      /\ \A i \in DOMAIN r : \/ i \in DOMAIN p /\ r[i] = p[i]
                             \/ i > Len(p) /\ i - Len(p) \in DOMAIN q
                                /\ r[i] = q[i - Len(p)]
  BY <1>0, Joined
<1>2. Mentions(r, c) <=> Mentions(p, c) \/ Mentions(q, c)
  BY <1>1 DEF Mentions
<1>3. Closes(r, c) <=> Closes(p, c) \/ Closes(q, c)
  BY <1>1 DEF Closes
<1> QED
  BY ONLY <1>0, <1>2, <1>3, Zenon

\* The rest of a queue: its elements, one place further on.
LEMMA Rest ==
    ASSUME NEW S, NEW q \in Seq(S), q # <<>>, NEW r, r = Tail(q)
    PROVE  /\ r \in Seq(S) /\ DOMAIN q = 1 .. Len(q) /\ Len(q) \in Nat \ {0}
           /\ 1 \in DOMAIN q /\ Head(q) = q[1]
           /\ DOMAIN r = 1 .. Len(q) - 1
           /\ \A i \in DOMAIN r : i + 1 \in DOMAIN q /\ r[i] = q[i + 1]
           /\ \A i \in DOMAIN q : i = 1 \/ (i - 1 \in DOMAIN r /\ r[i - 1] = q[i])
<1>1. /\ r \in Seq(S) /\ DOMAIN q = 1 .. Len(q) /\ Len(q) \in Nat \ {0}
      /\ Head(q) = q[1] /\ Len(r) = Len(q) - 1
  BY LenProperties, EmptySeq, HeadTailProperties
<1>2. DOMAIN r = 1 .. Len(q) - 1
  BY <1>1, LenProperties
<1>3. \A i \in DOMAIN r : i + 1 \in DOMAIN q /\ r[i] = q[i + 1]
  BY <1>1, <1>2
<1>4. ASSUME NEW i \in DOMAIN q, i # 1 PROVE i - 1 \in DOMAIN r /\ r[i - 1] = q[i]
  <2>1. i - 1 \in DOMAIN r /\ (i - 1) + 1 = i
    BY <1>1, <1>2, <1>4
  <2> QED
    BY <1>3, <2>1
<1> QED
  BY <1>1, <1>2, <1>3, <1>4

\* A handler takes the first.
LEMMA QueueTail ==
    ASSUME NEW q \in Seq(Messages), q # <<>>, NEW c
    PROVE  /\ Mentions(q, c) <=> Mentions(Tail(q), c) \/ Head(q)[1] = c
           /\ Closes(q, c) <=>
                 Closes(Tail(q), c) \/ (Head(q)[1] = c /\ Head(q)[2] = Shutdown)
<1>0. PICK r : r = Tail(q)
  OBVIOUS
<1>1. /\ 1 \in DOMAIN q /\ Head(q) = q[1]
      /\ \A i \in DOMAIN r : i + 1 \in DOMAIN q /\ r[i] = q[i + 1]
      /\ \A i \in DOMAIN q : i = 1 \/ (i - 1 \in DOMAIN r /\ r[i - 1] = q[i])
  BY <1>0, Rest
<1>2. Mentions(q, c) <=> Mentions(r, c) \/ Head(q)[1] = c
  BY <1>1 DEF Mentions
<1>3. Closes(q, c) <=> Closes(r, c) \/ (Head(q)[1] = c /\ Head(q)[2] = Shutdown)
  BY <1>1 DEF Closes
<1> QED
  BY ONLY <1>0, <1>2, <1>3, Zenon

\* The empty queue.
LEMMA QueueEmpty == ASSUME NEW c PROVE ~Mentions(<<>>, c) /\ ~Closes(<<>>, c)
BY DEF Mentions, Closes

\* A Shutdown is a message.
LEMMA ClosesMentions == ASSUME NEW q, NEW c, Closes(q, c) PROVE Mentions(q, c)
BY DEF Mentions, Closes

-----------------------------------------------------------------------------
(* Workers and their connections *)

\* A connection is registered with its own worker only, and what a worker has
\* to do is about connections registered with it.
Home(w, c) ==
    /\ c \in thread_connections[w] => td[c] = w
    /\ <<c, "r">> \in todo[w] => c \in thread_connections[w] /\ pc[w] \in {"io", "events"}
    /\ <<c, "w">> \in todo[w] => c \in thread_connections[w] /\ pc[w] \in {"io", "events"}
    /\ <<c, "s">> \in todo[w] => c \in thread_connections[w] /\ pc[w] = "sweep"

Homes == \A w \in Workers, c \in Conns : Home(w, c)

\* Every step keeps that.
LEMMA HomesKept == ASSUME TypeOK, Homes, [Next]_vars PROVE Homes'
<1>0. /\ td \in [Conns -> Workers \cup {NoThread}]
      /\ pc \in [Workers -> {"dispatch", "collect", "io", "events", "sweep"}]
      /\ todo \in [Workers -> SUBSET (Conns \X {"r", "w", "s"})]
      /\ thread_connections \in [Workers -> SUBSET Conns]
      /\ NoThread \notin Workers
  BY NetThreadNumAssumption DEF TypeOK, NoThread, Workers
<1> SUFFICES ASSUME NEW v \in Workers, NEW d \in Conns PROVE Home(v, d)'
  BY DEF Homes
<1>1. Home(v, d)
  BY DEF Homes
<1>2. CASE PeerStep \/ MainStep \/ UNCHANGED vars
  <2>1. UNCHANGED <<td, pc, todo, thread_connections>>
    BY <1>2 DEF PeerStep, PeerSend, PeerEof, PeerReset, PeerRecv, MainStep, GetNetMsgs,
                Handle, LogicTurnEnds, vars
  <2> QED
    BY <1>1, <2>1 DEF Home
<1>3. ASSUME NEW w \in Workers, Dispatch(w) \/ SweepEnd(w) PROVE Home(v, d)'
  <2>1. UNCHANGED <<td, todo, thread_connections>>
        /\ pc[w] \in {"dispatch", "sweep"} /\ (pc[w] = "sweep" => todo[w] = {})
        /\ pc' = [pc EXCEPT ![w] = pc'[w]]
    BY <1>0, <1>3 DEF Dispatch, SweepEnd, Goto
  <2>2. CASE v = w
    BY <1>1, <2>1, <2>2 DEF Home
  <2>3. CASE v # w
    <3>1. pc'[v] = pc[v]
      BY <1>0, <2>1, <2>3
    <3> QED
      BY <1>1, <2>1, <3>1 DEF Home
  <2> QED
    BY <2>2, <2>3
<1>4. ASSUME NEW w \in Workers, CollectEnd(w) \/ EpollWait(w) \/ EventsEnd(w)
      PROVE  Home(v, d)'
  <2>1. UNCHANGED <<td, thread_connections>>
    BY <1>4 DEF CollectEnd, EpollWait, EventsEnd
  <2>2. CASE v = w
    <3>1. CASE EventsEnd(w)
      <4>1. todo'[w] = {<<c, "s">> : c \in thread_connections[w]} /\ pc'[w] = "sweep"
        BY <1>0, <3>1 DEF EventsEnd, Goto
      <4> QED
        BY <1>1, <2>1, <2>2, <4>1 DEF Home
    <3>2. CASE CollectEnd(w)
      <4>1. /\ todo'[w] = {<<c, "r">> : c \in {e \in thread_connections[w] : can_read[e]}}
                          \cup {<<c, "w">> : c \in {e \in thread_connections[w] : can_write[e]}}
            /\ pc'[w] = "io"
        BY <1>0, <3>2 DEF CollectEnd, Goto
      <4> QED
        BY <1>1, <2>1, <2>2, <4>1 DEF Home
    <3>3. CASE EpollWait(w)
      <4>1. /\ todo'[w] = {<<c, "r">> : c \in {e \in thread_connections[w] :
                                                  read_armed[e] /\ Readable(e)}}
                          \cup {<<c, "w">> : c \in {e \in thread_connections[w] :
                                                      write_armed[e] /\ Writable(e)}}
            /\ pc'[w] = "events"
        BY <1>0, <3>3 DEF EpollWait, Goto
      <4> QED
        BY <1>1, <2>1, <2>2, <4>1 DEF Home
    <3> QED
      BY <1>4, <3>1, <3>2, <3>3
  <2>3. CASE v # w
    <3>1. pc'[v] = pc[v] /\ todo'[v] = todo[v]
      BY <1>0, <1>4, <2>3 DEF CollectEnd, EpollWait, EventsEnd, Goto
    <3> QED
      BY <1>1, <2>1, <3>1 DEF Home
  <2> QED
    BY <2>2, <2>3
<1>5. ASSUME NEW w \in Workers, NEW c \in Conns,
             CollectOne(w, c) \/ IoRead(w, c) \/ IoWrite(w, c) \/ EventRead(w, c) \/ EventWrite(w, c)
      PROVE  Home(v, d)'
  <2>1. UNCHANGED <<td, pc, thread_connections>>
    BY <1>5 DEF CollectOne, IoRead, IoWrite, EventRead, EventWrite
  <2>2. todo'[v] \subseteq todo[v]
    BY <1>0, <1>5 DEF CollectOne, IoRead, IoWrite, EventRead, EventWrite
  <2> QED
    BY <1>1, <2>1, <2>2 DEF Home
<1>6. ASSUME NEW w \in Workers, NEW c \in Conns, Register(w, c) PROVE Home(v, d)'
  <2>1. /\ UNCHANGED <<pc, todo>> /\ td[c] = NoThread
        /\ td' = [td EXCEPT ![c] = w]
        /\ thread_connections' = [thread_connections EXCEPT ![w] = @ \cup {c}]
    BY <1>6 DEF Register
  <2>2. thread_connections[v] \subseteq thread_connections'[v]
    BY <1>0, <2>1
  <2>3. d \in thread_connections'[v] => td'[d] = v
    <3>1. CASE d = c
      <4>1. d \notin thread_connections[v]
        BY <1>0, <1>1, <2>1, <3>1 DEF Home
      <4> QED
        BY <1>0, <2>1, <3>1, <4>1
    <3>2. CASE d # c
      <4>1. td'[d] = td[d] /\ (d \in thread_connections'[v] => d \in thread_connections[v])
        BY <1>0, <2>1, <3>2
      <4> QED
        BY <1>1, <4>1 DEF Home
    <3> QED
      BY <3>1, <3>2
  <2> QED
    BY <1>1, <2>1, <2>2, <2>3 DEF Home
<1>7. ASSUME NEW w \in Workers, NEW c \in Conns, SweepVisit(w, c) PROVE Home(v, d)'
  <2>1. /\ UNCHANGED <<td, pc>> /\ pc[w] = "sweep"
        /\ todo' = [todo EXCEPT ![w] = @ \ {<<c, "s">>}]
        /\ \/ UNCHANGED thread_connections
           \/ thread_connections' = [thread_connections EXCEPT ![w] = @ \ {c}]
    BY <1>7 DEF SweepVisit
  <2>2. CASE v = w /\ d = c
    <3>1. <<d, "r">> \notin todo[v] /\ <<d, "w">> \notin todo[v]
      BY <1>1, <2>1, <2>2 DEF Home
    <3>2. todo'[v] = todo[v] \ {<<d, "s">>} /\ thread_connections'[v] \subseteq thread_connections[v]
      BY <1>0, <2>1, <2>2
    <3> QED
      BY <1>1, <2>1, <3>1, <3>2 DEF Home
  <2>3. CASE v # w \/ d # c
    <3>1. /\ todo'[v] \subseteq todo[v]
          /\ d \in thread_connections'[v] <=> d \in thread_connections[v]
      BY <1>0, <2>1, <2>3
    <3> QED
      BY <1>1, <2>1, <3>1 DEF Home
  <2> QED
    BY <2>2, <2>3
<1> QED
  BY <1>2, <1>3, <1>4, <1>5, <1>6, <1>7 DEF Next, WorkerStep

-----------------------------------------------------------------------------
(* Connections no worker has registered yet *)

\* on_read changes nothing of the other connections.
LEMMA ReadLocal ==
    ASSUME TypeOK, NEW c \in Conns, NEW armed \in [Conns -> BOOLEAN], OnRead(c, armed)
    PROVE  /\ \A d \in Conns \ {c} :
                 /\ inbox'[d] = inbox[d] /\ conn_read_msgs'[d] = conn_read_msgs[d]
                 /\ can_read'[d] = can_read[d] /\ read_armed'[d] = armed[d]
                 /\ state'[d] = state[d] /\ cause'[d] = cause[d]
           /\ \/ state'[c] = state[c] /\ cause'[c] = cause[c]
              \/ state[c] # "CLOSE" /\ state'[c] = "CLOSE"
<1>1. /\ can_read \in [Conns -> BOOLEAN]
      /\ state \in [Conns -> {"LISTEN", "WAITING", "CLOSE"}]
      /\ cause \in [Conns -> {"none", "eof", "reset", "logic", "fault"}]
      /\ inbox \in [Conns -> Seq(1 .. MaxFrames)]
      /\ conn_read_msgs \in [Conns -> Seq(1 .. MaxFrames)]
  BY DEF TypeOK
<1>2. \A d \in Conns \ {c} :
         inbox'[d] = inbox[d] /\ conn_read_msgs'[d] = conn_read_msgs[d]
  BY <1>1 DEF OnRead, ReadFrames
<1>3. \A d \in Conns \ {c} :
         /\ can_read'[d] = can_read[d] /\ read_armed'[d] = armed[d]
         /\ state'[d] = state[d] /\ cause'[d] = cause[d]
  BY <1>1 DEF OnRead, Rearm, ConnClose, closeVars
<1>4. \/ state'[c] = state[c] /\ cause'[c] = cause[c]
      \/ state[c] # "CLOSE" /\ state'[c] = "CLOSE"
  BY <1>1 DEF OnRead, ConnClose, closeVars
<1> QED
  BY <1>2, <1>3, <1>4

\* Nor does on_write.
LEMMA WriteLocal ==
    ASSUME TypeOK, NEW c \in Conns, NEW armed \in [Conns -> BOOLEAN], OnWrite(c, armed)
    PROVE  /\ \A d \in Conns \ {c} :
                 /\ outbox'[d] = outbox[d] /\ write_buffer'[d] = write_buffer[d]
                 /\ conn_write_msgs'[d] = conn_write_msgs[d]
                 /\ state'[d] = state[d] /\ cause'[d] = cause[d]
           /\ \/ state'[c] = state[c] /\ cause'[c] = cause[c]
              \/ state[c] # "CLOSE" /\ state'[c] = "CLOSE" /\ cause'[c] = "fault"
<1>1. /\ state \in [Conns -> {"LISTEN", "WAITING", "CLOSE"}]
      /\ cause \in [Conns -> {"none", "eof", "reset", "logic", "fault"}]
      /\ outbox \in [Conns -> Seq(1 .. MaxSends)]
      /\ write_buffer \in [Conns -> Seq(1 .. MaxSends)]
      /\ conn_write_msgs \in [Conns -> Seq(1 .. MaxSends)]
  BY DEF TypeOK
<1>2. \A d \in Conns \ {c} : outbox'[d] = outbox[d] /\ write_buffer'[d] = write_buffer[d]
                             /\ conn_write_msgs'[d] = conn_write_msgs[d]
  BY <1>1 DEF OnWrite
<1>3. /\ \A d \in Conns \ {c} : state'[d] = state[d] /\ cause'[d] = cause[d]
      /\ \/ state'[c] = state[c] /\ cause'[c] = cause[c]
         \/ state[c] # "CLOSE" /\ state'[c] = "CLOSE" /\ cause'[c] = "fault"
  BY <1>1 DEF OnWrite, ConnClose, closeVars
<1> QED
  BY <1>2, <1>3

\* A connection is heard of through its own worker; before it has one it is
\* untouched.  A cause is given to a closed connection only.
Heard(c) == \A w \in Workers : Mentions(td_read_msgs[w], c) => td[c] = w

Untouched(c) ==
    /\ ~Mentions(output, c) /\ handled[c] = <<>>
    /\ conn_read_msgs[c] = <<>> /\ ~can_read[c]
    /\ state[c] = "LISTEN" /\ cause[c] = "none" /\ sends[c] = 0
    /\ got[c] = <<>> /\ outbox[c] = <<>> /\ write_buffer[c] = <<>>
    /\ conn_write_msgs[c] = <<>> /\ td_write_msgs[c] = <<>>

Fresh ==
    \A c \in Conns :
        /\ Heard(c)
        /\ td[c] = NoThread => Untouched(c)
        /\ cause[c] # "none" => state[c] = "CLOSE"

\* A step that leaves d's part of the state alone.
LEMMA FreshAlone ==
    ASSUME Fresh, NEW d \in Conns,
           \A w \in Workers : Mentions(td_read_msgs'[w], d) => Mentions(td_read_msgs[w], d),
           td'[d] = td[d],
           Mentions(output', d) => Mentions(output, d) \/ td[d] # NoThread,
           td[d] = NoThread =>
              /\ handled'[d] = handled[d] /\ conn_read_msgs'[d] = conn_read_msgs[d]
              /\ can_read'[d] = can_read[d] /\ state'[d] = state[d] /\ cause'[d] = cause[d]
              /\ sends'[d] = sends[d] /\ got'[d] = got[d] /\ outbox'[d] = outbox[d]
              /\ write_buffer'[d] = write_buffer[d]
              /\ conn_write_msgs'[d] = conn_write_msgs[d]
              /\ td_write_msgs'[d] = td_write_msgs[d],
           \/ state'[d] = state[d] /\ cause'[d] = cause[d]
           \/ state'[d] = "CLOSE"
    PROVE  /\ Heard(d)'
           /\ (td[d] = NoThread => Untouched(d))'
           /\ (cause[d] # "none" => state[d] = "CLOSE")'
<1>1. Heard(d) /\ (td[d] = NoThread => Untouched(d)) /\ (cause[d] # "none" => state[d] = "CLOSE")
  BY DEF Fresh
<1>2. Heard(d)'
  BY <1>1 DEF Heard
<1>3. (td[d] = NoThread => Untouched(d))'
  BY <1>1 DEF Untouched
<1> QED
  BY <1>1, <1>2, <1>3

\* Every step keeps Fresh.
LEMMA FreshKept == ASSUME TypeOK, Homes, Fresh, [Next]_vars PROVE Fresh'
<1>0. /\ td \in [Conns -> Workers \cup {NoThread}] /\ NoThread \notin Workers
      /\ td_read_msgs \in [Workers -> Seq(Messages)] /\ output \in Seq(Messages)
      /\ state \in [Conns -> {"LISTEN", "WAITING", "CLOSE"}]
      /\ cause \in [Conns -> {"none", "eof", "reset", "logic", "fault"}]
      /\ handled \in [Conns -> Seq(0 .. MaxFrames)]
  BY NetThreadNumAssumption DEF TypeOK, NoThread, Workers, Messages
<1> SUFFICES ASSUME NEW d \in Conns
             PROVE  /\ Heard(d)'
                    /\ (td[d] = NoThread => Untouched(d))'
                    /\ (cause[d] # "none" => state[d] = "CLOSE")'
  BY DEF Fresh
<1> DEFINE Kept == /\ Heard(d)'
                   /\ (td[d] = NoThread => Untouched(d))'
                   /\ (cause[d] # "none" => state[d] = "CLOSE")'
<1>1. /\ Heard(d) /\ (td[d] = NoThread => Untouched(d))
      /\ (cause[d] # "none" => state[d] = "CLOSE")
  BY DEF Fresh
<1>2. \A w \in Workers : d \in thread_connections[w] => td[d] = w
  BY DEF Homes, Home
<1>3. CASE PeerStep
  <2>1. UNCHANGED <<closeVars, td, bufferVars, threadVars, mainVars, can_read>>
    BY <1>3 DEF PeerStep, PeerSend, PeerEof, PeerReset, PeerRecv, flagVars
  <2>2. td[d] = NoThread => got'[d] = got[d] /\ outbox'[d] = outbox[d]
    <3>1. ASSUME td[d] = NoThread, NEW c \in Conns, PeerRecv(c)
          PROVE  got'[d] = got[d] /\ outbox'[d] = outbox[d]
      <4>1. c # d
        BY <1>1, <3>1 DEF Untouched, PeerRecv
      <4> QED
        BY <3>1, <4>1 DEF PeerRecv, TypeOK
    <3> QED
      BY <1>3, <3>1 DEF PeerStep, PeerSend, PeerEof, PeerReset
  <2>3. Kept
    BY <2>1, <2>2, FreshAlone DEF closeVars, bufferVars, threadVars, mainVars
  <2> QED
    BY <2>3
<1>4. ASSUME NEW w \in Workers, Dispatch(w) PROVE Kept
  <2>1. /\ UNCHANGED <<peerVars, flagVars, closeVars, td, conn_read_msgs, write_buffer,
                       td_read_msgs, mainVars>>
    BY <1>4 DEF Dispatch
  <2>2. td[d] = NoThread => /\ conn_write_msgs'[d] = conn_write_msgs[d]
                            /\ td_write_msgs'[d] = td_write_msgs[d]
    BY <1>0, <1>2, <1>4 DEF Dispatch
  <2> QED
    BY <2>1, <2>2, FreshAlone DEF peerVars, flagVars, closeVars, mainVars
<1>5. ASSUME NEW w \in Workers,
             CollectEnd(w) \/ EpollWait(w) \/ EventsEnd(w) \/ SweepEnd(w)
      PROVE  Kept
  <2>1. UNCHANGED <<peerVars, flagVars, closeVars, td, bufferVars, threadVars, mainVars>>
    BY <1>5 DEF CollectEnd, EpollWait, EventsEnd, SweepEnd
  <2> QED
    BY <2>1, FreshAlone
    DEF peerVars, flagVars, closeVars, bufferVars, threadVars, mainVars
<1>6. ASSUME NEW w \in Workers, NEW c \in Conns, CollectOne(w, c) PROVE Kept
  <2>1. UNCHANGED <<peerVars, flagVars, closeVars, td, conn_write_msgs, write_buffer,
                    td_write_msgs, mainVars>>
    BY <1>6 DEF CollectOne
  <2>2. td[c] = w
    BY <1>6 DEF CollectOne, Homes, Home
  <2>3. CASE d = c
    <3>1. \A v \in Workers \ {w} : td_read_msgs'[v] = td_read_msgs[v]
      BY <1>0, <1>6 DEF CollectOne
    <3>2. Heard(d)'
      BY <1>1, <2>1, <2>2, <2>3, <3>1 DEF Heard
    <3> QED
      BY <1>0, <1>1, <2>1, <2>2, <2>3, <3>2 DEF closeVars
  <2>4. CASE d # c
    <3>1. conn_read_msgs'[d] = conn_read_msgs[d]
      BY <1>6, <2>4 DEF CollectOne, TypeOK
    <3>2. ASSUME NEW v \in Workers, Mentions(td_read_msgs'[v], d)
          PROVE  Mentions(td_read_msgs[v], d)
      <4>1. CASE v # w
        <5>1. td_read_msgs'[v] = td_read_msgs[v]
          BY <1>0, <1>6, <4>1 DEF CollectOne
        <5> QED
          BY <3>2, <5>1
      <4>2. CASE v = w
        <5>1. PICK e \in Messages : e = <<c, Head(conn_read_msgs[c])>>
          <6>1. conn_read_msgs[c] \in Seq(1 .. MaxFrames) /\ conn_read_msgs[c] # <<>>
            BY <1>6 DEF TypeOK, CollectOne
          <6>2. Head(conn_read_msgs[c]) \in 1 .. MaxFrames
            BY <6>1, HeadTailProperties
          <6>3. <<c, Head(conn_read_msgs[c])>> \in Messages
            BY <6>2, BoundsAssumption DEF Messages
          <6> QED
            BY <6>3, Zenon
        <5>2. td_read_msgs'[w] = Append(td_read_msgs[w], e) /\ e[1] = c
          BY <1>0, <1>6, <5>1 DEF CollectOne
        <5>3. PICK q \in Seq(Messages) : q = td_read_msgs[w]
          BY <1>0
        <5>4. Mentions(Append(q, e), d) <=> Mentions(q, d) \/ e[1] = d
          BY QueueAppend
        <5> QED
          BY <2>4, <3>2, <4>2, <5>2, <5>3, <5>4
      <4> QED
        BY <4>1, <4>2
    <3> QED
      BY <2>1, <3>1, <3>2, FreshAlone DEF peerVars, flagVars, closeVars, mainVars
  <2> QED
    BY <2>3, <2>4
<1>7. ASSUME NEW w \in Workers, NEW c \in Conns, IoRead(w, c) \/ EventRead(w, c)
      PROVE  Kept
  <2>1. PICK armed \in [Conns -> BOOLEAN] : OnRead(c, armed)
    BY <1>7 DEF IoRead, EventRead, TypeOK, Disarmed
  <2>2. UNCHANGED <<sock, peer_sent, outbox, got, td, conn_write_msgs, write_buffer,
                    threadVars, mainVars>>
    BY <1>7 DEF IoRead, EventRead
  <2>3. td[c] = w
    BY <1>7 DEF IoRead, EventRead, Homes, Home
  <2>4. /\ d # c => /\ conn_read_msgs'[d] = conn_read_msgs[d] /\ can_read'[d] = can_read[d]
                    /\ state'[d] = state[d] /\ cause'[d] = cause[d]
        /\ \/ state'[d] = state[d] /\ cause'[d] = cause[d]
           \/ state'[d] = "CLOSE"
    BY <2>1, ReadLocal
  <2> QED
    BY <1>0, <2>2, <2>3, <2>4, FreshAlone DEF threadVars, mainVars
<1>8. ASSUME NEW w \in Workers, NEW c \in Conns, IoWrite(w, c) \/ EventWrite(w, c)
      PROVE  Kept
  <2>1. PICK armed \in [Conns -> BOOLEAN] : OnWrite(c, armed)
    BY <1>8 DEF IoWrite, EventWrite, TypeOK, Disarmed
  <2>2. UNCHANGED <<sock, peer_sent, inbox, got, can_read, td, conn_read_msgs,
                    threadVars, mainVars>>
    BY <1>8 DEF IoWrite, EventWrite
  <2>3. td[c] = w
    BY <1>8 DEF IoWrite, EventWrite, Homes, Home
  <2>4. /\ d # c => /\ outbox'[d] = outbox[d] /\ write_buffer'[d] = write_buffer[d]
                    /\ conn_write_msgs'[d] = conn_write_msgs[d]
                    /\ state'[d] = state[d] /\ cause'[d] = cause[d]
        /\ \/ state'[d] = state[d] /\ cause'[d] = cause[d]
           \/ state'[d] = "CLOSE"
    BY <2>1, WriteLocal
  <2> QED
    BY <1>0, <2>2, <2>3, <2>4, FreshAlone DEF threadVars, mainVars
<1>9. ASSUME NEW w \in Workers, NEW c \in Conns, Register(w, c) PROVE Kept
  <2>1. /\ UNCHANGED <<peerVars, can_read, can_write, cause, bufferVars, threadVars, mainVars>>
        /\ td[c] = NoThread
        /\ td' = [td EXCEPT ![c] = w] /\ state' = [state EXCEPT ![c] = "WAITING"]
    BY <1>9 DEF Register
  <2>2. CASE d = c
    <3>1. td'[d] = w /\ cause'[d] = "none"
      BY <1>0, <1>1, <2>1, <2>2 DEF Untouched
    <3>2. Heard(d)'
      BY <1>0, <1>1, <2>1, <2>2 DEF Heard, threadVars
    <3> QED
      BY <1>0, <3>1, <3>2
  <2>3. CASE d # c
    <3>1. td'[d] = td[d] /\ state'[d] = state[d]
      BY <1>0, <2>1, <2>3
    <3> QED
      BY <2>1, <3>1, FreshAlone DEF peerVars, bufferVars, threadVars, mainVars
  <2> QED
    BY <2>2, <2>3
<1>10. ASSUME NEW w \in Workers, NEW c \in Conns, SweepVisit(w, c) PROVE Kept
  <2>1. UNCHANGED <<peer_sent, outbox, got, can_read, can_write, closeVars, td,
                    conn_read_msgs, conn_write_msgs, td_write_msgs, mainVars>>
    BY <1>10 DEF SweepVisit
  <2>2. td[c] = w
    BY <1>10 DEF SweepVisit, Homes, Home
  <2>3. CASE d = c
    <3>1. \A v \in Workers \ {w} : td_read_msgs'[v] = td_read_msgs[v]
      BY <1>0, <1>10 DEF SweepVisit
    <3>2. Heard(d)'
      BY <1>1, <2>1, <2>2, <2>3, <3>1 DEF Heard
    <3> QED
      BY <1>0, <1>1, <2>1, <2>2, <2>3, <3>2 DEF closeVars
  <2>4. CASE d # c
    <3>1. write_buffer'[d] = write_buffer[d]
      BY <1>10, <2>4 DEF SweepVisit, TypeOK
    <3>2. ASSUME NEW v \in Workers, Mentions(td_read_msgs'[v], d)
          PROVE  Mentions(td_read_msgs[v], d)
      <4>1. CASE td_read_msgs'[v] = td_read_msgs[v]
        BY <3>2, <4>1
      <4>2. CASE td_read_msgs'[v] # td_read_msgs[v]
        <5>1. PICK e \in Messages : e = <<c, Shutdown>>
          <6>1. <<c, Shutdown>> \in Messages
            BY BoundsAssumption DEF Messages, Shutdown
          <6> QED
            BY <6>1, Zenon
        <5>2. td_read_msgs'[v] = Append(td_read_msgs[v], e) /\ e[1] = c
          BY <1>0, <1>10, <4>2, <5>1 DEF SweepVisit, ShutdownLast
        <5>3. PICK q \in Seq(Messages) : q = td_read_msgs[v]
          BY <1>0
        <5>4. Mentions(Append(q, e), d) <=> Mentions(q, d) \/ e[1] = d
          BY QueueAppend
        <5> QED
          BY <2>4, <3>2, <5>2, <5>3, <5>4
      <4> QED
        BY <4>1, <4>2
    <3> QED
      BY <2>1, <3>1, <3>2, FreshAlone DEF closeVars, mainVars
  <2> QED
    BY <2>3, <2>4
<1>11. ASSUME GetNetMsgs PROVE Kept
  <2>1. UNCHANGED <<peerVars, flagVars, closeVars, td, bufferVars, td_write_msgs, handled, sends>>
    BY <1>11 DEF GetNetMsgs
  <2>2. next_thread \in Workers
    BY <1>11, NetThreadNumAssumption DEF GetNetMsgs, TypeOK, Workers
  <2>3. /\ output' = output \o td_read_msgs[next_thread]
        /\ td_read_msgs' = [td_read_msgs EXCEPT ![next_thread] = <<>>]
    BY <1>11 DEF GetNetMsgs
  <2>4. ASSUME NEW v \in Workers, Mentions(td_read_msgs'[v], d)
        PROVE  Mentions(td_read_msgs[v], d)
    <3>1. v # next_thread
      BY <1>0, <2>2, <2>3, <2>4, QueueEmpty
    <3> QED
      BY <1>0, <2>3, <2>4, <3>1
  <2>5. ASSUME Mentions(output', d) PROVE Mentions(output, d) \/ td[d] # NoThread
    <3>1. PICK p \in Seq(Messages), q \in Seq(Messages) :
             p = output /\ q = td_read_msgs[next_thread]
      BY <1>0, <2>2
    <3>2. Mentions(p \o q, d) <=> Mentions(p, d) \/ Mentions(q, d)
      BY QueueJoin
    <3>3. Mentions(output, d) \/ Mentions(td_read_msgs[next_thread], d)
      BY <2>3, <2>5, <3>1, <3>2
    <3> QED
      BY <1>0, <1>1, <2>2, <3>3 DEF Heard
  <2> QED
    BY <2>1, <2>4, <2>5, FreshAlone DEF peerVars, flagVars, closeVars, bufferVars
<1>12. ASSUME Handle PROVE Kept
  <2>1. UNCHANGED <<peerVars, flagVars, td, bufferVars, td_read_msgs>> /\ output # <<>>
    BY <1>12 DEF Handle
  <2>2. PICK q \in Seq(Messages) : q = output
    BY <1>0
  <2>3. Mentions(q, d) <=> Mentions(Tail(q), d) \/ Head(q)[1] = d
    BY <2>1, <2>2, QueueTail
  <2>4. Mentions(output', d) => Mentions(output, d)
    BY <1>12, <2>2, <2>3 DEF Handle
  <2>5. td[d] = NoThread => Head(output)[1] # d
    BY <1>1, <2>2, <2>3 DEF Untouched
  <2>6. td[d] = NoThread =>
           /\ handled'[d] = handled[d] /\ handled'[d] = <<>>
           /\ state'[d] = state[d] /\ cause'[d] = cause[d]
    <3>1. td[d] = NoThread => handled'[d] = handled[d] /\ handled'[d] = <<>>
      BY <1>0, <1>1, <1>12, <2>5 DEF Handle, Untouched
    <3>2. td[d] = NoThread => state'[d] = state[d] /\ cause'[d] = cause[d]
      BY <1>0, <1>12, <2>5 DEF Handle, ConnClose, closeVars
    <3> QED
      BY <3>1, <3>2
  <2>7. td[d] = NoThread => sends'[d] = sends[d] /\ td_write_msgs'[d] = td_write_msgs[d]
    <3>1. ASSUME td[d] = NoThread, NEW e \in Conns, handled'[e] # <<>>, NetSend(e)
          PROVE  sends'[d] = sends[d] /\ td_write_msgs'[d] = td_write_msgs[d]
      <4>1. e # d
        BY <2>6, <3>1
      <4> QED
        BY <3>1, <4>1 DEF NetSend, TypeOK
    <3> QED
      BY <1>12, <3>1 DEF Handle
  <2>8. \/ state'[d] = state[d] /\ cause'[d] = cause[d]
        \/ state'[d] = "CLOSE"
    BY <1>0, <1>12 DEF Handle, ConnClose, closeVars
  <2> QED
    BY <2>1, <2>4, <2>6, <2>7, <2>8, FreshAlone DEF peerVars, flagVars, bufferVars
<1>13. ASSUME LogicTurnEnds \/ UNCHANGED vars PROVE Kept
  <2>1. UNCHANGED <<peerVars, flagVars, closeVars, td, bufferVars, threadVars, output, handled, sends>>
    BY <1>13 DEF LogicTurnEnds, vars, mainVars
  <2> QED
    BY <2>1, FreshAlone DEF peerVars, flagVars, closeVars, bufferVars, threadVars
<1> QED
  BY <1>3, <1>4, <1>5, <1>6, <1>7, <1>8, <1>9, <1>10, <1>11, <1>12, <1>13
  DEF Next, WorkerStep, MainStep

-----------------------------------------------------------------------------
(* One read in a turn *)

\* A connection is polled or armed, not both, and a worker reads it once in a
\* turn, after its messages have been collected.
ReadOnce(c) ==
    /\ ~(can_read[c] /\ read_armed[c])
    /\ conn_read_msgs[c] # <<>> => can_read[c]
    /\ \A w \in Workers : <<c, "r">> \in todo[w] =>
          /\ conn_read_msgs[c] = <<>>
          /\ pc[w] = "io" => can_read[c]
          /\ pc[w] = "events" => read_armed[c]

OneRead == \A c \in Conns : ReadOnce(c)

\* A step after which d has no more to be read than before, and is otherwise
\* left alone.
LEMMA OneReadAlone ==
    ASSUME OneRead, NEW d \in Conns,
           \A w \in Workers : <<d, "r">> \in todo'[w] =>
              <<d, "r">> \in todo[w] /\ pc'[w] = pc[w],
           can_read'[d] = can_read[d] /\ read_armed'[d] = read_armed[d],
           conn_read_msgs'[d] = conn_read_msgs[d]
    PROVE  ReadOnce(d)'
BY DEF OneRead, ReadOnce

\* Every step keeps that.
LEMMA OneReadKept ==
    ASSUME TypeOK, Homes, Fresh, OneRead, [Next]_vars
    PROVE  OneRead'
<1>0. /\ td \in [Conns -> Workers \cup {NoThread}] /\ NoThread \notin Workers
      /\ pc \in [Workers -> {"dispatch", "collect", "io", "events", "sweep"}]
      /\ todo \in [Workers -> SUBSET (Conns \X {"r", "w", "s"})]
      /\ can_read \in [Conns -> BOOLEAN] /\ read_armed \in [Conns -> BOOLEAN]
      /\ conn_read_msgs \in [Conns -> Seq(1 .. MaxFrames)]
  <2>1. NoThread \notin Workers
    BY NetThreadNumAssumption DEF NoThread, Workers
  <2> QED
    BY <2>1 DEF TypeOK
<1> SUFFICES ASSUME NEW d \in Conns PROVE ReadOnce(d)'
  BY DEF OneRead
<1>1. ReadOnce(d)
  BY DEF OneRead
<1>2. \A w \in Workers : <<d, "r">> \in todo[w] => td[d] = w /\ pc[w] \in {"io", "events"}
  BY DEF Homes, Home
<1>3. CASE PeerStep \/ MainStep \/ UNCHANGED vars
  <2>1. UNCHANGED <<pc, todo, can_read, read_armed, conn_read_msgs>>
    BY <1>3 DEF PeerStep, PeerSend, PeerEof, PeerReset, PeerRecv, MainStep, GetNetMsgs,
                Handle, LogicTurnEnds, vars, flagVars, bufferVars
  <2> QED
    BY <2>1, OneReadAlone
<1>4. ASSUME NEW w \in Workers, Dispatch(w) \/ SweepEnd(w) PROVE ReadOnce(d)'
  <2>1. UNCHANGED <<todo, can_read, read_armed, conn_read_msgs>>
        /\ pc[w] \in {"dispatch", "sweep"}
        /\ \A v \in Workers \ {w} : pc'[v] = pc[v]
    BY <1>0, <1>4 DEF Dispatch, SweepEnd, Goto, flagVars, bufferVars
  <2>2. \A v \in Workers : <<d, "r">> \in todo'[v] => <<d, "r">> \in todo[v] /\ pc'[v] = pc[v]
    BY <1>2, <2>1
  <2> QED
    BY <2>1, <2>2, OneReadAlone
<1>5. ASSUME NEW w \in Workers, CollectEnd(w) \/ EpollWait(w) \/ EventsEnd(w)
      PROVE  ReadOnce(d)'
  <2>1. UNCHANGED <<can_read, read_armed, conn_read_msgs>>
    BY <1>5 DEF CollectEnd, EpollWait, EventsEnd, flagVars, bufferVars
  <2>2. \A v \in Workers \ {w} : todo'[v] = todo[v] /\ pc'[v] = pc[v]
    BY <1>0, <1>5 DEF CollectEnd, EpollWait, EventsEnd, Goto
  <2>3. <<d, "r">> \in todo'[w] =>
           /\ conn_read_msgs[d] = <<>>
           /\ pc'[w] = "io" => can_read[d]
           /\ pc'[w] = "events" => read_armed[d]
    <3>1. CASE EventsEnd(w)
      <4>1. todo'[w] = {<<c, "s">> : c \in thread_connections[w]}
        BY <1>0, <3>1 DEF EventsEnd
      <4> QED
        BY <4>1
    <3>2. CASE CollectEnd(w)
      <4>1. /\ todo'[w] = {<<c, "r">> : c \in {e \in thread_connections[w] : can_read[e]}}
                          \cup {<<c, "w">> : c \in {e \in thread_connections[w] : can_write[e]}}
            /\ pc'[w] = "io"
            /\ \A c \in thread_connections[w] : conn_read_msgs[c] = <<>>
        BY <1>0, <3>2 DEF CollectEnd, Goto
      <4> QED
        BY <4>1
    <3>3. CASE EpollWait(w)
      <4>1. /\ todo'[w] = {<<c, "r">> : c \in {e \in thread_connections[w] :
                                                  read_armed[e] /\ Readable(e)}}
                          \cup {<<c, "w">> : c \in {e \in thread_connections[w] :
                                                      write_armed[e] /\ Writable(e)}}
            /\ pc'[w] = "events"
        BY <1>0, <3>3 DEF EpollWait, Goto
      <4>2. <<d, "r">> \in todo'[w] => read_armed[d]
        BY <4>1
      <4> QED
        BY <1>1, <4>1, <4>2 DEF ReadOnce
    <3> QED
      BY <1>5, <3>1, <3>2, <3>3
  <2> QED
    BY <1>1, <2>1, <2>2, <2>3 DEF ReadOnce
<1>6. ASSUME NEW w \in Workers, NEW c \in Conns, CollectOne(w, c) PROVE ReadOnce(d)'
  <2>1. UNCHANGED <<pc, todo, can_read, read_armed>> /\ conn_read_msgs[c] # <<>>
        /\ conn_read_msgs' = [conn_read_msgs EXCEPT ![c] = Tail(@)]
    BY <1>6 DEF CollectOne, flagVars
  <2>2. CASE d = c
    BY <1>1, <2>1, <2>2 DEF ReadOnce
  <2>3. CASE d # c
    <3>1. conn_read_msgs'[d] = conn_read_msgs[d]
      BY <1>0, <2>1, <2>3
    <3> QED
      BY <2>1, <3>1, OneReadAlone
  <2> QED
    BY <2>2, <2>3
<1>7. ASSUME NEW w \in Workers, NEW c \in Conns, IoRead(w, c) \/ EventRead(w, c)
      PROVE  ReadOnce(d)'
  <2>1. /\ UNCHANGED pc /\ <<c, "r">> \in todo[w]
        /\ todo' = [todo EXCEPT ![w] = @ \ {<<c, "r">>}]
    BY <1>7 DEF IoRead, EventRead
  <2>2. PICK armed \in [Conns -> BOOLEAN] :
           /\ OnRead(c, armed)
           /\ \A e \in Conns \ {c} : armed[e] = read_armed[e]
           /\ armed[c] = FALSE
    <3>1. CASE IoRead(w, c)
      <4>1. can_read[c] /\ ~read_armed[c]
        BY <3>1 DEF IoRead, OneRead, ReadOnce
      <4> QED
        BY <1>0, <3>1, <4>1 DEF IoRead
    <3>2. CASE EventRead(w, c)
      <4>1. /\ Disarmed(read_armed, c) \in [Conns -> BOOLEAN]
            /\ Disarmed(read_armed, c)[c] = FALSE
            /\ \A e \in Conns \ {c} : Disarmed(read_armed, c)[e] = read_armed[e]
        BY <1>0 DEF Disarmed
      <4> QED
        BY <3>2, <4>1 DEF EventRead
    <3> QED
      BY <1>7, <3>1, <3>2
  <2>3. CASE d = c
    <3>1. conn_read_msgs[d] = <<>>
      BY <1>1, <2>1, <2>3 DEF ReadOnce
    <3>2. \A v \in Workers : <<d, "r">> \notin todo'[v]
      BY <1>0, <1>2, <2>1, <2>3
    <3>3. /\ ~(can_read'[d] /\ read_armed'[d])
          /\ conn_read_msgs'[d] # <<>> => can_read'[d]
      BY <1>0, <2>2, <2>3, <3>1 DEF OnRead, Rearm
    <3> QED
      BY <3>2, <3>3 DEF ReadOnce
  <2>4. CASE d # c
    <3>1. /\ can_read'[d] = can_read[d] /\ read_armed'[d] = read_armed[d]
          /\ conn_read_msgs'[d] = conn_read_msgs[d]
      BY <2>2, <2>4, ReadLocal
    <3>2. \A v \in Workers : <<d, "r">> \in todo'[v] => <<d, "r">> \in todo[v]
      BY <1>0, <2>1
    <3> QED
      BY <2>1, <3>1, <3>2, OneReadAlone
  <2> QED
    BY <2>3, <2>4
<1>8. ASSUME NEW w \in Workers, NEW c \in Conns, IoWrite(w, c) \/ EventWrite(w, c)
      PROVE  ReadOnce(d)'
  <2>1. UNCHANGED <<pc, can_read, read_armed, conn_read_msgs>>
    BY <1>8 DEF IoWrite, EventWrite
  <2>2. \A v \in Workers : <<d, "r">> \in todo'[v] => <<d, "r">> \in todo[v]
    BY <1>0, <1>8 DEF IoWrite, EventWrite
  <2> QED
    BY <2>1, <2>2, OneReadAlone
<1>9. ASSUME NEW w \in Workers, NEW c \in Conns, Register(w, c) PROVE ReadOnce(d)'
  <2>1. UNCHANGED <<pc, todo, can_read, conn_read_msgs>> /\ td[c] = NoThread
        /\ read_armed' = [read_armed EXCEPT ![c] = TRUE]
    BY <1>9 DEF Register, bufferVars
  <2>2. CASE d = c
    <3>1. ~can_read[d] /\ conn_read_msgs[d] = <<>>
      BY <2>1, <2>2 DEF Fresh, Untouched
    <3>2. \A v \in Workers : <<d, "r">> \notin todo[v]
      BY <1>0, <1>2, <2>1, <2>2
    <3> QED
      BY <2>1, <3>1, <3>2 DEF ReadOnce
  <2>3. CASE d # c
    <3>1. read_armed'[d] = read_armed[d]
      BY <1>0, <2>1, <2>3
    <3> QED
      BY <2>1, <3>1, OneReadAlone
  <2> QED
    BY <2>2, <2>3
<1>10. ASSUME NEW w \in Workers, NEW c \in Conns, SweepVisit(w, c) PROVE ReadOnce(d)'
  <2>1. /\ UNCHANGED <<pc, can_read, conn_read_msgs>> /\ pc[w] = "sweep"
        /\ <<c, "s">> \in todo[w]
        /\ \A v \in Workers : <<d, "r">> \in todo'[v] => <<d, "r">> \in todo[v]
    BY <1>0, <1>10 DEF SweepVisit
  <2>2. CASE d = c
    <3>1. td[d] = w
      BY <2>1, <2>2 DEF Homes, Home
    <3>2. \A v \in Workers : <<d, "r">> \notin todo'[v]
      BY <1>2, <2>1, <3>1
    <3>3. read_armed'[d] => read_armed[d]
      BY <1>0, <1>10, <2>2 DEF SweepVisit
    <3> QED
      BY <1>1, <2>1, <3>2, <3>3 DEF ReadOnce
  <2>3. CASE d # c
    <3>1. read_armed'[d] = read_armed[d]
      BY <1>0, <1>10, <2>3 DEF SweepVisit
    <3> QED
      BY <2>1, <3>1, OneReadAlone
  <2> QED
    BY <2>2, <2>3
<1> QED
  BY <1>3, <1>4, <1>5, <1>6, <1>7, <1>8, <1>9, <1>10 DEF Next, WorkerStep

-----------------------------------------------------------------------------
(* What the logic sends *)

\* The numbers from 1 on.
LEMMA IotaProperties ==
    ASSUME NEW n \in Nat
    PROVE  /\ Iota(n) \in Seq(Nat) /\ Len(Iota(n)) = n /\ DOMAIN Iota(n) = 1 .. n
           /\ \A i \in 1 .. n : Iota(n)[i] = i
<1>1. /\ DOMAIN Iota(n) = 1 .. n /\ \A i \in 1 .. n : Iota(n)[i] = i
      /\ Iota(n) = [i \in 1 .. n |-> i]
  BY DEF Iota
<1>2. Iota(n) \in Seq(Nat)
  <2>1. \A i \in 1 .. n : i \in Nat
    OBVIOUS
  <2> QED
    BY <1>1, <2>1, IsASeq DEF Iota
<1>3. Len(Iota(n)) = n
  BY <1>1, <1>2, LenProperties
<1> QED
  BY <1>1, <1>2, <1>3

\* One more.
LEMMA IotaNext ==
    ASSUME NEW n \in Nat
    PROVE  Append(Iota(n), n + 1) = Iota(n + 1)
<1>1. PICK p, q, r : p = Iota(n) /\ q = Iota(n + 1) /\ r = Append(Iota(n), n + 1)
  OBVIOUS
<1>2. p \in Seq(Nat) /\ Len(p) = n /\ \A i \in 1 .. n : p[i] = i
  BY <1>1, IotaProperties
<1>3. q \in Seq(Nat) /\ Len(q) = n + 1 /\ \A i \in 1 .. n + 1 : q[i] = i
  BY <1>1, n + 1 \in Nat, IotaProperties
<1>4. /\ r \in Seq(Nat) /\ Len(r) = n + 1 /\ r[n + 1] = n + 1
      /\ \A i \in 1 .. n : r[i] = p[i]
  BY <1>1, <1>2, n + 1 \in Nat, AppendProperties
<1>5. \A i \in 1 .. Len(r) : r[i] = q[i]
  BY <1>2, <1>3, <1>4
<1>6. r = q
  BY <1>3, <1>4, <1>5, SeqEqual
<1> QED
  BY <1>1, <1>6

\* None.
LEMMA IotaNone == Iota(0) = <<>>
BY IotaProperties, EmptySeq, 0 \in Nat

\* What comes first is numbered from 1 on too.
LEMMA IotaPrefix ==
    ASSUME NEW S, NEW p \in Seq(S), NEW q \in Seq(S), NEW n \in Nat, p \o q = Iota(n)
    PROVE  p = Iota(Len(p))
<1>0. PICK r : r = p \o q
  OBVIOUS
<1>1. PICK m : r = Iota(n) /\ m = Iota(Len(p))
  BY <1>0
<1>2. /\ DOMAIN p = 1 .. Len(p) /\ Len(p) \in Nat /\ Len(q) \in Nat
      /\ DOMAIN r = 1 .. Len(p) + Len(q)
      /\ \A i \in DOMAIN p : i \in DOMAIN r /\ r[i] = p[i]
  BY ONLY <1>0, p \in Seq(S), q \in Seq(S), Joined
<1>3. DOMAIN r = 1 .. n /\ \A i \in 1 .. n : r[i] = i
  BY <1>1, IotaProperties
<1>4. \A i \in 1 .. Len(p) : p[i] = i
  BY <1>2, <1>3
<1>5. DOMAIN m = 1 .. Len(p) /\ \A i \in 1 .. Len(p) : m[i] = i
  BY <1>1, <1>2, IotaProperties
<1>6. m \in Seq(Nat) /\ Len(m) = Len(p)
  BY <1>1, <1>2, IotaProperties
<1>7. p \in Seq(Nat)
  <2>1. p = [i \in 1 .. Len(p) |-> p[i]] /\ \A i \in 1 .. Len(p) : p[i] \in Nat
    BY <1>2, <1>4, LenProperties
  <2> QED
    BY <1>2, <2>1, IsASeq
<1>8. p = m
  BY <1>4, <1>5, <1>6, <1>7, SeqEqual
<1> QED
  BY <1>1, <1>8

\* The peer takes the first message out of the kernel's buffer.
LEMMA Received ==
    ASSUME NEW S, NEW g \in Seq(S), NEW o \in Seq(S), o # <<>>
    PROVE  Append(g, Head(o)) \o Tail(o) = g \o o
<1>1. Head(o) \in S /\ Tail(o) \in Seq(S) /\ <<Head(o)>> \in Seq(S)
  BY HeadTailProperties
<1>2. Append(g, Head(o)) = g \o <<Head(o)>>
  BY <1>1, AppendIsConcat
<1>3. (g \o <<Head(o)>>) \o Tail(o) = g \o (<<Head(o)>> \o Tail(o))
  BY <1>1, ConcatAssociative
<1>4. <<Head(o)>> \o Tail(o) = o
  BY <1>1, HeadTailProperties, LenProperties, EmptySeq
<1> QED
  BY ONLY <1>2, <1>3, <1>4, Zenon

\* The worker hands the connection its messages.
HandOver(x, w, t) == (x \o (w \o t)) \o <<>> = (x \o w) \o t

\* That loses nothing.
LEMMA HandedOver ==
    ASSUME NEW S, NEW x \in Seq(S), NEW w \in Seq(S), NEW t \in Seq(S)
    PROVE  HandOver(x, w, t)
<1>1. (x \o w) \o t = x \o (w \o t)
  BY ConcatAssociative
<1>2. x \o (w \o t) \in Seq(S)
  BY ConcatProperties
<1>3. (x \o (w \o t)) \o <<>> = x \o (w \o t)
  BY <1>2, ConcatEmptySeq
<1> QED
  BY ONLY <1>1, <1>3, Zenon DEF HandOver

\* Three pieces may be joined in either order.
Associate(x, b, w) == (x \o b) \o w = x \o (b \o w)

\* They may, whatever the pieces are.
LEMMA Grouped ==
    ASSUME NEW S, NEW x \in Seq(S), NEW b \in Seq(S), NEW w \in Seq(S)
    PROVE  Associate(x, b, w)
BY ConcatAssociative DEF Associate

\* Nothing is joined.
LEMMA Emptied == ASSUME NEW S, NEW x \in Seq(S) PROVE x \o <<>> = x
BY ConcatEmptySeq

\* on_write: of what is serialised, a goes to the kernel and r stays.
WriteOut(S, g, o, b, w, t, a, r) ==
    /\ a \o r = b \o w => (((g \o (o \o a)) \o r) \o <<>>) \o t = (((g \o o) \o b) \o w) \o t
    /\ (((g \o (o \o a)) \o r) \o <<>>) \o t = (g \o (o \o a)) \o (r \o t)
    /\ g \o (o \o a) \in Seq(S) /\ r \o t \in Seq(S)

\* Nothing is lost or overtaken by that.
LEMMA Written ==
    ASSUME NEW S, NEW g \in Seq(S), NEW o \in Seq(S), NEW b \in Seq(S), NEW w \in Seq(S),
           NEW t \in Seq(S), NEW a \in Seq(S), NEW r \in Seq(S)
    PROVE  WriteOut(S, g, o, b, w, t, a, r)
<1>1. PICK x \in Seq(S) : x = g \o o
  BY ConcatProperties
<1>2. PICK y \in Seq(S) : y = g \o (o \o a)
  BY ConcatProperties
<1>3. /\ Associate(g, o, a) /\ Associate(x, a, r) /\ Associate(x, b, w)
      /\ Associate(y, r, t)
  BY Grouped
<1>4. y = x \o a
  BY ONLY <1>1, <1>2, <1>3, Zenon DEF Associate
<1>5. a \o r = b \o w => y \o r = (x \o b) \o w
  BY ONLY <1>3, <1>4, Zenon DEF Associate
<1>6. y \o r \in Seq(S) /\ r \o t \in Seq(S)
  BY ConcatProperties
<1>7. (y \o r) \o <<>> = y \o r
  BY <1>6, Emptied
<1> QED
  BY ONLY <1>1, <1>2, <1>3, <1>5, <1>6, <1>7, y \in Seq(S), Zenon DEF Associate, WriteOut

\* net_send
LEMMA Queued ==
    ASSUME NEW S, NEW x \in Seq(S), NEW t \in Seq(S), NEW n \in S
    PROVE  x \o Append(t, n) = Append(x \o t, n)
<1>1. <<n>> \in Seq(S) /\ x \o t \in Seq(S)
  BY ConcatProperties
<1>2. Append(t, n) = t \o <<n>> /\ Append(x \o t, n) = (x \o t) \o <<n>>
  BY <1>1, AppendIsConcat
<1>3. (x \o t) \o <<n>> = x \o (t \o <<n>>)
  BY <1>1, ConcatAssociative
<1> QED
  BY ONLY <1>2, <1>3, Zenon

\* Cutting a sequence in two loses nothing.
LEMMA CutJoin ==
    ASSUME NEW S, NEW q \in Seq(S), NEW k \in 0 .. Len(q)
    PROVE  SubSeq(q, 1, k) \o SubSeq(q, k + 1, Len(q)) = q
<1>1. PICK a, b : a = SubSeq(q, 1, k) /\ b = SubSeq(q, k + 1, Len(q))
  OBVIOUS
<1>2. /\ a \in Seq(S) /\ b \in Seq(S) /\ Len(a) = k /\ Len(b) = Len(q) - k
      /\ \A i \in 1 .. k : a[i] = q[i]
      /\ \A i \in 1 .. Len(q) - k : b[i] = q[k + i]
  BY <1>1, Cut
<1>3. PICK r : r = a \o b
  OBVIOUS
<1>4. /\ r \in Seq(S) /\ Len(r) = Len(a) + Len(b)
      /\ \A i \in 1 .. Len(a) + Len(b) : r[i] = IF i <= Len(a) THEN a[i] ELSE b[i - Len(a)]
  <2>1. a \in Seq(S) /\ b \in Seq(S)
    BY <1>2
  <2>2. /\ a \o b \in Seq(S) /\ Len(a \o b) = Len(a) + Len(b)
        /\ \A i \in 1 .. Len(a) + Len(b) :
              (a \o b)[i] = IF i <= Len(a) THEN a[i] ELSE b[i - Len(a)]
    BY ONLY <2>1, ConcatProperties, Zenon
  <2> QED
    BY ONLY <1>3, <2>2, Zenon
<1>5. Len(q) \in Nat
  BY LenProperties
<1>6. Len(r) = Len(q)
  BY <1>2, <1>4, <1>5
<1>7. ASSUME NEW i \in 1 .. Len(q) PROVE r[i] = q[i]
  <2>1. r[i] = IF i <= k THEN a[i] ELSE b[i - k]
    <3>1. i \in 1 .. Len(a) + Len(b) /\ Len(a) = k
      BY <1>2, <1>5
    <3> QED
      BY ONLY <1>4, <3>1
  <2>2. CASE i <= k
    BY <1>2, <1>5, <2>1, <2>2
  <2>3. CASE ~(i <= k)
    <3>1. i - k \in 1 .. Len(q) - k /\ k + (i - k) = i
      BY <1>5, <2>3
    <3> QED
      BY <1>2, <2>1, <2>3, <3>1
  <2> QED
    BY <2>2, <2>3
<1>8. r = q
  BY <1>4, <1>6, <1>7, SeqEqual
<1> QED
  BY ONLY <1>1, <1>3, <1>8, Zenon

\* What on_write does with the messages of its connection.
LEMMA WriteEffect ==
    ASSUME TypeOK, NEW c \in Conns, NEW armed, OnWrite(c, armed)
    PROVE  \/ /\ outbox'[c] = outbox[c] /\ write_buffer'[c] = write_buffer[c]
              /\ conn_write_msgs'[c] = conn_write_msgs[c]
           \/ \E a, r \in Seq(1 .. MaxSends) :
                 /\ a \o r = write_buffer[c] \o conn_write_msgs[c]
                 /\ outbox'[c] = outbox[c] \o a /\ write_buffer'[c] = r
                 /\ conn_write_msgs'[c] = <<>>
<1>1. /\ outbox \in [Conns -> Seq(1 .. MaxSends)]
      /\ write_buffer \in [Conns -> Seq(1 .. MaxSends)]
      /\ conn_write_msgs \in [Conns -> Seq(1 .. MaxSends)]
  BY DEF TypeOK
<1>2. PICK s \in Seq(1 .. MaxSends) : s = Serialised(c)
  BY <1>1, ConcatProperties DEF Serialised
<1>3. \/ UNCHANGED <<outbox, write_buffer, conn_write_msgs>>
      \/ /\ \E k \in 1 .. Len(s) :
               /\ outbox' = [outbox EXCEPT ![c] = outbox[c] \o SubSeq(s, 1, k)]
               /\ write_buffer' = [write_buffer EXCEPT ![c] = SubSeq(s, k + 1, Len(s))]
         /\ conn_write_msgs' = [conn_write_msgs EXCEPT ![c] = <<>>]
      \/ /\ outbox' = outbox /\ write_buffer' = [write_buffer EXCEPT ![c] = s]
         /\ conn_write_msgs' = [conn_write_msgs EXCEPT ![c] = <<>>]
  BY <1>2 DEF OnWrite, Unsent
<1>4. CASE UNCHANGED <<outbox, write_buffer, conn_write_msgs>>
  BY <1>4
<1>5. CASE /\ \E k \in 1 .. Len(s) :
                 /\ outbox' = [outbox EXCEPT ![c] = outbox[c] \o SubSeq(s, 1, k)]
                 /\ write_buffer' = [write_buffer EXCEPT ![c] = SubSeq(s, k + 1, Len(s))]
           /\ conn_write_msgs' = [conn_write_msgs EXCEPT ![c] = <<>>]
  <2>1. PICK k \in 1 .. Len(s) :
           /\ outbox' = [outbox EXCEPT ![c] = outbox[c] \o SubSeq(s, 1, k)]
           /\ write_buffer' = [write_buffer EXCEPT ![c] = SubSeq(s, k + 1, Len(s))]
    BY <1>5
  <2>2. k \in 0 .. Len(s)
    BY LenProperties
  <2>3. PICK a, r : a = SubSeq(s, 1, k) /\ r = SubSeq(s, k + 1, Len(s))
    OBVIOUS
  <2>4. a \in Seq(1 .. MaxSends) /\ r \in Seq(1 .. MaxSends)
    BY <2>2, <2>3, Cut
  <2>5. a \o r = s
    BY <2>2, <2>3, CutJoin
  <2>6. /\ outbox'[c] = outbox[c] \o a /\ write_buffer'[c] = r
        /\ conn_write_msgs'[c] = <<>>
    BY <1>1, <1>5, <2>1, <2>3
  <2>7. a \o r = write_buffer[c] \o conn_write_msgs[c]
    BY ONLY <1>2, <2>5, Zenon DEF Serialised
  <2> QED
    BY ONLY <2>4, <2>6, <2>7, Zenon
<1>6. CASE /\ outbox' = outbox /\ write_buffer' = [write_buffer EXCEPT ![c] = s]
           /\ conn_write_msgs' = [conn_write_msgs EXCEPT ![c] = <<>>]
  <2>1. PICK o \in Seq(1 .. MaxSends) : o = outbox[c]
    BY <1>1
  <2>2. <<>> \in Seq(1 .. MaxSends) /\ <<>> \o s = s /\ o \o <<>> = o
    BY EmptySeq, ConcatEmptySeq
  <2>3. write_buffer'[c] = s /\ conn_write_msgs'[c] = <<>> /\ outbox'[c] = outbox[c]
    BY <1>1, <1>6
  <2>4. <<>> \o s = write_buffer[c] \o conn_write_msgs[c] /\ outbox'[c] = outbox[c] \o <<>>
    BY ONLY <1>2, <2>1, <2>2, <2>3, Zenon DEF Serialised
  <2> QED
    BY ONLY <1>2, <2>2, <2>3, <2>4, s \in Seq(1 .. MaxSends), Zenon
<1> QED
  BY <1>3, <1>4, <1>5, <1>6

\* SendsInOrder, for one connection.
Sent(c) ==
    /\ Registered(c) => Underway(c) = Iota(sends[c])
    /\ got[c] \o outbox[c] = Iota(Len(got[c] \o outbox[c]))

\* A step that leaves the messages sent to d alone.
LEMMA SentAlone ==
    ASSUME SendsInOrder, NEW d \in Conns, Registered(d)' => Registered(d),
           /\ got'[d] = got[d] /\ outbox'[d] = outbox[d]
           /\ write_buffer'[d] = write_buffer[d] /\ conn_write_msgs'[d] = conn_write_msgs[d]
           /\ td_write_msgs'[d] = td_write_msgs[d] /\ sends'[d] = sends[d]
    PROVE  Sent(d)'
<1>1. Sent(d)
  BY DEF SendsInOrder, Sent
<1>2. Underway(d)' = Underway(d)
  BY DEF Underway
<1> QED
  BY <1>1, <1>2 DEF Sent

\* A registered connection is registered with its own worker.
LEMMA RegisteredHome ==
    ASSUME Homes, NEW c \in Conns
    PROVE  Registered(c) => td[c] \in Workers /\ c \in thread_connections[td[c]]
BY DEF Homes, Home, Registered

\* Every step keeps SendsInOrder.
LEMMA SendsKept ==
    ASSUME TypeOK, Homes, Fresh, SendsInOrder, [Next]_vars
    PROVE  SendsInOrder'
<1>0. /\ got \in [Conns -> Seq(1 .. MaxSends)] /\ outbox \in [Conns -> Seq(1 .. MaxSends)]
      /\ write_buffer \in [Conns -> Seq(1 .. MaxSends)]
      /\ conn_write_msgs \in [Conns -> Seq(1 .. MaxSends)]
      /\ td_write_msgs \in [Conns -> Seq(1 .. MaxSends)]
      /\ sends \in [Conns -> 0 .. MaxSends]
      /\ td \in [Conns -> Workers \cup {NoThread}] /\ NoThread \notin Workers
      /\ thread_connections \in [Workers -> SUBSET Conns]
  BY NetThreadNumAssumption DEF TypeOK, NoThread, Workers
<1> SUFFICES ASSUME NEW d \in Conns PROVE Sent(d)'
  BY DEF SendsInOrder, Sent
<1>1. Sent(d)
  BY DEF SendsInOrder, Sent
<1>2. sends[d] \in Nat
  BY <1>0, BoundsAssumption
<1>3. PICK g \in Seq(1 .. MaxSends), o \in Seq(1 .. MaxSends), b \in Seq(1 .. MaxSends),
           w \in Seq(1 .. MaxSends), t \in Seq(1 .. MaxSends) :
         /\ g = got[d] /\ o = outbox[d] /\ b = write_buffer[d]
         /\ w = conn_write_msgs[d] /\ t = td_write_msgs[d]
  BY <1>0
<1>4. CASE PeerStep
  <2>1. UNCHANGED <<thread_connections, write_buffer, conn_write_msgs, td_write_msgs, sends>>
    BY <1>4 DEF PeerStep, PeerSend, PeerEof, PeerReset, PeerRecv, bufferVars, threadVars, mainVars
  <2>2. CASE got'[d] = got[d] /\ outbox'[d] = outbox[d]
    BY <2>1, <2>2, SentAlone DEF Registered
  <2>3. CASE ~(got'[d] = got[d] /\ outbox'[d] = outbox[d])
    <3>1. PeerRecv(d)
      BY <1>0, <1>4, <2>3 DEF PeerStep, PeerSend, PeerEof, PeerReset, PeerRecv
    <3>2. got'[d] = Append(g, Head(o)) /\ outbox'[d] = Tail(o) /\ o # <<>>
      BY <1>0, <1>3, <3>1 DEF PeerRecv
    <3>3. Append(g, Head(o)) \o Tail(o) = g \o o
      BY <3>2, Received
    <3>4. got'[d] \o outbox'[d] = got[d] \o outbox[d]
      BY ONLY <1>3, <3>2, <3>3, Zenon
    <3>5. Underway(d)' = Underway(d)
      BY ONLY <2>1, <3>4 DEF Underway
    <3> QED
      BY <1>1, <2>1, <3>4, <3>5 DEF Sent, Registered
  <2> QED
    BY <2>2, <2>3
<1>5. ASSUME NEW v \in Workers, Dispatch(v) PROVE Sent(d)'
  <2>1. UNCHANGED <<got, outbox, write_buffer, thread_connections, sends>>
    BY <1>5 DEF Dispatch, peerVars, mainVars
  <2>2. /\ conn_write_msgs'[d] = IF d \in thread_connections[v] THEN Dispatched(d)
                                                                 ELSE conn_write_msgs[d]
        /\ td_write_msgs'[d] = IF td[d] = v THEN <<>> ELSE td_write_msgs[d]
    BY <1>5 DEF Dispatch
  <2>3. CASE d \in thread_connections[v]
    <3>1. conn_write_msgs'[d] = w \o t /\ td_write_msgs'[d] = <<>>
      BY <1>3, <2>2, <2>3 DEF Homes, Home, Dispatched
    <3>2. PICK x \in Seq(1 .. MaxSends) : x = (g \o o) \o b
      BY ConcatProperties
    <3>3. HandOver(x, w, t)
      BY HandedOver
    <3>4. Underway(d) = (x \o w) \o t
      BY ONLY <1>3, <3>2, Zenon DEF Underway
    <3>5. Underway(d)' = (x \o (w \o t)) \o <<>>
      BY <1>3, <2>1, <3>1, <3>2, Zenon DEF Underway
    <3> QED
      <4>1. Underway(d)' = Underway(d)
        BY ONLY <3>3, <3>4, <3>5, Zenon DEF HandOver
      <4> QED
        BY <1>1, <2>1, <4>1 DEF Sent, Registered
  <2>4. CASE d \notin thread_connections[v] /\ td[d] = v
    <3>1. ~Registered(d)
      BY <2>4, RegisteredHome
    <3> QED
      BY <1>1, <2>1, <3>1 DEF Sent, Registered
  <2>5. CASE d \notin thread_connections[v] /\ td[d] # v
    BY <2>1, <2>2, <2>5, SentAlone DEF Registered
  <2> QED
    BY <2>3, <2>4, <2>5
<1>6. ASSUME NEW v \in Workers,
             \/ CollectEnd(v) \/ EpollWait(v) \/ EventsEnd(v) \/ SweepEnd(v)
             \/ \E c \in Conns : CollectOne(v, c) \/ IoRead(v, c) \/ EventRead(v, c)
      PROVE  Sent(d)'
  <2>1. UNCHANGED <<got, outbox, write_buffer, conn_write_msgs, td_write_msgs, sends,
                    thread_connections>>
    BY <1>6 DEF CollectEnd, EpollWait, EventsEnd, SweepEnd, CollectOne, IoRead, EventRead,
                peerVars, bufferVars, threadVars, mainVars
  <2> QED
    BY <2>1, SentAlone DEF Registered
<1>7. ASSUME NEW v \in Workers, NEW c \in Conns, IoWrite(v, c) \/ EventWrite(v, c)
      PROVE  Sent(d)'
  <2>1. UNCHANGED <<got, td_write_msgs, sends, thread_connections>>
    BY <1>7 DEF IoWrite, EventWrite, threadVars, mainVars
  <2>2. PICK armed \in [Conns -> BOOLEAN] : OnWrite(c, armed)
    BY <1>7 DEF IoWrite, EventWrite, TypeOK, Disarmed
  <2>3. c \in thread_connections[v]
    BY <1>7 DEF IoWrite, EventWrite, Homes, Home
  <2>4. CASE d # c
    <3>1. /\ outbox'[d] = outbox[d] /\ write_buffer'[d] = write_buffer[d]
          /\ conn_write_msgs'[d] = conn_write_msgs[d]
      BY <2>2, <2>4, WriteLocal
    <3> QED
      BY <2>1, <3>1, SentAlone DEF Registered
  <2>5. CASE d = c /\ outbox'[d] = outbox[d] /\ write_buffer'[d] = write_buffer[d]
               /\ conn_write_msgs'[d] = conn_write_msgs[d]
    BY <2>1, <2>5, SentAlone DEF Registered
  <2>6. CASE d = c /\ \E a, r \in Seq(1 .. MaxSends) :
                         /\ a \o r = write_buffer[d] \o conn_write_msgs[d]
                         /\ outbox'[d] = outbox[d] \o a /\ write_buffer'[d] = r
                         /\ conn_write_msgs'[d] = <<>>
    <3>1. PICK a \in Seq(1 .. MaxSends), r \in Seq(1 .. MaxSends) :
             /\ a \o r = b \o w
             /\ outbox'[d] = o \o a /\ write_buffer'[d] = r /\ conn_write_msgs'[d] = <<>>
      BY <1>3, <2>6
    <3>2. WriteOut(1 .. MaxSends, g, o, b, w, t, a, r)
      BY ONLY Written, g \in Seq(1 .. MaxSends), o \in Seq(1 .. MaxSends),
              b \in Seq(1 .. MaxSends), w \in Seq(1 .. MaxSends), t \in Seq(1 .. MaxSends),
              a \in Seq(1 .. MaxSends), r \in Seq(1 .. MaxSends)
    <3>3. got'[d] = g /\ td_write_msgs'[d] = t
      BY <1>3, <2>1
    <3>4. Underway(d)' = (((g \o (o \o a)) \o r) \o <<>>) \o t
      BY ONLY <3>1, <3>3, Zenon DEF Underway
    <3>5. Underway(d) = (((g \o o) \o b) \o w) \o t
      BY ONLY <1>3, Zenon DEF Underway
    <3>6. Underway(d) = Iota(sends[d])
      BY <1>1, <2>3, <2>6 DEF Sent, Registered
    <3>7. Underway(d)' = Iota(sends[d])
      BY ONLY <3>1, <3>2, <3>4, <3>5, <3>6, Zenon DEF WriteOut
    <3>8. PICK x \in Seq(1 .. MaxSends), y \in Seq(1 .. MaxSends) :
             x = g \o (o \o a) /\ y = r \o t
      BY ONLY <3>2, Zenon DEF WriteOut
    <3>9. x \o y = Iota(sends[d])
      BY ONLY <3>2, <3>4, <3>7, <3>8, Zenon DEF WriteOut
    <3>10. x = Iota(Len(x))
      BY ONLY <1>2, <3>9, IotaPrefix, x \in Seq(1 .. MaxSends), y \in Seq(1 .. MaxSends)
    <3>11. got'[d] \o outbox'[d] = x
      BY ONLY <3>1, <3>3, <3>8, Zenon
    <3>12. sends'[d] = sends[d]
      BY <2>1
    <3> QED
      BY ONLY <3>7, <3>10, <3>11, <3>12, Zenon DEF Sent
  <2> QED
    BY <2>2, <2>4, <2>5, <2>6, WriteEffect
<1>8. ASSUME NEW v \in Workers, NEW c \in Conns, Register(v, c) PROVE Sent(d)'
  <2>1. UNCHANGED <<got, outbox, write_buffer, conn_write_msgs, td_write_msgs, sends>>
        /\ td[c] = NoThread
    BY <1>8 DEF Register, peerVars, bufferVars, threadVars, mainVars
  <2>2. CASE d = c
    <3>1. /\ got'[d] = <<>> /\ outbox'[d] = <<>> /\ write_buffer'[d] = <<>>
          /\ conn_write_msgs'[d] = <<>> /\ td_write_msgs'[d] = <<>> /\ sends'[d] = 0
      BY <2>1, <2>2 DEF Fresh, Untouched
    <3>2. <<>> \o <<>> = <<>> /\ <<>> \in Seq(1 .. MaxSends)
      BY EmptySeq, ConcatEmptySeq
    <3>3. Underway(d)' = <<>>
      BY ONLY <3>1, <3>2, Zenon DEF Underway
    <3>4. got'[d] \o outbox'[d] = got[d] \o outbox[d]
      BY <2>1
    <3>5. (Underway(d) = Iota(sends[d]))'
      BY ONLY <3>1, <3>3, IotaNone, Zenon
    <3>6. got'[d] \o outbox'[d] = Iota(Len(got'[d] \o outbox'[d]))
      BY ONLY <1>1, <3>4, Zenon DEF Sent
    <3> QED
      BY ONLY <3>5, <3>6, Zenon DEF Sent
  <2>3. CASE d # c
    <3>1. Registered(d)' => Registered(d)
      BY <1>0, <1>8, <2>3 DEF Register, Registered
    <3> QED
      BY <2>1, <3>1, SentAlone
  <2> QED
    BY <2>2, <2>3
<1>9. ASSUME NEW v \in Workers, NEW c \in Conns, SweepVisit(v, c) PROVE Sent(d)'
  <2>1. UNCHANGED <<got, outbox, conn_write_msgs, td_write_msgs, sends>>
    BY <1>9 DEF SweepVisit, mainVars
  <2>2. CASE d = c /\ state[c] = "CLOSE"
    <3>1. thread_connections' = [thread_connections EXCEPT ![v] = @ \ {c}]
      BY <1>9, <2>2 DEF SweepVisit
    <3>2. td[c] = v
      BY <1>9 DEF SweepVisit, Homes, Home
    <3>3. \A u \in Workers : d \notin thread_connections'[u]
      BY <1>0, <2>2, <3>1, <3>2 DEF Homes, Home
    <3>4. ~Registered(d)'
      BY <3>3 DEF Registered
    <3> QED
      BY <1>1, <2>1, <3>4 DEF Sent
  <2>3. CASE ~(d = c /\ state[c] = "CLOSE")
    <3>1. write_buffer'[d] = write_buffer[d]
      BY <1>0, <1>9, <2>3 DEF SweepVisit
    <3>2. \A u \in Workers : thread_connections'[u] \subseteq thread_connections[u]
      <4>1. \/ thread_connections' = thread_connections
            \/ thread_connections' = [thread_connections EXCEPT ![v] = @ \ {c}]
        BY <1>9 DEF SweepVisit
      <4>2. ASSUME NEW u \in Workers
            PROVE  \/ thread_connections'[u] = thread_connections[u]
                   \/ thread_connections'[u] = thread_connections[u] \ {c}
        BY <1>0, <4>1
      <4> QED
        BY <4>2
    <3>3. Registered(d)' => Registered(d)
      BY <3>2 DEF Registered
    <3> QED
      BY <2>1, <3>1, <3>3, SentAlone
  <2> QED
    BY <2>2, <2>3
<1>10. CASE Handle
  <2>1. UNCHANGED <<got, outbox, write_buffer, conn_write_msgs, thread_connections>>
    BY <1>10 DEF Handle, peerVars, bufferVars
  <2>2. CASE sends'[d] = sends[d] /\ td_write_msgs'[d] = td_write_msgs[d]
    BY <2>1, <2>2, SentAlone DEF Registered
  <2>3. CASE ~(sends'[d] = sends[d] /\ td_write_msgs'[d] = td_write_msgs[d])
    <3>1. NetSend(d)
      BY <1>0, <1>10, <2>3 DEF Handle, NetSend
    <3>2. sends[d] + 1 \in 1 .. MaxSends
      <4>1. sends[d] < MaxSends
        BY <3>1 DEF NetSend
      <4> QED
        BY ONLY <1>2, <4>1, BoundsAssumption
    <3>3. sends'[d] = sends[d] + 1 /\ td_write_msgs'[d] = Append(t, sends[d] + 1)
      BY <1>0, <1>3, <3>1 DEF NetSend
    <3>4. PICK x \in Seq(1 .. MaxSends) : x = ((g \o o) \o b) \o w
      BY ConcatProperties
    <3>5. PICK n \in 1 .. MaxSends : n = sends[d] + 1
      BY <3>2
    <3>6. x \o Append(t, n) = Append(x \o t, n)
      BY Queued
    <3>7. Underway(d) = x \o t
      BY ONLY <1>3, <3>4, Zenon DEF Underway
    <3>8. Underway(d)' = x \o Append(t, n)
      BY <1>3, <2>1, <3>3, <3>4, <3>5, Zenon DEF Underway
    <3>9. Append(Iota(sends[d]), n) = Iota(sends'[d])
      BY <1>2, <3>3, <3>5, IotaNext
    <3>10. ASSUME Registered(d)' PROVE (Underway(d) = Iota(sends[d]))'
      <4>1. Underway(d) = Iota(sends[d])
        BY <1>1, <2>1, <3>10 DEF Sent, Registered
      <4> QED
        BY ONLY <3>6, <3>7, <3>8, <3>9, <4>1, Zenon
    <3> QED
      BY <1>1, <2>1, <3>10 DEF Sent
  <2> QED
    BY <2>2, <2>3
<1>11. CASE GetNetMsgs \/ LogicTurnEnds \/ UNCHANGED vars
  <2>1. UNCHANGED <<got, outbox, write_buffer, conn_write_msgs, td_write_msgs, sends,
                    thread_connections>>
    BY <1>11 DEF GetNetMsgs, LogicTurnEnds, vars, peerVars, bufferVars, threadVars, mainVars
  <2> QED
    BY <2>1, SentAlone DEF Registered
<1> QED
  BY <1>4, <1>5, <1>6, <1>7, <1>8, <1>9, <1>10, <1>11 DEF Next, WorkerStep, MainStep

-----------------------------------------------------------------------------
(* Runs of frames *)

\* The messages of c in q are the frames lo + 1 .. hi, in order, and perhaps a
\* Shutdown after them.
Run(q, c, lo, hi) ==
    /\ lo <= hi
    /\ \A i \in DOMAIN q : q[i][1] = c /\ q[i][2] # Shutdown => lo < q[i][2] /\ q[i][2] <= hi
    /\ \A n \in lo + 1 .. hi : \E i \in DOMAIN q : q[i][1] = c /\ q[i][2] = n
    /\ \A i, j \in DOMAIN q : i < j /\ q[i][1] = c /\ q[j][1] = c =>
          q[i][2] # Shutdown /\ (q[j][2] = Shutdown \/ q[i][2] < q[j][2])

\* The numbers of messages.
LEMMA Numbers ==
    ASSUME NEW q \in Seq(Messages)
    PROVE  \A i \in DOMAIN q : q[i][1] \in Conns /\ q[i][2] \in Nat
<1>1. \A i \in DOMAIN q : q[i] \in Conns \X (0 .. MaxFrames)
  BY LenProperties DEF Messages
<1> QED
  BY <1>1, BoundsAssumption

\* A queue without messages of c has no frames of it.
LEMMA RunNone ==
    ASSUME NEW q, NEW c, ~Mentions(q, c), NEW lo \in Nat, NEW hi \in Nat
    PROVE  /\ Run(q, c, lo, lo)
           /\ Run(q, c, lo, hi) => lo = hi
<1>1. Run(q, c, lo, lo)
  BY DEF Run, Mentions
<1>2. ASSUME Run(q, c, lo, hi), lo # hi PROVE FALSE
  <2>1. lo + 1 \in lo + 1 .. hi
    BY <1>2 DEF Run
  <2> QED
    BY <1>2, <2>1 DEF Run, Mentions
<1> QED
  BY <1>1, <1>2

\* push_back of a message of another connection, of the next frame, and of the
\* Shutdown.
LEMMA RunAppend ==
    ASSUME NEW q \in Seq(Messages), NEW e \in Messages, NEW c, NEW lo \in Nat, NEW hi \in Nat,
           Run(q, c, lo, hi)
    PROVE  /\ e[1] # c => Run(Append(q, e), c, lo, hi)
           /\ e[1] = c /\ e[2] = hi + 1 /\ ~Closes(q, c) => Run(Append(q, e), c, lo, hi + 1)
           /\ e[1] = c /\ e[2] = Shutdown /\ ~Closes(q, c) => Run(Append(q, e), c, lo, hi)
<1>0. PICK r : r = Append(q, e)
  OBVIOUS
<1>1. /\ DOMAIN r = 1 .. Len(q) + 1 /\ DOMAIN q = 1 .. Len(q) /\ Len(q) \in Nat
      /\ r[Len(q) + 1] = e /\ \A i \in DOMAIN q : r[i] = q[i]
  BY <1>0, LenProperties, AppendProperties
<1>2. /\ \A i \in DOMAIN r : i \in DOMAIN q \/ i = Len(q) + 1
      /\ Len(q) + 1 \in DOMAIN r /\ \A i \in DOMAIN q : i \in DOMAIN r
      /\ \A i \in DOMAIN q : i < Len(q) + 1
  BY <1>1
<1>3. \A i \in DOMAIN q : q[i][2] \in Nat
  BY Numbers
<1>4. ASSUME e[1] # c PROVE Run(r, c, lo, hi)
  <2>1. \A i \in DOMAIN r : r[i][1] = c => i \in DOMAIN q /\ r[i] = q[i]
    BY <1>1, <1>2, <1>4
  <2> QED
    BY <1>1, <1>2, <2>1 DEF Run
<1>5. ASSUME e[1] = c, e[2] = hi + 1, ~Closes(q, c) PROVE Run(r, c, lo, hi + 1)
  <2>1. \A i \in DOMAIN q : q[i][1] = c => q[i][2] # Shutdown /\ lo < q[i][2] /\ q[i][2] <= hi
    BY <1>5 DEF Run, Closes
  <2>2. lo <= hi + 1
    BY DEF Run
  <2>3. \A i \in DOMAIN r : r[i][1] = c /\ r[i][2] # Shutdown =>
           lo < r[i][2] /\ r[i][2] <= hi + 1
    <3>1. lo < hi + 1
      BY DEF Run
    <3> QED
      BY <1>1, <1>2, <1>3, <1>5, <2>1, <3>1
  <2>4. ASSUME NEW n \in lo + 1 .. hi + 1
        PROVE  \E i \in DOMAIN r : r[i][1] = c /\ r[i][2] = n
    <3>1. CASE n = hi + 1
      BY <1>1, <1>2, <1>5, <3>1
    <3>2. CASE n # hi + 1
      <4>1. n \in lo + 1 .. hi
        BY <3>2
      <4> QED
        BY <1>1, <1>2, <4>1 DEF Run
    <3> QED
      BY <3>1, <3>2
  <2>5. ASSUME NEW i \in DOMAIN r, NEW j \in DOMAIN r, i < j, r[i][1] = c, r[j][1] = c
        PROVE  r[i][2] # Shutdown /\ (r[j][2] = Shutdown \/ r[i][2] < r[j][2])
    <3>1. i \in DOMAIN q /\ r[i] = q[i]
      BY <1>1, <2>5
    <3>2. CASE j \in DOMAIN q
      BY <1>1, <2>5, <3>1, <3>2 DEF Run
    <3>3. CASE j = Len(q) + 1
      BY <1>1, <1>3, <1>5, <2>1, <2>5, <3>1, <3>3
    <3> QED
      BY <1>2, <3>2, <3>3
  <2> QED
    BY <2>2, <2>3, <2>4, <2>5 DEF Run
<1>6. ASSUME e[1] = c, e[2] = Shutdown, ~Closes(q, c) PROVE Run(r, c, lo, hi)
  <2>1. \A i \in DOMAIN q : q[i][1] = c => q[i][2] # Shutdown
    BY <1>6 DEF Closes
  <2>2. \A i \in DOMAIN r : r[i][1] = c /\ r[i][2] # Shutdown => lo < r[i][2] /\ r[i][2] <= hi
    BY <1>1, <1>2, <1>6 DEF Run
  <2>3. \A n \in lo + 1 .. hi : \E i \in DOMAIN r : r[i][1] = c /\ r[i][2] = n
    BY <1>1, <1>2 DEF Run
  <2>4. ASSUME NEW i \in DOMAIN r, NEW j \in DOMAIN r, i < j, r[i][1] = c, r[j][1] = c
        PROVE  r[i][2] # Shutdown /\ (r[j][2] = Shutdown \/ r[i][2] < r[j][2])
    <3>1. i \in DOMAIN q /\ r[i] = q[i]
      BY <1>1, <2>4
    <3>2. CASE j \in DOMAIN q
      BY <1>1, <2>4, <3>1, <3>2 DEF Run
    <3>3. CASE j = Len(q) + 1
      BY <1>1, <1>6, <2>1, <2>4, <3>1, <3>3
    <3> QED
      BY <1>2, <3>2, <3>3
  <2> QED
    BY <2>2, <2>3, <2>4 DEF Run
<1> QED
  BY <1>0, <1>4, <1>5, <1>6

\* pop_front
LEMMA RunTail ==
    ASSUME NEW q \in Seq(Messages), q # <<>>, NEW c, NEW lo \in Nat, NEW hi \in Nat,
           Run(q, c, lo, hi)
    PROVE  /\ Head(q)[1] # c => Run(Tail(q), c, lo, hi)
           /\ Head(q)[1] = c /\ Head(q)[2] # Shutdown =>
                 Head(q)[2] = lo + 1 /\ Run(Tail(q), c, lo + 1, hi)
           /\ Head(q)[1] = c /\ Head(q)[2] = Shutdown =>
                 ~Mentions(Tail(q), c) /\ Run(Tail(q), c, lo, hi)
<1>0. PICK r, h : r = Tail(q) /\ h = Head(q)
  OBVIOUS
<1>1. /\ 1 \in DOMAIN q /\ h = q[1] /\ DOMAIN q = 1 .. Len(q) /\ Len(q) \in Nat
      /\ DOMAIN r = 1 .. Len(q) - 1
      /\ \A i \in DOMAIN r : i + 1 \in DOMAIN q /\ r[i] = q[i + 1]
      /\ \A i \in DOMAIN q : i = 1 \/ (i - 1 \in DOMAIN r /\ r[i - 1] = q[i])
  BY <1>0, Rest
<1>2. /\ \A i \in DOMAIN r : 1 < i + 1
      /\ \A i, j \in DOMAIN r : i < j => i + 1 < j + 1
  BY <1>1
<1>3. \A i \in DOMAIN q : q[i][2] \in Nat
  BY Numbers
<1>4. /\ \A i \in DOMAIN r : r[i][1] = c /\ r[i][2] # Shutdown => lo < r[i][2] /\ r[i][2] <= hi
      /\ \A i, j \in DOMAIN r : i < j /\ r[i][1] = c /\ r[j][1] = c =>
            r[i][2] # Shutdown /\ (r[j][2] = Shutdown \/ r[i][2] < r[j][2])
  <2>1. \A i \in DOMAIN r : r[i][1] = c /\ r[i][2] # Shutdown => lo < r[i][2] /\ r[i][2] <= hi
    BY <1>1 DEF Run
  <2>2. ASSUME NEW i \in DOMAIN r, NEW j \in DOMAIN r, i < j, r[i][1] = c, r[j][1] = c
        PROVE  r[i][2] # Shutdown /\ (r[j][2] = Shutdown \/ r[i][2] < r[j][2])
    <3>1. i + 1 \in DOMAIN q /\ j + 1 \in DOMAIN q /\ i + 1 < j + 1
          /\ r[i] = q[i + 1] /\ r[j] = q[j + 1]
      BY <1>1, <1>2, <2>2
    <3> QED
      BY <2>2, <3>1 DEF Run
  <2> QED
    BY <2>1, <2>2
<1>5. ASSUME h[1] # c PROVE Run(r, c, lo, hi)
  <2>1. \A n \in lo + 1 .. hi : \E i \in DOMAIN r : r[i][1] = c /\ r[i][2] = n
    <3>1. \A i \in DOMAIN q : q[i][1] = c => i - 1 \in DOMAIN r /\ r[i - 1] = q[i]
      BY <1>1, <1>5
    <3> QED
      BY <3>1 DEF Run
  <2> QED
    BY <1>4, <2>1 DEF Run
<1>6. ASSUME h[1] = c, h[2] # Shutdown PROVE h[2] = lo + 1 /\ Run(r, c, lo + 1, hi)
  <2>1. lo < h[2] /\ h[2] <= hi /\ h[2] \in Nat
    BY <1>1, <1>3, <1>6 DEF Run
  <2>2. \A i \in DOMAIN r : r[i][1] = c => r[i][2] = Shutdown \/ h[2] < r[i][2]
    BY <1>1, <1>2, <1>6 DEF Run
  <2>3. \A i \in DOMAIN r : r[i][2] \in Nat
    BY <1>1, <1>3
  <2>4. h[2] = lo + 1
    <3>1. PICK k \in DOMAIN q : q[k][1] = c /\ q[k][2] = lo + 1
      <4>1. lo + 1 \in lo + 1 .. hi
        BY <2>1
      <4> QED
        BY <4>1 DEF Run
    <3>2. CASE k = 1
      BY <1>1, <3>1, <3>2
    <3>3. CASE k # 1
      <4>1. k - 1 \in DOMAIN r /\ r[k - 1] = q[k]
        BY <1>1, <3>3
      <4>2. lo + 1 = Shutdown \/ h[2] < lo + 1
        BY <2>2, <3>1, <4>1
      <4> QED
        BY <2>1, <4>2 DEF Shutdown
    <3> QED
      BY <3>2, <3>3
  <2>5. \A i \in DOMAIN r : r[i][1] = c /\ r[i][2] # Shutdown =>
           lo + 1 < r[i][2] /\ r[i][2] <= hi
    BY <1>4, <2>2, <2>4
  <2>6. ASSUME NEW n \in (lo + 1) + 1 .. hi
        PROVE  \E i \in DOMAIN r : r[i][1] = c /\ r[i][2] = n
    <3>1. n \in lo + 1 .. hi /\ n # lo + 1
      OBVIOUS
    <3>2. PICK i \in DOMAIN q : q[i][1] = c /\ q[i][2] = n
      BY <3>1 DEF Run
    <3>3. i # 1
      BY <1>1, <2>4, <3>1, <3>2
    <3>4. i - 1 \in DOMAIN r /\ r[i - 1] = q[i]
      BY <1>1, <3>3
    <3> QED
      BY <3>2, <3>4
  <2>7. lo + 1 <= hi
    BY <2>1, <2>4
  <2> QED
    BY <1>4, <2>4, <2>5, <2>6, <2>7 DEF Run
<1>7. ASSUME h[1] = c, h[2] = Shutdown PROVE ~Mentions(r, c) /\ Run(r, c, lo, hi)
  <2>1. \A i \in DOMAIN r : r[i][1] # c
    BY <1>1, <1>2, <1>7 DEF Run
  <2>2. \A n \in lo + 1 .. hi : FALSE
    <3>1. \A i \in DOMAIN q : q[i][1] = c => q[i][2] = Shutdown
      BY <1>1, <1>7, <2>1
    <3> QED
      BY <3>1 DEF Run, Shutdown
  <2> QED
    BY <1>4, <2>1, <2>2 DEF Run, Mentions
<1> QED
  BY <1>0, <1>5, <1>6, <1>7

\* get_net_msgs appends one queue to another.
LEMMA RunJoin ==
    ASSUME NEW p \in Seq(Messages), NEW q \in Seq(Messages), NEW c,
           NEW lo \in Nat, NEW mid \in Nat, NEW hi \in Nat,
           Run(p, c, lo, mid), Run(q, c, mid, hi), Closes(p, c) => ~Mentions(q, c)
    PROVE  Run(p \o q, c, lo, hi)
<1>0. PICK r : r = p \o q
  OBVIOUS
<1>1. /\ DOMAIN p = 1 .. Len(p) /\ Len(p) \in Nat
      /\ DOMAIN q = 1 .. Len(q) /\ Len(q) \in Nat
      /\ DOMAIN r = 1 .. Len(p) + Len(q)
      /\ \A i \in DOMAIN p : i \in DOMAIN r /\ r[i] = p[i]
      /\ \A i \in DOMAIN q : Len(p) + i \in DOMAIN r /\ r[Len(p) + i] = q[i]
      /\ \A i \in DOMAIN r : \/ i \in DOMAIN p /\ r[i] = p[i]
                             \/ i > Len(p) /\ i - Len(p) \in DOMAIN q
                                /\ r[i] = q[i - Len(p)]
  BY <1>0, Joined
<1>2. /\ \A i \in DOMAIN p : p[i][2] \in Nat
      /\ \A i \in DOMAIN q : q[i][2] \in Nat
  BY Numbers
<1>3. lo <= mid /\ mid <= hi
  BY DEF Run
<1>4. \A i \in DOMAIN r : r[i][1] = c /\ r[i][2] # Shutdown => lo < r[i][2] /\ r[i][2] <= hi
  <2>1. \A i \in DOMAIN p : p[i][1] = c /\ p[i][2] # Shutdown => lo < p[i][2] /\ p[i][2] <= hi
    BY <1>2, <1>3 DEF Run
  <2>2. \A i \in DOMAIN q : q[i][1] = c /\ q[i][2] # Shutdown => lo < q[i][2] /\ q[i][2] <= hi
    BY <1>2, <1>3 DEF Run
  <2> QED
    BY <1>1, <2>1, <2>2
<1>5. ASSUME NEW n \in lo + 1 .. hi PROVE \E i \in DOMAIN r : r[i][1] = c /\ r[i][2] = n
  <2>1. CASE n <= mid
    <3>1. n \in lo + 1 .. mid
      BY <2>1
    <3>2. PICK i \in DOMAIN p : p[i][1] = c /\ p[i][2] = n
      BY <3>1 DEF Run
    <3> QED
      BY <1>1, <3>2
  <2>2. CASE ~(n <= mid)
    <3>1. n \in mid + 1 .. hi
      BY <2>2
    <3>2. PICK i \in DOMAIN q : q[i][1] = c /\ q[i][2] = n
      BY <3>1 DEF Run
    <3> QED
      BY <1>1, <3>2
  <2> QED
    BY <2>1, <2>2
<1>6. ASSUME NEW i \in DOMAIN r, NEW j \in DOMAIN r, i < j, r[i][1] = c, r[j][1] = c
      PROVE  r[i][2] # Shutdown /\ (r[j][2] = Shutdown \/ r[i][2] < r[j][2])
  <2>1. CASE j \in DOMAIN p /\ r[j] = p[j]
    <3>1. i \in DOMAIN p /\ r[i] = p[i]
      BY <1>1, <1>6, <2>1
    <3> QED
      BY <1>6, <2>1, <3>1 DEF Run
  <2>2. CASE i \in DOMAIN p /\ r[i] = p[i] /\ j - Len(p) \in DOMAIN q /\ r[j] = q[j - Len(p)]
    <3>1. ~Closes(p, c)
      BY <1>6, <2>2 DEF Mentions
    <3>2. r[i][2] # Shutdown
      BY <1>6, <2>2, <3>1 DEF Closes
    <3>3. r[i][2] <= mid
      BY <1>6, <2>2, <3>2 DEF Run
    <3>4. r[j][2] # Shutdown => mid < r[j][2]
      BY <1>6, <2>2 DEF Run
    <3>5. r[i][2] \in Nat /\ r[j][2] \in Nat
      BY <1>2, <2>2
    <3> QED
      BY <3>2, <3>3, <3>4, <3>5
  <2>3. CASE i > Len(p) /\ i - Len(p) \in DOMAIN q /\ r[i] = q[i - Len(p)]
             /\ j - Len(p) \in DOMAIN q /\ r[j] = q[j - Len(p)]
    <3>1. i - Len(p) < j - Len(p)
      BY <1>1, <1>6, <2>3
    <3> QED
      BY <1>6, <2>3, <3>1 DEF Run
  <2> QED
    BY <1>1, <2>1, <2>2, <2>3
<1>7. Run(r, c, lo, hi)
  BY <1>3, <1>4, <1>5, <1>6 DEF Run
<1> QED
  BY <1>0, <1>7

-----------------------------------------------------------------------------
(* Where the frames of a connection are *)

\* The numbers lo + 1 .. hi, in order.
Consecutive(q, lo, hi) ==
    lo <= hi /\ Len(q) = hi - lo /\ \A i \in 1 .. hi - lo : q[i] = lo + i

\* None.
LEMMA ConsecutiveNone ==
    ASSUME NEW S, NEW q \in Seq(S), NEW lo \in Nat, NEW hi \in Nat, Consecutive(q, lo, hi)
    PROVE  q = <<>> <=> lo = hi
<1>1. q = <<>> <=> Len(q) = 0
  BY EmptySeq
<1> QED
  BY <1>1 DEF Consecutive

\* One more arrives.
LEMMA ConsecutiveNext ==
    ASSUME NEW S, NEW q \in Seq(S), NEW lo \in Nat, NEW hi \in Nat, Consecutive(q, lo, hi),
           hi + 1 \in S
    PROVE  Consecutive(Append(q, hi + 1), lo, hi + 1)
<1>0. PICK r : r = Append(q, hi + 1)
  OBVIOUS
<1>1. /\ Len(r) = Len(q) + 1 /\ r[Len(q) + 1] = hi + 1 /\ Len(q) \in Nat
      /\ \A i \in 1 .. Len(q) : r[i] = q[i]
  BY <1>0, LenProperties, AppendProperties
<1>2. Consecutive(r, lo, hi + 1)
  BY <1>1 DEF Consecutive
<1> QED
  BY <1>0, <1>2

\* The first one leaves.
LEMMA ConsecutiveTail ==
    ASSUME NEW S, NEW q \in Seq(S), q # <<>>, NEW lo \in Nat, NEW hi \in Nat,
           Consecutive(q, lo, hi)
    PROVE  lo < hi /\ Head(q) = lo + 1 /\ Consecutive(Tail(q), lo + 1, hi)
<1>0. PICK r : r = Tail(q)
  OBVIOUS
<1>1. /\ r \in Seq(S) /\ DOMAIN q = 1 .. Len(q) /\ Len(q) \in Nat \ {0}
      /\ Head(q) = q[1] /\ DOMAIN r = 1 .. Len(q) - 1
      /\ \A i \in DOMAIN r : r[i] = q[i + 1]
  BY <1>0, Rest
<1>2. Len(r) = Len(q) - 1
  BY <1>0, HeadTailProperties
<1>3. lo < hi /\ Head(q) = lo + 1
  BY <1>1 DEF Consecutive
<1>4. Consecutive(r, lo + 1, hi)
  <2>1. ASSUME NEW i \in 1 .. hi - (lo + 1) PROVE r[i] = (lo + 1) + i
    <3>1. i \in DOMAIN r /\ i + 1 \in 1 .. hi - lo
      BY <1>1 DEF Consecutive
    <3>2. q[i + 1] = lo + (i + 1)
      BY <3>1 DEF Consecutive
    <3> QED
      BY <1>1, <3>1, <3>2
  <2>2. lo + 1 <= hi /\ Len(r) = hi - (lo + 1)
    BY <1>2, <1>3 DEF Consecutive
  <2> QED
    BY <2>1, <2>2 DEF Consecutive
<1> QED
  BY <1>0, <1>3, <1>4

\* on_read moves the first k of p behind q.
LEMMA ConsecutiveMove ==
    ASSUME NEW S, NEW q \in Seq(S), NEW p \in Seq(S),
           NEW lo \in Nat, NEW mid \in Nat, NEW hi \in Nat,
           Consecutive(q, lo, mid), Consecutive(p, mid, hi), NEW k \in 1 .. Len(p)
    PROVE  /\ Consecutive(q \o SubSeq(p, 1, k), lo, mid + k)
           /\ Consecutive(SubSeq(p, k + 1, Len(p)), mid + k, hi)
<1>0. k \in 0 .. Len(p) /\ Len(p) \in Nat /\ Len(q) \in Nat
  BY LenProperties
<1>1. PICK a \in Seq(S), b \in Seq(S) : a = SubSeq(p, 1, k) /\ b = SubSeq(p, k + 1, Len(p))
  BY <1>0, Cut
<1>2. /\ Len(a) = k /\ Len(b) = Len(p) - k
      /\ \A i \in 1 .. k : a[i] = p[i]
      /\ \A i \in 1 .. Len(p) - k : b[i] = p[k + i]
  BY <1>0, <1>1, Cut
<1>3. Consecutive(b, mid + k, hi)
  <2>1. ASSUME NEW i \in 1 .. hi - (mid + k) PROVE b[i] = (mid + k) + i
    <3>1. i \in 1 .. Len(p) - k /\ k + i \in 1 .. hi - mid
      BY <1>0 DEF Consecutive
    <3>2. p[k + i] = mid + (k + i)
      BY <3>1 DEF Consecutive
    <3> QED
      BY <1>2, <3>1, <3>2
  <2>2. mid + k <= hi /\ Len(b) = hi - (mid + k)
    BY <1>0, <1>2 DEF Consecutive
  <2> QED
    BY <2>1, <2>2 DEF Consecutive
<1>4. PICK r : r = q \o a
  OBVIOUS
<1>5. /\ Len(r) = Len(q) + Len(a)
      /\ \A i \in 1 .. Len(q) + Len(a) : r[i] = IF i <= Len(q) THEN q[i] ELSE a[i - Len(q)]
  <2>1. /\ Len(q \o a) = Len(q) + Len(a)
        /\ \A i \in 1 .. Len(q) + Len(a) :
              (q \o a)[i] = IF i <= Len(q) THEN q[i] ELSE a[i - Len(q)]
    BY ONLY q \in Seq(S), a \in Seq(S), ConcatProperties, Zenon
  <2> QED
    BY ONLY <1>4, <2>1, Zenon
<1>6. Consecutive(r, lo, mid + k)
  <2>1. ASSUME NEW i \in 1 .. (mid + k) - lo PROVE r[i] = lo + i
    <3>1. i \in 1 .. Len(q) + Len(a) /\ Len(q) = mid - lo
      BY <1>0, <1>2 DEF Consecutive
    <3>2. CASE i <= Len(q)
      BY <1>0, <1>5, <3>1, <3>2 DEF Consecutive
    <3>3. CASE ~(i <= Len(q))
      <4>1. i - Len(q) \in 1 .. k
        BY <1>0, <1>2, <3>1, <3>3
      <4>2. p[i - Len(q)] = mid + (i - Len(q))
        <5>1. i - Len(q) \in 1 .. hi - mid
          BY <1>0, <4>1 DEF Consecutive
        <5> QED
          BY <5>1 DEF Consecutive
      <4>3. r[i] = a[i - Len(q)] /\ a[i - Len(q)] = p[i - Len(q)]
        BY <1>2, <1>5, <3>1, <3>3, <4>1
      <4> QED
        BY <1>0, <3>1, <4>2, <4>3
    <3> QED
      BY <3>2, <3>3
  <2>2. lo <= mid + k /\ Len(r) = (mid + k) - lo
    BY <1>0, <1>2, <1>5 DEF Consecutive
  <2> QED
    BY <2>1, <2>2 DEF Consecutive
<1> QED
  BY <1>1, <1>3, <1>4, <1>6

\* The frames 1 .. a have been handled, and perhaps the Shutdown.
Told(h, a) == h = Iota(a) \/ h = Append(Iota(a), Shutdown)
Over(h) == h # <<>> /\ h[Len(h)] = Shutdown

\* The two are told apart by what was handled last.
LEMMA ToldOver ==
    ASSUME NEW a \in Nat, NEW h, Told(h, a)
    PROVE  /\ Over(h) => h = Append(Iota(a), Shutdown)
           /\ ~Over(h) => h = Iota(a) /\ Len(h) = a
           /\ ~Over(Append(Iota(a), a + 1)) /\ Over(Append(Iota(a), Shutdown))
<1>1. PICK p \in Seq(Nat) : p = Iota(a) /\ Len(p) = a /\ \A i \in 1 .. a : p[i] = i
  BY IotaProperties
<1>2. ~Over(p)
  <2>1. p # <<>> => a \in 1 .. a
    BY <1>1, EmptySeq
  <2> QED
    BY <1>1, <2>1 DEF Over, Shutdown
<1>3. ASSUME NEW n \in Nat
      PROVE  Append(p, n) # <<>> /\ Append(p, n)[Len(Append(p, n))] = n
  <2>1. PICK r : r = Append(p, n)
    OBVIOUS
  <2>2. r \in Seq(Nat) /\ Len(r) = a + 1 /\ r[a + 1] = n
    BY <1>1, <2>1, AppendProperties
  <2>3. r # <<>>
    BY <2>2, EmptySeq
  <2> QED
    BY <2>1, <2>2, <2>3
<1>4. Over(Append(p, Shutdown)) /\ ~Over(Append(p, a + 1))
  BY <1>3, a + 1 \in Nat, 0 \in Nat DEF Over, Shutdown
<1> QED
  BY <1>1, <1>2, <1>4 DEF Told

\* Frames a + 1 .. b are in output and b + 1 .. d in the worker's queue,
Upper(c, a, b, d) ==
    /\ Told(handled[c], a)
    /\ Run(output, c, a, b)
    /\ IF td[c] = NoThread THEN b = d ELSE Run(td_read_msgs[td[c]], c, b, d)

\* d + 1 .. e in the connection and the rest in the kernel.  A connection
\* closed for the peer's orderly end has been read to the end.
Lower(c, d, e) ==
    /\ Consecutive(conn_read_msgs[c], d, e)
    /\ IF sock[c] \in {"open", "eof"} THEN Consecutive(inbox[c], e, peer_sent[c])
                                      ELSE inbox[c] = <<>>
    /\ cause[c] = "eof" => d = e /\ e = peer_sent[c] /\ sock[c] # "open"

Streamed(c) == \E a, b, d, e \in Nat : Upper(c, a, b, d) /\ Lower(c, d, e)
InStream == \A c \in Conns : Streamed(c)

\* The Shutdown of a connection is its last message, and no registered
\* connection has one.
Quiet(c) == /\ ~Closes(output, c) /\ ~Over(handled[c])
            /\ \A w \in Workers : ~Closes(td_read_msgs[w], c)

Last(c) ==
    /\ Registered(c) \/ td[c] = NoThread => Quiet(c)
    /\ Closes(output, c) => \A w \in Workers : ~Mentions(td_read_msgs[w], c)
    /\ Over(handled[c]) =>
          ~Mentions(output, c) /\ \A w \in Workers : ~Mentions(td_read_msgs[w], c)

Closing == \A c \in Conns : Last(c)

\* A step that leaves one of the halves alone.
LEMMA UpperAlone ==
    ASSUME NEW c, NEW a, NEW b, NEW d, Upper(c, a, b, d),
           handled'[c] = handled[c], output' = output, td'[c] = td[c],
           td[c] # NoThread => td_read_msgs'[td[c]] = td_read_msgs[td[c]]
    PROVE  Upper(c, a, b, d)'
BY DEF Upper

\* The other half; the cause may become anything but the orderly end.
LEMMA LowerAlone ==
    ASSUME NEW c, NEW d, NEW e, Lower(c, d, e),
           /\ conn_read_msgs'[c] = conn_read_msgs[c] /\ sock'[c] = sock[c]
           /\ inbox'[c] = inbox[c] /\ peer_sent'[c] = peer_sent[c],
           cause'[c] = cause[c] \/ cause'[c] # "eof"
    PROVE  Lower(c, d, e)'
BY DEF Lower

\* The kernel's and the connection's part of a peer's step.
LEMMA LowerPeer ==
    ASSUME TypeOK, PeerStep, NEW c \in Conns, NEW d \in Nat, NEW e \in Nat, Lower(c, d, e)
    PROVE  Lower(c, d, e)'
<1>0. /\ sock \in [Conns -> {"open", "eof", "reset", "shut"}]
      /\ peer_sent \in [Conns -> 0 .. MaxFrames] /\ MaxFrames \in Nat
      /\ inbox \in [Conns -> Seq(1 .. MaxFrames)]
  BY BoundsAssumption DEF TypeOK
<1>1. UNCHANGED <<conn_read_msgs, cause>>
  BY DEF PeerStep, PeerSend, PeerEof, PeerReset, PeerRecv, closeVars, bufferVars
<1>2. CASE PeerSend(c)
  <2>1. PICK n \in Nat : n = peer_sent[c]
    BY <1>0
  <2>2. /\ sock[c] = "open" /\ sock' = sock /\ peer_sent'[c] = n + 1
        /\ inbox'[c] = Append(inbox[c], n + 1) /\ n < MaxFrames
    BY <1>0, <1>2, <2>1 DEF PeerSend
  <2>3. PICK q \in Seq(1 .. MaxFrames) : q = inbox[c]
    BY <1>0
  <2>4. Consecutive(q, e, n)
    BY <2>1, <2>2, <2>3 DEF Lower
  <2>5. n + 1 \in 1 .. MaxFrames
    BY <1>0, <2>2
  <2>6. Consecutive(Append(q, n + 1), e, n + 1)
    BY <2>4, <2>5, ConsecutiveNext
  <2> QED
    BY <1>1, <2>2, <2>3, <2>6 DEF Lower
<1>3. CASE PeerEof(c)
  <2>1. /\ sock[c] = "open" /\ sock'[c] = "eof" /\ UNCHANGED <<peer_sent, inbox>>
    BY <1>0, <1>3 DEF PeerEof
  <2> QED
    BY <1>1, <2>1 DEF Lower
<1>4. CASE PeerReset(c)
  <2>1. sock'[c] = "reset" /\ inbox'[c] = <<>> /\ UNCHANGED peer_sent
    BY <1>0, <1>4 DEF PeerReset
  <2> QED
    BY <1>1, <2>1 DEF Lower
<1>5. CASE sock'[c] = sock[c] /\ inbox'[c] = inbox[c] /\ peer_sent'[c] = peer_sent[c]
  BY <1>1, <1>5, LowerAlone
<1>6. \/ PeerSend(c) \/ PeerEof(c) \/ PeerReset(c)
      \/ sock'[c] = sock[c] /\ inbox'[c] = inbox[c] /\ peer_sent'[c] = peer_sent[c]
  BY <1>0 DEF PeerStep, PeerSend, PeerEof, PeerReset, PeerRecv
<1> QED
  BY <1>2, <1>3, <1>4, <1>5, <1>6

\* And of on_read, when everything read before has been collected.
LEMMA LowerRead ==
    ASSUME TypeOK, Fresh, NEW c \in Conns, NEW armed \in [Conns -> BOOLEAN], OnRead(c, armed),
           UNCHANGED <<sock, peer_sent>>, conn_read_msgs[c] = <<>>,
           NEW d \in Nat, NEW e \in Nat, Lower(c, d, e)
    PROVE  \E f \in Nat : Lower(c, d, f)'
<1>0. /\ peer_sent \in [Conns -> 0 .. MaxFrames] /\ MaxFrames \in Nat
      /\ inbox \in [Conns -> Seq(1 .. MaxFrames)]
      /\ conn_read_msgs \in [Conns -> Seq(1 .. MaxFrames)]
      /\ state \in [Conns -> {"LISTEN", "WAITING", "CLOSE"}]
      /\ cause \in [Conns -> {"none", "eof", "reset", "logic", "fault"}]
  BY BoundsAssumption DEF TypeOK
<1>1. CASE inbox'[c] = inbox[c] /\ conn_read_msgs'[c] = conn_read_msgs[c]
           /\ (cause'[c] = cause[c] \/ cause'[c] # "eof")
  BY <1>1, LowerAlone
<1>2. CASE inbox'[c] = inbox[c] /\ conn_read_msgs'[c] = conn_read_msgs[c]
           /\ inbox[c] = <<>> /\ sock[c] = "eof"
  <2>1. PICK n \in Nat, q \in Seq(1 .. MaxFrames), p \in Seq(1 .. MaxFrames) :
           n = peer_sent[c] /\ q = inbox[c] /\ p = conn_read_msgs[c]
    BY <1>0
  <2>2. Consecutive(q, e, n) /\ Consecutive(p, d, e)
    BY <1>2, <2>1 DEF Lower
  <2>3. e = n
    BY <1>2, <2>1, <2>2, ConsecutiveNone
  <2>4. d = e
    BY <2>1, <2>2, ConsecutiveNone
  <2> QED
    BY <1>2, <2>1, <2>3, <2>4 DEF Lower
<1>3. CASE \E k \in 1 .. Len(inbox[c]) :
              /\ conn_read_msgs'[c] = conn_read_msgs[c] \o SubSeq(inbox[c], 1, k)
              /\ inbox'[c] = SubSeq(inbox[c], k + 1, Len(inbox[c]))
              /\ cause'[c] = cause[c] /\ state[c] # "CLOSE"
  <2>1. PICK n \in Nat, q \in Seq(1 .. MaxFrames), p \in Seq(1 .. MaxFrames) :
           n = peer_sent[c] /\ q = inbox[c] /\ p = conn_read_msgs[c]
    BY <1>0
  <2>2. PICK k \in 1 .. Len(q) :
           /\ conn_read_msgs'[c] = p \o SubSeq(q, 1, k)
           /\ inbox'[c] = SubSeq(q, k + 1, Len(q))
           /\ cause'[c] = cause[c] /\ state[c] # "CLOSE"
    BY <1>3, <2>1
  <2>3. q # <<>>
    BY <2>2, EmptySeq
  <2>4. sock[c] \in {"open", "eof"} /\ Consecutive(q, e, n) /\ Consecutive(p, d, e)
    BY <2>1, <2>3 DEF Lower
  <2>5. /\ Consecutive(p \o SubSeq(q, 1, k), d, e + k)
        /\ Consecutive(SubSeq(q, k + 1, Len(q)), e + k, n)
    BY <2>4, ConsecutiveMove
  <2>6. e + k \in Nat
    BY LenProperties
  <2>7. cause'[c] # "eof"
    BY <2>2 DEF Fresh
  <2>8. Lower(c, d, e + k)'
    BY <2>1, <2>2, <2>4, <2>5, <2>7 DEF Lower
  <2> QED
    BY <2>6, <2>8
<1>4. \/ /\ inbox'[c] = inbox[c] /\ conn_read_msgs'[c] = conn_read_msgs[c]
         /\ \/ cause'[c] = cause[c] \/ cause'[c] # "eof"
            \/ inbox[c] = <<>> /\ sock[c] = "eof"
      \/ \E k \in 1 .. Len(inbox[c]) :
            /\ conn_read_msgs'[c] = conn_read_msgs[c] \o SubSeq(inbox[c], 1, k)
            /\ inbox'[c] = SubSeq(inbox[c], k + 1, Len(inbox[c]))
            /\ cause'[c] = cause[c] /\ state[c] # "CLOSE"
  BY <1>0 DEF OnRead, ReadFrames, ConnClose, closeVars
<1> QED
  BY <1>1, <1>2, <1>3, <1>4

\* Every step keeps the frames of every connection in their places.
LEMMA StreamKept ==
    ASSUME TypeOK, Homes, Fresh, OneRead, InStream, Closing, [Next]_vars
    PROVE  InStream'
<1>0. /\ td \in [Conns -> Workers \cup {NoThread}] /\ NoThread \notin Workers
      /\ td_read_msgs \in [Workers -> Seq(Messages)] /\ output \in Seq(Messages)
      /\ conn_read_msgs \in [Conns -> Seq(1 .. MaxFrames)] /\ MaxFrames \in Nat
      /\ handled \in [Conns -> Seq(0 .. MaxFrames)]
  BY NetThreadNumAssumption, BoundsAssumption DEF TypeOK, NoThread, Workers, Messages
<1> SUFFICES ASSUME NEW x \in Conns PROVE Streamed(x)'
  BY DEF InStream
<1>1. PICK a \in Nat, b \in Nat, d \in Nat, e \in Nat : Upper(x, a, b, d) /\ Lower(x, d, e)
  BY DEF InStream, Streamed
<1>2. Last(x)
  BY DEF Closing
<1>3. CASE PeerStep
  <2>1. UNCHANGED <<handled, output, td, td_read_msgs>>
    BY <1>3 DEF PeerStep, PeerSend, PeerEof, PeerReset, PeerRecv, threadVars, mainVars
  <2>2. Upper(x, a, b, d)'
    BY <1>1, <2>1, UpperAlone
  <2>3. Lower(x, d, e)'
    BY <1>1, <1>3, LowerPeer
  <2> QED
    BY <2>2, <2>3 DEF Streamed
<1>4. CASE \/ LogicTurnEnds \/ UNCHANGED vars
           \/ \E w \in Workers : \/ Dispatch(w) \/ CollectEnd(w) \/ EpollWait(w)
                                 \/ EventsEnd(w) \/ SweepEnd(w)
  <2>1. UNCHANGED <<handled, output, td, td_read_msgs, conn_read_msgs, sock, inbox,
                    peer_sent, cause>>
    BY <1>4 DEF LogicTurnEnds, Dispatch, CollectEnd, EpollWait, EventsEnd, SweepEnd, vars,
                peerVars, closeVars, bufferVars, threadVars, mainVars
  <2>2. Upper(x, a, b, d)'
    BY <1>1, <2>1, UpperAlone
  <2>3. Lower(x, d, e)'
    BY <1>1, <2>1, LowerAlone
  <2> QED
    BY <2>2, <2>3 DEF Streamed
<1>5. ASSUME NEW w \in Workers, NEW c \in Conns, IoWrite(w, c) \/ EventWrite(w, c)
      PROVE  Streamed(x)'
  <2>1. UNCHANGED <<handled, output, td, td_read_msgs, conn_read_msgs, sock, inbox, peer_sent>>
    BY <1>5 DEF IoWrite, EventWrite, threadVars, mainVars
  <2>2. PICK armed \in [Conns -> BOOLEAN] : OnWrite(c, armed)
    BY <1>5 DEF IoWrite, EventWrite, TypeOK, Disarmed
  <2>3. cause'[x] = cause[x] \/ cause'[x] = "fault"
    BY <2>2, WriteLocal
  <2>4. Upper(x, a, b, d)'
    BY <1>1, <2>1, UpperAlone
  <2>5. Lower(x, d, e)'
    BY <1>1, <2>1, <2>3, LowerAlone
  <2> QED
    BY <2>4, <2>5 DEF Streamed
<1>6. ASSUME NEW w \in Workers, NEW c \in Conns, IoRead(w, c) \/ EventRead(w, c)
      PROVE  Streamed(x)'
  <2>1. UNCHANGED <<handled, output, td, td_read_msgs, sock, peer_sent>>
    BY <1>6 DEF IoRead, EventRead, threadVars, mainVars
  <2>2. PICK armed \in [Conns -> BOOLEAN] : OnRead(c, armed)
    BY <1>6 DEF IoRead, EventRead, TypeOK, Disarmed
  <2>3. conn_read_msgs[c] = <<>>
    BY <1>6 DEF IoRead, EventRead, OneRead, ReadOnce
  <2>4. Upper(x, a, b, d)'
    BY <1>1, <2>1, UpperAlone
  <2>5. CASE x = c
    <3>1. \E f \in Nat : Lower(c, d, f)'
      BY <1>1, <2>1, <2>2, <2>3, <2>5, LowerRead
    <3> QED
      BY <2>4, <2>5, <3>1 DEF Streamed
  <2>6. CASE x # c
    <3>1. /\ inbox'[x] = inbox[x] /\ conn_read_msgs'[x] = conn_read_msgs[x]
          /\ cause'[x] = cause[x]
      BY <2>2, <2>6, ReadLocal
    <3>2. Lower(x, d, e)'
      BY <1>1, <2>1, <3>1, LowerAlone
    <3> QED
      BY <2>4, <3>2 DEF Streamed
  <2> QED
    BY <2>5, <2>6
<1>7. ASSUME NEW w \in Workers, NEW c \in Conns, CollectOne(w, c) PROVE Streamed(x)'
  <2>1. /\ UNCHANGED <<handled, output, td, sock, inbox, peer_sent, cause>>
        /\ c \in thread_connections[w] /\ conn_read_msgs[c] # <<>>
        /\ td_read_msgs' = [td_read_msgs EXCEPT ![w] = Append(@, <<c, Head(conn_read_msgs[c])>>)]
        /\ conn_read_msgs' = [conn_read_msgs EXCEPT ![c] = Tail(@)]
    BY <1>7 DEF CollectOne, peerVars, closeVars, mainVars
  <2>2. td[c] = w /\ Registered(c)
    BY <2>1 DEF Homes, Home, Registered
  <2>3. PICK q \in Seq(Messages), p \in Seq(1 .. MaxFrames) :
           q = td_read_msgs[w] /\ p = conn_read_msgs[c]
    BY <1>0
  <2>4. Head(p) \in 1 .. MaxFrames /\ p # <<>>
    BY <2>1, <2>3, HeadTailProperties
  <2>5. PICK m \in Messages : m = <<c, Head(p)>>
    <3>1. Head(p) \in 0 .. MaxFrames
      BY <1>0, <2>4
    <3>2. <<c, Head(p)>> \in Messages
      BY <3>1, Zenon DEF Messages
    <3> QED
      BY <3>2, Zenon
  <2>6. td_read_msgs'[w] = Append(q, m)
    BY <1>0, <2>1, <2>3, <2>5
  <2>7. CASE x = c
    <3>1. Run(q, c, b, d) /\ Consecutive(p, d, e)
      BY <1>0, <1>1, <2>2, <2>3, <2>7 DEF Upper, Lower
    <3>2. d < e /\ Head(p) = d + 1 /\ Consecutive(Tail(p), d + 1, e)
      BY <2>4, <3>1, ConsecutiveTail
    <3>3. ~Closes(q, c)
      BY <1>2, <2>2, <2>3, <2>7 DEF Last, Quiet
    <3>4. m[1] = c /\ m[2] = d + 1
      BY <2>5, <3>2
    <3>5. Run(Append(q, m), c, b, d + 1)
      BY <3>1, <3>3, <3>4, RunAppend
    <3>6. Upper(x, a, b, d + 1)'
      BY <1>0, <1>1, <2>1, <2>2, <2>6, <2>7, <3>5 DEF Upper
    <3>7. conn_read_msgs'[x] = Tail(p)
      BY <1>0, <2>1, <2>3, <2>7
    <3>8. cause[x] # "eof"
      BY <1>1, <3>2 DEF Lower
    <3>9. Lower(x, d + 1, e)'
      BY <1>1, <2>1, <3>2, <3>7, <3>8 DEF Lower
    <3> QED
      BY <3>6, <3>9, d + 1 \in Nat DEF Streamed
  <2>8. CASE x # c
    <3>1. conn_read_msgs'[x] = conn_read_msgs[x]
      BY <1>0, <2>1, <2>8
    <3>2. Lower(x, d, e)'
      BY <1>1, <2>1, <3>1, LowerAlone
    <3>3. CASE td[x] = w
      <4>1. Run(q, x, b, d)
        BY <1>0, <1>1, <2>3, <3>3 DEF Upper
      <4>2. m[1] # x
        BY <2>5, <2>8
      <4>3. Run(Append(q, m), x, b, d)
        BY <4>1, <4>2, RunAppend
      <4>4. Upper(x, a, b, d)'
        BY <1>0, <1>1, <2>1, <2>6, <3>3, <4>3 DEF Upper
      <4> QED
        BY <3>2, <4>4 DEF Streamed
    <3>4. CASE td[x] # w
      <4>1. td[x] # NoThread => td_read_msgs'[td[x]] = td_read_msgs[td[x]]
        BY <1>0, <2>1, <3>4
      <4>2. Upper(x, a, b, d)'
        BY <1>1, <2>1, <4>1, UpperAlone
      <4> QED
        BY <3>2, <4>2 DEF Streamed
    <3> QED
      BY <3>3, <3>4
  <2> QED
    BY <2>7, <2>8
<1>8. ASSUME NEW w \in Workers, NEW c \in Conns, Register(w, c) PROVE Streamed(x)'
  <2>1. /\ UNCHANGED <<handled, output, td_read_msgs, conn_read_msgs, sock, inbox, peer_sent, cause>>
        /\ td[c] = NoThread /\ td' = [td EXCEPT ![c] = w]
    BY <1>8 DEF Register, peerVars, bufferVars, threadVars, mainVars
  <2>2. Lower(x, d, e)'
    BY <1>1, <2>1, LowerAlone
  <2>3. CASE x = c
    <3>1. ~Mentions(td_read_msgs[w], x)
      BY <1>0, <2>1, <2>3 DEF Fresh, Heard
    <3>2. PICK q : q = td_read_msgs[w]
      OBVIOUS
    <3>3. Run(q, x, b, b)
      BY <3>1, <3>2, RunNone
    <3>4. b = d
      BY <1>1, <2>1, <2>3 DEF Upper
    <3>5. td'[x] = w
      BY <1>0, <2>1, <2>3
    <3>6. Upper(x, a, b, d)'
      BY <1>0, <1>1, <2>1, <3>2, <3>3, <3>4, <3>5 DEF Upper
    <3> QED
      BY <2>2, <3>6 DEF Streamed
  <2>4. CASE x # c
    <3>1. td'[x] = td[x]
      BY <1>0, <2>1, <2>4
    <3>2. Upper(x, a, b, d)'
      BY <1>1, <2>1, <3>1, UpperAlone
    <3> QED
      BY <2>2, <3>2 DEF Streamed
  <2> QED
    BY <2>3, <2>4
<1>9. ASSUME NEW w \in Workers, NEW c \in Conns, SweepVisit(w, c) PROVE Streamed(x)'
  <2>1. UNCHANGED <<handled, output, td, conn_read_msgs, peer_sent, cause>>
        /\ <<c, "s">> \in todo[w]
    BY <1>9 DEF SweepVisit, closeVars, mainVars
  <2>2. CASE state[c] # "CLOSE"
    <3>1. UNCHANGED <<td_read_msgs, sock, inbox>>
      BY <1>9, <2>2 DEF SweepVisit
    <3>2. Upper(x, a, b, d)'
      BY <1>1, <2>1, <3>1, UpperAlone
    <3>3. Lower(x, d, e)'
      BY <1>1, <2>1, <3>1, LowerAlone
    <3> QED
      BY <3>2, <3>3 DEF Streamed
  <2>3. CASE state[c] = "CLOSE"
    <3>1. /\ td_read_msgs' = [td_read_msgs EXCEPT ![w] = Append(td_read_msgs[w], <<c, Shutdown>>)]
          /\ \/ sock' = [sock EXCEPT ![c] = "shut"] /\ inbox' = [inbox EXCEPT ![c] = <<>>]
             \/ UNCHANGED <<sock, inbox>>
      BY <1>9, <2>3 DEF SweepVisit, ShutdownLast
    <3>2. c \in thread_connections[w]
      BY <2>1 DEF Homes, Home
    <3>3. td[c] = w /\ Registered(c)
      BY <3>2 DEF Homes, Home, Registered
    <3>4. PICK q \in Seq(Messages) : q = td_read_msgs[w]
      BY <1>0
    <3>5. PICK m \in Messages : m = <<c, Shutdown>>
      <4>1. Shutdown \in 0 .. MaxFrames
        BY <1>0 DEF Shutdown
      <4>2. <<c, Shutdown>> \in Messages
        BY <4>1, Zenon DEF Messages
      <4> QED
        BY <4>2, Zenon
    <3>6. td_read_msgs'[w] = Append(q, m)
      BY <1>0, <3>1, <3>4, <3>5
    <3>7. Lower(x, d, e)'
      <4>1. CASE sock'[x] = "shut" /\ inbox'[x] = <<>>
        BY <1>1, <2>1, <4>1 DEF Lower
      <4>2. CASE sock'[x] = sock[x] /\ inbox'[x] = inbox[x]
        BY <1>1, <2>1, <4>2, LowerAlone
      <4>3. \/ sock'[x] = "shut" /\ inbox'[x] = <<>>
            \/ sock'[x] = sock[x] /\ inbox'[x] = inbox[x]
        BY <3>1 DEF TypeOK
      <4> QED
        BY <4>1, <4>2, <4>3
    <3>8. CASE td[x] = w
      <4>1. Run(q, x, b, d)
        BY <1>0, <1>1, <3>4, <3>8 DEF Upper
      <4>2. x = c => ~Closes(q, x)
        BY <1>2, <3>3, <3>4 DEF Last, Quiet
      <4>3. m[1] = c /\ m[2] = Shutdown
        BY <3>5
      <4>4. Run(Append(q, m), x, b, d)
        BY <4>1, <4>2, <4>3, RunAppend
      <4>5. Upper(x, a, b, d)'
        BY <1>0, <1>1, <2>1, <3>6, <3>8, <4>4 DEF Upper
      <4> QED
        BY <3>7, <4>5 DEF Streamed
    <3>9. CASE td[x] # w
      <4>1. td[x] # NoThread => td_read_msgs'[td[x]] = td_read_msgs[td[x]]
        BY <1>0, <3>1, <3>9
      <4>2. Upper(x, a, b, d)'
        BY <1>1, <2>1, <4>1, UpperAlone
      <4> QED
        BY <3>7, <4>2 DEF Streamed
    <3> QED
      BY <3>8, <3>9
  <2> QED
    BY <2>2, <2>3
<1>10. CASE GetNetMsgs
  <2>1. /\ UNCHANGED <<handled, td, conn_read_msgs, sock, inbox, peer_sent, cause>>
        /\ next_thread \in Workers
        /\ output' = output \o td_read_msgs[next_thread]
        /\ td_read_msgs' = [td_read_msgs EXCEPT ![next_thread] = <<>>]
    BY <1>10, NetThreadNumAssumption DEF GetNetMsgs, TypeOK, Workers, peerVars, closeVars, bufferVars
  <2>2. Lower(x, d, e)'
    BY <1>1, <2>1, LowerAlone
  <2>3. PICK w \in Workers : w = next_thread
    BY <2>1
  <2>4. PICK p \in Seq(Messages), q \in Seq(Messages) : p = output /\ q = td_read_msgs[w]
    BY <1>0
  <2>5. Run(p, x, a, b) /\ Told(handled'[x], a)
    BY <1>1, <2>1, <2>4 DEF Upper
  <2>6. Closes(p, x) => ~Mentions(q, x)
    BY <1>2, <2>4 DEF Last
  <2>7. output' = p \o q
    BY <2>1, <2>3, <2>4
  <2>8. CASE td[x] = w
    <3>1. Run(q, x, b, d)
      BY <1>0, <1>1, <2>4, <2>8 DEF Upper
    <3>2. Run(p \o q, x, a, d)
      BY <2>5, <2>6, <3>1, RunJoin
    <3>3. Run(<<>>, x, d, d)
      BY QueueEmpty, RunNone
    <3>4. td_read_msgs'[w] = <<>>
      BY <1>0, <2>1, <2>3
    <3>5. Upper(x, a, d, d)'
      BY <1>0, <2>1, <2>5, <2>7, <2>8, <3>2, <3>3, <3>4 DEF Upper
    <3> QED
      BY <2>2, <3>5 DEF Streamed
  <2>9. CASE td[x] # w
    <3>1. ~Mentions(q, x)
      BY <2>4, <2>9 DEF Fresh, Heard
    <3>2. Run(q, x, b, b)
      BY <3>1, RunNone
    <3>3. Run(p \o q, x, a, b)
      BY <2>5, <2>6, <3>2, RunJoin
    <3>4. td[x] # NoThread => td_read_msgs'[td[x]] = td_read_msgs[td[x]]
      BY <1>0, <2>1, <2>3, <2>9
    <3>5. Upper(x, a, b, d)'
      BY <1>1, <2>1, <2>5, <2>7, <3>3, <3>4 DEF Upper
    <3> QED
      BY <2>2, <3>5 DEF Streamed
  <2> QED
    BY <2>8, <2>9
<1>11. CASE Handle
  <2>1. PICK q \in Seq(Messages) : q = output /\ q # <<>>
    BY <1>0, <1>11 DEF Handle
  <2>2. PICK m \in Messages : m = Head(q)
    BY <2>1, HeadTailProperties
  <2>3. /\ UNCHANGED <<td, td_read_msgs, conn_read_msgs, sock, inbox, peer_sent>>
        /\ output' = Tail(q)
        /\ handled' = [handled EXCEPT ![m[1]] = Append(@, m[2])]
    BY <1>11, <2>1, <2>2 DEF Handle, peerVars, bufferVars
  <2>4. cause'[x] = cause[x] \/ cause'[x] = "logic"
    <3>1. cause \in [Conns -> {"none", "eof", "reset", "logic", "fault"}]
      BY DEF TypeOK
    <3>2. cause' = cause \/ ConnClose(m[1], "logic")
      BY <1>11, <2>1, <2>2 DEF Handle, closeVars
    <3> QED
      BY <3>1, <3>2 DEF ConnClose
  <2>5. Lower(x, d, e)'
    BY <1>1, <2>3, <2>4, LowerAlone
  <2>6. Run(q, x, a, b) /\ Told(handled[x], a)
    BY <1>1, <2>1 DEF Upper
  <2>7. /\ m[1] # x => Run(Tail(q), x, a, b)
        /\ m[1] = x /\ m[2] # Shutdown => m[2] = a + 1 /\ Run(Tail(q), x, a + 1, b)
        /\ m[1] = x /\ m[2] = Shutdown => Run(Tail(q), x, a, b)
    BY <2>1, <2>2, <2>6, RunTail
  <2>8. CASE m[1] # x
    <3>1. handled'[x] = handled[x]
      BY <1>0, <2>3, <2>8
    <3>2. Upper(x, a, b, d)'
      BY <1>1, <2>3, <2>7, <2>8, <3>1 DEF Upper
    <3> QED
      BY <2>5, <3>2 DEF Streamed
  <2>9. CASE m[1] = x
    <3>1. Mentions(q, x)
      BY <2>1, <2>2, <2>9, QueueTail
    <3>2. ~Over(handled[x])
      BY <1>2, <2>1, <3>1 DEF Last
    <3>3. handled[x] = Iota(a)
      BY <2>6, <3>2, ToldOver
    <3>4. handled'[x] = Append(Iota(a), m[2])
      BY <1>0, <2>3, <2>9, <3>3
    <3>5. CASE m[2] = Shutdown
      <4>1. Upper(x, a, b, d)'
        BY <1>1, <2>3, <2>7, <2>9, <3>4, <3>5 DEF Upper, Told
      <4> QED
        BY <2>5, <4>1 DEF Streamed
    <3>6. CASE m[2] # Shutdown
      <4>1. handled'[x] = Iota(a + 1)
        BY <2>7, <2>9, <3>4, <3>6, IotaNext
      <4>2. Upper(x, a + 1, b, d)'
        BY <1>1, <2>3, <2>7, <2>9, <3>6, <4>1 DEF Upper, Told
      <4> QED
        BY <2>5, <4>2, a + 1 \in Nat DEF Streamed
    <3> QED
      BY <3>5, <3>6
  <2> QED
    BY <2>8, <2>9
<1> QED
  BY <1>3, <1>4, <1>5, <1>6, <1>7, <1>8, <1>9, <1>10, <1>11 DEF Next, WorkerStep, MainStep

\* A step after which no queue has a message of d that it did not have.
LEMMA LastAlone ==
    ASSUME NEW d \in Conns, Last(d),
           Registered(d)' \/ td'[d] = NoThread => Registered(d) \/ td[d] = NoThread,
           handled'[d] = handled[d],
           Mentions(output', d) => Mentions(output, d),
           Closes(output', d) => Closes(output, d),
           \A w \in Workers : /\ Mentions(td_read_msgs'[w], d) => Mentions(td_read_msgs[w], d)
                              /\ Closes(td_read_msgs'[w], d) => Closes(td_read_msgs[w], d)
    PROVE  Last(d)'
BY DEF Last, Quiet

\* Every step keeps the Shutdown of every connection its last message.
LEMMA ClosingKept ==
    ASSUME TypeOK, Homes, Fresh, InStream, Closing, [Next]_vars
    PROVE  Closing'
<1>0. /\ td \in [Conns -> Workers \cup {NoThread}] /\ NoThread \notin Workers
      /\ td_read_msgs \in [Workers -> Seq(Messages)] /\ output \in Seq(Messages)
      /\ conn_read_msgs \in [Conns -> Seq(1 .. MaxFrames)] /\ MaxFrames \in Nat
      /\ thread_connections \in [Workers -> SUBSET Conns]
      /\ handled \in [Conns -> Seq(0 .. MaxFrames)]
  BY NetThreadNumAssumption, BoundsAssumption DEF TypeOK, NoThread, Workers, Messages
<1> SUFFICES ASSUME NEW x \in Conns PROVE Last(x)'
  BY DEF Closing
<1>1. Last(x)
  BY DEF Closing
<1>2. CASE \/ PeerStep \/ LogicTurnEnds \/ UNCHANGED vars
           \/ \E w \in Workers :
                \/ Dispatch(w) \/ CollectEnd(w) \/ EpollWait(w) \/ EventsEnd(w) \/ SweepEnd(w)
                \/ \E c \in Conns : \/ IoRead(w, c) \/ IoWrite(w, c)
                                    \/ EventRead(w, c) \/ EventWrite(w, c)
  <2>1. UNCHANGED <<handled, output, td, td_read_msgs, thread_connections>>
    BY <1>2 DEF PeerStep, PeerSend, PeerEof, PeerReset, PeerRecv, LogicTurnEnds, Dispatch,
                CollectEnd, EpollWait, EventsEnd, SweepEnd, IoRead, IoWrite, EventRead,
                EventWrite, vars, threadVars, mainVars
  <2>2. Registered(x)' <=> Registered(x)
    BY <2>1 DEF Registered
  <2> QED
    BY <1>1, <2>1, <2>2, LastAlone
<1>3. ASSUME NEW w \in Workers, NEW c \in Conns, CollectOne(w, c) PROVE Last(x)'
  <2>1. /\ UNCHANGED <<handled, output, td, thread_connections>>
        /\ c \in thread_connections[w] /\ conn_read_msgs[c] # <<>>
        /\ td_read_msgs' = [td_read_msgs EXCEPT ![w] = Append(@, <<c, Head(conn_read_msgs[c])>>)]
    BY <1>3 DEF CollectOne, mainVars
  <2>2. Registered(c) /\ (Registered(x)' <=> Registered(x))
    BY <2>1 DEF Registered
  <2>3. PICK q \in Seq(Messages), p \in Seq(1 .. MaxFrames) :
           q = td_read_msgs[w] /\ p = conn_read_msgs[c]
    BY <1>0
  <2>4. Head(p) \in 1 .. MaxFrames /\ p # <<>>
    BY <2>1, <2>3, HeadTailProperties
  <2>5. PICK m \in Messages : m = <<c, Head(p)>>
    <3>1. Head(p) \in 0 .. MaxFrames
      BY <1>0, <2>4
    <3>2. <<c, Head(p)>> \in Messages
      BY <3>1, Zenon DEF Messages
    <3> QED
      BY <3>2, Zenon
  <2>6. td_read_msgs'[w] = Append(q, m) /\ \A v \in Workers \ {w} : td_read_msgs'[v] = td_read_msgs[v]
    BY <1>0, <2>1, <2>3, <2>5
  <2>7. m[1] = c /\ m[2] # Shutdown
    BY <1>0, <2>4, <2>5 DEF Shutdown
  <2>8. /\ Mentions(Append(q, m), x) <=> Mentions(q, x) \/ x = c
        /\ Closes(Append(q, m), x) <=> Closes(q, x)
    BY <2>7, QueueAppend
  <2>9. CASE x = c
    <3>1. Quiet(x)
      BY <1>1, <2>2, <2>9 DEF Last
    <3>2. Quiet(x)'
      BY <2>1, <2>3, <2>6, <2>8, <3>1 DEF Quiet
    <3> QED
      BY <3>2 DEF Last, Quiet
  <2>10. CASE x # c
    <3>1. \A v \in Workers : /\ Mentions(td_read_msgs'[v], x) => Mentions(td_read_msgs[v], x)
                             /\ Closes(td_read_msgs'[v], x) => Closes(td_read_msgs[v], x)
      BY <2>3, <2>6, <2>8, <2>10
    <3> QED
      BY <1>1, <2>1, <2>2, <3>1, LastAlone
  <2> QED
    BY <2>9, <2>10
<1>4. ASSUME NEW w \in Workers, NEW c \in Conns, Register(w, c) PROVE Last(x)'
  <2>1. /\ UNCHANGED <<handled, output, td_read_msgs>>
        /\ td[c] = NoThread /\ td' = [td EXCEPT ![c] = w]
        /\ thread_connections' = [thread_connections EXCEPT ![w] = @ \cup {c}]
    BY <1>4 DEF Register, threadVars, mainVars
  <2>2. x # c => td'[x] = td[x]
    BY <1>0, <2>1
  <2>3. \A v \in Workers : x # c => (x \in thread_connections'[v] <=> x \in thread_connections[v])
    BY <1>0, <2>1
  <2>4. Registered(x)' \/ td'[x] = NoThread => Registered(x) \/ td[x] = NoThread
    BY <2>1, <2>2, <2>3 DEF Registered
  <2> QED
    BY <1>1, <2>1, <2>4, LastAlone
<1>5. ASSUME NEW w \in Workers, NEW c \in Conns, SweepVisit(w, c) PROVE Last(x)'
  <2>1. UNCHANGED <<handled, output, td>> /\ <<c, "s">> \in todo[w]
    BY <1>5 DEF SweepVisit, mainVars
  <2>2. CASE state[c] # "CLOSE"
    <3>1. UNCHANGED <<td_read_msgs, thread_connections>>
      BY <1>5, <2>2 DEF SweepVisit
    <3>2. Registered(x)' <=> Registered(x)
      BY <3>1 DEF Registered
    <3> QED
      BY <1>1, <2>1, <3>1, <3>2, LastAlone
  <2>3. CASE state[c] = "CLOSE"
    <3>1. /\ td_read_msgs' = [td_read_msgs EXCEPT ![w] = Append(td_read_msgs[w], <<c, Shutdown>>)]
          /\ thread_connections' = [thread_connections EXCEPT ![w] = @ \ {c}]
      BY <1>5, <2>3 DEF SweepVisit, ShutdownLast
    <3>2. c \in thread_connections[w]
      BY <2>1 DEF Homes, Home
    <3>3. td[c] = w /\ Registered(c)
      BY <3>2 DEF Homes, Home, Registered
    <3>4. PICK q \in Seq(Messages) : q = td_read_msgs[w]
      BY <1>0
    <3>5. PICK m \in Messages : m = <<c, Shutdown>>
      <4>1. Shutdown \in 0 .. MaxFrames
        BY <1>0 DEF Shutdown
      <4>2. <<c, Shutdown>> \in Messages
        BY <4>1, Zenon DEF Messages
      <4> QED
        BY <4>2, Zenon
    <3>6. td_read_msgs'[w] = Append(q, m) /\ \A v \in Workers \ {w} : td_read_msgs'[v] = td_read_msgs[v]
      BY <1>0, <3>1, <3>4, <3>5
    <3>7. m[1] = c
      BY <3>5
    <3>8. CASE x = c
      <4>1. Quiet(x)
        BY <1>1, <3>3, <3>8 DEF Last
      <4>2. \A v \in Workers : x \notin thread_connections'[v]
        BY <1>0, <3>1, <3>3, <3>8 DEF Homes, Home
      <4>3. ~Registered(x)' /\ td'[x] # NoThread
        BY <1>0, <2>1, <3>3, <3>8, <4>2 DEF Registered
      <4> QED
        BY <2>1, <4>1, <4>3 DEF Last, Quiet
    <3>9. CASE x # c
      <4>1. /\ Mentions(Append(q, m), x) <=> Mentions(q, x)
            /\ Closes(Append(q, m), x) <=> Closes(q, x)
        BY <3>7, <3>9, QueueAppend
      <4>2. \A v \in Workers : /\ Mentions(td_read_msgs'[v], x) => Mentions(td_read_msgs[v], x)
                               /\ Closes(td_read_msgs'[v], x) => Closes(td_read_msgs[v], x)
        BY <3>4, <3>6, <4>1
      <4>3. \A v \in Workers : x \in thread_connections'[v] => x \in thread_connections[v]
        BY <1>0, <3>1
      <4>4. Registered(x)' => Registered(x)
        BY <4>3 DEF Registered
      <4> QED
        BY <1>1, <2>1, <4>2, <4>4, LastAlone
    <3> QED
      BY <3>8, <3>9
  <2> QED
    BY <2>2, <2>3
<1>6. CASE GetNetMsgs
  <2>1. /\ UNCHANGED <<handled, td, thread_connections>>
        /\ next_thread \in Workers
        /\ output' = output \o td_read_msgs[next_thread]
        /\ td_read_msgs' = [td_read_msgs EXCEPT ![next_thread] = <<>>]
    BY <1>6, NetThreadNumAssumption DEF GetNetMsgs, TypeOK, Workers
  <2>2. PICK w \in Workers : w = next_thread
    BY <2>1
  <2>3. PICK p \in Seq(Messages), q \in Seq(Messages) : p = output /\ q = td_read_msgs[w]
    BY <1>0
  <2>4. output' = p \o q /\ td_read_msgs'[w] = <<>>
        /\ \A v \in Workers \ {w} : td_read_msgs'[v] = td_read_msgs[v]
    BY <1>0, <2>1, <2>2, <2>3
  <2>5. /\ Mentions(p \o q, x) <=> Mentions(p, x) \/ Mentions(q, x)
        /\ Closes(p \o q, x) <=> Closes(p, x) \/ Closes(q, x)
    BY QueueJoin
  <2>6. ~Mentions(<<>>, x) /\ ~Closes(<<>>, x)
    BY QueueEmpty
  <2>7. \A v \in Workers : Mentions(td_read_msgs[v], x) => td[x] = v
    BY DEF Fresh, Heard
  <2>8. Registered(x)' <=> Registered(x)
    BY <2>1 DEF Registered
  <2>9. Closes(q, x) => Mentions(q, x)
    BY ClosesMentions
  <2>10. Registered(x)' \/ td'[x] = NoThread => Quiet(x)'
    BY <1>1, <2>1, <2>3, <2>4, <2>5, <2>6, <2>8 DEF Last, Quiet
  <2>11. Closes(output', x) => \A v \in Workers : ~Mentions(td_read_msgs'[v], x)
    <3>1. CASE Closes(p, x)
      BY <1>1, <2>3, <2>4, <2>6, <3>1 DEF Last
    <3>2. CASE Closes(q, x)
      BY <2>3, <2>4, <2>6, <2>7, <2>9, <3>2
    <3> QED
      BY <2>4, <2>5, <3>1, <3>2
  <2>12. Over(handled'[x]) =>
            ~Mentions(output', x) /\ \A v \in Workers : ~Mentions(td_read_msgs'[v], x)
    BY <1>1, <2>1, <2>3, <2>4, <2>5, <2>6 DEF Last
  <2> QED
    BY <2>10, <2>11, <2>12 DEF Last
<1>7. CASE Handle
  <2>1. PICK q \in Seq(Messages) : q = output /\ q # <<>>
    BY <1>0, <1>7 DEF Handle
  <2>2. PICK m \in Messages : m = Head(q)
    BY <2>1, HeadTailProperties
  <2>3. /\ UNCHANGED <<td, td_read_msgs, thread_connections>>
        /\ output' = Tail(q)
        /\ handled' = [handled EXCEPT ![m[1]] = Append(@, m[2])]
    BY <1>7, <2>1, <2>2 DEF Handle
  <2>4. /\ Mentions(q, x) <=> Mentions(Tail(q), x) \/ m[1] = x
        /\ Closes(q, x) <=> Closes(Tail(q), x) \/ (m[1] = x /\ m[2] = Shutdown)
    BY <2>1, <2>2, QueueTail
  <2>5. Registered(x)' <=> Registered(x)
    BY <2>3 DEF Registered
  <2>6. CASE m[1] # x
    <3>1. handled'[x] = handled[x]
      BY <1>0, <2>3, <2>6
    <3> QED
      BY <1>1, <2>1, <2>3, <2>4, <2>5, <3>1, LastAlone
  <2>7. CASE m[1] = x
    <3>1. PICK a \in Nat, b \in Nat : Told(handled[x], a) /\ Run(q, x, a, b)
      BY <2>1 DEF InStream, Streamed, Upper
    <3>2. ~Over(handled[x])
      BY <1>1, <2>1, <2>4, <2>7 DEF Last
    <3>3. handled[x] = Iota(a)
      BY <3>1, <3>2, ToldOver
    <3>4. handled'[x] = Append(Iota(a), m[2])
      BY <1>0, <2>3, <2>7, <3>3
    <3>5. CASE m[2] # Shutdown
      <4>1. m[2] = a + 1
        BY <2>1, <2>2, <2>7, <3>1, <3>5, RunTail
      <4>2. ~Over(handled'[x])
        BY <3>1, <3>4, <4>1, ToldOver
      <4> QED
        BY <1>1, <2>1, <2>3, <2>4, <2>5, <4>2 DEF Last, Quiet
    <3>6. CASE m[2] = Shutdown
      <4>1. Closes(q, x)
        BY <2>4, <2>7, <3>6
      <4>2. ~Registered(x)' /\ td'[x] # NoThread
        BY <1>1, <2>1, <2>3, <2>5, <4>1 DEF Last, Quiet
      <4>3. ~Mentions(Tail(q), x)
        BY <2>1, <2>2, <2>7, <3>1, <3>6, RunTail
      <4>4. \A w \in Workers : ~Mentions(td_read_msgs[w], x)
        BY <1>1, <2>1, <4>1 DEF Last
      <4> QED
        BY <2>3, <4>2, <4>3, <4>4 DEF Last
    <3> QED
      BY <3>5, <3>6
  <2> QED
    BY <2>6, <2>7
<1> QED
  BY <1>2, <1>3, <1>4, <1>5, <1>6, <1>7 DEF Next, WorkerStep, MainStep

-----------------------------------------------------------------------------
(* The theorems *)

\* The invariant: all of the above together.
FlowInv == /\ TypeOK /\ NeverDeaf /\ Homes /\ Fresh /\ OneRead /\ SendsInOrder
           /\ InStream /\ Closing

\* It holds at the start,
LEMMA FlowInit == Init => FlowInv
<1> SUFFICES ASSUME Init PROVE FlowInv
  OBVIOUS
<1>0. /\ <<>> \in Seq(1 .. MaxFrames) /\ <<>> \in Seq(1 .. MaxSends)
      /\ <<>> \in Seq(0 .. MaxFrames) /\ <<>> \in Seq(Conns \X (0 .. MaxFrames))
      /\ Len(<<>>) = 0 /\ <<>> \o <<>> = <<>>
  BY EmptySeq, ConcatEmptySeq
<1>1. TypeOK
  BY <1>0, NetThreadNumAssumption, BoundsAssumption DEF Init, TypeOK, Workers
<1>2. \A c \in Conns : ~Registered(c)
  BY DEF Init, Registered
<1>3. NeverDeaf
  BY <1>2 DEF NeverDeaf
<1>4. Homes
  BY DEF Init, Homes, Home
<1>5. \A c \in Conns : /\ ~Mentions(output, c) /\ ~Closes(output, c)
                       /\ \A w \in Workers : /\ ~Mentions(td_read_msgs[w], c)
                                             /\ ~Closes(td_read_msgs[w], c)
  BY QueueEmpty DEF Init
<1>6. Fresh
  BY <1>5 DEF Init, Fresh, Heard, Untouched
<1>7. OneRead
  BY DEF Init, OneRead, ReadOnce
<1>8. SendsInOrder
  <2>1. ASSUME NEW c \in Conns
        PROVE  got[c] \o outbox[c] = Iota(Len(got[c] \o outbox[c]))
    <3>1. got[c] = <<>> /\ outbox[c] = <<>>
      BY DEF Init
    <3> QED
      BY ONLY <1>0, <3>1, IotaNone, Zenon
  <2> QED
    BY <1>2, <2>1 DEF SendsInOrder
<1>9. InStream
  <2> SUFFICES ASSUME NEW c \in Conns PROVE Upper(c, 0, 0, 0) /\ Lower(c, 0, 0)
    BY 0 \in Nat DEF InStream, Streamed
  <2>1. Told(handled[c], 0)
    BY IotaNone DEF Init, Told
  <2>2. Run(output, c, 0, 0)
    <3>1. PICK q : q = output
      OBVIOUS
    <3>2. Run(q, c, 0, 0)
      BY <1>5, <3>1, RunNone, 0 \in Nat
    <3> QED
      BY <3>1, <3>2
  <2>3. Upper(c, 0, 0, 0)
    BY <2>1, <2>2 DEF Init, Upper
  <2>4. Consecutive(<<>>, 0, 0)
    BY <1>0 DEF Consecutive
  <2>5. Lower(c, 0, 0)
    BY <2>4 DEF Init, Lower
  <2> QED
    BY <2>3, <2>5
<1>10. Closing
  BY <1>5 DEF Init, Closing, Last, Quiet, Over
<1> QED
  BY <1>1, <1>3, <1>4, <1>6, <1>7, <1>8, <1>9, <1>10 DEF FlowInv

\* every step keeps it,
LEMMA FlowKept == FlowInv /\ [Next]_vars => FlowInv'
<1> SUFFICES ASSUME FlowInv, [Next]_vars PROVE FlowInv'
  OBVIOUS
<1>1. TypeOK /\ NeverDeaf /\ Homes /\ Fresh /\ OneRead /\ SendsInOrder /\ InStream /\ Closing
  BY DEF FlowInv
<1>2. TypeOK' /\ NeverDeaf' /\ Homes'
  BY <1>1, TypeKept, DeafKept, HomesKept
<1>3. Fresh' /\ OneRead' /\ SendsInOrder'
  BY <1>1, FreshKept, OneReadKept, SendsKept
<1>4. InStream' /\ Closing'
  BY <1>1, StreamKept, ClosingKept
<1> QED
  BY <1>2, <1>3, <1>4 DEF FlowInv

\* and so it is invariant.
LEMMA FlowInvariant == Spec => []FlowInv
BY FlowInit, FlowKept, PTL DEF Spec

\* Types: in particular no number leaves its bound, and a worker's queue and the
\* main thread's hold messages of known connections.
THEOREM TypeCorrect == Spec => []TypeOK
<1>1. FlowInv => TypeOK
  BY DEF FlowInv
<1> QED
  BY <1>1, FlowInvariant, PTL

\* However the events' callbacks, the polling and the sweep interleave with the
\* peers, no open connection is left neither polled nor armed for reading, and
\* for writing none but those create_conn had no duplicate descriptor for.
THEOREM NeverSleeps == Spec => []NeverDeaf
<1>1. FlowInv => NeverDeaf
  BY DEF FlowInv
<1> QED
  BY <1>1, FlowInvariant, PTL

\* net_send: what the logic sends to an open connection is on its way, once and
\* in order, through the worker's deque, the connection's, the buffer and the
\* kernel; what the peer has got is always a prefix.
THEOREM SendsKeepOrder == Spec => []SendsInOrder
<1>1. FlowInv => SendsInOrder
  BY DEF FlowInv
<1> QED
  BY <1>1, FlowInvariant, PTL

\* The last message handled was the Shutdown.
LEMMA FeedOver == ASSUME NEW c PROVE Feed!Ended(c) <=> Over(handled[c])
BY DEF Feed!Ended, Feed!Shutdown, Over, Shutdown

\* A connection closed because its peer closed it in an orderly way has had
\* every frame of the peer handled when its Shutdown is.
THEOREM EofKeepsAll == Spec => []EofLosesNothing
<1>1. FlowInv => EofLosesNothing
  <2> SUFFICES ASSUME FlowInv, NEW c \in Conns, cause[c] = "eof", Feed!Ended(c)
               PROVE  handled[c] = Append(Iota(peer_sent[c]), Shutdown)
    BY DEF EofLosesNothing
  <2>1. Over(handled[c])
    BY FeedOver
  <2>2. PICK a \in Nat, b \in Nat, d \in Nat, e \in Nat : Upper(c, a, b, d) /\ Lower(c, d, e)
    BY DEF FlowInv, InStream, Streamed
  <2>3. ~Mentions(output, c) /\ \A w \in Workers : ~Mentions(td_read_msgs[w], c)
    BY <2>1 DEF FlowInv, Closing, Last
  <2>4. a = b
    <3>1. PICK q : q = output
      OBVIOUS
    <3>2. ~Mentions(q, c) /\ Run(q, c, a, b)
      BY <2>2, <2>3, <3>1 DEF Upper
    <3> QED
      BY <3>2, RunNone
  <2>5. b = d
    <3>1. CASE td[c] = NoThread
      BY <2>2, <3>1 DEF Upper
    <3>2. CASE td[c] # NoThread
      <4>1. td[c] \in Workers
        BY <3>2 DEF FlowInv, TypeOK
      <4>2. PICK q : q = td_read_msgs[td[c]]
        OBVIOUS
      <4>3. ~Mentions(q, c) /\ Run(q, c, b, d)
        BY <2>2, <2>3, <3>2, <4>1, <4>2 DEF Upper
      <4> QED
        BY <4>3, RunNone
    <3> QED
      BY <3>1, <3>2
  <2>6. d = peer_sent[c]
    BY <2>2 DEF Lower
  <2>7. handled[c] = Append(Iota(a), Shutdown)
    BY <2>1, <2>2, ToldOver DEF Upper
  <2> QED
    BY <2>4, <2>5, <2>6, <2>7
<1> QED
  BY <1>1, FlowInvariant, PTL

\* A handler's turn is a step of LogicFeed, and no other step is.
LEMMA FeedStep ==
    FlowInv /\ [Next]_vars => [Feed!Next]_handled
<1> SUFFICES ASSUME FlowInv, [Next]_vars, handled' # handled PROVE Feed!Next
  OBVIOUS
<1>1. Handle
  <2>1. ~PeerStep
    BY DEF PeerStep, PeerSend, PeerEof, PeerReset, PeerRecv, mainVars
  <2>2. ~GetNetMsgs /\ ~LogicTurnEnds /\ ~UNCHANGED vars
    BY DEF GetNetMsgs, LogicTurnEnds, vars, mainVars
  <2>3. ASSUME NEW w \in Workers PROVE ~WorkerStep(w)
    BY DEF WorkerStep, Dispatch, CollectOne, CollectEnd, IoRead, IoWrite, EpollWait,
           EventRead, EventWrite, Register, EventsEnd, SweepVisit, SweepEnd, mainVars
  <2> QED
    BY <2>1, <2>2, <2>3 DEF Next, MainStep
<1>2. PICK q \in Seq(Messages) : q = output /\ q # <<>>
  BY <1>1 DEF Handle, FlowInv, TypeOK, Messages
<1>3. PICK m \in Messages : m = Head(q)
  BY <1>2, HeadTailProperties
<1>4. PICK c \in Conns : c = m[1]
  BY DEF Messages
<1>5. handled' = [handled EXCEPT ![c] = Append(@, m[2])]
  BY <1>1, <1>2, <1>3, <1>4 DEF Handle
<1>6. PICK a \in Nat, b \in Nat : Told(handled[c], a) /\ Run(q, c, a, b)
  BY <1>2 DEF FlowInv, InStream, Streamed, Upper
<1>7. Mentions(q, c)
  BY <1>2, <1>3, <1>4, QueueTail
<1>8. ~Over(handled[c])
  BY <1>2, <1>7 DEF FlowInv, Closing, Last
<1>9. ~Feed!Ended(c)
  BY <1>8, FeedOver
<1>10. Len(handled[c]) = a
  BY <1>6, <1>8, ToldOver
<1>11. m[2] # Shutdown => m[2] = a + 1
  BY <1>2, <1>3, <1>4, <1>6, RunTail
<1>12. CASE m[2] = Shutdown
  <2>1. Feed!End(c)
    BY <1>5, <1>9, <1>12 DEF Feed!End, Feed!Shutdown, Shutdown
  <2> QED
    BY <2>1 DEF Feed!Next
<1>13. CASE m[2] # Shutdown
  <2>1. Feed!Frame(c)
    BY <1>5, <1>9, <1>10, <1>11, <1>13 DEF Feed!Frame
  <2> QED
    BY <2>1 DEF Feed!Next
<1> QED
  BY <1>12, <1>13

\* The network layer implements what it promises the logic: whatever the peers
\* and the workers do, handlers see each connection's frames in order, none
\* twice, none skipped, and its Shutdown once, as the last.
THEOREM ImplementsFeed == Spec => FeedSpec
<1>1. Init => Feed!Init
  BY DEF Init, Feed!Init
<1> QED
  BY <1>1, FeedStep, FlowInvariant, PTL DEF Spec, FeedSpec, Feed!Spec
=============================================================================
