-------------------------- MODULE RtpSenderProofs ---------------------------
(***************************************************************************)
(* Proofs about sendMS for every packet size, word width, reserved counter *)
(* value and content of the uninitialised members: the bound on the send   *)
(* buffer while a media connection is held, and the integrity of the       *)
(* stream.                                                                 *)
(***************************************************************************)
EXTENDS RtpSender, SequenceTheorems, TLAPS

\* A packet and its header take between Header and FrameMax bytes.
LEMMA FrameLengthType ==
  ASSUME TypeOK, pc # "idle"
  PROVE  /\ FrameLength \in Nat
         /\ FrameLength <= FrameMax
         /\ FrameMax \in Nat
<1>1. pkt[1] \in Packets
  BY DEF TypeOK
<1>2. Size[pkt[1]] \in 0 .. MaxSize
  BY <1>1, RtpAssumption
<1>3. QED
  BY <1>2, RtpAssumption DEF FrameLength, FrameMax, Header

\* The counter stays in the range of its type and always moves.
LEMMA NextStampType ==
  ASSUME TypeOK
  PROVE  NextStamp \in 0 .. Word - 1 /\ NextStamp # cur
  BY RtpAssumption DEF TypeOK, NextStamp

\* The type invariant of RtpSender is preserved by every step.
LEMMA TypeStep == TypeOK /\ [Next]_vars => TypeOK'
<1> SUFFICES ASSUME TypeOK, [Next]_vars PROVE TypeOK'
  OBVIOUS
<1>1. CASE setMSAddr \/ RealPlay \/ startRealPlaySession \/ stopSession \/ disconnetMS
  BY <1>1 DEF TypeOK, setMSAddr, RealPlay, startRealPlaySession, stopSession,
              disconnetMS, streamVars
<1>2. ASSUME NEW p \in Packets, rtp_packet_callback(p)
      PROVE  TypeOK'
  <2>1. is_run' = is_run /\ media' = media
    BY <1>2 DEF rtp_packet_callback
  <2>2. <<p>> \in Seq(Packets) /\ <<p>> # <<>>
    OBVIOUS
  <2>3. CASE is_run
    <3>1. pc' = "fit" /\ pkt' = <<p>>
      BY <1>2, <2>3 DEF rtp_packet_callback
    <3>2. QED
      BY <1>2, <2>1, <2>2, <3>1 DEF TypeOK, rtp_packet_callback
  <2>4. CASE ~is_run
    <3>1. pc' = pc /\ pkt' = pkt
      BY <1>2, <2>4 DEF rtp_packet_callback
    <3>2. QED
      BY <1>2, <2>1, <3>1 DEF TypeOK, rtp_packet_callback
  <2>5. QED
    BY <2>3, <2>4
<1>3. CASE sendMS_fit
  BY <1>3 DEF TypeOK, sendMS_fit, sessionVars
<1>4. ASSUME NEW next \in {"stamp", "append"}, Flush(next), pc # "idle",
             UNCHANGED <<start, accepted, sessionVars>>, cur' = cur
      PROVE  TypeOK'
  <2>1. is_run' \in BOOLEAN /\ media' \in BOOLEAN
    BY <1>4 DEF TypeOK, Flush
  <2>2. CASE written' = written \o buf /\ len' = 0 /\ buf' = <<>> /\ pc' = next /\ pkt' = pkt
    <3>1. written' \in Seq(Packets) /\ buf' \in Seq(Packets)
      BY <2>2 DEF TypeOK
    <3>2. QED
      BY <1>4, <2>1, <2>2, <3>1 DEF TypeOK, sessionVars
  <2>3. CASE pc' = "idle" /\ pkt' = <<>> /\ UNCHANGED <<len, buf, written>>
    BY <1>4, <2>1, <2>3 DEF TypeOK, sessionVars
  <2>4. QED
    BY <1>4, <2>2, <2>3 DEF Flush
<1>5. CASE sendMS_flushFull
  BY <1>4, <1>5 DEF sendMS_flushFull
<1>6. CASE sendMS_stamp
  BY <1>6, NextStampType DEF TypeOK, sendMS_stamp, sessionVars
<1>7. CASE sendMS_flushFrame
  BY <1>4, <1>7 DEF sendMS_flushFrame
<1>8. CASE sendMS_append
  <2>1. len' \in Nat
    BY <1>8, FrameLengthType DEF sendMS_append, TypeOK
  <2>2. buf' \in Seq(Packets) /\ accepted' \in Seq(Packets)
    BY <1>8 DEF sendMS_append, TypeOK
  <2>3. QED
    BY <1>8, <2>1, <2>2 DEF TypeOK, sendMS_append, sessionVars
<1>9. CASE UNCHANGED vars
  BY <1>9 DEF TypeOK, vars
<1>10. QED
  BY <1>1, <1>2, <1>3, <1>5, <1>6, <1>7, <1>8, <1>9 DEF Next, sendMS

(***************************************************************************)
(* Type correctness of sendMS.                                             *)
(***************************************************************************)
THEOREM TypeCorrect == Spec => []TypeOK
<1>1. Init => TypeOK
  <2> SUFFICES ASSUME Init PROVE TypeOK
    OBVIOUS
  <2>1. is_run \in BOOLEAN /\ media \in BOOLEAN
    BY DEF Init
  <2>2. max \in 0 .. Word - 1 /\ start \in 0 .. Word - 1 /\ cur \in 0 .. Word - 1
    BY RtpAssumption DEF Init
  <2>3. QED
    BY <2>1, <2>2 DEF Init, TypeOK
<1>2. QED
  BY <1>1, TypeStep, PTL DEF Spec
-----------------------------------------------------------------------------
(***************************************************************************)
(* The inductive invariant behind the bound.  Between two packets a        *)
(* non-empty buffer carries the stamp of the last one.  The frame flush is *)
(* skipped only when that stamp is Flag; the buffer then holds one frame,  *)
(* and the stamp after Flag is not Flag, so it cannot be skipped twice.    *)
(***************************************************************************)
AtRest == len > 0 => start = cur /\ len <= (IF cur = Flag THEN FrameMax ELSE 2 * FrameMax)

BufferInv ==
  /\ phase = "new" => pc = "idle" /\ len = 0 /\ accepted = <<>>
  /\ media => /\ pc \in {"idle", "fit", "flushFull", "stamp"} => AtRest
              /\ pc = "flushFrame" => len <= 2 * FrameMax
              /\ pc = "append" => len = 0 \/ (len <= FrameMax /\ cur # Flag)

\* The bound is a natural number that grows with the frame.
LEMMA FrameMaxType == FrameMax \in Nat /\ FrameMax >= 4
  BY RtpAssumption DEF FrameMax, Header

\* One step preserves BufferInv.
LEMMA BufferStep == TypeOK /\ BufferInv /\ [Next]_vars => BufferInv'
<1> SUFFICES ASSUME TypeOK, BufferInv, [Next]_vars PROVE BufferInv'
  OBVIOUS
<1> USE FrameMaxType
<1>1. CASE setMSAddr
  <2>1. pc' = "idle" /\ len' = 0 /\ phase' = "connected"
    BY <1>1 DEF setMSAddr, streamVars, BufferInv
  <2>2. QED
    BY <2>1 DEF BufferInv, AtRest
<1>2. CASE RealPlay \/ startRealPlaySession \/ stopSession
  <2>1. media' = media /\ UNCHANGED streamVars /\ phase' # "new"
    BY <1>2 DEF RealPlay, startRealPlaySession, stopSession
  <2>2. QED
    BY <2>1 DEF BufferInv, AtRest, streamVars
<1>3. CASE disconnetMS
  <2>1. (media' => media) /\ UNCHANGED streamVars /\ phase' # "new"
    BY <1>3 DEF disconnetMS
  <2>2. QED
    BY <2>1 DEF BufferInv, AtRest, streamVars
<1>4. ASSUME NEW p \in Packets, rtp_packet_callback(p)
      PROVE  BufferInv'
  <2>1. /\ media' = media /\ pc = "idle" /\ pc' \in {"idle", "fit"}
        /\ UNCHANGED <<len, start, cur>> /\ phase' # "new"
    BY <1>4 DEF rtp_packet_callback
  <2>2. QED
    BY <2>1 DEF BufferInv, AtRest
<1>5. CASE sendMS_fit
  <2>1. /\ media' = media /\ pc = "fit" /\ pc' \in {"flushFull", "stamp"}
        /\ UNCHANGED <<len, start, cur, phase>>
    BY <1>5 DEF sendMS_fit, sessionVars
  <2>2. QED
    BY <2>1 DEF BufferInv, AtRest
<1>6. CASE sendMS_flushFull \/ sendMS_flushFrame
  <2>1. PICK next \in {"stamp", "append"} : Flush(next)
    BY <1>6 DEF sendMS_flushFull, sendMS_flushFrame
  <2>2. phase' = phase /\ pc # "idle"
    BY <1>6 DEF sendMS_flushFull, sendMS_flushFrame, sessionVars
  <2>3. phase' # "new"
    BY <2>2 DEF BufferInv
  <2>4. CASE len' = 0 /\ pc' = next
    BY <2>3, <2>4 DEF BufferInv, AtRest
  <2>5. CASE media' = FALSE
    BY <2>3, <2>5 DEF BufferInv
  <2>6. QED
    BY <2>1, <2>4, <2>5 DEF Flush
<1>7. CASE sendMS_stamp
  <2>1. /\ media' = media /\ pc = "stamp" /\ len' = len /\ start' = start
        /\ phase' = phase /\ cur' = NextStamp
    BY <1>7 DEF sendMS_stamp, sessionVars
  <2>2. phase' # "new"
    BY <2>1 DEF BufferInv
  <2>3. len \in Nat
    BY DEF TypeOK
  <2>4. CASE media /\ start # Flag /\ start # NextStamp /\ len > 0
    <3>1. pc' = "flushFrame"
      BY <1>7, <2>4 DEF sendMS_stamp
    <3>2. len <= 2 * FrameMax
      BY <2>1, <2>3, <2>4 DEF BufferInv, AtRest
    <3>3. QED
      BY <2>1, <2>2, <3>1, <3>2 DEF BufferInv
  <2>5. CASE ~(media /\ start # Flag /\ start # NextStamp /\ len > 0)
    <3>1. pc' = "append"
      BY <1>7, <2>5 DEF sendMS_stamp
    <3>2. ASSUME media, len # 0
          PROVE  len <= FrameMax /\ NextStamp # Flag
      <4>1. len > 0
        BY <2>3, <3>2
      <4>2. start = cur /\ len <= (IF cur = Flag THEN FrameMax ELSE 2 * FrameMax)
        BY <2>1, <3>2, <4>1 DEF BufferInv, AtRest
      <4>3. start = Flag
        BY <2>5, <3>2, <4>1, <4>2, NextStampType
      <4>4. QED
        BY <4>2, <4>3, NextStampType
    <3>3. QED
      BY <2>1, <2>2, <3>1, <3>2 DEF BufferInv
  <2>6. QED
    BY <2>4, <2>5
<1>8. CASE sendMS_append
  <2>1. /\ media' = media /\ pc = "append" /\ pc' = "idle" /\ phase' = phase
        /\ len' = len + FrameLength /\ start' = cur /\ cur' = cur
    BY <1>8 DEF sendMS_append, sessionVars
  <2>2. phase' # "new"
    BY <2>1 DEF BufferInv
  <2>3. FrameLength \in Nat /\ FrameLength <= FrameMax /\ len \in Nat
    BY <2>1, FrameLengthType DEF TypeOK
  <2>4. ASSUME media
        PROVE  AtRest'
    <3>1. len = 0 \/ (len <= FrameMax /\ cur # Flag)
      BY <2>1, <2>4 DEF BufferInv
    <3>2. QED
      BY <2>1, <2>3, <3>1 DEF AtRest
  <2>5. QED
    BY <2>1, <2>2, <2>4 DEF BufferInv
<1>9. CASE UNCHANGED vars
  BY <1>9 DEF vars, BufferInv, AtRest
<1>10. QED
  BY <1>1, <1>2, <1>3, <1>4, <1>5, <1>6, <1>7, <1>8, <1>9 DEF Next, sendMS

\* BufferInv is an invariant.
LEMMA BufferInvariant == Spec => []BufferInv
<1>1. Init => BufferInv
  BY DEF Init, BufferInv
<1>2. QED
  BY <1>1, BufferStep, TypeCorrect, PTL DEF Spec

(***************************************************************************)
(* The send buffer of a connected session holds at most two frames.        *)
(***************************************************************************)
THEOREM TwoFrames == Spec => []TwoFramesWhileConnected
<1>1. TypeOK /\ BufferInv => TwoFramesWhileConnected
  <2> SUFFICES ASSUME TypeOK, BufferInv, media PROVE len <= 2 * FrameMax
    BY DEF TwoFramesWhileConnected
  <2>1. len \in Nat
    BY DEF TypeOK
  <2>2. CASE pc \in {"idle", "fit", "flushFull", "stamp"}
    BY <2>1, <2>2, FrameMaxType DEF BufferInv, AtRest
  <2>3. CASE pc \in {"flushFrame", "append"}
    BY <2>1, <2>3, FrameMaxType DEF BufferInv
  <2>4. QED
    BY <2>2, <2>3 DEF TypeOK
<1>2. QED
  BY <1>1, TypeCorrect, BufferInvariant, PTL
-----------------------------------------------------------------------------
\* What Flush does to the stream: everything buffered is sent, or nothing is.
LEMMA FlushStream ==
  ASSUME TypeOK, NothingLostInBuffer, NEW next, Flush(next)
  PROVE  \/ media /\ media' = media /\ written' = accepted /\ buf' = <<>>
         \/ media' = FALSE /\ written' = written /\ buf' = buf
  BY DEF Flush, NothingLostInBuffer

\* One step preserves the integrity of the stream.
LEMMA IntegrityStep ==
  TypeOK /\ NothingLostInBuffer /\ [Next]_vars => NothingLostInBuffer'
<1> SUFFICES ASSUME TypeOK, NothingLostInBuffer, [Next]_vars
             PROVE  NothingLostInBuffer'
  OBVIOUS
<1>1. CASE UNCHANGED <<written, buf, accepted>>
  BY <1>1 DEF NothingLostInBuffer
<1>2. CASE setMSAddr \/ RealPlay \/ startRealPlaySession \/ stopSession \/ disconnetMS
  BY <1>1, <1>2 DEF setMSAddr, RealPlay, startRealPlaySession, stopSession,
                    disconnetMS, streamVars
<1>3. ASSUME NEW p \in Packets, rtp_packet_callback(p)
      PROVE  NothingLostInBuffer'
  BY <1>1, <1>3 DEF rtp_packet_callback
<1>4. CASE sendMS_fit \/ sendMS_stamp
  BY <1>1, <1>4 DEF sendMS_fit, sendMS_stamp
<1>5. CASE sendMS_flushFull \/ sendMS_flushFrame
  <2>1. PICK next \in {"stamp", "append"} : Flush(next)
    BY <1>5 DEF sendMS_flushFull, sendMS_flushFrame
  <2>2. accepted' = accepted /\ accepted \in Seq(Packets)
    BY <1>5 DEF sendMS_flushFull, sendMS_flushFrame, TypeOK
  <2>3. CASE written' = accepted /\ buf' = <<>>
    BY <2>2, <2>3, ConcatEmptySeq DEF NothingLostInBuffer
  <2>4. CASE written' = written /\ buf' = buf
    BY <2>2, <2>4 DEF NothingLostInBuffer
  <2>5. QED
    BY <2>1, <2>3, <2>4, FlushStream
<1>6. CASE sendMS_append
  <2>1. written \in Seq(Packets) /\ buf \in Seq(Packets) /\ pkt \in Seq(Packets)
    BY DEF TypeOK
  <2>2. (written \o buf) \o pkt = written \o (buf \o pkt)
    BY <2>1, ConcatAssociative
  <2>3. buf' = buf \o pkt /\ accepted' = accepted \o pkt /\ written' = written
    BY <1>6 DEF sendMS_append
  <2>4. QED
    BY <2>2, <2>3 DEF NothingLostInBuffer
<1>7. CASE UNCHANGED vars
  BY <1>1, <1>7 DEF vars
<1>8. QED
  BY <1>2, <1>3, <1>4, <1>5, <1>6, <1>7 DEF Next, sendMS

(***************************************************************************)
(* Sent and buffered packets together are the accepted ones, in order.     *)
(***************************************************************************)
THEOREM StreamIntegrity == Spec => []NothingLostInBuffer
<1>1. Init => NothingLostInBuffer
  BY DEF Init, NothingLostInBuffer
<1>2. QED
  BY <1>1, IntegrityStep, TypeCorrect, PTL DEF Spec

\* While sendMS works it has exactly one packet.
OnePacket == pc # "idle" => \E p \in Packets : pkt = <<p>>

\* OnePacket is an invariant.
LEMMA OnePacketInvariant == Spec => []OnePacket
<1>1. Init => OnePacket
  BY DEF Init, OnePacket
<1>2. OnePacket /\ [Next]_vars => OnePacket'
  <2> SUFFICES ASSUME OnePacket, [Next]_vars PROVE OnePacket'
    OBVIOUS
  <2>1. CASE setMSAddr \/ RealPlay \/ startRealPlaySession \/ stopSession \/ disconnetMS
    BY <2>1 DEF OnePacket, setMSAddr, RealPlay, startRealPlaySession, stopSession,
                disconnetMS, streamVars
  <2>2. ASSUME NEW p \in Packets, rtp_packet_callback(p)
        PROVE  OnePacket'
    BY <2>2 DEF OnePacket, rtp_packet_callback
  <2>3. CASE sendMS_fit \/ sendMS_stamp \/ sendMS_append
    BY <2>3 DEF OnePacket, sendMS_fit, sendMS_stamp, sendMS_append
  <2>4. CASE sendMS_flushFull \/ sendMS_flushFrame
    BY <2>4 DEF OnePacket, sendMS_flushFull, sendMS_flushFrame, Flush
  <2>5. CASE UNCHANGED vars
    BY <2>5 DEF OnePacket, vars
  <2>6. QED
    BY <2>1, <2>2, <2>3, <2>4, <2>5 DEF Next, sendMS
<1>3. QED
  BY <1>1, <1>2, PTL DEF Spec

\* Every step of sendMS and of the session is a step of RtpStream or none.
LEMMA StreamStep ==
  ASSUME TypeOK, BufferInv, NothingLostInBuffer, OnePacket, [Next]_vars
  PROVE  [Stream!Next]_(Stream!vars)
<1> USE DEF Stream!vars
<1>1. CASE UNCHANGED <<accepted, written, media>>
  BY <1>1
<1>2. CASE setMSAddr
  <2>1. accepted = <<>> /\ accepted' = accepted /\ written' = written /\ media' \in BOOLEAN
    BY <1>2 DEF setMSAddr, streamVars, BufferInv
  <2>2. CASE media' = media
    BY <2>1, <2>2
  <2>3. CASE media' = TRUE /\ media = FALSE
    BY <2>1, <2>3 DEF Stream!Next, Stream!Open
  <2>4. CASE media' = FALSE /\ media = TRUE
    BY <2>1, <2>4 DEF Stream!Next, Stream!Close
  <2>5. media \in BOOLEAN
    BY DEF TypeOK
  <2>6. media' = media \/ (media' = TRUE /\ media = FALSE) \/ (media' = FALSE /\ media = TRUE)
    BY <2>1, <2>5, Zenon
  <2>7. QED
    BY <2>2, <2>3, <2>4, <2>6
<1>3. CASE RealPlay \/ startRealPlaySession \/ stopSession
  BY <1>1, <1>3 DEF RealPlay, startRealPlaySession, stopSession, streamVars
<1>4. CASE disconnetMS
  <2>1. accepted' = accepted /\ written' = written /\ media' \in BOOLEAN /\ (media' => media)
    BY <1>4 DEF disconnetMS, streamVars
  <2>2. CASE media' = media
    BY <2>1, <2>2
  <2>3. CASE media' = FALSE /\ media = TRUE
    BY <2>1, <2>3 DEF Stream!Next, Stream!Close
  <2>4. media \in BOOLEAN
    BY DEF TypeOK
  <2>5. media' = media \/ (media' = FALSE /\ media = TRUE)
    <3>1. media' \in BOOLEAN /\ (media' => media)
      BY <2>1
    <3>2. CASE media' = TRUE
      <4>1. media = TRUE
        BY <2>4, <3>1, <3>2, Zenon
      <4>2. QED
        BY <3>2, <4>1, Zenon
    <3>3. CASE media' = FALSE
      BY <2>4, <3>3, Zenon
    <3>4. QED
      BY <3>1, <3>2, <3>3, Zenon
  <2>6. QED
    BY <2>2, <2>3, <2>5
<1>5. ASSUME NEW p \in Packets, rtp_packet_callback(p)
      PROVE  UNCHANGED <<accepted, written, media>>
  BY <1>5 DEF rtp_packet_callback
<1>6. CASE sendMS_fit \/ sendMS_stamp
  BY <1>1, <1>6 DEF sendMS_fit, sendMS_stamp
<1>7. CASE sendMS_flushFull \/ sendMS_flushFrame
  <2>1. PICK next \in {"stamp", "append"} : Flush(next)
    BY <1>7 DEF sendMS_flushFull, sendMS_flushFrame
  <2>2. accepted' = accepted
    BY <1>7 DEF sendMS_flushFull, sendMS_flushFrame
  <2>3. CASE media /\ media' = media /\ written' = accepted
    <3>1. written \in Seq(Packets) /\ buf \in Seq(Packets) /\ accepted \in Seq(Packets)
      BY DEF TypeOK
    <3>2. CASE buf = <<>>
      BY <2>2, <2>3, <3>1, <3>2, ConcatEmptySeq DEF NothingLostInBuffer
    <3>3. CASE buf # <<>>
      <4>1. Len(accepted) = Len(written) + Len(buf) /\ Len(buf) >= 1
        BY <3>1, <3>3, ConcatProperties DEF NothingLostInBuffer
      <4>2. Len(accepted) \in Len(written) + 1 .. Len(accepted)
        BY <3>1, <4>1
      <4>3. written' = SubSeq(accepted, 1, Len(accepted))
        BY <2>3, <3>1, SubSeqFull
      <4>4. QED
        BY <2>2, <2>3, <4>2, <4>3 DEF Stream!Next, Stream!Transmit
    <3>4. QED
      BY <3>2, <3>3
  <2>4. CASE media' = FALSE /\ written' = written
    <3>1. CASE media = FALSE
      BY <2>2, <2>4, <3>1
    <3>2. CASE media = TRUE
      BY <2>2, <2>4, <3>2 DEF Stream!Next, Stream!Close
    <3>3. QED
      BY <3>1, <3>2 DEF TypeOK
  <2>5. QED
    BY <2>1, <2>3, <2>4, FlushStream
<1>8. CASE sendMS_append
  <2>1. PICK p \in Packets : pkt = <<p>>
    BY <1>8 DEF sendMS_append, OnePacket
  <2>2. accepted' = Append(accepted, p)
    BY <1>8, <2>1, AppendIsConcat DEF sendMS_append, TypeOK
  <2>3. written' = written /\ media' = media
    BY <1>8 DEF sendMS_append
  <2>4. QED
    BY <2>2, <2>3 DEF Stream!Next, Stream!Accept
<1>9. CASE UNCHANGED vars
  BY <1>1, <1>9 DEF vars
<1>10. QED
  BY <1>1, <1>2, <1>3, <1>4, <1>5, <1>6, <1>7, <1>8, <1>9 DEF Next, sendMS

(***************************************************************************)
(* sendMS implements RtpStream: the media server receives a gapless prefix *)
(* of the accepted packets, and nothing once the connection is given up.   *)
(***************************************************************************)
THEOREM StreamRefinement == Spec => ImplementsRtpStream
<1>1. Init => Stream!Init
  BY DEF Init, Stream!Init
<1>2. QED
  BY <1>1, StreamStep, TypeCorrect, BufferInvariant, StreamIntegrity, OnePacketInvariant, PTL
     DEF Spec, ImplementsRtpStream, Stream!Spec
=============================================================================
