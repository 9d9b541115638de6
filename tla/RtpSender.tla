----------------------------- MODULE RtpSender ------------------------------
(***************************************************************************)
(* PlaySession::sendMS: RTP packets of one session are framed into the     *)
(* 64 KiB send buffer and the buffer is written to the media server when   *)
(* the next packet comes.  The threads: the handler that connects, starts  *)
(* and later stops the session, and the Dahua SDK thread that delivers the *)
(* stream.  _is_run, nMaxRtpSendVideoMediaBufferLength and                 *)
(* nStartVideoTimestamp are not initialised by the constructor.            *)
(***************************************************************************)
EXTENDS Naturals, Sequences

CONSTANTS Packets,      \* RTP packets, opaque
          Size,         \* [Packets -> Nat]: their lengths in bytes
          MaxSize,      \* the longest packet the packetiser emits
          Word,         \* 2^32: the range of uint32_t
          Flag,         \* GB28181VideoStartTimestampFlag
          Garbage,      \* what an uninitialised 32-bit member may hold
          MaxPackets    \* bound: packets the device delivers

Header == 4     \* '$', 0 and the 16-bit length in front of each packet

ASSUME RtpAssumption ==
  /\ MaxSize \in Nat
  /\ Size \in [Packets -> 0 .. MaxSize]
  /\ Word \in Nat /\ Word > 1
  /\ Flag \in 0 .. Word - 1
  /\ Garbage \subseteq 0 .. Word - 1
  /\ MaxPackets \in Nat

VARIABLES phase,     \* the handler: "new", "connected", "playing", "started",
                     \* "stopping", "stopped"
          is_run,    \* _is_run
          media,     \* nMediaClient # 0
          max,       \* nMaxRtpSendVideoMediaBufferLength
          len,       \* nSendRtpVideoMediaBufferLength
          buf,       \* the packets in szSendRtpVideoMediaBuffer
          start,     \* nStartVideoTimestamp
          cur,       \* nCurrentVideoTimestamp
          pc,        \* sendMS: "idle", "fit", "flushFull", "stamp", "flushFrame", "append"
          pkt,       \* its argument, <<>> or <<packet>>
          count,     \* packets delivered so far
          accepted,  \* history: the packets put into the buffer
          written    \* history: the packets written to the media server

vars == <<phase, is_run, media, max, len, buf, start, cur, pc, pkt, count, accepted, written>>
sessionVars == <<phase, max, count>>

TypeOK ==
  /\ phase \in {"new", "connected", "playing", "started", "stopping", "stopped"}
  /\ is_run \in BOOLEAN
  /\ media \in BOOLEAN
  /\ max \in 0 .. Word - 1
  /\ len \in Nat
  /\ buf \in Seq(Packets)
  /\ start \in 0 .. Word - 1
  /\ cur \in 0 .. Word - 1
  /\ pc \in {"idle", "fit", "flushFull", "stamp", "flushFrame", "append"}
  /\ pkt \in Seq(Packets)
  /\ pc # "idle" => pkt # <<>>
  /\ count \in Nat
  /\ accepted \in Seq(Packets)
  /\ written \in Seq(Packets)
-----------------------------------------------------------------------------
\* The constructor; what it leaves out keeps whatever the memory held.
Init ==
  /\ phase = "new"
  /\ is_run \in BOOLEAN
  /\ media = FALSE
  /\ max \in Garbage
  /\ len = 0
  /\ buf = <<>>
  /\ start \in Garbage
  /\ cur = 0
  /\ pc = "idle"
  /\ pkt = <<>>
  /\ count = 0
  /\ accepted = <<>>
  /\ written = <<>>

streamVars == <<len, buf, start, cur, pc, pkt, accepted, written>>

\* setMSAddr: the connection is made or not; the result is only logged.
setMSAddr ==
  /\ phase = "new"
  /\ \E ok \in BOOLEAN : media' = ok
  /\ phase' = "connected"
  /\ UNCHANGED <<is_run, max, count, streamVars>>

\* CLIENT_RealPlayByDataType returned a handle: the device delivers from now on.
RealPlay ==
  /\ phase = "connected"
  /\ phase' = "playing"
  /\ UNCHANGED <<is_run, media, max, count, streamVars>>

\* The assignment after the call.
startRealPlaySession ==
  /\ phase = "playing"
  /\ is_run' = TRUE
  /\ phase' = "started"
  /\ UNCHANGED <<media, max, count, streamVars>>

stopSession ==
  /\ phase = "started"
  /\ is_run' = FALSE
  /\ phase' = "stopping"
  /\ UNCHANGED <<media, max, count, streamVars>>

\* XHNetSDK_Disconnect succeeds or not; a failure keeps the handle.
disconnetMS ==
  /\ phase = "stopping"
  /\ \E ok \in BOOLEAN : media' = (media /\ ~ok)
  /\ phase' = "stopped"
  /\ UNCHANGED <<is_run, max, count, streamVars>>
-----------------------------------------------------------------------------
\* The packetiser's callback: dropped unless the session runs.
rtp_packet_callback(p) ==
  /\ phase \in {"playing", "started", "stopping", "stopped"}
  /\ pc = "idle"
  /\ count < MaxPackets
  /\ count' = count + 1
  /\ IF is_run THEN pc' = "fit" /\ pkt' = <<p>> ELSE UNCHANGED <<pc, pkt>>
  /\ UNCHANGED <<phase, is_run, media, max, len, buf, start, cur, accepted, written>>

FrameLength == Size[pkt[1]] + Header

\* int minus int, compared as unsigned with nDataLength + 4.
NoRoom == (max + Word - (len % Word)) % Word < FrameLength

\* "Not enough room left": is the buffer written before the packet is stored?
sendMS_fit ==
  /\ pc = "fit"
  /\ pc' = IF media /\ NoRoom /\ len > 0 THEN "flushFull" ELSE "stamp"
  /\ UNCHANGED <<is_run, media, len, buf, start, cur, pkt, accepted, written, sessionVars>>

\* Mutant: the buffer is written but the length is not reset.
Flush_NoReset(next) ==
  \/ /\ media
     /\ written' = written \o buf
     /\ pc' = next
     /\ UNCHANGED <<is_run, media, len, buf, pkt>>
  \/ /\ is_run' = FALSE
     /\ media' = FALSE
     /\ pc' = "idle"
     /\ pkt' = <<>>
     /\ UNCHANGED <<len, buf, written>>

(***************************************************************************)
(* XHNetSDK_Write of the whole buffer.  A failure (certain when the handle *)
(* has become 0 meanwhile) drops the packet, keeps the buffer, forgets the *)
(* connection and ends the sending.                                        *)
(***************************************************************************)
Flush(next) ==
  \/ /\ media
     /\ written' = written \o buf
     /\ len' = 0
     /\ buf' = <<>>
     /\ pc' = next
     /\ UNCHANGED <<is_run, media, pkt>>
  \/ /\ is_run' = FALSE
     /\ media' = FALSE
     /\ pc' = "idle"
     /\ pkt' = <<>>
     /\ UNCHANGED <<len, buf, written>>

sendMS_flushFull ==
  /\ pc = "flushFull"
  /\ Flush("stamp")
  /\ UNCHANGED <<start, cur, accepted, sessionVars>>

\* Mutant: the counter leaves the range of uint32_t.
NextStamp_NoWrap == cur + 1

\* nCurrentVideoTimestamp++ on a uint32_t.
NextStamp == IF cur = Word - 1 THEN 0 ELSE cur + 1

\* "A new frame": nCurrentVideoTimestamp counts packets, and wraps.
sendMS_stamp ==
  /\ pc = "stamp"
  /\ cur' = NextStamp
  /\ pc' = IF media /\ start # Flag /\ start # NextStamp /\ len > 0
           THEN "flushFrame" ELSE "append"
  /\ UNCHANGED <<is_run, media, len, buf, start, pkt, accepted, written, sessionVars>>

sendMS_flushFrame ==
  /\ pc = "flushFrame"
  /\ Flush("append")
  /\ UNCHANGED <<start, cur, accepted, sessionVars>>

\* The '$' frame is stored behind what the buffer holds, with no check.
sendMS_append ==
  /\ pc = "append"
  /\ len' = len + FrameLength
  /\ buf' = buf \o pkt
  /\ accepted' = accepted \o pkt
  /\ start' = cur
  /\ pc' = "idle"
  /\ pkt' = <<>>
  /\ UNCHANGED <<is_run, media, cur, written, sessionVars>>

sendMS == sendMS_fit \/ sendMS_flushFull \/ sendMS_stamp \/ sendMS_flushFrame \/ sendMS_append

Next ==
  \/ setMSAddr \/ RealPlay \/ startRealPlaySession \/ stopSession \/ disconnetMS
  \/ \E p \in Packets : rtp_packet_callback(p)
  \/ sendMS

Spec == Init /\ [][Next]_vars
-----------------------------------------------------------------------------
FrameMax == MaxSize + Header

(***************************************************************************)
(* As long as the session holds a media connection the buffer never holds  *)
(* more than two frames, whatever the uninitialised members contain, at    *)
(* the wrap of the counter and at its reserved value Flag, and with a      *)
(* stop in the middle of sendMS.                                           *)
(***************************************************************************)
TwoFramesWhileConnected == media => len <= 2 * FrameMax

(***************************************************************************)
(* What the media server received and what is still buffered are together  *)
(* what the session accepted: nothing is lost, doubled or reordered in     *)
(* sendMS, also around a failed write.                                     *)
(***************************************************************************)
NothingLostInBuffer == written \o buf = accepted

Stream == INSTANCE RtpStream WITH received <- written, open <- media

(***************************************************************************)
(* The media server sees a gapless prefix, and nothing after a failure.    *)
(***************************************************************************)
ImplementsRtpStream == Stream!Spec
=============================================================================
