---------------------------- MODULE SecureSession -----------------------------
(***************************************************************************)
(* A secure-flash session: the loop of usb_secure_flash_loop with its      *)
(* NOKXFS payload handler around the StreamFlash context, a host that      *)
(* sends an image packet by packet and reads the replies, and the cache of *)
(* the target.                                                             *)
(*                                                                         *)
(* The header transfer is one step here (HeaderTransfer has it in full).   *)
(* The loop is a single thread that has one message in hand, and the host  *)
(* has one request outstanding; a reply can be lost, because the loop      *)
(* ignores what usb_transport_send returns.                                *)
(***************************************************************************)
EXTENDS StreamFlash

CONSTANTS
  HostImage,      \* the payload the host means to flash
  FaultSets       \* what may go wrong in a run: sets of FaultKinds

FaultKinds ==
  {"header", "malformed", "write", "lost reply", "abort", "flush", "give up", "power"}

VARIABLES
  dev,            \* "receive", "payload", "respond", "flush", "exited", "off"
  posted,         \* a request waits on the bulk OUT endpoint
  request,        \* the last request of the host
  reply,          \* the reply on its way to the host, or NoReply
  durable,        \* what the target holds if power is lost now
  host,           \* "ready", "waiting", "completed", "stopped"
  acked,          \* payload bytes the host has had acknowledged
  resent,         \* history: the host has sent something twice
  faults          \* the faults that may happen in this run

\* A reply has the low 16 bits of a status, and those of an error are not zero.
ASSUME SessionAssumption ==
  /\ HostImage \in Seq(Data)
  /\ Len(HostImage) = First(EntryCount)
  /\ \A st \in WriteErrors : status_from_efi(st) # 0
  /\ FaultSets \subseteq SUBSET FaultKinds

hostVars    == <<host, acked, resent, faults>>
sessionVars == <<vars, dev, posted, request, reply, durable, hostVars>>

NoRequest == [kind |-> "none"]
NoReply   == [status |-> -1]

SessionInit ==
  /\ Init
  /\ dev = "receive"
  /\ posted = FALSE
  /\ request = NoRequest
  /\ reply = NoReply
  /\ durable = disk
  /\ host = "ready"
  /\ acked = 0
  /\ resent = FALSE
  /\ faults \in FaultSets

-------------------------------------------------------------------------------
(* The host. *)

\* A payload request: what it carries, and whether its progress says 100.
Request(bytes, final) == [kind |-> "payload", data |-> bytes, progress100 |-> final]

Ask(r) ==
  /\ host = "ready"
  /\ host' = "waiting"
  /\ posted' = TRUE
  /\ request' = r
  /\ UNCHANGED <<vars, dev, reply, durable, acked, resent, faults>>

\* The next bytes of the image; the last may be marked as the last.
SendData ==
  \E n \in 1 .. Smaller(MaxPacket, Len(HostImage) - acked) :
    \E final \in {FALSE, acked + n = Len(HostImage)} :
      Ask(Request(SubSeq(HostImage, acked + 1, acked + n), final))

\* An empty packet ends the transfer.
SendFinal ==
  /\ acked = Len(HostImage)
  /\ Ask(Request(<<>>, TRUE))

\* A packet whose fields do not fit together.
SendMalformed ==
  /\ "malformed" \in faults
  /\ Ask([kind |-> "malformed"])

\* An error or silence: the host goes back to where it was acknowledged, or stops.
React ==
  \/ host' = "ready" /\ resent' = TRUE
  \/ "give up" \in faults /\ host' = "stopped" /\ UNCHANGED resent

\* ufp_parse_secure_payload_response: any status but 0 is an error; the bytes of
\* the request are acknowledged otherwise.
ReadReply ==
  /\ host = "waiting"
  /\ reply # NoReply
  /\ reply' = NoReply
  /\ IF reply.status # 0
       THEN React /\ UNCHANGED acked
       ELSE /\ acked' = acked + Len(request.data)
            /\ host' = IF request.progress100 THEN "completed" ELSE "ready"
            /\ UNCHANGED resent
  /\ UNCHANGED <<vars, dev, posted, request, durable, faults>>

Gone == dev \in {"exited", "off"}

\* No answer comes: it was lost, or the device is gone.
TimeOut ==
  /\ host = "waiting"
  /\ reply = NoReply
  /\ Gone \/ (dev = "receive" /\ ~posted)
  /\ IF Gone THEN host' = "stopped" /\ UNCHANGED resent ELSE React
  /\ UNCHANGED <<vars, dev, posted, request, reply, durable, acked, faults>>

HostStep == SendData \/ SendFinal \/ SendMalformed \/ ReadReply \/ TimeOut

-------------------------------------------------------------------------------
(* The device. *)

\* A header transfer ends (see HeaderTransfer): the context is ready, or not.  The loop
\* is only entered to commit (main.c:1516).
HeaderArrives ==
  /\ dev = "receive"
  /\ host = "ready"
  /\ \/ StreamInit(TRUE)
     \/ /\ "header" \in faults
        /\ \E st \in InitErrors : StreamInitFails(st)
  /\ UNCHANGED <<dev, posted, request, reply, durable, hostVars>>

\* usb_transport_send, whose result nobody looks at.
Send(r) == reply' = r \/ ("lost reply" \in faults /\ reply' = NoReply)

\* One of the checks on the packet fails: a short reply, and no more.
RefusePacket ==
  /\ dev = "receive"
  /\ posted
  /\ request.kind = "malformed"
  /\ posted' = FALSE
  /\ \E status \in {8, 14, 15, 16} :
       Send([status |-> status, final |-> 0, last_sector |-> 0])
  /\ UNCHANGED <<vars, dev, request, durable, hostVars>>

\* The bytes of the packet go to the context, if it is ready and there are any.
TakePacket ==
  /\ dev = "receive"
  /\ posted
  /\ request.kind = "payload"
  /\ posted' = FALSE
  /\ IF ready /\ request.data # <<>>
       THEN Payload(request.data) /\ dev' = "payload"
       ELSE UNCHANGED vars /\ dev' = "respond"
  /\ UNCHANGED <<request, reply, durable, hostVars>>

PayloadTurn ==
  /\ dev = "payload"
  /\ PayloadStep
  /\ WriteFails => "write" \in faults
  /\ dev' = IF phase' = "idle" THEN "respond" ELSE "payload"
  /\ UNCHANGED <<posted, request, reply, durable, hostVars>>

\* ffu_stream_flash_done on a context that is all zeros before init.
done_Inverted == IF ready THEN ~Done ELSE FALSE
done == IF ready THEN Done ELSE TRUE

\* The status before the progress is looked at.
ufp_status_NotReady == IF request.data = <<>> THEN 0 ELSE status_from_efi(result)
ufp_status_Ignored == IF ~ready THEN 6 ELSE 0
ufp_status ==
  IF ~ready THEN 6
  ELSE IF request.data = <<>> THEN 0 ELSE status_from_efi(result)

Answer ==
  [status |-> IF request.progress100 /\ ~done /\ ufp_status = 0 THEN 8 ELSE ufp_status,
   final |-> IF request.progress100 /\ done THEN 1 ELSE 0,
   last_sector |-> last_sector]

\* The reply goes out first; the loop ends on a final state without an error.
Respond ==
  /\ dev = "respond"
  /\ Send(Answer)
  /\ dev' = IF Answer.final = 1 /\ Answer.status = 0 THEN "flush" ELSE "receive"
  /\ UNCHANGED <<vars, posted, request, durable, hostVars>>

\* FlushBlocks, whose result nobody looks at either; then the app leaves.
Flush ==
  /\ dev = "flush"
  /\ \/ durable' = disk
     \/ "flush" \in faults /\ UNCHANGED durable
  /\ dev' = "exited"
  /\ UNCHANGED <<vars, posted, request, reply, hostVars>>

DeviceStep == RefusePacket \/ TakePacket \/ PayloadTurn \/ Respond \/ Flush

\* The loop ends on a failed receive, or when the host asks for a reboot; nothing
\* is flushed.
Leave ==
  /\ dev = "receive"
  /\ "abort" \in faults \/ host = "stopped"
  /\ dev' = "exited"
  /\ UNCHANGED <<vars, posted, request, reply, durable, hostVars>>

\* What was written since the last flush is on the target or not, block by block.
PowerLoss ==
  /\ "power" \in faults
  /\ dev # "off"
  /\ dev' = "off"
  /\ \E blocks \in SUBSET (0 .. LastBlock) :
       disk' = [a \in Address |->
                  IF a \div MediaBlock \in blocks THEN disk[a] ELSE durable[a]]
  /\ durable' = disk'
  /\ UNCHANGED <<ready, dry_run, entry_index, entry_received, entry_data, final_state,
                 last_sector, phase, packet, pos, loc, result, stream, posted,
                 request, reply, hostVars>>

SessionNext == HostStep \/ HeaderArrives \/ DeviceStep \/ Leave \/ PowerLoss

\* The loop polls, and the host reads its endpoint.
SessionFairness ==
  /\ WF_sessionVars(DeviceStep)
  /\ WF_sessionVars(ReadReply \/ TimeOut)

SessionSpec == SessionInit /\ [][SessionNext]_sessionVars /\ SessionFairness

-------------------------------------------------------------------------------

SessionTypeOK ==
  /\ TypeOK
  /\ dev \in {"receive", "payload", "respond", "flush", "exited", "off"}
  /\ dev # "off" => (dev = "payload" <=> phase # "idle")
  /\ posted \in BOOLEAN
  /\ reply # NoReply => reply.status \in Nat /\ reply.final \in {0, 1}
  /\ durable \in [Address -> Data]
  /\ host \in {"ready", "waiting", "completed", "stopped"}
  /\ acked \in 0 .. Len(HostImage)
  /\ resent \in BOOLEAN
  /\ faults \in FaultSets

ImageOnDisk ==
  \A s \in Slots : \A a \in Target(s[1], s[2]) :
    disk[a] = HostImage[First(s[1]) + (a - TargetByte(s[1], s[2])) + 1]

\* A host that is told of completion has its image on the target, wherever writes
\* failed, replies were lost and packets were sent again: a packet flashed twice
\* can delay or prevent completion but not fake it (main.c:1452-1478).
CompletedMeansImage ==
  dev # "off" /\ (host = "completed" \/ dev = "flush") => ImageOnDisk

\* No byte is acknowledged that the context has not taken, and until the host
\* repeats a packet the context has the image to its last byte in order
\* (main.c:1454-1459, ffu.c:872-874).
NothingLost ==
  /\ acked <= Len(stream)
  /\ ~resent => stream = SubSeq(HostImage, 1, Len(stream))

\* A final state in a reply without an error is said by a context that exists and
\* has the whole payload.  The zeroed context ahead of init calls itself done too
\* (0 of 0 entries): only the status 6 that goes with it tells (main.c:1452-1466).
FinalReplySound ==
  reply # NoReply /\ reply.status = 0 /\ reply.final = 1 => ready /\ Done

\* Every request ends for the host: answered, or given up.
RequestEnds == host = "waiting" ~> host # "waiting"

\* A host that goes on sending, and gets its header across some time.
WillingHost == SF_sessionVars(HeaderArrives) /\ WF_sessionVars(SendData \/ SendFinal)

\* When nothing fails a willing host gets its image flashed and the app leaves,
\* wherever it cuts the image into packets and however early it starts to send
\* (main.c:1452-1478).
SessionCompletes ==
  faults = {} /\ WillingHost =>
    <>[](host = "completed" /\ dev = "exited" /\ ImageOnDisk)

\* "Final state 1 means flashing completed" (README.md:121): a host that has read it
\* has its image on the target, and power can go.
CompletedMeansDurable ==
  dev = "off" /\ host = "completed" => ImageOnDisk

===============================================================================
