----------------------------- MODULE SectorFlash ------------------------------
(***************************************************************************)
(* Writing sectors directly: async flash (NOKXFF: start, write, end), in   *)
(* which a write is answered with the result of the one before it and      *)
(* carried out only then, and legacy flash (NOKF), answered afterwards.    *)
(* Both write to the same target and neither flushes it.                   *)
(*                                                                         *)
(* The host sends one message at a time.  It trusts a sequence from start  *)
(* to end in which no reply was lost or reported an error.                 *)
(***************************************************************************)
EXTENDS UfpBase

CONSTANTS
  LastBlock,     \* BlockIo Media->LastBlock
  Commit,        \* --commit was given
  Data, Zero,    \* what a sector may hold, and what it holds at first
  MaxCount,      \* sectors of a message
  WriteErrors    \* errors WriteBlocks may return

ASSUME SectorAssumption ==
  /\ LastBlock \in Nat
  /\ Commit \in BOOLEAN
  /\ Zero \in Data
  /\ MaxCount \in Nat
  /\ \A st \in WriteErrors : st \in EfiStatus /\ st.error /\ status_from_efi(st) # 0

VARIABLES
  disk,
  async_write_status, async_last_sector, async_ufp_status,
  dev,         \* "receive", or "write": an async write answered, not yet done
  message,     \* the message in hand
  reply,       \* the reply to it, or NoReply
  waiting,     \* the host waits for a reply
  trust,       \* the host has seen start accepted, and nothing wrong since
  expected,    \* what the host has sent since start: sector -> data
  verdict      \* the host's conclusion from the last reply: "none", "written"

asyncVars == <<async_write_status, async_last_sector, async_ufp_status>>
hostVars  == <<waiting, trust, expected, verdict>>
vars      == <<disk, asyncVars, dev, message, reply, hostVars>>

NoSector == -1     \* 0xffffffff
Sectors  == 0 .. LastBlock
Nothing  == <<>>   \* the function of no sector

NoReply   == [kind |-> "none"]
NoMessage == [kind |-> "none"]

Init ==
  /\ disk = [b \in Sectors |-> Zero]
  /\ async_write_status = 0
  /\ async_last_sector = NoSector
  /\ async_ufp_status = 0
  /\ dev = "receive"
  /\ message = NoMessage
  /\ reply = NoReply
  /\ waiting = FALSE
  /\ trust = FALSE
  /\ expected = Nothing
  /\ verdict = "none"

-------------------------------------------------------------------------------
(* Messages. *)

\* skip: byte 25 is 1; short: fewer bytes follow than the count announces.
\* A legacy message can be short without a sector, when it ends in its own header.
Writes(kind) ==
  {m \in [kind : {kind}, start : 0 .. LastBlock + 1, count : 0 .. MaxCount,
          data : Data, skip : BOOLEAN, short : BOOLEAN] :
     m.short => m.count > 0 \/ kind = "legacy"}

Range(m) == m.start .. m.start + m.count - 1

\* The checks ahead of WriteBlocks.  (The 64-bit product of two 32-bit numbers
\* cannot overflow: the check for that never fires.)
Invalid_PastEnd(m) == m.short \/ (m.count > 0 /\ m.start > LastBlock)
Invalid(m) == m.short \/ (m.count > 0 /\ m.start + m.count - 1 > LastBlock)

\* WriteBlocks succeeds, or fails and has written any part.
Written(m) == [b \in Sectors |-> IF b \in Range(m) THEN m.data ELSE disk[b]]

Torn(m) ==
  \E part \in SUBSET Range(m) :
    disk' = [b \in Sectors |-> IF b \in part THEN m.data ELSE disk[b]]

-------------------------------------------------------------------------------
(* The device. *)

\* ufp_build_async_write_status and ufp_build_async_end_response.
AsyncReply(kind) ==
  [kind |-> kind, write_status |-> async_write_status,
   last_sector |-> async_last_sector, ufp_status |-> async_ufp_status]

\* The reply is sent whatever becomes of it; the host may never see it.
Send(r) == reply' \in {r, NoReply}

ResetStatus ==
  /\ async_write_status' = 0
  /\ async_last_sector' = NoSector
  /\ async_ufp_status' = 0

AsyncStart ==
  /\ dev = "receive"
  /\ message.kind = "start"
  /\ IF message.valid
       THEN ResetStatus /\ Send([kind |-> "start", ufp_status |-> 0])
       ELSE UNCHANGED asyncVars /\ Send([kind |-> "start", ufp_status |-> 8])
  /\ message' = NoMessage
  /\ UNCHANGED <<disk, dev, hostVars>>

\* The write message is answered with what the last one left.
AsyncAnswer ==
  /\ dev = "receive"
  /\ message.kind = "write"
  /\ Send(AsyncReply("write"))
  /\ dev' = "write"
  /\ UNCHANGED <<disk, asyncVars, message, hostVars>>

Reject ==
  /\ async_write_status' = 0
  /\ async_ufp_status' = 8
  /\ UNCHANGED <<disk, async_last_sector>>

\* Also a dry run counts the sectors.
Accept ==
  /\ disk' = IF Commit THEN Written(message) ELSE disk
  /\ async_write_status' = 0
  /\ async_ufp_status' = 0
  /\ async_last_sector' = IF message.count > 0 THEN message.start + message.count - 1
                                               ELSE async_last_sector

Fail_StatusKept ==
  /\ Commit /\ message.count > 0
  /\ Torn(message)
  /\ UNCHANGED asyncVars
Fail ==
  /\ Commit /\ message.count > 0
  /\ Torn(message)
  /\ \E st \in WriteErrors :
       async_write_status' = st.code /\ async_ufp_status' = status_from_efi(st)
  /\ UNCHANGED async_last_sector

\* And then carried out, unless it says skip.
AsyncWrite ==
  /\ dev = "write"
  /\ IF message.skip THEN UNCHANGED <<disk, asyncVars>>
     ELSE IF Invalid(message) THEN Reject
     ELSE Accept \/ Fail
  /\ dev' = "receive"
  /\ message' = NoMessage
  /\ UNCHANGED <<reply, hostVars>>

AsyncEnd ==
  /\ dev = "receive"
  /\ message.kind = "end"
  /\ Send(AsyncReply("end"))
  /\ ResetStatus
  /\ message' = NoMessage
  /\ UNCHANGED <<disk, dev, hostVars>>

\* send_unknown_response.
Unknown ==
  /\ dev = "receive"
  /\ message.kind = "other"
  /\ Send([kind |-> "unknown", ufp_status |-> 0])
  /\ message' = NoMessage
  /\ UNCHANGED <<disk, asyncVars, dev, hostVars>>

\* handle_legacy_flash: the reply tells of this write.
LegacyReply(status) == [kind |-> "legacy", ufp_status |-> status]

LegacyFlash ==
  /\ dev = "receive"
  /\ message.kind = "legacy"
  /\ IF message.skip THEN UNCHANGED disk /\ Send(LegacyReply(0))
     ELSE IF Invalid(message) THEN UNCHANGED disk /\ Send(LegacyReply(8))
     ELSE \/ /\ disk' = IF Commit THEN Written(message) ELSE disk
             /\ Send(LegacyReply(0))
          \/ /\ Commit /\ message.count > 0
             /\ Torn(message)
             /\ \E st \in WriteErrors : Send(LegacyReply(status_from_efi(st)))
  /\ message' = NoMessage
  /\ UNCHANGED <<asyncVars, dev, hostVars>>

-------------------------------------------------------------------------------
(* The host. *)

\* What a write adds to what the host expects of the target.
Also(m) ==
  IF m.skip THEN expected
  ELSE [b \in DOMAIN expected \cup Range(m) |->
          IF b \in Range(m) THEN m.data ELSE expected[b]]

Ask(m) ==
  /\ ~waiting
  /\ message = NoMessage
  /\ message' = m
  /\ waiting' = TRUE
  /\ verdict' = "none"
  /\ UNCHANGED <<disk, asyncVars, dev, reply>>

\* What it sends in a trusted sequence it expects on the target at the end; a
\* message of another kind in between ends the trust.
AskStart ==
  \E valid \in BOOLEAN :
    /\ Ask([kind |-> "start", valid |-> valid])
    /\ trust' = FALSE
    /\ expected' = Nothing

AskWrite ==
  \E m \in Writes("write") :
    /\ Ask(m)
    /\ expected' = Also(m)
    /\ UNCHANGED trust

AskEnd == Ask([kind |-> "end"]) /\ UNCHANGED <<trust, expected>>

AskLegacy ==
  \E m \in Writes("legacy") :
    /\ Ask(m)
    /\ trust' = FALSE
    /\ expected' = IF m.skip THEN Nothing ELSE [b \in Range(m) |-> m.data]

\* Neither a start, nor an end, nor a write of 64 bytes and more.
AskOther == Ask([kind |-> "other"]) /\ UNCHANGED <<trust, expected>>

\* A reply without an error: start begins the trust, the end or the reply of a
\* legacy write is the word that everything is written.
HostReads ==
  /\ waiting
  /\ reply # NoReply
  /\ waiting' = FALSE
  /\ reply' = NoReply
  /\ trust' = (reply.ufp_status = 0
                 /\ (reply.kind = "start" \/ (reply.kind = "write" /\ trust)))
  /\ verdict' = IF reply.ufp_status = 0
                     /\ (reply.kind = "legacy" \/ (reply.kind = "end" /\ trust))
                  THEN "written" ELSE "none"
  /\ UNCHANGED <<disk, asyncVars, dev, message, expected>>

HostTimesOut ==
  /\ waiting
  /\ reply = NoReply
  /\ message = NoMessage
  /\ waiting' = FALSE
  /\ trust' = FALSE
  /\ UNCHANGED <<disk, asyncVars, dev, message, reply, expected, verdict>>

Next ==
  \/ AskStart \/ AskWrite \/ AskEnd \/ AskLegacy \/ AskOther \/ HostReads \/ HostTimesOut
  \/ AsyncStart \/ AsyncAnswer \/ AsyncWrite \/ AsyncEnd \/ Unknown \/ LegacyFlash

Spec == Init /\ [][Next]_vars

-------------------------------------------------------------------------------

TypeOK ==
  /\ disk \in [Sectors -> Data]
  /\ async_write_status \in Nat
  /\ async_last_sector \in Sectors \cup {NoSector}
  /\ async_ufp_status \in Nat
  /\ dev \in {"receive", "write"}
  /\ waiting \in BOOLEAN
  /\ trust \in BOOLEAN
  /\ verdict \in {"none", "written"}

\* Although every write is answered before it happens, a host that sees no error up
\* to the reply of the end, or in the reply of a legacy write, has all its sectors
\* written: no failure slips between two replies (main.c:1178-1214, 835-868).
WrittenMeansWritten ==
  verdict = "written" /\ Commit =>
    \A b \in DOMAIN expected : b \in Sectors /\ disk[b] = expected[b]

===============================================================================
