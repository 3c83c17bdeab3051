------------------------------ MODULE StreamFlash ------------------------------
(***************************************************************************)
(* FFU_STREAM_FLASH: the flashing context that the USB loop feeds payload  *)
(* packets into.  A packet is copied, chunk by chunk, into the buffer of   *)
(* the current write entry; when the buffer holds the whole entry it is    *)
(* written to every location of the entry before the next chunk is taken.  *)
(* Any error leaves the call at once, with the context as it then is.      *)
(*                                                                         *)
(* One action per turn of the two loops, because a write can fail between  *)
(* any two turns.  The parsed header is the constant Plan: what re-parsing *)
(* or overwriting it does belongs to the header transfer.                  *)
(***************************************************************************)
EXTENDS UfpBase, Sequences

CONSTANTS
  Plan,           \* write entries: [first, byte_count, block_size, locations]
  EntryCapacity,  \* size of entry_data: the largest byte_count of the plan
  MediaBlock,     \* BlockIo Media->BlockSize
  LastBlock,      \* BlockIo Media->LastBlock
  Data, Zero,     \* payload bytes, and the one uefi_alloc fills memory with
  InitialDisks,   \* what the target may hold before
  WriteErrors,    \* errors WriteBlocks may return
  MaxPacket       \* UFP_MAX_PAYLOAD_DATA

Address    == 0 .. (LastBlock + 1) * MediaBlock - 1
EntryCount == Len(Plan)
Location   == [method : Nat, block : Nat]
WriteEntry == [first : Nat, byte_count : Nat \ {0}, block_size : Nat \ {0},
               locations : Seq(Location) \ {<<>>}]

\* The parser gives every entry at least one block and one location, and lays
\* the entries one after the other on the payload (rel_payload).
ASSUME PlanAssumption ==
  /\ Plan \in Seq(WriteEntry) \ {<<>>}
  /\ Plan[1].first = 0
  /\ \A i \in 1 .. Len(Plan) - 1 :
       Plan[i + 1].first = Plan[i].first + Plan[i].byte_count

\* ffu_stream_flash_init takes the maximum and refuses more than a packet.
ASSUME CapacityAssumption ==
  /\ EntryCapacity \in Nat
  /\ \A i \in 1 .. Len(Plan) : Plan[i].byte_count <= EntryCapacity
  /\ \E i \in 1 .. Len(Plan) : Plan[i].byte_count = EntryCapacity
  /\ MaxPacket \in Nat

ASSUME MediaAssumption ==
  /\ MediaBlock \in Nat \ {0}
  /\ LastBlock \in Nat
  /\ Zero \in Data
  /\ InitialDisks \subseteq [Address -> Data]
  /\ WriteErrors \subseteq {st \in EfiStatus : st.error}

VARIABLES
  ready,           \* flash_ready: init succeeded
  dry_run,         \* init was called without commit: nothing is written
  entry_index,     \* entries completed
  entry_received,  \* bytes of the current entry in the buffer
  entry_data,      \* the buffer
  final_state,
  last_sector,     \* last block of the last location written, reported to the host
  disk,            \* the target, by byte address
  phase,           \* "idle", or the loop ffu_stream_flash_payload is in
  packet, pos,     \* the packet of the call, and how much of it is consumed
  loc,             \* location stream_write_completed_entry is at
  result,          \* status returned by the last call
  stream           \* history: every payload byte copied so far

ctxVars  == <<ready, dry_run, entry_index, entry_received, entry_data,
              final_state, last_sector>>
callVars == <<phase, packet, pos, loc, result>>
vars     == <<ctxVars, callVars, disk, stream>>

NoSector == -1      \* 0xffffffff

\* Stream position where entry i starts, and where the payload ends.
First(i) ==
  IF i < EntryCount THEN Plan[i + 1].first
                    ELSE Plan[EntryCount].first + Plan[EntryCount].byte_count

TargetByte(i, l) == Plan[i + 1].locations[l + 1].block * Plan[i + 1].block_size
Target(i, l)     == TargetByte(i, l) .. TargetByte(i, l) + Plan[i + 1].byte_count - 1

EndSector_Count(i, l) ==
  TargetByte(i, l) \div MediaBlock + Plan[i + 1].byte_count \div MediaBlock
EndSector(i, l) ==
  TargetByte(i, l) \div MediaBlock + Plan[i + 1].byte_count \div MediaBlock - 1

\* stream_write_completed_entry refuses any other location.
Supported(i, l) ==
  /\ Plan[i + 1].locations[l + 1].method = 0
  /\ TargetByte(i, l) % MediaBlock = 0
  /\ Plan[i + 1].byte_count % MediaBlock = 0

InRange(i, l) == Target(i, l) \subseteq Address

entry    == Plan[entry_index + 1]
lastLoc  == Len(entry.locations) - 1
need     == entry.byte_count - entry_received

take_Unclamped == Len(packet) - pos
take     == Smaller(Len(packet) - pos, need)

\* The copied chunk completes the entry.  take is 0 when the entry was whole
\* already: its write failed in an earlier call.
EntryWhole_FreshOnly == take > 0 /\ entry_received + take = entry.byte_count
EntryWhole == entry_received + take = entry.byte_count

BufferAfterCopy_PacketStart ==
  [k \in 0 .. EntryCapacity - 1 |->
     IF k >= entry_received /\ k < entry_received + take
       THEN packet[(k - entry_received) + 1]
       ELSE entry_data[k]]
BufferAfterCopy ==
  [k \in 0 .. EntryCapacity - 1 |->
     IF k >= entry_received /\ k < entry_received + take
       THEN packet[pos + (k - entry_received) + 1]
       ELSE entry_data[k]]

\* The two early returns ahead of the copy.
ChunkRefused ==
  IF entry_index >= EntryCount THEN TRUE
                               ELSE entry_received + take > EntryCapacity

\* ffu_stream_flash_done
Done_LastEntry == entry_index + 1 >= EntryCount /\ entry_received = 0
Done == entry_index >= EntryCount /\ entry_received = 0

-------------------------------------------------------------------------------

Init ==
  /\ ready = FALSE
  /\ dry_run = FALSE
  /\ entry_index = 0
  /\ entry_received = 0
  /\ entry_data = [k \in 0 .. EntryCapacity - 1 |-> Zero]
  /\ final_state = 0
  /\ last_sector = 0
  /\ disk \in InitialDisks
  /\ phase = "idle"
  /\ packet = <<>>
  /\ pos = 0
  /\ loc = 0
  /\ result = EFI_SUCCESS
  /\ stream = <<>>

\* ffu_stream_flash_init on a header that parses.
StreamInit(commit) ==
  /\ ~ready
  /\ EntryCapacity <= MaxPacket
  /\ ready' = TRUE
  /\ dry_run' = ~commit
  /\ last_sector' = NoSector
  /\ result' = EFI_SUCCESS
  /\ UNCHANGED <<entry_index, entry_received, entry_data, final_state, disk,
                 phase, packet, pos, loc, stream>>

\* No media, no parse, an entry larger than a packet, no memory.
StreamInitFails(st) ==
  /\ ~ready
  /\ result' = st
  /\ UNCHANGED <<ctxVars, disk, phase, packet, pos, loc, stream>>

Return(st) ==
  /\ phase' = "idle"
  /\ packet' = <<>>
  /\ pos' = 0
  /\ loc' = 0
  /\ result' = st

\* ffu_stream_flash_payload is called, with at least one byte (main.c:1454-1455).
Payload(d) ==
  /\ ready
  /\ phase = "idle"
  /\ phase' = "copy"
  /\ packet' = d
  /\ pos' = 0
  /\ UNCHANGED <<ctxVars, loc, result, disk, stream>>

\* pos < len fails: the packet is used up.
Finish ==
  /\ phase = "copy"
  /\ pos = Len(packet)
  /\ final_state' = IF entry_index >= EntryCount THEN 1 ELSE final_state
  /\ Return(EFI_SUCCESS)
  /\ UNCHANGED <<ready, dry_run, entry_index, entry_received, entry_data,
                 last_sector, disk, stream>>

Overrun ==
  /\ phase = "copy"
  /\ pos < Len(packet)
  /\ ChunkRefused
  /\ Return(EFI_BAD_BUFFER_SIZE)
  /\ UNCHANGED <<ctxVars, disk, stream>>

CopyChunk ==
  /\ phase = "copy"
  /\ pos < Len(packet)
  /\ ~ChunkRefused
  /\ entry_data' = BufferAfterCopy
  /\ entry_received' = entry_received + take
  /\ pos' = pos + take
  /\ phase' = IF EntryWhole THEN "write" ELSE "copy"
  /\ loc' = 0
  /\ stream' = stream \o SubSeq(packet, pos + 1, pos + take)
  /\ UNCHANGED <<ready, dry_run, entry_index, final_state, last_sector, packet,
                 result, disk>>

\* A location that is refused before WriteBlocks is called.
Unsupported ==
  /\ phase = "write"
  /\ ~Supported(entry_index, loc)
  /\ Return(EFI_UNSUPPORTED)
  /\ UNCHANGED <<ctxVars, disk, stream>>

\* Back to the copy loop once the last location is written.
NextLocation_OneMore ==
  IF loc <= lastLoc
    THEN /\ loc' = loc + 1
         /\ UNCHANGED <<phase, entry_received, entry_index>>
    ELSE /\ loc' = 0
         /\ phase' = "copy"
         /\ entry_received' = 0
         /\ entry_index' = entry_index + 1
NextLocation_FirstOnly ==
  /\ loc' = 0
  /\ phase' = "copy"
  /\ entry_received' = 0
  /\ entry_index' = entry_index + 1
NextLocation ==
  IF loc < lastLoc
    THEN /\ loc' = loc + 1
         /\ UNCHANGED <<phase, entry_received, entry_index>>
    ELSE /\ loc' = 0
         /\ phase' = "copy"
         /\ entry_received' = 0
         /\ entry_index' = entry_index + 1

\* The target after the bytes of the buffer have reached the addresses in range.
Written(range) ==
  [a \in Address |-> IF a \in range
                       THEN entry_data[a - TargetByte(entry_index, loc)]
                       ELSE disk[a]]

WriteOk ==
  /\ phase = "write"
  /\ Supported(entry_index, loc)
  /\ IF dry_run THEN UNCHANGED disk
               ELSE /\ InRange(entry_index, loc)
                    /\ disk' = Written(Target(entry_index, loc))
  /\ last_sector' = EndSector(entry_index, loc)
  /\ NextLocation
  /\ UNCHANGED <<ready, dry_run, entry_data, final_state, packet, pos, result,
                 stream>>

\* WriteBlocks fails: nothing tells which of the blocks it has written; beyond
\* the last block of the target it writes none.
TornWrite ==
  IF InRange(entry_index, loc)
    THEN \E blocks \in SUBSET (0 .. LastBlock) :
           disk' = Written({a \in Target(entry_index, loc) :
                              a \div MediaBlock \in blocks})
    ELSE UNCHANGED disk

WriteFails_Ignored ==
  /\ phase = "write"
  /\ Supported(entry_index, loc)
  /\ ~dry_run
  /\ TornWrite
  /\ NextLocation
  /\ UNCHANGED <<ready, dry_run, entry_data, final_state, last_sector, packet, pos,
                 result, stream>>
WriteFails ==
  /\ phase = "write"
  /\ Supported(entry_index, loc)
  /\ ~dry_run
  /\ TornWrite
  /\ \E st \in WriteErrors : Return(st)
  /\ UNCHANGED <<ctxVars, stream>>

-------------------------------------------------------------------------------

Packets    == UNION {[1 .. n -> Data] : n \in 1 .. MaxPacket}
InitErrors == {EFI_UNSUPPORTED, EFI_OUT_OF_RESOURCES, EFI_VOLUME_CORRUPTED}

\* A turn of one of the loops.
PayloadStep ==
  Finish \/ Overrun \/ CopyChunk \/ Unsupported \/ WriteOk \/ WriteFails

Next ==
  \/ \E commit \in BOOLEAN : StreamInit(commit)
  \/ \E st \in InitErrors : StreamInitFails(st)
  \/ \E d \in Packets : Payload(d)
  \/ PayloadStep

Spec     == Init /\ [][Next]_vars
FairSpec == Spec /\ WF_vars(PayloadStep)

-------------------------------------------------------------------------------

TypeOK ==
  /\ ready \in BOOLEAN
  /\ dry_run \in BOOLEAN
  /\ entry_index \in 0 .. EntryCount
  /\ entry_received \in 0 .. EntryCapacity
  /\ entry_data \in [0 .. EntryCapacity - 1 -> Data]
  /\ final_state \in {0, 1}
  /\ last_sector \in Nat \cup {NoSector}
  /\ disk \in [Address -> Data]
  /\ phase \in {"idle", "copy", "write"}
  /\ packet \in Seq(Data)
  /\ pos \in 0 .. Len(packet)
  /\ loc \in Nat
  /\ phase = "write" => entry_index < EntryCount /\ loc <= lastLoc
  /\ result \in EfiStatus
  /\ stream \in Seq(Data)

\* The context is always at the right place of the payload: the entries
\* completed and the bytes buffered add up to the bytes copied, across packets
\* that end anywhere and entries whose write failed (ffu.c:857-876).
StreamPosition ==
  /\ Len(stream) = First(entry_index) + entry_received
  /\ entry_index = EntryCount => entry_received = 0
  /\ entry_index < EntryCount => entry_received <= entry.byte_count

\* The buffer holds exactly the bytes of the current entry that have arrived:
\* nothing of an earlier entry, and no byte of the packet at the wrong place
\* (ffu.c:867).
BufferIsStreamTail ==
  \A k \in 0 .. entry_received - 1 :
    entry_data[k] = stream[First(entry_index) + k + 1]

\* A location whose write was counted: of an entry that is complete, or ahead of
\* loc in the entry being written.
Flashed(i, l) ==
  \/ i < entry_index
  \/ i = entry_index /\ phase = "write" /\ l < loc

Slots == UNION {{i} \X (0 .. Len(Plan[i + 1].locations) - 1) :
                  i \in 0 .. EntryCount - 1}

TargetsDisjoint ==
  \A s, t \in Slots : s # t => Target(s[1], s[2]) \cap Target(t[1], t[2]) = {}

\* Location l of entry i holds the payload bytes of the entry.
HoldsPayload(i, l) ==
  /\ InRange(i, l)
  /\ \A a \in Target(i, l) :
       disk[a] = stream[First(i) + (a - TargetByte(i, l)) + 1]

\* Whatever failed before, the target holds, at every location counted as
\* written, the bytes of the payload that belong there; a failing or torn write
\* never spoils a location that was done (ffu.c:788-793).
FlashedSoFar ==
  ~dry_run /\ TargetsDisjoint =>
    \A s \in Slots : Flashed(s[1], s[2]) => HoldsPayload(s[1], s[2])

\* "Done" is said only when the payload is there to its last byte, and then it
\* stays said: no packet takes the context back (ffu.c:879, 885).
DoneIsFinal ==
  /\ Done => Len(stream) = First(EntryCount)
  /\ final_state = 1 => Done

\* last_sector, which every payload response reports, is the last block of a
\* location that was written, and is set as soon as an entry is complete
\* (ffu.c:794).
LastSectorSound ==
  ready =>
    /\ entry_index > 0 => last_sector # NoSector
    /\ last_sector # NoSector =>
         \E s \in Slots :
           /\ (last_sector + 1) * MediaBlock
                = TargetByte(s[1], s[2]) + Plan[s[1] + 1].byte_count
           /\ \/ s[1] + 1 = entry_index /\ s[2] = Len(Plan[entry_index].locations) - 1
              \/ Len(stream) = First(entry_index + 1) /\ s[1] = entry_index

\* No payload call loops for ever, whatever WriteBlocks answers (ffu.c:854).
PayloadReturns == phase # "idle" ~> phase = "idle"

-------------------------------------------------------------------------------

\* Seen from outside, the context writes the image; a dry run, like a context that
\* nothing has happened to, is not seen.
Image == INSTANCE ImageWriter WITH
           Plans <- {Plan},
           plan <- Plan,
           stream <- IF dry_run THEN <<>> ELSE stream,
           entry <- IF dry_run THEN 0 ELSE entry_index,
           location <- IF ~dry_run /\ phase = "write" THEN loc ELSE 0

\* Whatever the packets and the failures, what reaches the target is the image,
\* entry after entry, each only when all of it has arrived; and a dry run leaves
\* the target alone (ffu.c:788-793, 854-876).
WritesImage == Image!Spec

===============================================================================
