---------------------------- MODULE HeaderTransfer -----------------------------
(***************************************************************************)
(* The FFU header on its way to the device, in NOKXFS header packets V1    *)
(* (the whole header in one packet) and V2 (chunks appended at an internal *)
(* receive index, zero file offset to start over), up to the parse that    *)
(* makes the flashing context ready, and what further header packets do to *)
(* a context that is ready already.                                        *)
(*                                                                         *)
(* Each action is one turn of the device's loop: one header packet, from   *)
(* its checks to the reply.  The host is honest: it sends the bytes of its *)
(* headers in order, and starts over at offset zero whenever it wants to,  *)
(* at the latest after a reply that is not 0.                              *)
(***************************************************************************)
EXTENDS UfpBase, Sequences

CONSTANTS
  Headers,        \* the headers hosts may send, each a sequence of bytes
  MaxChunk,       \* UFP_MAX_HEADER_DATA
  CapUnit,        \* the buffer grows in steps of 1 MiB
  CapLimit,       \* and never beyond 128 MiB
  ResendInChunks  \* the host may repeat an accepted header chunk by chunk

ASSUME HeaderAssumption ==
  /\ Headers \subseteq Seq(Nat) \ {<<>>}
  /\ MaxChunk \in Nat \ {0}
  /\ CapUnit \in Nat \ {0}
  /\ CapLimit \in Nat
  /\ ResendInChunks \in BOOLEAN

VARIABLES
  buffer,              \* [header, header_size, header_cap] of usb_secure_flash_loop
  header_v2_received,  \* the receive index
  flash_ready,
  parsed,              \* history: the bytes ffu_stream_flash_init was last given
  aliased,             \* flash.header is the buffer, and not one freed since
  reply,               \* status of the last reply
  image, sent          \* the header the host is sending, bytes of it acknowledged

vars == <<buffer, header_v2_received, flash_ready, parsed, aliased, reply,
          image, sent>>

\* What uefi_alloc fills memory with.
ZeroByte == 0

\* No header buffer: all of it null.
NoBuffer == [header |-> <<>>, header_size |-> 0, header_cap |-> 0]

Init ==
  /\ buffer = NoBuffer
  /\ header_v2_received = 0
  /\ flash_ready = FALSE
  /\ parsed = <<>>
  /\ aliased = FALSE
  /\ reply = 0
  /\ image \in Headers
  /\ sent = 0

-------------------------------------------------------------------------------
(* Packets.  A packet is well formed here; PacketRefused is for the others. *)

\* total_len is the length of the whole header, as README.md:85 has it; the builder in
\* ufp_proto.c, which no host of this repository uses, states the end of the chunk.
Packet(v2, offset, h, bytes) ==
  [v2 |-> v2, file_offset |-> offset, of |-> h, bytes |-> bytes, total_len |-> Len(h)]

\* After a reply that accepted the whole header the host has no reason to send
\* another; it may repeat it.
Sendable == IF flash_ready THEN {parsed} ELSE Headers

V1Packets == {Packet(FALSE, 0, h, h) : h \in {h \in Sendable : Len(h) <= MaxChunk}}

ChunkLengths(h) ==
  IF flash_ready /\ ~ResendInChunks THEN {Len(h)} ELSE 1 .. Len(h)

FirstChunks ==
  UNION {{Packet(TRUE, 0, h, SubSeq(h, 1, n)) : n \in ChunkLengths(h) \cap 1 .. MaxChunk} :
         h \in Sendable}

NextChunks ==
  {Packet(TRUE, sent, image, SubSeq(image, sent + 1, sent + n)) :
     n \in {n \in 1 .. Smaller(MaxChunk, Len(image) - sent) : sent > 0}}

V2Packets == FirstChunks \cup NextChunks

\* A new transfer, on a context that is not ready, drops the buffer.
StartsOver(p) == p.v2 /\ p.file_offset = 0

Base_KeepsSize(p) ==
  IF StartsOver(p) /\ ~flash_ready
    THEN [NoBuffer EXCEPT !.header_size = buffer.header_size] ELSE buffer
Base_KeepsCap(p) ==
  IF StartsOver(p) /\ ~flash_ready
    THEN [NoBuffer EXCEPT !.header_cap = buffer.header_cap] ELSE buffer
Base_Stale(p)       == buffer
Base_AlwaysDrops(p) == IF StartsOver(p) THEN NoBuffer ELSE buffer
Base(p) == IF StartsOver(p) /\ ~flash_ready THEN NoBuffer ELSE buffer

\* Where the bytes go: copy_offset.
copy_offset_NoReset(p) == IF p.v2 THEN header_v2_received ELSE 0
copy_offset(p) == IF p.v2 /\ ~StartsOver(p) THEN header_v2_received ELSE 0

need(p) == copy_offset(p) + Len(p.bytes)

Fits(p) == Larger(need(p), p.total_len) <= Base(p).header_cap

new_cap(p) == align_up(Larger(need(p), p.total_len), CapUnit)

\* The buffer with room for the packet: the old bytes, then zeros.
Roomy(p) ==
  IF Fits(p) THEN Base(p)
  ELSE [header |-> [k \in 1 .. new_cap(p) |->
                      IF k <= Base(p).header_size THEN Base(p).header[k] ELSE ZeroByte],
        header_size |-> Base(p).header_size,
        header_cap |-> new_cap(p)]

\* The buffer after the copy.
Stored(p) ==
  LET b == Roomy(p)
  IN  [header |-> [k \in DOMAIN b.header |->
                     IF k > copy_offset(p) /\ k <= need(p)
                       THEN p.bytes[k - copy_offset(p)] ELSE b.header[k]],
       header_size |-> Larger(b.header_size, need(p)),
       header_cap |-> b.header_cap]

\* The receive index counts more than the header is said to have: checked before
\* a zero offset is looked at.
Overrun(p) == p.v2 /\ header_v2_received + Len(p.bytes) > p.total_len

Packets == V1Packets \cup V2Packets

\* The host reads the reply: it goes on, is through, or has to start over.
HostReads(p, status) ==
  /\ reply' = status
  /\ image' = p.of
  /\ sent' = IF status = 0 /\ p.v2 /\ p.file_offset + Len(p.bytes) < Len(p.of)
               THEN p.file_offset + Len(p.bytes) ELSE 0

-------------------------------------------------------------------------------
(* The device. *)

\* Length, option or protocol fields are wrong: nothing changes.  A V1 packet
\* that gets past its length check has reset the receive index by then.
PacketRefused ==
  /\ reply' \in {8, 15, 16}
  /\ header_v2_received' \in {header_v2_received, 0}
  /\ sent' = 0
  /\ UNCHANGED <<buffer, flash_ready, parsed, aliased, image>>

\* A chunk from the middle of a transfer this device knows nothing of.
StrayChunkRefused ==
  /\ buffer = NoBuffer
  /\ reply' = 8
  /\ sent' = 0
  /\ UNCHANGED <<buffer, header_v2_received, flash_ready, parsed, aliased, image>>

ChunkRefused(p) ==
  /\ Overrun(p)
  /\ HostReads(p, 16)
  /\ UNCHANGED <<buffer, header_v2_received, flash_ready, parsed, aliased>>

\* The buffer would pass its limit (status 4), or memory is short (status 1): the
\* old buffer is gone if the packet started over.
NotStored(p, status) ==
  /\ ~Overrun(p)
  /\ ~Fits(p)
  /\ buffer' = Base(p)
  /\ header_v2_received' = copy_offset(p)
  /\ HostReads(p, status)
  /\ UNCHANGED <<flash_ready, parsed, aliased>>

HeaderTooLarge(p) == new_cap(p) > CapLimit /\ NotStored(p, 4)

NoMemory(p) == new_cap(p) <= CapLimit /\ NotStored(p, 1)

\* The bytes are in the buffer.  A larger buffer is a new one, and the old is freed.
Store(p) ==
  /\ ~Overrun(p)
  /\ Fits(p) \/ new_cap(p) <= CapLimit
  /\ buffer' = Stored(p)

Complete(p) == Stored(p).header_size >= p.total_len

\* More to come.
StorePart(p) ==
  /\ Store(p)
  /\ ~Complete(p)
  /\ header_v2_received' = need(p)
  /\ aliased' = (aliased /\ Fits(p))
  /\ HostReads(p, 0)
  /\ UNCHANGED <<flash_ready, parsed>>

\* Complete, and the context has been ready before: acknowledged as it is.
StoreAgain(p) ==
  /\ Store(p)
  /\ Complete(p)
  /\ flash_ready
  /\ header_v2_received' = 0
  /\ aliased' = (aliased /\ Fits(p))
  /\ HostReads(p, 0)
  /\ UNCHANGED <<flash_ready, parsed>>

Given(p) == [k \in 1 .. p.total_len |-> Stored(p).header[k]]

\* Complete: ffu_stream_flash_init parses it, in place.
ParseHeader(p) ==
  /\ Store(p)
  /\ Complete(p)
  /\ ~flash_ready
  /\ parsed' = Given(p)
  /\ header_v2_received' = 0

HeaderAccepted(p) ==
  /\ ParseHeader(p)
  /\ parsed' \in Headers
  /\ flash_ready' = TRUE
  /\ aliased' = TRUE
  /\ HostReads(p, 0)

\* Not a header, no memory or no usable medium; the buffer keeps the bytes and
\* their count.
HeaderRejected(p) ==
  /\ ParseHeader(p)
  /\ UNCHANGED <<flash_ready, aliased>>
  /\ \E st \in {EFI_VOLUME_CORRUPTED, EFI_UNSUPPORTED, EFI_OUT_OF_RESOURCES} :
       HostReads(p, status_from_efi(st))

HandlePacket(p) ==
  \/ ChunkRefused(p)
  \/ HeaderTooLarge(p)
  \/ NoMemory(p)
  \/ StorePart(p)
  \/ StoreAgain(p)
  \/ HeaderAccepted(p)
  \/ HeaderRejected(p)

Next ==
  \/ PacketRefused
  \/ StrayChunkRefused
  \/ \E p \in Packets : HandlePacket(p)

Spec == Init /\ [][Next]_vars

-------------------------------------------------------------------------------

TypeOK ==
  /\ buffer \in [header : Seq(Nat), header_size : Nat, header_cap : Nat]
  /\ Len(buffer.header) = buffer.header_cap
  /\ header_v2_received \in Nat
  /\ flash_ready \in BOOLEAN
  /\ aliased \in BOOLEAN
  /\ reply \in Nat
  /\ image \in Headers
  /\ sent \in 0 .. Len(image) - 1

\* The receive index, the size and the capacity never drift apart, though a
\* transfer may be cut off, refused, restarted or short of memory at any packet:
\* the next copy always lands inside the buffer (main.c:1320-1376).
BufferBounds ==
  /\ header_v2_received <= buffer.header_size
  /\ buffer.header_size <= buffer.header_cap
  /\ buffer.header_cap <= CapLimit
  /\ buffer.header_cap = 0 => buffer = NoBuffer

\* Host and device agree on the place: whatever went wrong before, the bytes the
\* host has had acknowledged are the bytes the device has appended
\* (main.c:1288, 1368-1375).
PlaceAgreed ==
  sent > 0 /\ ~flash_ready =>
    /\ header_v2_received = sent
    /\ \A k \in 1 .. sent : buffer.header[k] = image[k]

\* The parser is never given anything but one whole header: no stale length, no
\* bytes of an earlier attempt (main.c:1322-1327, 1377-1382).
ParsedIsAHeader == parsed # <<>> => parsed \in Headers

\* The context reads its locations from the header buffer for as long as it
\* flashes: they stay the ones that were parsed (main.c:1360-1366; ffu.c:776).
PlanStays ==
  flash_ready =>
    /\ aliased /\ Len(parsed) <= buffer.header_cap
    /\ \A k \in 1 .. Len(parsed) : buffer.header[k] = parsed[k]

\* "The recovered Header V2 receiver appends chunks at an internal receive index"
\* (README.md:92): also when the host repeats, in order, a header that was
\* accepted before, the bytes acknowledged so far are where they belong.
ResendIsAppended ==
  sent > 0 => \A k \in 1 .. sent : buffer.header[k] = image[k]

\* "A zero file offset starts a new header transfer" (README.md:92): a first chunk
\* no longer than its header is not refused for the chunks of an earlier attempt.
RestartAccepted ==
  \A p \in V2Packets : p.file_offset = 0 => ~Overrun(p)

===============================================================================
