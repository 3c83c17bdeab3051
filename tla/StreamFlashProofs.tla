-------------------------- MODULE StreamFlashProofs ---------------------------
(***************************************************************************)
(* Theorems about StreamFlash, for every plan, target, packet size and set *)
(* of write errors.                                                        *)
(*                                                                         *)
(* The inductive invariant IInv joins the type invariant with the place in *)
(* the payload (StreamPosition), the contents of the buffer                *)
(* (BufferIsStreamTail) and what the phase says of both: a write starts    *)
(* only when the buffer holds the whole entry.                             *)
(***************************************************************************)
EXTENDS StreamFlash, SequenceTheorems, TLAPS

-------------------------------------------------------------------------------
(* The plan. *)

\* Every entry of the plan is a write entry that fits the buffer, its locations
\* are numbered from 0, and the next one starts where it ends.
LEMMA EntryFacts ==
  ASSUME NEW i \in 0 .. EntryCount - 1
  PROVE  /\ Plan[i + 1] \in WriteEntry
         /\ Plan[i + 1].byte_count \in Nat \ {0}
         /\ Plan[i + 1].byte_count <= EntryCapacity
         /\ Len(Plan[i + 1].locations) \in Nat \ {0}
         /\ First(i) \in Nat
         /\ First(i + 1) = First(i) + Plan[i + 1].byte_count
<1>1. Len(Plan) \in Nat \ {0} /\ Plan[i + 1] \in WriteEntry
  BY PlanAssumption, EmptySeq, ElementOfSeq DEF EntryCount
<1>2. Plan[i + 1].byte_count <= EntryCapacity
  BY <1>1, CapacityAssumption DEF EntryCount
<1>3. /\ Plan[i + 1].byte_count \in Nat \ {0}
      /\ Plan[i + 1].first \in Nat
      /\ Plan[i + 1].locations \in Seq(Location) \ {<<>>}
  BY <1>1 DEF WriteEntry
<1>4. Len(Plan[i + 1].locations) \in Nat \ {0}
  BY <1>3, EmptySeq
<1>5. First(i + 1) = First(i) + Plan[i + 1].byte_count
  <2>1. CASE i + 1 < EntryCount
    BY <2>1, <1>1, PlanAssumption DEF First, EntryCount
  <2>2. CASE i + 1 = EntryCount
    BY <2>2, <1>1 DEF First, EntryCount
  <2> QED BY <2>1, <2>2, <1>1 DEF EntryCount
<1>6. First(i) \in Nat
  BY <1>1, <1>3 DEF First, EntryCount
<1> QED BY <1>1, <1>2, <1>3, <1>4, <1>5, <1>6

LEMMA PlanFacts ==
  /\ EntryCount \in Nat \ {0}
  /\ First(0) = 0
  /\ First(EntryCount) \in Nat
<1>1. EntryCount \in Nat \ {0}
  BY PlanAssumption, EmptySeq DEF EntryCount
<1>2. First(0) = 0
  BY <1>1, PlanAssumption DEF First
<1>3. First(EntryCount) \in Nat
  <2> DEFINE last == EntryCount - 1
  <2>1. last \in 0 .. EntryCount - 1 /\ last + 1 = EntryCount
    BY <1>1
  <2>2. First(last + 1) = First(last) + Plan[last + 1].byte_count
    BY <2>1, EntryFacts
  <2>3. First(last) \in Nat /\ Plan[last + 1].byte_count \in Nat
    BY <2>1, EntryFacts
  <2> HIDE DEF last
  <2> QED BY <2>1, <2>2, <2>3
<1> QED BY <1>1, <1>2, <1>3

\* The addresses and sectors of a location are numbers.
LEMMA TargetFacts ==
  ASSUME NEW i \in 0 .. EntryCount - 1,
         NEW l \in 0 .. Len(Plan[i + 1].locations) - 1
  PROVE  /\ TargetByte(i, l) \in Nat
         /\ EndSector(i, l) \in Nat \cup {NoSector}
<1>1. /\ Plan[i + 1].locations \in Seq(Location)
      /\ Plan[i + 1].block_size \in Nat
      /\ Plan[i + 1].byte_count \in Nat
  BY EntryFacts DEF WriteEntry
<1>2. Plan[i + 1].locations[l + 1] \in Location
  BY <1>1, ElementOfSeq, LenProperties
<1>3. TargetByte(i, l) \in Nat
  <2>1. Plan[i + 1].locations[l + 1].block \in Nat
    BY <1>2 DEF Location
  <2>2. \A m, n \in Nat : m * n \in Nat
    OBVIOUS
  <2> QED BY <1>1, <2>1, <2>2 DEF TargetByte
<1>4. \A n \in Nat : n \div MediaBlock \in Nat
  BY MediaAssumption
<1>5. EndSector(i, l) \in Nat \cup {NoSector}
  <2>1. /\ TargetByte(i, l) \div MediaBlock \in Nat
        /\ Plan[i + 1].byte_count \div MediaBlock \in Nat
    BY <1>1, <1>3, <1>4
  <2> QED BY <2>1 DEF EndSector, NoSector
<1> QED BY <1>3, <1>5

-------------------------------------------------------------------------------
(* The inductive invariant. *)

\* Entries already complete end no later than the current one starts.
CompletedBehind ==
  \A i \in 0 .. entry_index - 1 : First(i + 1) <= First(entry_index)

\* A location is written from a buffer that holds the whole entry; outside the
\* write loop there is no location; nothing has happened before init.
PhaseSound ==
  /\ phase = "write" => entry_received = entry.byte_count
  /\ phase # "write" => loc = 0
  /\ phase # "idle" => ready
  /\ ~ready => phase = "idle" /\ entry_index = 0 /\ stream = <<>> /\ ~dry_run
  /\ final_state = 1 => entry_index = EntryCount

IInv ==
  /\ TypeOK
  /\ StreamPosition
  /\ CompletedBehind
  /\ BufferIsStreamTail
  /\ PhaseSound

\* The invariant holds before init: nothing has been received.
LEMMA InitIInv == Init => IInv
<1> SUFFICES ASSUME Init PROVE IInv
  OBVIOUS
<1>1. TypeOK
  <2>1. /\ packet \in Seq(Data) /\ stream \in Seq(Data)
        /\ pos \in 0 .. Len(packet)
    BY EmptySeq DEF Init
  <2>2. entry_data \in [0 .. EntryCapacity - 1 -> Data] /\ disk \in [Address -> Data]
    BY MediaAssumption DEF Init
  <2>3. result \in EfiStatus
    BY DEF Init, EFI_SUCCESS, EfiStatus
  <2>4. /\ entry_index \in 0 .. EntryCount /\ entry_received \in 0 .. EntryCapacity
        /\ loc \in Nat /\ last_sector \in Nat /\ final_state \in {0, 1}
    BY PlanFacts, CapacityAssumption DEF Init
  <2>5. phase = "idle" /\ ready \in BOOLEAN /\ dry_run \in BOOLEAN
    BY DEF Init
  <2> QED BY <2>1, <2>2, <2>3, <2>4, <2>5 DEF TypeOK
<1>2. StreamPosition
  <2>1. Len(stream) = First(entry_index) + entry_received
    BY PlanFacts, EmptySeq DEF Init
  <2>2. entry_index < EntryCount => entry_received <= entry.byte_count
    BY PlanFacts, EntryFacts DEF Init, entry
  <2> QED BY <2>1, <2>2 DEF Init, StreamPosition
<1>3. CompletedBehind /\ BufferIsStreamTail
  BY DEF Init, CompletedBehind, BufferIsStreamTail
<1>4. PhaseSound
  BY DEF Init, PhaseSound
<1> QED BY <1>1, <1>2, <1>3, <1>4 DEF IInv

\* While an entry is being written the buffer holds its bytes, and writing any
\* part of them leaves bytes on the target.
LEMMA BufferedBytes ==
  ASSUME IInv, phase = "write", NEW range \in SUBSET Target(entry_index, loc)
  PROVE  Written(range) \in [Address -> Data]
<1>1. /\ entry_index \in 0 .. EntryCount - 1
      /\ loc \in 0 .. Len(Plan[entry_index + 1].locations) - 1
  BY PlanFacts, EntryFacts DEF IInv, TypeOK, lastLoc, entry
<1>2. /\ TargetByte(entry_index, loc) \in Nat
      /\ Plan[entry_index + 1].byte_count \in Nat
      /\ Plan[entry_index + 1].byte_count <= EntryCapacity
      /\ EntryCapacity \in Nat
  BY <1>1, TargetFacts, EntryFacts, CapacityAssumption
<1>3. \A a \in range : entry_data[a - TargetByte(entry_index, loc)] \in Data
  <2> TAKE a \in range
  <2>1. a - TargetByte(entry_index, loc) \in 0 .. EntryCapacity - 1
    BY <1>2 DEF Target
  <2>2. entry_data \in [0 .. EntryCapacity - 1 -> Data]
    BY DEF IInv, TypeOK
  <2> QED BY <2>1, <2>2
<1> QED BY <1>3 DEF Written, IInv, TypeOK

\* Every status the calls return is one.
LEMMA StatusFacts ==
  /\ EFI_SUCCESS \in EfiStatus
  /\ EFI_UNSUPPORTED \in EfiStatus
  /\ EFI_BAD_BUFFER_SIZE \in EfiStatus
  /\ InitErrors \subseteq EfiStatus
  /\ WriteErrors \subseteq EfiStatus
<1>1. \A n \in Nat : EFIERR(n) \in EfiStatus
  BY DEF EFIERR, EfiStatus
<1>2. EFI_SUCCESS \in EfiStatus
  BY DEF EFI_SUCCESS, EfiStatus
<1> QED BY <1>1, <1>2, MediaAssumption
        DEF EFI_UNSUPPORTED, EFI_BAD_BUFFER_SIZE, EFI_OUT_OF_RESOURCES,
            EFI_VOLUME_CORRUPTED, InitErrors

\* A packet is a sequence of bytes.
LEMMA PacketFacts ==
  ASSUME NEW d \in Packets
  PROVE  d \in Seq(Data) /\ Len(d) \in Nat
<1>1. PICK n \in 1 .. MaxPacket : d \in [1 .. n -> Data]
  BY DEF Packets
<1>2. n \in Nat
  BY CapacityAssumption
<1>3. d \in Seq(Data)
  BY <1>1, <1>2, SeqDef
<1> QED BY <1>3, LenProperties

\* A step that leaves the context and the payload alone keeps what is said of
\* them.
LEMMA ContextUntouched ==
  ASSUME IInv, UNCHANGED <<entry_index, entry_received, entry_data, stream>>
  PROVE  StreamPosition' /\ CompletedBehind' /\ BufferIsStreamTail'
BY DEF IInv, StreamPosition, CompletedBehind, BufferIsStreamTail, entry

\* Init, and the call of payload, before any turn of its loops.
LEMMA CallIInv ==
  ASSUME IInv,
         \/ \E commit \in BOOLEAN : StreamInit(commit)
         \/ \E st \in InitErrors : StreamInitFails(st)
         \/ \E d \in Packets : Payload(d)
  PROVE  IInv'
<1>1. StreamPosition' /\ CompletedBehind' /\ BufferIsStreamTail'
  BY ContextUntouched DEF StreamInit, StreamInitFails, Payload, ctxVars
<1>2. CASE \E commit \in BOOLEAN : StreamInit(commit)
  <2>1. TypeOK'
    BY <1>2, StatusFacts DEF StreamInit, IInv, TypeOK, entry, lastLoc
  <2>2. PhaseSound'
    BY <1>2 DEF StreamInit, IInv, PhaseSound, entry
  <2> QED BY <1>1, <2>1, <2>2 DEF IInv
<1>3. CASE \E st \in InitErrors : StreamInitFails(st)
  <2>1. TypeOK'
    BY <1>3, StatusFacts DEF StreamInitFails, ctxVars, IInv, TypeOK, entry, lastLoc
  <2>2. PhaseSound'
    BY <1>3 DEF StreamInitFails, ctxVars, IInv, PhaseSound, entry
  <2> QED BY <1>1, <2>1, <2>2 DEF IInv
<1>4. CASE \E d \in Packets : Payload(d)
  <2>1. PICK d \in Packets : Payload(d)
    BY <1>4
  <2>2. TypeOK'
    BY <2>1, PacketFacts DEF Payload, ctxVars, IInv, TypeOK
  <2>3. PhaseSound'
    BY <2>1 DEF Payload, ctxVars, IInv, PhaseSound
  <2> QED BY <1>1, <2>2, <2>3 DEF IInv
<1> QED BY <1>2, <1>3, <1>4

\* The ways a call ends.
LEMMA ReturnIInv ==
  ASSUME IInv, Finish \/ Overrun \/ Unsupported \/ WriteFails
  PROVE  IInv'
<1>1. /\ UNCHANGED <<ready, dry_run, entry_index, entry_received, entry_data,
                     last_sector, stream>>
      /\ \E st \in EfiStatus : Return(st)
  BY StatusFacts DEF Finish, Overrun, Unsupported, WriteFails, ctxVars
<1>2. StreamPosition' /\ CompletedBehind' /\ BufferIsStreamTail'
  BY <1>1, ContextUntouched
<1>3. final_state' = final_state \/ Finish
  BY DEF Overrun, Unsupported, WriteFails, ctxVars
<1>4. final_state' \in {0, 1} /\ (final_state' = 1 => entry_index' = EntryCount)
  BY <1>1, <1>3, PlanFacts DEF Finish, IInv, TypeOK, PhaseSound
<1>5. disk' \in [Address -> Data]
  <2>1. CASE Finish \/ Overrun \/ Unsupported
    BY <2>1 DEF Finish, Overrun, Unsupported, IInv, TypeOK
  <2>2. CASE WriteFails
    <3>1. CASE InRange(entry_index, loc)
      <4>1. PICK blocks \in SUBSET (0 .. LastBlock) :
              disk' = Written({a \in Target(entry_index, loc) :
                                 a \div MediaBlock \in blocks})
        BY <2>2, <3>1 DEF WriteFails, TornWrite
      <4> QED BY <4>1, <2>2, BufferedBytes DEF WriteFails
    <3>2. CASE ~InRange(entry_index, loc)
      BY <2>2, <3>2 DEF WriteFails, TornWrite, IInv, TypeOK
    <3> QED BY <3>1, <3>2
  <2> QED BY <2>1, <2>2
<1>6. TypeOK'
  <2>1. /\ packet' \in Seq(Data) /\ pos' \in 0 .. Len(packet') /\ loc' \in Nat
        /\ phase' = "idle" /\ result' \in EfiStatus
    BY <1>1, EmptySeq DEF Return
  <2> QED BY <1>1, <1>4, <1>5, <2>1 DEF IInv, TypeOK
<1>7. PhaseSound'
  BY <1>1, <1>4 DEF Return, IInv, PhaseSound
<1> QED BY <1>2, <1>6, <1>7 DEF IInv

\* What the copy adds to the payload received: the next chunk of the packet, at
\* the end.
LEMMA CopyFacts ==
  ASSUME IInv, CopyChunk
  PROVE  /\ entry_index \in 0 .. EntryCount - 1
         /\ entry.byte_count \in Nat \ {0}
         /\ need \in Nat
         /\ take \in 0 .. Len(packet) - pos
         /\ take <= need
         /\ stream' \in Seq(Data)
         /\ Len(stream') = Len(stream) + take
         /\ \A k \in 1 .. Len(stream) : stream'[k] = stream[k]
         /\ \A k \in 1 .. take : stream'[Len(stream) + k] = packet[pos + k]
<1>1. entry_index \in 0 .. EntryCount - 1
  BY PlanFacts DEF IInv, TypeOK, CopyChunk, ChunkRefused
<1>2. entry.byte_count \in Nat \ {0}
  BY <1>1, EntryFacts DEF entry
<1>3. need \in Nat
  <2>1. entry_received \in Nat /\ entry_received <= entry.byte_count
    BY <1>1, PlanFacts, CapacityAssumption DEF IInv, TypeOK, StreamPosition
  <2> QED BY <2>1, <1>2 DEF need
<1>4. packet \in Seq(Data) /\ Len(packet) \in Nat /\ pos \in 0 .. Len(packet)
  BY LenProperties DEF IInv, TypeOK
<1>5. take \in 0 .. Len(packet) - pos /\ take <= need
  BY <1>3, <1>4 DEF take, Smaller
<1> DEFINE chunk == SubSeq(packet, pos + 1, pos + take)
<1>6. /\ chunk \in Seq(Data)
      /\ Len(chunk) = take
      /\ \A k \in 1 .. take : chunk[k] = packet[pos + k]
  <2> DEFINE lo == pos + 1
             hi == pos + take
  <2>1. \A k \in lo .. hi : packet[k] \in Data
    BY <1>4, <1>5, ElementOfSeq
  <2>2. lo \in Int /\ hi \in Int /\ hi - lo + 1 = take /\ lo - 1 = pos
    BY <1>4, <1>5
  <2>3. chunk = SubSeq(packet, lo, hi)
    OBVIOUS
  <2> HIDE DEF chunk, lo, hi
  <2>4. /\ chunk \in Seq(Data)
        /\ Len(chunk) = IF lo <= hi THEN hi - lo + 1 ELSE 0
        /\ \A k \in 1 .. hi - lo + 1 : chunk[k] = packet[lo + k - 1]
    BY <2>1, <2>2, <2>3, SubSeqProperties
  <2>5. \A k \in 1 .. take : lo + k - 1 = pos + k
    BY <2>2, <1>4, <1>5
  <2> QED BY <2>2, <2>4, <2>5, <1>4, <1>5
<1>7. stream' = stream \o chunk /\ stream \in Seq(Data) /\ Len(stream) \in Nat
  BY LenProperties DEF CopyChunk, IInv, TypeOK
<1> HIDE DEF chunk
<1>8. /\ stream' \in Seq(Data)
      /\ Len(stream') = Len(stream) + take
      /\ \A k \in 1 .. Len(stream) + take :
           stream'[k] = IF k <= Len(stream) THEN stream[k] ELSE chunk[k - Len(stream)]
  BY <1>6, <1>7, ConcatProperties
<1>9. \A k \in 1 .. Len(stream) : stream'[k] = stream[k]
  BY <1>5, <1>7, <1>8, <1>4
<1>10. \A k \in 1 .. take : stream'[Len(stream) + k] = packet[pos + k]
  BY <1>4, <1>5, <1>6, <1>7, <1>8
<1> QED BY <1>1, <1>2, <1>3, <1>5, <1>8, <1>9, <1>10

\* The copy.
LEMMA CopyIInv ==
  ASSUME IInv, CopyChunk
  PROVE  IInv'
<1>1. /\ entry_index \in 0 .. EntryCount - 1 /\ EntryCount \in Nat
      /\ entry_received \in Nat /\ EntryCapacity \in Nat
      /\ entry_received <= entry.byte_count
      /\ First(entry_index) \in Nat
  BY PlanFacts, CopyFacts, EntryFacts, CapacityAssumption
     DEF IInv, TypeOK, StreamPosition
<1>2. /\ entry.byte_count \in Nat \ {0} /\ need \in Nat
      /\ packet \in Seq(Data) /\ Len(packet) \in Nat /\ pos \in 0 .. Len(packet)
      /\ take \in 0 .. Len(packet) - pos /\ take <= need
  BY CopyFacts, LenProperties DEF IInv, TypeOK
<1>3. entry_received' = entry_received + take /\ entry_index' = entry_index
  BY DEF CopyChunk
<1>4. entry_received' \in 0 .. EntryCapacity /\ entry_received' <= entry.byte_count
  BY <1>1, <1>2, <1>3 DEF CopyChunk, ChunkRefused, need
<1>5. StreamPosition'
  <2>1. Len(stream') = First(entry_index) + entry_received'
    BY <1>1, <1>2, <1>3, CopyFacts DEF IInv, StreamPosition
  <2> QED BY <2>1, <1>1, <1>3, <1>4 DEF StreamPosition, entry
<1>6. CompletedBehind'
  BY <1>3 DEF IInv, CompletedBehind
<1>7. entry_data' \in [0 .. EntryCapacity - 1 -> Data]
  <2>1. \A k \in 0 .. EntryCapacity - 1 :
          k >= entry_received /\ k < entry_received + take
            => packet[pos + (k - entry_received) + 1] \in Data
    BY <1>1, <1>2, ElementOfSeq
  <2> QED BY <2>1 DEF CopyChunk, BufferAfterCopy, IInv, TypeOK
<1>8. BufferIsStreamTail'
  <2> SUFFICES ASSUME NEW k \in 0 .. entry_received' - 1
               PROVE  entry_data'[k] = stream'[First(entry_index) + k + 1]
    BY <1>3 DEF BufferIsStreamTail
  <2>1. /\ Len(stream) = First(entry_index) + entry_received
        /\ k \in 0 .. EntryCapacity - 1
    <3>1. k \in 0 .. EntryCapacity - 1
      BY <1>1, <1>2, <1>3, <1>4
    <3> QED BY <3>1 DEF IInv, StreamPosition
  <2>2. CASE k < entry_received
    <3>1. entry_data'[k] = entry_data[k]
      BY <2>1, <2>2, <1>1 DEF CopyChunk, BufferAfterCopy
    <3>2. entry_data[k] = stream[First(entry_index) + k + 1]
      BY <2>2, <1>1 DEF IInv, BufferIsStreamTail
    <3>3. First(entry_index) + k + 1 \in 1 .. Len(stream)
      BY <2>1, <2>2, <1>1
    <3> QED BY <3>1, <3>2, <3>3, CopyFacts
  <2>3. CASE k >= entry_received
    <3> DEFINE j == k - entry_received + 1
    <3>1. entry_data'[k] = packet[pos + j]
      BY <2>1, <2>3, <1>1, <1>2, <1>3 DEF CopyChunk, BufferAfterCopy
    <3>2. j \in 1 .. take
      BY <2>3, <1>1, <1>2, <1>3
    <3>3. First(entry_index) + k + 1 = Len(stream) + j
      BY <2>1, <1>1
    <3> HIDE DEF j
    <3> QED BY <3>1, <3>2, <3>3, CopyFacts
  <2> QED BY <2>2, <2>3, <1>1
<1>9. TypeOK'
  <2>1. pos' \in 0 .. Len(packet')
    BY <1>2 DEF CopyChunk
  <2>2. phase' \in {"copy", "write"} /\ loc' = 0
    BY DEF CopyChunk
  <2>3. loc' <= lastLoc'
    BY <2>2, <1>1, <1>3, EntryFacts DEF lastLoc, entry
  <2>4. stream' \in Seq(Data) /\ entry_index' < EntryCount
    BY <1>1, <1>3, CopyFacts
  <2> QED BY <1>3, <1>4, <1>7, <2>1, <2>2, <2>3, <2>4 DEF CopyChunk, IInv, TypeOK
<1>10. PhaseSound'
  <2>1. phase' = "write" => entry_received' = entry'.byte_count
    BY <1>3 DEF CopyChunk, EntryWhole, entry
  <2> QED BY <2>1 DEF CopyChunk, IInv, PhaseSound
<1> QED BY <1>5, <1>6, <1>8, <1>9, <1>10 DEF IInv

\* The place of the write in the plan.
LEMMA WriteFacts ==
  ASSUME IInv, phase = "write"
  PROVE  /\ entry_index \in 0 .. EntryCount - 1
         /\ loc \in 0 .. lastLoc
         /\ lastLoc \in Nat
         /\ entry_received = entry.byte_count
         /\ First(entry_index + 1) = First(entry_index) + entry.byte_count
         /\ Len(stream) = First(entry_index + 1)
<1>1. entry_index \in 0 .. EntryCount - 1
  BY PlanFacts DEF IInv, TypeOK
<1>2. lastLoc \in Nat
  BY <1>1, EntryFacts DEF lastLoc, entry
<1>3. loc \in 0 .. lastLoc
  BY <1>2 DEF IInv, TypeOK
<1>4. First(entry_index + 1) = First(entry_index) + entry.byte_count
  BY <1>1, EntryFacts DEF entry
<1> QED BY <1>1, <1>2, <1>3, <1>4 DEF IInv, PhaseSound, StreamPosition

\* A write that succeeds.
LEMMA WriteIInv ==
  ASSUME IInv, WriteOk
  PROVE  IInv'
<1>1. phase = "write" /\ UNCHANGED <<ready, dry_run, entry_data, final_state, packet,
                                      pos, result, stream>>
  BY DEF WriteOk
<1>2. disk' \in [Address -> Data] /\ last_sector' \in Nat \cup {NoSector}
  <2>1. dry_run => disk' \in [Address -> Data]
    BY DEF WriteOk, IInv, TypeOK
  <2>2. ~dry_run => disk' \in [Address -> Data]
    BY <1>1, BufferedBytes DEF WriteOk
  <2>3. last_sector' \in Nat \cup {NoSector}
    BY <1>1, WriteFacts, TargetFacts DEF WriteOk, lastLoc, entry
  <2> QED BY <2>1, <2>2, <2>3
<1>3. CASE loc < lastLoc
  <2>1. /\ loc' = loc + 1
        /\ UNCHANGED <<phase, entry_received, entry_index>>
    BY <1>3 DEF WriteOk, NextLocation
  <2>2. StreamPosition' /\ CompletedBehind' /\ BufferIsStreamTail'
    BY <1>1, <2>1, ContextUntouched
  <2>3. loc' \in Nat /\ loc' <= lastLoc'
    BY <2>1, <1>1, <1>3, WriteFacts DEF lastLoc, entry
  <2>4. TypeOK'
    BY <1>1, <1>2, <2>1, <2>3, WriteFacts DEF IInv, TypeOK
  <2>5. PhaseSound'
    BY <1>1, <2>1 DEF IInv, PhaseSound, entry
  <2> QED BY <2>2, <2>4, <2>5 DEF IInv
<1>4. CASE ~(loc < lastLoc)
  <2>1. /\ loc' = 0 /\ phase' = "copy" /\ entry_received' = 0
        /\ entry_index' = entry_index + 1
    BY <1>4 DEF WriteOk, NextLocation
  <2>2. entry_index' \in 0 .. EntryCount /\ EntryCount \in Nat
    BY <1>1, <2>1, WriteFacts, PlanFacts
  <2>3. StreamPosition'
    <3>1. Len(stream') = First(entry_index') + entry_received'
      BY <1>1, <2>1, WriteFacts, LenProperties DEF IInv, TypeOK
    <3>2. entry_index' < EntryCount => entry_received' <= entry'.byte_count
      BY <2>1, <2>2, EntryFacts DEF entry
    <3> QED BY <2>1, <3>1, <3>2 DEF StreamPosition
  <2>4. CompletedBehind'
    <3>1. /\ First(entry_index) \in Nat /\ entry.byte_count \in Nat
          /\ First(entry_index + 1) = First(entry_index) + entry.byte_count
          /\ entry_index \in Nat
      BY <1>1, WriteFacts, EntryFacts DEF entry
    <3>2. SUFFICES ASSUME NEW i \in 0 .. entry_index
                   PROVE  First(i + 1) <= First(entry_index + 1)
      BY <2>1, <3>1 DEF CompletedBehind
    <3>3. CASE i = entry_index
      BY <3>3, <3>1
    <3>4. CASE i \in 0 .. entry_index - 1
      <4>1. First(i + 1) <= First(entry_index)
        BY <3>4 DEF IInv, CompletedBehind
      <4>2. First(i + 1) \in Nat
        <5>1. i \in 0 .. EntryCount - 1
          BY <3>1, <3>4, <1>1, WriteFacts, PlanFacts
        <5>2. First(i) \in Nat /\ Plan[i + 1].byte_count \in Nat
          BY <5>1, EntryFacts
        <5> QED BY <5>1, <5>2, EntryFacts
      <4> QED BY <4>1, <4>2, <3>1
    <3> QED BY <3>1, <3>3, <3>4
  <2>5. BufferIsStreamTail'
    BY <2>1 DEF BufferIsStreamTail
  <2>6. TypeOK'
    BY <1>1, <1>2, <2>1, <2>2, CapacityAssumption DEF IInv, TypeOK
  <2>7. PhaseSound'
    <3>1. final_state' = 1 => FALSE
      BY <1>1, WriteFacts, PlanFacts DEF IInv, PhaseSound
    <3> QED BY <1>1, <2>1, <3>1 DEF IInv, PhaseSound
  <2> QED BY <2>3, <2>4, <2>5, <2>6, <2>7 DEF IInv
<1> QED BY <1>3, <1>4

LEMMA StepIInv == IInv /\ [Next]_vars => IInv'
<1> SUFFICES ASSUME IInv, [Next]_vars PROVE IInv'
  OBVIOUS
<1>1. CASE \/ \E commit \in BOOLEAN : StreamInit(commit)
           \/ \E st \in InitErrors : StreamInitFails(st)
           \/ \E d \in Packets : Payload(d)
  BY <1>1, CallIInv
<1>2. CASE Finish \/ Overrun \/ Unsupported \/ WriteFails
  BY <1>2, ReturnIInv
<1>3. CASE CopyChunk
  BY <1>3, CopyIInv
<1>4. CASE WriteOk
  BY <1>4, WriteIInv
<1>5. CASE UNCHANGED vars
  <2>1. StreamPosition' /\ CompletedBehind' /\ BufferIsStreamTail'
    BY <1>5, ContextUntouched DEF vars, ctxVars, callVars
  <2>2. TypeOK' /\ PhaseSound'
    BY <1>5 DEF vars, ctxVars, callVars, IInv, TypeOK, PhaseSound, entry, lastLoc
  <2> QED BY <2>1, <2>2 DEF IInv
<1> QED BY <1>1, <1>2, <1>3, <1>4, <1>5 DEF Next, PayloadStep

\* Every variable keeps its type, and the buffer index stays inside the buffer,
\* for every plan and every cut of the payload into packets.
THEOREM TypeCorrect == Spec => []TypeOK
<1>1. IInv => TypeOK
  BY DEF IInv
<1> QED BY <1>1, InitIInv, StepIInv, PTL DEF Spec

\* The context never loses its place: bytes completed plus bytes buffered are
\* the bytes received, after any number of failed writes.
THEOREM PositionKept == Spec => []StreamPosition
<1>1. IInv => StreamPosition
  BY DEF IInv
<1> QED BY <1>1, InitIInv, StepIInv, PTL DEF Spec

\* What a write takes from the buffer is the part of the payload that belongs to
\* the entry.
THEOREM BufferExact == Spec => []BufferIsStreamTail
<1>1. IInv => BufferIsStreamTail
  BY DEF IInv
<1> QED BY <1>1, InitIInv, StepIInv, PTL DEF Spec

\* The context says that it is done only when the payload is there to its last
\* byte, and final_state is never raised before.
THEOREM DoneSound == Spec => []DoneIsFinal
<1>1. IInv => DoneIsFinal
  <2> SUFFICES ASSUME IInv PROVE DoneIsFinal
    OBVIOUS
  <2>1. entry_index \in 0 .. EntryCount /\ EntryCount \in Nat
    BY PlanFacts DEF IInv, TypeOK
  <2>2. Done => Len(stream) = First(EntryCount)
    BY <2>1, PlanFacts DEF Done, IInv, StreamPosition
  <2>3. final_state = 1 => Done
    BY <2>1 DEF Done, IInv, StreamPosition, PhaseSound
  <2> QED BY <2>2, <2>3 DEF DoneIsFinal
<1> QED BY <1>1, InitIInv, StepIInv, PTL DEF Spec

-------------------------------------------------------------------------------
(* What is on the target. *)

\* A slot is an entry and one of its locations.
LEMMA SlotFacts ==
  ASSUME NEW s \in Slots
  PROVE  /\ s[1] \in 0 .. EntryCount - 1
         /\ s[2] \in 0 .. Len(Plan[s[1] + 1].locations) - 1
         /\ TargetByte(s[1], s[2]) \in Nat
         /\ First(s[1]) \in Nat
         /\ Plan[s[1] + 1].byte_count \in Nat \ {0}
         /\ First(s[1] + 1) = First(s[1]) + Plan[s[1] + 1].byte_count
<1>1. PICK i \in 0 .. EntryCount - 1 :
        s \in {i} \X (0 .. Len(Plan[i + 1].locations) - 1)
  BY DEF Slots
<1>2. s[1] = i /\ s[2] \in 0 .. Len(Plan[i + 1].locations) - 1
  BY <1>1
<1> QED BY <1>2, EntryFacts, TargetFacts

\* The payload of a slot counted as written has been received.
LEMMA FlashedReceived ==
  ASSUME IInv, NEW s \in Slots, Flashed(s[1], s[2]),
         NEW a \in Target(s[1], s[2])
  PROVE  First(s[1]) + (a - TargetByte(s[1], s[2])) + 1 \in 1 .. Len(stream)
<1>1. /\ entry_index \in 0 .. EntryCount /\ EntryCount \in Nat
      /\ entry_received \in Nat /\ Len(stream) \in Nat
      /\ Len(stream) = First(entry_index) + entry_received
  BY PlanFacts, LenProperties, CapacityAssumption DEF IInv, TypeOK, StreamPosition
<1>2. First(s[1] + 1) <= Len(stream)
  <2>1. CASE s[1] < entry_index
    <3>1. s[1] \in 0 .. entry_index - 1
      BY <2>1, <1>1, SlotFacts
    <3>2. First(s[1] + 1) <= First(entry_index)
      BY <3>1 DEF IInv, CompletedBehind
    <3>3. First(entry_index) \in Nat
      BY <1>1, PlanFacts, EntryFacts
    <3> QED BY <3>2, <3>3, <1>1, SlotFacts
  <2>2. CASE s[1] = entry_index /\ phase = "write"
    BY <2>2, <1>1, WriteFacts
  <2> QED BY <2>1, <2>2 DEF Flashed
<1>3. /\ TargetByte(s[1], s[2]) \in Nat /\ First(s[1]) \in Nat
      /\ a - TargetByte(s[1], s[2]) \in 0 .. Plan[s[1] + 1].byte_count - 1
      /\ Plan[s[1] + 1].byte_count \in Nat
      /\ First(s[1] + 1) = First(s[1]) + Plan[s[1] + 1].byte_count
  BY SlotFacts DEF Target
<1> QED BY <1>1, <1>2, <1>3

\* A slot stays as it is while its part of the target does and the payload only
\* grows.
LEMMA SlotKept ==
  ASSUME IInv, NEW s \in Slots, Flashed(s[1], s[2]), HoldsPayload(s[1], s[2]),
         \A k \in 1 .. Len(stream) : stream'[k] = stream[k],
         \A a \in Target(s[1], s[2]) : disk'[a] = disk[a]
  PROVE  HoldsPayload(s[1], s[2])'
<1>1. \A a \in Target(s[1], s[2]) :
        disk'[a] = stream'[First(s[1]) + (a - TargetByte(s[1], s[2])) + 1]
  BY FlashedReceived DEF HoldsPayload
<1> QED BY <1>1 DEF HoldsPayload

\* Writing part of the slot under the write loop leaves every other slot alone.
LEMMA OthersUntouched ==
  ASSUME IInv, TargetsDisjoint, phase = "write",
         NEW s \in Slots, s[1] # entry_index \/ s[2] # loc,
         NEW range \in SUBSET Target(entry_index, loc),
         InRange(s[1], s[2]),
         disk' = Written(range)
  PROVE  \A a \in Target(s[1], s[2]) : disk'[a] = disk[a]
<1>1. <<entry_index, loc>> \in Slots
  BY WriteFacts DEF Slots, lastLoc, entry
<1>2. Target(s[1], s[2]) \cap Target(entry_index, loc) = {}
  BY <1>1 DEF TargetsDisjoint
<1> QED BY <1>2 DEF Written, InRange

\* Outside the write loop nothing reaches the target.
LEMMA FlashedKept ==
  ASSUME IInv, FlashedSoFar, ~dry_run, TargetsDisjoint,
         \A k \in 1 .. Len(stream) : stream'[k] = stream[k],
         UNCHANGED disk,
         \A s \in Slots : Flashed(s[1], s[2])' => Flashed(s[1], s[2])
  PROVE  \A s \in Slots : Flashed(s[1], s[2])' => HoldsPayload(s[1], s[2])'
<1> SUFFICES ASSUME NEW s \in Slots, Flashed(s[1], s[2])'
             PROVE  HoldsPayload(s[1], s[2])'
  OBVIOUS
<1>1. Flashed(s[1], s[2]) /\ HoldsPayload(s[1], s[2])
  BY DEF FlashedSoFar
<1> QED BY <1>1, SlotKept

\* A write that succeeds adds the slot it wrote.
LEMMA FlashedWritten ==
  ASSUME IInv, FlashedSoFar, ~dry_run, TargetsDisjoint, WriteOk
  PROVE  \A s \in Slots : Flashed(s[1], s[2])' => HoldsPayload(s[1], s[2])'
<1> SUFFICES ASSUME NEW s \in Slots, Flashed(s[1], s[2])'
             PROVE  HoldsPayload(s[1], s[2])'
  OBVIOUS
<1>1. /\ phase = "write" /\ stream' = stream
      /\ InRange(entry_index, loc)
      /\ disk' = Written(Target(entry_index, loc))
  BY DEF WriteOk
<1>2. CASE s[1] = entry_index /\ s[2] = loc
  <2>1. \A a \in Target(entry_index, loc) :
          disk'[a] = entry_data[a - TargetByte(entry_index, loc)]
    BY <1>1 DEF Written, InRange
  <2>2. \A a \in Target(entry_index, loc) :
          a - TargetByte(entry_index, loc) \in 0 .. entry_received - 1
    <3>1. /\ entry_received = Plan[entry_index + 1].byte_count
          /\ entry_received \in Nat
          /\ TargetByte(entry_index, loc) \in Nat
      BY <1>1, <1>2, WriteFacts, SlotFacts DEF entry
    <3> QED BY <3>1 DEF Target
  <2>3. \A a \in Target(entry_index, loc) :
          disk'[a] = stream[First(entry_index)
                              + (a - TargetByte(entry_index, loc)) + 1]
    BY <2>1, <2>2 DEF IInv, BufferIsStreamTail
  <2> QED BY <1>1, <1>2, <2>3 DEF HoldsPayload
<1>3. CASE ~(s[1] = entry_index /\ s[2] = loc)
  <2>1. Flashed(s[1], s[2])
    <3>1. /\ s[1] \in Int /\ s[2] \in Int /\ loc \in Int /\ entry_index \in Int
          /\ lastLoc \in Int /\ loc <= lastLoc
          /\ s[1] = entry_index => s[2] <= lastLoc
      BY <1>1, WriteFacts, SlotFacts DEF lastLoc, entry
    <3>2. CASE loc < lastLoc
      BY <1>1, <1>3, <3>1, <3>2 DEF Flashed, WriteOk, NextLocation
    <3>3. CASE ~(loc < lastLoc)
      BY <1>1, <1>3, <3>1, <3>3 DEF Flashed, WriteOk, NextLocation
    <3> QED BY <3>2, <3>3
  <2>2. HoldsPayload(s[1], s[2])
    BY <2>1 DEF FlashedSoFar
  <2>3. \A a \in Target(s[1], s[2]) : disk'[a] = disk[a]
    BY <1>1, <1>3, <2>2, OthersUntouched DEF HoldsPayload
  <2> QED BY <1>1, <2>1, <2>2, <2>3, SlotKept
<1> QED BY <1>2, <1>3

\* A write that fails spoils its own slot only, which is counted no longer.
LEMMA FlashedTorn ==
  ASSUME IInv, FlashedSoFar, ~dry_run, TargetsDisjoint, WriteFails
  PROVE  \A s \in Slots : Flashed(s[1], s[2])' => HoldsPayload(s[1], s[2])'
<1> SUFFICES ASSUME NEW s \in Slots, Flashed(s[1], s[2])'
             PROVE  HoldsPayload(s[1], s[2])'
  OBVIOUS
<1>1. /\ phase = "write" /\ phase' = "idle"
      /\ UNCHANGED <<entry_index, stream>>
  BY DEF WriteFails, Return, ctxVars
<1>2. s[1] < entry_index /\ s[1] # entry_index
  BY <1>1, WriteFacts, SlotFacts DEF Flashed
<1>3. Flashed(s[1], s[2]) /\ HoldsPayload(s[1], s[2])
  BY <1>2 DEF Flashed, FlashedSoFar
<1>4. \A a \in Target(s[1], s[2]) : disk'[a] = disk[a]
  <2>1. CASE InRange(entry_index, loc)
    <3>1. PICK blocks \in SUBSET (0 .. LastBlock) :
            disk' = Written({a \in Target(entry_index, loc) :
                               a \div MediaBlock \in blocks})
      BY <2>1 DEF WriteFails, TornWrite
    <3> DEFINE torn == {a \in Target(entry_index, loc) : a \div MediaBlock \in blocks}
    <3>2. torn \in SUBSET Target(entry_index, loc) /\ disk' = Written(torn)
      BY <3>1
    <3> HIDE DEF torn
    <3> QED BY <3>2, <1>1, <1>2, <1>3, OthersUntouched DEF HoldsPayload
  <2>2. CASE ~InRange(entry_index, loc)
    BY <2>2 DEF WriteFails, TornWrite
  <2> QED BY <2>1, <2>2
<1> QED BY <1>1, <1>3, <1>4, SlotKept

\* Nothing is counted at first.
LEMMA InitFlashed == Init => FlashedSoFar
<1> SUFFICES ASSUME Init, NEW s \in Slots PROVE ~Flashed(s[1], s[2])
  BY DEF FlashedSoFar
<1> QED BY SlotFacts DEF Init, Flashed

\* What is counted as written holds its payload, step by step.
LEMMA StepFlashed == IInv /\ FlashedSoFar /\ [Next]_vars => FlashedSoFar'
<1> SUFFICES ASSUME IInv, FlashedSoFar, [Next]_vars, ~dry_run', TargetsDisjoint
             PROVE  \A s \in Slots : Flashed(s[1], s[2])' => HoldsPayload(s[1], s[2])'
  BY DEF FlashedSoFar
<1>5. CASE \E commit \in BOOLEAN : StreamInit(commit)
  <2>1. entry_index' = 0 /\ phase' = "idle"
    BY <1>5 DEF StreamInit, IInv, PhaseSound
  <2> QED BY <2>1, SlotFacts DEF Flashed
<1>1. CASE WriteOk
  BY <1>1, FlashedWritten DEF WriteOk
<1>2. CASE WriteFails
  BY <1>2, FlashedTorn DEF WriteFails, ctxVars
<1>3. CASE CopyChunk
  <2>1. UNCHANGED <<disk, entry_index>> /\ phase = "copy" /\ loc' = 0
    BY <1>3 DEF CopyChunk
  <2>2. \A s \in Slots : Flashed(s[1], s[2])' => Flashed(s[1], s[2])
    BY <2>1, SlotFacts DEF Flashed
  <2>3. ~dry_run
    BY <1>3 DEF CopyChunk
  <2> QED BY <1>3, <2>1, <2>2, <2>3, CopyFacts, FlashedKept
<1>4. CASE \/ \E st \in InitErrors : StreamInitFails(st)
           \/ \E d \in Packets : Payload(d)
           \/ Finish \/ Overrun \/ Unsupported
           \/ UNCHANGED vars
  <2>1. UNCHANGED <<dry_run, disk, entry_index, stream>>
    BY <1>4 DEF StreamInitFails, Payload, Finish, Overrun, Unsupported, vars, ctxVars,
                callVars
  <2>2. phase' # "write" \/ UNCHANGED <<phase, loc>>
    BY <1>4 DEF StreamInitFails, Payload, Finish, Overrun, Unsupported, Return, vars,
                callVars
  <2>3. \A s \in Slots : Flashed(s[1], s[2])' => Flashed(s[1], s[2])
    BY <2>1, <2>2 DEF Flashed
  <2> QED BY <2>1, <2>3, FlashedKept
<1> QED BY <1>1, <1>2, <1>3, <1>4, <1>5 DEF Next, PayloadStep

\* The main result: whatever fails, every location counted as written holds the
\* bytes of the payload that belong there (given that no two locations of the
\* plan overlap).
THEOREM FlashedIsPayload == Spec => []FlashedSoFar
BY InitIInv, StepIInv, InitFlashed, StepFlashed, PTL DEF Spec

-------------------------------------------------------------------------------
(* The context implements ImageWriter. *)

\* Names of the two specifications that denote the same thing.
LEMMA SameNames ==
  /\ Image!EntryCount = EntryCount
  /\ \A i : Image!First(i) = First(i)
  /\ \A i, l : Image!TargetByte(i, l) = TargetByte(i, l)
  /\ \A i, l : Image!Target(i, l) = Target(i, l)
BY DEF Image!EntryCount, EntryCount, Image!First, First, Image!TargetByte, TargetByte,
       Image!Target, Target

\* Writing from the buffer is writing from the payload.
LEMMA WrittenFromStream ==
  ASSUME IInv, phase = "write", ~dry_run, NEW range \in SUBSET Target(entry_index, loc)
  PROVE  Written(range) = Image!Written(disk, entry_index, loc, range)
<1>1. <<entry_index, loc>> \in Slots
  BY WriteFacts DEF Slots, lastLoc, entry
<1>2. /\ entry_received = Plan[entry_index + 1].byte_count
      /\ entry_received \in Nat
      /\ TargetByte(entry_index, loc) \in Nat
      /\ entry_index \in Nat
  BY <1>1, WriteFacts, SlotFacts DEF entry
<1>3. \A a \in range : a - TargetByte(entry_index, loc) \in 0 .. entry_received - 1
  BY <1>2 DEF Target
<1>4. \A a \in range : entry_data[a - TargetByte(entry_index, loc)]
                         = stream[First(entry_index)
                                    + (a - TargetByte(entry_index, loc)) + 1]
  BY <1>3 DEF IInv, BufferIsStreamTail
<1> QED BY <1>4, SameNames DEF Written, Image!Written

\* A chunk is a reception, or nothing when the entry was whole already.
LEMMA CopyIsReceive ==
  ASSUME IInv, CopyChunk, ~dry_run
  PROVE  [Image!Next]_(Image!vars)
<1>1. /\ UNCHANGED <<disk, entry_index, dry_run>> /\ phase = "copy" /\ loc' = 0
  BY DEF CopyChunk
<1>2. /\ entry_index \in 0 .. EntryCount - 1 /\ EntryCount \in Nat
      /\ take \in Nat /\ take <= need /\ stream' \in Seq(Data)
      /\ Len(stream') = Len(stream) + take
      /\ \A k \in 1 .. Len(stream) : stream'[k] = stream[k]
      /\ entry_received \in Nat /\ entry.byte_count \in Nat
      /\ Len(packet) \in Nat /\ pos \in Nat
  BY CopyFacts, PlanFacts, LenProperties, CapacityAssumption DEF IInv, TypeOK
<1>3. First(entry_index + 1) - Len(stream) = need
  <2>1. /\ First(entry_index + 1) = First(entry_index) + entry.byte_count
        /\ First(entry_index) \in Nat
    BY <1>2, EntryFacts DEF entry
  <2> QED BY <2>1, <1>2 DEF need, IInv, StreamPosition
<1>4. CASE take > 0
  <2>1. take \in 1 .. First(entry_index + 1) - Len(stream)
    BY <1>2, <1>3, <1>4 DEF need
  <2>2. Image!Receive
    BY <1>1, <1>2, <2>1, SameNames DEF Image!Receive
  <2> QED BY <2>2 DEF Image!Next
<1>5. CASE take = 0
  <2>1. stream' = stream
    BY <1>2, <1>5, LenProperties, SeqEqual DEF IInv, TypeOK
  <2> QED BY <1>1, <2>1 DEF Image!vars
<1> QED BY <1>2, <1>4, <1>5

\* A write that succeeds is one of ImageWriter's.
LEMMA WriteIsWrite ==
  ASSUME IInv, WriteOk, ~dry_run
  PROVE  Image!Next
<1>1. /\ phase = "write" /\ stream' = stream /\ dry_run' = dry_run
      /\ InRange(entry_index, loc)
      /\ disk' = Written(Target(entry_index, loc))
  BY DEF WriteOk
<1>2. /\ entry_index < EntryCount
      /\ Len(stream) = First(entry_index + 1)
      /\ loc \in Nat /\ loc <= lastLoc /\ lastLoc \in Nat
      /\ lastLoc + 1 = Len(Plan[entry_index + 1].locations)
  <2>1. /\ entry_index \in 0 .. EntryCount - 1 /\ EntryCount \in Nat
        /\ Len(Plan[entry_index + 1].locations) \in Nat
    BY <1>1, WriteFacts, PlanFacts, EntryFacts
  <2> QED BY <1>1, <2>1, WriteFacts DEF lastLoc, entry
<1>3. disk' = Image!Written(disk, entry_index, loc, Target(entry_index, loc))
  BY <1>1, WrittenFromStream
<1>4. IF loc + 1 = Len(Plan[entry_index + 1].locations)
        THEN /\ entry_index' = entry_index + 1
             /\ (IF phase' = "write" THEN loc' ELSE 0) = 0
        ELSE /\ entry_index' = entry_index
             /\ (IF phase' = "write" THEN loc' ELSE 0) = loc + 1
  <2>1. CASE loc < lastLoc
    BY <1>1, <1>2, <2>1 DEF WriteOk, NextLocation
  <2>2. CASE ~(loc < lastLoc)
    BY <1>1, <1>2, <2>2 DEF WriteOk, NextLocation
  <2> QED BY <2>1, <2>2
<1>5. Image!WriteLocation
  BY <1>1, <1>2, <1>3, <1>4, SameNames DEF Image!WriteLocation, InRange
<1> QED BY <1>5 DEF Image!Next

\* A write that fails or is refused is a failure of ImageWriter, of which any part
\* may be on the target.
LEMMA FailureIsFailure ==
  ASSUME IInv, Unsupported \/ WriteFails, ~dry_run
  PROVE  Image!Next
<1>1. /\ phase = "write" /\ phase' = "idle"
      /\ UNCHANGED <<dry_run, entry_index, stream>>
  BY DEF Unsupported, WriteFails, Return, ctxVars
<1>2. /\ entry_index < EntryCount
      /\ Len(stream) = First(entry_index + 1)
  BY <1>1, WriteFacts, PlanFacts
<1>3. \E range \in SUBSET Target(entry_index, loc) : disk' = Written(range)
  <2>1. CASE UNCHANGED disk
    <3>1. Written({}) = disk
      BY DEF Written, IInv, TypeOK
    <3> QED BY <2>1, <3>1
  <2>2. CASE WriteFails /\ InRange(entry_index, loc)
    <3>1. PICK blocks \in SUBSET (0 .. LastBlock) :
            disk' = Written({a \in Target(entry_index, loc) :
                               a \div MediaBlock \in blocks})
      BY <2>2 DEF WriteFails, TornWrite
    <3> QED BY <3>1
  <2> QED BY <2>1, <2>2 DEF Unsupported, WriteFails, TornWrite
<1>4. \E range \in SUBSET Target(entry_index, loc) :
        disk' = Image!Written(disk, entry_index, loc, range)
  BY <1>1, <1>3, WrittenFromStream
<1>5. Image!FailLocation
  BY <1>1, <1>2, <1>4, SameNames DEF Image!FailLocation
<1> QED BY <1>5 DEF Image!Next

\* A dry run leaves no trace.
LEMMA DryRunUnseen ==
  ASSUME IInv, [Next]_vars, dry_run
  PROVE  UNCHANGED Image!vars
<1>1. ready
  BY DEF IInv, PhaseSound
<1>2. UNCHANGED <<dry_run, disk>>
  BY <1>1 DEF Next, PayloadStep, StreamInit, StreamInitFails, Payload, Finish, Overrun,
              CopyChunk, Unsupported, WriteOk, WriteFails, vars, ctxVars
<1> QED BY <1>2 DEF Image!vars

\* The context is a run of ImageWriter: buffering, packet borders, early returns and
\* rewrites are invisible on the target, and so is a whole dry run.
THEOREM ImplementsImageWriter == Spec => WritesImage
<1>1. Init => Image!Init
  BY MediaAssumption DEF Init, Image!Init
<1>2. IInv /\ [Next]_vars => [Image!Next]_(Image!vars)
  <2> SUFFICES ASSUME IInv, [Next]_vars, ~dry_run PROVE [Image!Next]_(Image!vars)
    BY DryRunUnseen
  <2>1. CASE CopyChunk
    BY <2>1, CopyIsReceive
  <2>2. CASE WriteOk
    BY <2>2, WriteIsWrite
  <2>3. CASE Unsupported \/ WriteFails
    BY <2>3, FailureIsFailure
  <2>4. CASE \E commit \in BOOLEAN : StreamInit(commit)
    <3>1. /\ phase = "idle" /\ entry_index = 0 /\ stream = <<>>
          /\ UNCHANGED <<disk, stream, entry_index, phase>>
      BY <2>4 DEF StreamInit, IInv, PhaseSound
    <3> QED BY <3>1 DEF Image!vars
  <2>5. CASE \/ \E st \in InitErrors : StreamInitFails(st)
             \/ \E d \in Packets : Payload(d)
             \/ Finish \/ Overrun
             \/ UNCHANGED vars
    <3>1. UNCHANGED <<dry_run, disk, stream, entry_index>>
      BY <2>5 DEF StreamInitFails, Payload, Finish, Overrun, vars, ctxVars, callVars
    <3>2. (phase # "write" /\ phase' # "write") \/ UNCHANGED <<phase, loc>>
      BY <2>5 DEF StreamInitFails, Payload, Finish, Overrun, Return, vars, callVars
    <3> QED BY <3>1, <3>2 DEF Image!vars
  <2> QED BY <2>1, <2>2, <2>3, <2>4, <2>5 DEF Next, PayloadStep
<1> QED BY <1>1, <1>2, InitIInv, StepIInv, PTL DEF Spec, WritesImage, Image!Spec

-------------------------------------------------------------------------------
(* What is reported. *)

\* The slot s is one that last_sector may be the last block of.
Reported(s) ==
  /\ (last_sector + 1) * MediaBlock = TargetByte(s[1], s[2]) + Plan[s[1] + 1].byte_count
  /\ \/ s[1] + 1 = entry_index /\ s[2] = Len(Plan[entry_index].locations) - 1
     \/ Len(stream) = First(entry_index + 1) /\ s[1] = entry_index

\* LastSectorSound with its hypotheses apart, and what holds ahead of init.
ReportSound ==
  /\ ~ready => entry_index = 0
  /\ ready /\ entry_index > 0 => last_sector # NoSector
  /\ ready /\ last_sector # NoSector => \E s \in Slots : Reported(s)

\* A supported location ends with the last byte of its last sector.
LEMMA SectorEnd ==
  ASSUME NEW i \in 0 .. EntryCount - 1,
         NEW l \in 0 .. Len(Plan[i + 1].locations) - 1,
         Supported(i, l)
  PROVE  /\ EndSector(i, l) \in Nat
         /\ (EndSector(i, l) + 1) * MediaBlock = TargetByte(i, l) + Plan[i + 1].byte_count
<1>1. MediaBlock \in Nat \ {0}
  BY MediaAssumption
<1>2. \A n \in Nat : n % MediaBlock = 0 =>
        n \div MediaBlock \in Nat /\ (n \div MediaBlock) * MediaBlock = n
  BY <1>1
<1>3. /\ TargetByte(i, l) \in Nat
      /\ Plan[i + 1].byte_count \in Nat \ {0}
  BY TargetFacts, EntryFacts
<1> DEFINE t == TargetByte(i, l) \div MediaBlock
           b == Plan[i + 1].byte_count \div MediaBlock
<1>4. /\ t \in Nat /\ t * MediaBlock = TargetByte(i, l)
      /\ b \in Nat /\ b * MediaBlock = Plan[i + 1].byte_count
  BY <1>2, <1>3 DEF Supported
<1>5. EndSector(i, l) = t + b - 1
  BY DEF EndSector
<1> HIDE DEF t, b
<1>6. b # 0
  BY <1>1, <1>3, <1>4
<1>7. (t + b) * MediaBlock = t * MediaBlock + b * MediaBlock
  BY <1>1, <1>4
<1> QED BY <1>4, <1>5, <1>6, <1>7

\* While nothing is reported or completed, the report stands.
LEMMA ReportKept ==
  ASSUME IInv, ReportSound,
         UNCHANGED <<ready, entry_index, last_sector>>,
         UNCHANGED stream \/ CopyChunk
  PROVE  ReportSound'
<1>1. CASE UNCHANGED stream
  BY <1>1 DEF ReportSound, Reported
<1>2. CASE CopyChunk
  <2>1. \A s \in Slots : Reported(s) => Reported(s)'
    <3> SUFFICES ASSUME NEW s \in Slots, Reported(s) PROVE Reported(s)'
      OBVIOUS
    <3>1. CASE s[1] + 1 = entry_index /\ s[2] = Len(Plan[entry_index].locations) - 1
      BY <3>1 DEF Reported
    <3>2. CASE Len(stream) = First(entry_index + 1) /\ s[1] = entry_index
      <4>1. /\ entry_index \in 0 .. EntryCount - 1
            /\ First(entry_index + 1) = First(entry_index) + entry.byte_count
            /\ First(entry_index) \in Nat /\ entry.byte_count \in Nat
        BY <3>2, SlotFacts, EntryFacts DEF entry
      <4>2. entry_received = entry.byte_count
        BY <3>2, <4>1, CapacityAssumption DEF IInv, TypeOK, StreamPosition
      <4>3. Len(stream') = First(entry_index) + entry_received'
        BY <1>2, CopyIInv DEF IInv, StreamPosition
      <4>4. entry_received' = entry.byte_count
        <5>1. entry_received' \in Nat /\ entry_received' = entry_received + take
          BY <1>2, CopyIInv, CapacityAssumption DEF IInv, TypeOK, CopyChunk
        <5>2. pos \in 0 .. Len(packet) /\ Len(packet) \in Nat
          BY LenProperties DEF IInv, TypeOK
        <5>3. need = 0
          BY <4>1, <4>2 DEF need
        <5>4. take = 0
          BY <1>2, <5>2, <5>3 DEF take, Smaller, CopyChunk
        <5> QED BY <4>1, <4>2, <5>1, <5>4
      <4>5. Len(stream') = First(entry_index + 1)
        BY <4>1, <4>3, <4>4
      <4> QED BY <3>2, <4>5 DEF Reported
    <3> QED BY <3>1, <3>2 DEF Reported
  <2> QED BY <2>1 DEF ReportSound
<1> QED BY <1>1, <1>2

\* A write reports the location it wrote.
LEMMA ReportWritten ==
  ASSUME IInv, ReportSound, WriteOk
  PROVE  ReportSound'
<1>1. /\ phase = "write" /\ ready' = ready /\ stream' = stream
      /\ Supported(entry_index, loc)
      /\ last_sector' = EndSector(entry_index, loc)
  BY DEF WriteOk
<1>2. /\ entry_index \in 0 .. EntryCount - 1
      /\ loc \in 0 .. Len(Plan[entry_index + 1].locations) - 1
      /\ Len(stream) = First(entry_index + 1)
      /\ loc <= lastLoc
  BY <1>1, WriteFacts DEF lastLoc, entry
<1>3. /\ last_sector' \in Nat
      /\ (last_sector' + 1) * MediaBlock
           = TargetByte(entry_index, loc) + Plan[entry_index + 1].byte_count
  BY <1>1, <1>2, SectorEnd
<1>4. last_sector' # NoSector
  BY <1>3 DEF NoSector
<1>5. ready
  BY <1>1 DEF IInv, PhaseSound
<1>6. PICK s \in Slots : s[1] = entry_index /\ s[2] = loc
  <2>1. <<entry_index, loc>> \in Slots
    BY <1>2 DEF Slots
  <2> QED BY <2>1
<1>7. \/ s[1] + 1 = entry_index' /\ s[2] = Len(Plan[entry_index'].locations) - 1
      \/ Len(stream') = First(entry_index' + 1) /\ s[1] = entry_index'
  <2>1. CASE loc < lastLoc
    BY <1>1, <1>2, <1>6, <2>1 DEF WriteOk, NextLocation
  <2>2. CASE ~(loc < lastLoc)
    <3>1. entry_index' = entry_index + 1
      BY <2>2 DEF WriteOk, NextLocation
    <3>2. loc = Len(Plan[entry_index + 1].locations) - 1
      BY <1>2, <2>2, WriteFacts, <1>1 DEF lastLoc, entry
    <3> QED BY <1>6, <3>1, <3>2
  <2> QED BY <2>1, <2>2
<1>8. Reported(s)'
  BY <1>3, <1>6, <1>7 DEF Reported
<1> QED BY <1>1, <1>4, <1>5, <1>6, <1>8 DEF ReportSound

\* The last sector in a reply is the last block of the location written last, for
\* any block sizes, and is never missing once an entry is complete.
THEOREM LastSectorReported == Spec => []LastSectorSound
<1>1. Init => ReportSound
  BY DEF Init, ReportSound
<1>2. IInv /\ ReportSound /\ [Next]_vars => ReportSound'
  <2> SUFFICES ASSUME IInv, ReportSound, [Next]_vars PROVE ReportSound'
    OBVIOUS
  <2>1. CASE \E commit \in BOOLEAN : StreamInit(commit)
    BY <2>1, PlanFacts DEF StreamInit, ReportSound
  <2>2. CASE CopyChunk
    BY <2>2, ReportKept DEF CopyChunk
  <2>3. CASE WriteOk
    BY <2>3, ReportWritten
  <2>4. CASE \/ \E st \in InitErrors : StreamInitFails(st)
             \/ \E d \in Packets : Payload(d)
             \/ Finish \/ Overrun \/ Unsupported \/ WriteFails
             \/ UNCHANGED vars
    <3>1. UNCHANGED <<ready, entry_index, last_sector, stream>>
      BY <2>4 DEF StreamInitFails, Payload, Finish, Overrun, Unsupported, WriteFails,
                  vars, ctxVars
    <3> QED BY <3>1, ReportKept
  <2> QED BY <2>1, <2>2, <2>3, <2>4 DEF Next, PayloadStep
<1>3. ReportSound => LastSectorSound
  BY DEF ReportSound, Reported, LastSectorSound
<1> QED BY <1>1, <1>2, <1>3, InitIInv, StepIInv, PTL DEF Spec

===============================================================================
