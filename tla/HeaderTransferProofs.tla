------------------------ MODULE HeaderTransferProofs --------------------------
(***************************************************************************)
(* Theorems about HeaderTransfer, for every set of headers, chunk size and *)
(* limit of the buffer.                                                    *)
(*                                                                         *)
(* The bounds of the buffer are inductive with the types alone.  That only *)
(* a whole header is parsed needs that host and device agree on the place, *)
(* and that the buffer holds no more than what has been agreed on: a       *)
(* larger size, left by an earlier transfer, would make a chunk count as   *)
(* the last one.                                                           *)
(***************************************************************************)
EXTENDS HeaderTransfer, SequenceTheorems, TLAPS

\* In a transfer the size of the buffer is the place.
SizeAgreed == sent > 0 /\ ~flash_ready => buffer.header_size = sent

ReadyMeansParsed == flash_ready => parsed \in Headers

IInv ==
  TypeOK /\ BufferBounds /\ PlaceAgreed /\ SizeAgreed /\ ParsedIsAHeader /\ ReadyMeansParsed

\* For hosts that repeat an accepted header whole.
PlanInv == IInv /\ PlanStays /\ (flash_ready => sent = 0)

-------------------------------------------------------------------------------
(* Packets. *)

LEMMA HeaderFacts ==
  ASSUME NEW h \in Headers
  PROVE  h \in Seq(Nat) /\ Len(h) \in Nat \ {0}
BY HeaderAssumption, EmptySeq

\* What a packet carries: bytes of its header from its offset on; from the middle
\* of a header only the next ones of the transfer in hand.
Sound(p) ==
  /\ p.v2 \in BOOLEAN
  /\ p.of \in Headers
  /\ p.total_len = Len(p.of)
  /\ p.bytes \in Seq(Nat) /\ Len(p.bytes) \in Nat \ {0}
  /\ p.file_offset \in Nat
  /\ p.file_offset + Len(p.bytes) <= Len(p.of)
  /\ \A k \in 1 .. Len(p.bytes) : p.bytes[k] = p.of[p.file_offset + k]
  /\ ~p.v2 => p.file_offset = 0 /\ Len(p.bytes) = Len(p.of)
  /\ p.file_offset # 0 => p.v2 /\ p.file_offset = sent /\ p.of = image
  /\ flash_ready /\ p.file_offset = 0 =>
       p.of = parsed /\ (ResendInChunks \/ Len(p.bytes) = Len(p.of))

\* A piece of a header is its bytes in order.
LEMMA PieceFacts ==
  ASSUME NEW h \in Seq(Nat), NEW a \in Nat, NEW n \in Nat, a + n <= Len(h)
  PROVE  /\ SubSeq(h, a + 1, a + n) \in Seq(Nat)
         /\ Len(SubSeq(h, a + 1, a + n)) = n
         /\ \A k \in 1 .. n : SubSeq(h, a + 1, a + n)[k] = h[a + k]
<1>1. \A i \in a + 1 .. a + n : h[i] \in Nat
  BY ElementOfSeq
<1> DEFINE from == a + 1
           to == a + n
           piece == SubSeq(h, from, to)
<1>2. from \in Int /\ to \in Int /\ to - from + 1 = n
  OBVIOUS
<1>3. \A k \in 1 .. n : from + k - 1 = a + k
  OBVIOUS
<1>4. IF from <= to THEN to - from + 1 = n ELSE n = 0
  OBVIOUS
<1>5. \A i \in from .. to : h[i] \in Nat
  BY <1>1
<1> HIDE DEF from, to
<1>6. /\ piece \in Seq(Nat)
      /\ Len(piece) = IF from <= to THEN to - from + 1 ELSE 0
      /\ \A k \in 1 .. to - from + 1 : piece[k] = h[from + k - 1]
  BY <1>2, <1>5, SubSeqProperties
<1>7. piece \in Seq(Nat) /\ Len(piece) = n /\ \A k \in 1 .. n : piece[k] = h[a + k]
  BY <1>2, <1>3, <1>4, <1>6
<1> QED BY <1>7 DEF from, to

LEMMA PacketSound ==
  ASSUME TypeOK, ReadyMeansParsed, NEW p \in Packets
  PROVE  Sound(p)
<1>1. \A h \in Sendable : h \in Headers /\ (flash_ready => h = parsed)
  BY DEF Sendable, ReadyMeansParsed
<1>2. CASE p \in V1Packets
  <2>1. PICK h \in Sendable : p = Packet(FALSE, 0, h, h)
    BY <1>2 DEF V1Packets
  <2>2. h \in Seq(Nat) /\ Len(h) \in Nat \ {0}
    BY <1>1, HeaderFacts
  <2> QED BY <1>1, <2>1, <2>2 DEF Packet, Sound
<1>3. CASE p \in FirstChunks
  <2> PICK h \in Sendable : \E n \in ChunkLengths(h) \cap 1 .. MaxChunk :
             p = Packet(TRUE, 0, h, SubSeq(h, 1, n))
    BY <1>3 DEF FirstChunks
  <2>1. PICK n \in ChunkLengths(h) \cap 1 .. MaxChunk : p = Packet(TRUE, 0, h, SubSeq(h, 1, n))
    OBVIOUS
  <2>2. h \in Seq(Nat) /\ Len(h) \in Nat \ {0}
    BY <1>1, HeaderFacts
  <2>3. n \in 1 .. Len(h) /\ (flash_ready => ResendInChunks \/ n = Len(h))
    BY <2>1, <2>2 DEF ChunkLengths
  <2>4. /\ SubSeq(h, 0 + 1, 0 + n) \in Seq(Nat)
        /\ Len(SubSeq(h, 0 + 1, 0 + n)) = n
        /\ \A k \in 1 .. n : SubSeq(h, 0 + 1, 0 + n)[k] = h[0 + k]
    BY <2>2, <2>3, PieceFacts
  <2>5. 0 + 1 = 1 /\ 0 + n = n
    BY <2>3
  <2> QED BY <1>1, <2>1, <2>2, <2>3, <2>4, <2>5 DEF Packet, Sound
<1>4. CASE p \in NextChunks
  <2>1. PICK n \in 1 .. Smaller(MaxChunk, Len(image) - sent) :
               sent > 0 /\ p = Packet(TRUE, sent, image, SubSeq(image, sent + 1, sent + n))
    BY <1>4 DEF NextChunks
  <2>2. image \in Headers /\ image \in Seq(Nat) /\ Len(image) \in Nat \ {0}
    BY HeaderFacts DEF TypeOK
  <2>3. sent \in Nat \ {0} /\ sent + n <= Len(image) /\ n \in Nat \ {0}
    BY <2>1, <2>2, HeaderAssumption DEF TypeOK, Smaller
  <2>4. /\ SubSeq(image, sent + 1, sent + n) \in Seq(Nat)
        /\ Len(SubSeq(image, sent + 1, sent + n)) = n
        /\ \A k \in 1 .. n : SubSeq(image, sent + 1, sent + n)[k] = image[sent + k]
    BY <2>2, <2>3, PieceFacts
  <2> QED BY <2>1, <2>2, <2>3, <2>4 DEF Packet, Sound
<1> QED BY <1>2, <1>3, <1>4 DEF Packets, V2Packets

-------------------------------------------------------------------------------
(* The buffer. *)

BufferType == [header : Seq(Nat), header_size : Nat, header_cap : Nat]

\* A buffer whose size and capacity agree with its bytes.
Bounded(b) ==
  /\ b \in BufferType
  /\ Len(b.header) = b.header_cap
  /\ b.header_size <= b.header_cap
  /\ b.header_cap <= CapLimit
  /\ b.header_cap = 0 => b = NoBuffer

LEMMA NoBufferBounded == Bounded(NoBuffer)
BY HeaderAssumption, EmptySeq DEF Bounded, BufferType, NoBuffer

\* Bytes by position make a sequence.
LEMMA ByPosition ==
  ASSUME NEW n \in Nat, NEW f, f \in [1 .. n -> Nat]
  PROVE  f \in Seq(Nat) /\ Len(f) = n
OBVIOUS

\* The capacity asked for is enough.
LEMMA AlignUpEnough ==
  ASSUME NEW value \in Nat
  PROVE  align_up(value, CapUnit) \in Nat /\ align_up(value, CapUnit) >= value
<1>1. CapUnit \in Nat \ {0}
  BY HeaderAssumption
<1>2. value % CapUnit \in 0 .. CapUnit - 1
  BY <1>1
<1> QED BY <1>1, <1>2 DEF align_up

\* Where a packet's bytes go lies inside the buffer, or right behind its bytes.
LEMMA BaseFacts ==
  ASSUME TypeOK, BufferBounds, NEW p, Sound(p)
  PROVE  /\ Bounded(Base(p))
         /\ copy_offset(p) \in Nat /\ copy_offset(p) <= Base(p).header_size
         /\ need(p) = copy_offset(p) + Len(p.bytes)
         /\ need(p) \in Nat \ {0}
<1>1. Bounded(buffer)
  BY DEF TypeOK, BufferBounds, Bounded, BufferType
<1>2. Bounded(Base(p))
  BY <1>1, NoBufferBounded DEF Base
<1>3. copy_offset(p) \in Nat /\ copy_offset(p) <= Base(p).header_size
  <2>1. CASE p.v2 /\ ~StartsOver(p)
    BY <2>1 DEF copy_offset, Base, TypeOK, BufferBounds
  <2>2. CASE ~(p.v2 /\ ~StartsOver(p))
    BY <2>2, <1>2 DEF copy_offset, Bounded, BufferType
  <2> QED BY <2>1, <2>2
<1> QED BY <1>2, <1>3 DEF need, Sound

\* After the copy: the packet's bytes are in their place, the bytes ahead of them are
\* what they were, and the sizes agree.
LEMMA StoredFacts ==
  ASSUME TypeOK, BufferBounds, NEW p, Sound(p), Fits(p) \/ new_cap(p) <= CapLimit
  PROVE  /\ Bounded(Stored(p))
         /\ Stored(p).header_size = Larger(Base(p).header_size, need(p))
         /\ p.total_len <= Stored(p).header_cap
         /\ Stored(p).header_cap # 0
         /\ \A k \in 1 .. copy_offset(p) : Stored(p).header[k] = Base(p).header[k]
         /\ \A k \in 1 .. Len(p.bytes) : Stored(p).header[copy_offset(p) + k] = p.bytes[k]
<1> DEFINE b == Base(p)
           c == copy_offset(p)
           n == need(p)
           room == Larger(n, p.total_len)
<1>1. /\ b \in BufferType /\ Len(b.header) = b.header_cap
      /\ b.header_size <= b.header_cap /\ b.header_cap <= CapLimit
      /\ c \in Nat /\ c <= b.header_size
      /\ n = c + Len(p.bytes) /\ n \in Nat \ {0}
  BY BaseFacts DEF Bounded
<1>2. /\ p.total_len \in Nat \ {0} /\ Len(p.bytes) \in Nat \ {0}
      /\ p.bytes \in Seq(Nat)
  BY HeaderFacts DEF Sound
<1>3. room \in Nat /\ n <= room /\ p.total_len <= room
  BY <1>1, <1>2 DEF Larger
<1>4. new_cap(p) \in Nat /\ new_cap(p) >= room
  BY <1>3, AlignUpEnough DEF new_cap
<1>5. /\ b.header \in Seq(Nat) /\ b.header_size \in Nat /\ b.header_cap \in Nat
      /\ b = [header |-> b.header, header_size |-> b.header_size, header_cap |-> b.header_cap]
  BY <1>1 DEF BufferType
<1>6. \A k \in 1 .. b.header_cap : b.header[k] \in Nat
  BY <1>1, <1>5, ElementOfSeq
<1> HIDE DEF b, c, n, room
<1>7. PICK bytes, cap :
        /\ Roomy(p) = [header |-> bytes, header_size |-> b.header_size, header_cap |-> cap]
        /\ cap \in Nat /\ room <= cap /\ cap <= CapLimit /\ b.header_size <= cap
        /\ bytes \in [1 .. cap -> Nat]
        /\ \A k \in 1 .. b.header_size : bytes[k] = b.header[k]
  <2>1. CASE Fits(p)
    <3>1. Roomy(p) = b /\ room <= b.header_cap
      BY <2>1 DEF Roomy, Fits, b, room, n
    <3>2. b.header \in [1 .. b.header_cap -> Nat]
      BY <1>1, <1>5
    <3> QED BY <3>1, <3>2, <1>1, <1>5
  <2>2. CASE ~Fits(p)
    <3> DEFINE new == [k \in 1 .. new_cap(p) |->
                         IF k <= b.header_size THEN b.header[k] ELSE ZeroByte]
    <3>1. Roomy(p) = [header |-> new, header_size |-> b.header_size, header_cap |-> new_cap(p)]
      BY <2>2 DEF Roomy, b
    <3>2. b.header_cap < room
      BY <2>2, <1>3, <1>5 DEF Fits, b, room, n
    <3>3. b.header_size <= new_cap(p) /\ new_cap(p) <= CapLimit
      BY <2>2, <3>2, <1>1, <1>3, <1>4, <1>5
    <3>4. new \in [1 .. new_cap(p) -> Nat]
      BY <1>1, <1>4, <1>5, <1>6 DEF ZeroByte
    <3>5. \A k \in 1 .. b.header_size : new[k] = b.header[k]
      BY <3>3, <1>4, <1>5
    <3> HIDE DEF new
    <3> QED BY <3>1, <3>3, <3>4, <3>5, <1>4
  <2> QED BY <2>1, <2>2
<1> DEFINE copied == [k \in 1 .. cap |-> IF k > c /\ k <= n THEN p.bytes[k - c] ELSE bytes[k]]
<1>8. Stored(p) = [header |-> copied, header_size |-> Larger(b.header_size, n), header_cap |-> cap]
  <2>1. DOMAIN bytes = 1 .. cap
    BY <1>7
  <2>2. /\ Roomy(p).header = bytes /\ Roomy(p).header_size = b.header_size
        /\ Roomy(p).header_cap = cap
    BY <1>7
  <2> QED BY <2>1, <2>2 DEF Stored, c, n
<1>9. copied \in Seq(Nat) /\ Len(copied) = cap
  <2>1. \A k \in 1 .. cap : k > c /\ k <= n => p.bytes[k - c] \in Nat
    BY <1>1, <1>2, <1>7, ElementOfSeq
  <2>2. copied \in [1 .. cap -> Nat]
    BY <2>1, <1>7
  <2> HIDE DEF copied
  <2> QED BY <2>2, <1>7, ByPosition
<1>10. /\ \A k \in 1 .. c : copied[k] = b.header[k]
       /\ \A k \in 1 .. Len(p.bytes) : copied[c + k] = p.bytes[k]
  <2>1. \A k \in 1 .. c : k \in 1 .. cap /\ k \in 1 .. b.header_size /\ ~(k > c)
    BY <1>1, <1>5, <1>7
  <2>2. \A k \in 1 .. Len(p.bytes) : c + k \in 1 .. cap /\ c + k > c /\ c + k <= n /\ (c + k) - c = k
    BY <1>1, <1>2, <1>3, <1>7
  <2> QED BY <2>1, <2>2, <1>7
<1>11. /\ Larger(b.header_size, n) \in Nat /\ Larger(b.header_size, n) <= cap
       /\ cap # 0 /\ p.total_len <= cap
  BY <1>1, <1>2, <1>3, <1>5, <1>7 DEF Larger
<1> HIDE DEF copied
<1>12. Bounded(Stored(p))
  BY <1>7, <1>8, <1>9, <1>11 DEF Bounded, BufferType
<1> QED BY <1>8, <1>10, <1>11, <1>12 DEF b, c, n

\* What is given to the parser is the header of the packet, which is its last one.
LEMMA GivenIsTheHeader ==
  ASSUME TypeOK, BufferBounds, PlaceAgreed, SizeAgreed, NEW p, Sound(p),
         Store(p), Complete(p), ~flash_ready
  PROVE  /\ Given(p) = p.of
         /\ p.file_offset + Len(p.bytes) = Len(p.of)
<1>1. /\ Stored(p).header_size = Larger(Base(p).header_size, need(p))
      /\ \A k \in 1 .. copy_offset(p) : Stored(p).header[k] = Base(p).header[k]
      /\ \A k \in 1 .. Len(p.bytes) : Stored(p).header[copy_offset(p) + k] = p.bytes[k]
  BY StoredFacts DEF Store
<1>2. p.of \in Seq(Nat) /\ Len(p.of) \in Nat \ {0}
  BY HeaderFacts DEF Sound
<1>3. Larger(Base(p).header_size, need(p)) >= Len(p.of)
  BY <1>1 DEF Complete, Sound
<1>4. need(p) = copy_offset(p) + Len(p.bytes) /\ need(p) \in Nat
  BY BaseFacts
<1>5. /\ copy_offset(p) = p.file_offset
      /\ \A k \in 1 .. p.file_offset : Stored(p).header[k] = p.of[k]
      /\ p.file_offset + Len(p.bytes) = Len(p.of)
  <2>1. CASE p.file_offset = 0 /\ ~p.v2
    BY <2>1 DEF Sound, copy_offset
  <2>2. CASE p.file_offset = 0 /\ p.v2
    <3>1. Base(p) = NoBuffer /\ copy_offset(p) = 0
      BY <2>2 DEF Base, StartsOver, copy_offset
    <3>2. need(p) = Len(p.bytes) /\ Base(p).header_size = 0
      BY <3>1, <1>4 DEF NoBuffer, Sound
    <3> QED BY <2>2, <3>1, <3>2, <1>2, <1>3 DEF Sound, Larger
  <2>3. CASE p.file_offset # 0
    <3>1. p.v2 /\ p.file_offset = sent /\ p.of = image /\ sent > 0 /\ ~StartsOver(p)
      BY <2>3 DEF Sound, StartsOver
    <3>2. Base(p) = buffer /\ copy_offset(p) = header_v2_received
      BY <3>1 DEF Base, copy_offset
    <3>3. header_v2_received = sent /\ buffer.header_size = sent
      BY <3>1 DEF PlaceAgreed, SizeAgreed
    <3>4. \A k \in 1 .. sent : buffer.header[k] = image[k]
      BY <3>1 DEF PlaceAgreed
    <3>5. need(p) = sent + Len(p.bytes) /\ sent \in Nat
      BY <1>4, <3>1, <3>2, <3>3 DEF Sound
    <3>6. sent + Len(p.bytes) >= Len(p.of)
      BY <1>3, <3>2, <3>3, <3>5 DEF Larger, Sound
    <3>7. copy_offset(p) = p.file_offset
      BY <3>1, <3>2, <3>3
    <3>8. \A k \in 1 .. p.file_offset : Stored(p).header[k] = p.of[k]
      BY <1>1, <3>1, <3>2, <3>3, <3>4
    <3>9. p.file_offset + Len(p.bytes) = Len(p.of)
      <4>1. /\ sent \in Nat /\ Len(p.bytes) \in Nat /\ Len(p.of) \in Nat
            /\ sent + Len(p.bytes) <= Len(p.of)
        BY <1>2, <3>1, <3>5 DEF Sound
      <4> QED BY <3>1, <3>6, <4>1
    <3> QED BY <3>7, <3>8, <3>9
  <2> QED BY <2>1, <2>2, <2>3
<1>6. \A k \in 1 .. Len(p.of) : Stored(p).header[k] = p.of[k]
  <2> SUFFICES ASSUME NEW k \in 1 .. Len(p.of)
               PROVE  Stored(p).header[k] = p.of[k]
    OBVIOUS
  <2>1. CASE k <= p.file_offset
    BY <2>1, <1>5 DEF Sound
  <2>2. CASE k > p.file_offset
    <3> DEFINE j == k - p.file_offset
    <3>1. j \in 1 .. Len(p.bytes) /\ p.file_offset + j = k
      BY <2>2, <1>2, <1>5 DEF Sound
    <3> HIDE DEF j
    <3> QED BY <3>1, <1>1, <1>5 DEF Sound
  <2> QED BY <2>1, <2>2, <1>5 DEF Sound
<1>7. p.of = [k \in 1 .. Len(p.of) |-> p.of[k]]
  BY <1>2
<1> QED BY <1>5, <1>6, <1>7 DEF Given, Sound

\* The types of what the host knows.
HostType ==
  reply \in Nat /\ image \in Headers /\ sent \in 0 .. Len(image) - 1

\* After a reply that says success the host goes on if the header has more bytes.
LEMMA HostGoesOn ==
  ASSUME NEW p, Sound(p), HostReads(p, 0)
  PROVE  /\ HostType' /\ image' = p.of
         /\ p.file_offset + Len(p.bytes) = Len(p.of) => sent' = 0
         /\ sent' # 0 => sent' = p.file_offset + Len(p.bytes)
<1>1. Len(p.of) \in Nat \ {0} /\ p.of \in Headers
  BY HeaderFacts DEF Sound
<1>2. p.file_offset \in Nat /\ Len(p.bytes) \in Nat
  BY DEF Sound
<1> QED BY <1>1, <1>2 DEF HostReads, HostType

\* After any other it starts over.
Refusal(status) == status \in Nat \ {0}

LEMMA HostStartsOver ==
  ASSUME NEW p, Sound(p), NEW status, Refusal(status), HostReads(p, status)
  PROVE  HostType' /\ sent' = 0
<1>1. Len(p.of) \in Nat \ {0} /\ p.of \in Headers
  BY HeaderFacts DEF Sound
<1>2. status # 0 /\ status \in Nat
  BY DEF Refusal
<1>3. reply' = status /\ image' = p.of /\ sent' = 0
  BY <1>2 DEF HostReads
<1> QED BY <1>1, <1>2, <1>3 DEF HostType

\* An EFI_STATUS that is an error is a status other than 0 on the wire.
LEMMA ErrorStatus ==
  ASSUME NEW st \in {EFI_VOLUME_CORRUPTED, EFI_UNSUPPORTED, EFI_OUT_OF_RESOURCES}
  PROVE  Refusal(status_from_efi(st))
<1>1. 2 ^ 16 = 65536
  OBVIOUS
<1>2. 3 % 65536 = 3 /\ 9 % 65536 = 9 /\ 10 % 65536 = 10
  OBVIOUS
<1>3. st.error = TRUE /\ st.code \in {3, 9, 10}
  BY DEF EFI_VOLUME_CORRUPTED, EFI_UNSUPPORTED, EFI_OUT_OF_RESOURCES, EFIERR
<1>4. status_from_efi(st) = st.code % 65536
  BY <1>1, <1>3 DEF status_from_efi
<1>5. st.code % 65536 \in {3, 9, 10}
  BY <1>2, <1>3
<1>6. status_from_efi(st) \in {3, 9, 10}
  BY <1>4, <1>5
<1> QED BY <1>6 DEF Refusal

\* The types that a step takes over, apart from those of the buffer.
LEMMA Unpacked ==
  ASSUME IInv
  PROVE  /\ TypeOK /\ BufferBounds /\ PlaceAgreed /\ SizeAgreed
         /\ ParsedIsAHeader /\ ReadyMeansParsed
         /\ flash_ready \in BOOLEAN /\ aliased \in BOOLEAN
         /\ image \in Headers
<1>1. /\ TypeOK /\ BufferBounds /\ PlaceAgreed /\ SizeAgreed
      /\ ParsedIsAHeader /\ ReadyMeansParsed
  BY DEF IInv
<1>2. flash_ready \in BOOLEAN
  BY <1>1 DEF TypeOK
<1>3. aliased \in BOOLEAN
  BY <1>1 DEF TypeOK
<1>4. image \in Headers
  BY <1>1 DEF TypeOK
<1> QED BY <1>1, <1>2, <1>3, <1>4

\* TypeOK from its parts.
LEMMA ByParts ==
  ASSUME buffer' \in BufferType, Len(buffer'.header) = buffer'.header_cap,
         header_v2_received' \in Nat, flash_ready' \in BOOLEAN, aliased' \in BOOLEAN,
         HostType'
  PROVE  TypeOK'
BY DEF TypeOK, BufferType, HostType

\* With nothing in transfer, a bounded buffer and a receive index inside it, a
\* step that parses nothing keeps the invariant.
LEMMA QuietStep ==
  ASSUME IInv, Bounded(buffer'), header_v2_received' \in Nat,
         header_v2_received' <= buffer'.header_size,
         flash_ready' = flash_ready, parsed' = parsed, aliased' \in BOOLEAN,
         HostType', sent' = 0 \/ flash_ready
  PROVE  IInv'
<1>1. /\ buffer' \in BufferType /\ Len(buffer'.header) = buffer'.header_cap
      /\ BufferBounds'
  BY DEF Bounded, BufferBounds
<1>2. flash_ready' \in BOOLEAN
  BY Unpacked
<1>3. TypeOK'
  BY <1>1, <1>2, ByParts
<1>4. PlaceAgreed' /\ SizeAgreed'
  BY DEF PlaceAgreed, SizeAgreed
<1>5. ParsedIsAHeader' /\ ReadyMeansParsed'
  BY Unpacked DEF ParsedIsAHeader, ReadyMeansParsed
<1> QED BY <1>1, <1>3, <1>4, <1>5 DEF IInv

LEMMA InitIInv == Init => IInv
<1> SUFFICES ASSUME Init PROVE IInv
  OBVIOUS
<1>1. Bounded(buffer)
  BY NoBufferBounded DEF Init
<1>2. Len(image) \in Nat \ {0} /\ image \in Headers
  BY HeaderFacts DEF Init
<1>3. /\ header_v2_received = 0 /\ flash_ready = FALSE /\ aliased = FALSE
      /\ reply = 0 /\ sent = 0 /\ parsed = <<>>
  BY DEF Init
<1>4. header_v2_received <= buffer.header_size
  BY <1>1, <1>3 DEF Bounded, BufferType
<1>5. TypeOK
  <2>1. buffer \in BufferType /\ Len(buffer.header) = buffer.header_cap
    BY <1>1 DEF Bounded
  <2>2. HostType
    BY <1>2, <1>3 DEF HostType
  <2>3. header_v2_received \in Nat /\ flash_ready \in BOOLEAN /\ aliased \in BOOLEAN
    BY <1>3
  <2> QED BY <2>1, <2>2, <2>3 DEF TypeOK, BufferType, HostType
<1>6. BufferBounds
  BY <1>1, <1>4 DEF BufferBounds, Bounded
<1> QED BY <1>3, <1>5, <1>6 DEF IInv, PlaceAgreed, SizeAgreed, ParsedIsAHeader, ReadyMeansParsed

LEMMA StepRefused ==
  ASSUME IInv, PacketRefused \/ StrayChunkRefused
  PROVE  IInv'
<1>1. Bounded(buffer)
  BY DEF IInv, TypeOK, BufferBounds, Bounded, BufferType
<1>2. Len(image) \in Nat \ {0}
  BY HeaderFacts DEF IInv, TypeOK
<1>3. /\ Bounded(buffer') /\ header_v2_received' \in Nat
      /\ header_v2_received' <= buffer'.header_size
  BY <1>1 DEF PacketRefused, StrayChunkRefused, IInv, TypeOK, BufferBounds, Bounded, BufferType
<1>4. flash_ready' = flash_ready /\ parsed' = parsed /\ aliased' = aliased
  BY DEF PacketRefused, StrayChunkRefused
<1>5. image' = image /\ sent' = 0 /\ reply' \in {8, 15, 16}
  BY DEF PacketRefused, StrayChunkRefused
<1>6. HostType' /\ sent' = 0
  BY <1>2, <1>5, Unpacked DEF HostType
<1> QED BY <1>3, <1>4, <1>6, Unpacked, QuietStep

LEMMA StepChunkRefused ==
  ASSUME IInv, NEW p, Sound(p), ChunkRefused(p)
  PROVE  IInv' /\ sent' = 0
<1>1. /\ Bounded(buffer') /\ header_v2_received' \in Nat
      /\ header_v2_received' <= buffer'.header_size
  BY DEF ChunkRefused, IInv, TypeOK, BufferBounds, Bounded, BufferType
<1>2. HostReads(p, 16) /\ Refusal(16)
  BY DEF ChunkRefused, Refusal
<1>3. HostType' /\ sent' = 0
  BY <1>2, HostStartsOver, Zenon
<1>4. flash_ready' = flash_ready /\ parsed' = parsed /\ aliased' \in BOOLEAN
  BY Unpacked DEF ChunkRefused
<1> QED BY <1>1, <1>3, <1>4, QuietStep

LEMMA StepNotStored ==
  ASSUME IInv, NEW p, Sound(p), NEW status \in {1, 4}, NotStored(p, status)
  PROVE  IInv' /\ sent' = 0
<1>1. Bounded(Base(p)) /\ copy_offset(p) \in Nat /\ copy_offset(p) <= Base(p).header_size
  BY BaseFacts DEF IInv
<1>2. /\ Bounded(buffer') /\ header_v2_received' \in Nat
      /\ header_v2_received' <= buffer'.header_size
  BY <1>1 DEF NotStored
<1>3. HostReads(p, status) /\ Refusal(status)
  BY DEF NotStored, Refusal
<1>4. HostType' /\ sent' = 0
  BY <1>3, HostStartsOver, Zenon
<1>5. flash_ready' = flash_ready /\ parsed' = parsed /\ aliased' \in BOOLEAN
  BY Unpacked DEF NotStored
<1> QED BY <1>2, <1>4, <1>5, QuietStep

\* A chunk that is not the last is where the host has it, and the size of the buffer
\* is its end.
LEMMA StepStorePart ==
  ASSUME IInv, NEW p, Sound(p), StorePart(p)
  PROVE  IInv'
<1>1. /\ Bounded(buffer')
      /\ buffer'.header_size = Larger(Base(p).header_size, need(p))
      /\ \A k \in 1 .. copy_offset(p) : buffer'.header[k] = Base(p).header[k]
      /\ \A k \in 1 .. Len(p.bytes) : buffer'.header[copy_offset(p) + k] = p.bytes[k]
  BY StoredFacts DEF StorePart, Store, IInv
<1>2. /\ Base(p).header_size \in Nat /\ copy_offset(p) \in Nat
      /\ need(p) = copy_offset(p) + Len(p.bytes) /\ need(p) \in Nat
  BY BaseFacts DEF IInv, Bounded, BufferType
<1>3. /\ HostType' /\ image' = p.of
      /\ sent' # 0 => sent' = p.file_offset + Len(p.bytes)
  BY HostGoesOn, Zenon DEF StorePart
<1>4. /\ header_v2_received' = need(p)
      /\ flash_ready' = flash_ready /\ parsed' = parsed /\ aliased' \in BOOLEAN
  BY Unpacked DEF StorePart
<1>5. header_v2_received' \in Nat /\ header_v2_received' <= buffer'.header_size
  BY <1>1, <1>2, <1>4 DEF Larger
<1>6. CASE sent' = 0 \/ flash_ready
  BY <1>1, <1>3, <1>4, <1>5, <1>6, QuietStep
<1>7. CASE sent' # 0 /\ ~flash_ready
  <2>1. p.v2
    BY <1>3, <1>7 DEF StorePart, HostReads
  <2>2. /\ copy_offset(p) = p.file_offset /\ Base(p).header_size = p.file_offset
        /\ \A k \in 1 .. p.file_offset : Base(p).header[k] = p.of[k]
    <3>1. CASE p.file_offset = 0
      BY <1>7, <2>1, <3>1 DEF Base, StartsOver, copy_offset, NoBuffer
    <3>2. CASE p.file_offset # 0
      <4>1. p.file_offset = sent /\ sent > 0 /\ p.of = image
        BY <3>2 DEF Sound
      <4>2. Base(p) = buffer /\ copy_offset(p) = header_v2_received
        BY <2>1, <3>2 DEF Base, StartsOver, copy_offset
      <4> QED BY <1>7, <4>1, <4>2 DEF IInv, PlaceAgreed, SizeAgreed
    <3> QED BY <3>1, <3>2
  <2>3. need(p) = sent' /\ buffer'.header_size = sent'
    <3>1. sent' = p.file_offset + Len(p.bytes)
      BY <1>3, <1>7
    <3>2. p.file_offset \in Nat /\ Len(p.bytes) \in Nat
      BY DEF Sound
    <3> QED BY <1>1, <1>2, <2>2, <3>1, <3>2 DEF Larger
  <2>4. \A k \in 1 .. sent' : buffer'.header[k] = image'[k]
    <3> SUFFICES ASSUME NEW k \in 1 .. sent'
                 PROVE  buffer'.header[k] = p.of[k]
      BY <1>3
    <3>1. CASE k <= p.file_offset
      BY <1>1, <2>2, <3>1 DEF Sound
    <3>2. CASE k > p.file_offset
      <4> DEFINE j == k - p.file_offset
      <4>1. j \in 1 .. Len(p.bytes) /\ p.file_offset + j = k
        BY <1>3, <1>7, <3>2 DEF Sound
      <4> HIDE DEF j
      <4> QED BY <1>1, <2>2, <4>1 DEF Sound
    <3> QED BY <3>1, <3>2, <1>3 DEF Sound
  <2>5. PlaceAgreed' /\ SizeAgreed'
    BY <1>4, <2>3, <2>4 DEF PlaceAgreed, SizeAgreed
  <2>6. ParsedIsAHeader' /\ ReadyMeansParsed'
    BY <1>4 DEF IInv, ParsedIsAHeader, ReadyMeansParsed
  <2>7. BufferBounds'
    BY <1>1, <1>5 DEF BufferBounds, Bounded
  <2>8. TypeOK'
    <3>1. flash_ready' \in BOOLEAN
      BY <1>4, Unpacked
    <3>2. buffer' \in BufferType /\ Len(buffer'.header) = buffer'.header_cap
      BY <1>1 DEF Bounded
    <3> QED BY <1>3, <1>4, <1>5, <3>1, <3>2, ByParts
  <2> QED BY <2>5, <2>6, <2>7, <2>8 DEF IInv
<1> QED BY <1>6, <1>7

LEMMA StepStoreAgain ==
  ASSUME IInv, NEW p, Sound(p), StoreAgain(p)
  PROVE  IInv'
<1>1. Bounded(buffer')
  BY StoredFacts DEF StoreAgain, Store, IInv
<1>2. HostType'
  BY HostGoesOn, Zenon DEF StoreAgain
<1>3. /\ flash_ready' = flash_ready /\ parsed' = parsed /\ aliased' \in BOOLEAN
      /\ flash_ready /\ header_v2_received' = 0
  BY Unpacked DEF StoreAgain
<1>4. header_v2_received' \in Nat /\ header_v2_received' <= buffer'.header_size
  BY <1>1, <1>3 DEF Bounded, BufferType
<1> QED BY <1>1, <1>2, <1>3, <1>4, QuietStep

\* What is parsed is the header, whether it is accepted or not, and the host has
\* nothing left to send.
LEMMA StepParsed ==
  ASSUME IInv, NEW p, Sound(p), HeaderAccepted(p) \/ HeaderRejected(p)
  PROVE  IInv' /\ sent' = 0
<1>1. Store(p) /\ Complete(p) /\ ~flash_ready /\ parsed' = Given(p) /\ header_v2_received' = 0
  BY DEF HeaderAccepted, HeaderRejected, ParseHeader
<1>2. parsed' = p.of /\ p.file_offset + Len(p.bytes) = Len(p.of)
  BY <1>1, GivenIsTheHeader DEF IInv
<1>3. parsed' \in Headers
  BY <1>2 DEF Sound
<1>4. Bounded(buffer')
  BY <1>1, StoredFacts DEF Store, IInv
<1>5. HostType' /\ sent' = 0
  <2>1. CASE HeaderAccepted(p)
    <3>1. HostReads(p, 0)
      BY <2>1 DEF HeaderAccepted
    <3> QED BY <1>2, <3>1, HostGoesOn, Zenon
  <2>2. CASE HeaderRejected(p)
    <3>1. PICK st \in {EFI_VOLUME_CORRUPTED, EFI_UNSUPPORTED, EFI_OUT_OF_RESOURCES} :
                 HostReads(p, status_from_efi(st))
      BY <2>2 DEF HeaderRejected
    <3> QED BY <3>1, ErrorStatus, HostStartsOver, Zenon
  <2> QED BY <2>1, <2>2
<1>6. flash_ready' \in BOOLEAN /\ aliased' \in BOOLEAN
  BY Unpacked DEF HeaderAccepted, HeaderRejected
<1>7. TypeOK' /\ BufferBounds'
  <2>1. header_v2_received' \in Nat /\ header_v2_received' <= buffer'.header_size
    BY <1>1, <1>4 DEF Bounded, BufferType
  <2>2. buffer' \in BufferType /\ Len(buffer'.header) = buffer'.header_cap
    BY <1>4 DEF Bounded
  <2>3. TypeOK'
    BY <1>5, <1>6, <2>1, <2>2, ByParts
  <2> QED BY <1>4, <2>1, <2>3 DEF BufferBounds, Bounded
<1> QED BY <1>3, <1>5, <1>7 DEF IInv, PlaceAgreed, SizeAgreed, ParsedIsAHeader, ReadyMeansParsed

LEMMA StepIInv == IInv /\ [Next]_vars => IInv'
<1> SUFFICES ASSUME IInv, [Next]_vars PROVE IInv'
  OBVIOUS
<1>1. CASE UNCHANGED vars
  <2>1. TypeOK'
    <3>1. /\ buffer' = buffer /\ header_v2_received' = header_v2_received
          /\ reply' = reply /\ image' = image /\ sent' = sent
          /\ flash_ready' = flash_ready /\ aliased' = aliased
      BY <1>1 DEF vars
    <3>2. /\ buffer' \in BufferType /\ Len(buffer'.header) = buffer'.header_cap
          /\ header_v2_received' \in Nat
      BY <3>1, Unpacked DEF TypeOK, BufferType
    <3>3. flash_ready' \in BOOLEAN /\ aliased' \in BOOLEAN
      BY <3>1, Unpacked
    <3>4. HostType
      BY Unpacked DEF TypeOK, HostType
    <3>5. HostType'
      BY <3>1, <3>4 DEF HostType
    <3> QED BY <3>2, <3>3, <3>5, ByParts
  <2>2. BufferBounds'
    BY <1>1, Unpacked DEF vars, BufferBounds
  <2>3. PlaceAgreed' /\ SizeAgreed'
    BY <1>1, Unpacked DEF vars, PlaceAgreed, SizeAgreed
  <2>4. ParsedIsAHeader' /\ ReadyMeansParsed'
    BY <1>1, Unpacked DEF vars, ParsedIsAHeader, ReadyMeansParsed
  <2> QED BY <2>1, <2>2, <2>3, <2>4 DEF IInv
<1>2. CASE PacketRefused \/ StrayChunkRefused
  BY <1>2, StepRefused
<1>3. ASSUME NEW p \in Packets, HandlePacket(p) PROVE IInv'
  <2> Sound(p)
    BY PacketSound DEF IInv
  <2>1. CASE ChunkRefused(p)
    BY <2>1, StepChunkRefused
  <2>2. CASE HeaderTooLarge(p) \/ NoMemory(p)
    BY <2>2, StepNotStored DEF HeaderTooLarge, NoMemory
  <2>3. CASE StorePart(p)
    BY <2>3, StepStorePart
  <2>4. CASE StoreAgain(p)
    BY <2>4, StepStoreAgain
  <2>5. CASE HeaderAccepted(p) \/ HeaderRejected(p)
    BY <2>5, StepParsed
  <2> QED BY <1>3, <2>1, <2>2, <2>3, <2>4, <2>5 DEF HandlePacket
<1> QED BY <1>1, <1>2, <1>3 DEF Next

-------------------------------------------------------------------------------
(* The plan of a context that is ready. *)

\* A packet to a ready context is its header as a whole, and fits the buffer as it is.
LEMMA RepeatFits ==
  ASSUME PlanInv, flash_ready, NEW p, Sound(p), ~ResendInChunks
  PROVE  /\ p.of = parsed /\ p.file_offset = 0 /\ Len(p.bytes) = Len(p.of)
         /\ p.total_len = Len(parsed) /\ Len(parsed) \in Nat \ {0}
         /\ copy_offset(p) = 0 /\ need(p) = p.total_len /\ Base(p) = buffer /\ Fits(p)
<1>1. TypeOK /\ BufferBounds /\ PlanStays /\ sent = 0
  BY Unpacked DEF PlanInv
<1>2. p.file_offset = 0
  BY <1>1 DEF Sound
<1>3. p.of = parsed /\ Len(p.bytes) = Len(p.of) /\ p.total_len = Len(p.of)
  BY <1>2 DEF Sound
<1>4. Len(parsed) \in Nat \ {0}
  BY <1>3, HeaderFacts DEF Sound
<1>5. copy_offset(p) = 0 /\ Base(p) = buffer
  BY <1>2 DEF copy_offset, StartsOver, Base
<1>6. need(p) = p.total_len
  BY <1>3, <1>4, <1>5 DEF need
<1>7. Len(parsed) <= buffer.header_cap
  BY <1>1 DEF PlanStays
<1>8. Fits(p)
  BY <1>3, <1>4, <1>5, <1>6, <1>7 DEF Fits, Larger
<1> QED BY <1>2, <1>3, <1>4, <1>5, <1>6, <1>8

\* The same bytes are written to the same places.
LEMMA RepeatHarmless ==
  ASSUME PlanInv, flash_ready, NEW p, Sound(p), ~ResendInChunks, Store(p)
  PROVE  /\ Complete(p)
         /\ Len(parsed) <= buffer'.header_cap
         /\ \A k \in 1 .. Len(parsed) : buffer'.header[k] = parsed[k]
<1>1. /\ p.of = parsed /\ p.file_offset = 0 /\ Len(p.bytes) = Len(p.of)
      /\ p.total_len = Len(parsed) /\ Len(parsed) \in Nat \ {0}
      /\ copy_offset(p) = 0 /\ need(p) = p.total_len
  BY RepeatFits
<1>2. TypeOK /\ BufferBounds
  BY Unpacked DEF PlanInv
<1>3. /\ Bounded(Base(p))
      /\ buffer' = Stored(p)
      /\ Stored(p).header_size = Larger(Base(p).header_size, need(p))
      /\ p.total_len <= Stored(p).header_cap
      /\ \A k \in 1 .. Len(p.bytes) : Stored(p).header[copy_offset(p) + k] = p.bytes[k]
  BY <1>2, BaseFacts, StoredFacts DEF Store
<1>4. Complete(p)
  BY <1>1, <1>3 DEF Complete, Larger, Bounded, BufferType
<1>5. \A k \in 1 .. Len(parsed) : p.bytes[k] = parsed[k]
  <2>1. \A k \in 1 .. Len(p.bytes) : p.bytes[k] = p.of[p.file_offset + k]
    BY DEF Sound
  <2> QED BY <1>1, <2>1
<1> QED BY <1>1, <1>3, <1>4, <1>5

LEMMA StepPlanInv ==
  ASSUME ~ResendInChunks
  PROVE  PlanInv /\ [Next]_vars => PlanInv'
<1> SUFFICES ASSUME PlanInv, [Next]_vars PROVE PlanInv'
  OBVIOUS
<1>1. IInv /\ PlanStays /\ (flash_ready => sent = 0)
  BY DEF PlanInv
<1>2. IInv'
  BY <1>1, StepIInv
<1>3. PlanStays' /\ (flash_ready' => sent' = 0)
  <2>1. CASE UNCHANGED vars
    BY <1>1, <2>1 DEF vars, PlanStays
  <2>2. CASE PacketRefused \/ StrayChunkRefused
    BY <1>1, <2>2 DEF PacketRefused, StrayChunkRefused, PlanStays
  <2>3. ASSUME NEW p \in Packets, HandlePacket(p)
        PROVE  PlanStays' /\ (flash_ready' => sent' = 0)
    <3>1. Sound(p)
      BY <1>1, PacketSound, Unpacked
    <3>2. CASE ChunkRefused(p)
      <4>1. sent' = 0
        BY <1>1, <3>1, <3>2, StepChunkRefused
      <4> QED BY <1>1, <3>2, <4>1 DEF ChunkRefused, PlanStays
    <3>3. CASE HeaderTooLarge(p) \/ NoMemory(p)
      <4>1. PICK status \in {1, 4} : NotStored(p, status)
        BY <3>3 DEF HeaderTooLarge, NoMemory
      <4>2. ~flash_ready
        BY <3>1, <4>1, RepeatFits DEF NotStored
      <4> QED BY <4>1, <4>2 DEF NotStored, PlanStays
    <3>4. CASE StorePart(p)
      <4>1. ~flash_ready
        BY <3>1, <3>4, RepeatHarmless DEF StorePart
      <4> QED BY <3>4, <4>1 DEF StorePart, PlanStays
    <3>5. CASE StoreAgain(p)
      <4>1. flash_ready /\ Store(p) /\ HostReads(p, 0)
        BY <3>5 DEF StoreAgain
      <4>2. Fits(p) /\ p.file_offset = 0 /\ Len(p.bytes) = Len(p.of) /\ Len(p.of) \in Nat
        BY <3>1, <4>1, RepeatFits
      <4>3. /\ Len(parsed) <= buffer'.header_cap
            /\ \A k \in 1 .. Len(parsed) : buffer'.header[k] = parsed[k]
        BY <3>1, <4>1, RepeatHarmless
      <4>4. sent' = 0
        BY <4>1, <4>2 DEF HostReads
      <4>5. aliased
        BY <1>1, <4>1 DEF PlanStays
      <4>6. aliased' /\ parsed' = parsed
        BY <3>5, <4>2, <4>5 DEF StoreAgain
      <4> QED BY <4>3, <4>4, <4>6 DEF PlanStays
    <3>6. CASE HeaderAccepted(p)
      <4>1. Store(p) /\ parsed' = Given(p) /\ aliased' /\ buffer' = Stored(p) /\ sent' = 0
        BY <1>1, <3>1, <3>6, StepParsed DEF HeaderAccepted, ParseHeader, Store
      <4>2. p.total_len <= Stored(p).header_cap
        BY <1>1, <3>1, <4>1, StoredFacts, Unpacked DEF Store
      <4>3. p.total_len \in Nat
        BY <3>1, HeaderFacts DEF Sound
      <4>4. Complete(p) /\ ~flash_ready
        BY <3>6 DEF HeaderAccepted, ParseHeader
      <4>5. Len(Given(p)) = p.total_len
        BY <1>1, <3>1, <4>1, <4>4, GivenIsTheHeader, Unpacked DEF Sound
      <4>6. \A k \in 1 .. p.total_len : Given(p)[k] = Stored(p).header[k]
        BY DEF Given
      <4> QED BY <4>1, <4>2, <4>5, <4>6 DEF PlanStays
    <3>7. CASE HeaderRejected(p)
      BY <3>7 DEF HeaderRejected, ParseHeader, PlanStays
    <3> QED BY <2>3, <3>2, <3>3, <3>4, <3>5, <3>6, <3>7 DEF HandlePacket
  <2> QED BY <2>1, <2>2, <2>3 DEF Next
<1> QED BY <1>2, <1>3 DEF PlanInv

-------------------------------------------------------------------------------
(* The theorems. *)

\* The variables of the receiver keep their types, through every packet, refusal and
\* restart.
THEOREM TypesKept == Spec => []TypeOK
<1>1. IInv => TypeOK
  BY DEF IInv
<1> QED BY <1>1, InitIInv, StepIInv, PTL DEF Spec

\* The receive index stays within the size and the size within the capacity, so that
\* the copy of the next chunk lands inside the buffer (main.c:1320-1376).
THEOREM BoundsKept == Spec => []BufferBounds
<1>1. IInv => BufferBounds
  BY DEF IInv
<1> QED BY <1>1, InitIInv, StepIInv, PTL DEF Spec

\* The bytes the host has had acknowledged are the bytes the device has appended, at
\* the same place (main.c:1288, 1368-1375).
THEOREM PlaceKept == Spec => []PlaceAgreed
<1>1. IInv => PlaceAgreed
  BY DEF IInv
<1> QED BY <1>1, InitIInv, StepIInv, PTL DEF Spec

\* ffu_stream_flash_init is never given anything but one whole header
\* (main.c:1377-1382).
THEOREM OnlyWholeHeaders == Spec => []ParsedIsAHeader
<1>1. IInv => ParsedIsAHeader
  BY DEF IInv
<1> QED BY <1>1, InitIInv, StepIInv, PTL DEF Spec

\* The header a ready context flashes by is where it was parsed, and the same bytes,
\* if hosts that repeat an accepted header repeat it whole (main.c:1360-1366;
\* ffu.c:776).
THEOREM PlanKept ==
  ASSUME ~ResendInChunks
  PROVE  Spec => []PlanStays
<1>1. Init => PlanInv
  BY InitIInv DEF Init, PlanInv, PlanStays
<1>2. PlanInv /\ [Next]_vars => PlanInv'
  BY StepPlanInv
<1>3. PlanInv => PlanStays
  BY DEF PlanInv
<1> QED BY <1>1, <1>2, <1>3, PTL DEF Spec

===============================================================================
