------------------------------- MODULE FileFlash -------------------------------
(***************************************************************************)
(* ffu_flash_to_block_io: an FFU file written to a target, entry by entry, *)
(* location by location, through a buffer that may be smaller than an      *)
(* entry.  Any error leaves at once.  One action per turn of the inner     *)
(* loop, because each reads the file and writes the target and either may  *)
(* fail.                                                                   *)
(*                                                                         *)
(* Payload is what the file holds at the payload offsets of the entries,   *)
(* which lie one after the other (see StreamFlash).                        *)
(***************************************************************************)
EXTENDS UfpBase, Sequences

CONSTANTS
  Plans,         \* plans a file may hold: [first, byte_count, block_size, locations]
                 \* of each write entry
  Payload,       \* the payload bytes of the file
  BufferSize,    \* 1 MiB
  MediaBlock,    \* BlockIo Media->BlockSize
  LastBlock,     \* BlockIo Media->LastBlock
  Data,          \* payload bytes
  InitialDisks,  \* what the target may hold before
  Errors         \* errors of WriteBlocks, FlushBlocks and of reading the file

Address == 0 .. (LastBlock + 1) * MediaBlock - 1
Location == [method : Nat, block : Nat]
WriteEntry == [first : Nat, byte_count : Nat \ {0}, block_size : Nat \ {0},
               locations : Seq(Location) \ {<<>>}]

ASSUME FileAssumption ==
  /\ \A p \in Plans :
       /\ p \in Seq(WriteEntry) \ {<<>>}
       /\ p[1].first = 0
       /\ \A k \in 1 .. Len(p) - 1 : p[k + 1].first = p[k].first + p[k].byte_count
       /\ Len(Payload) = p[Len(p)].first + p[Len(p)].byte_count
  /\ Payload \in Seq(Data)
  /\ BufferSize \in Nat \ {0}
  /\ MediaBlock \in Nat \ {0}
  /\ LastBlock \in Nat
  /\ InitialDisks \subseteq [Address -> Data]
  /\ Errors \subseteq {st \in EfiStatus : st.error}

VARIABLES
  plan,     \* the write entries of the file
  commit,   \* --yes
  disk,     \* the target, by byte address
  i, l,     \* the loops over entries and locations
  done,     \* bytes of the entry written to the location
  at,       \* the loop, or place, control is at
  status,   \* what was returned
  flushed   \* FlushBlocks succeeded after the last write

given == <<plan, commit>>   \* what the function is called with
vars  == <<given, disk, i, l, done, at, status, flushed>>

EntryCount == Len(plan)

\* Where the bytes of entry k start in the payload, and where it ends.
First(k) ==
  IF k < EntryCount THEN plan[k + 1].first
                    ELSE plan[EntryCount].first + plan[EntryCount].byte_count

\* The buffer in use: whole blocks, and one at least.
WholeBlocks(n) == n - (n % MediaBlock)

buffer_size == WholeBlocks(Larger(BufferSize, MediaBlock))

entry       == plan[i + 1]
target_byte == entry.locations[l + 1].block * entry.block_size
lba         == target_byte \div MediaBlock
remaining   == entry.byte_count - done
take        == WholeBlocks(Smaller(remaining, buffer_size))

Init ==
  /\ plan \in Plans
  /\ commit \in BOOLEAN
  /\ disk \in InitialDisks
  /\ i = 0 /\ l = 0 /\ done = 0
  /\ at = "entry"
  /\ status = EFI_SUCCESS
  /\ flushed = FALSE

Return(st) ==
  /\ at' = "returned"
  /\ status' = st
  /\ UNCHANGED <<given, i, l, done, flushed>>

\* The head of the loop over entries.
BeginEntry ==
  /\ at = "entry"
  /\ i < EntryCount
  /\ IF entry.byte_count % MediaBlock # 0
       THEN Return(EFI_UNSUPPORTED)
       ELSE /\ at' = "location"
            /\ l' = 0
            /\ UNCHANGED <<given, i, done, status, flushed>>
  /\ UNCHANGED disk

\* The location lies within the target.
PastEnd_Touching ==
  lba > LastBlock \/ entry.byte_count \div MediaBlock > LastBlock - lba
PastEnd ==
  lba > LastBlock \/ entry.byte_count \div MediaBlock > LastBlock - lba + 1

\* The head of the loop over locations: what is read from the file is checked first.
BeginLocation ==
  /\ at = "location"
  /\ l < Len(entry.locations)
  /\ IF entry.locations[l + 1].method # 0 \/ target_byte % MediaBlock # 0
       THEN Return(EFI_UNSUPPORTED)
     ELSE IF PastEnd THEN Return(EFI_BAD_BUFFER_SIZE)
     ELSE /\ at' = "chunk"
          /\ done' = 0
          /\ UNCHANGED <<given, i, l, status, flushed>>
  /\ UNCHANGED disk

\* Reading a location from the file, or a chunk of the payload, fails.
ReadFails ==
  /\ \/ at = "location" /\ l < Len(entry.locations)
     \/ at = "chunk" /\ remaining > 0 /\ commit
  /\ \E st \in Errors : Return(st)
  /\ UNCHANGED disk

\* The target after n bytes from the place in hand have been written.
ChunkRange(n) == target_byte + done .. target_byte + done + n - 1

Written(range) ==
  [a \in Address |-> IF a \in range THEN Payload[entry.first + (a - target_byte) + 1]
                                    ELSE disk[a]]

Advance_WholeEntry ==
  /\ done' = entry.byte_count
  /\ UNCHANGED <<given, i, l, at, status, flushed>>
Advance_Stuck == UNCHANGED <<given, i, l, done, at, status, flushed>>
Advance ==
  /\ done' = done + take
  /\ UNCHANGED <<given, i, l, at, status, flushed>>

WriteChunk ==
  /\ at = "chunk"
  /\ remaining > 0
  /\ disk' = IF commit THEN Written(ChunkRange(take)) ELSE disk
  /\ Advance

\* A WriteBlocks that fails has written any of the blocks.
TornWrite ==
  \E blocks \in SUBSET {a \div MediaBlock : a \in ChunkRange(take)} :
    disk' = Written({a \in ChunkRange(take) : a \div MediaBlock \in blocks})

WriteFails_Ignored ==
  /\ at = "chunk"
  /\ remaining > 0
  /\ commit
  /\ TornWrite
  /\ Advance
WriteFails ==
  /\ at = "chunk"
  /\ remaining > 0
  /\ commit
  /\ TornWrite
  /\ \E st \in Errors : Return(st)

EndLocation ==
  /\ at = "chunk"
  /\ remaining = 0
  /\ done' = 0
  /\ IF l + 1 = Len(entry.locations)
       THEN at' = "entry" /\ i' = i + 1 /\ l' = 0
       ELSE at' = "location" /\ l' = l + 1 /\ UNCHANGED i
  /\ UNCHANGED <<given, disk, status, flushed>>

\* FlushBlocks, whose result is the result; a dry run has nothing to flush.
Finish ==
  /\ at = "entry"
  /\ i = EntryCount
  /\ at' = "returned"
  /\ \/ flushed' = commit /\ UNCHANGED status
     \/ commit /\ flushed' = FALSE /\ status' \in Errors
  /\ UNCHANGED <<given, disk, i, l, done>>

Step == BeginEntry \/ BeginLocation \/ WriteChunk \/ EndLocation \/ Finish

Next == Step \/ ReadFails \/ WriteFails

\* The function runs; no failure has to come to its help.
Spec == Init /\ [][Next]_vars /\ WF_vars(Step)

-------------------------------------------------------------------------------

TypeOK ==
  /\ plan \in Plans /\ commit \in BOOLEAN
  /\ disk \in [Address -> Data]
  /\ i \in 0 .. EntryCount
  /\ i < EntryCount => l \in 0 .. Len(entry.locations) - 1 /\ done \in 0 .. entry.byte_count
  /\ at \in {"entry", "location", "chunk", "returned"}
  /\ status \in EfiStatus
  /\ flushed \in BOOLEAN

TargetByte(j, k) == plan[j + 1].locations[k + 1].block * plan[j + 1].block_size
Target(j, k)     == TargetByte(j, k) .. TargetByte(j, k) + plan[j + 1].byte_count - 1

Slots == UNION {{j} \X (0 .. Len(plan[j + 1].locations) - 1) : j \in 0 .. EntryCount - 1}

TargetsDisjoint ==
  \A s, t \in Slots : s # t => Target(s[1], s[2]) \cap Target(t[1], t[2]) = {}

\* Success is returned only when every location of every entry holds its payload
\* and the target has flushed it, in whatever chunks it was written
\* (ffu.c:720-751).
SuccessMeansImage ==
  commit /\ at = "returned" /\ status = EFI_SUCCESS =>
    /\ flushed
    /\ TargetsDisjoint =>
         \A s \in Slots : \A a \in Target(s[1], s[2]) :
           a \in Address /\ disk[a] = Payload[First(s[1]) + (a - TargetByte(s[1], s[2])) + 1]

Fits ==
  \A s \in Slots :
    /\ plan[s[1] + 1].byte_count % MediaBlock = 0
    /\ plan[s[1] + 1].locations[s[2] + 1].method = 0
    /\ TargetByte(s[1], s[2]) % MediaBlock = 0
    /\ Target(s[1], s[2]) \subseteq Address

\* A dry run foretells a real one: with or without --yes, success is only returned
\* for a plan that the target can take, and on such a plan only the file and the
\* target can make the run fail (ffu.c:688-735; main.c:1569-1570).
DryRunForetells ==
  at = "returned" =>
    /\ status = EFI_SUCCESS => Fits
    /\ Fits => status \in Errors \cup {EFI_SUCCESS}

\* Seen from the target, a run writes the image, and a dry run is not seen; bytes of
\* an entry count as received when its turn comes.
Image == INSTANCE ImageWriter WITH
           stream <- IF commit THEN SubSeq(Payload, 1, First(IF at = "entry" THEN i ELSE i + 1))
                               ELSE <<>>,
           entry <- IF commit THEN i ELSE 0,
           location <- IF commit THEN l ELSE 0

\* Whatever fails, and however the buffer cuts an entry into chunks, only bytes of the
\* payload reach the target, each at its place and entries in their order; a dry run
\* leaves the target alone (ffu.c:720-739).
WritesImage == Image!Spec

===============================================================================
