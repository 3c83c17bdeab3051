------------------------------- MODULE FfuParse --------------------------------
(***************************************************************************)
(* The two readers of an FFU header: ffu_parse reads a file,               *)
(* ffu_parse_header_bytes the bytes received over USB.  They walk through  *)
(* the same structures with the same fields; the second also compares its  *)
(* cursor with the size after each skip, because nothing will read there.  *)
(*                                                                         *)
(* What the bytes say is a layout; size is how many there are.  One action *)
(* per structure read.  Sizes are parameters, words wrap at Word.  What    *)
(* follows the last store of a layout is no store header.                  *)
(***************************************************************************)
EXTENDS UfpBase, Sequences

CONSTANTS
  Layouts,         \* what headers may say
  MaxSize,         \* bound: bytes there are
  SecuritySize, ImageSize, ImageSizeV2, ValidationSize, StoreSize, StoreSizeV2,
  DescriptorSize, LocationSize,   \* bytes of the structures
  ChunkUnit,       \* 2^10
  HashUnit,        \* 32
  Word,            \* 2^32
  MaxBlock         \* UFP_MAX_PAYLOAD_DATA

Descriptor == [locations : Nat, blocks : Nat]
Store == [v2 : BOOLEAN, count : Nat, payload_size : Nat, path : Nat,
          known : BOOLEAN, block_size : Nat, descriptors : Seq(Descriptor)]
Layout ==
  [signed : BOOLEAN, algorithm : BOOLEAN, chunk : Nat, catalog : Nat, hash : Nat,
   image : {"v1", "v2", "unknown"}, manifest : Nat, manifest_chunk : Nat,
   validation : Seq(Nat), stores : Seq(Store)]

ASSUME ParseAssumption ==
  /\ Layouts \subseteq Layout
  /\ MaxSize \in Nat
  /\ {SecuritySize, ImageSize, ImageSizeV2, ValidationSize, StoreSize, StoreSizeV2,
      DescriptorSize, LocationSize, ChunkUnit, HashUnit, Word, MaxBlock}
       \subseteq Nat \ {0}

\* A store header is no shorter than an image header: 248 or 262 bytes, 24 or 28.
ASSUME SizesAssumption ==
  \A i \in {ImageSize, ImageSizeV2}, s \in {StoreSize, StoreSizeV2} : i <= s

VARIABLES
  layout, size,          \* the bytes
  memory,                \* ffu_parse_header_bytes, not ffu_parse
  at,                    \* the structure read next, or "payload", "returned"
  cursor,                \* cursor, descriptor_cursor or payload_cursor
  n,                     \* turns of the loop in hand
  desired_store_count,
  rel_payload,
  store,                 \* the store being read
  plan,                  \* stores, entries and payload_base
  status

vars == <<layout, size, memory, at, cursor, n, desired_store_count, rel_payload,
          store, plan, status>>

EFI_END_OF_FILE == EFIERR(31)

EmptyPlan == [stores |-> <<>>, entries |-> <<>>, payload_base |-> 0]
NoStore   == [descriptor_base |-> 0, block_size |-> 0, payload_base |-> 0,
              payload_size |-> 0, entry_start |-> 0, entry_count |-> 0]

\* What is there when no store header is.
Blank == [v2 |-> FALSE, count |-> 0, payload_size |-> 0, path |-> 0,
          known |-> FALSE, block_size |-> 0, descriptors |-> <<>>]

Init ==
  /\ layout \in Layouts
  /\ size \in 0 .. MaxSize
  /\ memory \in BOOLEAN
  /\ at = "security"
  /\ cursor = 0 /\ n = 0
  /\ desired_store_count = 1
  /\ rel_payload = 0
  /\ store = NoStore
  /\ plan = EmptyPlan
  /\ status = EFI_SUCCESS

-------------------------------------------------------------------------------

\* The shift drops high bits.
chunk_size(l) == (l.chunk * ChunkUnit) % Word

Header(l, k) == IF k <= Len(l.stores) THEN l.stores[k] ELSE Blank

here == Header(layout, Len(plan.stores) + 1)
desc == here.descriptors[n + 1]

byte_count == here.block_size * desc.blocks
table_end  == cursor + DescriptorSize + desc.locations * LocationSize

\* Where the next structure starts, and how long it is.
Start == IF at = "store" THEN align_up(cursor, chunk_size(layout)) ELSE cursor

Length ==
  CASE at = "security"   -> SecuritySize
    [] at = "image"      -> IF layout.image = "v2" THEN ImageSizeV2 ELSE ImageSize
    [] at = "validation" -> ValidationSize
    [] at = "store"      -> IF here.v2 THEN StoreSizeV2 ELSE StoreSize
    [] at = "descriptor" -> DescriptorSize
    [] OTHER             -> 0

Refuse(st) ==
  /\ at' = "returned"
  /\ status' = st
  /\ UNCHANGED <<layout, size, memory, cursor, n, desired_store_count, rel_payload,
                 store, plan>>

Reads(place) == at = place /\ Start + Length <= size

\* Past the end, or the file system fails.
ReadFails ==
  /\ at \in {"security", "image", "validation", "store", "descriptor"}
  /\ \/ Start + Length > size
          /\ Refuse(IF at = "security" /\ ~memory THEN EFI_VOLUME_CORRUPTED
                                                  ELSE EFI_END_OF_FILE)
     \/ ~memory /\ Refuse(EFI_DEVICE_ERROR)

\* The second reader stops where the first goes on to fail later.
Beyond(end) == memory /\ end > size

ReadSecurity ==
  LET end == align_up(SecuritySize + layout.catalog + layout.hash, chunk_size(layout))
  IN  /\ Reads("security")
      /\ IF ~layout.signed THEN Refuse(EFI_VOLUME_CORRUPTED)
         ELSE IF ~layout.algorithm THEN Refuse(EFI_UNSUPPORTED)
         ELSE IF 0 \in {chunk_size(layout), layout.catalog, layout.hash}
                   \/ layout.hash % HashUnit # 0
           THEN Refuse(EFI_VOLUME_CORRUPTED)
         ELSE /\ at' = "image"
              /\ cursor' = end
              /\ UNCHANGED <<layout, size, memory, n, desired_store_count, rel_payload,
                             store, plan, status>>

ReadImage ==
  LET end == cursor + ((Length + layout.manifest) % Word)
  IN  /\ Reads("image")
      /\ IF layout.image = "unknown" \/ 0 \in {layout.manifest, layout.manifest_chunk}
           THEN Refuse(EFI_VOLUME_CORRUPTED)
         ELSE IF Beyond(end) THEN Refuse(EFI_END_OF_FILE)
         ELSE /\ at' = IF layout.image = "v2" /\ layout.validation # <<>>
                         THEN "validation" ELSE "store"
              /\ cursor' = end
              /\ UNCHANGED <<layout, size, memory, n, desired_store_count, rel_payload,
                             store, plan, status>>

\* The descriptor, and the bytes its seven lengths add up to.
SkipValidation ==
  LET end == cursor + ValidationSize + layout.validation[n + 1]
  IN  /\ Reads("validation")
      /\ IF Beyond(end) THEN Refuse(EFI_END_OF_FILE)
         ELSE /\ cursor' = end
              /\ IF n + 1 < Len(layout.validation)
                   THEN at' = at /\ n' = n + 1
                   ELSE at' = "store" /\ n' = 0
              /\ UNCHANGED <<layout, size, memory, desired_store_count, rel_payload,
                             store, plan, status>>

\* Every V2 header sets the number of stores anew.
desired(l, k, before) == IF Header(l, k).v2 THEN Header(l, k).count ELSE before

rel_start_Kept == rel_payload
rel_start == 0

ReadStore ==
  LET end == Start + Length + IF here.v2 THEN here.path ELSE 0
  IN  /\ Reads("store")
      /\ IF here.v2 /\ 0 \in {here.count, here.path} THEN Refuse(EFI_VOLUME_CORRUPTED)
         ELSE IF here.v2 /\ Beyond(end) THEN Refuse(EFI_END_OF_FILE)
         ELSE IF ~here.known \/ here.block_size = 0 \/ here.block_size > MaxBlock
                   \/ here.descriptors = <<>>
           THEN Refuse(EFI_VOLUME_CORRUPTED)
         ELSE /\ at' = "descriptor"
              /\ cursor' = end
              /\ n' = 0
              /\ desired_store_count' =
                   desired(layout, Len(plan.stores) + 1, desired_store_count)
              /\ rel_payload' = rel_start
              /\ store' = [NoStore EXCEPT
                             !.descriptor_base = end,
                             !.block_size = here.block_size,
                             !.payload_size = IF here.v2 THEN here.payload_size ELSE 0,
                             !.entry_start = Len(plan.entries)]
              /\ UNCHANGED <<layout, size, memory, plan, status>>

NewEntry ==
  [payload_offset |-> rel_payload, descriptor_offset |-> cursor,
   byte_count |-> byte_count, location_count |-> desc.locations,
   store_index |-> Len(plan.stores)]

\* A write descriptor and its table of locations; append_entry may be out of memory.
NextDescriptor_NoTable == cursor + DescriptorSize
NextDescriptor == table_end

ReadDescriptor ==
  /\ n < Len(here.descriptors)
  /\ Reads("descriptor")
  /\ IF 0 \in {desc.locations, desc.blocks} THEN Refuse(EFI_VOLUME_CORRUPTED)
     ELSE IF Beyond(table_end) THEN Refuse(EFI_END_OF_FILE)
     ELSE IF byte_count >= Word THEN Refuse(EFI_UNSUPPORTED)
     ELSE \/ Refuse(EFI_OUT_OF_RESOURCES)
          \/ /\ plan' = [plan EXCEPT !.entries = Append(@, NewEntry)]
             /\ rel_payload' = rel_payload + byte_count
             /\ cursor' = NextDescriptor
             /\ n' = n + 1
             /\ at' = IF n + 1 = Len(here.descriptors) THEN "store_end" ELSE at
             /\ UNCHANGED <<layout, size, memory, desired_store_count, store, status>>

\* The store is complete; append_store may be out of memory.
EndStore ==
  /\ at = "store_end"
  /\ \/ Refuse(EFI_OUT_OF_RESOURCES)
     \/ /\ plan' = [plan EXCEPT !.stores = Append(@,
                      [store EXCEPT !.entry_count = Len(here.descriptors),
                                    !.payload_size = IF @ = 0 THEN rel_payload ELSE @])]
        /\ n' = 0
        /\ at' = IF Len(plan'.stores) < desired_store_count THEN "store" ELSE "payload"
        /\ UNCHANGED <<layout, size, memory, cursor, desired_store_count, rel_payload,
                       store, status>>

\* The payload of the stores follows, each store aligned to its block size.
PlaceStore ==
  LET s    == plan.stores[n + 1]
      base == align_up(cursor, s.block_size)
      moved(e) == [plan.entries[e] EXCEPT !.payload_offset = @ + base]
  IN  /\ at = "payload"
      /\ n < Len(plan.stores)
      /\ plan' =
           [plan EXCEPT
              !.stores[n + 1].payload_base = base,
              !.payload_base = IF @ = 0 THEN base ELSE @,
              !.entries = [e \in DOMAIN @ |->
                             IF e > s.entry_start /\ e <= s.entry_start + s.entry_count
                               THEN moved(e) ELSE @[e]]]
      /\ cursor' = base + s.payload_size
      /\ n' = n + 1
      /\ UNCHANGED <<layout, size, memory, at, desired_store_count, rel_payload, store,
                     status>>

\* The payload must not start beyond the bytes there are.
TooShort_Touching == plan.payload_base >= size
TooShort == plan.payload_base > size

Finish ==
  /\ at = "payload"
  /\ n = Len(plan.stores)
  /\ at' = "returned"
  /\ status' = IF ~TooShort THEN EFI_SUCCESS
               ELSE IF memory THEN EFI_END_OF_FILE ELSE EFI_VOLUME_CORRUPTED
  /\ UNCHANGED <<layout, size, memory, cursor, n, desired_store_count, rel_payload,
                 store, plan>>

Next ==
  \/ ReadFails \/ ReadSecurity \/ ReadImage \/ SkipValidation \/ ReadStore
  \/ ReadDescriptor \/ EndStore \/ PlaceStore \/ Finish

Spec == Init /\ [][Next]_vars

-------------------------------------------------------------------------------
(* A header at a glance: what it takes to be accepted, with no cursor. *)

SecurityOK(l) ==
  /\ l.signed /\ l.algorithm
  /\ 0 \notin {chunk_size(l), l.catalog, l.hash}
  /\ l.hash % HashUnit = 0

ImageOK(l) == l.image # "unknown" /\ 0 \notin {l.manifest, l.manifest_chunk}

DescriptorOK(s, d) ==
  0 \notin {d.locations, d.blocks} /\ s.block_size * d.blocks < Word

StoreOK(s) ==
  /\ s.known
  /\ s.block_size \in 1 .. MaxBlock
  /\ s.v2 => 0 \notin {s.count, s.path}
  /\ s.descriptors # <<>>
  /\ \A d \in DOMAIN s.descriptors : DescriptorOK(s, s.descriptors[d])

\* The sums of the first terms, and of all of them.
Sums(terms) ==
  LET sum[k \in 0 .. Len(terms)] == IF k = 0 THEN 0 ELSE sum[k - 1] + terms[k]
  IN  sum
Total(terms) == Sums(terms)[Len(terms)]

Tables(s) ==
  [d \in 1 .. Len(s.descriptors) |-> DescriptorSize + s.descriptors[d].locations * LocationSize]
StoreHeader(s) == IF s.v2 THEN StoreSizeV2 + s.path ELSE StoreSize
StoreLength(s) == StoreHeader(s) + Total(Tables(s))

ImageStart(l) == align_up(SecuritySize + l.catalog + l.hash, chunk_size(l))
ImageEnd(l) ==
  ImageStart(l) + (((IF l.image = "v2" THEN ImageSizeV2 ELSE ImageSize) + l.manifest) % Word)

Validations(l) ==
  IF l.image = "v2" THEN [v \in 1 .. Len(l.validation) |-> ValidationSize + l.validation[v]]
                    ELSE <<>>

\* Where the stores end: what comes ahead of them, then one after the other.
StoresEnd(l) ==
  LET end[k \in 0 .. Len(l.stores)] ==
        IF k = 0 THEN ImageEnd(l) + Total(Validations(l))
        ELSE align_up(end[k - 1], chunk_size(l)) + StoreLength(l.stores[k])
  IN  end

\* The number of stores that the header with number k calls for.
Wanted(l, k) ==
  LET v2s == {j \in 1 .. k : l.stores[j].v2}
  IN  IF v2s = {} THEN 1
      ELSE l.stores[CHOOSE j \in v2s : \A i \in v2s : i <= j].count

\* The first store that no further one has to follow.
IsLast(l, k) == Wanted(l, k) <= k /\ \A j \in 1 .. k - 1 : Wanted(l, j) > j

Acceptable ==
  /\ SecurityOK(layout)
  /\ ImageOK(layout)
  /\ \E k \in DOMAIN layout.stores :
       /\ IsLast(layout, k)
       /\ \A j \in 1 .. k : StoreOK(layout.stores[j])
       /\ align_up(StoresEnd(layout)[k], layout.stores[1].block_size) <= size

-------------------------------------------------------------------------------

TypeOK ==
  /\ layout \in Layouts
  /\ size \in 0 .. MaxSize
  /\ memory \in BOOLEAN
  /\ {cursor, n, desired_store_count, rel_payload} \subseteq Nat
  /\ at \in {"security", "image", "validation", "store", "descriptor", "store_end",
             "payload", "returned"}
  /\ DOMAIN store = DOMAIN NoStore
  /\ \A k \in DOMAIN plan.entries : plan.entries[k].byte_count \in 1 .. Word - 1
  /\ status \in EfiStatus

Accepted == at = "returned" /\ status = EFI_SUCCESS

\* The two readers, two hundred lines each, take exactly the same headers: those
\* whose structures are sound and whose payload starts no later than the bytes end.
\* Only memory and the file system can make either fail on such a header
\* (ffu.c:193-384, 386-591).
AcceptsExactly ==
  at = "returned" =>
    IF Acceptable
      THEN \/ status \in {EFI_SUCCESS, EFI_OUT_OF_RESOURCES}
           \/ ~memory /\ status = EFI_DEVICE_ERROR
      ELSE status.error

TableEnd(e) == e.descriptor_offset + DescriptorSize + e.location_count * LocationSize

\* The locations of an entry are read again each time it is flashed, from the bytes
\* of the header: they lie within it, ahead of the payload, and no two tables
\* overlap (ffu.c:526-558, 757-779).
LocationsInHeader ==
  Accepted =>
    /\ \A k \in DOMAIN plan.entries : TableEnd(plan.entries[k]) <= plan.payload_base
    /\ plan.payload_base <= size
    /\ \A j, k \in DOMAIN plan.entries :
         j < k => TableEnd(plan.entries[j]) <= plan.entries[k].descriptor_offset

\* What the entries of store k hold, entry by entry.
HeldBy(k, entries) ==
  [e \in 1 .. Len(entries) |->
     IF entries[e].store_index = k - 1 THEN entries[e].byte_count ELSE 0]

\* The headers tell the size of what their stores hold.
Honest == \A k \in DOMAIN plan.stores :
  plan.stores[k].payload_size = Total(HeldBy(k, plan.entries))

\* What is flashed is one stream cut into entries: inside a store they follow each
\* other without a gap, and no store starts before the one ahead of it ends
\* (ffu.c:557, 571-585).
EntriesInOrder ==
  Accepted =>
    /\ plan.entries # <<>>
    /\ plan.entries[1].payload_offset = plan.payload_base
    /\ \A k \in 1 .. Len(plan.entries) - 1 :
         LET e == plan.entries[k]
             f == plan.entries[k + 1]
         IN  IF e.store_index = f.store_index
               THEN f.payload_offset = e.payload_offset + e.byte_count
               ELSE Honest => /\ f.payload_offset >= e.payload_offset + e.byte_count
                              /\ f.payload_offset < e.payload_offset + e.byte_count
                                                      + plan.stores[f.store_index + 1].block_size

===============================================================================
