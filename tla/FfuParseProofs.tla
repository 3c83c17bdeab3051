----------------------------- MODULE FfuParseProofs -----------------------------
(***************************************************************************)
(* Theorems about FfuParse, for every set of layouts, all sizes of the     *)
(* structures and both readers.                                            *)
(*                                                                         *)
(* The inductive invariant IInv says, of a header that has not been        *)
(* refused, where its tables of locations lie (TablesSound), how entries,  *)
(* stores and payload fit together (OrderSound), and where the cursor      *)
(* stands in terms of what the layout says (PlaceSound).                   *)
(***************************************************************************)
EXTENDS FfuParse, SequenceTheorems, WellFoundedInduction, TLAPS

-------------------------------------------------------------------------------
(* The invariant. *)

StoreRecord == [descriptor_base : Nat, block_size : Nat, payload_base : Nat,
                payload_size : Nat, entry_start : Nat, entry_count : Nat]
EntryRecord == [payload_offset : Nat, descriptor_offset : Nat, byte_count : Nat,
                location_count : Nat, store_index : Nat]
PlanRecord == [stores : Seq(StoreRecord), entries : Seq(EntryRecord), payload_base : Nat]

Typed ==
  /\ layout \in Layouts /\ size \in 0 .. MaxSize /\ memory \in BOOLEAN
  /\ cursor \in Nat /\ n \in Nat /\ desired_store_count \in Nat /\ rel_payload \in Nat
  /\ at \in {"security", "image", "validation", "store", "descriptor", "store_end",
             "payload", "returned"}
  /\ store \in StoreRecord
  /\ plan \in PlanRecord
  /\ \A k \in DOMAIN plan.entries : plan.entries[k].byte_count \in 1 .. Word - 1
  /\ status \in EfiStatus

\* The header has not been refused, and the payload has not been reached.
Unrefused == at = "returned" => status = EFI_SUCCESS
Walking == at \notin {"payload", "returned"}

\* The tables of entries E are one after the other.
TablesApart(E) ==
  \A j, k \in DOMAIN E : j < k => TableEnd(E[j]) <= E[k].descriptor_offset
\* They end before p.
TablesUpTo(E, p) == \A k \in DOMAIN E : TableEnd(E[k]) <= p

\* Tables lie behind the cursor, and then ahead of the payload.
TablesSound ==
  /\ TablesApart(plan.entries)
  /\ IF Walking \/ n = 0
       THEN TablesUpTo(plan.entries, cursor) /\ plan.payload_base = 0
       ELSE TablesUpTo(plan.entries, plan.payload_base)
  /\ at = "returned" => plan.payload_base <= size
  /\ ~Walking => plan.stores # <<>> /\ plan.entries # <<>>
  /\ at = "returned" => n = Len(plan.stores)

\* Entries there are once stores S are complete.
Behind(S) == IF S = <<>> THEN 0 ELSE S[Len(S)].entry_start + S[Len(S)].entry_count

\* Entries of store k in S, by number.
Part(S, k) == S[k].entry_start + 1 .. S[k].entry_start + S[k].entry_count

\* Stores S divide the first entries of E among them.
Parts(S, E) ==
  /\ Behind(S) <= Len(E)
  /\ \A k \in 1 .. Len(S) :
       /\ S[k].entry_count >= 1
       /\ S[k].entry_start = IF k = 1 THEN 0 ELSE S[k - 1].entry_start + S[k - 1].entry_count
       /\ S[k].entry_start + S[k].entry_count <= Behind(S)
  /\ \A e \in 1 .. Behind(S) : \E k \in 1 .. Len(S) : e \in Part(S, k)
  /\ \A k \in 1 .. Len(S) : \A e \in Part(S, k) : E[e].store_index = k - 1

\* The entries of a store follow each other.
Chained(E) ==
  \A k \in 1 .. Len(E) - 1 :
    E[k].store_index = E[k + 1].store_index =>
      E[k + 1].payload_offset = E[k].payload_offset + E[k].byte_count

\* The first placed stores of S start at their bases, the others at 0.
Base(S, placed, k) == IF k <= placed THEN S[k].payload_base ELSE 0

\* Entries start where their store does, and end after what they hold.
Bounded(S, E, placed) ==
  \A k \in 1 .. Len(S) :
    /\ E[S[k].entry_start + 1].payload_offset = Base(S, placed, k)
    /\ E[S[k].entry_start + S[k].entry_count].payload_offset
         + E[S[k].entry_start + S[k].entry_count].byte_count
         = Base(S, placed, k) + Total(HeldBy(k, E))

\* The bases of the first placed stores of S, the first of which is at base.
Placed(S, placed, base) ==
  /\ placed >= 1 => S[1].payload_base = base
  /\ \A k \in 1 .. Len(S) : k <= placed /\ k >= 2 =>
       S[k].payload_base =
         align_up(S[k - 1].payload_base + S[k - 1].payload_size, S[k].block_size)

\* The entries of the store in hand: their number is n.
InHand(S, E, start, count, rel) ==
  /\ start = Behind(S)
  /\ Len(E) = start + count
  /\ \A e \in start + 1 .. Len(E) : E[e].store_index = Len(S)
  /\ IF count = 0 THEN rel = 0
                  ELSE /\ E[start + 1].payload_offset = 0
                       /\ E[Len(E)].payload_offset + E[Len(E)].byte_count = rel
  /\ rel = Total(HeldBy(Len(S) + 1, E))

placed == IF Walking THEN 0 ELSE n

OrderSound ==
  /\ Parts(plan.stores, plan.entries)
  /\ Chained(plan.entries)
  /\ Bounded(plan.stores, plan.entries, placed)
  /\ Placed(plan.stores, placed, plan.payload_base)
  /\ \A k \in 1 .. Len(plan.stores) : plan.stores[k].block_size >= 1
  /\ placed <= Len(plan.stores)
  /\ IF at \in {"descriptor", "store_end"}
       THEN /\ InHand(plan.stores, plan.entries, store.entry_start, n, rel_payload)
            /\ store.block_size >= 1
       ELSE Len(plan.entries) = Behind(plan.stores)
  /\ at = "descriptor" => n < Len(here.descriptors)
  /\ at = "store_end" => n = Len(here.descriptors) /\ n >= 1
  /\ ~Walking /\ placed >= 1 =>
       cursor = plan.stores[placed].payload_base + plan.stores[placed].payload_size

-------------------------------------------------------------------------------
(* The cursor. *)

\* The number of stores complete, and of those whose header has been read.
complete == Len(plan.stores)
begun == IF at \in {"descriptor", "store_end"} THEN complete + 1 ELSE complete

\* A store header is sound, descriptors aside.
HeaderOK(s) ==
  /\ s.known
  /\ s.block_size \in 1 .. MaxBlock
  /\ s.v2 => 0 \notin {s.count, s.path}
  /\ s.descriptors # <<>>

PlaceSound ==
  /\ at = "security" => cursor = 0
  /\ at \in {"security", "image"} => n = 0
  /\ at # "security" => SecurityOK(layout)
  /\ at = "image" => cursor = ImageStart(layout)
  /\ at \notin {"security", "image"} => ImageOK(layout)
  /\ at = "validation" =>
       /\ layout.image = "v2" /\ n < Len(layout.validation)
       /\ cursor = ImageEnd(layout) + Sums(Validations(layout))[n]
  /\ at \in {"security", "image", "validation"} => complete = 0 /\ desired_store_count = 1
  /\ begun <= Len(layout.stores)
  /\ \A k \in 1 .. complete : StoreOK(layout.stores[k])
  /\ desired_store_count = Wanted(layout, begun)
  /\ \A k \in 1 .. complete : Wanted(layout, k) <= k => k = complete /\ ~Walking
  /\ at = "store" => cursor = StoresEnd(layout)[complete]
  /\ begun = complete + 1 =>
       /\ HeaderOK(here)
       /\ \A d \in 1 .. n : DescriptorOK(here, here.descriptors[d])
       /\ cursor = align_up(StoresEnd(layout)[complete], chunk_size(layout))
                     + StoreHeader(here) + Sums(Tables(here))[n]
  /\ ~Walking =>
       /\ complete >= 1 /\ Wanted(layout, complete) <= complete
       /\ plan.stores[1].block_size = layout.stores[1].block_size
       /\ n = 0 => cursor = StoresEnd(layout)[complete]
       /\ n >= 1 => plan.payload_base = align_up(StoresEnd(layout)[complete],
                                                 layout.stores[1].block_size)
  /\ complete >= 1 => plan.stores[1].block_size = layout.stores[1].block_size
  /\ complete = 0 /\ begun = 1 => store.block_size = here.block_size

IInv ==
  /\ Typed
  /\ Unrefused => TablesSound /\ OrderSound /\ PlaceSound
  /\ AcceptsExactly

-------------------------------------------------------------------------------
(* The cases of each action: refused, and why, or read. *)

Refusals == {EFI_VOLUME_CORRUPTED, EFI_UNSUPPORTED, EFI_END_OF_FILE, EFI_OUT_OF_RESOURCES,
             EFI_DEVICE_ERROR}

Refused == \E st \in Refusals : Refuse(st)

LEMMA RefusalFacts ==
  /\ \A st \in Refusals : st \in EfiStatus /\ st.error /\ st # EFI_SUCCESS
  /\ EFI_SUCCESS \in EfiStatus /\ ~EFI_SUCCESS.error
<1>1. \A k \in Nat : EFIERR(k) \in EfiStatus /\ EFIERR(k).error = TRUE
  BY DEF EFIERR, EfiStatus
<1>2. EFI_SUCCESS \in EfiStatus /\ EFI_SUCCESS.error = FALSE
  BY DEF EFI_SUCCESS, EfiStatus
<1>3. \A st \in Refusals : st \in EfiStatus /\ st.error = TRUE
  BY <1>1 DEF Refusals, EFI_VOLUME_CORRUPTED, EFI_UNSUPPORTED, EFI_END_OF_FILE,
              EFI_OUT_OF_RESOURCES, EFI_DEVICE_ERROR
<1> QED BY <1>2, <1>3

LEMMA RefusedFacts ==
  ASSUME Refused
  PROVE  /\ at' = "returned" /\ status' \in EfiStatus /\ status'.error
         /\ status' # EFI_SUCCESS
         /\ UNCHANGED <<layout, size, memory, cursor, n, desired_store_count, rel_payload,
                        store, plan>>
BY RefusalFacts DEF Refused, Refuse

\* The end of what a step skips.
image_end == cursor + ((Length + layout.manifest) % Word)
validation_end == cursor + ValidationSize + layout.validation[n + 1]
store_end == Start + Length + IF here.v2 THEN here.path ELSE 0

FailCase ==
  /\ at \in {"security", "image", "validation", "store", "descriptor"}
  /\ \/ Start + Length > size /\ Refused
     \/ ~memory /\ Refuse(EFI_DEVICE_ERROR) /\ Refused

LEMMA ReadFailsCases == ReadFails => FailCase
BY DEF ReadFails, FailCase, Refused, Refusals

SecurityRead ==
  /\ at' = "image"
  /\ cursor' = ImageStart(layout)
  /\ UNCHANGED <<layout, size, memory, n, desired_store_count, rel_payload, store, plan, status>>

LEMMA ReadSecurityCases ==
  ASSUME ReadSecurity
  PROVE  /\ at = "security"
         /\ \/ ~SecurityOK(layout) /\ Refused
            \/ SecurityOK(layout) /\ SecurityRead
<1>1. at = "security" /\ EFI_VOLUME_CORRUPTED \in Refusals /\ EFI_UNSUPPORTED \in Refusals
  BY DEF ReadSecurity, Reads, Refusals
<1>2. CASE ~SecurityOK(layout)
  BY <1>1, <1>2 DEF ReadSecurity, SecurityOK, Refused
<1>3. CASE SecurityOK(layout)
  BY <1>1, <1>3 DEF ReadSecurity, SecurityOK, SecurityRead, ImageStart
<1> QED BY <1>1, <1>2, <1>3

ImageRead ==
  /\ at' = IF layout.image = "v2" /\ layout.validation # <<>> THEN "validation" ELSE "store"
  /\ cursor' = image_end
  /\ UNCHANGED <<layout, size, memory, n, desired_store_count, rel_payload, store, plan, status>>

LEMMA ReadImageCases ==
  ASSUME ReadImage
  PROVE  /\ at = "image"
         /\ \/ ~ImageOK(layout) /\ Refused
            \/ ImageOK(layout) /\ image_end > size /\ Refused
            \/ ImageOK(layout) /\ ImageRead
<1>1. at = "image" /\ EFI_VOLUME_CORRUPTED \in Refusals /\ EFI_END_OF_FILE \in Refusals
  BY DEF ReadImage, Reads, Refusals
<1>2. CASE ~ImageOK(layout)
  BY <1>1, <1>2 DEF ReadImage, ImageOK, Refused
<1>3. CASE ImageOK(layout)
  <2>1. IF Beyond(image_end) THEN Refuse(EFI_END_OF_FILE) ELSE ImageRead
    BY <1>1, <1>3 DEF ReadImage, ImageOK, ImageRead, image_end
  <2> QED BY <1>1, <1>3, <2>1 DEF Beyond, Refused
<1> QED BY <1>1, <1>2, <1>3

ValidationRead ==
  /\ cursor' = validation_end
  /\ IF n + 1 < Len(layout.validation)
       THEN at' = at /\ n' = n + 1
       ELSE at' = "store" /\ n' = 0
  /\ UNCHANGED <<layout, size, memory, desired_store_count, rel_payload, store, plan, status>>

LEMMA SkipValidationCases ==
  ASSUME SkipValidation
  PROVE  /\ at = "validation"
         /\ \/ validation_end > size /\ Refused
            \/ ValidationRead
<1>1. at = "validation" /\ EFI_END_OF_FILE \in Refusals
  BY DEF SkipValidation, Reads, Refusals
<1>2. IF Beyond(validation_end) THEN Refuse(EFI_END_OF_FILE) ELSE ValidationRead
  BY DEF SkipValidation, ValidationRead, validation_end
<1> QED BY <1>1, <1>2 DEF Beyond, Refused

StoreRead ==
  /\ at' = "descriptor"
  /\ cursor' = store_end
  /\ n' = 0
  /\ desired_store_count' = desired(layout, complete + 1, desired_store_count)
  /\ rel_payload' = 0
  /\ store' = [descriptor_base |-> store_end, block_size |-> here.block_size,
               payload_base |-> 0,
               payload_size |-> IF here.v2 THEN here.payload_size ELSE 0,
               entry_start |-> Len(plan.entries), entry_count |-> 0]
  /\ UNCHANGED <<layout, size, memory, plan, status>>

LEMMA ReadStoreCases ==
  ASSUME ReadStore, here.block_size \in Nat, MaxBlock \in Nat
  PROVE  /\ at = "store"
         /\ \/ ~HeaderOK(here) /\ Refused
            \/ here.v2 /\ store_end > size /\ Refused
            \/ HeaderOK(here) /\ StoreRead
<1>1. at = "store" /\ EFI_VOLUME_CORRUPTED \in Refusals /\ EFI_END_OF_FILE \in Refusals
  BY DEF ReadStore, Reads, Refusals
<1> DEFINE odd == here.v2 /\ 0 \in {here.count, here.path}
           beyond == here.v2 /\ Beyond(store_end)
           bad == ~here.known \/ here.block_size = 0 \/ here.block_size > MaxBlock
                    \/ here.descriptors = <<>>
<1>2. store' = [NoStore EXCEPT
                  !.descriptor_base = store_end,
                  !.block_size = here.block_size,
                  !.payload_size = IF here.v2 THEN here.payload_size ELSE 0,
                  !.entry_start = Len(plan.entries)] =>
        store' = [descriptor_base |-> store_end, block_size |-> here.block_size,
                  payload_base |-> 0,
                  payload_size |-> IF here.v2 THEN here.payload_size ELSE 0,
                  entry_start |-> Len(plan.entries), entry_count |-> 0]
  BY DEF NoStore
<1>3. CASE odd
  BY <1>1, <1>3 DEF ReadStore, HeaderOK, Refused
<1>4. CASE ~odd /\ beyond
  BY <1>1, <1>4 DEF ReadStore, store_end, Beyond, Refused
<1>5. CASE ~odd /\ ~beyond /\ bad
  <2>1. ~HeaderOK(here)
    BY <1>5 DEF HeaderOK
  <2>2. Refuse(EFI_VOLUME_CORRUPTED)
    BY <1>5 DEF ReadStore, store_end
  <2> QED BY <1>1, <2>1, <2>2 DEF Refused
<1>6. CASE ~odd /\ ~beyond /\ ~bad
  <2>1. HeaderOK(here)
    BY <1>6 DEF HeaderOK
  <2>2. StoreRead
    BY <1>2, <1>6 DEF ReadStore, store_end, StoreRead, rel_start, complete
  <2> QED BY <1>1, <2>1, <2>2
<1> QED BY <1>3, <1>4, <1>5, <1>6

DescriptorRead ==
  /\ plan' = [plan EXCEPT !.entries = Append(plan.entries, NewEntry)]
  /\ rel_payload' = rel_payload + byte_count
  /\ cursor' = table_end
  /\ n' = n + 1
  /\ at' = IF n + 1 = Len(here.descriptors) THEN "store_end" ELSE "descriptor"
  /\ UNCHANGED <<layout, size, memory, desired_store_count, store, status>>

LEMMA ReadDescriptorCases ==
  ASSUME ReadDescriptor, byte_count \in Nat, Word \in Nat
  PROVE  /\ at = "descriptor" /\ n < Len(here.descriptors)
         /\ \/ ~DescriptorOK(here, desc) /\ Refused
            \/ table_end > size /\ Refused
            \/ Refuse(EFI_OUT_OF_RESOURCES) /\ Refused
            \/ DescriptorOK(here, desc) /\ DescriptorRead
<1>1. /\ at = "descriptor" /\ n < Len(here.descriptors)
      /\ {EFI_VOLUME_CORRUPTED, EFI_END_OF_FILE, EFI_UNSUPPORTED, EFI_OUT_OF_RESOURCES}
           \subseteq Refusals
  BY DEF ReadDescriptor, Reads, Refusals
<1> DEFINE odd == 0 \in {desc.locations, desc.blocks}
           beyond == Beyond(table_end)
           large == byte_count >= Word
<1>2. CASE odd
  BY <1>1, <1>2 DEF ReadDescriptor, DescriptorOK, Refused
<1>3. CASE ~odd /\ beyond
  BY <1>1, <1>3 DEF ReadDescriptor, Beyond, Refused
<1>4. CASE ~odd /\ ~beyond /\ large
  <2>1. ~DescriptorOK(here, desc)
    BY <1>4 DEF DescriptorOK, byte_count
  <2>2. Refuse(EFI_UNSUPPORTED)
    BY <1>4 DEF ReadDescriptor
  <2> QED BY <1>1, <2>1, <2>2 DEF Refused
<1>5. CASE ~odd /\ ~beyond /\ ~large
  <2>1. DescriptorOK(here, desc)
    BY <1>5 DEF DescriptorOK, byte_count
  <2>2. Refuse(EFI_OUT_OF_RESOURCES) \/ DescriptorRead
    BY <1>1, <1>5 DEF ReadDescriptor, DescriptorRead, NextDescriptor
  <2> QED BY <1>1, <2>1, <2>2 DEF Refused
<1> QED BY <1>2, <1>3, <1>4, <1>5

StoreComplete ==
  /\ plan' = [plan EXCEPT !.stores = Append(plan.stores,
                [store EXCEPT !.entry_count = Len(here.descriptors),
                              !.payload_size = IF store.payload_size = 0 THEN rel_payload
                                               ELSE store.payload_size])]
  /\ n' = 0
  /\ at' = IF Len(plan'.stores) < desired_store_count THEN "store" ELSE "payload"
  /\ UNCHANGED <<layout, size, memory, cursor, desired_store_count, rel_payload, store, status>>

LEMMA EndStoreCases ==
  ASSUME EndStore
  PROVE  /\ at = "store_end"
         /\ (Refuse(EFI_OUT_OF_RESOURCES) /\ Refused) \/ StoreComplete
<1>1. at = "store_end" /\ EFI_OUT_OF_RESOURCES \in Refusals
  BY DEF EndStore, Refusals
<1> QED BY <1>1 DEF EndStore, StoreComplete, Refused

-------------------------------------------------------------------------------
(* Types. *)

LEMMA SizesPositive ==
  /\ SecuritySize \in Nat \ {0} /\ ImageSize \in Nat \ {0} /\ ImageSizeV2 \in Nat \ {0}
  /\ ValidationSize \in Nat \ {0} /\ StoreSize \in Nat \ {0} /\ StoreSizeV2 \in Nat \ {0}
  /\ DescriptorSize \in Nat \ {0} /\ LocationSize \in Nat \ {0} /\ ChunkUnit \in Nat \ {0}
  /\ HashUnit \in Nat \ {0} /\ Word \in Nat \ {0} /\ MaxBlock \in Nat \ {0}
  /\ MaxSize \in Nat
BY ParseAssumption

\* Aligning goes up, by less than the alignment.
LEMMA AlignFacts ==
  ASSUME NEW v \in Nat, NEW a \in Nat
  PROVE  /\ align_up(v, a) \in Nat
         /\ align_up(v, a) >= v
         /\ a # 0 => align_up(v, a) < v + a
<1>1. CASE a = 0
  BY <1>1 DEF align_up
<1>2. CASE a # 0
  <2> DEFINE r == v % a
  <2>1. r \in 0 .. a - 1
    BY <1>2
  <2>2. align_up(v, a) = IF r = 0 THEN v ELSE v + (a - r)
    BY <1>2 DEF align_up
  <2> HIDE DEF r
  <2> QED BY <1>2, <2>1, <2>2
<1> QED BY <1>1, <1>2

\* Products and sums stay natural numbers.
LEMMA Products == \A a, b \in Nat : a * b \in Nat
OBVIOUS

LEMMA Remainders == \A a \in Nat : a % Word \in Nat
<1>1. Word \in Nat \ {0}
  BY SizesPositive
<1> QED BY <1>1

\* What the layout says, and what it says of the store that is next.
LEMMA LayoutFacts ==
  ASSUME Typed
  PROVE  /\ layout \in Layout
         /\ chunk_size(layout) \in Nat
         /\ layout.catalog \in Nat /\ layout.hash \in Nat /\ layout.manifest \in Nat
         /\ layout.validation \in Seq(Nat) /\ Len(layout.validation) \in Nat
         /\ layout.stores \in Seq(Store) /\ Len(layout.stores) \in Nat
         /\ ImageStart(layout) \in Nat
<1>1. layout \in Layout
  BY ParseAssumption DEF Typed
<1>2. /\ layout.catalog \in Nat /\ layout.hash \in Nat /\ layout.manifest \in Nat
      /\ layout.validation \in Seq(Nat) /\ layout.stores \in Seq(Store)
      /\ layout.chunk \in Nat
  BY <1>1 DEF Layout
<1>3. chunk_size(layout) \in Nat
  BY <1>2, SizesPositive, Products, Remainders DEF chunk_size
<1>4. ImageStart(layout) \in Nat
  <2>1. SecuritySize + layout.catalog + layout.hash \in Nat
    BY <1>2, SizesPositive
  <2> QED BY <1>3, <2>1, AlignFacts DEF ImageStart
<1> QED BY <1>1, <1>2, <1>3, <1>4, LenProperties

LEMMA HeaderFacts ==
  ASSUME Typed, NEW k \in Nat \ {0}
  PROVE  Header(layout, k) \in Store
<1>1. Blank \in Store
  <2>1. <<>> \in Seq(Descriptor)
    BY EmptySeq
  <2> QED BY <2>1 DEF Blank, Store
<1>2. ASSUME k <= Len(layout.stores) PROVE layout.stores[k] \in Store
  BY <1>2, LayoutFacts, ElementOfSeq
<1> QED BY <1>1, <1>2 DEF Header

LEMMA StoreFacts ==
  ASSUME NEW s \in Store
  PROVE  /\ s.count \in Nat /\ s.payload_size \in Nat /\ s.path \in Nat /\ s.block_size \in Nat
         /\ s.descriptors \in Seq(Descriptor) /\ Len(s.descriptors) \in Nat
         /\ \A d \in 1 .. Len(s.descriptors) :
              s.descriptors[d].locations \in Nat /\ s.descriptors[d].blocks \in Nat
         /\ s.v2 \in BOOLEAN
         /\ StoreHeader(s) \in Nat
<1>1. /\ s.count \in Nat /\ s.payload_size \in Nat /\ s.path \in Nat /\ s.block_size \in Nat
      /\ s.descriptors \in Seq(Descriptor)
      /\ s.v2 \in BOOLEAN
  BY DEF Store
<1>2. /\ Len(s.descriptors) \in Nat
      /\ \A d \in 1 .. Len(s.descriptors) : s.descriptors[d] \in Descriptor
  BY <1>1, LenProperties, ElementOfSeq
<1>3. StoreHeader(s) \in Nat
  BY <1>1, SizesPositive DEF StoreHeader
<1> QED BY <1>1, <1>2, <1>3 DEF Descriptor

LEMMA PlanFacts ==
  ASSUME Typed
  PROVE  /\ plan.stores \in Seq(StoreRecord) /\ plan.entries \in Seq(EntryRecord)
         /\ plan.payload_base \in Nat
         /\ Len(plan.stores) \in Nat /\ Len(plan.entries) \in Nat
         /\ DOMAIN plan.entries = 1 .. Len(plan.entries)
         /\ \A k \in 1 .. Len(plan.stores) : plan.stores[k] \in StoreRecord
         /\ \A k \in 1 .. Len(plan.entries) : plan.entries[k] \in EntryRecord
<1>1. /\ plan.stores \in Seq(StoreRecord) /\ plan.entries \in Seq(EntryRecord)
      /\ plan.payload_base \in Nat
  BY DEF Typed, PlanRecord
<1> QED BY <1>1, LenProperties, ElementOfSeq

\* The store in hand.
LEMMA HereFacts ==
  ASSUME Typed
  PROVE  /\ here \in Store /\ complete \in Nat
         /\ Length \in Nat /\ Start \in Nat /\ Start >= cursor
         /\ cursor \in Nat /\ n \in Nat
<1>1. complete \in Nat
  BY PlanFacts DEF complete
<1>2. here \in Store
  BY <1>1, HeaderFacts DEF here, complete
<1>3. Length \in Nat
  BY SizesPositive DEF Length
<1>4. Start \in Nat /\ Start >= cursor
  <2>1. /\ align_up(cursor, chunk_size(layout)) \in Nat
        /\ align_up(cursor, chunk_size(layout)) >= cursor
        /\ cursor \in Nat
    BY LayoutFacts, AlignFacts DEF Typed
  <2> QED BY <2>1 DEF Start
<1> QED BY <1>1, <1>2, <1>3, <1>4 DEF Typed

\* The descriptor in hand.
LEMMA DescFacts ==
  ASSUME Typed, n < Len(here.descriptors)
  PROVE  /\ desc.locations \in Nat /\ desc.blocks \in Nat
         /\ byte_count \in Nat
         /\ table_end \in Nat /\ table_end >= cursor + DescriptorSize
<1>1. here.block_size \in Nat /\ n + 1 \in 1 .. Len(here.descriptors)
  BY HereFacts, StoreFacts
<1>2. desc.locations \in Nat /\ desc.blocks \in Nat
  BY <1>1, HereFacts, StoreFacts DEF desc
<1>3. byte_count \in Nat
  BY <1>1, <1>2, Products DEF byte_count
<1>4. desc.locations * LocationSize \in Nat
  BY <1>2, SizesPositive, Products
<1>5. cursor \in Nat /\ DescriptorSize \in Nat
  BY HereFacts, SizesPositive
<1> DEFINE table == desc.locations * LocationSize
<1> HIDE DEF table
<1>6. table \in Nat /\ table_end = cursor + DescriptorSize + table
  BY <1>4 DEF table_end, table
<1> QED BY <1>2, <1>3, <1>5, <1>6

LEMMA InitTyped == Init => Typed
<1> SUFFICES ASSUME Init PROVE Typed
  OBVIOUS
<1>1. NoStore \in StoreRecord
  BY DEF NoStore, StoreRecord
<1>2. EmptyPlan \in PlanRecord /\ EmptyPlan.entries = <<>>
  <2>1. <<>> \in Seq(StoreRecord) /\ <<>> \in Seq(EntryRecord)
    BY EmptySeq
  <2> QED BY <2>1 DEF EmptyPlan, PlanRecord
<1> QED BY <1>1, <1>2, RefusalFacts DEF Init, Typed

LEMMA RefusedTyped ==
  ASSUME Typed, Refused
  PROVE  Typed' /\ ~Unrefused'
<1>1. /\ at' = "returned" /\ status' \in EfiStatus /\ status' # EFI_SUCCESS
      /\ UNCHANGED <<layout, size, memory, cursor, n, desired_store_count, rel_payload,
                     store, plan>>
  BY RefusedFacts
<1> QED BY <1>1 DEF Typed, Unrefused

\* What comes ahead of the stores keeps the plan empty.
LEMMA SecurityTyped ==
  ASSUME Typed, SecurityRead
  PROVE  Typed'
BY LayoutFacts DEF SecurityRead, Typed

LEMMA ImageTyped ==
  ASSUME Typed, ImageRead
  PROVE  Typed' /\ cursor' >= cursor
<1>1. (Length + layout.manifest) % Word \in Nat
  <2>1. Length + layout.manifest \in Nat
    BY HereFacts, LayoutFacts
  <2> QED BY <2>1, Remainders
<1>2. image_end \in Nat /\ image_end >= cursor
  BY <1>1, HereFacts DEF image_end
<1> QED BY <1>2 DEF ImageRead, Typed

LEMMA ValidationTyped ==
  ASSUME Typed, ValidationRead, n < Len(layout.validation)
  PROVE  Typed' /\ cursor' >= cursor
<1>1. layout.validation[n + 1] \in Nat
  <2>1. n + 1 \in 1 .. Len(layout.validation)
    BY HereFacts, LayoutFacts
  <2> QED BY <2>1, LayoutFacts, ElementOfSeq
<1>2. validation_end \in Nat /\ validation_end >= cursor
  BY <1>1, HereFacts, SizesPositive DEF validation_end
<1>3. at' \in {at, "store"} /\ n' \in {n + 1, 0}
  BY DEF ValidationRead
<1>4. n' \in Nat
  BY <1>3, HereFacts
<1>5. cursor' = validation_end
      /\ UNCHANGED <<layout, size, memory, desired_store_count, rel_payload, store, plan,
                     status>>
  BY DEF ValidationRead
<1> HIDE DEF validation_end
<1> QED BY <1>2, <1>3, <1>4, <1>5 DEF Typed

LEMMA StoreTyped ==
  ASSUME Typed, StoreRead
  PROVE  Typed' /\ cursor' >= cursor
<1>1. store_end \in Nat /\ store_end >= cursor
  BY HereFacts, StoreFacts DEF store_end
<1>2. desired_store_count' \in Nat
  <2>1. here.count \in Nat
    BY HereFacts, StoreFacts
  <2> QED BY <2>1 DEF StoreRead, desired, here, complete, Typed
<1>3. store' \in StoreRecord
  <2>1. here.block_size \in Nat /\ here.payload_size \in Nat /\ Len(plan.entries) \in Nat
    BY HereFacts, StoreFacts, PlanFacts
  <2> QED BY <1>1, <2>1 DEF StoreRead, StoreRecord
<1> QED BY <1>1, <1>2, <1>3 DEF StoreRead, Typed

\* A field of the plan is a part of it.
LEMMA PlanUpdated ==
  ASSUME Typed
  PROVE  /\ \A E : LET p == [plan EXCEPT !.entries = E]
                   IN  p.entries = E /\ p.stores = plan.stores
                       /\ p.payload_base = plan.payload_base
                       /\ (E \in Seq(EntryRecord) => p \in PlanRecord)
         /\ \A S : LET p == [plan EXCEPT !.stores = S]
                   IN  p.stores = S /\ p.entries = plan.entries
                       /\ p.payload_base = plan.payload_base
                       /\ (S \in Seq(StoreRecord) => p \in PlanRecord)
<1>1. plan \in PlanRecord
  BY DEF Typed
<1> QED BY <1>1 DEF PlanRecord

\* The new entry is the last one.
LEMMA EntryAppended ==
  ASSUME Typed, n < Len(here.descriptors), here.block_size # 0, DescriptorOK(here, desc),
         DescriptorRead
  PROVE  /\ NewEntry \in EntryRecord
         /\ plan' \in PlanRecord
         /\ NewEntry.byte_count = byte_count /\ byte_count \in 1 .. Word - 1
         /\ plan'.stores = plan.stores /\ plan'.payload_base = plan.payload_base
         /\ plan'.entries = Append(plan.entries, NewEntry)
         /\ Len(plan'.entries) = Len(plan.entries) + 1
         /\ plan'.entries[Len(plan.entries) + 1] = NewEntry
         /\ \A k \in 1 .. Len(plan.entries) : plan'.entries[k] = plan.entries[k]
<1>1. plan.entries \in Seq(EntryRecord) /\ Len(plan.entries) \in Nat
  BY PlanFacts
<1>2. byte_count \in 1 .. Word - 1
  <2>1. byte_count \in Nat /\ byte_count < Word /\ Word \in Nat
    BY DescFacts, SizesPositive DEF DescriptorOK, byte_count
  <2>2. byte_count # 0
    <3> DEFINE b == here.block_size
               d == desc.blocks
    <3>1. b \in Nat \ {0} /\ d \in Nat \ {0}
      BY DescFacts, HereFacts, StoreFacts DEF DescriptorOK
    <3> HIDE DEF b, d
    <3>2. b * d # 0
      BY <3>1
    <3> QED BY <3>2 DEF b, d, byte_count
  <2> QED BY <2>1, <2>2
<1>3. NewEntry \in EntryRecord
  <2>1. rel_payload \in Nat /\ cursor \in Nat /\ desc.locations \in Nat
        /\ Len(plan.stores) \in Nat /\ byte_count \in Nat
    BY DescFacts, PlanFacts DEF Typed
  <2> QED BY <2>1 DEF NewEntry, EntryRecord
<1>4. NewEntry.byte_count = byte_count
  BY DEF NewEntry
<1>5. /\ plan'.stores = plan.stores /\ plan'.payload_base = plan.payload_base
      /\ plan'.entries = Append(plan.entries, NewEntry)
      /\ (Append(plan.entries, NewEntry) \in Seq(EntryRecord) => plan' \in PlanRecord)
  BY PlanUpdated DEF DescriptorRead
<1> DEFINE E == plan.entries
           F == plan'.entries
           new == NewEntry
<1>6. E \in Seq(EntryRecord) /\ new \in EntryRecord /\ F = Append(E, new)
  BY <1>1, <1>3, <1>5
<1> HIDE DEF E, F, new
<1>7. /\ F \in Seq(EntryRecord) /\ Len(F) = Len(E) + 1 /\ F[Len(E) + 1] = new
      /\ \A k \in 1 .. Len(E) : F[k] = E[k]
  BY <1>6, AppendProperties
<1> QED BY <1>2, <1>3, <1>4, <1>5, <1>7 DEF E, F, new

LEMMA DescriptorTyped ==
  ASSUME Typed, n < Len(here.descriptors), here.block_size # 0, DescriptorOK(here, desc),
         DescriptorRead
  PROVE  Typed' /\ cursor' >= cursor + DescriptorSize
<1>1. /\ cursor' \in Nat /\ cursor' >= cursor + DescriptorSize /\ rel_payload' \in Nat
      /\ n' \in Nat /\ at' \in {"descriptor", "store_end"}
      /\ UNCHANGED <<layout, size, memory, desired_store_count, store, status>>
  <2>1. table_end \in Nat /\ byte_count \in Nat /\ rel_payload \in Nat /\ n \in Nat
        /\ table_end >= cursor + DescriptorSize
    BY DescFacts DEF Typed
  <2> HIDE DEF table_end, byte_count
  <2>2. /\ cursor' = table_end /\ rel_payload' = rel_payload + byte_count /\ n' = n + 1
        /\ at' \in {"descriptor", "store_end"}
        /\ UNCHANGED <<layout, size, memory, desired_store_count, store, status>>
    BY DEF DescriptorRead
  <2>3. cursor' \in Nat /\ cursor' >= cursor + DescriptorSize
    <3>1. /\ table_end \in Nat /\ table_end >= cursor + DescriptorSize
          /\ cursor' = table_end
      BY <2>1, <2>2
    <3> QED BY <3>1
  <2>4. rel_payload' \in Nat /\ n' \in Nat
    <3>1. /\ byte_count \in Nat /\ rel_payload \in Nat /\ n \in Nat
          /\ rel_payload' = rel_payload + byte_count /\ n' = n + 1
      BY <2>1, <2>2
    <3> QED BY <3>1
  <2> QED BY <2>2, <2>3, <2>4
<1>2. plan' \in PlanRecord
  BY EntryAppended
<1>3. \A k \in DOMAIN plan'.entries : plan'.entries[k].byte_count \in 1 .. Word - 1
  <2>1. /\ Len(plan.entries) \in Nat
        /\ Len(plan'.entries) = Len(plan.entries) + 1
        /\ DOMAIN plan'.entries = 1 .. Len(plan'.entries)
    BY <1>2, EntryAppended, PlanFacts, LenProperties DEF PlanRecord
  <2>2. \A k \in DOMAIN plan'.entries : k \in 1 .. Len(plan.entries) \/ k = Len(plan.entries) + 1
    BY <2>1
  <2>3. \A k \in 1 .. Len(plan.entries) : plan.entries[k].byte_count \in 1 .. Word - 1
    BY PlanFacts DEF Typed
  <2> QED BY <2>2, <2>3, EntryAppended
<1> QED BY <1>1, <1>2, <1>3 DEF Typed

\* The store that is complete is the last one.
LEMMA StoreAppended ==
  ASSUME Typed, StoreComplete
  PROVE  LET new == plan'.stores[Len(plan.stores) + 1]
         IN  /\ plan' \in PlanRecord
             /\ plan'.entries = plan.entries /\ plan'.payload_base = plan.payload_base
             /\ plan'.stores = Append(plan.stores, new)
             /\ Len(plan'.stores) = Len(plan.stores) + 1
             /\ new \in StoreRecord
             /\ new.entry_start = store.entry_start
             /\ new.entry_count = Len(here.descriptors)
             /\ new.block_size = store.block_size
             /\ \A k \in 1 .. Len(plan.stores) : plan'.stores[k] = plan.stores[k]
<1> DEFINE size_known == IF store.payload_size = 0 THEN rel_payload ELSE store.payload_size
           new == [store EXCEPT !.entry_count = Len(here.descriptors),
                                !.payload_size = size_known]
           S == plan.stores
           T == plan'.stores
<1>1. S \in Seq(StoreRecord) /\ store \in StoreRecord
  BY PlanFacts DEF Typed
<1>2. Len(here.descriptors) \in Nat /\ size_known \in Nat
  BY <1>1, HereFacts, StoreFacts DEF Typed, StoreRecord
<1> HIDE DEF size_known
<1>3. /\ new \in StoreRecord
      /\ new.entry_start = store.entry_start /\ new.block_size = store.block_size
      /\ new.entry_count = Len(here.descriptors)
  BY <1>1, <1>2 DEF StoreRecord
<1>4. /\ T = Append(S, new)
      /\ plan'.entries = plan.entries /\ plan'.payload_base = plan.payload_base
      /\ (Append(S, new) \in Seq(StoreRecord) => plan' \in PlanRecord)
  <2>1. plan' = [plan EXCEPT !.stores = Append(S, new)]
    BY DEF StoreComplete, size_known
  <2> HIDE DEF new, S
  <2> QED BY <2>1, PlanUpdated
<1> HIDE DEF new, S, T
<1>5. /\ T \in Seq(StoreRecord) /\ Len(T) = Len(S) + 1 /\ T[Len(S) + 1] = new
      /\ \A k \in 1 .. Len(S) : T[k] = S[k]
  BY <1>1, <1>3, <1>4, AppendProperties
<1> QED BY <1>3, <1>4, <1>5 DEF S, T

LEMMA CompleteTyped ==
  ASSUME Typed, StoreComplete
  PROVE  Typed'
<1>1. plan' \in PlanRecord /\ plan'.entries = plan.entries
  BY StoreAppended
<1>2. n' \in Nat /\ at' \in {"store", "payload"}
      /\ UNCHANGED <<layout, size, memory, cursor, desired_store_count, rel_payload,
                     store, status>>
  BY DEF StoreComplete
<1> QED BY <1>1, <1>2 DEF Typed

\* The base of the next store.
next_base == align_up(cursor, plan.stores[n + 1].block_size)

\* Entry e is one of the next store.
OfNext(e) ==
  /\ e > plan.stores[n + 1].entry_start
  /\ e <= plan.stores[n + 1].entry_start + plan.stores[n + 1].entry_count

\* A store that is placed has a base, and its entries are moved there.
LEMMA StorePlaced ==
  ASSUME Typed, PlaceStore
  PROVE  /\ at = "payload" /\ at' = at /\ n < Len(plan.stores) /\ n' = n + 1
         /\ next_base \in Nat /\ next_base >= cursor
         /\ next_base < cursor + plan.stores[n + 1].block_size \/ plan.stores[n + 1].block_size = 0
         /\ cursor' = next_base + plan.stores[n + 1].payload_size
         /\ UNCHANGED <<layout, size, memory, desired_store_count, rel_payload, store, status>>
         /\ plan' \in PlanRecord
         /\ plan'.payload_base = IF plan.payload_base = 0 THEN next_base ELSE plan.payload_base
         /\ Len(plan'.stores) = Len(plan.stores)
         /\ plan'.stores[n + 1].payload_base = next_base
         /\ \A k \in 1 .. Len(plan.stores) :
              /\ plan'.stores[k].block_size = plan.stores[k].block_size
              /\ plan'.stores[k].payload_size = plan.stores[k].payload_size
              /\ plan'.stores[k].entry_start = plan.stores[k].entry_start
              /\ plan'.stores[k].entry_count = plan.stores[k].entry_count
              /\ k # n + 1 => plan'.stores[k].payload_base = plan.stores[k].payload_base
         /\ Len(plan'.entries) = Len(plan.entries)
         /\ \A e \in 1 .. Len(plan.entries) :
              /\ plan'.entries[e].byte_count = plan.entries[e].byte_count
              /\ plan'.entries[e].store_index = plan.entries[e].store_index
              /\ plan'.entries[e].descriptor_offset = plan.entries[e].descriptor_offset
              /\ plan'.entries[e].location_count = plan.entries[e].location_count
              /\ plan'.entries[e].payload_offset =
                   plan.entries[e].payload_offset + IF OfNext(e) THEN next_base ELSE 0
<1> DEFINE S == plan.stores
           E == plan.entries
           F == [e \in DOMAIN E |-> IF OfNext(e)
                                      THEN [E[e] EXCEPT !.payload_offset = E[e].payload_offset + next_base]
                                      ELSE E[e]]
           T == [S EXCEPT ![n + 1].payload_base = next_base]
           start == IF plan.payload_base = 0 THEN next_base ELSE plan.payload_base
<1>1. /\ at = "payload" /\ at' = at /\ n < Len(plan.stores) /\ n' = n + 1
      /\ cursor' = next_base + plan.stores[n + 1].payload_size
      /\ UNCHANGED <<layout, size, memory, desired_store_count, rel_payload, store, status>>
  BY DEF PlaceStore, next_base
<1>2. n \in Nat /\ Len(S) \in Nat /\ n + 1 \in 1 .. Len(S) /\ S[n + 1] \in StoreRecord
      /\ S \in Seq(StoreRecord) /\ E \in Seq(EntryRecord) /\ plan.payload_base \in Nat
      /\ DOMAIN E = 1 .. Len(E) /\ Len(E) \in Nat /\ cursor \in Nat
  BY <1>1, PlanFacts DEF Typed
<1>3. /\ next_base \in Nat /\ next_base >= cursor
      /\ next_base < cursor + plan.stores[n + 1].block_size \/ plan.stores[n + 1].block_size = 0
  <2>1. S[n + 1].block_size \in Nat
    BY <1>2 DEF StoreRecord
  <2> QED BY <1>2, <2>1, AlignFacts DEF next_base
<1>4. plan' = [plan EXCEPT !.stores[n + 1].payload_base = next_base,
                           !.payload_base = start, !.entries = F]
  <2>1. plan' =
          [plan EXCEPT
             !.stores[n + 1].payload_base = next_base,
             !.payload_base = IF plan.payload_base = 0 THEN next_base ELSE plan.payload_base,
             !.entries = [e \in DOMAIN plan.entries |->
                            IF e > plan.stores[n + 1].entry_start
                                 /\ e <= plan.stores[n + 1].entry_start
                                           + plan.stores[n + 1].entry_count
                              THEN [plan.entries[e] EXCEPT
                                      !.payload_offset = plan.entries[e].payload_offset + next_base]
                              ELSE plan.entries[e]]]
    BY DEF PlaceStore, next_base
  <2> QED BY <2>1, Zenon DEF OfNext
<1> HIDE DEF F, start
<1>5. plan'.stores = T /\ plan'.entries = F /\ plan'.payload_base = start
      /\ plan' = [stores |-> T, entries |-> F, payload_base |-> start]
  <2>1. plan = [stores |-> S, entries |-> E, payload_base |-> plan.payload_base]
    BY DEF Typed, PlanRecord
  <2> QED BY <1>4, <2>1
<1>6. /\ T \in Seq(StoreRecord) /\ Len(T) = Len(S) /\ T[n + 1].payload_base = next_base
      /\ \A k \in 1 .. Len(S) :
           /\ T[k].block_size = S[k].block_size /\ T[k].payload_size = S[k].payload_size
           /\ T[k].entry_start = S[k].entry_start /\ T[k].entry_count = S[k].entry_count
           /\ k # n + 1 => T[k].payload_base = S[k].payload_base
  <2>1. [S[n + 1] EXCEPT !.payload_base = next_base] \in StoreRecord
    BY <1>2, <1>3 DEF StoreRecord
  <2>2. T = [S EXCEPT ![n + 1] = [S[n + 1] EXCEPT !.payload_base = next_base]]
    OBVIOUS
  <2> DEFINE s == S[n + 1]
             t == [s EXCEPT !.payload_base = next_base]
  <2>3. /\ t.payload_base = next_base /\ t.block_size = s.block_size
        /\ t.payload_size = s.payload_size
        /\ t.entry_start = s.entry_start /\ t.entry_count = s.entry_count
    BY <1>2 DEF StoreRecord
  <2>4. S \in Seq(StoreRecord) /\ t \in StoreRecord /\ n + 1 \in 1 .. Len(S)
        /\ T = [S EXCEPT ![n + 1] = t]
    BY <1>2, <2>1, <2>2
  <2> HIDE DEF t, T, S
  <2>5. T \in Seq(StoreRecord) /\ Len(T) = Len(S)
        /\ \A k \in 1 .. Len(S) : T[k] = IF k = n + 1 THEN t ELSE S[k]
    BY <2>4, ExceptSeq
  <2> QED BY <1>2, <2>3, <2>5
<1>7. /\ F \in Seq(EntryRecord) /\ Len(F) = Len(E)
      /\ \A e \in 1 .. Len(E) :
           /\ F[e].byte_count = E[e].byte_count /\ F[e].store_index = E[e].store_index
           /\ F[e].descriptor_offset = E[e].descriptor_offset
           /\ F[e].location_count = E[e].location_count
           /\ F[e].payload_offset = E[e].payload_offset + IF OfNext(e) THEN next_base ELSE 0
  <2> DEFINE f(e) == IF OfNext(e)
                       THEN [E[e] EXCEPT !.payload_offset = E[e].payload_offset + next_base]
                       ELSE E[e]
  <2>1. ASSUME NEW e \in 1 .. Len(E)
        PROVE  /\ f(e) \in EntryRecord
               /\ f(e).byte_count = E[e].byte_count /\ f(e).store_index = E[e].store_index
               /\ f(e).descriptor_offset = E[e].descriptor_offset
               /\ f(e).location_count = E[e].location_count
               /\ f(e).payload_offset = E[e].payload_offset + IF OfNext(e) THEN next_base ELSE 0
    <3>1. E[e] \in EntryRecord
      BY <1>2, ElementOfSeq
    <3> HIDE DEF E
    <3>2. CASE OfNext(e)
      BY <1>3, <3>1, <3>2 DEF EntryRecord
    <3>3. CASE ~OfNext(e)
      BY <3>1, <3>3 DEF EntryRecord
    <3> QED BY <3>2, <3>3
  <2>2. F = [e \in 1 .. Len(E) |-> f(e)]
    BY <1>2 DEF F
  <2> HIDE DEF f, E
  <2>3. F \in Seq(EntryRecord) /\ Len(F) = Len(E) /\ \A e \in 1 .. Len(E) : F[e] = f(e)
    BY <1>2, <2>1, <2>2
  <2> QED BY <2>1, <2>3
<1>8. start \in Nat
  BY <1>2, <1>3 DEF start
<1> QED BY <1>1, <1>3, <1>5, <1>6, <1>7, <1>8 DEF start, PlanRecord

LEMMA PlacedTyped == ASSUME Typed, PlaceStore PROVE Typed' /\ cursor' >= cursor
<1>1. /\ at' = at /\ n' = n + 1 /\ n < Len(plan.stores)
      /\ next_base \in Nat /\ next_base >= cursor
      /\ cursor' = next_base + plan.stores[n + 1].payload_size
      /\ UNCHANGED <<layout, size, memory, desired_store_count, rel_payload, store, status>>
      /\ plan' \in PlanRecord
      /\ Len(plan'.entries) = Len(plan.entries)
      /\ \A e \in 1 .. Len(plan.entries) : plan'.entries[e].byte_count = plan.entries[e].byte_count
  BY StorePlaced
<1>2. plan.stores[n + 1].payload_size \in Nat /\ n \in Nat /\ cursor \in Nat
  <2>1. n \in Nat /\ cursor \in Nat /\ Len(plan.stores) \in Nat
    BY PlanFacts DEF Typed
  <2>2. n + 1 \in 1 .. Len(plan.stores)
    BY <1>1, <2>1
  <2> QED BY <2>1, <2>2, PlanFacts DEF StoreRecord
<1>3. cursor' \in Nat /\ cursor' >= cursor /\ n' \in Nat
  BY <1>1, <1>2
<1>4. DOMAIN plan'.entries = DOMAIN plan.entries /\ DOMAIN plan.entries = 1 .. Len(plan.entries)
  BY <1>1, PlanFacts, LenProperties DEF PlanRecord
<1>5. \A k \in DOMAIN plan'.entries : plan'.entries[k].byte_count \in 1 .. Word - 1
  BY <1>1, <1>4 DEF Typed
<1> QED BY <1>1, <1>3, <1>5 DEF Typed

LEMMA FinishTyped == ASSUME Typed, Finish PROVE Typed'
<1>1. /\ at' = "returned" /\ status' \in EfiStatus
      /\ UNCHANGED <<layout, size, memory, cursor, n, desired_store_count, rel_payload,
                     store, plan>>
  <2>1. EFI_END_OF_FILE \in EfiStatus /\ EFI_VOLUME_CORRUPTED \in EfiStatus
    BY RefusalFacts DEF Refusals
  <2> QED BY <2>1, RefusalFacts DEF Finish
<1> QED BY <1>1 DEF Typed

-------------------------------------------------------------------------------
(* Tables of locations. *)

LEMMA NotZero == \A c \in Nat : c + 1 # 0 /\ c + 1 >= 1
OBVIOUS

LEMMA TableFacts ==
  ASSUME NEW e \in EntryRecord
  PROVE  /\ TableEnd(e) \in Nat /\ e.descriptor_offset \in Nat
         /\ TableEnd(e) >= e.descriptor_offset
         /\ TableEnd(e) >= DescriptorSize
<1>1. e.location_count \in Nat /\ e.descriptor_offset \in Nat
  BY DEF EntryRecord
<1> DEFINE table == e.location_count * LocationSize
<1>2. table \in Nat /\ DescriptorSize \in Nat
  BY <1>1, SizesPositive, Products
<1>3. TableEnd(e) = e.descriptor_offset + DescriptorSize + table
  BY DEF TableEnd
<1> HIDE DEF table
<1> QED BY <1>1, <1>2, <1>3

\* Tables end before whatever is behind their end.
LEMMA UpToMore ==
  ASSUME Typed, NEW p \in Nat, NEW q \in Nat, p <= q, TablesUpTo(plan.entries, p)
  PROVE  TablesUpTo(plan.entries, q)
<1>1. \A k \in DOMAIN plan.entries : TableEnd(plan.entries[k]) \in Nat
  BY PlanFacts, TableFacts
<1> QED BY <1>1 DEF TablesUpTo

LEMMA InitTables == Init => TablesSound
<1> SUFFICES ASSUME Init PROVE TablesSound
  OBVIOUS
<1>1. plan.entries = <<>> /\ plan.payload_base = 0 /\ at = "security"
  BY DEF Init, EmptyPlan
<1>2. DOMAIN plan.entries = {}
  BY <1>1
<1>3. Walking
  BY <1>1 DEF Walking
<1> QED BY <1>1, <1>2, <1>3 DEF TablesSound, TablesApart, TablesUpTo

\* What moves the cursor on and leaves the plan alone.
LEMMA TablesKept ==
  ASSUME Typed, TablesSound, Walking, Walking', UNCHANGED plan, cursor' \in Nat,
         cursor' >= cursor
  PROVE  TablesSound'
<1>1. TablesApart(plan.entries) /\ TablesUpTo(plan.entries, cursor) /\ plan.payload_base = 0
  BY DEF TablesSound
<1>2. cursor \in Nat
  BY DEF Typed
<1>3. TablesUpTo(plan.entries, cursor')
  BY <1>1, <1>2, UpToMore
<1>4. TablesApart(plan'.entries) /\ TablesUpTo(plan'.entries, cursor')
      /\ plan'.payload_base = 0
  BY <1>1, <1>3
<1> QED BY <1>4 DEF TablesSound, Walking

LEMMA DescriptorTables ==
  ASSUME Typed, TablesSound, at = "descriptor", n < Len(here.descriptors),
         here.block_size # 0, DescriptorOK(here, desc), DescriptorRead
  PROVE  TablesSound'
<1> DEFINE E == plan.entries
           F == plan'.entries
           len == Len(E)
<1>1. TablesApart(E) /\ TablesUpTo(E, cursor) /\ plan.payload_base = 0
  BY DEF TablesSound, Walking
<1>2. /\ F[len + 1] = NewEntry /\ len \in Nat /\ plan' \in PlanRecord
      /\ Len(F) = len + 1
      /\ DOMAIN E = 1 .. len
      /\ \A k \in 1 .. len : F[k] = E[k]
      /\ plan'.payload_base = plan.payload_base
  BY EntryAppended, PlanFacts
<1>3. DOMAIN F = 1 .. len + 1
  BY <1>2, LenProperties DEF PlanRecord
<1>4. cursor \in Nat /\ cursor' \in Nat /\ cursor' = table_end /\ cursor' >= cursor
  <2>1. cursor \in Nat /\ DescriptorSize \in Nat
    BY SizesPositive DEF Typed
  <2>2. cursor' = table_end /\ table_end \in Nat /\ table_end >= cursor + DescriptorSize
    BY DescFacts DEF DescriptorRead
  <2> HIDE DEF table_end
  <2> QED BY <2>1, <2>2
<1>5. F[len + 1].descriptor_offset = cursor /\ TableEnd(F[len + 1]) = cursor'
  <2>1. NewEntry.descriptor_offset = cursor /\ NewEntry.location_count = desc.locations
    BY DEF NewEntry
  <2> QED BY <1>2, <1>4, <2>1 DEF TableEnd, table_end
<1>6. \A k \in 1 .. len : TableEnd(E[k]) \in Nat
  BY PlanFacts, TableFacts
<1> HIDE DEF E, F
<1>7. \A k \in 1 .. len : TableEnd(F[k]) <= cursor
  BY <1>1, <1>2 DEF TablesUpTo
<1>8. TablesUpTo(F, cursor')
  <2> SUFFICES ASSUME NEW k \in 1 .. len + 1 PROVE TableEnd(F[k]) <= cursor'
    BY <1>3 DEF TablesUpTo
  <2>1. CASE k = len + 1
    BY <1>4, <1>5, <2>1
  <2>2. CASE k \in 1 .. len
    <3>1. TableEnd(F[k]) \in Nat /\ TableEnd(F[k]) <= cursor
      BY <1>2, <1>6, <1>7, <2>2
    <3> QED BY <1>4, <3>1
  <2> QED BY <1>2, <2>1, <2>2
<1>9. TablesApart(F)
  <2> SUFFICES ASSUME NEW j \in 1 .. len + 1, NEW k \in 1 .. len + 1, j < k
               PROVE  TableEnd(F[j]) <= F[k].descriptor_offset
    BY <1>3 DEF TablesApart
  <2>1. j \in 1 .. len
    BY <1>2
  <2>2. CASE k = len + 1
    BY <1>5, <1>7, <2>1, <2>2
  <2>3. CASE k \in 1 .. len
    BY <1>1, <1>2, <2>1, <2>3 DEF TablesApart
  <2> QED BY <1>2, <2>2, <2>3
<1>10. Walking'
  BY DEF DescriptorRead, Walking
<1>11. at' # "returned"
  BY <1>10 DEF Walking
<1> QED BY <1>1, <1>2, <1>8, <1>9, <1>10, <1>11 DEF TablesSound, F

LEMMA CompleteTables ==
  ASSUME Typed, TablesSound, at = "store_end", plan.entries # <<>>, StoreComplete
  PROVE  TablesSound'
<1>1. /\ TablesApart(plan.entries) /\ TablesUpTo(plan.entries, cursor)
      /\ plan.payload_base = 0
  BY DEF TablesSound, Walking
<1>2. /\ plan'.entries = plan.entries /\ plan'.payload_base = plan.payload_base
      /\ Len(plan'.stores) = Len(plan.stores) + 1 /\ Len(plan.stores) \in Nat
  BY StoreAppended, PlanFacts
<1>3. plan'.stores # <<>>
  <2> SUFFICES ASSUME plan'.stores = <<>> PROVE FALSE
    OBVIOUS
  <2> DEFINE count == Len(plan.stores)
  <2>1. count \in Nat /\ count + 1 = 0
    BY <1>2
  <2> HIDE DEF count
  <2> QED BY <2>1, NotZero, Zenon
<1>4. n' = 0 /\ cursor' = cursor /\ at' # "returned"
  BY DEF StoreComplete
<1>5. /\ TablesApart(plan'.entries) /\ TablesUpTo(plan'.entries, cursor')
      /\ plan'.payload_base = 0
  BY <1>1, <1>2, <1>4
<1>6. plan'.entries # <<>>
  BY <1>2
<1> QED BY <1>3, <1>4, <1>5, <1>6 DEF TablesSound

LEMMA PlacedTables ==
  ASSUME Typed, TablesSound, PlaceStore
  PROVE  TablesSound' /\ (IF n = 0 THEN plan'.payload_base = next_base
                                   ELSE plan'.payload_base = plan.payload_base)
<1> DEFINE E == plan.entries
           F == plan'.entries
           len == Len(E)
<1>1. /\ at = "payload" /\ at' = at /\ n' = n + 1
      /\ next_base \in Nat /\ next_base >= cursor
      /\ plan' \in PlanRecord
      /\ plan'.payload_base = IF plan.payload_base = 0 THEN next_base ELSE plan.payload_base
      /\ Len(plan'.stores) = Len(plan.stores)
      /\ Len(F) = len
      /\ \A e \in 1 .. len :
           /\ F[e].descriptor_offset = E[e].descriptor_offset
           /\ F[e].location_count = E[e].location_count
  BY StorePlaced
<1>2. /\ TablesApart(E) /\ plan.stores # <<>> /\ E # <<>>
      /\ IF n = 0 THEN TablesUpTo(E, cursor) /\ plan.payload_base = 0
                  ELSE TablesUpTo(E, plan.payload_base)
  BY <1>1 DEF TablesSound, Walking
<1>3. /\ len \in Nat /\ DOMAIN E = 1 .. len /\ Len(plan.stores) \in Nat
      /\ plan.payload_base \in Nat /\ cursor \in Nat /\ n \in Nat
      /\ \A e \in 1 .. len : E[e] \in EntryRecord
      /\ E \in Seq(EntryRecord)
  BY PlanFacts DEF Typed
<1>4. 1 \in 1 .. len
  <2>1. len # 0
    BY <1>2, <1>3, EmptySeq
  <2> QED BY <1>3, <2>1
<1>5. TableEnd(E[1]) \in Nat /\ TableEnd(E[1]) > 0
  <2>1. DescriptorSize \in Nat /\ DescriptorSize > 0
    BY SizesPositive
  <2>2. TableEnd(E[1]) \in Nat /\ TableEnd(E[1]) >= DescriptorSize
    BY <1>3, <1>4, TableFacts
  <2> QED BY <2>1, <2>2
<1>6. IF n = 0 THEN plan'.payload_base = next_base ELSE plan'.payload_base = plan.payload_base
  <2>1. CASE n = 0
    BY <1>1, <1>2, <2>1
  <2>2. CASE n # 0
    <3>1. TableEnd(E[1]) <= plan.payload_base
      BY <1>2, <1>3, <1>4, <2>2 DEF TablesUpTo
    <3>2. plan.payload_base # 0
      BY <1>3, <1>5, <3>1
    <3> QED BY <1>1, <2>2, <3>2
  <2> QED BY <2>1, <2>2
<1>7. TablesUpTo(E, plan'.payload_base)
  <2>1. CASE n = 0
    BY <1>1, <1>2, <1>3, <1>6, <2>1, UpToMore
  <2>2. CASE n # 0
    BY <1>2, <1>6, <2>2
  <2> QED BY <2>1, <2>2
<1>8. DOMAIN F = 1 .. len
  BY <1>1, LenProperties DEF PlanRecord
<1> HIDE DEF E, F, len
<1>9. \A e \in 1 .. len : TableEnd(F[e]) = TableEnd(E[e])
  BY <1>1 DEF TableEnd
<1>10. TablesUpTo(F, plan'.payload_base) /\ TablesApart(F)
  BY <1>1, <1>2, <1>3, <1>7, <1>8, <1>9 DEF TablesUpTo, TablesApart
<1>11. plan'.stores # <<>> /\ F # <<>>
  <2>1. F # <<>>
    <3>1. DOMAIN F # {}
      BY <1>4, <1>8
    <3> QED BY <3>1
  <2>2. Len(plan.stores) # 0
    BY <1>2, PlanFacts, EmptySeq
  <2>3. Len(plan'.stores) # 0
    BY <1>1, <2>2
  <2> QED BY <2>1, <2>3
<1>12. n' # 0 /\ ~Walking' /\ at' # "returned"
  BY <1>1, <1>3 DEF Walking
<1> QED BY <1>6, <1>10, <1>11, <1>12 DEF TablesSound, F

LEMMA FinishTables ==
  ASSUME Typed, TablesSound, Finish
  PROVE  Unrefused' => TablesSound'
<1> SUFFICES ASSUME Unrefused' PROVE TablesSound'
  OBVIOUS
<1>1. /\ at = "payload" /\ n = Len(plan.stores) /\ at' = "returned"
      /\ n' = n /\ plan' = plan /\ cursor' = cursor /\ size' = size
      /\ status' = IF ~TooShort THEN EFI_SUCCESS
                   ELSE IF memory THEN EFI_END_OF_FILE ELSE EFI_VOLUME_CORRUPTED
  BY DEF Finish
<1>2. ~TooShort
  <2>1. EFI_END_OF_FILE # EFI_SUCCESS /\ EFI_VOLUME_CORRUPTED # EFI_SUCCESS
    BY RefusalFacts DEF Refusals
  <2>2. status' = EFI_SUCCESS
    BY <1>1 DEF Unrefused
  <2> QED BY <1>1, <2>1, <2>2
<1>3. plan.payload_base <= size
  <2>1. size \in 0 .. MaxSize /\ MaxSize \in Nat /\ plan.payload_base \in Nat
    BY SizesPositive, PlanFacts DEF Typed
  <2> QED BY <1>2, <2>1 DEF TooShort
<1>4. n # 0
  <2>1. plan.stores # <<>>
    BY <1>1 DEF TablesSound, Walking
  <2> QED BY <1>1, <2>1, PlanFacts, EmptySeq
<1>5. ~Walking /\ ~Walking'
  BY <1>1 DEF Walking
<1> QED BY <1>1, <1>3, <1>4, <1>5 DEF TablesSound

-------------------------------------------------------------------------------
(* Induction and recursion over the natural numbers. *)

Before == {nm \in Nat \X Nat : nm[1] < nm[2]}

\* A set of natural numbers has a least element.
LEMMA LeastElement ==
  ASSUME NEW T, T \subseteq Nat, T # {}
  PROVE  \E x \in T : \A y \in T : x <= y
<1>1. IsWellFoundedOn(Before, Nat)
  <2>1. OpToRel(<, Nat) = Before
    BY DEF OpToRel, Before
  <2> QED BY <2>1, NatLessThanWellFounded
<1>2. PICK x \in T : \A y \in T : ~(<<y, x>> \in Before)
  BY <1>1, WFMin
<1>3. ASSUME NEW y \in T PROVE x <= y
  <2>1. x \in Nat /\ y \in Nat
    OBVIOUS
  <2>2. <<y, x>> \in Nat \X Nat /\ <<y, x>>[1] = y /\ <<y, x>>[2] = x
    BY <2>1
  <2>3. ~(<<y, x>>[1] < <<y, x>>[2])
    BY <1>2, <2>2 DEF Before
  <2> QED BY <2>1, <2>2, <2>3
<1> QED BY <1>3

\* A set that has 0, and k + 1 with every k, has every natural number.
LEMMA SetInduction ==
  ASSUME NEW G, 0 \in G, \A k \in Nat : k \in G => k + 1 \in G
  PROVE  Nat \subseteq G
<1> DEFINE T == Nat \ G
<1>1. SUFFICES ASSUME T # {} PROVE FALSE
  OBVIOUS
<1>2. PICK x \in T : \A y \in T : x <= y
  BY <1>1, LeastElement
<1>3. x - 1 \in Nat /\ x - 1 \in G
  BY <1>2
<1> QED BY <1>2, <1>3

\* f starts at b, and every value comes from the one before by T.
Unfolds(f, b, m, T) == f[0] = b /\ \A k \in 1 .. m : f[k] = T[f[k - 1]][k]

\* A function by recursion on the numbers up to m.
LEMMA Recursion ==
  ASSUME NEW m \in Nat, NEW b \in Nat,
         NEW T, \A x \in Nat, k \in 1 .. m : T[x][k] \in Nat
  PROVE  \E f \in [0 .. m -> Nat] : Unfolds(f, b, m, T)
<1> DEFINE G == {i \in Nat : i <= m => \E f \in [0 .. i -> Nat] : Unfolds(f, b, i, T)}
<1>1. 0 \in G
  <2> DEFINE f == [k \in 0 .. 0 |-> b]
  <2>1. f \in [0 .. 0 -> Nat] /\ Unfolds(f, b, 0, T)
    BY DEF Unfolds
  <2> QED BY <2>1
<1>2. ASSUME NEW i \in Nat, i \in G PROVE i + 1 \in G
  <2> SUFFICES ASSUME i + 1 <= m
               PROVE  \E f \in [0 .. i + 1 -> Nat] : Unfolds(f, b, i + 1, T)
    OBVIOUS
  <2>1. PICK f \in [0 .. i -> Nat] : Unfolds(f, b, i, T)
    BY <1>2
  <2> DEFINE next == T[f[i]][i + 1]
             g == [k \in 0 .. i + 1 |-> IF k <= i THEN f[k] ELSE next]
  <2>2. next \in Nat
    <3>1. f[i] \in Nat /\ i + 1 \in 1 .. m
      OBVIOUS
    <3> QED BY <3>1
  <2>3. g \in [0 .. i + 1 -> Nat]
    BY <2>2
  <2>4. g[0] = b
    BY <2>1 DEF Unfolds
  <2>5. ASSUME NEW k \in 1 .. i + 1 PROVE g[k] = T[g[k - 1]][k]
    <3>1. CASE k <= i
      <4>1. k \in 1 .. i /\ g[k] = f[k] /\ g[k - 1] = f[k - 1]
        BY <3>1
      <4> QED BY <2>1, <4>1 DEF Unfolds
    <3>2. CASE ~(k <= i)
      <4>1. k = i + 1 /\ g[k] = next /\ g[i] = f[i] /\ k - 1 = i
        BY <3>2
      <4> QED BY <4>1
    <3> QED BY <3>1, <3>2
  <2> HIDE DEF g
  <2> QED BY <2>3, <2>4, <2>5 DEF Unfolds
<1> HIDE DEF G
<1>3. m \in G
  BY <1>1, <1>2, SetInduction
<1> QED BY <1>3 DEF G

-------------------------------------------------------------------------------
(* Sums. *)

Plus(terms) == [x \in Nat |-> [k \in 1 .. Len(terms) |-> x + terms[k]]]

LEMMA SumsFacts ==
  ASSUME NEW terms \in Seq(Nat)
  PROVE  /\ Len(terms) \in Nat
         /\ Sums(terms)[0] = 0
         /\ \A k \in 1 .. Len(terms) : Sums(terms)[k] = Sums(terms)[k - 1] + terms[k]
         /\ \A k \in 0 .. Len(terms) : Sums(terms)[k] \in Nat
         /\ \A k \in 1 .. Len(terms) : terms[k] \in Nat
<1> DEFINE m == Len(terms)
           T == Plus(terms)
           v == Sums(terms)
<1>1. m \in Nat /\ \A k \in 1 .. m : terms[k] \in Nat
  BY LenProperties, ElementOfSeq
<1>2. \A x \in Nat, k \in 1 .. m : T[x][k] = x + terms[k]
  BY DEF Plus
<1>3. \A x \in Nat, k \in 1 .. m : T[x][k] \in Nat
  <2> TAKE x \in Nat, k \in 1 .. m
  <2>1. terms[k] \in Nat
    BY <1>1
  <2>2. x + terms[k] \in Nat
    BY <2>1
  <2> HIDE DEF T
  <2> QED BY <1>2, <2>2
<1> HIDE DEF T, m
<1>4. PICK f \in [0 .. m -> Nat] : Unfolds(f, 0, m, T)
  BY <1>1, <1>3, Recursion
<1>5. f[0] = 0 /\ \A k \in 1 .. m : f[k] = f[k - 1] + terms[k]
  <2>1. ASSUME NEW k \in 1 .. m PROVE f[k] = f[k - 1] + terms[k]
    <3>1. k - 1 \in 0 .. m /\ f[k - 1] \in Nat
      BY <1>1
    <3>2. f[k] = T[f[k - 1]][k]
      BY <1>4 DEF Unfolds
    <3> QED BY <1>2, <3>1, <3>2
  <2> QED BY <1>4, <2>1 DEF Unfolds
<1>6. f = [k \in 0 .. m |-> IF k = 0 THEN 0 ELSE f[k - 1] + terms[k]]
  BY <1>1, <1>5
<1>7. v = [k \in 0 .. m |-> IF k = 0 THEN 0 ELSE v[k - 1] + terms[k]]
  BY <1>6 DEF Sums, m
<1> HIDE DEF v
<1>8. v[0] = 0 /\ \A k \in 1 .. m : v[k] = v[k - 1] + terms[k]
  BY <1>1, <1>7
<1> DEFINE G == {k \in Nat : k <= m => v[k] \in Nat}
<1>9. \A k \in Nat : k \in G
  <2>1. 0 \in G
    BY <1>8
  <2>2. ASSUME NEW k \in Nat, k \in G PROVE k + 1 \in G
    <3> SUFFICES ASSUME k + 1 <= m PROVE v[k + 1] \in Nat
      OBVIOUS
    <3>1. k + 1 \in 1 .. m /\ (k + 1) - 1 = k /\ v[k] \in Nat
      BY <1>1, <2>2
    <3>2. v[k + 1] = v[k] + terms[k + 1] /\ terms[k + 1] \in Nat
      BY <1>1, <1>8, <3>1
    <3> QED BY <3>1, <3>2
  <2> HIDE DEF G
  <2> QED BY <2>1, <2>2, SetInduction
<1>10. \A k \in 0 .. m : v[k] \in Nat
  BY <1>1, <1>9
<1> QED BY <1>1, <1>8, <1>10 DEF v, m

\* Sums grow.
LEMMA SumsGrow ==
  ASSUME NEW terms \in Seq(Nat), NEW j \in 0 .. Len(terms)
  PROVE  \A k \in j .. Len(terms) : Sums(terms)[j] <= Sums(terms)[k]
<1> DEFINE m == Len(terms)
           v == Sums(terms)
<1>1. /\ m \in Nat
      /\ \A k \in 1 .. m : v[k] = v[k - 1] + terms[k] /\ terms[k] \in Nat
      /\ \A k \in 0 .. m : v[k] \in Nat
  BY SumsFacts
<1>2. j \in 0 .. m
  OBVIOUS
<1> HIDE DEF v, m
<1> DEFINE G == {k \in Nat : j + k <= m => v[j] <= v[j + k]}
<1>3. \A k \in Nat : k \in G
  <2>1. 0 \in G
    BY <1>1, <1>2
  <2>2. ASSUME NEW k \in Nat, k \in G PROVE k + 1 \in G
    <3> SUFFICES ASSUME j + (k + 1) <= m PROVE v[j] <= v[j + (k + 1)]
      OBVIOUS
    <3> DEFINE i == j + k
    <3>1. i + 1 \in 1 .. m /\ (i + 1) - 1 = i /\ i \in 0 .. m /\ j + (k + 1) = i + 1
      BY <1>1, <1>2
    <3>2. v[j] <= v[i]
      BY <1>1, <1>2, <2>2
    <3> HIDE DEF i
    <3>3. v[i + 1] = v[i] + terms[i + 1] /\ terms[i + 1] \in Nat /\ v[i] \in Nat
      BY <1>1, <3>1
    <3>4. v[j] \in Nat
      BY <1>1, <1>2
    <3>5. v[j] <= v[i + 1]
      BY <3>2, <3>3, <3>4
    <3> QED BY <3>1, <3>5
  <2> HIDE DEF G
  <2> QED BY <2>1, <2>2, SetInduction
<1>4. ASSUME NEW k \in j .. m PROVE v[j] <= v[k]
  <2>1. k - j \in Nat /\ j + (k - j) = k
    BY <1>1, <1>2
  <2>2. k - j \in G
    BY <1>3, <2>1
  <2> QED BY <1>1, <2>1, <2>2
<1> QED BY <1>4 DEF v, m

\* The sums of equal terms are equal.
LEMMA SumsSame ==
  ASSUME NEW a \in Seq(Nat), NEW b \in Seq(Nat), NEW m \in Nat,
         m <= Len(a), m <= Len(b), \A k \in 1 .. m : a[k] = b[k]
  PROVE  Sums(a)[m] = Sums(b)[m]
<1> DEFINE v == Sums(a)
           w == Sums(b)
           la == Len(a)
           lb == Len(b)
<1>1. /\ la \in Nat /\ lb \in Nat /\ v[0] = 0 /\ w[0] = 0
      /\ \A k \in 1 .. la : v[k] = v[k - 1] + a[k]
      /\ \A k \in 1 .. lb : w[k] = w[k - 1] + b[k]
  BY SumsFacts
<1>2. m <= la /\ m <= lb
  OBVIOUS
<1> HIDE DEF v, w, la, lb
<1> DEFINE G == {k \in Nat : k <= m => v[k] = w[k]}
<1>3. \A k \in Nat : k \in G
  <2>1. 0 \in G
    BY <1>1
  <2>2. ASSUME NEW k \in Nat, k \in G PROVE k + 1 \in G
    <3> SUFFICES ASSUME k + 1 <= m PROVE v[k + 1] = w[k + 1]
      OBVIOUS
    <3>1. /\ k + 1 \in 1 .. la /\ k + 1 \in 1 .. lb /\ k + 1 \in 1 .. m
          /\ (k + 1) - 1 = k /\ v[k] = w[k]
      BY <1>1, <1>2, <2>2
    <3>2. v[k + 1] = v[k] + a[k + 1] /\ w[k + 1] = w[k] + b[k + 1]
      BY <1>1, <3>1
    <3> QED BY <3>1, <3>2
  <2> HIDE DEF G
  <2> QED BY <2>1, <2>2, SetInduction
<1> QED BY <1>3 DEF v, w

\* One more term.
LEMMA TotalMore ==
  ASSUME NEW a \in Seq(Nat), NEW b \in Seq(Nat), Len(b) = Len(a) + 1,
         \A k \in 1 .. Len(a) : a[k] = b[k]
  PROVE  Total(b) = Total(a) + b[Len(a) + 1]
<1> DEFINE m == Len(a)
<1>1. m \in Nat /\ m <= m /\ m <= Len(b) /\ m + 1 = Len(b) /\ m + 1 \in 1 .. Len(b)
      /\ (m + 1) - 1 = m
  BY LenProperties
<1>2. Sums(b)[m + 1] = Sums(b)[m] + b[m + 1]
  BY <1>1, SumsFacts
<1>3. Sums(a)[m] = Sums(b)[m]
  BY <1>1, SumsSame
<1> QED BY <1>1, <1>2, <1>3 DEF Total

LEMMA TotalSame ==
  ASSUME NEW a \in Seq(Nat), NEW b \in Seq(Nat), Len(b) = Len(a),
         \A k \in 1 .. Len(a) : a[k] = b[k]
  PROVE  Total(b) = Total(a)
<1>1. Len(a) \in Nat /\ Len(a) <= Len(b) /\ Len(a) <= Len(a)
  BY LenProperties
<1>2. Sums(a)[Len(a)] = Sums(b)[Len(a)]
  BY <1>1, SumsSame
<1> QED BY <1>2 DEF Total

LEMMA TotalNat == ASSUME NEW a \in Seq(Nat) PROVE Total(a) \in Nat
<1>1. Len(a) \in 0 .. Len(a)
  BY LenProperties
<1> QED BY <1>1, SumsFacts DEF Total

\* Nothing adds up to nothing.
LEMMA TotalNothing ==
  ASSUME NEW a \in Seq(Nat), \A k \in 1 .. Len(a) : a[k] = 0
  PROVE  Total(a) = 0
<1> DEFINE m == Len(a)
           v == Sums(a)
<1>1. /\ m \in Nat /\ v[0] = 0
      /\ \A k \in 1 .. m : v[k] = v[k - 1] + a[k] /\ a[k] = 0
      /\ \A k \in 0 .. m : v[k] \in Nat
  BY SumsFacts
<1> HIDE DEF v, m
<1> DEFINE G == {k \in Nat : k <= m => v[k] = 0}
<1>2. \A k \in Nat : k \in G
  <2>1. 0 \in G
    BY <1>1
  <2>2. ASSUME NEW k \in Nat, k \in G PROVE k + 1 \in G
    <3> SUFFICES ASSUME k + 1 <= m PROVE v[k + 1] = 0
      OBVIOUS
    <3>1. k + 1 \in 1 .. m /\ (k + 1) - 1 = k /\ v[k] = 0
      BY <1>1, <2>2
    <3>2. v[k + 1] = v[k] + a[k + 1] /\ a[k + 1] = 0
      BY <1>1, <3>1
    <3> QED BY <3>1, <3>2
  <2> HIDE DEF G
  <2> QED BY <2>1, <2>2, SetInduction
<1>3. m \in G
  BY <1>1, <1>2
<1>4. v[m] = 0
  BY <1>1, <1>3
<1> QED BY <1>4 DEF v, m, Total

\* What stores hold is made of natural numbers, one for each entry.
LEMMA HeldFacts ==
  ASSUME NEW k \in Nat, NEW E \in Seq(EntryRecord)
  PROVE  /\ HeldBy(k, E) \in Seq(Nat) /\ Len(HeldBy(k, E)) = Len(E)
         /\ \A e \in 1 .. Len(E) :
              HeldBy(k, E)[e] = IF E[e].store_index = k - 1 THEN E[e].byte_count ELSE 0
<1> DEFINE m == Len(E)
           f(e) == IF E[e].store_index = k - 1 THEN E[e].byte_count ELSE 0
<1>1. m \in Nat /\ \A e \in 1 .. m : f(e) \in Nat
  <2>1. m \in Nat
    BY LenProperties
  <2>2. ASSUME NEW e \in 1 .. m PROVE E[e].byte_count \in Nat
    <3>1. E[e] \in EntryRecord
      BY ElementOfSeq
    <3> QED BY <3>1 DEF EntryRecord
  <2> QED BY <2>1, <2>2
<1>2. HeldBy(k, E) = [e \in 1 .. m |-> f(e)]
  BY DEF HeldBy
<1> HIDE DEF f, m
<1>3. /\ HeldBy(k, E) \in Seq(Nat) /\ Len(HeldBy(k, E)) = m
      /\ \A e \in 1 .. m : HeldBy(k, E)[e] = f(e)
  BY <1>1, <1>2
<1> QED BY <1>3 DEF f, m

-------------------------------------------------------------------------------
(* Entries, stores and payload. *)

\* Where the entries of a store are.
LEMMA PartsUse ==
  ASSUME NEW S \in Seq(StoreRecord), NEW E \in Seq(EntryRecord), Parts(S, E)
  PROVE  /\ Behind(S) \in Nat /\ Behind(S) <= Len(E) /\ Len(E) \in Nat /\ Len(S) \in Nat
         /\ \A k \in 1 .. Len(S) :
              /\ S[k].entry_start \in Nat /\ S[k].entry_count \in Nat /\ S[k].entry_count >= 1
              /\ S[k].entry_start + 1 \in Part(S, k)
              /\ S[k].entry_start + S[k].entry_count \in Part(S, k)
              /\ \A e \in Part(S, k) : e \in 1 .. Behind(S) /\ e \in 1 .. Len(E)
<1>1. Len(E) \in Nat /\ Len(S) \in Nat
  BY LenProperties
<1>2. \A k \in 1 .. Len(S) : S[k].entry_start \in Nat /\ S[k].entry_count \in Nat
  <2> TAKE k \in 1 .. Len(S)
  <2>1. S[k] \in StoreRecord
    BY ElementOfSeq
  <2> QED BY <2>1 DEF StoreRecord
<1>3. Behind(S) \in Nat
  <2>1. CASE S = <<>>
    BY <2>1 DEF Behind
  <2>2. CASE S # <<>>
    <3>1. Len(S) \in 1 .. Len(S)
      <4>1. Len(S) # 0
        BY <2>2, EmptySeq
      <4> QED BY <1>1, <4>1
    <3>2. S[Len(S)].entry_start \in Nat /\ S[Len(S)].entry_count \in Nat
      BY <1>2, <3>1
    <3> QED BY <2>2, <3>2 DEF Behind
  <2> QED BY <2>1, <2>2
<1>4. /\ Behind(S) <= Len(E)
      /\ \A k \in 1 .. Len(S) : /\ S[k].entry_count >= 1
                                /\ S[k].entry_start + S[k].entry_count <= Behind(S)
  BY DEF Parts
<1>5. ASSUME NEW k \in 1 .. Len(S)
      PROVE  /\ S[k].entry_start + 1 \in Part(S, k)
             /\ S[k].entry_start + S[k].entry_count \in Part(S, k)
             /\ \A e \in Part(S, k) : e \in 1 .. Behind(S) /\ e \in 1 .. Len(E)
  <2> DEFINE s == S[k].entry_start
             c == S[k].entry_count
             b == Behind(S)
             m == Len(E)
  <2>1. s \in Nat /\ c \in Nat /\ c >= 1 /\ s + c <= b /\ b <= m /\ b \in Nat /\ m \in Nat
    BY <1>1, <1>2, <1>3, <1>4
  <2>2. Part(S, k) = s + 1 .. s + c
    BY DEF Part
  <2> HIDE DEF s, c, b, m
  <2>3. s + 1 \in s + 1 .. s + c /\ s + c \in s + 1 .. s + c
    BY <2>1
  <2>4. \A e \in s + 1 .. s + c : e \in 1 .. b /\ e \in 1 .. m
    BY <2>1
  <2> QED BY <2>2, <2>3, <2>4 DEF s, c, b, m
<1> QED BY <1>1, <1>2, <1>3, <1>4, <1>5

LEMMA InitOrder == Init => OrderSound
<1> SUFFICES ASSUME Init PROVE OrderSound
  OBVIOUS
<1>1. plan.stores = <<>> /\ plan.entries = <<>> /\ at = "security"
  BY DEF Init, EmptyPlan
<1>2. Len(<<>>) = 0
  BY EmptySeq
<1>3. placed = 0
  BY <1>1 DEF placed, Walking
<1>4. Behind(<<>>) = 0
  BY DEF Behind
<1>5. Parts(<<>>, <<>>) /\ Chained(<<>>) /\ Bounded(<<>>, <<>>, 0)
      /\ Placed(<<>>, 0, plan.payload_base)
  BY <1>2, <1>4 DEF Parts, Chained, Bounded, Placed
<1> QED BY <1>1, <1>2, <1>3, <1>4, <1>5 DEF OrderSound, Walking

\* The structures ahead of the stores.
LEMMA OrderKept ==
  ASSUME OrderSound, at \in {"security", "image", "validation"},
         at' \in {"image", "validation", "store"}, UNCHANGED plan
  PROVE  OrderSound'
<1>1. placed = 0 /\ placed' = 0 /\ at \notin {"descriptor", "store_end"}
      /\ at' \notin {"descriptor", "store_end"} /\ Walking'
  BY DEF placed, Walking
<1>2. /\ Parts(plan.stores, plan.entries) /\ Chained(plan.entries)
      /\ Bounded(plan.stores, plan.entries, 0) /\ Placed(plan.stores, 0, plan.payload_base)
      /\ \A k \in 1 .. Len(plan.stores) : plan.stores[k].block_size >= 1
      /\ 0 <= Len(plan.stores)
      /\ Len(plan.entries) = Behind(plan.stores)
  BY <1>1 DEF OrderSound
<1>3. /\ Parts(plan'.stores, plan'.entries) /\ Chained(plan'.entries)
      /\ Bounded(plan'.stores, plan'.entries, 0) /\ Placed(plan'.stores, 0, plan'.payload_base)
      /\ \A k \in 1 .. Len(plan'.stores) : plan'.stores[k].block_size >= 1
      /\ 0 <= Len(plan'.stores)
      /\ Len(plan'.entries) = Behind(plan'.stores)
  BY <1>2
<1> QED BY <1>1, <1>3 DEF OrderSound

LEMMA HeaderStoreFacts ==
  ASSUME Typed, HeaderOK(here)
  PROVE  /\ here.block_size \in Nat /\ here.block_size >= 1 /\ here.block_size # 0
         /\ Len(here.descriptors) \in Nat /\ Len(here.descriptors) >= 1
<1>1. here.block_size \in 1 .. MaxBlock /\ MaxBlock \in Nat /\ here.descriptors # <<>>
  BY SizesPositive DEF HeaderOK
<1>2. here.descriptors \in Seq(Descriptor) /\ Len(here.descriptors) \in Nat
  BY HereFacts, StoreFacts
<1>3. Len(here.descriptors) # 0
  BY <1>1, <1>2, EmptySeq
<1>4. here.block_size \in Nat /\ here.block_size >= 1 /\ here.block_size # 0
  BY <1>1
<1> DEFINE len == Len(here.descriptors)
<1>5. len \in Nat /\ len # 0
  BY <1>2, <1>3
<1> HIDE DEF len
<1>6. len >= 1
  BY <1>5
<1> QED BY <1>4, <1>5, <1>6 DEF len

LEMMA StoreOrder ==
  ASSUME Typed, OrderSound, at = "store", HeaderOK(here), StoreRead
  PROVE  OrderSound'
<1> DEFINE S == plan.stores
           E == plan.entries
<1>1. placed = 0 /\ Walking /\ Walking' /\ placed' = 0 /\ at' = "descriptor"
  BY DEF placed, Walking, StoreRead
<1>2. /\ Parts(S, E) /\ Chained(E) /\ Bounded(S, E, 0) /\ Placed(S, 0, plan.payload_base)
      /\ \A k \in 1 .. Len(S) : S[k].block_size >= 1
      /\ 0 <= Len(S)
      /\ Len(E) = Behind(S)
  BY <1>1 DEF OrderSound
<1>3. /\ plan' = plan /\ n' = 0 /\ rel_payload' = 0
      /\ store'.entry_start = Len(E) /\ store'.block_size = here.block_size
      /\ layout' = layout
  BY DEF StoreRead
<1>4. here' = here
  BY <1>3 DEF here, Header, Blank
<1>5. /\ S \in Seq(StoreRecord) /\ E \in Seq(EntryRecord) /\ Len(S) \in Nat /\ Len(E) \in Nat
      /\ Len(S) + 1 \in Nat
  BY PlanFacts
<1>6. \A e \in 1 .. Len(E) : E[e].store_index # Len(S)
  <2> TAKE e \in 1 .. Len(E)
  <2>1. PICK k \in 1 .. Len(S) : e \in Part(S, k)
    BY <1>2 DEF Parts
  <2>2. E[e].store_index = k - 1
    BY <1>2, <2>1 DEF Parts
  <2>3. k - 1 # Len(S)
    BY <1>5
  <2> QED BY <2>2, <2>3
<1>7. Total(HeldBy(Len(S) + 1, E)) = 0
  <2> DEFINE h == HeldBy(Len(S) + 1, E)
  <2>1. h \in Seq(Nat) /\ Len(h) = Len(E)
    BY <1>5, HeldFacts
  <2>2. (Len(S) + 1) - 1 = Len(S)
    BY <1>5
  <2>3. \A e \in 1 .. Len(E) : h[e] = 0
    BY <1>5, <1>6, <2>2, HeldFacts
  <2> HIDE DEF h
  <2>4. Total(h) = 0
    BY <2>1, <2>3, TotalNothing
  <2> QED BY <2>4 DEF h
<1>8. InHand(S, E, Len(E), 0, 0)
  <2>1. Len(E) + 1 .. Len(E) = {} /\ Len(E) = Len(E) + 0
    BY <1>5
  <2> QED BY <1>2, <1>7, <2>1 DEF InHand
<1>9. Len(here.descriptors) > 0 /\ here.block_size >= 1
  BY HeaderStoreFacts
<1>10. /\ Parts(plan'.stores, plan'.entries) /\ Chained(plan'.entries)
       /\ Bounded(plan'.stores, plan'.entries, placed')
       /\ Placed(plan'.stores, placed', plan'.payload_base)
       /\ \A k \in 1 .. Len(plan'.stores) : plan'.stores[k].block_size >= 1
       /\ placed' <= Len(plan'.stores)
       /\ InHand(plan'.stores, plan'.entries, store'.entry_start, n', rel_payload')
  BY <1>1, <1>2, <1>3, <1>8
<1>11. store'.block_size >= 1 /\ n' < Len(here'.descriptors)
  BY <1>3, <1>4, <1>9
<1> HIDE DEF S, E
<1> QED BY <1>1, <1>10, <1>11 DEF OrderSound

\* One more entry, in the store in hand.
LEMMA EntryOrder ==
  ASSUME NEW S \in Seq(StoreRecord), NEW E \in Seq(EntryRecord), NEW F \in Seq(EntryRecord),
         NEW start \in Nat, NEW count \in Nat, NEW rel \in Nat, NEW new \in EntryRecord,
         Len(F) = Len(E) + 1, F[Len(E) + 1] = new, \A e \in 1 .. Len(E) : F[e] = E[e],
         new.store_index = Len(S), new.payload_offset = rel,
         Parts(S, E), Chained(E), Bounded(S, E, 0), InHand(S, E, start, count, rel)
  PROVE  /\ Parts(S, F) /\ Chained(F) /\ Bounded(S, F, 0)
         /\ InHand(S, F, start, count + 1, rel + new.byte_count)
<1> DEFINE len == Len(E)
           c == Len(S)
           b == Behind(S)
<1>1. len \in Nat /\ c \in Nat /\ b \in Nat /\ b <= len /\ Len(F) = len + 1
      /\ c + 1 \in Nat /\ (c + 1) - 1 = c
  BY PartsUse
<1>2. \A e \in 1 .. len : F[e] = E[e]
  OBVIOUS
<1>3. new.byte_count \in Nat /\ new.payload_offset \in Nat
  BY DEF EntryRecord
<1>4. /\ start = b /\ len = start + count
      /\ \A e \in start + 1 .. len : E[e].store_index = c
      /\ IF count = 0 THEN rel = 0
                      ELSE /\ E[start + 1].payload_offset = 0
                           /\ E[len].payload_offset + E[len].byte_count = rel
      /\ rel = Total(HeldBy(c + 1, E))
  BY DEF InHand
<1>5. F[len + 1] = new /\ new.store_index = c /\ new.payload_offset = rel
  OBVIOUS
<1>6. \A k \in 1 .. c : \A e \in Part(S, k) : e \in 1 .. len /\ F[e] = E[e]
  BY <1>2, PartsUse
<1>7. Parts(S, F)
  <2>1. b <= Len(F)
    BY <1>1
  <2>2. \A k \in 1 .. c : \A e \in Part(S, k) : F[e].store_index = k - 1
    BY <1>6 DEF Parts
  <2> HIDE DEF len, b
  <2> QED BY <2>1, <2>2 DEF Parts, b
<1>8. \A k \in Nat : /\ HeldBy(k, E) \in Seq(Nat) /\ HeldBy(k, F) \in Seq(Nat)
                     /\ Len(HeldBy(k, E)) = len /\ Len(HeldBy(k, F)) = len + 1
                     /\ \A e \in 1 .. len : HeldBy(k, F)[e] = HeldBy(k, E)[e]
                     /\ HeldBy(k, F)[len + 1] =
                          IF new.store_index = k - 1 THEN new.byte_count ELSE 0
  <2> TAKE k \in Nat
  <2>1. /\ HeldBy(k, E) \in Seq(Nat) /\ Len(HeldBy(k, E)) = len
        /\ \A e \in 1 .. len :
              HeldBy(k, E)[e] = IF E[e].store_index = k - 1 THEN E[e].byte_count ELSE 0
    BY HeldFacts
  <2>2. /\ HeldBy(k, F) \in Seq(Nat) /\ Len(HeldBy(k, F)) = len + 1
        /\ \A e \in 1 .. len + 1 :
              HeldBy(k, F)[e] = IF F[e].store_index = k - 1 THEN F[e].byte_count ELSE 0
    BY <1>1, HeldFacts
  <2>3. len + 1 \in 1 .. len + 1 /\ \A e \in 1 .. len : e \in 1 .. len + 1
    BY <1>1
  <2> HIDE DEF len
  <2> QED BY <1>2, <1>5, <2>1, <2>2, <2>3
<1>9. \A k \in Nat : Total(HeldBy(k, F)) =
                       Total(HeldBy(k, E)) + IF c = k - 1 THEN new.byte_count ELSE 0
  <2> TAKE k \in Nat
  <2> DEFINE h == HeldBy(k, E)
             g == HeldBy(k, F)
             more == IF c = k - 1 THEN new.byte_count ELSE 0
  <2>1. h \in Seq(Nat) /\ g \in Seq(Nat) /\ Len(g) = Len(h) + 1
        /\ (\A e \in 1 .. Len(h) : h[e] = g[e])
        /\ g[Len(h) + 1] = more
    BY <1>5, <1>8
  <2> HIDE DEF h, g, more
  <2>2. Total(g) = Total(h) + g[Len(h) + 1]
    BY <2>1, TotalMore
  <2>3. Total(g) = Total(h) + more
    BY <2>1, <2>2
  <2> QED BY <2>3 DEF h, g, more
<1> HIDE DEF len, c, b
<1>10. Chained(F)
  <2> SUFFICES ASSUME NEW k \in 1 .. len, F[k].store_index = F[k + 1].store_index
               PROVE  F[k + 1].payload_offset = F[k].payload_offset + F[k].byte_count
    <3>1. Len(F) - 1 = len
      BY <1>1
    <3> QED BY <3>1 DEF Chained
  <2>1. CASE k < len
    <3>1. k \in 1 .. len - 1 /\ k + 1 \in 1 .. len
      BY <1>1, <2>1
    <3>2. F[k] = E[k] /\ F[k + 1] = E[k + 1]
      BY <1>2, <3>1
    <3> QED BY <3>1, <3>2 DEF Chained, len
  <2>2. CASE k = len
    <3>1. F[k] = E[len] /\ F[k + 1] = new
      BY <1>2, <1>5, <2>2
    <3>2. count # 0
      <4> SUFFICES ASSUME count = 0 PROVE FALSE
        OBVIOUS
      <4>1. len \in 1 .. b
        BY <1>1, <1>4, <2>2
      <4>2. PICK j \in 1 .. c : len \in Part(S, j)
        BY <4>1 DEF Parts, b, c
      <4>3. E[len].store_index = j - 1
        BY <4>2 DEF Parts, c
      <4>4. j - 1 # c
        BY <1>1
      <4> QED BY <1>5, <3>1, <4>3, <4>4
    <3> QED BY <1>4, <1>5, <3>1, <3>2
  <2> QED BY <1>1, <2>1, <2>2
<1>11. Bounded(S, F, 0)
  <2> SUFFICES ASSUME NEW k \in 1 .. c
               PROVE  /\ F[S[k].entry_start + 1].payload_offset = Base(S, 0, k)
                      /\ F[S[k].entry_start + S[k].entry_count].payload_offset
                           + F[S[k].entry_start + S[k].entry_count].byte_count
                           = Base(S, 0, k) + Total(HeldBy(k, F))
    BY DEF Bounded, c
  <2> DEFINE i == S[k].entry_start + 1
             j == S[k].entry_start + S[k].entry_count
  <2>1. i \in Part(S, k) /\ j \in Part(S, k)
    BY PartsUse DEF c
  <2>2. F[i] = E[i] /\ F[j] = E[j]
    BY <1>6, <2>1
  <2>3. /\ E[i].payload_offset = Base(S, 0, k)
        /\ E[j].payload_offset + E[j].byte_count = Base(S, 0, k) + Total(HeldBy(k, E))
    BY DEF Bounded, c
  <2> HIDE DEF i, j
  <2>4. Total(HeldBy(k, F)) = Total(HeldBy(k, E))
    <3>1. k \in Nat /\ c # k - 1
      BY <1>1
    <3>2. HeldBy(k, E) \in Seq(Nat)
      BY <1>8, <3>1
    <3>3. Total(HeldBy(k, E)) \in Nat
      BY <3>2, TotalNat
    <3>4. Total(HeldBy(k, F)) = Total(HeldBy(k, E)) + 0
      BY <1>9, <3>1
    <3> QED BY <3>3, <3>4
  <2> QED BY <2>2, <2>3, <2>4 DEF i, j
<1>12. InHand(S, F, start, count + 1, rel + new.byte_count)
  <2>1. start = b /\ Len(F) = start + (count + 1)
    BY <1>1, <1>4
  <2>2. \A e \in start + 1 .. len + 1 : F[e].store_index = c
    <3> TAKE e \in start + 1 .. len + 1
    <3>1. CASE e = len + 1
      BY <1>5, <3>1
    <3>2. CASE e # len + 1
      <4>1. e \in 1 .. len /\ e \in start + 1 .. len
        BY <1>1, <3>2
      <4> QED BY <1>2, <1>4, <4>1
    <3> QED BY <3>1, <3>2
  <2>3. count + 1 # 0
    OBVIOUS
  <2>4. F[start + 1].payload_offset = 0
    <3>1. CASE count = 0
      <4>1. len = start
        BY <1>1, <1>4, <3>1
      <4> QED BY <1>4, <1>5, <3>1, <4>1
    <3>2. CASE count # 0
      <4>1. start + 1 \in 1 .. len
        BY <1>1, <1>4, <3>2
      <4> QED BY <1>2, <1>4, <3>2, <4>1
    <3> QED BY <3>1, <3>2
  <2>5. F[len + 1].payload_offset + F[len + 1].byte_count = rel + new.byte_count
    BY <1>5
  <2>6. rel + new.byte_count = Total(HeldBy(c + 1, F))
    BY <1>1, <1>4, <1>9
  <2> QED BY <1>1, <2>1, <2>2, <2>3, <2>4, <2>5, <2>6 DEF InHand, b, c
<1> QED BY <1>7, <1>10, <1>11, <1>12

LEMMA DescriptorOrder ==
  ASSUME Typed, OrderSound, at = "descriptor", n < Len(here.descriptors),
         here.block_size # 0, DescriptorOK(here, desc), DescriptorRead
  PROVE  OrderSound'
<1> DEFINE S == plan.stores
           E == plan.entries
           F == plan'.entries
           start == store.entry_start
<1>1. placed = 0 /\ Walking /\ Walking' /\ placed' = 0
  BY DEF placed, Walking, DescriptorRead
<1>2. /\ Parts(S, E) /\ Chained(E) /\ Bounded(S, E, 0) /\ Placed(S, 0, plan.payload_base)
      /\ \A k \in 1 .. Len(S) : S[k].block_size >= 1
      /\ 0 <= Len(S)
      /\ InHand(S, E, start, n, rel_payload) /\ store.block_size >= 1
  BY <1>1 DEF OrderSound
<1>3. /\ NewEntry \in EntryRecord /\ plan' \in PlanRecord
      /\ NewEntry.byte_count = byte_count
      /\ plan'.stores = S /\ plan'.payload_base = plan.payload_base
      /\ Len(F) = Len(E) + 1 /\ F[Len(E) + 1] = NewEntry
      /\ \A k \in 1 .. Len(E) : F[k] = E[k]
  BY EntryAppended
<1>4. NewEntry.store_index = Len(S) /\ NewEntry.payload_offset = rel_payload
  BY DEF NewEntry
<1>5. /\ S \in Seq(StoreRecord) /\ E \in Seq(EntryRecord) /\ F \in Seq(EntryRecord)
      /\ start \in Nat /\ n \in Nat /\ rel_payload \in Nat
  BY <1>3, PlanFacts DEF Typed, PlanRecord, StoreRecord
<1>6. /\ n' = n + 1 /\ rel_payload' = rel_payload + byte_count /\ store' = store
      /\ layout' = layout
      /\ at' = IF n + 1 = Len(here.descriptors) THEN "store_end" ELSE "descriptor"
  BY DEF DescriptorRead
<1> DEFINE new == NewEntry
           rel == rel_payload
<1>7. /\ Parts(S, F) /\ Chained(F) /\ Bounded(S, F, 0)
      /\ InHand(S, F, start, n + 1, rel + new.byte_count)
  <2>1. /\ Parts(S, E) /\ Chained(E) /\ Bounded(S, E, 0) /\ InHand(S, E, start, n, rel)
        /\ Len(F) = Len(E) + 1 /\ F[Len(E) + 1] = new /\ \A e \in 1 .. Len(E) : F[e] = E[e]
        /\ new.store_index = Len(S) /\ new.payload_offset = rel
        /\ new \in EntryRecord /\ S \in Seq(StoreRecord) /\ E \in Seq(EntryRecord)
        /\ F \in Seq(EntryRecord) /\ start \in Nat /\ n \in Nat /\ rel \in Nat
    BY <1>2, <1>3, <1>4, <1>5
  <2> HIDE DEF S, E, F, start, new, rel
  <2> QED BY <2>1, EntryOrder
<1>8. here' = here
  BY <1>3, <1>6 DEF here, Header, Blank
<1>9. /\ Parts(plan'.stores, plan'.entries) /\ Chained(plan'.entries)
      /\ Bounded(plan'.stores, plan'.entries, placed')
      /\ Placed(plan'.stores, placed', plan'.payload_base)
      /\ \A k \in 1 .. Len(plan'.stores) : plan'.stores[k].block_size >= 1
      /\ placed' <= Len(plan'.stores)
      /\ InHand(plan'.stores, plan'.entries, store'.entry_start, n', rel_payload')
      /\ store'.block_size >= 1
  BY <1>1, <1>2, <1>3, <1>6, <1>7
<1>10. at' \in {"descriptor", "store_end"}
  BY <1>6
<1>11. /\ at' = "descriptor" => n' < Len(here'.descriptors)
       /\ at' = "store_end" => n' = Len(here'.descriptors) /\ n' >= 1
  <2> DEFINE m == Len(here.descriptors)
  <2>1. m \in Nat /\ n < m /\ n \in Nat /\ n' = n + 1 /\ Len(here'.descriptors) = m
        /\ at' = IF n + 1 = m THEN "store_end" ELSE "descriptor"
    BY <1>5, <1>6, <1>8, HereFacts, StoreFacts
  <2> HIDE DEF m
  <2>2. CASE n + 1 = m
    <3>1. at' = "store_end" /\ at' # "descriptor" /\ n' = m
      BY <2>1, <2>2
    <3>2. n + 1 >= 1
      BY <1>5, NotZero, Zenon
    <3> QED BY <2>1, <3>1, <3>2
  <2>3. CASE n + 1 # m
    <3>1. at' = "descriptor" /\ at' # "store_end" /\ n' < m
      BY <2>1, <2>3
    <3> QED BY <2>1, <3>1
  <2> QED BY <2>2, <2>3
<1> HIDE DEF S, E, F, start
<1> QED BY <1>1, <1>9, <1>10, <1>11 DEF OrderSound

LEMMA NonePlaced == ASSUME NEW T \in Seq(StoreRecord), NEW b PROVE Placed(T, 0, b)
<1>1. \A k \in 1 .. Len(T) : ~(k <= 0)
  BY LenProperties
<1>2. ~(0 >= 1)
  OBVIOUS
<1> QED BY <1>1, <1>2, Zenon DEF Placed

LEMMA OneBehind ==
  \A c \in Nat : 0 <= c + 1 /\ ~(0 >= 1) /\ \A k \in 1 .. c + 1 : k \in 1 .. c \/ k = c + 1
OBVIOUS

LEMMA SomeMore == \A a, c \in Nat : c >= 1 => a + c # 0
OBVIOUS

\* The store in hand becomes the last one.
LEMMA WholeStore ==
  ASSUME NEW S \in Seq(StoreRecord), NEW E \in Seq(EntryRecord), NEW T \in Seq(StoreRecord),
         NEW start \in Nat, NEW count \in Nat, NEW rel \in Nat, NEW new \in StoreRecord,
         Len(T) = Len(S) + 1, T[Len(S) + 1] = new, \A k \in 1 .. Len(S) : T[k] = S[k],
         new.entry_start = start, new.entry_count = count, count >= 1,
         Parts(S, E), Bounded(S, E, 0), InHand(S, E, start, count, rel)
  PROVE  Parts(T, E) /\ Bounded(T, E, 0) /\ Len(E) = Behind(T)
<1> DEFINE len == Len(E)
           c == Len(S)
           b == Behind(S)
<1>1. /\ len \in Nat /\ c \in Nat /\ b \in Nat /\ b <= len /\ Len(T) = c + 1
      /\ c + 1 \in 1 .. c + 1 /\ (c + 1) - 1 = c
  BY PartsUse
<1>2. /\ start = b /\ len = start + count
      /\ \A e \in start + 1 .. len : E[e].store_index = c
      /\ E[start + 1].payload_offset = 0
      /\ E[len].payload_offset + E[len].byte_count = rel
      /\ rel = Total(HeldBy(c + 1, E))
  BY DEF InHand
<1>3. /\ T[c + 1] = new /\ new.entry_start = start /\ new.entry_count = count
      /\ \A k \in 1 .. c : T[k] = S[k]
  OBVIOUS
<1>4. Behind(T) = len
  <2> SUFFICES ASSUME T # <<>> PROVE Behind(T) = len
    <3>1. c + 1 # 0
      BY <1>1, NotZero
    <3>2. T # <<>>
      BY <1>1, <3>1, EmptySeq
    <3> QED BY <3>2
  <2>1. Behind(T) = T[c + 1].entry_start + T[c + 1].entry_count
    BY <1>1 DEF Behind
  <2> QED BY <1>2, <1>3, <2>1
<1>5. Part(T, c + 1) = start + 1 .. len
  BY <1>2, <1>3 DEF Part
<1>6. \A k \in 1 .. c : Part(T, k) = Part(S, k)
  BY <1>3 DEF Part
<1>7. \A k \in 1 .. c + 1 : k \in 1 .. c \/ k = c + 1
  BY <1>1
<1>8. \A k \in 1 .. c : /\ S[k].entry_start \in Nat /\ S[k].entry_count \in Nat
                        /\ S[k].entry_count >= 1
                        /\ S[k].entry_start + S[k].entry_count <= b
                        /\ S[k].entry_start = IF k = 1 THEN 0
                                              ELSE S[k - 1].entry_start + S[k - 1].entry_count
                        /\ \A e \in Part(S, k) : E[e].store_index = k - 1
                        /\ S[k].entry_start + 1 \in Part(S, k)
                        /\ S[k].entry_start + S[k].entry_count \in Part(S, k)
  BY PartsUse DEF Parts
<1> HIDE DEF len, c, b
<1>9. Parts(T, E)
  <2>1. \A k \in 1 .. c + 1 :
          /\ T[k].entry_count >= 1
          /\ T[k].entry_start + T[k].entry_count <= len
          /\ \A e \in Part(T, k) : E[e].store_index = k - 1
    <3> TAKE k \in 1 .. c + 1
    <3>1. CASE k \in 1 .. c
      <4>1. S[k].entry_start + S[k].entry_count <= len
        <5> DEFINE x == S[k].entry_start + S[k].entry_count
        <5>1. x \in Nat /\ x <= b
          BY <1>8, <3>1
        <5> HIDE DEF x
        <5>2. x <= len
          BY <1>1, <5>1
        <5> QED BY <5>2 DEF x
      <4> QED BY <1>3, <1>6, <1>8, <3>1, <4>1
    <3>2. CASE k = c + 1
      <4>1. start + count <= len
        BY <1>1, <1>2
      <4> QED BY <1>1, <1>2, <1>3, <1>5, <3>2, <4>1
    <3> QED BY <1>7, <3>1, <3>2
  <2>2. \A k \in 1 .. c + 1 : T[k].entry_start = IF k = 1 THEN 0
                                ELSE T[k - 1].entry_start + T[k - 1].entry_count
    <3> TAKE k \in 1 .. c + 1
    <3>1. CASE k \in 1 .. c
      <4>1. k # 1 => k - 1 \in 1 .. c
        BY <1>1, <3>1
      <4> QED BY <1>3, <1>8, <3>1, <4>1
    <3>2. CASE k = c + 1 /\ c = 0
      <4>1. k = 1 /\ b = 0
        <5>1. S = <<>>
          BY <3>2, EmptySeq DEF c
        <5> QED BY <3>2, <5>1 DEF b, Behind
      <4> QED BY <1>2, <1>3, <3>2, <4>1
    <3>3. CASE k = c + 1 /\ c # 0
      <4>1. k # 1 /\ k - 1 = c /\ c \in 1 .. c
        BY <1>1, <3>3
      <4>2. b = S[c].entry_start + S[c].entry_count
        <5>1. S # <<>>
          BY <3>3, EmptySeq DEF c
        <5> QED BY <5>1 DEF b, c, Behind
      <4>3. T[c] = S[c]
        BY <1>3, <4>1
      <4> QED BY <1>2, <1>3, <3>3, <4>1, <4>2, <4>3
    <3> QED BY <1>7, <3>1, <3>2, <3>3
  <2>3. \A e \in 1 .. len : \E k \in 1 .. c + 1 : e \in Part(T, k)
    <3> TAKE e \in 1 .. len
    <3>1. CASE e \in 1 .. b
      <4>1. PICK k \in 1 .. c : e \in Part(S, k)
        BY <3>1 DEF Parts, b, c
      <4>2. k \in 1 .. c + 1 /\ e \in Part(T, k)
        BY <1>1, <1>6, <4>1
      <4> QED BY <4>2
    <3>2. CASE e \notin 1 .. b
      <4>1. e \in start + 1 .. len
        BY <1>1, <1>2, <3>2
      <4> QED BY <1>1, <1>5, <4>1
    <3> QED BY <3>1, <3>2
  <2>4. len <= Len(E) /\ Len(T) = c + 1
    BY <1>1 DEF len
  <2> QED BY <1>4, <2>1, <2>2, <2>3, <2>4 DEF Parts
<1>10. Bounded(T, E, 0)
  <2> SUFFICES ASSUME NEW k \in 1 .. c + 1
               PROVE  /\ E[T[k].entry_start + 1].payload_offset = Base(T, 0, k)
                      /\ E[T[k].entry_start + T[k].entry_count].payload_offset
                           + E[T[k].entry_start + T[k].entry_count].byte_count
                           = Base(T, 0, k) + Total(HeldBy(k, E))
    BY <1>1 DEF Bounded
  <2>1. Base(T, 0, k) = 0 /\ Base(S, 0, k) = 0
    <3>1. ~(k <= 0)
      BY <1>1
    <3> QED BY <3>1 DEF Base
  <2>2. CASE k \in 1 .. c
    BY <1>3, <2>1, <2>2 DEF Bounded, c
  <2>3. CASE k = c + 1
    <3>1. T[k].entry_start = start /\ T[k].entry_start + T[k].entry_count = len
      BY <1>2, <1>3, <2>3
    <3>2. rel = 0 + rel
      OBVIOUS
    <3> QED BY <1>2, <2>1, <2>3, <3>1, <3>2
  <2> QED BY <1>7, <2>2, <2>3
<1> QED BY <1>4, <1>9, <1>10 DEF len

LEMMA CompleteOrder ==
  ASSUME Typed, OrderSound, at = "store_end", StoreComplete
  PROVE  OrderSound' /\ plan.entries # <<>>
<1> DEFINE S == plan.stores
           E == plan.entries
           T == plan'.stores
           start == store.entry_start
           new == T[Len(S) + 1]
           rel == rel_payload
<1>1. placed = 0 /\ Walking
  BY DEF placed, Walking
<1>2. /\ Parts(S, E) /\ Chained(E) /\ Bounded(S, E, 0) /\ Placed(S, 0, plan.payload_base)
      /\ \A k \in 1 .. Len(S) : S[k].block_size >= 1
      /\ 0 <= Len(S)
      /\ InHand(S, E, start, n, rel) /\ store.block_size >= 1
      /\ n = Len(here.descriptors) /\ n >= 1
  BY <1>1 DEF OrderSound
<1>3. /\ plan' \in PlanRecord
      /\ plan'.entries = E /\ plan'.payload_base = plan.payload_base
      /\ Len(T) = Len(S) + 1
      /\ new \in StoreRecord /\ new.entry_start = start
      /\ new.entry_count = Len(here.descriptors) /\ new.block_size = store.block_size
      /\ \A k \in 1 .. Len(S) : T[k] = S[k]
  BY StoreAppended
<1>4. /\ S \in Seq(StoreRecord) /\ E \in Seq(EntryRecord) /\ T \in Seq(StoreRecord)
      /\ Len(S) \in Nat /\ start \in Nat /\ n \in Nat /\ rel \in Nat
  BY <1>3, PlanFacts DEF Typed, PlanRecord, StoreRecord
<1>5. /\ n' = 0 /\ cursor' = cursor /\ at' \in {"store", "payload"}
  BY DEF StoreComplete
<1>6. Parts(T, E) /\ Bounded(T, E, 0) /\ Len(E) = Behind(T)
  <2>1. /\ S \in Seq(StoreRecord) /\ E \in Seq(EntryRecord) /\ T \in Seq(StoreRecord)
        /\ start \in Nat /\ n \in Nat /\ rel \in Nat /\ new \in StoreRecord
        /\ Len(T) = Len(S) + 1 /\ T[Len(S) + 1] = new /\ (\A k \in 1 .. Len(S) : T[k] = S[k])
        /\ new.entry_start = start /\ new.entry_count = n /\ n >= 1
        /\ Parts(S, E) /\ Bounded(S, E, 0) /\ InHand(S, E, start, n, rel)
    BY <1>2, <1>3, <1>4
  <2> HIDE DEF S, E, T, start, new, rel
  <2> QED BY <2>1, WholeStore
<1>7. placed' = 0
  BY <1>5 DEF placed
<1>8. Placed(T, 0, plan.payload_base)
  BY <1>4, NonePlaced
<1>9. \A k \in 1 .. Len(T) : T[k].block_size >= 1
  <2>1. \A k \in 1 .. Len(T) : k \in 1 .. Len(S) \/ k = Len(S) + 1
    BY <1>3, <1>4, OneBehind, Zenon
  <2> QED BY <1>2, <1>3, <2>1
<1>10. E # <<>>
  <2>1. Len(E) = start + n
    BY <1>2 DEF InHand
  <2>2. start + n # 0
    BY <1>2, <1>4, SomeMore, Zenon
  <2> QED BY <2>1, <2>2, EmptySeq
<1>11. /\ Parts(plan'.stores, plan'.entries) /\ Chained(plan'.entries)
       /\ Bounded(plan'.stores, plan'.entries, placed')
       /\ Placed(plan'.stores, placed', plan'.payload_base)
       /\ Len(plan'.entries) = Behind(plan'.stores)
       /\ \A k \in 1 .. Len(plan'.stores) : plan'.stores[k].block_size >= 1
  BY <1>2, <1>3, <1>6, <1>7, <1>8, <1>9
<1>12. placed' <= Len(plan'.stores) /\ ~(placed' >= 1)
  <2>1. 0 <= Len(S) + 1 /\ ~(0 >= 1)
    BY <1>4, OneBehind, Zenon
  <2> QED BY <1>3, <1>7, <2>1
<1>13. at' # "descriptor" /\ at' # "store_end"
  BY <1>5
<1> HIDE DEF S, E, T, start, new, rel
<1> QED BY <1>10, <1>11, <1>12, <1>13 DEF OrderSound, E

\* Stores T are stores S, the base of store j aside.
SameBut(S, T, j) ==
  /\ Len(T) = Len(S)
  /\ \A k \in 1 .. Len(S) :
       /\ T[k].entry_start = S[k].entry_start
       /\ T[k].entry_count = S[k].entry_count
       /\ k # j => T[k].payload_base = S[k].payload_base

\* Entries F are entries E, those of store j moved by b.
MovedBy(S, E, F, j, b) ==
  /\ Len(F) = Len(E)
  /\ \A e \in 1 .. Len(E) :
       /\ F[e].byte_count = E[e].byte_count
       /\ F[e].store_index = E[e].store_index
       /\ F[e].payload_offset = E[e].payload_offset + IF e \in Part(S, j) THEN b ELSE 0

\* One more store has its place, and its entries move there.
LEMMA StoreMoved ==
  ASSUME NEW S \in Seq(StoreRecord), NEW E \in Seq(EntryRecord),
         NEW T \in Seq(StoreRecord), NEW F \in Seq(EntryRecord),
         NEW m \in Nat, m + 1 \in 1 .. Len(S), NEW b \in Nat, Len(E) = Behind(S),
         SameBut(S, T, m + 1), T[m + 1].payload_base = b, MovedBy(S, E, F, m + 1, b),
         Parts(S, E), Chained(E), Bounded(S, E, m)
  PROVE  Parts(T, F) /\ Chained(F) /\ Bounded(T, F, m + 1) /\ Len(F) = Behind(T)
<1> DEFINE len == Len(E)
           c == Len(S)
<1>1. /\ len \in Nat /\ c \in Nat /\ m + 1 \in 1 .. c /\ Len(T) = c /\ Len(F) = len
      /\ len = Behind(S)
  BY PartsUse DEF SameBut, MovedBy
<1>2. \A k \in 1 .. c : /\ T[k].entry_start = S[k].entry_start
                        /\ T[k].entry_count = S[k].entry_count
                        /\ k # m + 1 => T[k].payload_base = S[k].payload_base
                        /\ Part(T, k) = Part(S, k)
  BY DEF Part, SameBut
<1>3. \A e \in 1 .. len :
        /\ F[e].byte_count = E[e].byte_count /\ F[e].store_index = E[e].store_index
        /\ F[e].payload_offset = E[e].payload_offset + IF e \in Part(S, m + 1) THEN b ELSE 0
        /\ E[e].payload_offset \in Nat /\ E[e].byte_count \in Nat
  <2> TAKE e \in 1 .. len
  <2>1. E[e] \in EntryRecord
    BY ElementOfSeq
  <2> QED BY <2>1 DEF EntryRecord, MovedBy
<1>4. \A k \in 1 .. c : /\ S[k].entry_start + 1 \in Part(S, k)
                        /\ S[k].entry_start + S[k].entry_count \in Part(S, k)
                        /\ \A e \in Part(S, k) : e \in 1 .. len
  BY PartsUse
<1>5. /\ \A k \in 1 .. c :
           /\ S[k].entry_count >= 1
           /\ S[k].entry_start = IF k = 1 THEN 0 ELSE S[k - 1].entry_start + S[k - 1].entry_count
           /\ S[k].entry_start + S[k].entry_count <= len
      /\ \A e \in 1 .. len : \E k \in 1 .. c : e \in Part(S, k)
      /\ \A k \in 1 .. c : \A e \in Part(S, k) : E[e].store_index = k - 1
  BY <1>1 DEF Parts
<1>6. Behind(T) = len
  <2>1. c \in 1 .. c
    BY <1>1
  <2>2. S # <<>> /\ T # <<>>
    <3>1. c # 0
      BY <2>1
    <3> QED BY <1>1, <3>1, EmptySeq
  <2>3. Behind(S) = S[c].entry_start + S[c].entry_count
    BY <2>2 DEF Behind
  <2>4. Behind(T) = T[c].entry_start + T[c].entry_count
    BY <1>1, <2>2 DEF Behind
  <2> QED BY <1>1, <1>2, <2>1, <2>3, <2>4
<1> HIDE DEF len, c
<1>7. Parts(T, F)
  <2>1. \A k \in 1 .. c :
          /\ T[k].entry_count >= 1
          /\ T[k].entry_start = IF k = 1 THEN 0 ELSE T[k - 1].entry_start + T[k - 1].entry_count
          /\ T[k].entry_start + T[k].entry_count <= len
    <3> TAKE k \in 1 .. c
    <3>1. k # 1 => k - 1 \in 1 .. c
      BY <1>1
    <3> QED BY <1>2, <1>5, <3>1
  <2>2. \A e \in 1 .. len : \E k \in 1 .. c : e \in Part(T, k)
    BY <1>2, <1>5
  <2>3. \A k \in 1 .. c : \A e \in Part(T, k) : F[e].store_index = k - 1
    BY <1>2, <1>3, <1>4, <1>5
  <2>4. len <= len
    BY <1>1
  <2> QED BY <1>1, <1>6, <2>1, <2>2, <2>3, <2>4 DEF Parts
<1>8. Chained(F)
  <2> SUFFICES ASSUME NEW e \in 1 .. len - 1, F[e].store_index = F[e + 1].store_index
               PROVE  F[e + 1].payload_offset = F[e].payload_offset + F[e].byte_count
    BY <1>1 DEF Chained
  <2>1. e \in 1 .. len /\ e + 1 \in 1 .. len
    BY <1>1
  <2>2. E[e].store_index = E[e + 1].store_index
    BY <1>3, <2>1
  <2>3. E[e + 1].payload_offset = E[e].payload_offset + E[e].byte_count
    BY <2>2 DEF Chained, len
  <2>4. e \in Part(S, m + 1) <=> e + 1 \in Part(S, m + 1)
    <3>1. \A i \in 1 .. len : i \in Part(S, m + 1) <=> E[i].store_index = m
      <4> TAKE i \in 1 .. len
      <4>1. PICK k \in 1 .. c : i \in Part(S, k)
        BY <1>5
      <4>2. E[i].store_index = k - 1
        BY <1>5, <4>1
      <4>3. i \in Part(S, m + 1) => E[i].store_index = m
        <5>1. (m + 1) - 1 = m
          OBVIOUS
        <5> QED BY <1>1, <1>5, <5>1
      <4>4. k - 1 = m => k = m + 1
        BY <1>1
      <4> QED BY <4>1, <4>2, <4>3, <4>4
    <3> QED BY <2>1, <2>2, <3>1
  <2>5. CASE e \in Part(S, m + 1)
    <3>1. /\ F[e].payload_offset = E[e].payload_offset + b
          /\ F[e + 1].payload_offset = E[e + 1].payload_offset + b
          /\ F[e].byte_count = E[e].byte_count
          /\ E[e].payload_offset \in Nat /\ E[e].byte_count \in Nat
      BY <1>3, <2>1, <2>4, <2>5
    <3> QED BY <2>3, <3>1
  <2>6. CASE e \notin Part(S, m + 1)
    <3>1. /\ F[e].payload_offset = E[e].payload_offset + 0
          /\ F[e + 1].payload_offset = E[e + 1].payload_offset + 0
          /\ F[e].byte_count = E[e].byte_count
          /\ E[e].payload_offset \in Nat /\ E[e].byte_count \in Nat
      BY <1>3, <2>1, <2>4, <2>6
    <3> QED BY <2>3, <3>1
  <2> QED BY <2>5, <2>6
<1>9. \A k \in Nat : Total(HeldBy(k, F)) = Total(HeldBy(k, E)) /\ Total(HeldBy(k, E)) \in Nat
  <2> TAKE k \in Nat
  <2> DEFINE h == HeldBy(k, E)
             g == HeldBy(k, F)
  <2>1. h \in Seq(Nat) /\ g \in Seq(Nat) /\ Len(g) = Len(h) /\ Len(h) = len
    BY <1>1, HeldFacts DEF len
  <2>2. \A e \in 1 .. len : h[e] = g[e]
    <3> TAKE e \in 1 .. len
    <3>1. h[e] = IF E[e].store_index = k - 1 THEN E[e].byte_count ELSE 0
      BY HeldFacts DEF len
    <3>2. g[e] = IF F[e].store_index = k - 1 THEN F[e].byte_count ELSE 0
      BY <1>1, HeldFacts
    <3> QED BY <1>3, <3>1, <3>2
  <2> HIDE DEF h, g
  <2>3. Total(g) = Total(h) /\ Total(h) \in Nat
    BY <2>1, <2>2, TotalSame, TotalNat
  <2> QED BY <2>3 DEF h, g
<1>10. Bounded(T, F, m + 1)
  <2> SUFFICES ASSUME NEW k \in 1 .. c
               PROVE  /\ F[T[k].entry_start + 1].payload_offset = Base(T, m + 1, k)
                      /\ F[T[k].entry_start + T[k].entry_count].payload_offset
                           + F[T[k].entry_start + T[k].entry_count].byte_count
                           = Base(T, m + 1, k) + Total(HeldBy(k, F))
    BY <1>1 DEF Bounded
  <2> DEFINE i == S[k].entry_start + 1
             j == S[k].entry_start + S[k].entry_count
  <2>1. /\ i \in Part(S, k) /\ j \in Part(S, k) /\ i \in 1 .. len /\ j \in 1 .. len
        /\ T[k].entry_start + 1 = i /\ T[k].entry_start + T[k].entry_count = j
    BY <1>2, <1>4
  <2>2. /\ E[i].payload_offset = Base(S, m, k)
        /\ E[j].payload_offset + E[j].byte_count = Base(S, m, k) + Total(HeldBy(k, E))
    BY DEF Bounded, c
  <2> HIDE DEF i, j
  <2> DEFINE held == Total(HeldBy(k, E))
  <2>3. k \in Nat /\ Total(HeldBy(k, F)) = held /\ held \in Nat
    <3>1. k \in Nat
      BY <1>1
    <3> QED BY <1>9, <3>1, Zenon
  <2>4. /\ F[j].byte_count = E[j].byte_count
        /\ E[i].payload_offset \in Nat /\ E[j].payload_offset \in Nat
        /\ E[j].byte_count \in Nat
    BY <1>3, <2>1
  <2> HIDE DEF held
  <2>5. CASE k = m + 1
    <3>1. F[i].payload_offset = E[i].payload_offset + b
          /\ F[j].payload_offset = E[j].payload_offset + b
      BY <1>3, <2>1, <2>5
    <3>2. Base(S, m, k) = 0 /\ Base(T, m + 1, k) = b
      <4>1. ~(m + 1 <= m) /\ m + 1 <= m + 1
        OBVIOUS
      <4> QED BY <2>5, <4>1 DEF Base
    <3>3. E[i].payload_offset = 0 /\ E[j].payload_offset + E[j].byte_count = 0 + held
      BY <2>2, <3>2 DEF held
    <3>4. F[i].payload_offset = b /\ F[j].payload_offset + F[j].byte_count = b + held
      <4> DEFINE p == E[j].payload_offset
                 q == E[j].byte_count
      <4>1. p \in Nat /\ q \in Nat /\ p + q = 0 + held /\ held \in Nat
            /\ F[j].payload_offset = p + b /\ F[j].byte_count = q
            /\ F[i].payload_offset = 0 + b
        BY <2>3, <2>4, <3>1, <3>3
      <4> HIDE DEF p, q
      <4>2. 0 + b = b /\ (p + b) + q = b + held
        BY <4>1
      <4> QED BY <4>1, <4>2, Zenon
    <3> QED BY <2>1, <2>3, <3>2, <3>4
  <2>6. CASE k # m + 1
    <3>1. i \notin Part(S, m + 1) /\ j \notin Part(S, m + 1)
      <4>1. E[i].store_index = k - 1 /\ E[j].store_index = k - 1
        BY <1>5, <2>1
      <4>2. \A e \in Part(S, m + 1) : E[e].store_index = (m + 1) - 1
        BY <1>1, <1>5
      <4>3. k - 1 # (m + 1) - 1
        BY <1>1, <2>6
      <4> QED BY <4>1, <4>2, <4>3
    <3>2. F[i].payload_offset = E[i].payload_offset + 0
          /\ F[j].payload_offset = E[j].payload_offset + 0
      BY <1>3, <2>1, <3>1
    <3>3. F[i].payload_offset = E[i].payload_offset
          /\ F[j].payload_offset = E[j].payload_offset
      BY <2>4, <3>2
    <3>4. Base(T, m + 1, k) = Base(S, m, k)
      <4>1. T[k].payload_base = S[k].payload_base
        BY <1>2, <2>6
      <4>2. k <= m + 1 <=> k <= m
        BY <1>1, <2>6
      <4> QED BY <4>1, <4>2 DEF Base
    <3> QED BY <2>1, <2>2, <2>3, <2>4, <3>3, <3>4 DEF held
  <2> QED BY <2>5, <2>6
<1> QED BY <1>1, <1>6, <1>7, <1>8, <1>10

LEMMA PlacedOrder ==
  ASSUME Typed, OrderSound, PlaceStore,
         IF n = 0 THEN plan'.payload_base = next_base
                  ELSE plan'.payload_base = plan.payload_base
  PROVE  OrderSound'
<1> DEFINE S == plan.stores
           E == plan.entries
           T == plan'.stores
           F == plan'.entries
           b == next_base
           start == plan'.payload_base
<1>1. /\ at = "payload" /\ at' = at /\ n < Len(S) /\ n' = n + 1
      /\ b \in Nat
      /\ cursor' = b + S[n + 1].payload_size
      /\ plan' \in PlanRecord
      /\ Len(T) = Len(S)
      /\ T[n + 1].payload_base = b
      /\ Len(F) = Len(E)
  BY StorePlaced
<1>2. \A k \in 1 .. Len(S) :
        /\ T[k].block_size = S[k].block_size
        /\ T[k].payload_size = S[k].payload_size
        /\ T[k].entry_start = S[k].entry_start
        /\ T[k].entry_count = S[k].entry_count
        /\ k # n + 1 => T[k].payload_base = S[k].payload_base
  BY StorePlaced
<1>3. \A e \in 1 .. Len(E) :
        /\ F[e].byte_count = E[e].byte_count
        /\ F[e].store_index = E[e].store_index
        /\ F[e].payload_offset = E[e].payload_offset + IF OfNext(e) THEN b ELSE 0
  BY StorePlaced
<1>4. /\ S \in Seq(StoreRecord) /\ E \in Seq(EntryRecord) /\ Len(S) \in Nat /\ Len(E) \in Nat
      /\ T \in Seq(StoreRecord) /\ F \in Seq(EntryRecord) /\ n \in Nat /\ cursor \in Nat
  BY <1>1, PlanFacts DEF Typed, PlanRecord
<1>5. n + 1 \in 1 .. Len(S)
  BY <1>1, <1>4
<1>6. ~Walking /\ ~Walking' /\ placed = n /\ placed' = n + 1
      /\ at \notin {"descriptor", "store_end"} /\ at' \notin {"descriptor", "store_end"}
  BY <1>1 DEF Walking, placed
<1>7. /\ Parts(S, E) /\ Chained(E) /\ Bounded(S, E, n) /\ Placed(S, n, plan.payload_base)
      /\ \A k \in 1 .. Len(S) : S[k].block_size >= 1
      /\ Len(E) = Behind(S)
      /\ n >= 1 => cursor = S[n].payload_base + S[n].payload_size
  BY <1>6 DEF OrderSound
<1>8. \A e \in 1 .. Len(E) : OfNext(e) <=> e \in Part(S, n + 1)
  <2> TAKE e \in 1 .. Len(E)
  <2> DEFINE from == S[n + 1].entry_start
             count == S[n + 1].entry_count
  <2>1. from \in Nat /\ count \in Nat /\ e \in Nat
    BY <1>4, <1>5, <1>7, PartsUse
  <2>2. (OfNext(e) <=> e > from /\ e <= from + count) /\ Part(S, n + 1) = from + 1 .. from + count
    BY DEF OfNext, Part
  <2> HIDE DEF from, count
  <2>3. e > from /\ e <= from + count <=> e \in from + 1 .. from + count
    BY <2>1
  <2> QED BY <2>2, <2>3
<1>9. MovedBy(S, E, F, n + 1, b) /\ SameBut(S, T, n + 1)
  <2>1. \A e \in 1 .. Len(E) :
          /\ F[e].byte_count = E[e].byte_count
          /\ F[e].store_index = E[e].store_index
          /\ F[e].payload_offset = E[e].payload_offset + IF e \in Part(S, n + 1) THEN b ELSE 0
    BY <1>3, <1>8, Zenon
  <2> QED BY <1>1, <1>2, <2>1, Zenon DEF MovedBy, SameBut
<1> HIDE DEF b
<1>10. Parts(T, F) /\ Chained(F) /\ Bounded(T, F, n + 1) /\ Len(F) = Behind(T)
  <2>1. /\ S \in Seq(StoreRecord) /\ E \in Seq(EntryRecord)
        /\ T \in Seq(StoreRecord) /\ F \in Seq(EntryRecord)
        /\ n \in Nat /\ n + 1 \in 1 .. Len(S) /\ b \in Nat
        /\ Len(E) = Behind(S)
        /\ T[n + 1].payload_base = b
        /\ Parts(S, E) /\ Chained(E) /\ Bounded(S, E, n)
    BY <1>1, <1>4, <1>5, <1>7
  <2> HIDE DEF S, E, T, F
  <2> QED BY <1>9, <2>1, StoreMoved
<1>11. Placed(T, n + 1, start)
  <2>1. T[1].payload_base = start
    <3>1. CASE n = 0
      <4>1. n + 1 = 1
        BY <3>1
      <4> QED BY <1>1, <3>1, <4>1 DEF b
    <3>2. CASE n # 0
      <4>1. 1 \in 1 .. Len(S) /\ 1 # n + 1 /\ n >= 1
        BY <1>4, <1>5, <3>2
      <4>2. S[1].payload_base = plan.payload_base
        BY <1>7, <4>1 DEF Placed
      <4> QED BY <1>2, <3>2, <4>1, <4>2
    <3> QED BY <3>1, <3>2
  <2>2. ASSUME NEW k \in 1 .. Len(S), k <= n + 1, k >= 2
        PROVE  T[k].payload_base =
                 align_up(T[k - 1].payload_base + T[k - 1].payload_size, T[k].block_size)
    <3>1. k - 1 \in 1 .. Len(S) /\ k - 1 # n + 1
      BY <1>4, <2>2
    <3>2. /\ T[k - 1].payload_base = S[k - 1].payload_base
          /\ T[k - 1].payload_size = S[k - 1].payload_size
          /\ T[k].block_size = S[k].block_size
      BY <1>2, <3>1
    <3>3. CASE k = n + 1
      <4>1. n >= 1 /\ k - 1 = n
        BY <1>4, <2>2, <3>3
      <4>2. cursor = S[n].payload_base + S[n].payload_size
        BY <1>7, <4>1
      <4>3. b = align_up(cursor, S[n + 1].block_size)
        BY DEF b, next_base
      <4> QED BY <1>1, <3>2, <3>3, <4>1, <4>2, <4>3
    <3>4. CASE k # n + 1
      <4>1. k <= n
        BY <1>4, <2>2, <3>4
      <4>2. S[k].payload_base =
              align_up(S[k - 1].payload_base + S[k - 1].payload_size, S[k].block_size)
        BY <1>7, <2>2, <4>1 DEF Placed
      <4>3. T[k].payload_base = S[k].payload_base
        BY <1>2, <3>4
      <4> QED BY <3>2, <4>2, <4>3
    <3> QED BY <3>3, <3>4
  <2> QED BY <1>1, <2>1, <2>2 DEF Placed
<1>12. \A k \in 1 .. Len(T) : T[k].block_size >= 1
  BY <1>1, <1>2, <1>7
<1>13. n + 1 <= Len(T)
  <2>1. n + 1 <= Len(S)
    BY <1>5
  <2> QED BY <1>1, <2>1
<1>14. cursor' = T[n + 1].payload_base + T[n + 1].payload_size
  BY <1>1, <1>2, <1>5
<1>15. /\ Parts(plan'.stores, plan'.entries) /\ Chained(plan'.entries)
       /\ Bounded(plan'.stores, plan'.entries, placed')
       /\ Placed(plan'.stores, placed', plan'.payload_base)
       /\ Len(plan'.entries) = Behind(plan'.stores)
       /\ \A k \in 1 .. Len(plan'.stores) : plan'.stores[k].block_size >= 1
       /\ placed' <= Len(plan'.stores)
       /\ cursor' = plan'.stores[placed'].payload_base + plan'.stores[placed'].payload_size
  BY <1>6, <1>10, <1>11, <1>12, <1>13, <1>14
<1>16. at' # "descriptor" /\ at' # "store_end"
  BY <1>6
<1> HIDE DEF S, E, T, F
<1> QED BY <1>15, <1>16 DEF OrderSound

LEMMA FinishOrder ==
  ASSUME OrderSound, Finish
  PROVE  OrderSound'
<1>1. /\ at = "payload" /\ at' = "returned" /\ plan' = plan /\ n' = n /\ cursor' = cursor
  BY DEF Finish
<1>2. ~Walking /\ ~Walking' /\ placed = n /\ placed' = n
  BY <1>1 DEF Walking, placed
<1>3. /\ Parts(plan.stores, plan.entries) /\ Chained(plan.entries)
      /\ Bounded(plan.stores, plan.entries, n) /\ Placed(plan.stores, n, plan.payload_base)
      /\ \A k \in 1 .. Len(plan.stores) : plan.stores[k].block_size >= 1
      /\ n <= Len(plan.stores)
      /\ Len(plan.entries) = Behind(plan.stores)
      /\ n >= 1 => cursor = plan.stores[n].payload_base + plan.stores[n].payload_size
  BY <1>1, <1>2 DEF OrderSound
<1>4. /\ Parts(plan'.stores, plan'.entries) /\ Chained(plan'.entries)
      /\ Bounded(plan'.stores, plan'.entries, placed')
      /\ Placed(plan'.stores, placed', plan'.payload_base)
      /\ \A k \in 1 .. Len(plan'.stores) : plan'.stores[k].block_size >= 1
      /\ placed' <= Len(plan'.stores)
      /\ Len(plan'.entries) = Behind(plan'.stores)
      /\ placed' >= 1 =>
           cursor' = plan'.stores[placed'].payload_base + plan'.stores[placed'].payload_size
  BY <1>1, <1>2, <1>3
<1>5. at' # "descriptor" /\ at' # "store_end"
  BY <1>1
<1> QED BY <1>4, <1>5 DEF OrderSound

\* Entries of stores that all have their place are one stream.
LEMMA OneStream ==
  ASSUME NEW S \in Seq(StoreRecord), NEW E \in Seq(EntryRecord), NEW b \in Nat,
         Len(S) >= 1, Len(E) = Behind(S),
         Parts(S, E), Chained(E), Bounded(S, E, Len(S)), Placed(S, Len(S), b),
         \A k \in 1 .. Len(S) : S[k].block_size >= 1
  PROVE  /\ E[1].payload_offset = b
         /\ \A i \in 1 .. Len(E) - 1 :
              IF E[i].store_index = E[i + 1].store_index
                THEN E[i + 1].payload_offset = E[i].payload_offset + E[i].byte_count
                ELSE (\A k \in 1 .. Len(S) : S[k].payload_size = Total(HeldBy(k, E))) =>
                       /\ E[i + 1].payload_offset >= E[i].payload_offset + E[i].byte_count
                       /\ E[i + 1].payload_offset <
                            E[i].payload_offset + E[i].byte_count
                              + S[E[i + 1].store_index + 1].block_size
<1> DEFINE len == Len(E)
           c == Len(S)
<1>1. len \in Nat /\ c \in Nat /\ c >= 1 /\ len = Behind(S) /\ 1 \in 1 .. c
  BY PartsUse
<1>2. \A k \in 1 .. c :
        /\ S[k].entry_start \in Nat /\ S[k].entry_count \in Nat /\ S[k].entry_count >= 1
        /\ S[k].entry_start + 1 \in Part(S, k)
        /\ S[k].entry_start + S[k].entry_count \in Part(S, k)
        /\ \A e \in Part(S, k) : e \in 1 .. len
  BY PartsUse
<1>3. /\ \A k \in 1 .. c :
           S[k].entry_start = IF k = 1 THEN 0 ELSE S[k - 1].entry_start + S[k - 1].entry_count
      /\ \A e \in 1 .. len : \E k \in 1 .. c : e \in Part(S, k)
      /\ \A k \in 1 .. c : \A e \in Part(S, k) : E[e].store_index = k - 1
  BY <1>1 DEF Parts
<1>4. \A k \in 1 .. c : /\ S[k].payload_base \in Nat /\ S[k].payload_size \in Nat
                        /\ S[k].block_size \in Nat /\ S[k].block_size # 0
  <2> TAKE k \in 1 .. c
  <2>1. S[k] \in StoreRecord /\ S[k].block_size >= 1
    BY ElementOfSeq
  <2>2. S[k].payload_base \in Nat /\ S[k].payload_size \in Nat /\ S[k].block_size \in Nat
    BY <2>1 DEF StoreRecord
  <2> QED BY <2>1, <2>2
<1>5. /\ S[1].payload_base = b
      /\ \A k \in 1 .. c : k >= 2 =>
           S[k].payload_base =
             align_up(S[k - 1].payload_base + S[k - 1].payload_size, S[k].block_size)
  BY <1>1 DEF Placed
<1>6. \A k \in 1 .. c :
        /\ E[S[k].entry_start + 1].payload_offset = S[k].payload_base
        /\ E[S[k].entry_start + S[k].entry_count].payload_offset
             + E[S[k].entry_start + S[k].entry_count].byte_count
             = S[k].payload_base + Total(HeldBy(k, E))
  <2> TAKE k \in 1 .. c
  <2>1. Base(S, c, k) = S[k].payload_base
    BY <1>1 DEF Base
  <2> QED BY <2>1 DEF Bounded
<1> HIDE DEF len, c
<1>7. E[1].payload_offset = b
  <2>1. S[1].entry_start = 0 /\ 0 + 1 = 1
    BY <1>1, <1>3
  <2> QED BY <1>1, <1>5, <1>6, <2>1
<1>8. ASSUME NEW i \in 1 .. len - 1, E[i].store_index # E[i + 1].store_index,
             \A k \in 1 .. c : S[k].payload_size = Total(HeldBy(k, E))
      PROVE  /\ E[i + 1].payload_offset >= E[i].payload_offset + E[i].byte_count
             /\ E[i + 1].payload_offset < E[i].payload_offset + E[i].byte_count
                                            + S[E[i + 1].store_index + 1].block_size
  <2>1. i \in 1 .. len /\ i + 1 \in 1 .. len
    BY <1>1
  <2>2. PICK k \in 1 .. c : i \in Part(S, k)
    BY <1>3, <2>1
  <2> DEFINE from == S[k].entry_start
             count == S[k].entry_count
  <2>3. Part(S, k) = from + 1 .. from + count /\ from \in Nat /\ count \in Nat
    BY <1>2 DEF Part
  <2>4. i = from + count
    <3>1. i + 1 \notin Part(S, k)
      BY <1>3, <1>8, <2>2
    <3> HIDE DEF from, count
    <3> QED BY <2>1, <2>2, <2>3, <3>1
  <2>5. k # c
    <3> SUFFICES ASSUME k = c PROVE FALSE
      OBVIOUS
    <3>1. Behind(S) = from + count
      <4>1. S # <<>>
        BY <1>1, EmptySeq DEF c
      <4> QED BY <4>1 DEF Behind, c
    <3>2. i = len
      BY <1>1, <2>4, <3>1
    <3> QED BY <1>1, <2>1, <3>2
  <2> DEFINE next == k + 1
  <2>6. next \in 1 .. c /\ next >= 2 /\ next - 1 = k /\ next # 1
    BY <1>1, <2>5
  <2> HIDE DEF next
  <2>7. S[next].entry_start = from + count
    BY <1>3, <2>6
  <2>8. i + 1 \in Part(S, next) /\ E[i + 1].payload_offset = S[next].payload_base
    BY <1>2, <1>6, <2>4, <2>6, <2>7
  <2>9. S[E[i + 1].store_index + 1].block_size = S[next].block_size
    <3>1. E[i + 1].store_index = next - 1 /\ (next - 1) + 1 = next
      BY <1>1, <1>3, <2>6, <2>8
    <3> QED BY <3>1
  <2>10. E[i].payload_offset + E[i].byte_count = S[k].payload_base + S[k].payload_size
    BY <1>6, <1>8, <2>4
  <2> DEFINE end == S[k].payload_base + S[k].payload_size
             size_of == S[next].block_size
  <2>11. end \in Nat /\ size_of \in Nat /\ size_of # 0
    BY <1>4, <2>6
  <2>12. S[next].payload_base = align_up(end, size_of)
    BY <1>5, <2>6
  <2> HIDE DEF end, size_of
  <2>13. align_up(end, size_of) >= end /\ align_up(end, size_of) < end + size_of
    BY <2>11, AlignFacts
  <2> QED BY <2>8, <2>9, <2>10, <2>12, <2>13 DEF end, size_of
<1>9. \A i \in 1 .. len - 1 : E[i].store_index = E[i + 1].store_index =>
        E[i + 1].payload_offset = E[i].payload_offset + E[i].byte_count
  BY DEF Chained, len
<1> QED BY <1>7, <1>8, <1>9, Zenon DEF len, c

\* What the properties say follows from what the invariant says of a plan.
LEMMA OrderFollows ==
  ASSUME Typed, Unrefused => TablesSound /\ OrderSound
  PROVE  EntriesInOrder
<1> SUFFICES ASSUME Accepted PROVE EntriesInOrder
  BY DEF EntriesInOrder
<1> DEFINE S == plan.stores
           E == plan.entries
           b == plan.payload_base
<1>1. at = "returned" /\ TablesSound /\ OrderSound /\ ~Walking
  BY DEF Accepted, Unrefused, Walking
<1>2. n = Len(S) /\ S # <<>> /\ E # <<>> /\ placed = n
  BY <1>1 DEF TablesSound, placed
<1>3. /\ S \in Seq(StoreRecord) /\ E \in Seq(EntryRecord) /\ b \in Nat /\ Len(S) \in Nat
  BY PlanFacts
<1>4. Len(S) >= 1
  <2>1. Len(S) # 0
    BY <1>2, <1>3, EmptySeq
  <2>2. \A c \in Nat : c # 0 => c >= 1
    OBVIOUS
  <2> QED BY <1>3, <2>1, <2>2, Zenon
<1>5. /\ Len(E) = Behind(S)
      /\ Parts(S, E) /\ Chained(E) /\ Bounded(S, E, Len(S)) /\ Placed(S, Len(S), b)
      /\ \A k \in 1 .. Len(S) : S[k].block_size >= 1
  BY <1>1, <1>2 DEF OrderSound
<1>6. Honest => \A k \in 1 .. Len(S) : S[k].payload_size = Total(HeldBy(k, E))
  <2>1. DOMAIN S = 1 .. Len(S)
    BY <1>3, LenProperties
  <2> QED BY <2>1 DEF Honest
<1> HIDE DEF S, E, b
<1>7. /\ E[1].payload_offset = b
      /\ \A i \in 1 .. Len(E) - 1 :
           IF E[i].store_index = E[i + 1].store_index
             THEN E[i + 1].payload_offset = E[i].payload_offset + E[i].byte_count
             ELSE (\A k \in 1 .. Len(S) : S[k].payload_size = Total(HeldBy(k, E))) =>
                    /\ E[i + 1].payload_offset >= E[i].payload_offset + E[i].byte_count
                    /\ E[i + 1].payload_offset <
                         E[i].payload_offset + E[i].byte_count
                           + S[E[i + 1].store_index + 1].block_size
  BY <1>3, <1>4, <1>5, OneStream
<1> DEFINE fits(i) == /\ E[i + 1].payload_offset >= E[i].payload_offset + E[i].byte_count
                      /\ E[i + 1].payload_offset <
                           E[i].payload_offset + E[i].byte_count
                             + S[E[i + 1].store_index + 1].block_size
<1>8. \A i \in 1 .. Len(E) - 1 :
        IF E[i].store_index = E[i + 1].store_index
          THEN E[i + 1].payload_offset = E[i].payload_offset + E[i].byte_count
          ELSE Honest => fits(i)
  <2> TAKE i \in 1 .. Len(E) - 1
  <2> DEFINE same == E[i].store_index = E[i + 1].store_index
  <2>1. IF same
          THEN E[i + 1].payload_offset = E[i].payload_offset + E[i].byte_count
          ELSE (\A k \in 1 .. Len(S) : S[k].payload_size = Total(HeldBy(k, E))) => fits(i)
    BY <1>7, Zenon
  <2> HIDE DEF same, fits
  <2>2. IF same
          THEN E[i + 1].payload_offset = E[i].payload_offset + E[i].byte_count
          ELSE Honest => fits(i)
    BY <1>6, <2>1, Zenon
  <2> QED BY <2>2 DEF same
<1> QED BY <1>2, <1>7, <1>8, Zenon DEF EntriesInOrder, S, E, b

LEMMA TablesFollow ==
  ASSUME Typed, Unrefused => TablesSound
  PROVE  LocationsInHeader
<1> SUFFICES ASSUME Accepted PROVE LocationsInHeader
  BY DEF LocationsInHeader
<1>1. at = "returned" /\ TablesSound /\ ~Walking
  BY DEF Accepted, Unrefused, Walking
<1>2. n # 0
  <2>1. n = Len(plan.stores) /\ plan.stores # <<>>
    BY <1>1 DEF TablesSound
  <2> QED BY <2>1, PlanFacts, EmptySeq
<1>3. /\ TablesApart(plan.entries) /\ TablesUpTo(plan.entries, plan.payload_base)
      /\ plan.payload_base <= size
  BY <1>1, <1>2 DEF TablesSound
<1> QED BY <1>3 DEF LocationsInHeader, TablesApart, TablesUpTo

-------------------------------------------------------------------------------
(* Where structures are, by what the layout says. *)

LEMMA TablesFacts ==
  ASSUME NEW s \in Store
  PROVE  /\ Tables(s) \in Seq(Nat) /\ Len(Tables(s)) = Len(s.descriptors)
         /\ \A d \in 1 .. Len(s.descriptors) :
              Tables(s)[d] = DescriptorSize + s.descriptors[d].locations * LocationSize
         /\ Total(Tables(s)) \in Nat /\ StoreLength(s) \in Nat
<1> DEFINE f(d) == DescriptorSize + s.descriptors[d].locations * LocationSize
           m == Len(s.descriptors)
<1>1. m \in Nat /\ StoreHeader(s) \in Nat
  BY StoreFacts
<1>2. \A d \in 1 .. m : f(d) \in Nat
  <2> TAKE d \in 1 .. m
  <2>1. s.descriptors[d].locations * LocationSize \in Nat
    BY StoreFacts, SizesPositive, Products
  <2> DEFINE table == s.descriptors[d].locations * LocationSize
  <2>2. table \in Nat /\ DescriptorSize \in Nat
    BY <2>1, SizesPositive
  <2> HIDE DEF table
  <2>3. DescriptorSize + table \in Nat
    BY <2>2
  <2> QED BY <2>3 DEF table
<1>3. Tables(s) = [d \in 1 .. m |-> f(d)]
  BY DEF Tables
<1> HIDE DEF f, m
<1>4. /\ Tables(s) \in Seq(Nat) /\ Len(Tables(s)) = m
      /\ \A d \in 1 .. m : Tables(s)[d] = f(d)
  BY <1>1, <1>2, <1>3
<1>5. Total(Tables(s)) \in Nat
  BY <1>4, TotalNat
<1>6. StoreLength(s) \in Nat
  BY <1>1, <1>5 DEF StoreLength
<1> QED BY <1>4, <1>5, <1>6 DEF f, m

LEMMA ValidationsFacts ==
  ASSUME Typed
  PROVE  /\ Validations(layout) \in Seq(Nat) /\ Total(Validations(layout)) \in Nat
         /\ layout.image = "v2" =>
              /\ Len(Validations(layout)) = Len(layout.validation)
              /\ \A v \in 1 .. Len(layout.validation) :
                   Validations(layout)[v] = ValidationSize + layout.validation[v]
         /\ layout.image # "v2" => Total(Validations(layout)) = 0
<1> DEFINE m == Len(layout.validation)
           f(v) == ValidationSize + layout.validation[v]
<1>1. m \in Nat /\ \A v \in 1 .. m : f(v) \in Nat
  <2>1. layout.validation \in Seq(Nat) /\ m \in Nat
    BY LayoutFacts
  <2>2. \A v \in 1 .. m : layout.validation[v] \in Nat
    BY <2>1, ElementOfSeq
  <2> QED BY <2>1, <2>2, SizesPositive
<1>2. CASE layout.image = "v2"
  <2>1. Validations(layout) = [v \in 1 .. m |-> f(v)]
    BY <1>2 DEF Validations
  <2> HIDE DEF m, f
  <2>2. /\ Validations(layout) \in Seq(Nat) /\ Len(Validations(layout)) = m
        /\ \A v \in 1 .. m : Validations(layout)[v] = f(v)
    BY <1>1, <2>1
  <2> QED BY <1>2, <2>2, TotalNat DEF m, f
<1>3. CASE layout.image # "v2"
  <2>1. Validations(layout) = <<>>
    BY <1>3 DEF Validations
  <2>2. <<>> \in Seq(Nat) /\ Len(<<>>) = 0
    BY EmptySeq
  <2>3. \A v \in 1 .. 0 : <<>>[v] = 0
    OBVIOUS
  <2>4. Total(<<>>) = 0
    BY <2>2, <2>3, TotalNothing
  <2> QED BY <1>3, <2>1, <2>2, <2>4
<1> QED BY <1>2, <1>3

image_length == IF layout.image = "v2" THEN ImageSizeV2 ELSE ImageSize

LEMMA ImageFacts ==
  ASSUME Typed
  PROVE  /\ ImageStart(layout) \in Nat /\ ImageEnd(layout) \in Nat
         /\ ImageEnd(layout) >= ImageStart(layout)
         /\ ImageStart(layout) >= SecuritySize
         /\ image_length \in Nat
         /\ ImageEnd(layout) =
              ImageStart(layout) + ((image_length + layout.manifest) % Word)
<1>1. ImageStart(layout) \in Nat /\ image_length \in Nat /\ layout.manifest \in Nat
  BY LayoutFacts, SizesPositive DEF image_length
<1>2. (image_length + layout.manifest) % Word \in Nat
  <2>1. image_length + layout.manifest \in Nat
    BY <1>1
  <2> QED BY <2>1, Remainders
<1>3. ImageEnd(layout) = ImageStart(layout) + ((image_length + layout.manifest) % Word)
  BY DEF ImageEnd, image_length
<1>4. ImageEnd(layout) \in Nat /\ ImageEnd(layout) >= ImageStart(layout)
  <2> DEFINE more == (image_length + layout.manifest) % Word
  <2>1. more \in Nat /\ ImageEnd(layout) = ImageStart(layout) + more
    BY <1>2, <1>3
  <2> HIDE DEF more
  <2> QED BY <1>1, <2>1
<1>5. ImageStart(layout) >= SecuritySize
  <2> DEFINE v == SecuritySize + layout.catalog + layout.hash
  <2>1. v \in Nat /\ v >= SecuritySize /\ SecuritySize \in Nat
    BY LayoutFacts, SizesPositive
  <2> HIDE DEF v
  <2>2. align_up(v, chunk_size(layout)) >= v /\ align_up(v, chunk_size(layout)) \in Nat
    BY <2>1, LayoutFacts, AlignFacts
  <2>3. ImageStart(layout) = align_up(v, chunk_size(layout))
    BY DEF ImageStart, v
  <2> QED BY <1>1, <2>1, <2>2, <2>3
<1> QED BY <1>1, <1>3, <1>4, <1>5

\* The end of a store, from the end of the one ahead.
After == [x \in Nat |-> [k \in 1 .. Len(layout.stores) |->
            align_up(x, chunk_size(layout)) + StoreLength(layout.stores[k])]]

LEMMA EndFacts ==
  ASSUME Typed
  PROVE  /\ Len(layout.stores) \in Nat
         /\ StoresEnd(layout)[0] = ImageEnd(layout) + Total(Validations(layout))
         /\ \A k \in 1 .. Len(layout.stores) :
              /\ layout.stores[k] \in Store
              /\ StoresEnd(layout)[k] = align_up(StoresEnd(layout)[k - 1], chunk_size(layout))
                                          + StoreLength(layout.stores[k])
         /\ \A k \in 0 .. Len(layout.stores) : StoresEnd(layout)[k] \in Nat
<1> DEFINE m == Len(layout.stores)
           b == ImageEnd(layout) + Total(Validations(layout))
           v == StoresEnd(layout)
           step(x, k) == align_up(x, chunk_size(layout)) + StoreLength(layout.stores[k])
           T == After
<1>1. m \in Nat /\ \A k \in 1 .. m : layout.stores[k] \in Store
  BY LayoutFacts, ElementOfSeq
<1>2. b \in Nat
  BY ImageFacts, ValidationsFacts
<1>3. \A x \in Nat, k \in 1 .. m : T[x][k] = step(x, k)
  BY DEF After
<1>4. \A x \in Nat, k \in 1 .. m : step(x, k) \in Nat
  <2> TAKE x \in Nat, k \in 1 .. m
  <2>1. align_up(x, chunk_size(layout)) \in Nat /\ StoreLength(layout.stores[k]) \in Nat
    BY <1>1, LayoutFacts, AlignFacts, TablesFacts
  <2> QED BY <2>1
<1> HIDE DEF step, T, b, m
<1>5. PICK f \in [0 .. m -> Nat] : Unfolds(f, b, m, T)
  <2>1. \A x \in Nat, k \in 1 .. m : T[x][k] \in Nat
    BY <1>3, <1>4
  <2> QED BY <1>1, <1>2, <2>1, Recursion
<1>6. f[0] = b /\ \A k \in 1 .. m : f[k] = step(f[k - 1], k)
  <2>1. ASSUME NEW k \in 1 .. m PROVE f[k] = step(f[k - 1], k)
    <3>1. k - 1 \in 0 .. m /\ f[k - 1] \in Nat
      BY <1>1
    <3>2. f[k] = T[f[k - 1]][k]
      BY <1>5 DEF Unfolds
    <3> QED BY <1>3, <3>1, <3>2
  <2> QED BY <1>5, <2>1 DEF Unfolds
<1>7. f = [k \in 0 .. m |-> IF k = 0 THEN b ELSE step(f[k - 1], k)]
  BY <1>1, <1>6
<1>8. v = [k \in 0 .. m |-> IF k = 0 THEN b ELSE step(v[k - 1], k)]
  BY <1>7 DEF StoresEnd, m, b, step
<1> HIDE DEF v
<1>9. v[0] = b /\ \A k \in 1 .. m : v[k] = step(v[k - 1], k)
  BY <1>1, <1>8
<1> DEFINE G == {k \in Nat : k <= m => v[k] \in Nat}
<1>10. \A k \in Nat : k \in G
  <2>1. 0 \in G
    BY <1>2, <1>9
  <2>2. ASSUME NEW k \in Nat, k \in G PROVE k + 1 \in G
    <3> SUFFICES ASSUME k + 1 <= m PROVE v[k + 1] \in Nat
      OBVIOUS
    <3>1. k + 1 \in 1 .. m /\ (k + 1) - 1 = k /\ v[k] \in Nat
      BY <1>1, <2>2
    <3>2. v[k + 1] = step(v[k], k + 1)
      BY <1>9, <3>1
    <3> QED BY <1>4, <3>1, <3>2
  <2> HIDE DEF G
  <2> QED BY <2>1, <2>2, SetInduction
<1>11. \A k \in 0 .. m : v[k] \in Nat
  BY <1>1, <1>10
<1> QED BY <1>1, <1>9, <1>11 DEF v, m, b, step

\* Stores follow each other.
LEMMA EndGrows ==
  ASSUME Typed, NEW j \in 0 .. Len(layout.stores)
  PROVE  \A k \in j .. Len(layout.stores) : StoresEnd(layout)[j] <= StoresEnd(layout)[k]
<1> DEFINE m == Len(layout.stores)
           v == StoresEnd(layout)
<1>1. m \in Nat /\ \A k \in 0 .. m : v[k] \in Nat
  BY EndFacts
<1>2. \A k \in 1 .. m : v[k - 1] <= v[k]
  <2> TAKE k \in 1 .. m
  <2> DEFINE x == v[k - 1]
             a == align_up(x, chunk_size(layout))
             s == StoreLength(layout.stores[k])
  <2>1. k - 1 \in 0 .. m
    BY <1>1
  <2>2. x \in Nat /\ v[k] = a + s
    BY <1>1, <2>1, EndFacts
  <2>3. s \in Nat
    BY EndFacts, TablesFacts
  <2> HIDE DEF x, v, s, m
  <2>4. a \in Nat /\ a >= x
    BY <2>2, LayoutFacts, AlignFacts
  <2> HIDE DEF a
  <2>5. x <= v[k]
    BY <2>2, <2>3, <2>4
  <2> QED BY <2>5 DEF x
<1>3. j \in 0 .. m
  OBVIOUS
<1> HIDE DEF v, m
<1> DEFINE G == {k \in Nat : j + k <= m => v[j] <= v[j + k]}
<1>4. \A k \in Nat : k \in G
  <2>1. 0 \in G
    BY <1>1, <1>3
  <2>2. ASSUME NEW k \in Nat, k \in G PROVE k + 1 \in G
    <3> SUFFICES ASSUME j + (k + 1) <= m PROVE v[j] <= v[j + (k + 1)]
      OBVIOUS
    <3> DEFINE i == j + k
    <3>1. i + 1 \in 1 .. m /\ (i + 1) - 1 = i /\ i \in 0 .. m /\ i + 1 \in 0 .. m
          /\ j + (k + 1) = i + 1
      BY <1>1, <1>3
    <3>2. v[j] <= v[i]
      BY <1>1, <1>3, <2>2
    <3> HIDE DEF i
    <3>3. v[i] <= v[i + 1] /\ v[i] \in Nat /\ v[i + 1] \in Nat /\ v[j] \in Nat
      BY <1>1, <1>2, <1>3, <3>1
    <3>4. v[j] <= v[i + 1]
      BY <3>2, <3>3
    <3> QED BY <3>1, <3>4
  <2> HIDE DEF G
  <2> QED BY <2>1, <2>2, SetInduction
<1>5. ASSUME NEW k \in j .. m PROVE v[j] <= v[k]
  <2>1. k - j \in Nat /\ j + (k - j) = k
    BY <1>1, <1>3
  <2>2. k - j \in G
    BY <1>4, <2>1
  <2> QED BY <1>1, <2>1, <2>2
<1> QED BY <1>5 DEF v, m

-------------------------------------------------------------------------------
(* How many stores there are to be. *)

LEMMA WantedNone == Wanted(layout, 0) = 1
<1>1. 1 .. 0 = {}
  OBVIOUS
<1> QED BY <1>1 DEF Wanted

LEMMA WantedNext ==
  ASSUME Typed, NEW k \in 1 .. Len(layout.stores)
  PROVE  Wanted(layout, k) = desired(layout, k, Wanted(layout, k - 1))
<1> DEFINE v2s(i) == {j \in 1 .. i : layout.stores[j].v2}
           last(i) == CHOOSE j \in v2s(i) : \A h \in v2s(i) : h <= j
<1>1. \A i \in Nat : Wanted(layout, i) = IF v2s(i) = {} THEN 1 ELSE layout.stores[last(i)].count
  BY DEF Wanted
<1>2. k \in Nat /\ k - 1 \in Nat /\ Header(layout, k) = layout.stores[k]
  BY LayoutFacts DEF Header
<1>3. CASE layout.stores[k].v2
  <2>1. k \in v2s(k)
    BY <1>2, <1>3
  <2>2. \A h \in v2s(k) : h <= k
    BY <1>2
  <2>3. last(k) \in v2s(k) /\ \A h \in v2s(k) : h <= last(k)
    BY <2>1, <2>2
  <2> HIDE DEF last
  <2>4. k <= last(k) /\ last(k) <= k /\ last(k) \in Nat
    BY <2>1, <2>3
  <2>5. last(k) = k
    BY <1>2, <2>4
  <2>6. v2s(k) # {}
    BY <2>1
  <2>7. Wanted(layout, k) = layout.stores[k].count
    BY <1>1, <1>2, <2>5, <2>6
  <2> QED BY <1>2, <1>3, <2>7 DEF desired
<1>4. CASE ~layout.stores[k].v2
  <2>1. v2s(k) = v2s(k - 1)
    <3>1. ASSUME NEW j \in v2s(k) PROVE j \in v2s(k - 1)
      <4>1. j # k /\ j \in 1 .. k
        BY <1>4, <3>1
      <4>2. j \in 1 .. k - 1
        BY <1>2, <4>1
      <4> QED BY <3>1, <4>2
    <3>2. ASSUME NEW j \in v2s(k - 1) PROVE j \in v2s(k)
      <4>1. j \in 1 .. k
        BY <1>2, <3>2
      <4> QED BY <3>2, <4>1
    <3> QED BY <3>1, <3>2
  <2> DEFINE A == v2s(k)
             B == v2s(k - 1)
  <2>2. Wanted(layout, k) = Wanted(layout, k - 1)
    <3>1. last(k) = last(k - 1)
      BY <2>1
    <3> HIDE DEF v2s, last
    <3> QED BY <1>1, <1>2, <2>1, <3>1
  <2> HIDE DEF A, B
  <2> QED BY <1>2, <1>4, <2>2 DEF desired
<1> QED BY <1>3, <1>4

LEMMA WantedNat ==
  ASSUME Typed
  PROVE  \A k \in 0 .. Len(layout.stores) : Wanted(layout, k) \in Nat
<1> DEFINE m == Len(layout.stores)
           fine(k) == Wanted(layout, k) \in Nat
<1>1. m \in Nat
  BY LayoutFacts
<1>2. fine(0)
  BY WantedNone
<1>3. \A k \in 1 .. m : fine(k - 1) => fine(k)
  <2> TAKE k \in 1 .. m
  <2>1. Header(layout, k).count \in Nat
    <3>1. Header(layout, k) \in Store
      BY <1>1, HeaderFacts
    <3> QED BY <3>1, StoreFacts
  <2> QED BY <2>1, WantedNext DEF desired
<1> HIDE DEF fine, m
<1> DEFINE G == {k \in Nat : k <= m => fine(k)}
<1>4. \A k \in Nat : k \in G
  <2>1. 0 \in G
    BY <1>2
  <2>2. ASSUME NEW k \in Nat, k \in G PROVE k + 1 \in G
    <3> SUFFICES ASSUME k + 1 <= m PROVE fine(k + 1)
      OBVIOUS
    <3>1. k + 1 \in 1 .. m /\ (k + 1) - 1 = k /\ fine(k)
      BY <1>1, <2>2
    <3> QED BY <1>3, <3>1
  <2> HIDE DEF G
  <2> QED BY <2>1, <2>2, SetInduction
<1>5. \A k \in 0 .. m : fine(k)
  BY <1>1, <1>4
<1> QED BY <1>5 DEF fine, m

-------------------------------------------------------------------------------
(* The cursor is where the layout has the next structure. *)

LEMMA InitPlace == Init => PlaceSound
<1> SUFFICES ASSUME Init PROVE PlaceSound
  OBVIOUS
<1>1. /\ at = "security" /\ cursor = 0 /\ n = 0 /\ desired_store_count = 1
      /\ plan.stores = <<>> /\ layout \in Layouts
  BY DEF Init, EmptyPlan
<1>2. complete = 0 /\ begun = 0 /\ Walking
  BY <1>1, EmptySeq DEF complete, begun, Walking
<1>3. Len(layout.stores) \in Nat
  <2>1. layout.stores \in Seq(Store)
    BY <1>1, ParseAssumption DEF Layout
  <2> QED BY <2>1, LenProperties
<1>4. 0 <= Len(layout.stores) /\ ~(0 >= 1) /\ 0 # 0 + 1 /\ 1 .. 0 = {}
  BY <1>3
<1> QED BY <1>1, <1>2, <1>4, WantedNone DEF PlaceSound

\* The part about stores whose header has been read stays as it is while the plan does.
StoresSound ==
  /\ begun <= Len(layout.stores)
  /\ \A k \in 1 .. complete : StoreOK(layout.stores[k])
  /\ desired_store_count = Wanted(layout, begun)
  /\ \A k \in 1 .. complete : Wanted(layout, k) <= k => k = complete /\ ~Walking
  /\ complete >= 1 => plan.stores[1].block_size = layout.stores[1].block_size

LEMMA StoresKept ==
  ASSUME StoresSound, UNCHANGED <<plan, layout, desired_store_count>>,
         begun' = begun, Walking' = Walking
  PROVE  StoresSound' /\ complete' = complete
<1>1. complete' = complete
  BY DEF complete
<1>2. plan' = plan /\ layout' = layout /\ desired_store_count' = desired_store_count
  OBVIOUS
<1>3. /\ begun' <= Len(layout'.stores)
      /\ \A k \in 1 .. complete' : StoreOK(layout'.stores[k])
      /\ desired_store_count' = Wanted(layout', begun')
      /\ \A k \in 1 .. complete' : Wanted(layout', k) <= k => k = complete' /\ ~Walking'
      /\ complete' >= 1 => plan'.stores[1].block_size = layout'.stores[1].block_size
  BY <1>1, <1>2 DEF StoresSound
<1> QED BY <1>1, <1>3 DEF StoresSound

LEMMA SecurityPlace ==
  ASSUME Typed, PlaceSound, at = "security", SecurityOK(layout), SecurityRead
  PROVE  PlaceSound'
<1>1. /\ at' = "image" /\ cursor' = ImageStart(layout) /\ n' = n /\ layout' = layout
      /\ plan' = plan /\ desired_store_count' = desired_store_count
  BY DEF SecurityRead
<1>2. n = 0 /\ complete = 0 /\ desired_store_count = 1 /\ StoresSound
  BY DEF PlaceSound, StoresSound
<1>3. Walking /\ Walking' /\ begun = complete /\ begun' = complete'
  BY <1>1 DEF Walking, begun
<1>4. complete' = complete
  BY <1>1 DEF complete
<1>5. StoresSound'
  <2>1. begun' = begun /\ Walking' = Walking
    BY <1>3, <1>4
  <2> QED BY <1>1, <1>2, <2>1, StoresKept
<1>6. SecurityOK(layout') /\ cursor' = ImageStart(layout') /\ n' = 0 /\ complete' = 0
      /\ desired_store_count' = 1
  BY <1>1, <1>2, <1>4
<1>7. begun' # complete' + 1 /\ ~(complete' = 0 /\ begun' = 1)
  BY <1>3, <1>6
<1> QED BY <1>1, <1>3, <1>5, <1>6, <1>7 DEF PlaceSound, StoresSound

LEMMA ImagePlace ==
  ASSUME Typed, PlaceSound, at = "image", ImageOK(layout), ImageRead
  PROVE  PlaceSound'
<1>1. /\ at' = IF layout.image = "v2" /\ layout.validation # <<>> THEN "validation" ELSE "store"
      /\ cursor' = image_end /\ n' = n /\ layout' = layout
      /\ plan' = plan /\ desired_store_count' = desired_store_count
  BY DEF ImageRead
<1>2. /\ n = 0 /\ complete = 0 /\ desired_store_count = 1 /\ StoresSound /\ SecurityOK(layout)
      /\ cursor = ImageStart(layout)
  BY DEF PlaceSound, StoresSound
<1>3. /\ Walking /\ Walking' /\ begun = complete /\ begun' = complete'
      /\ at' # "security" /\ at' # "image" /\ at' # "descriptor" /\ at' # "store_end"
  BY <1>1 DEF Walking, begun
<1>4. complete' = complete
  BY <1>1 DEF complete
<1>5. StoresSound'
  <2>1. begun' = begun /\ Walking' = Walking
    BY <1>3, <1>4
  <2> QED BY <1>1, <1>2, <2>1, StoresKept
<1>6. SecurityOK(layout') /\ ImageOK(layout') /\ n' = 0 /\ complete' = 0
      /\ desired_store_count' = 1
  BY <1>1, <1>2, <1>4
<1>7. cursor' = ImageEnd(layout)
  <2>1. Length = image_length
    BY DEF Length, image_length
  <2>2. image_end = ImageStart(layout) + ((image_length + layout.manifest) % Word)
    BY <1>2, <2>1 DEF image_end
  <2> QED BY <1>1, <2>2, ImageFacts
<1>8. at' = "validation" =>
        /\ layout'.image = "v2" /\ n' < Len(layout'.validation)
        /\ cursor' = ImageEnd(layout') + Sums(Validations(layout'))[n']
  <2> SUFFICES ASSUME at' = "validation"
               PROVE  /\ layout.image = "v2" /\ 0 < Len(layout.validation)
                      /\ cursor' = ImageEnd(layout) + Sums(Validations(layout))[0]
    BY <1>1, <1>6
  <2>1. layout.image = "v2" /\ layout.validation # <<>>
    BY <1>1
  <2>2. 0 < Len(layout.validation)
    BY <2>1, LayoutFacts, EmptySeq
  <2>3. Sums(Validations(layout))[0] = 0
    BY ValidationsFacts, SumsFacts
  <2>4. ImageEnd(layout) + 0 = ImageEnd(layout)
    BY ImageFacts
  <2> QED BY <1>7, <2>1, <2>2, <2>3, <2>4
<1>9. at' = "store" => cursor' = StoresEnd(layout')[complete']
  <2> SUFFICES ASSUME at' = "store" PROVE cursor' = StoresEnd(layout)[0]
    BY <1>1, <1>6
  <2>1. ~(layout.image = "v2" /\ layout.validation # <<>>)
    BY <1>1
  <2>2. Total(Validations(layout)) = 0
    <3>1. CASE layout.image # "v2"
      BY <3>1, ValidationsFacts
    <3>2. CASE layout.image = "v2"
      <4>1. Len(Validations(layout)) = 0 /\ Validations(layout) \in Seq(Nat)
        BY <2>1, <3>2, ValidationsFacts, EmptySeq
      <4>2. Sums(Validations(layout))[0] = 0
        BY <4>1, SumsFacts
      <4> QED BY <4>1, <4>2 DEF Total
    <3> QED BY <3>1, <3>2
  <2>3. ImageEnd(layout) + 0 = ImageEnd(layout)
    BY ImageFacts
  <2> QED BY <1>7, <2>2, <2>3, EndFacts
<1>10. begun' # complete' + 1 /\ ~(complete' = 0 /\ begun' = 1)
  <2>1. 0 # 0 + 1 /\ 0 # 1
    OBVIOUS
  <2>2. begun' = 0 /\ complete' = 0
    BY <1>3, <1>6
  <2> QED BY <2>1, <2>2, Zenon
<1> QED BY <1>3, <1>5, <1>6, <1>8, <1>9, <1>10 DEF PlaceSound, StoresSound

LEMMA ValidationPlace ==
  ASSUME Typed, PlaceSound, at = "validation", ValidationRead
  PROVE  PlaceSound'
<1>1. /\ cursor' = validation_end /\ layout' = layout
      /\ plan' = plan /\ desired_store_count' = desired_store_count
      /\ IF n + 1 < Len(layout.validation)
           THEN at' = at /\ n' = n + 1
           ELSE at' = "store" /\ n' = 0
  BY DEF ValidationRead
<1>2. /\ complete = 0 /\ desired_store_count = 1 /\ StoresSound
      /\ SecurityOK(layout) /\ ImageOK(layout)
      /\ layout.image = "v2" /\ n < Len(layout.validation)
      /\ cursor = ImageEnd(layout) + Sums(Validations(layout))[n]
  BY DEF PlaceSound, StoresSound
<1>3. /\ Walking /\ Walking' /\ begun = complete /\ begun' = complete'
      /\ at' # "security" /\ at' # "image" /\ at' # "descriptor" /\ at' # "store_end"
  BY <1>1 DEF Walking, begun
<1>4. complete' = complete
  BY <1>1 DEF complete
<1>5. StoresSound'
  <2>1. begun' = begun /\ Walking' = Walking
    BY <1>3, <1>4
  <2> QED BY <1>1, <1>2, <2>1, StoresKept
<1>6. SecurityOK(layout') /\ ImageOK(layout') /\ complete' = 0 /\ desired_store_count' = 1
  BY <1>1, <1>2, <1>4
<1>7. /\ cursor' = ImageEnd(layout) + Sums(Validations(layout))[n + 1]
      /\ n + 1 \in 1 .. Len(layout.validation) /\ Len(layout.validation) \in Nat
  <2> DEFINE T == Validations(layout)
             m == Len(layout.validation)
  <2>1. n \in Nat /\ m \in Nat /\ T \in Seq(Nat) /\ Len(T) = m
        /\ \A v \in 1 .. m : T[v] = ValidationSize + layout.validation[v]
    BY <1>2, HereFacts, LayoutFacts, ValidationsFacts
  <2> HIDE DEF T, m
  <2>2. n + 1 \in 1 .. m /\ (n + 1) - 1 = n /\ n \in 0 .. m
    BY <1>2, <2>1 DEF m
  <2>3. Sums(T)[n + 1] = Sums(T)[n] + T[n + 1] /\ Sums(T)[n] \in Nat /\ T[n + 1] \in Nat
    BY <2>1, <2>2, SumsFacts
  <2>4. cursor' = (ImageEnd(layout) + Sums(T)[n]) + ValidationSize + layout.validation[n + 1]
    BY <1>1, <1>2 DEF validation_end, T
  <2>5. T[n + 1] = ValidationSize + layout.validation[n + 1]
    BY <2>1, <2>2
  <2> DEFINE a == ImageEnd(layout)
             c == Sums(T)[n]
             d == layout.validation[n + 1]
  <2>6. d \in Nat
    BY <2>2, LayoutFacts, ElementOfSeq DEF m
  <2>7. a \in Nat /\ c \in Nat /\ ValidationSize \in Nat
    BY <2>3, ImageFacts, SizesPositive
  <2> HIDE DEF a, c, d
  <2>8. (a + c) + ValidationSize + d = a + (c + (ValidationSize + d))
    BY <2>6, <2>7
  <2> QED BY <2>1, <2>2, <2>3, <2>4, <2>5, <2>8 DEF T, m, a, c, d
<1>8. at' = "validation" =>
        /\ layout'.image = "v2" /\ n' < Len(layout'.validation)
        /\ cursor' = ImageEnd(layout') + Sums(Validations(layout'))[n']
  BY <1>1, <1>2, <1>7
<1>9. at' = "store" => cursor' = StoresEnd(layout')[complete']
  <2> SUFFICES ASSUME at' = "store" PROVE cursor' = StoresEnd(layout)[0]
    BY <1>1, <1>6
  <2>1. n + 1 = Len(layout.validation)
    <3>1. ~(n + 1 < Len(layout.validation))
      BY <1>1
    <3> QED BY <1>7, <3>1
  <2>2. Len(Validations(layout)) = Len(layout.validation)
    BY <1>2, ValidationsFacts
  <2> QED BY <1>7, <2>1, <2>2, EndFacts DEF Total
<1>10. begun' # complete' + 1 /\ ~(complete' = 0 /\ begun' = 1)
  <2>1. 0 # 0 + 1 /\ 0 # 1
    OBVIOUS
  <2>2. begun' = 0 /\ complete' = 0
    BY <1>3, <1>6
  <2> QED BY <2>1, <2>2, Zenon
<1> QED BY <1>3, <1>5, <1>6, <1>8, <1>9, <1>10 DEF PlaceSound, StoresSound

\* A store whose header is sound is one of the layout.
LEMMA HereIs ==
  ASSUME Typed, HeaderOK(here)
  PROVE  complete + 1 \in 1 .. Len(layout.stores) /\ here = layout.stores[complete + 1]
<1>1. Header(layout, complete + 1).known
  BY DEF HeaderOK, here, complete
<1>2. complete \in Nat /\ Len(layout.stores) \in Nat
  BY HereFacts, LayoutFacts
<1>3. complete + 1 <= Len(layout.stores)
  BY <1>1 DEF Header, Blank
<1>4. here = layout.stores[complete + 1]
  BY <1>3 DEF here, Header, complete
<1> HIDE DEF complete
<1> QED BY <1>2, <1>3, <1>4

LEMMA StorePlace ==
  ASSUME Typed, PlaceSound, at = "store", HeaderOK(here), StoreRead
  PROVE  PlaceSound'
<1>1. /\ at' = "descriptor" /\ cursor' = store_end /\ n' = 0 /\ layout' = layout
      /\ plan' = plan
      /\ desired_store_count' = desired(layout, complete + 1, desired_store_count)
      /\ store'.block_size = here.block_size
  BY DEF StoreRead
<1>2. /\ StoresSound /\ SecurityOK(layout) /\ ImageOK(layout)
      /\ cursor = StoresEnd(layout)[complete]
  BY DEF PlaceSound, StoresSound
<1>3. /\ Walking /\ Walking' /\ begun = complete /\ begun' = complete' + 1
      /\ at' # "security" /\ at' # "image" /\ at' # "validation" /\ at' # "store"
  BY <1>1 DEF Walking, begun
<1>4. complete' = complete /\ here' = here
  BY <1>1 DEF complete, here, Header, Blank
<1>5. complete + 1 \in 1 .. Len(layout.stores) /\ here = layout.stores[complete + 1]
      /\ complete \in Nat
  BY HereIs, HereFacts
<1>6. begun' <= Len(layout'.stores)
  BY <1>1, <1>3, <1>4, <1>5
<1>7. desired_store_count' = Wanted(layout', begun')
  <2>1. (complete + 1) - 1 = complete
    BY <1>5
  <2>2. desired_store_count = Wanted(layout, complete)
    BY <1>2, <1>3 DEF StoresSound
  <2>3. Wanted(layout, complete + 1) = desired(layout, complete + 1, Wanted(layout, complete))
    BY <1>5, <2>1, WantedNext
  <2> QED BY <1>1, <1>3, <1>4, <2>2, <2>3
<1>8. /\ \A k \in 1 .. complete' : StoreOK(layout'.stores[k])
      /\ \A k \in 1 .. complete' : Wanted(layout', k) <= k => k = complete' /\ ~Walking'
      /\ complete' >= 1 => plan'.stores[1].block_size = layout'.stores[1].block_size
  <2>1. /\ \A k \in 1 .. complete : StoreOK(layout.stores[k])
        /\ \A k \in 1 .. complete : Wanted(layout, k) <= k => k = complete /\ ~Walking
        /\ complete >= 1 => plan.stores[1].block_size = layout.stores[1].block_size
    BY <1>2 DEF StoresSound
  <2> QED BY <1>1, <1>3, <1>4, <2>1
<1>9. HeaderOK(here') /\ \A d \in 1 .. n' : DescriptorOK(here', here'.descriptors[d])
  <2>1. 1 .. n' = {}
    BY <1>1
  <2> QED BY <1>4, <2>1
<1>10. cursor' = align_up(StoresEnd(layout')[complete'], chunk_size(layout'))
                   + StoreHeader(here') + Sums(Tables(here'))[n']
  <2> DEFINE a == align_up(StoresEnd(layout)[complete], chunk_size(layout))
             s == Sums(Tables(here))[0]
  <2>1. s = 0
    BY HereFacts, TablesFacts, SumsFacts
  <2>2. a \in Nat
    <3>1. complete \in 0 .. Len(layout.stores)
      BY <1>5
    <3> QED BY <3>1, EndFacts, LayoutFacts, AlignFacts
  <2>3. Start = a
    BY <1>2 DEF Start
  <2>4. Length = IF here.v2 THEN StoreSizeV2 ELSE StoreSize
    BY DEF Length
  <2>5. /\ here.path \in Nat /\ StoreSize \in Nat /\ StoreSizeV2 \in Nat
    BY HereFacts, StoreFacts, SizesPositive
  <2> HIDE DEF a, s
  <2>6. store_end = a + StoreHeader(here) + s
    <3>1. CASE here.v2
      <4>1. store_end = a + StoreSizeV2 + here.path /\ StoreHeader(here) = StoreSizeV2 + here.path
        BY <2>3, <2>4, <3>1 DEF store_end, StoreHeader
      <4>2. a + StoreSizeV2 + here.path = a + (StoreSizeV2 + here.path) + 0
        BY <2>2, <2>5
      <4> QED BY <2>1, <4>1, <4>2
    <3>2. CASE ~here.v2
      <4>1. store_end = a + StoreSize + 0 /\ StoreHeader(here) = StoreSize
        BY <2>3, <2>4, <3>2 DEF store_end, StoreHeader
      <4> QED BY <2>1, <4>1
    <3> QED BY <3>1, <3>2
  <2> QED BY <1>1, <1>4, <2>6 DEF a, s
<1>11. store'.block_size = here'.block_size
  BY <1>1, <1>4
<1>12. SecurityOK(layout') /\ ImageOK(layout')
  BY <1>1, <1>2
<1> QED BY <1>3, <1>6, <1>7, <1>8, <1>9, <1>10, <1>11, <1>12 DEF PlaceSound

LEMMA DescriptorPlace ==
  ASSUME Typed, PlaceSound, at = "descriptor", n < Len(here.descriptors),
         here.block_size # 0, DescriptorOK(here, desc), DescriptorRead
  PROVE  PlaceSound'
<1>1. /\ at' \in {"descriptor", "store_end"} /\ cursor' = table_end /\ n' = n + 1
      /\ layout' = layout /\ desired_store_count' = desired_store_count /\ store' = store
  BY DEF DescriptorRead
<1>2. plan'.stores = plan.stores
  BY EntryAppended
<1>3. complete' = complete /\ here' = here
  BY <1>1, <1>2 DEF complete, here, Header, Blank
<1>4. /\ Walking /\ Walking' /\ begun = complete + 1 /\ begun' = complete' + 1
      /\ at' # "security" /\ at' # "image" /\ at' # "validation" /\ at' # "store"
  BY <1>1 DEF Walking, begun
<1>5. /\ SecurityOK(layout) /\ ImageOK(layout)
      /\ begun <= Len(layout.stores)
      /\ \A k \in 1 .. complete : StoreOK(layout.stores[k])
      /\ desired_store_count = Wanted(layout, begun)
      /\ \A k \in 1 .. complete : Wanted(layout, k) <= k => k = complete /\ ~Walking
      /\ HeaderOK(here)
      /\ \A d \in 1 .. n : DescriptorOK(here, here.descriptors[d])
      /\ cursor = align_up(StoresEnd(layout)[complete], chunk_size(layout))
                     + StoreHeader(here) + Sums(Tables(here))[n]
      /\ complete >= 1 => plan.stores[1].block_size = layout.stores[1].block_size
      /\ complete = 0 /\ begun = 1 => store.block_size = here.block_size
  BY <1>4 DEF PlaceSound
<1>6. n \in Nat /\ complete \in Nat /\ n + 1 \in 1 .. Len(here.descriptors)
      /\ n \in 0 .. Len(here.descriptors) /\ (n + 1) - 1 = n
  BY HereFacts, StoreFacts
<1>7. \A d \in 1 .. n' : DescriptorOK(here', here'.descriptors[d])
  <2> TAKE d \in 1 .. n'
  <2>1. d \in 1 .. n \/ d = n + 1
    <3>1. d \in 1 .. n + 1
      BY <1>1
    <3> QED BY <1>6, <3>1, OneBehind, Zenon
  <2> QED BY <1>3, <1>5, <2>1 DEF desc
<1>8. cursor' = align_up(StoresEnd(layout)[complete], chunk_size(layout))
                   + StoreHeader(here) + Sums(Tables(here))[n + 1]
  <2> DEFINE a == align_up(StoresEnd(layout)[complete], chunk_size(layout))
             h == StoreHeader(here)
             T == Tables(here)
             t == desc.locations * LocationSize
             c == Sums(T)[n]
  <2>1. T \in Seq(Nat) /\ Len(T) = Len(here.descriptors) /\ T[n + 1] = DescriptorSize + t
    BY <1>6, HereFacts, TablesFacts DEF desc
  <2> HIDE DEF T, t
  <2>2. Sums(T)[n + 1] = Sums(T)[n] + T[n + 1] /\ Sums(T)[n] \in Nat
    BY <1>6, <2>1, SumsFacts
  <2>3. cursor' = (a + h + c) + DescriptorSize + t
    BY <1>1, <1>5 DEF table_end, T, t
  <2>4. t \in Nat /\ h \in Nat /\ DescriptorSize \in Nat
    BY DescFacts, HereFacts, StoreFacts, SizesPositive, Products DEF t
  <2>5. a \in Nat
    <3>1. complete \in 0 .. Len(layout.stores)
      BY <1>5, <1>6, HereIs
    <3> QED BY <3>1, EndFacts, LayoutFacts, AlignFacts
  <2>6. c \in Nat /\ Sums(T)[n + 1] = c + (DescriptorSize + t)
    BY <2>1, <2>2
  <2> HIDE DEF a, h, c
  <2>7. (a + h + c) + DescriptorSize + t = a + h + (c + (DescriptorSize + t))
    BY <2>4, <2>5, <2>6
  <2>8. cursor' = a + h + Sums(T)[n + 1]
    BY <2>3, <2>6, <2>7
  <2> QED BY <2>8 DEF a, h, T
<1>9. /\ SecurityOK(layout') /\ ImageOK(layout')
      /\ begun' <= Len(layout'.stores)
      /\ \A k \in 1 .. complete' : StoreOK(layout'.stores[k])
      /\ desired_store_count' = Wanted(layout', begun')
      /\ \A k \in 1 .. complete' : Wanted(layout', k) <= k => k = complete' /\ ~Walking'
      /\ HeaderOK(here')
      /\ cursor' = align_up(StoresEnd(layout')[complete'], chunk_size(layout'))
                     + StoreHeader(here') + Sums(Tables(here'))[n']
      /\ complete' >= 1 => plan'.stores[1].block_size = layout'.stores[1].block_size
      /\ complete' = 0 /\ begun' = 1 => store'.block_size = here'.block_size
  BY <1>1, <1>2, <1>3, <1>4, <1>5, <1>8
<1> QED BY <1>4, <1>7, <1>9 DEF PlaceSound

\* The descriptors of the store in hand have all been read.
AllRead == n = Len(here.descriptors)

LEMMA CompletePlace ==
  ASSUME Typed, PlaceSound, at = "store_end", AllRead, StoreComplete
  PROVE  PlaceSound'
<1> DEFINE next == complete + 1
<1>1. /\ n' = 0 /\ cursor' = cursor /\ layout' = layout
      /\ desired_store_count' = desired_store_count
      /\ at' = IF complete' < desired_store_count THEN "store" ELSE "payload"
  BY DEF StoreComplete, complete
<1>2. /\ complete' = next /\ complete \in Nat
      /\ plan'.stores[next].block_size = store.block_size
      /\ \A k \in 1 .. complete : plan'.stores[k] = plan.stores[k]
  BY StoreAppended, HereFacts DEF complete
<1>3. Walking /\ begun = next
  BY DEF Walking, begun
<1>4. /\ SecurityOK(layout) /\ ImageOK(layout)
      /\ begun <= Len(layout.stores)
      /\ \A k \in 1 .. complete : StoreOK(layout.stores[k])
      /\ desired_store_count = Wanted(layout, begun)
      /\ \A k \in 1 .. complete : Wanted(layout, k) <= k => k = complete /\ ~Walking
      /\ HeaderOK(here)
      /\ \A d \in 1 .. n : DescriptorOK(here, here.descriptors[d])
      /\ cursor = align_up(StoresEnd(layout)[complete], chunk_size(layout))
                     + StoreHeader(here) + Sums(Tables(here))[n]
      /\ complete >= 1 => plan.stores[1].block_size = layout.stores[1].block_size
      /\ complete = 0 /\ begun = 1 => store.block_size = here.block_size
  BY <1>3 DEF PlaceSound
<1>5. next \in 1 .. Len(layout.stores) /\ here = layout.stores[next]
  BY <1>4, HereIs
<1>6. \A k \in 1 .. next : k \in 1 .. complete \/ k = next
  BY <1>2, OneBehind, Zenon
<1>7. next \in Nat /\ next >= 1 /\ next - 1 = complete /\ next # complete
  BY <1>2
<1> HIDE DEF next, complete
<1>8. at' \in {"store", "payload"}
  BY <1>1
<1>9. begun' = next
  BY <1>2, <1>8 DEF begun
<1>10. StoreOK(here)
  <2>1. DOMAIN here.descriptors = 1 .. n
    BY HereFacts, StoreFacts, LenProperties DEF AllRead
  <2> QED BY <1>4, <2>1 DEF StoreOK, HeaderOK
<1>11. \A k \in 1 .. next : StoreOK(layout.stores[k])
  BY <1>4, <1>5, <1>6, <1>10
<1>12. next >= 1 => plan'.stores[1].block_size = layout.stores[1].block_size
  <2>1. CASE complete = 0
    <3>1. next = 1
      BY <1>7, <2>1 DEF next
    <3> QED BY <1>2, <1>3, <1>4, <1>5, <2>1, <3>1
  <2>2. CASE complete # 0
    <3>1. complete >= 1 /\ 1 \in 1 .. complete
      BY <1>2, <2>2
    <3> QED BY <1>2, <1>4, <3>1
  <2> QED BY <2>1, <2>2
<1>13. Wanted(layout, next) \in Nat
  BY <1>5, <1>7, WantedNat
<1>14. ~Walking' <=> Wanted(layout, next) <= next
  <2>1. at' = IF next < Wanted(layout, next) THEN "store" ELSE "payload"
    BY <1>1, <1>2, <1>3, <1>4
  <2>2. next < Wanted(layout, next) <=> ~(Wanted(layout, next) <= next)
    BY <1>7, <1>13
  <2> QED BY <2>1, <2>2, Zenon DEF Walking
<1>15. \A k \in 1 .. next : Wanted(layout, k) <= k => k = next /\ ~Walking'
  BY <1>3, <1>4, <1>6, <1>14, Zenon
<1>16. cursor = StoresEnd(layout)[next]
  <2> DEFINE a == align_up(StoresEnd(layout)[complete], chunk_size(layout))
             h == StoreHeader(here)
             c == Total(Tables(here))
  <2>1. StoresEnd(layout)[next] = a + (h + c)
    BY <1>5, <1>7, EndFacts DEF StoreLength
  <2>2. cursor = a + h + c
    BY <1>4, HereFacts, TablesFacts DEF Total, AllRead
  <2>3. a \in Nat
    <3>1. complete \in 0 .. Len(layout.stores)
      BY <1>2, <1>5, <1>7
    <3> QED BY <3>1, EndFacts, LayoutFacts, AlignFacts
  <2>4. h \in Nat /\ c \in Nat
    BY HereFacts, StoreFacts, TablesFacts
  <2> HIDE DEF a, h, c
  <2> QED BY <2>1, <2>2, <2>3, <2>4
<1>17. /\ SecurityOK(layout') /\ ImageOK(layout')
       /\ begun' <= Len(layout'.stores)
       /\ \A k \in 1 .. complete' : StoreOK(layout'.stores[k])
       /\ desired_store_count' = Wanted(layout', begun')
       /\ \A k \in 1 .. complete' : Wanted(layout', k) <= k => k = complete' /\ ~Walking'
       /\ cursor' = StoresEnd(layout')[complete']
       /\ plan'.stores[1].block_size = layout'.stores[1].block_size
  <2>1. next <= Len(layout.stores)
    BY <1>5
  <2> QED BY <1>1, <1>2, <1>3, <1>4, <1>7, <1>9, <1>11, <1>12, <1>15, <1>16, <2>1
<1>18. ~Walking' => complete' >= 1 /\ Wanted(layout', complete') <= complete'
  BY <1>1, <1>2, <1>7, <1>14
<1>19. begun' # complete' + 1 /\ ~(n' >= 1)
  <2>1. next # next + 1 /\ ~(0 >= 1)
    BY <1>7
  <2> QED BY <1>1, <1>2, <1>9, <2>1
<1>20. ~(complete' = 0 /\ begun' = 1)
  <2>1. next # 0
    BY <1>7
  <2> QED BY <1>2, <2>1
<1>21. at' # "security" /\ at' # "image" /\ at' # "validation"
  BY <1>8
<1> QED BY <1>1, <1>17, <1>18, <1>19, <1>20, <1>21 DEF PlaceSound

LEMMA PlacedPlace ==
  ASSUME Typed, PlaceSound, PlaceStore,
         IF n = 0 THEN plan'.payload_base = next_base
                  ELSE plan'.payload_base = plan.payload_base
  PROVE  PlaceSound'
<1>1. /\ at = "payload" /\ at' = "payload" /\ n < Len(plan.stores) /\ n' = n + 1
      /\ layout' = layout /\ desired_store_count' = desired_store_count
      /\ Len(plan'.stores) = Len(plan.stores)
      /\ \A k \in 1 .. Len(plan.stores) :
           plan'.stores[k].block_size = plan.stores[k].block_size
  BY StorePlaced
<1>2. ~Walking /\ ~Walking' /\ begun = complete /\ begun' = complete' /\ complete' = complete
  BY <1>1 DEF Walking, begun, complete
<1>3. /\ SecurityOK(layout) /\ ImageOK(layout)
      /\ begun <= Len(layout.stores)
      /\ \A k \in 1 .. complete : StoreOK(layout.stores[k])
      /\ desired_store_count = Wanted(layout, begun)
      /\ \A k \in 1 .. complete : Wanted(layout, k) <= k => k = complete /\ ~Walking
      /\ complete >= 1 /\ Wanted(layout, complete) <= complete
      /\ plan.stores[1].block_size = layout.stores[1].block_size
      /\ n = 0 => cursor = StoresEnd(layout)[complete]
      /\ n >= 1 => plan.payload_base = align_up(StoresEnd(layout)[complete],
                                                layout.stores[1].block_size)
  BY <1>1, <1>2 DEF PlaceSound
<1>4. complete \in Nat /\ n \in Nat
  BY HereFacts
<1>5. plan'.stores[1].block_size = layout.stores[1].block_size
  <2>1. 1 \in 1 .. Len(plan.stores)
    <3>1. 1 \in 1 .. complete
      BY <1>3, <1>4
    <3> QED BY <3>1 DEF complete
  <2> QED BY <1>1, <1>3, <2>1
<1>6. plan'.payload_base = align_up(StoresEnd(layout)[complete], layout.stores[1].block_size)
  <2>1. CASE n = 0
    <3>1. next_base = align_up(cursor, plan.stores[1].block_size)
      <4>1. n + 1 = 1
        BY <2>1
      <4> QED BY <4>1 DEF next_base
    <3> QED BY <1>3, <2>1, <3>1
  <2>2. CASE n # 0
    <3>1. n >= 1
      BY <1>4, <2>2
    <3> QED BY <1>3, <2>2, <3>1
  <2> QED BY <2>1, <2>2
<1>7. n' # 0
  BY <1>1, <1>4, NotZero
<1>8. complete' # complete' + 1 /\ ~(complete' = 0 /\ begun' = 1)
  <2>1. complete # complete + 1 /\ complete # 0
    BY <1>3, <1>4
  <2> QED BY <1>2, <2>1
<1>9. /\ SecurityOK(layout') /\ ImageOK(layout')
      /\ begun' <= Len(layout'.stores)
      /\ \A k \in 1 .. complete' : StoreOK(layout'.stores[k])
      /\ desired_store_count' = Wanted(layout', begun')
      /\ \A k \in 1 .. complete' : Wanted(layout', k) <= k => k = complete' /\ ~Walking'
      /\ complete' >= 1 /\ Wanted(layout', complete') <= complete'
      /\ plan'.stores[1].block_size = layout'.stores[1].block_size
      /\ plan'.payload_base = align_up(StoresEnd(layout')[complete'],
                                       layout'.stores[1].block_size)
  BY <1>1, <1>2, <1>3, <1>5, <1>6
<1>10. at' # "security" /\ at' # "image" /\ at' # "validation" /\ at' # "store"
  BY <1>1
<1>11. begun' # complete' + 1
  BY <1>2, <1>8
<1> QED BY <1>2, <1>7, <1>8, <1>9, <1>10, <1>11 DEF PlaceSound

LEMMA FinishPlace ==
  ASSUME Typed, PlaceSound, Finish
  PROVE  PlaceSound'
<1>1. /\ at = "payload" /\ at' = "returned"
      /\ UNCHANGED <<layout, cursor, n, desired_store_count, store, plan>>
  BY DEF Finish
<1>2. /\ ~Walking /\ ~Walking' /\ begun = complete /\ begun' = complete'
      /\ complete' = complete
  BY <1>1 DEF Walking, begun, complete
<1>3. /\ SecurityOK(layout) /\ ImageOK(layout)
      /\ begun <= Len(layout.stores)
      /\ \A k \in 1 .. complete : StoreOK(layout.stores[k])
      /\ desired_store_count = Wanted(layout, begun)
      /\ \A k \in 1 .. complete : Wanted(layout, k) <= k => k = complete /\ ~Walking
      /\ complete >= 1 /\ Wanted(layout, complete) <= complete
      /\ plan.stores[1].block_size = layout.stores[1].block_size
      /\ n = 0 => cursor = StoresEnd(layout)[complete]
      /\ n >= 1 => plan.payload_base = align_up(StoresEnd(layout)[complete],
                                                layout.stores[1].block_size)
  BY <1>1, <1>2 DEF PlaceSound
<1>4. complete' # complete' + 1 /\ ~(complete' = 0 /\ begun' = 1)
  <2>1. complete \in Nat
    BY HereFacts
  <2>2. complete # complete + 1 /\ complete # 0
    BY <1>3, <2>1
  <2> QED BY <1>2, <2>2
<1>5. /\ SecurityOK(layout') /\ ImageOK(layout')
      /\ begun' <= Len(layout'.stores)
      /\ \A k \in 1 .. complete' : StoreOK(layout'.stores[k])
      /\ desired_store_count' = Wanted(layout', begun')
      /\ \A k \in 1 .. complete' : Wanted(layout', k) <= k => k = complete' /\ ~Walking'
      /\ complete' >= 1 /\ Wanted(layout', complete') <= complete'
      /\ plan'.stores[1].block_size = layout'.stores[1].block_size
      /\ n' = 0 => cursor' = StoresEnd(layout')[complete']
      /\ n' >= 1 => plan'.payload_base = align_up(StoresEnd(layout')[complete'],
                                                  layout'.stores[1].block_size)
  BY <1>1, <1>2, <1>3
<1>6. at' # "security" /\ at' # "image" /\ at' # "validation" /\ at' # "store"
  BY <1>1
<1>7. begun' # complete' + 1
  BY <1>2, <1>4
<1> QED BY <1>2, <1>4, <1>5, <1>6, <1>7 DEF PlaceSound

-------------------------------------------------------------------------------
(* What is acceptable is not refused, and nothing else is accepted. *)

\* The store that is next is one of the layout.
NextThere ==
  /\ complete + 1 \in 1 .. Len(layout.stores)
  /\ here = layout.stores[complete + 1]

\* Where the header of the next store starts, and where the store ends.
header_start == align_up(StoresEnd(layout)[complete], chunk_size(layout))
next_end == StoresEnd(layout)[complete + 1]

LEMMA NextEnd ==
  ASSUME Typed, NextThere
  PROVE  /\ header_start \in Nat /\ StoresEnd(layout)[complete] \in Nat
         /\ header_start >= StoresEnd(layout)[complete]
         /\ StoreHeader(here) \in Nat /\ Total(Tables(here)) \in Nat
         /\ next_end = header_start + StoreHeader(here) + Total(Tables(here))
         /\ StoreHeader(here) >= image_length
         /\ StoreHeader(here) >= IF here.v2 THEN StoreSizeV2 ELSE StoreSize
<1>1. /\ complete \in 0 .. Len(layout.stores) /\ (complete + 1) - 1 = complete
      /\ complete + 1 \in 1 .. Len(layout.stores)
  BY HereFacts DEF NextThere
<1>2. StoresEnd(layout)[complete] \in Nat
  BY <1>1, EndFacts
<1>3. header_start \in Nat /\ header_start >= StoresEnd(layout)[complete]
  BY <1>2, LayoutFacts, AlignFacts DEF header_start
<1>4. StoreHeader(here) \in Nat /\ Total(Tables(here)) \in Nat
  BY HereFacts, StoreFacts, TablesFacts
<1>5. next_end = header_start + StoreHeader(here) + Total(Tables(here))
  <2> DEFINE h == StoreHeader(here)
             c == Total(Tables(here))
  <2>1. next_end = header_start + (h + c)
    BY <1>1, EndFacts DEF next_end, header_start, StoreLength, NextThere
  <2>2. h \in Nat /\ c \in Nat
    BY <1>4
  <2> HIDE DEF h, c
  <2>3. header_start + (h + c) = header_start + h + c
    BY <1>3, <2>2
  <2> QED BY <2>1, <2>3 DEF h, c
<1>6. StoreHeader(here) >= IF here.v2 THEN StoreSizeV2 ELSE StoreSize
  <2>1. here.path \in Nat /\ StoreSize \in Nat /\ StoreSizeV2 \in Nat
    BY HereFacts, StoreFacts, SizesPositive
  <2> QED BY <2>1 DEF StoreHeader
<1>7. StoreHeader(here) >= image_length
  <2>1. /\ image_length \in Nat /\ StoreSize \in Nat /\ StoreSizeV2 \in Nat
        /\ image_length <= StoreSize /\ image_length <= StoreSizeV2
    BY SizesPositive, SizesAssumption DEF image_length
  <2> QED BY <1>4, <1>6, <2>1
<1> QED BY <1>2, <1>3, <1>4, <1>5, <1>6, <1>7

\* Ahead of the stores, everything ends before the first store does.
LEMMA AheadFits ==
  ASSUME Typed, PlaceSound, NextThere, at \in {"security", "image", "validation"}
  PROVE  /\ Start + Length <= next_end
         /\ at = "image" => image_end <= next_end
         /\ at = "validation" => validation_end <= next_end
<1> DEFINE h == StoreHeader(here)
           c == Total(Tables(here))
           a == header_start
           s == ImageStart(layout)
           e == ImageEnd(layout)
           t == Total(Validations(layout))
           i == image_length
           b == next_end
<1>1. complete = 0
  BY DEF PlaceSound
<1>2. /\ h \in Nat /\ c \in Nat /\ a \in Nat /\ b = a + h + c /\ h >= i
      /\ a >= StoresEnd(layout)[0]
  BY <1>1, NextEnd
<1>3. /\ s \in Nat /\ e \in Nat /\ e >= s /\ s >= SecuritySize /\ i \in Nat
      /\ e = s + ((i + layout.manifest) % Word)
  BY ImageFacts
<1>4. t \in Nat /\ StoresEnd(layout)[0] = e + t /\ SecuritySize \in Nat
  BY ValidationsFacts, EndFacts, SizesPositive
<1>5. /\ at = "security" => Start + Length = SecuritySize /\ SecuritySize + 0 = SecuritySize
      /\ at = "image" => Start + Length = s + i /\ image_end = e
  <2>1. at = "security" => Start = 0 /\ Length = SecuritySize
    BY DEF PlaceSound, Start, Length
  <2>2. at = "image" => Start = s /\ Length = i
    BY DEF PlaceSound, Start, Length, image_length
  <2>3. at = "image" => image_end = e
    <3> SUFFICES ASSUME at = "image" PROVE image_end = e
      OBVIOUS
    <3>1. cursor = s /\ Length = i
      BY <2>2 DEF PlaceSound
    <3> QED BY <1>3, <3>1 DEF image_end
  <2>4. 0 + SecuritySize = SecuritySize /\ SecuritySize + 0 = SecuritySize
    BY <1>4
  <2> QED BY <2>1, <2>2, <2>3, <2>4
<1>6. at = "validation" =>
        Start + Length <= validation_end /\ validation_end <= e + t
  <2> SUFFICES ASSUME at = "validation"
               PROVE  Start + Length <= validation_end /\ validation_end <= e + t
    OBVIOUS
  <2> DEFINE T == Validations(layout)
             m == Len(layout.validation)
             v == Sums(T)[n]
             w == Sums(T)[n + 1]
             d == layout.validation[n + 1]
  <2>1. /\ layout.image = "v2" /\ n < m /\ cursor = e + v /\ n \in Nat /\ m \in Nat
    BY HereFacts, LayoutFacts DEF PlaceSound
  <2>2. T \in Seq(Nat) /\ Len(T) = m /\ n + 1 \in 1 .. m /\ n + 1 \in 0 .. m /\ m \in n + 1 .. m
        /\ n \in 0 .. m /\ (n + 1) - 1 = n /\ n + 1 \in 1 .. Len(T)
    <3>1. T \in Seq(Nat) /\ Len(T) = m
      BY <2>1, ValidationsFacts
    <3> HIDE DEF T, m
    <3> QED BY <2>1, <3>1
  <2>3. w = v + T[n + 1] /\ v \in Nat /\ w \in Nat
    <3> HIDE DEF T, m
    <3> QED BY <2>2, SumsFacts
  <2>4. T[n + 1] = ValidationSize + d
    BY <2>1, <2>2, ValidationsFacts
  <2>5. d \in Nat /\ ValidationSize \in Nat
    BY <2>2, LayoutFacts, ElementOfSeq, SizesPositive
  <2>6. w <= t
    <3>1. t = Sums(T)[m]
      BY <2>2 DEF Total
    <3> HIDE DEF T, m
    <3> QED BY <2>2, <3>1, SumsGrow
  <2>7. Start = e + v /\ Length = ValidationSize
    BY <2>1 DEF Start, Length
  <2>8. validation_end = (e + v) + ValidationSize + d
    BY <2>1 DEF validation_end
  <2> HIDE DEF v, w, d, e, t
  <2>9. w = v + (ValidationSize + d)
    BY <2>3, <2>4
  <2> HIDE DEF T
  <2>10. (e + v) + ValidationSize + d = e + w
    BY <1>3, <2>3, <2>5, <2>9
  <2>11. (e + v) + ValidationSize <= (e + v) + ValidationSize + d
    BY <1>3, <2>3, <2>5
  <2>12. e + w <= e + t
    BY <1>3, <1>4, <2>3, <2>6
  <2> QED BY <2>7, <2>8, <2>10, <2>11, <2>12
<1> HIDE DEF h, c, a, s, e, t, i, b
<1>7. /\ SecuritySize <= b /\ s + i <= b /\ e <= b /\ e + t <= b
  BY <1>2, <1>3, <1>4
<1>8. CASE at = "security"
  BY <1>5, <1>7, <1>8 DEF b
<1>9. CASE at = "image"
  BY <1>5, <1>7, <1>9 DEF b
<1>10. CASE at = "validation"
  <2>1. Start + Length <= validation_end /\ validation_end <= e + t /\ e + t <= b
    BY <1>6, <1>7, <1>10
  <2>2. Start \in Nat /\ Length \in Nat /\ validation_end \in Nat
    <3>1. n + 1 \in 1 .. Len(layout.validation)
      <4>1. n < Len(layout.validation)
        BY <1>10 DEF PlaceSound
      <4> QED BY <4>1, HereFacts, LayoutFacts
    <3>2. layout.validation[n + 1] \in Nat
      BY <3>1, LayoutFacts, ElementOfSeq
    <3> QED BY <3>2, HereFacts, SizesPositive DEF validation_end
  <2> DEFINE x == Start + Length
             y == validation_end
             z == e + t
  <2>3. x \in Nat /\ y \in Nat /\ z \in Nat /\ b \in Nat /\ x <= y /\ y <= z /\ z <= b
    BY <1>2, <1>3, <1>4, <2>1, <2>2
  <2> HIDE DEF x, y, z
  <2>4. x <= b /\ y <= b
    BY <2>3
  <2> QED BY <1>10, <2>4 DEF x, y, b
<1> QED BY <1>8, <1>9, <1>10

\* Inside the next store, everything ends before it does.
LEMMA InsideFits ==
  ASSUME Typed, PlaceSound, NextThere, at \in {"store", "descriptor"},
         at = "descriptor" => n < Len(here.descriptors)
  PROVE  /\ Start + Length <= next_end
         /\ at = "store" => store_end <= next_end
         /\ at = "descriptor" => table_end <= next_end
<1> DEFINE h == StoreHeader(here)
           c == Total(Tables(here))
           a == header_start
           b == next_end
           size_of == IF here.v2 THEN StoreSizeV2 ELSE StoreSize
<1>1. /\ h \in Nat /\ c \in Nat /\ a \in Nat /\ b = a + h + c /\ h >= size_of
  BY NextEnd
<1>2. size_of \in Nat /\ here.path \in Nat
  BY HereFacts, StoreFacts, SizesPositive
<1>3. CASE at = "store"
  <2>1. Start = a /\ Length = size_of
    BY <1>3 DEF Start, Length, PlaceSound, header_start
  <2>2. store_end = a + h
    <3>1. CASE here.v2
      <4>1. store_end = a + StoreSizeV2 + here.path /\ h = StoreSizeV2 + here.path
        BY <2>1, <3>1 DEF store_end, StoreHeader
      <4> HIDE DEF h, a
      <4> QED BY <1>1, <1>2, <3>1, <4>1
    <3>2. CASE ~here.v2
      <4>1. store_end = a + StoreSize + 0 /\ h = StoreSize
        BY <2>1, <3>2 DEF store_end, StoreHeader
      <4> HIDE DEF h, a
      <4> QED BY <1>1, <1>2, <3>2, <4>1
    <3> QED BY <3>1, <3>2
  <2> HIDE DEF a, h, c, b, size_of
  <2>3. a + size_of <= b /\ a + h <= b
    BY <1>1, <1>2
  <2> QED BY <1>3, <2>1, <2>2, <2>3 DEF b
<1>4. CASE at = "descriptor"
  <2> DEFINE T == Tables(here)
             m == Len(here.descriptors)
             v == Sums(T)[n]
             w == Sums(T)[n + 1]
             t == desc.locations * LocationSize
  <2>1. T \in Seq(Nat) /\ Len(T) = m /\ n \in Nat /\ m \in Nat /\ n < m
    BY <1>4, HereFacts, StoreFacts, TablesFacts
  <2>2. cursor = a + h + v
    BY <1>4 DEF PlaceSound, begun, header_start
  <2>3. /\ n + 1 \in 1 .. m /\ n + 1 \in 0 .. m /\ m \in n + 1 .. m
        /\ n \in 0 .. m /\ (n + 1) - 1 = n
    <3> HIDE DEF T, m
    <3> QED BY <2>1
  <2>4. T[n + 1] = DescriptorSize + t
    BY <2>3, HereFacts, TablesFacts DEF desc
  <2>5. w = v + T[n + 1] /\ v \in Nat /\ w \in Nat
    <3> HIDE DEF T, m
    <3> QED BY <2>1, <2>3, SumsFacts
  <2>6. w <= c
    <3>1. c = Sums(T)[m]
      BY <2>1 DEF Total
    <3> HIDE DEF T, m
    <3> QED BY <2>1, <2>3, <3>1, SumsGrow
  <2>7. Start = cursor /\ Length = DescriptorSize
    BY <1>4 DEF Start, Length
  <2>8. table_end = cursor + DescriptorSize + t
    BY DEF table_end
  <2>9. t \in Nat /\ DescriptorSize \in Nat
    <3>1. desc.locations \in Nat
      BY <2>1, DescFacts
    <3> QED BY <3>1, SizesPositive, Products
  <2> HIDE DEF a, h, v, t, w, c, b, T
  <2>10. cursor + DescriptorSize + t = a + h + w
    BY <1>1, <2>2, <2>4, <2>5, <2>9
  <2>11. a + h + w <= b
    BY <1>1, <2>5, <2>6
  <2>12. cursor + DescriptorSize <= cursor + DescriptorSize + t
    BY <1>1, <2>2, <2>5, <2>9
  <2>13. cursor + DescriptorSize <= b
    <3>1. a + h + w \in Nat /\ b \in Nat /\ cursor \in Nat
      BY <1>1, <2>2, <2>5
    <3> QED BY <2>9, <2>10, <2>11, <2>12, <3>1
  <2> QED BY <1>4, <2>7, <2>8, <2>10, <2>11, <2>13 DEF b
<1> QED BY <1>3, <1>4

\* On the way through an acceptable header there is room for the next store.
LEMMA Room ==
  ASSUME Typed, PlaceSound, Walking, Acceptable
  PROVE  NextThere /\ StoreOK(here) /\ next_end <= size /\ next_end \in Nat /\ size \in Nat
<1> DEFINE m == Len(layout.stores)
<1>1. m \in Nat /\ complete \in Nat /\ DOMAIN layout.stores = 1 .. m
  BY LayoutFacts, HereFacts, LenProperties
<1>2. PICK k \in 1 .. m :
        /\ IsLast(layout, k)
        /\ \A j \in 1 .. k : StoreOK(layout.stores[j])
        /\ align_up(StoresEnd(layout)[k], layout.stores[1].block_size) <= size
  BY <1>1 DEF Acceptable
<1>3. ~(k <= complete)
  <2> SUFFICES ASSUME k <= complete PROVE FALSE
    OBVIOUS
  <2>1. k \in 1 .. complete
    BY <1>1
  <2>2. Wanted(layout, k) <= k
    BY <1>2 DEF IsLast
  <2> QED BY <2>1, <2>2 DEF PlaceSound
<1> DEFINE next == complete + 1
<1>4. next \in 1 .. m /\ next \in 1 .. k /\ k \in next .. m /\ next \in 0 .. m /\ 1 \in 1 .. m
      /\ k \in 0 .. m
  BY <1>1, <1>3
<1>5. NextThere
  <2>1. here = layout.stores[next]
    BY <1>4 DEF here, Header, complete
  <2> QED BY <1>4, <2>1 DEF NextThere
<1>6. StoreOK(here)
  BY <1>2, <1>4, <1>5 DEF NextThere
<1>7. size \in Nat
  <2>1. size \in 0 .. MaxSize /\ MaxSize \in Nat
    BY SizesPositive DEF Typed
  <2> QED BY <2>1
<1>8. next_end \in Nat /\ StoresEnd(layout)[k] \in Nat /\ next_end <= StoresEnd(layout)[k]
  BY <1>4, EndFacts, EndGrows DEF next_end
<1>9. StoresEnd(layout)[k] <= size
  <2> DEFINE e == StoresEnd(layout)[k]
             s == layout.stores[1].block_size
  <2>1. s \in Nat
    BY <1>4, EndFacts, StoreFacts
  <2>2. e \in Nat /\ align_up(e, s) <= size
    BY <1>2, <1>8
  <2> HIDE DEF e, s
  <2>3. align_up(e, s) \in Nat /\ align_up(e, s) >= e
    BY <2>1, <2>2, AlignFacts
  <2>4. e <= size
    BY <1>7, <2>2, <2>3
  <2> QED BY <2>4 DEF e
<1>10. next_end <= size
  BY <1>7, <1>8, <1>9
<1> QED BY <1>5, <1>6, <1>7, <1>8, <1>10

\* Nothing ends behind the bytes.
LEMMA Fits ==
  ASSUME Typed, PlaceSound, Walking, Acceptable,
         at \in {"security", "image", "validation", "store", "descriptor"},
         at = "descriptor" => n < Len(here.descriptors)
  PROVE  /\ ~(Start + Length > size)
         /\ at = "image" => ~(image_end > size)
         /\ at = "validation" => ~(validation_end > size)
         /\ at = "store" => ~(store_end > size)
         /\ at = "descriptor" => ~(table_end > size)
<1>1. NextThere /\ next_end <= size /\ next_end \in Nat /\ size \in Nat
  BY Room
<1>2. \A x : x \in Nat /\ x <= next_end => ~(x > size)
  BY <1>1
<1>3. Start + Length \in Nat
  <2>1. Start \in Nat /\ Length \in Nat
    BY HereFacts
  <2> QED BY <2>1
<1>4. at = "image" => image_end \in Nat
  <2>1. (Length + layout.manifest) % Word \in Nat
    <3>1. Length + layout.manifest \in Nat
      BY HereFacts, LayoutFacts
    <3> QED BY <3>1, Remainders
  <2> QED BY <2>1, HereFacts DEF image_end
<1>5. at = "validation" => validation_end \in Nat
  <2> SUFFICES ASSUME at = "validation" PROVE validation_end \in Nat
    OBVIOUS
  <2>1. n + 1 \in 1 .. Len(layout.validation)
    <3>1. n < Len(layout.validation)
      BY DEF PlaceSound
    <3> QED BY <3>1, HereFacts, LayoutFacts
  <2>2. layout.validation[n + 1] \in Nat
    BY <2>1, LayoutFacts, ElementOfSeq
  <2> QED BY <2>2, HereFacts, SizesPositive DEF validation_end
<1>6. at = "store" => store_end \in Nat
  BY HereFacts, StoreFacts DEF store_end
<1>7. at = "descriptor" => table_end \in Nat
  BY DescFacts
<1>8. CASE at \in {"security", "image", "validation"}
  <2>1. /\ Start + Length <= next_end
        /\ at = "image" => image_end <= next_end
        /\ at = "validation" => validation_end <= next_end
    BY <1>1, <1>8, AheadFits
  <2> QED BY <1>2, <1>3, <1>4, <1>5, <1>8, <2>1, Zenon
<1>9. CASE at \in {"store", "descriptor"}
  <2>1. /\ Start + Length <= next_end
        /\ at = "store" => store_end <= next_end
        /\ at = "descriptor" => table_end <= next_end
    BY <1>1, <1>9, InsideFits
  <2> QED BY <1>2, <1>3, <1>6, <1>7, <1>9, <2>1, Zenon
<1> QED BY <1>8, <1>9

\* Refused, and an acceptable header only for want of memory or by the file system.
Sorry ==
  /\ Refused
  /\ Acceptable => \/ status' = EFI_OUT_OF_RESOURCES
                   \/ ~memory /\ status' = EFI_DEVICE_ERROR

LEMMA SorryAccepts == Sorry => AcceptsExactly'
<1> SUFFICES ASSUME Sorry PROVE AcceptsExactly'
  OBVIOUS
<1>1. layout' = layout /\ size' = size /\ memory' = memory /\ status'.error
  BY RefusedFacts DEF Sorry
<1>2. Acceptable' = Acceptable
  BY <1>1, Zenon DEF Acceptable
<1>3. CASE Acceptable
  BY <1>1, <1>2, <1>3 DEF Sorry, AcceptsExactly
<1>4. CASE ~Acceptable
  BY <1>1, <1>2, <1>4 DEF AcceptsExactly
<1> QED BY <1>3, <1>4

\* A plan that is complete starts where an acceptable header has it start.
LEMMA FinishAccepts ==
  ASSUME Typed, TablesSound, PlaceSound, Finish
  PROVE  AcceptsExactly'
<1> DEFINE m == Len(layout.stores)
           c == complete
           e(k) == align_up(StoresEnd(layout)[k], layout.stores[1].block_size)
<1>1. /\ at = "payload" /\ n = c /\ at' = "returned"
      /\ layout' = layout /\ size' = size /\ memory' = memory
      /\ status' = IF ~TooShort THEN EFI_SUCCESS
                   ELSE IF memory THEN EFI_END_OF_FILE ELSE EFI_VOLUME_CORRUPTED
  BY DEF Finish, complete
<1>2. Acceptable' = Acceptable
  BY <1>1, Zenon DEF Acceptable
<1>3. ~Walking /\ begun = c
  BY <1>1 DEF Walking, begun
<1>4. /\ SecurityOK(layout) /\ ImageOK(layout)
      /\ c <= m /\ c >= 1 /\ Wanted(layout, c) <= c
      /\ \A k \in 1 .. c : StoreOK(layout.stores[k])
      /\ \A k \in 1 .. c : Wanted(layout, k) <= k => k = c
      /\ n >= 1 => plan.payload_base = e(c)
  BY <1>1, <1>3 DEF PlaceSound
<1>5. m \in Nat /\ c \in Nat /\ DOMAIN layout.stores = 1 .. m
  BY LayoutFacts, HereFacts, LenProperties
<1>6. c \in 1 .. m /\ plan.payload_base = e(c)
  BY <1>1, <1>4, <1>5
<1>7. plan.payload_base \in Nat /\ size \in Nat
  <2>1. size \in 0 .. MaxSize /\ MaxSize \in Nat
    BY SizesPositive DEF Typed
  <2> QED BY <2>1, PlanFacts
<1>8. TooShort <=> ~(e(c) <= size)
  BY <1>6, <1>7 DEF TooShort
<1>9. Acceptable <=> e(c) <= size
  <2> HIDE DEF c, m
  <2>1. ASSUME e(c) <= size PROVE Acceptable
    <3>1. \A j \in 1 .. c - 1 : Wanted(layout, j) > j
      <4> TAKE j \in 1 .. c - 1
      <4>1. j \in 1 .. c /\ j # c /\ j \in 0 .. m /\ j \in Nat
        BY <1>4, <1>5
      <4>2. ~(Wanted(layout, j) <= j)
        BY <1>4, <4>1
      <4>3. Wanted(layout, j) \in Nat
        BY <4>1, WantedNat DEF m
      <4> QED BY <4>1, <4>2, <4>3
    <3>2. IsLast(layout, c)
      BY <1>4, <3>1 DEF IsLast
    <3> QED BY <1>4, <1>5, <1>6, <2>1, <3>2 DEF Acceptable
  <2>2. ASSUME Acceptable PROVE e(c) <= size
    <3>1. PICK k \in 1 .. m : IsLast(layout, k) /\ e(k) <= size
      BY <1>5, <2>2 DEF Acceptable
    <3>2. k = c
      <4>1. CASE k <= c
        <5>1. k \in 1 .. c /\ Wanted(layout, k) <= k
          BY <1>5, <3>1, <4>1 DEF IsLast
        <5> QED BY <1>4, <5>1
      <4>2. CASE ~(k <= c)
        <5>1. c \in 1 .. k - 1 /\ c \in 0 .. m
          BY <1>4, <1>5, <4>2
        <5>2. Wanted(layout, c) > c
          BY <3>1, <5>1 DEF IsLast
        <5>3. Wanted(layout, c) \in Nat
          BY <5>1, WantedNat DEF m
        <5> QED BY <1>4, <1>5, <5>2, <5>3
      <4> QED BY <4>1, <4>2
    <3> QED BY <3>1, <3>2
  <2> QED BY <2>1, <2>2
<1>10. /\ EFI_END_OF_FILE.error /\ EFI_VOLUME_CORRUPTED.error
  BY RefusalFacts DEF Refusals
<1> HIDE DEF e
<1>11. CASE TooShort
  <2>1. ~Acceptable /\ status'.error
    <3>1. ~Acceptable
      BY <1>8, <1>9, <1>11
    <3>2. status' = EFI_END_OF_FILE \/ status' = EFI_VOLUME_CORRUPTED
      BY <1>1, <1>11
    <3> QED BY <1>10, <3>1, <3>2
  <2> QED BY <1>2, <2>1 DEF AcceptsExactly
<1>12. CASE ~TooShort
  <2>1. Acceptable /\ status' = EFI_SUCCESS
    BY <1>1, <1>8, <1>9, <1>12
  <2> QED BY <1>2, <2>1 DEF AcceptsExactly
<1> QED BY <1>11, <1>12

\* Those on the way do not return.
LEMMA OnTheWay == at' # "returned" => AcceptsExactly'
BY DEF AcceptsExactly

-------------------------------------------------------------------------------
(* The steps. *)

LEMMA Underway ==
  ASSUME IInv, at # "returned"
  PROVE  Typed /\ TablesSound /\ OrderSound /\ PlaceSound
BY DEF IInv, Unrefused

LEMMA SorryKeeps ==
  ASSUME Typed, Sorry
  PROVE  IInv'
<1>1. Typed' /\ ~Unrefused'
  BY RefusedTyped DEF Sorry
<1>2. AcceptsExactly'
  BY SorryAccepts
<1> QED BY <1>1, <1>2 DEF IInv

LEMMA OnTheWayKeeps ==
  ASSUME Typed', TablesSound', OrderSound', PlaceSound', at' # "returned"
  PROVE  IInv'
BY OnTheWay DEF IInv

LEMMA FailKeeps ==
  ASSUME IInv, ReadFails
  PROVE  IInv'
<1>1. FailCase
  BY ReadFailsCases
<1>2. at \in {"security", "image", "validation", "store", "descriptor"} /\ at # "returned"
  BY <1>1 DEF FailCase
<1>3. Typed /\ OrderSound /\ PlaceSound
  BY <1>2, Underway
<1>4. Walking
  BY <1>2 DEF Walking
<1>5. CASE Start + Length > size /\ Refused
  <2>1. at = "descriptor" => n < Len(here.descriptors)
    BY <1>3 DEF OrderSound
  <2>2. ~Acceptable
    BY <1>2, <1>3, <1>4, <1>5, <2>1, Fits
  <2> QED BY <1>3, <1>5, <2>2, SorryKeeps DEF Sorry
<1>6. CASE ~memory /\ Refuse(EFI_DEVICE_ERROR) /\ Refused
  <2>1. status' = EFI_DEVICE_ERROR
    BY <1>6 DEF Refuse
  <2> QED BY <1>3, <1>6, <2>1, SorryKeeps DEF Sorry
<1> QED BY <1>1, <1>5, <1>6 DEF FailCase

LEMMA SecurityKeeps ==
  ASSUME IInv, ReadSecurity
  PROVE  IInv'
<1>1. at = "security"
  BY ReadSecurityCases
<1>2. Typed /\ TablesSound /\ OrderSound /\ PlaceSound
  BY <1>1, Underway
<1>3. CASE ~SecurityOK(layout) /\ Refused
  <2>1. ~Acceptable
    BY <1>3 DEF Acceptable
  <2> QED BY <1>2, <1>3, <2>1, SorryKeeps DEF Sorry
<1>4. CASE SecurityOK(layout) /\ SecurityRead
  <2>1. at' = "image" /\ plan' = plan
    BY <1>4 DEF SecurityRead
  <2>2. Typed'
    BY <1>2, <1>4, SecurityTyped
  <2>3. cursor = 0 /\ cursor' \in Nat
    BY <1>1, <1>2, <2>2 DEF PlaceSound, Typed
  <2>4. cursor' >= cursor
    BY <2>3
  <2>5. TablesSound'
    BY <1>1, <1>2, <2>1, <2>3, <2>4, TablesKept DEF Walking
  <2>6. OrderSound'
    BY <1>1, <1>2, <2>1, OrderKept
  <2>7. PlaceSound'
    BY <1>1, <1>2, <1>4, SecurityPlace
  <2> QED BY <2>1, <2>2, <2>5, <2>6, <2>7, OnTheWayKeeps
<1> QED BY <1>3, <1>4, ReadSecurityCases

LEMMA ImageKeeps ==
  ASSUME IInv, ReadImage
  PROVE  IInv'
<1>1. at = "image"
  BY ReadImageCases
<1>2. Typed /\ TablesSound /\ OrderSound /\ PlaceSound
  BY <1>1, Underway
<1>3. CASE ~ImageOK(layout) /\ Refused
  <2>1. ~Acceptable
    BY <1>3 DEF Acceptable
  <2> QED BY <1>2, <1>3, <2>1, SorryKeeps DEF Sorry
<1>4. CASE image_end > size /\ Refused
  <2>1. ~Acceptable
    BY <1>1, <1>2, <1>4, Fits DEF Walking
  <2> QED BY <1>2, <1>4, <2>1, SorryKeeps DEF Sorry
<1>5. CASE ImageOK(layout) /\ ImageRead
  <2>1. at' \in {"validation", "store"} /\ plan' = plan
    BY <1>5 DEF ImageRead
  <2>2. Typed' /\ cursor' >= cursor
    BY <1>2, <1>5, ImageTyped
  <2>3. cursor' \in Nat
    BY <2>2 DEF Typed
  <2>4. TablesSound'
    BY <1>1, <1>2, <2>1, <2>2, <2>3, TablesKept DEF Walking
  <2>5. OrderSound'
    BY <1>1, <1>2, <2>1, OrderKept
  <2>6. PlaceSound'
    BY <1>1, <1>2, <1>5, ImagePlace
  <2> QED BY <2>1, <2>2, <2>4, <2>5, <2>6, OnTheWayKeeps
<1> QED BY <1>3, <1>4, <1>5, ReadImageCases

LEMMA ValidationKeeps ==
  ASSUME IInv, SkipValidation
  PROVE  IInv'
<1>1. at = "validation"
  BY SkipValidationCases
<1>2. Typed /\ TablesSound /\ OrderSound /\ PlaceSound
  BY <1>1, Underway
<1>3. CASE validation_end > size /\ Refused
  <2>1. ~Acceptable
    BY <1>1, <1>2, <1>3, Fits DEF Walking
  <2> QED BY <1>2, <1>3, <2>1, SorryKeeps DEF Sorry
<1>4. CASE ValidationRead
  <2>1. at' \in {"validation", "store"} /\ plan' = plan
    BY <1>1, <1>4 DEF ValidationRead
  <2>2. n < Len(layout.validation)
    BY <1>1, <1>2 DEF PlaceSound
  <2>3. Typed' /\ cursor' >= cursor
    BY <1>2, <1>4, <2>2, ValidationTyped
  <2>4. cursor' \in Nat
    BY <2>3 DEF Typed
  <2>5. TablesSound'
    BY <1>1, <1>2, <2>1, <2>3, <2>4, TablesKept DEF Walking
  <2>6. OrderSound'
    BY <1>1, <1>2, <2>1, OrderKept
  <2>7. PlaceSound'
    BY <1>1, <1>2, <1>4, ValidationPlace
  <2> QED BY <2>1, <2>3, <2>5, <2>6, <2>7, OnTheWayKeeps
<1> QED BY <1>3, <1>4, SkipValidationCases

LEMMA StoreKeeps ==
  ASSUME IInv, ReadStore
  PROVE  IInv'
<1>1. at = "store"
  BY DEF ReadStore, Reads
<1>2. Typed /\ TablesSound /\ OrderSound /\ PlaceSound
  BY <1>1, Underway
<1>3. here.block_size \in Nat /\ MaxBlock \in Nat
  BY <1>2, HereFacts, StoreFacts, SizesPositive
<1>4. CASE ~HeaderOK(here) /\ Refused
  <2>1. ~Acceptable
    <3> SUFFICES ASSUME Acceptable PROVE FALSE
      OBVIOUS
    <3>1. StoreOK(here)
      BY <1>1, <1>2, Room DEF Walking
    <3> QED BY <1>4, <3>1 DEF StoreOK, HeaderOK
  <2> QED BY <1>2, <1>4, <2>1, SorryKeeps DEF Sorry
<1>5. CASE store_end > size /\ Refused
  <2>1. ~Acceptable
    BY <1>1, <1>2, <1>5, Fits DEF Walking
  <2> QED BY <1>2, <1>5, <2>1, SorryKeeps DEF Sorry
<1>6. CASE HeaderOK(here) /\ StoreRead
  <2>1. at' = "descriptor" /\ plan' = plan
    BY <1>6 DEF StoreRead
  <2>2. Typed' /\ cursor' >= cursor
    BY <1>2, <1>6, StoreTyped
  <2>3. cursor' \in Nat
    BY <2>2 DEF Typed
  <2>4. TablesSound'
    BY <1>1, <1>2, <2>1, <2>2, <2>3, TablesKept DEF Walking
  <2>5. OrderSound'
    BY <1>1, <1>2, <1>6, StoreOrder
  <2>6. PlaceSound'
    BY <1>1, <1>2, <1>6, StorePlace
  <2> QED BY <2>1, <2>2, <2>4, <2>5, <2>6, OnTheWayKeeps
<1> QED BY <1>3, <1>4, <1>5, <1>6, ReadStoreCases

LEMMA DescriptorKeeps ==
  ASSUME IInv, ReadDescriptor
  PROVE  IInv'
<1>1. at = "descriptor" /\ n < Len(here.descriptors)
  BY DEF ReadDescriptor, Reads
<1>2. Typed /\ TablesSound /\ OrderSound /\ PlaceSound
  BY <1>1, Underway
<1>3. byte_count \in Nat /\ Word \in Nat
  BY <1>1, <1>2, DescFacts, SizesPositive
<1>4. here.block_size # 0
  <2>1. begun = complete + 1
    BY <1>1 DEF begun
  <2>2. HeaderOK(here)
    BY <1>2, <2>1 DEF PlaceSound
  <2> QED BY <1>2, <2>2, HeaderStoreFacts
<1>5. CASE ~DescriptorOK(here, desc) /\ Refused
  <2>1. ~Acceptable
    <3> SUFFICES ASSUME Acceptable PROVE FALSE
      OBVIOUS
    <3>1. StoreOK(here)
      BY <1>1, <1>2, Room DEF Walking
    <3>2. n + 1 \in DOMAIN here.descriptors
      BY <1>1, <1>2, HereFacts, StoreFacts
    <3> QED BY <1>5, <3>1, <3>2 DEF StoreOK, desc
  <2> QED BY <1>2, <1>5, <2>1, SorryKeeps DEF Sorry
<1>6. CASE table_end > size /\ Refused
  <2>1. ~Acceptable
    BY <1>1, <1>2, <1>6, Fits DEF Walking
  <2> QED BY <1>2, <1>6, <2>1, SorryKeeps DEF Sorry
<1>7. CASE Refuse(EFI_OUT_OF_RESOURCES) /\ Refused
  <2>1. status' = EFI_OUT_OF_RESOURCES
    BY <1>7 DEF Refuse
  <2> QED BY <1>2, <1>7, <2>1, SorryKeeps DEF Sorry
<1>8. CASE DescriptorOK(here, desc) /\ DescriptorRead
  <2>1. at' \in {"descriptor", "store_end"}
    BY <1>8 DEF DescriptorRead
  <2>2. Typed'
    BY <1>1, <1>2, <1>4, <1>8, DescriptorTyped
  <2>3. TablesSound'
    BY <1>1, <1>2, <1>4, <1>8, DescriptorTables
  <2>4. OrderSound'
    BY <1>1, <1>2, <1>4, <1>8, DescriptorOrder
  <2>5. PlaceSound'
    BY <1>1, <1>2, <1>4, <1>8, DescriptorPlace
  <2> QED BY <2>1, <2>2, <2>3, <2>4, <2>5, OnTheWayKeeps
<1> QED BY <1>3, <1>5, <1>6, <1>7, <1>8, ReadDescriptorCases

LEMMA EndStoreKeeps ==
  ASSUME IInv, EndStore
  PROVE  IInv'
<1>1. at = "store_end"
  BY EndStoreCases
<1>2. Typed /\ TablesSound /\ OrderSound /\ PlaceSound
  BY <1>1, Underway
<1>3. CASE Refuse(EFI_OUT_OF_RESOURCES) /\ Refused
  <2>1. status' = EFI_OUT_OF_RESOURCES
    BY <1>3 DEF Refuse
  <2> QED BY <1>2, <1>3, <2>1, SorryKeeps DEF Sorry
<1>4. CASE StoreComplete
  <2>1. at' # "returned"
    BY <1>4 DEF StoreComplete
  <2>2. Typed'
    BY <1>2, <1>4, CompleteTyped
  <2>3. OrderSound' /\ plan.entries # <<>>
    BY <1>1, <1>2, <1>4, CompleteOrder
  <2>4. TablesSound'
    BY <1>1, <1>2, <1>4, <2>3, CompleteTables
  <2>5. AllRead
    BY <1>1, <1>2 DEF OrderSound, AllRead
  <2>6. PlaceSound'
    BY <1>1, <1>2, <1>4, <2>5, CompletePlace
  <2> QED BY <2>1, <2>2, <2>3, <2>4, <2>6, OnTheWayKeeps
<1> QED BY <1>3, <1>4, EndStoreCases

LEMMA PlacedKeeps ==
  ASSUME IInv, PlaceStore
  PROVE  IInv'
<1>1. at = "payload"
  BY DEF PlaceStore
<1>2. Typed /\ TablesSound /\ OrderSound /\ PlaceSound
  BY <1>1, Underway
<1>3. at' = at
  BY <1>2, StorePlaced
<1>4. Typed'
  BY <1>2, PlacedTyped
<1>5. /\ TablesSound'
      /\ IF n = 0 THEN plan'.payload_base = next_base
                  ELSE plan'.payload_base = plan.payload_base
  BY <1>2, PlacedTables
<1>6. OrderSound'
  BY <1>2, <1>5, PlacedOrder
<1>7. PlaceSound'
  BY <1>2, <1>5, PlacedPlace
<1> QED BY <1>1, <1>3, <1>4, <1>5, <1>6, <1>7, OnTheWayKeeps

LEMMA FinishKeeps ==
  ASSUME IInv, Finish
  PROVE  IInv'
<1>1. at = "payload"
  BY DEF Finish
<1>2. Typed /\ TablesSound /\ OrderSound /\ PlaceSound
  BY <1>1, Underway
<1>3. Typed'
  BY <1>2, FinishTyped
<1>4. Unrefused' => TablesSound'
  BY <1>2, FinishTables
<1>5. OrderSound' /\ PlaceSound'
  BY <1>2, FinishOrder, FinishPlace
<1>6. AcceptsExactly'
  BY <1>2, FinishAccepts
<1> QED BY <1>3, <1>4, <1>5, <1>6 DEF IInv

LEMMA Start_IInv == Init => IInv
<1> SUFFICES ASSUME Init PROVE IInv
  OBVIOUS
<1>1. AcceptsExactly
  BY DEF Init, AcceptsExactly
<1> QED BY <1>1, InitTyped, InitTables, InitOrder, InitPlace DEF IInv

LEMMA Step_IInv == IInv /\ [Next]_vars => IInv'
<1> SUFFICES ASSUME IInv, [Next]_vars PROVE IInv'
  OBVIOUS
<1>1. CASE ReadFails
  BY <1>1, FailKeeps
<1>2. CASE ReadSecurity
  BY <1>2, SecurityKeeps
<1>3. CASE ReadImage
  BY <1>3, ImageKeeps
<1>4. CASE SkipValidation
  BY <1>4, ValidationKeeps
<1>5. CASE ReadStore
  BY <1>5, StoreKeeps
<1>6. CASE ReadDescriptor
  BY <1>6, DescriptorKeeps
<1>7. CASE EndStore
  BY <1>7, EndStoreKeeps
<1>8. CASE PlaceStore
  BY <1>8, PlacedKeeps
<1>9. CASE Finish
  BY <1>9, FinishKeeps
<1>10. CASE UNCHANGED vars
  <2>1. /\ layout' = layout /\ size' = size /\ memory' = memory /\ at' = at
        /\ cursor' = cursor /\ n' = n /\ desired_store_count' = desired_store_count
        /\ rel_payload' = rel_payload /\ store' = store /\ plan' = plan /\ status' = status
    BY <1>10 DEF vars
  <2>2. Typed' = Typed /\ Unrefused' = Unrefused /\ Walking' = Walking
    BY <2>1, Zenon DEF Typed, Unrefused, Walking
  <2>3. TablesSound' = TablesSound
    BY <2>1, Zenon DEF TablesSound, Walking
  <2>4. here' = here /\ complete' = complete /\ begun' = begun /\ placed' = placed
    BY <2>1, Zenon DEF here, complete, begun, placed, Walking
  <2>5. OrderSound' = OrderSound
    BY <2>1, <2>2, <2>4, Zenon DEF OrderSound
  <2>6. PlaceSound' = PlaceSound
    BY <2>1, <2>2, <2>4, Zenon DEF PlaceSound
  <2>7. AcceptsExactly' = AcceptsExactly
    BY <2>1, Zenon DEF AcceptsExactly, Acceptable
  <2>8. Typed /\ (Unrefused => TablesSound /\ OrderSound /\ PlaceSound) /\ AcceptsExactly
    BY DEF IInv
  <2>9. Typed' /\ AcceptsExactly'
    BY <2>2, <2>7, <2>8, Zenon
  <2>10. Unrefused' => TablesSound' /\ OrderSound' /\ PlaceSound'
    BY <2>2, <2>3, <2>5, <2>6, <2>8, Zenon
  <2> QED BY <2>9, <2>10 DEF IInv
<1> QED BY <1>1, <1>2, <1>3, <1>4, <1>5, <1>6, <1>7, <1>8, <1>9, <1>10 DEF Next

LEMMA Always_IInv == Spec => []IInv
BY Start_IInv, Step_IInv, PTL DEF Spec

-------------------------------------------------------------------------------
(* The theorems. *)

\* Every variable keeps its type whatever the bytes say, entries hold at least a
\* byte and less than a word (ffu.c:541-556).
THEOREM TypesKept == Spec => []TypeOK
<1>1. IInv => TypeOK
  <2> SUFFICES ASSUME Typed PROVE TypeOK
    BY DEF IInv
  <2>1. DOMAIN store = DOMAIN NoStore
    BY DEF Typed, StoreRecord, NoStore
  <2> QED BY <2>1 DEF Typed, TypeOK
<1> QED BY <1>1, Always_IInv, PTL

\* Both readers take exactly the headers whose structures are sound and whose
\* payload starts no later than the bytes end; the rest they refuse, and these only
\* for want of memory or because the file system fails (ffu.c:193-384, 386-591).
THEOREM AcceptedAreAcceptable == Spec => []AcceptsExactly
<1>1. IInv => AcceptsExactly
  BY DEF IInv
<1> QED BY <1>1, Always_IInv, PTL

\* The tables of locations of an accepted header lie within it, ahead of the payload,
\* and do not overlap: flashing reads each of them again (ffu.c:526-558, 757-779).
THEOREM TablesLieAhead == Spec => []LocationsInHeader
<1>1. IInv => LocationsInHeader
  BY TablesFollow DEF IInv
<1> QED BY <1>1, Always_IInv, PTL

\* The entries of an accepted header are one stream cut into pieces: without a gap
\* inside a store, and from store to store no more than alignment asks for, when
\* the header tells the size of what its stores hold (ffu.c:557, 571-585).
THEOREM PayloadIsOneStream == Spec => []EntriesInOrder
<1>1. IInv => EntriesInOrder
  BY OrderFollows DEF IInv
<1> QED BY <1>1, Always_IInv, PTL

===============================================================================
