----------------------------- MODULE EfiMainProofs -----------------------------
(***************************************************************************)
(* Theorems about EfiMain and about FileFlash, which it calls.             *)
(*                                                                         *)
(* FileFlash, for every plan, buffer, target and set of errors: IInv says  *)
(* where in the plan the loops are (Place), that every location passed on  *)
(* the way has been checked (VisitedFit), what the target holds of the     *)
(* location in hand (PartHeld) and of those behind it (VisitedHeld), and   *)
(* what a return tells (Outcome).                                          *)
(*                                                                         *)
(* Options, for every command line: OptionsIInv says that the options so   *)
(* far are what the tokens read so far mean (OptsSoFar), and that these    *)
(* are well formed but for a number to come (LineSoFar).                   *)
(*                                                                         *)
(* EfiMain: what holds of a call of FileFlash holds of the app that makes  *)
(* it (CallSound); the disk it is made with and what it is made for are    *)
(* those of the options (DiskIInv); what is open or allocated goes by the  *)
(* place (HeldByPlace).                                                    *)
(***************************************************************************)
EXTENDS EfiMain, SequenceTheorems, WellFoundedInduction, TLAPS

-------------------------------------------------------------------------------
(* Induction over the natural numbers, for sets instead of predicates. *)

\* The order of the natural numbers, as a relation.
Before == {p \in Nat \X Nat : p[1] < p[2]}

\* A set of natural numbers that is not empty has a least element.
LEMMA LeastElement ==
  ASSUME NEW T, T \subseteq Nat, T # {}
  PROVE  \E x \in T : \A y \in T : x <= y
<1>1. IsWellFoundedOn(Before, Nat)
  <2>1. OpToRel(<, Nat) = Before
    BY DEF OpToRel, Before
  <2> QED BY <2>1, NatLessThanWellFounded
<1>2. PICK x \in T : \A y \in T : ~(<<y, x>> \in Before)
  BY <1>1, WFMin
<1>3. ASSUME NEW y \in T PROVE x <= y
  <2>1. x \in Nat /\ y \in Nat
    OBVIOUS
  <2>2. <<y, x>> \in Nat \X Nat /\ <<y, x>>[1] = y /\ <<y, x>>[2] = x
    BY <2>1
  <2>3. ~(<<y, x>>[1] < <<y, x>>[2])
    BY <1>2, <2>2 DEF Before
  <2> QED BY <2>1, <2>2, <2>3
<1> QED BY <1>3

\* A set that has 0, and n + 1 with every n, has every natural number.
LEMMA SetInduction ==
  ASSUME NEW G, 0 \in G, \A n \in Nat : n \in G => n + 1 \in G
  PROVE  Nat \subseteq G
<1> DEFINE T == Nat \ G
<1>1. SUFFICES ASSUME T # {} PROVE FALSE
  OBVIOUS
<1>2. PICK x \in T : \A y \in T : x <= y
  BY <1>1, LeastElement
<1>3. x - 1 \in Nat /\ x - 1 \in G
  BY <1>2
<1> QED BY <1>2, <1>3

-------------------------------------------------------------------------------
(* The plan. *)

\* What is asked of a plan by those who call the function.
GoodPlan == plan \in Plans

\* Every entry is a write entry, and the next one starts where it ends.
LEMMA EntryFacts ==
  ASSUME GoodPlan, NEW j \in 0 .. EntryCount - 1
  PROVE  /\ plan[j + 1].byte_count \in Nat \ {0}
         /\ plan[j + 1].block_size \in Nat \ {0}
         /\ plan[j + 1].locations \in Seq(Location)
         /\ Len(plan[j + 1].locations) \in Nat \ {0}
         /\ First(j) \in Nat
         /\ First(j) = plan[j + 1].first
         /\ First(j + 1) = First(j) + plan[j + 1].byte_count
<1>1. /\ plan \in Seq(WriteEntry) \ {<<>>}
      /\ \A k \in 1 .. Len(plan) - 1 : plan[k + 1].first = plan[k].first + plan[k].byte_count
  BY FileAssumption DEF GoodPlan
<1>2. Len(plan) \in Nat \ {0} /\ plan[j + 1] \in WriteEntry
  BY <1>1, EmptySeq, ElementOfSeq DEF EntryCount
<1>3. /\ plan[j + 1].byte_count \in Nat \ {0}
      /\ plan[j + 1].block_size \in Nat \ {0}
      /\ plan[j + 1].first \in Nat
      /\ plan[j + 1].locations \in Seq(Location) \ {<<>>}
  BY <1>2 DEF WriteEntry
<1>4. Len(plan[j + 1].locations) \in Nat \ {0}
  BY <1>3, EmptySeq
<1>5. First(j) = plan[j + 1].first
  BY <1>2 DEF First, EntryCount
<1>6. First(j + 1) = First(j) + plan[j + 1].byte_count
  <2>1. CASE j + 1 < EntryCount
    BY <2>1, <1>1, <1>2, <1>5 DEF First, EntryCount
  <2>2. CASE j + 1 = EntryCount
    BY <2>2, <1>2, <1>5 DEF First, EntryCount
  <2> QED BY <2>1, <2>2, <1>2 DEF EntryCount
<1> QED BY <1>3, <1>4, <1>5, <1>6

LEMMA PlanFacts ==
  ASSUME GoodPlan
  PROVE  /\ EntryCount \in Nat \ {0}
         /\ First(0) = 0
         /\ First(EntryCount) = Len(Payload)
         /\ First(EntryCount + 1) = First(EntryCount)
         /\ Len(Payload) \in Nat
<1>1. /\ plan \in Seq(WriteEntry) \ {<<>>}
      /\ plan[1].first = 0
      /\ Len(Payload) = plan[Len(plan)].first + plan[Len(plan)].byte_count
      /\ Payload \in Seq(Data)
  BY FileAssumption DEF GoodPlan
<1>2. EntryCount \in Nat \ {0} /\ Len(plan) = EntryCount
  BY <1>1, EmptySeq DEF EntryCount
<1>3. First(0) = 0
  BY <1>1, <1>2 DEF First
<1>4. First(EntryCount) = Len(Payload) /\ First(EntryCount + 1) = First(EntryCount)
  BY <1>1, <1>2 DEF First
<1> QED BY <1>1, <1>2, <1>3, <1>4, LenProperties

\* No entry starts, or ends, beyond the end of the payload.
LEMMA FirstBounded ==
  ASSUME GoodPlan, NEW j \in 0 .. EntryCount
  PROVE  First(j) \in Nat /\ First(j) <= Len(Payload)
<1> DEFINE fine(n) == First(EntryCount - n) \in Nat /\ First(EntryCount - n) <= Len(Payload)
           G == {n \in Nat : n <= EntryCount => fine(n)}
<1>1. 0 \in G
  BY PlanFacts
<1>2. ASSUME NEW n \in Nat, n \in G PROVE n + 1 \in G
  <2>1. SUFFICES ASSUME n + 1 <= EntryCount PROVE fine(n + 1)
    OBVIOUS
  <2>2. EntryCount \in Nat /\ Len(Payload) \in Nat
    BY PlanFacts
  <2>3. EntryCount - (n + 1) \in 0 .. EntryCount - 1
    BY <2>1, <2>2
  <2>4. fine(n)
    BY <1>2, <2>1, <2>2
  <2>5. /\ First(EntryCount - (n + 1)) \in Nat
        /\ plan[EntryCount - (n + 1) + 1].byte_count \in Nat
        /\ First(EntryCount - (n + 1) + 1)
             = First(EntryCount - (n + 1)) + plan[EntryCount - (n + 1) + 1].byte_count
    BY <2>3, EntryFacts
  <2>6. EntryCount - (n + 1) + 1 = EntryCount - n
    BY <2>2
  <2> QED BY <2>2, <2>4, <2>5, <2>6
<1>3. Nat \subseteq G
  <2> HIDE DEF G
  <2> QED BY <1>1, <1>2, SetInduction
<1>4. EntryCount \in Nat
  BY PlanFacts
<1>5. EntryCount - j \in Nat /\ EntryCount - j <= EntryCount /\ EntryCount - (EntryCount - j) = j
  BY <1>4
<1>6. fine(EntryCount - j)
  BY <1>3, <1>5
<1> QED BY <1>5, <1>6

\* The address of a location is a number.
LEMMA TargetFacts ==
  ASSUME GoodPlan,
         NEW j \in 0 .. EntryCount - 1, NEW k \in 0 .. Len(plan[j + 1].locations) - 1
  PROVE  TargetByte(j, k) \in Nat
<1>1. plan[j + 1].locations \in Seq(Location) /\ plan[j + 1].block_size \in Nat
  BY EntryFacts
<1>2. plan[j + 1].locations[k + 1] \in Location
  BY <1>1, ElementOfSeq, LenProperties
<1>3. plan[j + 1].locations[k + 1].block \in Nat
  BY <1>2 DEF Location
<1>4. \A m, n \in Nat : m * n \in Nat
  OBVIOUS
<1> QED BY <1>1, <1>3, <1>4 DEF TargetByte

\* A slot is an entry and one of its locations.
LEMMA SlotFacts ==
  ASSUME GoodPlan, NEW s \in Slots
  PROVE  /\ s[1] \in 0 .. EntryCount - 1
         /\ s[2] \in 0 .. Len(plan[s[1] + 1].locations) - 1
         /\ s = <<s[1], s[2]>>
         /\ TargetByte(s[1], s[2]) \in Nat
         /\ First(s[1]) \in Nat
         /\ First(s[1]) + plan[s[1] + 1].byte_count <= Len(Payload)
         /\ plan[s[1] + 1].byte_count \in Nat \ {0}
<1>1. PICK j \in 0 .. EntryCount - 1 :
        s \in {j} \X (0 .. Len(plan[j + 1].locations) - 1)
  BY DEF Slots
<1>2. /\ s[1] \in 0 .. EntryCount - 1
      /\ s[2] \in 0 .. Len(plan[s[1] + 1].locations) - 1
      /\ s = <<s[1], s[2]>>
  BY <1>1
<1>3. s[1] + 1 \in 0 .. EntryCount
  BY <1>2, PlanFacts
<1>4. First(s[1] + 1) <= Len(Payload)
  BY <1>3, FirstBounded
<1> QED BY <1>2, <1>4, EntryFacts, TargetFacts

LEMMA SlotIntro ==
  ASSUME NEW j \in 0 .. EntryCount - 1, NEW k \in 0 .. Len(plan[j + 1].locations) - 1
  PROVE  /\ <<j, k>> \in Slots
         /\ <<j, k>>[1] = j /\ <<j, k>>[2] = k
BY DEF Slots

\* The bytes of a slot are in the payload.
LEMMA PayloadByte ==
  ASSUME GoodPlan, NEW s \in Slots, NEW a \in Target(s[1], s[2])
  PROVE  Payload[First(s[1]) + (a - TargetByte(s[1], s[2])) + 1] \in Data
<1>1. /\ TargetByte(s[1], s[2]) \in Nat /\ First(s[1]) \in Nat
      /\ First(s[1]) + plan[s[1] + 1].byte_count <= Len(Payload)
      /\ plan[s[1] + 1].byte_count \in Nat /\ Len(Payload) \in Nat
  BY SlotFacts, PlanFacts
<1>2. a - TargetByte(s[1], s[2]) \in 0 .. plan[s[1] + 1].byte_count - 1
  BY <1>1 DEF Target
<1>3. First(s[1]) + (a - TargetByte(s[1], s[2])) + 1 \in 1 .. Len(Payload)
  BY <1>1, <1>2
<1> QED BY <1>3, ElementOfSeq, FileAssumption

-------------------------------------------------------------------------------
(* Blocks and chunks. *)

\* Rounding down to whole blocks.
LEMMA WholeBlocksFacts ==
  ASSUME NEW n \in Nat
  PROVE  WholeBlocks(n) \in 0 .. n
<1>1. MediaBlock \in Nat \ {0}
  BY FileAssumption
<1>2. n % MediaBlock \in 0 .. n
  <2>1. n % MediaBlock \in Nat
    BY <1>1
  <2>2. CASE n < MediaBlock
    BY <1>1, <2>2
  <2>3. CASE n >= MediaBlock
    BY <1>1, <2>3
  <2> QED BY <1>1, <2>1, <2>2, <2>3
<1> QED BY <1>2 DEF WholeBlocks

\* A location that starts and ends with a block lies within the target exactly if
\* the check of PastEnd says so.
LEMMA PastEndExact ==
  ASSUME NEW t \in Nat, NEW b \in Nat \ {0}, t % MediaBlock = 0, b % MediaBlock = 0
  PROVE  (t .. t + b - 1) \subseteq Address
           <=> ~(\/ t \div MediaBlock > LastBlock
                 \/ b \div MediaBlock > LastBlock - (t \div MediaBlock) + 1)
<1>1. MediaBlock \in Nat \ {0} /\ LastBlock \in Nat
  BY FileAssumption
<1>2. \A n \in Nat : n % MediaBlock = 0 =>
        n \div MediaBlock \in Nat /\ (n \div MediaBlock) * MediaBlock = n
  BY <1>1
<1>3. PICK x \in Nat : x = t \div MediaBlock /\ x * MediaBlock = t
  BY <1>2
<1>4. PICK y \in Nat : y = b \div MediaBlock /\ y * MediaBlock = b
  BY <1>2
<1>5. y > 0
  BY <1>1, <1>4
<1>6. t + b = (x + y) * MediaBlock
  BY <1>1, <1>3, <1>4
<1>7. \A m, n \in Nat : m <= n <=> m * MediaBlock <= n * MediaBlock
  BY <1>1
<1>8. x + y <= LastBlock + 1 <=> t + b <= (LastBlock + 1) * MediaBlock
  BY <1>1, <1>6, <1>7
<1>9. (t .. t + b - 1) \subseteq Address <=> t + b <= (LastBlock + 1) * MediaBlock
  <2> DEFINE size == (LastBlock + 1) * MediaBlock
  <2>1. size \in Nat
    BY <1>1
  <2>2. Address = 0 .. size - 1
    BY DEF Address
  <2> HIDE DEF size
  <2>3. t + b - 1 \in t .. t + b - 1
    OBVIOUS
  <2>4. ASSUME (t .. t + b - 1) \subseteq Address PROVE t + b <= size
    <3>1. t + b - 1 \in 0 .. size - 1
      BY <2>2, <2>3, <2>4
    <3> QED BY <2>1, <3>1
  <2>5. t + b <= size => (t .. t + b - 1) \subseteq Address
    BY <2>1, <2>2
  <2> QED BY <2>4, <2>5 DEF size
<1> QED BY <1>1, <1>3, <1>4, <1>5, <1>8, <1>9

-------------------------------------------------------------------------------
(* The inductive invariant. *)

\* Location k of entry j is one that the target can take.
SlotFits(j, k) ==
  /\ plan[j + 1].byte_count % MediaBlock = 0
  /\ plan[j + 1].locations[k + 1].method = 0
  /\ TargetByte(j, k) % MediaBlock = 0
  /\ Target(j, k) \subseteq Address

\* Address a of the location holds the byte of the payload that belongs there.
Holds(j, k, a) == disk[a] = Payload[First(j) + (a - TargetByte(j, k)) + 1]

\* Location k of entry j is one the loops have passed.
Passed(j, k) == j < i \/ (j = i /\ k < l)

\* Where the loops are.
Place ==
  /\ at \in {"location", "chunk"} => i < EntryCount /\ entry.byte_count % MediaBlock = 0
  /\ at = "entry" => l = 0
  /\ at \in {"entry", "location"} => done = 0
  /\ i = EntryCount => l = 0
  /\ l \in Nat /\ done \in Nat

\* What has been checked on the way.
VisitedFit ==
  /\ \A s \in Slots : Passed(s[1], s[2]) => SlotFits(s[1], s[2])
  /\ at = "chunk" => SlotFits(i, l)

\* Nothing is returned or flushed ahead of the end, and what is returned.
Outcome ==
  /\ at # "returned" => status = EFI_SUCCESS /\ ~flushed
  /\ at = "returned" /\ status = EFI_SUCCESS => i = EntryCount /\ flushed = commit
  /\ at = "returned" /\ Fits => status \in Errors \cup {EFI_SUCCESS}

\* The chunks of the location in hand that have been written are there.
PartHeld ==
  commit /\ at = "chunk" =>
    \A a \in TargetByte(i, l) .. TargetByte(i, l) + done - 1 : Holds(i, l, a)

\* So are the locations passed, unless the plan writes over them.
VisitedHeld ==
  commit /\ TargetsDisjoint =>
    \A s \in Slots : Passed(s[1], s[2]) =>
      \A a \in Target(s[1], s[2]) : Holds(s[1], s[2], a)

IInv ==
  /\ TypeOK
  /\ Place
  /\ VisitedFit
  /\ Outcome
  /\ PartHeld
  /\ VisitedHeld

\* The call, with any plan of a file and any contents of the target.
Start ==
  /\ GoodPlan
  /\ commit \in BOOLEAN
  /\ disk \in [Address -> Data]
  /\ i = 0 /\ l = 0 /\ done = 0
  /\ at = "entry"
  /\ status = EFI_SUCCESS
  /\ flushed = FALSE

LEMMA StartIInv == Start => IInv
<1> SUFFICES ASSUME Start PROVE IInv
  OBVIOUS
<1>1. GoodPlan /\ EntryCount \in Nat \ {0}
  BY PlanFacts DEF Start
<1>2. TypeOK
  <2>1. status \in EfiStatus
    BY DEF Start, EFI_SUCCESS, EfiStatus
  <2>2. i < EntryCount => l \in 0 .. Len(entry.locations) - 1 /\ done \in 0 .. entry.byte_count
    BY <1>1, EntryFacts DEF Start, entry
  <2>3. i \in 0 .. EntryCount
    BY <1>1 DEF Start
  <2> QED BY <2>1, <2>2, <2>3 DEF Start, GoodPlan, TypeOK
<1>3. Place /\ Outcome /\ PartHeld
  BY <1>1 DEF Start, Place, Outcome, PartHeld
<1>4. \A s \in Slots : ~Passed(s[1], s[2])
  BY <1>1, SlotFacts DEF Start, Passed
<1>5. VisitedFit /\ VisitedHeld
  BY <1>4 DEF Start, VisitedFit, VisitedHeld
<1> QED BY <1>2, <1>3, <1>5 DEF IInv

LEMMA InitIInv == Init => IInv
<1>1. Init => Start
  BY FileAssumption DEF Init, Start, GoodPlan
<1> QED BY <1>1, StartIInv

\* What the invariant says of the place in the plan.
LEMMA Unpacked ==
  ASSUME IInv
  PROVE  /\ GoodPlan /\ EntryCount \in Nat \ {0} /\ i \in 0 .. EntryCount
         /\ l \in Nat /\ done \in Nat
         /\ disk \in [Address -> Data]
         /\ i < EntryCount =>
              /\ i \in 0 .. EntryCount - 1
              /\ Len(entry.locations) \in Nat \ {0}
              /\ l \in 0 .. Len(plan[i + 1].locations) - 1
              /\ entry.byte_count \in Nat \ {0}
              /\ done <= entry.byte_count
              /\ First(i) = entry.first
              /\ TargetByte(i, l) = target_byte /\ target_byte \in Nat
              /\ <<i, l>> \in Slots
         /\ at \in {"location", "chunk"} => i < EntryCount
<1>1. GoodPlan /\ EntryCount \in Nat \ {0} /\ i \in 0 .. EntryCount
  BY PlanFacts DEF IInv, TypeOK, GoodPlan
<1>2. /\ l \in Nat /\ done \in Nat /\ disk \in [Address -> Data]
      /\ at \in {"location", "chunk"} => i < EntryCount
  BY DEF IInv, TypeOK, Place
<1>3. ASSUME i < EntryCount
      PROVE  /\ i \in 0 .. EntryCount - 1
             /\ Len(entry.locations) \in Nat \ {0}
             /\ l \in 0 .. Len(plan[i + 1].locations) - 1
             /\ entry.byte_count \in Nat \ {0}
             /\ done <= entry.byte_count
             /\ First(i) = entry.first
             /\ TargetByte(i, l) = target_byte /\ target_byte \in Nat
             /\ <<i, l>> \in Slots
  <2>1. i \in 0 .. EntryCount - 1
    BY <1>1, <1>3
  <2>2. /\ Len(entry.locations) \in Nat \ {0}
        /\ entry.byte_count \in Nat \ {0}
        /\ First(i) = entry.first
    BY <1>1, <2>1, EntryFacts DEF entry
  <2>3. l \in 0 .. Len(plan[i + 1].locations) - 1 /\ done <= entry.byte_count
    BY <1>3, <2>2 DEF IInv, TypeOK, entry
  <2>4. TargetByte(i, l) = target_byte
    BY DEF TargetByte, target_byte, entry
  <2>5. TargetByte(i, l) \in Nat /\ <<i, l>> \in Slots
    BY <1>1, <2>1, <2>3, TargetFacts, SlotIntro
  <2> QED BY <2>1, <2>2, <2>3, <2>4, <2>5
<1> QED BY <1>1, <1>2, <1>3

\* Every status the function returns is one.
LEMMA StatusFacts ==
  /\ EFI_SUCCESS \in EfiStatus /\ EFI_SUCCESS \notin Errors
  /\ EFI_UNSUPPORTED \in EfiStatus /\ EFI_UNSUPPORTED # EFI_SUCCESS
  /\ EFI_BAD_BUFFER_SIZE \in EfiStatus /\ EFI_BAD_BUFFER_SIZE # EFI_SUCCESS
  /\ Errors \subseteq EfiStatus
<1>1. \A n \in Nat : EFIERR(n) \in EfiStatus /\ EFIERR(n).error = TRUE
  BY DEF EFIERR, EfiStatus
<1>2. EFI_SUCCESS \in EfiStatus /\ EFI_SUCCESS.error = FALSE
  BY DEF EFI_SUCCESS, EfiStatus
<1>3. /\ EFI_UNSUPPORTED \in EfiStatus /\ EFI_UNSUPPORTED.error = TRUE
      /\ EFI_BAD_BUFFER_SIZE \in EfiStatus /\ EFI_BAD_BUFFER_SIZE.error = TRUE
  BY <1>1 DEF EFI_UNSUPPORTED, EFI_BAD_BUFFER_SIZE
<1>4. \A e \in Errors : e \in EfiStatus /\ e.error
  BY FileAssumption
<1> QED BY <1>2, <1>3, <1>4

\* What is said of the plan alone stays as it is.
LEMMA PlanKept ==
  ASSUME UNCHANGED plan
  PROVE  /\ EntryCount' = EntryCount /\ Slots' = Slots
         /\ Fits' = Fits /\ TargetsDisjoint' = TargetsDisjoint
         /\ GoodPlan' = GoodPlan
         /\ \A j : First(j)' = First(j)
         /\ \A j, k : TargetByte(j, k)' = TargetByte(j, k)
         /\ \A j, k : Target(j, k)' = Target(j, k)
         /\ \A j, k : SlotFits(j, k)' = SlotFits(j, k)
BY DEF EntryCount, Slots, Fits, TargetsDisjoint, GoodPlan, First, TargetByte, Target, SlotFits

\* A return leaves everything but what it returns alone; what is then known of the
\* target must be known before.
LEMMA ReturnIInv ==
  ASSUME IInv, at # "returned",
         UNCHANGED <<plan, commit, i, l, done>>,
         disk' \in [Address -> Data],
         \A s \in Slots : Passed(s[1], s[2]) => \A a \in Target(s[1], s[2]) :
           commit /\ TargetsDisjoint => Holds(s[1], s[2], a)',
         at' = "returned",
         status' \in EfiStatus,
         flushed' \in BOOLEAN,
         status' = EFI_SUCCESS => i = EntryCount /\ flushed' = commit,
         Fits => status' \in Errors \cup {EFI_SUCCESS}
  PROVE  IInv'
<1>1. /\ EntryCount' = EntryCount /\ Slots' = Slots /\ Fits' = Fits
      /\ TargetsDisjoint' = TargetsDisjoint
      /\ \A j, k : Target(j, k)' = Target(j, k) /\ SlotFits(j, k)' = SlotFits(j, k)
  BY PlanKept
<1>2. entry' = entry
  BY DEF entry
<1>3. TypeOK'
  BY <1>1, <1>2 DEF IInv, TypeOK
<1>4. Place' /\ Outcome' /\ PartHeld'
  BY <1>1, <1>2 DEF IInv, Place, Outcome, PartHeld
<1>5. \A s \in Slots : Passed(s[1], s[2])' = Passed(s[1], s[2])
  BY DEF Passed
<1>6. VisitedFit'
  BY <1>1, <1>5 DEF IInv, VisitedFit
<1>7. VisitedHeld'
  BY <1>1, <1>5 DEF VisitedHeld
<1> QED BY <1>3, <1>4, <1>6, <1>7 DEF IInv

\* An error that returns with the target as it was.
LEMMA RefusalIInv ==
  ASSUME IInv, at # "returned", UNCHANGED disk,
         NEW st \in EfiStatus, Return(st), st # EFI_SUCCESS,
         Fits => st \in Errors
  PROVE  IInv'
<1>1. /\ UNCHANGED <<plan, commit, i, l, done, flushed>>
      /\ at' = "returned" /\ status' = st
  BY DEF Return, given
<1>2. disk' \in [Address -> Data] /\ flushed' \in BOOLEAN
  BY <1>1 DEF IInv, TypeOK
<1>3. \A j, k, a : Holds(j, k, a)' = Holds(j, k, a)
  BY <1>1 DEF Holds, First, TargetByte, EntryCount
<1>4. \A s \in Slots : Passed(s[1], s[2]) => \A a \in Target(s[1], s[2]) :
        commit /\ TargetsDisjoint => Holds(s[1], s[2], a)'
  BY <1>3 DEF IInv, VisitedHeld
<1> QED BY <1>1, <1>2, <1>4, ReturnIInv

\* The head of the loop over entries.
LEMMA BeginEntryIInv == ASSUME IInv, BeginEntry PROVE IInv'
<1>1. /\ at = "entry" /\ i < EntryCount /\ UNCHANGED disk
      /\ l = 0 /\ done = 0
      /\ i \in 0 .. EntryCount - 1
      /\ Len(entry.locations) \in Nat \ {0}
  BY Unpacked DEF BeginEntry, IInv, Place
<1>2. CASE entry.byte_count % MediaBlock # 0
  <2>1. Return(EFI_UNSUPPORTED)
    BY <1>2 DEF BeginEntry
  <2>2. ~Fits
    <3>1. <<i, l>> \in Slots /\ <<i, l>>[1] = i
      BY <1>1, Unpacked
    <3> QED BY <1>2, <3>1 DEF Fits, entry
  <2> QED BY <1>1, <2>1, <2>2, StatusFacts, RefusalIInv
<1>3. CASE entry.byte_count % MediaBlock = 0
  <2>1. /\ at' = "location" /\ l' = l
        /\ UNCHANGED <<plan, commit, disk, i, done, status, flushed>>
    BY <1>1, <1>3 DEF BeginEntry, given
  <2>2. /\ EntryCount' = EntryCount /\ Slots' = Slots /\ entry' = entry
        /\ TargetsDisjoint' = TargetsDisjoint
        /\ \A j, k : Target(j, k)' = Target(j, k) /\ SlotFits(j, k)' = SlotFits(j, k)
        /\ \A j, k : Passed(j, k)' = Passed(j, k)
        /\ \A j, k, a : Holds(j, k, a)' = Holds(j, k, a)
    BY <2>1, PlanKept DEF entry, Passed, Holds
  <2>3. TypeOK'
    BY <1>1, <2>1, <2>2 DEF IInv, TypeOK
  <2>4. Place' /\ Outcome' /\ PartHeld'
    BY <1>1, <1>3, <2>1, <2>2, Unpacked DEF IInv, Place, Outcome, PartHeld
  <2>5. VisitedFit' /\ VisitedHeld'
    BY <2>1, <2>2 DEF IInv, VisitedFit, VisitedHeld
  <2> QED BY <2>3, <2>4, <2>5 DEF IInv
<1> QED BY <1>2, <1>3

\* The checks of a location let exactly those through that the target can take.
LEMMA ChecksExact ==
  ASSUME IInv, at = "location"
  PROVE  SlotFits(i, l) <=> /\ entry.locations[l + 1].method = 0
                            /\ target_byte % MediaBlock = 0
                            /\ ~PastEnd
<1>1. /\ TargetByte(i, l) = target_byte /\ target_byte \in Nat
      /\ entry.byte_count \in Nat \ {0}
      /\ entry.byte_count % MediaBlock = 0
  BY Unpacked DEF IInv, Place
<1>2. Target(i, l) = target_byte .. target_byte + entry.byte_count - 1
  BY <1>1 DEF Target, entry
<1>3. CASE target_byte % MediaBlock = 0
  <2>1. Target(i, l) \subseteq Address <=> ~PastEnd
    BY <1>1, <1>2, <1>3, PastEndExact DEF PastEnd, lba
  <2> QED BY <1>1, <2>1 DEF SlotFits, entry
<1>4. CASE target_byte % MediaBlock # 0
  BY <1>1, <1>4 DEF SlotFits
<1> QED BY <1>3, <1>4

\* The head of the loop over locations.
LEMMA BeginLocationIInv == ASSUME IInv, BeginLocation PROVE IInv'
<1>1. /\ at = "location" /\ i < EntryCount /\ UNCHANGED disk /\ <<i, l>> \in Slots
      /\ <<i, l>>[1] = i /\ <<i, l>>[2] = l
      /\ done = 0
  BY Unpacked DEF BeginLocation, IInv, Place
<1>2. Fits => SlotFits(i, l)
  BY <1>1 DEF Fits, SlotFits
<1>3. CASE ~SlotFits(i, l)
  <2>1. \E st \in {EFI_UNSUPPORTED, EFI_BAD_BUFFER_SIZE} : Return(st)
    BY <1>1, <1>3, ChecksExact DEF BeginLocation
  <2> QED BY <1>1, <1>2, <1>3, <2>1, StatusFacts, RefusalIInv
<1>4. CASE SlotFits(i, l)
  <2>1. /\ at' = "chunk" /\ done' = 0
        /\ UNCHANGED <<plan, commit, disk, i, l, status, flushed>>
    BY <1>1, <1>4, ChecksExact DEF BeginLocation, given
  <2>2. /\ EntryCount' = EntryCount /\ Slots' = Slots /\ entry' = entry
        /\ TargetsDisjoint' = TargetsDisjoint
        /\ \A j, k : Target(j, k)' = Target(j, k) /\ SlotFits(j, k)' = SlotFits(j, k)
        /\ \A j, k : TargetByte(j, k)' = TargetByte(j, k)
        /\ \A j, k : Passed(j, k)' = Passed(j, k)
        /\ \A j, k, a : Holds(j, k, a)' = Holds(j, k, a)
    BY <2>1, PlanKept DEF entry, Passed, Holds
  <2>3. TypeOK'
    <3>1. 0 \in 0 .. entry.byte_count
      BY <1>1, Unpacked
    <3> QED BY <1>1, <2>1, <2>2, <3>1 DEF IInv, TypeOK
  <2>4. Place' /\ Outcome'
    BY <1>1, <2>1, <2>2 DEF IInv, Place, Outcome
  <2>5. PartHeld'
    <3>1. TargetByte(i, l) .. TargetByte(i, l) + 0 - 1 = {}
      BY <1>1, Unpacked
    <3> QED BY <2>1, <2>2, <3>1 DEF PartHeld
  <2>6. VisitedFit' /\ VisitedHeld'
    BY <1>4, <2>1, <2>2 DEF IInv, VisitedFit, VisitedHeld
  <2> QED BY <2>3, <2>4, <2>5, <2>6 DEF IInv
<1> QED BY <1>3, <1>4

LEMMA ReadFailsIInv == ASSUME IInv, ReadFails PROVE IInv'
<1>1. at # "returned" /\ UNCHANGED disk
  BY DEF ReadFails
<1>2. PICK st \in Errors : Return(st)
  BY DEF ReadFails
<1> QED BY <1>1, <1>2, StatusFacts, RefusalIInv

\* A chunk goes on where the location ends so far, and not beyond its end.
LEMMA ChunkFacts ==
  ASSUME IInv, at = "chunk", remaining > 0
  PROVE  /\ <<i, l>> \in Slots /\ <<i, l>>[1] = i /\ <<i, l>>[2] = l
         /\ take \in Nat
         /\ done + take \in 0 .. entry.byte_count
         /\ ChunkRange(take) \subseteq Target(i, l)
         /\ Target(i, l) \subseteq Address
<1>1. /\ i < EntryCount /\ <<i, l>> \in Slots /\ done \in Nat
      /\ entry.byte_count \in Nat \ {0} /\ done <= entry.byte_count
      /\ TargetByte(i, l) = target_byte /\ target_byte \in Nat
  BY Unpacked
<1>2. remaining \in Nat
  BY <1>1 DEF remaining
<1>3. buffer_size \in Nat
  <2>1. Larger(BufferSize, MediaBlock) \in Nat
    BY FileAssumption DEF Larger
  <2> QED BY <2>1, WholeBlocksFacts DEF buffer_size
<1>4. take \in Nat /\ take <= remaining
  <2>1. Smaller(remaining, buffer_size) \in Nat /\ Smaller(remaining, buffer_size) <= remaining
    BY <1>2, <1>3 DEF Smaller
  <2>2. take \in 0 .. Smaller(remaining, buffer_size)
    BY <2>1, WholeBlocksFacts DEF take
  <2> QED BY <1>2, <2>1, <2>2
<1>5. done + take \in 0 .. entry.byte_count
  BY <1>1, <1>4 DEF remaining
<1>6. Target(i, l) = target_byte .. target_byte + entry.byte_count - 1
  BY <1>1 DEF Target, entry
<1>7. ChunkRange(take) \subseteq Target(i, l)
  BY <1>1, <1>4, <1>5, <1>6 DEF ChunkRange
<1>8. Target(i, l) \subseteq Address
  BY DEF IInv, VisitedFit, SlotFits
<1> QED BY <1>1, <1>4, <1>5, <1>7, <1>8

\* Writing any part of the location in hand puts bytes of the payload in their place
\* and leaves the other locations alone.
LEMMA WriteFacts ==
  ASSUME IInv, at = "chunk", remaining > 0, UNCHANGED <<plan, commit, i, l>>,
         NEW range \in SUBSET Target(i, l), disk' = Written(range)
  PROVE  /\ disk' \in [Address -> Data]
         /\ \A a \in range : Holds(i, l, a)'
         /\ \A a \in Target(i, l) : Holds(i, l, a) => Holds(i, l, a)'
         /\ \A s \in Slots : Passed(s[1], s[2]) => \A a \in Target(s[1], s[2]) :
              commit /\ TargetsDisjoint => Holds(s[1], s[2], a)'
<1>1. /\ <<i, l>> \in Slots /\ <<i, l>>[1] = i /\ <<i, l>>[2] = l
      /\ Target(i, l) \subseteq Address
      /\ GoodPlan /\ disk \in [Address -> Data]
      /\ TargetByte(i, l) = target_byte /\ First(i) = entry.first
      /\ i \in Nat /\ l \in Nat
  BY ChunkFacts, Unpacked
<1>2. \A a \in Address :
        disk'[a] = IF a \in range
                     THEN Payload[First(i) + (a - TargetByte(i, l)) + 1]
                     ELSE disk[a]
  BY <1>1 DEF Written
<1>3. disk' \in [Address -> Data]
  <2>1. \A a \in range : Payload[First(i) + (a - TargetByte(i, l)) + 1] \in Data
    BY <1>1, PayloadByte
  <2> QED BY <1>1, <2>1 DEF Written
<1>4. \A j, k : First(j)' = First(j) /\ TargetByte(j, k)' = TargetByte(j, k)
  BY PlanKept
<1>5. \A a \in range : Holds(i, l, a)'
  BY <1>1, <1>2, <1>4 DEF Holds
<1>6. \A a \in Target(i, l) : Holds(i, l, a) => Holds(i, l, a)'
  BY <1>1, <1>2, <1>4 DEF Holds
<1>7. ASSUME NEW s \in Slots, Passed(s[1], s[2]), NEW a \in Target(s[1], s[2]),
             commit, TargetsDisjoint
      PROVE  Holds(s[1], s[2], a)'
  <2>1. s # <<i, l>>
    BY <1>1, <1>7 DEF Passed
  <2>2. a \notin range
    BY <1>1, <1>7, <2>1 DEF TargetsDisjoint
  <2>3. a \in Address
    BY <1>7 DEF IInv, VisitedFit, SlotFits
  <2>4. Holds(s[1], s[2], a)
    BY <1>7 DEF IInv, VisitedHeld
  <2> QED BY <1>2, <1>4, <2>2, <2>3, <2>4 DEF Holds
<1> QED BY <1>3, <1>5, <1>6, <1>7

\* A chunk that is written, or counted in a dry run.
LEMMA WriteChunkIInv == ASSUME IInv, WriteChunk PROVE IInv'
<1>1. /\ at = "chunk" /\ remaining > 0 /\ done' = done + take
      /\ UNCHANGED <<plan, commit, i, l, at, status, flushed>>
  BY DEF WriteChunk, Advance, given
<1>2. /\ EntryCount' = EntryCount /\ Slots' = Slots /\ entry' = entry
      /\ TargetsDisjoint' = TargetsDisjoint
      /\ \A j, k : Target(j, k)' = Target(j, k) /\ SlotFits(j, k)' = SlotFits(j, k)
      /\ \A j, k : TargetByte(j, k)' = TargetByte(j, k)
      /\ \A j, k : Passed(j, k)' = Passed(j, k)
  BY <1>1, PlanKept DEF entry, Passed
<1>3. /\ take \in Nat /\ done + take \in 0 .. entry.byte_count
      /\ ChunkRange(take) \in SUBSET Target(i, l)
      /\ done \in Nat /\ i < EntryCount
      /\ TargetByte(i, l) = target_byte /\ target_byte \in Nat
      /\ entry.byte_count \in Nat
  BY <1>1, ChunkFacts, Unpacked
<1>4. /\ commit => disk' = Written(ChunkRange(take))
      /\ ~commit => disk' = disk
  BY DEF WriteChunk
<1>5. disk' \in [Address -> Data]
  BY <1>1, <1>3, <1>4, WriteFacts, Unpacked
<1>6. TypeOK'
  BY <1>1, <1>2, <1>3, <1>5 DEF IInv, TypeOK
<1>7. Place' /\ Outcome' /\ VisitedFit'
  <2>1. done' \in Nat
    BY <1>1, <1>3
  <2>2. Place' /\ VisitedFit'
    BY <1>1, <1>2, <2>1 DEF IInv, Place, VisitedFit
  <2> QED BY <1>1, <2>2 DEF IInv, Outcome
<1>8. PartHeld'
  <2> SUFFICES ASSUME commit,
                      NEW a \in TargetByte(i, l) .. TargetByte(i, l) + (done + take) - 1
               PROVE  Holds(i, l, a)'
    BY <1>1, <1>2 DEF PartHeld
  <2>1. CASE a \in ChunkRange(take)
    BY <1>1, <1>3, <1>4, <2>1, WriteFacts
  <2>2. CASE a \notin ChunkRange(take)
    <3>1. a \in TargetByte(i, l) .. TargetByte(i, l) + done - 1
      BY <1>3, <2>2 DEF ChunkRange
    <3>2. Holds(i, l, a)
      BY <1>1, <3>1 DEF IInv, PartHeld
    <3>3. a \in Target(i, l)
      BY <1>3, <3>1 DEF Target, entry
    <3> QED BY <1>1, <1>3, <1>4, <3>2, <3>3, WriteFacts
  <2> QED BY <2>1, <2>2
<1>9. VisitedHeld'
  <2> SUFFICES ASSUME commit, TargetsDisjoint, NEW s \in Slots, Passed(s[1], s[2]),
                      NEW a \in Target(s[1], s[2])
               PROVE  Holds(s[1], s[2], a)'
    BY <1>1, <1>2 DEF VisitedHeld
  <2> QED BY <1>1, <1>3, <1>4, WriteFacts
<1> QED BY <1>6, <1>7, <1>8, <1>9 DEF IInv

\* A write that fails leaves some blocks of its chunk behind, and the function.
LEMMA TornFacts ==
  ASSUME IInv, WriteFails
  PROVE  \E range \in SUBSET Target(i, l) : disk' = Written(range)
<1>1. PICK blocks \in SUBSET {a \div MediaBlock : a \in ChunkRange(take)} :
        disk' = Written({a \in ChunkRange(take) : a \div MediaBlock \in blocks})
  BY DEF WriteFails, TornWrite
<1>2. {a \in ChunkRange(take) : a \div MediaBlock \in blocks} \subseteq Target(i, l)
  BY ChunkFacts DEF WriteFails
<1> QED BY <1>1, <1>2

LEMMA WriteFailsIInv == ASSUME IInv, WriteFails PROVE IInv'
<1>1. PICK st \in Errors : Return(st)
  BY DEF WriteFails
<1>2. /\ at = "chunk" /\ remaining > 0
      /\ UNCHANGED <<plan, commit, i, l, done, flushed>>
      /\ at' = "returned" /\ status' = st
  BY <1>1 DEF WriteFails, Return, given
<1>3. PICK range \in SUBSET Target(i, l) : disk' = Written(range)
  BY TornFacts
<1>4. /\ disk' \in [Address -> Data]
      /\ \A s \in Slots : Passed(s[1], s[2]) => \A a \in Target(s[1], s[2]) :
           commit /\ TargetsDisjoint => Holds(s[1], s[2], a)'
  BY <1>2, <1>3, WriteFacts
<1>5. flushed' \in BOOLEAN /\ st \in EfiStatus /\ st # EFI_SUCCESS
  BY <1>2, StatusFacts DEF IInv, TypeOK
<1> QED BY <1>2, <1>4, <1>5, ReturnIInv

\* At the end of a location all of it is there, and it is one more that was passed.
LEMMA EndFacts ==
  ASSUME IInv, EndLocation
  PROVE  /\ SlotFits(i, l)
         /\ commit => \A a \in Target(i, l) : Holds(i, l, a)
         /\ \A s \in Slots : Passed(s[1], s[2])' => Passed(s[1], s[2]) \/ (s[1] = i /\ s[2] = l)
<1>1. /\ at = "chunk" /\ remaining = 0
      /\ i < EntryCount /\ done \in Nat /\ entry.byte_count \in Nat
      /\ GoodPlan /\ i \in Nat /\ l \in Nat
      /\ Len(entry.locations) \in Nat
  BY Unpacked DEF EndLocation
<1>2. SlotFits(i, l)
  BY <1>1 DEF IInv, VisitedFit
<1>3. done = plan[i + 1].byte_count
  BY <1>1 DEF remaining, entry
<1>4. commit => \A a \in Target(i, l) : Holds(i, l, a)
  BY <1>1, <1>3 DEF Target, IInv, PartHeld
<1>5. ASSUME NEW s \in Slots, Passed(s[1], s[2])', ~(s[1] = i /\ s[2] = l)
      PROVE  Passed(s[1], s[2])
  <2>1. /\ s[1] \in Nat /\ s[2] \in Nat
        /\ s[1] = i => s[2] \in 0 .. Len(entry.locations) - 1
    BY <1>1, SlotFacts DEF entry
  <2>2. CASE l + 1 = Len(entry.locations)
    <3>1. i' = i + 1 /\ l' = 0
      BY <2>2 DEF EndLocation
    <3> QED BY <1>1, <1>5, <2>1, <2>2, <3>1 DEF Passed
  <2>3. CASE l + 1 # Len(entry.locations)
    <3>1. i' = i /\ l' = l + 1
      BY <2>3 DEF EndLocation
    <3> QED BY <1>1, <1>5, <2>1, <3>1 DEF Passed
  <2> QED BY <2>2, <2>3
<1> QED BY <1>2, <1>4, <1>5

LEMMA EndLocationIInv == ASSUME IInv, EndLocation PROVE IInv'
<1>1. /\ at = "chunk" /\ done' = 0
      /\ UNCHANGED <<plan, commit, disk, status, flushed>>
  BY DEF EndLocation, given
<1>2. /\ EntryCount' = EntryCount /\ Slots' = Slots
      /\ TargetsDisjoint' = TargetsDisjoint
      /\ \A j, k : Target(j, k)' = Target(j, k) /\ SlotFits(j, k)' = SlotFits(j, k)
      /\ \A j, k, a : Holds(j, k, a)' = Holds(j, k, a)
      /\ GoodPlan'
  BY <1>1, PlanKept, Unpacked DEF Holds
<1>3. /\ GoodPlan /\ EntryCount \in Nat /\ i \in 0 .. EntryCount - 1 /\ l \in Nat
      /\ Len(entry.locations) \in Nat \ {0}
      /\ l \in 0 .. Len(entry.locations) - 1
      /\ entry.byte_count \in Nat /\ entry.byte_count % MediaBlock = 0
  BY <1>1, Unpacked DEF IInv, Place, entry
<1>4. CASE l + 1 = Len(entry.locations)
  <2>1. at' = "entry" /\ i' = i + 1 /\ l' = 0
    BY <1>4 DEF EndLocation
  <2>2. i' \in 0 .. EntryCount /\ i' \in Nat
    BY <1>3, <2>1
  <2>3. i' < EntryCount =>
          /\ Len(entry'.locations) \in Nat \ {0}
          /\ entry'.byte_count \in Nat \ {0}
    <3> SUFFICES ASSUME i' < EntryCount
                 PROVE  /\ Len(plan[i' + 1].locations) \in Nat \ {0}
                        /\ plan[i' + 1].byte_count \in Nat \ {0}
      BY <1>1 DEF entry
    <3>1. i' \in 0 .. EntryCount - 1
      BY <1>3, <2>2
    <3> QED BY <1>3, <3>1, EntryFacts
  <2>4. i' < EntryCount =>
          l' \in 0 .. Len(entry'.locations) - 1 /\ done' \in 0 .. entry'.byte_count
    BY <1>1, <2>1, <2>3
  <2>5. TypeOK'
    BY <1>1, <1>2, <2>1, <2>2, <2>4 DEF IInv, TypeOK
  <2>6. Place' /\ Outcome' /\ PartHeld' /\ (at = "chunk" => SlotFits(i, l))'
    BY <1>1, <2>1 DEF IInv, Place, Outcome, PartHeld
  <2>7. VisitedFit' /\ VisitedHeld'
    BY <1>1, <1>2, <2>6, EndFacts DEF IInv, VisitedFit, VisitedHeld
  <2> QED BY <2>5, <2>6, <2>7 DEF IInv
<1>5. CASE l + 1 # Len(entry.locations)
  <2>1. at' = "location" /\ i' = i /\ l' = l + 1
    BY <1>5 DEF EndLocation
  <2>2. entry' = entry
    BY <1>1, <2>1 DEF entry
  <2>3. l' \in 0 .. Len(entry.locations) - 1 /\ l' \in Nat /\ done' \in 0 .. entry.byte_count
    BY <1>1, <1>3, <1>5, <2>1
  <2>4. TypeOK'
    BY <1>1, <1>2, <2>1, <2>2, <2>3 DEF IInv, TypeOK
  <2>5. i < EntryCount /\ i # EntryCount
    BY <1>3
  <2>6. Place' /\ Outcome' /\ PartHeld' /\ (at = "chunk" => SlotFits(i, l))'
    BY <1>1, <1>2, <1>3, <2>1, <2>2, <2>3, <2>5 DEF IInv, Place, Outcome, PartHeld
  <2>7. VisitedFit' /\ VisitedHeld'
    BY <1>1, <1>2, <2>6, EndFacts DEF IInv, VisitedFit, VisitedHeld
  <2> QED BY <2>4, <2>6, <2>7 DEF IInv
<1> QED BY <1>4, <1>5

\* With every location passed, the plan is one that the target can take.
LEMMA PassedAll ==
  ASSUME IInv, i = EntryCount
  PROVE  Fits /\ \A s \in Slots : Passed(s[1], s[2])
<1>1. \A s \in Slots : Passed(s[1], s[2])
  BY Unpacked, SlotFacts DEF Passed
<1> QED BY <1>1 DEF Fits, SlotFits, IInv, VisitedFit

\* The flush, and the return.
LEMMA FinishIInv == ASSUME IInv, Finish PROVE IInv'
<1>1. /\ at = "entry" /\ i = EntryCount /\ at' = "returned"
      /\ UNCHANGED <<plan, commit, disk, i, l, done>>
      /\ status = EFI_SUCCESS /\ commit \in BOOLEAN
      /\ disk' \in [Address -> Data]
  BY DEF Finish, given, IInv, Outcome, TypeOK
<1>2. \/ flushed' = commit /\ status' = EFI_SUCCESS
      \/ flushed' = FALSE /\ status' \in Errors
  BY <1>1 DEF Finish
<1>3. \A j, k, a : Holds(j, k, a)' = Holds(j, k, a)
  BY <1>1 DEF Holds, First, TargetByte, EntryCount
<1>4. \A s \in Slots : Passed(s[1], s[2]) => \A a \in Target(s[1], s[2]) :
        commit /\ TargetsDisjoint => Holds(s[1], s[2], a)'
  BY <1>3 DEF IInv, VisitedHeld
<1>5. /\ status' \in EfiStatus /\ flushed' \in BOOLEAN
      /\ status' = EFI_SUCCESS => flushed' = commit
      /\ status' \in Errors \cup {EFI_SUCCESS}
  BY <1>1, <1>2, StatusFacts
<1> QED BY <1>1, <1>4, <1>5, ReturnIInv

LEMMA StutterIInv == ASSUME IInv, UNCHANGED vars PROVE IInv'
<1>1. UNCHANGED <<plan, commit, disk, i, l, done, at, status, flushed>>
  BY DEF vars, given
<1>2. /\ EntryCount' = EntryCount /\ Slots' = Slots /\ entry' = entry /\ Fits' = Fits
      /\ TargetsDisjoint' = TargetsDisjoint
      /\ \A j, k : Target(j, k)' = Target(j, k) /\ SlotFits(j, k)' = SlotFits(j, k)
      /\ \A j, k : TargetByte(j, k)' = TargetByte(j, k)
      /\ \A j, k : Passed(j, k)' = Passed(j, k)
      /\ \A j, k, a : Holds(j, k, a)' = Holds(j, k, a)
  BY <1>1, PlanKept DEF entry, Passed, Holds
<1>3. TypeOK' /\ Place' /\ Outcome' /\ PartHeld'
  BY <1>1, <1>2 DEF IInv, TypeOK, Place, Outcome, PartHeld
<1>4. VisitedFit' /\ VisitedHeld'
  BY <1>1, <1>2 DEF IInv, VisitedFit, VisitedHeld
<1> QED BY <1>3, <1>4 DEF IInv

LEMMA StepIInv == IInv /\ [Next]_vars => IInv'
BY BeginEntryIInv, BeginLocationIInv, WriteChunkIInv, EndLocationIInv, FinishIInv,
   ReadFailsIInv, WriteFailsIInv, StutterIInv DEF Next, Step

-------------------------------------------------------------------------------
(* What a return means. *)

\* The loops stay inside the plan, and what they write inside the target.
THEOREM TypesKept == Spec => []TypeOK
<1>1. IInv => TypeOK
  BY DEF IInv
<1> QED BY <1>1, InitIInv, StepIInv, PTL DEF Spec

LEMMA SuccessSound == IInv => SuccessMeansImage
<1> SUFFICES ASSUME IInv, commit, at = "returned", status = EFI_SUCCESS
             PROVE  /\ flushed
                    /\ TargetsDisjoint =>
                         \A s \in Slots : \A a \in Target(s[1], s[2]) :
                           a \in Address /\ Holds(s[1], s[2], a)
  BY DEF SuccessMeansImage, Holds
<1>1. i = EntryCount /\ flushed
  BY DEF IInv, Outcome, TypeOK
<1>2. Fits /\ \A s \in Slots : Passed(s[1], s[2])
  BY <1>1, PassedAll
<1> QED BY <1>1, <1>2 DEF Fits, IInv, VisitedHeld

\* Success is returned only with the whole image on the target and flushed, in
\* whatever chunks it was written.
THEOREM SuccessIsImage == Spec => []SuccessMeansImage
BY SuccessSound, InitIInv, StepIInv, PTL DEF Spec

LEMMA DryRunSound == IInv => DryRunForetells
BY PassedAll DEF IInv, Outcome, DryRunForetells

\* A run with or without --yes succeeds only on a plan that the target can take, and
\* on such a plan only the file and the target can make it fail.
THEOREM DryRunTells == Spec => []DryRunForetells
BY DryRunSound, InitIInv, StepIInv, PTL DEF Spec

-------------------------------------------------------------------------------
(* A run implements ImageWriter. *)

\* Names of the two specifications that denote the same thing.
LEMMA SameNames ==
  /\ Image!EntryCount = EntryCount
  /\ \A j : Image!First(j) = First(j)
  /\ \A j, k : Image!TargetByte(j, k) = TargetByte(j, k)
  /\ \A j, k : Image!Target(j, k) = Target(j, k)
BY DEF Image!EntryCount, EntryCount, Image!First, First, Image!TargetByte, TargetByte,
       Image!Target, Target

\* The number of payload bytes that count as received.
received == First(IF at = "entry" THEN i ELSE i + 1)

\* The payload up to there.
LEMMA StreamFacts ==
  ASSUME NEW n \in 0 .. Len(Payload)
  PROVE  /\ Len(SubSeq(Payload, 1, n)) = n
         /\ \A k \in 1 .. n : SubSeq(Payload, 1, n)[k] = Payload[k]
         /\ n = 0 => SubSeq(Payload, 1, n) = <<>>
<1>1. Payload \in Seq(Data) /\ Len(Payload) \in Nat
  BY FileAssumption, LenProperties
<1>2. \A k \in 1 .. n : Payload[k] \in Data
  BY <1>1, ElementOfSeq
<1>3. n \in Int /\ n - 1 + 1 = n /\ (1 <= n \/ n = 0)
  BY <1>1
<1>4. /\ SubSeq(Payload, 1, n) \in Seq(Data)
      /\ Len(SubSeq(Payload, 1, n)) = IF 1 <= n THEN n - 1 + 1 ELSE 0
      /\ \A k \in 1 .. n - 1 + 1 : SubSeq(Payload, 1, n)[k] = Payload[1 + k - 1]
  BY <1>2, <1>3, SubSeqProperties
<1>5. \A k \in 1 .. n : 1 + k - 1 = k
  BY <1>3
<1>6. n = 0 => SubSeq(Payload, 1, n) = <<>>
  BY <1>4, EmptySeq
<1> QED BY <1>3, <1>4, <1>5, <1>6

LEMMA ReceivedFacts ==
  ASSUME IInv
  PROVE  received \in 0 .. Len(Payload)
<1>1. CASE i < EntryCount \/ at = "entry"
  BY <1>1, Unpacked, FirstBounded, PlanFacts DEF received
<1>2. CASE i = EntryCount
  BY <1>2, Unpacked, FirstBounded, PlanFacts DEF received
<1> QED BY <1>1, <1>2, Unpacked

\* What is written of the location in hand are bytes received.
LEMMA WrittenFromStream ==
  ASSUME IInv, commit, at = "chunk", NEW range \in SUBSET Target(i, l)
  PROVE  Written(range) = Image!Written(disk, i, l, range)
<1>1. /\ i \in 0 .. EntryCount - 1 /\ <<i, l>> \in Slots
      /\ GoodPlan
      /\ TargetByte(i, l) = target_byte /\ target_byte \in Nat
      /\ First(i) = entry.first
  BY Unpacked
<1>2. /\ First(i) \in Nat /\ entry.byte_count \in Nat
      /\ First(i + 1) = First(i) + entry.byte_count
  BY <1>1, EntryFacts DEF entry
<1>3. received = First(i + 1) /\ received \in 0 .. Len(Payload)
  BY ReceivedFacts DEF received
<1>4. ASSUME NEW a \in range
      PROVE  SubSeq(Payload, 1, First(i + 1))[First(i) + (a - TargetByte(i, l)) + 1]
               = Payload[First(i) + (a - TargetByte(i, l)) + 1]
  <2>1. First(i) + (a - TargetByte(i, l)) + 1 \in 1 .. First(i + 1)
    <3>1. a - target_byte \in 0 .. entry.byte_count - 1
      BY <1>1, <1>2 DEF Target, entry
    <3> QED BY <1>1, <1>2, <3>1
  <2> QED BY <1>3, <2>1, StreamFacts
<1> QED BY <1>1, <1>4, SameNames DEF Written, Image!Written

\* Nothing is seen of a step that moves neither the target nor the place.
LEMMA Unseen ==
  ASSUME UNCHANGED <<plan, commit, disk, i, l, received>>
  PROVE  UNCHANGED Image!vars
<1> DEFINE stream == IF commit THEN SubSeq(Payload, 1, received) ELSE <<>>
<1>1. stream' = stream
  OBVIOUS
<1> QED BY <1>1 DEF Image!vars, received

\* When the turn of an entry comes, its bytes count as received.
LEMMA EntryReceived ==
  ASSUME IInv, commit, BeginEntry
  PROVE  Image!Next
<1>1. /\ at = "entry" /\ i < EntryCount /\ at' # "entry" /\ l = 0 /\ l' = 0
      /\ UNCHANGED <<plan, commit, disk, i>>
  BY DEF BeginEntry, Return, given, IInv, Place
<1>2. /\ GoodPlan /\ i \in 0 .. EntryCount - 1
      /\ First(i) \in 0 .. Len(Payload) /\ First(i + 1) \in 0 .. Len(Payload)
      /\ First(i + 1) = First(i) + entry.byte_count
      /\ entry.byte_count \in Nat \ {0}
  <2>1. /\ GoodPlan /\ i \in 0 .. EntryCount - 1 /\ i + 1 \in 0 .. EntryCount
        /\ i \in 0 .. EntryCount
    BY <1>1, Unpacked
  <2> QED BY <2>1, EntryFacts, FirstBounded, PlanFacts DEF entry
<1> DEFINE old == SubSeq(Payload, 1, First(i))
           new == SubSeq(Payload, 1, First(i + 1))
<1>3. /\ Len(old) = First(i) /\ Len(new) = First(i + 1)
      /\ \A k \in 1 .. Len(old) : new[k] = old[k]
  BY <1>2, StreamFacts
<1>4. /\ (IF commit THEN SubSeq(Payload, 1, First(IF at = "entry" THEN i ELSE i + 1))
                     ELSE <<>>) = old
      /\ (IF commit THEN SubSeq(Payload, 1, First(IF at = "entry" THEN i ELSE i + 1))
                     ELSE <<>>)' = new
  BY <1>1 DEF First, EntryCount
<1>5. entry.byte_count \in 1 .. First(i + 1) - Len(old)
  BY <1>2, <1>3
<1>6. Len(new) = Len(old) + entry.byte_count
  BY <1>2, <1>3
<1> HIDE DEF old, new
<1>7. Image!Receive
  BY <1>1, <1>3, <1>4, <1>5, <1>6, SameNames DEF Image!Receive
<1> QED BY <1>7 DEF Image!Next

\* A chunk, whole or torn, is part of a write.
LEMMA ChunkIsPart ==
  ASSUME IInv, commit, WriteChunk \/ WriteFails
  PROVE  Image!Next
<1>1. /\ at = "chunk" /\ remaining > 0 /\ at' # "entry"
      /\ UNCHANGED <<plan, commit, i, l>>
  BY DEF WriteChunk, Advance, WriteFails, Return, given
<1>2. /\ i < EntryCount
      /\ i + 1 \in 0 .. EntryCount /\ First(i + 1) \in 0 .. Len(Payload)
  BY <1>1, Unpacked, FirstBounded, PlanFacts
<1>3. PICK range \in SUBSET Target(i, l) : disk' = Written(range)
  <2>1. CASE WriteChunk
    BY <2>1, <1>1, ChunkFacts DEF WriteChunk
  <2>2. CASE WriteFails
    BY <2>2, TornFacts
  <2> QED BY <2>1, <2>2
<1>4. disk' = Image!Written(disk, i, l, range)
  BY <1>1, <1>3, WrittenFromStream
<1>5. range \in SUBSET (Target(i, l) \cap Address)
  BY <1>1, <1>3, ChunkFacts
<1>6. Len(SubSeq(Payload, 1, First(i + 1))) = First(i + 1)
  BY <1>2, StreamFacts
<1>7. (IF commit THEN SubSeq(Payload, 1, First(IF at = "entry" THEN i ELSE i + 1))
                 ELSE <<>>) = SubSeq(Payload, 1, First(i + 1))
  BY <1>1
<1>8. (IF commit THEN SubSeq(Payload, 1, First(IF at = "entry" THEN i ELSE i + 1))
                 ELSE <<>>)' = SubSeq(Payload, 1, First(i + 1))
  BY <1>1 DEF First, EntryCount
<1>9. Image!WritePart
  BY <1>1, <1>2, <1>4, <1>5, <1>6, <1>7, <1>8, SameNames DEF Image!WritePart
<1> QED BY <1>9 DEF Image!Next

\* With its last chunk a location is written: writing it over would change nothing.
LEMMA EndIsWrite ==
  ASSUME IInv, commit, EndLocation
  PROVE  Image!Next
<1>1. /\ at = "chunk" /\ UNCHANGED <<plan, commit, disk>>
      /\ IF l + 1 = Len(plan[i + 1].locations)
           THEN at' = "entry" /\ i' = i + 1 /\ l' = 0
           ELSE at' = "location" /\ l' = l + 1 /\ i' = i
  BY DEF EndLocation, given, entry
<1>2. /\ i < EntryCount
      /\ i + 1 \in 0 .. EntryCount /\ First(i + 1) \in 0 .. Len(Payload)
      /\ disk \in [Address -> Data]
      /\ First(i) = entry.first /\ TargetByte(i, l) = target_byte
  BY <1>1, Unpacked, FirstBounded, PlanFacts
<1>3. Target(i, l) \subseteq Address
  BY EndFacts DEF SlotFits
<1>4. disk = Written(Target(i, l))
  <2>1. \A a \in Target(i, l) : disk[a] = Payload[entry.first + (a - target_byte) + 1]
    BY <1>2, EndFacts DEF Holds
  <2> QED BY <1>2, <2>1 DEF Written
<1>5. disk' = Image!Written(disk, i, l, Target(i, l))
  BY <1>1, <1>4, WrittenFromStream
<1>6. Len(SubSeq(Payload, 1, First(i + 1))) = First(i + 1)
  BY <1>2, StreamFacts
<1>7. (IF commit THEN SubSeq(Payload, 1, First(IF at = "entry" THEN i ELSE i + 1))
                 ELSE <<>>) = SubSeq(Payload, 1, First(i + 1))
  BY <1>1
<1>8. (IF commit THEN SubSeq(Payload, 1, First(IF at = "entry" THEN i ELSE i + 1))
                 ELSE <<>>)' = SubSeq(Payload, 1, First(i + 1))
  BY <1>1 DEF First, EntryCount
<1>9. Image!WriteLocation
  BY <1>1, <1>2, <1>3, <1>5, <1>6, <1>7, <1>8, SameNames DEF Image!WriteLocation
<1> QED BY <1>9 DEF Image!Next

\* The rest is unseen: checks, reads that fail, the flush and the return.
LEMMA RestUnseen ==
  ASSUME IInv, BeginLocation \/ ReadFails \/ Finish \/ UNCHANGED vars
  PROVE  UNCHANGED Image!vars
<1>1. UNCHANGED <<plan, commit, disk, i, l>>
  BY DEF BeginLocation, ReadFails, Finish, Return, given, vars
<1>2. received' = received
  <2>1. CASE UNCHANGED at
    BY <1>1, <2>1 DEF received, First, EntryCount
  <2>2. CASE at # "entry" /\ at' # "entry"
    BY <1>1, <2>2 DEF received, First, EntryCount
  <2>3. CASE Finish
    <3>1. at = "entry" /\ at' = "returned" /\ i = EntryCount
      BY <2>3 DEF Finish
    <3>2. received = First(EntryCount) /\ received' = First(EntryCount + 1)'
      BY <1>1, <3>1 DEF received, First, EntryCount
    <3> QED BY <1>1, <3>2, PlanKept, PlanFacts, Unpacked
  <2>4. BeginLocation \/ ReadFails => at # "entry" /\ at' # "entry"
    BY DEF BeginLocation, ReadFails, Return
  <2>5. UNCHANGED vars => UNCHANGED at
    BY DEF vars
  <2> QED BY <2>1, <2>2, <2>3, <2>4, <2>5
<1> QED BY <1>1, <1>2, Unseen

\* A dry run leaves no trace.
LEMMA DryRunUnseen ==
  ASSUME [Next]_vars, commit = FALSE
  PROVE  UNCHANGED Image!vars
<1>1. UNCHANGED <<plan, commit, disk>>
  BY DEF Next, Step, BeginEntry, BeginLocation, WriteChunk, Advance, EndLocation, Finish,
         ReadFails, WriteFails, Return, given, vars
<1> QED BY <1>1 DEF Image!vars

LEMMA StepIsStep == IInv /\ [Next]_vars => [Image!Next]_(Image!vars)
<1> SUFFICES ASSUME IInv, [Next]_vars, commit PROVE [Image!Next]_(Image!vars)
  <2>1. commit = FALSE \/ commit = TRUE \/ ~IInv
    BY DEF IInv, TypeOK
  <2> QED BY <2>1, DryRunUnseen
<1>1. CASE BeginEntry
  BY <1>1, EntryReceived
<1>2. CASE WriteChunk \/ WriteFails
  BY <1>2, ChunkIsPart
<1>3. CASE EndLocation
  BY <1>3, EndIsWrite
<1>4. CASE BeginLocation \/ ReadFails \/ Finish \/ UNCHANGED vars
  BY <1>4, RestUnseen
<1> QED BY <1>1, <1>2, <1>3, <1>4 DEF Next, Step

LEMMA StartIsInit == Start => Image!Init
<1> SUFFICES ASSUME Start PROVE Image!Init
  OBVIOUS
<1>1. SubSeq(Payload, 1, First(0)) = <<>>
  <2>1. First(0) = 0 /\ First(0) \in 0 .. Len(Payload)
    BY PlanFacts DEF Start
  <2> QED BY <2>1, StreamFacts
<1> QED BY <1>1 DEF Start, GoodPlan, Image!Init

\* A run is a run of ImageWriter: whatever fails, and however an entry is cut into
\* chunks, only bytes of the payload reach the target, each at its place and entries
\* in their order, and a dry run leaves it alone.
THEOREM ImplementsImageWriter == Spec => WritesImage
<1>1. Init => Image!Init
  <2>1. Init => Start
    BY FileAssumption DEF Init, Start, GoodPlan
  <2> QED BY <2>1, StartIsInit
<1> QED BY <1>1, InitIInv, StepIInv, StepIsStep, PTL DEF Spec, WritesImage, Image!Spec

-------------------------------------------------------------------------------
(* Recursion over the natural numbers. *)

\* f starts at b and goes on, n times, as T tells from where it is.
Unfolds(f, b, n, T) == f[0] = b /\ \A k \in 1 .. n : f[k] = T[f[k - 1]][k]

\* A function by recursion on the numbers up to n.
LEMMA Recursion ==
  ASSUME NEW n \in Nat, NEW S, NEW b \in S,
         NEW T, \A x \in S, k \in 1 .. n : T[x][k] \in S
  PROVE  \E f \in [0 .. n -> S] : Unfolds(f, b, n, T)
<1> DEFINE G == {m \in Nat : m <= n => \E f \in [0 .. m -> S] : Unfolds(f, b, m, T)}
<1>1. 0 \in G
  <2> DEFINE f == [k \in 0 .. 0 |-> b]
  <2>1. f \in [0 .. 0 -> S] /\ Unfolds(f, b, 0, T)
    BY DEF Unfolds
  <2> QED BY <2>1
<1>2. ASSUME NEW m \in Nat, m \in G PROVE m + 1 \in G
  <2> SUFFICES ASSUME m + 1 <= n
               PROVE  \E f \in [0 .. m + 1 -> S] : Unfolds(f, b, m + 1, T)
    OBVIOUS
  <2>1. PICK f \in [0 .. m -> S] : Unfolds(f, b, m, T)
    BY <1>2
  <2> DEFINE next == T[f[m]][m + 1]
             g == [k \in 0 .. m + 1 |-> IF k <= m THEN f[k] ELSE next]
  <2>2. next \in S
    <3>1. f[m] \in S /\ m + 1 \in 1 .. n
      OBVIOUS
    <3> QED BY <3>1
  <2>3. g \in [0 .. m + 1 -> S]
    BY <2>2
  <2>4. g[0] = b
    BY <2>1 DEF Unfolds
  <2>5. ASSUME NEW k \in 1 .. m + 1 PROVE g[k] = T[g[k - 1]][k]
    <3>1. CASE k <= m
      <4>1. k \in 1 .. m /\ g[k] = f[k] /\ g[k - 1] = f[k - 1]
        BY <3>1
      <4> QED BY <2>1, <4>1 DEF Unfolds
    <3>2. CASE ~(k <= m)
      <4>1. k = m + 1 /\ g[k] = next /\ g[m] = f[m] /\ k - 1 = m
        BY <3>2
      <4> QED BY <4>1
    <3> QED BY <3>1, <3>2
  <2> HIDE DEF g
  <2> QED BY <2>3, <2>4, <2>5 DEF Unfolds
<1> HIDE DEF G
<1>3. n \in G
  BY <1>1, <1>2, SetInduction
<1> QED BY <1>3 DEF G

-------------------------------------------------------------------------------
(* Numbers. *)

LEMMA WordFacts == Word \in Nat \ {0} /\ \A x \in Nat : x % Word \in Nat
<1>1. Word \in Nat \ {0}
  BY OptionsAssumption
<1> QED BY <1>1

\* A digit after x, with the word it is in, or with no bound.
TurnFrom(digits) == [x \in Nat |-> [k \in 1 .. Len(digits) |-> (x * 10 + digits[k]) % Word]]
NumberFrom(digits) == [x \in Nat |-> [k \in 1 .. Len(digits) |-> x * 10 + digits[k]]]

LEMMA DigitFacts ==
  ASSUME NEW digits \in Seq(0 .. 9)
  PROVE  /\ Len(digits) \in Nat
         /\ \A x \in Nat, k \in 1 .. Len(digits) :
              /\ digits[k] \in Nat
              /\ TurnFrom(digits)[x][k] = (x * 10 + digits[k]) % Word
              /\ TurnFrom(digits)[x][k] \in Nat
              /\ NumberFrom(digits)[x][k] = x * 10 + digits[k]
              /\ NumberFrom(digits)[x][k] \in Nat
<1>1. Len(digits) \in Nat /\ \A k \in 1 .. Len(digits) : digits[k] \in Nat
  BY LenProperties, ElementOfSeq
<1>2. ASSUME NEW x \in Nat, NEW k \in 1 .. Len(digits)
      PROVE  /\ TurnFrom(digits)[x][k] = (x * 10 + digits[k]) % Word
             /\ NumberFrom(digits)[x][k] = x * 10 + digits[k]
             /\ x * 10 + digits[k] \in Nat
  BY <1>1 DEF TurnFrom, NumberFrom
<1> QED BY <1>1, <1>2, WordFacts

LEMMA TurnsUnfold ==
  ASSUME NEW digits \in Seq(0 .. 9)
  PROVE  /\ Turns(digits)[0] = 0
         /\ \A k \in 1 .. Len(digits) :
              Turns(digits)[k] = (Turns(digits)[k - 1] * 10 + digits[k]) % Word
<1> DEFINE n == Len(digits)
           T == TurnFrom(digits)
<1>1. n \in Nat /\ 0 \in Nat /\ \A x \in Nat, k \in 1 .. n : T[x][k] \in Nat
  BY DigitFacts
<1> HIDE DEF T, n
<1>2. PICK f \in [0 .. n -> Nat] : Unfolds(f, 0, n, T)
  BY <1>1, Recursion
<1> USE DEF n
<1>3. \A k \in 1 .. n : f[k - 1] \in Nat /\ f[k] = (f[k - 1] * 10 + digits[k]) % Word
  <2> TAKE k \in 1 .. n
  <2>1. k - 1 \in 0 .. n /\ f[k - 1] \in Nat
    <3> HIDE DEF n
    <3> QED BY <1>1
  <2> QED BY <1>2, <2>1, DigitFacts DEF Unfolds, T
<1>4. f = [k \in 0 .. n |-> IF k = 0 THEN 0 ELSE (f[k - 1] * 10 + digits[k]) % Word]
  BY <1>1, <1>2, <1>3 DEF Unfolds
<1> DEFINE v == Turns(digits)
<1>5. v = [k \in 0 .. n |-> IF k = 0 THEN 0 ELSE (v[k - 1] * 10 + digits[k]) % Word]
  BY <1>4 DEF Turns
<1> HIDE DEF v
<1>6. v[0] = 0 /\ \A k \in 1 .. n : v[k] = (v[k - 1] * 10 + digits[k]) % Word
  BY <1>1, <1>5
<1> QED BY <1>6 DEF v

LEMMA NumbersUnfold ==
  ASSUME NEW digits \in Seq(0 .. 9)
  PROVE  /\ Numbered(digits)[0] = 0
         /\ \A k \in 1 .. Len(digits) :
              Numbered(digits)[k] = Numbered(digits)[k - 1] * 10 + digits[k]
<1> DEFINE n == Len(digits)
           T == NumberFrom(digits)
<1>1. n \in Nat /\ 0 \in Nat /\ \A x \in Nat, k \in 1 .. n : T[x][k] \in Nat
  BY DigitFacts
<1> HIDE DEF T, n
<1>2. PICK f \in [0 .. n -> Nat] : Unfolds(f, 0, n, T)
  BY <1>1, Recursion
<1> USE DEF n
<1>3. \A k \in 1 .. n : f[k - 1] \in Nat /\ f[k] = f[k - 1] * 10 + digits[k]
  <2> TAKE k \in 1 .. n
  <2>1. k - 1 \in 0 .. n /\ f[k - 1] \in Nat
    <3> HIDE DEF n
    <3> QED BY <1>1
  <2> QED BY <1>2, <2>1, DigitFacts DEF Unfolds, T
<1>4. f = [k \in 0 .. n |-> IF k = 0 THEN 0 ELSE f[k - 1] * 10 + digits[k]]
  BY <1>1, <1>2, <1>3 DEF Unfolds
<1> DEFINE v == Numbered(digits)
<1>5. v = [k \in 0 .. n |-> IF k = 0 THEN 0 ELSE v[k - 1] * 10 + digits[k]]
  BY <1>4 DEF Numbered
<1> HIDE DEF v
<1>6. v[0] = 0 /\ \A k \in 1 .. n : v[k] = v[k - 1] * 10 + digits[k]
  BY <1>1, <1>5
<1> QED BY <1>6 DEF v

\* What is left of x in a word of w.
LEMMA Left ==
  ASSUME NEW w \in Nat \ {0}, NEW x \in Int, NEW q \in Int, NEW r \in 0 .. w - 1,
         x = w * q + r
  PROVE  x % w = r
<1>1. x = w * (x \div w) + (x % w) /\ x % w \in 0 .. w - 1 /\ x \div w \in Int
  OBVIOUS
<1> DEFINE s == x % w
           p == x \div w
           d == p - q
<1>2. /\ s \in 0 .. w - 1 /\ p \in Int /\ d \in Int
      /\ w * p + s = w * q + r
  BY <1>1
<1> HIDE DEF s, p
<1>3. w * d = r - s
  BY <1>2
<1> HIDE DEF d
<1>4. d = 0
  <2>1. CASE d >= 1
    <3>1. w * d >= w
      BY <2>1, <1>2
    <3> QED BY <3>1, <1>2, <1>3
  <2>2. CASE d <= -1
    <3>1. w * d <= -w
      BY <2>2, <1>2
    <3> QED BY <3>1, <1>2, <1>3
  <2> QED BY <2>1, <2>2, <1>2
<1>5. r = s
  BY <1>2, <1>3, <1>4
<1> QED BY <1>5 DEF s

\* A digit after what is left of x, or after x.
LEMMA DigitLeft ==
  ASSUME NEW w \in Nat \ {0}, NEW x \in Nat, NEW d \in Nat
  PROVE  ((x % w) * 10 + d) % w = (x * 10 + d) % w
<1> DEFINE q == x \div w
           r == x % w
           y == r * 10 + d
<1>1. x = w * q + r /\ q \in Int /\ r \in Nat
  OBVIOUS
<1> HIDE DEF q, r
<1>2. y \in Int
  BY <1>1
<1> HIDE DEF y
<1>3. y = w * (y \div w) + (y % w) /\ y % w \in 0 .. w - 1 /\ y \div w \in Int
  BY <1>2
<1> DEFINE p == y \div w
           s == y % w
<1>4. y = w * p + s /\ s \in 0 .. w - 1 /\ p \in Int
  BY <1>3
<1> HIDE DEF p, s
<1>5. x * 10 + d = w * (q * 10 + p) + s
  <2>1. y = r * 10 + d
    BY DEF y
  <2>2. w * (q * 10 + p) = (w * q) * 10 + w * p
    BY <1>1, <1>4
  <2> QED BY <2>1, <2>2, <1>1, <1>4
<1>6. (x * 10 + d) % w = s
  <2>1. q * 10 + p \in Int /\ x * 10 + d \in Int
    BY <1>1, <1>4
  <2> QED BY <2>1, <1>4, <1>5, Left
<1> QED BY <1>6 DEF s, y, r

\* The turns of the loop, each in a word, come to the number in a word.
LEMMA TurnsInWord ==
  ASSUME NEW digits \in Seq(0 .. 9)
  PROVE  Decimal(digits) \in Nat /\ parse_uint_token(digits) = AsInt(Decimal(digits) % Word)
<1> DEFINE n == Len(digits)
           t == Turns(digits)
           v == Numbered(digits)
           G == {k \in Nat : k <= n => v[k] \in Nat /\ t[k] = v[k] % Word}
<1>1. n \in Nat /\ \A k \in 1 .. n : digits[k] \in Nat
  <2>1. n \in Nat
    BY DigitFacts
  <2> QED BY <2>1, DigitFacts
<1>2. /\ t[0] = 0 /\ v[0] = 0
      /\ \A k \in 1 .. n : t[k] = (t[k - 1] * 10 + digits[k]) % Word
      /\ \A k \in 1 .. n : v[k] = v[k - 1] * 10 + digits[k]
  BY TurnsUnfold, NumbersUnfold
<1> HIDE DEF n, t, v
<1>3. 0 \in G
  <2>1. 0 % Word = 0
    BY WordFacts
  <2> QED BY <1>2, <2>1
<1>4. ASSUME NEW k \in Nat, k \in G PROVE k + 1 \in G
  <2> SUFFICES ASSUME k + 1 <= n
               PROVE  v[k + 1] \in Nat /\ t[k + 1] = v[k + 1] % Word
    OBVIOUS
  <2>1. v[k] \in Nat /\ t[k] = v[k] % Word
    BY <1>1, <1>4
  <2>2. k + 1 \in 1 .. n /\ (k + 1) - 1 = k
    BY <1>1
  <2>3. /\ t[k + 1] = (t[k] * 10 + digits[k + 1]) % Word
        /\ v[k + 1] = v[k] * 10 + digits[k + 1]
        /\ digits[k + 1] \in Nat
    BY <1>1, <1>2, <2>2
  <2>4. v[k + 1] \in Nat
    BY <2>1, <2>3
  <2>5. t[k + 1] = v[k + 1] % Word
    <3> DEFINE x == v[k]
               d == digits[k + 1]
    <3>1. x \in Nat /\ d \in Nat /\ Word \in Nat \ {0}
      BY <2>1, <2>3, WordFacts
    <3>2. t[k + 1] = ((x % Word) * 10 + d) % Word /\ v[k + 1] = x * 10 + d
      BY <2>1, <2>3
    <3> HIDE DEF x, d
    <3>3. ((x % Word) * 10 + d) % Word = (x * 10 + d) % Word
      BY <3>1, DigitLeft
    <3> QED BY <3>2, <3>3
  <2> QED BY <2>4, <2>5
<1> HIDE DEF G
<1>5. n \in G
  BY <1>1, <1>3, <1>4, SetInduction
<1>6. v[n] \in Nat /\ t[n] = v[n] % Word
  BY <1>1, <1>5 DEF G
<1> QED BY <1>6 DEF t, v, n, Decimal, parse_uint_token

-------------------------------------------------------------------------------
(* The command line, read up to a token. *)

\* Of the options O of line L, one of the first n is text; and no --info follows it.
SaidIn(L, O, n, text) == \E k \in O : k <= n /\ L[k].text = text
StandsIn(L, O, n, text) ==
  \E k \in O :
    k <= n /\ L[k].text = text /\ \A j \in O : j > k /\ j <= n => L[j].text # "--info"

\* Of the numbers G, t is the last of those among the first n tokens.
TargetIn(L, G, n, t) ==
  \/ t = -1 /\ \A k \in G : k > n
  \/ \E k \in G : /\ k <= n /\ t = parse_uint_token(L[k].digits)
                  /\ \A j \in G : j <= k \/ j > n

\* Of the paths P, path is the first, if it is among the first n tokens.
PathIn(L, P, n, path) ==
  \/ path = NoToken /\ \A k \in P : k > n
  \/ \E k \in P : k <= n /\ path = L[k] /\ \A j \in P : k <= j

LEMMA SaidNext ==
  ASSUME NEW L, NEW O, O \subseteq Int, NEW n \in Int, NEW text
  PROVE  SaidIn(L, O, n + 1, text) <=>
           SaidIn(L, O, n, text) \/ (n + 1 \in O /\ L[n + 1].text = text)
<1>1. \A k \in O : k <= n + 1 <=> k <= n \/ k = n + 1
  OBVIOUS
<1> QED BY <1>1 DEF SaidIn

LEMMA StandsNext ==
  ASSUME NEW L, NEW O, O \subseteq Int, NEW n \in Int, NEW text
  PROVE  StandsIn(L, O, n + 1, text) <=>
           \/ n + 1 \in O /\ L[n + 1].text = text
           \/ StandsIn(L, O, n, text) /\ ~(n + 1 \in O /\ L[n + 1].text = "--info")
<1>1. \A k \in O : k <= n + 1 <=> k <= n \/ k = n + 1
  OBVIOUS
<1>2. \A j, k \in O : ~(j > k /\ k = n + 1 /\ j <= n + 1)
  OBVIOUS
<1>3. \A k \in O : k <= n => n + 1 > k
  OBVIOUS
<1> QED BY <1>1, <1>2, <1>3 DEF StandsIn

LEMMA TargetNext ==
  ASSUME NEW L, NEW G, G \subseteq Int, NEW n \in Int, NEW t, TargetIn(L, G, n, t)
  PROVE  TargetIn(L, G, n + 1, IF n + 1 \in G THEN parse_uint_token(L[n + 1].digits) ELSE t)
<1>1. CASE n + 1 \in G
  BY <1>1 DEF TargetIn
<1>2. CASE n + 1 \notin G
  <2>1. \A k \in G : k > n + 1 <=> k > n
    BY <1>2
  <2>2. \A k \in G : k <= n => k <= n + 1
    OBVIOUS
  <2> QED BY <1>2, <2>1, <2>2 DEF TargetIn
<1> QED BY <1>1, <1>2

LEMMA PathNext ==
  ASSUME NEW L, NEW P, P \subseteq Int, NEW n \in Int, NEW path, PathIn(L, P, n, path),
         \A k \in P : L[k] # NoToken
  PROVE  PathIn(L, P, n + 1, IF n + 1 \in P /\ path = NoToken THEN L[n + 1] ELSE path)
<1>1. CASE path = NoToken
  <2>1. \A k \in P : k > n
    BY <1>1 DEF PathIn
  <2>2. CASE n + 1 \in P
    <3>1. \A j \in P : n + 1 <= j
      BY <2>1
    <3> QED BY <1>1, <2>2, <3>1 DEF PathIn
  <2>3. CASE n + 1 \notin P
    <3>1. \A k \in P : k > n + 1
      BY <2>1, <2>3
    <3> QED BY <1>1, <2>3, <3>1 DEF PathIn
  <2> QED BY <2>2, <2>3
<1>2. CASE path # NoToken
  <2>1. PICK k \in P : k <= n /\ path = L[k] /\ \A j \in P : k <= j
    BY <1>2 DEF PathIn
  <2>2. k <= n + 1
    BY <2>1
  <2> QED BY <1>2, <2>1, <2>2 DEF PathIn
<1> QED BY <1>1, <1>2

-------------------------------------------------------------------------------
(* The options. *)

\* The options are a record of the fields of NoOptions.
OptionsTyped ==
  /\ opts = [help |-> opts.help, list_block |-> opts.list_block, packets |-> opts.packets,
             flash |-> opts.flash, usb_ffu |-> opts.usb_ffu, yes |-> opts.yes,
             target |-> opts.target, path |-> opts.path]
  /\ {opts.help, opts.list_block, opts.packets, opts.flash, opts.usb_ffu, opts.yes}
       \subseteq BOOLEAN

\* The options say what the tokens read so far mean.
OptsSoFar ==
  /\ opts.help <=> SaidIn(line, Options, pos, "--help") \/ SaidIn(line, Options, pos, "-h")
  /\ opts.list_block <=> SaidIn(line, Options, pos, "--list-block")
  /\ opts.packets <=> StandsIn(line, Options, pos, "--packets")
  /\ opts.flash <=> StandsIn(line, Options, pos, "--flash")
  /\ opts.usb_ffu <=> SaidIn(line, Options, pos, "--usb-ffu")
                        \/ SaidIn(line, Options, pos, "--usb")
  /\ opts.yes <=> SaidIn(line, Options, pos, "--yes")
  /\ TargetIn(line, Given, pos, opts.target)
  /\ PathIn(line, Paths, pos, opts.path)

\* What is read so far is well formed, but that a number may have to come next.
LineSoFar ==
  /\ line \in CommandLines
  /\ pos \in 0 .. Len(line)
  /\ expect_target <=> pos \in Tokens /\ line[pos].text = "--target"
  /\ \A k \in Tokens : k <= pos =>
       /\ line[k].text = "--target" =>
            k = pos \/ (k + 1 \in Tokens /\ line[k + 1].text = "number")
       /\ line[k].text = "--target=" => line[k].digits # <<>>

OptionsIInv ==
  /\ OptionsTyped
  /\ parsing \in {"tokens", "parsed", "invalid"}
  /\ parsing = "tokens" =>
       IF line = NoLoadOptions
         THEN opts = NoOptions /\ ~expect_target
         ELSE LineSoFar /\ OptsSoFar
  /\ parsing = "parsed" /\ Given # {} => Typed \in Nat
  /\ OptionsAsGiven

\* The tokens of a line.
LEMMA LineFacts ==
  ASSUME line \in CommandLines
  PROVE  /\ line # NoLoadOptions
         /\ Len(line) \in Nat
         /\ Tokens = {k \in 1 .. Len(line) : k = 1 => line[k].text \notin EfiNames}
         /\ Options \subseteq Tokens /\ Given \subseteq Tokens /\ Paths \subseteq Options
         /\ \A k \in 1 .. Len(line) :
              /\ line[k] \in [text : STRING, digits : Seq(0 .. 9)]
              /\ line[k] # NoToken
              /\ line[k].text = "number" => line[k].digits # <<>>
<1>1. /\ line \in Seq([text : STRING, digits : Seq(0 .. 9)])
      /\ \A k \in 1 .. Len(line) :
           line[k].text # "" /\ (line[k].text = "number" => line[k].digits # <<>>)
  BY OptionsAssumption
<1>2. /\ Len(line) \in Nat
      /\ \A k \in 1 .. Len(line) : line[k] \in [text : STRING, digits : Seq(0 .. 9)]
  BY <1>1, LenProperties, ElementOfSeq
<1>3. NoToken.text = ""
  BY DEF NoToken
<1>4. \A k \in 1 .. Len(line) : line[k] # NoToken
  BY <1>1, <1>3
<1>5. line # NoLoadOptions
  <2>1. ASSUME line = <<NoToken>> PROVE FALSE
    <3>1. Len(line) = 1 /\ line[1] = NoToken
      BY <2>1
    <3> QED BY <3>1, <1>4
  <2> QED BY <2>1 DEF NoLoadOptions
<1> QED BY <1>1, <1>2, <1>4, <1>5 DEF Tokens, Options, Given, Paths

\* The next token: what it is depends on whether a number is waited for.
LEMMA NextFacts ==
  ASSUME LineSoFar, pos < Len(line)
  PROVE  /\ pos \in Nat /\ pos + 1 \in 1 .. Len(line)
         /\ pos + 1 \in Tokens <=> ~IsName
         /\ IsValue(pos + 1) <=> expect_target
         /\ pos + 1 \in Options <=> ~IsName /\ ~expect_target
         /\ pos + 1 \in Given <=> ~IsName /\ (expect_target \/ token.text = "--target=")
         /\ pos + 1 \in Paths <=> ~IsName /\ ~expect_target /\ token.text \notin Flags
<1>1. line \in CommandLines /\ pos \in 0 .. Len(line) /\ Len(line) \in Nat
  BY LineFacts DEF LineSoFar
<1>2. pos \in Nat /\ pos + 1 \in 1 .. Len(line) /\ (pos + 1) - 1 = pos
      /\ (pos + 1 = 1 <=> pos = 0)
  BY <1>1
<1>3. pos + 1 \in Tokens <=> ~IsName
  BY <1>1, <1>2, LineFacts DEF IsName, token
<1>4. IsValue(pos + 1) <=> expect_target
  BY <1>2 DEF IsValue, LineSoFar
<1> QED BY <1>2, <1>3, <1>4 DEF Options, Given, Paths, token

\* One more token is read, with the effect that it should have.
LEMMA ReadOn ==
  ASSUME LineSoFar, OptsSoFar, pos < Len(line), UNCHANGED line, pos' = pos + 1,
         NEW text, text = line[pos + 1].text,
         NEW IsOption, IsOption = (pos + 1 \in Options),
         opts'.help <=> opts.help \/ (IsOption /\ text \in {"--help", "-h"}),
         opts'.list_block <=> opts.list_block \/ (IsOption /\ text = "--list-block"),
         opts'.packets <=> \/ IsOption /\ text = "--packets"
                           \/ opts.packets /\ ~(IsOption /\ text = "--info"),
         opts'.flash <=> \/ IsOption /\ text = "--flash"
                         \/ opts.flash /\ ~(IsOption /\ text = "--info"),
         opts'.usb_ffu <=> opts.usb_ffu \/ (IsOption /\ text \in {"--usb-ffu", "--usb"}),
         opts'.yes <=> opts.yes \/ (IsOption /\ text = "--yes"),
         opts'.target = IF pos + 1 \in Given THEN parse_uint_token(line[pos + 1].digits)
                                             ELSE opts.target,
         opts'.path = IF pos + 1 \in Paths /\ opts.path = NoToken THEN line[pos + 1]
                                                                  ELSE opts.path
  PROVE  OptsSoFar'
<1>1. line \in CommandLines /\ pos \in Int
  BY DEF LineSoFar
<1>2. Options' = Options /\ Given' = Given /\ Paths' = Paths
  BY DEF Options, Given, Paths, Tokens, IsValue
<1>3. /\ Options \subseteq Int /\ Given \subseteq Int /\ Paths \subseteq Int
      /\ \A k \in Paths : line[k] # NoToken
  BY <1>1, LineFacts
<1>4. \A t : SaidIn(line, Options, pos + 1, t) <=>
               SaidIn(line, Options, pos, t) \/ (IsOption /\ text = t)
  BY <1>1, <1>3, SaidNext
<1>5. \A t : StandsIn(line, Options, pos + 1, t) <=>
               \/ IsOption /\ text = t
               \/ StandsIn(line, Options, pos, t) /\ ~(IsOption /\ text = "--info")
  <2> TAKE t
  <2>1. StandsIn(line, Options, pos + 1, t) <=>
          \/ pos + 1 \in Options /\ line[pos + 1].text = t
          \/ /\ StandsIn(line, Options, pos, t)
             /\ ~(pos + 1 \in Options /\ line[pos + 1].text = "--info")
    BY <1>1, <1>3, StandsNext
  <2> QED BY <2>1
<1>6. TargetIn(line, Given, pos + 1, opts'.target)
  BY <1>1, <1>3, TargetNext DEF OptsSoFar
<1>7. PathIn(line, Paths, pos + 1, opts'.path)
  BY <1>1, <1>3, PathNext DEF OptsSoFar
<1>8. /\ opts'.help <=> SaidIn(line, Options, pos + 1, "--help")
                          \/ SaidIn(line, Options, pos + 1, "-h")
      /\ opts'.list_block <=> SaidIn(line, Options, pos + 1, "--list-block")
      /\ opts'.usb_ffu <=> SaidIn(line, Options, pos + 1, "--usb-ffu")
                             \/ SaidIn(line, Options, pos + 1, "--usb")
      /\ opts'.yes <=> SaidIn(line, Options, pos + 1, "--yes")
  BY <1>4 DEF OptsSoFar
<1>9. /\ opts'.packets <=> StandsIn(line, Options, pos + 1, "--packets")
      /\ opts'.flash <=> StandsIn(line, Options, pos + 1, "--flash")
  BY <1>5 DEF OptsSoFar
<1> QED BY <1>2, <1>6, <1>7, <1>8, <1>9 DEF OptsSoFar

\* A token is read, and the line is well formed up to it.
LEMMA ReadWell ==
  ASSUME LineSoFar, pos < Len(line), UNCHANGED line, pos' = pos + 1,
         expect_target' <=> pos + 1 \in Tokens /\ token.text = "--target",
         expect_target /\ ~IsName => token.text = "number",
         ~IsName /\ token.text = "--target=" => token.digits # <<>>
  PROVE  LineSoFar'
<1>1. /\ line \in CommandLines /\ pos \in 0 .. Len(line) /\ Len(line) \in Nat
      /\ Tokens' = Tokens /\ Tokens \subseteq Int
      /\ pos + 1 \in 1 .. Len(line)
  BY LineFacts, NextFacts DEF LineSoFar, Tokens
<1>2. ~IsName <=> pos + 1 \in Tokens
  BY NextFacts
<1>3. pos' \in 0 .. Len(line)
  BY <1>1
<1>4. ASSUME NEW k \in Tokens, k <= pos'
      PROVE  /\ line[k].text = "--target" =>
                  k = pos' \/ (k + 1 \in Tokens /\ line[k + 1].text = "number")
             /\ line[k].text = "--target=" => line[k].digits # <<>>
  <2>1. CASE k = pos + 1
    BY <1>2, <2>1 DEF token
  <2>2. CASE k = pos
    <3>1. line[k].text = "--target" => expect_target
      BY <2>2 DEF LineSoFar
    <3>2. expect_target => ~IsName
      <4>1. expect_target => pos # 0
        BY <1>1, LineFacts DEF LineSoFar
      <4> QED BY <4>1 DEF IsName
    <3> QED BY <1>1, <1>2, <2>2, <3>1, <3>2 DEF LineSoFar, token
  <2>3. CASE k < pos
    BY <1>1, <2>3 DEF LineSoFar
  <2> QED BY <1>1, <1>4, <2>1, <2>2, <2>3
<1> QED BY <1>1, <1>3, <1>4 DEF LineSoFar, token

\* A line that is refused is not well formed.
LEMMA RefusedIsMalformed ==
  ASSUME LineSoFar, pos < Len(line), ~IsName,
         \/ expect_target /\ token.text # "number"
         \/ token.text = "--target=" /\ token.digits = <<>>
  PROVE  ~WellFormed
<1>1. pos + 1 \in Tokens
  BY NextFacts
<1>2. expect_target => pos \in Tokens /\ line[pos].text = "--target"
  BY DEF LineSoFar
<1> QED BY <1>1, <1>2 DEF WellFormed, token

\* What a token does to the options, as far as it is none of the targets.
LEMMA EffectFacts ==
  ASSUME OptionsTyped, NEW text, text \notin {"--target", "--target="}
  PROVE  LET o == Effect(text)
         IN  /\ o = [help |-> o.help, list_block |-> o.list_block, packets |-> o.packets,
                     flash |-> o.flash, usb_ffu |-> o.usb_ffu, yes |-> o.yes,
                     target |-> o.target, path |-> o.path]
             /\ {o.help, o.list_block, o.packets, o.flash, o.usb_ffu, o.yes}
                  \subseteq BOOLEAN
             /\ o.help <=> opts.help \/ text \in {"--help", "-h"}
             /\ o.list_block <=> opts.list_block \/ text = "--list-block"
             /\ o.packets <=> text = "--packets" \/ (opts.packets /\ text # "--info")
             /\ o.flash <=> text = "--flash" \/ (opts.flash /\ text # "--info")
             /\ o.usb_ffu <=> opts.usb_ffu \/ text \in {"--usb-ffu", "--usb"}
             /\ o.yes <=> opts.yes \/ text = "--yes"
             /\ o.target = opts.target
             /\ o.path = IF text \notin Flags /\ opts.path = NoToken THEN token
                                                                     ELSE opts.path
<1> DEFINE o == Effect(text)
<1>1. CASE text \in {"--help", "-h"}
  <2>1. o = [opts EXCEPT !.help = TRUE]
    BY <1>1 DEF Effect
  <2> QED BY <1>1, <2>1 DEF OptionsTyped, Flags
<1>2. CASE text = "--list-block"
  <2>1. o = [opts EXCEPT !.list_block = TRUE]
    BY <1>2 DEF Effect
  <2> QED BY <1>2, <2>1 DEF OptionsTyped, Flags
<1>3. CASE text = "--packets"
  <2>1. o = [opts EXCEPT !.packets = TRUE]
    BY <1>3 DEF Effect
  <2> QED BY <1>3, <2>1 DEF OptionsTyped, Flags
<1>4. CASE text = "--info"
  <2>1. o = [opts EXCEPT !.packets = FALSE, !.flash = FALSE]
    BY <1>4 DEF Effect, Info
  <2> QED BY <1>4, <2>1 DEF OptionsTyped, Flags
<1>5. CASE text = "--flash"
  <2>1. o = [opts EXCEPT !.flash = TRUE]
    BY <1>5 DEF Effect
  <2> QED BY <1>5, <2>1 DEF OptionsTyped, Flags
<1>6. CASE text \in {"--usb-ffu", "--usb"}
  <2>1. o = [opts EXCEPT !.usb_ffu = TRUE]
    BY <1>6 DEF Effect
  <2> QED BY <1>6, <2>1 DEF OptionsTyped, Flags
<1>7. CASE text = "--yes"
  <2>1. o = [opts EXCEPT !.yes = TRUE]
    BY <1>7 DEF Effect
  <2> QED BY <1>7, <2>1 DEF OptionsTyped, Flags
<1>8. CASE text \notin Flags
  <2>1. o = [opts EXCEPT !.path = IF opts.path = NoToken THEN token ELSE opts.path]
    BY <1>8 DEF Effect, Flags
  <2> QED BY <1>8, <2>1 DEF OptionsTyped, Flags
<1> QED BY <1>1, <1>2, <1>3, <1>4, <1>5, <1>6, <1>7, <1>8 DEF Flags

\* Each step of parse_options.
LEMMA SkipNameIInv ==
  ASSUME OptionsIInv, SkipName
  PROVE  OptionsIInv'
<1>1. /\ parsing = "tokens" /\ line # NoLoadOptions /\ pos < Len(line) /\ IsName
      /\ opts' = opts /\ expect_target' = expect_target /\ pos' = pos + 1
      /\ line' = line /\ parsing' = parsing
  BY DEF SkipName, Reading, Next_token
<1>2. LineSoFar /\ OptsSoFar /\ OptionsTyped
  BY <1>1 DEF OptionsIInv
<1>3. /\ pos + 1 \notin Options /\ pos + 1 \notin Given /\ pos + 1 \notin Paths
      /\ pos + 1 \notin Tokens
  BY <1>1, <1>2, NextFacts
<1>4. ~expect_target
  <2>1. pos = 0 /\ 0 \notin Tokens
    BY <1>1, <1>2, LineFacts DEF IsName, LineSoFar
  <2> QED BY <2>1, <1>2 DEF LineSoFar
<1>5. LineSoFar'
  BY <1>1, <1>2, <1>3, <1>4, ReadWell
<1>6. OptsSoFar'
  <2> DEFINE IsOption == pos + 1 \in Options
  <2>1. IsOption = FALSE
    BY <1>3
  <2> QED BY <1>1, <1>2, <1>3, <2>1, ReadOn
<1>7. OptionsTyped'
  BY <1>1, <1>2 DEF OptionsTyped
<1> QED BY <1>1, <1>5, <1>6, <1>7 DEF OptionsIInv, OptionsAsGiven

\* A number is taken.
LEMMA TargetTaken ==
  ASSUME OptionsTyped, NEW digits, digits # <<>>, SetTarget(digits)
  PROVE  /\ OptionsTyped'
         /\ pos' = pos + 1 /\ expect_target' = FALSE /\ UNCHANGED <<line, parsing>>
         /\ opts'.target = parse_uint_token(digits)
         /\ opts'.path = opts.path
         /\ opts'.help = opts.help /\ opts'.list_block = opts.list_block
         /\ opts'.packets = opts.packets /\ opts'.flash = opts.flash
         /\ opts'.usb_ffu = opts.usb_ffu /\ opts'.yes = opts.yes
<1>1. /\ opts' = [opts EXCEPT !.target = parse_uint_token(digits)]
      /\ pos' = pos + 1 /\ expect_target' = FALSE /\ UNCHANGED <<line, parsing>>
  BY DEF SetTarget, Next_token
<1> HIDE DEF parse_uint_token
<1> DEFINE number == parse_uint_token(digits)
<1>2. opts' = [help |-> opts.help, list_block |-> opts.list_block, packets |-> opts.packets,
               flash |-> opts.flash, usb_ffu |-> opts.usb_ffu, yes |-> opts.yes,
               target |-> number, path |-> opts.path]
  BY <1>1 DEF OptionsTyped
<1> HIDE DEF number
<1> QED BY <1>1, <1>2 DEF OptionsTyped, number

LEMMA TakeTargetIInv ==
  ASSUME OptionsIInv, TakeTarget
  PROVE  OptionsIInv'
<1> DEFINE number == IF token.text = "number" THEN token.digits ELSE <<>>
<1>1. /\ parsing = "tokens" /\ line # NoLoadOptions /\ pos < Len(line) /\ ~IsName
      /\ expect_target /\ SetTarget(number)
  BY DEF TakeTarget, Reading
<1>2. LineSoFar /\ OptsSoFar /\ OptionsTyped
  BY <1>1 DEF OptionsIInv
<1>3. /\ pos + 1 \notin Options /\ pos + 1 \in Given /\ pos + 1 \notin Paths
      /\ pos + 1 \in Tokens /\ pos + 1 \in 1 .. Len(line)
  BY <1>1, <1>2, NextFacts
<1>4. CASE token.text = "number"
  <2>1. number = token.digits /\ number # <<>>
    BY <1>2, <1>3, <1>4, LineFacts DEF LineSoFar, token
  <2> HIDE DEF number
  <2>2. /\ OptionsTyped'
        /\ pos' = pos + 1 /\ expect_target' = FALSE /\ UNCHANGED <<line, parsing>>
        /\ opts'.target = parse_uint_token(token.digits)
        /\ opts'.path = opts.path
        /\ opts'.help = opts.help /\ opts'.list_block = opts.list_block
        /\ opts'.packets = opts.packets /\ opts'.flash = opts.flash
        /\ opts'.usb_ffu = opts.usb_ffu /\ opts'.yes = opts.yes
    BY <1>1, <1>2, <2>1, TargetTaken
  <2>3. LineSoFar'
    BY <1>1, <1>2, <1>4, <2>2, ReadWell
  <2>4. OptsSoFar'
    <3> DEFINE IsOption == pos + 1 \in Options
    <3>1. IsOption = FALSE
      BY <1>3
    <3>2. opts'.target = parse_uint_token(line[pos + 1].digits)
      BY <2>2 DEF token
    <3> QED BY <1>1, <1>2, <1>3, <2>2, <3>1, <3>2, ReadOn
  <2> QED BY <1>1, <2>2, <2>3, <2>4 DEF OptionsIInv, OptionsAsGiven
<1>5. CASE token.text # "number"
  <2>1. number = <<>>
    BY <1>5
  <2>2. parsing' = "invalid" /\ UNCHANGED <<line, opts>>
    BY <1>1, <2>1 DEF SetTarget
  <2>3. ~WellFormed
    BY <1>1, <1>2, <1>5, RefusedIsMalformed
  <2>4. ~WellFormed' /\ OptionsTyped'
    BY <1>2, <2>2, <2>3 DEF WellFormed, Tokens, OptionsTyped
  <2> QED BY <2>2, <2>4 DEF OptionsIInv, OptionsAsGiven
<1> QED BY <1>4, <1>5

LEMMA TakeOptionIInv ==
  ASSUME OptionsIInv, TakeOption
  PROVE  OptionsIInv'
<1>1. /\ parsing = "tokens" /\ line # NoLoadOptions /\ pos < Len(line) /\ ~IsName
      /\ ~expect_target
  BY DEF TakeOption, Reading
<1>2. LineSoFar /\ OptsSoFar /\ OptionsTyped
  BY <1>1 DEF OptionsIInv
<1>3. /\ pos + 1 \in Options /\ pos + 1 \in Tokens /\ pos + 1 \in 1 .. Len(line)
      /\ (pos + 1 \in Given <=> token.text = "--target=")
      /\ (pos + 1 \in Paths <=> token.text \notin Flags)
  BY <1>1, <1>2, NextFacts
<1> DEFINE IsOption == pos + 1 \in Options
           text == token.text
<1>4. text = line[pos + 1].text /\ IsOption = TRUE /\ token = line[pos + 1]
  BY <1>3 DEF token
<1>5. CASE text = "--target"
  <2>1. opts' = opts /\ expect_target' = TRUE /\ pos' = pos + 1 /\ UNCHANGED <<line, parsing>>
    BY <1>5 DEF TakeOption, Next_token
  <2>2. LineSoFar'
    BY <1>1, <1>2, <1>3, <1>5, <2>1, ReadWell
  <2>3. OptsSoFar'
    <3>1. pos + 1 \notin Given /\ pos + 1 \notin Paths
      BY <1>3, <1>5 DEF Flags
    <3> HIDE DEF text
    <3> QED BY <1>1, <1>2, <1>4, <1>5, <2>1, <3>1, ReadOn
  <2>4. OptionsTyped'
    BY <1>2, <2>1 DEF OptionsTyped
  <2> QED BY <1>1, <2>1, <2>2, <2>3, <2>4 DEF OptionsIInv, OptionsAsGiven
<1>6. CASE text = "--target="
  <2>1. SetTarget(token.digits)
    BY <1>6 DEF TakeOption
  <2>2. CASE token.digits = <<>>
    <3>1. parsing' = "invalid" /\ UNCHANGED <<line, opts>>
      BY <2>1, <2>2 DEF SetTarget
    <3>2. ~WellFormed
      BY <1>1, <1>2, <1>6, <2>2, RefusedIsMalformed
    <3>3. ~WellFormed' /\ OptionsTyped'
      BY <1>2, <3>1, <3>2 DEF WellFormed, Tokens, OptionsTyped
    <3> QED BY <3>1, <3>3 DEF OptionsIInv, OptionsAsGiven
  <2>3. CASE token.digits # <<>>
    <3>1. /\ OptionsTyped'
          /\ pos' = pos + 1 /\ expect_target' = FALSE /\ UNCHANGED <<line, parsing>>
          /\ opts'.target = parse_uint_token(token.digits)
          /\ opts'.path = opts.path
          /\ opts'.help = opts.help /\ opts'.list_block = opts.list_block
          /\ opts'.packets = opts.packets /\ opts'.flash = opts.flash
          /\ opts'.usb_ffu = opts.usb_ffu /\ opts'.yes = opts.yes
      BY <1>2, <2>1, <2>3, TargetTaken
    <3>2. LineSoFar'
      BY <1>1, <1>2, <1>3, <1>6, <2>3, <3>1, ReadWell
    <3>3. OptsSoFar'
      <4>1. pos + 1 \in Given /\ pos + 1 \notin Paths
        BY <1>3, <1>6 DEF Flags
      <4>2. opts'.target = parse_uint_token(line[pos + 1].digits)
        BY <3>1 DEF token
      <4> HIDE DEF text
      <4> QED BY <1>1, <1>2, <1>4, <1>6, <3>1, <4>1, <4>2, ReadOn
    <3> QED BY <1>1, <3>1, <3>2, <3>3 DEF OptionsIInv, OptionsAsGiven
  <2> QED BY <2>2, <2>3
<1>7. CASE text \notin {"--target", "--target="}
  <2>1. /\ opts' = Effect(text) /\ expect_target' = FALSE /\ pos' = pos + 1
        /\ UNCHANGED <<line, parsing>>
    BY <1>7 DEF TakeOption, Next_token
  <2>2. LineSoFar'
    BY <1>1, <1>2, <1>3, <1>7, <2>1, ReadWell
  <2> HIDE DEF text
  <2>3. /\ OptionsTyped'
        /\ opts'.help <=> opts.help \/ text \in {"--help", "-h"}
        /\ opts'.list_block <=> opts.list_block \/ text = "--list-block"
        /\ opts'.packets <=> text = "--packets" \/ (opts.packets /\ text # "--info")
        /\ opts'.flash <=> text = "--flash" \/ (opts.flash /\ text # "--info")
        /\ opts'.usb_ffu <=> opts.usb_ffu \/ text \in {"--usb-ffu", "--usb"}
        /\ opts'.yes <=> opts.yes \/ text = "--yes"
        /\ opts'.target = opts.target
        /\ opts'.path = IF text \notin Flags /\ opts.path = NoToken THEN token ELSE opts.path
    BY <1>2, <1>7, <2>1, EffectFacts DEF OptionsTyped
  <2>4. OptsSoFar'
    <3>1. pos + 1 \notin Given
      BY <1>3, <1>7 DEF text
    <3>2. opts'.path = IF pos + 1 \in Paths /\ opts.path = NoToken THEN line[pos + 1]
                                                                  ELSE opts.path
      BY <1>3, <1>4, <2>3 DEF text
    <3>3. /\ opts'.help <=> opts.help \/ (IsOption /\ text \in {"--help", "-h"})
          /\ opts'.list_block <=> opts.list_block \/ (IsOption /\ text = "--list-block")
          /\ opts'.packets <=> (IsOption /\ text = "--packets")
                       \/ (opts.packets /\ ~(IsOption /\ text = "--info"))
          /\ opts'.flash <=> (IsOption /\ text = "--flash")
                     \/ (opts.flash /\ ~(IsOption /\ text = "--info"))
          /\ opts'.usb_ffu <=> opts.usb_ffu \/ (IsOption /\ text \in {"--usb-ffu", "--usb"})
          /\ opts'.yes <=> opts.yes \/ (IsOption /\ text = "--yes")
          /\ opts'.target = IF pos + 1 \in Given
                              THEN parse_uint_token(line[pos + 1].digits) ELSE opts.target
      BY <1>4, <2>3, <3>1
    <3>4. IsOption = (pos + 1 \in Options) /\ text = line[pos + 1].text
      BY <1>4 DEF text
    <3> HIDE DEF IsOption
    <3> QED BY <1>1, <1>2, <2>1, <3>2, <3>3, <3>4, ReadOn
  <2> QED BY <1>1, <2>1, <2>2, <2>3, <2>4 DEF OptionsIInv, OptionsAsGiven
<1> QED BY <1>5, <1>6, <1>7

\* At its end a line that leaves no number to come is well formed.
LEMMA ReadToEnd ==
  ASSUME LineSoFar, pos = Len(line)
  PROVE  WellFormed <=> ~expect_target
<1>1. Len(line) \in Nat /\ Tokens \subseteq 1 .. Len(line) /\ pos + 1 \notin Tokens
  BY LineFacts DEF LineSoFar
<1>2. CASE expect_target
  BY <1>1, <1>2 DEF WellFormed, LineSoFar
<1>3. CASE ~expect_target
  <2>1. ASSUME NEW k \in Tokens
        PROVE  /\ line[k].text = "--target" =>
                    k + 1 \in Tokens /\ line[k + 1].text = "number"
               /\ line[k].text = "--target=" => line[k].digits # <<>>
    <3>1. k <= pos
      BY <1>1
    <3>2. k = pos => line[k].text # "--target"
      BY <1>3, <2>1 DEF LineSoFar
    <3> QED BY <2>1, <3>1, <3>2 DEF LineSoFar
  <2> QED BY <1>3, <2>1 DEF WellFormed
<1> QED BY <1>2, <1>3

\* At the end, what has been read is what the line says.
LEMMA SaidAtEnd ==
  ASSUME LineSoFar, pos = Len(line), NEW text
  PROVE  /\ SaidIn(line, Options, pos, text) <=> Says(text)
         /\ StandsIn(line, Options, pos, text) <=> Stands(text)
<1>1. \A k \in Options : k <= pos
  BY LineFacts DEF LineSoFar
<1> QED BY <1>1 DEF SaidIn, Says, StandsIn, Stands

\* The last number there is, as parse_uint_token reads it.
LEMMA TargetAtEnd ==
  ASSUME LineSoFar, pos = Len(line), NEW t, TargetIn(line, Given, pos, t)
  PROVE  /\ t = IF Given = {} THEN -1 ELSE AsInt(Typed % Word)
         /\ Given # {} => Typed \in Nat
<1>1. /\ \A k \in Given : k \in Nat /\ ~(k > pos)
      /\ \A k \in Given : line[k].digits \in Seq(0 .. 9)
  BY LineFacts DEF LineSoFar
<1>2. CASE Given = {}
  BY <1>2 DEF TargetIn
<1>3. CASE Given # {}
  <2>1. PICK k \in Given : /\ t = parse_uint_token(line[k].digits)
                           /\ \A j \in Given : j <= k
    BY <1>1, <1>3 DEF TargetIn
  <2>2. (CHOOSE last \in Given : \A j \in Given : j <= last) = k
    <3>1. \A n \in Given : (\A j \in Given : j <= n) => n = k
      BY <1>1, <2>1
    <3> QED BY <2>1, <3>1
  <2>3. Typed = Decimal(line[k].digits)
    BY <2>2 DEF Typed
  <2>4. /\ Decimal(line[k].digits) \in Nat
        /\ parse_uint_token(line[k].digits) = AsInt(Decimal(line[k].digits) % Word)
    BY <1>1, TurnsInWord
  <2> QED BY <1>3, <2>1, <2>3, <2>4
<1> QED BY <1>2, <1>3

\* The first path there is.
LEMMA PathAtEnd ==
  ASSUME LineSoFar, pos = Len(line), NEW path, PathIn(line, Paths, pos, path)
  PROVE  path = IF Paths = {} THEN NoToken
                ELSE line[CHOOSE k \in Paths : \A j \in Paths : k <= j]
<1>1. \A k \in Paths : k \in Nat /\ ~(k > pos)
  BY LineFacts DEF LineSoFar
<1>2. CASE Paths = {}
  BY <1>2 DEF PathIn
<1>3. CASE Paths # {}
  <2>1. PICK k \in Paths : path = line[k] /\ \A j \in Paths : k <= j
    BY <1>1, <1>3 DEF PathIn
  <2>2. (CHOOSE first \in Paths : \A j \in Paths : first <= j) = k
    <3>1. \A n \in Paths : (\A j \in Paths : n <= j) => n = k
      BY <1>1, <2>1
    <3> QED BY <2>1, <3>1
  <2>3. line[CHOOSE first \in Paths : \A j \in Paths : first <= j] = line[k]
    BY <2>2, Zenon
  <2> QED BY <1>3, <2>1, <2>3, Zenon
<1> QED BY <1>2, <1>3

\* The end of the line, and what the options then are.
LEMMA DescribedAtEnd ==
  ASSUME LineSoFar, OptsSoFar, OptionsTyped, pos = Len(line)
  PROVE  opts = Described
<1>1. line # NoLoadOptions
  BY LineFacts DEF LineSoFar
<1>2. /\ opts.help <=> Says("--help") \/ Says("-h")
      /\ opts.list_block <=> Says("--list-block")
      /\ opts.usb_ffu <=> Says("--usb-ffu") \/ Says("--usb")
      /\ opts.yes <=> Says("--yes")
      /\ opts.packets <=> Stands("--packets")
      /\ opts.flash <=> Stands("--flash")
  BY SaidAtEnd DEF OptsSoFar
<1>3. opts.target = IF Given = {} THEN -1 ELSE AsInt(Typed % Word)
  BY TargetAtEnd DEF OptsSoFar
<1>4. opts.path = IF Paths = {} THEN NoToken
                  ELSE line[CHOOSE k \in Paths : \A j \in Paths : k <= j]
  BY PathAtEnd DEF OptsSoFar
<1>5. /\ opts.help \in BOOLEAN /\ opts.list_block \in BOOLEAN /\ opts.usb_ffu \in BOOLEAN
      /\ opts.yes \in BOOLEAN /\ opts.packets \in BOOLEAN /\ opts.flash \in BOOLEAN
  BY DEF OptionsTyped
<1>6. \A text : Says(text) \in BOOLEAN /\ Stands(text) \in BOOLEAN
  BY Zenon DEF Says, Stands
<1>7. opts.help = (Says("--help") \/ Says("-h") \/ line = NoLoadOptions)
  BY <1>1, <1>2, <1>5, Zenon
<1>8. opts.list_block = Says("--list-block") /\ opts.yes = Says("--yes")
  BY <1>2, <1>5, <1>6, Zenon
<1>9. opts.usb_ffu = (Says("--usb-ffu") \/ Says("--usb"))
  BY <1>2, <1>5, <1>6, Zenon
<1>10. opts.packets = Stands("--packets") /\ opts.flash = Stands("--flash")
  BY <1>2, <1>5, <1>6, Zenon
<1>11. Described =
         [help |-> opts.help, list_block |-> opts.list_block, packets |-> opts.packets,
          flash |-> opts.flash, usb_ffu |-> opts.usb_ffu, yes |-> opts.yes,
          target |-> opts.target, path |-> opts.path]
  BY <1>3, <1>4, <1>7, <1>8, <1>9, <1>10, Zenon DEF Described
<1> QED BY <1>11 DEF OptionsTyped

\* What the line means does not change while it does not.
LEMMA LineKept ==
  ASSUME line' = line
  PROVE  /\ Tokens' = Tokens /\ Options' = Options /\ Given' = Given /\ Paths' = Paths
         /\ Typed' = Typed /\ WellFormed' = WellFormed /\ Described' = Described
<1>1. Tokens' = Tokens /\ Given' = Given /\ Options' = Options
  BY DEF Tokens, Given, Options, IsValue
<1>2. Typed' = Typed /\ Paths' = Paths
  BY <1>1, Zenon DEF Typed, Paths
<1>3. WellFormed' = WellFormed
  BY <1>1, Zenon DEF WellFormed
<1>4. \A text : Says(text)' = Says(text) /\ Stands(text)' = Stands(text)
  BY <1>1, Zenon DEF Says, Stands
<1> DEFINE help == Says("--help") \/ Says("-h") \/ line = NoLoadOptions
           usb == Says("--usb-ffu") \/ Says("--usb")
           TargetGiven == IF Given = {} THEN -1 ELSE AsInt(Typed % Word)
           PathGiven == IF Paths = {} THEN NoToken
                   ELSE line[CHOOSE k \in Paths : \A j \in Paths : k <= j]
<1>5. help' = help /\ usb' = usb
  BY <1>4, Zenon DEF NoLoadOptions, NoToken
<1>6. TargetGiven' = TargetGiven
  BY <1>1, <1>2, Zenon DEF AsInt
<1>7. PathGiven' = PathGiven
  <2>1. (CHOOSE k \in Paths : \A j \in Paths : k <= j)' =
           CHOOSE k \in Paths : \A j \in Paths : k <= j
    BY <1>2, Zenon
  <2> DEFINE place == CHOOSE k \in Paths : \A j \in Paths : k <= j
  <2>2. place' = place
    BY <2>1
  <2> HIDE DEF place
  <2>3. (IF Paths = {} THEN NoToken ELSE line[place])' =
           IF Paths = {} THEN NoToken ELSE line[place]
    BY <1>2, <2>2 DEF NoToken
  <2> QED BY <2>3 DEF place
<1>8. Described =
        [help |-> help, list_block |-> Says("--list-block"), packets |-> Stands("--packets"),
         flash |-> Stands("--flash"), usb_ffu |-> usb, yes |-> Says("--yes"),
         target |-> TargetGiven, path |-> PathGiven]
  BY Zenon DEF Described
<1>9. Described' =
        [help |-> help, list_block |-> Says("--list-block"), packets |-> Stands("--packets"),
         flash |-> Stands("--flash"), usb_ffu |-> usb, yes |-> Says("--yes"),
         target |-> TargetGiven, path |-> PathGiven]'
  BY Zenon DEF Described
<1> HIDE DEF help, usb, TargetGiven, PathGiven
<1>10. Described' = Described
  BY <1>4, <1>5, <1>6, <1>7, <1>8, <1>9, Zenon
<1> QED BY <1>1, <1>2, <1>3, <1>10

LEMMA EndOfLineIInv ==
  ASSUME OptionsIInv, EndOfLine
  PROVE  OptionsIInv'
<1>1. /\ parsing = "tokens"
      /\ parsing' = IF expect_target THEN "invalid" ELSE "parsed"
      /\ opts' = [opts EXCEPT !.help = opts.help \/ line = NoLoadOptions]
      /\ line' = line
  BY DEF EndOfLine
<1>2. OptionsTyped
  BY DEF OptionsIInv
<1>3. /\ Tokens' = Tokens /\ Given' = Given /\ Typed' = Typed
      /\ WellFormed' = WellFormed /\ Described' = Described
  BY <1>1, LineKept
<1>4. CASE line = NoLoadOptions
  <2>1. opts = NoOptions /\ ~expect_target
    BY <1>1, <1>4 DEF OptionsIInv
  <2>2. Tokens = {} /\ Options = {} /\ Given = {} /\ Paths = {}
    BY <1>4 DEF Tokens, Options, Given, Paths
  <2>3. WellFormed
    BY <2>2 DEF WellFormed
  <2>4. \A text : Says(text) = FALSE /\ Stands(text) = FALSE
    BY <2>2 DEF Says, Stands
  <2>5. Described = [NoOptions EXCEPT !.help = TRUE]
    <3>1. (Says("--help") \/ Says("-h") \/ line = NoLoadOptions) = TRUE
      BY <1>4, Zenon
    <3>2. /\ Says("--list-block") = FALSE /\ Says("--yes") = FALSE
          /\ (Says("--usb-ffu") \/ Says("--usb")) = FALSE
          /\ Stands("--packets") = FALSE /\ Stands("--flash") = FALSE
      BY <2>4, Zenon
    <3>3. Described =
            [help |-> TRUE, list_block |-> FALSE, packets |-> FALSE, flash |-> FALSE,
             usb_ffu |-> FALSE, yes |-> FALSE, target |-> -1, path |-> NoToken]
      BY <2>2, <3>1, <3>2, Zenon DEF Described
    <3> DEFINE target == -1
               yes == TRUE
               no == FALSE
    <3>4. Described =
            [help |-> yes, list_block |-> no, packets |-> no, flash |-> no,
             usb_ffu |-> no, yes |-> no, target |-> target, path |-> NoToken]
      BY <3>3
    <3>5. NoOptions =
            [help |-> no, list_block |-> no, packets |-> no, flash |-> no,
             usb_ffu |-> no, yes |-> no, target |-> target, path |-> NoToken]
      BY DEF NoOptions
    <3> HIDE DEF target, yes, no
    <3>6. Described = [NoOptions EXCEPT !.help = yes]
      BY <3>4, <3>5
    <3> QED BY <3>6 DEF yes
  <2>6. opts' = [NoOptions EXCEPT !.help = TRUE]
    BY <1>1, <1>4, <2>1
  <2>7. OptionsTyped'
    BY <2>6 DEF OptionsTyped, NoOptions
  <2> QED BY <1>1, <1>3, <2>1, <2>2, <2>3, <2>5, <2>6, <2>7 DEF OptionsIInv, OptionsAsGiven
<1>5. CASE line # NoLoadOptions
  <2>1. pos = Len(line) /\ LineSoFar /\ OptsSoFar
    BY <1>1, <1>5 DEF EndOfLine, OptionsIInv
  <2>2. (opts.help \/ line = NoLoadOptions) = opts.help
    BY <1>2, <1>5, Zenon DEF OptionsTyped
  <2>3. opts' = opts
    <3>1. opts' = [opts EXCEPT !.help = opts.help]
      BY <1>1, <2>2, Zenon
    <3> QED BY <1>2, <3>1 DEF OptionsTyped
  <2>4. OptionsTyped'
    BY <1>2, <2>3 DEF OptionsTyped
  <2>5. WellFormed <=> ~expect_target
    BY <2>1, ReadToEnd
  <2>6. opts = Described
    BY <1>2, <2>1, DescribedAtEnd
  <2>7. Given # {} => Typed \in Nat
    BY <2>1, TargetAtEnd DEF OptsSoFar
  <2>8. opts' = Described'
    BY <1>3, <2>3, <2>6
  <2>9. /\ parsing' = "parsed" => WellFormed'
        /\ parsing' = "invalid" => ~WellFormed'
        /\ parsing' \in {"parsed", "invalid"}
        /\ Given' # {} => Typed' \in Nat
    BY <1>1, <1>3, <2>5, <2>7
  <2> QED BY <2>4, <2>8, <2>9 DEF OptionsIInv, OptionsAsGiven
<1> QED BY <1>4, <1>5

LEMMA OptionsInitIInv == OptionsInit => OptionsIInv
<1> SUFFICES ASSUME OptionsInit PROVE OptionsIInv
  OBVIOUS
<1>1. /\ line \in CommandLines \cup {NoLoadOptions}
      /\ pos = 0 /\ expect_target = FALSE /\ opts = NoOptions /\ parsing = "tokens"
  BY DEF OptionsInit
<1>2. OptionsTyped
  BY <1>1 DEF OptionsTyped, NoOptions
<1>3. CASE line # NoLoadOptions
  <2>1. line \in CommandLines
    BY <1>1, <1>3
  <2>2. /\ Len(line) \in Nat
        /\ \A k \in Tokens \cup Options \cup Given \cup Paths : k \in Nat /\ ~(k <= 0)
    BY <2>1, LineFacts
  <2>3. LineSoFar
    BY <1>1, <2>1, <2>2 DEF LineSoFar
  <2>4. \A text : ~SaidIn(line, Options, 0, text) /\ ~StandsIn(line, Options, 0, text)
    BY <2>2 DEF SaidIn, StandsIn
  <2>5. TargetIn(line, Given, 0, -1) /\ PathIn(line, Paths, 0, NoToken)
    BY <2>2 DEF TargetIn, PathIn
  <2>6. OptsSoFar
    BY <1>1, <2>4, <2>5 DEF OptsSoFar, NoOptions
  <2> QED BY <1>1, <1>2, <1>3, <2>3, <2>6 DEF OptionsIInv, OptionsAsGiven
<1> QED BY <1>1, <1>2, <1>3 DEF OptionsIInv, OptionsAsGiven

LEMMA OptionsKept == OptionsIInv /\ UNCHANGED optionVars => OptionsIInv'
<1> SUFFICES ASSUME OptionsIInv, UNCHANGED optionVars PROVE OptionsIInv'
  OBVIOUS
<1>1. line' = line /\ pos' = pos /\ expect_target' = expect_target /\ opts' = opts
      /\ parsing' = parsing
  BY DEF optionVars
<1>2. /\ Tokens' = Tokens /\ Options' = Options /\ Given' = Given /\ Paths' = Paths
      /\ Typed' = Typed /\ WellFormed' = WellFormed /\ Described' = Described
  BY <1>1, LineKept
<1>3. OptionsTyped' <=> OptionsTyped
  BY <1>1 DEF OptionsTyped
<1>4. LineSoFar' <=> LineSoFar
  BY <1>1, <1>2 DEF LineSoFar
<1>5. OptsSoFar' <=> OptsSoFar
  BY <1>1, <1>2, Zenon DEF OptsSoFar
<1> QED BY <1>1, <1>2, <1>3, <1>4, <1>5 DEF OptionsIInv, OptionsAsGiven

LEMMA ParseIInv == OptionsIInv /\ ParseOptions => OptionsIInv'
BY SkipNameIInv, TakeTargetIInv, TakeOptionIInv, EndOfLineIInv DEF ParseOptions

-------------------------------------------------------------------------------
(* The call of FileFlash. *)

\* Nothing has been called: the loops of FileFlash stand where a call finds them.
Idle ==
  /\ GoodPlan
  /\ commit = FALSE
  /\ disk \in [Address -> Data]
  /\ i = 0 /\ l = 0 /\ done = 0
  /\ status = EFI_SUCCESS
  /\ flushed = FALSE

\* Before the call, and from the call on.
CallSound ==
  /\ phase \notin {"flashing", "close", "exit"} => at = "idle"
  /\ at = "idle" => Idle
  /\ at # "idle" => IInv

MainIInv == OptionsIInv /\ CallSound

LEMMA MainInitIInv == MainInit => MainIInv
<1> SUFFICES ASSUME MainInit PROVE MainIInv
  OBVIOUS
<1>1. OptionsIInv
  BY OptionsInitIInv DEF MainInit
<1>2. Idle
  BY FileAssumption DEF MainInit, Idle, GoodPlan
<1>3. CallSound
  BY <1>2 DEF MainInit, CallSound
<1> QED BY <1>1, <1>3 DEF MainIInv

\* A call of the function finds its loops where they start.
LEMMA CalledStart == Start' => IInv'
BY StartIInv, PTL

LEMMA CallIInv ==
  ASSUME OptionsIInv, Idle, Call
  PROVE  Start' /\ at' # "idle"
<1>1. /\ at' = "entry" /\ commit' = opts.yes
      /\ UNCHANGED <<plan, disk, i, l, done, status, flushed>>
  BY DEF Call
<1>2. opts.yes \in BOOLEAN
  BY DEF OptionsIInv, OptionsTyped
<1> QED BY <1>1, <1>2 DEF Idle, Start, GoodPlan

\* Steps outside the function leave its state alone.
LEMMA CallKept ==
  ASSUME CallSound, UNCHANGED vars,
         phase' \notin {"flashing", "close", "exit"} =>
           phase \notin {"flashing", "close", "exit"}
  PROVE  CallSound'
<1>1. UNCHANGED <<plan, commit, disk, i, l, done, at, status, flushed>>
  BY DEF vars, given
<1>2. at = "idle" => Idle'
  BY <1>1 DEF CallSound, Idle, GoodPlan
<1>3. at # "idle" => IInv'
  BY StutterIInv DEF CallSound
<1> QED BY <1>1, <1>2, <1>3 DEF CallSound

\* The steps of EfiMain's own, from one place to the next.
OwnStep ==
  \/ ReadOptions \/ OptionsRead
  \/ Command \/ Prepare \/ Plan
  \/ UsbLoop

LEMMA OwnStepOnward ==
  ASSUME OwnStep
  PROVE  phase' \notin {"flashing", "close", "exit"} =>
           phase \notin {"flashing", "close", "exit"}
BY DEF OwnStep, ReadOptions, mainVars, OptionsRead, Command, Usage, ListBlocks, UsbMode, FileMode,
       Prepare, MakePath, OpenVolume, OpenFile, FileSize, SizeFails, ParseFile,
       Plan, PacketDryRun, NoFlash, FlashReturns, CloseFile, UsbLoop, Go, Exit, Close

\* The steps there are: one of EfiMain's own, the call, or one of the function called.
LEMMA MainCases ==
  ASSUME MainNext
  PROVE  \/ OwnStep /\ UNCHANGED vars /\ (ParseOptions \/ UNCHANGED optionVars)
         \/ StartFlash /\ UNCHANGED optionVars
         \/ Flash(Next)
<1>1. ReadOptions => ParseOptions
  BY DEF ReadOptions
<1>2. OptionsRead => UNCHANGED optionVars
  BY DEF OptionsRead
<1>3. UNCHANGED <<vars, optionVars>> => UNCHANGED vars /\ UNCHANGED optionVars
  OBVIOUS
<1>4. CASE MainStep
  BY <1>1, <1>2, <1>3, <1>4, Zenon DEF MainStep, OwnStep
<1>5. CASE UsbLoop /\ UNCHANGED <<vars, optionVars>>
  BY <1>3, <1>5 DEF OwnStep
<1> QED BY <1>4, <1>5 DEF MainNext

LEMMA MainStepIInv == MainIInv /\ [MainNext]_allVars => MainIInv'
<1> SUFFICES ASSUME MainIInv, [MainNext]_allVars PROVE MainIInv'
  OBVIOUS
<1>1. OptionsIInv /\ CallSound
  BY DEF MainIInv
<1>2. UNCHANGED optionVars => OptionsIInv'
  BY <1>1, OptionsKept
<1>3. CASE OwnStep /\ UNCHANGED vars /\ (ParseOptions \/ UNCHANGED optionVars)
  <2>1. OptionsIInv'
    BY <1>1, <1>2, <1>3, ParseIInv
  <2>2. CallSound'
    BY <1>1, <1>3, CallKept, OwnStepOnward
  <2> QED BY <2>1, <2>2 DEF MainIInv
<1>4. CASE StartFlash /\ UNCHANGED optionVars
  <2>1. phase = "flash" /\ phase' \in {"close", "flashing"}
    BY <1>4 DEF StartFlash, Close, Go
  <2>2. CASE UNCHANGED vars
    BY <1>1, <1>2, <1>4, <2>1, <2>2, CallKept DEF MainIInv
  <2>3. CASE Call
    <3>1. Idle
      BY <1>1, <2>1 DEF CallSound
    <3>2. IInv' /\ at' # "idle"
      BY <1>1, <2>3, <3>1, CallIInv, CalledStart
    <3> QED BY <1>2, <1>4, <2>1, <3>2 DEF CallSound, MainIInv
  <2> QED BY <1>4, <2>2, <2>3 DEF StartFlash
<1>5. CASE Flash(Next)
  <2>1. phase = "flashing" /\ phase' = phase /\ UNCHANGED optionVars /\ Next
    BY <1>5 DEF Flash, mainVars
  <2>2. at # "idle" /\ at' # "idle"
    BY <2>1 DEF Next, Step, BeginEntry, BeginLocation, WriteChunk, Advance, EndLocation,
                Finish, ReadFails, WriteFails, Return
  <2>3. IInv'
    BY <1>1, <2>1, <2>2, StepIInv DEF CallSound
  <2> QED BY <1>2, <2>1, <2>2, <2>3 DEF CallSound, MainIInv
<1>6. CASE UNCHANGED allVars
  <2>1. UNCHANGED vars /\ UNCHANGED optionVars /\ UNCHANGED phase
    BY <1>6 DEF allVars, mainVars
  <2> QED BY <1>1, <1>2, <2>1, CallKept DEF MainIInv
<1> QED BY <1>3, <1>4, <1>5, <1>6, MainCases

\* Token by token, the app finds what the command line says as a whole, and refuses
\* only a line with a target that is no number.
THEOREM AppOptionsAsGiven == MainSpec => []OptionsAsGiven
<1>1. MainIInv => OptionsAsGiven
  BY DEF MainIInv, OptionsIInv
<1> QED BY <1>1, MainInitIInv, MainStepIInv, PTL DEF MainSpec

\* The app that flashes a file reports success only with the whole image on the
\* target and flushed.
THEOREM AppSuccessIsImage == MainSpec => []SuccessMeansImage
<1>1. MainIInv => SuccessMeansImage
  <2>1. at = "idle" => SuccessMeansImage
    BY DEF SuccessMeansImage
  <2> QED BY <2>1, SuccessSound DEF MainIInv, CallSound
<1> QED BY <1>1, MainInitIInv, MainStepIInv, PTL DEF MainSpec

\* What the app tells of a plan without --yes holds of a run with it.
THEOREM AppDryRunTells == MainSpec => []DryRunForetells
<1>1. MainIInv => DryRunForetells
  <2>1. at = "idle" => DryRunForetells
    BY DEF DryRunForetells
  <2> QED BY <2>1, DryRunSound DEF MainIInv, CallSound
<1> QED BY <1>1, MainInitIInv, MainStepIInv, PTL DEF MainSpec

\* Whatever the command line and whatever fails, the only thing the app does to a
\* disk is to write an image to it, in order.
THEOREM AppWritesImage == MainSpec => WritesImage
<1>1. MainInit => Image!Init
  BY FileAssumption DEF MainInit, Image!Init
<1>2. MainIInv /\ [MainNext]_allVars => [Image!Next]_(Image!vars)
  <2> SUFFICES ASSUME MainIInv, [MainNext]_allVars PROVE [Image!Next]_(Image!vars)
    OBVIOUS
  <2>1. CASE UNCHANGED vars
    <3>1. UNCHANGED <<plan, commit, disk, i, l, at>>
      BY <2>1 DEF vars, given
    <3>2. received' = received
      BY <3>1 DEF received, First, EntryCount
    <3> QED BY <3>1, <3>2, Unseen
  <2>2. CASE StartFlash /\ Call
    <3>1. Idle /\ at = "idle"
      BY <2>2 DEF MainIInv, CallSound, StartFlash
    <3>2. /\ UNCHANGED <<plan, disk, i, l>> /\ i = 0 /\ l = 0 /\ at' = "entry"
          /\ commit = FALSE
      BY <2>2, <3>1 DEF Call, Idle
    <3>3. First(0) = 0 /\ First(0) \in 0 .. Len(Payload) /\ GoodPlan
      BY <3>1, PlanFacts DEF Idle
    <3>4. SubSeq(Payload, 1, First(0)) = <<>>
      BY <3>3, StreamFacts
    <3>5. (IF commit THEN SubSeq(Payload, 1, First(IF at = "entry" THEN i ELSE i + 1))
                     ELSE <<>>)' = <<>>
      BY <3>2, <3>4 DEF First, EntryCount
    <3> QED BY <3>2, <3>5 DEF Image!vars
  <2>3. CASE Flash(Next)
    <3>1. Next /\ at # "idle"
      BY <2>3 DEF Flash, Next, Step, BeginEntry, BeginLocation, WriteChunk, EndLocation,
                  Finish, ReadFails, WriteFails
    <3> QED BY <3>1, StepIsStep DEF MainIInv, CallSound
  <2>4. UNCHANGED allVars => UNCHANGED vars
    BY DEF allVars
  <2>5. StartFlash => UNCHANGED vars \/ Call
    BY DEF StartFlash
  <2> QED BY <2>1, <2>2, <2>3, <2>4, <2>5, MainCases
<1> QED BY <1>1, <1>2, MainInitIInv, MainStepIInv, PTL DEF MainSpec, WritesImage, Image!Spec

-------------------------------------------------------------------------------
(* Which disk, and what for. *)

\* What the options ask for.
FileAsked == ~opts.help /\ ~opts.list_block /\ ~opts.usb_ffu /\ opts.path # NoToken
UsbAsked  == ~opts.help /\ ~opts.list_block /\ opts.usb_ffu

\* The places of EfiMain with a file, and those without a disk.
FilePlaces == {"path", "volume", "open", "size", "parse", "plan", "flash", "flashing", "close"}
DiskPlaces == {"usb", "flashing", "close", "exit"}

\* The disk in use is the one the options name, and they ask for what is done to it.
DiskByOptions ==
  bio # NoDisk =>
    /\ parsing = "parsed" /\ bio = opts.target /\ 0 <= bio /\ bio < Disks
    /\ (FileAsked /\ opts.flash) \/ (UsbAsked /\ opts.yes)

\* What has been called was asked for.
CallByOptions ==
  at # "idle" => bio # NoDisk /\ FileAsked /\ opts.flash /\ commit = opts.yes

\* A flash that was asked for has succeeded if the app has.
SuccessByCall ==
  phase = "close" \/ (phase = "exit" /\ parsing = "parsed" /\ FileAsked) =>
    (result = EFI_SUCCESS /\ opts.flash => at = "returned" /\ status = EFI_SUCCESS)

DiskIInv ==
  /\ phase \in {"options", "command", "usb", "exit"} \cup FilePlaces
  /\ parsing \in {"tokens", "parsed", "invalid"}
  /\ phase # "options" => parsing # "tokens"
  /\ phase \notin {"options", "exit"} => parsing = "parsed"
  /\ phase \notin DiskPlaces => bio = NoDisk
  /\ phase \notin {"flashing", "close", "exit"} => at = "idle"
  /\ phase \in FilePlaces => FileAsked
  /\ phase = "usb" => UsbAsked
  /\ DiskByOptions
  /\ CallByOptions
  /\ SuccessByCall

LEMMA TargetTyped ==
  ASSUME OptionsIInv, parsing = "parsed"
  PROVE  opts.target \in Int
<1>1. opts = Described /\ (Given # {} => Typed \in Nat)
  BY DEF OptionsIInv, OptionsAsGiven
<1>2. Described.target = IF Given = {} THEN -1 ELSE AsInt(Typed % Word)
  BY DEF Described
<1>3. Given # {} => Typed % Word \in Nat /\ Word \in Nat
  BY <1>1, WordFacts
<1>4. Given # {} => Word \div 2 \in Int
  BY <1>3
<1> QED BY <1>1, <1>2, <1>3, <1>4 DEF AsInt

LEMMA ErrorFacts ==
  /\ \A e \in Errors : e.error /\ e # EFI_SUCCESS
  /\ EFI_INVALID_PARAMETER # EFI_SUCCESS /\ EFI_INVALID_PARAMETER.error
  /\ EFI_NOT_FOUND # EFI_SUCCESS /\ EFI_NOT_FOUND.error
  /\ EFI_OUT_OF_RESOURCES # EFI_SUCCESS /\ EFI_OUT_OF_RESOURCES.error
  /\ ~EFI_SUCCESS.error
<1>1. \A e \in Errors : e.error
  BY FileAssumption
<1>2. ~EFI_SUCCESS.error
  BY DEF EFI_SUCCESS
<1>3. /\ EFI_INVALID_PARAMETER.error /\ EFI_NOT_FOUND.error /\ EFI_OUT_OF_RESOURCES.error
  BY DEF EFI_INVALID_PARAMETER, EFI_NOT_FOUND, EFI_OUT_OF_RESOURCES, EFIERR
<1> QED BY <1>1, <1>2, <1>3

\* A device that is found is the one the options name.
LEMMA DeviceFound ==
  ASSUME NEW st, NEW device, get_block_device(st, device), ~st.error
  PROVE  device = opts.target /\ opts.target < Disks
BY ErrorFacts DEF get_block_device

LEMMA DiskInit == MainInit => DiskIInv
<1> SUFFICES ASSUME MainInit PROVE DiskIInv
  OBVIOUS
<1>1. parsing = "tokens" /\ phase = "options" /\ bio = NoDisk /\ at = "idle"
  BY DEF MainInit, OptionsInit
<1> QED BY <1>1 DEF DiskIInv, FilePlaces, DiskPlaces, DiskByOptions, CallByOptions, SuccessByCall

\* The options are read without a disk.
LEMMA DiskOptions ==
  ASSUME DiskIInv, UNCHANGED vars, ReadOptions \/ OptionsRead
  PROVE  DiskIInv'
<1>1. at' = at /\ phase = "options" /\ bio = NoDisk /\ at = "idle"
  BY DEF DiskIInv, ReadOptions, OptionsRead, DiskPlaces, vars
<1>2. CASE ReadOptions
  <2>1. phase' = "options" /\ bio' = NoDisk /\ ParseOptions
    BY <1>1, <1>2 DEF ReadOptions, mainVars
  <2>2. parsing' \in {"tokens", "parsed", "invalid"}
    BY <2>1 DEF ParseOptions, SkipName, TakeTarget, TakeOption, EndOfLine, SetTarget, Reading,
                Next_token
  <2> QED BY <1>1, <2>1, <2>2
          DEF DiskIInv, FilePlaces, DiskPlaces, DiskByOptions, CallByOptions, SuccessByCall
<1>3. CASE OptionsRead
  <2>1. /\ bio' = bio /\ parsing' = parsing
        /\ \/ parsing = "invalid" /\ phase' = "exit"
           \/ parsing = "parsed" /\ phase' = "command"
    BY <1>3 DEF OptionsRead, Exit, Hold, optionVars
  <2> QED BY <1>1, <2>1
          DEF DiskIInv, FilePlaces, DiskPlaces, DiskByOptions, CallByOptions, SuccessByCall
<1> QED BY <1>2, <1>3

\* A command finds its disk, or needs none.
LEMMA DiskCommand ==
  ASSUME DiskIInv, OptionsIInv, UNCHANGED <<vars, optionVars>>, Command
  PROVE  DiskIInv'
<1>1. /\ at' = at /\ parsing' = parsing /\ opts' = opts /\ phase = "command"
      /\ bio = NoDisk /\ at = "idle" /\ parsing = "parsed"
  BY DEF DiskIInv, Command, Usage, ListBlocks, UsbMode, FileMode, DiskPlaces, vars, optionVars
<1>2. opts.target \in Int /\ Disks \in Nat
  BY <1>1, TargetTyped, MainAssumption
<1>3. CASE Usage \/ ListBlocks
  <2>1. phase' = "exit" /\ bio' = NoDisk /\ ~FileAsked
    BY <1>1, <1>3 DEF Usage, ListBlocks, Exit, FileAsked
  <2> QED BY <1>1, <2>1
          DEF DiskIInv, FilePlaces, DiskPlaces, DiskByOptions, CallByOptions, SuccessByCall,
              FileAsked
<1>4. CASE UsbMode
  <2>1. CASE NoTarget
    <3>1. phase' = "exit" /\ bio' = NoDisk /\ ~FileAsked
      BY <1>1, <1>4, <2>1 DEF UsbMode, Exit, FileAsked
    <3> QED BY <1>1, <3>1
            DEF DiskIInv, FilePlaces, DiskPlaces, DiskByOptions, CallByOptions, SuccessByCall,
                FileAsked
  <2>2. CASE ~NoTarget
    <3>1. PICK o \in Outcomes :
            /\ get_block_device(o[1], o[2])
            /\ IF o[1].error
                 THEN Exit(o[1], held)
                 ELSE phase' = "usb" /\ bio' = o[2] /\ UNCHANGED <<held, packets, result>>
      BY <1>4, <2>2 DEF UsbMode
    <3>2. CASE o[1].error
      <4>1. phase' = "exit" /\ bio' = NoDisk /\ ~FileAsked
        BY <1>1, <1>4, <3>1, <3>2 DEF UsbMode, Exit, FileAsked
      <4> QED BY <1>1, <4>1
              DEF DiskIInv, FilePlaces, DiskPlaces, DiskByOptions, CallByOptions,
                  SuccessByCall, FileAsked
    <3>3. CASE ~o[1].error
      <4>1. phase' = "usb" /\ bio' = opts.target /\ opts.target < Disks
        BY <3>1, <3>3, DeviceFound
      <4>2. UsbAsked /\ opts.yes /\ 0 <= opts.target
        BY <1>2, <1>4, <2>2 DEF UsbMode, UsbAsked, NoTarget
      <4> QED BY <1>1, <1>2, <4>1, <4>2
              DEF DiskIInv, FilePlaces, DiskPlaces, DiskByOptions, CallByOptions,
                  SuccessByCall, UsbAsked
    <3> QED BY <3>2, <3>3
  <2> QED BY <2>1, <2>2
<1>5. CASE FileMode
  <2>1. /\ bio' = NoDisk
        /\ \/ phase' = "exit" /\ ~FileAsked
           \/ phase' = "path" /\ FileAsked
    BY <1>1, <1>5 DEF FileMode, Exit, Hold, FileAsked
  <2> QED BY <1>1, <2>1
          DEF DiskIInv, FilePlaces, DiskPlaces, DiskByOptions, CallByOptions, SuccessByCall,
              FileAsked
<1> QED BY <1>3, <1>4, <1>5 DEF Command

\* USB ends.
LEMMA DiskUsb ==
  ASSUME DiskIInv, UNCHANGED <<vars, optionVars>>, UsbLoop
  PROVE  DiskIInv'
<1>1. /\ at' = at /\ parsing' = parsing /\ opts' = opts /\ phase = "usb" /\ phase' = "exit"
      /\ bio' = bio /\ at = "idle" /\ parsing = "parsed" /\ UsbAsked /\ commit' = commit
      /\ status' = status
  BY DEF DiskIInv, UsbLoop, Exit, vars, optionVars, given
<1> QED BY <1>1
    DEF DiskIInv, FilePlaces, DiskPlaces, DiskByOptions, CallByOptions, SuccessByCall,
        FileAsked, UsbAsked

\* The file is opened and read without a disk; a failure is no success.
LEMMA DiskPrepare ==
  ASSUME DiskIInv, UNCHANGED <<vars, optionVars>>, Prepare
  PROVE  DiskIInv'
<1>1. /\ at' = at /\ parsing' = parsing /\ opts' = opts
      /\ phase \in {"path", "volume", "open", "size", "parse"}
  BY DEF Prepare, MakePath, OpenVolume, OpenFile, FileSize, SizeFails, ParseFile, Go, vars,
         optionVars
<1>2. bio = NoDisk /\ at = "idle" /\ parsing = "parsed" /\ FileAsked
  BY <1>1 DEF DiskIInv, FilePlaces, DiskPlaces
<1>3. bio' = bio
  BY DEF Prepare, MakePath, OpenVolume, OpenFile, FileSize, SizeFails, ParseFile, Go, Hold, Exit
<1>4. \/ phase' \in {"volume", "open", "size", "parse", "plan"}
      \/ phase' = "exit" /\ result' # EFI_SUCCESS
  BY ErrorFacts
     DEF Prepare, MakePath, OpenVolume, OpenFile, FileSize, SizeFails, ParseFile, Go, Exit
<1> QED BY <1>1, <1>2, <1>3, <1>4
    DEF DiskIInv, FilePlaces, DiskPlaces, DiskByOptions, CallByOptions, SuccessByCall, FileAsked

\* The plan is shown, the result of the call taken over, the file closed.
LEMMA DiskPlan ==
  ASSUME DiskIInv, UNCHANGED <<vars, optionVars>>, Plan
  PROVE  DiskIInv'
<1>1. /\ at' = at /\ parsing' = parsing /\ opts' = opts /\ commit' = commit /\ status' = status
      /\ bio' = bio
      /\ phase \in {"plan", "flash", "flashing", "close"}
  BY DEF Plan, PacketDryRun, NoFlash, FlashReturns, CloseFile, Go, Close, Exit, vars,
         optionVars, given
<1>2. parsing = "parsed" /\ FileAsked /\ FileAsked'
  BY <1>1 DEF DiskIInv, FilePlaces, FileAsked
<1>3. DiskByOptions' /\ CallByOptions'
  BY <1>1 DEF DiskIInv, DiskByOptions, CallByOptions, FileAsked, UsbAsked
<1>4. \/ phase = "plan" /\ phase' = "flash"
      \/ phase = "flash" /\ phase' = "close" /\ (opts.flash => result' = EFI_INVALID_PARAMETER)
      \/ phase = "flashing" /\ phase' = "close" /\ at = "returned" /\ result' = status
      \/ phase = "close" /\ phase' = "exit" /\ result' = result
  BY DEF Plan, PacketDryRun, NoFlash, FlashReturns, CloseFile, Go, Close, Exit
<1>5. SuccessByCall'
  BY <1>1, <1>2, <1>4, ErrorFacts DEF DiskIInv, SuccessByCall
<1>6. /\ phase' \notin DiskPlaces => bio' = NoDisk
      /\ phase' \notin {"flashing", "close", "exit"} => at' = "idle"
      /\ phase' \in {"flash", "close", "exit"}
  BY <1>1, <1>4 DEF DiskIInv, DiskPlaces
<1> QED BY <1>1, <1>2, <1>3, <1>5, <1>6 DEF DiskIInv, FilePlaces

\* The call, with the disk that was asked for.
LEMMA DiskCall ==
  ASSUME DiskIInv, OptionsIInv, StartFlash, UNCHANGED optionVars
  PROVE  DiskIInv'
<1>1. /\ parsing' = parsing /\ opts' = opts /\ phase = "flash" /\ opts.flash
      /\ 0 <= opts.target /\ parsing = "parsed" /\ bio = NoDisk /\ at = "idle" /\ FileAsked
  <2>1. /\ parsing' = parsing /\ opts' = opts /\ phase = "flash" /\ opts.flash
        /\ opts.target >= 0
    BY DEF StartFlash, optionVars
  <2>2. parsing = "parsed" /\ bio = NoDisk /\ at = "idle" /\ FileAsked
    BY <2>1 DEF DiskIInv, FilePlaces, DiskPlaces
  <2>3. opts.target \in Int
    BY <2>2, TargetTyped
  <2> QED BY <2>1, <2>2, <2>3
<1>2. FileAsked'
  BY <1>1 DEF FileAsked
<1>3. PICK o \in Outcomes :
        /\ get_block_device(o[1], o[2])
        /\ IF o[1].error
             THEN Close(o[1]) /\ UNCHANGED vars
             ELSE /\ Go("flash", "flashing")
                  /\ bio' = o[2]
                  /\ Call
                  /\ UNCHANGED <<held, packets, result>>
  BY DEF StartFlash
<1>4. CASE o[1].error
  <2>1. o[1] # EFI_SUCCESS
    BY <1>4, ErrorFacts
  <2>2. phase' = "close" /\ result' # EFI_SUCCESS /\ bio' = NoDisk /\ at' = "idle"
    BY <1>1, <1>3, <1>4, <2>1 DEF Close, vars
  <2> QED BY <1>1, <1>2, <2>2
          DEF DiskIInv, FilePlaces, DiskPlaces, DiskByOptions, CallByOptions, SuccessByCall
<1>5. CASE ~o[1].error
  <2>1. phase' = "flashing" /\ bio' = opts.target /\ opts.target < Disks
        /\ at' = "entry" /\ commit' = opts.yes
    BY <1>3, <1>5, DeviceFound DEF Go, Call
  <2>2. bio' # NoDisk
    <3>1. opts.target \in Int
      BY <1>1, TargetTyped
    <3> QED BY <1>1, <2>1, <3>1 DEF NoDisk
  <2> QED BY <1>1, <1>2, <2>1, <2>2
          DEF DiskIInv, FilePlaces, DiskPlaces, DiskByOptions, CallByOptions, SuccessByCall
<1> QED BY <1>4, <1>5

\* The function called leaves all of this alone.
LEMMA DiskFlash ==
  ASSUME DiskIInv, Flash(Next)
  PROVE  DiskIInv'
<1>1. /\ phase = "flashing" /\ phase' = phase /\ bio' = bio /\ parsing' = parsing
      /\ opts' = opts /\ Next
  BY DEF Flash, mainVars, optionVars
<1>2. at # "idle" /\ commit' = commit
  BY <1>1 DEF Next, Step, BeginEntry, BeginLocation, WriteChunk, Advance, EndLocation,
              Finish, ReadFails, WriteFails, Return, given
<1> QED BY <1>1, <1>2
    DEF DiskIInv, FilePlaces, DiskPlaces, DiskByOptions, CallByOptions, SuccessByCall,
        FileAsked, UsbAsked

\* What the options ask for, said of the line.
LEMMA DiskSound == DiskIInv /\ MainIInv => DiskAsAsked
<1> SUFFICES ASSUME DiskIInv, MainIInv PROVE DiskAsAsked
  OBVIOUS
<1>1. OptionsIInv
  BY DEF MainIInv
<1>2. parsing = "parsed" => WellFormed /\ opts = Described
  BY <1>1 DEF OptionsIInv, OptionsAsGiven
<1>3. parsing = "parsed" => (AsksFlash <=> FileAsked /\ opts.flash) /\ (AsksUsb <=> UsbAsked)
  BY <1>2 DEF AsksFlash, AsksUsb, FileAsked, UsbAsked
<1>4. ASSUME bio # NoDisk
      PROVE  /\ WellFormed /\ Given # {} /\ bio < Disks
             /\ bio = Typed \/ (Typed >= Word /\ bio = Typed % Word)
             /\ AsksFlash \/ (AsksUsb /\ Described.yes)
  <2>1. /\ parsing = "parsed" /\ bio = opts.target /\ 0 <= bio /\ bio < Disks
        /\ (FileAsked /\ opts.flash) \/ (UsbAsked /\ opts.yes)
    BY <1>4 DEF DiskIInv, DiskByOptions
  <2>2. opts.target = IF Given = {} THEN -1 ELSE AsInt(Typed % Word)
    BY <1>2, <2>1 DEF Described
  <2>3. Given # {}
    BY <2>1, <2>2
  <2>4. Typed \in Nat
    BY <1>1, <2>1, <2>3 DEF OptionsIInv
  <2> DEFINE low == Typed % Word
  <2>5. low \in 0 .. Word - 1 /\ Word \in Nat \ {0} /\ (Typed < Word => low = Typed)
    BY <2>4, WordFacts
  <2>6. bio = AsInt(low)
    BY <2>1, <2>2, <2>3
  <2> HIDE DEF low
  <2>7. bio = low
    BY <2>1, <2>5, <2>6 DEF AsInt
  <2>8. bio = Typed \/ (Typed >= Word /\ bio = low)
    BY <2>4, <2>5, <2>7
  <2> QED BY <1>2, <1>3, <2>1, <2>3, <2>8 DEF low
<1>5. ASSUME at # "idle"
      PROVE  bio # NoDisk /\ AsksFlash /\ commit = Described.yes
  <2>1. bio # NoDisk /\ FileAsked /\ opts.flash /\ commit = opts.yes
    BY <1>5 DEF DiskIInv, CallByOptions
  <2>2. parsing = "parsed"
    BY <2>1 DEF DiskIInv, DiskByOptions
  <2> QED BY <1>2, <1>3, <2>1, <2>2
<1>6. ASSUME phase = "exit", result = EFI_SUCCESS, AsksFlash, WellFormed
      PROVE  at = "returned" /\ status = EFI_SUCCESS /\ (Described.yes => commit /\ flushed)
  <2>1. parsing = "parsed"
    BY <1>1, <1>6 DEF DiskIInv, OptionsIInv, OptionsAsGiven
  <2>2. at = "returned" /\ status = EFI_SUCCESS
    BY <1>3, <1>6, <2>1 DEF DiskIInv, SuccessByCall
  <2>3. commit = Described.yes
    BY <1>5, <2>2
  <2>4. commit => flushed
    <3>1. IInv
      BY <2>2 DEF MainIInv, CallSound
    <3> QED BY <2>2, <3>1, SuccessSound DEF SuccessMeansImage
  <2> QED BY <2>2, <2>3, <2>4
<1> QED BY <1>4, <1>5, <1>6 DEF DiskAsAsked

\* No sequence of options gets at a disk that the line as a whole does not ask for,
\* and a flash that was asked for succeeds if the app does.
THEOREM AppDiskAsAsked == MainSpec => []DiskAsAsked
<1>1. DiskIInv /\ MainIInv /\ [MainNext]_allVars => DiskIInv'
  <2> SUFFICES ASSUME DiskIInv, MainIInv, [MainNext]_allVars PROVE DiskIInv'
    OBVIOUS
  <2>1. OptionsIInv
    BY DEF MainIInv
  <2>2. CASE MainStep
    BY <2>1, <2>2, DiskOptions, DiskCommand, DiskPrepare, DiskPlan, DiskCall DEF MainStep
  <2>3. CASE UsbLoop /\ UNCHANGED <<vars, optionVars>>
    BY <2>3, DiskUsb
  <2>4. CASE Flash(Next)
    BY <2>4, DiskFlash
  <2>5. CASE UNCHANGED allVars
    <3>1. UNCHANGED <<phase, bio, result, at, commit, status, parsing, opts>>
      BY <2>5 DEF allVars, mainVars, vars, given, optionVars
    <3> QED BY <3>1 DEF DiskIInv, DiskByOptions, CallByOptions, SuccessByCall, FileAsked, UsbAsked
  <2> QED BY <2>2, <2>3, <2>4, <2>5 DEF MainNext
<1> QED BY <1>1, DiskInit, DiskSound, MainInitIInv, MainStepIInv, PTL DEF MainSpec

-------------------------------------------------------------------------------
(* What is held. *)

Early == {"options", "command", "usb", "path"}
Opening == {"volume", "open", "size", "parse"}
Opened == {"plan", "flash", "flashing", "close"}

\* What is open or allocated at each place of EfiMain.
HeldByPlace ==
  /\ phase \in Early \cup Opening \cup Opened \cup {"exit"}
  /\ phase \in Early => held = {}
  /\ phase = "volume" => held = {"path"}
  /\ phase = "open" => held = {"root", "path"}
  /\ phase \in {"size", "parse"} => held = {"file"}
  /\ phase \in Opened => held = {"file", "plan"}
  /\ phase \in Early \cup Opening \cup {"plan"} => packets = <<0, 0>>
  /\ NothingHeld

LEMMA HeldInit == MainInit => HeldByPlace
BY DEF MainInit, HeldByPlace, NothingHeld, Early, Opening, Opened

\* The steps that leave EfiMain before the file is open hold nothing to let go of.
LEMMA HeldEarly ==
  ASSUME HeldByPlace, ReadOptions \/ OptionsRead \/ Command \/ UsbLoop
  PROVE  HeldByPlace'
<1>1. CASE ReadOptions
  BY <1>1 DEF ReadOptions, mainVars, HeldByPlace, NothingHeld, Early, Opening, Opened
<1>2. CASE ~ReadOptions
  <2>1. /\ phase \in Early /\ held' = {} /\ packets' = <<0, 0>>
        /\ phase' \in Early \cup {"exit"}
    BY <1>2 DEF OptionsRead, Command, Usage, ListBlocks, UsbMode, FileMode, UsbLoop, Exit,
                Hold, HeldByPlace, Early
  <2> QED BY <2>1 DEF HeldByPlace, NothingHeld, Early, Opening, Opened
<1> QED BY <1>1, <1>2

\* The steps that open and read the file let go of what they hold when they fail.
LEMMA HeldPrepare ==
  ASSUME HeldByPlace, CallSound, UNCHANGED vars, Prepare
  PROVE  HeldByPlace'
<1>1. packets' = <<0, 0>> /\ packets = <<0, 0>>
  BY DEF Prepare, MakePath, OpenVolume, OpenFile, FileSize, SizeFails, ParseFile, Exit, Hold,
         Go, HeldByPlace, Early, Opening
<1>2. at' = at /\ at = "idle"
  BY DEF Prepare, MakePath, OpenVolume, OpenFile, FileSize, SizeFails, ParseFile, Go,
         CallSound, vars, given
<1>3. \A e \in Errors : e.error
  BY FileAssumption
<1>4. CASE MakePath
  <2>1. \/ phase' = "volume" /\ held' = {"path"}
        \/ phase' = "exit" /\ held' = {}
    BY <1>4 DEF MakePath, Go, Hold, Exit, HeldByPlace, Early
  <2> QED BY <1>1, <2>1 DEF HeldByPlace, NothingHeld, Early, Opening, Opened
<1>5. CASE OpenVolume
  <2>1. \/ phase' = "open" /\ held' = {"root", "path"}
        \/ phase' = "exit" /\ held' = {}
    BY <1>5 DEF OpenVolume, Go, Hold, Exit, HeldByPlace, Opening
  <2> QED BY <1>1, <2>1 DEF HeldByPlace, NothingHeld, Early, Opening, Opened
<1>6. CASE OpenFile
  <2>1. \/ phase' = "size" /\ held' = {"file"}
        \/ phase' = "exit" /\ held' = {}
    BY <1>6 DEF OpenFile, Go, Hold, Exit, HeldByPlace, Opening
  <2> QED BY <1>1, <2>1 DEF HeldByPlace, NothingHeld, Early, Opening, Opened
<1>7. CASE FileSize
  <2>1. \/ phase' = "parse" /\ held' = {"file"}
        \/ phase' = "exit" /\ held' = {}
    BY <1>7 DEF FileSize, SizeFails, Go, Hold, Exit, HeldByPlace, Opening
  <2> QED BY <1>1, <2>1 DEF HeldByPlace, NothingHeld, Early, Opening, Opened
<1>8. CASE ParseFile
  <2>1. \/ phase' = "plan" /\ held' = {"file", "plan"}
        \/ phase' = "exit" /\ (held' = {} \/ held' = {"plan"}) /\ result' \in Errors
    <3>1. held = {"file"}
      BY <1>8 DEF ParseFile, Go, HeldByPlace, Opening
    <3>2. \A part \in SUBSET {"plan"} : part = {} \/ part = {"plan"}
      OBVIOUS
    <3>3. CASE Go("parse", "plan") /\ Hold(held \cup {"plan"})
      BY <3>1, <3>3 DEF Go, Hold
    <3>4. ASSUME NEW st \in Errors, NEW part \in SUBSET {"plan"},
                 Exit(st, (held \ {"file"}) \cup part)
          PROVE  phase' = "exit" /\ (held' = {} \/ held' = {"plan"}) /\ result' \in Errors
      <4>1. held' = part
        BY <3>1, <3>2, <3>4 DEF Exit
      <4> QED BY <3>2, <3>4, <4>1 DEF Exit
    <3> QED BY <1>8, <3>3, <3>4 DEF ParseFile
  <2> QED BY <1>1, <1>2, <1>3, <2>1 DEF HeldByPlace, NothingHeld, Early, Opening, Opened
<1> QED BY <1>4, <1>5, <1>6, <1>7, <1>8 DEF Prepare

\* Once the plan is read, every way leads to where the file and the plan are let go of.
LEMMA HeldOpened ==
  ASSUME HeldByPlace, Plan \/ StartFlash
  PROVE  HeldByPlace'
<1>1. CASE CloseFile
  <2>1. phase' = "exit" /\ held' = {}
    BY <1>1 DEF CloseFile, Exit, HeldByPlace, Opened
  <2> QED BY <2>1 DEF HeldByPlace, NothingHeld, Early, Opening, Opened
<1>2. CASE ~CloseFile
  <2>1. phase' \in Opened \ {"plan"} /\ held' = {"file", "plan"}
    BY <1>2 DEF Plan, PacketDryRun, NoFlash, FlashReturns, StartFlash, Close, Go,
                HeldByPlace, Opened
  <2> QED BY <2>1 DEF HeldByPlace, NothingHeld, Early, Opening, Opened
<1> QED BY <1>1, <1>2

\* Whichever call fails on the way, the app leaves nothing open or allocated but the
\* part of a plan whose parse failed.
THEOREM AppHoldsNothing == MainSpec => []NothingHeld
<1>1. HeldByPlace /\ MainIInv /\ [MainNext]_allVars => HeldByPlace'
  <2> SUFFICES ASSUME HeldByPlace, MainIInv, [MainNext]_allVars PROVE HeldByPlace'
    OBVIOUS
  <2>1. CASE OwnStep /\ UNCHANGED vars
    BY <2>1, HeldEarly, HeldPrepare, HeldOpened DEF OwnStep, MainIInv
  <2>2. CASE StartFlash
    BY <2>2, HeldOpened
  <2>3. CASE Flash(Next)
    <3>1. phase = "flashing" /\ UNCHANGED <<phase, held, packets>>
      BY <2>3 DEF Flash, mainVars
    <3> QED BY <3>1 DEF HeldByPlace, NothingHeld, Early, Opening, Opened
  <2>4. CASE UNCHANGED allVars
    <3>1. UNCHANGED <<phase, held, packets, result, at>>
      BY <2>4 DEF allVars, mainVars, vars
    <3> QED BY <3>1 DEF HeldByPlace, NothingHeld
  <2> QED BY <2>1, <2>2, <2>3, <2>4, MainCases
<1>2. HeldByPlace => NothingHeld
  BY DEF HeldByPlace
<1> QED BY <1>1, <1>2, HeldInit, MainInitIInv, MainStepIInv, PTL DEF MainSpec

-------------------------------------------------------------------------------
(* The packets of a dry run. *)

\* Division, by a product: what the provers need of it.
LEMMA Division ==
  ASSUME NEW a \in Nat, NEW m \in Nat \ {0}
  PROVE  /\ a \div m \in Nat /\ a % m \in 0 .. m - 1
         /\ (a \div m) * m + (a % m) = a
<1> DEFINE q == a \div m
           r == a % m
<1>1. a = m * q + r /\ r \in 0 .. m - 1 /\ q \in Int
  OBVIOUS
<1> HIDE DEF q, r
<1>2. q >= 0
  <2>1. SUFFICES ASSUME q <= -1 PROVE FALSE
    BY <1>1
  <2>2. m * q <= -m
    BY <1>1, <2>1
  <2> QED BY <1>1, <2>2
<1>3. q * m + r = a
  BY <1>1
<1> QED BY <1>1, <1>2, <1>3 DEF q, r

\* An entry after what was filled before it.
FillFrom(p) == [x \in Nat \X Nat |-> [k \in 1 .. Len(p) |-> Fill(x, p[k])]]

LEMMA FillFacts ==
  ASSUME GoodPlan, NEW x \in Nat \X Nat, NEW k \in 1 .. EntryCount
  PROVE  /\ plan[k].byte_count \in Nat
         /\ FillFrom(plan)[x][k] = Fill(x, plan[k])
         /\ Fill(x, plan[k]) \in Nat \X (0 .. MaxPayload - 1)
         /\ Fill(x, plan[k])[1] * MaxPayload + Fill(x, plan[k])[2]
              = x[1] * MaxPayload + x[2] + plan[k].byte_count
<1> DEFINE j == k - 1
           n == plan[k].byte_count
<1>1. j \in 0 .. EntryCount - 1 /\ j + 1 = k /\ EntryCount \in Nat
  BY PlanFacts
<1>2. n \in Nat
  BY <1>1, EntryFacts
<1>3. FillFrom(plan)[x][k] = Fill(x, plan[k])
  BY DEF FillFrom, EntryCount
<1> HIDE DEF n, j
<1> DEFINE a == x[2] + n
           q == a \div MaxPayload
           r == a % MaxPayload
<1>4. a \in Nat /\ x[1] \in Nat /\ x[2] \in Nat /\ MaxPayload \in Nat \ {0}
  BY <1>2, MainAssumption
<1>5. q \in Nat /\ r \in 0 .. MaxPayload - 1 /\ q * MaxPayload + r = a
  BY <1>4, Division
<1>6. Fill(x, plan[k]) = <<x[1] + q, r>>
  BY DEF Fill, n
<1> HIDE DEF q, r
<1>7. (x[1] + q) * MaxPayload + r = x[1] * MaxPayload + a
  BY <1>4, <1>5
<1> HIDE DEF a
<1>8. (x[1] + q) * MaxPayload + r = x[1] * MaxPayload + x[2] + n
  BY <1>2, <1>4, <1>7 DEF a
<1> QED BY <1>2, <1>3, <1>4, <1>5, <1>6, <1>8 DEF n

LEMMA FilledUnfold ==
  ASSUME GoodPlan
  PROVE  /\ Filled[0] = <<0, 0>>
         /\ \A k \in 1 .. EntryCount : Filled[k] = Fill(Filled[k - 1], plan[k])
<1> DEFINE n == EntryCount
           T == FillFrom(plan)
           S == Nat \X Nat
           none == <<0, 0>>
<1>1. n \in Nat /\ none \in S
  BY PlanFacts
<1>2. \A x \in S, k \in 1 .. n : T[x][k] \in S
  <2> TAKE x \in S, k \in 1 .. n
  <2>1. T[x][k] \in Nat \X (0 .. MaxPayload - 1)
    BY FillFacts
  <2> QED BY <2>1, MainAssumption
<1> HIDE DEF T, n, S, none
<1>3. PICK f \in [0 .. n -> S] : Unfolds(f, none, n, T)
  BY <1>1, <1>2, Recursion
<1>4. \A k \in 1 .. n : f[k] = Fill(f[k - 1], plan[k])
  <2> TAKE k \in 1 .. n
  <2>1. k - 1 \in 0 .. n /\ f[k - 1] \in S
    BY <1>1
  <2>2. f[k] = T[f[k - 1]][k]
    BY <1>3 DEF Unfolds
  <2> QED BY <2>1, <2>2, FillFacts DEF T, S, n
<1>5. f = [k \in 0 .. n |-> IF k = 0 THEN none ELSE Fill(f[k - 1], plan[k])]
  BY <1>1, <1>3, <1>4 DEF Unfolds
<1> DEFINE v == Filled
<1>6. v = [k \in 0 .. n |-> IF k = 0 THEN none ELSE Fill(v[k - 1], plan[k])]
  BY <1>5 DEF Filled, n, none
<1> HIDE DEF v
<1>7. v[0] = none /\ \A k \in 1 .. n : v[k] = Fill(v[k - 1], plan[k])
  BY <1>1, <1>6
<1> QED BY <1>7 DEF v, n, none

\* After k entries, the packets that are full and the bytes in the next one carry what
\* the first k entries hold.
LEMMA FilledSum ==
  ASSUME GoodPlan
  PROVE  \A k \in 0 .. EntryCount :
           /\ Filled[k] \in Nat \X (0 .. MaxPayload - 1)
           /\ Filled[k][1] * MaxPayload + Filled[k][2] = First(k)
<1> DEFINE v == Filled
           n == EntryCount
           fine(k) == /\ v[k] \in Nat \X (0 .. MaxPayload - 1)
                      /\ v[k][1] * MaxPayload + v[k][2] = First(k)
           G == {k \in Nat : k <= n => fine(k)}
<1>1. /\ n \in Nat /\ MaxPayload \in Nat \ {0} /\ First(0) = 0
      /\ v[0] = <<0, 0>>
      /\ \A k \in 1 .. n : v[k] = Fill(v[k - 1], plan[k])
  BY PlanFacts, MainAssumption, FilledUnfold
<1> HIDE DEF v, n
<1>2. 0 \in G
  <2>1. v[0][1] = 0 /\ v[0][2] = 0 /\ 0 \in 0 .. MaxPayload - 1
    BY <1>1
  <2>2. v[0] \in Nat \X (0 .. MaxPayload - 1)
    BY <1>1, <2>1
  <2>3. 0 * MaxPayload = 0
    BY <1>1
  <2>4. v[0][1] * MaxPayload + v[0][2] = First(0)
    BY <1>1, <2>1, <2>3
  <2> QED BY <2>2, <2>4
<1>3. ASSUME NEW k \in Nat, k \in G PROVE k + 1 \in G
  <2> SUFFICES ASSUME k + 1 <= n PROVE fine(k + 1)
    OBVIOUS
  <2>1. fine(k) /\ k + 1 \in 1 .. n /\ (k + 1) - 1 = k
    BY <1>1, <1>3
  <2>2. v[k] \in Nat \X Nat
    BY <1>1, <2>1
  <2>3. v[k + 1] = Fill(v[k], plan[k + 1])
    BY <1>1, <2>1
  <2>4. /\ v[k + 1] \in Nat \X (0 .. MaxPayload - 1)
        /\ v[k + 1][1] * MaxPayload + v[k + 1][2]
             = v[k][1] * MaxPayload + v[k][2] + plan[k + 1].byte_count
    BY <2>1, <2>2, <2>3, FillFacts DEF n
  <2>5. First(k + 1) = First(k) + plan[k + 1].byte_count
    BY <1>1, <2>1, EntryFacts DEF n
  <2> HIDE DEF G
  <2> QED BY <2>1, <2>4, <2>5
<1> HIDE DEF G
<1>4. Nat \subseteq G
  BY <1>2, <1>3, SetInduction
<1>5. \A k \in 0 .. n : fine(k)
  <2> TAKE k \in 0 .. n
  <2>1. k \in G /\ k <= n
    BY <1>1, <1>4
  <2> HIDE DEF fine
  <2> QED BY <2>1 DEF G
<1> QED BY <1>5 DEF v, n

\* What --packets shows, once it does, is what the plan and the header come to.
PacketsShown ==
  /\ GoodPlan
  /\ packets # <<0, 0>> => packets = <<header_packets, payload_packets>>

LEMMA PacketsSound == PacketsShown => PacketsSuffice
<1> SUFFICES ASSUME PacketsShown, packets # <<0, 0>>
             PROVE  /\ packets[1] * MaxHeader >= HeaderSize
                    /\ (packets[1] - 1) * MaxHeader < HeaderSize
                    /\ (packets[2] - 1) * MaxPayload >= Len(Payload)
                    /\ (packets[2] - 2) * MaxPayload < Len(Payload)
  BY DEF PacketsSuffice
<1>1. GoodPlan /\ packets[1] = header_packets /\ packets[2] = payload_packets
  BY DEF PacketsShown
<1>2. /\ HeaderSize \in Nat /\ MaxHeader \in Nat \ {0} /\ MaxPayload \in Nat \ {0}
      /\ EntryCount \in Nat /\ First(EntryCount) = Len(Payload)
  BY <1>1, MainAssumption, PlanFacts
<1>3. header_packets * MaxHeader >= HeaderSize /\ (header_packets - 1) * MaxHeader < HeaderSize
  <2> DEFINE a == HeaderSize + MaxHeader - 1
             q == a \div MaxHeader
             r == a % MaxHeader
  <2>1. a \in Nat
    BY <1>2
  <2>2. q \in Nat /\ r \in 0 .. MaxHeader - 1 /\ q * MaxHeader + r = a
    BY <1>2, <2>1, Division
  <2>3. header_packets = q
    BY DEF header_packets
  <2> HIDE DEF q, r
  <2>4. (q - 1) * MaxHeader = q * MaxHeader - MaxHeader
    BY <1>2, <2>2
  <2> QED BY <1>2, <2>2, <2>3, <2>4
<1>4. /\ (payload_packets - 1) * MaxPayload >= Len(Payload)
      /\ (payload_packets - 2) * MaxPayload < Len(Payload)
  <2> DEFINE full == Filled[EntryCount][1]
             rest == Filled[EntryCount][2]
             last == IF rest > 0 THEN 1 ELSE 0
             m == MaxPayload
  <2>1. /\ full \in Nat /\ rest \in 0 .. m - 1
        /\ full * m + rest = Len(Payload)
    BY <1>1, <1>2, FilledSum
  <2>2. payload_packets = full + last + 1
    BY DEF payload_packets
  <2> HIDE DEF full, rest
  <2>3. /\ payload_packets - 1 = full + last /\ payload_packets - 2 = full + last - 1
        /\ last \in {0, 1}
    BY <2>1, <2>2
  <2>4. /\ (full + 1) * m = full * m + m
        /\ (full - 1) * m = full * m - m
    BY <1>2, <2>1
  <2>5. CASE rest > 0
    BY <1>2, <2>1, <2>3, <2>4, <2>5
  <2>6. CASE rest = 0
    BY <1>2, <2>1, <2>3, <2>4, <2>6
  <2> QED BY <2>1, <2>5, <2>6
<1> QED BY <1>1, <1>3, <1>4

\* The packets that --packets shows are those that carry the header and the payload.
THEOREM AppPacketsSuffice == MainSpec => []PacketsSuffice
<1>1. MainInit => PacketsShown
  BY DEF MainInit, PacketsShown, GoodPlan
<1>2. PacketsShown /\ [MainNext]_allVars => PacketsShown'
  <2> SUFFICES ASSUME PacketsShown, [MainNext]_allVars PROVE PacketsShown'
    OBVIOUS
  <2>1. plan' = plan /\ (packets' = packets \/ packets' = <<header_packets, payload_packets>>)
    <3>1. CASE OwnStep /\ UNCHANGED vars
      BY <3>1
         DEF OwnStep, ReadOptions, mainVars, OptionsRead, Command, Usage, ListBlocks, UsbMode,
             FileMode, Prepare, MakePath, OpenVolume, OpenFile, FileSize, SizeFails, ParseFile,
             Plan, PacketDryRun, NoFlash, FlashReturns, CloseFile, UsbLoop, Go, Exit, Hold,
             Close, vars, given
    <3>2. CASE StartFlash
      BY <3>2 DEF StartFlash, Close, Call, vars, given
    <3>3. CASE Flash(Next)
      BY <3>3 DEF Flash, mainVars, Next, Step, BeginEntry, BeginLocation, WriteChunk, Advance,
                  EndLocation, Finish, ReadFails, WriteFails, Return, given
    <3>4. CASE UNCHANGED allVars
      BY <3>4 DEF allVars, mainVars, vars, given
    <3> QED BY <3>1, <3>2, <3>3, <3>4, MainCases
  <2>2. header_packets' = header_packets /\ payload_packets' = payload_packets
    <3>1. Filled' = Filled /\ EntryCount' = EntryCount
      BY <2>1 DEF Filled, EntryCount, Fill
    <3> QED BY <3>1 DEF header_packets, payload_packets
  <2> QED BY <2>1, <2>2 DEF PacketsShown, GoodPlan
<1> QED BY <1>1, <1>2, PacketsSound, PTL DEF MainSpec

===============================================================================
