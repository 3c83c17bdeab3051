----------------------------- MODULE ImageWriter ------------------------------
(***************************************************************************)
(* What writing an FFU image to a target promises, with no buffer, packet  *)
(* or loop in sight: the payload stream is cut into the write entries of   *)
(* the plan, one after the other; an entry is written only when all of its *)
(* bytes are there, to each of its locations in order, and the next entry  *)
(* starts only after the last of them.  A write that fails may leave any   *)
(* part of its own target behind; the writer goes on there or starts the   *)
(* entry over.                                                             *)
(***************************************************************************)
EXTENDS Integers, Sequences

CONSTANTS
  Plans,       \* what plan may be: write entries in the order of their payload
  Data,        \* values of a payload byte
  Address      \* byte addresses of the target

VARIABLES
  plan,        \* the write entries, fixed from the start
  disk,        \* what the target returns when read
  stream,      \* payload bytes received so far
  entry,       \* number of entries written to all of their locations
  location     \* locations of the current entry already written

vars == <<plan, disk, stream, entry, location>>

EntryCount == Len(plan)

\* Stream position of the first byte of entry i, counted from 0; the end of the
\* stream for i = EntryCount.
First(i) ==
  IF i < EntryCount THEN plan[i + 1].first
                    ELSE plan[EntryCount].first + plan[EntryCount].byte_count

TargetByte(i, l) == plan[i + 1].locations[l + 1].block * plan[i + 1].block_size

Target(i, l) == TargetByte(i, l) .. TargetByte(i, l) + plan[i + 1].byte_count - 1

\* The target after the bytes of entry i have reached the addresses in range.
Written(d, i, l, range) ==
  [a \in Address |-> IF a \in range
                       THEN stream[First(i) + (a - TargetByte(i, l)) + 1]
                       ELSE d[a]]

Init ==
  /\ plan \in Plans
  /\ disk \in [Address -> Data]
  /\ stream = <<>>
  /\ entry = 0
  /\ location = 0

\* Bytes arrive, never beyond the entry they complete.
Receive ==
  /\ entry < EntryCount
  /\ \E n \in 1 .. First(entry + 1) - Len(stream) :
       /\ Len(stream') = Len(stream) + n
       /\ \A k \in 1 .. Len(stream) : stream'[k] = stream[k]
  /\ UNCHANGED <<plan, disk, entry, location>>

WriteLocation ==
  /\ entry < EntryCount
  /\ Len(stream) = First(entry + 1)
  /\ Target(entry, location) \subseteq Address
  /\ disk' = Written(disk, entry, location, Target(entry, location))
  /\ IF location + 1 = Len(plan[entry + 1].locations)
       THEN entry' = entry + 1 /\ location' = 0
       ELSE entry' = entry /\ location' = location + 1
  /\ UNCHANGED <<plan, stream>>

\* A write done in parts, or one that fails: part of the target has changed.
WritePart ==
  /\ entry < EntryCount
  /\ Len(stream) = First(entry + 1)
  /\ \E range \in SUBSET (Target(entry, location) \cap Address) :
       disk' = Written(disk, entry, location, range)
  /\ UNCHANGED <<plan, stream, entry, location>>

\* A failed write: part of the target may have changed, the entry starts over.
FailLocation ==
  /\ entry < EntryCount
  /\ Len(stream) = First(entry + 1)
  /\ \E range \in SUBSET Target(entry, location) :
       disk' = Written(disk, entry, location, range)
  /\ location' = 0
  /\ UNCHANGED <<plan, stream, entry>>

Next == Receive \/ WriteLocation \/ WritePart \/ FailLocation

Spec == Init /\ [][Next]_vars

===============================================================================
