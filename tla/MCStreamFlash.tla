---------------------------- MODULE MCStreamFlash -----------------------------
(* Instances of StreamFlash for TLC. *)
EXTENDS StreamFlash

Loc(m, b) == [method |-> m, block |-> b]

\* Two entries on a target of five 2-byte blocks: one of one block written to
\* two places, one of two blocks; packets of up to 4 bytes end inside, at the
\* end of and beyond every entry.
ImagePlan ==
  << [first |-> 0, byte_count |-> 2, block_size |-> 2,
      locations |-> <<Loc(0, 2), Loc(0, 0)>>],
     [first |-> 2, byte_count |-> 4, block_size |-> 2,
      locations |-> <<Loc(0, 3)>>] >>

\* The second location lies beyond a target of three blocks, the third inside a
\* block.
MisfitPlan ==
  << [first |-> 0, byte_count |-> 2, block_size |-> 2,
      locations |-> <<Loc(0, 2), Loc(0, 3)>>],
     [first |-> 2, byte_count |-> 2, block_size |-> 1,
      locations |-> <<Loc(0, 1)>>] >>

BlankDisk == {[a \in Address |-> Zero]}

OneError == {EFI_DEVICE_ERROR}

===============================================================================
