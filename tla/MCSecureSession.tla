--------------------------- MODULE MCSecureSession ----------------------------
(* Instances of SecureSession for TLC. *)
EXTENDS SecureSession

Loc(m, b) == [method |-> m, block |-> b]

\* Three entries on seven one-byte blocks: two blocks written to two places, one
\* block, one block.  A single packet can carry all of it.
ThreeEntries ==
  << [first |-> 0, byte_count |-> 2, block_size |-> 1,
      locations |-> <<Loc(0, 0), Loc(0, 4)>>],
     [first |-> 2, byte_count |-> 1, block_size |-> 1,
      locations |-> <<Loc(0, 6)>>],
     [first |-> 3, byte_count |-> 1, block_size |-> 1,
      locations |-> <<Loc(0, 2)>>] >>

\* All bytes different, so that a byte out of place shows.
FourBytes == <<1, 2, 3, 4>>

BlankDisk == {[a \in 0 .. (LastBlock + 1) * MediaBlock - 1 |-> Zero]}

NoneOrAll == {{}, FaultKinds}
PowerOnly == {{"power"}}

OneError == {EFI_DEVICE_ERROR}

===============================================================================
