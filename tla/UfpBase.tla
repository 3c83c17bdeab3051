------------------------------- MODULE UfpBase --------------------------------
(***************************************************************************)
(* Status values and small helpers shared by every component.              *)
(*                                                                         *)
(* An EFI_STATUS is a 64-bit word whose top bit says "error"; the model    *)
(* keeps that bit and the code below it as the two fields of a record.     *)
(***************************************************************************)
EXTENDS Integers

EfiStatus == [error : BOOLEAN, code : Nat]

EFI_SUCCESS == [error |-> FALSE, code |-> 0]
EFIERR(n)   == [error |-> TRUE, code |-> n]

EFI_UNSUPPORTED       == EFIERR(3)
EFI_BAD_BUFFER_SIZE   == EFIERR(4)
EFI_DEVICE_ERROR      == EFIERR(7)
EFI_OUT_OF_RESOURCES  == EFIERR(9)
EFI_VOLUME_CORRUPTED  == EFIERR(10)

\* What goes on the wire for an EFI_STATUS: its low 16 bits, errors only.
status_from_efi(st) == IF st.error THEN st.code % (2^16) ELSE 0

Smaller(a, b) == IF a < b THEN a ELSE b
Larger(a, b)  == IF a < b THEN b ELSE a

\* align_up_u64 away from the 64-bit limit.
align_up(value, alignment) ==
  IF alignment = 0 \/ value % alignment = 0
    THEN value
    ELSE value + (alignment - (value % alignment))

===============================================================================
