---------------------------- MODULE MCSectorFlash -----------------------------
(* Instances of SectorFlash for TLC. *)
EXTENDS SectorFlash

OneError == {EFI_DEVICE_ERROR}

===============================================================================
