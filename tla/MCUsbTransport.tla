---------------------------- MODULE MCUsbTransport ----------------------------
(* UsbTransport for TLC: the cfg gives the bounds their values. *)
EXTENDS UsbTransport

===============================================================================
