--------------------------- MODULE MCHeaderTransfer ---------------------------
(* Instances of HeaderTransfer for TLC. *)
EXTENDS HeaderTransfer

\* Headers of two, three, four and five bytes; no two bytes are the same, so that
\* one of another header or in another place shows.
Short == <<11, 12>>
Long  == <<21, 22, 23>>
Full  == <<31, 32, 33, 34>>
Huge  == <<41, 42, 43, 44, 45>>

FourHeaders == {Short, Long, Full, Huge}
OneHeader   == {Long}

===============================================================================
