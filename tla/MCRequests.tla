------------------------------ MODULE MCRequests ------------------------------
(* Instances of Requests for TLC. *)
EXTENDS Requests

D(max, block) == [max_transfer |-> max, block_size |-> block]

\* The largest transfers of the transport and shorter ones of the firmware, down to one
\* packet, with media of both block sizes that have a partition table and one without.
FiveDevices == {D(2363392, 512), D(2363392, 4096), D(65536, 2048), D(4096, 4096), D(512, 512)}

TwoBlocks == {"zero", "set"}

\* A common name, one that is too long, and one that ends inside a character.
ThreeNames == {[id |-> "name", bytes |-> 12], [id |-> "long", bytes |-> 1026],
               [id |-> "odd", bytes |-> 7]}

\* Nothing, a small value, the largest that a transfer of 4096 bytes can write, the
\* smallest that a reply of as many cannot read, and the largest of all.
FiveValues == {[id |-> "a", bytes |-> 0], [id |-> "a", bytes |-> 4], [id |-> "b", bytes |-> 3541],
               [id |-> "a", bytes |-> 4072], [id |-> "b", bytes |-> 65536]}

\* Sizes on both sides of every limit: the widths and those of a reply of each kind.
FewLimits == {0, 64405, 65508, 65537}
FewBelow == {1115, 1114, 25, 24, 12, 11, 0, -1}

===============================================================================
