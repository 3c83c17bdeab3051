------------------------------ MODULE MCFfuParse ------------------------------
(* Instances of FfuParse for TLC. *)
EXTENDS FfuParse

D(locations, blocks) == [locations |-> locations, blocks |-> blocks]

V1Store(block_size, descriptors) ==
  [v2 |-> FALSE, count |-> 0, payload_size |-> 0, path |-> 0, known |-> TRUE,
   block_size |-> block_size, descriptors |-> descriptors]

V2Store(count, payload_size, block_size, descriptors) ==
  [V1Store(block_size, descriptors) EXCEPT
     !.v2 = TRUE, !.count = count, !.payload_size = payload_size, !.path = 2]

Two == <<D(2, 1), D(1, 2)>>
One == <<D(1, 1)>>

Plain(stores) ==
  [signed |-> TRUE, algorithm |-> TRUE, chunk |-> 2, catalog |-> 1, hash |-> 2,
   image |-> "v1", manifest |-> 3, manifest_chunk |-> 1, validation |-> <<>>,
   stores |-> stores]

Validated(stores) ==
  [Plain(stores) EXCEPT !.image = "v2", !.validation = <<2, 0>>]

\* One store, two, and headers that change their mind about how many there are.
Sound ==
  {Plain(<<V1Store(3, Two)>>),
   Validated(<<V1Store(3, Two)>>),
   Validated(<<V2Store(2, 0, 3, Two), V2Store(2, 2, 2, One)>>),
   Plain(<<V2Store(2, 9, 3, Two), V1Store(4, One)>>),
   Plain(<<V2Store(2, 7, 3, Two), V2Store(1, 0, 2, One)>>),
   Plain(<<V2Store(2, 0, 3, One), V2Store(3, 0, 2, One), V2Store(1, 0, 3, Two)>>),
   Plain(<<V1Store(4, One), V1Store(3, One)>>)}

\* One field at a time is wrong, or at its limit.
Unsound ==
  UNION {{[l EXCEPT !.signed = FALSE], [l EXCEPT !.algorithm = FALSE],
          [l EXCEPT !.chunk = 0], [l EXCEPT !.chunk = 8], [l EXCEPT !.chunk = 9],
          [l EXCEPT !.catalog = 0], [l EXCEPT !.hash = 0], [l EXCEPT !.hash = 3],
          [l EXCEPT !.image = "unknown"], [l EXCEPT !.manifest = 0],
          [l EXCEPT !.manifest = 14],
          [l EXCEPT !.manifest_chunk = 0], [l EXCEPT !.stores[1].known = FALSE],
          [l EXCEPT !.stores[1].block_size = 0], [l EXCEPT !.stores[1].block_size = 5],
          [l EXCEPT !.stores[1].descriptors = <<>>],
          [l EXCEPT !.stores[1].descriptors[1].locations = 0],
          [l EXCEPT !.stores[1].descriptors[1].blocks = 0],
          [l EXCEPT !.stores[1].descriptors[1].blocks = 4],
          [l EXCEPT !.stores[1].descriptors[1].blocks = 5],
          [l EXCEPT !.stores[1].descriptors[1].blocks = 6]} : l \in Sound}
  \cup {[l EXCEPT !.stores[1].count = c] : c \in {0, 3}, l \in {l \in Sound : l.stores[1].v2}}
  \cup {[l EXCEPT !.stores[1].path = 0] : l \in {l \in Sound : l.stores[1].v2}}

AllLayouts == Sound \cup Unsound

===============================================================================
