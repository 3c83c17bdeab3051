# Verification of the UFP FFU flasher

`UfpFfu.efi` writes a Full Flash Update (FFU) image to a block device, either from
a file or streamed over USB by a host tool that speaks the UFP protocol. This
directory holds TLA+ models of the program, the TLC configurations that check them,
and proofs checked by TLAPS. Line references such as `ffu.c:872` are to
`src/src/`; those such as `README.md:92` to `src/README.md`.

1. [The system](#1-the-system)
2. [The modules](#2-the-modules)
3. [The runs](#3-the-runs)
4. [Fairness](#4-fairness)
5. [The proofs](#5-the-proofs)
6. [Where code and documents differ](#6-where-code-and-documents-differ)
7. [What is not modelled](#7-what-is-not-modelled)
8. [Plan](#8-plan)

## 1. The system

### Components

| Component | Source | State | Operations |
| --- | --- | --- | --- |
| Streaming flash context | `ffu.c:757-887` | `FFU_STREAM_FLASH`: plan, entry index, bytes of the entry in the buffer, the buffer, last sector, final state | init, payload, done, free |
| Header receiver | `main.c:1243-1401` | header buffer with size and capacity, receive index, `flash_ready` | header packet V1, V2 |
| Payload session | `main.c:1403-1490` | the context, `flash_ready` | payload packet, reply, flush and leave |
| Sector flash | `main.c:835-868`, `1166-1219` | the stored result of the last async write | async start, write, end; legacy write |
| USB transport | `usb_transport.c` | two buffers, `configured`, `speed`; transfers with the firmware | open, close, receive, send, the event pump, setup packets |
| File flash | `ffu.c:649-755` | loop counters and a buffer | one call |
| FFU parser | `ffu.c:193-591` | cursors and the growing plan | one call, two readers |
| Parameters and information | `main.c:361-823` | `g_ffu_options`, `g_mode_data`, UEFI variables | read, write, V-info |
| GPT read, unlock, logs, common extensions | `main.c:870-1064` | none | one reply each |
| Dispatch | `main.c:1087-1228` | none | message to handler |
| Options and `EfiMain` | `main.c:6-231`, `1492-1579` | options, the disk in use, what is open | parse, choose, open, close |
| Packet dry run | `ffu.c:617-647` | none | one count |
| Packet builders and parsers | `ufp_proto.c` | none | host's requests, device's replies |
| Runtime | `uefi_min.c`, `ffu.c:66-182` | none | allocation, console, memory, files |

### Interactions

The program is a single thread. In USB mode it runs one loop: `usb_transport_recv`
posts a bulk OUT transfer into the buffer `rx` and pumps firmware events until that
transfer is complete; the message is handled in place in `rx`; most handlers end in
`usb_transport_send`, which copies the reply into `tx`, posts a bulk IN transfer and
pumps events until it is complete. Setup packets on endpoint 0 are answered inside
the pump. Everything concurrent is outside: the firmware that carries transfers and
queues events, and the host.

A secure flash has two phases. Header packets fill the header buffer until it holds
the total length a packet announces; then `ffu_stream_flash_init` parses it *in
place* and the context becomes ready; it keeps a pointer to the buffer and reads the
locations of every entry from it while flashing. Payload packets go to
`ffu_stream_flash_payload`, which cuts the stream into entries and writes each
complete entry to all of its locations. A packet whose progress says 100 asks for the
final state.

Async and legacy sector writes share the target with the secure flash, but no other
state. The parameters do not either: `g_ffu_options` and `g_mode_data` are kept for the
host to read back, and UEFI variables are the firmware's.

In file mode `EfiMain` opens the file, has it parsed into a plan, prints what the plan
holds and, with `--flash`, calls `ffu_flash_to_block_io` with the disk that
`--target` names, with `--yes` as `commit`.

### What is hard

- **Errors leave in the middle.** A failed `WriteBlocks` returns from two nested
  loops with the entry whole in the buffer and the rest of the packet dropped. The
  next packet first writes the entry again. Blocks may have been written by the
  failed call.
- **The host cannot know where the device is** after an error or a lost reply; the
  loop ignores the result of every send.
- **Indexes of abandoned transfers.** A header transfer can be cut off, refused,
  restarted or run out of memory at any packet, with a receive index, a size and a
  capacity that have to agree afterwards.
- **Two owners of one buffer.** The header buffer is both where packets go and what
  the running context reads.
- **Order of reply and effect.** Async writes are answered before they are done;
  completion is reported before the flush.
- **Waiting without a timeout.** The pump ends only by an event; resets, aborted
  transfers and reconfigurations arrive at any moment.
- **A reply that does not fit.** `usb_transport_send` drops a reply longer than a
  transfer. Every handler has a size check of its own, or none.
- **Options that take others back.** The outcome of a command line depends on the order
  of its words, and it decides which disk is written.
- **Arithmetic at the edges.** Packets and buffers that end inside entries, locations
  that touch the end of the target, 32-bit sums and shifts in the parser.

### What makes each component correct

| Component | Properties |
| --- | --- |
| Streaming context | its place in the payload is never lost; what is counted as written is on the target; done means done; calls return; it is an image writer |
| Header receiver | copies stay inside the buffer; host and device agree on the place; only a whole header is parsed; the plan of a running flash stays |
| Session | a host told of completion has its image; nothing acknowledged is lost; each request ends; without faults the image gets there |
| Sector flash | no failure slips between two replies |
| USB transport | nothing leaks; a message is stable while it is handled; a reply belongs to its message; nothing hangs |
| File flash | success means image and flush; it is an image writer, and stays on the target; the dry run foretells the real one |
| Options and `EfiMain` | the options are what the line says as a whole; only a disk asked for is touched, and written only with `--yes`; success means the image is on it; nothing is left open |
| Packet dry run | its packets carry the image, and no fewer would |
| Requests | each gets an answer, except those whose answer cannot fit; what is written is read back; what is announced is accepted |
| Parser | both readers accept exactly the sound headers; locations lie inside the header; entries are in order |

## 2. The modules

| Module | What it is |
| --- | --- |
| `UfpBase` | `EFI_STATUS` as a record of error bit and code, the status of the wire, `align_up` |
| `ImageWriter` | abstract: a stream cut into entries, each written to its locations in order |
| `StreamFlash` | the streaming context; refines `ImageWriter` |
| `StreamFlashProofs` | theorems about `StreamFlash` |
| `HeaderTransfer` | the header receiver and a host that sends headers |
| `HeaderTransferProofs` | theorems about `HeaderTransfer` |
| `SecureSession` | the loop around `StreamFlash`, which it extends, a host, the target's cache |
| `SecureSessionProofs` | theorems about `SecureSession`, on top of `StreamFlashProofs` |
| `SectorFlash` | async and legacy sector writes, and a host that reads the replies |
| `SectorFlashProofs` | theorems about `SectorFlash` |
| `UsbTransport` | open, close, pump and loop, with firmware and host |
| `UsbTransportProofs` | theorems about `UsbTransport` |
| `FileFlash` | `ffu_flash_to_block_io`; refines `ImageWriter` |
| `FfuParse` | both header readers |
| `FfuParseProofs` | theorems about `FfuParse` |
| `Options` | the token loop of `parse_options`, and what a line means without it |
| `EfiMain` | the commands; extends `Options` and `FileFlash` |
| `EfiMainProofs` | theorems about `FileFlash`, by itself and as called by `EfiMain`, about `Options` and about `EfiMain` |
| `Requests` | every message of the USB loop that needs neither header, payload nor sectors, and the length of every reply |
| `RequestsProofs` | theorems about `Requests` |
| `MC...` | instances of the above for TLC: plans, headers, targets |

Definitions keep the names of the source. A definition named `Name_Suffix` that
stands just ahead of `Name` is a seeded fault: a variant of `Name` with a plausible
mistake. It is not part of the model; each property listed under a run is violated
when one of these takes the place of its original, which shows that the property
depends on the code being as it is.

### StreamFlash

A write entry of the constant `Plan` is a record of its place in the payload
(`first`), its length, the block size of its store, and its locations. The variables
`entry_index` to `last_sector` are the fields of `FFU_STREAM_FLASH`; `phase`,
`packet`, `pos`, `loc` are the locals of the call in progress, because each turn of a
loop is an action: `CopyChunk` is the body of the `while` loop up to the write
(`ffu.c:857-870`), `WriteOk` and `WriteFails` one turn of the loop over locations
(`ffu.c:771-795`), `Overrun`, `Unsupported` and `Finish` the ways out. `disk` is the
target byte by byte and `stream` a history of what has been copied.

A `WriteBlocks` that fails has written any subset of its blocks, or none if the range
is not on the target; in range it may succeed or fail, out of range it only fails.

`commit`, the argument of init, is either value, and `dry_run` keeps it; the program
itself only streams with commit (`main.c:1516`), which `SecureSession` does.

`Plan` is fixed because the header is: that a header packet may overwrite it is a
matter of `HeaderTransfer`. `read_location_mem` cannot fail here; `FfuParse` shows
why (`LocationsInHeader`).

### ImageWriter

Bytes arrive (`Receive`), a complete entry is written location by location
(`WriteLocation`), partly (`WritePart`), or starts over (`FailLocation`). There is no
buffer, packet or loop. `StreamFlash` maps its state by `entry <- entry_index` and
`location <- loc` while in the write loop; `FileFlash` maps the stream to the part of
the file's payload whose turn has come. Both map a dry run to the state in which nothing
has happened, so that the refinement says of a dry run that it leaves the target alone.

### HeaderTransfer

One action per outcome of a packet, from the first check to the reply. The order of
checks is the code's: `Overrun` reads the old receive index, then a zero offset
starts over (`Base`), then room is made (`Roomy`), bytes are copied (`Stored`), and
the header is parsed if complete. `parsed` is what the parser was given; `aliased`
says that the context's pointer is still the buffer's. The host is honest: bytes in
order, start over at will. After the header is accepted it may repeat it (whole;
chunk by chunk only with `ResendInChunks`). The field checks of a packet are the one
action `PacketRefused`.

### SecureSession

The device is `receive -> payload -> respond -> receive`, or `flush -> exited` after
a final state. `PayloadTurn` is a step of `StreamFlash`, so that writes can fail
between any two turns. The reply may be lost, the loop may end (`Leave`: reboot
message or failed receive), power may be lost, with `durable` as what the target holds
in that case, block by block. The host sends its image packet by packet, cut
anywhere, marks its last packet as progress 100 or sends an empty one, and on an error
or silence sends again or stops. The header transfer is one step. Which kinds of
faults a run may meet is the variable `faults`, fixed from the start: one run of TLC
covers sessions in which nothing fails and sessions in which everything may.

### SectorFlash

Async write is two actions, `AsyncAnswer` and `AsyncWrite`, in the order of the code:
the reply tells of the write before. The host trusts a sequence if it has seen each
reply without an error; then, at the reply to the end, it believes that all it sent is
written (`verdict`).

### UsbTransport

`op` is the place in `usb_transport_open`, the loop or the pump. Messages are numbers;
`rx` and `tx` hold the number of the message their bytes belong to. Of the firmware
are assumed: events in order; a reset or detach drops a setup packet not yet delivered
and keeps a bulk transfer or ends it as aborted; once `EventHandler` fails it keeps
failing; allocate and free functions are there together, and the others all are.

### FileFlash

`at` says which of the three loops control is in; each turn of the inner loop reads
and writes one bufferful. `plan` and `commit` are what the function is called with.
The payload of the file is the sequence `Payload`, entry
after entry; where the entries lie in the file is the parser's.

### FfuParse

A header is a `layout`: the fields that are looked at, structure by structure, and
`size` is how many bytes there are of it. One action per structure read. `memory`
tells the two readers apart: the reader of bytes has end checks of its own and another
status for two errors; the reader of files may fail at any read. Structure sizes are
constants, and words wrap at `Word`. `Acceptable` describes an acceptable header
without a cursor: which number of stores the headers call for (`IsLast`), what each
structure must satisfy, and where the payload must start (`StoresEnd`, a sum over the
stores).

### Options and EfiMain

A token is a record of its text, as far as it matters, and of the digits in it; how a
line is split into tokens is left out. `SkipName`, `TakeTarget` and `TakeOption` are
the three branches of a turn of the loop (`main.c:137-177`). `Described` says what a
line means by looking at all its tokens at once: which flags are said, which of them
stand after the last `--info`, which number is the last, which word is the first path.
`OptionsAsGiven` compares the two.

`phase` is the place in `EfiMain`; one action per call that can fail. `held` is what has
been allocated or opened and not let go of. From the call of `ffu_flash_to_block_io`
to its return the steps are those of `FileFlash` on the same variables, so the
properties of `FileFlash` are checked in the place where the program uses it, with
`commit` from the options. `ffu_parse` is one step, which may fail with a part of a plan
allocated, and so is the USB loop. `PacketDryRun` counts entry after entry
(`Filled`), `Fill` being the inner loop (`ffu.c:627-636`).

### Requests

A request is a record of the fields that are looked at, and a reply its length, its
status and what it says. `Sends` is `usb_transport_send`: a reply that is longer than
`max_transfer` is dropped, and with `faults` any reply may be, as when memory runs out
or the wire fails. Lengths are the code's: 17 bytes and the data for a parameter, 12 for
a blob, 8 for a partition table. `Fixed` is the table of the parameters that are always
the same. `told` remembers what the host has been told is written: nothing, or one
value, and nothing again if a reply was lost. The message loop has taken no header, so a
payload packet that passes its checks is answered with status 6; from there on it is
`SecureSession`'s.

## 3. The runs

| Run | Distinct states | Question |
| --- | ---: | --- |
| `stream_image` | 38678 | place, buffer, target, done, last sector and refinement, with torn writes, real and dry |
| `stream_misfit` | 1517 | a plan that does not fit: every call returns |
| `header_transfer` | 598 | bounds, agreement, one whole header, the plan stays |
| `session_faults` | 362236 | no fault fakes completion or loses an acknowledged byte; requests end; without faults the image gets onto the target |
| `sector_flash` | 445278 | silence about errors means written |
| `usb_transport` | 25128 | resources, stability of a message, progress of the pump |
| `efi_main` | 81032 | options as given, disk as asked, nothing left open, the packet count; success means image and flush; the dry run foretells the real one; refinement; it returns |
| `requests` | 899660 | every request answered unless its reply cannot fit; reads see the last write; announced sizes are accepted |
| `ffu_parse` | 103297 | both readers accept exactly the sound headers |
| `header_restart`, `header_resend`, `session_power` | - | counterexamples, see section 6 |

Bounds, and why they are enough:

- `stream_image` has an entry with two locations and one that is two blocks long, and
  packets of 1 to 4 bytes over two byte values: packets end inside, at the end of and
  beyond each entry, one packet can complete an entry and start the next, a rewrite
  can happen at either location. The proofs of section 5 lift these results to every
  plan.
- `stream_misfit` adds a location beyond the target and one inside a block.
- The session has three entries, one with two locations, and packets of up to the whole
  image; all bytes differ, so a byte out of place or taken twice shows.
- Headers are 2 to 5 bytes, chunks up to 3, the buffer grows by 2 up to 4: a header
  that fits one packet, one that needs two, one that fills the limit and one that
  passes it. All bytes are different, so a byte of another header or at another place
  shows.
- `SectorFlash` writes 0 to 2 sectors to a target of two, starting up to one past the
  end, with all combinations of skip and short.
- `UsbTransport` has two messages and two disruptions (`MaxMessages`,
  `MaxDisruptions`): a disruption before, during and after a transfer of each
  direction, and a second one while the first is being recovered from. Control
  requests are not bounded.
- `EfiMain` reads every line of up to two words out of seventeen, and longer ones that
  use a disk in every order of their words. Words of 32 make a number wrap into another
  disk and into a negative one. Any call may fail, with one error.
- Under it, `FileFlash` writes entries of six and four blocks through a buffer of four and a
  bit, so that `take` is cut by the buffer, by whole blocks and by the entry; one plan
  ends within the target (one of its locations at the very end), one runs over it by
  a block.
- `Requests` has five devices: transfers of the transport's own limit, of 64 KiB, 4 KiB
  and one packet, and media of 512, 4096 and 2048 byte blocks. Sizes lie on both sides
  of each limit, and of each reply's header below the transfer size; values are empty,
  small, the largest that can be written to a 4 KiB transfer, the smallest it cannot
  read, and the largest there is.
- `FfuParse` has 166 layouts: seven sound ones (one store, two, store counts that
  change) and each of these with one field wrong or at its limit, cut at every length
  from 0 to 50, which is longer than any of them. Words of 16 make the shift of the
  chunk size and the sum with the manifest wrap.

`CHECK_DEADLOCK FALSE` is set where the program really stops: the function returns
(`FfuParse`), or the app exits (`EfiMain`, `SecureSession`, `UsbTransport`, `Requests`).

## 4. Fairness

- `StreamFlash`: `WF(PayloadStep)`. The loops of a call run on the processor; the call
  itself is up to the host.
- `FileFlash`: `WF(Step)`, the successful turns. Failures are not assumed to come.
- `EfiMain`: `WF(MainStep)` and `WF` of the turns of the file flash, all the processor's.
  `MainReturns` ends at the USB loop, which need not end.
- `SecureSession`: `WF(DeviceStep)`, because the device polls and handles what it
  receives; `WF(ReadReply \/ TimeOut)`, a host that reads or gives up. Only
  `SessionCompletes` assumes more, as its hypothesis `WillingHost`: that the host goes
  on sending and that its header gets across some time (`SF(HeaderArrives)`, as the
  host's attempts alternate with other requests).
- `UsbTransport`: `WF` of open, loop and pump, the device's own code. `SF(CarryOut)`
  and `SF(CarryIn)`: the firmware carries a transfer that both sides want again and
  again, though resets interrupt it. `WF(SetupSeen)` and `SF(Enumerate)`: a host that
  finds the device unconfigured configures it some time, whatever else it asks.
- `HeaderTransfer`, `SectorFlash`, `FfuParse` and `Requests` have safety properties only.

## 5. The proofs

Every safety property of the passing runs is a theorem: the run shows it on a small
instance, the theorem for every value of the constants that meets the named
assumptions. Liveness stays with TLC.

| Property | Theorem | Property | Theorem |
| --- | --- | --- | --- |
| `stream_image`, all | `StreamFlashProofs` | `ReadsLastWrite` | `WritesReadBack` |
| `header_transfer`, all | `HeaderTransferProofs` | `AnnouncedIsAccepted` | `AnnouncedSizeFits` |
| `sector_flash`, all | `SectorFlashProofs` | `AnsweredUnlessTooLong` | `RequestsAnswered` |
| `CompletedMeansImage` | `CompletionIsImage` | `SuccessMeansImage` | `SuccessIsImage`, `AppSuccessIsImage` |
| `NothingLost` | `NoByteLost` | `DryRunForetells` | `DryRunTells`, `AppDryRunTells` |
| `FinalReplySound` | `FinalIsTrue` | `WritesImage` (`efi_main`) | `ImplementsImageWriter`, `AppWritesImage` |
| `NothingLeaks` | `LeavesNothing` | `OptionsAsGiven` | `AppOptionsAsGiven` |
| `TransfersHaveBuffers` | `BuffersOutlastTransfers` | `DiskAsAsked` | `AppDiskAsAsked` |
| `MessageStable` | `MessageKept` | `NothingHeld` | `AppHoldsNothing` |
| `AcceptsExactly` | `AcceptedAreAcceptable` | `PacketsSuffice` | `AppPacketsSuffice` |
| `LocationsInHeader` | `TablesLieAhead` | `EntriesInOrder` | `PayloadIsOneStream` |

`StreamFlashProofs` proves for every plan, target, packet size, set of byte values and
set of write errors:

| Theorem | States |
| --- | --- |
| `TypeCorrect` | `Spec => []TypeOK`, including that the buffer index stays in the buffer |
| `PositionKept` | `Spec => []StreamPosition` |
| `BufferExact` | `Spec => []BufferIsStreamTail` |
| `DoneSound` | `Spec => []DoneIsFinal` |
| `FlashedIsPayload` | `Spec => []FlashedSoFar` |
| `LastSectorReported` | `Spec => []LastSectorSound` |
| `ImplementsImageWriter` | `Spec => WritesImage` |

Assumptions, as named in `StreamFlash`: `PlanAssumption` (entries are not empty and lie
one after the other, which the parser gives: `FfuParse`, `EntriesInOrder`),
`CapacityAssumption` (the buffer has the size of the largest entry, `ffu.c:814-828`)
and `MediaAssumption`.

The inductive invariant is

    IInv == TypeOK /\ StreamPosition /\ CompletedBehind /\ BufferIsStreamTail /\ PhaseSound

None of the first theorems is inductive alone. That the buffer index stays in the
buffer needs `StreamPosition` (it never exceeds the entry). `BufferIsStreamTail` needs
`StreamPosition` again, since completing an entry moves the place where the buffer's
bytes are expected in the stream. `StreamPosition` after a write needs `PhaseSound`: a
write starts only when the buffer holds the whole entry, or `entry_index` would be
raised early. `CompletedBehind` says that entries already complete lie behind, without
an induction over the plan. `FlashedSoFar` is then inductive relative to `IInv`, given
that no two locations of the plan overlap: what is written comes from the buffer, the
buffer is the payload, a torn write changes only its own range, and that range is
counted only after a write that succeeds. `LastSectorSound` needs, besides
`IInv`, that nothing is complete before init, and the arithmetic lemma `SectorEnd`.

The refinement maps `CopyChunk` to `Receive` (or to a stutter, when a failed write is
tried again), `WriteOk` to `WriteLocation`, `WriteFails` and `Unsupported` to
`FailLocation`, and everything else to a stutter; in a dry run every step is a stutter
(`DryRunUnseen`), and that nothing has happened before init (in `PhaseSound`) makes
init, which decides between the two, a stutter as well.

`HeaderTransferProofs` proves for every set of headers, chunk size, buffer step and
buffer limit:

| Theorem | States |
| --- | --- |
| `TypesKept` | `Spec => []TypeOK`, including that the buffer is as long as its capacity |
| `BoundsKept` | `Spec => []BufferBounds` |
| `PlaceKept` | `Spec => []PlaceAgreed` |
| `OnlyWholeHeaders` | `Spec => []ParsedIsAHeader` |
| `PlanKept` | `Spec => []PlanStays`, for hosts without `ResendInChunks` |

Assumption: `HeaderAssumption` (headers are not empty, the chunk size and the step of
the capacity are positive). The inductive invariant is

    IInv == TypeOK /\ BufferBounds /\ PlaceAgreed /\ SizeAgreed
              /\ ParsedIsAHeader /\ ReadyMeansParsed

`PacketSound` says what a packet of the host carries, `StoredFacts` what the buffer
holds after the copy: the packet's bytes in their place, the bytes ahead of them as
before, a size and a capacity that agree. `BufferBounds` needs the types alone.
`ParsedIsAHeader` needs `PlaceAgreed`, and `SizeAgreed`: were the size larger than the
place, left by an earlier attempt, a chunk in the middle would count as the last, and
the parser would be given the old bytes behind it (`GivenIsTheHeader`).
`PlanStays` is inductive together with `IInv` and the fact that nothing is in transfer
while the context is ready: a repeated header then fits the buffer as it is and writes
the same bytes (`RepeatFits`, `RepeatHarmless`). Without the restriction on hosts
`PlanStays` does not hold, for the reason `header_resend` shows: the second chunk of a
repeated header is written over the first.

`SectorFlashProofs` proves for every size of the disk, set of data, length of a message
and set of write errors, with `--commit` and without:

| Theorem | States |
| --- | --- |
| `TypesKept` | `Spec => []TypeOK`, including that the last sector reported is one of the disk |
| `SilenceMeansWritten` | `Spec => []WrittenMeansWritten` |

Assumption: `SectorAssumption` (a write error is an error whose low 16 bits are not 0:
one that ends in 16 zero bits would be told as success). The inductive invariant is

    IInv == TypeOK /\ Turns /\ Foreseen /\ BehindTheReplies /\ AsTold

An async write is answered before it is carried out, so what a reply tells lags one
write behind. `Turns` says who has the turn, so that no reply is left over from an
earlier message. `BehindTheReplies` follows the lag: while the host trusts and no reply
that ends its trust is under way, the device holds an error it has still to tell, or
the disk holds all the host expects but for the sectors of the message in hand
(`HoldsBut(Pending)`). `Foreseen` makes that write complete it (`WrittenCompletes`), and
`AsTold` is what the end's reply then says. A lost reply is no case of its own: the host
that times out no longer trusts.

`SecureSessionProofs` proves for every image and every way of cutting it into packets,
with any of the faults:

| Theorem | States |
| --- | --- |
| `SessionTypesKept` | `SessionSpec => []SessionTypeOK` |
| `NoByteLost` | `SessionSpec => []NothingLost` |
| `FinalIsTrue` | `SessionSpec => []FinalReplySound` |
| `CompletionIsImage` | `SessionSpec => []CompletedMeansImage`, if no two locations of the plan overlap |

Assumptions: those of `StreamFlash`, and `SessionAssumption` (the host's image is as
long as the plan's payload, and an error does not end in 16 zero bits, or a reply would
tell it as success). `TargetsDisjoint` is needed: of two locations that overlap only the
one written last can hold its bytes. The inductive invariant is

    SessionIInv == IInv /\ SessionTyped /\ Asks /\ Turns /\ Follows /\ Ends

`IInv` is that of `StreamFlashProofs`: a step of the session is a step of the context,
leaves it alone, or changes nothing of it but the target. `Follows` is the heart.
`NothingLost` alone is lost at the next step, since it says nothing of a packet half
taken, of a reply on its way or of an error. `Exact(n)` says how far the context is
ahead of the host: by the bytes taken of the packet in hand, or by a whole packet while
its reply is under way, and by more once something was sent twice. And the context that
is *not* further ahead holds the image: bytes taken twice make it longer than what is
acknowledged for good. Therefore a reply of final state 1 to the last packet cannot be
had by a stream with a part repeated (`Ends`), whatever faults there were. That the
image is then on the target is `FlashedSoFar`, carried through the session by
`HeldStep`.

`EfiMainProofs` proves for every plan, target, buffer, set of errors and command line:

| Theorem | States |
| --- | --- |
| `TypesKept` | `Spec => []TypeOK` of `FileFlash` |
| `SuccessIsImage` | `Spec => []SuccessMeansImage` |
| `DryRunTells` | `Spec => []DryRunForetells` |
| `ImplementsImageWriter` | `Spec => WritesImage` |
| `AppSuccessIsImage`, `AppDryRunTells`, `AppWritesImage` | the same of `MainSpec` |
| `AppOptionsAsGiven` | `MainSpec => []OptionsAsGiven` |
| `AppDiskAsAsked` | `MainSpec => []DiskAsAsked` |
| `AppHoldsNothing` | `MainSpec => []NothingHeld` |
| `AppPacketsSuffice` | `MainSpec => []PacketsSuffice` |

Assumptions: `FileAssumption` (plans as the parser makes them, their payload in the
file), `OptionsAssumption` (tokens are not empty, and one that is a number has digits:
`main.c:137-139` never makes others) and `MainAssumption` (packet sizes are positive).
The inductive invariant of the flash is

    IInv == TypeOK /\ Place /\ VisitedFit /\ Outcome /\ PartHeld /\ VisitedHeld

`SuccessMeansImage` is about a return, so the invariant has to say what is there on the
way: the chunks of the location in hand that are written (`PartHeld`), and all locations
passed (`VisitedHeld`), unless a later one overlaps them. `VisitedFit` says that each of
them passed the checks, so that what ends with success is a plan that fits; conversely
an error that is no error of the disk or the file comes from a check that the plan does
not pass (`Outcome`). These two make `DryRunForetells`.

For the options, `OptsSoFar` is what `OptionsAsGiven` says of a whole line, said of the
tokens read: an option is on if it was said, a flag that `--info` takes back if it
stands behind the last `--info`, a target is the last number. `LineSoFar` adds that
these are well formed except that a number may have to come next. Numbers are read digit
by digit and wrap at 2^32 each time; that the outcome is the number modulo 2^32
(`TurnFrom`, `NumberFrom`) is an induction over the digits. `DiskIInv` follows the disk
through the places of `EfiMain`, `HeldByPlace` says what is open at each of them, and
`MainIInv` carries the invariant of the flash from its call on. That the packets
suffice is an induction over the entries (`FillFrom`): ahead of each entry, the packets
counted are full but for the last.

`UsbTransportProofs` proves for any number of messages and disruptions:

| Theorem | States |
| --- | --- |
| `LeavesNothing` | `Spec => []NothingLeaks` |
| `BuffersOutlastTransfers` | `Spec => []TransfersHaveBuffers` |
| `MessageKept` | `Spec => []MessageStable` |

Assumption: `UsbAssumption`, that the two bounds are numbers. The inductive invariant is
`Typed /\ Stages /\ OutSound /\ InSound /\ MessageStable`. A transfer and its
completion are never there both, nor is either there twice, and the first may only be
there while the loop waits for it. There are two exceptions. A `recv` that gives up
leaves its transfer to `close`. A `send` whose pump broke leaves one under way when the
next message is asked for, which is safe only because what broke stays broken: the next
`recv` fails before a message is handled (`InSound`). `MessageStable` fails without the
last.

`RequestsProofs` proves for every set of devices, variables, values and sizes:

| Theorem | States |
| --- | --- |
| `WritesReadBack` | `Spec => []ReadsLastWrite` |
| `AnnouncedSizeFits` | `Spec => []AnnouncedIsAccepted` |
| `RequestsAnswered` | `Spec => []AnsweredUnlessTooLong`, for transfers of 512 bytes or more |

Assumption: `RequestsAssumption` (sizes are numbers). `Wide`, the hypothesis of the last,
is about the firmware: the transport takes any size it reports (`usb_transport.c:268-273`),
and one that does not carry a packet of the bulk endpoints, 512 bytes (`:35`, `:39`), would
leave further requests without an answer. `Known`, the invariant, says that what the host
has been told is what the device keeps, and that it came in one transfer behind 555 bytes
of header: the reply that reads it back, whose header is shorter, therefore fits. Each
reply's length is then compared with `TooLong` (`Answers`).

`FfuParseProofs` proves for every set of layouts, all sizes of structures, words and
blocks, and both readers:

| Theorem | States |
| --- | --- |
| `TypesKept` | `Spec => []TypeOK`, including that entries are not empty and no longer than a word |
| `AcceptedAreAcceptable` | `Spec => []AcceptsExactly` |
| `TablesLieAhead` | `Spec => []LocationsInHeader` |
| `PayloadIsOneStream` | `Spec => []EntriesInOrder` |

Assumptions: `ParseAssumption` (sizes are positive) and `SizesAssumption` (a store
header is no shorter than an image header: 248 or 262 bytes to 24 or 28, `ffu.c:4-8`).
The second is no formality. The sum of image header and manifest wraps at 2^32
(`ffu.c:251`), so the cursor may end up *inside* the image header just read. That an
acceptable header has all bytes of its image header follows then only from the store
header behind the cursor, which reaches at least as far. The inductive invariant is

    IInv == /\ Typed
            /\ Unrefused => TablesSound /\ OrderSound /\ PlaceSound
            /\ AcceptsExactly

`PlaceSound` gives the cursor in terms of the layout: the sums of `Acceptable` up to the
structure in hand, all structures ahead of which are sound, and no store ahead of which
is the last (`Wanted`). What is refused is then not acceptable: if a structure is not
sound, obviously; if the bytes end, because the sums only grow, and an acceptable header
has all its bytes (`Fits`). Both readers follow from the one argument: where the second
stops at an end that is past the bytes, the first goes on, but no acceptable header has
it. `TablesSound` says that the tables of the entries lie one after the other behind the
cursor. `OrderSound` says how entries and stores fit: stores share the entries out
(`Parts`), entries of a store follow each other (`Chained`), each store's first entry is
at the store's base and its last one ends after what the store holds (`Bounded`), the
bases follow from sizes and alignment (`Placed`), and so for the store in hand
(`InHand`). `PlaceStore` changes all entries of a store at once, which is why the two
ends of a store have to be in the invariant, not the neighbours alone
(`StoreMoved`). `OneStream` then gives the order across stores.

The library's induction theorems cannot be used here, because no prover instantiates
their operator parameter. Where the proofs need induction over data they take it from
`SetInduction`, which says the same of sets, and `Recursion`, which says that a recursive
function unfolds. Sums and counts are therefore recursive functions.

Only model-checked: `PayloadReturns`, `RequestEnds`, `SessionCompletes`, `SendReturns`,
`SetupHandled`, `MessageTaken` and `MainReturns`, since TLAPS does not reason about
fairness and `ENABLED` here. The runs `header_restart`, `header_resend` and
`session_power` show counterexamples and have nothing to prove.

## 6. Where code and documents differ

1. `header_restart`: "A zero file offset starts a new header transfer" (`README.md:92`).
   The overrun check (`main.c:1291`) comes before the reset (`main.c:1328`) and counts
   the chunks of the transfer before, so the new transfer's first chunk can be refused
   with status 16. A host that sends a V1 packet (which resets the index), or a shorter
   chunk, gets out of it.
2. `header_resend`: "The recovered Header V2 receiver appends chunks at an internal
   receive index" (`README.md:92`). A header that is repeated after it was accepted is
   complete with each of its chunks (`main.c:1377`), so the index is reset
   (`main.c:1396`) and the second chunk lands at offset zero of the buffer that the
   context reads its locations from. `PlanStays` therefore holds only for hosts that
   repeat the header whole.
3. `session_power`: "Final state `1` means flashing completed" (`README.md:121`). The
   reply is sent before `FlushBlocks` is called, and the flush's result is dropped
   (`main.c:1468-1475`); a host that has read it may lose its image with the power.

Without a run of their own:

- Bytes 24..27 of a header packet are the "Total header transfer length"
  (`README.md:85`), and so the receiver takes them. `ufp_build_secure_header_request`
  writes the end of the chunk there (`ufp_proto.c:59`). Nothing in the repository uses
  the builder; a host that did would have its first chunk parsed as the whole header.
- A file or directory read is answered with "12-byte status/length header plus requested
  payload length", or status 48 beyond the limits (`README.md:37-38`). The check
  (`main.c:980`) forgets the twelve bytes, so a read of one of the last twelve sizes up to
  `max_transfer` gets no answer. `TooLong` states exactly these.
- "safe write-buffer payload size" (`main.c:761`) leaves room for the 32 bytes of a
  payload V2. Payload V3, which the device says it supports, has 64, and a full one does
  not fit where the transfer size is the limit (`AnnouncedIsAccepted`).
- `EMWS` is listed as a parameter with four bytes (`README.md:188`); the code has no such
  case and answers status 11 (`main.c:769`).
- `MODE` is kept as a flag: a host that writes 2 reads 1 (`main.c:818`,
  `ReadsLastWrite`).
- The packet count of `--packets` already has the final packet in it (`ffu.c:641`) and is
  printed with "plus final progress=100 packet" (`ffu.c:644`).
- A target number of more than 32 bits names another disk (`main.c:76`, `DiskAsAsked`
  says which).

## 7. What is not modelled

- Byte layouts of packets and descriptors: a packet is a record of what its fields say.
  The checks of a packet's fields are one refusing action per handler.
- How load options are split into tokens (`main.c:113-136`: spaces, quotes, an end in
  the middle), and what a file name is made of (`ffu.c:73-85`).
- What is in the replies to parameters that never change; the text, in the console or
  in a reply. The descriptors of endpoint 0 (`usb_transport.c:147-247`) as bytes.
- The summary of a plan, which only prints.
- Widths above those of the models: `last_sector` and LBAs beyond 32 bits, payload
  sizes near 2^64, an `EFI_STATUS` whose low 16 bits are zero.
- Hosts that break the protocol on purpose. Packets that are malformed by accident are.
- An `EventHandler` that fails and recovers, and firmware with only one of the buffer
  functions.
- A second, larger header after the context is ready: the buffer is then replaced
  while the context still points to the old one (`main.c:1361-1366`). Hosts have no
  reason to send one, and the model's do not.
- The console and the memory functions.

The hazards that no property covers are listed in `PROJECT.json` with the reason.

## 8. Plan

Done, in this order: `StreamFlash` with `ImageWriter`; `HeaderTransfer`;
`SecureSession`, which composes `StreamFlash` with its surroundings; `SectorFlash`;
`UsbTransport`; `FileFlash`; `FfuParse`; `Options` and `EfiMain`, which composes the
options with `FileFlash`; `Requests`, which closes the dispatch table; the proofs of
all their safety properties.

Next:

1. Proofs across modules: that what `FfuParse` accepts meets the assumptions
   `StreamFlash` and `FileFlash` make of a plan; that the host's view of a session, its
   acknowledged bytes, implements an abstract upload.
2. Widths: `last_sector`, `status_from_efi` and the plan arithmetic at `2^w`.
3. Header transfer, session and sector flash on one target, with hosts that use all
   three.
