------------------------------- MODULE Requests --------------------------------
(***************************************************************************)
(* The loop of usb_secure_flash_loop before a header has come, with every  *)
(* request that is answered from what the device knows: information,       *)
(* parameters, UEFI variables, the partition table, logs, unlocking and    *)
(* common extensions, and the field checks of a payload packet.  Sector    *)
(* writes are in SectorFlash, header packets in HeaderTransfer.            *)
(*                                                                         *)
(* One request is handled after the other, each with one reply at most.    *)
(* Requests are records of their fields; of their length counts whether    *)
(* they fit a transfer, and whether they are cut short of the fields they  *)
(* announce.  A reply is its length, its status and what it says.          *)
(***************************************************************************)
EXTENDS UfpBase, FiniteSets

CONSTANTS
  Devices,       \* [max_transfer, block_size]: of the transport and of the media
  OptionBlocks,  \* what the 500 bytes of FFU options may be
  NoOptions,     \* what they are at first
  Names,         \* of UEFI variables, with their length: [id, bytes]
  Values,        \* of UEFI variables: [id, bytes]
  Limits, Below  \* sizes a host asks for: these, and so much below the transfer size

KiB64 == 65536
UFP_MAX_PAYLOAD_DATA == 2096152

ASSUME RequestsAssumption ==
  /\ \A d \in Devices : d.max_transfer \in Nat \ {0} /\ d.block_size \in Nat \ {0}
  /\ NoOptions \in OptionBlocks
  /\ \A n \in Names \cup Values : n.bytes \in Nat
  /\ Limits \subseteq Nat /\ Below \subseteq Int

VARIABLES
  device,
  faults,         \* whether memory, firmware and the wire may fail
  g_ffu_options, g_mode_data,
  nvram,          \* the firmware's variables: name -> value or Absent
  running,        \* the loop goes on
  request, reply, \* the last ones
  told            \* what the host has been told it wrote, if anything (sets of one)

state == <<g_ffu_options, g_mode_data, nvram>>
vars  == <<device, faults, state, running, request, reply, told>>

Absent  == [id |-> "absent", bytes |-> 0]
Unknown == {}
None    == [kind |-> "none"]
NoReply == [len |-> 0, status |-> 0, says |-> "nothing"]

max_transfer == device.max_transfer
Sizes == Limits \cup {max_transfer - b : b \in {x \in Below : x <= max_transfer}}

\* alloc_uefi_var_name: other names cannot be asked for.
NameOk(name) == name.bytes > 0 /\ name.bytes % 2 = 0 /\ name.bytes <= 1024

Init ==
  /\ device \in Devices
  /\ faults \in BOOLEAN
  /\ g_ffu_options = NoOptions
  /\ g_mode_data = 0
  /\ nvram \in [Names -> {Absent} \cup {v \in Values : v.bytes > 0}]
  /\ \A n \in Names : ~NameOk(n) => nvram[n] = Absent
  /\ running = TRUE
  /\ request = None
  /\ reply = NoReply
  /\ told = [options |-> Unknown, mode |-> Unknown, variables |-> [n \in Names |-> Unknown]]

-------------------------------------------------------------------------------
(* Replies. *)

\* usb_transport_send copies the reply into a buffer of max_transfer bytes, and drops
\* one that is longer.
Sends(r) ==
  \/ reply' = IF r.len <= max_transfer THEN r ELSE NoReply
  \/ faults /\ reply' = NoReply

Frame(len, status, says) == [len |-> len, status |-> status, says |-> says]

\* send_fr_response, send_fw_response, send_ext_blob_response, send_fs_short.
FrReply(status, data_len, says) == Frame(17 + data_len, status, says)
FwReply(status)                 == Frame(17, status, "written")
BlobReply(status, data_len)     == Frame(12 + data_len, status, "data")
FsShort(status)                 == Frame(16, status, "short")
NOKU                            == Frame(4, 0, "unknown")

\* A request arrives; most change nothing but the reply.
Asked(m) == running /\ request = None /\ request' = m
Answer(m, r) == Asked(m) /\ Sends(r) /\ UNCHANGED <<device, faults, state, running, told>>
Silence(m) == Asked(m) /\ reply' = NoReply /\ UNCHANGED <<device, faults, state, running, told>>

\* The loop is back at usb_transport_recv.
Receive ==
  /\ running /\ request # None
  /\ request' = None /\ reply' = NoReply
  /\ UNCHANGED <<device, faults, state, running, told>>

-------------------------------------------------------------------------------
(* Small messages. *)

Hello   == Answer([kind |-> "hello"], Frame(4, 0, "hello"))
NoSense == Answer([kind |-> "unknown"], NOKU)

\* Fewer than four bytes, and the start and end of telemetry.
Ignore == \E kind \in {"runt", "NOKS", "NOKN"} : Silence([kind |-> kind])

\* The messages that end the loop; only the extension has a reply.
Leave ==
  /\ \/ Asked([kind |-> "leave"]) /\ reply' = NoReply
     \/ Asked([kind |-> "CBR"]) /\ Sends(Frame(12, 0, "switch"))
  /\ running' = FALSE
  /\ UNCHANGED <<device, faults, state, told>>

Relock == Answer([kind |-> "relock"], Frame(10, 0, "relock"))

\* The token's version is 2, and it is as long as it says.
Unlock ==
  \E status \in {0, 5121, 5122} : Answer([kind |-> "unlock"], Frame(14, status, "unlock"))

\* Logs are empty, whatever their size; a size that a reply cannot have is refused.
ReadLog ==
  \E requested \in Sizes :
    Answer([kind |-> "log", requested |-> requested],
           BlobReply(IF requested > 65507 \/ requested > max_transfer THEN 48 ELSE 0, 0))

\* The write-buffer size that is announced leaves room for the header of a payload V2.
write_size_HeaderV1 ==
  IF max_transfer > 28 THEN Smaller(max_transfer - 28, UFP_MAX_PAYLOAD_DATA)
                       ELSE UFP_MAX_PAYLOAD_DATA
write_size ==
  IF max_transfer > 32 THEN Smaller(max_transfer - 32, UFP_MAX_PAYLOAD_DATA)
                       ELSE UFP_MAX_PAYLOAD_DATA

\* Eleven bytes, and a block of three bytes and its data for each of the sizes, the
\* sector count, and what is always the same.
VInfo == Answer([kind |-> "info"], Frame(11 + 3 * 7 + (5 + 12 + 8 + 12 + 4), 0, write_size))

\* 34 blocks of 512 bytes, or 6 of 4096, that may not be readable.
GptBytes ==
  CASE device.block_size = 512  -> 34 * 512
    [] device.block_size = 4096 -> 6 * 4096
    [] OTHER                    -> 0

ReadGpt ==
  \E status \in (IF GptBytes = 0 THEN {8} ELSE IF faults THEN {0, 2} ELSE {0}) :
    Answer([kind |-> "gpt"], Frame(8 + GptBytes, status, "gpt"))

-------------------------------------------------------------------------------
(* Common extensions. *)

\* Switch mode other than R, clear screen, show a message.
Acknowledge ==
  \/ \E status \in {0, 8}  : Answer([kind |-> "CB"], Frame(12, status, "switch"))
  \/ \E status \in {0, 11} : Answer([kind |-> "CM"], Frame(8, status, "message"))
  \/ Answer([kind |-> "CC"], Frame(8, 0, "clear"))

\* What is echoed is cut to what has come.
Echo ==
  \E len \in {6, 10, max_transfer}, echo_len \in Sizes :
    /\ len <= max_transfer
    /\ Answer([kind |-> "echo"],
              Frame(6 + (IF len >= 10 THEN Smaller(echo_len, len - 10) ELSE 0), 0, "echo"))

\* Files cannot be read (D, F) or put (P); a reply to D and F has as many zeros as were
\* asked for.
FileReply(ext, requested, offset, lacks) ==
  IF lacks = "header" THEN BlobReply(8, 0)
  ELSE IF requested > max_transfer \/ requested > (IF ext = "P" THEN 64404 ELSE 65507)
    THEN BlobReply(48, 0)
  ELSE IF (ext = "F" /\ requested = 0 /\ offset # 0) \/ (ext = "P" /\ requested = 0)
    THEN BlobReply(8, 0)
  ELSE IF ext = "P" /\ (lacks = "data" \/ 1115 + requested > max_transfer)
    THEN BlobReply(8, 0)
  ELSE BlobReply(38, IF ext = "P" THEN 0 ELSE requested)

FileStub ==
  \E ext \in {"D", "F", "P"}, requested \in Sizes, offset \in {0, 1},
     lacks \in {"nothing", "header", "data"} :
    /\ lacks = "data" => ext = "P"
    /\ lacks # "header" => 1115 <= max_transfer
    /\ Answer([kind |-> "file", ext |-> ext, requested |-> requested, lacks |-> lacks],
              FileReply(ext, requested, offset, lacks))

-------------------------------------------------------------------------------
(* Reading parameters. *)

\* Status and length of what is said of a parameter that is always the same.
Fixed(param) ==
  CASE param \in {"APPT", "BF", "GSBS"}        -> <<0, 1>>
    [] param \in {"DAS", "USBS"}               -> <<0, 2>>
    [] param \in {"DTSP", "EMS", "FS", "TELS"} -> <<0, 4>>
    [] param \in {"FAI", "SFPI"}               -> <<0, 6>>
    [] param = "SS"                            -> <<0, 8>>
    [] param = "ATRP"                          -> <<0, 9>>
    [] param = "BNFO"                          -> <<0, 21>>
    [] param \in {"DPI", "DPR", "DTI"}         -> <<2, 0>>
    [] param \in {"BITL", "pm"}                -> <<2, 1>>
    [] param = "CUFO"                          -> <<2, 2>>
    [] param = "SMBD"                          -> <<2, 4>>
    [] param \in {"LGMR", "UBF", "UEBO"}       -> <<2, 8>>
    [] param \in {"DUI", "SN"}                 -> <<2, 16>>
    [] param = "MAC"                           -> <<8, 1>>
    [] param = "EMMT"                          -> <<9, 0>>
    [] param = "SOSM"                          -> <<9, 8>>
    [] param \in {"UKID", "UKTF"}              -> <<10, 0>>
    [] param = "SDS"                           -> <<10, 4>>
    [] param \in {"DES", "FZ"}                 -> <<38, 8>>
    [] OTHER                                   -> <<11, 0>>

FixedParams ==
  {"APPT", "BF", "GSBS", "DAS", "USBS", "DTSP", "EMS", "FS", "TELS", "FAI", "SFPI", "SS",
   "ATRP", "BNFO", "DPI", "DPR", "DTI", "BITL", "pm", "CUFO", "SMBD", "LGMR", "UBF", "UEBO",
   "DUI", "SN", "MAC", "EMMT", "SOSM", "UKID", "UKTF", "SDS", "DES", "FZ", "other"}

ReadParam ==
  \/ \E param \in FixedParams :
       Answer([kind |-> "read", param |-> param],
              FrReply(Fixed(param)[1], Fixed(param)[2], "fixed"))
  \/ Answer([kind |-> "read", param |-> "short"], FrReply(8, 0, "nothing"))
  \/ Answer([kind |-> "read", param |-> "FO"], FrReply(0, 500, g_ffu_options))
  \/ Answer([kind |-> "read", param |-> "TS"], FrReply(0, 4, max_transfer))
  \/ Answer([kind |-> "read", param |-> "WBS"], FrReply(0, 4, write_size))
  \/ \E status \in {0, 8} : Answer([kind |-> "read", param |-> "LZ"], FrReply(status, 8, 0))
  \/ \E status \in {0, 11} :
       Answer([kind |-> "read", param |-> "MODE"],
              FrReply(status, 4, IF status = 0 THEN g_mode_data ELSE 0))

-------------------------------------------------------------------------------
(* UEFI variables. *)

\* No memory for the name or the value, a firmware that fails, or what is meant.
Failing(m, r) ==
  \/ Answer(m, r)
  \/ faults /\ \E status \in {1, 2} : Answer(m, FrReply(status, 0, "nothing"))

ReadVariableSize ==
  \E name \in Names, short \in BOOLEAN :
    LET m == [kind |-> "GUVS", name |-> name, short |-> short]
    IN  /\ ~short => 39 + name.bytes <= max_transfer
        /\ IF short \/ ~NameOk(name) THEN Answer(m, FrReply(8, 0, "nothing"))
           ELSE Failing(m, IF nvram[name] = Absent THEN FrReply(10, 0, "nothing")
                                                   ELSE FrReply(0, 4, nvram[name].bytes))

\* The reply has 17 bytes of header and 8 of attributes and size.
Room_FrameOnly == max_transfer - 17
Room == max_transfer - 25

ReadVariable ==
  \E name \in Names, requested \in Sizes \cup {v.bytes : v \in Values}, short \in BOOLEAN :
    LET m == [kind |-> "GUFV", name |-> name, requested |-> requested, short |-> short]
    IN  /\ ~short => 39 + name.bytes <= max_transfer
        /\ IF short \/ requested > KiB64 THEN Answer(m, FrReply(8, 0, "nothing"))
           ELSE IF max_transfer <= 25 \/ requested > Room THEN Answer(m, FrReply(48, 0, "nothing"))
           ELSE IF ~NameOk(name) THEN Answer(m, FrReply(8, 0, "nothing"))
           ELSE Failing(m, IF nvram[name] = Absent THEN FrReply(10, 0, "nothing")
                           ELSE IF nvram[name].bytes > requested THEN FrReply(2, 0, "nothing")
                           ELSE FrReply(0, 8 + nvram[name].bytes, nvram[name]))

\* SetVariable: no value deletes, and what is not there cannot be deleted.
SetVariable(name, value) ==
  /\ value.bytes > 0 \/ nvram[name] # Absent
  /\ nvram' = [nvram EXCEPT ![name] = IF value.bytes > 0 THEN value ELSE Absent]

\* What the host knows after the reply to a write.
Heard(old, new) ==
  IF reply' = NoReply THEN Unknown ELSE IF reply'.status = 0 THEN {new} ELSE old

WriteFails_Unreported(m) == Asked(m) /\ UNCHANGED nvram /\ Sends(FwReply(0))
WriteFails(m) ==
  \/ Asked(m) /\ UNCHANGED nvram /\ Sends(FwReply(4))
  \/ faults /\ Asked(m) /\ UNCHANGED nvram /\ Sends(FwReply(1))

WriteVariable ==
  \E name \in Names, value \in Values, short \in BOOLEAN :
    LET m == [kind |-> "SUFV", name |-> name, value |-> value, short |-> short]
    IN  /\ ~short => 555 + value.bytes <= max_transfer
        /\ IF short \/ name.bytes > 512 \/ value.bytes > KiB64 \/ ~NameOk(name)
             THEN Asked(m) /\ UNCHANGED nvram /\ Sends(FwReply(8))
             ELSE \/ Asked(m) /\ SetVariable(name, value) /\ Sends(FwReply(0))
                  \/ WriteFails(m)
        /\ told' = [told EXCEPT !.variables[name] =
                      Heard(@, IF value.bytes > 0 THEN value ELSE Absent)]
  /\ UNCHANGED <<device, faults, g_ffu_options, g_mode_data, running>>

-------------------------------------------------------------------------------
(* Writing parameters. *)

WriteOptions ==
  /\ \E block \in OptionBlocks, exact \in BOOLEAN :
       /\ exact => 515 <= max_transfer
       /\ Asked([kind |-> "FO", block |-> block, exact |-> exact])
       /\ g_ffu_options' = IF exact THEN block ELSE g_ffu_options
       /\ Sends(FwReply(IF exact THEN 0 ELSE 8))
       /\ told' = [told EXCEPT !.options = Heard(@, block)]
  /\ UNCHANGED <<device, faults, g_mode_data, nvram, running>>

\* The mode is kept as a flag.
WriteMode ==
  /\ \E mode \in 0 .. 2, valid \in BOOLEAN :
       /\ Asked([kind |-> "MODE", mode |-> mode, valid |-> valid])
       /\ g_mode_data' = IF ~valid THEN g_mode_data ELSE IF mode # 0 THEN 1 ELSE 0
       /\ Sends(FwReply(IF valid THEN 0 ELSE 11))
       /\ told' = [told EXCEPT !.mode = Heard(@, mode)]
  /\ UNCHANGED <<device, faults, g_ffu_options, nvram, running>>

\* The boot options, the log's name, and what is not known: accepted or not, they change
\* nothing.
WriteOther ==
  \E param \in {"boot", "LI", "other", "short"} :
    \E status \in (CASE param = "boot" -> {4} [] param = "LI" -> {0, 8}
                     [] param = "other" -> {11} [] OTHER -> {8}) :
      Answer([kind |-> "write", param |-> param], FwReply(status))

-------------------------------------------------------------------------------
(* Secure flash, while no header has come. *)

DataOffset == [V1 |-> 28, V2 |-> 32, V3 |-> 64]

\* A packet with data_len bytes arrives whole, or as much of it as fits a transfer.
Payload ==
  \E version \in {"V1", "V2", "V3"}, data_len \in Sizes \cup {write_size},
     wrong \in {"nothing", "length", "options", "protocol"} :
    LET len == Smaller(DataOffset[version] + data_len, max_transfer)
    IN  Answer([kind |-> "payload", version |-> version, data_len |-> data_len, wrong |-> wrong],
               IF wrong = "length" THEN FsShort(16)
               ELSE IF wrong \in {"options", "protocol"} THEN FsShort(8)
               ELSE IF data_len > UFP_MAX_PAYLOAD_DATA \/ len < DataOffset[version] + data_len
                 THEN FsShort(16)
               ELSE Frame(36, 6, "not ready"))

\* Too short, an unknown protocol, not one subblock, or one of an unknown kind.
Malformed == \E status \in {8, 14, 15} : Answer([kind |-> "malformed"], FsShort(status))

-------------------------------------------------------------------------------

Next ==
  \/ Receive
  \/ Hello \/ NoSense \/ Ignore \/ Leave
  \/ Relock \/ Unlock \/ ReadLog \/ VInfo \/ ReadGpt
  \/ Acknowledge \/ Echo \/ FileStub
  \/ ReadParam \/ ReadVariableSize \/ ReadVariable
  \/ WriteVariable \/ WriteOptions \/ WriteMode \/ WriteOther
  \/ Payload \/ Malformed

Spec == Init /\ [][Next]_vars

-------------------------------------------------------------------------------

\* Requests that have no answer by design.
Silent == {"runt", "NOKS", "NOKN", "leave"}

\* Requests whose answer a transfer cannot carry: a file read of nearly a whole
\* transfer, whose twelve bytes of header the size check forgets, and a partition table
\* or an options block on a transport with short transfers.
TooLong ==
  \/ /\ request.kind = "file" /\ request.ext # "P" /\ request.lacks # "header"
     /\ request.requested \in max_transfer - 11 .. max_transfer /\ request.requested <= 65507
  \/ request.kind = "gpt" /\ GptBytes + 8 > max_transfer
  \/ request.kind = "read" /\ request.param = "FO" /\ max_transfer < 517

\* A host is left waiting by these requests and no others: every other reply, whatever
\* sizes the request names, fits the transfer the transport has settled on
\* (usb_transport.c:405; main.c:269-329, 415-417, 980-1005).
AnsweredUnlessTooLong ==
  ~faults /\ request # None /\ request.kind \notin Silent => (reply = NoReply <=> TooLong)

Reads(param) == request.kind = "read" /\ request.param = param

\* What a host has been told is written, it reads back: options, mode (as a flag) and
\* variables.  A value that could be written can always be asked for with its own size,
\* because the header of a write is longer than that of a reply; and no request in
\* between, refused or not, changes what is kept (main.c:361-468, 649-692, 793-819).
ReadsLastWrite ==
  reply # NoReply =>
    /\ Reads("FO") => \A block \in told.options : reply.says = block
    /\ Reads("MODE") /\ reply.status = 0 =>
         \A mode \in told.mode : reply.says = (IF mode = 0 THEN 0 ELSE 1)
    /\ request.kind \in {"GUVS", "GUFV"} /\ ~request.short =>
         \A value \in told.variables[request.name] :
           \/ faults /\ reply.status \in {1, 2}
           \/ value = Absent /\ reply.status # 0
           \/ value # Absent /\ request.kind = "GUVS"
                /\ reply.status = 0 /\ reply.says = value.bytes
           \/ value # Absent /\ request.kind = "GUFV"
                /\ IF reply.status = 0 THEN reply.says = value
                                       ELSE request.requested # value.bytes

\* A payload packet that carries as many bytes as the device announces (WBS, NOKV)
\* passes the checks of its lengths, except that of a V3 packet, whose header is 32
\* bytes longer, on a transport whose transfers are the limit (main.c:491-494, 761-768,
\* 1407-1451).
AnnouncedIsAccepted ==
  request.kind = "payload" /\ request.wrong = "nothing" /\ request.data_len = write_size
      /\ max_transfer > 32 /\ reply # NoReply =>
    (reply.status = 16 <=> request.version = "V3" /\ write_size + 64 > max_transfer)

===============================================================================
