-------------------------------- MODULE EfiMain --------------------------------
(***************************************************************************)
(* EfiMain: from a command line to what is done to which disk.  It reads   *)
(* its options (Options), and lists the disks, serves USB, or opens,       *)
(* parses and flashes a file (FileFlash, from the call to its return).     *)
(*                                                                         *)
(* Reading the header is one step here (see FfuParse), and so is the USB   *)
(* loop (see the modules of its handlers).                                 *)
(***************************************************************************)
EXTENDS FileFlash, Options

CONSTANTS
  Disks,         \* Block I/O handles
  HeaderSize,    \* of the file
  MaxHeader,     \* UFP_MAX_HEADER_DATA
  MaxPayload     \* UFP_MAX_PAYLOAD_DATA

ASSUME MainAssumption ==
  /\ Disks \in Nat /\ HeaderSize \in Nat
  /\ MaxHeader \in Nat \ {0} /\ MaxPayload \in Nat \ {0}

VARIABLES
  phase,     \* the place in EfiMain
  bio,       \* the number of the disk in use, or NoDisk
  held,      \* what has been opened or allocated: "path", "root", "file", "plan"
  packets,   \* what --packets has shown: header and payload packets
  result     \* what EfiMain returned

mainVars == <<phase, bio, held, packets, result>>
allVars  == <<vars, optionVars, mainVars>>

EFI_INVALID_PARAMETER == EFIERR(2)
EFI_NOT_FOUND         == EFIERR(14)

NoDisk == -1

MainInit ==
  /\ OptionsInit
  /\ plan \in Plans
  /\ commit = FALSE
  /\ disk \in InitialDisks
  /\ i = 0 /\ l = 0 /\ done = 0
  /\ at = "idle"
  /\ status = EFI_SUCCESS
  /\ flushed = FALSE
  /\ phase = "options"
  /\ bio = NoDisk
  /\ held = {}
  /\ packets = <<0, 0>>
  /\ result = EFI_SUCCESS

\* From one place to the next.
Go(from, to) == phase = from /\ phase' = to

\* Return st; held is what is left behind.
Exit(st, left) ==
  /\ phase' = "exit"
  /\ result' = st
  /\ held' = left
  /\ UNCHANGED <<bio, packets>>

Hold(resources) == held' = resources /\ UNCHANGED <<bio, packets, result>>

-------------------------------------------------------------------------------
(* The options. *)

ReadOptions ==
  /\ phase = "options"
  /\ ParseOptions
  /\ UNCHANGED mainVars

OptionsRead ==
  /\ phase = "options"
  /\ \/ parsing = "invalid" /\ Exit(EFI_INVALID_PARAMETER, held)
     \/ parsing = "parsed" /\ phase' = "command" /\ Hold(held)
  /\ UNCHANGED optionVars

-------------------------------------------------------------------------------
(* The commands, in the order in which EfiMain looks for them. *)

\* get_block_device: the status, and the device.
get_block_device(st, device) ==
  \/ st \in Errors /\ device = NoDisk
  \/ opts.target >= Disks /\ st = EFI_NOT_FOUND /\ device = NoDisk
  \/ opts.target < Disks /\ st = EFI_SUCCESS /\ device = opts.target

Outcomes == (Errors \cup {EFI_NOT_FOUND, EFI_SUCCESS}) \X (-1 .. Disks - 1)

Usage ==
  /\ phase = "command"
  /\ opts.help
  /\ Exit(EFI_SUCCESS, held)

ListBlocks ==
  /\ phase = "command"
  /\ ~opts.help /\ opts.list_block
  /\ \E st \in Errors \cup {EFI_SUCCESS} : Exit(st, held)

NoTarget_YesAssumed == opts.target < 0
NoTarget == opts.target < 0 \/ ~opts.yes

UsbMode ==
  /\ phase = "command"
  /\ ~opts.help /\ ~opts.list_block /\ opts.usb_ffu
  /\ IF NoTarget
       THEN Exit(EFI_INVALID_PARAMETER, held)
       ELSE \E o \in Outcomes :
              /\ get_block_device(o[1], o[2])
              /\ IF o[1].error
                   THEN Exit(o[1], held)
                   ELSE phase' = "usb" /\ bio' = o[2] /\ UNCHANGED <<held, packets, result>>

\* usb_secure_flash_loop returns some time, or never.
UsbLoop ==
  /\ phase = "usb"
  /\ \E st \in Errors \cup {EFI_SUCCESS} : Exit(st, held)

FileMode ==
  /\ phase = "command"
  /\ ~opts.help /\ ~opts.list_block /\ ~opts.usb_ffu
  /\ IF opts.path = NoToken
       THEN Exit(EFI_INVALID_PARAMETER, held)
       ELSE phase' = "path" /\ Hold(held)

-------------------------------------------------------------------------------
(* file_open_from_image: the path, the volume, the file, its size. *)

MakePath ==
  \/ Go("path", "volume") /\ Hold(held \cup {"path"})
  \/ phase = "path" /\ Exit(EFI_OUT_OF_RESOURCES, held)

OpenVolume ==
  \/ Go("volume", "open") /\ Hold(held \cup {"root"})
  \/ phase = "volume" /\ \E st \in Errors : Exit(st, held \ {"path"})

\* The directory and the path are let go of whether or not the file opens.
OpenFile ==
  \/ Go("open", "size") /\ Hold((held \ {"root", "path"}) \cup {"file"})
  \/ phase = "open" /\ \E st \in Errors : Exit(st, held \ {"root", "path"})

SizeFails_KeepsFile == phase = "size" /\ \E st \in Errors : Exit(st, held)
SizeFails == phase = "size" /\ \E st \in Errors : Exit(st, held \ {"file"})

FileSize ==
  \/ Go("size", "parse") /\ Hold(held)
  \/ SizeFails

\* A plan of which a part was read stays allocated if the rest cannot be.
ParseFile ==
  \/ Go("parse", "plan") /\ Hold(held \cup {"plan"})
  \/ /\ phase = "parse"
     /\ \E st \in Errors, part \in SUBSET {"plan"} : Exit(st, (held \ {"file"}) \cup part)

-------------------------------------------------------------------------------
(* What is done with the plan. *)

\* ffu_packet_dry_run: packets filled across the ends of entries, in each turn of the
\* loop the packets that get full, and the bytes in the one that does not.
Fill_PacketPerEntry(filled, e) ==
  <<filled[1] + (filled[2] + e.byte_count + MaxPayload - 1) \div MaxPayload, 0>>
Fill(filled, e) ==
  <<filled[1] + (filled[2] + e.byte_count) \div MaxPayload,
    (filled[2] + e.byte_count) % MaxPayload>>

header_packets == (HeaderSize + MaxHeader - 1) \div MaxHeader
\* After the first k entries.
Filled ==
  LET filled[k \in 0 .. EntryCount] ==
        IF k = 0 THEN <<0, 0>> ELSE Fill(filled[k - 1], plan[k])
  IN  filled

payload_packets ==
  LET filled == Filled[EntryCount]
  IN  filled[1] + (IF filled[2] > 0 THEN 1 ELSE 0) + 1

PacketDryRun ==
  /\ Go("plan", "flash")
  /\ packets' = IF opts.packets THEN <<header_packets, payload_packets>> ELSE packets
  /\ UNCHANGED <<bio, held, result>>

Call ==
  /\ at' = "entry"
  /\ commit' = opts.yes
  /\ UNCHANGED <<plan, disk, i, l, done, status, flushed>>

\* The result is known, or nothing is to be flashed.
Close(st) ==
  /\ phase' = "close"
  /\ result' = st
  /\ UNCHANGED <<bio, held, packets>>

StartFlash ==
  /\ phase = "flash"
  /\ opts.flash /\ opts.target >= 0
  /\ \E o \in Outcomes :
       /\ get_block_device(o[1], o[2])
       /\ IF o[1].error
            THEN Close(o[1]) /\ UNCHANGED vars
            ELSE /\ Go("flash", "flashing")
                 /\ bio' = o[2]
                 /\ Call
                 /\ UNCHANGED <<held, packets, result>>

NoFlash ==
  /\ phase = "flash"
  /\ ~opts.flash \/ opts.target < 0
  /\ Close(IF opts.flash THEN EFI_INVALID_PARAMETER ELSE EFI_SUCCESS)

FlashReturns ==
  /\ phase = "flashing"
  /\ at = "returned"
  /\ Close(status)

CloseFile ==
  /\ phase = "close"
  /\ Exit(result, held \ {"plan", "file"})

-------------------------------------------------------------------------------

Command == Usage \/ ListBlocks \/ UsbMode \/ FileMode

Prepare == MakePath \/ OpenVolume \/ OpenFile \/ FileSize \/ ParseFile

Plan == PacketDryRun \/ NoFlash \/ FlashReturns \/ CloseFile

MainStep ==
  \/ ReadOptions /\ UNCHANGED vars
  \/ OptionsRead /\ UNCHANGED vars
  \/ (Command \/ Prepare \/ Plan) /\ UNCHANGED <<vars, optionVars>>
  \/ StartFlash /\ UNCHANGED optionVars

Flash(A) == phase = "flashing" /\ A /\ UNCHANGED <<optionVars, mainVars>>

MainNext ==
  \/ MainStep
  \/ UsbLoop /\ UNCHANGED <<vars, optionVars>>
  \/ Flash(Next)

\* The app runs.
MainSpec ==
  /\ MainInit /\ [][MainNext]_allVars
  /\ WF_allVars(MainStep) /\ WF_allVars(Flash(Step))

-------------------------------------------------------------------------------

\* What the line asks of a disk.
AsksUsb == ~Described.help /\ ~Described.list_block /\ Described.usb_ffu
AsksFlash ==
  /\ ~Described.help /\ ~Described.list_block /\ ~Described.usb_ffu
  /\ Described.flash /\ Described.path # NoToken

\* No sequence of options gets at a disk that the line as a whole does not ask for: the
\* one that is used has the number that was typed, unless that needs more than 32 bits,
\* and only --yes lets it be written or served over USB; and an app that was asked to
\* flash reports success only if the image is on that disk (main.c:1511-1579, 67-81).
DiskAsAsked ==
  /\ bio # NoDisk =>
       /\ WellFormed /\ Given # {} /\ bio < Disks
       /\ bio = Typed \/ (Typed >= Word /\ bio = Typed % Word)
       /\ AsksFlash \/ (AsksUsb /\ Described.yes)
  /\ at # "idle" => bio # NoDisk /\ AsksFlash /\ commit = Described.yes
  /\ phase = "exit" /\ result = EFI_SUCCESS /\ AsksFlash /\ WellFormed =>
       at = "returned" /\ status = EFI_SUCCESS /\ (Described.yes => commit /\ flushed)

\* Whichever call fails on the way, the app leaves nothing open or allocated, except
\* the part of a plan whose parse failed (main.c:1531-1578; ffu.c:98-146).
NothingHeld ==
  phase = "exit" =>
    held = {} \/ (held = {"plan"} /\ result.error /\ at = "idle" /\ packets = <<0, 0>>)

\* The packets that --packets shows are those that carry the header and the payload,
\* cut without regard to entries, and one more that ends the transfer (ffu.c:617-647).
PacketsSuffice ==
  packets # <<0, 0>> =>
    /\ packets[1] * MaxHeader >= HeaderSize /\ (packets[1] - 1) * MaxHeader < HeaderSize
    /\ (packets[2] - 1) * MaxPayload >= Len(Payload)
    /\ (packets[2] - 2) * MaxPayload < Len(Payload)

\* The app comes to an end, or serves USB.
MainReturns == <>(phase \in {"exit", "usb"})

===============================================================================
