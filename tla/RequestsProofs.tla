---------------------------- MODULE RequestsProofs -----------------------------
(***************************************************************************)
(* Theorems about Requests, for every transfer size, block size, set of    *)
(* variables and sizes a host may ask for.                                 *)
(*                                                                         *)
(* What a reply says is settled in the step that sends it.  What a host    *)
(* has been told it wrote is older, so the inductive invariant Known ties  *)
(* it to what the device keeps, and to how long a value can be that came   *)
(* in a single transfer.                                                   *)
(***************************************************************************)
EXTENDS Requests, TLAPS

-------------------------------------------------------------------------------
(* The inductive invariant. *)

\* What the host knows of a variable is what the device keeps, and if it is there, it was
\* written: its name is one, and it came with 555 bytes ahead of it.
KnownVariable(name) ==
  \A value \in told.variables[name] :
    /\ nvram[name] = value
    /\ value # Absent =>
         /\ NameOk(name)
         /\ value.bytes \in Nat
         /\ value.bytes <= KiB64
         /\ 555 + value.bytes <= max_transfer

Known ==
  /\ device \in Devices
  /\ faults \in BOOLEAN
  /\ \A block \in told.options : g_ffu_options = block
  /\ \A mode \in told.mode : g_mode_data = (IF mode = 0 THEN 0 ELSE 1)
  /\ told.variables = [name \in Names |-> told.variables[name]]
  /\ told = [options |-> told.options, mode |-> told.mode, variables |-> told.variables]
  /\ nvram = [name \in Names |-> nvram[name]]
  /\ \A name \in Names : ~NameOk(name) => nvram[name] = Absent
  /\ \A name \in Names : KnownVariable(name)

LEMMA DeviceFacts ==
  ASSUME Known PROVE max_transfer \in Nat \ {0} /\ device.block_size \in Nat \ {0}
BY RequestsAssumption DEF Known, max_transfer

LEMMA InitKnown == Init => Known
<1> SUFFICES ASSUME Init PROVE Known
  OBVIOUS
<1>1. /\ told.options = {} /\ told.mode = {} /\ \A n \in Names : told.variables[n] = {}
      /\ told = [options |-> told.options, mode |-> told.mode, variables |-> told.variables]
      /\ told.variables = [name \in Names |-> told.variables[name]]
  BY DEF Init, Unknown
<1>2. nvram = [name \in Names |-> nvram[name]]
  BY DEF Init
<1> QED BY <1>1, <1>2 DEF Init, Known, KnownVariable

\* Steps that change neither what is kept nor what is told.
KeepsAll == UNCHANGED <<device, faults, g_ffu_options, g_mode_data, nvram, told>>

LEMMA KeptKnown == ASSUME Known, KeepsAll PROVE Known'
<1>1. UNCHANGED <<device, faults, g_ffu_options, g_mode_data, nvram, told>>
  BY DEF KeepsAll
<1>2. UNCHANGED max_transfer
  BY <1>1 DEF max_transfer
<1>3. \A name \in Names : KnownVariable(name)'
  BY <1>1, <1>2 DEF Known, KnownVariable, NameOk
<1> QED BY <1>1, <1>3 DEF Known, NameOk

LEMMA WriteVariableKnown == ASSUME Known, WriteVariable PROVE Known'
<1>1. PICK name \in Names, value \in Values, short \in BOOLEAN :
        /\ \/ nvram' = nvram /\ Sends(FwReply(8))
           \/ /\ 555 + value.bytes <= max_transfer /\ ~(value.bytes > KiB64) /\ NameOk(name)
              /\ SetVariable(name, value) /\ Sends(FwReply(0))
           \/ nvram' = nvram /\ \E status \in {1, 4} : Sends(FwReply(status))
        /\ told' = [told EXCEPT !.variables[name] =
                      Heard(told.variables[name], IF value.bytes > 0 THEN value ELSE Absent)]
  BY ZenonT(60) DEF WriteVariable, WriteFails
<1> DEFINE new == IF value.bytes > 0 THEN value ELSE Absent
           old == told.variables[name]
<1>2. /\ UNCHANGED <<device, faults, g_ffu_options, g_mode_data>>
      /\ UNCHANGED max_transfer
  BY DEF WriteVariable, max_transfer
<1>3. value.bytes \in Nat
  BY RequestsAssumption
<1>4. told' = [told EXCEPT !.variables[name] = Heard(old, new)]
  BY <1>1
<1>5. /\ told'.options = told.options /\ told'.mode = told.mode
      /\ told'.variables = [told.variables EXCEPT ![name] = Heard(old, new)]
      /\ told' = [options |-> told'.options, mode |-> told'.mode,
                  variables |-> told'.variables]
  BY <1>4 DEF Known
<1>6. /\ told'.variables = [n \in Names |-> told'.variables[n]]
      /\ told'.variables[name] = Heard(old, new)
      /\ \A n \in Names : n # name => told'.variables[n] = told.variables[n]
  BY <1>5 DEF Known
<1>7. \/ /\ nvram' = nvram
         /\ reply' = NoReply \/ reply'.status # 0
      \/ /\ NameOk(name) /\ value.bytes <= KiB64 /\ 555 + value.bytes <= max_transfer
         /\ nvram' = [nvram EXCEPT ![name] = new]
         /\ reply' = NoReply \/ reply'.status = 0
  <2>1. \A status \in {1, 4, 8} : Sends(FwReply(status)) => reply' = NoReply \/ reply'.status # 0
    BY DEF Sends, FwReply, Frame
  <2>2. Sends(FwReply(0)) => reply' = NoReply \/ reply'.status = 0
    BY DEF Sends, FwReply, Frame
  <2>3. ~(value.bytes > KiB64) => value.bytes <= KiB64
    BY <1>3 DEF KiB64
  <2> QED BY <1>1, <2>1, <2>2, <2>3 DEF SetVariable
<1>8. /\ nvram' = [n \in Names |-> nvram'[n]]
      /\ \A n \in Names : n # name => nvram'[n] = nvram[n]
      /\ nvram'[name] = nvram[name] \/ NameOk(name)
  BY <1>7 DEF Known
<1>9. \A n \in Names : ~NameOk(n) => nvram'[n] = Absent
  BY <1>8 DEF Known
<1>10. ASSUME NEW n \in Names, n # name PROVE KnownVariable(n)'
  BY <1>2, <1>6, <1>8, <1>10 DEF Known, KnownVariable, NameOk
<1>11. KnownVariable(name)'
  <2>1. CASE nvram' = nvram /\ (reply' = NoReply \/ reply'.status # 0)
    <3>1. Heard(old, new) \in {{}, old}
      BY <2>1 DEF Heard, Unknown
    <3> QED BY <1>2, <1>6, <2>1, <3>1 DEF Known, KnownVariable, NameOk
  <2>2. CASE /\ NameOk(name) /\ value.bytes <= KiB64 /\ 555 + value.bytes <= max_transfer
             /\ nvram' = [nvram EXCEPT ![name] = new]
             /\ reply' = NoReply \/ reply'.status = 0
    <3>1. Heard(old, new) \in {{}, {new}}
      BY <2>2 DEF Heard, Unknown
    <3>2. nvram'[name] = new
      BY <2>2 DEF Known
    <3>3. new # Absent => new = value
      OBVIOUS
    <3> HIDE DEF new
    <3> QED BY <1>2, <1>3, <1>6, <2>2, <3>1, <3>2, <3>3 DEF KnownVariable, NameOk
  <2> QED BY <1>7, <2>1, <2>2
<1>12. \A n \in Names : KnownVariable(n)'
  BY <1>10, <1>11
<1> QED BY <1>2, <1>5, <1>6, <1>8, <1>9, <1>12 DEF Known, NameOk

LEMMA WriteOptionsKnown == ASSUME Known, WriteOptions PROVE Known'
<1>1. PICK block \in OptionBlocks, exact \in BOOLEAN :
        /\ g_ffu_options' = IF exact THEN block ELSE g_ffu_options
        /\ Sends(FwReply(IF exact THEN 0 ELSE 8))
        /\ told' = [told EXCEPT !.options = Heard(@, block)]
  BY DEF WriteOptions
<1>2. UNCHANGED <<device, faults, g_mode_data, nvram>> /\ UNCHANGED max_transfer
  BY DEF WriteOptions, max_transfer
<1>3. /\ told'.options = Heard(told.options, block)
      /\ told'.mode = told.mode /\ told'.variables = told.variables
      /\ told' = [options |-> told'.options, mode |-> told'.mode,
                  variables |-> told'.variables]
  BY <1>1 DEF Known
<1>4. \A b \in told'.options : g_ffu_options' = b
  BY <1>1, <1>3 DEF Known, Heard, Unknown, Sends, FwReply, Frame
<1>5. \A name \in Names : KnownVariable(name)'
  BY <1>2, <1>3 DEF Known, KnownVariable, NameOk
<1> QED BY <1>2, <1>3, <1>4, <1>5 DEF Known, NameOk

LEMMA WriteModeKnown == ASSUME Known, WriteMode PROVE Known'
<1>1. PICK mode \in 0 .. 2, valid \in BOOLEAN :
        /\ g_mode_data' = IF ~valid THEN g_mode_data ELSE IF mode # 0 THEN 1 ELSE 0
        /\ Sends(FwReply(IF valid THEN 0 ELSE 11))
        /\ told' = [told EXCEPT !.mode = Heard(@, mode)]
  BY DEF WriteMode
<1>2. UNCHANGED <<device, faults, g_ffu_options, nvram>> /\ UNCHANGED max_transfer
  BY DEF WriteMode, max_transfer
<1>3. /\ told'.mode = Heard(told.mode, mode)
      /\ told'.options = told.options /\ told'.variables = told.variables
      /\ told' = [options |-> told'.options, mode |-> told'.mode,
                  variables |-> told'.variables]
  BY <1>1 DEF Known
<1>4. \A m \in told'.mode : g_mode_data' = (IF m = 0 THEN 0 ELSE 1)
  BY <1>1, <1>3 DEF Known, Heard, Unknown, Sends, FwReply, Frame
<1>5. \A name \in Names : KnownVariable(name)'
  BY <1>2, <1>3 DEF Known, KnownVariable, NameOk
<1> QED BY <1>2, <1>3, <1>4, <1>5 DEF Known, NameOk

-------------------------------------------------------------------------------
(* The steps by what they ask. *)

\* A step whose reply is one of the given, which change nothing that is kept.
Plain ==
  {"none", "hello", "unknown", "runt", "NOKS", "NOKN", "leave", "CBR", "relock", "unlock",
   "log", "info", "gpt", "CB", "CM", "CC", "echo", "file", "write", "malformed"}

PlainStep ==
  \/ Receive
  \/ Hello \/ NoSense \/ Ignore \/ Leave
  \/ Relock \/ Unlock \/ ReadLog \/ VInfo \/ ReadGpt
  \/ Acknowledge \/ Echo \/ FileStub
  \/ WriteOther \/ Malformed

LEMMA PlainFacts == ASSUME PlainStep PROVE KeepsAll /\ request'.kind \in Plain
<1>1. CASE Receive \/ Hello \/ NoSense
  BY <1>1 DEF Receive, Hello, NoSense, Answer, Asked, KeepsAll, state, None, Plain
<1>2. CASE Ignore \/ Leave
  BY <1>2 DEF Ignore, Leave, Silence, Asked, KeepsAll, state, Plain
<1>3. CASE Relock \/ Unlock \/ ReadLog \/ VInfo \/ ReadGpt
  BY <1>3 DEF Relock, Unlock, ReadLog, VInfo, ReadGpt, Answer, Asked, KeepsAll, state, Plain
<1>4. CASE Acknowledge \/ Echo \/ FileStub
  BY <1>4 DEF Acknowledge, Echo, FileStub, Answer, Asked, KeepsAll, state, Plain
<1>5. CASE WriteOther \/ Malformed
  BY <1>5 DEF WriteOther, Malformed, Answer, Asked, KeepsAll, state, Plain
<1> QED BY <1>1, <1>2, <1>3, <1>4, <1>5 DEF PlainStep

LEMMA WriteFacts ==
  ASSUME WriteVariable \/ WriteOptions \/ WriteMode PROVE request'.kind \in {"SUFV", "FO", "MODE"}
BY DEF WriteVariable, WriteOptions, WriteMode, WriteFails, Asked

LEMMA ReadFacts ==
  ASSUME ReadParam \/ ReadVariableSize \/ ReadVariable \/ Payload PROVE KeepsAll
<1>1. CASE ReadParam \/ Payload
  BY <1>1 DEF ReadParam, Payload, Answer, KeepsAll, state
<1>2. CASE ReadVariableSize \/ ReadVariable
  <2>1. \E m : Asked(m) /\ KeepsAll
    <3>1. \A m, r : Failing(m, r) \/ Answer(m, r) => Asked(m) /\ KeepsAll
      BY DEF Failing, Answer, KeepsAll, state
    <3>2. CASE ReadVariableSize
      BY <3>1, <3>2, ZenonT(30) DEF ReadVariableSize
    <3>3. CASE ReadVariable
      BY <3>1, <3>3, ZenonT(30) DEF ReadVariable
    <3> QED BY <1>2, <3>2, <3>3
  <2> QED BY <2>1
<1> QED BY <1>1, <1>2

LEMMA ReadKinds ==
  ASSUME ReadParam \/ ReadVariableSize \/ ReadVariable
  PROVE  request'.kind \in {"read", "GUVS", "GUFV"}
<1>1. CASE ReadParam
  BY <1>1 DEF ReadParam, Answer, Asked
<1>2. CASE ReadVariableSize
  <2>1. \E name, short : request' = [kind |-> "GUVS", name |-> name, short |-> short]
    BY <1>2, ZenonT(30) DEF ReadVariableSize, Failing, Answer, Asked
  <2> QED BY <2>1
<1>3. CASE ReadVariable
  <2>1. \E name, requested, short :
          request' = [kind |-> "GUFV", name |-> name, requested |-> requested, short |-> short]
    BY <1>3, ZenonT(30) DEF ReadVariable, Failing, Answer, Asked
  <2> QED BY <2>1
<1> QED BY <1>1, <1>2, <1>3

LEMMA StepKnown == Known /\ [Next]_vars => Known'
<1>1. ASSUME Known, UNCHANGED vars PROVE Known'
  BY <1>1, KeptKnown DEF vars, state, KeepsAll
<1>2. ASSUME Known, PlainStep PROVE Known'
  BY <1>2, PlainFacts, KeptKnown
<1>3. ASSUME Known, ReadParam \/ ReadVariableSize \/ ReadVariable \/ Payload PROVE Known'
  BY <1>3, ReadFacts, KeptKnown
<1> QED BY <1>1, <1>2, <1>3, WriteVariableKnown, WriteOptionsKnown, WriteModeKnown
        DEF Next, PlainStep

\* What the firmware keeps has a size.
Stored == \A name \in Names : nvram[name].bytes \in Nat

LEMMA InitStored == Init => Stored
BY RequestsAssumption DEF Init, Stored, Absent

LEMMA StepStored == Known /\ Stored /\ [Next]_vars => Stored'
<1>1. ASSUME Stored, nvram' = nvram PROVE Stored'
  BY <1>1 DEF Stored
<1>2. ASSUME Known, Stored, WriteVariable PROVE Stored'
  <2>1. PICK name \in Names, value \in Values :
          nvram' = nvram \/ SetVariable(name, value)
    BY <1>2, ZenonT(30) DEF WriteVariable, WriteFails
  <2>2. value.bytes \in Nat /\ Absent.bytes \in Nat
    BY RequestsAssumption DEF Absent
  <2> QED BY <1>2, <2>1, <2>2 DEF SetVariable, Stored, Known
<1>3. WriteOptions \/ WriteMode => nvram' = nvram
  BY DEF WriteOptions, WriteMode
<1> QED BY <1>1, <1>2, <1>3, PlainFacts, ReadFacts DEF Next, PlainStep, KeepsAll, vars, state

-------------------------------------------------------------------------------
(* What a host reads back. *)

LEMMA ReadParamReads == ASSUME Known, ReadParam PROVE ReadsLastWrite'
<1>1. KeepsAll
  BY ReadFacts
<1>2. /\ request'.kind = "read"
      /\ request'.param = "FO" => reply' = NoReply \/ reply'.says = g_ffu_options
      /\ request'.param = "MODE" =>
           reply' = NoReply \/ (reply'.status = 0 => reply'.says = g_mode_data)
  <2>1. CASE \E param \in FixedParams :
               Answer([kind |-> "read", param |-> param],
                      FrReply(Fixed(param)[1], Fixed(param)[2], "fixed"))
    BY <2>1 DEF Answer, Asked, FixedParams
  <2>2. CASE \/ Answer([kind |-> "read", param |-> "short"], FrReply(8, 0, "nothing"))
             \/ Answer([kind |-> "read", param |-> "FO"], FrReply(0, 500, g_ffu_options))
             \/ Answer([kind |-> "read", param |-> "TS"], FrReply(0, 4, max_transfer))
             \/ Answer([kind |-> "read", param |-> "WBS"], FrReply(0, 4, write_size))
    BY <2>2 DEF Answer, Asked, Sends, FrReply, Frame
  <2>3. CASE \/ \E status \in {0, 8} :
                 Answer([kind |-> "read", param |-> "LZ"], FrReply(status, 8, 0))
             \/ \E status \in {0, 11} :
                  Answer([kind |-> "read", param |-> "MODE"],
                         FrReply(status, 4, IF status = 0 THEN g_mode_data ELSE 0))
    BY <2>3 DEF Answer, Asked, Sends, FrReply, Frame
  <2> QED BY <2>1, <2>2, <2>3 DEF ReadParam
<1> QED BY <1>1, <1>2 DEF ReadsLastWrite, Reads, KeepsAll, Known

\* The size of a variable, asked for whole.
LEMMA ReadVariableSizeReads == ASSUME Known, ReadVariableSize PROVE ReadsLastWrite'
<1>1. PICK name \in Names, short \in BOOLEAN :
        LET m == [kind |-> "GUVS", name |-> name, short |-> short]
        IN  IF short \/ ~NameOk(name) THEN Answer(m, FrReply(8, 0, "nothing"))
            ELSE Failing(m, IF nvram[name] = Absent THEN FrReply(10, 0, "nothing")
                                                    ELSE FrReply(0, 4, nvram[name].bytes))
  BY DEF ReadVariableSize
<1>2. KeepsAll
  BY ReadFacts
<1>3. request' = [kind |-> "GUVS", name |-> name, short |-> short]
  BY <1>1 DEF Failing, Answer, Asked
<1>4. \/ reply' = NoReply
      \/ (short \/ ~NameOk(name)) /\ reply' = FrReply(8, 0, "nothing")
      \/ faults /\ reply'.status \in {1, 2}
      \/ NameOk(name) /\ reply' = IF nvram[name] = Absent THEN FrReply(10, 0, "nothing")
                                  ELSE FrReply(0, 4, nvram[name].bytes)
  <2>1. \A status \in {1, 2} : FrReply(status, 0, "nothing").status = status
    BY DEF FrReply, Frame
  <2> QED BY <1>1, <2>1 DEF Failing, Answer, Sends
<1>5. ~short /\ reply' # NoReply =>
        \A value \in told.variables[name] :
          \/ faults /\ reply'.status \in {1, 2}
          \/ value = Absent /\ reply'.status # 0
          \/ value # Absent /\ reply'.status = 0 /\ reply'.says = value.bytes
  BY <1>4 DEF Known, KnownVariable, FrReply, Frame
<1> QED BY <1>2, <1>3, <1>5 DEF ReadsLastWrite, Reads, KeepsAll

\* A variable, asked for with some size.
LEMMA ReadVariableReads == ASSUME Known, ReadVariable PROVE ReadsLastWrite'
<1>1. PICK name \in Names, requested \in Sizes \cup {v.bytes : v \in Values}, short \in BOOLEAN :
        LET m == [kind |-> "GUFV", name |-> name, requested |-> requested, short |-> short]
        IN  IF short \/ requested > KiB64 THEN Answer(m, FrReply(8, 0, "nothing"))
            ELSE IF max_transfer <= 25 \/ requested > Room
              THEN Answer(m, FrReply(48, 0, "nothing"))
            ELSE IF ~NameOk(name) THEN Answer(m, FrReply(8, 0, "nothing"))
            ELSE Failing(m, IF nvram[name] = Absent THEN FrReply(10, 0, "nothing")
                            ELSE IF nvram[name].bytes > requested THEN FrReply(2, 0, "nothing")
                            ELSE FrReply(0, 8 + nvram[name].bytes, nvram[name]))
  BY DEF ReadVariable
<1>2. KeepsAll
  BY ReadFacts
<1>3. request' = [kind |-> "GUFV", name |-> name, requested |-> requested, short |-> short]
  BY <1>1 DEF Failing, Answer, Asked
<1>4. \/ reply' = NoReply
      \/ faults /\ reply'.status \in {1, 2}
      \/ short
      \/ requested > KiB64 /\ reply'.status = 8
      \/ (max_transfer <= 25 \/ requested > Room) /\ reply'.status = 48
      \/ ~NameOk(name) /\ reply'.status = 8
      \/ nvram[name] = Absent /\ reply'.status = 10
      \/ nvram[name].bytes > requested /\ reply'.status = 2
      \/ nvram[name] # Absent /\ reply'.status = 0 /\ reply'.says = nvram[name]
  <2>1. \A status, len, says : /\ FrReply(status, len, says).status = status
                              /\ FrReply(status, len, says).says = says
    BY DEF FrReply, Frame
  <2>2. \/ short
        \/ requested > KiB64 /\ Sends(FrReply(8, 0, "nothing"))
        \/ (max_transfer <= 25 \/ requested > Room) /\ Sends(FrReply(48, 0, "nothing"))
        \/ ~NameOk(name) /\ Sends(FrReply(8, 0, "nothing"))
        \/ faults /\ \E status \in {1, 2} : Sends(FrReply(status, 0, "nothing"))
        \/ nvram[name] = Absent /\ Sends(FrReply(10, 0, "nothing"))
        \/ nvram[name].bytes > requested /\ Sends(FrReply(2, 0, "nothing"))
        \/ nvram[name] # Absent /\ Sends(FrReply(0, 8 + nvram[name].bytes, nvram[name]))
    BY <1>1 DEF Failing, Answer
  <2>3. \A r : Sends(r) => reply' \in {r, NoReply}
    BY DEF Sends
  <2> QED BY <2>1, <2>2, <2>3
<1>5. ASSUME ~short, reply' # NoReply, NEW value \in told.variables[name]
      PROVE  \/ faults /\ reply'.status \in {1, 2}
             \/ value = Absent /\ reply'.status # 0
             \/ value # Absent /\ IF reply'.status = 0 THEN reply'.says = value
                                                      ELSE requested # value.bytes
  <2>1. nvram[name] = value
    BY DEF Known, KnownVariable
  <2>2. CASE value = Absent
    <3>1. value.bytes = 0
      BY <2>2 DEF Absent
    <3> QED BY <1>4, <1>5, <2>1, <2>2
  <2>3. CASE value # Absent
    <3>1. /\ NameOk(name) /\ value.bytes \in Nat /\ value.bytes <= KiB64
          /\ 555 + value.bytes <= max_transfer
      BY <2>3 DEF Known, KnownVariable
    <3>2. max_transfer \in Nat
      BY DeviceFacts
    <3>3. requested = value.bytes =>
            /\ ~(requested > KiB64)
            /\ ~(max_transfer <= 25) /\ ~(requested > Room)
            /\ ~(value.bytes > requested)
      BY <3>1, <3>2 DEF KiB64, Room
    <3> QED BY <1>4, <1>5, <2>1, <2>3, <3>1, <3>3
  <2> QED BY <2>2, <2>3
<1> QED BY <1>2, <1>3, <1>5 DEF ReadsLastWrite, Reads, KeepsAll

LEMMA StepReads == Known /\ ReadsLastWrite /\ [Next]_vars => ReadsLastWrite'
<1>1. ASSUME ReadsLastWrite, UNCHANGED vars PROVE ReadsLastWrite'
  BY <1>1 DEF vars, state, ReadsLastWrite, Reads
<1>2. ASSUME PlainStep PROVE ReadsLastWrite'
  BY <1>2, PlainFacts DEF Plain, ReadsLastWrite, Reads
<1>3. ASSUME WriteVariable \/ WriteOptions \/ WriteMode PROVE ReadsLastWrite'
  BY <1>3, WriteFacts DEF ReadsLastWrite, Reads
<1>4. ASSUME Payload PROVE ReadsLastWrite'
  <2>1. \E version, data_len, wrong :
          request' = [kind |-> "payload", version |-> version, data_len |-> data_len,
                      wrong |-> wrong]
    BY <1>4, ZenonT(30) DEF Payload, Answer, Asked
  <2>2. request'.kind = "payload"
    BY <2>1
  <2> QED BY <2>2 DEF ReadsLastWrite, Reads
<1> QED BY <1>1, <1>2, <1>3, <1>4, ReadParamReads, ReadVariableSizeReads, ReadVariableReads
        DEF Next, PlainStep

\* What a host has been told is written, it reads back, whatever it asks for in between:
\* the handlers of FO, MODE and the UEFI variables.
THEOREM WritesReadBack == Spec => []ReadsLastWrite
<1>1. Init => Known /\ ReadsLastWrite
  BY InitKnown DEF Init, ReadsLastWrite
<1> QED BY <1>1, StepKnown, StepReads, PTL DEF Spec

-------------------------------------------------------------------------------
(* What the device announces. *)

LEMMA PayloadAccepts == ASSUME Known, Payload PROVE AnnouncedIsAccepted'
<1>1. PICK version \in {"V1", "V2", "V3"}, data_len \in Sizes \cup {write_size},
           wrong \in {"nothing", "length", "options", "protocol"} :
        LET len == Smaller(DataOffset[version] + data_len, max_transfer)
        IN  Answer([kind |-> "payload", version |-> version, data_len |-> data_len, wrong |-> wrong],
                   IF wrong = "length" THEN FsShort(16)
                   ELSE IF wrong \in {"options", "protocol"} THEN FsShort(8)
                   ELSE IF data_len > UFP_MAX_PAYLOAD_DATA \/ len < DataOffset[version] + data_len
                     THEN FsShort(16)
                   ELSE Frame(36, 6, "not ready"))
  BY Zenon DEF Payload
<1>2. /\ request' = [kind |-> "payload", version |-> version, data_len |-> data_len,
                     wrong |-> wrong]
      /\ UNCHANGED device
  BY <1>1, Zenon DEF Answer, Asked
<1>3. UNCHANGED <<max_transfer, write_size>>
  BY <1>2 DEF max_transfer, write_size
<1>4. SUFFICES ASSUME wrong = "nothing", data_len = write_size, max_transfer > 32,
                      reply' # NoReply
               PROVE  reply'.status = 16 <=> version = "V3" /\ write_size + 64 > max_transfer
  BY <1>2, <1>3 DEF AnnouncedIsAccepted
<1> DEFINE len == Smaller(DataOffset[version] + data_len, max_transfer)
<1>5. reply' = IF data_len > UFP_MAX_PAYLOAD_DATA \/ len < DataOffset[version] + data_len
                 THEN FsShort(16) ELSE Frame(36, 6, "not ready")
  <2>1. "nothing" # "length" /\ "nothing" \notin {"options", "protocol"}
    OBVIOUS
  <2> QED BY <1>1, <1>4, <2>1, Zenon DEF Answer, Sends
<1>6. /\ write_size \in Nat /\ write_size <= UFP_MAX_PAYLOAD_DATA
      /\ write_size <= max_transfer - 32
      /\ UFP_MAX_PAYLOAD_DATA \in Nat /\ max_transfer \in Nat
  <2>1. UFP_MAX_PAYLOAD_DATA \in Nat
    BY DEF UFP_MAX_PAYLOAD_DATA
  <2> QED BY <1>4, <2>1, DeviceFacts DEF write_size, Smaller
<1>7. DataOffset[version] = IF version = "V3" THEN 64 ELSE IF version = "V2" THEN 32 ELSE 28
  BY DEF DataOffset
<1>8. /\ ~(data_len > UFP_MAX_PAYLOAD_DATA)
      /\ len < DataOffset[version] + data_len <=> version = "V3" /\ write_size + 64 > max_transfer
  BY <1>4, <1>6, <1>7 DEF Smaller
<1> DEFINE refused == data_len > UFP_MAX_PAYLOAD_DATA \/ len < DataOffset[version] + data_len
<1>10. reply' = IF refused THEN FsShort(16) ELSE Frame(36, 6, "not ready")
  BY <1>5
<1>11. refused <=> version = "V3" /\ write_size + 64 > max_transfer
  BY <1>8
<1> HIDE DEF refused
<1>12. ASSUME refused PROVE reply'.status = 16
  BY <1>10, <1>12 DEF FsShort, Frame
<1>13. ASSUME ~refused PROVE reply'.status = 6
  BY <1>10, <1>13 DEF FsShort, Frame
<1> QED BY <1>11, <1>12, <1>13

LEMMA StepAccepts == Known /\ AnnouncedIsAccepted /\ [Next]_vars => AnnouncedIsAccepted'
<1>1. ASSUME AnnouncedIsAccepted, UNCHANGED vars PROVE AnnouncedIsAccepted'
  BY <1>1 DEF vars, AnnouncedIsAccepted, max_transfer, write_size
<1>2. ASSUME PlainStep PROVE AnnouncedIsAccepted'
  BY <1>2, PlainFacts DEF Plain, AnnouncedIsAccepted
<1>3. ASSUME WriteVariable \/ WriteOptions \/ WriteMode PROVE AnnouncedIsAccepted'
  BY <1>3, WriteFacts DEF AnnouncedIsAccepted
<1>4. ASSUME ReadParam \/ ReadVariableSize \/ ReadVariable PROVE AnnouncedIsAccepted'
  BY <1>4, ReadKinds DEF AnnouncedIsAccepted
<1> QED BY <1>1, <1>2, <1>3, <1>4, PayloadAccepts DEF Next, PlainStep

\* As many bytes as the device announces pass the length checks of a payload packet, but
\* for those of a V3 packet on a transport whose transfers are the limit.
THEOREM AnnouncedSizeFits == Spec => []AnnouncedIsAccepted
<1>1. Init => Known /\ AnnouncedIsAccepted
  BY InitKnown DEF Init, AnnouncedIsAccepted, None
<1> QED BY <1>1, StepKnown, StepAccepts, PTL DEF Spec

-------------------------------------------------------------------------------
(* Which requests are answered. *)

\* What is assumed of the firmware, whose word the transport takes for the size of a
\* transfer (usb_transport.c:268-273): a packet of the endpoints fits (512 bytes, :35, :39).
Wide == \A d \in Devices : d.max_transfer >= 512

LEMMA WideFacts == ASSUME Known, Wide PROVE max_transfer \in Nat /\ max_transfer >= 512
BY DeviceFacts DEF Known, Wide, max_transfer

\* A step that answers, whose reply is too long for a transfer just when TooLong says so.
Answers(r) ==
  /\ Sends(r)
  /\ UNCHANGED <<device, faults>>
  /\ r.len \in Nat \ {0}
  /\ r.len > max_transfer <=> TooLong'

LEMMA AnswersHolds ==
  ASSUME Known, NEW r, Answers(r) PROVE AnsweredUnlessTooLong'
<1>1. max_transfer \in Nat /\ r.len \in Nat \ {0}
  BY DeviceFacts DEF Answers
<1>2. r # NoReply
  BY <1>1 DEF NoReply
<1>3. ~faults => reply' = IF r.len <= max_transfer THEN r ELSE NoReply
  BY DEF Answers, Sends
<1>4. ~faults => (reply' = NoReply <=> r.len > max_transfer)
  BY <1>1, <1>2, <1>3
<1> QED BY <1>4 DEF Answers, AnsweredUnlessTooLong

\* Most replies fit the smallest transfer.
LEMMA ShortHolds ==
  ASSUME Known, Wide, NEW r, Sends(r), UNCHANGED <<device, faults>>,
         r.len \in Nat \ {0}, r.len <= 512,
         request'.kind \notin {"file", "gpt"},
         ~(request'.kind = "read" /\ request'.param = "FO")
  PROVE  AnsweredUnlessTooLong'
<1>1. ~(r.len > max_transfer)
  BY WideFacts
<1>2. ~TooLong'
  BY DEF TooLong
<1> QED BY <1>1, <1>2, AnswersHolds DEF Answers

LEMMA SmallAnswered ==
  ASSUME Known, Wide, Hello \/ NoSense \/ Leave \/ Relock \/ Unlock \/ ReadLog \/ VInfo
  PROVE  AnsweredUnlessTooLong'
<1>1. UNCHANGED <<device, faults>>
  BY PlainFacts DEF PlainStep, KeepsAll
<1>2. request'.kind \in {"hello", "unknown", "leave", "CBR", "relock", "unlock", "log", "info"}
  BY DEF Hello, NoSense, Leave, Relock, Unlock, ReadLog, VInfo, Answer, Asked
<1>3. \/ request'.kind = "leave"
      \/ \E r : Sends(r) /\ r.len \in Nat \ {0} /\ r.len <= 512
  <2>1. CASE Hello
    <3>1. Sends(Frame(4, 0, "hello"))
      BY <2>1 DEF Hello, Answer
    <3> QED BY <3>1 DEF Frame
  <2>2. CASE NoSense
    <3>1. Sends(Frame(4, 0, "unknown"))
      BY <2>2 DEF NoSense, Answer, NOKU
    <3> QED BY <3>1 DEF Frame
  <2>3. CASE Leave
    <3>1. request'.kind = "leave" \/ Sends(Frame(12, 0, "switch"))
      BY <2>3 DEF Leave, Asked
    <3> QED BY <3>1 DEF Frame
  <2>4. CASE Relock
    <3>1. Sends(Frame(10, 0, "relock"))
      BY <2>4 DEF Relock, Answer
    <3> QED BY <3>1 DEF Frame
  <2>5. CASE Unlock
    <3>1. \E status : Sends(Frame(14, status, "unlock"))
      BY <2>5 DEF Unlock, Answer
    <3> QED BY <3>1 DEF Frame
  <2>6. CASE ReadLog
    <3>1. \E status : Sends(BlobReply(status, 0))
      BY <2>6 DEF ReadLog, Answer
    <3> QED BY <3>1 DEF BlobReply, Frame
  <2>7. CASE VInfo
    <3>1. Sends(Frame(11 + 3 * 7 + (5 + 12 + 8 + 12 + 4), 0, write_size))
      BY <2>7 DEF VInfo, Answer
    <3> QED BY <3>1 DEF Frame
  <2> QED BY <2>1, <2>2, <2>3, <2>4, <2>5, <2>6, <2>7
<1>4. CASE request'.kind = "leave"
  BY <1>4 DEF AnsweredUnlessTooLong, Silent
<1>5. CASE request'.kind # "leave"
  BY <1>1, <1>2, <1>3, <1>5, ShortHolds
<1> QED BY <1>4, <1>5

LEMMA GptAnswered == ASSUME Known, Wide, ReadGpt PROVE AnsweredUnlessTooLong'
<1>1. PICK status : /\ request' = [kind |-> "gpt"]
                    /\ Sends(Frame(8 + GptBytes, status, "gpt"))
                    /\ UNCHANGED <<device, faults>>
  BY DEF ReadGpt, Answer, Asked
<1>2. GptBytes \in Nat
  BY DEF GptBytes
<1>3. UNCHANGED <<max_transfer, GptBytes>>
  BY <1>1 DEF max_transfer, GptBytes
<1>4. TooLong' <=> GptBytes + 8 > max_transfer
  BY <1>1, <1>3 DEF TooLong
<1> DEFINE r == Frame(8 + GptBytes, status, "gpt")
<1>5. r.len = 8 + GptBytes
  BY DEF Frame
<1> HIDE DEF r
<1>6. Sends(r)
  BY <1>1 DEF r
<1>7. Answers(r)
  BY <1>1, <1>2, <1>4, <1>5, <1>6 DEF Answers
<1> QED BY <1>7, AnswersHolds

LEMMA SizesFacts == ASSUME Known PROVE Sizes \subseteq Nat
<1>1. \A b \in Below : b <= max_transfer => max_transfer - b \in Nat
  BY DeviceFacts, RequestsAssumption
<1>2. Limits \subseteq Nat
  BY RequestsAssumption
<1> QED BY <1>1, <1>2 DEF Sizes

LEMMA ExtensionAnswered == ASSUME Known, Wide, Acknowledge \/ Echo PROVE AnsweredUnlessTooLong'
<1>1. CASE Acknowledge
  <2>1. /\ UNCHANGED <<device, faults>>
        /\ request'.kind \in {"CB", "CM", "CC"}
    BY <1>1 DEF Acknowledge, Answer, Asked
  <2>2. \E status, says : Sends(Frame(12, status, says)) \/ Sends(Frame(8, status, says))
    BY <1>1, Zenon DEF Acknowledge, Answer
  <2>3. \E r : Sends(r) /\ r.len \in Nat \ {0} /\ r.len <= 512
    BY <2>2 DEF Frame
  <2> QED BY <2>1, <2>3, ShortHolds
<1>2. CASE Echo
  <2>1. PICK len \in {6, 10, max_transfer}, echo_len \in Sizes :
          /\ len <= max_transfer
          /\ Answer([kind |-> "echo"],
                    Frame(6 + (IF len >= 10 THEN Smaller(echo_len, len - 10) ELSE 0), 0, "echo"))
    BY <1>2 DEF Echo
  <2> DEFINE size == 6 + (IF len >= 10 THEN Smaller(echo_len, len - 10) ELSE 0)
             r == Frame(size, 0, "echo")
  <2>2. /\ request' = [kind |-> "echo"] /\ UNCHANGED <<device, faults>>
        /\ Sends(r)
    BY <2>1 DEF Answer, Asked
  <2>3. size \in Nat \ {0} /\ size <= max_transfer
    BY <2>1, WideFacts, SizesFacts DEF Smaller
  <2> HIDE DEF size
  <2>4. r.len = size
    BY DEF Frame
  <2> HIDE DEF r
  <2>5. ~TooLong'
    BY <2>2 DEF TooLong
  <2>6. Answers(r)
    BY <2>2, <2>3, <2>4, <2>5, WideFacts DEF Answers
  <2> QED BY <2>6, AnswersHolds
<1> QED BY <1>1, <1>2

LEMMA FileAnswered == ASSUME Known, Wide, FileStub PROVE AnsweredUnlessTooLong'
<1>1. PICK ext \in {"D", "F", "P"}, requested \in Sizes, offset \in {0, 1},
           lacks \in {"nothing", "header", "data"} :
        /\ lacks = "data" => ext = "P"
        /\ Answer([kind |-> "file", ext |-> ext, requested |-> requested, lacks |-> lacks],
                  FileReply(ext, requested, offset, lacks))
  BY DEF FileStub
<1>2. /\ request' = [kind |-> "file", ext |-> ext, requested |-> requested, lacks |-> lacks]
      /\ UNCHANGED <<device, faults>>
  BY <1>1 DEF Answer, Asked
<1>3. UNCHANGED max_transfer
  BY <1>2 DEF max_transfer
<1>4. TooLong' <=> /\ ext # "P" /\ lacks # "header"
                   /\ requested \in max_transfer - 11 .. max_transfer /\ requested <= 65507
  BY <1>2, <1>3 DEF TooLong
<1>5. requested \in Nat /\ max_transfer \in Nat /\ max_transfer >= 512
  BY SizesFacts, WideFacts
<1> DEFINE r == FileReply(ext, requested, offset, lacks)
<1>6. \E status, size :
        /\ r = BlobReply(status, size)
        /\ \/ size = 0 /\ ~TooLong'
           \/ /\ size = requested /\ requested <= max_transfer
              /\ requested + 12 > max_transfer <=> TooLong'
  <2>1. CASE lacks = "header"
    <3>1. r = BlobReply(8, 0)
      BY <1>1, <2>1 DEF FileReply
    <3> QED BY <1>4, <2>1, <3>1
  <2>2. CASE /\ lacks # "header"
             /\ requested > max_transfer \/ requested > (IF ext = "P" THEN 64404 ELSE 65507)
    <3>1. r = BlobReply(48, 0)
      BY <1>1, <2>2 DEF FileReply
    <3>2. ~TooLong'
      BY <1>4, <1>5, <2>2
    <3> QED BY <3>1, <3>2
  <2>3. CASE /\ lacks # "header"
             /\ ~(requested > max_transfer \/ requested > (IF ext = "P" THEN 64404 ELSE 65507))
    <3>1. CASE ext = "P"
      <4>1. \/ r = BlobReply(8, 0)
            \/ r = BlobReply(38, 0)
        BY <1>1, <2>3, <3>1 DEF FileReply
      <4> QED BY <1>4, <3>1, <4>1
    <3>2. CASE ext # "P" /\ ext = "F" /\ requested = 0 /\ offset # 0
      <4>1. r = BlobReply(8, 0)
        BY <1>1, <2>3, <3>2 DEF FileReply
      <4>2. ~TooLong'
        BY <1>4, <1>5, <3>2
      <4> QED BY <4>1, <4>2
    <3>3. CASE ext # "P" /\ ~(ext = "F" /\ requested = 0 /\ offset # 0)
      <4>1. r = BlobReply(38, requested)
        BY <1>1, <2>3, <3>3 DEF FileReply
      <4>2. requested <= max_transfer /\ (requested + 12 > max_transfer <=> TooLong')
        BY <1>4, <1>5, <2>3, <3>3
      <4> QED BY <4>1, <4>2
    <3> QED BY <3>1, <3>2, <3>3
  <2> QED BY <2>1, <2>2, <2>3
<1>7. \A status, size : BlobReply(status, size).len = 12 + size
  BY DEF BlobReply, Frame
<1>8. Sends(r)
  BY <1>1 DEF Answer
<1> HIDE DEF r
<1>9. r.len \in Nat \ {0} /\ (r.len > max_transfer <=> TooLong')
  BY <1>5, <1>6, <1>7
<1>10. Answers(r)
  BY <1>2, <1>8, <1>9 DEF Answers
<1> QED BY <1>10, AnswersHolds

LEMMA ReadParamAnswered == ASSUME Known, Wide, ReadParam PROVE AnsweredUnlessTooLong'
<1>1. UNCHANGED <<device, faults>> /\ UNCHANGED max_transfer
  BY ReadFacts DEF KeepsAll, max_transfer
<1>2. \A param : Fixed(param)[2] \in 0 .. 21
  BY DEF Fixed
<1>3. CASE \E param \in FixedParams :
             Answer([kind |-> "read", param |-> param],
                    FrReply(Fixed(param)[1], Fixed(param)[2], "fixed"))
  <2>1. PICK param \in FixedParams :
             Answer([kind |-> "read", param |-> param],
                    FrReply(Fixed(param)[1], Fixed(param)[2], "fixed"))
    BY <1>3
  <2> DEFINE r == FrReply(Fixed(param)[1], Fixed(param)[2], "fixed")
  <2>2. r.len \in Nat \ {0} /\ r.len <= 512
    BY <1>2 DEF FrReply, Frame
  <2>3. Sends(r) /\ request' = [kind |-> "read", param |-> param]
    BY <2>1 DEF Answer, Asked
  <2>4. param # "FO"
    BY DEF FixedParams
  <2> HIDE DEF r
  <2> QED BY <1>1, <2>2, <2>3, <2>4, ShortHolds
<1>4. CASE Answer([kind |-> "read", param |-> "FO"], FrReply(0, 500, g_ffu_options))
  <2> DEFINE r == FrReply(0, 500, g_ffu_options)
  <2>1. r.len = 517
    BY DEF FrReply, Frame
  <2>2. Sends(r) /\ request' = [kind |-> "read", param |-> "FO"]
    BY <1>4 DEF Answer, Asked
  <2>3. TooLong' <=> max_transfer < 517
    BY <1>1, <2>2 DEF TooLong
  <2> HIDE DEF r
  <2>4. Answers(r)
    BY <1>1, <2>1, <2>2, <2>3, WideFacts DEF Answers
  <2> QED BY <2>4, AnswersHolds
<1>5. CASE \/ Answer([kind |-> "read", param |-> "short"], FrReply(8, 0, "nothing"))
           \/ Answer([kind |-> "read", param |-> "TS"], FrReply(0, 4, max_transfer))
           \/ Answer([kind |-> "read", param |-> "WBS"], FrReply(0, 4, write_size))
           \/ \E status \in {0, 8} :
                Answer([kind |-> "read", param |-> "LZ"], FrReply(status, 8, 0))
           \/ \E status \in {0, 11} :
                Answer([kind |-> "read", param |-> "MODE"],
                       FrReply(status, 4, IF status = 0 THEN g_mode_data ELSE 0))
  <2>1. \E size \in {0, 4, 8} : \E status, says : Sends(FrReply(status, size, says))
    BY <1>5, ZenonT(30) DEF Answer
  <2>2. \E r : Sends(r) /\ r.len \in Nat \ {0} /\ r.len <= 512
    BY <2>1 DEF FrReply, Frame
  <2>3. request'.kind = "read" /\ request'.param # "FO"
    BY <1>5 DEF Answer, Asked
  <2> QED BY <1>1, <2>2, <2>3, ShortHolds
<1> QED BY <1>3, <1>4, <1>5 DEF ReadParam

LEMMA VariableSizeAnswered ==
  ASSUME Known, Wide, ReadVariableSize PROVE AnsweredUnlessTooLong'
<1>1. UNCHANGED <<device, faults>>
  BY ReadFacts DEF KeepsAll
<1>2. SUFFICES ASSUME ~faults PROVE AnsweredUnlessTooLong'
  BY <1>1 DEF AnsweredUnlessTooLong
<1>3. PICK name, short :
        /\ request' = [kind |-> "GUVS", name |-> name, short |-> short]
        /\ \E status, says : \E size \in {0, 4} : Sends(FrReply(status, size, says))
  BY <1>2, ZenonT(60) DEF ReadVariableSize, Failing, Answer, Asked
<1>4. \E r : Sends(r) /\ r.len \in Nat \ {0} /\ r.len <= 512
  BY <1>3 DEF FrReply, Frame
<1>5. request'.kind = "GUVS"
  BY <1>3
<1> QED BY <1>1, <1>4, <1>5, ShortHolds

\* The reply with a value fits, because the value fits the room that was asked for.
LEMMA VariableAnswered ==
  ASSUME Known, Stored, Wide, ReadVariable PROVE AnsweredUnlessTooLong'
<1>1. UNCHANGED <<device, faults>>
  BY ReadFacts DEF KeepsAll
<1>2. SUFFICES ASSUME ~faults PROVE AnsweredUnlessTooLong'
  BY <1>1 DEF AnsweredUnlessTooLong
<1>3. PICK name \in Names, requested \in Sizes \cup {v.bytes : v \in Values}, short \in BOOLEAN :
        LET m == [kind |-> "GUFV", name |-> name, requested |-> requested, short |-> short]
        IN  IF short \/ requested > KiB64 THEN Answer(m, FrReply(8, 0, "nothing"))
            ELSE IF max_transfer <= 25 \/ requested > Room
              THEN Answer(m, FrReply(48, 0, "nothing"))
            ELSE IF ~NameOk(name) THEN Answer(m, FrReply(8, 0, "nothing"))
            ELSE Failing(m, IF nvram[name] = Absent THEN FrReply(10, 0, "nothing")
                            ELSE IF nvram[name].bytes > requested THEN FrReply(2, 0, "nothing")
                            ELSE FrReply(0, 8 + nvram[name].bytes, nvram[name]))
  BY DEF ReadVariable
<1>4. request' = [kind |-> "GUFV", name |-> name, requested |-> requested, short |-> short]
  BY <1>3 DEF Failing, Answer, Asked
<1>5. \/ \E status : Sends(FrReply(status, 0, "nothing"))
      \/ /\ ~(requested > Room) /\ ~(nvram[name].bytes > requested)
         /\ Sends(FrReply(0, 8 + nvram[name].bytes, nvram[name]))
  BY <1>2, <1>3 DEF Failing, Answer
<1>6. ~TooLong'
  BY <1>4 DEF TooLong
<1>7. CASE \E status : Sends(FrReply(status, 0, "nothing"))
  <2>1. \E r : Sends(r) /\ r.len \in Nat \ {0} /\ r.len <= 512
    BY <1>7 DEF FrReply, Frame
  <2> QED BY <1>1, <1>4, <2>1, ShortHolds
<1>8. CASE /\ ~(requested > Room) /\ ~(nvram[name].bytes > requested)
           /\ Sends(FrReply(0, 8 + nvram[name].bytes, nvram[name]))
  <2> DEFINE r == FrReply(0, 8 + nvram[name].bytes, nvram[name])
  <2>1. r.len = 17 + (8 + nvram[name].bytes)
    BY DEF FrReply, Frame
  <2>2. Sends(r)
    BY <1>8
  <2> HIDE DEF r
  <2>3. nvram[name].bytes \in Nat /\ requested \in Nat /\ max_transfer \in Nat
    BY SizesFacts, WideFacts, RequestsAssumption DEF Stored
  <2>4. r.len \in Nat \ {0} /\ ~(r.len > max_transfer)
    BY <1>8, <2>1, <2>3 DEF Room
  <2>5. Answers(r)
    BY <1>1, <1>6, <2>2, <2>4 DEF Answers
  <2> QED BY <2>5, AnswersHolds
<1> QED BY <1>5, <1>7, <1>8

LEMMA WriteAnswered ==
  ASSUME Known, Wide, WriteVariable \/ WriteOptions \/ WriteMode \/ WriteOther
  PROVE  AnsweredUnlessTooLong'
<1>1. request'.kind \in {"SUFV", "FO", "MODE", "write"}
  BY WriteFacts DEF WriteOther, Answer, Asked
<1>2. UNCHANGED <<device, faults>>
  BY DEF WriteVariable, WriteOptions, WriteMode, WriteOther, Answer
<1>3. \E status : Sends(FwReply(status))
  <2>1. CASE WriteVariable
    BY <2>1, ZenonT(30) DEF WriteVariable, WriteFails
  <2>2. CASE WriteOptions \/ WriteMode
    BY <2>2 DEF WriteOptions, WriteMode
  <2>3. CASE WriteOther
    BY <2>3 DEF WriteOther, Answer
  <2> QED BY <2>1, <2>2, <2>3
<1>4. \E r : Sends(r) /\ r.len \in Nat \ {0} /\ r.len <= 512
  BY <1>3 DEF FwReply, Frame
<1> QED BY <1>1, <1>2, <1>4, ShortHolds

LEMMA SecureAnswered == ASSUME Known, Wide, Payload \/ Malformed PROVE AnsweredUnlessTooLong'
<1>1. UNCHANGED <<device, faults>>
  BY ReadFacts, PlainFacts DEF PlainStep, KeepsAll
<1>2. /\ request'.kind \in {"payload", "malformed"}
      /\ \E r : Sends(r) /\ r.len \in Nat \ {0} /\ r.len <= 512
  <2>1. CASE Payload
    <3>1. PICK version, data_len, wrong :
            /\ request' = [kind |-> "payload", version |-> version, data_len |-> data_len,
                           wrong |-> wrong]
            /\ (\E status : Sends(FsShort(status))) \/ Sends(Frame(36, 6, "not ready"))
      BY <2>1, ZenonT(60) DEF Payload, Answer, Asked
    <3>2. request'.kind = "payload"
      BY <3>1
    <3>3. /\ \A status : FsShort(status).len = 16
          /\ Frame(36, 6, "not ready").len = 36
      BY DEF FsShort, Frame
    <3>4. \E r : Sends(r) /\ r.len \in {16, 36}
      <4>1. CASE \E status : Sends(FsShort(status))
        BY <3>3, <4>1
      <4>2. CASE Sends(Frame(36, 6, "not ready"))
        BY <3>3, <4>2
      <4> QED BY <3>1, <4>1, <4>2
    <3> QED BY <3>2, <3>4
  <2>2. CASE Malformed
    <3>1. PICK status : Answer([kind |-> "malformed"], FsShort(status))
      BY <2>2 DEF Malformed
    <3> QED BY <3>1 DEF Answer, Asked, FsShort, Frame
  <2> QED BY <2>1, <2>2
<1> QED BY <1>1, <1>2, ShortHolds

LEMMA StepAnswered ==
  ASSUME Wide PROVE Known /\ Stored /\ AnsweredUnlessTooLong /\ [Next]_vars => AnsweredUnlessTooLong'
<1>1. ASSUME AnsweredUnlessTooLong, UNCHANGED vars PROVE AnsweredUnlessTooLong'
  <2>1. UNCHANGED <<device, faults, request, reply>> /\ UNCHANGED <<max_transfer, GptBytes>>
    BY <1>1 DEF vars, max_transfer, GptBytes
  <2>2. TooLong' <=> TooLong
    BY <2>1 DEF TooLong
  <2> QED BY <1>1, <2>1, <2>2 DEF AnsweredUnlessTooLong
<1>2. ASSUME Ignore PROVE AnsweredUnlessTooLong'
  <2>1. request'.kind \in {"runt", "NOKS", "NOKN"}
    BY <1>2 DEF Ignore, Silence, Asked
  <2> QED BY <2>1 DEF AnsweredUnlessTooLong, Silent
<1>3. ASSUME Receive PROVE AnsweredUnlessTooLong'
  BY <1>3 DEF Receive, AnsweredUnlessTooLong
<1> QED BY <1>1, <1>2, <1>3, SmallAnswered, GptAnswered, ExtensionAnswered, FileAnswered,
           ReadParamAnswered, VariableSizeAnswered, VariableAnswered, WriteAnswered,
           SecureAnswered DEF Next

\* On a transport whose transfers carry a packet at least, the requests that leave a host
\* without an answer are those of TooLong, and no others. Every other reply fits the
\* transfer, whatever sizes the request names (usb_transport.c:405; main.c:269-329,
\* 415-417, 980-1005).
THEOREM RequestsAnswered == ASSUME Wide PROVE Spec => []AnsweredUnlessTooLong
<1>1. Init => Known /\ Stored /\ AnsweredUnlessTooLong
  BY InitKnown, InitStored DEF Init, AnsweredUnlessTooLong
<1> QED BY <1>1, StepKnown, StepStored, StepAnswered, PTL DEF Spec

===============================================================================
