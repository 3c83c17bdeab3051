-------------------------- MODULE SectorFlashProofs ---------------------------
(***************************************************************************)
(* Theorems about SectorFlash, for every size of the disk, set of data,    *)
(* number of sectors in a message and set of write errors, with --commit   *)
(* and without.                                                            *)
(*                                                                         *)
(* A write is answered before it is carried out, so what the host may      *)
(* conclude from a reply lags one write behind.  The invariant follows the *)
(* lag: as long as the host trusts, and the reply that would end its trust *)
(* is not under way, either the device holds an error it has still to tell *)
(* or the disk holds everything but the message in hand.                   *)
(***************************************************************************)
EXTENDS SectorFlash, TLAPS

\* The messages there are.
Asked ==
  {NoMessage, [kind |-> "end"], [kind |-> "other"]}
    \cup [kind : {"start"}, valid : BOOLEAN] \cup Writes("write") \cup Writes("legacy")

Replied ==
  {NoReply} \cup [kind : {"start", "unknown", "legacy"}, ufp_status : Nat]
    \cup [kind : {"write", "end"}, write_status : Nat,
          last_sector : Sectors \cup {NoSector}, ufp_status : Nat]

\* Host and device take turns: a message is in hand until it is answered, a write
\* until it is carried out; what the host concludes lasts until it asks again.
Turns ==
  /\ message \in Asked
  /\ reply \in Replied
  /\ dev = "write" => message.kind = "write" /\ reply.kind \in {"none", "write"}
  /\ reply.kind # "none" => waiting
  /\ dev = "receive" /\ message.kind # "none" => waiting /\ reply.kind = "none"
  /\ verdict = "written" => ~waiting /\ message.kind = "none"

\* Sectors that the message in hand is to write.
Pending ==
  IF message.kind \in {"write", "legacy"} /\ ~message.skip THEN Range(message) ELSE {}

\* The target holds what the host expects, but for these sectors.
HoldsBut(S) ==
  \A b \in DOMAIN expected \ S : b \in Sectors /\ disk[b] = expected[b]

\* The host trusts, and no reply that ends the trust is lost or under way.
Believes ==
  \/ trust /\ ~waiting
  \/ trust /\ dev = "receive" /\ message.kind # "none"
  \/ reply.kind = "write" /\ reply.ufp_status = 0 /\ trust
  \/ reply.kind = "start" /\ reply.ufp_status = 0

\* The word that everything is written is given or under way.
Told ==
  \/ verdict = "written"
  \/ reply.kind = "legacy" /\ reply.ufp_status = 0
  \/ reply.kind = "end" /\ reply.ufp_status = 0 /\ trust

\* What the message in hand is to write is expected.
Foreseen ==
  /\ \A b \in Pending : expected[b] = message.data
  /\ message.kind \in {"start", "legacy"} => ~trust /\ HoldsBut(Pending)

\* An error not yet told, or everything written but the message in hand.
BehindTheReplies ==
  Commit /\ Believes /\ (async_ufp_status = 0 \/ dev = "write") => HoldsBut(Pending)

AsTold == Commit /\ Told => HoldsBut({})

IInv == TypeOK /\ Turns /\ Foreseen /\ BehindTheReplies /\ AsTold

-------------------------------------------------------------------------------
(* Messages and replies. *)

LEMMA WriteFacts ==
  ASSUME NEW kind, NEW m \in Writes(kind)
  PROVE  /\ m.kind = kind /\ m.start \in Nat /\ m.count \in Nat /\ m.data \in Data
         /\ m.skip \in BOOLEAN /\ m.short \in BOOLEAN
BY SectorAssumption DEF Writes

\* A message is known by its kind.
LEMMA MessageFacts ==
  ASSUME Turns
  PROVE  /\ message.kind \in {"none", "start", "write", "end", "other", "legacy"}
         /\ message.kind = "none" => message = NoMessage
         /\ message.kind = "start" => message \in [kind : {"start"}, valid : BOOLEAN]
         /\ message.kind \in {"write", "legacy"} => message \in Writes(message.kind)
<1>1. message \in Asked
  BY DEF Turns
<1>2. CASE message \in {NoMessage, [kind |-> "end"], [kind |-> "other"]}
  BY <1>2 DEF NoMessage
<1>3. CASE message \in [kind : {"start"}, valid : BOOLEAN]
  BY <1>3
<1>4. CASE message \in Writes("write")
  BY <1>4, WriteFacts
<1>5. CASE message \in Writes("legacy")
  BY <1>5, WriteFacts
<1> QED BY <1>1, <1>2, <1>3, <1>4, <1>5 DEF Asked

\* A reply is known by its kind.
LEMMA ReplyFacts ==
  ASSUME Turns
  PROVE  /\ reply.kind \in {"none", "start", "unknown", "legacy", "write", "end"}
         /\ reply.kind = "none" <=> reply = NoReply
BY DEF Turns, Replied, NoReply

\* What every step takes over.
LEMMA Unpacked ==
  ASSUME IInv
  PROVE  /\ TypeOK /\ Turns /\ Foreseen /\ BehindTheReplies /\ AsTold
         /\ waiting \in BOOLEAN /\ trust \in BOOLEAN
         /\ dev \in {"receive", "write"} /\ verdict \in {"none", "written"}
<1>1. TypeOK /\ Turns /\ Foreseen /\ BehindTheReplies /\ AsTold
  BY DEF IInv
<1>2. waiting \in BOOLEAN /\ trust \in BOOLEAN
  BY <1>1 DEF TypeOK
<1>3. dev \in {"receive", "write"} /\ verdict \in {"none", "written"}
  BY <1>1 DEF TypeOK
<1> QED BY <1>1, <1>2, <1>3

\* Bytes and statuses of the device.
DeviceType ==
  /\ disk \in [Sectors -> Data]
  /\ async_write_status \in Nat
  /\ async_last_sector \in Sectors \cup {NoSector}
  /\ async_ufp_status \in Nat

LEMMA DeviceTypeKept ==
  ASSUME IInv, UNCHANGED <<disk, asyncVars>>
  PROVE  DeviceType' /\ DeviceType
BY Unpacked DEF TypeOK, DeviceType, asyncVars

LEMMA ByParts ==
  ASSUME DeviceType', dev' \in {"receive", "write"}, waiting' \in BOOLEAN,
         trust' \in BOOLEAN, verdict' \in {"none", "written"}
  PROVE  TypeOK'
BY DEF TypeOK, DeviceType

\* What is on the wire for an error.
LEMMA ErrorTold ==
  ASSUME NEW st \in WriteErrors
  PROVE  st.code \in Nat /\ status_from_efi(st) \in Nat \ {0}
<1>1. st \in EfiStatus /\ st.error /\ status_from_efi(st) # 0
  BY SectorAssumption
<1>2. st.code \in Nat
  BY <1>1 DEF EfiStatus
<1>3. 2 ^ 16 = 65536
  OBVIOUS
<1>4. st.code % 65536 \in Nat
  BY <1>2
<1>5. status_from_efi(st) = st.code % 65536
  BY <1>1, <1>3 DEF status_from_efi
<1> QED BY <1>1, <1>2, <1>4, <1>5

LEMMA InitIInv == Init => IInv
<1> SUFFICES ASSUME Init PROVE IInv
  OBVIOUS
<1>1. TypeOK
  BY SectorAssumption DEF Init, TypeOK, NoSector
<1>2. Turns
  BY DEF Init, Turns, Asked, Replied, NoMessage, NoReply
<1>3. Foreseen
  BY DEF Init, Foreseen, Pending, NoMessage
<1>4. BehindTheReplies /\ AsTold
  BY DEF Init, BehindTheReplies, AsTold, Believes, Told, NoReply
<1> QED BY <1>1, <1>2, <1>3, <1>4 DEF IInv

-------------------------------------------------------------------------------
(* The host. *)

\* While the host has nothing outstanding there is no reply, and it asks only when
\* the device has nothing in hand.
LEMMA AskKeeps ==
  ASSUME IInv, NEW m \in Asked, m.kind # "none", Ask(m), trust' \in BOOLEAN
  PROVE  /\ TypeOK' /\ Turns' /\ AsTold'
         /\ message' = m /\ dev' = "receive" /\ reply'.kind = "none"
         /\ Believes' => trust'
         /\ trust => Believes
         /\ Pending = {}
<1>1. /\ ~waiting /\ message = NoMessage /\ message' = m /\ waiting' = TRUE
      /\ verdict' = "none" /\ disk' = disk /\ UNCHANGED asyncVars
      /\ dev' = dev /\ reply' = reply
  BY DEF Ask
<1>2. message.kind = "none"
  BY <1>1 DEF NoMessage
<1>3. reply.kind = "none" /\ dev = "receive"
  BY <1>1, <1>2, Unpacked DEF Turns
<1>4. TypeOK'
  BY <1>1, DeviceTypeKept, Unpacked, ByParts
<1>5. Turns'
  BY <1>1, <1>3, Unpacked DEF Turns, Replied
<1>6. ~Told'
  BY <1>1, <1>3 DEF Told
<1> QED BY <1>1, <1>2, <1>3, <1>4, <1>5, <1>6 DEF AsTold, Believes, Pending

LEMMA StepAskStart == ASSUME IInv, AskStart PROVE IInv'
<1>1. PICK valid \in BOOLEAN : Ask([kind |-> "start", valid |-> valid])
  BY DEF AskStart
<1> DEFINE m == [kind |-> "start", valid |-> valid]
<1>2. m \in Asked /\ m.kind = "start"
  BY DEF Asked
<1>3. trust' = FALSE /\ expected' = Nothing
  BY DEF AskStart
<1> HIDE DEF m
<1>4. /\ TypeOK' /\ Turns' /\ AsTold' /\ message' = m /\ ~Believes'
  BY <1>1, <1>2, <1>3, AskKeeps DEF m
<1>5. Pending' = {} /\ message'.kind = "start"
  BY <1>2, <1>4 DEF Pending
<1>6. DOMAIN expected' = {}
  BY <1>3 DEF Nothing
<1>7. Foreseen'
  BY <1>3, <1>5, <1>6 DEF Foreseen, HoldsBut
<1> QED BY <1>4, <1>7 DEF IInv, BehindTheReplies

LEMMA StepAskWrite == ASSUME IInv, AskWrite PROVE IInv'
<1>1. PICK m \in Writes("write") : Ask(m) /\ expected' = Also(m) /\ trust' = trust
  BY DEF AskWrite
<1>2. m \in Asked /\ m.kind = "write" /\ m.skip \in BOOLEAN
  BY WriteFacts DEF Asked
<1>3. /\ TypeOK' /\ Turns' /\ AsTold' /\ message' = m /\ dev' = "receive"
      /\ Believes' => Believes
      /\ Pending = {}
  BY <1>1, <1>2, AskKeeps, Unpacked
<1>4. disk' = disk /\ async_ufp_status' = async_ufp_status /\ dev = "receive"
  BY <1>1, <1>3 DEF Ask, asyncVars
<1>5. CASE m.skip
  <2>1. Pending' = {} /\ expected' = expected
    BY <1>1, <1>3, <1>5 DEF Pending, Also
  <2>2. Foreseen'
    BY <1>2, <1>3, <2>1 DEF Foreseen
  <2>3. BehindTheReplies'
    BY <1>3, <1>4, <2>1, Unpacked DEF BehindTheReplies, HoldsBut
  <2> QED BY <1>3, <2>2, <2>3 DEF IInv
<1>6. CASE ~m.skip
  <2>1. Pending' = Range(m)
    BY <1>2, <1>3, <1>6 DEF Pending
  <2>2. /\ DOMAIN expected' = DOMAIN expected \cup Range(m)
        /\ \A b \in Range(m) : expected'[b] = m.data
        /\ \A b \in DOMAIN expected' \ Range(m) : expected'[b] = expected[b]
    BY <1>1, <1>6 DEF Also
  <2>3. Foreseen'
    BY <1>2, <1>3, <2>1, <2>2 DEF Foreseen
  <2>4. BehindTheReplies'
    BY <1>3, <1>4, <2>1, <2>2, Unpacked DEF BehindTheReplies, HoldsBut
  <2> QED BY <1>3, <2>3, <2>4 DEF IInv
<1> QED BY <1>5, <1>6

LEMMA StepAskNothingNew == ASSUME IInv, AskEnd \/ AskOther PROVE IInv'
<1>1. PICK m \in {[kind |-> "end"], [kind |-> "other"]} : Ask(m)
  BY DEF AskEnd, AskOther
<1>2. m \in Asked /\ m.kind \in {"end", "other"}
  BY DEF Asked
<1>3. trust' = trust /\ expected' = expected
  BY DEF AskEnd, AskOther
<1>4. /\ TypeOK' /\ Turns' /\ AsTold' /\ message' = m /\ dev' = "receive"
      /\ Believes' => Believes
      /\ Pending = {}
  BY <1>1, <1>2, <1>3, AskKeeps, Unpacked
<1>5. disk' = disk /\ async_ufp_status' = async_ufp_status /\ dev = "receive"
  BY <1>1, <1>4 DEF Ask, asyncVars
<1>6. Pending' = {} /\ message'.kind \in {"end", "other"}
  BY <1>2, <1>4 DEF Pending
<1>7. Foreseen'
  BY <1>6 DEF Foreseen
<1>8. BehindTheReplies'
  BY <1>3, <1>4, <1>5, <1>6, Unpacked DEF BehindTheReplies, HoldsBut
<1> QED BY <1>4, <1>7, <1>8 DEF IInv

LEMMA StepAskLegacy == ASSUME IInv, AskLegacy PROVE IInv'
<1>1. PICK m \in Writes("legacy") :
        /\ Ask(m) /\ trust' = FALSE
        /\ expected' = IF m.skip THEN Nothing ELSE [b \in Range(m) |-> m.data]
  BY DEF AskLegacy
<1>2. m \in Asked /\ m.kind = "legacy" /\ m.skip \in BOOLEAN
  BY WriteFacts DEF Asked
<1>3. TypeOK' /\ Turns' /\ AsTold' /\ message' = m /\ ~Believes'
  BY <1>1, <1>2, AskKeeps
<1>4. /\ \A b \in Pending' : expected'[b] = message'.data
      /\ DOMAIN expected' \ Pending' = {}
  BY <1>1, <1>2, <1>3 DEF Pending, Nothing
<1>5. Foreseen'
  BY <1>1, <1>4 DEF Foreseen, HoldsBut
<1> QED BY <1>3, <1>5 DEF IInv, BehindTheReplies

\* A reply is read before the write it answers is carried out, or after.
LEMMA StepHostReads == ASSUME IInv, HostReads PROVE IInv'
<1>1. /\ waiting /\ reply # NoReply /\ waiting' = FALSE /\ reply' = NoReply
      /\ disk' = disk /\ UNCHANGED asyncVars /\ dev' = dev /\ message' = message
      /\ expected' = expected
  BY DEF HostReads
<1>2. /\ trust' \in BOOLEAN /\ verdict' \in {"none", "written"}
      /\ trust' => reply.ufp_status = 0 /\ (reply.kind = "start" \/ (reply.kind = "write" /\ trust))
      /\ verdict' = "written" =>
           reply.ufp_status = 0 /\ (reply.kind = "legacy" \/ (reply.kind = "end" /\ trust))
  BY DEF HostReads
<1>3. reply.kind # "none" /\ reply'.kind = "none"
  BY <1>1, ReplyFacts, Unpacked DEF NoReply
<1>4. TypeOK'
  BY <1>1, <1>2, DeviceTypeKept, Unpacked, ByParts
<1>5. dev = "receive" => message.kind = "none"
  BY <1>3, Unpacked DEF Turns
<1>6. Turns'
  BY <1>1, <1>2, <1>3, <1>5, Unpacked DEF Turns, Replied
<1>7. Pending' = Pending
  BY <1>1 DEF Pending
<1>8. message.kind \in {"none", "write"}
  BY <1>5, Unpacked DEF Turns
<1>9. Foreseen'
  BY <1>1, <1>7, <1>8, Unpacked DEF Foreseen
<1>10. Believes' => Believes
  BY <1>1, <1>2, <1>3, <1>5 DEF Believes
<1>11. Told' => Told
  BY <1>2, <1>3 DEF Told
<1>12. BehindTheReplies' /\ AsTold'
  BY <1>1, <1>7, <1>10, <1>11, Unpacked DEF BehindTheReplies, AsTold, HoldsBut, asyncVars
<1> QED BY <1>4, <1>6, <1>9, <1>12 DEF IInv

LEMMA StepHostTimesOut == ASSUME IInv, HostTimesOut PROVE IInv'
<1>1. /\ waiting /\ reply = NoReply /\ message = NoMessage /\ waiting' = FALSE
      /\ trust' = FALSE /\ disk' = disk /\ UNCHANGED asyncVars /\ dev' = dev
      /\ message' = message /\ reply' = reply /\ verdict' = verdict
  BY DEF HostTimesOut
<1>2. reply.kind = "none" /\ message.kind = "none"
  BY <1>1 DEF NoReply, NoMessage
<1>3. verdict = "none"
  BY <1>1, Unpacked DEF Turns
<1>4. TypeOK'
  BY <1>1, DeviceTypeKept, Unpacked, ByParts
<1>5. Turns'
  BY <1>1, <1>2, <1>3, Unpacked DEF Turns, Replied
<1>6. Foreseen'
  BY <1>1, <1>2 DEF Foreseen, Pending
<1>7. ~Believes' /\ ~Told'
  BY <1>1, <1>2, <1>3 DEF Believes, Told
<1> QED BY <1>4, <1>5, <1>6, <1>7 DEF IInv, BehindTheReplies, AsTold

-------------------------------------------------------------------------------
(* The device. *)

\* A sequence is trusted from the reply of its start.
LEMMA StepAsyncStart == ASSUME IInv, AsyncStart PROVE IInv'
<1>1. /\ dev = "receive" /\ message.kind = "start" /\ message' = NoMessage
      /\ disk' = disk /\ dev' = dev /\ waiting' = waiting /\ trust' = trust
      /\ expected' = expected /\ verdict' = verdict
  BY DEF AsyncStart, hostVars
<1>2. \/ /\ ResetStatus
         /\ reply' \in {[kind |-> "start", ufp_status |-> 0], NoReply}
      \/ /\ UNCHANGED asyncVars
         /\ reply' \in {[kind |-> "start", ufp_status |-> 8], NoReply}
  BY DEF AsyncStart, Send
<1>3. waiting /\ verdict = "none"
  BY <1>1, Unpacked DEF Turns
<1>4. message'.kind = "none" /\ Pending = {} /\ Pending' = {}
  BY <1>1 DEF NoMessage, Pending
<1>5. ~trust /\ HoldsBut({})
  BY <1>1, <1>4, Unpacked DEF Foreseen
<1>6. DeviceType'
  BY <1>1, <1>2, DeviceTypeKept, Unpacked DEF ResetStatus, DeviceType, NoSector, TypeOK
<1>7. TypeOK'
  BY <1>1, <1>6, Unpacked, ByParts
<1>8. reply' \in Replied /\ reply'.kind \in {"none", "start"}
  BY <1>2 DEF Replied, NoReply
<1>9. Turns'
  BY <1>1, <1>3, <1>4, <1>8 DEF Turns, Asked
<1>10. Foreseen'
  BY <1>4 DEF Foreseen
<1>11. ~Told'
  BY <1>1, <1>3, <1>8 DEF Told
<1>12. BehindTheReplies'
  BY <1>1, <1>4, <1>5 DEF BehindTheReplies, HoldsBut
<1> QED BY <1>7, <1>9, <1>10, <1>11, <1>12 DEF IInv, AsTold

\* The reply tells of the write before: the message in hand is still to come.
LEMMA StepAsyncAnswer == ASSUME IInv, AsyncAnswer PROVE IInv'
<1>1. /\ dev = "receive" /\ message.kind = "write" /\ message' = message
      /\ disk' = disk /\ dev' = "write" /\ UNCHANGED asyncVars
      /\ waiting' = waiting /\ trust' = trust /\ expected' = expected /\ verdict' = verdict
      /\ reply' \in {AsyncReply("write"), NoReply}
  BY DEF AsyncAnswer, hostVars, Send
<1>2. waiting /\ verdict = "none"
  BY <1>1, Unpacked DEF Turns
<1>3. TypeOK'
  BY <1>1, DeviceTypeKept, Unpacked, ByParts
<1>4. /\ reply' \in Replied /\ reply'.kind \in {"none", "write"}
      /\ reply'.kind = "write" => reply'.ufp_status = async_ufp_status
  BY <1>1, DeviceTypeKept DEF Replied, NoReply, AsyncReply, DeviceType
<1>5. Turns'
  BY <1>1, <1>2, <1>4, Unpacked DEF Turns
<1>6. Pending' = Pending
  BY <1>1 DEF Pending
<1>7. Foreseen'
  BY <1>1, <1>6, Unpacked DEF Foreseen
<1>8. ~Told'
  BY <1>1, <1>2, <1>4 DEF Told
<1>9. Believes' => Believes /\ async_ufp_status = 0
  BY <1>1, <1>2, <1>4 DEF Believes
<1>10. BehindTheReplies'
  BY <1>1, <1>6, <1>9, Unpacked DEF BehindTheReplies, HoldsBut
<1> QED BY <1>3, <1>5, <1>7, <1>8, <1>10 DEF IInv, AsTold

\* A message that passes the checks writes sectors of the disk.
LEMMA ValidRange ==
  ASSUME NEW kind, NEW m \in Writes(kind), ~Invalid(m)
  PROVE  \A b \in Range(m) : b \in Sectors
BY WriteFacts, SectorAssumption DEF Invalid, Range, Sectors

\* What is written is on the disk, and nothing else changes.
LEMMA WrittenFacts ==
  ASSUME TypeOK, NEW kind, NEW m \in Writes(kind)
  PROVE  /\ Written(m) \in [Sectors -> Data]
         /\ \A b \in Sectors : Written(m)[b] = IF b \in Range(m) THEN m.data ELSE disk[b]
BY WriteFacts DEF Written, TypeOK

LEMMA TornFacts ==
  ASSUME TypeOK, NEW kind, NEW m \in Writes(kind), Torn(m)
  PROVE  disk' \in [Sectors -> Data]
BY WriteFacts DEF Torn, TypeOK

\* Once everything but the message in hand is written, writing it completes it.
LEMMA WrittenCompletes ==
  ASSUME TypeOK, Foreseen, HoldsBut(Pending), NEW kind \in {"write", "legacy"},
         message \in Writes(kind), ~message.skip, ~Invalid(message),
         disk' = Written(message), expected' = expected
  PROVE  HoldsBut({})'
<1>1. Pending = Range(message)
  BY WriteFacts DEF Pending
<1>2. \A b \in Range(message) : b \in Sectors /\ expected[b] = message.data
  BY <1>1, ValidRange DEF Foreseen
<1>3. \A b \in Sectors : disk'[b] = IF b \in Range(message) THEN message.data ELSE disk[b]
  BY WrittenFacts
<1> QED BY <1>1, <1>2, <1>3 DEF HoldsBut

\* The write is carried out, or leaves an error for the next reply.
LEMMA StepAsyncWrite == ASSUME IInv, AsyncWrite PROVE IInv'
<1>1. /\ dev = "write" /\ dev' = "receive" /\ message' = NoMessage /\ reply' = reply
      /\ waiting' = waiting /\ trust' = trust /\ expected' = expected /\ verdict' = verdict
  BY DEF AsyncWrite, hostVars
<1>2. message.kind = "write" /\ message \in Writes("write") /\ reply.kind \in {"none", "write"}
  BY <1>1, Unpacked, MessageFacts DEF Turns
<1>3. /\ message.start \in Nat /\ message.count \in Nat /\ message.skip \in BOOLEAN
  BY <1>2, WriteFacts
<1>4. verdict = "none"
  BY <1>2, Unpacked DEF Turns
<1>5. message'.kind = "none" /\ Pending' = {}
  BY <1>1 DEF NoMessage, Pending
<1>6. Turns'
  BY <1>1, <1>2, <1>4, <1>5, Unpacked DEF Turns, Asked
<1>7. Foreseen'
  BY <1>5 DEF Foreseen
<1>8. ~Told'
  BY <1>1, <1>2, <1>4 DEF Told
<1>9. Believes' => Believes
  BY <1>1, <1>5 DEF Believes
<1>10. Commit /\ Believes' => HoldsBut(Pending)
  BY <1>1, <1>9, Unpacked DEF BehindTheReplies
<1>11. DeviceType' /\ (Commit /\ Believes' /\ async_ufp_status' = 0 => HoldsBut({})')
  <2>1. CASE message.skip
    <3>1. disk' = disk /\ UNCHANGED asyncVars /\ Pending = {}
      BY <1>3, <2>1 DEF AsyncWrite, Pending
    <3> QED BY <1>1, <1>10, <3>1, DeviceTypeKept DEF HoldsBut
  <2>2. CASE ~message.skip /\ Invalid(message)
    <3>1. Reject
      BY <2>2 DEF AsyncWrite
    <3> QED BY <3>1, Unpacked DEF Reject, DeviceType, TypeOK
  <2>3. CASE ~message.skip /\ ~Invalid(message) /\ Accept
    <3>1. async_last_sector' \in Sectors \cup {NoSector}
      <4>1. CASE message.count > 0
        <5>1. async_last_sector' = message.start + message.count - 1
          BY <2>3, <4>1 DEF Accept
        <5>2. ~(message.start + message.count - 1 > LastBlock)
          BY <2>3, <4>1 DEF Invalid
        <5> QED BY <1>3, <4>1, <5>1, <5>2, SectorAssumption DEF Sectors
      <4>2. CASE ~(message.count > 0)
        BY <2>3, <4>2, Unpacked DEF Accept, TypeOK
      <4> QED BY <4>1, <4>2
    <3>2. disk' \in [Sectors -> Data]
      BY <1>2, <2>3, WrittenFacts, Unpacked DEF Accept, TypeOK
    <3>3. DeviceType'
      BY <2>3, <3>1, <3>2 DEF Accept, DeviceType
    <3>4. ASSUME Commit, Believes' PROVE HoldsBut({})'
      <4>1. disk' = Written(message)
        BY <2>3, <3>4 DEF Accept
      <4> QED BY <1>1, <1>2, <1>10, <2>3, <3>4, <4>1, WrittenCompletes, Unpacked
    <3> QED BY <3>3, <3>4
  <2>4. CASE ~message.skip /\ ~Invalid(message) /\ Fail
    <3>1. PICK st \in WriteErrors :
            async_write_status' = st.code /\ async_ufp_status' = status_from_efi(st)
      BY <2>4 DEF Fail
    <3>2. async_write_status' \in Nat /\ async_ufp_status' \in Nat \ {0}
      BY <3>1, ErrorTold
    <3>3. disk' \in [Sectors -> Data]
      BY <1>2, <2>4, TornFacts, Unpacked DEF Fail
    <3>4. async_last_sector' \in Sectors \cup {NoSector}
      BY <2>4, Unpacked DEF Fail, TypeOK
    <3> QED BY <3>2, <3>3, <3>4 DEF DeviceType
  <2> QED BY <1>3, <2>1, <2>2, <2>3, <2>4 DEF AsyncWrite
<1>12. TypeOK'
  BY <1>1, <1>11, Unpacked, ByParts
<1>13. BehindTheReplies'
  BY <1>1, <1>5, <1>11 DEF BehindTheReplies, HoldsBut
<1> QED BY <1>6, <1>7, <1>8, <1>12, <1>13 DEF IInv, AsTold

\* The reply of the end tells of the last write.
LEMMA StepAsyncEnd == ASSUME IInv, AsyncEnd PROVE IInv'
<1>1. /\ dev = "receive" /\ message.kind = "end" /\ message' = NoMessage
      /\ disk' = disk /\ dev' = dev /\ ResetStatus
      /\ waiting' = waiting /\ trust' = trust /\ expected' = expected /\ verdict' = verdict
      /\ reply' \in {AsyncReply("end"), NoReply}
  BY DEF AsyncEnd, hostVars, Send
<1>2. waiting /\ verdict = "none"
  BY <1>1, Unpacked DEF Turns
<1>3. message'.kind = "none" /\ Pending = {} /\ Pending' = {}
  BY <1>1 DEF NoMessage, Pending
<1>4. DeviceType'
  BY <1>1, Unpacked DEF ResetStatus, DeviceType, NoSector, TypeOK
<1>5. TypeOK'
  BY <1>1, <1>4, Unpacked, ByParts
<1>6. /\ reply' \in Replied /\ reply'.kind \in {"none", "end"}
      /\ reply'.kind = "end" => reply'.ufp_status = async_ufp_status
  BY <1>1, Unpacked DEF Replied, NoReply, AsyncReply, TypeOK
<1>7. Turns'
  BY <1>1, <1>2, <1>3, <1>6 DEF Turns, Asked
<1>8. Foreseen'
  BY <1>3 DEF Foreseen
<1>9. ~Believes'
  BY <1>1, <1>2, <1>3, <1>6 DEF Believes
<1>10. Told' => Believes /\ async_ufp_status = 0
  BY <1>1, <1>2, <1>6 DEF Told, Believes
<1>11. AsTold'
  BY <1>1, <1>3, <1>10, Unpacked DEF AsTold, BehindTheReplies, HoldsBut
<1> QED BY <1>5, <1>7, <1>8, <1>9, <1>11 DEF IInv, BehindTheReplies

LEMMA StepUnknown == ASSUME IInv, Unknown PROVE IInv'
<1>1. /\ dev = "receive" /\ message.kind = "other" /\ message' = NoMessage
      /\ disk' = disk /\ dev' = dev /\ UNCHANGED asyncVars
      /\ waiting' = waiting /\ trust' = trust /\ expected' = expected /\ verdict' = verdict
      /\ reply' \in {[kind |-> "unknown", ufp_status |-> 0], NoReply}
  BY DEF Unknown, hostVars, Send
<1>2. waiting /\ verdict = "none"
  BY <1>1, Unpacked DEF Turns
<1>3. message'.kind = "none" /\ Pending' = {}
  BY <1>1 DEF NoMessage, Pending
<1>4. TypeOK'
  BY <1>1, DeviceTypeKept, Unpacked, ByParts
<1>5. reply' \in Replied /\ reply'.kind \in {"none", "unknown"}
  BY <1>1 DEF Replied, NoReply
<1>6. Turns'
  BY <1>1, <1>2, <1>3, <1>5 DEF Turns, Asked
<1>7. Foreseen'
  BY <1>3 DEF Foreseen
<1>8. ~Believes' /\ ~Told'
  BY <1>1, <1>2, <1>3, <1>5 DEF Believes, Told
<1> QED BY <1>4, <1>6, <1>7, <1>8 DEF IInv, BehindTheReplies, AsTold

\* The reply of a legacy write tells of this write.
LEMMA StepLegacyFlash == ASSUME IInv, LegacyFlash PROVE IInv'
<1>1. /\ dev = "receive" /\ message.kind = "legacy" /\ message' = NoMessage
      /\ dev' = dev /\ UNCHANGED asyncVars
      /\ waiting' = waiting /\ trust' = trust /\ expected' = expected /\ verdict' = verdict
  BY DEF LegacyFlash, hostVars
<1>2. waiting /\ verdict = "none"
  BY <1>1, Unpacked DEF Turns
<1>3. message \in Writes("legacy") /\ message.skip \in BOOLEAN
  BY <1>1, Unpacked, MessageFacts, WriteFacts
<1>4. message'.kind = "none" /\ Pending' = {}
  BY <1>1 DEF NoMessage, Pending
<1>5. ~trust /\ HoldsBut(Pending)
  BY <1>1, Unpacked DEF Foreseen
<1>6. /\ disk' \in [Sectors -> Data]
      /\ reply' \in Replied /\ reply'.kind \in {"none", "legacy"}
      /\ Commit /\ reply'.kind = "legacy" /\ reply'.ufp_status = 0 => HoldsBut({})'
  <2>1. CASE message.skip
    <3>1. disk' = disk /\ reply' \in {LegacyReply(0), NoReply} /\ Pending = {}
      BY <2>1 DEF LegacyFlash, Send, Pending
    <3> QED BY <1>1, <1>5, <3>1, Unpacked DEF LegacyReply, NoReply, Replied, HoldsBut, TypeOK
  <2>2. CASE ~message.skip /\ Invalid(message)
    <3>1. disk' = disk /\ reply' \in {LegacyReply(8), NoReply}
      BY <2>2 DEF LegacyFlash, Send
    <3> QED BY <3>1, Unpacked DEF LegacyReply, NoReply, Replied, TypeOK
  <2>3. CASE /\ ~message.skip /\ ~Invalid(message)
             /\ disk' = IF Commit THEN Written(message) ELSE disk
             /\ Send(LegacyReply(0))
    <3>1. disk' \in [Sectors -> Data]
      BY <1>3, <2>3, WrittenFacts, Unpacked DEF TypeOK
    <3>2. reply' \in Replied /\ reply'.kind \in {"none", "legacy"}
      BY <2>3 DEF Send, LegacyReply, NoReply, Replied
    <3>3. ASSUME Commit PROVE HoldsBut({})'
      <4>1. disk' = Written(message)
        BY <2>3, <3>3
      <4> QED BY <1>1, <1>3, <1>5, <2>3, <4>1, WrittenCompletes, Unpacked
    <3> QED BY <3>1, <3>2, <3>3
  <2>4. CASE /\ ~message.skip /\ ~Invalid(message)
             /\ Torn(message)
             /\ \E st \in WriteErrors : Send(LegacyReply(status_from_efi(st)))
    <3>1. PICK st \in WriteErrors : reply' \in {LegacyReply(status_from_efi(st)), NoReply}
      BY <2>4 DEF Send
    <3>2. status_from_efi(st) \in Nat \ {0}
      BY ErrorTold
    <3>3. disk' \in [Sectors -> Data]
      BY <1>3, <2>4, TornFacts, Unpacked
    <3> QED BY <3>1, <3>2, <3>3 DEF LegacyReply, NoReply, Replied
  <2> QED BY <1>3, <2>1, <2>2, <2>3, <2>4 DEF LegacyFlash
<1>7. DeviceType'
  BY <1>1, <1>6, Unpacked DEF DeviceType, TypeOK, asyncVars
<1>8. TypeOK'
  BY <1>1, <1>7, Unpacked, ByParts
<1>9. Turns'
  BY <1>1, <1>2, <1>4, <1>6 DEF Turns, Asked
<1>10. Foreseen'
  BY <1>4 DEF Foreseen
<1>11. ~Believes'
  BY <1>1, <1>2, <1>4, <1>5, <1>6 DEF Believes
<1>12. AsTold'
  BY <1>1, <1>2, <1>6 DEF AsTold, Told
<1> QED BY <1>8, <1>9, <1>10, <1>11, <1>12 DEF IInv, BehindTheReplies

LEMMA StepIInv == IInv /\ [Next]_vars => IInv'
<1> SUFFICES ASSUME IInv, [Next]_vars PROVE IInv'
  OBVIOUS
<1>1. CASE UNCHANGED vars
  <2>1. /\ disk' = disk /\ UNCHANGED asyncVars /\ dev' = dev /\ message' = message
        /\ reply' = reply /\ waiting' = waiting /\ trust' = trust
        /\ expected' = expected /\ verdict' = verdict
    BY <1>1 DEF vars, hostVars
  <2>2. TypeOK'
    BY <2>1, DeviceTypeKept, Unpacked, ByParts
  <2>3. Turns'
    BY <2>1, Unpacked DEF Turns, Replied
  <2>4. Foreseen'
    BY <2>1, Unpacked DEF Foreseen, Pending, HoldsBut
  <2>5. Pending' = Pending /\ (Believes' => Believes) /\ (Told' => Told)
    BY <2>1 DEF Pending, Believes, Told
  <2>6. BehindTheReplies' /\ AsTold'
    BY <2>1, <2>5, Unpacked DEF BehindTheReplies, AsTold, HoldsBut, asyncVars
  <2> QED BY <2>2, <2>3, <2>4, <2>6 DEF IInv
<1>2. CASE AskStart \/ AskWrite \/ AskEnd \/ AskLegacy \/ AskOther
  BY <1>2, StepAskStart, StepAskWrite, StepAskNothingNew, StepAskLegacy
<1>3. CASE HostReads \/ HostTimesOut
  BY <1>3, StepHostReads, StepHostTimesOut
<1>4. CASE AsyncStart \/ AsyncAnswer \/ AsyncWrite \/ AsyncEnd
  BY <1>4, StepAsyncStart, StepAsyncAnswer, StepAsyncWrite, StepAsyncEnd
<1>5. CASE Unknown \/ LegacyFlash
  BY <1>5, StepUnknown, StepLegacyFlash
<1> QED BY <1>1, <1>2, <1>3, <1>4, <1>5 DEF Next

-------------------------------------------------------------------------------
(* The theorems. *)

\* Disk, async status and last sector keep their types: in particular the last sector
\* reported is one of the disk (main.c:1178-1214).
THEOREM TypesKept == Spec => []TypeOK
<1>1. IInv => TypeOK
  BY DEF IInv
<1> QED BY <1>1, InitIInv, StepIInv, PTL DEF Spec

\* A host that sees no error up to the reply of the end, or in the reply of a legacy
\* write, has all its sectors on the disk, though every async write is answered before
\* it happens and replies get lost (main.c:1178-1214, 835-868).
THEOREM SilenceMeansWritten == Spec => []WrittenMeansWritten
<1>1. IInv => WrittenMeansWritten
  BY DEF IInv, AsTold, Told, HoldsBut, WrittenMeansWritten
<1> QED BY <1>1, InitIInv, StepIInv, PTL DEF Spec

===============================================================================
