------------------------- MODULE SecureSessionProofs --------------------------
(***************************************************************************)
(* Theorems about SecureSession, for every image and every way the host    *)
(* cuts it, and any set of faults.                                         *)
(*                                                                         *)
(* On top of the invariants of the context (StreamFlashProofs), which a    *)
(* power loss does not touch but for what is on the target, SessionIInv    *)
(* says whose turn it is (Turns), that a request carries the image where   *)
(* it was acknowledged (Asks), and how the payload that the context has    *)
(* relates to what is acknowledged (Follows): never less, and if not more, *)
(* then it is the image so far.  A packet that is taken twice makes it     *)
(* more for good, which is why it cannot fake completion (Ends).           *)
(***************************************************************************)
EXTENDS SecureSession, StreamFlashProofs

-------------------------------------------------------------------------------
(* The inductive invariant. *)

ImageSoFar(s) == s = SubSeq(HostImage, 1, Len(s))

\* A context that has s: no less than the a bytes acknowledged; r: something was
\* sent twice.
AtLeast(s, a, r) == a <= Len(s) /\ (Len(s) = a \/ ~r => ImageSoFar(s))

\* It has n bytes more than are acknowledged, or something twice.
Ahead(s, a, r, n) ==
  /\ a + n <= Len(s)
  /\ ~r => Len(s) = a + n
  /\ Len(s) = a + n => ImageSoFar(s)

Behind   == AtLeast(stream, acked, resent)
Exact(n) == Ahead(stream, acked, resent, n)

Over     == dev \in {"flush", "exited", "off"}
Complete == ready /\ Done /\ stream = HostImage

Errors == WriteErrors \cup InitErrors \cup {EFI_UNSUPPORTED, EFI_BAD_BUFFER_SIZE}

SessionTyped ==
  /\ dev \in {"receive", "payload", "respond", "flush", "exited", "off"}
  /\ posted \in BOOLEAN
  /\ reply # NoReply => reply.status \in Nat /\ reply.final \in {0, 1}
  /\ durable \in [Address -> Data]
  /\ host \in {"ready", "waiting", "completed", "stopped"}
  /\ acked \in 0 .. Len(HostImage)
  /\ resent \in BOOLEAN
  /\ faults \in FaultSets
  /\ ~dry_run
  /\ result \in Errors \cup {EFI_SUCCESS}

IsPacket(r) ==
  r.data \in Seq(Data) /\ Len(r.data) <= MaxPacket /\ r.progress100 \in BOOLEAN

\* The bytes of the image behind the first a, and the end if it says so.
NextPart(r, a) ==
  /\ a + Len(r.data) <= Len(HostImage)
  /\ \A k \in 1 .. Len(r.data) : r.data[k] = HostImage[a + k]
  /\ r.progress100 => a + Len(r.data) = Len(HostImage)

Asks ==
  request.kind = "payload" =>
    IsPacket(request) /\ (host = "waiting" => NextPart(request, acked))

Turns ==
  /\ dev # "off" => (dev = "payload" <=> phase # "idle")
  /\ posted => /\ reply = NoReply
               /\ dev \in {"receive", "exited", "off"}
               /\ dev = "receive" => host = "waiting"
  /\ dev \in {"payload", "respond"} =>
       host = "waiting" /\ reply = NoReply /\ request.kind = "payload"
  /\ reply # NoReply => host = "waiting"

Follows ==
  /\ Behind
  /\ host = "ready" => Exact(0)
  /\ posted /\ dev = "receive" => Exact(0)
  /\ dev = "payload" => Exact(pos) /\ packet = request.data /\ packet # <<>>
  /\ dev = "respond" /\ ready /\ (request.data = <<>> \/ ~result.error) =>
       Exact(Len(request.data))
  /\ reply # NoReply /\ reply.status = 0 =>
       Exact(Len(request.data)) /\ request.kind = "payload"

Ends ==
  /\ reply # NoReply /\ reply.status = 0 /\ request.progress100 => reply.final = 1
  /\ reply # NoReply /\ reply.status = 0 /\ reply.final = 1 => Over /\ Complete
  /\ dev = "flush" =>
       /\ Complete
       /\ host # "ready"
       /\ reply # NoReply => reply.status = 0 /\ request.progress100
  /\ host = "completed" => Over /\ Complete

Session == SessionTyped /\ Asks /\ Turns /\ Follows /\ Ends

SessionIInv == IInv /\ Session

\* What is on the target, unless power was lost.
Held == dev # "off" => FlashedSoFar

-------------------------------------------------------------------------------
(* The image, and what of it the context has. *)

LEMMA ImageFacts ==
  /\ HostImage \in Seq(Data) /\ Len(HostImage) \in Nat
  /\ Len(HostImage) = First(EntryCount)
  /\ \A k \in 1 .. Len(HostImage) : HostImage[k] \in Data
BY SessionAssumption, LenProperties, ElementOfSeq

\* A part of the image.
LEMMA PartFacts ==
  ASSUME NEW from \in Nat, NEW n \in Nat, from + n <= Len(HostImage)
  PROVE  LET part == SubSeq(HostImage, from + 1, from + n)
         IN  /\ part \in Seq(Data) /\ Len(part) = n
             /\ \A k \in 1 .. n : part[k] = HostImage[from + k]
<1> DEFINE lo == from + 1
           hi == from + n
           part == SubSeq(HostImage, lo, hi)
<1>1. /\ lo \in Int /\ hi \in Int /\ hi - lo + 1 = n /\ n \in Nat /\ from \in Nat
      /\ lo = from + 1 /\ lo <= hi <=> n # 0
      /\ \A k \in lo .. hi : HostImage[k] \in Data
  BY ImageFacts
<1> HIDE DEF lo, hi
<1>2. /\ part \in Seq(Data)
      /\ Len(part) = IF lo <= hi THEN hi - lo + 1 ELSE 0
      /\ \A k \in 1 .. hi - lo + 1 : part[k] = HostImage[lo + k - 1]
  BY <1>1, SubSeqProperties
<1> HIDE DEF part
<1>3. Len(part) = n /\ \A k \in 1 .. n : part[k] = HostImage[from + k]
  BY <1>1, <1>2
<1> QED BY <1>2, <1>3 DEF part, lo, hi

\* The image so far, byte by byte.
LEMMA PrefixFacts ==
  ASSUME NEW s \in Seq(Data), Len(s) <= Len(HostImage)
  PROVE  ImageSoFar(s) <=> \A k \in 1 .. Len(s) : s[k] = HostImage[k]
<1> DEFINE part == SubSeq(HostImage, 1, Len(s))
<1>1. /\ part \in Seq(Data) /\ Len(part) = Len(s)
      /\ \A k \in 1 .. Len(s) : part[k] = HostImage[k]
  <2> DEFINE n == Len(s)
  <2>1. n \in Nat /\ 0 + n <= Len(HostImage) /\ 0 + 1 = 1 /\ 0 + n = n
    BY LenProperties
  <2>2. part = SubSeq(HostImage, 0 + 1, 0 + n)
    BY <2>1
  <2> HIDE DEF part, n
  <2>3. part \in Seq(Data) /\ Len(part) = n /\ \A k \in 1 .. n : part[k] = HostImage[0 + k]
    BY <2>1, <2>2, PartFacts
  <2>4. \A k \in 1 .. n : 0 + k = k
    BY <2>1
  <2> QED BY <2>3, <2>4 DEF n
<1> HIDE DEF part
<1>2. s = part <=> \A k \in 1 .. Len(s) : s[k] = part[k]
  BY <1>1, SeqEqual
<1> QED BY <1>1, <1>2 DEF ImageSoFar, part

\* The whole image.
LEMMA WholeImage ==
  ASSUME NEW s \in Seq(Data), Len(s) = Len(HostImage), ImageSoFar(s)
  PROVE  s = HostImage
<1>1. \A k \in 1 .. Len(s) : s[k] = HostImage[k]
  BY PrefixFacts, ImageFacts
<1> QED BY <1>1, ImageFacts, SeqEqual

LEMMA AheadIsAtLeast ==
  ASSUME NEW s \in Seq(Data), NEW a \in Nat, NEW r \in BOOLEAN, NEW n \in Nat,
         Ahead(s, a, r, n)
  PROVE  AtLeast(s, a, r)
<1>1. Len(s) \in Nat
  BY LenProperties
<1> QED BY <1>1 DEF Ahead, AtLeast

\* Once something is sent again, it is ahead by nothing or has something twice.
LEMMA SentAgain ==
  ASSUME NEW s \in Seq(Data), NEW a \in Nat, NEW r \in BOOLEAN, AtLeast(s, a, r)
  PROVE  Ahead(s, a, TRUE, 0) /\ AtLeast(s, a, TRUE)
<1>1. Len(s) \in Nat
  BY LenProperties
<1> QED BY <1>1 DEF Ahead, AtLeast

LEMMA Acknowledged ==
  ASSUME NEW s \in Seq(Data), NEW a \in Nat, NEW r \in BOOLEAN, NEW n \in Nat,
         Ahead(s, a, r, n)
  PROVE  Ahead(s, a + n, r, 0)
<1>1. Len(s) \in Nat
  BY LenProperties
<1> QED BY <1>1 DEF Ahead

\* A chunk of a packet that carries the next part of the image.
LEMMA ChunkTaken ==
  ASSUME NEW s \in Seq(Data), NEW t \in Seq(Data), NEW a \in Nat, NEW r \in BOOLEAN,
         NEW q, IsPacket(q), NextPart(q, a),
         NEW at \in 0 .. Len(q.data), NEW n \in 0 .. Len(q.data) - at,
         Ahead(s, a, r, at),
         Len(t) = Len(s) + n,
         \A k \in 1 .. Len(s) : t[k] = s[k],
         \A k \in 1 .. n : t[Len(s) + k] = q.data[at + k]
  PROVE  Ahead(t, a, r, at + n)
<1> DEFINE d == q.data
<1>1. /\ d \in Seq(Data) /\ Len(d) \in Nat /\ Len(s) \in Nat /\ Len(HostImage) \in Nat
      /\ a + Len(d) <= Len(HostImage)
      /\ \A k \in 1 .. Len(d) : d[k] = HostImage[a + k]
  BY ImageFacts, LenProperties DEF IsPacket, NextPart
<1>2. /\ at \in Nat /\ n \in Nat /\ at + n <= Len(d)
      /\ \A k \in 1 .. n : t[Len(s) + k] = d[at + k]
  BY <1>1
<1> HIDE DEF d
<1>3. /\ a + at <= Len(s) /\ (~r => Len(s) = a + at)
      /\ Len(s) = a + at => ImageSoFar(s)
  BY DEF Ahead
<1>4. a + (at + n) <= Len(t) /\ (~r => Len(t) = a + (at + n))
  <2>1. Len(t) = Len(s) + n /\ a + at <= Len(s)
    BY <1>3
  <2>2. a + (at + n) <= Len(t) /\ (Len(s) = a + at => Len(t) = a + (at + n))
    <3> DEFINE m == Len(s)
               u == Len(t)
    <3>1. m \in Nat /\ at \in Nat /\ n \in Nat
      BY <1>1, <1>2
    <3>2. u = m + n /\ a + at <= m
      BY <2>1
    <3> HIDE DEF m, u
    <3>3. a + (at + n) <= u /\ (m = a + at => u = a + (at + n))
      BY <3>1, <3>2
    <3> QED BY <3>3 DEF m, u
  <2> QED BY <2>2, <1>3
<1>5. ASSUME Len(t) = a + (at + n)
      PROVE  ImageSoFar(t)
  <2>1. Len(s) = a + at /\ Len(t) <= Len(HostImage) /\ Len(s) <= Len(HostImage)
    BY <1>1, <1>2, <1>3, <1>5
  <2>2. \A k \in 1 .. Len(s) : s[k] = HostImage[k]
    BY <1>3, <2>1, PrefixFacts
  <2>3. ASSUME NEW k \in 1 .. Len(t) PROVE t[k] = HostImage[k]
    <3>1. CASE k <= Len(s)
      BY <3>1, <2>2, <1>1
    <3>2. CASE ~(k <= Len(s))
      <4> DEFINE j == k - Len(s)
      <4>1. /\ j \in 1 .. n /\ Len(s) + j = k /\ at + j \in 1 .. Len(d)
            /\ a + (at + j) = k
        BY <3>2, <2>1, <1>1, <1>2, <1>5
      <4> HIDE DEF j
      <4>2. t[k] = d[at + j]
        BY <4>1, <1>2
      <4>3. d[at + j] = HostImage[k]
        BY <4>1, <1>1
      <4> QED BY <4>2, <4>3
    <3> QED BY <3>1, <3>2
  <2> QED BY <2>1, <2>3, PrefixFacts
<1> QED BY <1>4, <1>5 DEF Ahead

\* What the invariant gives to the lemmas above.
LEMMA SessionFacts ==
  ASSUME SessionIInv
  PROVE  /\ stream \in Seq(Data) /\ acked \in Nat /\ resent \in BOOLEAN
         /\ packet \in Seq(Data) /\ Len(packet) \in Nat /\ pos \in 0 .. Len(packet)
         /\ request.kind = "payload" =>
              IsPacket(request) /\ request.data \in Seq(Data)
                /\ Len(request.data) \in Nat
<1>1. stream \in Seq(Data) /\ packet \in Seq(Data) /\ pos \in 0 .. Len(packet)
  BY DEF SessionIInv, IInv, TypeOK
<1>2. acked \in Nat /\ resent \in BOOLEAN
  BY ImageFacts DEF SessionIInv, Session, SessionTyped
<1>3. request.kind = "payload" => IsPacket(request) /\ request.data \in Seq(Data)
  BY DEF SessionIInv, Session, Asks, IsPacket
<1> QED BY <1>1, <1>2, <1>3, LenProperties

\* A step that leaves the context alone.
LEMMA Untouched ==
  ASSUME UNCHANGED vars
  PROVE  /\ UNCHANGED <<ready, dry_run, phase, packet, pos, result, stream, disk>>
         /\ Complete' <=> Complete
<1>1. UNCHANGED <<ready, dry_run, phase, packet, pos, result, stream, disk,
                  entry_index, entry_received>>
  BY DEF vars, ctxVars, callVars
<1> QED BY <1>1 DEF Complete, Done

-------------------------------------------------------------------------------
(* The steps of the host. *)

LEMMA AskSession ==
  ASSUME SessionIInv, NEW r, Ask(r),
         r.kind = "payload" => IsPacket(r) /\ NextPart(r, acked)
  PROVE  Session'
<1>1. /\ host = "ready" /\ host' = "waiting" /\ posted' = TRUE /\ request' = r
      /\ UNCHANGED <<vars, dev, reply, durable, acked, resent, faults>>
  BY DEF Ask
<1>2. /\ UNCHANGED <<ready, dry_run, phase, packet, pos, result, stream>>
      /\ UNCHANGED <<dev, reply, durable, acked, resent, faults>>
  BY <1>1, Untouched
<1>3. reply = NoReply /\ dev \in {"receive", "exited", "off"} /\ Behind /\ Exact(0)
  BY <1>1 DEF SessionIInv, Session, SessionTyped, Turns, Follows, Ends
<1>4. SessionTyped'
  BY <1>1, <1>2 DEF SessionIInv, Session, SessionTyped
<1>5. Asks'
  BY <1>1, <1>2 DEF Asks
<1>6. Turns'
  BY <1>1, <1>2, <1>3 DEF SessionIInv, Session, Turns
<1>7. Follows'
  BY <1>1, <1>2, <1>3 DEF Follows, Behind, Exact
<1>8. Ends'
  BY <1>1, <1>2, <1>3 DEF Ends
<1> QED BY <1>4, <1>5, <1>6, <1>7, <1>8 DEF Session

LEMMA SendSession ==
  ASSUME SessionIInv, SendData \/ SendFinal \/ SendMalformed
  PROVE  Session'
<1>1. CASE SendData
  <2>1. PICK n \in 1 .. Smaller(MaxPacket, Len(HostImage) - acked) :
          \E final \in {FALSE, acked + n = Len(HostImage)} :
            Ask(Request(SubSeq(HostImage, acked + 1, acked + n), final))
    BY <1>1 DEF SendData
  <2>2. PICK final \in {FALSE, acked + n = Len(HostImage)} :
          Ask(Request(SubSeq(HostImage, acked + 1, acked + n), final))
    BY <2>1
  <2> DEFINE part == SubSeq(HostImage, acked + 1, acked + n)
  <2>3. n \in Nat /\ acked \in Nat /\ n <= MaxPacket /\ acked + n <= Len(HostImage)
    BY ImageFacts, CapacityAssumption, SessionFacts DEF Smaller
  <2>4. /\ part \in Seq(Data) /\ Len(part) = n
        /\ \A k \in 1 .. n : part[k] = HostImage[acked + k]
    BY <2>3, PartFacts
  <2> HIDE DEF part
  <2> DEFINE r == Request(part, final)
  <2>5. r.kind = "payload" /\ r.data = part /\ r.progress100 = final
    BY DEF Request
  <2>6. Ask(r)
    BY <2>2 DEF part
  <2> HIDE DEF r
  <2>7. IsPacket(r) /\ NextPart(r, acked)
    BY <2>2, <2>3, <2>4, <2>5 DEF IsPacket, NextPart
  <2> QED BY <2>6, <2>7, AskSession
<1>2. CASE SendFinal
  <2> DEFINE r == Request(<<>>, TRUE)
  <2>1. r.kind = "payload" /\ r.data = <<>> /\ r.progress100 = TRUE
    BY DEF Request
  <2>2. Ask(r) /\ acked = Len(HostImage)
    BY <1>2 DEF SendFinal
  <2> HIDE DEF r
  <2>3. r.data \in Seq(Data) /\ Len(r.data) = 0
    BY <2>1, EmptySeq
  <2>4. IsPacket(r)
    <3>1. Len(r.data) <= MaxPacket
      BY <2>3, CapacityAssumption
    <3>2. r.progress100 \in BOOLEAN
      BY <2>1
    <3> QED BY <2>3, <3>1, <3>2 DEF IsPacket
  <2>5. NextPart(r, acked)
    BY <2>1, <2>2, <2>3, ImageFacts DEF NextPart
  <2> QED BY <2>2, <2>4, <2>5, AskSession
<1>3. CASE SendMalformed
  <2> DEFINE r == [kind |-> "malformed"]
  <2>1. Ask(r) /\ r.kind # "payload"
    BY <1>3 DEF SendMalformed
  <2> QED BY <2>1, AskSession
<1> QED BY <1>1, <1>2, <1>3

LEMMA ReadReplySession ==
  ASSUME SessionIInv, ReadReply
  PROVE  Session'
<1>1. /\ host = "waiting" /\ reply # NoReply /\ reply' = NoReply
      /\ UNCHANGED <<vars, dev, posted, request, durable, faults>>
  BY DEF ReadReply
<1>2. /\ UNCHANGED <<ready, dry_run, phase, packet, pos, result, stream>>
      /\ UNCHANGED <<dev, posted, request, durable, faults>>
      /\ Complete' <=> Complete
  BY <1>1, Untouched
<1>3. posted = FALSE /\ dev \in {"receive", "flush", "exited", "off"} /\ Behind
  BY <1>1 DEF SessionIInv, Session, SessionTyped, Turns, Follows
<1>4. /\ host' \in {"ready", "completed", "stopped"}
      /\ acked' \in 0 .. Len(HostImage)
      /\ resent' \in BOOLEAN
      /\ Behind'
      /\ host' = "ready" => Exact(0)' /\ dev # "flush"
      /\ host' = "completed" => Over /\ Complete
  <2>1. CASE reply.status # 0
    <3>1. acked' = acked /\ React
      BY <2>1 DEF ReadReply
    <3>2. dev # "flush"
      BY <1>1, <2>1 DEF SessionIInv, Session, Ends
    <3>3. CASE host' = "ready" /\ resent' = TRUE
      <4>1. Exact(0)' /\ Behind'
        BY <1>2, <1>3, <3>1, <3>3, SessionFacts, SentAgain DEF Behind, Exact
      <4> QED BY <3>1, <3>2, <3>3, <4>1 DEF SessionIInv, Session, SessionTyped
    <3>4. CASE host' = "stopped" /\ resent' = resent
      BY <1>2, <1>3, <3>1, <3>4 DEF SessionIInv, Session, SessionTyped, Behind
    <3> QED BY <3>1, <3>3, <3>4 DEF React
  <2>2. CASE reply.status = 0
    <3>1. /\ acked' = acked + Len(request.data) /\ resent' = resent
          /\ host' = IF request.progress100 THEN "completed" ELSE "ready"
      BY <2>2 DEF ReadReply
    <3>2. Exact(Len(request.data)) /\ request.kind = "payload"
      BY <1>1, <2>2 DEF SessionIInv, Session, Follows
    <3>3. NextPart(request, acked)
      BY <1>1, <3>2 DEF SessionIInv, Session, Asks
    <3>4. acked' \in 0 .. Len(HostImage)
      BY <3>1, <3>2, <3>3, SessionFacts, ImageFacts DEF NextPart
    <3>5. Ahead(stream, acked + Len(request.data), resent, 0)
      BY <3>2, SessionFacts, Acknowledged DEF Exact
    <3>6. Exact(0)'
      BY <3>1, <3>5, <1>2 DEF Exact
    <3>7. Behind'
      <4>1. acked + Len(request.data) \in Nat
        BY <3>2, SessionFacts
      <4>2. AtLeast(stream, acked + Len(request.data), resent)
        BY <3>5, <4>1, SessionFacts, AheadIsAtLeast
      <4> QED BY <3>1, <4>2, <1>2 DEF Behind
    <3>8. request.progress100 => Over /\ Complete
      BY <1>1, <2>2 DEF SessionIInv, Session, Ends
    <3>9. dev = "flush" => request.progress100
      BY <1>1 DEF SessionIInv, Session, Ends
    <3> QED BY <3>1, <3>4, <3>6, <3>7, <3>8, <3>9, SessionFacts
  <2> QED BY <2>1, <2>2
<1>5. SessionTyped'
  BY <1>1, <1>2, <1>4 DEF SessionIInv, Session, SessionTyped
<1>6. Asks'
  BY <1>2, <1>4 DEF SessionIInv, Session, Asks
<1>7. Turns'
  BY <1>1, <1>2, <1>3 DEF SessionIInv, Session, Turns
<1>8. Follows'
  BY <1>1, <1>2, <1>3, <1>4 DEF Follows
<1>9. Ends'
  BY <1>1, <1>2, <1>4 DEF SessionIInv, Session, Ends, Over
<1> QED BY <1>5, <1>6, <1>7, <1>8, <1>9 DEF Session

LEMMA TimeOutSession ==
  ASSUME SessionIInv, TimeOut
  PROVE  Session'
<1>1. /\ host = "waiting" /\ reply = NoReply
      /\ Gone \/ (dev = "receive" /\ ~posted)
      /\ UNCHANGED <<vars, dev, posted, request, reply, durable, acked, faults>>
  BY DEF TimeOut
<1>2. /\ UNCHANGED <<ready, dry_run, phase, packet, pos, result, stream>>
      /\ UNCHANGED <<dev, posted, request, reply, durable, acked, faults>>
      /\ Complete' <=> Complete
  BY <1>1, Untouched
<1>3. dev \in {"receive", "exited", "off"} /\ Behind
  BY <1>1 DEF SessionIInv, Session, Follows, Gone
<1>4. /\ host' \in {"ready", "stopped"}
      /\ resent' \in BOOLEAN
      /\ Behind'
      /\ host' = "ready" => Exact(0)'
  <2>1. CASE host' = "ready" /\ resent' = TRUE
    <3>1. Exact(0)' /\ Behind'
      BY <1>2, <1>3, <2>1, SessionFacts, SentAgain DEF Behind, Exact
    <3> QED BY <2>1, <3>1
  <2>2. CASE host' = "stopped" /\ resent' = resent
    BY <1>2, <1>3, <2>2, SessionFacts DEF Behind
  <2> QED BY <2>1, <2>2 DEF TimeOut, React
<1>5. SessionTyped'
  BY <1>1, <1>2, <1>4 DEF SessionIInv, Session, SessionTyped
<1>6. Asks'
  BY <1>2, <1>4 DEF SessionIInv, Session, Asks
<1>7. Turns'
  BY <1>1, <1>2, <1>3 DEF SessionIInv, Session, Turns, Gone
<1>8. Follows'
  BY <1>1, <1>2, <1>3, <1>4 DEF Follows, Gone
<1>9. Ends'
  BY <1>1, <1>2, <1>3, <1>4 DEF Ends
<1> QED BY <1>5, <1>6, <1>7, <1>8, <1>9 DEF Session

-------------------------------------------------------------------------------
(* The steps of the device. *)

LEMMA HeaderSession ==
  ASSUME SessionIInv, HeaderArrives
  PROVE  Session'
<1>1. /\ dev = "receive" /\ host = "ready"
      /\ UNCHANGED <<dev, posted, request, reply, durable, host, acked, resent, faults>>
  BY DEF HeaderArrives, hostVars
<1>2. /\ UNCHANGED <<phase, packet, pos, stream>>
      /\ ~dry_run'
      /\ result' \in Errors \cup {EFI_SUCCESS}
  <2>1. CASE StreamInit(TRUE)
    BY <2>1 DEF StreamInit
  <2>2. CASE \E st \in InitErrors : StreamInitFails(st)
    BY <2>2 DEF StreamInitFails, ctxVars, Errors, SessionIInv, Session, SessionTyped
  <2> QED BY <2>1, <2>2 DEF HeaderArrives
<1>3. reply = NoReply /\ posted = FALSE
  BY <1>1 DEF SessionIInv, Session, SessionTyped, Turns
<1>4. SessionTyped'
  BY <1>1, <1>2 DEF SessionIInv, Session, SessionTyped
<1>5. Asks'
  BY <1>1 DEF SessionIInv, Session, Asks
<1>6. Turns'
  BY <1>1, <1>2, <1>3 DEF SessionIInv, Session, Turns
<1>7. Follows'
  BY <1>1, <1>2, <1>3 DEF SessionIInv, Session, Follows, Behind, Exact
<1>8. Ends'
  BY <1>1, <1>3 DEF Ends
<1> QED BY <1>4, <1>5, <1>6, <1>7, <1>8 DEF Session

LEMMA RefuseSession ==
  ASSUME SessionIInv, RefusePacket
  PROVE  Session'
<1>1. /\ dev = "receive" /\ posted /\ posted' = FALSE
      /\ request.kind = "malformed"
      /\ UNCHANGED <<vars, dev, request, durable, host, acked, resent, faults>>
  BY DEF RefusePacket, hostVars
<1>2. /\ UNCHANGED <<ready, dry_run, phase, packet, pos, result, stream>>
      /\ UNCHANGED <<dev, request, durable, host, acked, resent, faults>>
  BY <1>1, Untouched
<1>3. host = "waiting"
  BY <1>1 DEF SessionIInv, Session, Turns
<1>4. reply' # NoReply => reply'.status \in Nat /\ reply'.status # 0 /\ reply'.final = 0
  <2>1. PICK status \in {8, 14, 15, 16} :
          Send([status |-> status, final |-> 0, last_sector |-> 0])
    BY DEF RefusePacket
  <2>2. CASE reply' = [status |-> status, final |-> 0, last_sector |-> 0]
    <3>1. reply'.status = status /\ reply'.final = 0
      BY <2>2
    <3> QED BY <3>1
  <2> QED BY <2>1, <2>2 DEF Send
<1>5. SessionTyped'
  BY <1>1, <1>2, <1>4 DEF SessionIInv, Session, SessionTyped
<1>6. Asks'
  BY <1>2 DEF SessionIInv, Session, Asks
<1>7. Turns'
  BY <1>1, <1>2, <1>3 DEF SessionIInv, Session, Turns
<1>8. Follows'
  BY <1>1, <1>2, <1>3, <1>4 DEF SessionIInv, Session, Follows, Behind
<1>9. Ends'
  BY <1>1, <1>2, <1>3, <1>4 DEF Ends
<1> QED BY <1>5, <1>6, <1>7, <1>8, <1>9 DEF Session

LEMMA TakeSession ==
  ASSUME SessionIInv, TakePacket
  PROVE  Session'
<1>1. /\ dev = "receive" /\ posted /\ posted' = FALSE
      /\ request.kind = "payload"
      /\ UNCHANGED <<request, reply, durable, host, acked, resent, faults>>
  BY DEF TakePacket, hostVars
<1>2. host = "waiting" /\ reply = NoReply /\ Exact(0) /\ Behind
  BY <1>1 DEF SessionIInv, Session, Turns, Follows
<1>3. phase = "idle"
  BY <1>1 DEF SessionIInv, Session, Turns
<1>4. Asks'
  BY <1>1 DEF SessionIInv, Session, Asks
<1>5. CASE ready /\ request.data # <<>>
  <2>1. Payload(request.data) /\ dev' = "payload"
    BY <1>5 DEF TakePacket
  <2>2. /\ phase' = "copy" /\ packet' = request.data /\ pos' = 0
        /\ UNCHANGED <<dry_run, result, stream>>
    BY <2>1 DEF Payload, ctxVars
  <2>3. SessionTyped'
    BY <1>1, <2>1, <2>2 DEF SessionIInv, Session, SessionTyped
  <2>4. Turns'
    BY <1>1, <1>2, <2>1, <2>2 DEF Turns
  <2>5. Follows'
    BY <1>1, <1>2, <1>5, <2>1, <2>2 DEF Follows, Behind, Exact
  <2>6. Ends'
    BY <1>1, <1>2, <2>1 DEF Ends
  <2> QED BY <1>4, <2>3, <2>4, <2>5, <2>6 DEF Session
<1>6. CASE ~(ready /\ request.data # <<>>)
  <2>1. UNCHANGED vars /\ dev' = "respond"
    BY <1>6 DEF TakePacket
  <2>2. UNCHANGED <<ready, dry_run, phase, packet, pos, result, stream>>
    BY <2>1, Untouched
  <2>3. ready => Len(request.data) = 0
    BY <1>6, EmptySeq
  <2>4. SessionTyped'
    BY <1>1, <2>1, <2>2 DEF SessionIInv, Session, SessionTyped
  <2>5. Turns'
    BY <1>1, <1>2, <1>3, <2>1, <2>2 DEF Turns
  <2>6. Follows'
    BY <1>1, <1>2, <2>1, <2>2, <2>3 DEF Follows, Behind, Exact
  <2>7. Ends'
    BY <1>1, <1>2, <2>1 DEF Ends
  <2> QED BY <1>4, <2>4, <2>5, <2>6, <2>7 DEF Session
<1> QED BY <1>5, <1>6

\* The statuses that a call may return, as a reply tells them.
LEMMA StatusTold ==
  ASSUME NEW st \in Errors \cup {EFI_SUCCESS}
  PROVE  /\ status_from_efi(st) \in Nat
         /\ status_from_efi(st) = 0 => ~st.error
         /\ st \in Errors => st.error
<1>1. CASE st = EFI_SUCCESS
  <2>1. st.error = FALSE
    BY <1>1 DEF EFI_SUCCESS
  <2>2. st \in Errors => FALSE
    <3>1. st \in WriteErrors => st.error
      BY MediaAssumption
    <3> QED BY <2>1, <3>1 DEF Errors, InitErrors, EFIERR, EFI_UNSUPPORTED,
              EFI_BAD_BUFFER_SIZE, EFI_OUT_OF_RESOURCES, EFI_VOLUME_CORRUPTED
  <2> QED BY <2>1, <2>2 DEF status_from_efi
<1>2. CASE st \in WriteErrors
  <2>1. st.error /\ st.code \in Nat
    BY <1>2, MediaAssumption DEF EfiStatus
  <2>2. status_from_efi(st) # 0
    BY <1>2, SessionAssumption
  <2>3. status_from_efi(st) \in Nat
    BY <2>1 DEF status_from_efi
  <2> QED BY <2>1, <2>2, <2>3
<1>3. CASE st \in InitErrors \cup {EFI_UNSUPPORTED, EFI_BAD_BUFFER_SIZE}
  <2>1. PICK n \in {3, 4, 9, 10} : st = EFIERR(n)
    BY <1>3 DEF InitErrors, EFI_UNSUPPORTED, EFI_BAD_BUFFER_SIZE,
                EFI_OUT_OF_RESOURCES, EFI_VOLUME_CORRUPTED
  <2>2. st.error /\ st.code = n
    BY <2>1 DEF EFIERR
  <2>3. status_from_efi(st) = n
    BY <2>2 DEF status_from_efi
  <2> QED BY <2>2, <2>3
<1> QED BY <1>1, <1>2, <1>3 DEF Errors

LEMMA TurnSession ==
  ASSUME SessionIInv, PayloadTurn
  PROVE  Session'
<1>1. /\ dev = "payload" /\ PayloadStep
      /\ dev' = IF phase' = "idle" THEN "respond" ELSE "payload"
      /\ UNCHANGED <<posted, request, reply, durable, host, acked, resent, faults>>
  BY DEF PayloadTurn, hostVars
<1>2. /\ host = "waiting" /\ reply = NoReply /\ request.kind = "payload"
      /\ Exact(pos) /\ packet = request.data /\ packet # <<>>
      /\ posted = FALSE /\ Behind
      /\ NextPart(request, acked)
  BY <1>1 DEF SessionIInv, Session, SessionTyped, Asks, Turns, Follows
<1>3. dry_run' = dry_run
  BY <1>1 DEF PayloadStep, Finish, Overrun, CopyChunk, Unsupported, WriteOk, WriteFails,
              ctxVars
<1>4. /\ result' \in Errors \cup {EFI_SUCCESS}
      /\ Behind'
      /\ dev' = "payload" => Exact(pos)' /\ packet' = packet
      /\ dev' = "respond" => (~result'.error => Exact(Len(request.data))')
  <2>1. CASE Finish
    <3>1. result' = EFI_SUCCESS /\ stream' = stream /\ pos = Len(packet) /\ phase' = "idle"
      BY <2>1 DEF Finish, Return
    <3> QED BY <1>1, <1>2, <3>1 DEF Behind, Exact
  <2>2. CASE Overrun \/ Unsupported \/ WriteFails
    <3>1. result' \in Errors /\ stream' = stream /\ phase' = "idle"
      BY <2>2 DEF Overrun, Unsupported, WriteFails, Return, Errors
    <3>2. result'.error
      BY <3>1, StatusTold
    <3> QED BY <1>1, <1>2, <3>1, <3>2 DEF Behind
  <2>3. CASE CopyChunk
    <3>1. /\ result' = result /\ packet' = packet /\ pos' = pos + take
          /\ phase' # "idle"
      BY <2>3 DEF CopyChunk
    <3>2. /\ take \in 0 .. Len(packet) - pos
          /\ stream' \in Seq(Data)
          /\ Len(stream') = Len(stream) + take
          /\ \A k \in 1 .. Len(stream) : stream'[k] = stream[k]
          /\ \A k \in 1 .. take : stream'[Len(stream) + k] = packet[pos + k]
      BY <2>3, CopyFacts DEF SessionIInv
    <3> HIDE DEF take
    <3>3. Ahead(stream', acked, resent, pos + take)
      BY <1>2, <3>2, SessionFacts, ChunkTaken DEF Exact
    <3>4. Exact(pos)'
      BY <3>1, <3>3, <1>1 DEF Exact
    <3>5. Behind'
      <4>1. pos + take \in Nat
        BY <3>2, SessionFacts
      <4>2. AtLeast(stream', acked, resent)
        BY <3>2, <3>3, <4>1, SessionFacts, AheadIsAtLeast
      <4> QED BY <4>2, <1>1 DEF Behind
    <3> QED BY <1>1, <3>1, <3>4, <3>5 DEF SessionIInv, Session, SessionTyped
  <2>4. CASE WriteOk
    <3>1. UNCHANGED <<result, packet, pos, stream>> /\ phase' # "idle"
      BY <2>4 DEF WriteOk, NextLocation
    <3> QED BY <1>1, <1>2, <3>1 DEF Behind, Exact, SessionIInv, Session, SessionTyped
  <2> QED BY <1>1, <2>1, <2>2, <2>3, <2>4 DEF PayloadStep
<1>5. SessionTyped'
  BY <1>1, <1>2, <1>3, <1>4 DEF SessionIInv, Session, SessionTyped
<1>6. Asks'
  BY <1>1 DEF SessionIInv, Session, Asks
<1>7. Turns'
  BY <1>1, <1>2 DEF Turns
<1>8. Follows'
  <2>1. request'.data # <<>>
    BY <1>1, <1>2
  <2> QED BY <1>1, <1>2, <1>4, <2>1 DEF Follows
<1>9. Ends'
  BY <1>1, <1>2 DEF Ends
<1> QED BY <1>5, <1>6, <1>7, <1>8, <1>9 DEF Session

\* What the reply to a request says.
LEMMA AnswerFacts ==
  ASSUME SessionIInv, dev = "respond"
  PROVE  /\ Answer.status \in Nat /\ Answer.final \in {0, 1}
         /\ Answer.status = 0 => Exact(Len(request.data))
         /\ Answer.status = 0 /\ request.progress100 => Answer.final = 1
         /\ Answer.status = 0 /\ Answer.final = 1 => Complete /\ request.progress100
<1>1. /\ host = "waiting" /\ request.kind = "payload"
      /\ result \in Errors \cup {EFI_SUCCESS}
      /\ NextPart(request, acked)
      /\ ready /\ (request.data = <<>> \/ ~result.error) => Exact(Len(request.data))
  BY DEF SessionIInv, Session, SessionTyped, Asks, Turns, Follows
<1>2. /\ Answer.status = IF request.progress100 /\ ~done /\ ufp_status = 0
                           THEN 8 ELSE ufp_status
      /\ Answer.final = IF request.progress100 /\ done THEN 1 ELSE 0
  BY DEF Answer
<1>3. ufp_status \in Nat /\ (ufp_status = 0 => ready /\ Exact(Len(request.data)))
  BY <1>1, StatusTold DEF ufp_status
<1> HIDE DEF ufp_status, done, Answer
<1>4. /\ Answer.status \in Nat /\ Answer.final \in {0, 1}
      /\ Answer.status = 0 => ufp_status = 0 /\ (request.progress100 => done)
      /\ request.progress100 /\ done => Answer.final = 1
      /\ Answer.final = 1 => request.progress100 /\ done
  BY <1>2, <1>3
<1>5. ASSUME Answer.status = 0, Answer.final = 1
      PROVE  Complete
  <2>1. ready /\ Exact(Len(request.data)) /\ request.progress100 /\ done
    BY <1>3, <1>4, <1>5
  <2>2. Done
    BY <2>1 DEF done
  <2>3. Len(stream) = Len(HostImage)
    BY <2>2, PlanFacts, ImageFacts DEF SessionIInv, IInv, TypeOK, StreamPosition, Done
  <2>4. acked + Len(request.data) = Len(HostImage)
    BY <2>1, <1>1 DEF NextPart
  <2>5. ImageSoFar(stream)
    BY <2>1, <2>3, <2>4 DEF Exact, Ahead
  <2>6. stream = HostImage
    BY <2>3, <2>5, SessionFacts, WholeImage
  <2> QED BY <2>1, <2>2, <2>6 DEF Complete
<1> QED BY <1>3, <1>4, <1>5

LEMMA RespondSession ==
  ASSUME SessionIInv, Respond
  PROVE  Session'
<1>1. /\ dev = "respond"
      /\ reply' = Answer \/ reply' = NoReply
      /\ dev' = IF Answer.final = 1 /\ Answer.status = 0 THEN "flush" ELSE "receive"
      /\ UNCHANGED <<vars, posted, request, durable, host, acked, resent, faults>>
  BY DEF Respond, Send, hostVars
<1>2. /\ UNCHANGED <<ready, dry_run, phase, packet, pos, result, stream>>
      /\ UNCHANGED <<posted, request, durable, host, acked, resent, faults>>
      /\ Complete' <=> Complete
  BY <1>1, Untouched
<1>3. /\ host = "waiting" /\ request.kind = "payload" /\ phase = "idle"
      /\ posted = FALSE /\ Behind
  BY <1>1 DEF SessionIInv, Session, SessionTyped, Turns, Follows
<1>4. /\ Answer.status \in Nat /\ Answer.final \in {0, 1}
      /\ Answer.status = 0 => Exact(Len(request.data))
      /\ Answer.status = 0 /\ request.progress100 => Answer.final = 1
      /\ Answer.status = 0 /\ Answer.final = 1 => Complete /\ request.progress100
  BY <1>1, AnswerFacts
<1>5. SessionTyped'
  BY <1>1, <1>2, <1>4 DEF SessionIInv, Session, SessionTyped
<1>6. Asks'
  BY <1>2 DEF SessionIInv, Session, Asks
<1>7. Turns'
  BY <1>1, <1>2, <1>3 DEF Turns
<1>8. Follows'
  BY <1>1, <1>2, <1>3, <1>4 DEF Follows, Behind, Exact
<1>9. Ends'
  BY <1>1, <1>2, <1>3, <1>4 DEF Ends, Over
<1> QED BY <1>5, <1>6, <1>7, <1>8, <1>9 DEF Session

\* The flush, and the ways the loop ends without one.
LEMMA LeaveSession ==
  ASSUME SessionIInv, Flush \/ Leave
  PROVE  Session'
<1>1. /\ dev \in {"receive", "flush"} /\ dev' = "exited"
      /\ durable' \in {durable, disk}
      /\ UNCHANGED <<vars, posted, request, reply, host, acked, resent, faults>>
  BY DEF Flush, Leave, hostVars
<1>2. /\ UNCHANGED <<ready, dry_run, phase, packet, pos, result, stream>>
      /\ UNCHANGED <<posted, request, reply, host, acked, resent, faults>>
      /\ Complete' <=> Complete
  BY <1>1, Untouched
<1>3. durable' \in [Address -> Data]
  BY <1>1 DEF SessionIInv, Session, SessionTyped, IInv, TypeOK
<1>4. SessionTyped'
  BY <1>1, <1>2, <1>3 DEF SessionIInv, Session, SessionTyped
<1>5. Asks'
  BY <1>2 DEF SessionIInv, Session, Asks
<1>6. Turns'
  BY <1>1, <1>2 DEF SessionIInv, Session, Turns
<1>7. Follows'
  BY <1>1, <1>2 DEF SessionIInv, Session, Follows, Behind, Exact
<1>8. Ends'
  BY <1>1, <1>2 DEF SessionIInv, Session, Ends, Over
<1> QED BY <1>4, <1>5, <1>6, <1>7, <1>8 DEF Session

LEMMA PowerLossKept ==
  ASSUME SessionIInv, PowerLoss
  PROVE  SessionIInv'
<1>1. /\ dev' = "off" /\ durable' = disk'
      /\ UNCHANGED <<ready, dry_run, entry_index, entry_received, entry_data,
                     final_state, last_sector, phase, packet, pos, loc, result, stream>>
      /\ UNCHANGED <<posted, request, reply, host, acked, resent, faults>>
  BY DEF PowerLoss, hostVars
<1>2. disk' \in [Address -> Data]
  <2>1. PICK blocks \in SUBSET (0 .. LastBlock) :
          disk' = [a \in Address |->
                     IF a \div MediaBlock \in blocks THEN disk[a] ELSE durable[a]]
    BY DEF PowerLoss
  <2>2. disk \in [Address -> Data] /\ durable \in [Address -> Data]
    BY DEF SessionIInv, Session, SessionTyped, IInv, TypeOK
  <2> QED BY <2>1, <2>2
<1>3. IInv'
  <2>1. TypeOK'
    BY <1>1, <1>2 DEF SessionIInv, IInv, TypeOK, lastLoc, entry
  <2>2. StreamPosition' /\ CompletedBehind' /\ BufferIsStreamTail'
    BY <1>1, ContextUntouched DEF SessionIInv
  <2>3. PhaseSound'
    BY <1>1 DEF SessionIInv, IInv, PhaseSound, entry
  <2> QED BY <2>1, <2>2, <2>3 DEF IInv
<1>4. Complete' <=> Complete
  BY <1>1 DEF Complete, Done
<1>5. SessionTyped'
  BY <1>1, <1>2 DEF SessionIInv, Session, SessionTyped
<1>6. Asks'
  BY <1>1 DEF SessionIInv, Session, Asks
<1>7. Turns'
  BY <1>1 DEF SessionIInv, Session, Turns
<1>8. Follows'
  BY <1>1 DEF SessionIInv, Session, Follows, Behind, Exact
<1>9. Ends'
  BY <1>1, <1>4 DEF SessionIInv, Session, Ends, Over
<1> QED BY <1>3, <1>5, <1>6, <1>7, <1>8, <1>9 DEF SessionIInv, Session

\* Nothing happens.
LEMMA StutterSession ==
  ASSUME SessionIInv, UNCHANGED sessionVars
  PROVE  Session'
<1>1. /\ UNCHANGED vars
      /\ UNCHANGED <<dev, posted, request, reply, durable, host, acked, resent, faults>>
  BY DEF sessionVars, hostVars
<1>2. /\ UNCHANGED <<ready, dry_run, phase, packet, pos, result, stream>>
      /\ Complete' <=> Complete
  BY <1>1, Untouched
<1>3. SessionTyped'
  BY <1>1, <1>2 DEF SessionIInv, Session, SessionTyped
<1>4. Asks'
  BY <1>1 DEF SessionIInv, Session, Asks
<1>5. Turns'
  BY <1>1, <1>2 DEF SessionIInv, Session, Turns
<1>6. Follows'
  BY <1>1, <1>2 DEF SessionIInv, Session, Follows, Behind, Exact
<1>7. Ends'
  BY <1>1, <1>2 DEF SessionIInv, Session, Ends, Over
<1> QED BY <1>3, <1>4, <1>5, <1>6, <1>7 DEF Session

-------------------------------------------------------------------------------
(* The session. *)

\* Short of a power loss every step is one of the context, or leaves it alone.
LEMMA StepOfContext ==
  ASSUME SessionIInv, [SessionNext]_sessionVars, ~PowerLoss
  PROVE  [Next]_vars
<1>1. CASE UNCHANGED vars
  BY <1>1
<1>2. CASE HeaderArrives
  <2>1. TRUE \in BOOLEAN
    OBVIOUS
  <2> QED BY <1>2, <2>1 DEF HeaderArrives, Next
<1>3. CASE TakePacket /\ ~UNCHANGED vars
  <2>1. request.kind = "payload" /\ request.data # <<>> /\ Payload(request.data)
    BY <1>3 DEF TakePacket
  <2> DEFINE d == request.data
             n == Len(d)
  <2>2. d \in Seq(Data) /\ n \in Nat /\ n <= MaxPacket /\ MaxPacket \in Nat
    BY <2>1, SessionFacts, CapacityAssumption DEF IsPacket
  <2>3. n # 0 /\ d \in [1 .. n -> Data]
    BY <2>1, <2>2, EmptySeq, LenProperties, ElementOfSeq
  <2> HIDE DEF d, n
  <2>4. n \in 1 .. MaxPacket
    BY <2>2, <2>3
  <2>5. d \in Packets
    BY <2>3, <2>4 DEF Packets
  <2> QED BY <2>1, <2>5 DEF Next, d
<1>4. CASE PayloadTurn
  BY <1>4 DEF PayloadTurn, Next
<1>5. \/ UNCHANGED vars
      \/ HeaderArrives
      \/ TakePacket
      \/ PayloadTurn
  <2>1. CASE HostStep
    BY <2>1 DEF HostStep, SendData, SendFinal, SendMalformed, Ask, ReadReply, TimeOut
  <2>2. CASE DeviceStep
    BY <2>2 DEF DeviceStep, RefusePacket, Respond, Flush
  <2>3. CASE Leave
    BY <2>3 DEF Leave
  <2>4. CASE UNCHANGED sessionVars
    BY <2>4 DEF sessionVars
  <2> QED BY <2>1, <2>2, <2>3, <2>4 DEF SessionNext
<1> QED BY <1>1, <1>2, <1>3, <1>4, <1>5

LEMMA SessionInitIInv == SessionInit => SessionIInv
<1> SUFFICES ASSUME SessionInit PROVE SessionIInv
  OBVIOUS
<1>1. IInv
  BY InitIInv DEF SessionInit
<1>2. /\ dry_run = FALSE /\ phase = "idle" /\ result = EFI_SUCCESS /\ stream = <<>>
      /\ stream \in Seq(Data) /\ Len(stream) = 0
      /\ disk \in [Address -> Data]
  BY <1>1, EmptySeq DEF SessionInit, Init, IInv, TypeOK
<1>3. /\ dev = "receive" /\ posted = FALSE /\ request = NoRequest /\ reply = NoReply
      /\ durable = disk /\ host = "ready" /\ acked = 0 /\ resent = FALSE
      /\ faults \in FaultSets
  BY DEF SessionInit
<1>4. SessionTyped
  <2>1. acked \in 0 .. Len(HostImage)
    BY <1>3, ImageFacts
  <2>2. durable \in [Address -> Data]
    BY <1>2, <1>3
  <2>3. /\ dev \in {"receive", "payload", "respond", "flush", "exited", "off"}
        /\ host \in {"ready", "waiting", "completed", "stopped"}
    BY <1>3
  <2>4. posted \in BOOLEAN /\ resent \in BOOLEAN /\ ~dry_run
    BY <1>2, <1>3
  <2> QED BY <1>2, <1>3, <2>1, <2>2, <2>3, <2>4, Zenon DEF SessionTyped
<1>5. request.kind # "payload"
  BY <1>3 DEF NoRequest
<1>6. Asks /\ Turns
  BY <1>2, <1>3, <1>5 DEF Asks, Turns
<1>7. ImageSoFar(stream)
  <2>1. Len(stream) <= Len(HostImage) /\ 1 .. Len(stream) = {}
    BY <1>2, ImageFacts
  <2>2. ImageSoFar(stream) <=> \A k \in 1 .. Len(stream) : stream[k] = HostImage[k]
    BY <1>2, <2>1, PrefixFacts
  <2> QED BY <2>1, <2>2
<1>8. Exact(0) /\ Behind
  BY <1>2, <1>3, <1>7 DEF Exact, Ahead, Behind, AtLeast
<1>9. Follows /\ Ends
  BY <1>3, <1>8 DEF Follows, Ends
<1> QED BY <1>1, <1>4, <1>6, <1>9 DEF SessionIInv, Session

LEMMA SessionStepIInv == SessionIInv /\ [SessionNext]_sessionVars => SessionIInv'
<1> SUFFICES ASSUME SessionIInv, [SessionNext]_sessionVars PROVE SessionIInv'
  OBVIOUS
<1>1. CASE PowerLoss
  BY <1>1, PowerLossKept
<1>2. CASE ~PowerLoss
  <2>1. IInv'
    BY <1>2, StepOfContext, StepIInv DEF SessionIInv
  <2>2. Session'
    <3>1. CASE HostStep
      BY <3>1, SendSession, ReadReplySession, TimeOutSession DEF HostStep
    <3>2. CASE HeaderArrives
      BY <3>2, HeaderSession
    <3>3. CASE DeviceStep
      BY <3>3, RefuseSession, TakeSession, TurnSession, RespondSession, LeaveSession
         DEF DeviceStep
    <3>4. CASE Leave
      BY <3>4, LeaveSession
    <3>5. CASE UNCHANGED sessionVars
      BY <3>5, StutterSession
    <3> QED BY <1>2, <3>1, <3>2, <3>3, <3>4, <3>5 DEF SessionNext
  <2> QED BY <2>1, <2>2 DEF SessionIInv
<1> QED BY <1>1, <1>2

LEMMA SessionKept == SessionSpec => []SessionIInv
BY SessionInitIInv, SessionStepIInv, PTL DEF SessionSpec

\* The loop, the host and the context stay in step: the types, and a payload call
\* under way exactly when the loop is in it (main.c:1416-1516).
THEOREM SessionTypesKept == SessionSpec => []SessionTypeOK
<1>1. SessionIInv => SessionTypeOK
  BY DEF SessionIInv, IInv, Session, SessionTyped, Turns, SessionTypeOK
<1> QED BY <1>1, SessionKept, PTL

\* Wherever the host cuts its image, whatever fails and however often it sends again,
\* no byte is acknowledged that the context does not have, and until something is sent
\* again what it has is the image so far (main.c:1454-1459, ffu.c:872-874).
THEOREM NoByteLost == SessionSpec => []NothingLost
<1>1. SessionIInv => NothingLost
  BY SessionFacts
     DEF SessionIInv, Session, Follows, Behind, AtLeast, ImageSoFar, NothingLost
<1> QED BY <1>1, SessionKept, PTL

\* A final state without an error comes from a context that exists and has the whole
\* payload: never from the zeroed one, which calls itself done (main.c:1452-1466).
THEOREM FinalIsTrue == SessionSpec => []FinalReplySound
<1>1. SessionIInv => FinalReplySound
  BY DEF SessionIInv, Session, Ends, Complete, FinalReplySound
<1> QED BY <1>1, SessionKept, PTL

\* The target keeps what was written to it, unless power is lost.
LEMMA HeldStep ==
  ASSUME SessionIInv, Held, [SessionNext]_sessionVars
  PROVE  Held'
<1>1. CASE PowerLoss
  BY <1>1 DEF PowerLoss, Held
<1>2. CASE ~PowerLoss
  <2>1. dev' # "off" => dev # "off"
    <3>1. CASE dev = "off"
      BY <3>1, <1>2 DEF SessionNext, HostStep, SendData, SendFinal, SendMalformed, Ask,
           ReadReply, TimeOut, HeaderArrives, DeviceStep, RefusePacket, TakePacket,
           PayloadTurn, Respond, Flush, Leave, sessionVars
    <3> QED BY <3>1
  <2>2. dev # "off" => FlashedSoFar'
    BY <1>2, StepOfContext, StepFlashed DEF SessionIInv, Held
  <2> QED BY <2>1, <2>2 DEF Held
<1> QED BY <1>1, <1>2

\* When the whole image is in, every location of every entry is written.
LEMMA CompleteIsOnDisk ==
  ASSUME SessionIInv, Held, TargetsDisjoint, dev # "off", Complete
  PROVE  ImageOnDisk
<1>1. FlashedSoFar /\ ~dry_run /\ stream = HostImage
  BY DEF Held, SessionIInv, Session, SessionTyped, Complete
<1>2. SUFFICES ASSUME NEW s \in Slots, NEW a \in Target(s[1], s[2])
               PROVE  disk[a] = HostImage[First(s[1]) + (a - TargetByte(s[1], s[2])) + 1]
  BY DEF ImageOnDisk
<1>3. s[1] \in 0 .. EntryCount - 1
  BY SlotFacts
<1>4. s[1] < entry_index
  BY <1>3, PlanFacts DEF Complete, Done, SessionIInv, IInv, TypeOK
<1>5. HoldsPayload(s[1], s[2])
  BY <1>1, <1>4 DEF FlashedSoFar, Flashed
<1> QED BY <1>1, <1>5 DEF HoldsPayload

\* If the locations of the plan do not overlap, a host that is told of completion has
\* its image on the target, wherever writes failed, replies were lost and packets were
\* flashed twice: they delay or prevent completion, they cannot fake it
\* (main.c:1452-1478).
THEOREM CompletionIsImage ==
  ASSUME TargetsDisjoint
  PROVE  SessionSpec => []CompletedMeansImage
<1>1. SessionInit => Held
  BY InitFlashed DEF SessionInit, Held
<1>2. SessionIInv /\ Held /\ [SessionNext]_sessionVars => Held'
  BY HeldStep
<1>3. SessionIInv /\ Held => CompletedMeansImage
  <2>1. SessionIInv /\ (host = "completed" \/ dev = "flush") => Complete
    BY DEF SessionIInv, Session, Ends
  <2> QED BY <2>1, CompleteIsOnDisk DEF CompletedMeansImage
<1> QED BY <1>1, <1>2, <1>3, SessionKept, PTL DEF SessionSpec

===============================================================================
