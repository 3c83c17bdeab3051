-------------------------- MODULE UsbTransportProofs ---------------------------
(***************************************************************************)
(* Theorems about UsbTransport, for every number of messages and of        *)
(* resets, detaches and deconfigurations.                                  *)
(*                                                                         *)
(* The inductive invariant IInv says which resources there are at each     *)
(* place of the app (Stages), and where the completions of the two bulk    *)
(* transfers may be on their way (OutSound, InSound): at most one of each, *)
(* never together with its transfer, and none of an earlier message when   *)
(* the next one is received.                                               *)
(***************************************************************************)
EXTENDS UsbTransport, SequenceTheorems, TLAPS

-------------------------------------------------------------------------------
(* Queues of events. *)

\* What EventHandler may return.
Events ==
  [kind : {"rx", "tx"}, complete : BOOLEAN]
    \cup [kind : {"bus"}]
    \cup [kind : {"speed"}, value : Nat]
    \cup [kind : {"setup"}, request : {"other"}]
    \cup [kind : {"setup"}, request : {"set_configuration"}, value : Nat]

Has(es, kind)  == \E k \in 1 .. Len(es) : es[k].kind = kind
Once(es, kind) == \A p, q \in 1 .. Len(es) : es[p].kind = kind /\ es[q].kind = kind => p = q

\* An event of its kind less, and none is left if there was only one.
LEMMA TailFacts ==
  ASSUME NEW es \in Seq(Events), es # <<>>
  PROVE  /\ Tail(es) \in Seq(Events)
         /\ \A kind : Has(Tail(es), kind) => Has(es, kind)
         /\ \A kind : Once(es, kind) => Once(Tail(es), kind)
         /\ \A kind : Once(es, kind) /\ Head(es).kind = kind => ~Has(Tail(es), kind)
         /\ Has(es, Head(es).kind)
<1>1. /\ Tail(es) \in Seq(Events)
      /\ Len(es) \in Nat \ {0}
      /\ Len(Tail(es)) = Len(es) - 1
      /\ \A k \in 1 .. Len(es) - 1 : Tail(es)[k] = es[k + 1]
      /\ Head(es) = es[1]
  BY HeadTailProperties, EmptySeq, LenProperties
<1>2. \A k \in 1 .. Len(Tail(es)) : k + 1 \in 1 .. Len(es) /\ Tail(es)[k] = es[k + 1]
  BY <1>1
<1>3. \A kind : Has(Tail(es), kind) => Has(es, kind)
  BY <1>2 DEF Has
<1>4. ASSUME NEW kind, Once(es, kind) PROVE Once(Tail(es), kind)
  <2> SUFFICES ASSUME NEW p \in 1 .. Len(Tail(es)), NEW q \in 1 .. Len(Tail(es)),
                      Tail(es)[p].kind = kind, Tail(es)[q].kind = kind
               PROVE  p = q
    BY DEF Once
  <2>1. p + 1 = q + 1
    BY <1>2, <1>4 DEF Once
  <2> QED BY <1>1, <2>1
<1>5. ASSUME NEW kind, Once(es, kind), Head(es).kind = kind PROVE ~Has(Tail(es), kind)
  <2>1. SUFFICES ASSUME NEW k \in 1 .. Len(Tail(es)), Tail(es)[k].kind = kind
                 PROVE  FALSE
    BY DEF Has
  <2>2. 1 \in 1 .. Len(es) /\ k + 1 = 1
    BY <1>1, <1>2, <1>5, <2>1 DEF Once
  <2> QED BY <1>1, <2>1, <2>2
<1>6. Has(es, Head(es).kind)
  BY <1>1 DEF Has
<1> QED BY <1>1, <1>3, <1>4, <1>5, <1>6

\* One queue behind another.
LEMMA ConcatFacts ==
  ASSUME NEW s \in Seq(Events), NEW t \in Seq(Events)
  PROVE  /\ s \o t \in Seq(Events)
         /\ \A kind : Has(s \o t, kind) <=> Has(s, kind) \/ Has(t, kind)
         /\ \A kind : /\ Once(s, kind) /\ Once(t, kind)
                      /\ ~(Has(s, kind) /\ Has(t, kind))
                      => Once(s \o t, kind)
<1>1. /\ s \o t \in Seq(Events)
      /\ Len(s) \in Nat /\ Len(t) \in Nat
      /\ Len(s \o t) = Len(s) + Len(t)
      /\ \A k \in 1 .. Len(s) + Len(t) :
           (s \o t)[k] = IF k <= Len(s) THEN s[k] ELSE t[k - Len(s)]
  BY ConcatProperties, LenProperties
<1>2. \A k \in 1 .. Len(s) : k \in 1 .. Len(s \o t) /\ (s \o t)[k] = s[k]
  BY <1>1
<1>3. \A k \in 1 .. Len(t) : Len(s) + k \in 1 .. Len(s \o t) /\ (s \o t)[Len(s) + k] = t[k]
  BY <1>1
<1>4. \A k \in 1 .. Len(s \o t) :
        \/ k \in 1 .. Len(s) /\ (s \o t)[k] = s[k]
        \/ k - Len(s) \in 1 .. Len(t) /\ (s \o t)[k] = t[k - Len(s)]
  BY <1>1
<1>5. ASSUME NEW kind PROVE Has(s \o t, kind) <=> Has(s, kind) \/ Has(t, kind)
  BY <1>2, <1>3, <1>4 DEF Has
<1>6. ASSUME NEW kind, Once(s, kind), Once(t, kind), ~(Has(s, kind) /\ Has(t, kind))
      PROVE  Once(s \o t, kind)
  <2> SUFFICES ASSUME NEW p \in 1 .. Len(s \o t), NEW q \in 1 .. Len(s \o t),
                      (s \o t)[p].kind = kind, (s \o t)[q].kind = kind
               PROVE  p = q
    BY DEF Once
  <2>1. \/ p \in 1 .. Len(s) /\ q \in 1 .. Len(s) /\ s[p].kind = kind /\ s[q].kind = kind
        \/ /\ p - Len(s) \in 1 .. Len(t) /\ q - Len(s) \in 1 .. Len(t)
           /\ t[p - Len(s)].kind = kind /\ t[q - Len(s)].kind = kind
    BY <1>4, <1>6 DEF Has
  <2>2. p = q \/ p - Len(s) = q - Len(s)
    BY <1>6, <2>1 DEF Once
  <2> QED BY <1>1, <2>2
<1> QED BY <1>1, <1>5, <1>6

\* A queue of one event.
LEMMA SingleFacts ==
  ASSUME NEW e \in Events
  PROVE  /\ <<e>> \in Seq(Events)
         /\ \A kind : Has(<<e>>, kind) <=> e.kind = kind
         /\ \A kind : Once(<<e>>, kind)
BY DEF Has, Once

LEMMA EmptyFacts ==
  /\ <<>> \in Seq(Events)
  /\ \A kind : ~Has(<<>>, kind) /\ Once(<<>>, kind)
BY EmptySeq DEF Has, Once

LEMMA AppendFacts ==
  ASSUME NEW es \in Seq(Events), NEW e \in Events
  PROVE  /\ Append(es, e) \in Seq(Events)
         /\ \A kind : Has(Append(es, e), kind) <=> Has(es, kind) \/ e.kind = kind
         /\ \A kind : Once(es, kind) /\ ~(Has(es, kind) /\ e.kind = kind)
                        => Once(Append(es, e), kind)
<1>1. Append(es, e) = es \o <<e>>
  BY AppendIsConcat
<1>2. /\ <<e>> \in Seq(Events)
      /\ \A kind : Has(<<e>>, kind) <=> e.kind = kind
      /\ \A kind : Once(<<e>>, kind)
  BY SingleFacts
<1> DEFINE last == <<e>>
<1> HIDE DEF last
<1>3. /\ es \o last \in Seq(Events)
      /\ \A kind : Has(es \o last, kind) <=> Has(es, kind) \/ Has(last, kind)
      /\ \A kind : /\ Once(es, kind) /\ Once(last, kind)
                   /\ ~(Has(es, kind) /\ Has(last, kind))
                   => Once(es \o last, kind)
  BY <1>2, ConcatFacts DEF last
<1> QED BY <1>1, <1>2, <1>3 DEF last

\* A reset drops setup packets only.
LEMMA WithoutSetupFacts ==
  ASSUME events \in Seq(Events)
  PROVE  /\ WithoutSetup \in Seq(Events)
         /\ \A kind : Has(WithoutSetup, kind) => Has(events, kind)
         /\ \A kind : Once(events, kind) => Once(WithoutSetup, kind)
<1>1. CASE ~(\E k \in 1 .. Len(events) : IsSetup(k))
  BY <1>1 DEF WithoutSetup
<1>2. CASE \E k \in 1 .. Len(events) : IsSetup(k)
  <2>1. PICK it \in 1 .. Len(events) :
          WithoutSetup = SubSeq(events, 1, it - 1) \o SubSeq(events, it + 1, Len(events))
    BY <1>2 DEF WithoutSetup
  <2> DEFINE s == SubSeq(events, 1, it - 1)
             t == SubSeq(events, it + 1, Len(events))
  <2>2. Len(events) \in Nat /\ \A k \in 1 .. Len(events) : events[k] \in Events
    BY LenProperties, ElementOfSeq
  <2>3. /\ s \in Seq(Events) /\ Len(s) = it - 1
        /\ \A k \in 1 .. it - 1 : s[k] = events[k]
    <3> DEFINE hi == it - 1
    <3>1. /\ 1 \in Int /\ hi \in Int /\ \A k \in 1 .. hi : events[k] \in Events
          /\ hi >= 0 /\ hi - 1 + 1 = hi /\ hi = it - 1
      BY <2>2
    <3>2. s = SubSeq(events, 1, hi)
      OBVIOUS
    <3> HIDE DEF hi, s
    <3>3. /\ s \in Seq(Events)
          /\ Len(s) = IF 1 <= hi THEN hi - 1 + 1 ELSE 0
          /\ \A k \in 1 .. hi - 1 + 1 : s[k] = events[1 + k - 1]
      BY <3>1, <3>2, SubSeqProperties
    <3> QED BY <3>1, <3>3
  <2>4. /\ t \in Seq(Events) /\ Len(t) = Len(events) - it
        /\ \A k \in 1 .. Len(events) - it : t[k] = events[it + k]
    <3> DEFINE lo == it + 1
               hi == Len(events)
    <3>1. /\ lo \in Int /\ hi \in Int /\ \A k \in lo .. hi : events[k] \in Events
          /\ hi - lo + 1 = Len(events) - it /\ lo <= hi + 1 /\ lo = it + 1
      BY <2>2
    <3>2. t = SubSeq(events, lo, hi)
      OBVIOUS
    <3> HIDE DEF lo, hi, t
    <3>3. /\ t \in Seq(Events)
          /\ Len(t) = IF lo <= hi THEN hi - lo + 1 ELSE 0
          /\ \A k \in 1 .. hi - lo + 1 : t[k] = events[lo + k - 1]
      BY <3>1, <3>2, SubSeqProperties
    <3> QED BY <3>1, <3>3
  <2> HIDE DEF s, t
  <2>5. /\ \A k \in 1 .. Len(s) : k \in 1 .. Len(events) /\ k < it /\ s[k] = events[k]
        /\ \A k \in 1 .. Len(t) :
             it + k \in 1 .. Len(events) /\ it + k > it /\ t[k] = events[it + k]
    BY <2>2, <2>3, <2>4
  <2>6. WithoutSetup = s \o t
    BY <2>1 DEF s, t
  <2>7. \A kind : Has(WithoutSetup, kind) => Has(events, kind)
    <3>1. \A kind : Has(s, kind) \/ Has(t, kind) => Has(events, kind)
      BY <2>5 DEF Has
    <3> QED BY <2>3, <2>4, <2>6, <3>1, ConcatFacts
  <2>8. ASSUME NEW kind, Once(events, kind) PROVE Once(WithoutSetup, kind)
    <3>1. Once(s, kind)
      BY <2>5, <2>8 DEF Once
    <3>2. Once(t, kind)
      <4> SUFFICES ASSUME NEW p \in 1 .. Len(t), NEW q \in 1 .. Len(t),
                          t[p].kind = kind, t[q].kind = kind
                   PROVE  p = q
        BY DEF Once
      <4>1. it + p = it + q
        BY <2>5, <2>8 DEF Once
      <4> QED BY <4>1
    <3>3. ~(Has(s, kind) /\ Has(t, kind))
      <4> SUFFICES ASSUME NEW p \in 1 .. Len(s), NEW q \in 1 .. Len(t),
                          s[p].kind = kind, t[q].kind = kind
                   PROVE  FALSE
        BY DEF Has
      <4>1. p = it + q /\ p < it /\ it + q > it
        BY <2>5, <2>8 DEF Once
      <4> QED BY <4>1
    <3> QED BY <2>3, <2>4, <2>6, <3>1, <3>2, <3>3, ConcatFacts
  <2> QED BY <2>3, <2>4, <2>6, <2>7, <2>8, ConcatFacts
<1> QED BY <1>1, <1>2

-------------------------------------------------------------------------------
(* The inductive invariant. *)

Running == {"idle", "recv", "handle", "send", "close"}

Typed ==
  /\ events \in Seq(Events)
  /\ rx \in Nat \cup {NoBuffer} /\ tx \in Nat \cup {NoBuffer}
  /\ sent \in Nat /\ msg \in Nat
  /\ started \in BOOLEAN /\ broken \in BOOLEAN
  /\ out_pending \in BOOLEAN /\ in_pending \in BOOLEAN

\* What there is at each place of the app.
Stages ==
  /\ op \in Opening \cup Running \cup {"exited"}
  /\ op \in {"locate", "rx"} => rx = NoBuffer /\ tx = NoBuffer
  /\ op = "tx" /\ allocates => rx # NoBuffer
  /\ op \in {"start", "configure"} \cup Running => rx # NoBuffer /\ tx # NoBuffer
  /\ started <=> op \in {"configure"} \cup Running
  /\ op = "exited" => rx = NoBuffer /\ tx = NoBuffer

\* The receive transfer, or its completion, is only there while recv waits for it, or
\* after recv gave up.
OutSound ==
  /\ out_pending => op \in {"recv", "close"} /\ ~Has(events, "rx")
  /\ Has(events, "rx") => op \in {"recv", "close", "exited"}
  /\ Once(events, "rx")

\* The send transfer, or its completion, is only there while send waits for it, or
\* after EventHandler broke, and with it every later receive.
InSound ==
  /\ in_pending => op # "exited" /\ ~Has(events, "tx")
  /\ in_pending \/ Has(events, "tx") =>
       op \in {"send", "exited"} \/ (broken /\ op \in {"idle", "recv", "close"})
  /\ Once(events, "tx")

IInv ==
  /\ Typed
  /\ Stages
  /\ OutSound
  /\ InSound
  /\ MessageStable

\* No message is no buffer.
LEMMA BufferFacts == NoBuffer \notin Nat /\ Blank \in Nat
BY DEF NoBuffer, Blank

LEMMA InitIInv == Init => IInv
<1> SUFFICES ASSUME Init PROVE IInv
  OBVIOUS
<1>1. Typed
  BY EmptyFacts DEF Init, Typed, Blank
<1>2. Stages
  BY DEF Init, Stages, Opening, Running
<1>3. OutSound /\ InSound /\ MessageStable
  BY EmptyFacts DEF Init, OutSound, InSound, MessageStable
<1> QED BY <1>1, <1>2, <1>3 DEF IInv

\* Opening: no transfer and no event yet.
LEMMA OpenIInv == ASSUME IInv, Open PROVE IInv'
<1>1. /\ op \in Opening /\ ~out_pending /\ ~in_pending
      /\ ~Has(events, "rx") /\ ~Has(events, "tx")
  <2>1. op \in Opening
    BY DEF Open, Locate, AllocRx, AllocTx, AllocFromPool, Start, Configure, GiveUp, Opening
  <2> QED BY <2>1 DEF IInv, OutSound, InSound, Opening
<1>2. /\ UNCHANGED <<msg, events, broken, sent>>
      /\ out_pending' = FALSE /\ in_pending' = FALSE
      /\ op' \in Opening \cup {"idle", "exited"}
  BY <1>1 DEF Open, Locate, AllocRx, AllocTx, AllocFromPool, Start, Configure, GiveUp, Close,
              fwVars, hostVars, Opening, IInv, Typed
<1>3. Typed' /\ Stages'
  <2>1. CASE Locate
    BY <1>2, <2>1 DEF Locate, IInv, Typed, Stages, Opening, Running
  <2>2. CASE AllocRx \/ AllocTx
    <3>1. \/ /\ op = "rx" /\ op' = "tx" /\ rx' = Blank /\ tx' = tx
          \/ /\ op = "tx" /\ op' = "start" /\ rx' = rx /\ tx' = Blank /\ rx # NoBuffer
      BY <2>2 DEF AllocRx, AllocTx, IInv, Stages
    <3>2. started' = started /\ ~started
      BY <2>2 DEF AllocRx, AllocTx, IInv, Stages, Running
    <3>3. Typed'
      BY <1>2, <3>1, <3>2, BufferFacts DEF IInv, Typed
    <3>4. Stages'
      BY <3>1, <3>2, BufferFacts DEF IInv, Stages, Opening, Running
    <3> QED BY <3>3, <3>4
  <2>3. CASE AllocFromPool
    BY <1>2, <2>3, BufferFacts DEF AllocFromPool, IInv, Typed, Stages, Opening, Running
  <2>4. CASE Start \/ Configure
    BY <1>2, <2>4 DEF Start, Configure, IInv, Typed, Stages, Opening, Running
  <2>5. CASE GiveUp
    BY <1>2, <2>5 DEF GiveUp, Close, IInv, Typed, Stages, Opening, Running
  <2> QED BY <2>1, <2>2, <2>3, <2>4, <2>5 DEF Open
<1>4. OutSound' /\ InSound'
  BY <1>1, <1>2 DEF IInv, OutSound, InSound
<1>5. MessageStable'
  BY <1>2 DEF MessageStable, Opening
<1> QED BY <1>3, <1>4, <1>5 DEF IInv

\* The loop posts a receive only when nothing of an earlier one is left, and a send
\* only when nothing of an earlier one is.
LEMMA LoopIInv == ASSUME IInv, Loop PROVE IInv'
<1>1. UNCHANGED <<msg, events, broken, sent>>
  BY DEF Loop, Recv, HandleSilently, HandleAndSend, HandleAndLeave, Leave, fwVars, hostVars
<1>2. CASE Recv
  <2>1. /\ op = "idle" /\ ~out_pending /\ ~Has(events, "rx")
        /\ UNCHANGED <<rx, tx, started, in_pending>>
        /\ op' \in {"recv", "close"} /\ out_pending' \in BOOLEAN
    BY <1>2 DEF Recv, IInv, OutSound, Typed
  <2>2. Typed' /\ Stages'
    BY <1>1, <2>1 DEF IInv, Typed, Stages, Opening, Running
  <2>3. OutSound' /\ InSound' /\ MessageStable'
    BY <1>1, <2>1 DEF IInv, OutSound, InSound, MessageStable
  <2> QED BY <2>2, <2>3 DEF IInv
<1>3. CASE HandleSilently \/ HandleAndLeave
  <2>1. /\ op = "handle" /\ op' \in {"idle", "close"}
        /\ UNCHANGED <<rx, tx, started, in_pending, out_pending>>
    BY <1>3 DEF HandleSilently, HandleAndLeave, fwVars
  <2>2. Typed' /\ Stages'
    BY <1>1, <2>1 DEF IInv, Typed, Stages, Opening, Running
  <2>3. OutSound' /\ InSound' /\ MessageStable'
    BY <1>1, <2>1 DEF IInv, OutSound, InSound, MessageStable
  <2> QED BY <2>2, <2>3 DEF IInv
<1>4. CASE HandleAndSend
  <2>1. /\ op = "handle" /\ tx' = msg
        /\ UNCHANGED <<rx, started, out_pending>>
        /\ \/ op' = "send" /\ in_pending' = TRUE
           \/ op' = "idle" /\ in_pending' = in_pending
    BY <1>4 DEF HandleAndSend
  <2>2. ~in_pending /\ ~Has(events, "tx") /\ ~out_pending /\ ~Has(events, "rx") /\ rx = msg
    BY <2>1 DEF IInv, OutSound, InSound, MessageStable
  <2>3. Typed' /\ Stages'
    BY <1>1, <2>1, BufferFacts DEF IInv, Typed, Stages, Opening, Running
  <2>4. OutSound' /\ InSound' /\ MessageStable'
    BY <1>1, <2>1, <2>2 DEF IInv, OutSound, InSound, MessageStable
  <2> QED BY <2>3, <2>4 DEF IInv
<1>5. CASE Leave
  <2>1. /\ op = "close" /\ op' = "exited"
        /\ out_pending' = FALSE /\ in_pending' = FALSE /\ started' = FALSE
        /\ rx' = NoBuffer /\ tx' = NoBuffer
    BY <1>5 DEF Leave, Close
  <2>2. Typed' /\ Stages'
    BY <1>1, <2>1 DEF IInv, Typed, Stages, Opening, Running
  <2>3. OutSound' /\ InSound' /\ MessageStable'
    BY <1>1, <2>1 DEF IInv, OutSound, InSound, MessageStable
  <2> QED BY <2>2, <2>3 DEF IInv
<1> QED BY <1>2, <1>3, <1>4, <1>5 DEF Loop

\* What a step of the pump does to what is known of the queue.
LEMMA TakeFacts ==
  ASSUME IInv, NEW kind, TakeEvent(kind)
  PROVE  /\ op \in {"recv", "send"} /\ ~broken
         /\ events' \in Seq(Events)
         /\ \A other : Has(events, other)' => Has(events, other)
         /\ \A other : Once(events, other) => Once(events, other)'
         /\ Once(events, kind) => ~Has(events, kind)'
         /\ Has(events, kind)
<1>1. /\ op \in {"recv", "send"} /\ ~broken
      /\ events \in Seq(Events) /\ events # <<>>
      /\ events' = Tail(events) /\ Head(events).kind = kind
  BY DEF TakeEvent, Pumping, IInv, Typed
<1>2. /\ Tail(events) \in Seq(Events)
      /\ \A other : Has(Tail(events), other) => Has(events, other)
      /\ \A other : Once(events, other) => Once(Tail(events), other)
      /\ \A other : Once(events, other) /\ Head(events).kind = other
                        => ~Has(Tail(events), other)
      /\ Has(events, Head(events).kind)
  BY <1>1, TailFacts
<1> QED BY <1>1, <1>2

\* The pump: a completion that is taken was the last of its kind.
LEMMA PumpIInv == ASSUME IInv, Pump PROVE IInv'
<1>1. CASE EventError
  <2>1. /\ op \in {"recv", "send"} /\ broken
        /\ op' = IF op = "recv" THEN "close" ELSE "idle"
        /\ UNCHANGED <<allocates, rx, tx, started, msg, out_pending, in_pending, events,
                       broken, sent>>
    BY <1>1 DEF EventError, Pumping, PumpFails, fwVars, hostVars
  <2>2. Typed' /\ Stages'
    BY <2>1 DEF IInv, Typed, Stages, Opening, Running
  <2>3. OutSound' /\ InSound' /\ MessageStable'
    BY <2>1 DEF IInv, OutSound, InSound, MessageStable
  <2> QED BY <2>2, <2>3 DEF IInv
<1>2. CASE RxEvent
  <2>1. TakeEvent("rx")
    BY <1>2 DEF RxEvent
  <2>2. /\ op = "recv" /\ ~out_pending /\ ~in_pending /\ ~broken
        /\ ~Has(events, "rx")' /\ ~Has(events, "tx")'
        /\ Once(events, "rx")' /\ Once(events, "tx")'
        /\ events' \in Seq(Events)
    BY <2>1, TakeFacts DEF IInv, OutSound, InSound
  <2>3. /\ \/ op' = "handle" /\ msg' = rx
           \/ op' = "close" /\ msg' = msg
        /\ UNCHANGED <<allocates, rx, tx, started, out_pending, in_pending, broken, sent>>
    BY <1>2, <2>2 DEF RxEvent, hostVars
  <2>4. rx \in Nat
    BY <2>2 DEF IInv, Typed, Stages, Running
  <2>5. Typed' /\ Stages'
    BY <2>2, <2>3, <2>4 DEF IInv, Typed, Stages, Opening, Running
  <2>6. OutSound' /\ InSound' /\ MessageStable'
    BY <2>2, <2>3 DEF OutSound, InSound, MessageStable
  <2> QED BY <2>5, <2>6 DEF IInv
<1>3. CASE TxEvent
  <2>1. TakeEvent("tx")
    BY <1>3 DEF TxEvent
  <2>2. /\ op = "send" /\ ~out_pending /\ ~in_pending
        /\ ~Has(events, "tx")' /\ ~Has(events, "rx")'
        /\ Once(events, "rx")' /\ Once(events, "tx")'
        /\ events' \in Seq(Events)
    BY <2>1, TakeFacts DEF IInv, OutSound, InSound
  <2>3. /\ op' = "idle"
        /\ UNCHANGED <<allocates, rx, tx, started, msg, out_pending, in_pending, broken, sent>>
    BY <1>3, <2>2 DEF TxEvent, hostVars
  <2>4. Typed' /\ Stages'
    BY <2>2, <2>3 DEF IInv, Typed, Stages, Opening, Running
  <2>5. OutSound' /\ InSound' /\ MessageStable'
    BY <2>2, <2>3 DEF OutSound, InSound, MessageStable
  <2> QED BY <2>4, <2>5 DEF IInv
<1>4. CASE BusEvent \/ SpeedEvent \/ SetupEvent
  <2>1. /\ \E kind : TakeEvent(kind)
        /\ UNCHANGED <<op, allocates, rx, tx, started, msg, out_pending, in_pending, broken,
                       sent>>
    BY <1>4 DEF BusEvent, SpeedEvent, SetupEvent, hostVars
  <2>2. /\ events' \in Seq(Events)
        /\ \A other : Has(events, other)' => Has(events, other)
        /\ \A other : Once(events, other) => Once(events, other)'
    BY <2>1, TakeFacts
  <2>3. Typed' /\ Stages'
    BY <2>1, <2>2 DEF IInv, Typed, Stages
  <2>4. OutSound' /\ InSound' /\ MessageStable'
    BY <2>1, <2>2 DEF IInv, OutSound, InSound, MessageStable
  <2> QED BY <2>3, <2>4 DEF IInv
<1> QED BY <1>1, <1>2, <1>3, <1>4 DEF Pump

\* A transfer that is carried becomes its completion.
LEMMA CarryIInv == ASSUME IInv, CarryOut \/ CarryIn PROVE IInv'
<1>1. CASE CarryOut
  <2> DEFINE e == [kind |-> "rx", complete |-> TRUE]
  <2>1. e \in Events /\ e.kind = "rx"
    BY DEF Events
  <2>2. /\ op \in {"recv", "close"} /\ ~Has(events, "rx") /\ Once(events, "rx")
        /\ rx' = sent /\ out_pending' = FALSE
        /\ events' = Append(events, e) /\ events \in Seq(Events)
        /\ UNCHANGED <<op, allocates, tx, started, msg, in_pending, broken, sent>>
        /\ out_pending
    BY <1>1 DEF CarryOut, IInv, OutSound, Typed
  <2> HIDE DEF e
  <2>3. /\ events' \in Seq(Events)
        /\ \A kind : Has(events, kind)' <=> Has(events, kind) \/ e.kind = kind
        /\ Once(events, "rx")'
        /\ Once(events, "tx") => Once(events, "tx")'
    BY <2>1, <2>2, AppendFacts
  <2>4. sent \in Nat
    BY DEF IInv, Typed
  <2>5. Typed' /\ Stages'
    BY <2>2, <2>3, <2>4, BufferFacts DEF IInv, Typed, Stages, Opening, Running
  <2>6. OutSound' /\ InSound' /\ MessageStable'
    BY <2>1, <2>2, <2>3 DEF IInv, OutSound, InSound, MessageStable
  <2> QED BY <2>5, <2>6 DEF IInv
<1>2. CASE CarryIn
  <2> DEFINE e == [kind |-> "tx", complete |-> TRUE]
  <2>1. e \in Events /\ e.kind = "tx"
    BY DEF Events
  <2>2. /\ in_pending /\ in_pending' = FALSE /\ ~Has(events, "tx") /\ Once(events, "tx")
        /\ events' = Append(events, e) /\ events \in Seq(Events)
        /\ UNCHANGED <<op, allocates, rx, tx, started, msg, out_pending, broken, sent>>
    BY <1>2 DEF CarryIn, devVars, hostVars, IInv, InSound, Typed
  <2> HIDE DEF e
  <2>3. /\ events' \in Seq(Events)
        /\ \A kind : Has(events, kind)' <=> Has(events, kind) \/ e.kind = kind
        /\ Once(events, "tx")'
        /\ Once(events, "rx") => Once(events, "rx")'
    BY <2>1, <2>2, AppendFacts
  <2>4. Typed' /\ Stages'
    BY <2>2, <2>3 DEF IInv, Typed, Stages
  <2>5. OutSound' /\ InSound' /\ MessageStable'
    BY <2>1, <2>2, <2>3 DEF IInv, OutSound, InSound, MessageStable
  <2> QED BY <2>4, <2>5 DEF IInv
<1> QED BY <1>1, <1>2

\* EventHandler breaks.
LEMMA BreakIInv == ASSUME IInv, Break PROVE IInv'
<1>1. /\ broken' = TRUE
      /\ UNCHANGED <<op, allocates, rx, tx, started, msg, out_pending, in_pending, events, sent>>
  BY DEF Break, devVars, hostVars
<1>2. Typed' /\ Stages'
  BY <1>1 DEF IInv, Typed, Stages
<1>3. OutSound' /\ InSound' /\ MessageStable'
  BY <1>1 DEF IInv, OutSound, InSound, MessageStable
<1> QED BY <1>2, <1>3 DEF IInv

\* The host asks, takes an answer, or puts a message on the bus.
LEMMA HostIInv == ASSUME IInv, Host, ~Disrupt PROVE IInv'
<1>1. UNCHANGED <<op, allocates, rx, tx, started, msg, out_pending, in_pending, broken>>
  BY DEF Host, AskSetup, Enumerate, Deconfigure, ChooseConfiguration, SetupSeen, PutMessage,
         devVars, fwVars
<1>2. sent' \in Nat
  BY DEF Host, AskSetup, Enumerate, Deconfigure, ChooseConfiguration, SetupSeen, PutMessage,
         hostVars, IInv, Typed
<1>3. \/ events' = events
      \/ \E e \in Events : e.kind = "setup" /\ events' = Append(events, e)
  <2>1. CASE AskSetup
    <3>1. [kind |-> "setup", request |-> "other"] \in Events
      BY DEF Events
    <3> QED BY <2>1, <3>1 DEF AskSetup
  <2>2. CASE Enumerate \/ Deconfigure
    <3>1. PICK value \in Nat : ChooseConfiguration(value)
      BY <2>2 DEF Enumerate, Deconfigure
    <3>2. [kind |-> "setup", request |-> "set_configuration", value |-> value] \in Events
      BY DEF Events
    <3> QED BY <3>1, <3>2 DEF ChooseConfiguration
  <2>3. CASE SetupSeen \/ PutMessage
    BY <2>3 DEF SetupSeen, PutMessage, fwVars
  <2> QED BY <2>1, <2>2, <2>3 DEF Host
<1>4. /\ events' \in Seq(Events)
      /\ \A kind : kind # "setup" => (Has(events, kind)' <=> Has(events, kind))
      /\ \A kind : kind # "setup" /\ Once(events, kind) => Once(events, kind)'
  <2>1. events \in Seq(Events)
    BY DEF IInv, Typed
  <2>2. CASE events' = events
    BY <2>1, <2>2 DEF Has, Once
  <2>3. CASE \E e \in Events : e.kind = "setup" /\ events' = Append(events, e)
    <3>1. PICK e \in Events : e.kind = "setup" /\ events' = Append(events, e)
      BY <2>3
    <3> QED BY <2>1, <3>1, AppendFacts
  <2> QED BY <1>3, <2>2, <2>3
<1>5. Typed' /\ Stages'
  BY <1>1, <1>2, <1>4 DEF IInv, Typed, Stages
<1>6. OutSound' /\ InSound' /\ MessageStable'
  BY <1>1, <1>4 DEF IInv, OutSound, InSound, MessageStable
<1> QED BY <1>5, <1>6 DEF IInv

\* What a reset or detach tells of a transfer that it ends.
LEMMA AbortFacts ==
  ASSUME NEW was \in BOOLEAN, NEW now \in BOOLEAN, NEW kind \in {"rx", "tx"}
  PROVE  /\ AbortEvent(was, now, kind) \in Seq(Events)
         /\ \A other : Has(AbortEvent(was, now, kind), other)
                        <=> was /\ ~now /\ other = kind
         /\ \A other : Once(AbortEvent(was, now, kind), other)
<1> DEFINE e == [kind |-> kind, complete |-> FALSE]
<1>1. e \in Events /\ e.kind = kind
  BY DEF Events
<1>2. AbortEvent(was, now, kind) = IF was /\ ~now THEN <<e>> ELSE <<>>
  BY DEF AbortEvent
<1> HIDE DEF e
<1>3. CASE was /\ ~now
  <2>1. /\ <<e>> \in Seq(Events)
        /\ \A other : Has(<<e>>, other) <=> e.kind = other
        /\ \A other : Once(<<e>>, other)
    BY <1>1, SingleFacts
  <2>2. AbortEvent(was, now, kind) = <<e>>
    BY <1>2, <1>3
  <2> DEFINE one == <<e>>
  <2> HIDE DEF one
  <2>3. /\ one \in Seq(Events)
        /\ \A other : Has(one, other) <=> e.kind = other
        /\ \A other : Once(one, other)
        /\ AbortEvent(was, now, kind) = one
    BY <2>1, <2>2 DEF one
  <2> QED BY <1>1, <1>3, <2>3
<1>4. CASE ~(was /\ ~now)
  <2>1. AbortEvent(was, now, kind) = <<>>
    BY <1>2, <1>4
  <2> QED BY <1>4, <2>1, EmptyFacts
<1> QED BY <1>3, <1>4

\* A reset or detach: every transfer stays, or its abort is told once.
LEMMA DisruptIInv == ASSUME IInv, Disrupt PROVE IInv'
<1> DEFINE kept   == WithoutSetup
           bus    == <<[kind |-> "bus"]>>
           rxGone == AbortEvent(out_pending, out_pending', "rx")
           txGone == AbortEvent(in_pending, in_pending', "tx")
           fast   == <<[kind |-> "speed", value |-> 1]>>
<1>1. /\ started /\ op # "configure"
      /\ UNCHANGED <<op, allocates, rx, tx, started, msg, broken, sent>>
      /\ out_pending' \in {out_pending, FALSE}
      /\ in_pending' \in {in_pending, FALSE}
      /\ events' = kept \o bus \o rxGone \o txGone \o fast
  BY DEF Disrupt, Online, devVars
<1>2. /\ out_pending \in BOOLEAN /\ out_pending' \in BOOLEAN
      /\ in_pending \in BOOLEAN /\ in_pending' \in BOOLEAN
      /\ events \in Seq(Events)
      /\ Once(events, "rx") /\ Once(events, "tx")
      /\ out_pending => ~Has(events, "rx")
      /\ in_pending => ~Has(events, "tx")
  BY <1>1 DEF IInv, Typed, OutSound, InSound
<1>3. /\ kept \in Seq(Events)
      /\ \A kind : Has(kept, kind) => Has(events, kind)
      /\ \A kind : Once(events, kind) => Once(kept, kind)
  BY <1>2, WithoutSetupFacts
<1>4. /\ bus \in Seq(Events)
      /\ \A kind : Has(bus, kind) <=> kind = "bus"
      /\ \A kind : Once(bus, kind)
  <2> DEFINE e == [kind |-> "bus"]
  <2>1. e \in Events /\ e.kind = "bus"
    BY DEF Events
  <2>2. bus = <<e>>
    OBVIOUS
  <2> HIDE DEF e, bus
  <2>3. /\ bus \in Seq(Events)
        /\ \A kind : Has(bus, kind) <=> e.kind = kind
        /\ \A kind : Once(bus, kind)
    BY <2>1, <2>2, SingleFacts
  <2> QED BY <2>1, <2>3
<1>5. /\ fast \in Seq(Events)
      /\ \A kind : Has(fast, kind) <=> kind = "speed"
      /\ \A kind : Once(fast, kind)
  <2> DEFINE e == [kind |-> "speed", value |-> 1]
  <2>1. e \in Events /\ e.kind = "speed"
    BY DEF Events
  <2>2. fast = <<e>>
    OBVIOUS
  <2> HIDE DEF e, fast
  <2>3. /\ fast \in Seq(Events)
        /\ \A kind : Has(fast, kind) <=> e.kind = kind
        /\ \A kind : Once(fast, kind)
    BY <2>1, <2>2, SingleFacts
  <2> QED BY <2>1, <2>3
<1>6. /\ rxGone \in Seq(Events)
      /\ \A kind : Has(rxGone, kind) <=> out_pending /\ ~out_pending' /\ kind = "rx"
      /\ \A kind : Once(rxGone, kind)
  BY <1>2, AbortFacts
<1>7. /\ txGone \in Seq(Events)
      /\ \A kind : Has(txGone, kind) <=> in_pending /\ ~in_pending' /\ kind = "tx"
      /\ \A kind : Once(txGone, kind)
  BY <1>2, AbortFacts
<1> HIDE DEF kept, bus, rxGone, txGone, fast
<1> DEFINE two == kept \o bus
           three == two \o rxGone
           four == three \o txGone
<1>8. /\ two \in Seq(Events)
      /\ \A kind : Has(two, kind) <=> Has(kept, kind) \/ kind = "bus"
      /\ \A kind : Once(kept, kind) /\ kind # "bus" => Once(two, kind)
  BY <1>3, <1>4, ConcatFacts
<1> HIDE DEF two
<1>9. /\ three \in Seq(Events)
      /\ \A kind : Has(three, kind) <=> Has(two, kind) \/ Has(rxGone, kind)
      /\ \A kind : Once(two, kind) /\ ~(Has(two, kind) /\ Has(rxGone, kind))
                       => Once(three, kind)
  BY <1>6, <1>8, ConcatFacts
<1> HIDE DEF three
<1>10. /\ four \in Seq(Events)
       /\ \A kind : Has(four, kind) <=> Has(three, kind) \/ Has(txGone, kind)
       /\ \A kind : Once(three, kind) /\ ~(Has(three, kind) /\ Has(txGone, kind))
                        => Once(four, kind)
  BY <1>7, <1>9, ConcatFacts
<1> HIDE DEF four
<1>11. events' = four \o fast
  BY <1>1 DEF two, three, four
<1>12. /\ events' \in Seq(Events)
       /\ \A kind : Has(events, kind)' <=> Has(four, kind) \/ kind = "speed"
       /\ \A kind : Once(four, kind) /\ kind # "speed" => Once(events, kind)'
  BY <1>5, <1>10, <1>11, ConcatFacts
<1>13. /\ Has(events, "rx")' => Has(events, "rx") \/ (out_pending /\ ~out_pending')
       /\ Once(events, "rx")'
  <2> DEFINE kind == "rx"
  <2>1. kind # "bus" /\ kind # "speed"
    OBVIOUS
  <2>2. /\ Has(kept, kind) => Has(events, kind)
        /\ Once(kept, kind)
    BY <1>2, <1>3
  <2>3. /\ Has(two, kind) <=> Has(kept, kind)
        /\ Once(two, kind)
    BY <1>8, <2>1, <2>2
  <2>4. /\ Has(rxGone, kind) <=> out_pending /\ ~out_pending' /\ kind = "rx"
        /\ Has(txGone, kind) <=> in_pending /\ ~in_pending' /\ kind = "tx"
    BY <1>6, <1>7
  <2>5. /\ Has(three, kind) <=> Has(two, kind) \/ Has(rxGone, kind)
        /\ Once(three, kind)
    BY <1>2, <1>9, <2>2, <2>3, <2>4
  <2>6. /\ Has(four, kind) <=> Has(three, kind) \/ Has(txGone, kind)
        /\ Once(four, kind)
    BY <1>2, <1>10, <2>2, <2>3, <2>4, <2>5
  <2>7. /\ Has(events, kind)' <=> Has(four, kind)
        /\ Once(events, kind)'
    BY <1>12, <2>1, <2>6
  <2> QED BY <2>2, <2>3, <2>4, <2>5, <2>6, <2>7
<1>14. /\ Has(events, "tx")' => Has(events, "tx") \/ (in_pending /\ ~in_pending')
       /\ Once(events, "tx")'
  <2> DEFINE kind == "tx"
  <2>1. kind # "bus" /\ kind # "speed"
    OBVIOUS
  <2>2. /\ Has(kept, kind) => Has(events, kind)
        /\ Once(kept, kind)
    BY <1>2, <1>3
  <2>3. /\ Has(two, kind) <=> Has(kept, kind)
        /\ Once(two, kind)
    BY <1>8, <2>1, <2>2
  <2>4. /\ Has(rxGone, kind) <=> out_pending /\ ~out_pending' /\ kind = "rx"
        /\ Has(txGone, kind) <=> in_pending /\ ~in_pending' /\ kind = "tx"
    BY <1>6, <1>7
  <2>5. /\ Has(three, kind) <=> Has(two, kind) \/ Has(rxGone, kind)
        /\ Once(three, kind)
    BY <1>2, <1>9, <2>2, <2>3, <2>4
  <2>6. /\ Has(four, kind) <=> Has(three, kind) \/ Has(txGone, kind)
        /\ Once(four, kind)
    BY <1>2, <1>10, <2>2, <2>3, <2>4, <2>5
  <2>7. /\ Has(events, kind)' <=> Has(four, kind)
        /\ Once(events, kind)'
    BY <1>12, <2>1, <2>6
  <2> QED BY <2>2, <2>3, <2>4, <2>5, <2>6, <2>7
<1>15. Typed' /\ Stages'
  BY <1>1, <1>2, <1>12 DEF IInv, Typed, Stages
<1>16. OutSound'
  BY <1>1, <1>2, <1>13 DEF IInv, OutSound
<1>17. InSound'
  BY <1>1, <1>2, <1>14 DEF IInv, InSound
<1>18. MessageStable'
  BY <1>1, <1>2 DEF IInv, MessageStable
<1> QED BY <1>15, <1>16, <1>17, <1>18 DEF IInv

LEMMA StepIInv == IInv /\ [Next]_vars => IInv'
<1>1. ASSUME IInv, UNCHANGED vars PROVE IInv'
  BY <1>1 DEF vars, devVars, fwVars, hostVars, IInv, Typed, Stages, OutSound, InSound,
              MessageStable, Has, Once
<1>2. ASSUME IInv, Firmware PROVE IInv'
  BY <1>2, CarryIInv, BreakIInv DEF Firmware
<1>3. ASSUME IInv, Host PROVE IInv'
  BY <1>3, HostIInv, DisruptIInv
<1> QED BY <1>1, <1>2, <1>3, OpenIInv, LoopIInv, PumpIInv DEF Next

-------------------------------------------------------------------------------
(* The theorems. *)

LEMMA Inductive == Spec => []IInv
<1>1. Init => IInv
  BY InitIInv
<1> QED BY <1>1, StepIInv, PTL DEF Spec

\* However the app leaves, at whichever step of open it fails, nothing of the
\* firmware's is left behind: usb_transport_close.
THEOREM LeavesNothing == Spec => []NothingLeaks
<1>1. IInv => NothingLeaks
  BY DEF IInv, Typed, Stages, OutSound, InSound, NothingLeaks, Running
<1> QED BY <1>1, Inductive, PTL

\* A transfer the firmware may still carry is over a buffer the app still has and a
\* controller that runs: the order of open and of usb_transport_close.
THEOREM BuffersOutlastTransfers == Spec => []TransfersHaveBuffers
<1>1. IInv => TransfersHaveBuffers
  BY DEF IInv, Stages, OutSound, InSound, TransfersHaveBuffers, Running
<1> QED BY <1>1, Inductive, PTL

\* What the loop works on in place does not change under it, and no reply is copied
\* over one on its way: usb_transport_recv posts one transfer at a time, and
\* pump_until does not come back to the loop before the send is over.
THEOREM MessageKept == Spec => []MessageStable
<1>1. IInv => MessageStable
  BY DEF IInv
<1> QED BY <1>1, Inductive, PTL

===============================================================================
