----------------------------- MODULE UsbTransport ------------------------------
(***************************************************************************)
(* The USB function transport: opening and closing it, the event pump that *)
(* usb_transport_recv and usb_transport_send wait in, and the control      *)
(* requests the pump answers on the way.  Around it: the message loop,     *)
(* which receives into rx, works on rx in place, sends from tx and ignores *)
(* what a send returns; the firmware, which carries transfers and queues   *)
(* events; the host.                                                       *)
(*                                                                         *)
(* Assumed of EFI_USBFN_IO_PROTOCOL: events come in the order they happen; *)
(* a reset or detach drops a setup packet not yet delivered and keeps a    *)
(* bulk transfer or ends it as aborted; an error of EventHandler lasts;    *)
(* the buffer functions are there together, and the others all are.        *)
(* Events nobody acts on are left out: attach, suspend, resume, none, and  *)
(* completions on endpoint 0.                                              *)
(***************************************************************************)
EXTENDS UfpBase, Sequences

CONSTANTS
  MaxMessages,     \* bound: bulk OUT messages of the host
  MaxDisruptions   \* bound: resets, detaches and deconfigurations

ASSUME UsbAssumption == MaxMessages \in Nat /\ MaxDisruptions \in Nat

VARIABLES
  op,           \* where the device is: a step of open, or of the loop
  allocates,    \* the firmware has AllocateTransferBuffer and FreeTransferBuffer
  rx, tx,       \* the buffers: the message each holds, or NoBuffer
  started,      \* StartController was called, StopController not since
  configured, speed,
  msg,          \* the message recv returned last
  out_pending, in_pending,   \* a bulk transfer is with the firmware
  events,       \* what EventHandler will return
  broken,       \* EventHandler only returns errors from now on
  ep0,          \* control request of the host: "idle", "asked", "done"
  host_config,  \* the host takes the device for configured
  sent,         \* messages the host has put on the bus
  on_bus,       \* the last of them has not been taken yet
  disruptions

devVars  == <<op, allocates, rx, tx, started, configured, speed, msg>>
fwVars   == <<out_pending, in_pending, events, broken>>
hostVars == <<ep0, host_config, sent, on_bus, disruptions>>
vars     == <<devVars, fwVars, hostVars>>

NoBuffer == -1
Blank    == 0      \* what a fresh buffer holds

Opening == {"locate", "rx", "tx", "start", "configure"}

Init ==
  /\ op = "locate"
  /\ allocates \in BOOLEAN
  /\ rx = NoBuffer /\ tx = NoBuffer
  /\ started = FALSE
  /\ configured = 0
  /\ speed = 0
  /\ msg = Blank
  /\ out_pending = FALSE /\ in_pending = FALSE
  /\ events = <<>>
  /\ broken = FALSE
  /\ ep0 = "idle"
  /\ host_config = FALSE
  /\ sent = 0
  /\ on_bus = FALSE
  /\ disruptions = 0

-------------------------------------------------------------------------------
(* Opening and closing. *)

Close_KeepsTx ==
  /\ out_pending' = FALSE /\ in_pending' = FALSE
  /\ started' = FALSE
  /\ rx' = NoBuffer /\ UNCHANGED tx
  /\ configured' = 0 /\ speed' = 0
  /\ op' = "exited"
Close_NoAbort ==
  /\ UNCHANGED <<out_pending, in_pending>>
  /\ started' = FALSE
  /\ rx' = NoBuffer /\ tx' = NoBuffer
  /\ configured' = 0 /\ speed' = 0
  /\ op' = "exited"
\* usb_transport_close: both directions aborted, the controller stopped, the
\* buffers freed, the structure cleared.  The app leaves.
Close ==
  /\ out_pending' = FALSE /\ in_pending' = FALSE
  /\ started' = FALSE
  /\ rx' = NoBuffer /\ tx' = NoBuffer
  /\ configured' = 0 /\ speed' = 0
  /\ op' = "exited"

\* A step of open that fails leaves by usb_transport_close; there is nothing to
\* close before the first buffer is there.
GiveUp ==
  /\ op \in Opening
  /\ op = "rx" => allocates
  /\ IF op \in {"locate", "rx"}
       THEN op' = "exited"
              /\ UNCHANGED <<rx, tx, started, configured, speed, out_pending, in_pending>>
       ELSE Close
  /\ UNCHANGED <<allocates, msg, events, broken, hostVars>>

Locate ==
  /\ op = "locate"
  /\ op' = "rx"
  /\ UNCHANGED <<allocates, rx, tx, started, configured, speed, msg, fwVars, hostVars>>

AllocRx ==
  /\ op = "rx"
  /\ allocates
  /\ op' = "tx"
  /\ rx' = Blank
  /\ UNCHANGED <<allocates, tx, started, configured, speed, msg, fwVars, hostVars>>

AllocTx ==
  /\ op = "tx"
  /\ allocates
  /\ op' = "start"
  /\ tx' = Blank
  /\ UNCHANGED <<allocates, rx, started, configured, speed, msg, fwVars, hostVars>>

\* Without AllocateTransferBuffer both come from the pool, and either may be missing.
AllocFromPool ==
  /\ op = "rx"
  /\ ~allocates
  /\ rx' \in {Blank, NoBuffer}
  /\ tx' \in {Blank, NoBuffer}
  /\ op' = IF NoBuffer \in {rx', tx'} THEN "tx" ELSE "start"
  /\ UNCHANGED <<allocates, started, configured, speed, msg, fwVars, hostVars>>

Start ==
  /\ op = "start"
  /\ op' = "configure"
  /\ started' = TRUE
  /\ UNCHANGED <<allocates, rx, tx, configured, speed, msg, fwVars, hostVars>>

Configure ==
  /\ op = "configure"
  /\ op' = "idle"
  /\ UNCHANGED <<allocates, rx, tx, started, configured, speed, msg, fwVars, hostVars>>

-------------------------------------------------------------------------------
(* The loop. *)

Leave ==
  /\ op = "close"
  /\ Close
  /\ UNCHANGED <<allocates, msg, events, broken, hostVars>>

\* usb_transport_recv posts one transfer into rx, then pumps.
Recv ==
  /\ op = "idle"
  /\ \/ op' = "recv" /\ out_pending' = TRUE
     \/ op' = "close" /\ UNCHANGED out_pending
  /\ UNCHANGED <<allocates, rx, tx, started, configured, speed, msg, in_pending,
                 events, broken, hostVars>>

\* A message without an answer, or one whose answer is longer than a transfer and
\* so never leaves.
HandleSilently ==
  /\ op = "handle"
  /\ op' = "idle"
  /\ UNCHANGED <<allocates, rx, tx, started, configured, speed, msg, fwVars, hostVars>>

\* usb_transport_send copies the answer into tx and posts it, then pumps.  When the
\* transfer is refused the loop goes on.
HandleAndSend ==
  /\ op = "handle"
  /\ tx' = msg
  /\ \/ op' = "send" /\ in_pending' = TRUE
     \/ op' = "idle" /\ UNCHANGED in_pending
  /\ UNCHANGED <<allocates, rx, started, configured, speed, msg, out_pending, events,
                 broken, hostVars>>

\* Reboot and switch requests, or the image is complete.
HandleAndLeave ==
  /\ op = "handle"
  /\ op' = "close"
  /\ UNCHANGED <<allocates, rx, tx, started, configured, speed, msg, fwVars, hostVars>>

-------------------------------------------------------------------------------
(* pump_until. *)

Pumping == op \in {"recv", "send"}

\* What pump_until returns an error to: recv ends the loop, send does not.
PumpFails == IF op = "recv" THEN "close" ELSE "idle"

EventError ==
  /\ Pumping
  /\ broken
  /\ op' = PumpFails
  /\ UNCHANGED <<allocates, rx, tx, started, configured, speed, msg, fwVars, hostVars>>

TakeEvent(kind) ==
  /\ Pumping
  /\ ~broken
  /\ events # <<>>
  /\ Head(events).kind = kind
  /\ events' = Tail(events)

RxEvent_Reposts ==
  /\ TakeEvent("rx")
  /\ IF op # "recv" THEN UNCHANGED <<op, msg, out_pending>>
     ELSE IF Head(events).complete THEN op' = "handle" /\ msg' = rx /\ out_pending' = TRUE
     ELSE op' = "close" /\ UNCHANGED <<msg, out_pending>>
  /\ UNCHANGED <<allocates, rx, tx, started, configured, speed, in_pending, broken,
                 hostVars>>
RxEvent_AbortIgnored ==
  /\ TakeEvent("rx")
  /\ IF op = "recv" /\ Head(events).complete THEN op' = "handle" /\ msg' = rx
                                            ELSE UNCHANGED <<op, msg>>
  /\ UNCHANGED <<allocates, rx, tx, started, configured, speed, out_pending,
                 in_pending, broken, hostVars>>
\* A completed or aborted OUT transfer, if one is waited for.
RxEvent ==
  /\ TakeEvent("rx")
  /\ IF op # "recv" THEN UNCHANGED <<op, msg>>
     ELSE IF Head(events).complete THEN op' = "handle" /\ msg' = rx
     ELSE op' = "close" /\ UNCHANGED msg
  /\ UNCHANGED <<allocates, rx, tx, started, configured, speed, out_pending,
                 in_pending, broken, hostVars>>

TxEvent_Dropped ==
  /\ TakeEvent("tx")
  /\ op' = IF op = "send" /\ Head(events).complete THEN "idle" ELSE op
  /\ UNCHANGED <<allocates, rx, tx, started, configured, speed, msg, out_pending,
                 in_pending, broken, hostVars>>
\* The same for an IN transfer; completed or aborted, the loop goes on.
TxEvent ==
  /\ TakeEvent("tx")
  /\ op' = IF op = "send" THEN "idle" ELSE op
  /\ UNCHANGED <<allocates, rx, tx, started, configured, speed, msg, out_pending,
                 in_pending, broken, hostVars>>

\* Reset or detach; pump_until stays.
BusEvent ==
  /\ TakeEvent("bus")
  /\ configured' = 0
  /\ UNCHANGED <<op, allocates, rx, tx, started, speed, msg, out_pending, in_pending,
                 broken, hostVars>>

SpeedEvent ==
  /\ TakeEvent("speed")
  /\ speed' = Head(events).value
  /\ UNCHANGED <<op, allocates, rx, tx, started, configured, msg, out_pending,
                 in_pending, broken, hostVars>>

SetupEvent_WhenReceiving ==
  /\ TakeEvent("setup")
  /\ ep0' = IF op = "recv" THEN "done" ELSE ep0
  /\ IF op = "recv" /\ Head(events).request = "set_configuration"
       THEN configured' = IF Head(events).value # 0 THEN 1 ELSE 0
       ELSE UNCHANGED configured
  /\ host_config' = IF op = "recv" /\ Head(events).request = "set_configuration"
                      THEN Head(events).value # 0 ELSE host_config
  /\ UNCHANGED <<op, allocates, rx, tx, started, speed, msg, out_pending,
                 in_pending, broken, sent, on_bus, disruptions>>
\* handle_setup: data, a status stage or a stall, whatever becomes of it; only
\* SET_CONFIGURATION changes something.  The host believes what it set.
SetupEvent ==
  /\ TakeEvent("setup")
  /\ ep0' = "done"
  /\ IF Head(events).request = "set_configuration"
       THEN /\ configured' = IF Head(events).value # 0 THEN 1 ELSE 0
            /\ host_config' = (Head(events).value # 0)
       ELSE UNCHANGED <<configured, host_config>>
  /\ UNCHANGED <<op, allocates, rx, tx, started, speed, msg, out_pending, in_pending,
                 broken, sent, on_bus, disruptions>>

Pump ==
  EventError \/ RxEvent \/ TxEvent \/ BusEvent \/ SpeedEvent \/ SetupEvent

-------------------------------------------------------------------------------
(* The firmware and the host. *)

\* What the host has on the bus goes into rx.
CarryOut ==
  /\ out_pending /\ on_bus /\ host_config
  /\ rx' = sent
  /\ on_bus' = FALSE
  /\ out_pending' = FALSE
  /\ events' = Append(events, [kind |-> "rx", complete |-> TRUE])
  /\ UNCHANGED <<op, allocates, tx, started, configured, speed, msg, in_pending, broken,
                 ep0, host_config, sent, disruptions>>

\* The host reads its IN endpoint.
CarryIn ==
  /\ in_pending /\ host_config
  /\ in_pending' = FALSE
  /\ events' = Append(events, [kind |-> "tx", complete |-> TRUE])
  /\ UNCHANGED <<devVars, out_pending, broken, hostVars>>

Break ==
  /\ started /\ ~broken
  /\ broken' = TRUE
  /\ UNCHANGED <<devVars, out_pending, in_pending, events, hostVars>>

Online == started /\ op # "configure"

\* The host asks for descriptors, sets addresses and features, tries what the
\* device does not know; or chooses the configuration.
AskSetup ==
  /\ Online
  /\ ep0 = "idle"
  /\ ep0' = "asked"
  /\ events' = Append(events, [kind |-> "setup", request |-> "other"])
  /\ UNCHANGED <<devVars, out_pending, in_pending, broken, host_config, sent, on_bus,
                 disruptions>>

ChooseConfiguration(value) ==
  /\ Online
  /\ ep0 = "idle"
  /\ ep0' = "asked"
  /\ events' = Append(events, [kind |-> "setup", request |-> "set_configuration",
                               value |-> value])
  /\ UNCHANGED <<devVars, out_pending, in_pending, broken, host_config, sent, on_bus>>

Enumerate ==
  /\ ~host_config
  /\ \E value \in {1, 2} : ChooseConfiguration(value)
  /\ UNCHANGED disruptions

Deconfigure ==
  /\ host_config
  /\ disruptions < MaxDisruptions
  /\ disruptions' = disruptions + 1
  /\ ChooseConfiguration(0)

SetupSeen ==
  /\ ep0 = "done"
  /\ ep0' = "idle"
  /\ UNCHANGED <<devVars, fwVars, host_config, sent, on_bus, disruptions>>

PutMessage ==
  /\ Online
  /\ host_config /\ ~on_bus /\ sent < MaxMessages
  /\ sent' = sent + 1
  /\ on_bus' = TRUE
  /\ UNCHANGED <<devVars, fwVars, ep0, host_config, disruptions>>

\* A reset or detach: each pending transfer stays or ends as aborted.
AbortEvent(was, now, kind) ==
  IF was /\ ~now THEN <<[kind |-> kind, complete |-> FALSE]>> ELSE <<>>

IsSetup(k) == events[k].kind = "setup"

\* The events without the setup packet among them: the host asks for one at a time.
WithoutSetup ==
  IF \E k \in 1 .. Len(events) : IsSetup(k)
    THEN LET it == CHOOSE k \in 1 .. Len(events) : IsSetup(k)
         IN  SubSeq(events, 1, it - 1) \o SubSeq(events, it + 1, Len(events))
    ELSE events

Disrupt ==
  /\ Online
  /\ disruptions < MaxDisruptions
  /\ disruptions' = disruptions + 1
  /\ out_pending' \in {out_pending, FALSE}
  /\ in_pending' \in {in_pending, FALSE}
  /\ events' = WithoutSetup
                 \o <<[kind |-> "bus"]>>
                 \o AbortEvent(out_pending, out_pending', "rx")
                 \o AbortEvent(in_pending, in_pending', "tx")
                 \o <<[kind |-> "speed", value |-> 1]>>
  /\ ep0' = "idle"
  /\ host_config' = FALSE
  /\ on_bus' = FALSE
  /\ UNCHANGED <<devVars, broken, sent>>

-------------------------------------------------------------------------------

Open == Locate \/ AllocRx \/ AllocTx \/ AllocFromPool \/ Start \/ Configure \/ GiveUp
Loop == Recv \/ HandleSilently \/ HandleAndSend \/ HandleAndLeave \/ Leave

Firmware == CarryOut \/ CarryIn \/ Break
Host ==
  AskSetup \/ Enumerate \/ Deconfigure \/ SetupSeen \/ PutMessage \/ Disrupt

Next == Open \/ Loop \/ Pump \/ Firmware \/ Host

\* The device polls.  The firmware carries what both sides want carried, and a host
\* that has lost the configuration sets it again, whatever else it asks.
Fairness ==
  /\ WF_vars(Open) /\ WF_vars(Loop) /\ WF_vars(Pump)
  /\ SF_vars(CarryOut) /\ SF_vars(CarryIn)
  /\ WF_vars(SetupSeen) /\ SF_vars(Enumerate)

Spec == Init /\ [][Next]_vars /\ Fairness

-------------------------------------------------------------------------------

TypeOK ==
  /\ op \in Opening \cup {"idle", "recv", "handle", "send", "close", "exited"}
  /\ rx \in 0 .. MaxMessages \cup {NoBuffer}
  /\ tx \in 0 .. MaxMessages \cup {NoBuffer}
  /\ started \in BOOLEAN /\ broken \in BOOLEAN
  /\ configured \in {0, 1}
  /\ msg \in 0 .. MaxMessages
  /\ ep0 \in {"idle", "asked", "done"}
  /\ Len(events) <= 3 * MaxDisruptions + 3

\* However the app leaves, at whichever step of open it fails, nothing of the
\* firmware's is left behind (usb_transport.c:275-303, 309-334).
NothingLeaks ==
  op = "exited" => /\ rx = NoBuffer /\ tx = NoBuffer
                   /\ ~started /\ ~out_pending /\ ~in_pending

\* A transfer the firmware may still carry is over a buffer the app still has and
\* a controller that runs (usb_transport.c:313-331).
TransfersHaveBuffers ==
  /\ out_pending => started /\ rx # NoBuffer
  /\ in_pending => started /\ tx # NoBuffer

\* The loop works on a message in place, also while it sends the reply: nothing the
\* host sends meanwhile gets into rx (usb_transport.c:344-350; main.c:1183-1195
\* writes from rx after a send), and no later reply is copied over the one on its
\* way (usb_transport.c:408-413).
MessageStable ==
  /\ op \in {"handle", "send"} => ~out_pending /\ rx = msg
  /\ in_pending => tx = msg

\* A send comes back for any host that goes on, through resets and
\* reconfigurations (usb_transport.c:351-384).
SendReturns == op = "send" ~> op # "send"

\* A control request is answered even while the device is busy with bulk traffic,
\* as long as the app runs (usb_transport.c:359-362).
SetupHandled == ep0 = "asked" ~> ep0 # "asked" \/ op = "exited"

\* A message on the bus is taken, or lost to a reset, or the app is gone.
MessageTaken == on_bus ~> ~on_bus \/ op = "exited"

===============================================================================
