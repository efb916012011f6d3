----------------------------- MODULE NetDriver ------------------------------
(***************************************************************************)
(* The receive path of the board support package: the DM9000's interrupt,  *)
(* irq_handle (2440bsp/irq.c) and exti4_7_handler (exti.c), the polling    *)
(* loop of main (main.c), ethernetif_input and low_level_input             *)
(* (lwip-1.4.1/src/netif/ethernetif.c), eth_rx and eth_send (dm9000.c).    *)
(*                                                                         *)
(* The chip (external, known from how the driver uses it): fifo holds the  *)
(* frames in its receive memory, rxen is RCR_RXEN, h.pr the packet         *)
(* received bit of its ISR register and h.imr bit 0 of IMR; its interrupt  *)
(* line is high while both are set.  dm9k_io_init makes EINT7 sensitive to *)
(* the high level.                                                         *)
(*                                                                         *)
(* The interrupt controller: h.eint4 and h.eint7 are bits of EINTPEND,     *)
(* h.src, h.int and h.mask bit 4 (EINT4_7) of SRCPND, INTPND and INTMSK.   *)
(*                                                                         *)
(* pc is where the main loop is, irq where the interrupt handler is        *)
(* ("idle": it does not run).  A frame is one of Kinds: "good"; "bad", its *)
(* status or length is wrong; "long", it is longer than DM9000_PKT_MAX;    *)
(* "stop", the ready byte in front of it is neither 0 nor 1.               *)
(***************************************************************************)
EXTENDS Naturals, Sequences

CONSTANTS Kinds, FifoSize

ASSUME NetDriverAssumption ==
    /\ Kinds \subseteq {"good", "bad", "long", "stop"}
    /\ FifoSize \in Nat

VARIABLES h, fifo, rxen, exti_status, irq, pc, got, up
vars == <<h, fifo, rxen, exti_status, irq, pc, got, up>>

hardware == <<fifo, rxen>>
cpu == <<irq, pc, got, up>>

\* Mutant: EINT7 configured for the rising edge instead of the high level.
LatchEdge(r) ==
    LET e7 == r.eint7 \/ (r.pr /\ r.imr /\ ~(h.pr /\ h.imr))
        s == r.src \/ r.eint4 \/ e7
    IN  [r EXCEPT !.eint7 = e7, !.src = s, !.int = @ \/ (s /\ ~r.mask)]

\* The controller latches what is asserted: the line sets EINTPEND, EINTPEND
\* sets SRCPND, and SRCPND sets INTPND unless INTMSK forbids it.
Latch(r) ==
    LET e7 == r.eint7 \/ (r.pr /\ r.imr)
        s == r.src \/ r.eint4 \/ e7
    IN  [r EXCEPT !.eint7 = e7, !.src = s, !.int = @ \/ (s /\ ~r.mask)]

\* After eth_init: receiver and packet interrupt on, EINT4_7 unmasked.
Init ==
    /\ h = [pr |-> FALSE, imr |-> TRUE, eint4 |-> FALSE, eint7 |-> FALSE,
            src |-> FALSE, int |-> FALSE, mask |-> FALSE]
    /\ fifo = <<>>
    /\ rxen = TRUE
    /\ exti_status = 0
    /\ irq = "idle"
    /\ pc = "poll"
    /\ got = "none"
    /\ up = "none"

-----------------------------------------------------------------------------
(* The outside world.                                                      *)

\* A frame arrives; one that finds the receive memory full is lost there.
Arrive(f) ==
    /\ rxen /\ Len(fifo) < FifoSize
    /\ fifo' = Append(fifo, f)
    /\ h' = Latch([h EXCEPT !.pr = TRUE])
    /\ UNCHANGED <<rxen, exti_status, cpu>>

\* The key on EINT4, which shares the interrupt number.
Key ==
    /\ ~h.eint4
    /\ h' = Latch([h EXCEPT !.eint4 = TRUE])
    /\ UNCHANGED <<hardware, exti_status, cpu>>

-----------------------------------------------------------------------------
(* irq_handle.                                                             *)

\* HandleIRQ: the core takes the interrupt and calls p_irqList[INTOFFSET].
IrqEnter ==
    /\ irq = "idle" /\ h.int
    /\ irq' = "dispatch"
    /\ UNCHANGED <<h, hardware, exti_status, pc, got, up>>

\* Mutant: both pending bits are acknowledged, only one is served.
HandlerClearsBoth ==
    /\ irq = "dispatch"
    /\ IF h.eint4
       THEN h' = Latch([h EXCEPT !.eint4 = FALSE, !.mask = TRUE]) /\ UNCHANGED exti_status
       ELSE h' = Latch([h EXCEPT !.mask = TRUE, !.eint7 = FALSE]) /\ exti_status' = 1
    /\ irq' = "acknowledge"
    /\ UNCHANGED <<hardware, pc, got, up>>

exti4_7_handler ==
    /\ irq = "dispatch"
    /\ IF h.eint4
       THEN h' = Latch([h EXCEPT !.eint4 = FALSE]) /\ UNCHANGED exti_status
       ELSE IF h.eint7
       THEN h' = Latch([h EXCEPT !.mask = TRUE, !.eint7 = FALSE]) /\ exti_status' = 1
       ELSE UNCHANGED <<h, exti_status>>
    /\ irq' = "acknowledge"
    /\ UNCHANGED <<hardware, pc, got, up>>

\* The end of irq_handle: SRCPND and INTPND are cleared, then int_return.
IrqReturn ==
    /\ irq = "acknowledge"
    /\ h' = Latch([h EXCEPT !.src = FALSE, !.int = FALSE])
    /\ irq' = "idle"
    /\ UNCHANGED <<hardware, exti_status, pc, got, up>>

-----------------------------------------------------------------------------
(* The loop of main.                                                       *)

\* The main loop runs only while no handler does.
Main(label) == irq = "idle" /\ pc = label

Poll ==
    /\ Main("poll") /\ exti_status = 1
    /\ pc' = "clear"
    /\ UNCHANGED <<h, hardware, exti_status, irq, got, up>>

ClearStatus ==
    /\ Main("clear")
    /\ exti_status' = 0
    /\ pc' = "rx"
    /\ UNCHANGED <<h, hardware, irq, got, up>>

\* eth_rx up to the test of the ready byte, when there is no frame.
RxNothing ==
    /\ Main("rx") /\ fifo = <<>>
    /\ got' = "none"
    /\ pc' = "alloc"
    /\ UNCHANGED <<h, hardware, exti_status, irq, up>>

\* The ready byte is neither 0 nor 1: "Stop Device".  Writing 0x80 to the
\* ISR register leaves its packet bit set.
RxStop ==
    /\ Main("rx") /\ fifo # <<>> /\ Head(fifo) = "stop"
    /\ rxen' = FALSE
    /\ got' = "none"
    /\ pc' = "alloc"
    /\ UNCHANGED <<h, fifo, exti_status, irq, up>>

\* A frame is read out.  One that is too long resets the chip, which
\* forgets its frames and leaves the receiver and the interrupt off.
RxFrame ==
    /\ Main("rx") /\ fifo # <<>> /\ Head(fifo) # "stop"
    /\ got' = IF Head(fifo) = "good" THEN "frame" ELSE "none"
    /\ IF Head(fifo) = "long"
       THEN /\ fifo' = <<>> /\ rxen' = FALSE
            /\ h' = [h EXCEPT !.pr = FALSE, !.imr = FALSE]
       ELSE fifo' = Tail(fifo) /\ UNCHANGED <<rxen, h>>
    /\ pc' = "ack"
    /\ UNCHANGED <<exti_status, irq, up>>

\* Mutant: the interrupt request is not acknowledged.
RxNoAck ==
    /\ Main("ack")
    /\ pc' = "alloc"
    /\ UNCHANGED <<h, hardware, exti_status, irq, got, up>>

\* "clear INT request": the end of eth_rx after a frame was read.
RxAck ==
    /\ Main("ack")
    /\ h' = [h EXCEPT !.pr = FALSE]
    /\ pc' = "alloc"
    /\ UNCHANGED <<hardware, exti_status, irq, got, up>>

\* pbuf_alloc failed: low_level_input returns NULL, the frame is dropped.
AllocFails ==
    /\ Main("alloc")
    /\ pc' = "unmask"
    /\ UNCHANGED <<h, hardware, exti_status, irq, got, up>>

\* pbuf_alloc succeeded, also for a length of 0.  The type field of a frame
\* of length 0 is what the pool memory held before; other types are dropped.
AllocAndInput ==
    /\ Main("alloc")
    /\ \E known \in BOOLEAN :
          up' = IF ~known THEN "none" ELSE IF got = "frame" THEN "frame" ELSE "empty"
    /\ pc' = "input"
    /\ UNCHANGED <<h, hardware, exti_status, irq, got>>

\* netif->input may answer through low_level_output: eth_send turns the
\* packet interrupt off ...
SendBegin ==
    /\ Main("input") /\ up = "frame"
    /\ h' = [h EXCEPT !.imr = FALSE]
    /\ pc' = "sending"
    /\ UNCHANGED <<hardware, exti_status, irq, got, up>>

\* ... and on again, after the transmission or its timeout.
SendEnd ==
    /\ Main("sending")
    /\ h' = Latch([h EXCEPT !.imr = TRUE])
    /\ pc' = "input"
    /\ UNCHANGED <<hardware, exti_status, irq, got, up>>

InputDone ==
    /\ Main("input")
    /\ pc' = "unmask"
    /\ UNCHANGED <<h, hardware, exti_status, irq, got, up>>

\* INTMSK &= ~(1 << 4)
Unmask ==
    /\ Main("unmask")
    /\ h' = Latch([h EXCEPT !.mask = FALSE])
    /\ pc' = "poll"
    /\ got' = "none" /\ up' = "none"
    /\ UNCHANGED <<hardware, exti_status, irq>>

-----------------------------------------------------------------------------
Handler == IrqEnter \/ exti4_7_handler \/ IrqReturn

Loop ==
    \/ Poll \/ ClearStatus \/ RxNothing \/ RxStop \/ RxFrame \/ RxAck
    \/ AllocFails \/ AllocAndInput \/ SendBegin \/ SendEnd \/ InputDone \/ Unmask

Next == (\E f \in Kinds : Arrive(f)) \/ Key \/ Handler \/ Loop

Spec == Init /\ [][Next]_vars

\* A pending interrupt is taken and its handler finishes; the main loop gets
\* on between interrupts; netif->input does not answer for ever.
FairSpec ==
    /\ Spec
    /\ WF_vars(Handler)
    /\ SF_vars(Loop)
    /\ SF_vars(InputDone)

-----------------------------------------------------------------------------
(* Properties.                                                             *)

Labels == {"poll", "clear", "rx", "ack", "alloc", "input", "sending", "unmask"}

\* Types.
TypeOK ==
    /\ h \in [pr : BOOLEAN, imr : BOOLEAN, eint4 : BOOLEAN, eint7 : BOOLEAN,
              src : BOOLEAN, int : BOOLEAN, mask : BOOLEAN]
    /\ fifo \in Seq(Kinds) /\ Len(fifo) <= FifoSize
    /\ rxen \in BOOLEAN
    /\ exti_status \in {0, 1}
    /\ irq \in {"idle", "dispatch", "acknowledge"}
    /\ pc \in Labels
    /\ got \in {"none", "frame"} /\ up \in {"none", "frame", "empty"}

\* The interrupt is masked exactly while a receive is owed: exti_status is
\* set, or the main loop is on its way to INTMSK &= ~(1 << 4).  So the
\* interrupt is never left masked for good, and exti_status is never
\* overwritten while it is set: no receive request is lost between the
\* handler and the loop.
MaskOwned ==
    h.mask <=> (exti_status = 1 \/ pc \in Labels \ {"poll", "clear"})

\* A masked interrupt was really served once: the main loop never holds the
\* mask while exti_status is set again.
StatusOnce == exti_status = 1 => pc \in {"poll", "clear"}

\* A raised packet interrupt is pending at the core or masked: it cannot be
\* missed, whenever the frame came relative to the clearing of EINTPEND in
\* exti4_7_handler and of SRCPND and INTPND at the end of irq_handle.
RaisedIsLatched ==
    (h.pr /\ h.imr) => (h.eint7 /\ h.src /\ (h.mask \/ h.int))

\* What makes MaskOwned inductive: a request is pending only while it is
\* not masked, so exti4_7_handler starts unmasked; and the main loop clears
\* exti_status only when it is set.
HandlerUnmasked ==
    /\ h.mask /\ irq = "idle" => ~h.int
    /\ irq = "dispatch" => ~h.mask
    /\ pc = "clear" => exti_status = 1

\* Every packet interrupt the chip raises is eventually acknowledged by
\* eth_rx, unless it stops the device, or the key is pressed for ever:
\* exti4_7_handler serves EINT4 first, so a key event before every interrupt
\* keeps EINT7 waiting.
EverySignalServed ==
    <>[][~Key]_vars => ((h.pr /\ h.imr) ~> (~(h.pr /\ h.imr) \/ ~rxen))

\* "no packet could be read, silently ignore this" (ethernetif_input).
NoPacketIgnored == up # "empty"
=============================================================================
