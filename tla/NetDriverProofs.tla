-------------------------- MODULE NetDriverProofs ---------------------------
(***************************************************************************)
(* Proofs about NetDriver, for every size of the chip's receive memory and *)
(* every set of frame kinds: its types, that the interrupt is masked       *)
(* exactly while a receive is owed, and that a raised packet interrupt     *)
(* stays pending.  HandlerUnmasked is what makes the ownership inductive.  *)
(***************************************************************************)
EXTENDS NetDriver, SequenceTheorems, TLAPS

Controller ==
    [pr : BOOLEAN, imr : BOOLEAN, eint4 : BOOLEAN, eint7 : BOOLEAN,
     src : BOOLEAN, int : BOOLEAN, mask : BOOLEAN]

\* The latch keeps the controller's record a record of Booleans.
LEMMA LatchType ==
    ASSUME NEW r \in Controller
    PROVE  Latch(r) \in Controller
BY DEF Latch, Controller

\* Every action preserves the types.
LEMMA TypeInductive == TypeOK /\ [Next]_vars => TypeOK'
<1> SUFFICES ASSUME TypeOK, [Next]_vars PROVE TypeOK'
  OBVIOUS
<1> USE NetDriverAssumption
<1>h. h \in Controller
  BY DEF TypeOK, Controller
<1>1. ASSUME NEW f \in Kinds, Arrive(f) PROVE TypeOK'
  <2>1. h' \in Controller
    <3>1. [h EXCEPT !.pr = TRUE] \in Controller
      BY <1>h DEF Controller
    <3> QED BY <1>1, <3>1, LatchType DEF Arrive
  <2>2. fifo' \in Seq(Kinds) /\ Len(fifo') <= FifoSize
    <3>1. fifo \in Seq(Kinds) /\ Len(fifo) < FifoSize /\ fifo' = Append(fifo, f)
      BY <1>1 DEF TypeOK, Arrive
    <3>2. Append(fifo, f) \in Seq(Kinds) /\ Len(Append(fifo, f)) = Len(fifo) + 1
      BY <3>1, AppendProperties
    <3>3. Len(fifo) \in Nat
      BY <3>1, LenProperties
    <3> QED BY <3>1, <3>2, <3>3
  <2> QED BY <1>1, <2>1, <2>2 DEF TypeOK, Arrive, cpu, Controller
<1>2. CASE Key
  <2>1. [h EXCEPT !.eint4 = TRUE] \in Controller
    BY <1>h DEF Controller
  <2>2. h' \in Controller
    BY <1>2, <2>1, LatchType DEF Key
  <2> QED BY <1>2, <2>2 DEF TypeOK, Key, cpu, hardware, Controller
<1>3. CASE IrqEnter
  BY <1>3 DEF TypeOK, IrqEnter, hardware
<1>4. CASE exti4_7_handler
  <2>1. /\ [h EXCEPT !.eint4 = FALSE] \in Controller
        /\ [h EXCEPT !.mask = TRUE, !.eint7 = FALSE] \in Controller
    BY <1>h DEF Controller
  <2>2. h' \in Controller
    BY <1>h, <1>4, <2>1, LatchType DEF exti4_7_handler
  <2> QED BY <1>4, <2>2 DEF TypeOK, exti4_7_handler, hardware, Controller
<1>5. CASE IrqReturn
  <2>1. [h EXCEPT !.src = FALSE, !.int = FALSE] \in Controller
    BY <1>h DEF Controller
  <2>2. h' \in Controller
    BY <1>5, <2>1, LatchType DEF IrqReturn
  <2> QED BY <1>5, <2>2 DEF TypeOK, IrqReturn, hardware, Controller
<1>6. CASE Poll \/ ClearStatus \/ RxNothing \/ RxStop \/ AllocFails \/ InputDone
  BY <1>6 DEF TypeOK, Poll, ClearStatus, RxNothing, RxStop, AllocFails,
              InputDone, Main, hardware, Labels
<1>7. CASE RxFrame
  <2>1. fifo' \in Seq(Kinds) /\ Len(fifo') <= FifoSize
    <3>1. fifo \in Seq(Kinds) /\ fifo # <<>> /\ Len(fifo) <= FifoSize
      BY <1>7 DEF TypeOK, RxFrame
    <3>2. Tail(fifo) \in Seq(Kinds) /\ Len(Tail(fifo)) = Len(fifo) - 1
      BY <3>1, HeadTailProperties
    <3>3. <<>> \in Seq(Kinds) /\ Len(<<>>) = 0
      BY EmptySeq
    <3>4. Len(fifo) \in Nat
      BY <3>1, LenProperties
    <3>5. fifo' = <<>> \/ fifo' = Tail(fifo)
      BY <1>7 DEF RxFrame
    <3>6. FifoSize \in Nat
      BY NetDriverAssumption
    <3>7. CASE fifo' = <<>>
      BY <3>3, <3>6, <3>7
    <3>8. CASE fifo' = Tail(fifo)
      BY <3>1, <3>2, <3>4, <3>6, <3>8
    <3> QED BY <3>5, <3>7, <3>8
  <2>2. h' \in Controller
    BY <1>7, <1>h DEF RxFrame, Controller
  <2>3. rxen' \in BOOLEAN
    BY <1>7 DEF TypeOK, RxFrame
  <2>4. got' \in {"none", "frame"} /\ pc' = "ack"
    BY <1>7 DEF RxFrame
  <2> QED BY <1>7, <2>1, <2>2, <2>3, <2>4 DEF TypeOK, RxFrame, Controller, Labels
<1>8. CASE RxAck \/ SendBegin
  <2>1. h' \in Controller
    BY <1>8, <1>h DEF RxAck, SendBegin, Controller
  <2> QED BY <1>8, <2>1 DEF TypeOK, RxAck, SendBegin, Controller, hardware, Labels
<1>9. CASE AllocAndInput
  BY <1>9 DEF TypeOK, AllocAndInput, hardware, Labels
<1>10. CASE SendEnd
  <2>1. [h EXCEPT !.imr = TRUE] \in Controller
    BY <1>h DEF Controller
  <2>2. h' \in Controller
    BY <1>10, <2>1, LatchType DEF SendEnd
  <2> QED BY <1>10, <2>2 DEF TypeOK, SendEnd, Controller, hardware, Labels
<1>11. CASE Unmask
  <2>1. [h EXCEPT !.mask = FALSE] \in Controller
    BY <1>h DEF Controller
  <2>2. h' \in Controller
    BY <1>11, <2>1, LatchType DEF Unmask
  <2> QED BY <1>11, <2>2 DEF TypeOK, Unmask, Controller, hardware, Labels
<1>12. CASE UNCHANGED vars
  BY <1>12 DEF TypeOK, vars
<1> QED
  BY <1>1, <1>2, <1>3, <1>4, <1>5, <1>6, <1>7, <1>8, <1>9, <1>10, <1>11, <1>12
     DEF Next, Handler, Loop

\* The states of the receive path have their types, which the theorems below
\* rest on.
LEMMA TypeCorrect == Spec => []TypeOK
<1>1. Init => TypeOK
  BY NetDriverAssumption, EmptySeq DEF Init, TypeOK, Labels
<1> QED
  BY <1>1, TypeInductive, PTL DEF Spec

\* The inductive invariant of the interrupt's ownership.
Ownership == TypeOK /\ MaskOwned /\ StatusOnce /\ HandlerUnmasked

\* Every action preserves it: the interrupt handler, which sets exti_status
\* and the mask together, the main loop, which clears them in two steps, and
\* the hardware, which only latches.
LEMMA OwnershipInductive == Ownership /\ [Next]_vars => Ownership'
<1> SUFFICES ASSUME Ownership, [Next]_vars PROVE Ownership'
  OBVIOUS
<1>t. TypeOK'
  BY TypeInductive DEF Ownership
<1>h. h \in Controller /\ pc \in Labels /\ exti_status \in {0, 1}
      /\ irq \in {"idle", "dispatch", "acknowledge"}
  BY DEF Ownership, TypeOK, Controller
<1>i. MaskOwned /\ StatusOnce /\ HandlerUnmasked
  BY DEF Ownership
<1> SUFFICES MaskOwned' /\ StatusOnce' /\ HandlerUnmasked'
  BY <1>t DEF Ownership
<1> HIDE DEF Ownership
<1>1. ASSUME NEW f \in Kinds, Arrive(f)
      PROVE  MaskOwned' /\ StatusOnce' /\ HandlerUnmasked'
  <2>2. h'.mask = h.mask /\ (h.mask => h'.int = h.int)
    BY <1>1, <1>h DEF Arrive, Latch, Controller
  <2> QED BY <1>1, <1>h, <1>i, <2>2
             DEF MaskOwned, StatusOnce, HandlerUnmasked, Arrive, cpu
<1>2. CASE Key
  <2>2. h'.mask = h.mask /\ (h.mask => h'.int = h.int)
    BY <1>2, <1>h DEF Key, Latch, Controller
  <2> QED BY <1>2, <1>h, <1>i, <2>2
             DEF MaskOwned, StatusOnce, HandlerUnmasked, Key, cpu
<1>3. CASE IrqEnter
  BY <1>3, <1>h, <1>i DEF MaskOwned, StatusOnce, HandlerUnmasked, IrqEnter
<1>4. CASE exti4_7_handler
  <2>1. ~h.mask /\ pc = "poll" /\ exti_status = 0
    BY <1>4, <1>h, <1>i DEF exti4_7_handler, MaskOwned, HandlerUnmasked, Labels
  <2>2. CASE h'.mask = FALSE /\ exti_status' = exti_status
    BY <1>4, <1>h, <1>i, <2>1, <2>2
       DEF MaskOwned, StatusOnce, HandlerUnmasked, exti4_7_handler, Labels
  <2>3. CASE h'.mask = TRUE /\ exti_status' = 1
    BY <1>4, <1>h, <1>i, <2>1, <2>3
       DEF MaskOwned, StatusOnce, HandlerUnmasked, exti4_7_handler, Labels
  <2>5. \/ h'.mask = FALSE /\ exti_status' = exti_status
        \/ h'.mask = TRUE /\ exti_status' = 1
    BY <1>4, <1>h, <2>1 DEF exti4_7_handler, Latch, Controller
  <2> QED BY <2>2, <2>3, <2>5
<1>5. CASE IrqReturn
  <2>2. h'.mask = h.mask /\ (h.mask => h'.int = FALSE)
    BY <1>5, <1>h DEF IrqReturn, Latch, Controller
  <2> QED BY <1>5, <1>h, <1>i, <2>2
             DEF MaskOwned, StatusOnce, HandlerUnmasked, IrqReturn
<1>6. CASE Poll
  BY <1>6, <1>h, <1>i DEF MaskOwned, StatusOnce, HandlerUnmasked, Poll, Main, Labels
<1>7. CASE ClearStatus
  BY <1>7, <1>h, <1>i
     DEF MaskOwned, StatusOnce, HandlerUnmasked, ClearStatus, Main, Labels
<1>8. CASE RxNothing \/ RxStop \/ AllocFails \/ AllocAndInput \/ InputDone
  BY <1>8, <1>h, <1>i
     DEF MaskOwned, StatusOnce, HandlerUnmasked, RxNothing, RxStop, AllocFails,
         AllocAndInput, InputDone, Main, Labels
<1>9. CASE RxFrame \/ RxAck \/ SendBegin
  <2>1. h'.mask = h.mask /\ h'.int = h.int
    BY <1>9, <1>h DEF RxFrame, RxAck, SendBegin, Controller
  <2> QED BY <1>9, <1>h, <1>i, <2>1
             DEF MaskOwned, StatusOnce, HandlerUnmasked, RxFrame, RxAck, SendBegin,
                 Main, Labels
<1>10. CASE SendEnd
  <2>2. h'.mask = h.mask /\ (h.mask => h'.int = h.int)
    BY <1>10, <1>h DEF SendEnd, Latch, Controller
  <2> QED BY <1>10, <1>h, <1>i, <2>2
             DEF MaskOwned, StatusOnce, HandlerUnmasked, SendEnd, Main, Labels
<1>11. CASE Unmask
  <2>2. h'.mask = FALSE
    BY <1>11, <1>h DEF Unmask, Latch, Controller
  <2> QED BY <1>11, <1>h, <1>i, <2>2
             DEF MaskOwned, StatusOnce, HandlerUnmasked, Unmask, Main, Labels
<1>12. CASE UNCHANGED vars
  BY <1>12, <1>i DEF MaskOwned, StatusOnce, HandlerUnmasked, vars
<1> QED
  BY <1>1, <1>2, <1>3, <1>4, <1>5, <1>6, <1>7, <1>8, <1>9, <1>10, <1>11, <1>12
     DEF Next, Handler, Loop

\* So it holds in every state.
LEMMA OwnershipInvariant == Spec => []Ownership
<1>1. Init => Ownership
  BY NetDriverAssumption, EmptySeq
     DEF Init, Ownership, TypeOK, MaskOwned, StatusOnce, HandlerUnmasked, Labels
<1> QED
  BY <1>1, OwnershipInductive, PTL DEF Spec

\* The interrupt EINT4_7 is masked exactly while a receive is owed, so it is
\* never left masked for good, whatever frames and keys arrive and when.
THEOREM MaskIsOwned == Spec => []MaskOwned
<1>1. Ownership => MaskOwned
  BY DEF Ownership
<1> QED
  BY <1>1, OwnershipInvariant, PTL

\* exti_status is never set again before the main loop has unmasked.
THEOREM StatusIsSetOnce == Spec => []StatusOnce
<1>1. Ownership => StatusOnce
  BY DEF Ownership
<1> QED
  BY <1>1, OwnershipInvariant, PTL

\* The latched request survives every action: frames, keys and eth_send only
\* latch more, exti4_7_handler clears EINTPEND only after it has masked, and
\* what irq_handle clears at its end the line sets again.
LEMMA RaisedInductive == TypeOK /\ RaisedIsLatched /\ [Next]_vars => RaisedIsLatched'
<1> SUFFICES ASSUME TypeOK, RaisedIsLatched, [Next]_vars PROVE RaisedIsLatched'
  OBVIOUS
<1>h. h \in Controller
  BY DEF TypeOK, Controller
<1>1. ASSUME NEW f \in Kinds, Arrive(f) PROVE RaisedIsLatched'
  BY <1>h, <1>1 DEF RaisedIsLatched, Arrive, Latch, Controller
<1>2. CASE Key
  BY <1>h, <1>2 DEF RaisedIsLatched, Key, Latch, Controller
<1>3. CASE exti4_7_handler
  BY <1>h, <1>3 DEF RaisedIsLatched, exti4_7_handler, Latch, Controller
<1>4. CASE IrqReturn
  BY <1>h, <1>4 DEF RaisedIsLatched, IrqReturn, Latch, Controller
<1>5. CASE RxFrame \/ RxAck \/ SendBegin
  BY <1>h, <1>5 DEF RaisedIsLatched, RxFrame, RxAck, SendBegin, Controller
<1>6. CASE SendEnd
  BY <1>h, <1>6 DEF RaisedIsLatched, SendEnd, Latch, Controller
<1>7. CASE Unmask
  BY <1>h, <1>7 DEF RaisedIsLatched, Unmask, Latch, Controller
<1>8. ASSUME UNCHANGED h PROVE RaisedIsLatched'
  BY <1>8 DEF RaisedIsLatched
<1>9. CASE \/ IrqEnter \/ Poll \/ ClearStatus \/ RxNothing \/ RxStop
           \/ AllocFails \/ AllocAndInput \/ InputDone \/ UNCHANGED vars
  BY <1>8, <1>9 DEF IrqEnter, Poll, ClearStatus, RxNothing, RxStop, AllocFails,
                    AllocAndInput, InputDone, vars
<1> QED
  BY <1>1, <1>2, <1>3, <1>4, <1>5, <1>6, <1>7, <1>9 DEF Next, Handler, Loop

\* A raised packet interrupt is pending or masked in every state: together
\* with MaskIsOwned, no packet interrupt is ever missed.
THEOREM RaisedStaysLatched == Spec => []RaisedIsLatched
<1>1. Init => RaisedIsLatched
  BY DEF Init, RaisedIsLatched
<1> QED
  BY <1>1, TypeCorrect, RaisedInductive, PTL DEF Spec
=============================================================================
