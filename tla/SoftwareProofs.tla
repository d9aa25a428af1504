---------------------------- MODULE SoftwareProofs ----------------------------
(***************************************************************************)
(* Proofs about the programs, for every length of an image, all periods of *)
(* the timers, queues of any size and any number of hashes; a handler may  *)
(* start or not, and no fairness is used.                                  *)
(***************************************************************************)
EXTENDS SoftwareProperties, SequenceTheorems, TLAPS

-----------------------------------------------------------------------------
(* The operators of potato.h.                                              *)

LEMMA EnableInterrupts ==
  ASSUME NEW s \in [ ie : BOOLEAN, ie1 : BOOLEAN ]
  PROVE  potato_enable_interrupts(s) \in [ ie : BOOLEAN, ie1 : BOOLEAN ]
  BY DEF potato_enable_interrupts, WriteMstatus

LEMMA DisableInterrupts ==
  ASSUME NEW s \in [ ie : BOOLEAN, ie1 : BOOLEAN ]
  PROVE  /\ potato_disable_interrupts(s) \in [ ie : BOOLEAN, ie1 : BOOLEAN ]
         /\ ~potato_disable_interrupts(s).ie
  <1> DEFINE word == csr_make_mstatus(s) \ { STATUS_MIE, STATUS_MPIE }
  <1>1. potato_disable_interrupts(s) = WriteMstatus(word)
    BY DEF potato_disable_interrupts, CsrAlu
  <1>2. CSR_SR_MIE_INDEX \notin word
    BY DEF STATUS_MIE, STATUS_MPIE, CSR_SR_MIE_INDEX
  <1> HIDE DEF word
  <1>3. WriteMstatus(word) \in [ ie : BOOLEAN, ie1 : BOOLEAN ]
    BY DEF WriteMstatus
  <1>4. WriteMstatus(word).ie = (CSR_SR_MIE_INDEX \in word)
    BY DEF WriteMstatus
  <1> QED
    BY <1>1, <1>2, <1>3, <1>4

-----------------------------------------------------------------------------
(* Exclusion.                                                              *)

\* What only the programs change; the rest of a step does not matter.
controlVars == << pc, handler, status >>

LEMMA ExclusionSetup ==
  ASSUME ExclusionInv, Setup
  PROVE  ExclusionInv'
  <1>1. CASE ConfigureInterrupts
    <2>1. pc' = "hash" /\ handler' = "none" /\ status' \in [ ie : BOOLEAN, ie1 : BOOLEAN ]
      BY <1>1, EnableInterrupts DEF ConfigureInterrupts, ExclusionInv
    <2> QED
      BY <2>1 DEF ExclusionInv, Updating
  <1>2. CASE ConfigureGpio \/ ConfigureUart \/ ConfigureTimer \/ ConfigureIcerror \/ ConfigureIrq
    <2>1. \E device \in {"gpio", "uart", "timer", "icerror", "mie"} : Sets(device)
      BY <1>2 DEF ConfigureGpio, ConfigureUart, ConfigureTimer, ConfigureIcerror, ConfigureIrq
    <2>2. UNCHANGED controlVars
      BY <2>1 DEF Sets, controlVars
    <2> QED
      BY <2>2 DEF controlVars, ExclusionInv, Updating
  <1> QED
    BY <1>1, <1>2 DEF Setup

LEMMA ExclusionLoop ==
  ASSUME ExclusionInv, Loop
  PROVE  ExclusionInv'
  <1>1. handler = "none" /\ handler' = "none"
    BY DEF Loop, Hash, Disable, TestReset, StoreOne, ClearReset, LoadCount, StoreCount, Enable,
           MainStep
  <1>2. CASE Disable
    <2>1. pc' = "test" /\ status' \in [ ie : BOOLEAN, ie1 : BOOLEAN ] /\ ~status'.ie
      BY <1>2, DisableInterrupts DEF Disable, MainStep, ExclusionInv
    <2> QED
      BY <1>1, <2>1 DEF ExclusionInv, Updating
  <1>3. CASE Enable
    <2>1. pc' = "hash" /\ status' \in [ ie : BOOLEAN, ie1 : BOOLEAN ]
      BY <1>3, EnableInterrupts DEF Enable, MainStep, ExclusionInv
    <2> QED
      BY <1>1, <2>1 DEF ExclusionInv, Updating
  <1>4. CASE Hash
    BY <1>1, <1>4 DEF Hash, MainStep, ExclusionInv, Updating
  <1>5. CASE TestReset \/ StoreOne \/ ClearReset \/ LoadCount \/ StoreCount
    <2>1. pc \in Updating /\ pc' \in Updating /\ status' = status
      BY <1>5 DEF TestReset, StoreOne, ClearReset, LoadCount, StoreCount, MainStep, Updating
    <2> QED
      BY <1>1, <2>1 DEF ExclusionInv
  <1> QED
    BY <1>2, <1>3, <1>4, <1>5 DEF Loop

LEMMA ExclusionInterrupt ==
  ASSUME ExclusionInv, Interrupt
  PROVE  ExclusionInv'
  <1>1. status.ie /\ pc' = pc /\ handler' = "entry" /\ status' = [ ie |-> FALSE, ie1 |-> status.ie ]
    BY DEF Interrupt, Pending
  <1> QED
    BY <1>1 DEF ExclusionInv

LEMMA ExclusionHandler ==
  ASSUME ExclusionInv, Handler
  PROVE  ExclusionInv'
  <1>1. handler # "none" /\ pc' = pc
    BY DEF Handler, Dispatch, ReadCount, PrintNumber, PrintUnit, SetReset, ClearTimer0, ShiftLed,
           ReadSwitches, ReadButtons, SetLeds, ClearTimer1, PrintError, GetAccess, PrintAccess,
           StopInterrupts, WaitForever, Return, HandlerStep, benchmarkVars, cpuVars
  <1>2. pc \in { "hash", "disable" }
    BY <1>1 DEF ExclusionInv
  <1>3. CASE Return
    <2>1. handler' = "none" /\ status' \in [ ie : BOOLEAN, ie1 : BOOLEAN ]
      BY <1>3 DEF Return, ExclusionInv
    <2> QED
      BY <1>1, <1>2, <2>1 DEF ExclusionInv, Updating
  <1>4. CASE StopInterrupts
    <2>1. status' \in [ ie : BOOLEAN, ie1 : BOOLEAN ] /\ ~status'.ie
      BY <1>4, DisableInterrupts DEF StopInterrupts, ExclusionInv
    <2> QED
      BY <1>1, <1>2, <2>1 DEF ExclusionInv, Updating
  <1>5. CASE ~(Return \/ StopInterrupts)
    <2>1. status' = status
      BY <1>5 DEF Handler, Dispatch, ReadCount, PrintNumber, PrintUnit, SetReset, ClearTimer0,
           ShiftLed, ReadSwitches, ReadButtons, SetLeds, ClearTimer1, PrintError, GetAccess,
           PrintAccess, WaitForever, Clears, benchmarkVars, cpuVars
    <2> QED
      BY <1>1, <1>2, <2>1 DEF ExclusionInv, Updating
  <1> QED
    BY <1>3, <1>4, <1>5

(* A step of anything but the benchmark's own code.                        *)
LEMMA OthersKeepProgram ==
  ASSUME \/ BootStep \/ HelloStep \/ DrainStep \/ SendStep \/ PressStep \/ StrayStep
         \/ \E t \in 0..1 : TickStep(t)
  PROVE  UNCHANGED << cpuVars, programVars, count, localVars, since >>
  BY DEF BootStep, HelloStep, DrainStep, SendStep, PressStep, Press, StrayStep, Runs, Stray,
         TickStep, Tick, benchmarkVars

(* A step of the program that was sent, of the bootloader, or of the rest. *)
LEMMA StepCases ==
  ASSUME SoftwareNext
  PROVE  \/ Setup \/ Loop \/ Interrupt \/ Handler
         \/ UNCHANGED << cpuVars, programVars, count, localVars, since >>
  <1>1. CASE SetupStep \/ BenchmarkStep
    BY <1>1 DEF SetupStep, BenchmarkStep, Runs
  <1>2. CASE \/ BootStep \/ HelloStep \/ DrainStep \/ SendStep \/ PressStep \/ StrayStep
             \/ \E t \in 0..1 : TickStep(t)
    BY <1>2, OthersKeepProgram
  <1> QED
    BY <1>1, <1>2 DEF SoftwareNext

LEMMA ExclusionStep ==
  ASSUME ExclusionInv, [SoftwareNext]_softwareVars
  PROVE  ExclusionInv'
  <1>1. CASE Setup \/ Loop \/ Interrupt \/ Handler
    BY <1>1, ExclusionSetup, ExclusionLoop, ExclusionInterrupt, ExclusionHandler
  <1>2. CASE UNCHANGED cpuVars
    BY <1>2 DEF cpuVars, ExclusionInv, Updating
  <1> QED
    BY <1>1, <1>2, StepCases DEF softwareVars, benchmarkVars

-----------------------------------------------------------------------------
(* The count.                                                              *)

countVars == << pc, handler, since, hashes_per_second, reset_counter, count, number >>

LEMMA CounterSetup ==
  ASSUME CounterInv, Setup
  PROVE  CounterInv'
  <1>1. pc = "setup" /\ handler = "none" /\ pc' \in { "setup", "hash" } /\ handler' = "none"
    BY DEF Setup, ConfigureGpio, ConfigureUart, ConfigureTimer, ConfigureIcerror, ConfigureIrq,
           ConfigureInterrupts, Sets
  <1>2. UNCHANGED << since, hashes_per_second, reset_counter >>
    BY DEF Setup, ConfigureGpio, ConfigureUart, ConfigureTimer, ConfigureIcerror, ConfigureIrq,
           ConfigureInterrupts, Sets, programVars
  <1> QED
    BY <1>1, <1>2 DEF CounterInv, Counted

LEMMA CounterLoop ==
  ASSUME CounterInv, Loop
  PROVE  CounterInv'
  <1>1. handler = "none" /\ handler' = "none"
    BY DEF Loop, Hash, Disable, TestReset, StoreOne, ClearReset, LoadCount, StoreCount, Enable,
           MainStep
  <1>2. CASE Hash \/ Disable
    BY <1>1, <1>2 DEF Hash, Disable, MainStep, CounterInv, Counted
  <1>3. CASE TestReset
    BY <1>1, <1>3 DEF TestReset, MainStep, CounterInv, Counted
  <1>4. CASE StoreOne
    BY <1>1, <1>4 DEF StoreOne, MainStep, CounterInv
  <1>5. CASE ClearReset
    <2>1. /\ pc = "unflag" /\ pc' = "enable" /\ ~reset_counter'
          /\ UNCHANGED << hashes_per_second, since >>
      BY <1>5 DEF ClearReset, MainStep
    <2>2. reset_counter' \in BOOLEAN
      BY <1>5 DEF ClearReset
    <2> QED
      BY <1>1, <2>1, <2>2 DEF CounterInv
  <1>6. CASE LoadCount
    BY <1>1, <1>6 DEF LoadCount, MainStep, CounterInv
  <1>7. CASE StoreCount
    BY <1>1, <1>7 DEF StoreCount, MainStep, CounterInv
  <1>8. CASE Enable
    BY <1>1, <1>8 DEF Enable, MainStep, CounterInv, Counted
  <1> QED
    BY <1>2, <1>3, <1>4, <1>5, <1>6, <1>7, <1>8 DEF Loop

LEMMA CounterInterrupt ==
  ASSUME CounterInv, Interrupt
  PROVE  CounterInv'
  <1>1. handler = "none" /\ handler' = "entry" /\ UNCHANGED << pc, programVars, count, since >>
    BY DEF Interrupt
  <1> QED
    BY <1>1 DEF programVars, CounterInv, Counted

(* The places of the handler on which the count depends.                   *)
LEMMA CounterHandler ==
  ASSUME ExclusionInv, CounterInv, Handler
  PROVE  CounterInv'
  <1>1. handler # "none" /\ UNCHANGED << pc, hashes_per_second, count >>
    BY DEF Handler, Dispatch, ReadCount, PrintNumber, PrintUnit, SetReset, ClearTimer0, ShiftLed,
           ReadSwitches, ReadButtons, SetLeds, ClearTimer1, PrintError, GetAccess, PrintAccess,
           StopInterrupts, WaitForever, Return, HandlerStep, benchmarkVars, cpuVars, programVars
  <1>2. pc \in { "hash", "disable" }
    BY <1>1 DEF ExclusionInv
  <1>3. CASE ReadCount
    <2>1. /\ handler = "count" /\ handler' = "number" /\ number' = hashes_per_second
          /\ UNCHANGED << since, reset_counter >>
      BY <1>3 DEF ReadCount, HandlerStep
    <2> QED
      BY <1>1, <1>2, <2>1 DEF CounterInv, Counted
  <1>4. CASE PrintNumber
    <2>1. handler' = "unit" /\ since' = 0 /\ UNCHANGED reset_counter
      BY <1>4 DEF PrintNumber, HandlerStep
    <2> QED
      BY <1>1, <1>2, <2>1 DEF CounterInv
  <1>5. CASE PrintUnit
    <2>1. handler = "unit" /\ handler' = "flag" /\ UNCHANGED << since, reset_counter >>
      BY <1>5 DEF PrintUnit, HandlerStep
    <2> QED
      BY <1>1, <1>2, <2>1 DEF CounterInv
  <1>6. CASE SetReset
    <2>1. handler = "flag" /\ handler' = "clear0" /\ reset_counter' = TRUE /\ UNCHANGED since
      BY <1>6 DEF SetReset, HandlerStep
    <2> QED
      BY <1>1, <1>2, <2>1 DEF CounterInv, Counted
  <1>7. CASE ~(ReadCount \/ PrintNumber \/ PrintUnit \/ SetReset)
    <2>1. CASE WaitForever
      BY <1>1, <2>1 DEF WaitForever, benchmarkVars, cpuVars, programVars, localVars, CounterInv, Counted
    <2>2. CASE ~WaitForever
      <3>1. /\ handler \notin { "number", "unit", "flag" }
            /\ handler' \notin { "number", "unit", "flag" }
            /\ UNCHANGED << since, reset_counter >>
        <4>1. CASE Dispatch
          <5>1. Branch \notin { "number", "unit", "flag" }
            BY Zenon DEF Branch
          <5> QED
            BY <4>1, <5>1 DEF Dispatch, programVars
        <4>2. CASE ~Dispatch
          BY <1>7, <2>2, <4>2
             DEF Handler, ClearTimer0, ShiftLed, ReadSwitches, ReadButtons, SetLeds,
                 ClearTimer1, PrintError, GetAccess, PrintAccess, StopInterrupts, Return,
                 HandlerStep, Clears, programVars
        <4> QED
          BY <4>1, <4>2
      <3> QED
        BY <1>1, <1>2, <3>1 DEF CounterInv, Counted
    <2> QED
      BY <2>1, <2>2
  <1> QED
    BY <1>3, <1>4, <1>5, <1>6, <1>7

LEMMA CounterStep ==
  ASSUME ExclusionInv, CounterInv, [SoftwareNext]_softwareVars
  PROVE  CounterInv'
  <1>1. CASE Setup \/ Loop \/ Interrupt \/ Handler
    BY <1>1, CounterSetup, CounterLoop, CounterInterrupt, CounterHandler
  <1>2. CASE UNCHANGED << cpuVars, programVars, count, localVars, since >>
    BY <1>2 DEF cpuVars, programVars, localVars, CounterInv, Counted
  <1> QED
    BY <1>1, <1>2, StepCases DEF softwareVars, benchmarkVars

-----------------------------------------------------------------------------
(* The image and the queues.                                               *)

(* The benchmark at most sends characters.                                 *)
LEMMA BenchmarkSerial ==
  ASSUME Setup \/ Loop \/ Interrupt \/ Handler
  PROVE  uart_tx_string \/ UNCHANGED serialVars
  <1>1. CASE Setup
    BY <1>1 DEF Setup, ConfigureGpio, ConfigureUart, ConfigureTimer, ConfigureIcerror, ConfigureIrq,
           ConfigureInterrupts, Sets
  <1>2. CASE Loop
    BY <1>2 DEF Loop, Hash, Disable, TestReset, StoreOne, ClearReset, LoadCount, StoreCount, Enable,
           MainStep
  <1>3. CASE Interrupt
    BY <1>3 DEF Interrupt
  <1>4. CASE Handler
    BY <1>4 DEF Handler, Dispatch, ReadCount, PrintNumber, PrintUnit, SetReset, ClearTimer0, ShiftLed,
           ReadSwitches, ReadButtons, SetLeds, ClearTimer1, PrintError, GetAccess, PrintAccess,
           StopInterrupts, WaitForever, Return, Clears
  <1> QED
    BY <1>1, <1>2, <1>3, <1>4

(* Only the bootloader and the sender change anything of the image.        *)
LEMMA ImageCases ==
  ASSUME SoftwareNext
  PROVE  \/ Boot \/ SendByte
         \/ UNCHANGED bootVars /\ (uart_tx_string \/ Drain \/ UNCHANGED serialVars)
  <1>1. CASE SetupStep \/ BenchmarkStep
    BY <1>1, BenchmarkSerial DEF SetupStep, BenchmarkStep, Runs
  <1>2. CASE BootStep \/ HelloStep \/ DrainStep \/ SendStep
    BY <1>2 DEF BootStep, HelloStep, Hello, DrainStep, SendStep
  <1>3. CASE (\E t \in 0..1 : TickStep(t)) \/ PressStep \/ StrayStep
    BY <1>3 DEF TickStep, Tick, PressStep, Press, StrayStep, Runs, Stray
  <1> QED
    BY <1>1, <1>2, <1>3 DEF SoftwareNext

LEMMA RxKept ==
  ASSUME uart_tx_string \/ Drain \/ UNCHANGED serialVars
  PROVE  UNCHANGED rx
  BY DEF uart_tx_string, Drain, serialVars

LEMMA ImageReadByte ==
  ASSUME ImageInv, ReadByte
  PROVE  ImageInv'
  <1>1. /\ boot = "loop" /\ boot' = "dot" /\ index < AppLength
        /\ rx # << >> /\ rx' = Tail(rx) /\ memory' = [memory EXCEPT ![index] = Head(rx)]
        /\ UNCHANGED << index, sending, sent >>
    BY DEF ReadByte, uart_rx_fifo_empty
  <1>2. /\ index \in Nat /\ sent \in 0..AppLength /\ sending \in Applications
        /\ rx \in Seq(Cells) /\ memory \in [ 0..(AppLength - 1) -> Cells ]
        /\ AppLength \in Nat
    BY BootloaderAssumption DEF ImageInv
  <1>3. Received = index /\ Received' = index + 1
    BY <1>1 DEF Received
  <1>4. /\ Head(rx) \in Cells /\ Tail(rx) \in Seq(Cells) /\ Len(Tail(rx)) = Len(rx) - 1
        /\ \A i \in 1..Len(Tail(rx)) : Tail(rx)[i] = rx[i + 1]
        /\ Len(rx) \in Nat /\ Len(rx) # 0
    BY <1>1, <1>2, HeadTailProperties, LenProperties, EmptySeq
  <1>5. Head(rx) = Byte(sending, index)
    <2>1. Head(rx) = rx[1]
      OBVIOUS
    <2>2. rx[1] = Byte(sending, Received + 1 - 1)
      BY <1>4 DEF ImageInv
    <2> QED
      BY <1>2, <1>3, <2>1, <2>2
  <1>6. memory' \in [ 0..(AppLength - 1) -> Cells ]
    BY <1>1, <1>2, <1>4
  <1>7. sent' = Received' + Len(rx')
    BY <1>1, <1>2, <1>3, <1>4 DEF ImageInv
  <1>8. \A k \in 1..Len(rx') : rx'[k] = Byte(sending, Received' + k - 1)
    <2> SUFFICES ASSUME NEW k \in 1..Len(rx')
                 PROVE  rx'[k] = Byte(sending, Received' + k - 1)
      OBVIOUS
    <2>1. rx'[k] = rx[k + 1] /\ k + 1 \in 1..Len(rx)
      BY <1>1, <1>4
    <2>2. rx[k + 1] = Byte(sending, Received + (k + 1) - 1)
      BY <2>1 DEF ImageInv
    <2>3. Received + (k + 1) - 1 = Received' + k - 1
      BY <1>2, <1>3
    <2> QED
      BY <2>1, <2>2, <2>3
  <1>9. \A i \in 0..(Received' - 1) : memory'[i] = Byte(sending, i)
    <2> SUFFICES ASSUME NEW i \in 0..(Received' - 1)
                 PROVE  memory'[i] = Byte(sending, i)
      OBVIOUS
    <2>1. CASE i = index
      BY <1>1, <1>2, <1>5, <2>1
    <2>2. CASE i # index
      <3>1. i \in 0..(Received - 1)
        BY <1>2, <1>3, <2>2
      <3>2. memory[i] = Byte(sending, i)
        BY <3>1 DEF ImageInv
      <3> QED
        BY <1>1, <2>2, <3>1, <3>2, <1>2, <1>3
    <2> QED
      BY <2>1, <2>2
  <1> QED
    BY <1>1, <1>2, <1>4, <1>6, <1>7, <1>8, <1>9 DEF ImageInv

(* A byte is sent only when the loop has nothing left to do, so the queue  *)
(* is empty, however small it is.                                          *)
LEMMA SentIntoEmpty ==
  ASSUME ImageInv, PaceInv, SendByte
  PROVE  Work = 0 /\ rx = << >> /\ rx' = Append(rx, Byte(sending, sent))
  <1>1. rx \in Seq(Cells) /\ Len(rx) \in Nat
    BY LenProperties DEF ImageInv
  <1>2. Waiting \/ elapsed >= Pace
    BY DEF SendByte
  <1>3. Work = 0
    <2>1. CASE Waiting
      BY <2>1 DEF Waiting, uart_rx_fifo_empty, Work
    <2>2. CASE elapsed >= Pace
      <3>1. Work \in Nat /\ elapsed \in Nat
        BY <1>1, PaceAssumption DEF Work, PaceInv
      <3> QED
        BY <2>2, <3>1, PaceAssumption DEF PaceInv
    <2> QED
      BY <1>2, <2>1, <2>2
  <1>4. Len(rx) = 0
    BY <1>1, <1>3 DEF Work
  <1>5. rx = << >>
    BY <1>1, <1>4, EmptySeq
  <1>6. ~uart_rx_fifo_full
    BY <1>4, SlotsAssumption DEF uart_rx_fifo_full
  <1> QED
    BY <1>3, <1>5, <1>6 DEF SendByte, Arrives

LEMMA ImageSendByte ==
  ASSUME ImageInv, PaceInv, SendByte
  PROVE  ImageInv'
  <1>1. /\ sent < AppLength /\ sent' = sent + 1 /\ rx' = Append(rx, Byte(sending, sent))
        /\ UNCHANGED << boot, index, memory, sending >>
    BY SentIntoEmpty DEF SendByte
  <1>2. /\ index \in Nat /\ sent \in 0..AppLength /\ sending \in Applications
        /\ rx \in Seq(Cells) /\ sent = Received + Len(rx) /\ AppLength \in Nat
    BY BootloaderAssumption DEF ImageInv
  <1>3. Received' = Received /\ Received \in Nat
    BY <1>1, <1>2 DEF Received
  <1>4. Byte(sending, sent) \in Cells
    <2>1. sent \in 0..(AppLength - 1)
      BY <1>1, <1>2
    <2> QED
      BY <1>2, <2>1 DEF Cells
  <1>5. /\ rx' \in Seq(Cells) /\ Len(rx') = Len(rx) + 1 /\ Len(rx) \in Nat
        /\ \A k \in 1..Len(rx) : rx'[k] = rx[k]
        /\ rx'[Len(rx) + 1] = Byte(sending, sent)
    BY <1>1, <1>2, <1>4, AppendProperties, LenProperties
  <1>6. \A k \in 1..Len(rx') : rx'[k] = Byte(sending, Received' + k - 1)
    <2> SUFFICES ASSUME NEW k \in 1..Len(rx')
                 PROVE  rx'[k] = Byte(sending, Received + k - 1)
      BY <1>3
    <2>1. CASE k \in 1..Len(rx)
      BY <1>5, <2>1 DEF ImageInv
    <2>2. CASE k = Len(rx) + 1
      <3>1. Received + k - 1 = sent
        BY <1>2, <1>3, <1>5, <2>2
      <3> QED
        BY <1>5, <2>2, <3>1
    <2> QED
      BY <1>5, <2>1, <2>2
  <1>7. sent' = Received' + Len(rx') /\ sent' \in 0..AppLength
    BY <1>1, <1>2, <1>3, <1>5
  <1> QED
    BY <1>1, <1>3, <1>5, <1>6, <1>7 DEF ImageInv

LEMMA ImageStep ==
  ASSUME ImageInv, PaceInv, [SoftwareNext]_softwareVars
  PROVE  ImageInv'
  <1>1. CASE Welcome \/ Booting
    <2>1. /\ boot' \in { "loop", "booted" } /\ boot \in { "welcome", "loop" }
          /\ boot' = "booted" => index = AppLength
          /\ UNCHANGED << index, memory, sending, sent, rx >>
      BY <1>1, RxKept DEF Welcome, Booting
    <2> QED
      BY <2>1 DEF ImageInv, Received
  <1>2. CASE Dot
    <2>1. /\ boot = "dot" /\ boot' = "loop" /\ index' = index + 1
          /\ UNCHANGED << memory, sending, sent, rx >>
      BY <1>2, RxKept DEF Dot
    <2>2. Received' = Received
      BY <2>1 DEF Received
    <2> QED
      BY <2>1, <2>2 DEF ImageInv
  <1>3. CASE UNCHANGED bootVars /\ UNCHANGED rx
    BY <1>3 DEF bootVars, ImageInv, Received
  <1>4. CASE UNCHANGED softwareVars
    BY <1>3, <1>4 DEF softwareVars, serialVars
  <1> QED
    BY <1>1, <1>2, <1>3, <1>4, ImageReadByte, ImageSendByte, ImageCases, RxKept DEF Boot

(* The loop takes two steps for a byte, and a byte lasts two steps: the    *)
(* work left and the steps made since the last byte are never more.        *)
LEMMA PaceStep ==
  ASSUME ImageInv, PaceInv, [SoftwareNext]_softwareVars
  PROVE  PaceInv'
  <1> USE PaceAssumption
  <1>1. /\ rx \in Seq(Cells) /\ Len(rx) \in Nat /\ elapsed \in 0..Pace
        /\ boot \in { "welcome", "loop", "dot", "booted" }
    BY LenProperties DEF ImageInv, PaceInv
  <1>2. CASE Boot
    <2>1. elapsed' \in 0..Pace /\ elapsed' <= elapsed + 1
      BY <1>1, <1>2 DEF Boot
    <2>2. CASE ReadByte
      <3>1. /\ boot = "loop" /\ boot' = "dot" /\ rx # << >> /\ rx' = Tail(rx)
        BY <2>2 DEF ReadByte, uart_rx_fifo_empty
      <3>2. Len(rx') = Len(rx) - 1 /\ Len(rx) # 0
        BY <1>1, <3>1, HeadTailProperties, EmptySeq
      <3>3. Work = 2 * Len(rx) /\ Work' = 2 * Len(rx) - 1
        BY <1>1, <3>1, <3>2 DEF Work
      <3> QED
        BY <1>1, <2>1, <3>1, <3>2, <3>3 DEF PaceInv
    <2>3. CASE Dot
      <3>1. boot = "dot" /\ boot' = "loop" /\ rx' = rx
        BY <2>3, RxKept DEF Dot
      <3>2. Work = 2 * Len(rx) + 1 /\ Work' = 2 * Len(rx)
        BY <1>1, <3>1 DEF Work
      <3> QED
        BY <1>1, <2>1, <3>1, <3>2 DEF PaceInv
    <2>4. CASE Welcome
      <3>1. boot = "welcome" /\ boot' = "loop" /\ rx' = rx /\ rx = << >>
        BY <2>4, RxKept DEF Welcome, PaceInv
      <3>2. Work' = 0
        BY <3>1 DEF Work
      <3> QED
        BY <2>1, <3>1, <3>2 DEF PaceInv
    <2>5. CASE Booting
      <3>1. boot = "loop" /\ index = AppLength /\ boot' = "booted" /\ rx' = rx
        BY <2>5, RxKept DEF Booting
      <3>2. Len(rx) = 0
        BY <1>1, <3>1, BootloaderAssumption DEF ImageInv, Received
      <3>3. Work' = 0
        BY <3>1, <3>2 DEF Work
      <3> QED
        BY <2>1, <3>1, <3>3 DEF PaceInv
    <2> QED
      BY <1>2, <2>2, <2>3, <2>4, <2>5 DEF Boot
  <1>3. CASE SendByte
    <2>1. Work = 0 /\ rx = << >> /\ rx' = Append(rx, Byte(sending, sent))
      BY <1>3, SentIntoEmpty
    <2>2. boot # "welcome" /\ boot' = boot /\ elapsed' = 0 /\ boot # "dot"
      BY <1>3, <2>1 DEF SendByte, Work
    <2>3. Len(rx') = 1
      BY <2>1
    <2>4. Work' = 2
      BY <2>2, <2>3 DEF Work
    <2> QED
      BY <2>2, <2>4 DEF PaceInv
  <1>4. CASE UNCHANGED bootVars /\ UNCHANGED rx
    BY <1>4 DEF bootVars, PaceInv, Work
  <1>5. CASE UNCHANGED softwareVars
    BY <1>4, <1>5 DEF softwareVars, serialVars
  <1> QED
    BY <1>2, <1>3, <1>4, <1>5, ImageCases, RxKept

-----------------------------------------------------------------------------

LEMMA InvariantInitially ==
  ASSUME SoftwareInit
  PROVE  SoftwareInv
  <1>1. ExclusionInv
    BY DEF SoftwareInit, BenchmarkInit, ExclusionInv, Updating
  <1>2. CounterInv
    BY DEF SoftwareInit, BenchmarkInit, CounterInv, Counted
  <1>3. /\ boot = "welcome" /\ index = 0 /\ sent = 0 /\ sending \in Applications
        /\ memory = [ i \in 0..(AppLength - 1) |-> Nothing ] /\ rx = << >> /\ tx = 0
    BY DEF SoftwareInit, BootInit, SerialInit
  <1>4. Received = 0 /\ rx \in Seq(Cells) /\ Len(rx) = 0
    BY <1>3 DEF Received
  <1>5. memory \in [ 0..(AppLength - 1) -> Cells ]
    BY <1>3 DEF Cells
  <1>6. ImageInv
    BY <1>3, <1>4, <1>5, BootloaderAssumption DEF ImageInv
  <1>7. PaceInv
    <2>1. elapsed = 0 /\ Work = 0
      BY <1>3, <1>4 DEF SoftwareInit, BootInit, Work
    <2> QED
      BY <1>3, <2>1, PaceAssumption DEF PaceInv
  <1> QED
    BY <1>1, <1>2, <1>6, <1>7 DEF SoftwareInv

LEMMA InvariantStep ==
  ASSUME SoftwareInv, [SoftwareNext]_softwareVars
  PROVE  SoftwareInv'
  BY ExclusionStep, CounterStep, ImageStep, PaceStep DEF SoftwareInv

(* Exclusion, the count, the image and the pace of the loop are kept by    *)
(* every step of the programs and of the devices (the two programs'        *)
(* main.c).                                                                *)
THEOREM SoftwareInvariant == SoftwareSpec => []SoftwareInv
  BY InvariantInitially, InvariantStep, PTL DEF SoftwareSpec

(* No update of the counter is lost, by main or by the handler             *)
(* (src/software/sha256/main.c:45-48 and 168-175).                         *)
THEOREM CountIsExact == SoftwareSpec => []CountExact
  <1>1. SoftwareInv => CountExact
    BY DEF SoftwareInv, ExclusionInv, CounterInv, Counted, CountExact, HandlerExcluded, Updating
  <1> QED
    BY <1>1, SoftwareInvariant, PTL

(* The number printed is that of the hashes since the number before it     *)
(* (src/software/sha256/main.c:43-48).                                     *)
THEOREM NumbersAreTrue == SoftwareSpec => ReportsTrue
  <1>1. SoftwareInv =>
          (handler = "number" /\ handler' = "unit" => since \in { 0, number })
    BY DEF SoftwareInv, CounterInv
  <1> QED
    BY <1>1, SoftwareInvariant, PTL DEF ReportsTrue

(* The bootloader jumps into the whole image, whatever its length          *)
(* (src/software/bootloader/main.c:29-43).                                 *)
THEOREM ImageIsLoaded == SoftwareSpec => []ImageLoaded
  <1>1. ASSUME SoftwareInv, boot = "booted"
        PROVE  Loaded(sending)
    <2>1. Received = AppLength
      BY <1>1 DEF SoftwareInv, ImageInv, Received
    <2>2. memory = [ i \in 0..(AppLength - 1) |-> Byte(sending, i) ]
      BY <1>1, <2>1 DEF SoftwareInv, ImageInv
    <2> QED
      BY <1>1, <2>2 DEF Loaded
  <1>2. SoftwareInv => ImageLoaded
    BY <1>1 DEF ImageLoaded
  <1> QED
    BY <1>2, SoftwareInvariant, PTL

(* No byte of an image is lost to a full queue, whatever the room of the   *)
(* queue and the length of the image, although nothing holds the sender    *)
(* back (src/software/bootloader/main.c:31-38).                            *)
THEOREM BytesAreKept == SoftwareSpec => BytesKept
  <1>1. ASSUME SoftwareInv, [SoftwareNext]_softwareVars, sent' = sent + 1
        PROVE  rx' = Append(rx, Byte(sending, sent))
    <2>1. sent \in Nat
      BY <1>1, BootloaderAssumption DEF SoftwareInv, ImageInv
    <2>2. CASE SendByte
      BY <1>1, <2>2, SentIntoEmpty DEF SoftwareInv
    <2>3. CASE Boot
      <3>1. sent' = sent
        BY <2>3 DEF Boot, Welcome, ReadByte, Dot, Booting
      <3> QED
        BY <1>1, <2>1, <3>1
    <2>4. CASE UNCHANGED bootVars \/ UNCHANGED softwareVars
      <3>1. sent' = sent
        BY <2>4 DEF bootVars, softwareVars
      <3> QED
        BY <1>1, <2>1, <3>1
    <2> QED
      BY <1>1, <2>2, <2>3, <2>4, ImageCases
  <1>2. SoftwareInv /\ [SoftwareNext]_softwareVars =>
          (sent' = sent + 1 => rx' = Append(rx, Byte(sending, sent)))
    BY <1>1
  <1> QED
    BY <1>2, SoftwareInvariant, PTL DEF BytesKept, SoftwareSpec

-----------------------------------------------------------------------------
(* Service: what a handler serves is still there, and nothing else.        *)

serviceVars == << pc, step, handler, mcause, timer, icerror, access, said, last_error >>

(* The steps that touch a device or the handler, and the rest.             *)
LEMMA ServiceCases ==
  ASSUME SoftwareNext
  PROVE  \/ Setup \/ Loop \/ Interrupt \/ Handler \/ Stray \/ (\E t \in 0..1 : Tick(t))
         \/ UNCHANGED serviceVars
  <1>1. CASE SetupStep \/ BenchmarkStep
    BY <1>1 DEF SetupStep, BenchmarkStep, Runs
  <1>2. CASE BootStep \/ HelloStep \/ DrainStep \/ SendStep \/ PressStep
    BY <1>2 DEF BootStep, HelloStep, DrainStep, SendStep, PressStep, Press, benchmarkVars, cpuVars,
                deviceVars, localVars, errorVars, serviceVars
  <1>3. CASE StrayStep \/ (\E t \in 0..1 : TickStep(t))
    BY <1>3 DEF StrayStep, Runs, TickStep
  <1> QED
    BY <1>1, <1>2, <1>3 DEF SoftwareNext

(* What every step of the loop and of the handler leaves alone.            *)
LEMMA LoopKeeps ==
  ASSUME Loop
  PROVE  /\ handler = "none" /\ handler' = "none" /\ pc # "setup" /\ pc' # "setup"
         /\ UNCHANGED << step, timer, icerror, last_error >>
  BY DEF Loop, Hash, Disable, TestReset, StoreOne, ClearReset, LoadCount, StoreCount, Enable,
         MainStep, deviceVars, errorVars

LEMMA HandlerKeeps ==
  ASSUME Handler
  PROVE  /\ handler # "none"
         /\ UNCHANGED << pc, step, icerror, last_error >>
         /\ ClearTimer0 \/ ClearTimer1 \/ UNCHANGED timer
  BY DEF Handler, Dispatch, ReadCount, PrintNumber, PrintUnit, SetReset, ClearTimer0, ShiftLed,
         ReadSwitches, ReadButtons, SetLeds, ClearTimer1, PrintError, GetAccess, PrintAccess,
         StopInterrupts, WaitForever, Return, HandlerStep, Clears, benchmarkVars, cpuVars,
         deviceVars, errorVars

LEMMA InterruptKeeps ==
  ASSUME Interrupt
  PROVE  /\ handler = "none" /\ handler' = "entry"
         /\ UNCHANGED << pc, step, timer, icerror, last_error >>
  BY DEF Interrupt, deviceVars, errorVars

-----------------------------------------------------------------------------
(* The timers.                                                             *)

LEMMA PacedTimers ==
  ASSUME NEW t, Paced(t)
  PROVE  /\ Paced(timer_reset(t)) /\ ~timer_reset(t).run
         /\ Paced(timer_start(t))
         /\ Paced(timer_clear(t, ReadControl(t))) /\ (timer_clear(t, ReadControl(t)).run <=> t.run)
         /\ ~t.run => \A c \in 1..(Counts - 1) :
                        Paced(timer_set_compare(t, c)) /\ ~timer_set_compare(t, c).run
         /\ t.run /\ ~TimerIrq(t) => /\ Paced(TimerTick(t)) /\ TimerTick(t).run
                                     /\ TimerTick(t).counter = t.counter + 1
  <1> USE CountsAssumption
  <1>0. t \in Timers /\ t.counter <= t.compare /\ (~t.run => t.counter = 0)
    BY DEF Paced
  <1> DEFINE Reset(on) == [ t EXCEPT !.run = on, !.counter = 0 ]
  <1>a. ASSUME NEW on \in BOOLEAN
        PROVE  Paced(Reset(on)) /\ (Reset(on).run <=> on)
    <2>1. Reset(on) \in Timers
      <3>1. t \in [ run : BOOLEAN, counter : 0..(Counts - 1), compare : 0..(Counts - 1) ]
        BY <1>0 DEF Timers
      <3>2. 0 \in 0..(Counts - 1)
        OBVIOUS
      <3>3. Reset(on) \in [ run : BOOLEAN, counter : 0..(Counts - 1), compare : 0..(Counts - 1) ]
        BY <1>a, <3>1, <3>2, Zenon
      <3> QED
        BY <3>3 DEF Timers
    <2>2. Reset(on).run = on /\ Reset(on).counter = 0 /\ Reset(on).compare = t.compare
      BY <1>0 DEF Timers
    <2>3. 0 <= t.compare
      BY <1>0 DEF Timers
    <2> HIDE DEF Reset
    <2>4. Paced(Reset(on))
      BY <2>1, <2>2, <2>3 DEF Paced
    <2> QED
      BY <2>2, <2>4
  <1>b. timer_reset(t) = Reset(FALSE)
    <2>1. CONTROL_CLEAR \in { CONTROL_CLEAR } /\ CONTROL_RUN \notin { CONTROL_CLEAR }
      BY DEF CONTROL_RUN, CONTROL_CLEAR
    <2>2. (CONTROL_RUN \in { CONTROL_CLEAR }) = FALSE
      BY <2>1
    <2> QED
      BY <2>1, <2>2 DEF timer_reset, WriteControl
  <1>c. timer_start(t) = Reset(TRUE)
    <2>1. (CONTROL_RUN \in { CONTROL_RUN, CONTROL_CLEAR }) = TRUE
      OBVIOUS
    <2> QED
      BY <2>1 DEF timer_start, WriteControl
  <1>d. timer_clear(t, ReadControl(t)) = Reset(t.run)
    <2>1. t.run \in BOOLEAN
      BY <1>0 DEF Timers
    <2>2. CONTROL_RUN \in ReadControl(t) \cup { CONTROL_CLEAR } <=> t.run
      BY DEF ReadControl, CONTROL_RUN, CONTROL_CLEAR
    <2>3. (CONTROL_RUN \in ReadControl(t) \cup { CONTROL_CLEAR }) = t.run
      BY <2>1, <2>2
    <2>4. CONTROL_CLEAR \in ReadControl(t) \cup { CONTROL_CLEAR }
      OBVIOUS
    <2> QED
      BY <2>3, <2>4 DEF timer_clear, WriteControl
  <1>1. Paced(timer_reset(t)) /\ ~timer_reset(t).run
    BY <1>a, <1>b
  <1>2. Paced(timer_start(t))
    BY <1>a, <1>c
  <1>3. Paced(timer_clear(t, ReadControl(t))) /\ (timer_clear(t, ReadControl(t)).run <=> t.run)
    <2>1. t.run \in BOOLEAN
      BY <1>0 DEF Timers
    <2> QED
      BY <1>a, <1>d, <2>1
  <1>4. ASSUME ~t.run, NEW c \in 1..(Counts - 1)
        PROVE  Paced(timer_set_compare(t, c)) /\ ~timer_set_compare(t, c).run
    BY <1>0, <1>4 DEF Paced, timer_set_compare, WriteCompare, Timers
  <1>5. ASSUME t.run, ~TimerIrq(t)
        PROVE  /\ Paced(TimerTick(t)) /\ TimerTick(t).run
               /\ TimerTick(t).counter = t.counter + 1
    <2>1. t.counter + 1 <= t.compare /\ t.counter + 1 \in 0..(Counts - 1)
      BY <1>0, <1>5 DEF TimerIrq, Timers
    <2>2. (t.counter + 1) % Counts = t.counter + 1
      BY <2>1
    <2>3. TimerTick(t) = [ t EXCEPT !.counter = t.counter + 1 ]
      BY <1>0, <1>5, <2>2 DEF TimerTick, TimerIrq, Timers
    <2> QED
      BY <1>0, <1>5, <2>1, <2>3 DEF Paced, Timers
  <1> QED
    BY <1>1, <1>2, <1>3, <1>4, <1>5

LEMMA PacedAfter ==
  ASSUME TimersInv, NEW t \in 0..1, NEW new, Paced(new), timer' = [ timer EXCEPT ![t] = new ],
         step' \in Nat, step' >= step, new.run => step' > 6 + 3 * t
  PROVE  TimersInv'
  <1>1. timer \in [ 0..1 -> Timers ] /\ new \in Timers /\ step \in Nat
    BY DEF TimersInv, Paced
  <1>2. timer' \in [ 0..1 -> Timers ]
    BY <1>1
  <1>3. ASSUME NEW u \in 0..1
        PROVE  Paced(timer'[u]) /\ (timer'[u].run => step' > 6 + 3 * u)
    <2>1. CASE u = t
      BY <1>1, <2>1
    <2>2. CASE u # t
      <3>1. timer'[u] = timer[u]
        BY <1>1, <2>2
      <3> QED
        BY <1>1, <3>1 DEF TimersInv
    <2> QED
      BY <2>1, <2>2
  <1> QED
    BY <1>2, <1>3 DEF TimersInv, Paced

LEMMA TimersSetup ==
  ASSUME TimersInv, Setup
  PROVE  TimersInv'
  <1>1. CASE ConfigureTimer
    <2>1. step' = step + 1 /\ step \in Nat
      BY <1>1 DEF ConfigureTimer, Sets, TimersInv
    <2>2. PICK t \in 0..1 :
            \/ step = 4 + 3 * t /\ timer' = [timer EXCEPT ![t] = timer_reset(timer[t])]
            \/ step = 5 + 3 * t /\ timer' = [timer EXCEPT ![t] = timer_set_compare(timer[t], Compare[t])]
            \/ step = 6 + 3 * t /\ timer' = [timer EXCEPT ![t] = timer_start(timer[t])]
      BY <1>1 DEF ConfigureTimer
    <2>3. Paced(timer[t]) /\ ~timer[t].run
      BY <2>1, <2>2 DEF TimersInv
    <2>4. Compare[t] \in 1..(Counts - 1)
      BY BenchmarkAssumption
    <2>5. /\ Paced(timer_reset(timer[t])) /\ ~timer_reset(timer[t]).run
          /\ Paced(timer_set_compare(timer[t], Compare[t])) /\ ~timer_set_compare(timer[t], Compare[t]).run
          /\ Paced(timer_start(timer[t]))
      BY <2>3, <2>4, PacedTimers
    <2>6. PICK new : /\ Paced(new) /\ timer' = [timer EXCEPT ![t] = new]
                     /\ new.run => step = 6 + 3 * t
      BY <2>2, <2>5
    <2>7. step' \in Nat /\ step' >= step /\ (new.run => step' > 6 + 3 * t)
      BY <2>1, <2>2, <2>6
    <2> QED
      BY <2>6, <2>7, PacedAfter
  <1>2. CASE ~ConfigureTimer
    <2>1. UNCHANGED timer /\ step' \in { step, step + 1 }
      BY <1>2 DEF Setup, ConfigureGpio, ConfigureUart, ConfigureIcerror, ConfigureIrq,
                  ConfigureInterrupts, Sets, deviceVars
    <2> QED
      BY <2>1 DEF TimersInv, Paced
  <1> QED
    BY <1>1, <1>2

LEMMA TimersStep ==
  ASSUME TimersInv, [SoftwareNext]_softwareVars
  PROVE  TimersInv'
  <1>1. CASE Setup
    BY <1>1, TimersSetup
  <1>2. CASE \E t \in 0..1 : Tick(t)
    <2>1. PICK t \in 0..1 : /\ timer[t].run /\ ~TimerIrq(timer[t]) /\ step' = step
                            /\ timer' = [timer EXCEPT ![t] = TimerTick(timer[t])]
      BY <1>2 DEF Tick, cpuVars
    <2> DEFINE new == TimerTick(timer[t])
    <2>2. Paced(new) /\ (timer[t].run => step > 6 + 3 * t) /\ step \in Nat
      BY <2>1, PacedTimers DEF TimersInv
    <2> HIDE DEF new
    <2>3. step' \in Nat /\ step' >= step /\ (new.run => step' > 6 + 3 * t)
      BY <2>1, <2>2
    <2>4. timer' = [timer EXCEPT ![t] = new]
      BY <2>1 DEF new
    <2> QED
      BY <2>2, <2>3, <2>4, PacedAfter
  <1>3. CASE ClearTimer0 \/ ClearTimer1
    <2>1. PICK t \in 0..1 : /\ timer' = [timer EXCEPT ![t] = timer_clear(timer[t], ReadControl(timer[t]))]
                            /\ step' = step
      BY <1>3 DEF ClearTimer0, ClearTimer1, Clears, HandlerStep
    <2> DEFINE new == timer_clear(timer[t], ReadControl(timer[t]))
    <2>2. Paced(new) /\ (new.run => step > 6 + 3 * t) /\ step \in Nat
      BY PacedTimers DEF TimersInv
    <2> HIDE DEF new
    <2>3. step' \in Nat /\ step' >= step /\ (new.run => step' > 6 + 3 * t)
      BY <2>1, <2>2
    <2>4. timer' = [timer EXCEPT ![t] = new]
      BY <2>1 DEF new
    <2> QED
      BY <2>2, <2>3, <2>4, PacedAfter
  <1>4. CASE UNCHANGED << timer, step >>
    BY <1>4 DEF TimersInv, Paced
  <1>5. CASE Loop \/ Interrupt \/ Stray \/ UNCHANGED serviceVars \/ UNCHANGED softwareVars
    <2>1. UNCHANGED << timer, step >>
      BY <1>5, LoopKeeps, InterruptKeeps
         DEF Stray, serviceVars, softwareVars, benchmarkVars, deviceVars, cpuVars
    <2> QED
      BY <1>4, <2>1
  <1>6. CASE Handler
    BY <1>3, <1>4, <1>6, HandlerKeeps
  <1> QED
    BY <1>1, <1>2, <1>5, <1>6, ServiceCases

-----------------------------------------------------------------------------
(* The error unit.                                                         *)

LEMMA ErrorKnown ==
  ASSUME ErrorInv
  PROVE  /\ last_error.type \in { "NONE", "READ", "WRITE" }
         /\ last_error.type = "NONE" <=> last_error = NoError
         /\ icerror.prev_error_access = last_error.type
         /\ ~icerror.irq_reset
         /\ access = "READ" /\ access = last_error.type =>
              last_error = [ type |-> "READ", address |-> icerror_get_read_address(icerror) ]
         /\ access = "WRITE" /\ access = last_error.type =>
              last_error = [ type |-> "WRITE", address |-> icerror_get_write_address(icerror) ]
  BY BenchmarkAssumption
     DEF ErrorInv, NoError, icerror_get_read_address, icerror_get_write_address

(* One clock edge: a request is forgotten, or an access is recorded.       *)
LEMMA RecordedFields ==
  ASSUME NEW e \in Icerrors, NEW error \in Strays
  PROVE  /\ Recorded(e, error) \in Icerrors
         /\ Recorded(e, error).prev_error_access = error.type
         /\ error.type = "READ" => Recorded(e, error).read_error_address = error.address
         /\ error.type = "WRITE" => Recorded(e, error).write_error_address = error.address
  <1>1. error.address \in Addresses /\ error.type \in { "READ", "WRITE" }
    BY BenchmarkAssumption DEF Addresses
  <1>2. CASE error.type = "READ"
    <2> DEFINE e1 == [e EXCEPT !.prev_error_access = "READ", !.read_error_address = error.address]
    <2>1. Recorded(e, error) = e1
      BY <1>2 DEF Recorded
    <2>2. e1 \in Icerrors
      BY <1>1 DEF Icerrors
    <2>3. e1.prev_error_access = "READ" /\ e1.read_error_address = error.address
      BY DEF Icerrors
    <2> QED
      BY <1>2, <2>1, <2>2, <2>3
  <1>3. CASE error.type = "WRITE"
    <2> DEFINE e1 == [e EXCEPT !.prev_error_access = "WRITE", !.write_error_address = error.address]
    <2>1. Recorded(e, error) = e1
      BY <1>3 DEF Recorded
    <2>2. e1 \in Icerrors
      BY <1>1 DEF Icerrors
    <2>3. e1.prev_error_access = "WRITE" /\ e1.write_error_address = error.address
      BY DEF Icerrors
    <2> QED
      BY <1>3, <2>1, <2>2, <2>3
  <1> QED
    BY <1>1, <1>2, <1>3

LEMMA ResetWritten ==
  ASSUME NEW e \in Icerrors, NEW control \in BOOLEAN
  PROVE  /\ [e EXCEPT !.irq_reset = control] \in Icerrors
         /\ [e EXCEPT !.irq_reset = control].irq_reset <=> control
         /\ [e EXCEPT !.irq_reset = control].prev_error_access = e.prev_error_access
         /\ [e EXCEPT !.irq_reset = control].read_error_address = e.read_error_address
         /\ [e EXCEPT !.irq_reset = control].write_error_address = e.write_error_address
  <1> DEFINE e1 == [e EXCEPT !.irq_reset = control]
  <1>1. e1 \in Icerrors
    BY Zenon DEF Icerrors
  <1>2. e1.irq_reset = control
    BY DEF Icerrors
  <1>3. /\ e1.prev_error_access = e.prev_error_access
        /\ e1.read_error_address = e.read_error_address
        /\ e1.write_error_address = e.write_error_address
    BY DEF Icerrors
  <1> HIDE DEF e1
  <1>4. e1 \in Icerrors /\ (e1.irq_reset <=> control)
    BY <1>1, <1>2
  <1> QED
    BY <1>3, <1>4 DEF e1

(* The setup of the unit leaves it without a request.                      *)
LEMMA ResetUnit ==
  ASSUME NEW e \in Icerrors, ~e.irq_reset
  PROVE  LET cleared == IcerrorClock(IcerrorClock(e, TRUE, NoError), FALSE, NoError)
         IN  cleared \in Icerrors /\ ~cleared.irq_reset /\ cleared.prev_error_access = "NONE"
  <1> DEFINE e1 == [e EXCEPT !.irq_reset = TRUE]
             e2 == [e1 EXCEPT !.prev_error_access = "NONE"]
             e3 == [e2 EXCEPT !.irq_reset = FALSE]
  <1>1. IcerrorClock(e, TRUE, NoError) = e1
    BY DEF IcerrorClock, Recorded, NoError
  <1>2. e1 \in Icerrors /\ e1.irq_reset
    BY ResetWritten
  <1>3. IcerrorClock(e1, FALSE, NoError) = e3
    BY <1>2 DEF IcerrorClock
  <1> HIDE DEF e1
  <1>4. e2 \in Icerrors /\ e2.prev_error_access = "NONE"
    BY <1>2 DEF Icerrors
  <1> HIDE DEF e2
  <1>5. e3 \in Icerrors /\ ~e3.irq_reset /\ e3.prev_error_access = "NONE"
    BY <1>4, ResetWritten
  <1> QED
    BY <1>1, <1>3, <1>5

(* A stray access is recorded.                                             *)
LEMMA StrayRecorded ==
  ASSUME NEW e \in Icerrors, ~e.irq_reset, NEW error \in Strays
  PROVE  LET e1 == IcerrorClock(e, FALSE, error)
         IN  /\ e1 \in Icerrors /\ ~e1.irq_reset
             /\ e1.prev_error_access = error.type
             /\ error.type = "READ" => e1.read_error_address = error.address
             /\ error.type = "WRITE" => e1.write_error_address = error.address
  <1> DEFINE r == Recorded(e, error)
  <1>1. IcerrorClock(e, FALSE, error) = [r EXCEPT !.irq_reset = FALSE]
    BY DEF IcerrorClock
  <1> HIDE DEF r
  <1>2. /\ r \in Icerrors /\ r.prev_error_access = error.type
        /\ error.type = "READ" => r.read_error_address = error.address
        /\ error.type = "WRITE" => r.write_error_address = error.address
    BY RecordedFields DEF r
  <1> DEFINE e1 == [r EXCEPT !.irq_reset = FALSE]
  <1>3. /\ e1 \in Icerrors /\ ~e1.irq_reset /\ e1.prev_error_access = r.prev_error_access
        /\ e1.read_error_address = r.read_error_address
        /\ e1.write_error_address = r.write_error_address
    BY <1>2, ResetWritten
  <1> QED
    BY <1>1, <1>2, <1>3

\* What ErrorInv says of the unit, when no handler runs.
LEMMA ErrorSame ==
  ASSUME ErrorInv, UNCHANGED << icerror, last_error >>, pc' = "setup" => pc = "setup",
         handler' \notin { "type", "off", "wfi" }
  PROVE  ErrorInv'
  BY DEF ErrorInv

LEMMA ErrorSetup ==
  ASSUME ErrorInv, Setup
  PROVE  ErrorInv'
  <1>1. /\ handler' = "none" /\ pc = "setup" /\ UNCHANGED last_error
        /\ ConfigureIcerror \/ UNCHANGED icerror
    BY DEF Setup, ConfigureGpio, ConfigureUart, ConfigureTimer, ConfigureIcerror, ConfigureIrq,
           ConfigureInterrupts, Sets, deviceVars, errorVars
  <1>2. CASE ConfigureIcerror
    <2>1. icerror' = IcerrorClock(IcerrorClock(icerror, TRUE, NoError), FALSE, NoError)
      BY <1>2 DEF ConfigureIcerror
    <2>2. icerror' \in Icerrors /\ ~icerror'.irq_reset /\ icerror'.prev_error_access = "NONE"
      BY <2>1, ResetUnit DEF ErrorInv
    <2>3. last_error' = NoError /\ NoError.type = "NONE"
      BY <1>1 DEF ErrorInv, NoError
    <2> QED
      BY <1>1, <2>2, <2>3 DEF ErrorInv
  <1> QED
    BY <1>1, <1>2, ErrorSame

LEMMA ErrorStray ==
  ASSUME ErrorInv, Stray
  PROVE  ErrorInv'
  <1>1. PICK error \in Strays : icerror' = IcerrorClock(icerror, FALSE, error) /\ last_error' = error
    BY DEF Stray
  <1>2. pc' = "hash" /\ handler' = "none"
    BY DEF Stray, cpuVars
  <1> QED
    BY <1>1, <1>2, StrayRecorded DEF ErrorInv

LEMMA ErrorHandler ==
  ASSUME ErrorInv, RequestInv, Handler
  PROVE  ErrorInv'
  <1>1. UNCHANGED << pc, icerror, last_error >>
    BY HandlerKeeps
  <1>2. CASE GetAccess
    <2>1. /\ handler' = "type"
          /\ access' = icerror_get_access_type(ReadStatus(icerror), ReadStatus(icerror))
      BY <1>2 DEF GetAccess, HandlerStep
    <2>2. access' = last_error.type
      BY <2>1, ErrorKnown
         DEF icerror_get_access_type, ReadStatus, STATUS_IRQ_STATUS, STATUS_READ_ERROR, STATUS_WRITE_ERROR
    <2> QED
      BY <1>1, <2>1, <2>2 DEF ErrorInv
  <1>3. CASE PrintAccess
    <2>1. /\ handler = "type" /\ handler' = "off"
          /\ said' = CASE access = "READ"  -> [ type |-> "READ", address |-> icerror_get_read_address(icerror) ]
                       [] access = "WRITE" -> [ type |-> "WRITE", address |-> icerror_get_write_address(icerror) ]
                       [] OTHER            -> NoError
      BY <1>3 DEF PrintAccess, HandlerStep
    <2>2. access = last_error.type /\ access \in { "READ", "WRITE" }
      BY <2>1, ErrorKnown DEF ErrorInv, RequestInv, ErrorBranch, error_irq
    <2>3. said' = last_error
      BY <2>1, <2>2, ErrorKnown
    <2> QED
      BY <1>1, <2>1, <2>3 DEF ErrorInv
  <1>4. CASE StopInterrupts
    <2>1. handler = "off" /\ handler' = "wfi" /\ UNCHANGED said
      BY <1>4 DEF StopInterrupts, HandlerStep
    <2> QED
      BY <1>1, <2>1 DEF ErrorInv
  <1>5. CASE WaitForever
    <2>1. UNCHANGED << handler, said >>
      BY <1>5 DEF WaitForever, benchmarkVars, cpuVars, errorVars
    <2>2. handler = "wfi"
      BY <1>5 DEF WaitForever
    <2> QED
      BY <1>1, <2>1, <2>2 DEF ErrorInv
  <1>6. CASE ~(GetAccess \/ PrintAccess \/ StopInterrupts \/ WaitForever)
    <2>1. handler' \notin { "type", "off", "wfi" }
      BY <1>6 DEF Handler, Dispatch, Branch, ReadCount, PrintNumber, PrintUnit, SetReset, ClearTimer0,
             ShiftLed, ReadSwitches, ReadButtons, SetLeds, ClearTimer1, PrintError, Return,
             HandlerStep
    <2> QED
      BY <1>1, <2>1, ErrorSame
  <1> QED
    BY <1>2, <1>3, <1>4, <1>5, <1>6

LEMMA ErrorStep ==
  ASSUME ErrorInv, RequestInv, [SoftwareNext]_softwareVars
  PROVE  ErrorInv'
  <1>1. CASE Setup \/ Stray \/ Handler
    BY <1>1, ErrorSetup, ErrorStray, ErrorHandler
  <1>2. CASE Loop \/ Interrupt
    BY <1>2, LoopKeeps, InterruptKeeps, ErrorSame
  <1>3. CASE (\E t \in 0..1 : Tick(t)) \/ UNCHANGED serviceVars \/ UNCHANGED softwareVars
    <2>1. UNCHANGED << pc, handler, icerror, last_error, access, said >>
      BY <1>3 DEF Tick, cpuVars, localVars, errorVars, deviceVars, serviceVars, softwareVars,
                  benchmarkVars
    <2> QED
      BY <2>1 DEF ErrorInv
  <1> QED
    BY <1>1, <1>2, <1>3, ServiceCases

-----------------------------------------------------------------------------
(* The requests.                                                           *)

LEMMA LinesUp ==
  /\ "TIMER0" \in Lines <=> TimerIrq(timer[0])
  /\ "TIMER1" \in Lines <=> TimerIrq(timer[1])
  /\ "BUS_ERROR" \in Lines <=> error_irq(icerror)
  /\ Lines \subseteq { "TIMER0", "TIMER1", "BUS_ERROR" }
  BY DEF Lines

(* The request that is reported is one of those asserted.                  *)
LEMMA LowestAsserted ==
  ASSUME NEW mask, Asserted(irq_array(Lines), mask) # {}
  PROVE  \E d \in Lines : irq_asserted_num(irq_array(Lines), mask) = IRQ_INDEX[d]
  <1> DEFINE asserted == Asserted(irq_array(Lines), mask)
  <1>1. asserted \subseteq irq_array(Lines)
    BY DEF Asserted
  <1>2. \A i \in irq_array(Lines) : \E d \in Lines : i = IRQ_INDEX[d]
    BY DEF irq_array
  <1>3. irq_array(Lines) \subseteq { 0, 1, 4 }
    BY LinesUp DEF irq_array, IRQ_INDEX
  <1>4. \E i \in asserted : \A j \in asserted : i <= j
    <2>1. asserted # {} /\ asserted \subseteq { 0, 1, 4 }
      BY <1>1, <1>3
    <2> HIDE DEF asserted
    <2>2. CASE 0 \in asserted
      BY <2>1, <2>2
    <2>3. CASE 0 \notin asserted /\ 1 \in asserted
      BY <2>1, <2>3
    <2>4. CASE 0 \notin asserted /\ 1 \notin asserted
      <3>1. asserted = { 4 }
        BY <2>1, <2>4
      <3> QED
        BY <3>1
    <2> QED
      BY <2>2, <2>3, <2>4
  <1>5. irq_asserted_num(irq_array(Lines), mask) \in asserted
    BY <1>4 DEF irq_asserted_num
  <1> QED
    BY <1>1, <1>2, <1>5

LEMMA DispatchRight ==
  ASSUME RequestInv, Dispatch
  PROVE  \/ handler' = "count" /\ TimerIrq(timer[0])
         \/ handler' = "shift" /\ TimerIrq(timer[1])
         \/ handler' = "say" /\ error_irq(icerror)
  <1>1. PICK d \in Lines : mcause = McauseWord(IrqCause(IRQ_INDEX[d]))
    BY DEF Dispatch, RequestInv
  <1>2. d \in { "TIMER0", "TIMER1", "BUS_ERROR" }
    BY LinesUp
  <1>3. IRQ_INDEX[d] \in 0..15
    BY <1>2 DEF IRQ_INDEX
  <1>4. IsIrq(mcause) /\ IrqOf(mcause) = IRQ_INDEX[d]
    BY <1>1, <1>3, RequestWord
  <1>5. handler' = IF Branch = "default" THEN "return" ELSE Branch
    BY DEF Dispatch
  <1>6. CASE d = "TIMER0"
    <2>1. Branch = "count"
      BY <1>4, <1>6 DEF Branch, IRQ_INDEX, PLATFORM_IRQ
    <2> QED
      BY <1>5, <1>6, <2>1, LinesUp
  <1>7. CASE d = "TIMER1"
    <2>1. Branch = "shift"
      BY <1>4, <1>7 DEF Branch, IRQ_INDEX, PLATFORM_IRQ
    <2> QED
      BY <1>5, <1>7, <2>1, LinesUp
  <1>8. CASE d = "BUS_ERROR"
    <2>1. Branch = "say"
      BY <1>4, <1>8 DEF Branch, IRQ_INDEX, PLATFORM_IRQ
    <2> QED
      BY <1>5, <1>8, <2>1, LinesUp
  <1> QED
    BY <1>2, <1>6, <1>7, <1>8

LEMMA RequestHandler ==
  ASSUME RequestInv, Handler
  PROVE  RequestInv'
  <1> USE DEF CountBranch, LedBranch, ErrorBranch
  <1>1. UNCHANGED icerror
    BY HandlerKeeps
  <1>2. CASE Dispatch
    <2>1. UNCHANGED timer
      BY <1>2 DEF Dispatch, deviceVars
    <2> QED
      BY <1>1, <1>2, <2>1, DispatchRight DEF RequestInv
  <1>3. CASE ClearTimer0 \/ ClearTimer1 \/ Return
    <2>1. handler' \in { "none", "return" }
      BY <1>3 DEF ClearTimer0, ClearTimer1, Return, HandlerStep
    <2> QED
      BY <2>1 DEF RequestInv
  <1>4. CASE ~(Dispatch \/ ClearTimer0 \/ ClearTimer1 \/ Return)
    <2>1. UNCHANGED timer
      BY <1>4, HandlerKeeps
    <2>2. \/ handler \in CountBranch /\ handler' \in CountBranch
          \/ handler \in LedBranch /\ handler' \in LedBranch
          \/ handler \in ErrorBranch /\ handler' \in ErrorBranch
      BY <1>4 DEF Handler, ReadCount, PrintNumber, PrintUnit, SetReset, ShiftLed, ReadSwitches,
             ReadButtons, SetLeds, PrintError, GetAccess, PrintAccess, StopInterrupts, WaitForever,
             HandlerStep, benchmarkVars, cpuVars
    <2> QED
      BY <1>1, <2>1, <2>2 DEF RequestInv
  <1> QED
    BY <1>2, <1>3, <1>4

LEMMA RequestStep ==
  ASSUME RequestInv, TimersInv, [SoftwareNext]_softwareVars
  PROVE  RequestInv'
  <1> USE DEF CountBranch, LedBranch, ErrorBranch
  <1>1. CASE Setup \/ Loop \/ Stray
    <2>1. handler' = "none"
      BY <1>1, LoopKeeps DEF Setup, ConfigureGpio, ConfigureUart, ConfigureTimer, ConfigureIcerror,
         ConfigureIrq, ConfigureInterrupts, Sets, Stray, cpuVars
    <2> QED
      BY <2>1 DEF RequestInv
  <1>2. CASE Interrupt
    <2>1. /\ handler' = "entry" /\ UNCHANGED << timer, icerror >>
          /\ Asserted(irq_array(Lines), mie) # {}
          /\ mcause' = McauseWord(IrqCause(irq_asserted_num(irq_array(Lines), mie)))
      BY <1>2 DEF Interrupt, Pending, deviceVars
    <2>2. PICK d \in Lines : mcause' = McauseWord(IrqCause(IRQ_INDEX[d]))
      BY <2>1, LowestAsserted
    <2>3. Lines' = Lines
      BY <2>1 DEF Lines
    <2> QED
      BY <2>1, <2>2, <2>3 DEF RequestInv
  <1>3. CASE Handler
    BY <1>3, RequestHandler
  <1>4. CASE \E t \in 0..1 : Tick(t)
    <2>1. PICK t \in 0..1 : /\ ~TimerIrq(timer[t])
                            /\ timer' = [timer EXCEPT ![t] = TimerTick(timer[t])]
                            /\ UNCHANGED << handler, mcause, icerror >>
      BY <1>4 DEF Tick, cpuVars
    <2>2. \A u \in 0..1 : TimerIrq(timer[u]) => timer'[u] = timer[u]
      BY <2>1 DEF TimersInv
    <2>3. /\ TimerIrq(timer[0]) => TimerIrq(timer'[0])
          /\ TimerIrq(timer[1]) => TimerIrq(timer'[1])
          /\ error_irq(icerror) => error_irq(icerror')
      BY <2>1, <2>2
    <2>4. Lines \subseteq Lines'
      BY <2>3 DEF Lines
    <2> QED
      BY <2>1, <2>3, <2>4 DEF RequestInv
  <1>5. CASE UNCHANGED serviceVars \/ UNCHANGED softwareVars
    <2>1. UNCHANGED << handler, mcause, timer, icerror >>
      BY <1>5 DEF serviceVars, softwareVars, benchmarkVars, cpuVars, deviceVars
    <2> QED
      BY <2>1 DEF RequestInv, Lines
  <1> QED
    BY <1>1, <1>2, <1>3, <1>4, <1>5, ServiceCases

-----------------------------------------------------------------------------

LEMMA ServiceInitially ==
  ASSUME SoftwareInit
  PROVE  ServiceInv
  <1> USE DEF SoftwareInit, BenchmarkInit
  <1>1. NewTimer \in Timers /\ Paced(NewTimer) /\ ~NewTimer.run
    BY CountsAssumption DEF NewTimer, Timers, Paced
  <1>2. TimersInv
    <2>1. timer = [ t \in 0..1 |-> NewTimer ] /\ step = 1
      OBVIOUS
    <2> QED
      BY <1>1, <2>1 DEF TimersInv
  <1>3. ErrorInv
    BY DEF ErrorInv, NewIcerror, NoError, Icerrors, Addresses
  <1>4. RequestInv
    BY DEF RequestInv, CountBranch, LedBranch, ErrorBranch
  <1> QED
    BY <1>2, <1>3, <1>4 DEF ServiceInv

LEMMA ServiceStep ==
  ASSUME ServiceInv, [SoftwareNext]_softwareVars
  PROVE  ServiceInv'
  BY TimersStep, ErrorStep, RequestStep DEF ServiceInv

(* A request stays until the handler's own branch for it is over, the      *)
(* timers keep their pace, and the error unit holds the last stray access, *)
(* whatever the interrupts and the devices do in between                   *)
(* (src/software/sha256/main.c:33-109).                                    *)
THEOREM ServiceInvariant == SoftwareSpec => []ServiceInv
  BY ServiceInitially, ServiceStep, PTL DEF SoftwareSpec

(* What is reported of a bus error is the last access that no device       *)
(* claimed (src/software/sha256/main.c:78-103).                            *)
THEOREM ErrorIsReported == SoftwareSpec => []ErrorReported
  <1>1. ServiceInv => ErrorReported
    BY DEF ServiceInv, ErrorInv, ErrorReported
  <1> QED
    BY <1>1, ServiceInvariant, PTL

(* No period of a timer is cut short: after the setup a timer goes back to *)
(* zero only from its compare value (src/software/sha256/main.c:54,73).    *)
THEOREM PeriodsAreWhole == SoftwareSpec => ClearsExpired
  <1>1. ASSUME ServiceInv, [SoftwareNext]_softwareVars, NEW t \in 0..1, pc # "setup",
               timer[t].counter # 0, timer'[t].counter = 0
        PROVE  TimerIrq(timer[t])
    <2> SUFFICES ASSUME ~TimerIrq(timer[t])
                 PROVE  FALSE
      OBVIOUS
    <2>1. timer \in [ 0..1 -> Timers ] /\ Paced(timer[t])
      BY <1>1 DEF ServiceInv, TimersInv
    <2>2. CASE \E u \in 0..1 : Tick(u)
      <3>1. PICK u \in 0..1 : /\ timer[u].run /\ ~TimerIrq(timer[u])
                              /\ timer' = [timer EXCEPT ![u] = TimerTick(timer[u])]
        BY <2>2 DEF Tick
      <3>2. u = t
        BY <1>1, <2>1, <3>1
      <3>3. timer'[t].counter = timer[t].counter + 1
        BY <2>1, <3>1, <3>2, PacedTimers
      <3> QED
        BY <1>1, <2>1, <3>3 DEF Paced, Timers
    <2>3. CASE ClearTimer0 \/ ClearTimer1
      <3>1. \/ TimerIrq(timer[0]) /\ timer'[1] = timer[1]
            \/ TimerIrq(timer[1]) /\ timer'[0] = timer[0]
        BY <1>1, <2>1, <2>3
           DEF ClearTimer0, ClearTimer1, Clears, HandlerStep, ServiceInv, RequestInv, CountBranch,
               LedBranch
      <3>2. t = 0 \/ t = 1
        OBVIOUS
      <3> QED
        BY <1>1, <3>1, <3>2
    <2>4. CASE UNCHANGED timer
      BY <1>1, <2>4
    <2>5. CASE Setup
      <3>1. pc = "setup"
        BY <2>5 DEF Setup, ConfigureGpio, ConfigureUart, ConfigureTimer, ConfigureIcerror, ConfigureIrq,
           ConfigureInterrupts, Sets
      <3> QED
        BY <1>1, <3>1
    <2>6. CASE \/ Loop \/ Interrupt \/ Handler \/ Stray
               \/ UNCHANGED serviceVars \/ UNCHANGED softwareVars
      BY <2>3, <2>4, <2>6, LoopKeeps, InterruptKeeps, HandlerKeeps
         DEF Stray, serviceVars, softwareVars, benchmarkVars, deviceVars
    <2> QED
      BY <1>1, <2>2, <2>5, <2>6, ServiceCases
  <1>2. ServiceInv /\ [SoftwareNext]_softwareVars =>
          \A t \in 0..1 :
            pc # "setup" /\ timer[t].counter # 0 /\ timer'[t].counter = 0 => TimerIrq(timer[t])
    BY <1>1
  <1> QED
    BY <1>2, ServiceInvariant, PTL DEF ClearsExpired, SoftwareSpec

===============================================================================
