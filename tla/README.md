# Verification of the Potato processor with an out-of-order core

TLA+ models of the processor in `src/`, of the system on chip around it and of the
programs that run on it, TLC runs on small instances, and proofs that TLAPS checks for
every value of the constants.

## The system

The repository is an FPGA processor in VHDL: a RISC-V core (`src/src`), a small
system on chip around it (`src/soc`), a board design (`src/example`), its drivers
(`src/libsoc`, `src/*.h`), programs (`src/software`), instruction tests and test
benches. The core is a five-stage pipeline that was turned into an out-of-order
machine: a reorder buffer (ROB) sits between decode and execute, sends an instruction
to execute as soon as its operands are there, and commits results in program order.

| component | state | operations | interacts with |
|---|---|---|---|
| reorder buffer, `pp_rob.vhd` | table of rows with the flags `uses exec comm p1 p2`, ring pointers, `committing`, `flush`, output registers | enter, find hazards, select, send, complete, commit, flush: one clocked process each | decode (arrivals, `fetch_enable`, `rob_empty`), execute (`execution_*`), writeback (`completed_*`), register file and fetch (`commit_*`) |
| decode, `pp_decode.vhd` and its tables | instruction register, valid bits, CSR state machine | decode, hand on, keep a CSR instruction back, squash | fetch, ROB, execute |
| execute, memory, writeback, register file | one operation per stage, 32 registers | capture, advance, stall, squash, write back | ROB, data memory, CSR unit |
| CSR unit, traps | machine CSRs, pending interrupts, exception context | read, write, trap entry and return | execute, writeback |
| fetch, `pp_fetch.vhd` | program counter, `cancel_fetch` | request, advance, redirect | instruction memory or cache, decode |
| instruction cache, wishbone adapter, arbiter | cache lines, bus state machines | hit, miss, refill; request, wait, acknowledge | fetch, memory stage, bus |
| UART, FIFO, timer, GPIO, memory, error unit | registers, queues, bus state | bus reads and writes, serial transfer, interrupts | bus, pins, drivers |
| example design | address decoder, bus multiplexer, request lines | route a transfer | all peripherals |
| drivers and headers | none | read and write device registers; number CSRs, causes, requests, addresses | devices, programs |
| bootloader, benchmark, hello, start code | program variables, the loaded image | receive an image, start it; hash, count and report; handle traps | UART, timers, GPIO, error unit, each other through memory |

What is hard: every process of the ROB runs at the same clock edge and reads what
the others left at the last one, so a decision (three rows are free, this row has
no hazard, the table is empty) is one to three edges old when it takes effect;
memory wait states freeze some of the processes and not others; a taken jump
reaches the table, the stages, decode and fetch along different paths; CSR
instructions go around the table. On the bus, answers come many edges after requests
and may meet a redirection. In the programs, the handler interrupts `main` between any
two accesses, devices go on meanwhile, and queues fill up.

What makes each part correct:

- ROB and pipeline: registers change as in an in-order machine; no row is
  overwritten, sent twice or recycled before its result was committed; memory
  operations keep program order; a taken jump leaves nothing behind; nothing waits for
  ever.
- decode: a CSR instruction runs alone, in its place in the program, and once; every
  word is decoded as the instruction the headers name.
- traps: what a trap leaves in the CSRs is what its handler reads.
- fetch and cache: every delivered instruction is the one at the program counter,
  no redirect is lost, a line is returned only for its address.
- bus: one master at a time, one acknowledge per request, no transfer lost.
- peripherals: FIFO order and bounds, no character lost or repeated, an interrupt
  is seen until it is served, an error is kept until it is reported.
- programs: no hash is lost from the count, reports are true, no byte of the image is
  lost although the line waits for nobody, the image is complete when it is started.

## Modules

| module | models | state |
|---|---|---|
| `PotatoTypes` | `pp_types`, ALU, operand multiplexer, comparator | none |
| `Rob` | `pp_rob.vhd` | one variable per signal or per table column |
| `Decode` | `pp_decode.vhd`, `pp_detect_csr.vhd` | its registers |
| `Pipeline` | `pp_execute`, `pp_memory`, `pp_writeback`, `pp_register_file` | `registers`, and the operation in each stage |
| `Core` | `pp_core.vhd`: composes the three above | theirs |
| `Isa` | the abstract in-order machine | architectural registers, queue of instructions in flight |
| `CoreProperties`, `CoreProofs`, `MCCore` | properties, the mapping to `Isa` and the inductive invariant; proofs; programs for TLC, of which a run keeps to one | `MCCore`: the program |
| `Fetch` | `pp_fetch.vhd` | its registers |
| `ICache`, `WbAdapter`, `WbArbiter`, `SocMemory` | `pp_icache`, `pp_wb_adapter`, `pp_wb_arbiter` with the address decoder of `example/toplevel`, `pp_soc_memory` with the error port of `pp_soc_intercon` | none: a component is a record of its registers, and an operator gives the record after an edge, because there are several instances |
| `MemorySystem` | `pp_potato.vhd`, the data port of `pp_core.vhd`, the bus of `example/toplevel.vhd`: composes the five above | one record per instance, and the data port |
| `InstructionStream`, `DataMemory` | what fetching and the data side promise | abstract |
| `MemoryProofs`, `MCMemory` | the inductive invariant, with the cache and without, and the proofs; address map and operations for TLC | |
| `Fifo` | `pp_fifo.vhd` | none: a record, as above |
| `Uart` | `pp_soc_uart.vhd` with its two queues | its signals |
| `UartLink` | the UART looped back, driven by the functions of `libsoc/uart.h` | bus, software, histories |
| `UartLine` | the receiver on the line of another device | that device |
| `UartProofs` | the inductive invariants of `UartLink` and `UartLine` and the proofs | |
| `Timer`, `Gpio`, `Icerror` | `pp_soc_timer`, `pp_soc_gpio`, `pp_soc_intercon` and their drivers `libsoc/timer.h`, `gpio.h`, `icerror.h` | none: records |
| `Words`, `Decoder`, `Encoding` | 32-bit words as sets of bits; `pp_control_unit`, `pp_alu_control_unit`, `pp_imm_decoder`; the masks of `riscv-tests/encoding.h` | none |
| `Csr`, `Trap`, `Platform`, `StartCode` | CSR numbers, bits and the functions of `potato.h` and `potato-test.h`, with the lemmas about cause words; the way into a trap through the stages and the CSR unit; `platform.h` against the board; register save and restore of `start.S` | none: a trap is a record |
| `Sha256`, `Numbers` | `sha256.c`; `int2string` of the benchmark | the hash context; none |
| `FunctionProperties`, `DeviceProofs`, `MCFunctions` | what must hold of the modules above; proofs about devices, traps, headers and padding; the inputs TLC tries | the thing looked at |
| `Serial` | the UART as the programs see it | the two queues |
| `Benchmark` | `software/sha256/main.c`: `main` and `exception_handler` with timers, GPIO, error unit and interrupts | places of both, counters, device records |
| `Bootloader` | `software/bootloader/main.c` and the sender of the image | place, index, image |
| `Software` | composes the two with `hello` and the start code | place of `hello` |
| `SoftwareProperties`, `SoftwareProofs`, `MCSoftware` | properties and the inductive invariant; proofs; values for TLC | |

The hardware is synchronous, so the action of the hardware modules is `Clock`, one rising
edge of the clock: every clocked process is an operator named after it that gives its
signals' next values, and an edge is their conjunction. Signals keep their names;
a `std_logic` is a boolean. The non-determinism is the environment's: whether the
instruction memory delivers and what, whether the data memory answers and with
what value, and what the CSR unit returns.

The programs are asynchronous: a step of `Software` is one access of a program to state
that a device or the handler shares, a tick of a timer, a character that leaves or
comes to a queue, a button, or a stray access that no device claims.

Abstractions of the core:

- Instructions are the decoded records that enter the table, not bit patterns;
  `Decoder` says what they are decoded from.
  The stream is free: any instruction of `Instrs` may be delivered next, so every
  program over `Instrs` is covered, and every wrong path behind a jump.
- The columns `imm`, `pc`, `shamt`, `mem_size` and `funct3` are one datum `imm`;
  jump targets are not kept because the stream is free.
- An operation carries its result from the execute stage on. In the code the
  execute stage computes from registers it captured; they are held by
  combinational feedback while it waits (`pp_execute.vhd:209-217`), which the model
  takes as holding the captured value, as a simulation of the code does.
- Fields of a stage that its valid bits mask are normalised.
- `Core` has no traps: no instruction of `Instrs` raises one, and CSR reads return any
  value. `Trap` models the way of an exception and of a request into the CSRs on its
  own, without stalls and without the reorder buffer; that a jump is committed, which flushes
  the stages as an exception does, is an input of it (`branch_taken`).
- The environment `DmemAcks = {TRUE}` is a data memory that answers each request in
  the memory stage. That of `src/testbenches/tb_processor.vhd` does so except when
  two operations of one kind follow each other. The bus adapter
  (`pp_wb_adapter.vhd`) always takes at least one edge more: it is the case
  `DmemAcks = {TRUE, FALSE}`.
- `BackToBack = FALSE` is an instruction memory that does not deliver at consecutive
  edges, as the bus adapter does without the cache; TRUE is a cache hit or the
  memory of the test bench.

Abstractions of the memory system:

- Transfers are whole words and addresses count words; the shifts by byte lane and
  the select lines are left out. Instruction words are values that name their
  address, so a word from the wrong place is told apart.
- The core is the environment: it stalls fetch at any edge (`Stalls`), redirects it
  (`Targets`) and sends memory operations through the execute stage. Branch and
  exception are one redirection. A redirection lasts one edge and comes after an
  instruction was delivered since the last one, as for a committed jump, and with no
  memory operation in flight: what a jump does to those is a matter of the core.
- `ProgramAssumption`: the code is in the memory of the design, stores go there and not
  to the code, loads go anywhere in `DataAddresses`.
- `LinesAssumption`: with the cache, the code is made of whole lines, as memory is: a line
  is loaded to its end, also where the program ends within it.
- `LoadsApart = TRUE` is a program in which no load reaches the data port while a read
  is under way. It is an assumption of the runs `bus_memory` and `cache_memory`, not a
  fact of the code (see "Further behaviour of the code").
- Reset is the initial state. The memories that hold anything after power-up are
  zero, as in a simulation with initial values; no property reads them before they
  are written.

Abstractions of the devices:

- The UART's character width, samples per bit, range of the divisor and depth of
  the queues are parameters. `uart_line` uses the real width and sample count, the
  other runs smaller ones. The software in `UartLink` is disciplined as its header
  asks: it sends after it saw room and reads after it saw a character, in the status or
  by the interrupt. A load is one read of the bus there.
- Timers count modulo `Counts`; GPIO has `NUM_GPIOS` pins. An error is its type and
  address: byte selects and written data kept of it are read by no driver.

Abstractions of the programs:

- A string is sent as one character, a count as its value: `Numbers` says what
  `int2string` prints. `int2hex32`, of which no property could be stated (see "Further
  behaviour of the code"), is left out. A hash is one step: `Sha256` is what it computes.
- Interrupts and traps in `Benchmark` are what the software was written for: the handler
  starts where an enabled request is pending, or starts later or never, and returns where
  it came from. On this core it never starts (`request_repeats`), which is one of
  the behaviours of the model: its safety properties hold of this core and of one that
  starts handlers at any place. No property is stated that needs a handler to start, and no
  fairness is assumed from which one would follow.
- At most `MaxStrays` stray accesses happen, and counts stop at `MaxHashes` hashes
  between two reports for TLC; the proofs have no such bound.
- The image is sent once the greeting was read, padded to the length expected, as the
  README beside the bootloader says. There is no timeout or retry in the code, and none
  in the model. The sender and the line wait for nobody: a byte that finds the
  receive queue full is dropped, as `pp_soc_uart.vhd:161-167` does. `Pace` bounds how fast
  bytes come: not before the loop, if it has anything to do, has made `Pace` steps
  since the last one. `PaceAssumption` asks for two, a store and a dot. In the code a
  byte of 10 bits at 115200 baud lasts about 4300 cycles of 50 MHz, and each step of the
  loop is a few instructions; it never waits for room, for a dot that finds none is left out.

`Isa` is what the core promises: instructions are fetched into a queue along the
predicted path and retired from its head one by one, on the registers that all
older ones left; a taken jump empties the queue. The refinement mapping counts an
ordinary instruction as retired when the commit port latches it and a CSR
instruction when execute latches it; `ArchRegisters` lays what is latched over the
register file, and `ArchQueue` is the table in ring order followed by what decode
holds.

## Runs

The runs of the core use 4 rows (the core has 16), words of one bit and three registers.
Four rows are one more than the least that lets an instruction in and are enough to have
the table full, pointers that wrap in every position, and all stages busy with
different rows; one bit tells a result from an older one and makes branches go
both ways; two writable registers give both a hazard and its absence.

| run | environment | shows |
|---|---|---|
| `core_order` | one of two programs: `addi`, `add`, `beq` with any delivery pattern; `add`, `lw`, `sw` on one base register that the load overwrites, with a delivery at every edge; no wait states | refinement of `Isa` (`ImplementsIsa`); the inductive invariant (`CoreInv`, `NoOverwrite`, `ResultsAwaited`); memory operations stay in program order in every stage (`MemoryInOrder`); a load or store reads its base and data after they were written (`OperandsWritten`); a taken branch leaves nothing behind (`SquashComplete`) |
| `core_csr` | `addi`, a CSR instruction, `beq`; any delivery pattern that is not back to back; fairness | no pointer leaves its range (`TypeOK`); CSR instructions run alone (`CsrAlone`) and take effect in program order (refinement); every row drains and every CSR instruction proceeds (`NothingWaits`) |

Memory system: lines of two words and two lines, a program twice as long as the cache,
so that lines are hit, missed and evicted for another tag; a word of data that is stored
and loaded, and an address that nobody has, which the error port answers.

| run | environment | shows |
|---|---|---|
| `bus_memory` | instruction and data adapters, any stalls and jumps, loads apart; fairness | fetch implements `InstructionStream` (program order from each jump on); the data side implements `DataMemory`; every acknowledge belongs to the request it answers (`AnswersFit`); no operation waits for ever, and fetch goes on after any jump (`BusProceeds`) |
| `cache_memory` | the same with the cache in place of the instruction adapter | the same refinements and progress, and a valid line has the contents of its tag's addresses (`CacheFits`) |

UART:

| run | environment | shows |
|---|---|---|
| `uart_link` | three characters of two bits through a loopback, queues of two, any order of polling, interrupts and transfers; fairness | every character arrives (`AllArrives`), once and in order on the line (`LineInOrder`); reads give what was kept (`ReadsInOrder`); queues are never overrun (`QueuesRespected`) |
| `uart_line` | real sizes, two edges a sample, frames at any phase, bits 3% longer or shorter | frames of another device are received right (`LineReceived`); `SenderAssumption` holds |

Programs: queues of one character, timers of four counts that expire after two and one,
an image of three bytes with a dot after every two, at most two hashes between reports,
two stray accesses of different type and address, a button held or all switches on. So
both timers expire in every order, a handler meets a full queue, an update is
interrupted at every place that allows it, an error overwrites another one, and the image
is longer than the queue. `Pace` is two, the least that `PaceAssumption` allows: bytes come
as fast as the loop can take them, into a queue that keeps one.

| run | shows |
|---|---|
| `software` | no update of the count is lost between `main` and the handler (`CountExact`), a printed number is that of the hashes since the last one (`ReportsTrue`), a timer is cleared only when it expired (`ClearsExpired`), the report of a bus error names the last one (`ErrorReported`), with every switch on one LED is lit after each move (`OneLedLit`), no byte of the image is dropped (`BytesKept`), the image is whole when it is started (`ImageLoaded`); under fairness `hello` comes to its end and the benchmark to its loop (`ProgramsRun`) |
| `functions` | digests of messages of one and two blocks, computed round by round, padding of blocks of up to 55 bytes, every int of 12 bits but the smallest (`TextRight`); every instruction of the base set over choices of its free bits, and the extensions the core lacks and rejects (`InstructionsDecoded`); numbers of CSRs, causes and requests in hardware and headers, the verdict of a test and the number its assembler form writes (`HeadersAgree`); every state of a timer of 8 counts, of three pins and of the error unit, the address map but for the pages that select nothing (`DevicesRight`); the way of an instruction's trap with operations, requests and committed jumps at any edge, and the start code (`TrapContext`) |

Violations. Each is a disagreement of the code with a comment or a test of the
repository; the counterexamples were compared with the source signal by signal.

| run | what happens |
|---|---|
| `commit_lost` | the memory stage waits while the oldest row is committed: `commit_output` is frozen, but the row is cleared; its result never reaches the register file |
| `wrong_path_store` | a store behind a jump is executed before the jump is committed |
| `csr_survives` | `flush_id` is masked with `stall_id`, the table is nearly full while a CSR instruction behind a taken jump waits in decode: it stays, and is executed when the flush has emptied the table |
| `request_repeats` | the trap of a request flushes the memory stage, which is to latch the write of `mepc`, and at the next edge, for the request lasts and `ie` is still set, writeback, which holds the context: three edges later interrupts are on, `mcause` and `mepc` are what they were, and the handler has not started |

No passing run of the core has a data memory with wait states: after `commit_lost` its
properties do not hold. To `ImplementsIsa` the CSR instruction of `csr_survives` is one
that is fetched behind the jump, for any may be; `KeptCsrDropped` tells them apart. The
same counterexample exists with all 16 rows: a jump that waits for its operands, with 13
ordinary instructions and the CSR instruction behind it.

Fairness: `FairSpec` of the hardware modules adds `WF_vars(Clock)`: the clock keeps
ticking. It does not promise that the instruction memory ever delivers; `NothingWaits`
holds without that, with a data memory that answers at once. Arbiter, cache and slaves
answer by themselves. The part of `BusProceeds` about fetch speaks of runs in which
memory operations and jumps end, for these may stop fetch. `SoftwareSpec` assumes
that the processor goes on in the bootloader, in the setup of the benchmark and in `hello`,
that the line takes a waiting character and that the sender sends: independent
parties, each with weak fairness. None is assumed of the loop and the handler of
the benchmark, nor of the timers: on this core a request that lasts is taken again at
every edge, so after the setup nothing need go on. Nobody need touch a button and no
stray access need happen.

Deadlock is checked in every run but `functions` and `request_repeats`, whose program ends
when the digest is formatted.

### Further behaviour of the code

Met while modelling, seen in counterexamples or found on the way to a proof. Each is kept out of
the passing runs by their environment, or left out of a property by name:

- A CSR instruction delivered right behind an ordinary one finds the table still empty
  and overtakes it (`pp_decode.vhd:176`): back-to-back delivery with CSR instructions.
- The request of a load is held one edge too long and read again (`pp_core.vhd:504`);
  a load close behind takes that answer (`LoadsApart`). `uart_rx` so takes two characters
  from the receive buffer.
- A wait that meets the commit of a taken jump resets the table but not the stages
  (`pp_rob.vhd:709`, `pp_core.vhd:228-230`), so old results complete new rows; an
  instruction that arrives in the row being cleared is lost (`pp_rob.vhd:232`). Both need
  the wait states of `commit_lost`.
- A CSR instruction delivered right behind a taken jump reaches the stages at the edge
  that squashes it, and its CSR valid bit survives in the memory stage
  (`pp_decode.vhd:210`, `pp_memory.vhd:86-94`).
- A trap never stores its return address: the exception flushes the memory stage at the
  edge at which it should latch the write of `mepc` (`pp_core.vhd:229`), and the CSR unit
  would not take that write either (`pp_csr_unit.vhd:173`; theorem
  `ReturnAddressNeverStored`). A request is taken again at every edge: the flush of
  writeback drops the context of the edge before, `ie` is never cleared and the handler
  does not start (`request_repeats`, for any number of edges the theorem `RequestLasts`). A
  write of a CSR that is in the memory stage when a request arrives is lost. An interrupt
  on a bubble would save an earlier `pc`.
- A jump that is committed at the edge after an instruction's trap was taken drops its
  context in writeback too (`pp_core.vhd:230`); `TrapContext` asks that it stays away.
- Accesses to `ffff0000` to `ffff7fff` select no peripheral and never end
  (`toplevel.vhd:206-220`), although `pp_soc_intercon.vhd:29-31` wants erroneous accesses
  routed to it; `DevicesRight` leaves them out (`Unselected`).
- `LWU` is decoded as `LW`, and the eight multiplications and divisions as base
  instructions: the tables do not look at the bits that differ, although
  `pp_control_unit.vhd:17-18` says that invalid instructions cause an exception.
  `InstructionsDecoded` leaves them out (`Mistaken`).
- A divisor of 0 written at the edge that raises the sample clock leaves it high
  (`pp_soc_uart.vhd:263`), although line 30 says the clock is stopped.
- `int2hex32` prints nibbles 1 to 7 with the lowest first, and nibble 0 last by a shift
  of 32 that C leaves undefined (`main.c:218-219`), and not the hexadecimal string of
  `main.c:30`; the report of a write error has no label for its address. `int2hex32` is
  not modelled.
- `int2string` of the smallest int prints characters below `0`; `TextRight` leaves
  that int out. No count is negative.
- With no hash between two reports the old number is printed again (`main.c:45-48`),
  although `main.c:43` has the hashes since the last interrupt; `ReportsTrue` leaves that
  case out.
- `POTATO_TEST_START` in its C form doubles the number of the test (`potato-test.h:42`);
  `HeadersAgree` claims only the verdict of such a test.
- `sha256_pad_le_block` overwrites the message's last bytes with the length for blocks of
  56 to 63 bytes (`sha256.c:127-139`); `TextRight` and `PaddingIsRight` stop at 55.

## Proofs

Core (`CoreProofs`), for every number of rows from three up, every word width, every
set of registers and every program:

- `Typing`: `Spec => []TypeOK`, for any memory. Every pointer and every operation
  number stays in its range, so no process indexes the table outside it.
- `InstructionLife`: `Spec => []CoreInv`, assuming `SingleCycleMemory`.
- `TableNeverOverruns`, `ResultsFindTheirRow`: the invariants `NoOverwrite` and
  `ResultsAwaited`, each a consequence of `CoreInv`.
- `OperandsAreWritten`: `OperandsWritten`, assuming `SingleCycleMemory`. A row whose
  flags are set, and from then on until it leaves execute, has no older row in use that
  writes what it reads (`ClearInv`); a flag that was computed for the row's last content
  does no harm, for an empty row is no hazard and has none (`FreeInv`).
- `MemoryKeepsOrder`: `MemoryInOrder`, assuming `SingleCycleMemory`. A memory operation
  that was selected has no older one that still waits (`OrderInv`), and the stages and
  pointers hand on at most one operation an edge.
- `CsrsRunAlone`: `CsrAlone`, for any data memory, assuming `CsrsApart`: the program has
  no CSR instructions, or deliveries are apart (`~BackToBack`). Otherwise one overtakes the
  instruction in front of it (`pp_decode.vhd:176`, listed above).
- `SquashesAreComplete`: `SquashComplete`, assuming `SingleCycleMemory` and that no program
  has CSR instructions (`WithoutCsrs`), which decode may keep back: see `csr_survives`.
- `CoreIsInOrder`: `Spec => ImplementsIsa`, the refinement of `Isa`, assuming
  `SingleCycleMemory` and `CsrsApart`: with CSR instructions too, where deliveries are apart.
  Rows in use, from `pntr_end` on, are the queue of the in-order machine (`SegmentCount`,
  `TableStep`). What a stage or a committed row holds is at every edge what its
  instruction computes on the registers that `ArchRegisters` has then (`ValueInv`): it was
  right when execute read the registers, because all older writers had retired
  (`ClearInv`), and no row that retires later and before it writes what it reads
  (`ComputedStays`). So the head of the queue retires with the result and the jump the
  in-order machine gives it (`HeadRetires`). A CSR instruction passes the table by, and
  retires on its way into execute (`CsrEdge`): it is alone in the queue then
  (`DecodeInv`), and until its write is done the commit port does not write and no row of
  the table reads registers (`CsrInv`, `ArchStep`). One that decode keeps back is the last
  of the queue (`QueueStep`).

`CoreInv` is inductive. None of its parts is so alone: `NoOverwrite` needs the rows
in use to be the ring segment from `pntr_end` to `pntr_start` (`RingInv`) and the
count of free rows that `fetch_enable` promises two edges ahead (`CapacityInv`, by
cardinalities of sets of rows); the segment shrinks only by commits, so commits
must be of rows in use (`CommitInv`); a commit follows a completion, and a
completion must come from the row's own operation, so a row is in one stage only
(`StageInv`); that needs the row to be selected once, through the three edges
before `exec` is set and the hold after two memory operations (`SelectInv`).
`SingleCycleMemory` is needed: with wait states the parts are false
(`commit_lost`).

Memory system (`MemoryProofs`), with the cache and without, for every program, address
map, length of the code, number and size of lines and order of stalls, jumps, loads and
stores:

- `MemoryIsSound`: `Spec => []MemoryInv`.
- `AnswersAreRight`: `AnswersFit`.
- `CacheIsRight`: with the cache, `CacheFits`.
- `FetchIsTheStream`: `Spec => ImplementsStream`, the refinement of `InstructionStream`.
- `DataIsTheMemory`: with `LoadsApart`, `Spec => ImplementsMemory`, the refinement of
  `DataMemory`.

`MemoryInv` is inductive. `BusInv` says that what arbiter, decoder and slaves hold
belongs to the cycle on the bus, whose strobes stay as they are until they are answered;
`StoreInv` that a write under way is the store in the memory stage, so that only stores
change the memory and the code never changes; `FetchInv` that without the cache a request
for the instruction at `pc` is under way or just answered, or `cancel_fetch` drops the
answer, and that a hit of the cache is at `pc`; `CacheInv` that the line being loaded is
right up to the current word and has the tag and the place that its address has
(`Geometry`, by the uniqueness of quotients), so that a valid line is right. It holds
the bus for a line and strobes word by word, so that decoder and memory serve several
strobes in one cycle: that is why `BusInv` speaks of strobes. `LoadInv` is kept only
where loads are apart: the second read of a load must be over before the next load.

UART (`UartProofs`), for queues of every depth, all payloads and divisors:

- `UartIsSound`: `UartInv` is inductive. `QueuesKept`: `QueuesRespected`.
  `ReadsAreInOrder`: `ReadsInOrder`. Characters and samples of every size.
- `LineIsSound`: `LineInv` is inductive. `LineIsInOrder`: `LineInOrder`. Assuming
  `EnoughSamples`, at least four samples a bit, and `Octets`, characters of at most 8 bits
  (16 and 8 in the code).

`UartInv` is inductive because the queue of `pp_fifo`, a ring between two indices, behaves
as a sequence (`RecvInv` and the lemmas about `Fifo`); because requests to pop or push last
one edge, however long the bus master holds its strobe (`BusInv`, `RequestInv`); and because
what the software polled stays true until it acts on it (`PollingInv`). Then the characters
kept by the receiver are those read, handed over, queued or being pushed, in this order
(`ReadsInOrder` itself).

`LineInv` adds what happens on the line. Transmitter and receiver count the same ticks of
the sample clock (`ClockInv`), of which it assumes nothing: they may come at every edge or
never, so that the divisor may be rewritten, or set to 0, at any time. Time is told in
slots, the bits of a frame as the transmitter puts them on the line (`TxInv`). The receiver
finds the start bit at its first tick, counts half a bit and is from then on between the
sample in slot n and the one in slot n + 1 (`Between`), so bit n is read where it is, and
the low bits of the byte agree with those that are sent (`RxInv`). What was written is
then what arrived, what is on the line, queued and about to be queued (`SentInv`).
`EnoughSamples` is needed: with two samples a bit, TLC finds a wrong character when the
divisor is set to 0 at a tick and back within a character. `Octets` is there because the
prover knows the powers of two one by one only.

- `DriftIsSound`: `DriftInv` is inductive. `CharactersAreReceived`: `LineReceived`, of
  `UartLine`, for characters of at most 8 bits and every divisor, queue and sender that
  `SenderAssumption` allows: bits may last so much longer or shorter than the receiver's
  that the samples still fall where they belong up to the stop bit. TLC evaluates it with
  the sizes of the code; with `Divisors = {1}` it holds of 31 to 33 edges a bit and no
  other number, and of slower sample clocks for bits about 4% shorter to 5% longer.
  Assumed as well is `DivisorOnce`: the divisor is set once, as the programs do.

`DriftInv` cannot speak of slots, for there are no ticks that both ends count. It tells
time in edges since the line fell (`FrameAge`): whatever state the receiver is in, the
tick it waits for comes at an age (`SampleAge`, from the sample counter and the rest of
the period of the sample clock) that is `SampleOf` of the next bit, or up to one period
later, by how late the line was seen to fall (`Aims`). An edge leaves that age as it is,
and a sample moves it on by the samples of a bit. With `Timely` this age lies in that bit
(`SampleFalls`, `OneBit`), so the level is that of the bit (`AtSample`), the low bits of
`rx_byte` are those of the frame (`Fits`), and the character is complete before the
stop bit ends. `PaceInv` and `DivisorInv` say that the sample clock runs steadily while a
frame is on the line.

Programs (`SoftwareProofs`), for every length of an image, all periods of the timers,
queues of every size and any number of hashes:

- `SoftwareInvariant`: `SoftwareInv` is inductive: interrupts are off wherever `main` must
  not be interrupted (`ExclusionInv`), what the counter is at each place of `main` and of
  the handler (`CounterInv`), the image in three parts, in memory, in the queue and
  not yet sent (`ImageInv`), and the steps that the loop still owes for bytes that came,
  which are no more than one byte's (`PaceInv`).
- `CountIsExact`, `NumbersAreTrue`, `ImageIsLoaded`: the properties `CountExact`,
  `ReportsTrue` and `ImageLoaded`.
- `BytesAreKept`: `BytesKept`, for a queue with room for one byte or more. By `PaceInv` a
  byte that is sent finds the queue empty: the loop waits, or has made the two steps of
  every byte before (`SentIntoEmpty`, with `PaceAssumption`). `ImageIsLoaded` rests on it, for
  a byte that was dropped would be missing.
- `ServiceInvariant`: `ServiceInv` is inductive: a timer does not count before it is
  started nor past its compare value (`TimersInv`), the error unit holds the last stray
  access at each place of the handler (`ErrorInv`), and the request that `mcause` names, or
  whose branch the handler is in, is still there (`RequestInv`). That the handler takes
  out of `mcause` the number that execute put there, for each of the 16, is the lemma
  `RequestWord` of `Csr`. `PeriodsAreWhole` and `ErrorIsReported` are then `ClearsExpired`
  and `ErrorReported`; assumed of a stray access is only that it is a read or a write
  (`BenchmarkAssumption`).

Devices, traps, headers and padding (`DeviceProofs`), of the specification of the run
`functions`:

- `SubjectInvariant`: `SubjectInv` is inductive. It says of what kind the thing looked at
  is; the part that takes steps is a trap, of which `TrapInv` says that
  neither the memory stage nor writeback ever holds a write of `mepc`: the flush of an
  exception drops it at the edge that would latch it. `ReturnAddressNeverStored`: `mepc` is
  what reset made it, along every sequence of operations, requests and committed jumps.
- `TrapContextKept`: `TrapContext`. `TrapAfter` runs a trap over a sequence of edges;
  its state after n edges is the one before with one more edge (`TrapRun`), from which
  `RequestLasts` follows for any number of edges and `TrapMasks` for the three edges a
  trap takes, if no request is taken at the first two and no jump is committed at the
  second. `ContextRestored` says more of `start.S` than `HandlerKeepsRegisters`: whatever
  the registers and the stack hold, and whatever a handler does that keeps `sp` and what
  lies from its frame on.
- `DevicesAreRight`: `DevicesRight`, for timers of every width (`Counts`) and any number of
  pins. `RunningFires` is the law of the timer behind it: the distance to the compare
  value, modulo the width, goes down by one a tick until it is 0, and stays there
  (`AwayTick`, `TicksLeave`). `AccessKept` holds for every set of addresses; it speaks of
  two edges, for at the first the unit may be busy with a reset.
- `HeadersAreAgreed`: `HeadersAgree`. `RequestsAreApart` holds for every contents of `mie`,
  not only those TLC tries, and `TestsAreReported` for every number of a test whose bits
  fit the register; both speak of the number only where the assembler form wrote it.
- `PaddingIsRight`: what `sha256_pad_le_block` builds is the message, a one bit, zeros and
  the length in big-endian words, for all bytes, all lengths up to 55 and every length of
  the message whose number of bits fits 64: byte by byte (`PaddedBytes`, `BytesTurned`, `LengthWord`), and a word is told by
  its four bytes (`WordsByBytes`). TLC tries ten of these lengths.

A run of a recursive function, as `Ticks` and `TrapAfter` are, cannot be reasoned about
with the induction theorems of the library, which take an operator; `Counting` and
`RunExists` replace them. They are proved from the least-element form of well-foundedness:
a set of numbers with 0 and every successor has all of them, and the function that the
recursion describes exists.

Proving changed the model where TLC had not minded: `exception_cause` and `MemOp` were CASE
expressions with guards that overlap, whose value is then unspecified. TLC takes the first
guard that is true, as the code does; the provers cannot. Both are nested now.

Only model-checked:

- liveness (`NothingWaits`, `BusProceeds`, `AllArrives`, `ProgramsRun`): out of the prover's
  reach; `OneLedLit`, of the run `software`;
- `TextRight`, but for the padding: a digest is 64 rounds on data, an int is printed by a
  fold over its digits, and what either computes for every input is an induction over
  data;
- `InstructionsDecoded`: a statement about tables of constants, and fields of words as sums
  over sets (`Field`, a fold). TLC computes it of every row.

## Plan

1. Done: the core, its properties, the inductive invariant and its proof.
2. Done: fetch and instruction cache, bus adapter, arbiter and decoder with a memory
   behind them; proofs with the cache and without. Left: byte lanes.
3. Done: FIFO, UART, timer, GPIO, error unit with their drivers; proofs of all of them.
4. Done: decoding tables, CSR numbers, the way into a trap on its own; proofs of the
   last two. Left: the composition of `Trap` with `Core` and `Fetch`: an exception resets
   the stages but not the reorder buffer; `mret`; counters.
5. Done: bootloader, benchmark, `hello`, start code, SHA-256; proofs of the
   programs and of the padding.
6. Done: the proofs of operands, memory order, flushes and lone CSR instructions, and of
   the refinement of `Isa`, with CSR instructions.

Hazards without a property, and why: two redirections close to each other (fetch and
traps are not composed); the byte lane of a late answer (transfers are whole words); an
exception and the reorder buffer (not composed); the hand-over of a CSR instruction at the
edge of the test (`pp_decode.vhd:176`) and the repeated read of a load
(`pp_core.vhd:504`), which `BackToBack` and `LoadsApart` assume away, for the code does not
hold up there; whether a request of low priority is ever served (`pp_execute.vhd:307`), for
no handler starts; the digits of `int2hex32`. The divisor rewritten while the clock runs
is in no run, for the software writes it once, but in the proof of `LineInOrder`.

## Not modelled

The reset controller (reset is the initial state); counters, `mtime` and the read bypass
of the CSR unit; page tables, compressed instructions and debug fields of `encoding.h`,
which this core has no part of; the copying of `.data` in `start.S`; the bootloader's
`exception_handler`, for it enables no trap; instruction tests and test benches, but for
the test register and the macros that set it; board constraints and scripts, clock
generation and the block-RAM wrapper: no control state of the design.
