---------------------------- MODULE MemorySystem ----------------------------
(***************************************************************************)
(* The processor's way to memory: the fetch stage behind the instruction   *)
(* cache or a bus adapter, the data port of the core behind another bus    *)
(* adapter, the arbiter, the address decoder, the memory and the error     *)
(* port (src/src/pp_potato.vhd, src/src/pp_core.vhd,                       *)
(* src/example/toplevel.vhd).  One action is one edge of the clock.        *)
(*                                                                         *)
(* The rest of the core is its environment: it stalls fetch, redirects it, *)
(* and sends memory operations through the execute stage.                  *)
(***************************************************************************)
EXTENDS Fetch, ICache, WbArbiter, SocMemory

CONSTANTS
  ICACHE_ENABLE,     \* as the generic of pp_potato
  DataAddresses,     \* words the program loads and stores
  HighOf, PageOf,    \* where each address is: the bits the decoder looks at
  Stores, Loads,     \* operations the program may contain
  LoadsApart,        \* no load comes while a read is under way
  Stalls,            \* values of the stall of fetch
  Targets            \* where jumps go

Addresses == CodeAddresses \union DataAddresses

ASSUME MemorySystemAssumption ==
  /\ ICACHE_ENABLE \in BOOLEAN
  /\ DataAddresses \subseteq Nat \ CodeAddresses
  /\ Targets \subseteq CodeAddresses
  /\ Stalls \subseteq BOOLEAN

(* The program is in the memory of the design; it stores nowhere else, and *)
(* may load from anywhere.                                                 *)
InMemory(a) == Peripheral(HighOf[a], PageOf[a]) = "MAIN_MEMORY"

ASSUME ProgramAssumption ==
  /\ \A a \in CodeAddresses : InMemory(a)
  /\ Stores \subseteq [ kind : {"STORE"}, adr : { a \in DataAddresses : InMemory(a) }, dat : Nat ]
  /\ Loads \subseteq [ kind : {"LOAD"}, adr : DataAddresses, dat : Nat ]

(* Memory, and with it the program, is made of whole lines of the cache.   *)
ASSUME LinesAssumption == ICACHE_ENABLE => CodeWords % LINE_SIZE = 0

(* The program is in memory: the instruction at an address is a value of   *)
(* its own.                                                                *)
Contents == [ a \in Addresses |-> IF a \in CodeAddresses THEN 100 + a ELSE 0 ]

Operation(kind, adr, dat) == [ kind |-> kind, adr |-> adr, dat |-> dat ]
NoOperation == Operation("NONE", 0, 0)

VARIABLES
  imem,          \* instruction cache, or adapter of the instruction side
  dmem,          \* adapter of the data side
  arbiter, decoder, memory, error_ack,
  ex_op,         \* memory operation in the execute stage
  mem_op,        \* memory operation in the memory stage
  held,          \* request kept while the memory stage waits (dmem_*_p)
  stall_mem_p,   \* the memory stage waited at the last edge
  loaded,        \* word of the last load, as writeback takes it
  delivered,     \* instruction that decode took last
  redirect,      \* branch_taken and branch_target
  stall,         \* stall_if
  fresh          \* an instruction was delivered since the last redirection

portVars == << ex_op, mem_op, held, stall_mem_p, loaded >>
busVars  == << imem, dmem, arbiter, decoder, memory, error_ack >>
coreVars == << pc, cancel_fetch, delivered, redirect, stall, fresh >>
vars     == << portVars, busVars, coreVars >>

NoRedirect == [ taken |-> FALSE, target |-> 0 ]

Init ==
  /\ FetchInit
  /\ imem = (IF ICACHE_ENABLE THEN NewCache ELSE NewAdapter)
  /\ dmem = NewAdapter
  /\ arbiter = "IDLE" /\ decoder = NewDecoder
  /\ memory = NewMemory(Contents) /\ error_ack = FALSE
  /\ ex_op = NoOperation /\ mem_op = NoOperation /\ held = NoOperation
  /\ stall_mem_p = FALSE /\ loaded = 0
  /\ delivered = [ pc |-> 0, word |-> Contents[0] ]
  /\ redirect = NoRedirect /\ stall = FALSE /\ fresh = FALSE

-------------------------------------------------------------------------------
(* Wires.                                                                  *)

m1 == IF ICACHE_ENABLE THEN imem.out ELSE dmem.out
m2 == IF ICACHE_ENABLE THEN dmem.out ELSE imem.out

processor_out == OutputMux(arbiter, m1, m2)

processor_in ==
  CASE decoder.peripheral = "MAIN_MEMORY" ->
         MemoryAnswer(memory, Selected(decoder, "MAIN_MEMORY", processor_out))
    [] decoder.peripheral = "ERROR" ->
         ErrorAnswer(error_ack, Selected(decoder, "ERROR", processor_out))
    [] OTHER -> NoAnswer

icache_inputs ==
  ToMaster(arbiter, IF ICACHE_ENABLE THEN "M1_BUSY" ELSE "M2_BUSY", processor_in)
dmem_if_inputs ==
  ToMaster(arbiter, IF ICACHE_ENABLE THEN "M2_BUSY" ELSE "M1_BUSY", processor_in)

imem_ack == IF ICACHE_ENABLE THEN CacheAck(imem) ELSE imem.mem_r_ack
imem_data == IF ICACHE_ENABLE THEN CacheData(imem) ELSE imem.mem_data_out

stall_mem ==
  \/ mem_op.kind = "LOAD"  /\ ~dmem.mem_r_ack
  \/ mem_op.kind = "STORE" /\ ~WriteAck(dmem, dmem_if_inputs)

(* Mutant: the request is not held while the memory stage waits.           *)
HoldsRequestNever == FALSE

HoldsRequest == stall_mem \/ stall_mem_p

dmem_request == IF HoldsRequest THEN held ELSE ex_op

-------------------------------------------------------------------------------
(* Clocked processes.                                                      *)

bus_clock ==
  /\ dmem' = AdapterClock(dmem,
               [ read  |-> dmem_request.kind = "LOAD",
                 write |-> dmem_request.kind = "STORE",
                 adr   |-> dmem_request.adr,
                 dat   |-> dmem_request.dat ], dmem_if_inputs)
  /\ arbiter' = ArbiterClock(arbiter, m1, m2)
  /\ decoder' = DecoderClock(decoder, processor_out, HighOf[processor_out.adr],
                             PageOf[processor_out.adr])
  /\ memory' = MemoryClock(memory, Selected(decoder, "MAIN_MEMORY", processor_out))
  /\ error_ack' = ErrorClock(error_ack, Selected(decoder, "ERROR", processor_out))

fetch_clock ==
  LET adr == imem_address(stall, imem_ack, redirect)
  IN  /\ set_pc(stall, imem_ack, redirect)
      /\ imem' = IF ICACHE_ENABLE
                 THEN CacheClock(imem, adr, icache_inputs)
                 ELSE AdapterClock(imem, [ read |-> TRUE, write |-> FALSE,
                                           adr |-> adr, dat |-> 0 ], icache_inputs)
      /\ delivered' = IF instruction_ready(stall, imem_ack)
                      THEN [ pc |-> pc, word |-> imem_data ] ELSE delivered
      /\ fresh' = (~redirect.taken /\ (fresh \/ instruction_ready(stall, imem_ack)))

(* A flush while the memory stage waits flushes nothing (pp_core 226-230). *)
flush_mem == redirect.taken /\ ~stall_mem

data_port ==
  /\ stall_mem_p' = stall_mem
  /\ held' = (IF stall_mem THEN held ELSE ex_op)
  /\ loaded' = (IF mem_op.kind = "LOAD" /\ ~stall_mem THEN dmem.mem_data_out ELSE loaded)
  /\ mem_op' = CASE stall_mem -> mem_op
                 [] flush_mem -> NoOperation
                 [] OTHER     -> ex_op

-------------------------------------------------------------------------------
(* The environment.                                                        *)

ReadUnderWay == dmem.state = "READ_WAIT_ACK" \/ dmem.mem_r_ack \/ mem_op.kind = "LOAD"
                  \/ ex_op.kind = "LOAD"

NextOperation ==
  \/ UNCHANGED ex_op /\ stall_mem
  \/ ~stall_mem /\ ex_op' = NoOperation
  \/ ~stall_mem /\ ~flush_mem /\ ex_op' \in Stores
  \/ ~stall_mem /\ ~flush_mem /\ ex_op' \in Loads /\ (LoadsApart => ~ReadUnderWay)

(* branch_taken is a pulse of one edge, and a jump was delivered before it *)
(* redirects.  Jumps with memory operations in flight behind them are left *)
(* out: what they do wrong is a matter of the core.                        *)
NextRedirect ==
  \/ redirect' = NoRedirect
  \/ /\ ~redirect.taken
     /\ fresh
     /\ ex_op' = NoOperation /\ mem_op' = NoOperation
     /\ \E t \in Targets : redirect' = [ taken |-> TRUE, target |-> t ]

Clock ==
  /\ bus_clock
  /\ fetch_clock
  /\ data_port
  /\ NextOperation
  /\ NextRedirect
  /\ stall' \in Stalls

Spec == Init /\ [][Clock]_vars
FairSpec == Spec /\ WF_vars(Clock)

-------------------------------------------------------------------------------
Stream == INSTANCE InstructionStream
            WITH Program <- Contents, next <- pc

(* Fetch delivers the program in order from the last redirection on,       *)
(* whatever the cache, the adapter and the arbiter do (pp_fetch 48-86).    *)
ImplementsStream == Stream!Spec

Data == INSTANCE DataMemory
          WITH contents <- memory.memory, operation <- mem_op, answer <- loaded

(* The data port performs the operations of the memory stage in order, on  *)
(* a memory that nothing else changes (pp_core 500-524, pp_wb_adapter).    *)
ImplementsMemory == Data!Spec

(* A master sees an acknowledge only for a transfer it has on the bus, and *)
(* with data from where its address points: arbiter, decoder and slave     *)
(* registers hold the transfer for as long as it takes.                    *)
AnswersFit ==
  /\ icache_inputs.ack =>
       /\ imem.out.stb /\ ~imem.out.we
       /\ icache_inputs.dat = memory.memory[imem.out.adr]
  /\ dmem_if_inputs.ack =>
       /\ dmem.out.stb
       /\ Peripheral(HighOf[dmem.out.adr], PageOf[dmem.out.adr]) = decoder.peripheral
       /\ ~dmem.out.we /\ decoder.peripheral = "MAIN_MEMORY"
            => dmem_if_inputs.dat = memory.memory[dmem.out.adr]
  /\ ~(icache_inputs.ack /\ dmem_if_inputs.ack)

(* A word of the cache is the word of memory at its address: a load of a   *)
(* line that a redirection overtakes still ends with the right tag.        *)
CacheFits ==
  \A l \in Lines, w \in WordsOfLine :
    imem.valid[l] =>
      imem.cache_memory[l][w] =
        Contents[LINE_SIZE * (NUM_LINES * imem.tag_memory[l] + l) + w]

(* Every operation leaves the memory stage, although instruction fetches   *)
(* go over the same bus without a pause.                                   *)
OperationsLeave == (mem_op # NoOperation) ~> ~stall_mem

(* Once no jump, no memory operation and no stall comes any more, fetch    *)
(* delivers for ever: no answer is lost to a redirection that came         *)
(* meanwhile.                                                              *)
FetchProceeds ==
  <>[](~redirect.taken /\ ex_op = NoOperation /\ ~stall) =>
    []<><< TRUE >>_delivered

(* Both masters of the bus get on: operations leave, and fetch delivers.   *)
BusProceeds == OperationsLeave /\ FetchProceeds
==============================================================================
