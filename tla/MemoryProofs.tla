---------------------------- MODULE MemoryProofs ----------------------------
(***************************************************************************)
(* Proofs about the memory system, with and without the instruction cache, *)
(* for every program, every address map, every size of the cache and every *)
(* order of stalls, jumps, loads and stores: answers fit their transfers,  *)
(* the cache holds what memory holds, fetch implements the instruction     *)
(* stream, and the data port implements the memory.                        *)
(***************************************************************************)
EXTENDS MemorySystem, TLAPS

-----------------------------------------------------------------------------
(***************************************************************************)
(* Why fetches, loads and stores do not disturb each other on the bus: an  *)
(* invariant of the memory system.                                         *)
(***************************************************************************)

Transfers ==
  [ cyc : BOOLEAN, stb : BOOLEAN, we : BOOLEAN, adr : Addresses, dat : Nat ]

(* An adapter drives the bus while it waits and at no other time, and its  *)
(* answer to a read lasts one edge (pp_wb_adapter 115-165).                *)
AdapterInv(a) ==
  /\ a \in [ state        : {"IDLE", "READ_WAIT_ACK", "WRITE_WAIT_ACK"},
             out          : Transfers,
             mem_r_ack    : BOOLEAN,
             mem_data_out : Nat ]
  /\ a.out.cyc <=> a.state # "IDLE"
  /\ a.out.stb <=> a.state # "IDLE"
  /\ a.out.we  <=> a.state = "WRITE_WAIT_ACK"
  /\ a.mem_r_ack => a.state = "IDLE"

Words == [ WordsOfLine -> Nat ]

(* The words of line l with this tag.                                      *)
HoldsLine(words, tag, l) ==
  \A w \in WordsOfLine : words[w] = Contents[LINE_SIZE * (NUM_LINES * tag + l) + w]

Caches ==
  [ state              : {"IDLE", "CACHE_READ_STALL", "LOAD_CACHELINE_START",
                          "LOAD_CACHELINE_WAIT_ACK", "LOAD_CACHELINE_FINISH"},
    out                : Transfers,
    valid              : [ Lines -> BOOLEAN ],
    tag_memory         : [ Lines -> Nat ],
    cache_memory       : [ Lines -> Words ],
    input_address_word : WordsOfLine,
    current_cache_line : Words,
    cache_hit          : BOOLEAN,
    cl_load_address    : Nat,
    cl_current_line    : Lines,
    cl_current_word    : WordsOfLine,
    load_buffer        : Words,
    load_buffer_tag    : Nat,
    store_cache_line   : BOOLEAN ]

Loading(c) == c.state \in {"LOAD_CACHELINE_START", "LOAD_CACHELINE_WAIT_ACK"}

(* The cache keeps the bus for a whole line and strobes one word at a time *)
(* (pp_icache 153-225); a line in the making is one of the program and is  *)
(* right up to the current word, and a valid line is right.                *)
CacheInv(c) ==
  /\ c \in Caches
  /\ c.out.cyc <=> Loading(c)
  /\ c.out.stb <=> c.state = "LOAD_CACHELINE_WAIT_ACK"
  /\ c.store_cache_line <=> c.state = "LOAD_CACHELINE_FINISH"
  /\ Loading(c) \/ c.store_cache_line =>
       /\ c.cl_load_address = NUM_LINES * c.load_buffer_tag + c.cl_current_line
       /\ \A w \in WordsOfLine : LINE_SIZE * c.cl_load_address + w \in CodeAddresses
       /\ \A w \in WordsOfLine :
            w < c.cl_current_word \/ c.store_cache_line =>
              c.load_buffer[w] = Contents[LINE_SIZE * c.cl_load_address + w]
  /\ c.out.stb => c.out.adr = LINE_SIZE * c.cl_load_address + c.cl_current_word
  /\ \A l \in Lines : c.valid[l] => HoldsLine(c.cache_memory[l], c.tag_memory[l], l)

(* Whatever fetches instructions reads words of the program.               *)
FetcherInv ==
  /\ ICACHE_ENABLE  => CacheInv(imem)
  /\ ~ICACHE_ENABLE => AdapterInv(imem) /\ imem.state # "WRITE_WAIT_ACK"
  /\ imem.out.adr \in CodeAddresses /\ ~imem.out.we

Operations == Stores \union Loads \union {NoOperation}

StateInv ==
  /\ AdapterInv(dmem)
  /\ FetcherInv
  /\ arbiter \in {"IDLE", "M1_BUSY", "M2_BUSY"}
  /\ decoder = [ peripheral |-> decoder.peripheral, busy |-> decoder.busy ]
  /\ decoder.busy \in BOOLEAN
  /\ memory \in [ state : {"IDLE", "ACK"}, read_ack : BOOLEAN, dat_out : Nat,
                  memory : [ Addresses -> Nat ] ]
  /\ error_ack \in BOOLEAN
  /\ ex_op \in Operations /\ mem_op \in Operations
  /\ stall_mem_p \in BOOLEAN
  /\ pc \in CodeAddresses /\ redirect \in Redirects

(* One transfer is on the bus, and decoder and slaves belong to it: what   *)
(* they hold of the one before is gone when the arbiter is idle again      *)
(* (pp_wb_arbiter 40-77, toplevel 150-226, pp_soc_memory 40-79).           *)
BusInv ==
  /\ memory.read_ack <=> memory.state = "ACK"
  /\ memory.state = "ACK" => decoder.peripheral = "MAIN_MEMORY"
  /\ error_ack => decoder.peripheral = "ERROR"
  /\ ~decoder.busy => decoder.peripheral = "NONE"
  /\ arbiter = "IDLE" => ~decoder.busy
  /\ processor_out.cyc /\ decoder.busy =>
       decoder.peripheral = Peripheral(HighOf[processor_out.adr], PageOf[processor_out.adr])
  /\ processor_out.stb /\ memory.state = "ACK" =>
       IF processor_out.we
       THEN memory.memory[processor_out.adr] = processor_out.dat
       ELSE memory.dat_out = memory.memory[processor_out.adr]

(* What waits to be written is the store in the memory stage, so that only *)
(* stores change the memory (pp_core 500-524).                             *)
StoreInv ==
  /\ held = mem_op
  /\ redirect.taken => ex_op = NoOperation /\ mem_op = NoOperation
  /\ dmem.state = "WRITE_WAIT_ACK" =>
       mem_op.kind = "STORE" /\ dmem.out.adr = mem_op.adr /\ dmem.out.dat = mem_op.dat
  /\ \A a \in CodeAddresses : memory.memory[a] = Contents[a]
  /\ \A a \in DataAddresses : ~InMemory(a) => memory.memory[a] = 0

(* A load in the memory stage gets the answer to its own read, although    *)
(* every load is read twice: the second read is over before the next load. *)
LoadInv ==
  /\ mem_op.kind = "LOAD" /\ dmem.state = "READ_WAIT_ACK" => dmem.out.adr = mem_op.adr
  /\ mem_op.kind = "LOAD" /\ dmem.mem_r_ack =>
       dmem.mem_data_out = memory.memory[mem_op.adr]
  /\ ex_op.kind = "LOAD" =>
       dmem.state # "READ_WAIT_ACK" /\ ~dmem.mem_r_ack /\ mem_op.kind # "LOAD"

(* Fetch at pc (pp_fetch 48-86).  Without the cache a request for the      *)
(* instruction there is always under way or just answered, or cancel_fetch *)
(* drops the answer; the cache looks up pc at every edge.                  *)
FetchInv ==
  /\ cancel_fetch \in BOOLEAN /\ fresh \in BOOLEAN /\ stall \in BOOLEAN
  /\ cancel_fetch => ~fresh /\ ~redirect.taken
  /\ ICACHE_ENABLE /\ imem.cache_hit => CacheData(imem) = Contents[pc]
  /\ ~ICACHE_ENABLE =>
       /\ imem.state = "IDLE" /\ ~imem.mem_r_ack => ~redirect.taken /\ ~cancel_fetch
       /\ imem.state # "IDLE" /\ ~cancel_fetch => imem.out.adr = pc
       /\ imem.mem_r_ack /\ ~cancel_fetch => imem.mem_data_out = Contents[pc]

SharedInv == StateInv /\ BusInv /\ StoreInv
MemoryInv == SharedInv /\ FetchInv

-----------------------------------------------------------------------------
(* The constants.                                                          *)

LEMMA Places ==
  /\ CodeWords \in Nat \ {0} /\ 0 \in CodeAddresses
  /\ CodeAddresses \subseteq Addresses /\ DataAddresses \subseteq Addresses
  /\ Addresses = CodeAddresses \union DataAddresses
  /\ \A a \in CodeAddresses : a \notin DataAddresses /\ InMemory(a)
  /\ Contents \in [ Addresses -> Nat ]
  /\ \A a \in DataAddresses : Contents[a] = 0
  <1>1. CodeWords \in Nat \ {0} /\ 0 \in CodeAddresses /\ \A a \in CodeAddresses : a \in Nat
    BY CodeAssumption DEF CodeAddresses
  <1>2. \A a \in CodeAddresses : a \notin DataAddresses /\ InMemory(a)
    BY MemorySystemAssumption, ProgramAssumption
  <1>3. CodeAddresses \subseteq Addresses /\ DataAddresses \subseteq Addresses
    BY DEF Addresses
  <1>4. Contents \in [ Addresses -> Nat ] /\ \A a \in DataAddresses : Contents[a] = 0
    <2>1. \A a \in Addresses : (IF a \in CodeAddresses THEN 100 + a ELSE 0) \in Nat
      BY <1>1
    <2>2. \A a \in DataAddresses : a \notin CodeAddresses
      BY <1>2
    <2> QED
      BY <1>3, <2>1, <2>2 DEF Contents
  <1> QED
    BY <1>1, <1>2, <1>3, <1>4 DEF Addresses

LEMMA Kinds ==
  /\ NoOperation.kind = "NONE" /\ NoOperation.adr = 0 /\ NoOperation.dat = 0
  /\ \A op \in Operations :
       /\ op.kind \in {"NONE", "LOAD", "STORE"} /\ op.adr \in Addresses /\ op.dat \in Nat
       /\ op.kind # "NONE" => op.adr \in DataAddresses
       /\ op.kind = "STORE" => InMemory(op.adr)
       /\ op.kind = "NONE" => op = NoOperation
  /\ \A op \in Loads : op.kind = "LOAD"
  /\ \A op \in Stores : op.kind = "STORE"
  <1>1. NoOperation.kind = "NONE" /\ NoOperation.adr = 0 /\ NoOperation.dat = 0
    BY DEF NoOperation, Operation
  <1>2. \A op \in Stores : op.kind = "STORE" /\ op.adr \in DataAddresses /\ InMemory(op.adr)
                             /\ op.dat \in Nat
    BY ProgramAssumption
  <1>3. \A op \in Loads : op.kind = "LOAD" /\ op.adr \in DataAddresses /\ op.dat \in Nat
    BY ProgramAssumption
  <1> QED
    BY <1>1, <1>2, <1>3, Places DEF Operations

-----------------------------------------------------------------------------
(* Addresses and their lines.                                              *)

(* Division: quotient and remainder are unique.                            *)
LEMMA Division ==
  ASSUME NEW a \in Nat, NEW d \in Nat \ {0}
  PROVE  /\ a \div d \in Nat /\ a % d \in 0 .. d - 1
         /\ a = d * (a \div d) + (a % d)
  OBVIOUS

(* Products grow with their factors.                                       *)
LEMMA Monotone ==
  ASSUME NEW d \in Nat, NEW x \in Int, NEW y \in Int, x <= y
  PROVE  d * x <= d * y
  OBVIOUS

LEMMA DivisionUnique ==
  ASSUME NEW d \in Nat \ {0}, NEW q \in Int, NEW r \in 0 .. d - 1,
         NEW p \in Int, NEW s \in 0 .. d - 1, d * q + r = d * p + s
  PROVE  q = p /\ r = s
  <1>1. q <= p
    <2> SUFFICES ASSUME p + 1 <= q PROVE FALSE
      OBVIOUS
    <2>1. d * (p + 1) <= d * q
      BY Monotone
    <2>2. d * (p + 1) = d * p + d
      OBVIOUS
    <2> QED
      BY <2>1, <2>2
  <1>2. p <= q
    <2> SUFFICES ASSUME q + 1 <= p PROVE FALSE
      OBVIOUS
    <2>1. d * (q + 1) <= d * p
      BY Monotone
    <2>2. d * (q + 1) = d * q + d
      OBVIOUS
    <2> QED
      BY <2>1, <2>2
  <1> QED
    BY <1>1, <1>2

(* Dividing by a product is dividing by its factors.                       *)
LEMMA DivisionTwice ==
  ASSUME NEW a \in Nat, NEW d \in Nat \ {0}, NEW e \in Nat \ {0}
  PROVE  a \div (d * e) = (a \div d) \div e
  <1> DEFINE q == a \div d
             r == a % d
             t == q \div e
             s == q % e
             m == d * e
  <1>1. q \in Nat /\ r \in 0 .. d - 1 /\ a = d * q + r
    BY Division
  <1>2. t \in Nat /\ s \in 0 .. e - 1 /\ q = e * t + s
    BY <1>1, Division
  <1>3. m \in Nat \ {0}
    OBVIOUS
  <1> DEFINE x == a \div m
             y == a % m
  <1>4. x \in Nat /\ y \in 0 .. m - 1 /\ a = m * x + y
    BY <1>3, Division
  <1> HIDE DEF q, r, t, s, x, y
  <1>5. d * s + r \in 0 .. m - 1
    <2>1. 0 <= d * s /\ d * s <= d * (e - 1)
      BY <1>2, Monotone
    <2>2. d * (e - 1) = d * e - d
      OBVIOUS
    <2>3. d * s \in Int /\ d * e \in Int
      BY <1>2
    <2> QED
      BY <1>1, <2>1, <2>2, <2>3
  <1>6. a = m * t + (d * s + r)
    <2>1. d * (e * t + s) = (d * e) * t + d * s
      BY <1>2
    <2> QED
      BY <1>1, <1>2, <2>1
  <1> HIDE DEF m
  <1>7. t = x
    BY <1>2, <1>3, <1>4, <1>5, <1>6, DivisionUnique
  <1> QED
    BY <1>7 DEF q, t, x, m

(* A word of the program is in one place of one line, and its whole line   *)
(* is of the program (find_indices of pp_icache).                          *)
LEMMA Geometry ==
  ASSUME ICACHE_ENABLE, NEW a \in CodeAddresses
  PROVE  /\ WordOf(a) \in WordsOfLine /\ LineOf(a) \in Lines /\ TagOf(a) \in Nat
         /\ a \div LINE_SIZE \in Nat
         /\ a \div LINE_SIZE = NUM_LINES * TagOf(a) + LineOf(a)
         /\ a = LINE_SIZE * (a \div LINE_SIZE) + WordOf(a)
         /\ \A w \in WordsOfLine : LINE_SIZE * (a \div LINE_SIZE) + w \in CodeAddresses
  <1>1. /\ a \in Nat /\ a < CodeWords /\ CodeWords \in Nat
        /\ LINE_SIZE \in Nat \ {0} /\ NUM_LINES \in Nat \ {0}
        /\ CodeWords % LINE_SIZE = 0
    BY CodeAssumption, CacheAssumption, LinesAssumption DEF CodeAddresses
  <1> DEFINE b == a \div LINE_SIZE
  <1>2. b \in Nat /\ WordOf(a) \in 0 .. LINE_SIZE - 1 /\ a = LINE_SIZE * b + WordOf(a)
    BY <1>1, Division DEF WordOf
  <1>3. TagOf(a) = b \div NUM_LINES
    BY <1>1, DivisionTwice DEF TagOf
  <1>4. /\ TagOf(a) \in Nat /\ LineOf(a) \in 0 .. NUM_LINES - 1
        /\ b = NUM_LINES * TagOf(a) + LineOf(a)
    <2>1. LineOf(a) = b % NUM_LINES
      BY DEF LineOf
    <2> HIDE DEF b
    <2>2. /\ b \div NUM_LINES \in Nat /\ b % NUM_LINES \in 0 .. NUM_LINES - 1
          /\ b = NUM_LINES * (b \div NUM_LINES) + (b % NUM_LINES)
      BY <1>1, <1>2, Division
    <2> QED
      BY <1>3, <2>1, <2>2
  <1>5. ASSUME NEW w \in WordsOfLine
        PROVE  LINE_SIZE * b + w \in CodeAddresses
    <2> DEFINE c == CodeWords \div LINE_SIZE
    <2>1. c \in Nat /\ CodeWords = LINE_SIZE * c
      <3>1. c \in Nat /\ CodeWords = LINE_SIZE * c + (CodeWords % LINE_SIZE)
        BY <1>1, Division
      <3> HIDE DEF c
      <3> QED
        BY <1>1, <3>1
    <2>2. w \in 0 .. LINE_SIZE - 1
      BY DEF WordsOfLine
    <2> HIDE DEF b, c
    <2>3. b + 1 <= c
      <3> SUFFICES ASSUME c <= b PROVE FALSE
        BY <1>2, <2>1
      <3>1. LINE_SIZE * c <= LINE_SIZE * b
        BY <1>1, <1>2, <2>1, Monotone
      <3>2. LINE_SIZE * b \in Int
        BY <1>1, <1>2
      <3> QED
        BY <1>1, <1>2, <2>1, <3>1, <3>2
    <2>4. LINE_SIZE * (b + 1) <= LINE_SIZE * c
      BY <1>1, <1>2, <2>1, <2>3, Monotone
    <2>5. LINE_SIZE * (b + 1) = LINE_SIZE * b + LINE_SIZE /\ LINE_SIZE * b \in Nat
      BY <1>1, <1>2
    <2> QED
      BY <1>1, <2>1, <2>2, <2>4, <2>5 DEF CodeAddresses
  <1> QED
    BY <1>2, <1>4, <1>5 DEF WordsOfLine, Lines

-----------------------------------------------------------------------------
(* One edge of an adapter, of the memory and of the decoder.               *)

Adapters ==
  [ state        : {"IDLE", "READ_WAIT_ACK", "WRITE_WAIT_ACK"},
    out          : Transfers,
    mem_r_ack    : BOOLEAN,
    mem_data_out : Nat ]

(* A transfer that ends keeps its address.                                 *)
LEMMA EndedRead ==
  ASSUME NEW t \in Transfers, NEW s, s = [ t EXCEPT !.cyc = FALSE, !.stb = FALSE ]
  PROVE  s \in Transfers /\ s.cyc = FALSE /\ s.stb = FALSE /\ s.we = t.we /\ s.adr = t.adr
  BY DEF Transfers

LEMMA EndedWrite ==
  ASSUME NEW t \in Transfers,
         NEW s, s = [ t EXCEPT !.cyc = FALSE, !.stb = FALSE, !.we = FALSE ]
  PROVE  s \in Transfers /\ s.cyc = FALSE /\ s.stb = FALSE /\ s.we = FALSE /\ s.adr = t.adr
  BY DEF Transfers

(* What an edge makes of adapter a, given request r and an answer.         *)
Turns(a, r, answer, b) ==
  /\ AdapterInv(b)
  /\ a.state = "IDLE" =>
       /\ b.mem_r_ack = FALSE
       /\ b.state = IF r.write THEN "WRITE_WAIT_ACK"
                    ELSE IF r.read THEN "READ_WAIT_ACK" ELSE "IDLE"
       /\ b.out.adr = IF r.read \/ r.write THEN r.adr ELSE a.out.adr
       /\ r.write => b.out.dat = r.dat
  /\ a.state # "IDLE" /\ ~answer.ack => b = a
  /\ a.state # "IDLE" /\ answer.ack =>
       /\ b.state = "IDLE" /\ b.out.adr = a.out.adr
       /\ b.mem_r_ack = (a.state = "READ_WAIT_ACK")
       /\ a.state = "READ_WAIT_ACK" => b.mem_data_out = answer.dat

Requests == [ read : BOOLEAN, write : BOOLEAN, adr : Addresses, dat : Nat ]
Answered(answer) == answer.ack \in BOOLEAN /\ answer.dat \in Nat

LEMMA AdapterStep ==
  ASSUME NEW a, AdapterInv(a), NEW r \in Requests, NEW answer, Answered(answer)
  PROVE  Turns(a, r, answer, AdapterClock(a, r, answer))
  <1> DEFINE b == AdapterClock(a, r, answer)
  <1>a. /\ r.read \in BOOLEAN /\ r.write \in BOOLEAN /\ r.adr \in Addresses /\ r.dat \in Nat
        /\ answer.ack \in BOOLEAN /\ answer.dat \in Nat
    BY DEF Requests, Answered
  <1> SUFFICES Turns(a, r, answer, b)
    OBVIOUS
  <1>b. b = AdapterClock(a, r, answer)
    OBVIOUS
  <1> HIDE DEF b
  <1>0. /\ a \in Adapters /\ a.out \in Transfers /\ a.mem_data_out \in Nat
        /\ a.mem_r_ack \in BOOLEAN /\ a.out.we \in BOOLEAN /\ a.out.dat \in Nat
    BY DEF AdapterInv, Adapters, Transfers
  <1>1. CASE a.state = "IDLE"
    <2>1. b = AdapterIdle(a, r)
      BY <1>1, <1>b DEF AdapterClock
    <2>2. CASE r.write
      <3> DEFINE o == [ cyc |-> TRUE, stb |-> TRUE, we |-> TRUE, adr |-> r.adr, dat |-> r.dat ]
      <3>1. b = [ [ a EXCEPT !.mem_r_ack = FALSE ] EXCEPT !.out = o, !.state = "WRITE_WAIT_ACK" ]
        BY <2>1, <2>2 DEF AdapterIdle
      <3>2. o \in Transfers /\ o.cyc = TRUE /\ o.stb = TRUE /\ o.we = TRUE /\ o.adr = r.adr
              /\ o.dat = r.dat
        BY <1>a DEF Transfers
      <3> HIDE DEF o
      <3>3. /\ b \in Adapters /\ b.state = "WRITE_WAIT_ACK" /\ b.out = o
            /\ b.mem_r_ack = FALSE
        BY <1>0, <3>1, <3>2 DEF Adapters
      <3> QED
        BY <1>1, <2>2, <3>2, <3>3 DEF AdapterInv, Adapters, Turns
    <2>3. CASE ~r.write /\ r.read
      <3> DEFINE o == [ cyc |-> TRUE, stb |-> TRUE, we |-> FALSE, adr |-> r.adr,
                        dat |-> a.out.dat ]
      <3>1. b = [ [ a EXCEPT !.mem_r_ack = FALSE ] EXCEPT !.out = o, !.state = "READ_WAIT_ACK" ]
        <4>1. r.write = FALSE /\ r.read = TRUE
          BY <2>3
        <4> QED
          BY <2>1, <4>1 DEF AdapterIdle
      <3>2. o \in Transfers /\ o.cyc = TRUE /\ o.stb = TRUE /\ o.we = FALSE /\ o.adr = r.adr
        BY <1>0, <1>a DEF Transfers
      <3> HIDE DEF o
      <3>3. /\ b \in Adapters /\ b.state = "READ_WAIT_ACK" /\ b.out = o
            /\ b.mem_r_ack = FALSE
        BY <1>0, <3>1, <3>2 DEF Adapters
      <3> QED
        BY <1>1, <2>3, <3>2, <3>3 DEF AdapterInv, Adapters, Turns
    <2>4. CASE ~r.write /\ ~r.read
      <3>1. b = [ a EXCEPT !.mem_r_ack = FALSE ]
        BY <2>1, <2>4 DEF AdapterIdle
      <3>2. /\ b \in Adapters /\ b.state = "IDLE" /\ b.out = a.out /\ b.mem_r_ack = FALSE
        BY <1>0, <1>1, <3>1 DEF Adapters
      <3> QED
        BY <1>1, <2>4, <3>2 DEF AdapterInv, Adapters, Turns
    <2> QED
      BY <2>2, <2>3, <2>4
  <1>2. CASE a.state # "IDLE" /\ ~answer.ack
    <2>1. b = a
      BY <1>2, <1>b DEF AdapterClock
    <2> QED
      BY <1>2, <2>1 DEF Turns
  <1>3. CASE a.state = "READ_WAIT_ACK" /\ answer.ack
    <2> DEFINE o == [ a.out EXCEPT !.cyc = FALSE, !.stb = FALSE ]
    <2>1. b = [ a EXCEPT !.mem_data_out = answer.dat, !.mem_r_ack = TRUE,
                         !.out.cyc = FALSE, !.out.stb = FALSE, !.state = "IDLE" ]
      BY <1>3, <1>b DEF AdapterClock
    <2>2. /\ b.state = "IDLE" /\ b.out = o /\ b.mem_r_ack = TRUE /\ b.mem_data_out = answer.dat
          /\ b = [ state |-> b.state, out |-> b.out, mem_r_ack |-> b.mem_r_ack,
                   mem_data_out |-> b.mem_data_out ]
      BY <1>0, <2>1 DEF Adapters
    <2>3. /\ o \in Transfers /\ o.cyc = FALSE /\ o.stb = FALSE /\ o.we = a.out.we
          /\ o.adr = a.out.adr
      BY <1>0, EndedRead
    <2> HIDE DEF o
    <2>4. b \in Adapters
      BY <1>a, <2>2, <2>3 DEF Adapters
    <2>5. o.we = FALSE
      BY <1>0, <1>3, <2>3 DEF AdapterInv
    <2> QED
      BY <1>3, <2>2, <2>3, <2>4, <2>5 DEF AdapterInv, Adapters, Turns
  <1>4. CASE a.state = "WRITE_WAIT_ACK" /\ answer.ack
    <2> DEFINE o == [ a.out EXCEPT !.cyc = FALSE, !.stb = FALSE, !.we = FALSE ]
    <2>1. b = [ a EXCEPT !.out.cyc = FALSE, !.out.stb = FALSE, !.out.we = FALSE,
                         !.state = "IDLE" ]
      BY <1>4, <1>b DEF AdapterClock
    <2>2. /\ b.state = "IDLE" /\ b.out = o /\ b.mem_r_ack = a.mem_r_ack
          /\ b.mem_data_out = a.mem_data_out
          /\ b = [ state |-> b.state, out |-> b.out, mem_r_ack |-> b.mem_r_ack,
                   mem_data_out |-> b.mem_data_out ]
      BY <1>0, <2>1 DEF Adapters
    <2>3. /\ o \in Transfers /\ o.cyc = FALSE /\ o.stb = FALSE /\ o.we = FALSE
          /\ o.adr = a.out.adr
      BY <1>0, EndedWrite
    <2> HIDE DEF o
    <2>4. b.mem_r_ack = FALSE
      BY <1>0, <1>4, <2>2 DEF AdapterInv
    <2>5. b \in Adapters
      BY <1>0, <2>2, <2>3, <2>4 DEF Adapters
    <2> QED
      BY <1>4, <2>2, <2>3, <2>4, <2>5 DEF AdapterInv, Adapters, Turns
  <1> QED
    BY <1>1, <1>2, <1>3, <1>4 DEF AdapterInv

LEMMA DecoderStep ==
  ASSUME NEW d, d = [ peripheral |-> d.peripheral, busy |-> d.busy ], d.busy \in BOOLEAN,
         NEW t, t.cyc \in BOOLEAN, NEW high, NEW page
  PROVE  LET e == DecoderClock(d, t, high, page)
         IN  /\ e = [ peripheral |-> e.peripheral, busy |-> e.busy ]
             /\ e.busy = t.cyc
             /\ e.peripheral = IF ~t.cyc THEN "NONE"
                               ELSE IF d.busy THEN d.peripheral ELSE Peripheral(high, page)
  BY DEF DecoderClock, NewDecoder

Memories == [ state : {"IDLE", "ACK"}, read_ack : BOOLEAN, dat_out : Nat,
              memory : [ Addresses -> Nat ] ]

LEMMA MemoryStep ==
  ASSUME NEW m \in Memories, m.read_ack <=> m.state = "ACK",
         NEW t \in Transfers, t.stb => t.cyc
  PROVE  LET n == MemoryClock(m, t)
         IN  /\ n \in Memories
             /\ n.state = (IF t.stb THEN "ACK" ELSE "IDLE")
             /\ n.read_ack = t.stb
             /\ ~(t.stb /\ m.state = "IDLE") => n.memory = m.memory /\ n.dat_out = m.dat_out
             /\ t.stb /\ m.state = "IDLE" =>
                  IF t.we THEN n.memory = [ m.memory EXCEPT ![t.adr] = t.dat ]
                  ELSE n.memory = m.memory /\ n.dat_out = m.memory[t.adr]
  <1> DEFINE n == MemoryClock(m, t)
  <1>0. t.stb \in BOOLEAN /\ t.cyc \in BOOLEAN
    BY DEF Transfers
  <1>1. CASE ~t.cyc
    <2>1. n = [ m EXCEPT !.state = "IDLE", !.read_ack = FALSE ]
      BY <1>1 DEF MemoryClock
    <2>2. t.stb = FALSE
      BY <1>0, <1>1
    <2> QED
      BY <1>1, <2>1, <2>2 DEF Memories, Transfers
  <1>2. CASE t.stb /\ m.state = "IDLE" /\ t.we
    <2>1. n = [ [ m EXCEPT !.state = "ACK", !.read_ack = TRUE ] EXCEPT !.memory[t.adr] = t.dat ]
      BY <1>2 DEF MemoryClock
    <2>2. /\ n.state = "ACK" /\ n.read_ack = TRUE /\ n.dat_out = m.dat_out
          /\ n.memory = [ m.memory EXCEPT ![t.adr] = t.dat ]
          /\ n = [ state |-> n.state, read_ack |-> n.read_ack, dat_out |-> n.dat_out,
                   memory |-> n.memory ]
      BY <2>1 DEF Memories
    <2>3. t.adr \in Addresses /\ t.dat \in Nat /\ m.dat_out \in Nat
          /\ m.memory \in [ Addresses -> Nat ]
      BY DEF Memories, Transfers
    <2>4. [ m.memory EXCEPT ![t.adr] = t.dat ] \in [ Addresses -> Nat ]
      BY <2>3
    <2> HIDE DEF n
    <2> QED
      BY <1>0, <1>2, <2>2, <2>3, <2>4 DEF Memories, n
  <1>3. CASE t.stb /\ m.state = "IDLE" /\ ~t.we
    <2>1. n = [ [ m EXCEPT !.state = "ACK", !.read_ack = TRUE ]
                EXCEPT !.dat_out = m.memory[t.adr] ]
      BY <1>3 DEF MemoryClock
    <2> QED
      BY <1>0, <1>3, <2>1 DEF Memories, Transfers
  <1>4. CASE t.stb /\ m.state = "ACK"
    <2>1. n = m
      BY <1>4 DEF MemoryClock
    <2> QED
      BY <1>0, <1>4, <2>1 DEF Memories, Transfers
  <1>5. CASE t.cyc /\ ~t.stb /\ m.state = "IDLE"
    <2>1. n = m
      BY <1>5 DEF MemoryClock
    <2> QED
      BY <1>0, <1>5, <2>1 DEF Memories, Transfers
  <1>6. CASE t.cyc /\ ~t.stb /\ m.state = "ACK"
    <2>1. n = [ m EXCEPT !.state = "IDLE", !.read_ack = FALSE ]
      BY <1>6 DEF MemoryClock
    <2>2. t.stb = FALSE
      BY <1>0, <1>6
    <2> QED
      BY <1>6, <2>1, <2>2 DEF Memories, Transfers
  <1> QED
    BY <1>0, <1>1, <1>2, <1>3, <1>4, <1>5, <1>6 DEF Memories

-----------------------------------------------------------------------------
(* Who is on the bus, and what an acknowledge means.                       *)

(* The ports of the arbiter (pp_potato 94-141).                            *)
DataBusy  == IF ICACHE_ENABLE THEN "M2_BUSY" ELSE "M1_BUSY"
FetchBusy == IF ICACHE_ENABLE THEN "M1_BUSY" ELSE "M2_BUSY"

LEMMA OnBus ==
  ASSUME StateInv
  PROVE  /\ processor_out \in Transfers
         /\ processor_out.stb => processor_out.cyc
         /\ arbiter \in {"IDLE", DataBusy, FetchBusy}
         /\ DataBusy # FetchBusy /\ DataBusy # "IDLE" /\ FetchBusy # "IDLE"
         /\ arbiter = "IDLE" => processor_out.cyc = FALSE
         /\ arbiter = DataBusy => processor_out = dmem.out
         /\ arbiter = FetchBusy => processor_out = imem.out
         /\ dmem.out.cyc \in BOOLEAN /\ imem.out.cyc \in BOOLEAN
         /\ arbiter' = ArbiterClock(arbiter, m1, m2) =>
              /\ arbiter = DataBusy /\ dmem.out.cyc => arbiter' = arbiter
              /\ arbiter = FetchBusy /\ imem.out.cyc => arbiter' = arbiter
  <1>1. /\ ICACHE_ENABLE => m1 = imem.out /\ m2 = dmem.out
        /\ ~ICACHE_ENABLE => m1 = dmem.out /\ m2 = imem.out
    BY DEF m1, m2
  <1>2. /\ dmem.out \in Transfers /\ imem.out \in Transfers
        /\ dmem.out.stb => dmem.out.cyc
        /\ imem.out.stb => imem.out.cyc
    BY DEF StateInv, FetcherInv, AdapterInv, CacheInv, Caches, Loading
  <1>3. /\ NoTransfer \in Transfers /\ NoTransfer.cyc = FALSE /\ NoTransfer.stb = FALSE
    BY Places DEF NoTransfer, Transfers
  <1>4. dmem.out.cyc \in BOOLEAN /\ imem.out.cyc \in BOOLEAN
    BY <1>2 DEF Transfers
  <1>5. arbiter \in {"IDLE", DataBusy, FetchBusy}
        /\ DataBusy # FetchBusy /\ DataBusy # "IDLE" /\ FetchBusy # "IDLE"
    BY DEF StateInv, DataBusy, FetchBusy
  <1>6. /\ arbiter = DataBusy => processor_out = dmem.out
        /\ arbiter = FetchBusy => processor_out = imem.out
        /\ arbiter = "IDLE" => processor_out = NoTransfer
    BY <1>1 DEF processor_out, OutputMux, DataBusy, FetchBusy
  <1>7. arbiter' = ArbiterClock(arbiter, m1, m2) =>
          /\ arbiter = DataBusy /\ dmem.out.cyc => arbiter' = arbiter
          /\ arbiter = FetchBusy /\ imem.out.cyc => arbiter' = arbiter
    BY <1>1 DEF ArbiterClock, HoldsBus, DataBusy, FetchBusy
  <1> QED
    BY <1>2, <1>3, <1>4, <1>5, <1>6, <1>7

(* What the slaves answer to the transfer on the bus.                      *)
LEMMA Slaves ==
  ASSUME SharedInv
  PROVE  LET t == processor_out
         IN  /\ processor_in.ack \in BOOLEAN /\ processor_in.dat \in Nat
             /\ processor_in.ack =>
                  /\ t.stb
                  /\ decoder.peripheral = Peripheral(HighOf[t.adr], PageOf[t.adr])
                  /\ InMemory(t.adr) => memory.state = "ACK"
                  /\ InMemory(t.adr) /\ t.we => memory.memory[t.adr] = t.dat
                  /\ InMemory(t.adr) /\ ~t.we => processor_in.dat = memory.memory[t.adr]
                  /\ ~InMemory(t.adr) => processor_in.dat = 0
  <1> DEFINE t == processor_out
  <1>1. /\ t \in Transfers /\ (t.stb => t.cyc) /\ t.cyc \in BOOLEAN /\ t.stb \in BOOLEAN
    BY OnBus DEF SharedInv, Transfers
  <1>2. /\ memory.read_ack \in BOOLEAN /\ memory.dat_out \in Nat /\ error_ack \in BOOLEAN
        /\ memory.read_ack <=> memory.state = "ACK"
    BY DEF SharedInv, StateInv, BusInv
  <1>3. InMemory(t.adr) <=> Peripheral(HighOf[t.adr], PageOf[t.adr]) = "MAIN_MEMORY"
    BY DEF InMemory
  <1>4. CASE decoder.peripheral = "MAIN_MEMORY"
    <2>1. Selected(decoder, "MAIN_MEMORY", t) = t
      BY <1>4 DEF Selected
    <2>2. processor_in = [ ack |-> memory.read_ack /\ t.stb, dat |-> memory.dat_out ]
      BY <1>4, <2>1 DEF processor_in, MemoryAnswer
    <2>3. decoder.busy
      BY <1>4 DEF SharedInv, StateInv, BusInv
    <2> QED
      BY <1>1, <1>2, <1>3, <1>4, <2>2, <2>3 DEF SharedInv, BusInv
  <1>5. CASE decoder.peripheral = "ERROR"
    <2>1. Selected(decoder, "ERROR", t) = t
      BY <1>5 DEF Selected
    <2>2. processor_in = [ ack |-> error_ack /\ t.stb, dat |-> 0 ]
      BY <1>5, <2>1 DEF processor_in, ErrorAnswer
    <2>3. decoder.busy
      BY <1>5 DEF SharedInv, StateInv, BusInv
    <2> QED
      BY <1>1, <1>2, <1>3, <1>5, <2>2, <2>3 DEF SharedInv, BusInv
  <1>6. CASE decoder.peripheral \notin {"MAIN_MEMORY", "ERROR"}
    BY <1>6 DEF processor_in, NoAnswer
  <1> QED
    BY <1>4, <1>5, <1>6

LEMMA DataAnswer ==
  ASSUME SharedInv
  PROVE  /\ dmem_if_inputs.ack \in BOOLEAN /\ dmem_if_inputs.dat \in Nat
         /\ dmem_if_inputs.ack =>
              /\ arbiter = DataBusy /\ dmem.state # "IDLE" /\ processor_out = dmem.out
              /\ decoder.peripheral = Peripheral(HighOf[dmem.out.adr], PageOf[dmem.out.adr])
              /\ InMemory(dmem.out.adr) => memory.state = "ACK"
              /\ InMemory(dmem.out.adr) /\ dmem.out.we =>
                   memory.memory[dmem.out.adr] = dmem.out.dat
              /\ InMemory(dmem.out.adr) /\ ~dmem.out.we =>
                   dmem_if_inputs.dat = memory.memory[dmem.out.adr]
              /\ ~InMemory(dmem.out.adr) => dmem_if_inputs.dat = 0
  <1>1. dmem_if_inputs = IF arbiter = DataBusy THEN processor_in ELSE NoAnswer
    BY DEF dmem_if_inputs, ToMaster, DataBusy
  <1>2. CASE arbiter = DataBusy
    <2>1. processor_out = dmem.out /\ (dmem.out.stb <=> dmem.state # "IDLE")
      BY <1>2, OnBus DEF SharedInv, StateInv, AdapterInv
    <2> QED
      BY <1>1, <1>2, <2>1, Slaves
  <1>3. CASE arbiter # DataBusy
    BY <1>1, <1>3 DEF NoAnswer
  <1> QED
    BY <1>2, <1>3

LEMMA FetchAnswer ==
  ASSUME SharedInv
  PROVE  /\ icache_inputs.ack \in BOOLEAN /\ icache_inputs.dat \in Nat
         /\ icache_inputs.ack =>
              /\ arbiter = FetchBusy /\ processor_out = imem.out
              /\ imem.out.stb /\ ~imem.out.we
              /\ icache_inputs.dat = memory.memory[imem.out.adr]
              /\ icache_inputs.dat = Contents[imem.out.adr]
  <1>1. icache_inputs = IF arbiter = FetchBusy THEN processor_in ELSE NoAnswer
    BY DEF icache_inputs, ToMaster, FetchBusy
  <1>2. CASE arbiter = FetchBusy
    <2>1. processor_out = imem.out /\ ~imem.out.we /\ imem.out.adr \in CodeAddresses
      BY <1>2, OnBus DEF SharedInv, StateInv, FetcherInv
    <2>2. InMemory(imem.out.adr)
      BY <2>1, Places
    <2>3. memory.memory[imem.out.adr] = Contents[imem.out.adr]
      BY <2>1 DEF SharedInv, StoreInv
    <2> QED
      BY <1>1, <1>2, <2>1, <2>2, <2>3, Slaves
  <1>3. CASE arbiter # FetchBusy
    BY <1>1, <1>3 DEF NoAnswer
  <1> QED
    BY <1>2, <1>3

LEMMA Fit == SharedInv => AnswersFit
  <1> SUFFICES ASSUME SharedInv PROVE AnswersFit
    OBVIOUS
  <1>1. dmem_if_inputs.ack => dmem.out.stb
    BY DataAnswer DEF SharedInv, StateInv, AdapterInv
  <1>2. decoder.peripheral = "MAIN_MEMORY" /\ dmem_if_inputs.ack => InMemory(dmem.out.adr)
    BY DataAnswer DEF InMemory
  <1>3. icache_inputs.ack =>
          /\ imem.out.stb /\ ~imem.out.we
          /\ icache_inputs.dat = memory.memory[imem.out.adr]
    BY FetchAnswer
  <1>4. dmem_if_inputs.ack =>
          /\ Peripheral(HighOf[dmem.out.adr], PageOf[dmem.out.adr]) = decoder.peripheral
          /\ ~dmem.out.we /\ decoder.peripheral = "MAIN_MEMORY" =>
               dmem_if_inputs.dat = memory.memory[dmem.out.adr]
    BY <1>2, DataAnswer
  <1>5. ~(icache_inputs.ack /\ dmem_if_inputs.ack)
    BY DataAnswer, FetchAnswer, OnBus DEF SharedInv
  <1> QED
    BY <1>1, <1>3, <1>4, <1>5 DEF AnswersFit

-----------------------------------------------------------------------------
(* One edge of the two adapters.                                           *)

LEMMA DataStep ==
  ASSUME SharedInv, Clock
  PROVE  LET op == dmem_request
         IN  /\ op \in Operations
             /\ op = IF HoldsRequest THEN mem_op ELSE ex_op
             /\ AdapterInv(dmem')
             /\ dmem.state = "IDLE" =>
                  /\ dmem'.mem_r_ack = FALSE
                  /\ dmem'.state = IF op.kind = "STORE" THEN "WRITE_WAIT_ACK"
                                   ELSE IF op.kind = "LOAD" THEN "READ_WAIT_ACK" ELSE "IDLE"
                  /\ op.kind # "NONE" => dmem'.out.adr = op.adr
                  /\ op.kind = "STORE" => dmem'.out.dat = op.dat
             /\ dmem.state # "IDLE" /\ ~dmem_if_inputs.ack => dmem' = dmem
             /\ dmem.state # "IDLE" /\ dmem_if_inputs.ack =>
                  /\ dmem'.state = "IDLE" /\ dmem'.out.adr = dmem.out.adr
                  /\ dmem'.mem_r_ack = (dmem.state = "READ_WAIT_ACK")
                  /\ dmem.state = "READ_WAIT_ACK" =>
                       dmem'.mem_data_out = dmem_if_inputs.dat
  <1> DEFINE op == dmem_request
  <1>1. op \in Operations /\ op = IF HoldsRequest THEN mem_op ELSE ex_op
    BY DEF SharedInv, StateInv, StoreInv, dmem_request
  <1>2. op.kind \in {"NONE", "LOAD", "STORE"} /\ op.adr \in Addresses /\ op.dat \in Nat
    BY <1>1, Kinds
  <1>3. dmem' = AdapterClock(dmem, [ read |-> op.kind = "LOAD", write |-> op.kind = "STORE",
                                     adr |-> op.adr, dat |-> op.dat ], dmem_if_inputs)
    BY DEF Clock, bus_clock
  <1>4. AdapterInv(dmem) /\ dmem_if_inputs.ack \in BOOLEAN /\ dmem_if_inputs.dat \in Nat
    BY DataAnswer DEF SharedInv, StateInv
  <1> DEFINE r == [ read |-> op.kind = "LOAD", write |-> op.kind = "STORE",
                    adr |-> op.adr, dat |-> op.dat ]
  <1>5. /\ r.read = (op.kind = "LOAD") /\ r.write = (op.kind = "STORE")
        /\ r.adr = op.adr /\ r.dat = op.dat /\ r \in Requests
    BY <1>2 DEF Requests
  <1> HIDE DEF op, r
  <1>6. dmem' = AdapterClock(dmem, r, dmem_if_inputs)
    BY <1>3 DEF r
  <1>7. Answered(dmem_if_inputs)
    BY <1>4 DEF Answered
  <1>8. Turns(dmem, r, dmem_if_inputs, dmem')
    BY <1>4, <1>5, <1>6, <1>7, AdapterStep
  <1> QED
    BY <1>1, <1>2, <1>5, <1>8 DEF op, Turns

LEMMA NextAddress ==
  ASSUME StateInv, NEW ack \in BOOLEAN
  PROVE  /\ pc_next(stall, ack, redirect) \in CodeAddresses
         /\ imem_address(stall, ack, redirect) \in CodeAddresses
  <1>1. pc \in CodeAddresses /\ redirect.target \in CodeAddresses
    BY DEF StateInv, Redirects
  <1>2. (pc + 1) % CodeWords \in CodeAddresses
    BY <1>1, Places DEF CodeAddresses
  <1> QED
    BY <1>1, <1>2 DEF imem_address, pc_next

(* What an edge makes of the request for an instruction: fetch is in the   *)
(* program, and a strobe stays until it is answered and falls then.        *)
Fetches(answer) ==
  /\ FetcherInv'
  /\ imem.out.stb /\ ~answer.ack => imem'.out = imem.out
  /\ imem.out.stb /\ answer.ack => ~imem'.out.stb

LEMMA AdapterFetch ==
  ASSUME ~ICACHE_ENABLE, SharedInv, Clock
  PROVE  LET adr == imem_address(stall, imem.mem_r_ack, redirect)
         IN  /\ Fetches(icache_inputs)
             /\ imem.state = "IDLE" =>
                  /\ imem'.mem_r_ack = FALSE /\ imem'.state = "READ_WAIT_ACK"
                  /\ imem'.out.adr = adr
             /\ imem.state # "IDLE" /\ ~icache_inputs.ack => imem' = imem
             /\ imem.state # "IDLE" /\ icache_inputs.ack =>
                  /\ imem'.state = "IDLE" /\ imem'.mem_r_ack = TRUE
                  /\ imem'.mem_data_out = icache_inputs.dat
  <1> DEFINE adr == imem_address(stall, imem.mem_r_ack, redirect)
  <1>1. imem' = AdapterClock(imem, [ read |-> TRUE, write |-> FALSE, adr |-> adr, dat |-> 0 ],
                             icache_inputs)
    BY DEF Clock, fetch_clock, imem_ack
  <1>2. /\ AdapterInv(imem) /\ icache_inputs.ack \in BOOLEAN /\ icache_inputs.dat \in Nat
        /\ imem.state \in {"IDLE", "READ_WAIT_ACK"} /\ imem.mem_r_ack \in BOOLEAN
        /\ imem.out.adr \in CodeAddresses
    BY FetchAnswer DEF SharedInv, StateInv, FetcherInv, AdapterInv
  <1>3. adr \in CodeAddresses /\ adr \in Addresses
    BY <1>2, NextAddress, Places DEF SharedInv
  <1> DEFINE r == [ read |-> TRUE, write |-> FALSE, adr |-> adr, dat |-> 0 ]
  <1>4. /\ r.read = TRUE /\ r.write = FALSE /\ r.adr = adr /\ r.dat = 0
        /\ r \in Requests
    BY <1>3 DEF Requests
  <1> HIDE DEF adr, r
  <1>5. imem' = AdapterClock(imem, r, icache_inputs)
    BY <1>1 DEF r
  <1>6. Answered(icache_inputs)
    BY <1>2 DEF Answered
  <1>7. Turns(imem, r, icache_inputs, imem')
    BY <1>2, <1>4, <1>5, <1>6, AdapterStep
  <1>8. /\ imem'.state # "WRITE_WAIT_ACK" /\ imem'.out.adr \in CodeAddresses
        /\ AdapterInv(imem')
    BY <1>2, <1>3, <1>4, <1>7 DEF Turns
  <1>9. ~imem'.out.we
    BY <1>8 DEF AdapterInv
  <1>10. Fetches(icache_inputs)
    <2>1. FetcherInv'
      BY <1>8, <1>9 DEF FetcherInv
    <2>2. imem.out.stb => imem.state # "IDLE"
      BY <1>2 DEF AdapterInv
    <2>3. imem.out.stb /\ icache_inputs.ack => imem'.state = "IDLE"
      BY <2>2, <1>7 DEF Turns
    <2>4. imem.out.stb /\ ~icache_inputs.ack => imem' = imem
      BY <2>2, <1>7 DEF Turns
    <2> QED
      BY <1>8, <2>1, <2>3, <2>4 DEF Fetches, AdapterInv
  <1> QED
    BY <1>2, <1>4, <1>7, <1>10 DEF adr, Turns

-----------------------------------------------------------------------------
(* One edge of the cache.                                                  *)

(* A lookup stores the line just loaded and leaves the loading alone; what *)
(* it finds is the word at the address.                                    *)
LEMMA LookupStep ==
  ASSUME ICACHE_ENABLE, NEW c, CacheInv(c), NEW adr \in CodeAddresses
  PROVE  LET b == Lookup(c, adr)
         IN  /\ CacheInv(b)
             /\ b.state = c.state /\ b.out = c.out
             /\ b.store_cache_line =>
                  HoldsLine(b.cache_memory[b.cl_current_line],
                            b.tag_memory[b.cl_current_line], b.cl_current_line)
             /\ b.cache_hit => CacheData(b) = Contents[adr]
  <1> DEFINE l == c.cl_current_line
             b == Lookup(c, adr)
  <1>1. /\ c \in Caches
        /\ WordOf(adr) \in WordsOfLine /\ LineOf(adr) \in Lines /\ TagOf(adr) \in Nat
        /\ adr = LINE_SIZE * (NUM_LINES * TagOf(adr) + LineOf(adr)) + WordOf(adr)
    BY Geometry DEF CacheInv
  <1>2. /\ c.valid \in [ Lines -> BOOLEAN ] /\ c.tag_memory \in [ Lines -> Nat ]
        /\ c.cache_memory \in [ Lines -> Words ] /\ l \in Lines
        /\ c.load_buffer \in Words /\ c.load_buffer_tag \in Nat
        /\ c.store_cache_line \in BOOLEAN
    BY <1>1 DEF Caches
  <1> DEFINE cm == [ c.cache_memory EXCEPT ![l] = IF c.store_cache_line THEN c.load_buffer ELSE @ ]
             tm == [ c.tag_memory EXCEPT ![l] = IF c.store_cache_line THEN c.load_buffer_tag
                                                ELSE @ ]
  <1>3. cm \in [ Lines -> Words ] /\ tm \in [ Lines -> Nat ]
    BY <1>2
  <1>4. Hit(c, adr) \in BOOLEAN
    BY <1>1, <1>2 DEF Hit
  <1>5. b = [ c EXCEPT !.input_address_word = WordOf(adr),
                       !.current_cache_line = c.cache_memory[LineOf(adr)],
                       !.cache_hit = Hit(c, adr),
                       !.cache_memory = cm, !.tag_memory = tm ]
    BY <1>1, <1>2 DEF Lookup, Caches
  <1>6. /\ b.state = c.state /\ b.out = c.out /\ b.valid = c.valid
        /\ b.tag_memory = tm /\ b.cache_memory = cm
        /\ b.input_address_word = WordOf(adr)
        /\ b.current_cache_line = c.cache_memory[LineOf(adr)]
        /\ b.cache_hit = Hit(c, adr)
        /\ b.cl_load_address = c.cl_load_address /\ b.cl_current_line = l
        /\ b.cl_current_word = c.cl_current_word /\ b.load_buffer = c.load_buffer
        /\ b.load_buffer_tag = c.load_buffer_tag
        /\ b.store_cache_line = c.store_cache_line
    BY <1>1, <1>5 DEF Caches
  <1>7. b \in Caches
    <2>1. c.cache_memory[LineOf(adr)] \in Words
      BY <1>1, <1>2
    <2> HIDE DEF cm, tm
    <2> QED
      BY <1>1, <1>3, <1>4, <1>5, <2>1 DEF Caches
  <1> HIDE DEF b
  <1>8. c.store_cache_line => HoldsLine(c.load_buffer, c.load_buffer_tag, l)
    BY DEF CacheInv, HoldsLine
  <1>9. ASSUME NEW k \in Lines, c.valid[k] \/ (c.store_cache_line /\ k = l)
        PROVE  HoldsLine(cm[k], tm[k], k)
    <2>1. CASE c.store_cache_line /\ k = l
      <3>1. cm[k] = c.load_buffer /\ tm[k] = c.load_buffer_tag
        BY <1>2, <2>1
      <3> QED
        BY <1>8, <2>1, <3>1
    <2>2. CASE ~(c.store_cache_line /\ k = l)
      <3>1. cm[k] = c.cache_memory[k] /\ tm[k] = c.tag_memory[k]
        BY <1>2, <2>2
      <3> QED
        BY <1>9, <2>2, <3>1 DEF CacheInv
    <2> QED
      BY <2>1, <2>2
  <1> HIDE DEF cm, tm
  <1>10. CacheInv(b)
    BY <1>6, <1>7, <1>9 DEF CacheInv, Loading
  <1>11. ASSUME b.cache_hit PROVE CacheData(b) = Contents[adr]
    <2>1. c.valid[LineOf(adr)] /\ c.tag_memory[LineOf(adr)] = TagOf(adr)
      BY <1>6, <1>11 DEF Hit
    <2>2. HoldsLine(c.cache_memory[LineOf(adr)], TagOf(adr), LineOf(adr))
      BY <1>1, <2>1 DEF CacheInv
    <2>3. c.cache_memory[LineOf(adr)][WordOf(adr)] =
            Contents[LINE_SIZE * (NUM_LINES * TagOf(adr) + LineOf(adr)) + WordOf(adr)]
      BY <1>1, <2>2 DEF HoldsLine
    <2>4. CacheData(b) = c.cache_memory[LineOf(adr)][WordOf(adr)]
      BY <1>6 DEF CacheData
    <2> QED
      BY <1>1, <2>3, <2>4
  <1>12. b.store_cache_line =>
           HoldsLine(b.cache_memory[b.cl_current_line], b.tag_memory[b.cl_current_line],
                     b.cl_current_line)
    BY <1>2, <1>6, <1>9
  <1> QED
    BY <1>6, <1>10, <1>11, <1>12 DEF b

(* What the controller makes of the cache.                                 *)
Controls(b, answer, n) ==
  /\ CacheInv(n)
  /\ n.out.adr \in CodeAddresses /\ ~n.out.we
  /\ b.out.stb /\ ~answer.ack => n.out = b.out
  /\ b.out.stb /\ answer.ack => ~n.out.stb
  /\ n.cache_hit = b.cache_hit /\ CacheData(n) = CacheData(b)

LEMMA ControllerStep ==
  ASSUME ICACHE_ENABLE, NEW b, CacheInv(b), b.out.adr \in CodeAddresses, ~b.out.we,
         b.store_cache_line =>
           HoldsLine(b.cache_memory[b.cl_current_line], b.tag_memory[b.cl_current_line],
                     b.cl_current_line),
         NEW hit \in BOOLEAN, NEW adr \in CodeAddresses,
         NEW answer, Answered(answer), answer.ack => answer.dat = Contents[b.out.adr]
  PROVE  Controls(b, answer, Controller(b, hit, adr, answer))
  <1> DEFINE n == Controller(b, hit, adr, answer)
  <1>1. /\ b \in Caches /\ b.out \in Transfers
        /\ b.out.cyc \in BOOLEAN /\ b.out.stb \in BOOLEAN /\ b.out.we = FALSE
        /\ b.cl_current_line \in Lines /\ b.cl_current_word \in WordsOfLine
        /\ b.load_buffer \in Words /\ b.load_buffer_tag \in Nat /\ b.cl_load_address \in Nat
        /\ b.valid \in [ Lines -> BOOLEAN ] /\ b.store_cache_line \in BOOLEAN
        /\ b.state \in {"IDLE", "CACHE_READ_STALL", "LOAD_CACHELINE_START",
                        "LOAD_CACHELINE_WAIT_ACK", "LOAD_CACHELINE_FINISH"}
        /\ answer.ack \in BOOLEAN /\ answer.dat \in Nat
    BY DEF CacheInv, Caches, Transfers, Answered
  <1>2. /\ adr \in Nat /\ WordOf(adr) \in WordsOfLine /\ LineOf(adr) \in Lines
        /\ TagOf(adr) \in Nat /\ adr \div LINE_SIZE \in Nat
        /\ adr \div LINE_SIZE = NUM_LINES * TagOf(adr) + LineOf(adr)
        /\ \A w \in WordsOfLine : LINE_SIZE * (adr \div LINE_SIZE) + w \in CodeAddresses
    BY Geometry DEF CodeAddresses
  <1>3. /\ LINE_SIZE \in Nat \ {0} /\ 0 \in WordsOfLine
        /\ WordsOfLine = 0 .. LINE_SIZE - 1 /\ LastWord = LINE_SIZE - 1
    BY CacheAssumption DEF WordsOfLine, LastWord
  <1>4. CASE b.state = "IDLE" /\ ~hit
    <2> DEFINE o == [ NoTransfer EXCEPT !.cyc = TRUE, !.adr = LINE_SIZE * (adr \div LINE_SIZE) ]
    <2>1. LINE_SIZE * (adr \div LINE_SIZE) \in CodeAddresses
      <3>1. LINE_SIZE * (adr \div LINE_SIZE) + 0 \in CodeAddresses
        BY <1>2, <1>3
      <3>2. LINE_SIZE * (adr \div LINE_SIZE) \in Int
        BY <1>2, <1>3
      <3> QED
        BY <3>1, <3>2
    <2>2. /\ o \in Transfers /\ o.cyc = TRUE /\ o.stb = FALSE /\ o.we = FALSE
          /\ o.adr \in CodeAddresses
      BY <2>1, Places DEF NoTransfer, Transfers
    <2>3. n = [ b EXCEPT !.out = o, !.load_buffer_tag = TagOf(adr),
                         !.cl_load_address = adr \div LINE_SIZE,
                         !.cl_current_line = LineOf(adr), !.cl_current_word = 0,
                         !.state = "LOAD_CACHELINE_START" ]
      BY <1>4 DEF Controller, BeginLine
    <2> HIDE DEF o, n
    <2>4. /\ n \in Caches /\ n.out = o /\ n.load_buffer_tag = TagOf(adr)
          /\ n.cl_load_address = adr \div LINE_SIZE /\ n.cl_current_line = LineOf(adr)
          /\ n.cl_current_word = 0 /\ n.state = "LOAD_CACHELINE_START"
          /\ n.store_cache_line = b.store_cache_line /\ n.valid = b.valid
          /\ n.cache_memory = b.cache_memory /\ n.tag_memory = b.tag_memory
          /\ n.cache_hit = b.cache_hit /\ n.current_cache_line = b.current_cache_line
          /\ n.input_address_word = b.input_address_word
      BY <1>1, <1>2, <1>3, <2>2, <2>3 DEF Caches
    <2>5. ~b.store_cache_line /\ ~b.out.stb
      BY <1>4 DEF CacheInv
    <2>6. \A w \in WordsOfLine : ~(w < 0)
      BY <1>3
    <2>7. CacheInv(n)
      BY <1>2, <2>2, <2>4, <2>5, <2>6 DEF CacheInv, Loading
    <2> QED
      BY <2>2, <2>4, <2>5, <2>7 DEF Controls, CacheData, n
  <1>5. CASE b.state = "CACHE_READ_STALL"
    <2>1. n = [ b EXCEPT !.state = "IDLE" ]
      BY <1>5 DEF Controller
    <2> HIDE DEF n
    <2>2. /\ n \in Caches /\ n.out = b.out /\ n.state = "IDLE"
          /\ n.store_cache_line = b.store_cache_line /\ n.valid = b.valid
          /\ n.cache_memory = b.cache_memory /\ n.tag_memory = b.tag_memory
          /\ n.cache_hit = b.cache_hit /\ n.current_cache_line = b.current_cache_line
          /\ n.input_address_word = b.input_address_word
      BY <1>1, <2>1 DEF Caches
    <2>3. ~b.store_cache_line /\ ~b.out.stb /\ ~b.out.cyc
      BY <1>5 DEF CacheInv, Loading
    <2>4. CacheInv(n)
      BY <2>2, <2>3 DEF CacheInv, Loading
    <2> QED
      BY <2>2, <2>3, <2>4 DEF Controls, CacheData, n
  <1>6. CASE b.state = "LOAD_CACHELINE_START"
    <2> DEFINE o == [ b.out EXCEPT !.stb = TRUE,
                                   !.adr = LINE_SIZE * b.cl_load_address + b.cl_current_word ]
    <2>1. LINE_SIZE * b.cl_load_address + b.cl_current_word \in CodeAddresses
      BY <1>1, <1>6 DEF CacheInv, Loading
    <2>2. /\ o \in Transfers /\ o.cyc = b.out.cyc /\ o.stb = TRUE /\ o.we = FALSE
          /\ o.adr = LINE_SIZE * b.cl_load_address + b.cl_current_word
      BY <1>1, <2>1, Places DEF Transfers
    <2>3. n = [ b EXCEPT !.out.stb = TRUE,
                         !.out.adr = LINE_SIZE * b.cl_load_address + b.cl_current_word,
                         !.state = "LOAD_CACHELINE_WAIT_ACK" ]
      BY <1>6 DEF Controller, RequestWord
    <2>4. n = [ b EXCEPT !.out = o, !.state = "LOAD_CACHELINE_WAIT_ACK" ]
      BY <1>1, <2>3 DEF Caches, Transfers
    <2> HIDE DEF o, n
    <2>5. /\ n \in Caches /\ n.out = o /\ n.state = "LOAD_CACHELINE_WAIT_ACK"
          /\ n.load_buffer_tag = b.load_buffer_tag /\ n.load_buffer = b.load_buffer
          /\ n.cl_load_address = b.cl_load_address /\ n.cl_current_line = b.cl_current_line
          /\ n.cl_current_word = b.cl_current_word
          /\ n.store_cache_line = b.store_cache_line /\ n.valid = b.valid
          /\ n.cache_memory = b.cache_memory /\ n.tag_memory = b.tag_memory
          /\ n.cache_hit = b.cache_hit /\ n.current_cache_line = b.current_cache_line
          /\ n.input_address_word = b.input_address_word
      BY <1>1, <2>2, <2>4 DEF Caches
    <2>6. ~b.store_cache_line /\ ~b.out.stb /\ b.out.cyc
      BY <1>6 DEF CacheInv, Loading
    <2>7. CacheInv(n)
      BY <1>6, <2>2, <2>5, <2>6 DEF CacheInv, Loading
    <2> QED
      BY <2>1, <2>2, <2>5, <2>6, <2>7 DEF Controls, CacheData, n
  <1>7. CASE b.state = "LOAD_CACHELINE_WAIT_ACK" /\ answer.ack
    <2> DEFINE o == [ b.out EXCEPT !.stb = FALSE ]
               e == [ b.out EXCEPT !.stb = FALSE, !.cyc = FALSE ]
               lb == [ b.load_buffer EXCEPT ![b.cl_current_word] = answer.dat ]
    <2>1. /\ o \in Transfers /\ o.cyc = b.out.cyc /\ o.stb = FALSE /\ o.we = FALSE
          /\ o.adr = b.out.adr
          /\ e \in Transfers /\ e.cyc = FALSE /\ e.stb = FALSE /\ e.we = FALSE
          /\ e.adr = b.out.adr
      BY <1>1 DEF Transfers
    <2>2. lb \in Words
      BY <1>1 DEF Words
    <2>3. b.out.stb /\ b.out.cyc /\ ~b.store_cache_line
            /\ b.out.adr = LINE_SIZE * b.cl_load_address + b.cl_current_word
      BY <1>7 DEF CacheInv, Loading
    <2>4. \A w \in WordsOfLine : w < b.cl_current_word \/ w = b.cl_current_word =>
            lb[w] = Contents[LINE_SIZE * b.cl_load_address + w]
      <3>1. \A w \in WordsOfLine : w < b.cl_current_word =>
              b.load_buffer[w] = Contents[LINE_SIZE * b.cl_load_address + w]
        BY <1>7 DEF CacheInv, Loading
      <3>2. lb[b.cl_current_word] = Contents[LINE_SIZE * b.cl_load_address + b.cl_current_word]
        BY <1>1, <1>7, <2>3 DEF Words
      <3>3. \A w \in WordsOfLine : w # b.cl_current_word => lb[w] = b.load_buffer[w]
        BY <1>1 DEF Words
      <3> HIDE DEF lb
      <3> QED
        BY <1>1, <1>3, <3>1, <3>2, <3>3
    <2>5. CASE b.cl_current_word = LastWord
      <3>1. n = [ b EXCEPT !.out = e, !.load_buffer = lb, !.store_cache_line = TRUE,
                           !.state = "LOAD_CACHELINE_FINISH" ]
        BY <1>1, <1>7, <2>5 DEF Controller, TakeWord, Caches, Transfers
      <3> HIDE DEF e, lb, n
      <3>2. /\ n \in Caches /\ n.out = e /\ n.state = "LOAD_CACHELINE_FINISH"
            /\ n.load_buffer_tag = b.load_buffer_tag /\ n.load_buffer = lb
            /\ n.cl_load_address = b.cl_load_address /\ n.cl_current_line = b.cl_current_line
            /\ n.cl_current_word = b.cl_current_word
            /\ n.store_cache_line = TRUE /\ n.valid = b.valid
            /\ n.cache_memory = b.cache_memory /\ n.tag_memory = b.tag_memory
            /\ n.cache_hit = b.cache_hit /\ n.current_cache_line = b.current_cache_line
            /\ n.input_address_word = b.input_address_word
        BY <1>1, <2>1, <2>2, <3>1 DEF Caches
      <3>3. \A w \in WordsOfLine : lb[w] = Contents[LINE_SIZE * b.cl_load_address + w]
        BY <1>3, <2>4, <2>5
      <3>4. CacheInv(n)
        BY <1>7, <2>1, <2>3, <3>2, <3>3 DEF CacheInv, Loading
      <3> QED
        BY <1>7, <2>1, <3>2, <3>4 DEF Controls, CacheData, n
    <2>6. CASE b.cl_current_word # LastWord
      <3>1. n = [ b EXCEPT !.out = o, !.load_buffer = lb,
                           !.cl_current_word = b.cl_current_word + 1,
                           !.state = "LOAD_CACHELINE_START" ]
        BY <1>1, <1>7, <2>6 DEF Controller, TakeWord, Caches, Transfers
      <3>2. b.cl_current_word + 1 \in WordsOfLine
              /\ \A w \in WordsOfLine : w < b.cl_current_word + 1 =>
                   w < b.cl_current_word \/ w = b.cl_current_word
        BY <1>1, <1>3, <2>6
      <3> HIDE DEF o, lb, n
      <3>3. /\ n \in Caches /\ n.out = o /\ n.state = "LOAD_CACHELINE_START"
            /\ n.load_buffer_tag = b.load_buffer_tag /\ n.load_buffer = lb
            /\ n.cl_load_address = b.cl_load_address /\ n.cl_current_line = b.cl_current_line
            /\ n.cl_current_word = b.cl_current_word + 1
            /\ n.store_cache_line = b.store_cache_line /\ n.valid = b.valid
            /\ n.cache_memory = b.cache_memory /\ n.tag_memory = b.tag_memory
            /\ n.cache_hit = b.cache_hit /\ n.current_cache_line = b.current_cache_line
            /\ n.input_address_word = b.input_address_word
        BY <1>1, <2>1, <2>2, <3>1, <3>2 DEF Caches
      <3>4. \A w \in WordsOfLine : w < n.cl_current_word =>
              n.load_buffer[w] = Contents[LINE_SIZE * n.cl_load_address + w]
        BY <2>4, <3>2, <3>3
      <3>5. CacheInv(n)
        BY <1>7, <2>1, <2>3, <3>3, <3>4 DEF CacheInv, Loading
      <3> QED
        BY <1>7, <2>1, <3>3, <3>5 DEF Controls, CacheData, n
    <2> QED
      BY <2>5, <2>6
  <1>8. CASE b.state = "LOAD_CACHELINE_FINISH"
    <2> DEFINE v == [ b.valid EXCEPT ![b.cl_current_line] = TRUE ]
    <2>1. n = [ b EXCEPT !.store_cache_line = FALSE, !.valid = v, !.state = "CACHE_READ_STALL" ]
      BY <1>1, <1>8 DEF Controller, FinishLine, Caches
    <2>2. /\ v \in [ Lines -> BOOLEAN ]
          /\ \A l \in Lines : v[l] => b.valid[l] \/ l = b.cl_current_line
      BY <1>1
    <2> HIDE DEF v, n
    <2>3. /\ n \in Caches /\ n.out = b.out /\ n.state = "CACHE_READ_STALL"
          /\ n.store_cache_line = FALSE /\ n.valid = v
          /\ n.cache_memory = b.cache_memory /\ n.tag_memory = b.tag_memory
          /\ n.cache_hit = b.cache_hit /\ n.current_cache_line = b.current_cache_line
          /\ n.input_address_word = b.input_address_word
      BY <1>1, <2>1, <2>2 DEF Caches
    <2>4. b.store_cache_line /\ ~b.out.stb /\ ~b.out.cyc
      BY <1>8 DEF CacheInv, Loading
    <2>5. \A l \in Lines : n.valid[l] => HoldsLine(n.cache_memory[l], n.tag_memory[l], l)
      BY <2>2, <2>3, <2>4 DEF CacheInv
    <2>6. CacheInv(n)
      BY <2>3, <2>4, <2>5 DEF CacheInv, Loading
    <2> QED
      BY <2>3, <2>4, <2>6 DEF Controls, CacheData, n
  <1>9. CASE \/ b.state = "IDLE" /\ hit
             \/ b.state = "LOAD_CACHELINE_WAIT_ACK" /\ ~answer.ack
    <2>1. n = b
      BY <1>9 DEF Controller
    <2>2. b.out.stb => ~answer.ack
      BY <1>9 DEF CacheInv
    <2> HIDE DEF n
    <2> QED
      BY <1>1, <2>1, <2>2 DEF Controls, n
  <1>10. \/ b.state = "IDLE" /\ ~hit
         \/ b.state = "CACHE_READ_STALL" \/ b.state = "LOAD_CACHELINE_START"
         \/ b.state = "LOAD_CACHELINE_WAIT_ACK" /\ answer.ack
         \/ b.state = "LOAD_CACHELINE_FINISH"
         \/ b.state = "IDLE" /\ hit
         \/ b.state = "LOAD_CACHELINE_WAIT_ACK" /\ ~answer.ack
    BY <1>1
  <1> QED
    BY <1>4, <1>5, <1>6, <1>7, <1>8, <1>9, <1>10

(* The cache looks up the address of fetch at every edge.                  *)
LEMMA CacheFetch ==
  ASSUME ICACHE_ENABLE, SharedInv, Clock
  PROVE  /\ Fetches(icache_inputs)
         /\ imem'.cache_hit =>
              CacheData(imem)' = Contents[imem_address(stall, CacheAck(imem), redirect)]
  <1> DEFINE adr == imem_address(stall, CacheAck(imem), redirect)
             b == Lookup(imem, adr)
  <1>1. imem' = Controller(b, imem.cache_hit, adr, icache_inputs)
    BY DEF Clock, fetch_clock, imem_ack, CacheClock
  <1>2. /\ CacheInv(imem) /\ imem.cache_hit \in BOOLEAN
        /\ imem.out.adr \in CodeAddresses /\ ~imem.out.we
    BY DEF SharedInv, StateInv, FetcherInv, CacheInv, Caches
  <1>3. CacheAck(imem) \in BOOLEAN
    BY <1>2 DEF CacheAck
  <1>4. adr \in CodeAddresses
    BY <1>3, NextAddress DEF SharedInv
  <1>5. /\ icache_inputs.ack => icache_inputs.dat = Contents[imem.out.adr]
        /\ Answered(icache_inputs)
    BY FetchAnswer DEF Answered
  <1> HIDE DEF adr
  <1>6. /\ CacheInv(b) /\ b.out = imem.out
        /\ b.store_cache_line =>
             HoldsLine(b.cache_memory[b.cl_current_line], b.tag_memory[b.cl_current_line],
                       b.cl_current_line)
        /\ b.cache_hit => CacheData(b) = Contents[adr]
    BY <1>2, <1>4, LookupStep
  <1> HIDE DEF b
  <1>7. Controls(b, icache_inputs, imem')
    BY <1>1, <1>2, <1>4, <1>5, <1>6, ControllerStep
  <1>8. FetcherInv'
    BY <1>7 DEF Controls, FetcherInv
  <1>9. CacheData(imem)' = CacheData(imem')
    BY DEF CacheData
  <1> QED
    BY <1>6, <1>7, <1>8, <1>9 DEF Controls, Fetches, adr

LEMMA FetchStep == SharedInv /\ Clock => Fetches(icache_inputs)
  BY AdapterFetch, CacheFetch

-----------------------------------------------------------------------------
(* One edge of the bus.                                                    *)

(* A cycle keeps the bus and stays where it is, and a strobe does not      *)
(* change until it is answered.                                            *)
LEMMA TransferKept ==
  ASSUME SharedInv, Clock, processor_out.cyc
  PROVE  /\ arbiter' = arbiter /\ arbiter # "IDLE"
         /\ processor_out'.cyc =>
              Peripheral(HighOf[processor_out'.adr], PageOf[processor_out'.adr])
                = Peripheral(HighOf[processor_out.adr], PageOf[processor_out.adr])
         /\ processor_out.stb /\ processor_out'.stb => processor_out' = processor_out
  <1>1. /\ AdapterInv(dmem) /\ StateInv /\ AdapterInv(dmem') /\ FetcherInv /\ FetcherInv'
        /\ arbiter' = ArbiterClock(arbiter, m1, m2)
    BY DataStep, FetchStep DEF SharedInv, StateInv, Fetches, Clock, bus_clock
  <1>2. /\ ICACHE_ENABLE => m1' = imem'.out /\ m2' = dmem'.out
        /\ ~ICACHE_ENABLE => m1' = dmem'.out /\ m2' = imem'.out
        /\ processor_out' = OutputMux(arbiter', m1', m2')
    BY DEF m1, m2, processor_out
  <1>3. CASE arbiter = "IDLE"
    BY <1>1, <1>3, OnBus
  <1>4. CASE arbiter = DataBusy
    <2>1. dmem.out.cyc /\ processor_out = dmem.out /\ dmem.state # "IDLE"
      BY <1>1, <1>4, OnBus DEF AdapterInv
    <2>2. arbiter' = arbiter /\ arbiter # "IDLE"
      BY <1>1, <1>4, <2>1, OnBus
    <2>3. processor_out' = dmem'.out
      BY <1>2, <1>4, <2>2 DEF DataBusy, OutputMux
    <2>4. CASE ~dmem_if_inputs.ack
      BY <2>1, <2>2, <2>3, <2>4, DataStep
    <2>5. CASE dmem_if_inputs.ack
      <3>1. dmem'.state = "IDLE"
        BY <2>1, <2>5, DataStep
      <3> QED
        BY <1>1, <2>2, <2>3, <3>1 DEF AdapterInv
    <2> QED
      BY <2>4, <2>5
  <1>5. CASE arbiter = FetchBusy
    <2>1. imem.out.cyc /\ processor_out = imem.out
      BY <1>1, <1>5, OnBus
    <2>2. arbiter' = arbiter /\ arbiter # "IDLE"
      BY <1>1, <1>5, <2>1, OnBus
    <2>3. processor_out' = imem'.out
      BY <1>2, <1>5, <2>2 DEF FetchBusy, OutputMux
    <2>4. /\ Peripheral(HighOf[imem.out.adr], PageOf[imem.out.adr]) = "MAIN_MEMORY"
          /\ Peripheral(HighOf[imem'.out.adr], PageOf[imem'.out.adr]) = "MAIN_MEMORY"
      BY <1>1, Places DEF FetcherInv, InMemory
    <2>5. imem.out.stb /\ imem'.out.stb => imem'.out = imem.out
      BY FetchStep DEF Fetches
    <2> QED
      BY <2>1, <2>2, <2>3, <2>4, <2>5
  <1> QED
    BY <1>1, <1>3, <1>4, <1>5, OnBus

(* The part of the transfer on the bus that a slave sees.                  *)
LEMMA SeenBy ==
  ASSUME SharedInv, NEW slave \in {"MAIN_MEMORY", "ERROR"}
  PROVE  LET seen == Selected(decoder, slave, processor_out)
         IN  /\ seen \in Transfers /\ (seen.stb => seen.cyc)
             /\ seen.cyc \in BOOLEAN /\ seen.stb \in BOOLEAN
             /\ seen.stb <=> processor_out.stb /\ decoder.peripheral = slave
             /\ seen.stb => seen = processor_out /\ decoder.busy
  <1> DEFINE t == processor_out
             seen == Selected(decoder, slave, t)
  <1>1. /\ t \in Transfers /\ (t.stb => t.cyc) /\ t.cyc \in BOOLEAN /\ t.stb \in BOOLEAN
    BY OnBus DEF SharedInv, Transfers
  <1>2. ~decoder.busy => decoder.peripheral = "NONE"
    BY DEF SharedInv, BusInv
  <1> HIDE DEF t
  <1>3. CASE decoder.peripheral = slave
    <2>1. seen = t
      BY <1>3 DEF Selected
    <2> QED
      BY <1>1, <1>2, <1>3, <2>1 DEF t
  <1>4. CASE decoder.peripheral # slave
    <2>1. seen = [ t EXCEPT !.cyc = FALSE, !.stb = FALSE ]
      BY <1>4 DEF Selected
    <2>2. seen \in Transfers /\ seen.cyc = FALSE /\ seen.stb = FALSE
      BY <1>1, <2>1, EndedRead
    <2> QED
      BY <1>4, <2>2 DEF t
  <1> QED
    BY <1>3, <1>4

(* What an edge makes of the memory: a transfer that reaches it is         *)
(* performed once, and acknowledged as long as it is on the bus.           *)
LEMMA MemoryEdge ==
  ASSUME SharedInv, Clock
  PROVE  LET t == processor_out
             selected == t.stb /\ decoder.peripheral = "MAIN_MEMORY"
         IN  /\ memory' \in Memories
             /\ memory'.read_ack <=> memory'.state = "ACK"
             /\ memory'.state = "ACK" <=> selected
             /\ ~(selected /\ memory.state = "IDLE") =>
                  memory'.memory = memory.memory /\ memory'.dat_out = memory.dat_out
             /\ selected /\ memory.state = "IDLE" =>
                  IF t.we THEN memory'.memory = [ memory.memory EXCEPT ![t.adr] = t.dat ]
                  ELSE /\ memory'.memory = memory.memory
                       /\ memory'.dat_out = memory.memory[t.adr]
  <1> DEFINE t == processor_out
             seen == Selected(decoder, "MAIN_MEMORY", t)
  <1>1. /\ seen \in Transfers /\ (seen.stb => seen.cyc) /\ seen.stb \in BOOLEAN
        /\ seen.stb <=> t.stb /\ decoder.peripheral = "MAIN_MEMORY"
        /\ seen.stb => seen = t
    BY SeenBy
  <1>2. memory \in Memories /\ (memory.read_ack <=> memory.state = "ACK")
    BY DEF SharedInv, StateInv, BusInv, Memories
  <1>3. memory' = MemoryClock(memory, seen)
    BY DEF Clock, bus_clock
  <1> HIDE DEF t, seen
  <1>4. /\ memory' \in Memories
        /\ memory'.state = (IF seen.stb THEN "ACK" ELSE "IDLE")
        /\ memory'.read_ack = seen.stb
        /\ ~(seen.stb /\ memory.state = "IDLE") =>
             memory'.memory = memory.memory /\ memory'.dat_out = memory.dat_out
        /\ seen.stb /\ memory.state = "IDLE" =>
             IF seen.we THEN memory'.memory = [ memory.memory EXCEPT ![seen.adr] = seen.dat ]
             ELSE memory'.memory = memory.memory /\ memory'.dat_out = memory.memory[seen.adr]
    BY <1>1, <1>2, <1>3, MemoryStep
  <1> QED
    BY <1>1, <1>4 DEF t

LEMMA DecoderEdge ==
  ASSUME SharedInv, Clock
  PROVE  LET t == processor_out
         IN  /\ decoder' = [ peripheral |-> decoder'.peripheral, busy |-> decoder'.busy ]
             /\ decoder'.busy \in BOOLEAN /\ (decoder'.busy <=> t.cyc)
             /\ decoder'.peripheral =
                  IF ~t.cyc THEN "NONE" ELSE Peripheral(HighOf[t.adr], PageOf[t.adr])
  <1> DEFINE t == processor_out
             high == HighOf[t.adr]
             page == PageOf[t.adr]
  <1>1. t.cyc \in BOOLEAN
    BY OnBus DEF SharedInv, Transfers
  <1>2. /\ decoder = [ peripheral |-> decoder.peripheral, busy |-> decoder.busy ]
        /\ decoder.busy \in BOOLEAN
    BY DEF SharedInv, StateInv
  <1>3. decoder' = DecoderClock(decoder, t, high, page)
    BY DEF Clock, bus_clock
  <1>4. t.cyc /\ decoder.busy => decoder.peripheral = Peripheral(high, page)
    BY DEF SharedInv, BusInv
  <1> HIDE DEF t, high, page
  <1>5. /\ decoder' = [ peripheral |-> decoder'.peripheral, busy |-> decoder'.busy ]
        /\ decoder'.busy = t.cyc
        /\ decoder'.peripheral = IF ~t.cyc THEN "NONE"
                                 ELSE IF decoder.busy THEN decoder.peripheral
                                 ELSE Peripheral(high, page)
    BY <1>1, <1>2, <1>3, DecoderStep
  <1>6. /\ decoder'.busy \in BOOLEAN /\ (decoder'.busy <=> t.cyc)
        /\ decoder'.peripheral = IF ~t.cyc THEN "NONE" ELSE Peripheral(high, page)
    BY <1>1, <1>4, <1>5
  <1> QED
    BY <1>5, <1>6 DEF t, high, page

LEMMA BusKept ==
  ASSUME SharedInv, Clock
  PROVE  BusInv'
  <1> DEFINE t == processor_out
             u == processor_out'
  <1>1. /\ memory'.read_ack <=> memory'.state = "ACK"
        /\ memory'.state = "ACK" => t.stb /\ t.cyc /\ decoder.peripheral = "MAIN_MEMORY"
    BY MemoryEdge, OnBus DEF SharedInv
  <1>2. error_ack' => t.cyc /\ decoder.peripheral = "ERROR"
    BY SeenBy, OnBus DEF SharedInv, Clock, bus_clock, ErrorClock
  <1>3. /\ decoder'.busy <=> t.cyc
        /\ ~decoder'.busy => decoder'.peripheral = "NONE"
        /\ t.cyc => decoder'.peripheral = Peripheral(HighOf[t.adr], PageOf[t.adr])
    BY DecoderEdge
  <1>4. t.cyc /\ decoder.peripheral # "NONE" =>
          decoder.peripheral = Peripheral(HighOf[t.adr], PageOf[t.adr])
    BY DEF SharedInv, BusInv
  <1>5. t.cyc => /\ arbiter' # "IDLE"
                 /\ u.cyc => Peripheral(HighOf[u.adr], PageOf[u.adr])
                               = Peripheral(HighOf[t.adr], PageOf[t.adr])
                 /\ t.stb /\ u.stb => u = t
    BY TransferKept
  <1>6. ASSUME u.stb, memory'.state = "ACK"
        PROVE  IF u.we THEN memory'.memory[u.adr] = u.dat
               ELSE memory'.dat_out = memory'.memory[u.adr]
    <2>1. u = t /\ t.stb /\ decoder.peripheral = "MAIN_MEMORY" /\ t \in Transfers
      BY <1>1, <1>5, <1>6, OnBus DEF SharedInv
    <2>2. memory.memory \in [ Addresses -> Nat ] /\ t.adr \in Addresses
            /\ memory.state \in {"IDLE", "ACK"}
      BY <2>1 DEF SharedInv, StateInv, Transfers
    <2>3. CASE memory.state = "IDLE"
      <3>1. IF t.we THEN memory'.memory = [ memory.memory EXCEPT ![t.adr] = t.dat ]
            ELSE /\ memory'.memory = memory.memory
                 /\ memory'.dat_out = memory.memory[t.adr]
        BY <2>1, <2>3, MemoryEdge
      <3> HIDE DEF t, u
      <3> QED
        BY <2>1, <2>2, <3>1
    <2>4. CASE memory.state = "ACK"
      <3>1. memory'.memory = memory.memory /\ memory'.dat_out = memory.dat_out
        BY <2>4, MemoryEdge
      <3>2. IF t.we THEN memory.memory[t.adr] = t.dat
            ELSE memory.dat_out = memory.memory[t.adr]
        BY <2>1, <2>4 DEF SharedInv, BusInv
      <3> HIDE DEF t, u
      <3> QED
        BY <2>1, <3>1, <3>2
    <2> QED
      BY <2>2, <2>3, <2>4
  <1>7. arbiter' = "IDLE" => ~decoder'.busy
    BY <1>3, <1>5
  <1>8. u.cyc /\ decoder'.busy => decoder'.peripheral = Peripheral(HighOf[u.adr], PageOf[u.adr])
    <2> HIDE DEF t, u
    <2> QED
      BY <1>3, <1>5
  <1>9. /\ memory'.state = "ACK" => decoder'.peripheral = "MAIN_MEMORY"
        /\ error_ack' => decoder'.peripheral = "ERROR"
    BY <1>1, <1>2, <1>3, <1>4
  <1> QED
    BY <1>1, <1>3, <1>6, <1>7, <1>8, <1>9 DEF BusInv

-----------------------------------------------------------------------------
(* One edge of the data port.                                              *)

LEMMA PortStep ==
  ASSUME SharedInv, Clock
  PROVE  /\ ex_op' \in Operations /\ mem_op' \in Operations
         /\ stall_mem_p' \in BOOLEAN /\ held' = mem_op'
         /\ stall_mem => mem_op' = mem_op /\ loaded' = loaded
         /\ ~stall_mem => mem_op' = ex_op
         /\ redirect' \in Redirects
         /\ redirect'.taken => ex_op' = NoOperation /\ mem_op' = NoOperation
  <1>1. /\ ex_op \in Operations /\ mem_op \in Operations /\ held = mem_op
        /\ redirect.taken => ex_op = NoOperation
    BY DEF SharedInv, StateInv, StoreInv
  <1>2. ex_op' \in Operations
    BY <1>1 DEF Clock, NextOperation, Operations
  <1>3. stall_mem_p' \in BOOLEAN
    BY DEF Clock, data_port, stall_mem
  <1>4. /\ stall_mem => mem_op' = mem_op /\ loaded' = loaded /\ held' = held
        /\ ~stall_mem => mem_op' = ex_op /\ held' = ex_op
    <2>1. CASE stall_mem
      <3>1. stall_mem = TRUE
        BY <2>1 DEF stall_mem
      <3>2. mem_op' = mem_op
        BY <3>1 DEF Clock, data_port, flush_mem
      <3>3. loaded' = loaded /\ held' = held
        BY <2>1 DEF Clock, data_port
      <3> QED
        BY <2>1, <3>2, <3>3
    <2>2. CASE ~stall_mem
      <3>1. mem_op' = IF flush_mem THEN NoOperation ELSE ex_op
        BY <2>2 DEF Clock, data_port
      <3> QED
        BY <1>1, <2>2, <3>1 DEF Clock, data_port, flush_mem
    <2> QED
      BY <2>1, <2>2
  <1>5. /\ redirect' \in Redirects
        /\ redirect'.taken => ex_op' = NoOperation /\ mem_op' = NoOperation
    <2>1. CASE redirect' = NoRedirect
      BY <2>1, Places DEF NoRedirect, Redirects
    <2>2. CASE redirect' # NoRedirect
      <3>1. /\ ex_op' = NoOperation /\ mem_op' = NoOperation
            /\ \E t \in Targets : redirect' = [ taken |-> TRUE, target |-> t ]
        BY <2>2 DEF Clock, NextRedirect
      <3> QED
        BY <3>1, MemorySystemAssumption DEF Redirects
    <2> QED
      BY <2>1, <2>2
  <1> QED
    BY <1>1, <1>2, <1>3, <1>4, <1>5

(* Only the store in the memory stage changes the memory, and it stays in  *)
(* the stage while it does.                                                *)
LEMMA OnlyStoresWrite ==
  ASSUME SharedInv, Clock
  PROVE  \/ memory'.memory = memory.memory
         \/ /\ mem_op.kind = "STORE" /\ stall_mem
            /\ memory'.memory = [ memory.memory EXCEPT ![mem_op.adr] = mem_op.dat ]
  <1> DEFINE t == processor_out
  <1> SUFFICES ASSUME memory'.memory # memory.memory
               PROVE  /\ mem_op.kind = "STORE" /\ stall_mem
                      /\ memory'.memory = [ memory.memory EXCEPT ![mem_op.adr] = mem_op.dat ]
    OBVIOUS
  <1>1. /\ t.stb /\ decoder.peripheral = "MAIN_MEMORY" /\ memory.state = "IDLE" /\ t.we
        /\ memory'.memory = [ memory.memory EXCEPT ![t.adr] = t.dat ]
    BY MemoryEdge
  <1>2. AdapterInv(dmem) /\ StateInv /\ ~imem.out.we
    BY DEF SharedInv, StateInv, FetcherInv
  <1>3. t.cyc /\ t = dmem.out
    BY <1>1, <1>2, OnBus
  <1>4. dmem.state = "WRITE_WAIT_ACK"
    BY <1>1, <1>2, <1>3 DEF AdapterInv
  <1>5. mem_op.kind = "STORE" /\ t.adr = mem_op.adr /\ t.dat = mem_op.dat
          /\ mem_op \in Operations
    BY <1>3, <1>4 DEF SharedInv, StoreInv, StateInv
  <1>6. ~dmem_if_inputs.ack
    BY <1>1, <1>3, <1>5, DataAnswer, Kinds
  <1>7. stall_mem
    BY <1>5, <1>6 DEF stall_mem, WriteAck
  <1> QED
    BY <1>1, <1>5, <1>7

LEMMA StateKept ==
  ASSUME SharedInv, Clock
  PROVE  StateInv'
  <1>1. StateInv /\ imem_ack \in BOOLEAN
    BY DEF SharedInv, StateInv, FetcherInv, AdapterInv, CacheInv, Caches, imem_ack, CacheAck
  <1>2. AdapterInv(dmem') /\ FetcherInv'
    BY DataStep, FetchStep DEF Fetches
  <1>3. arbiter' \in {"IDLE", "M1_BUSY", "M2_BUSY"}
    BY <1>1 DEF StateInv, Clock, bus_clock, ArbiterClock
  <1>4. /\ decoder' = [ peripheral |-> decoder'.peripheral, busy |-> decoder'.busy ]
        /\ decoder'.busy \in BOOLEAN
    BY DecoderEdge
  <1>5. memory' \in Memories
    BY MemoryEdge
  <1>6. error_ack' \in BOOLEAN
    BY DEF Clock, bus_clock, ErrorClock
  <1>7. pc' \in CodeAddresses
    <2>1. pc \in CodeAddresses /\ pc_next(stall, imem_ack, redirect) \in CodeAddresses
      BY <1>1, NextAddress DEF StateInv
    <2>2. set_pc(stall, imem_ack, redirect)
      BY DEF Clock, fetch_clock
    <2> QED
      BY <2>1, <2>2 DEF set_pc
  <1> QED
    BY <1>2, <1>3, <1>4, <1>5, <1>6, <1>7, PortStep DEF StateInv, Memories

LEMMA StoresKept ==
  ASSUME SharedInv, Clock
  PROVE  StoreInv'
  <1>1. /\ mem_op \in Operations /\ ex_op \in Operations
        /\ memory.memory \in [ Addresses -> Nat ]
        /\ dmem.state \in {"IDLE", "READ_WAIT_ACK", "WRITE_WAIT_ACK"}
    BY DEF SharedInv, StateInv, AdapterInv
  <1>2. held' = mem_op' /\ (redirect'.taken => ex_op' = NoOperation /\ mem_op' = NoOperation)
    BY PortStep
  <1>3. ASSUME dmem'.state = "WRITE_WAIT_ACK"
        PROVE  mem_op'.kind = "STORE" /\ dmem'.out.adr = mem_op'.adr
                 /\ dmem'.out.dat = mem_op'.dat
    <2>1. CASE dmem.state = "IDLE"
      <3>1. /\ dmem_request.kind = "STORE"
            /\ dmem'.out.adr = dmem_request.adr /\ dmem'.out.dat = dmem_request.dat
            /\ dmem_request = IF HoldsRequest THEN mem_op ELSE ex_op
        BY <1>3, <2>1, DataStep, Kinds
      <3>2. CASE HoldsRequest
        <4>1. stall_mem
          BY <2>1, <3>1, <3>2 DEF stall_mem, WriteAck
        <4> QED
          BY <3>1, <3>2, <4>1, PortStep
      <3>3. CASE ~HoldsRequest
        <4>1. ~stall_mem
          BY <3>3 DEF HoldsRequest
        <4> QED
          BY <3>1, <3>3, <4>1, PortStep
      <3> QED
        BY <3>2, <3>3
    <2>2. CASE dmem.state # "IDLE"
      <3>1. ~dmem_if_inputs.ack /\ dmem' = dmem
        BY <1>3, <2>2, DataStep, DataAnswer
      <3>2. /\ dmem.state = "WRITE_WAIT_ACK" /\ mem_op.kind = "STORE"
            /\ dmem.out.adr = mem_op.adr /\ dmem.out.dat = mem_op.dat
        BY <1>3, <3>1 DEF SharedInv, StoreInv
      <3>3. stall_mem
        BY <3>1, <3>2 DEF stall_mem, WriteAck
      <3> QED
        BY <3>1, <3>2, <3>3, PortStep
    <2> QED
      BY <2>1, <2>2
  <1>4. /\ \A a \in CodeAddresses : memory'.memory[a] = Contents[a]
        /\ \A a \in DataAddresses : ~InMemory(a) => memory'.memory[a] = 0
    <2>1. /\ \A a \in CodeAddresses : memory.memory[a] = Contents[a]
          /\ \A a \in DataAddresses : ~InMemory(a) => memory.memory[a] = 0
      BY DEF SharedInv, StoreInv
    <2>2. CASE memory'.memory = memory.memory
      BY <2>1, <2>2
    <2>3. CASE memory'.memory # memory.memory
      <3>1. /\ mem_op.kind = "STORE"
            /\ memory'.memory = [ memory.memory EXCEPT ![mem_op.adr] = mem_op.dat ]
        BY <2>3, OnlyStoresWrite
      <3>2. mem_op.adr \in DataAddresses /\ InMemory(mem_op.adr)
        BY <1>1, <3>1, Kinds
      <3>3. \A a \in CodeAddresses : a # mem_op.adr
        BY <3>2, Places
      <3>4. \A a \in Addresses : a # mem_op.adr => memory'.memory[a] = memory.memory[a]
        BY <1>1, <3>1
      <3> QED
        BY <2>1, <3>2, <3>3, <3>4, Places
    <2> QED
      BY <2>2, <2>3
  <1> QED
    BY <1>2, <1>3, <1>4 DEF StoreInv, InMemory

(* Where no load follows a read that is under way, a load gets its word.   *)
LEMMA LoadsKept ==
  ASSUME LoadsApart, SharedInv, LoadInv, Clock
  PROVE  LoadInv'
  <1>1. /\ mem_op \in Operations /\ ex_op \in Operations
        /\ memory.memory \in [ Addresses -> Nat ]
        /\ AdapterInv(dmem)
        /\ dmem.state \in {"IDLE", "READ_WAIT_ACK", "WRITE_WAIT_ACK"}
    BY DEF SharedInv, StateInv, AdapterInv
  <1>2. ex_op.kind = "LOAD" =>
          dmem.state # "READ_WAIT_ACK" /\ ~dmem.mem_r_ack /\ mem_op.kind # "LOAD"
    BY DEF LoadInv
  <1>3. ASSUME mem_op'.kind = "LOAD", dmem'.state = "READ_WAIT_ACK"
        PROVE  dmem'.out.adr = mem_op'.adr
    <2>1. CASE dmem.state = "IDLE"
      <3>1. /\ dmem_request.kind = "LOAD" /\ dmem'.out.adr = dmem_request.adr
            /\ dmem_request = IF HoldsRequest THEN mem_op ELSE ex_op
        BY <1>3, <2>1, DataStep, Kinds
      <3>2. CASE stall_mem
        BY <3>1, <3>2, PortStep DEF HoldsRequest
      <3>3. CASE ~stall_mem
        <4>1. mem_op' = ex_op /\ mem_op.kind # "LOAD"
          BY <1>2, <1>3, <3>3, PortStep
        <4> QED
          BY <3>1, <4>1
      <3> QED
        BY <3>2, <3>3
    <2>2. CASE dmem.state # "IDLE"
      <3>1. dmem' = dmem
        BY <1>3, <2>2, DataStep, DataAnswer
      <3>2. mem_op' = mem_op
        BY <1>2, <1>3, <3>1, PortStep
      <3> QED
        BY <1>3, <3>1, <3>2 DEF LoadInv
    <2> QED
      BY <2>1, <2>2
  <1>4. ASSUME mem_op'.kind = "LOAD", dmem'.mem_r_ack
        PROVE  dmem'.mem_data_out = memory'.memory[mem_op'.adr]
    <2>1. dmem.state # "IDLE"
      BY <1>4, DataStep
    <2>2. dmem_if_inputs.ack
      BY <1>1, <1>4, <2>1, DataStep, DataAnswer DEF AdapterInv
    <2>3. dmem.state = "READ_WAIT_ACK" /\ dmem'.mem_data_out = dmem_if_inputs.dat
      BY <1>4, <2>1, <2>2, DataStep
    <2>4. mem_op' = mem_op /\ dmem.out.adr = mem_op.adr
      <3>1. mem_op' = mem_op
        BY <1>2, <1>4, <2>3, PortStep
      <3> QED
        BY <1>4, <2>3, <3>1 DEF LoadInv
    <2>5. ~dmem.out.we
      BY <1>1, <2>3 DEF AdapterInv
    <2>6. dmem_if_inputs.dat = memory.memory[mem_op.adr]
      <3>1. mem_op.adr \in DataAddresses
        BY <1>1, <1>4, <2>4, Kinds
      <3>2. InMemory(mem_op.adr) => dmem_if_inputs.dat = memory.memory[mem_op.adr]
        BY <2>2, <2>4, <2>5, DataAnswer
      <3>3. ~InMemory(mem_op.adr) => dmem_if_inputs.dat = 0
        BY <2>2, <2>4, DataAnswer
      <3> QED
        BY <3>1, <3>2, <3>3 DEF SharedInv, StoreInv
    <2>7. memory'.memory = memory.memory
      BY <1>4, <2>4, OnlyStoresWrite
    <2> QED
      BY <2>3, <2>4, <2>6, <2>7
  <1>5. ASSUME ex_op'.kind = "LOAD"
        PROVE  dmem'.state # "READ_WAIT_ACK" /\ ~dmem'.mem_r_ack /\ mem_op'.kind # "LOAD"
    <2>1. dmem.state # "READ_WAIT_ACK" /\ ~dmem.mem_r_ack /\ mem_op.kind # "LOAD"
            /\ dmem_request.kind # "LOAD" /\ mem_op'.kind # "LOAD"
      <3>1. CASE stall_mem
        <4>1. ex_op' = ex_op
          BY <3>1 DEF Clock, NextOperation
        <4>2. dmem_request = mem_op
          BY <3>1, DataStep DEF HoldsRequest
        <4> QED
          BY <1>2, <1>5, <3>1, <4>1, <4>2, PortStep
      <3>2. CASE ~stall_mem
        <4>1. ex_op' \in Loads \/ ex_op' = NoOperation \/ ex_op' \in Stores
          BY <3>2 DEF Clock, NextOperation
        <4>2. ex_op' \notin Stores /\ ex_op' # NoOperation
          BY <1>5, Kinds
        <4>3. ~ReadUnderWay
          BY <3>2, <4>2 DEF Clock, NextOperation
        <4> QED
          BY <3>2, <4>3, PortStep, DataStep DEF ReadUnderWay
      <3> QED
        BY <3>1, <3>2
    <2>2. dmem'.state # "READ_WAIT_ACK" /\ ~dmem'.mem_r_ack
      <3>1. CASE dmem.state = "IDLE"
        BY <2>1, <3>1, DataStep
      <3>2. CASE dmem.state # "IDLE" /\ ~dmem_if_inputs.ack
        BY <2>1, <3>2, DataStep
      <3>3. CASE dmem.state # "IDLE" /\ dmem_if_inputs.ack
        BY <2>1, <3>3, DataStep
      <3> QED
        BY <3>1, <3>2, <3>3
    <2> QED
      BY <2>1, <2>2
  <1> QED
    BY <1>3, <1>4, <1>5 DEF LoadInv

-----------------------------------------------------------------------------
(* One edge of fetch.                                                      *)

(* What an edge makes of the counter and of cancel_fetch.                  *)
LEMMA CounterStep ==
  ASSUME SharedInv, FetchInv, Clock
  PROVE  LET ack == imem_ack
             ready == ack /\ ~stall /\ ~cancel_fetch
         IN  /\ redirect.taken => pc' = redirect.target
             /\ ~redirect.taken => pc' = IF ready THEN (pc + 1) % CodeWords ELSE pc
             /\ cancel_fetch' \in BOOLEAN /\ fresh' \in BOOLEAN
             /\ cancel_fetch' <=> (redirect.taken /\ ~ack) \/ (cancel_fetch /\ ~ack)
             /\ fresh' <=> ~redirect.taken /\ (fresh \/ ready)
             /\ delivered' = IF ready THEN [ pc |-> pc, word |-> imem_data ]
                             ELSE delivered
             /\ imem_address(stall, ack, redirect) = pc'
  <1> DEFINE ack == imem_ack
             ready == ack /\ ~stall /\ ~cancel_fetch
  <1>1. /\ ack \in BOOLEAN /\ redirect.taken \in BOOLEAN /\ cancel_fetch \in BOOLEAN
        /\ fresh \in BOOLEAN /\ stall \in BOOLEAN
        /\ cancel_fetch => ~redirect.taken
    BY DEF SharedInv, StateInv, FetcherInv, AdapterInv, CacheInv, Caches, Redirects, FetchInv,
           imem_ack, CacheAck
  <1>2. /\ set_pc(stall, ack, redirect)
        /\ instruction_ready(stall, ack) = ready
        /\ fresh' = (~redirect.taken /\ (fresh \/ ready))
        /\ delivered' = IF ready THEN [ pc |-> pc, word |-> imem_data ]
                        ELSE delivered
    BY DEF Clock, fetch_clock, instruction_ready
  <1>3. /\ redirect.taken => pc_next(stall, ack, redirect) = redirect.target
        /\ ~redirect.taken => pc_next(stall, ack, redirect)
                                = IF ready THEN (pc + 1) % CodeWords ELSE pc
    BY <1>1, <1>2 DEF pc_next
  <1> HIDE DEF ack, ready
  <1>4. /\ redirect.taken => pc' = redirect.target
        /\ ~redirect.taken => pc' = IF ready THEN (pc + 1) % CodeWords ELSE pc
        /\ cancel_fetch' = ((redirect.taken /\ ~ack) \/ (cancel_fetch /\ ~ack))
    <2>1. CASE redirect.taken /\ ~ack
      BY <1>2, <1>3, <2>1 DEF set_pc, Overtakes
    <2>2. CASE ~(redirect.taken /\ ~ack) /\ cancel_fetch /\ ack
      BY <1>1, <1>2, <1>3, <2>2 DEF set_pc, Overtakes, CancelEnds, ready
    <2>3. CASE ~(redirect.taken /\ ~ack) /\ ~(cancel_fetch /\ ack)
      BY <1>1, <1>2, <1>3, <2>3 DEF set_pc, Overtakes, CancelEnds
    <2> QED
      BY <2>1, <2>2, <2>3
  <1>5. imem_address(stall, ack, redirect) = pc'
    <2>1. ~cancel_fetch => pc' = pc_next(stall, ack, redirect)
      BY <1>3, <1>4
    <2>2. cancel_fetch => pc' = pc
      BY <1>1, <1>4 DEF ready
    <2> QED
      BY <2>1, <2>2 DEF imem_address
  <1>6. fresh' \in BOOLEAN /\ cancel_fetch' \in BOOLEAN
    BY <1>2, <1>4
  <1> QED
    BY <1>2, <1>4, <1>5, <1>6 DEF ack, ready

LEMMA FetchKept ==
  ASSUME SharedInv, FetchInv, Clock
  PROVE  FetchInv'
  <1>1. /\ stall' \in BOOLEAN /\ cancel_fetch' \in BOOLEAN /\ fresh' \in BOOLEAN
        /\ cancel_fetch' => ~fresh' /\ ~redirect'.taken
    <2>1. stall' \in BOOLEAN
      BY MemorySystemAssumption DEF Clock
    <2>2. redirect'.taken => ~redirect.taken /\ fresh
      BY DEF Clock, NextRedirect, NoRedirect
    <2> QED
      BY <2>1, <2>2, CounterStep DEF FetchInv
  <1>2. CASE ICACHE_ENABLE
    <2>1. imem_address(stall, CacheAck(imem), redirect) = pc'
      BY <1>2, CounterStep DEF imem_ack
    <2>2. imem'.cache_hit => CacheData(imem)' = Contents[pc']
      BY <1>2, <2>1, CacheFetch
    <2>3. Contents[pc'] = Contents'[pc']
      BY DEF Contents, Addresses
    <2> QED
      BY <1>1, <1>2, <2>2, <2>3 DEF FetchInv
  <1>3. CASE ~ICACHE_ENABLE
    <2>1. /\ AdapterInv(imem) /\ imem.state \in {"IDLE", "READ_WAIT_ACK"}
          /\ imem.mem_r_ack \in BOOLEAN
          /\ imem.mem_r_ack => imem.state = "IDLE"
          /\ imem_ack = imem.mem_r_ack
      BY <1>3 DEF SharedInv, StateInv, FetcherInv, AdapterInv, imem_ack
    <2>2. CASE imem.state = "IDLE"
      <3>1. /\ imem'.mem_r_ack = FALSE /\ imem'.state = "READ_WAIT_ACK"
            /\ imem'.out.adr = pc'
        BY <1>3, <2>1, <2>2, AdapterFetch, CounterStep
      <3> QED
        BY <1>1, <1>3, <3>1 DEF FetchInv
    <2>3. CASE imem.state = "READ_WAIT_ACK"
      <3>1. ~imem.mem_r_ack
        BY <2>1, <2>3
      <3>2. ~cancel_fetch' => pc' = pc /\ ~cancel_fetch /\ imem.out.adr = pc
        BY <1>3, <2>1, <2>3, <3>1, CounterStep DEF FetchInv
      <3>3. CASE ~icache_inputs.ack
        <4>1. imem' = imem
          BY <1>3, <2>3, <3>3, AdapterFetch
        <4> QED
          BY <1>1, <1>3, <2>3, <3>1, <3>2, <4>1 DEF FetchInv
      <3>4. CASE icache_inputs.ack
        <4>1. /\ imem'.state = "IDLE" /\ imem'.mem_r_ack = TRUE
              /\ imem'.mem_data_out = icache_inputs.dat
          BY <1>3, <2>3, <3>4, AdapterFetch
        <4>2. icache_inputs.dat = Contents[imem.out.adr]
          BY <3>4, FetchAnswer
        <4>3. ~redirect'.taken \/ ~cancel_fetch'
          BY <1>1
        <4> QED
          BY <1>1, <1>3, <3>2, <4>1, <4>2 DEF FetchInv
      <3> QED
        BY <3>3, <3>4
    <2> QED
      BY <2>1, <2>2, <2>3
  <1> QED
    BY <1>2, <1>3

-----------------------------------------------------------------------------
(* The invariant, and what it is for.                                      *)

LEMMA NewCacheFits == ICACHE_ENABLE => CacheInv(NewCache)
  <1> SUFFICES ASSUME ICACHE_ENABLE PROVE CacheInv(NewCache)
    OBVIOUS
  <1>1. LINE_SIZE \in Nat \ {0} /\ NUM_LINES \in Nat \ {0}
    BY CacheAssumption
  <1>2. 0 \in WordsOfLine /\ 0 \in Lines /\ NoLine \in Words
    BY <1>1 DEF WordsOfLine, Lines, NoLine, Words
  <1>3. /\ NoTransfer \in Transfers /\ NoTransfer.cyc = FALSE /\ NoTransfer.stb = FALSE
    BY Places DEF NoTransfer, Transfers
  <1>4. /\ [ l \in Lines |-> FALSE ] \in [ Lines -> BOOLEAN ]
        /\ [ l \in Lines |-> 0 ] \in [ Lines -> Nat ]
        /\ [ l \in Lines |-> NoLine ] \in [ Lines -> Words ]
    BY <1>2
  <1>5. /\ NewCache.state = "IDLE" /\ NewCache.out = NoTransfer
        /\ NewCache.store_cache_line = FALSE
        /\ NewCache.valid = [ l \in Lines |-> FALSE ]
    BY DEF NewCache
  <1>6. NewCache \in Caches
    <2> DEFINE v == [ l \in Lines |-> FALSE ]
               t == [ l \in Lines |-> 0 ]
               c == [ l \in Lines |-> NoLine ]
    <2>1. NewCache = [ state |-> "IDLE", out |-> NoTransfer, valid |-> v, tag_memory |-> t,
                       cache_memory |-> c, input_address_word |-> 0,
                       current_cache_line |-> NoLine, cache_hit |-> FALSE,
                       cl_load_address |-> 0, cl_current_line |-> 0,
                       cl_current_word |-> 0, load_buffer |-> NoLine,
                       load_buffer_tag |-> 0, store_cache_line |-> FALSE ]
      BY DEF NewCache
    <2>2. v \in [ Lines -> BOOLEAN ] /\ t \in [ Lines -> Nat ] /\ c \in [ Lines -> Words ]
      BY <1>4
    <2> HIDE DEF v, t, c
    <2> QED
      BY <1>2, <1>3, <2>1, <2>2 DEF Caches
  <1>7. \A l \in Lines : ~NewCache.valid[l]
    BY <1>5
  <1> QED
    BY <1>3, <1>5, <1>6, <1>7 DEF CacheInv, Loading

LEMMA Initially == Init => MemoryInv /\ LoadInv
  <1> SUFFICES ASSUME Init PROVE MemoryInv /\ LoadInv
    OBVIOUS
  <1>1. NoTransfer \in Transfers /\ NoTransfer.cyc = FALSE /\ NoTransfer.stb = FALSE
          /\ NoTransfer.we = FALSE /\ NoTransfer.adr = 0
    BY Places DEF NoTransfer, Transfers
  <1>2. AdapterInv(NewAdapter) /\ NewAdapter.state = "IDLE" /\ NewAdapter.mem_r_ack = FALSE
          /\ NewAdapter.out = NoTransfer
    BY <1>1 DEF NewAdapter, AdapterInv
  <1>3. /\ dmem = NewAdapter
        /\ ICACHE_ENABLE => imem = NewCache
        /\ ~ICACHE_ENABLE => imem = NewAdapter
    BY DEF Init
  <1>4. NewCache.out = NoTransfer /\ NewCache.cache_hit = FALSE
    BY DEF NewCache
  <1>5. FetcherInv
    BY <1>1, <1>2, <1>3, <1>4, NewCacheFits, Places DEF FetcherInv
  <1>6. /\ NewMemory(Contents).state = "IDLE" /\ NewMemory(Contents).read_ack = FALSE
        /\ NewMemory(Contents).memory = Contents
        /\ NewMemory(Contents) \in [ state : {"IDLE", "ACK"}, read_ack : BOOLEAN,
                                     dat_out : Nat, memory : [ Addresses -> Nat ] ]
    BY Places DEF NewMemory
  <1>7. NoOperation \in Operations /\ NoRedirect \in Redirects /\ NoRedirect.taken = FALSE
    BY Places DEF Operations, NoRedirect, Redirects
  <1>8. StateInv
    BY <1>2, <1>3, <1>5, <1>6, <1>7, Places DEF Init, StateInv, NewDecoder, FetchInit
  <1>9. BusInv
    <2>1. processor_out = NoTransfer
      BY DEF Init, processor_out, OutputMux
    <2> QED
      BY <1>1, <1>6, <2>1 DEF Init, BusInv, NewDecoder
  <1>10. StoreInv
    BY <1>2, <1>3, <1>6, <1>7, Places DEF Init, StoreInv
  <1>11. LoadInv
    BY <1>2, <1>3, Kinds DEF Init, LoadInv
  <1>12. FetchInv
    BY <1>2, <1>3, <1>4, <1>7 DEF Init, FetchInv, FetchInit
  <1> QED
    BY <1>8, <1>9, <1>10, <1>11, <1>12 DEF MemoryInv, SharedInv

(* Whatever does not change keeps everything said of it.                   *)
LEMMA Stutter ==
  /\ MemoryInv /\ UNCHANGED vars => MemoryInv'
  /\ LoadInv /\ UNCHANGED vars => LoadInv'
  <1>1. ASSUME UNCHANGED vars
        PROVE  /\ imem' = imem /\ dmem' = dmem /\ arbiter' = arbiter /\ decoder' = decoder
               /\ memory' = memory /\ error_ack' = error_ack /\ ex_op' = ex_op
               /\ mem_op' = mem_op /\ held' = held /\ stall_mem_p' = stall_mem_p
               /\ pc' = pc /\ cancel_fetch' = cancel_fetch /\ redirect' = redirect
               /\ stall' = stall /\ fresh' = fresh
    BY <1>1 DEF vars, portVars, busVars, coreVars
  <1>2. ASSUME UNCHANGED vars PROVE processor_out' = processor_out
    BY <1>1, <1>2 DEF processor_out, m1, m2
  <1>3. ASSUME MemoryInv, UNCHANGED vars PROVE MemoryInv'
    <2>1. StateInv'
      BY <1>1, <1>3 DEF MemoryInv, SharedInv, StateInv, FetcherInv
    <2>2. BusInv'
      BY <1>1, <1>2, <1>3 DEF MemoryInv, SharedInv, BusInv
    <2>3. StoreInv'
      BY <1>1, <1>3 DEF MemoryInv, SharedInv, StoreInv, InMemory
    <2>4. FetchInv'
      BY <1>1, <1>3 DEF MemoryInv, FetchInv
    <2> QED
      BY <2>1, <2>2, <2>3, <2>4 DEF MemoryInv, SharedInv
  <1>4. ASSUME LoadInv, UNCHANGED vars PROVE LoadInv'
    BY <1>1, <1>4 DEF LoadInv
  <1> QED
    BY <1>3, <1>4

(* Which design it is does not change.                                     *)
LEMMA Always ==
  /\ ICACHE_ENABLE => []ICACHE_ENABLE
  /\ LoadsApart => []LoadsApart
  <1>1. ICACHE_ENABLE => ICACHE_ENABLE'
    OBVIOUS
  <1>2. LoadsApart => LoadsApart'
    OBVIOUS
  <1> QED
    BY <1>1, <1>2, PTL

LEMMA Inductive == MemoryInv /\ [Clock]_vars => MemoryInv'
  <1> SUFFICES ASSUME MemoryInv, [Clock]_vars PROVE MemoryInv'
    OBVIOUS
  <1>1. CASE Clock
    BY <1>1, StateKept, BusKept, StoresKept, FetchKept DEF MemoryInv, SharedInv
  <1>2. CASE UNCHANGED vars
    BY <1>2, Stutter
  <1> QED
    BY <1>1, <1>2

(* Every state the memory system reaches satisfies the invariant: one      *)
(* cycle is on the bus, decoder and slaves belong to it, only stores       *)
(* change the memory, and the cache loads lines of the program.            *)
THEOREM MemoryIsSound == Spec => []MemoryInv
  <1> QED
    BY Initially, Inductive, PTL DEF Spec

(* An acknowledge reaches the master whose transfer is on the bus and no   *)
(* other, with data from where its address points, for every program,      *)
(* address map and order of fetches, loads and stores.                     *)
THEOREM AnswersAreRight == Spec => []AnswersFit
  <1>1. MemoryInv => AnswersFit
    BY Fit DEF MemoryInv
  <1> QED
    BY <1>1, MemoryIsSound, PTL

(* A valid line of the cache holds what memory holds at its addresses, for *)
(* every number and size of lines: loading a line goes on to its end, and  *)
(* under its own tag, whatever redirects fetch meanwhile.                  *)
THEOREM CacheIsRight == ICACHE_ENABLE => (Spec => []CacheFits)
  <1>1. ICACHE_ENABLE /\ MemoryInv => CacheFits
    <2> SUFFICES ASSUME ICACHE_ENABLE, MemoryInv,
                        NEW l \in Lines, NEW w \in WordsOfLine, imem.valid[l]
                 PROVE  imem.cache_memory[l][w] =
                          Contents[LINE_SIZE * (NUM_LINES * imem.tag_memory[l] + l) + w]
      BY DEF CacheFits
    <2>1. CacheInv(imem)
      BY DEF MemoryInv, SharedInv, StateInv, FetcherInv
    <2>2. HoldsLine(imem.cache_memory[l], imem.tag_memory[l], l)
      BY <2>1 DEF CacheInv
    <2> QED
      BY <2>2 DEF HoldsLine
  <1> QED
    BY <1>1, MemoryIsSound, Always, PTL

(* Fetch implements the instruction stream, with the cache and without: no *)
(* address is skipped, repeated or taken from the wrong answer, however    *)
(* jumps and stalls fall between requests and answers.                     *)
THEOREM FetchIsTheStream == Spec => ImplementsStream
  <1>1. Init => Stream!Init
    BY DEF Init, FetchInit, NoRedirect, Stream!Init
  <1>2. ASSUME MemoryInv, Clock
        PROVE  Stream!Next \/ UNCHANGED << pc, delivered, redirect >>
    <2> DEFINE ready == imem_ack /\ ~stall /\ ~cancel_fetch
    <2>1. SharedInv /\ FetchInv
      BY <1>2 DEF MemoryInv
    <2>2. /\ redirect.taken => pc' = redirect.target
          /\ ~redirect.taken => pc' = IF ready THEN (pc + 1) % CodeWords ELSE pc
          /\ delivered' = IF ready THEN [ pc |-> pc, word |-> imem_data ]
                          ELSE delivered
      BY <1>2, <2>1, CounterStep
    <2>3. ready => imem_data = Contents[pc]
      BY <2>1 DEF FetchInv, imem_ack, imem_data, CacheAck
    <2> HIDE DEF ready
    <2>4. CASE redirect.taken
      BY <2>2, <2>3, <2>4 DEF Stream!Next, Stream!Redirect, Stream!Deliver
    <2>5. CASE ~redirect.taken /\ ready
      BY <2>2, <2>3, <2>5 DEF Stream!Next, Stream!Advance, Stream!Deliver
    <2>6. CASE ~redirect.taken /\ ~ready
      BY <2>2, <2>6 DEF Stream!Next, Stream!Hold
    <2> QED
      BY <2>4, <2>5, <2>6
  <1>3. MemoryInv /\ [Clock]_vars
          => [Stream!Next]_<< pc, delivered, redirect >>
    <2>1. UNCHANGED vars => UNCHANGED << pc, delivered, redirect >>
      BY DEF vars, coreVars
    <2> QED
      BY <1>2, <2>1
  <1> QED
    BY <1>1, <1>3, MemoryIsSound, PTL DEF Spec, ImplementsStream, Stream!Spec

(* Without the cache, and where no load follows a read that is under way,  *)
(* the data port implements the memory: a store has changed it when it     *)
(* leaves the memory stage, and a load leaves with the word it holds.      *)
THEOREM DataIsTheMemory == LoadsApart => (Spec => ImplementsMemory)
  <1>1. Init => LoadInv /\ Data!Init
    BY Initially DEF Init, Data!Init
  <1>2. LoadsApart /\ MemoryInv /\ LoadInv /\ [Clock]_vars => LoadInv'
    <2> SUFFICES ASSUME LoadsApart, MemoryInv, LoadInv, [Clock]_vars
                 PROVE  LoadInv'
      OBVIOUS
    <2>1. CASE Clock
      BY <2>1, LoadsKept DEF MemoryInv
    <2>2. CASE UNCHANGED vars
      BY <2>2, Stutter
    <2> QED
      BY <2>1, <2>2
  <1>3. ASSUME MemoryInv, LoadInv, Clock
        PROVE  Data!Next \/ UNCHANGED << memory.memory, mem_op, loaded >>
    <2>1. SharedInv /\ mem_op \in Operations /\ AdapterInv(dmem)
      BY <1>3 DEF MemoryInv, SharedInv, StateInv
    <2>2. CASE memory'.memory # memory.memory
      <3>1. /\ mem_op.kind = "STORE" /\ stall_mem
            /\ memory'.memory = [ memory.memory EXCEPT ![mem_op.adr] = mem_op.dat ]
        BY <1>3, <2>1, <2>2, OnlyStoresWrite
      <3>2. mem_op' = mem_op /\ loaded' = loaded
        BY <1>3, <2>1, <3>1, PortStep
      <3> QED
        BY <3>1, <3>2 DEF Data!Next, Data!Perform
    <2>3. CASE memory'.memory = memory.memory /\ stall_mem
      BY <1>3, <2>1, <2>3, PortStep
    <2>4. CASE memory'.memory = memory.memory /\ ~stall_mem
      <3>1. mem_op.kind = "STORE" => memory.memory[mem_op.adr] = mem_op.dat
        <4> SUFFICES ASSUME mem_op.kind = "STORE"
                     PROVE  memory.memory[mem_op.adr] = mem_op.dat
          OBVIOUS
        <4>1. dmem.state = "WRITE_WAIT_ACK" /\ dmem_if_inputs.ack
          BY <2>4 DEF stall_mem, WriteAck
        <4>2. dmem.out.we /\ dmem.out.adr = mem_op.adr /\ dmem.out.dat = mem_op.dat
                /\ InMemory(mem_op.adr)
          BY <2>1, <4>1, Kinds DEF SharedInv, StoreInv, AdapterInv
        <4> QED
          BY <1>3, <2>1, <4>1, <4>2, DataAnswer
      <3>2. loaded' = IF mem_op.kind = "LOAD" THEN memory.memory[mem_op.adr] ELSE loaded
        <4>1. loaded' = IF mem_op.kind = "LOAD" THEN dmem.mem_data_out ELSE loaded
          BY <1>3, <2>4 DEF Clock, data_port
        <4>2. mem_op.kind = "LOAD" => dmem.mem_r_ack
          BY <2>4 DEF stall_mem
        <4> QED
          BY <1>3, <4>1, <4>2 DEF LoadInv
      <3> QED
        BY <2>4, <3>1, <3>2 DEF Data!Next, Data!Leave
    <2> QED
      BY <2>2, <2>3, <2>4
  <1>4. MemoryInv /\ LoadInv /\ [Clock]_vars
          => [Data!Next]_<< memory.memory, mem_op, loaded >>
    <2>1. UNCHANGED vars => UNCHANGED << memory.memory, mem_op, loaded >>
      BY DEF vars, busVars, portVars
    <2> QED
      BY <1>3, <2>1
  <1> QED
    BY <1>1, <1>2, <1>4, MemoryIsSound, Always, PTL DEF Spec, ImplementsMemory, Data!Spec

==============================================================================
