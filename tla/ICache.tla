-------------------------------- MODULE ICache --------------------------------
(***************************************************************************)
(* The instruction cache, src/src/pp_icache.vhd, as a record of its        *)
(* registers: a direct-mapped cache whose lookup takes one edge, so that   *)
(* hit, line and word belong to the address of the edge before.            *)
(* Addresses count words.                                                  *)
(***************************************************************************)
EXTENDS Integers, WbAdapter

CONSTANTS
  LINE_SIZE,   \* words of a line
  NUM_LINES    \* lines

ASSUME CacheAssumption ==
  LINE_SIZE \in Nat \ {0} /\ NUM_LINES \in Nat \ {0}

Lines == 0 .. NUM_LINES - 1
WordsOfLine == 0 .. LINE_SIZE - 1

WordOf(adr) == adr % LINE_SIZE
LineOf(adr) == (adr \div LINE_SIZE) % NUM_LINES
TagOf(adr)  == adr \div (LINE_SIZE * NUM_LINES)

NoLine == [ w \in WordsOfLine |-> 0 ]

NewCache ==
  [ state              |-> "IDLE",
    out                |-> NoTransfer,
    valid              |-> [ l \in Lines |-> FALSE ],
    tag_memory         |-> [ l \in Lines |-> 0 ],
    cache_memory       |-> [ l \in Lines |-> NoLine ],
    input_address_word |-> 0,
    current_cache_line |-> NoLine,
    cache_hit          |-> FALSE,
    cl_load_address    |-> 0,
    cl_current_line    |-> 0,
    cl_current_word    |-> 0,
    load_buffer        |-> NoLine,
    load_buffer_tag    |-> 0,
    store_cache_line   |-> FALSE ]

CacheData(c) == c.current_cache_line[c.input_address_word]
CacheAck(c)  == c.state \in {"IDLE", "CACHE_READ_STALL"} /\ c.cache_hit

(* Mutant: the tag is not compared.                                        *)
HitAnyTag(c, adr) == c.valid[LineOf(adr)]

Hit(c, adr) ==
  /\ c.valid[LineOf(adr)]
  /\ c.tag_memory[LineOf(adr)] = TagOf(adr)

(* find_indices, cacheline_lookup and tag_lookup: a line is looked up as   *)
(* it was before the one being stored at this edge.                        *)
Lookup(c, adr) ==
  LET l == c.cl_current_line
  IN  [ c EXCEPT
        !.input_address_word = WordOf(adr),
        !.current_cache_line = c.cache_memory[LineOf(adr)],
        !.cache_hit          = Hit(c, adr),
        !.cache_memory[l] = IF c.store_cache_line THEN c.load_buffer ELSE @,
        !.tag_memory[l]   = IF c.store_cache_line THEN c.load_buffer_tag ELSE @ ]

BeginLine(c, adr) ==
  [ c EXCEPT
    !.out = [ NoTransfer EXCEPT !.cyc = TRUE, !.adr = LINE_SIZE * (adr \div LINE_SIZE) ],
    !.load_buffer_tag = TagOf(adr),
    !.cl_load_address = adr \div LINE_SIZE,
    !.cl_current_line = LineOf(adr),
    !.cl_current_word = 0,
    !.state = "LOAD_CACHELINE_START" ]

RequestWord(c) ==
  [ c EXCEPT
    !.out.stb = TRUE,
    !.out.adr = LINE_SIZE * c.cl_load_address + c.cl_current_word,
    !.state   = "LOAD_CACHELINE_WAIT_ACK" ]

(* Mutant: a line is stored one word early.                                *)
LastWordEarly == LINE_SIZE - 2

LastWord == LINE_SIZE - 1

TakeWord(c, dat) ==
  LET loaded == [ c EXCEPT !.out.stb = FALSE, !.load_buffer[c.cl_current_word] = dat ]
  IN  IF c.cl_current_word = LastWord
      THEN [ loaded EXCEPT !.out.cyc = FALSE, !.store_cache_line = TRUE,
                           !.state = "LOAD_CACHELINE_FINISH" ]
      ELSE [ loaded EXCEPT !.cl_current_word = @ + 1,
                           !.state = "LOAD_CACHELINE_START" ]

(* Mutant: a line is never valid.                                          *)
FinishLineInvalid(c) ==
  [ c EXCEPT !.store_cache_line = FALSE, !.state = "CACHE_READ_STALL" ]

FinishLine(c) ==
  [ c EXCEPT !.store_cache_line = FALSE, !.valid[c.cl_current_line] = TRUE,
             !.state = "CACHE_READ_STALL" ]

(* The controller acts on the hit of the lookup before this one.           *)
Controller(c, hit, adr, answer) ==
  CASE c.state = "IDLE" /\ ~hit            -> BeginLine(c, adr)
    [] c.state = "CACHE_READ_STALL"        -> [ c EXCEPT !.state = "IDLE" ]
    [] c.state = "LOAD_CACHELINE_START"    -> RequestWord(c)
    [] c.state = "LOAD_CACHELINE_WAIT_ACK" /\ answer.ack -> TakeWord(c, answer.dat)
    [] c.state = "LOAD_CACHELINE_FINISH"   -> FinishLine(c)
    [] OTHER                               -> c

(* The read request of the processor is always there: imem_req is the      *)
(* negated reset.                                                          *)
CacheClock(c, adr, answer) ==
  Controller(Lookup(c, adr), c.cache_hit, adr, answer)
==============================================================================
