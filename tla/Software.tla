------------------------------ MODULE Software ------------------------------
(***************************************************************************)
(* What runs on the board of example/toplevel.vhd: the bootloader, then    *)
(* the program it was sent, the benchmark or src/software/hello/main.c.    *)
(* All of them share the UART. The greeting of the program, the start code *)
(* and its wait for ever after main returns (start.S) are here.            *)
(***************************************************************************)
EXTENDS Benchmark, Bootloader

VARIABLE hello   \* where the program hello is

softwareVars == << benchmarkVars, bootVars, hello, serialVars >>

ASSUME SoftwareAssumption == Applications \subseteq { "sha256", "hello" }

SoftwareInit == BenchmarkInit /\ BootInit /\ SerialInit /\ hello = "start"

(* What the jump to APP_ENTRY finds.                                       *)
Loaded(application) ==
  boot = "booted" /\ memory = [ i \in 0..(AppLength - 1) |-> Byte(application, i) ]

Hello ==
  \/ hello = "start" /\ hello' = "done" /\ uart_tx_string
  \/ hello = "done" /\ hello' = "wfi" /\ UNCHANGED serialVars
  \/ hello = "wfi" /\ UNCHANGED << hello, serialVars >>

BootStep == Boot /\ UNCHANGED << benchmarkVars, hello >>

Runs(part) == Loaded("sha256") /\ part /\ UNCHANGED << bootVars, hello >>

SetupStep == Runs(Setup)

BenchmarkStep == Runs(Loop \/ Interrupt \/ Handler)

HelloStep == Loaded("hello") /\ Hello /\ UNCHANGED << benchmarkVars, bootVars >>

DrainStep == Drain /\ UNCHANGED << benchmarkVars, bootVars, hello >>

SendStep == SendByte /\ UNCHANGED << benchmarkVars, hello >>

TickStep(t) == Tick(t) /\ UNCHANGED << bootVars, hello >>

PressStep == Press /\ UNCHANGED << bootVars, hello >>

StrayStep == Runs(Stray)

SoftwareNext ==
  \/ BootStep \/ SetupStep \/ BenchmarkStep \/ HelloStep \/ DrainStep \/ SendStep
  \/ (\E t \in 0..1 : TickStep(t)) \/ PressStep \/ StrayStep

(* The processor goes on, and so does the line. Nothing is assumed of the  *)
(* benchmark once its setup is over: on this core a request is taken again *)
(* at every edge, its handler never starts and main hashes no more (module *)
(* Trap), so no progress of it after that may be relied on.                *)
SoftwareSpec ==
  /\ SoftwareInit /\ [][SoftwareNext]_softwareVars
  /\ WF_softwareVars(BootStep) /\ WF_softwareVars(SetupStep) /\ WF_softwareVars(HelloStep)
  /\ WF_softwareVars(DrainStep) /\ WF_softwareVars(SendStep)

=============================================================================
