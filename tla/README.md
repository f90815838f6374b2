# ICT_EX3 in TLA+

Models, model checks and proofs for the RISC-V system-on-chip of this
repository: an RV32I core, an AXI4-Lite interconnect and a set of devices
written in C++ for translation to RTL (`src/rv32*.cpp`, `src/rv32*.h`), and the
firmware that runs on it (`src/rv_test`, `src/rv_boot_uart`).

## The system

### Components

| Component | State | Operations | What makes it correct |
|---|---|---|---|
| `IOBuf` (rv32_io.h:60-103) | register file, read and write pointers, `not_empty`, `full` | `update(rflag, wflag)`, `reset` | it is a bounded queue, although with equal pointers only the flags tell empty from full |
| UART port: `do_tx`, `do_rx`, `write_command`, `set_pin` (rv32_io.cpp:236-390, 657) | bit state machines, baud counters, the two `IOBuf`s, the interrupt pin | one step per clock; reset when `ctrl` is written | a word sent is the word received; an error is flagged exactly when there was one; the pin announces waiting bytes |
| Interconnect: `RV_AXI4_Master`/`MasterFSM`, `SlaveFSM`, `CTRL` (rv32_io.h:105-421, rv32_io.cpp:485-603, rv32.cpp:1054) | a state machine per master and two per slave, the connection tables, two round-robin counters | load, store; a step of every device, of every core, then `connectChannel` | each access takes effect once at one device, its answer goes to the core that asked, and it ends if the device answers |
| Interrupt controller and timer: `SYSCTRL` (rv32_io.cpp:6-101) | three samples of the lines, `ext_irq_pending`, `ext_irq_enable`, `mtime`, `mtimecmp` | sample, latch edges, clear on a write to `irq_ctrl`, count, compare | no edge is lost before software clears it; `mtip` is up exactly from the time asked for, although time and deadline are two words each |
| Trap and CSR logic (rv32.cpp:903-981, 1122-1231) | `mstatus`, `mie`, `mip`, `mepc`, `mcause`, `mtvec`, counters | `csrrw/s/c`, `do_trap`, `do_mret` | a trap happens between two instructions and returns to the next one |
| Decoder and ALU (rv32.cpp:477-870) | - (the multiplier: two operands, a sum, a state bit) | `decode`, `compute`, `ALUcompute`, `MD::compute`, byte lanes | decoder and ALU of the core compute what those of the simulator do |
| Multi-cycle core `RV32I_ARCH1` (rv32.cpp:1006-1231) | T-states, PC, registers, stalls, multiplier | T0 to T3, IO wait, `wfi` | every instruction retires once, with the effect `RV32ISim` gives it |
| Instruction set simulator `RV32ISim` (rv32.cpp:381-476, 903-981) | registers, PC, CSRs | one instruction per step | the reference of the core |
| Debug interface (rv32.cpp:1343-1469) | step mode, stall request | run, step by instruction, by cycle, over a call, out of a function | stepping changes no result, and halts where the user asked |
| GPIO, 7-segment display (rv32_io.h:576-694) | a register per address, a refresh counter | load, store | - |
| Start-up code (rv_test/entry.S, mhandler.S) | `.bss` | clear, set up, call `main`, flush, `wfi`, start over | starting over loses nothing that was sent and leaves interrupts, buffers and UARTs as `main` expects them |
| UART driver (rv_test/io.c, io.h) | `UART_BUF_RX`, `UART_BUF_TX`, newline counts, critical-section depth, saved `mstatus`, the functions putch and getch call | putch, getch, consume, enable, flush, disable; `ext_intr_handler` | bytes go through once and in order; no access hangs the core; every byte that arrives is announced |
| Timer handler (`mhandler` in rv_test/io.c, test_rv32_5.c) | the next deadline | read the time, store a deadline, run a hook | the handler runs once for each deadline, never before it |
| Calculator (rv_test/test_calculator_ver2.c) | state, two numbers, operator, memory | a key | the display reads as the number in use, results are exact up to the digits there are, no sequence of keys leads to a state the handlers do not expect |
| Boot loader (rv_boot_uart/boot_rv32.c) | word count, address, checksum | poll, store, compare, jump | only a received image whose checksum agrees is started |
| Testbench (rv32.cpp, `X_UART` in rv32_io.cpp) | - | ELF loading, logging, a host UART | - |
| Verilog (rv_test_RTL) | - | a hand-written core; RTL generated from the C++ | - |

### Interactions and hard behaviours

* The clock drives everything. `RV32I_SOC_ARCH1` calls every device, every core
  and then `CTRL::connectChannel` in each cycle; a wire carries what was driven
  a cycle before. Several masters may be granted, released and connected again
  in one call, over tables that are updated in different branches.
* A load or store to a device stalls the core until the device answers. A load
  from an empty UART and a store to a full one *never* answer, in the middle of
  an instruction, where no interrupt is taken either.
* The phases of the core go on or stand still for four reasons at once: bus,
  multiplier, debugger, `wfi`. Memory and devices see the wires of a stalled core
  all the same.
* The interrupt handler runs between any two instructions of the main program
  while `mstatus.mie` is set. Both use the same `UARTBuf`s, the same counters
  and the same hardware FIFOs; putch and the handler both feed the transmitter.
* Between the pin of a UART and the program there is a level, an edge detector
  and a pending bit, cleared wholesale by the handler.
* The two ends of a serial line have clocks of their own; the receiver finds the
  bits by counting from an edge.
* The timer counts between the two loads of `mtime` and the two stores of
  `mtimecmp`.
* FIFOs and buffers are small, and fill up and wrap in ordinary operation.
* A program that ends is started over by the next interrupt: `entry.S` sleeps
  after `main` and jumps to `_start`, with interrupts on and without a hardware
  reset. What `.bss` holds is cleared under a live handler; what `.data` holds
  (the calculator's memory) outlives the program.

## Modules

| Module | Models | |
|---|---|---|
| `BoundedFifo` | what a UART data buffer promises | abstract |
| `IOBuf` | the ring buffer | implements `BoundedFifo` |
| `IOBuf_proofs` | its type and flag invariants and the refinement, proved | |
| `AtomicPort` | what the interconnect promises to each core | abstract |
| `AxiBus` | masters, slaves and crossbar, one cycle at a time | implements `AtomicPort` |
| `AxiBus_proofs` | its types, the consistency of the crossbar's tables and the refinement, proved | |
| `ByteChannel` | what one direction of the driver promises | abstract |
| `UartDriver` | start-up code, driver, handler, UART FIFOs, SYSCTRL and `mstatus` together | implements `ByteChannel` twice |
| `UartDriver_proofs` | five of its properties and the refinement in both directions, proved | |
| `SerialLine` | what a serial line promises | abstract |
| `UartLine`, `MCUartLine` | transmitter, wire and receiver, bit by bit | implements `SerialLine` |
| `UartLine_proofs` | the stop bits and, for clocks that agree, the queue, the types and the errors, proved | |
| `Words` | ALU, shifters, multiplier, byte lanes | |
| `Decoder` | instruction formats | |
| `Csr` | CSRs, traps and `mret`, as both cores and the timer use them | |
| `Datapath_proofs` | the operators of `Words` and `Decoder`, proved exact for every width | |
| `Isa` | an instruction at a time: `RV32ISim` | abstract |
| `Core`, `MCCore` | `RV32I_ARCH1` a cycle at a time, with IO, SYSCTRL's requests and the step modes | implements `Isa` |
| `Core_proofs` | its types, the step mode and the implementation of `Isa`, proved | |
| `MachineTimer` | `mtime`, `mtimecmp`, `mtip`, the handler and its client | |
| `MachineTimer_proofs` | its types and three safety properties, proved | |
| `Calculator` | the calculator, a key at a time | |
| `Calculator_proofs` | its types, its states, backspace, results and display, proved | |

The models compose along the wires of the SoC. `UartDriver` uses the FIFOs as the
queues that `IOBuf` implements, and frames as the words that `UartLine`
delivers. `Core` uses the bus as the port that `AxiBus` implements: an access
stalls for some cycles, has its effect once and ends. `UartDriver` and
`MachineTimer` take one step of the program at a time, with traps in between, as
`Core` implements it.

The operators `..._late`, `fsm_forgets`, `Mask_nothing` and the like, each
commented as a faulty form, are wrong versions of the definition that follows
them. They are used nowhere: they record which mistakes in the code the
properties are able to notice.

### IOBuf

`rp`, `wp`, `not_empty`, `full` and `buf` are the members of the template, and
`dout` is the byte the last read returned. `Cycle(rd, wr, b)` is one clock cycle
of a port: `do_rx` and `do_tx` call `update` once a cycle with requests tested
against the flags of the cycle before, so a read and a write may coincide.
`reset` is what a write to `ctrl` does. The slots hold arbitrary bytes at the
start, since the code does not initialise them.

### AxiBus

A clock cycle is the sequence of calls that the SoC makes, and `turn` counts
through them: slave 0, ..., master 0, ..., `connectChannel`. `MasterStep` is
`RV_AXI4_Master::fsm` with `MasterFSM::fsm`, `SlaveStep` is `SlaveFSM::fsm` with
its `fsmRead` and `fsmWrite` halves, `connectChannel` is `CTRL::connectChannel`
with `arbitrate`, the request checks and the status updates. Wires are the
variables `out`, `rdriven`, `mch` and `sch`. `fsmRead` drives what it had in the
cycle before and `fsmWrite` what it has now, as in the code. A device's own answer
(`devRead`, `devWrite`) is a free choice: it returns any data, or is not ready.

`done` is a history variable: what a device did for the outstanding request. A
second effect for the same request shows as `Twice`, which no step of
`AtomicPort` allows.

Left out: bursts (the only master sets `burst_length` to 0) and error responses
(`mutexError` is never set). Registers that the next request overwrites before
anything reads them are put back to their initial values.

Some conditions of the code turn out never to decide anything in this SoC, and
the properties hold without them: the `!s_ch.valid` part of the request check, the
branch of `R_Addr` that holds an answer the master is not ready for, and the
wait of `R_End` and `W_End` for the address to be withdrawn. What matters is
the cycle that `R_End` takes: the crossbar releases the connection in it, and a
slave that went from `R_Addr` straight to `R_Init` would serve the same address
twice. The conditions are in the model all the same.

### UartDriver

Three actors share the hardware: `Clock`, the main program and the handler,
which suspends the main program wherever `mstatus.mie` is set.

* `Cycle` is one clock cycle: `SYSCTRL::fsm` samples the lines and latches rising
  edges, `do_rx` may complete a frame (dropped when the FIFO is full), `do_tx`
  may end a frame and take the next byte (`tx_word` is the one on the wire), and
  `fsmUser`/`set_pin` compute the line from the FIFO flags at the start of the
  cycle. When frames end is a free choice, but one takes longer than a cycle.
  Only `activated` UARTs receive.
* A step of the program is one access to something another actor uses or sees.
  From reset, `entry.S` runs `ClearBss`, then `_io_init`: `Busy`, `Disable`,
  `MaskAll`, `ResetAll`, `Activate`, `EnableIrq`, `Unmask`. `main` polls
  (`PollTest`, `PollPutch`, `PollGetch`) until it calls `enable_UART_interrupt`
  (`CallEnable`, and `ResetAll`, `EnableIrq`, `Unmask` again); after that `Call`
  starts the buffered putch, getch or `UARTBuf_consume_new_line`. `Wait` is the
  busy wait outside the critical section, `Enter`, `Save` and `Mask` are
  `enter_critical_section`, `Leave` and `Restore` are `leave_critical_section`. A
  `UARTBuf` is the sequence of the bytes it holds; its update reads the pointers
  first and writes them last, hence the pair `Load` and `...Store`. When `main`
  ends (`Return`), `FlushBuf` and `FlushFifo` are `flush_UART`, and `Wfi` waits for
  an interrupt and starts over.
* `Trap`, `ReadIrq`, `IsrTxTest`, `IsrTxData`, `IsrRxTest`, `IsrRxData`, `IsrClear`
  and `Mret` are the trap, `mhandler`, `ext_intr_handler` and `mret`.
* `stepped` makes the core take at most one step in a clock cycle. Any number of
  cycles may pass between two steps.

Abstractions: instructions that touch nothing shared are merged into the next
step that does; in the handler, which nothing interrupts, two accesses are also
merged when only one of them is to a device. The loop that clears `.bss` is one
step: a handler that ran inside it would leave a `UARTBuf` whose flags and
pointers disagree, and nothing but the handler's own test for room looks at them
before `UARTBuf_reset_all`. `UART_BUSY` is `tx_busy` or `rx_busy`; a frame that is
being received only delays `Busy`. `mip` lags the pending bits by a cycle, which is
one more delay before `Trap`. On this core `csrc` with `rd = x0` clears all of
`mstatus` (see the findings), so `Mask` and `MaskAll` do too. A main program
consumes each newline before it reads on, as `test_rv32_4.c` does.
`flush_UART` in `src/rv_test_RTL/io.c` waits for buffer and FIFO in one condition
instead of two loops; the model has the one of `src/rv_test`.

Two behaviours that the properties exempt, because the code has them: while `main`
polls, a button's handler may clear a UART's pending bit, so that a byte which
waits when `enable_UART_interrupt` is called is announced only by the next edge;
and a transmit pulse can bridge the gap between two received bytes, so that the
second makes no edge (`WakeupLostOnlyByClear` names exactly this case).

### UartLine

One step is a cycle of the receiver. `tx` and `rx` are `UART_PORT` records. `do_tx`
and `do_rx` are split into a disjunct for each thing they do in a cycle (`TxTake`,
`TxRest`, `TxTick`, `TxData`, `TxParity`, `TxStop`; `RxRest`, ... `RxStop`), both
happen in each step, and `rx_bit_d` is the synchroniser between them. The two bit
periods are those of the setup. Where the periods differ, the transmitter counts in
its own units of the same cycle: over a frame that is the drift of two crystals.
`Noise` inverts a data or parity bit, one in a frame at most. A host
(`X_UART::step`) reads at once; a processor reads whenever it likes, so its FIFO
fills up. `MCUartLine` names the setups; the control word is the set of its bits,
from which `bit_count_m1`, `stop_count` and `parity_type` are computed as in
`write_command`.

What the model shows of the code: a sender that is faster than the receiver and
leaves no pause between frames gains a little each frame (the receiver resumes at
the end of its stop bit, not at the edge), so the setup with a faster sender is
`paced`. `rx.error` stays until the next write to `ctrl`. A frame that finds the
FIFO full sets `rx.error` too, by a test one bit time after the one that dropped it.

### Words, Decoder, Csr, Isa, Core

A word has `4 * ByteBits` bits. It is a number where the code adds and compares and
the set of its one bits where the code works bit by bit. `compute` is the ALU of
the simulator; `ALUcompute` with its adder and barrel shifters and `mdStep` are
those of the core.
`Decoder` translates the fields of an instruction word; `decode` returns what
`DC::decode` leaves in its members. `imm_Btype` and `imm_Jtype` spread the sign from a
bit too low: a branch further back than 2^11 bytes, or a `jal` further back than
2^19, goes forward instead, where the layout comment (rv32.cpp:479-483) has the whole
range of the format. `BranchReach` states it; no program of the repository is that long. `Csr` holds the registers, with `csr_val` and
`writeback` of `RV32I_ARCH1`, `do_csrrx` of `RV32ISim`, and `do_trap`, `do_mret`
and `interrupt_detected`, which they share.

`Isa` is `RV32ISim`: `Fetch`, then one of the instructions, or a trap. It is the
abstract specification of `Core`, whose `Phase` has a disjunct for each phase and
instruction class (`T0_Trap`, `T0_Fetch`, `T1_Decode`, `T2_...`, `T3_...`). A wire
is an operator and a register is a variable. `Stall` keeps the registers and lets
everything else go on: memory, multiplier, debugger, interrupt controller. `dbg`
holds the registers of `dbg_state`, `nextDbg` is `updateDebugInterface`.
`ImplementsIsa` maps the phases back: in T1 to T3 the pc of the instruction is `tr`.

`Isa` follows the core where the simulator differs from it: the simulator makes an
IO access before an interrupt that is pending, computes `mul` as `xor`, stops at
`wfi`, and does not clear bit 0 of `mepc` in `mret`. None of these is documented as
intended behaviour.

Assumptions about the world: the interrupt sources in use and the switches stay
as they are during a run; in a step mode the user presses a button when the core
waits for it (`awaited`); an access ends within `MaxLatency` cycles.
Reading the code for the model showed behaviours outside these assumptions, which
the runs keep out and a user of the debugger should know:

* An interrupt of a UART or of the timer while the core is halted in a step mode
  starts it again, with traps suppressed (rv32.cpp:1175, 1396).
* A button pressed while another interrupt is pending makes the debugger wait for
  ever for the request to go away, as it clears only its own (rv32.cpp:1413).
* A second press within a few cycles can halt the core at T2, where a store or an
  IO access is issued again in every cycle; and in `step_cycle` a halt at T3 of an
  IO load loses the word it has latched (rv32.cpp:1066, 1078). `mul` under
  `step_cycle` goes on multiplying while halted.
* `step_over` takes the instruction that the core is *about to* fetch for the one
  it has: `call_inst` is computed in T0 from the old `ir` (rv32.h:396). A step
  over anything but a call is turned into `step_in` by the same test.
* A byte or halfword load from a device returns the word as it is shifted for the
  address of the last *memory* access.

### MachineTimer

`Clock` is the part of `SYSCTRL::fsm` that counts and compares, in each cycle.
`Load1`, `Load2`, `Store1`, `Store2`, `Hook` and `Mret` are the timer case of
`mhandler` (`src/rv_test/io.c:276-281`), one access at a time; `Toggle` is the client
that switches the interrupt on and off (`test_rv32_5.c`) with `csrs` and `csrc`.
In which order the compiler takes the two halves of a `long long` is not defined,
so `order` has every combination. `Wait` is any cycle inside an instruction.

`deadline` and `torn` are history variables. `torn` marks a handler run in which
the low word wrapped between the two loads: io.c:276-277 reads `mtime` without
reading the high word again, and the deadline is then off by 2^32 counts, either
way. `DeadlineExact` and `TickNotEarly` are false without this exemption.
`enable_timer_interrupt` switches interrupts on before it sets `mtvec`, which is
safe as it is called, with `mie` clear. `csrs` and `csrc` of `mie` have `rd = x0` and
overwrite the button's enable bit. Not modelled: `mtime_to_microsec`, which
overflows from 2^28 counts on, and the product in `set_mtimer_interval`, which
overflows an int. The comment of io.h:53 gives `mtimecmp` as 0x10001020, the
structure and the hardware have 0x10001018.

### Calculator

A step is a key that `get_valid_key` lets through, up to the display that shows
it. `NextDigit` and `FirstDigit`, `Period`, `Operator`, `Equal`, `Backspace`,
`Memorise`, `MemoryRecall`, `MemoryClear` are the cases of the handlers of the
states, `calc_result` with its alignment and normalisation is an operator, and
`display` is what `update_display` writes. `Clear` is the key that clears
everything; `Restart` is the key that ends `main`: the program starts over with
what is in `.data`, so the memory survives.

Signed overflow of an int, which C leaves undefined, wraps here, as the target
compiler's code does. Where the code differs from the texts of `print_setup`:

* The test for an input that is too long is `> MAX_VALUE` only, so a negative number
  that a recall or a backspace has made the input grows past `-MAX_VALUE` and wraps.
  `DisplayReads` and `DigitTakenBack` are about the other numbers.
* `memory_add` and `memory_subtract` align the points in an int before they test for
  an overflow: 4294968 in memory and `M+` of 0.001 leave 0.705 there, instead of
  clearing the memory. `ResultExact` says nothing of the memory for this reason.
* A backspace right after an operator takes the left operand back. The point of
  a number like `12.` is not restored, whatever the comment in line 463 says, as
  `prev_state` is `Q_OP` by then.
* The display shows the point of a number without digits after it a key late.

## What is checked

| Run | Bounds | Shows |
|---|---|---|
| `iobuf` | three slots, the size in the source; two bytes | `TypeOK`, `FlagsAgree`; the ring buffer is a bounded queue (`ImplementsFifo`) |
| `bus` | two masters, two slaves, two data words, an unmapped address; 450,584 states | `TypeOK`, `GrantConsistent`; every access takes effect once and returns its own answer (`ImplementsAtomicPort`) |
| `bus_live` | the same with one data word; slave 0 alone is live; 39,288 states | an access to slave 0 completes even while the other master hangs on slave 1 (`Completes`) |
| `driver_rx` | one UART, one-byte FIFO, two-byte `UARTBuf`, newline and another byte; 1,461,606 states | `TypeOK`; no access stalls (`NeverStalls`); `NewLinesCounted`; received bytes reach getch once and in order (`RxDelivers`); only the handler's own clear can leave a waiting byte unannounced (`WakeupLostOnlyByClear`) |
| `driver_tx` | one UART and a button, two bytes to send; 102,592 states | sent bytes leave once and in order, over every restart (`TxDelivers`); every interrupt is acknowledged (`Acknowledged`) |
| `driver_line` | one UART, receiving newlines and sending | `LineShows` is **violated**: see below |
| `core` | words of 16 bits, six registers, three programs, at most two cycles of stall; 24,464 states | `TypeOK`; the programs stay within their code and data (`InBounds`) and keep to what core and simulator agree on (`Regular`); the core executes its programs as `Isa` says (`ImplementsIsa`); interrupts are taken (`InterruptTaken`); a step is one instruction (`StepsOneInstruction`) and ends (`StepCompletes`). Also, as assumptions: the two ALUs agree and the byte lanes of stores and loads do |
| `core_csr` | a program that sets two bits of `mie` | `CsrUpdated` is **violated**: see below |
| `line` | ten setups, two words, FIFOs of two; 33,340 states | words arrive once, unchanged, in order (`ImplementsLine`); stop bits are as long as set (`StopBitsSent`); noise on a frame with parity is seen (`NoiseDetected`) and nothing else is (`ErrorsHaveCause`); both ends keep going (`Drains`) |
| `line_stop` | five data bits, one and a half stop bits | `StopBitsSent` is **violated**: see below |
| `timer` | halves of four values, two cycles a count, an interval of three, twelve counts; 12,717 states | `TypeOK`; two words act as one (`TwoWordsAreOne`); the stored deadline is right (`DeadlineExact`), never ticks early (`TickNotEarly`), always ticks (`TickComes`) |
| `calc` | binary digits, two and a sign, an int of four bits; 254,954 states | `TypeOK`, `StateFits`; the display reads as the number in use (`DisplayReads`); results are exact but for the digits cut off (`ResultExact`); backspace takes back a digit (`DigitTakenBack`) |

Why the bounds are enough to be interesting:

* With three slots the pointers of `IOBuf` take every relative position, wrap, and
  meet both as empty and as full. The proof covers every other size.
* Two masters and two slaves give contention for one slave, transfers in
  parallel, a release and a grant in the same cycle, both orders of the round
  robin, and the decoding of an address outside every device. Two data words
  tell one access's answer from another's. An instance with three masters and
  the same two slaves was checked once, with the same result. The round robin has
  two values with two masters, which a wrong wrap already leaves.
* A FIFO of one byte is full or empty at every moment, so each stale status shows.
  A `UARTBuf` of two bytes has an order, and can be empty, partly filled and full.
  Two bytes that differ tell order from loss. Nothing in the driver depends on the
  capacities but the tests for full and empty, and its safety properties are proved for all
  of them. `WakeupLostOnlyByClear` was also checked with a button and a FIFO of two
  (833,098 states).
* The programs of `MCCore` have every phase and instruction class: the IO program a
  loop of device accesses with a handler that reads and withdraws the requests of a
  UART, the timer running beside it; the step program a call, a multiplication, byte
  accesses and a return, under every step mode and `ignore_wfi`; the cycle program
  the same without the instructions that do not stand being halted in. Sixteen bits
  are enough for four byte lanes of four bits and for the addresses; nothing in the
  phases depends on the width, and what does is proved for every width (the ALUs, the
  shifters, the multiplier and the byte lanes). Two cycles of
  latency already separate the request, the wait and the answer; two completed
  instructions tell one from more (`MaxSteps`).
* The setups of `MCUartLine` have the shortest bit period there is, longer ones, both
  data lengths at the ends and one between, every parity, one and two stop bits,
  noise, a transmitter slower and one faster than the receiver by 4%, a reader that
  lets the FIFO fill up; all are within `ClocksAgree`, on which the proofs rest. The words are the one that is all zeros and one with both bit
  values next to each other.
* The timer runs far enough for the low word to wrap three times, and an interval of
  three in halves of four values carries into the high word in most of its deadlines.
  `MaxTime` stops the clock of the model, never the program.
* A display of two binary digits and a sign reaches every branch of the calculator:
  all digits used, a full display after the point, overflow of the input, of a result
  and of the memory, quotients that are cut off, and normalisation. The int has room for
  one digit more than the display, as in the source. A calculator with ternary digits ran
  through a million states without an error, but not to the end.

No run disables the deadlock check: clocks never stop, and a calculator always takes
a key. A core stalled on the bus is therefore not a deadlock for TLC; `NeverStalls`,
`Completes` and `InterruptTaken` speak about it.

### Fairness

* `AxiBus!FairSpec`: weak fairness of `Next`, which is the clock, and strong
  fairness of the read and of the write answer of each device in `Live`: a device
  that is asked again and again is not busy every time. It is strong because a
  device is called once per cycle, so its answer is not continuously enabled.
  Nothing is assumed of the other devices, nor of the arbitration.
  `Completes` says nothing about starvation among masters that compete for one
  device: `RV32I_SOC_ARCH1` connects one core, and the second master of the run
  hangs on another device.
* `UartDriver!FairSpec`: weak fairness of the clock and of the core, neither of
  which ever stops, and strong fairness of the trap: state T0 of the core looks
  for an interrupt before *every* instruction, so a trap that is possible again
  and again is taken. Without it a main program that goes in and out of critical
  sections could be imagined to have its trap always fall inside one. Neither
  the line nor the main program's choice of calls is fair.
* `Core` and `UartLine`: weak fairness of `Next`, the clock. The latency of an IO
  access is bounded by `MaxLatency`, which stands for what `Completes` says of the bus.
* `MachineTimer!FairSpec`: weak fairness of the clock, of a trap that is due and of
  the handler's steps: an instruction ends.

### Findings

* `rv_test/io.h:56` documents the pending bits as `ext_irq_pending |= intr; (each
  cycle)`: a line that is up keeps its bit pending. `SYSCTRL::fsm`
  (`rv32_io.cpp:28`) adds rising edges only. The run `driver_line` shows the
  difference: the handler reads the receive status and finds the FIFO empty, a byte
  arrives, its edge becomes pending, and the handler's `irq_ctrl = 0x7f` clears it.
  The line stays up, so no edge follows, and getch waits for ever with its byte
  in the FIFO. A full `UART_BUF_RX` leads to the same state. `WakeupLostOnlyByClear`
  shows that this write is the only place where a wakeup is lost.
* `rv32.h:168` documents `csrrs` as `rd <- csr, csr <- csr | rs1`, for every `rd`.
  `RV32I_ARCH1` does not read the register when `rd` is `x0` (`rv32.cpp:1150`) and
  writes `rs1` alone; `RV32ISim` does what the comment says. In
  `core_csr`, `csrs mie, 0x80` after `csrs mie, 0x800` leaves only bit 7.
* `rv32_io_setting.h:65-67` promises 1.5 stop bits for five data bits. `UART::do_tx`
  tests for the half period in the first stop bit already (`rv32_io.cpp:257`), and
  sends half of one (`line_stop`). Without parity the next word is then misread by a
  receiver that waits for a whole stop bit, as the receiver of this UART does.

## What is proved

The proofs are checked by TLAPS and hold for every value of the constants that
satisfies the assumptions named in the modules.

* `IOBuf_proofs`, from `BufAssumption` (at least one slot). `TypeCorrect`: pointers
  and flags stay in range; `TypeOK` is inductive. `FlagsCorrect`: `FlagsAgree` is
  inductive relative to `TypeOK`. The argument is that `nxt_pnt` is injective, so one
  pointer overtakes the other only in a cycle that reads without writing, or writes
  without reading, and the flags are then set from exactly that. `RingImplementsFifo`:
  the ring buffer implements `BoundedFifo` under the mapping `queue <- Contents`. Both
  invariants are needed. `FlagsTellLength` turns the flags into the length of the queue;
  `WriteAppends` and `ReadRemoves` say what one write and one read do to `Waiting`, the
  bytes between two pointers. `Waiting` is a function of the index and not a recursion,
  which keeps the argument within arithmetic; `CycleRefines` composes them.
* `AxiBus_proofs`, from `BusAssumption`, for any number of masters and slaves.
  `GrantsAlwaysConsistent`: the master-side and slave-side tables of the crossbar name
  each other. `CtrlTypeOK /\ GrantConsistent` is inductive as it stands. Only
  `connectChannel` changes the tables. Of one call: a slave is granted to one
  master and a master to one slave, both unconnected before
  (`OneMasterPerSlave`, `OneSlavePerMaster`, `GrantedWereFree`), and a release
  concerns a matching pair (`ReleasedWereMatched`), so each row of either table
  is granted, released or untouched, and so is its partner. `TypeCorrect`: all
  registers and wires keep their ranges. It needs the first theorem: what the
  crossbar passes to a port is the wires of at most one partner (`ConnectedOne`), which
  holds because the tables name each other.
* `AxiBus_proofs` again, with `NoneAssumption`. `PortImplemented`: every behaviour of the bus is one of `AtomicPort`, for any number of masters and
  slaves and any delays of the devices. The invariant `PortInv` says for each point of
  a clock cycle (`turn`) how far the two state machines of a connected pair have come.
  `Drives` ties a master's outputs to its request. `ReadPair` has four stages (the slave
  has not seen the address; the device is busy; the slave will drive the answer; it
  drives it), `WritePair` three, and each stage says what the device has done and
  whether the master has been told that its address was taken. `ReadFree`: a slave
  without a master ends what it has begun before it can see an address again, since it
  was released on the answer and the master withdraws its address before that.
  `ReadWaits`: a master that was disconnected has its whole answer on its wires, so that
  it completes in its next step and never asks twice. One lemma each takes the pairs,
  the masters and the slaves through the step of a slave, of a master and of the
  crossbar. A slave's step is then `Perform` for the masters served, a master's step
  `Issue`, `Complete` or a stutter, and `connectChannel` a stutter.
* `UartDriver_proofs`, from `DriverAssumption`, for any number of UARTs, any other
  interrupt sources, any bytes and every size of FIFOs and buffers. `IInv` is
  `TypeOK /\ NeverStalls /\ NewLinesCounted` with what makes them inductive:
  `Exclusive` (a critical section runs with interrupts off and the handler asleep,
  although `mstatus` is saved and cleared in two steps; what is saved in between is
  what was there), `Polling` (before `enable_UART_interrupt` no UART interrupts and
  nothing is buffered), `Loaded` (what a section has loaded is still what the buffer
  is), `Room` (what was tested still holds at the access), `Control`. One lemma per
  action gives `TypeCorrect`, `Responsive`, `LinesCounted`, `SectionsExclude`.
  `WakeupsKept` states `WakeupLostOnlyByClear`, from a second invariant `WInv` of the
  lines: a line is up only for a reason that is still there or was in this cycle.
* `UartDriver_proofs` again. `RxImplemented` and `TxImplemented`
  state `RxDelivers` and `TxDelivers` for any number of UARTs, any bytes and every
  size. `IInv` carries most of the argument: what a section has loaded is the buffer
  (`Loaded`), so that storing the shorter or longer buffer back moves one byte; `Room`
  and `Exclusive` keep the handler from putting a byte in front of the one putch is
  about to send. `RxInv` adds that nothing is buffered while `main` polls. `TxInv` adds
  that putch finds the room it has waited for (`TxRoom`), and what a restart rests on:
  a program that ends empties buffers and FIFOs one UART after the other and stores
  nothing again (`TxFlushed`), and the next start waits for the last frames
  (`TxDown`), so its resets find nothing to discard. Each action moves bytes within the
  channel, accepts one, or delivers one (`RxMove`, `TxMove`); the lemmas `Five...` say
  so of the five places a byte of the transmit side can be in.
* `MachineTimer_proofs`, from `TimerAssumption`, for every width, divider and interval
  and all orders of the halves. `WordsAreOne`, `DeadlinesExact` and `NoEarlyTick` state
  the three safety properties. The invariant follows the handler: what it has read
  (`HalfLoaded`, `BothLoaded`) is a time between `deadline - Interval` and now unless
  `torn`; after the first store (`HalfStored`) the compare register is a mixture, of
  which nothing is said, but the interrupt is masked (`Masked`); after the second
  (`BothStored`) it is the new deadline, and `mip` has followed it before `mret`
  (`NotEarly`). That last part is why the cycle between second store and `mret`
  matters: `mip` lags by one.
  `TypeCorrect`: the words keep their width.
* `Datapath_proofs`, from `ByteAssumption` (bytes of one, two, four or eight bits, four to a
  word) and, for the CSRs, `WidthAssumption`. `WordIsItsBits`: a word is the number of the set of
  its one bits, so that the models may change between the two. `AdderIsExact`,
  `ShiftersAreExact`, `ALUsAreEqual`: carry and sign logic compute sum, difference and
  the comparisons, the stages of the barrel shifters add up to the amount, and
  `ALUcompute` is `compute` for every operation of the decoder. `MultiplierStarts`,
  `MultiplierExact`: in each cycle the shift-and-add multiplier keeps `c + a * b` modulo
  the word (`Due`), so that it shows the product when it stops asking for a stall.
  `StoreWritesItsLanes`, `LoadReadsBack`: a store changes its lanes and nothing else,
  and a load of the same place returns what was stored, with its sign.
  `StoreOffset`, `BranchOffset`, `BranchReach`, `JumpOffset` compare the
  immediates the decoder puts together with those the instruction formats define, for
  all instruction words, and state from where on a backward branch is wrong.
* `Core_proofs`, from `CoreAssumption`: registers 2 to 32, memory below IO, code apart
  from data, instructions the decoder knows (`Proper`: `dc.error` ends the run in the
  code). Four results, for every program, memory size, latency of the bus and timing
  of interrupts and buttons:
  * `OneInstructionAStep`: `StepsOneInstruction` when the button is the only source of
    interrupts. `StepInv` follows a step through its four states: halted, waiting for the
    request to go (`Waits`), running (`Runs`), halted again (`Halted`); each says where the
    core is, how many instructions it has completed and which request can be pending.
    The hypothesis is needed: `dbg_stall` lets a halted core go on while an interrupt of
    any source is pending (rv32.cpp:1175), so that with a second source it completes
    another instruction.
  * `TypeCorrect`: `TypeOK`, as long as `InBounds` holds. `Typed` adds to it what goes
    through `dout` and `ir`: in T1 `dout` is an instruction and in T3 of a load it is
    data, which is true only because nothing else reads the memory in between.
  * `CoreImplementsIsa`: `ImplementsIsa`, as long as `InBounds` and `Regular` hold. The
    invariant is `Tied`. `InFlight`: the instruction in a phase is one of the program,
    and `pc` is four past `tr`, where it came from. `Multiplying`: what the multiplier
    owes is the product of the operands. `Branching`: `flg` is the condition.
    `Asking`: between a fetch and an IO access nothing moves the lanes the memory was
    read with. `Loaded`: in T3 a load has its word from the memory or from IO, with its
    lanes; and since a device that is read changes its value in T2 and in `Isa` only
    when the load is over, the device of `Isa` lags in between. `Masked`: a CSR holds only
    bits a write may set. It is there because the core writes `old | 0` back where the
    simulator, which looks at the value of rs1 and not at its number, writes nothing.
    One lemma for each disjunct of `Phase` shows the instruction of `Isa` it completes,
    or that it shows nothing; `Holding` says so of stalls and debug halts.
  * The hypotheses. `InBounds` says that the program fetches its own instructions and
    accesses its own data or IO, and that no IO load is held in T3, where `IO_LD_completed`
    is computed anew in every cycle (rv32.cpp:1066-1078) and the latched word would be
    lost. `Regular` says: instructions are aligned, since `even` clears only bit 0;
    a device is read with `lw`, since a latched word is shifted as the last access of
    the memory was; `csrrw` names a source, and `csrrs` and `csrrc` with a source name a
    destination, since the core skips by register numbers what the simulator skips
    by values (the finding `core_csr`); and the debugger never holds an access that has
    an effect, which would be made again in every cycle. Both are invariants of the
    run `core`, which takes programs through every phase, class and step mode.
* `UartLine_proofs`, from `LineAssumption`. `StopBits`: `StopBitsSent`, for every bit
  period and every control word but the one of the finding `line_stop` (`WholeStops`). The
  invariant `Frame` ties `rest` to `bit_pos` and `tick` in the stop bits.
* `UartLine_proofs` again, with `WholeStops` and `ClocksAgree`, for all rates, formats,
  words and sizes of the FIFOs, with or without noise, and whenever words are written and
  read: `LineIsAQueue` (`ImplementsLine`), `TypeCorrect`, `ErrorsAreReal`
  (`ErrorsHaveCause`) and `NoiseIsDetected`.
  * `ClocksAgree` says by how much the two clocks may differ. With a bit of T cycles at the
    sender and of R cycles at the receiver, which samples it m cycles after its start, and
    with cells 0 .. last of a frame before its stop bits:
    `last * R + m + 1 < (last + 1) * T <= (last + 1) * R + m + 1`, so that the last bit is
    still there when it is sampled and the first stop bit is there already; and, unless
    the sender waits for the line to be at rest, `(last + 2) * R <= (last + 1 + stops) * T`:
    the receiver is through with a frame when the next one starts. The bound is tight:
    with five data bits, no parity, one stop bit and R = 20 it allows T = 20 and 21, and
    19 to a sender that waits. As setups of `UartLine`, which no run of the project
    has, TLC finds no violation of these, and one of
    `ImplementsLine` or of `ErrorsHaveCause` for T = 18, 19 (without the wait) and 22.
    With the eight data bits of `UART_PARAM` and long bits it comes to one part in
    eighteen either way, where a slower receiver needs a sender that waits.
    Equal clocks agree at every rate (`EqualClocksAgree`), and `MCUartLine` assumes that
    its setups do.
  * The invariant is `LineInv`. A frame is a row of cells of `period + 1` cycles at the
    one end and `rxPeriod + 1` at the other, and `Follows` says that in a frame the
    receiver has been for two cycles less than the transmitter (`Linked`), from the
    synchroniser and the start bit it had to see. It may be through while the transmitter
    still has stop bits to send (`Ended`), or have two cycles to go when the next start
    bit is on the wire already (`Starting`). `Phases` draws from this, with products
    of cells and periods, where the transmitter is when the receiver samples: in the
    same cell or just past its end (`Even`, `Late`), when the wire, a cycle late
    (`OnWire`), still has the level.
  * The rest is about the data: `Held` is the one word on the line, which the receiver
    completes before the next one starts; `Sending` and `Assembled` are what either end
    has of it, between halving at the one and shifting in from the top at the other, of
    which the receiver counts what it has sampled (`taken`); `Sums` are the two
    running parities, equal but for the noise; `Judged` compares the parity bit with the
    sum and knows the stop bit. `TxKinds` and `RxKinds` reduce the twelve disjuncts of
    `do_tx` and `do_rx` to four kinds of step of the transmitter and five of the receiver.
* `Calculator_proofs`, from `CalculatorAssumption`, for every base, size of the display and
  width of an int that has room for one digit more. `TypeCorrect` and `StatesFit`:
  `TypeOK` and `StateFits` are inductive together only with what each state says of the
  number in use, since a recall and a backspace jump between states.
  `DigitIsTakenBack`: a digit that was added has not wrapped the int, so that the
  division undoes it. `ResultIsExact`: each loop of `calc_result` is one multiplication
  or division by a power of the base, of which the proofs know only the assumption
  `PowersAreProducts`; the points of the operands are put in line without a loss, and
  cutting off digit by digit is cutting off once.
  `DisplayIsRead`: the digits, the sign and the point that `display_num` shows say
  the number, for any number that fits, by `TypeOK` alone. `DisplayDigits` and `PointIs`
  are what each place shows; `Adds` and `SumBelow` add the places up one by one, and
  `SumIs` that the order in which `MapThenSumSet` takes them does not matter, by
  induction on the number of those left.

The prover has no induction over data; where a proof needs one over numbers it is by a
smallest counterexample (`WFMin`), and what a fold returns is shown by giving a function
that satisfies its defining equation.

Only model-checked: `InBounds` and `Regular`, which are hypotheses about the program, and
all liveness (`Completes`, `Acknowledged`, `InterruptTaken`, `StepCompletes`, `Drains`,
`TickComes`). Liveness under fairness and anything about ENABLED are outside what the
prover handles. No module uses RECURSIVE operators.

## What is not modelled

* Testbench, logging, ELF loading, keyboard input: the simulation harness. Its model
  of a host UART is the other end of `UartLine`.
* Generated RTL: produced from the C++ that is modelled. The Verilog core written by
  hand beside it is a second implementation; the models follow the C++.
* `printf`: formatting over putch, sequential.
* GPIO and display: registers with no interaction beyond the bus slave.
* The counters `mcycle` and `minstret` and their mirrors: they count, and nothing else
  reads them.
* `UARTBuf_read_last` and `buffered_size`: they change nothing, and nobody calls them.
* The boot loader: a sequential polling loop over the UART and the memory, whose parts
  are the line and the loads and stores of the other modules.
* The two earlier versions of the calculator, from which the current one grew: the
  same state machine with fewer keys and without memory.

## What would come next

1. The boot loader over `UartLine`, with the host's side of its protocol.
2. A condition on the text of a program from which `InBounds` and `Regular` follow, the
   hypotheses of the theorems about `Core`.
