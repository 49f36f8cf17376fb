# A TLA+ model of ps2_emu

Specifications, model-checking runs and machine-checked proofs about the
emulator in this repository.  They are about the emulator's own control logic:
who moves a word where, when a channel is finished, which interrupt line is
raised, in what order, and what each emulated instruction does to the registers.
Floating-point arithmetic, the pixels of textures and most encodings of registers
are left out.

## 1. The system

One thread runs everything.  `Emulator::tick` (src/src/common/emulator.cc:181)
advances the machine in slices of a few cycles: the EE runs a translated block
and takes an interrupt if one is pending, then the EE's DMA controller, the two
VIFs and the GIF run, then, at a quarter of their rate, the IOP and its DMA
controller.  Nothing runs in parallel, but the two emulated programs, the
devices and the two DMA controllers interleave in an order that the guest
programs cannot see and did not choose, and share queues, registers and memory.
Failure is drastic: an operation the emulator does not know ends in
`Emulator::terminate` or in an `assert`.  All state is lost with the process, so
there is no recovery to get right.

| Component | State | Operations | Talks to |
|---|---|---|---|
| `util::Queue` (utils/queue.h) | ring of N words, two indices, a count | push, pop, read of 1, 2 or 4 words | VIF, GIF, GS own one each |
| EE DMAC (cpu/ee/dmac) | ten channels, D_STAT, D_ENABLE | register writes, `tick`, `fetch_tag` | EE RAM, VIF and GIF FIFOs, SIF FIFOs, COP0 INT1 |
| IOP DMA (cpu/iop/dma) | fourteen channels, DPCR2, DICR2 | register writes, `tick`, `fetch_tag` | IOP RAM, SIF FIFOs, SIO2, SPU2, I_STAT |
| SIF (common/sif) | two `std::queue`s, mailbox registers | push and pop by both DMA controllers; register reads and writes | both CPUs |
| EE INTC, COP0 (cpu/ee/intc, cop0) | I_STAT, I_MASK, Cause, Status | write, trigger, int_pending | timers, GS, vblank |
| EE timers | four counters | write, tick | INTC |
| EE core, JIT | registers, pc, delay slot, block cache | run a block, exception | memory map |
| IOP core, INTR, timers | registers, load delay, I_STAT, I_MASK, I_CTRL | tick, exception, trigger | memory map |
| VIF, VU | FIFO, command, UNPACK state, micro memory | write_fifo, process_command, unpack | DMAC, GIF, VU memory |
| GIF | FIFO, GIFtag, counters | write_path3, process_tag, PACKED | DMAC, GS |
| GS | registers, VRAM, vertex queue, host transfer | write, write_hwreg, process_vertex | renderer |
| Vulkan renderer | images, fences, semaphores | begin_frame, end_frame | window system |
| SIO2, gamepads | command buffer, reply queue, pad mode | upload_command, read_fifo, process_command | IOP DMA |
| CDVD, SPU2, IPU | command and status registers | read, write | IOP, EE |

### What is hard

* **Interleaving.** A DMA channel completes between any two register accesses
  of the program.  INT1 of COP0 and the DMA bit of the IOP's I_STAT are caches
  of "some unmasked channel is flagged", maintained in several places.
* **Back-pressure and retry.** A FIFO that is full refuses a quadword or a
  DMAtag; the controller must try again later without having changed anything.
* **Framing.** The SIF carries DMAtags and data in one unmarked stream, and each
  receiver finds the next tag by counting.
* **Order of visits.** The SIO2's reply queue is popped without a test; it is
  the order in which channels are visited that keeps it from running empty.
* **Widths.** A ten-bit value assigned to a one-bit field, a 24-bit size to a
  16-bit counter, indices modulo a capacity.

`PROJECT.json` lists each hazard at its line, with the properties aimed at it.

### What makes each component correct

* `util::Queue`: a bounded FIFO, whole values or nothing.
* EE DMAC: the receiver gets exactly the words the channel registers and the
  tag chain describe, in order; a started transfer completes and is flagged;
  INT1 is asserted when and only when an unmasked channel is flagged; nothing of
  one transfer leaks into the next.
* IOP DMA: completions reach the interrupt handler; transfers end; replies are
  not fetched before they exist.
* SIF link: tags stay tags and data data; a signalled packet is in memory; what
  is sent to a listener arrives.
* EE core and JIT: cutting a program into cached blocks changes nothing the program
  can see; return addresses survive nested exceptions; ticks end; an enabled
  interrupt is taken.
* INTC and timers: INT0 has a cause; a timer never stops interrupting because of a
  flag nobody clears; an armed timer fires; one vertical blank per frame.
* Instructions of both processors: what the R5900 or the R3000 would do to the
  registers and to memory, in every width, with an interrupt behind any of them on
  the IOP.
* VIF and GIF: the parser stays aligned with its stream, however words arrive;
  registers and VU memory end up as the packets say; everything sent is taken.
* GS and renderer: primitives are whole, each is drawn once and under the depth test
  it was submitted under, and an image lies where a buffer of its width has it.
* SIO2, CDVD, SIF registers: each byte is answered by the exchange it belongs to,
  each driver reads the results of its own command, SIF_CTRL shows what the EE said.

## 2. The modules

| Module | What it is |
|---|---|
| `BoundedFifo` | abstract: a bounded FIFO with multi-word calls |
| `RingQueue` | `util::Queue`; refines `BoundedFifo` |
| `RingQueueProofs` | type invariant, index invariant and refinement, proved |
| `EeDmac` | the EE's DMA controller: registers, transfers, ends, `fetch_tag` |
| `EeDmacSystem` | `EeDmac` with the EE program, VIFs, GIF and the IOP's end of the SIF; interrupt invariants |
| `EeDmacStream` | `EeDmacSystem` with what each receiver is owed; conservation and liveness |
| `EeDmacProofs` | the invariants of `EeDmacSystem` and the conservation of `EeDmacStream`, proved |
| `IopDma` | the IOP's DMA controller, upper channels |
| `IopDmaSystem` | `IopDma` in its visiting order with drivers and an interrupt handler |
| `IopDmaProofs` | the invariants of `IopDmaSystem`, proved |
| `SifLink` | `EeDmac` and `IopDma` joined by the SIF FIFOs |
| `SifRegs` | the SIF's mailbox registers |
| `SifProofs` | framing and completeness of both directions of `SifLink`, and SIF_CTRL, proved |
| `MipsCore` | abstract: one instruction after the other, with delay slots |
| `EeCore` | the EE's tick, exceptions, block translation, cache and dispatcher; refines `MipsCore` |
| `EeCoreProofs` | the refinement of `MipsCore`, and return addresses under nested exceptions, proved |
| `Words` | machine words scaled down |
| `R5900` | abstract: what each EE instruction promises a program |
| `EeOps` | the functions of `opcode.cc` and `cop1.cc`; refines `R5900` |
| `VuMacro` | the macro instructions of VU0, which `EeOps` executes |
| `R3000` | abstract: the IOP as a program sees it, without interrupts |
| `IopCore` | the IOP's fetch, instructions, load delay, exceptions, INTR and timers; refines `R3000` |
| `EeInterrupts` | INTC, the four timers and the vertical blank, with handlers |
| `EeInterruptsProofs` | the invariants of `EeInterrupts` and the turn of the vertical blank, proved |
| `Vif` | FIFO, command parser, UNPACK and FBRST of a VIF, with VU memory behind it |
| `Gs` | the GS's registers, vertex queue and transfers, VRAM, renderer and frames |
| `Gif` | the GIF's FIFO, tags, PACKED and IMAGE data; extends `Gs` |
| `PathsProofs` | the alignment of both parsers, what the VIF leaves behind, the fate of each vertex and the place of each pixel, proved; with lemmas about `FlattenSeq` |
| `Sio2` | SEND3, uploads, replies, and the pad's commands |
| `Cdvd` | S commands, their parameters and results |
| `PeripheralsProofs` | that SIO2 drivers get the replies to their own exchanges and CDVD drivers their own results, proved |
| `MC*` | the small instances TLC checks; `MCEe`, `MCPaths` and `MCPeripherals` put together components that share no state |

### How they correspond to the code

**RingQueue.** `buffer`, `front`, `rear`, `count` are the members of the class;
`ret` is the result of the last call.  The loop of `push` that stores word after
word and steps `rear` is one function, `Store`.  `Reset` is `fifo = {}`, which
VIF and GIF do on their reset bits.

**EeDmac.** One action is one visit of the loop body of `DMAController::tick`
to one channel, with `fetch_tag` where the body calls it, or one register write.
The code tests `qword_count`, then `end_transfer`, then fetches a tag; these are
the guards `Transferring`, `EndTransfer` and `Fetching`.  A channel that is
refused by a FIFO or finds nothing in one changes nothing and has no step.
RAM is a table of quadwords and addresses count quadwords; how two words encode
a DMAtag is the constant `EeTag`, so the properties hold for any encoding.
`vif_fifo` and `gif_fifo` are sequences with the capacity test of
`util::Queue::push`: `RingQueue` shows they may be.  D_STAT is two sets of
channels.  `ip1_pending` is the bit of COP0.Cause; `LowBit` is the truncation at
dmac.cc:150.  `Emulator::terminate` and a failed `assert` set `halted`.
Tag ids a channel does not know terminate (`FetchUnknown`).

**IopDma.** The same reading of `iop::DMAController::tick`; addresses count
words.  The SIO2 is its number of queued replies: `upload_command` answers each
byte with one byte or terminates, and `read_fifo` pops without a test.  A pop of
an empty `std::queue` is undefined; the model lets the number go below zero and
the word read be anything.  Blocks outside RAM are not modelled: the step has no
successor, and the programs do not ask for it.

**SifLink.** Both controllers over the same `sif0_fifo` and `sif1_fifo`.  The
programs set up a channel while it is stopped and start it, over fixed memory
images that hold the packets.  Visits interleave in any order, which includes
the order of `Emulator::tick`.

**EeCore.** `pc`, `instr_pc`, `taken`, `cycles` are the members `pc`, `instr.pc`,
`branch_taken`, `cycles_to_execute`; `cache` is `block_cache`.  An address counts
instructions, and an instruction is reduced to what the flow of control sees:
its kind and the address it refers to.  One action is one call of an interpreter
function by translated code (`emit_fallback`), the epilogue of a block
(`EndBlock`), a lookup or a translation, or the end of `tick`.  Conditions are
free: a branch may or may not be taken and an access may or may not be
misaligned.  `Ahead` and `Back` are the increment of `fetch_next` and what
`emit_native` takes back.  An instruction that does not decode ends the emulator.

`MipsCore` knows neither blocks nor patches of the pc, only the current and the
following address.  The mapping reads them off the block: inside, the current
instruction is at `start + index - 1` and the next one behind it, except at the
last one, which a taken branch follows with `pc`.

**EeOps, VuMacro.** One operator per function of the code, under its name, from
the registers before to the registers after; a program is a list of instructions
executed in order.  A register is its two dwords.  `Words` scales the machine: a word has
four bytes of `ByteBits` bits, halfwords, dwords, immediates and shift amounts with
it, so that the widths that a function mixes up are the widths that differ here.
The arithmetic of floats is the host's and a parameter (`FAdd`, `FSub`, `FMul`,
`OverflowCheck`).  `R5900` says the same things another way, bit by bit or lane by
lane, and from the architecture's side.  Where the function departs from the
architecture the programs of `MCEeOps` keep away; the departures are listed in
section 4.

**IopCore.** One action is one turn of the loop of `IOProcessor::tick`: fetch, the
instruction, `handle_load_delay`, with the two-entry record of loads in flight as in the
code; `IopCore` also has the reads and writes of I_STAT, I_MASK, I_CTRL and of the
timers, and the timers' `tick`.  The fields of Status, Cause and the timer's mode are
packed closer, to fit into a word of 12 bits; there is one device line besides the
timer's.  `R3000` knows no interrupt, no handler and no load in flight; the mapping
reads the processor off `InHandler`: while the handler runs, the program stands still.

**EeInterrupts.** A step of the emulator is the sum of three turns: the programs
(any number of register writes), the timers (`Tick`) and the frame (`Advance`,
which raises the vertical blank when its cycle is reached, and `EndFrame`).
INTC_STAT and INTC_MASK are sets of lines; `LowBit` is the truncation to
`ip0_pending`.  Several timers that fire in one tick call `trigger` one after the
other; as INT0 is recomputed from all lines each time, one call with all the
lines ends in the same state.  A handler acknowledges INTC_STAT and clears the
timer's flags in two steps.

**Vif.** `command`, `subpacket_count`, the address and the write cycle are the
members of the class.  A word is the command it decodes to, or a value.  `VifTick`
begins the loop of `VIF::tick` over the words of a slice and `VifTurn` is one turn of
it; `Feed` is a push by the DMA controller (two words of a tag, or four), or a
direct store by the program, whose result the code drops.  CYCLE is not
initialised: it starts as any member of `Garbage`.  An UNPACK has at most CL + 1
quadwords here: what a longer one does is under section 4.

**Gif, Gs.** `WritePath3` is a push, `GifTurn` one turn of `GIF::tick`'s loop.
PACKED data reaches the GS through the register that the tag or, for A+D, the
quadword names.  A register of the GS is the tuple of those fields anything looks
at.  `Gs` has the vertex queue and what becomes of it (`process_vertex`,
`submit_vertex`, `submit_sprite`), the transfer from the host to VRAM with its two layouts, the
flush at a write to TEST, `render` at the vertical blank and the frame loop of `main`.
`submitted`, `drawn` and `late` are history variables, which no guard reads.
A stream is its packets, the figures and images it means to send, and its notes: for
each quadword which registers hold what, how many figures and images are complete
and how far the next ones have come.  Notes are part of the data, like the figures: they say
where in the packets these are, and nothing of the GIF or the GS.  No action reads them.
`GifNotesAssumption` says what it is for a note to follow from the one before (`Noted`,
`ImageNoted`); TLC computes them for its streams (`MCGraphics`) and checks the assumption.

**Sio2, Cdvd, SifRegs.** One action per call: SEND3, an upload, a fetch, a reset;
a parameter, a command, a result; a register write.  The pad is the byte tables of
`gamepad.cc` with the commands that rewrite them.  A driver's transfer is the bytes it
uploads, where each exchange starts among them, and the modes (config mode, digital or
analog) in which it knows each exchange finds the pad.  `Lawful` exchanges are
answered, `Unlawful` ones stop the emulator (sio2.cc:97 and 131, gamepad.cc:86 and 133), and a driver
that is legal has only the former.  A driver also knows which of its commands read the
buttons (`ReadsButtons`) and so leave a read chained (`Chained`, gamepad.cc:51).
`DataOf` is the data `docs/padspecs.txt` lists for each command (an analog pad's sticks, which
the code does not have, are zeros), and `RepliesOwn` asks for exactly that of every driver that
`Clears`: one that has some other command answered between a read of the buttons and
QUERY_MODEL or QUERY_COMB.  For the drivers that do not, `Own` allows the one
value the code puts at the one byte it overwrites, and `pad_listed` shows that it does.
`ListedReplies` has the documentation's header as well, which differs from the code's in config
mode (section 4).  A word of the SIF's registers is the set of its bits.

**The users.** The guest programs are not in this repository.  They are modelled
by what the code offers them, and restricted only where a property needs it; the
restrictions are in `Program`, `ProgramBlock`, `Start`, `EeSends`/`IopSends`, and
in the streams and scripts of the `MC` modules:
a channel is programmed while it is stopped, the SIO2 driver fetches no more
than it uploaded and resets before a transfer, a sender waits while its FIFO is
backed up, and a timer is not set up while its interrupt is being handled.

## 3. The runs

| Run | Instance | Shows |
|---|---|---|
| `ee_dmac` | 9 quadwords, FIFOs of 6 words, and four programs: VIF1 with CNT, NEXT and REFE tags; GIF with REFE and END beside an unimplemented channel; SIF1 with REF and REFE beside SIF0, which writes the memory the chain lies in; VIF0 and GIF under D_STAT writes | every word of a chain arrives once and in order under back-pressure; transfers complete; INT1 never without cause; no stale end |
| `iop_dma` | SPU2, SIO2in, SIO2out; blocks of 2 words; up to 8 replies | completions are not lost on the handler; replies exist; transfers end |
| `sif` | two packets of 3 and 4 words to the EE, two of whole quadwords to the IOP, or one each way at once | framing, completeness and delivery |
| `ee_core` | flow: all loops of 7 instructions with up to two branches before the last, programs with returns, COP0 writes, an ELF file to load, address errors, system calls and an undecodable instruction, slices of 3 cycles, interrupts that come and go. Operations: some five thousand programs of up to fifteen instructions, on words of 8 bits | executing blocks is executing MIPS instructions; return addresses survive; ticks end; interrupts are taken; every instruction computes what the R5900's does |
| `ee_interrupts` | timer 1, counters that wrap at 15, steps of 5 and 10, three modes, frames of 3 slices | no timer stuck, armed timers fire, one vertical blank per frame, INT0 never without cause |
| `iop_core` | programs of every instruction, slices of 3 instructions, one device interrupt, timer 5 counting to 60 | the interpreter is an R3000; a raised line is answered; a timer that is set up interrupts |
| `paths` | six VIF streams, FIFO of 10 words, 6 words a tick, one reset; ten GIF streams, FIFO of 3 quadwords, one reset, vertical blanks anywhere | parsers aligned, registers and VU memory faithful, primitives whole, drawn once and under their depth test, images in place, everything taken in the end |
| `peripherals` | nine scripts for pad and memory card with up to two repetitions; four CDVD commands by drivers that interrupt each other; ten values in the SIF's registers; a queue of 6 words of 2 values, with calls of 1, 2 and 4 words | replies and results go to who asked; nobody waits for ever; SIF_CTRL agrees with the EE; the ring is a FIFO at every position of its indices, including wraps inside a call and refusals |
| `pad_listed` | one driver that enters config mode, queries the model and leaves | **violated**: two replies are not those of `docs/padspecs.txt` |
| `ee_int1` | the interrupt program of `ee_dmac` | **violated**: INT1 does not follow D_STAT |
| `ee_handler` | the programs of `ee_core` with exceptions | **violated**: an interrupt handler loses its first instruction |
| `ee_zero` | the programs of `ee_core`'s operations | **violated**: a product stays in register 0 |

The type invariants of the components that run together are conjuncts of
`VifAligned`, `GifAligned`, `RepliesOwn`, `AnswersOwn`, `CtrlAgrees` and `Framed`;
`SystemTypeOK` and the two `TypeOK` stand by themselves; that of `EeCore` (`Typed`) is
proved.

**Components side by side.** VIF and GIF share no state: nothing runs the micro
programs whose XGKICK would join them.  Nor do the SIO2, the CDVD controller
and the SIF's registers, nor the EE's flow of control and what its instructions
compute, as `EeCore` leaves conditions free.  A `util::Queue` shares nothing with the
component that owns it, and is checked beside the peripherals.  `MCPaths`, `MCPeripherals` and
`MCEe` check them in one run each: `focus` says which component a behaviour is about, and the
others stay as they were reset.

**Bounds.** What a program does is chosen in `Init` (`Programs`, `Traffic`,
`Images`, streams and scripts), so that one run covers several of them without mixing
all of them.
FIFO capacities are small (6 words instead of 64) so that they fill in two steps;
the capacity enters only through one comparison.  Six is not a multiple of four,
so a quadword is refused at a FIFO that still has room for a tag's half, and the
other way round.  Memories are as long as the chains in them; every word is its
own address, so that a misplaced word is seen.  Quadword counts go up to two,
which distinguishes first, inner and last.  `SifWords`, `MaxBacklog` and
`MaxReplies` bound queues that the code leaves unbounded; each exceeds what one
transfer can leave behind.  `MaxTags` is the length of the longest chain in `ee_dmac`:
what a receiver is owed is compared over up to so many tags.  `TadrWrap` and, in `iop_dma`, `CountLimit` are small
so that TADR, which SIF0 advances without end, stays finite.

In the flow of `ee_core` a loop of seven instructions holds two branches with their
delay slots and room around them, and every target inside it: blocks that overlap,
blocks entered at a delay slot, and loops onto themselves all occur.  For its
operations, operands are the edges of every width (0, 1, the largest and the smallest
signed and unsigned word, halfword and dword, and some of mixed bits); memory is 32
bytes at every alignment; programs are straight lines, and those of two and three
instructions cover what one leaves for the next: HI and LO, both pipelines of
multiplication, the halves of an unaligned access.  In
`ee_interrupts` a counter wraps after two to four slices, targets lie at 0, 7 and
10, which a step of 5 meets exactly or crosses, depending on where the count
started, and a frame has a slice before, at and after the start of its vertical
blank.  The ratio of HBLANK is left out: its
step exceeds a wrap, and the counter would grow without bound.

In `iop_core` a slice of three instructions ends at every instruction of a program
that loops, so that the interrupt falls behind every load, branch and slot.  Bytes
have three bits, registers are the eight the programs use, the handler keeps to
k0 and k1 as the kernel's do, SLTIU takes immediates that are not negative, ADD, ADDI and
SUB do not overflow and jumps are aligned (the code neither traps nor masks), and
SWL, SWR, LWL and LWR are not run while the cache is isolated, which they ignore.  The
timer is untouched until it is written, and a device interrupts only once it is
unmasked.

In `paths` the VIF's FIFO holds two quadwords and a half and its tick takes a quadword
and a half, so that a command, the end of a packet and a refusal occur at every offset;
NUM wraps at 3, so that zero means three.  The GIF's FIFO fills at the third quadword.
Images cross a block and a page; vertices are more than the queue holds.  The GIF is
reset only while the vertex queue is empty (the code keeps it), images end with
a whole quadword, and context 2 is not drawn.

In `peripherals` a transfer has up to three exchanges, a legal one at least five bytes
for a pad (shorter ones leave its index in the middle of a command), and only transfers
that leave the pad's mode alone are repeated.  `Built` describes a transfer from its exchanges.
The second script queries model and combinations while a read of the buttons is chained; the
other legal ones clear it first, and of those the reference is exact.  No script repeats a transfer in
which QUERY_MODEL or QUERY_COMB comes before a command that sets a response (section 4).

**Fairness.** `Emulator::tick` calls `tick` of both controllers, the VIFs and the
GIF in every slice, and each visits all its channels, so each channel's step,
each consumer and, in `iop_dma`, the beginning and continuation of a tick are
weakly fair.  In `ee_core` the emulator's thread runs on: some step of the
block, the dispatcher or the end of the tick is always taken; the lines the
devices raise are not fair.  In `ee_interrupts` the timers, the slices and the
end of the frame are weakly fair, because `main` ticks the emulator until its
window is closed; in `iop_core` the IOP's tick is, for the same reason.  In `paths` the VIF's
and the GIF's ticks, and the turns in them, are weakly fair, and so are the frames.  The
DMA controller, which retries a push every slice, is weakly fair for the GIF, whose
refusals end with the GIF's next turn.  For the VIF it is strongly fair, because a FIFO
that a program's direct stores fill again between two retries refuses and accepts
in turn.  In `peripherals` drivers go on with what they began.  Otherwise guest programs
are never fair: whether a channel is started, a
flag acknowledged or a receiver listens is theirs to choose, and the liveness
properties are stated from the point where they did.

`CHECK_DEADLOCK FALSE` is set wherever the program may terminate or where
everything sent may have arrived.

## 4. What the checks found

* **INT1 and D_STAT** (dmac.cc:150, comment at 149).  A write to D_STAT assigns the
  ten-bit set of flagged and unmasked channels to the one-bit field `ip1_pending`.  Only
  channel 0 survives.  A program that unmasks a flagged GIF channel gets no
  interrupt, and one that acknowledges one channel lowers INT1 for the others.
  `NoSpuriousInt1` holds: the error only ever loses interrupts.
* **Interrupt entry** (ee.cc:176, comment at jit.cc:97-99).  An interrupt jumps
  with `fetch_next` like a SYSCALL, but outside of a block, where nothing takes the
  increment of the pc back; the handler starts at its second instruction.
* **Register 0** (jit.cc:175, comment at 173).  The store that clears register 0
  behind each instruction is commented out; a product with rd = 0, of which only LO is
  wanted, stays in it.

Seen while modelling, and modelled as the code does them, without a run.

*EE core and JIT.*

* `exception` sets the pc but not `branch_taken`, so that the epilogue of a block that
  ends in a SYSCALL overwrites the handler's address (jit.cc:128, comment at 123).
* The loop that builds a block asks whether to stop only from the second instruction
  on, so that the instruction behind an ERET that heads a block is executed
  (ir.cc:46).  `HeadsPlain` excludes it from the refinement that is proved.
* The return address of an interrupt is that of an instruction already executed
  (ee.cc:150), and an exception in a delay slot is reported without it: translated
  code never sets `instr.is_delay_slot`.
* INTC assigns fifteen lines to the one-bit `ip0_pending` (intc.cc:38 and 48), so
  only INT_GS interrupts the EE.
* A timer's overflow flag is set only if its interrupt is enabled
  (timers.cc:124), while tests/display_timing.c:54-58 polls it with the interrupt
  off.  Counters are multiplied by the clock's ratio, not divided (timers.cc:101; the
  comment at timers.h:44-45 describes a division), lose one count per wrap, and keep
  more than 16 bits when the clock is HBLANK.  Timer 3 is never ticked (timers.cc:92).

*EE instructions (`EeOps` does as the code; programs stay where `R5900` agrees).*

* MULT and its like multiply whole dwords, MADD multiplies unsigned words, MULTU does
  not sign-extend its result, and DIVU1 does not look whether the divisor is zero.
* SLLV, SRLV and SRAV take six bits of the amount; 32 and more are undefined in C++.
* ADD, ADDI and SUB never trap, and ADDI does not truncate its sum to a word; 32-bit
  operations agree with the R5900 on sign-extended operands only.
* MFC0 zero-extends.  LQ and SQC2 do not align the address down; SQ and SWC1
  terminate the emulator on a misaligned one.
* PCPYLD with rd = rs, and VMR32 with ft = fs, read what they have written.
* MADD.S writes its first operand's register, while it logs the destination's; VISWR
  reads its mask from the other end; VIADD is not truncated to 16 bits; VITOF0 is
  never dispatched; VF0 and VI0 are not protected; CFC2 and CTC2 know the first
  sixteen registers as integers and the others not at all.

*DMA, SIF and IOP.*

* The IOP rounds the size of a SIF0 tag to quadwords but not that of a SIF1 tag
  (iop/dma.cc:300): behind a packet of three words the padding is taken for a tag.  The packets
  to the IOP in `sif` are whole quadwords.
* Both SIF FIFOs are unbounded (sif.h:32).
* Unmasking a channel whose flag is set raises no interrupt (iop/dma.cc:79).

*SIO2 and gamepad.*

* A read of the buttons leaves itself chained to the fifth byte of the next command
  (`read_buttons`, gamepad.cc:51).  QUERY_MODEL and QUERY_COMB set no response of their own
  (gamepad.cc:113 and 123), so it runs in them and overwrites byte 2 of their table with
  0xff, and the table is static: every later query gets it too.  The ordinary sequence of entering
  config mode, whose command reads the buttons, and asking for the model is enough
  (`pad_listed`).  The table (gamepad.cc:13) and docs/padspecs.txt:73 and 78 say 2.
* CONFIG_MODE is answered 0x41 or 0x73 by the mode, in config mode too (gamepad.cc:104);
  docs/padspecs.txt:15 and 56-57 say F3 (`pad_listed`).
* An analog pad answers its sticks (docs/padspecs.txt:60-61) with what its table holds,
  zeros; and of the sixteen buttons the second byte is the first shifted by one bit, not by
  eight (gamepad.cc:48).  With no button pressed both are 0xff.
* A response function that a command has set (`set_response`, gamepad.cc:74) is taken
  away only when its byte comes.  A driver that resets the SIO2 inside QUERY_MODE, say, and
  begins again has `written` cleared (sio2.cc:118) but the function still there;
  QUERY_MODEL and QUERY_COMB, which set none, then run it at their fourth byte, and
  it rewrites their table.

*Graphics.*

* From the quadword CL of an UNPACK on, the address moves by CL less the quadwords
  written so far (vif.cc:291): it does not move at CL, and goes back behind it.
* A GIFtag with NREG zero means sixteen registers and is taken as it is
  (gif.cc:101).
* The two pixels of a word of PSMCT16 land on one another.
* A write to TEST behind the frame's `render` flushes vertices that no command buffer
  takes any more; `late` marks it.
* The frame loop waits for a fence by the frame (window.cc:54) and records the
  command buffer of the image (context.cc:70), draws to the framebuffer of the
  frame (window.cc:83) and presents the image; a suboptimal present returns before
  the frame advances, so that the two indices part.  The copy of the next frame's
  vertices is not ordered behind the previous frame's draw.

## 5. The proofs

`tlapm` checks, for every value of the constants that satisfies the named
assumptions:

* `RingQueueProofs`: with `IInv == TypeOK /\ RearFollowsFront`, `TypeCorrect`,
  `IndicesAgree` and `Refinement`.  `TypeOK` alone is inductive, but the
  refinement is not provable from it: `Store` writes from `rear` and `Contents`
  reads from `front`, and only `rear = (front + count) % N` says that a pushed
  word lands behind the held ones.  The proof rests on lemmas about sums modulo
  N, which show that the slots of held and pushed words are distinct.
* `EeDmacProofs`: with `IInv`, the conjunction of `TypeOK`, the choice of the
  program, `NoSpuriousInt1` and `NoStaleEnd`, the theorems `DmacTypeCorrect`,
  `Int1HasCause` and `EndIsFresh`.  There is one step per action.  `EndIsFresh`
  needs the restriction built into `Program` that only stopped channels are
  written to: stopping a running channel between its last tag and its end would
  leave `end` behind.  `StreamsConserved` proves `StreamConserved`, for every memory,
  every chain (endless ones too), every capacity and every bound `MaxTags`
  (`TagsAssumption`): `ChainContinues` unfolds the description of a chain by one tag,
  `ChainKept` shows by induction over its length that it depends on no memory outside
  its own area, and then a tag that is read, a quadword that is moved and an end of
  transfer each only move a part of the debt from the registers to the FIFO.  Types
  are all it needs of the state.
* `EeInterruptsProofs`: with `IInv == TypeOK /\ NoSpuriousInt0 /\ FlagsPending`,
  `InterruptsTypeCorrect`, `Int0HasCause` and `TimersNotStuck`; one lemma per
  action, and one for each way INTC is written.  `TimersNotStuck` rests on the
  order in which a handler works.  `VblanksAlternate` proves the action property
  `VblankInTurn`; it needs `FInv`, that a frame which has ended has had its
  vertical blank, which holds because VblankOff is at most FrameCycles.
* `IopDmaProofs`: `IopDmaTypeCorrect`, `RepliesAlwaysExist` and
  `CompletionsSignalled`, from one `IInv`.  `RepliesExist`, a count that never goes
  below zero, is not inductive: `Supplied` says that while replies are
  fetched, those queued and those the upload still brings cover what is to be fetched,
  and that the upload is visited first, so that four replies are there when the
  fetching side has its turn.  `CompletionSignalled` needs `SetUpFirst`: a channel runs only once
  DPCR2 and DICR2 let it interrupt.
* `EeCoreProofs`: `BlocksImplementMips`, that every behaviour of `EeCore` in which no
  block is headed by a return (`HeadsPlain`) is one of `MipsCore`, for every program,
  ELF file, vector and slice.  `IInv` says that a cached block, and the one
  that runs, is what memory holds, that a branch is its second to last instruction
  and a return its last (`IsBlock`), and that `branch_taken` is set only behind one
  (`TakenBehind`).  `GeneratesBlock` proves `IsBlock` of what the loop of
  `IRBuilder::generate` builds; there is one lemma per action for the invariant
  and the step it refines.  It assumes that a delay slot holds no branch
  (`SlotAssumption`, undefined by the architecture) and that the ELF file is loaded
  over memory that does not decode (`ElfAssumption`: cached blocks are never
  invalidated, jit.cc:179).  TLC evaluates both in `ee_core`, and every program of that
  run keeps `HeadsPlain`.  `ReturnAddressKept` proves `EpcKept`.

* `SifProofs`: `LinkFramed` and `LinkComplete`, for all memories, packets, capacities
  and any number of packets in both directions at once.  `LinkInv` says of each
  direction that what was sent is a sequence of places (packet and offset): the
  receiver has taken a prefix, the FIFO holds the next ones, and the sender's registers
  point at the one that follows; that the receiver's registers say the same of
  the packet it is in; and that what it has taken lies in its memory.  Framing alone is
  not inductive: to know that the next word is a tag one has to know how many words
  each side still counts.  `TypesAssumption` and `TrafficAssumption` say that the
  tags of the packets announce what they hold, that packets to the IOP are whole
  quadwords, and that no packet is received over what is still to be sent.
  `SifCtrlAgrees` proves `CtrlAgrees` for all values (`SifDataAssumption`).
* `PathsProofs`, the GIF and the GS: `GraphicsAligned`, `GraphicsDrawnOnce` and
  `GraphicsDepthOfTest`, from `GifInv`.  `GifPlace` says that the words of the FIFO and the
  counters of the tag are a window of the stream that starts where the parser is.
  `FrameInv` accounts for the vertices: what has been drawn, what the draws recorded for the
  frame will fetch from the buffer, and what waits behind them are, one after the other, what
  was submitted.  `DrawnOnce` says so only of frames that have ended; the step that ends one needs
  the account in the middle of it.  The streams are any whose packets hold what
  their tags announce (`GifStreamsAssumption`, `GifQwordsAssumption`).
* `PathsProofs`, the VIF: `VifStaysAligned` from `VifInv`, which holds the same window of
  the stream and where in a packet the command, the count and the write cycle are; and
  `VifStaysFaithful` from `VifSaid`: registers and memories are what the packets taken so
  far say, after every number of quadwords of the one that is being taken.  This one is for streams whose
  packets follow each other without the gaps that a reset tears (`Contiguous`,
  which is in the property).  For any sizes (`VifSizesAssumption`), both VIFs and
  any number of resets (`VifStreamsAssumption`: packets hold the words their commands announce).
* `PathsProofs`, pixels: `TransferPlaces`: write_hwreg and write_psmct32 put the n-th pixel of a
  transfer where the bits of its coordinates say, which is the reference `ImagePlaced` is written
  with, and no two pixels of one transfer in one place; `PixelsWritten`: what one
  write of 64 bits leaves in VRAM is its pixels, each in its place.  Both hold for every
  buffer and every rectangle that lies within the buffer's width (`TransferFits`).  Without that
  the page of a pixel wraps around to the first of its row.  The tables are shown to interleave the
  bits of x and y; that a place has one pixel is then that a number has one
  decomposition into digits.
* `PathsProofs`, figures and images: `GraphicsPrimitivesWhole` and `GraphicsImagePlaced`, both
  from `NotesInv` (`GifNotesInvariant`).  Neither is inductive: the first says nothing of
  the vertices that wait, the second nothing before the end of the stream.  `NotesInv`
  says that the note at the quadword the GIF has reached is true of the GS, in three parts:
  `KnownAs`, the registers it names hold what it says; `QueuedAs` and `HandedAs`, the
  queue holds the last vertices of the figure that is not complete and the renderer has the
  triangles of the complete ones; `PixelsAs`, VRAM is what the stream found there, the
  complete images over it and the pixels so far of the next one over these (`Shown`).  The
  step is one lemma per action of the GIF.  Of the vertices: the queue keeps the last three, so that
  a figure may be preceded by vertices that are let go (`spare`), and a sprite becomes
  the two triangles meant (`QueueNext`, `CompletedIs`).  Of the images: a half of a
  quadword puts one layer over those before (`HalfShown`, `BegunMore`, by
  `TransferPlaces` and `PixelsWritten`), and the last half of an image turns a row of
  pixels into the rectangle (`PlacedIsBegun`, `PaintedMore`).  `GifInv` gives the place in the
  stream.  The streams are any that have notes (`GifNotesAssumption`).  It asks that
  vertices are sent under a known PRIM, RGBAQ and XYOFFSET, that what draws
  completes a figure, that pixels follow a known BITBLTBUF, TRXPOS, TRXREG and TRXDIR,
  that rectangles lie within the width of their buffers, and that the first half of
  a quadword does not end an image: the second would then meet a transfer that is over, which
  stops the emulator.  A program need not be sure of VRAM all the time: images in PSMCT16,
  or of which some is missing, cost it `sure`; streams that end without it, and do not
  stop the emulator before, are not covered by these two theorems.
* `PeripheralsProofs`, CDVD: `CdvdAnswersOwn`, from `CdvdInv`: the status tells whether results
  wait, a new command flushes what the last one left, and the results that wait are the end of the last
  command's answer.
* `PeripheralsProofs`, the SIO2: `Sio2RepliesOwn`, from `Sio2Inv` (`Sio2Invariant`).  That
  replies are right so far says nothing of the next one, which depends on the tables of
  the pad and on what its last command left in it.  `Tables` is the part
  of the sixteen rows that no command writes; `InExchange` says, for each byte of an exchange,
  what is in the row it is answered from and which response function still waits for
  its byte; `Boundary` says between exchanges that the pad has the modes the driver counts on
  and which response function may wait: a chained read, or, in a repeated transfer, any
  that was given up (`LeftOver`), and
  `Sio2Framed` that SEND3 and the count of bytes agree with the driver's exchanges.  A
  transfer is given up at any byte, so that each part must also tell what
  becomes of the pad when the exchange is never finished: `Repeatable` transfers leave
  the modes alone, and the command they meet next sets a response of its own.
  `Sio2Chained` is what a driver knows of the reads: one is chained only if it says so
  (`ReadWaits`), and if it clears them, byte 2 of both tables is as listed (`RowsKnown`).
  The theorem has the exact replies for drivers that clear, and for the others at every
  byte but that one.  The invariant includes that a legal driver is never refused.  It
  holds for any scripts (`Sio2ScriptsAssumption`, `Sio2ChainedAssumption`), sizes, number of
  SEND3 registers and of repetitions.  The assumptions say what a driver
  can know: its exchanges are lawful in the modes its own commands
  have put the pad in, which of them read the buttons, and what it repeats does not begin with QUERY_MODEL or
  QUERY_COMB if another command follows (section 4).  That the starts of exchanges are
  in order is part of what a transfer is (`Described`).

The streams and packets are data of any length.  Where a proof needs induction over it
(`FlattenSeq`, the levels of `Chain`, the packets said so far), it shows that the
set of lengths for which the lemma holds contains 0 and each successor, and
`SetInduction`, by the least number outside of a set, concludes.

Only model-checked: `EeOps` and `IopCore` with their refinements `ImplementsR5900`
and `ImplementsR3000` (they reach recursive or bitwise operators), the type
invariants that are conjuncts of these, and all liveness.

## 6. Not modelled

`PROJECT.json` names every component with its status.  Left out for good: the
arithmetic of floats, x86 code generation, calls into Vulkan other than
the frame loop's, logging, BIOS loading, the memory map (a table
from pages to handlers that is only read once the constructors have filled it), the
IPU, and registers that are stored and never read.

Left out so far: the fences, semaphores and image indices of the frame loop; the
VU's micro programs are not in the code.  The pixels a texture is read from, context 2
of the GS, and buttons of the pad are abstracted away.  The program writes to stopped
channels only, so that a stop in the middle of a transfer is not covered.

## 7. Plan

1. `Frames`: the fences and semaphores of the Vulkan frame loop, with images that
   come back in any order and presents that fail.
2. One composition of `EeDmac`, `Vif` and `Gif`, where a stall of one path
   delays another.
3. An abstract command stream for VIF and GIF, and a request/reply device for SIO2
   and CDVD, as refinements in place of the invariants.
