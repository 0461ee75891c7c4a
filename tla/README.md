# Verification of the MAI Basic Four 2000 emulator

`src/` is an emulator of the MAI Basic Four System 2000, a 68010 machine that
runs BOSS/IX. The CPU core (Musashi) is third party; what this project models
is the emulator's own code: the devices of the machine and the loop that runs
them. The modules are TLA+, checked with TLC, and the invariants of the device
modules are proved with TLAPS for every value of their constants.

## 1. Inventory

The emulator is one thread that executes instructions. Between two
instructions it calls `sys_device_tick` (sim.c), which gives each device its
turn on a count of instructions, or of pauses while the CPU is stopped. A
second thread (socket_connections.c) accepts terminal connections and fills
their receive buffers. Devices raise interrupts through `m68k_set_int_line`, a
bit mask per level in the CPU core, and hand over their vectors when the CPU
calls `sys_int_ack`. Interrupt levels: 1 parallel port, 2 Winchester, 3 floppy,
4 streamer and 4-Way boards, 5 serial console, 6 timer.

| part | state | operations | what is hard | what makes it correct |
|---|---|---|---|---|
| 4-Way boards, fourway.c | handshake state and status of each board, one receive register per board, one entry per port in the completion queue, its count, the interrupt on the line | instruction register (handshake, commands), status and receive register reads, `fw_processPendingCompletes`, acknowledge, reset | all boards share one line; the queue has one entry for two kinds of completions; the count is kept by hand; characters arrive concurrently | every command interrupts once; characters are read once and in order; a full register is announced; only owned vectors |
| Serial controller, scc.c | register pointer, enables, pending bits, receive buffer of two channels; master enable; a static copy of the line | pointer and register accesses, data, poll, file load, reset | pointer protocol with side effects on reads; polls between any two accesses; the static survives a reset | line equals request; the handler finds its source; no byte waits for ever |
| Timer, pit.c | control, status, preload, counter, request | register writes, pulse, reset | period, wrap, a level-sensitive request kept by hand | exact period; request follows the registers; the clock never stops |
| Interrupt acknowledge and tick, sim.c, m68k.c | line bits of the CPU, instruction counts | `sys_int_ack`, `sys_device_tick`, bus decoding, bus error | the streamer's interrupt is taken at once and ignores the mask; a device has its turn only while its count runs | every acknowledge is answered by the device that asked |
| Terminal connections, socket_connections.c | status, descriptor, parser, receive buffer of each port | poll thread; `sock_getchar`, `sock_putchar` | buffer written without the mutex it is read under; close and reopen during a write | each character once; no use of a closed descriptor |
| Ring buffer, charringbuffer.c | head, tail, mask | queue, dequeue, peek, count | full drops the oldest | a bounded queue that loses only its oldest |
| Winchester, wd.c | registers, phase and its counter, command to come and its counter, pending interrupts of each unit and their counter | register accesses, tick, acknowledge, attach, reset | phases driven from two sides; interrupts deferred while the line is up; resets and selections while a phase is due; transfers failing half way | every command runs once, ends with its status and its interrupt; the line is up only with a reason |
| Streamer, cs.c | IOPB address in two halves, chain, position on the tape, block count, protection, interrupt count | registers, commands, acknowledge, reset, tape put in | halves merged; file marks and end of data; count kept by hand; interrupts forced through the mask | a command runs on the block that was handed over; the directory is a tape; no interrupt is left over |
| Floppy, fd.c | latches, registers, command, countdown, sector buffer, images, a static copy of the line | registers, `fd_processContinue`, acknowledge, attach, reset | the call count is set again by hand on every path; commands forced, given up and overwritten; the static survives a reset | no early interrupt; reads return what was written; accepted commands are answered |
| MMU, mmu.c; main board registers, cmb.c | segment registers and status; error flags, write latch | translation, register accesses | flags latched in one and cleared in the other; several accesses of one instruction; carries and limits | access only by right; every fault explained; writes marked |
| Memory, memory.c | RAM, ROM mapping after reset | accesses, reset | ROM over all of memory until the first write | the ROM hides nothing that was stored |
| Non volatile RAM, nvram.c | 64 nibbles, file | accesses, load, save | little | contents survive |
| Image, sim.c | everything | save, load | parts that are not saved | a loaded machine goes on |

Not part of the inventory beyond their names in `PROJECT.json`: the debugger's
console, escape sequence tables, the S-record loader, the superblock display,
and third party code.

The hazards, each at its line and with the properties that cover it, are in
`PROJECT.json`.

## 2. Modules and runs

### 4-Way boards

`FourWay.tla` is the boards alone, under a host that accesses their registers
in any order: one action per register access (`Handshake`, `RunCommands`,
`StatusRead`, `RecvRead`), one for `fw_processPendingCompletes`, one for the
acknowledge, one for a character that reaches a socket's buffer, one for the
debugger's reset. `pend` is `fw_pendingComplete`, an entry of which is free or
holds RXCHAR or CMDEXECUTED; `raised` is `fwIntPending` with `fwIntVector`. A
vector is kept as what it encodes (port, condition, and whether the base had
been handed over when it was made). `RunCommands` is the whole of
`fw_instrWrite` after the handshake: all ready ports run their command in one
step, because the write does not return before they have.

`FourWayHost.tla` adds the driver as the header and the comments describe it:
it finishes the handshake, issues a command on a port only when the previous
one has interrupted, and reads the receive register once per receive
interrupt. Characters carry their port and a stamp modulo `Stamps`, one more
than can be under way, so that a lost, repeated or misdirected character is
seen. `TermLines.tla` is what terminals are promised (first in, first out per
line; a character leaves only when the host reads it), and `ImplementsLines`
is the refinement: the unread characters of a line are its socket's buffer
behind the receive register, if that holds one of its characters.

| run | configuration | shows |
|---|---|---|
| fw_ports | 1 board of 2 ports, driver | characters in order, service in turn, `TermLines` implemented |
| fw_boards | 2 boards of 1 port, driver | the inductive invariant (count, owned vectors, line and pending interrupt) and, of its parts, that only owned vectors are raised; every command interrupts exactly once, full registers are announced and emptied |
| fw_overwrite | 2 boards of 1 port, driver | violated: "already waiting, should not happen" happens |

Two boards are the least for which the line is shared and the queue fills; two
ports on one board the least for which the receive register is shared. One
character of buffer per port is enough because what the code asks of a buffer
is only whether it holds one, and with the register this lets two characters of
a port be under way. `HostCommands` selects commands that differ in what they
do; the others run the same path.

Fairness: the tick (`sys_device_tick` never stops calling while the machine
runs), the CPU taking an unmasked interrupt, and the receive handler going on.
Nobody has to type or to issue commands. The liveness properties carry the
premises the code needs and no more: completions have priority over received
characters, and lower slots over higher ones, without bound, so `ServedInTurn`
and `RegisterFreed` assume that what comes before falls silent. `RegisterFreed`
and `FullIsAnnounced` except a port whose queued receive interrupt was
overwritten by a completion; that exception is the finding of fw_overwrite, and
the history variable `overwritten` records it.

### Serial controller

`Scc.tla` is the chip under any sequence of accesses, polls, file loads and
resets. A register is selected and used in two steps, as on the bus; a WR0
write that carries a command is one. `asserted` is the static variable of
`scc_update_irq`. `writeRegs` is `cmb_writeRegs`, the main board's latches, of
which `WriteLatch` writes the two that matter: the input is inhibited by bit 4
(`SerialInhibited`), which the latch of the parallel port sets, while the latch
of the serial drivers sets bit 16 (`Latches`). `SccHost.tla` is the console driver the comment at
scc.c:45-74 describes: a byte is written, the busy flag is set afterwards, the
handler asks RR2 for the source, answers a transmit interrupt with command 5
and a receive interrupt by reading. Polls come between any two accesses.

| run | configuration | shows |
|---|---|---|
| scc_driver | driver, registers 0, 1, 2, 9 | the line is what the chip wants, a pending receive interrupt has a character; the driver sleeps only on a pending interrupt, its handler finds the source, every byte is answered, every character read |

The registers left out are only stored. One character value is enough where
the properties do not tell characters apart. Fairness is on the driver's
instructions and on the interrupt being taken; the liveness properties assume
that typing ends (scc_pollStatus has no flow control, and channel A has
priority) and that the master enable is set at some time. The driver writes no
latch and the machine is not reset in scc_driver; what both do to the chip is
covered by the theorems on `Scc`, which are about any host.

### Timer

`Pit.tla` is the timer of the 68230: writes to control, status, preload and
counter (byte by byte), the pulse, and the reset. `even` and `since` observe
how many pulses lie between two zeros. Run `pit` uses registers of three bytes
of one bit and a variable one bit wider (so that a wrap through the variable's
width happens), with any host; it needs no bound. The liveness property is about a kernel that
leaves the timer on and answers its interrupt: it gets the next tick again and
again. Its fairness is the host's clock (`Pulse`) and the interrupt being
answered.

### Winchester disk controller

`WdIrq.tla` is the part of wd.c that asks for interrupts: what is pending for
each unit, `wdIntrCounter`, `wdIntAsserted` and the line are one record, `irq`,
and the functions that change them are operators on such a record. Alone it is
a specification in which anybody may end commands, write the control register
and acknowledge: an abstract view of the controller, `IrqSpec`, with its
invariant `IrqInv`.

`Wd.tla` is the whole controller under any host. The registers are the record
`wd`. `Continue` is one call of `wd_processContinue`, with everything it may
lead to (`PhaseStep` for stateCounter and `processScsiNextPhase`, `CommandStep`
for cmdCounter and `processCommand`, then the interrupt counter); every other
action is one register access, an acknowledge, the attaching of an image or the
debugger's reset. `IrqSpec` is the refinement: the ladder uses the interrupts
in no other way than `WdIrq` allows. What a command does is reduced to what
the ladder sees of it: whether it failed (`Results` lists the ways that are
possible), whether it returns bytes one by one, what becomes of status and
sense bytes.

`WdHost.tla` adds the driver that the comments of wd.c describe: bytes written
when the output register is seen empty, a wait for exactly 0xcc by polling, or
asleep when interrupts and DMA are on, then status byte, 0xe8, message byte,
0x00. Seeing a status and acting on it are two steps. The driver may give up
and reset the controller, the user may reset the machine or change the image,
at any moment. `ran` and `failed` are the history of the command under way.

| run | configuration | shows |
|---|---|---|
| wd | one unit with an image; seek, read and format; polling, with seek interrupts, with DMA and interrupts | a command runs once and is the one that was started, also after a reset in mid command; its status byte tells whether it failed; a sleeping driver has its interrupt to come; commands end; the ladder implements `IrqSpec` |

The counters of the code (5 calls for a phase, 2 for a byte, 2 and 6 for the
interrupts) are shortened to 3, 1, 1 and 4. That keeps their order: a phase is
longer than the handling of two bytes, a completion interrupt takes as long as
the handling of one, a seek interrupt longer than a phase. The proofs
use only that a byte takes less than two phases (`LadderAssumption`). Command blocks have 2 and 3 bytes, a
transfer 1: the least for which the first byte, the unit byte and the last byte
are different ones and the data follow the command. Two units share every path
but their flags; one has an image in the run, interrupts are modelled for both.
The three commands stand for those without data, those with data in and those
with data out; they are also the ones with special treatment (lastScsiCmd, the
image, the sense bytes).

Fairness: the calls of `wd_processContinue` while a counter runs, the CPU
taking the interrupt, and the driver going on with a command. `CommandEnds` is
about a driver that does not give up for ever.

### Cartridge streamer

`Tape.tla` is what a tape promises, the abstract specification: files with marks
between them, a head, one request at a time and its answer. A request is asked
(`Ask`) and then answered once (`Answer`) by doing it or, if it is not well
formed or the tape is locked, by refusing it. What the answer says is bound to
the request: "ok" to a write means that the data of this request has been put
at the end of the tape, "ok" or "end" to a skip that the head has moved as far
as it was told, "failed" and "full" that nothing was written, and "full" is
said when there are more blocks on the tape than its capacity, and only then.

`Cs.tla` is cs.c: the address registers (`AddrHigh`, `AddrLow`, 8001, go) and
one operator for each command, on the drive's fields (`fileNo`, the two open
flags, the blocks remaining, the block count, protection) and the tape, a
function from the numbers of the host files that exist to their blocks.
Creating a host file may fail. Two records stand for the code's one `cs`,
because no command touches the address registers.

`CsHost.tla` adds the driver that cs.c describes. `Wait` and `Execute` are the
two calls of `cs_processContinue` after a write of the go register; between
them, as at any other time, the machine may be reset and another tape put in.
The driver treats the drive as a streamer: it writes from the start of the tape
or on from what it wrote or appended, reads and skips after a rewind or on from
what it read, erases after a rewind (`mode`). The code does not insist on that,
and what it does otherwise is no tape: `tape_at_eod` always says yes, so that a
write after a read overwrites the file that was read, and ERASE keeps the file
number. A reset forgets the write protection of the tape that is in; the driver
of the run does not write to such a tape (`Permitted`). Both are hazards
without a property in `PROJECT.json`.

| run | configuration | shows |
|---|---|---|
| cs | two values of a half, one place for blocks and one chained block, two kinds of block, capacity 1, tapes of up to 3 files put in protected or not | the address that is executed is the one the driver means; the count that ends the tape is what is on it; `Tape` is implemented |

Two values of each half are the least for which a lost half is seen; a block at
(1, 0) whose chain goes to (0, 1) changes both. A capacity of one block lets the end
of the tape be reached by one write and by two; three files (`MaxFiles`) give
a file between two marks. The refinement maps a file that is open and read out
to the place behind its mark, as the code treats it in SKIP and READ. The
request is the IOPB that the driver means while the controller has it (`Request`),
with the operation, count, data and mark that the driver put there, and the
answer is the status word and the data that come back in it (`ResultOf`). A
write that says COMPLETE and stores nothing, or other data, or a skip that does
not move, is no step of `Tape`. The refinement therefore contains that the
controller executes the block it was given.

### Terminals and ring buffers

`RingBuffer.tla` is charringbuffer.c under its two threads: the poll thread
queues (`Queue`, then for each byte `TestFull`, `Evict` if the ring is full,
`Place`), the emulator's thread takes (`GetChar`, `Fetch`, `Advance`). Each
step is one test or one store; where the compiler may use the tail it has read
before or read it again, both happen (`seen`). `mutex` is what ENTER_CRIT and
LEAVE_CRIT guard: a key sequence and an untranslated packet are queued under
it, plain characters are not. `FillsUnlocked` says whether the latter may
happen while the ring has no room: the code does not exclude it, and
sock_overwrite shows what follows; the other run and the theorems are about
rings that are never filled in that way (the ring of the code has 32768 slots
and the emulator empties it within milliseconds). `LossyFifo.tla` is the
abstract specification, a queue that loses its oldest character when it is
full and nothing else ever.

`Sock.tla` adds the poll thread's loop: the table of open ports (`Poll`), one
step for each entry with an event (`Handle`: accept, receive, or close and
listen again, with success or not), and terminals that call, type packets of
plain characters and keys, hang up and lose what they sent or not. `Calls` is
`translateAndAdd`, down to the setting that is looked up with the wrong index.

| run | configuration | shows |
|---|---|---|
| sock | 2 ports, the higher one typing single characters, keys of two bytes and both; rings of 4 slots; up to 3 bytes on their way | half done calls of one thread survive the other's (`RingInv`); the rings implement `LossyFifo`; characters wait for their own port in order and without gaps (`OwnCharacters`); every packet is received and every caller answered (`InputTaken`) |
| sock_overwrite | as above, pasting up to 4 single characters at once | violated: one step empties a ring of three characters |

Two ports are the least for which the index of a table entry differs from its
port (the lower port closed). Rings of four slots become full, wrap and are
overwritten. Stamps count modulo 8, more than the ring and the wire can hold.
Fairness: both threads run on, and the poll thread gets the mutex in the end,
because the emulator leaves it for whole instructions between two calls; the
run stops when nobody types, so that deadlock is not checked.

### Memory path

`Mmu.tla` holds the pure part of mmu.c: registers, the three limit policies,
the attributes, the sum of the adders without carry, and, said positively and
apart from that, what a descriptor grants (`Grants`). `Machine.tla` is the
path of an access: `cpu_xlate` and `mmu_translate` (`Translate`), the decoder
and memory with the ROM over it (`Cycle`), the bus error with its frame on the
kernel's stack (`BusError`), and the error flags of the main board that the MMU
sets and a read of the status clears. An access is one step; a long access is
two words, of which the second sees what the first has changed. The user
program is any program. The kernel is any that reads the status once for each
bus error (`StatusRead`, `Ready`), writes base and limit registers as words or
bytes, and returns to the user. Addresses are pages of 512 bytes, because
nothing below bit 9 is translated or compared; RAM ends before the 2 MB do, as
in memory.h.

| run | configuration | shows |
|---|---|---|
| machine | 2 segments of 4 pages, 3 pages of RAM; one descriptor for a read-only program, one for a stack that must not be executed, 2 limits, byte writes of all of them | `MachineInv`: the ROM hides nothing stored, an unread fault is explained by flags and segment status, flags are owed to a fault, unloaded segments are absent; `Isolation`; `DirtyTracked` |
| machine_image | the same with the debugger's save and load (`Image.tla`) | violated: the MMU is not in the image |

Base and limit have two halves of one bit, so that byte writes mix descriptors
and all sums wrap. Two segments let a long access run from one into the next.
The order of the four limit types and both attributes occur in the descriptors
or their byte mixtures; the proofs are for all of them. No fairness is needed.
The machine may be in a state in which the kernel does nothing, so that
deadlock is not checked.

### Floppy controller

`Fd.tla` is the controller under any host. `fd` is the registers and latches,
`irq` the static `fdIntAsserted` with the CPU's line, `armed` whether the
count is running after which the tick calls `fd_processContinue`. Each
register write is an action with all it leads to (`Execute` with `Accepted`,
`Refusal` and `Started` is `fd_exec_command`; `WriteOptions` includes the chip
reset and the RESTORE when FRES goes up); `ProcessContinue` is one call with
countdown, completion, head movement, interrupt and the next call.

`FdHost.tla` adds a driver that polls (sees BUSY come and go) or sleeps until
the level 3 interrupt, reads the status afterwards, and may give up at any time
with FORCE INTERRUPT, and a user who changes disks and resets the machine.
`possible` is what the driver may expect in the watched sector.

| run | configuration | shows |
|---|---|---|
| fd | 2 tracks, 2 sides, one sector each, an image of the first track only; SEEK, STEP OUT, read, write and an unsupported command; polling, sleeping and FRES low; 2 values | `FdInv`: a command and a turning disk have a call to come, no interrupt without cause; `InterruptMeansDone`; `ReadsLastWrite`; `AcceptedAnswered` |

Two tracks of which one is outside the image give refused transfers; two sides
are what a wrong block number confuses. The data register alone is written
(track and sector follow from SEEK and reset); the theorems are for all
registers, commands and options. Fairness: calls while the count runs, the
interrupt being taken, the driver looking when it may. `AcceptedAnswered`
excepts `Deaf`: a reset of the machine with the interrupt raised leaves
`fdIntAsserted` set, so that no interrupt comes until one is forced.

## 3. What is proved

The proofs are in `FourWayProofs`, `SccProofs`, `PitProofs`, `WdProofs`,
`CsProofs`, `RingProofs`, `MachineProofs` and `FdProofs`, each of which extends
its component.

* FourWay, for any number of boards, ports, characters and commands, under
  `FWAssumption`. `TypeCorrect` and `LineCorrect` hold with resets;
  `Invariant` (with `CountCorrect`, `VectorsOwned`, `OneRxCorrect`) holds for
  a machine that is not reset, which is necessary: queued completions survive
  `fw_pulse_reset`. The count
  matches the waiting entries because every entry is counted when it becomes
  waiting and not when it is overwritten; vectors are owned because a queued
  entry belongs to a board in FW_INIT_DONE (`QueuedBoardsReady`), which is the
  same as having its NOVECTOR bit clear (`StatusTracksHandshake`). The first
  entry of the queue exists because the slots are well ordered.
  With the host, the invariant is `HostIInv`. `EveryReadInOrder` needs two
  strengthenings: `OneAnnouncement` (a receive interrupt is in one place only,
  and names the port whose character is in the register) and `LinesInOrder`
  (register and socket hold consecutive stamps, from the one expected up to the
  one typed next). `EveryCompletionAccounted` and `EveryFullRegisterAnnounced`
  are parts of it. `BoardsImplementLines` uses them to map every step to a key
  typed, a character read or a stutter of `TermLines`.
* Scc, for any characters and registers. `LineIsWanted` is not inductive: after
  a reset the static may disagree with the line. `StaleIsHarmless` adds what
  saves it: they disagree only while the master enable is clear and nothing is
  pending, and the WR9 write that sets the enable repairs the static before
  anything can be wanted.
  With the driver, `NobodySleepsForNothing` and `SourceFound` rest on
  `HostIInv`: what interrupted the driver is still wanted when it asks for the
  source, as it neither selects loopback nor clears an enable.
  `DriverAssumption` says that the registers the driver selects exist.
* Pit, for any width of the registers. The period is exact by `OnSchedule`:
  what is left to count and what was counted make up one period.

* Wd, for any counts, lengths, commands and images, under any host.
  `IrqInvariant` is about the interrupt side alone; `IrqInv` is inductive, with
  `StaysArmed` (what is pending has the counter running) as the part that lets
  an acknowledge in the middle be followed by the next interrupt, and
  `BusErrorOnLine` as the part that keeps a bus error from being announced
  twice. `RegistersTyped` shows that no counter is counted down from zero and
  no reply has fewer than no bytes left. `ImplementsIrq` is the refinement, and
  `WdIrqInvariant` carries the invariant over to the whole controller.
  With the driver, `RunsOnce`, `StatusIsTrue` and `WakesUp` rest on `HostIInv`,
  under `LadderAssumption` (a class 1 command is not shorter than one of class
  0, and a byte is dealt with before two phases are over; the code has 10 and 6
  bytes, 2 and 5 calls). `LadderInv` is what the driver's place says about the
  registers: before the command runs (`Coming`), the controller has exactly the
  bytes that were written and no more than one left to deal with; after it has
  run (`Executed`), nothing pending leads to MESSAGE again. `SleepInv` is what
  a sleeping driver depends on: the handling of its last byte has run down
  before the status phase, so that nothing adds a bit to 0xcc. Both are proved
  of each of the two counters of one `wd_processContinue` in turn, which is why
  they are operators of the registers.
* Cs with its driver, for any halves, places, chains, capacities and tapes.
  `OnItsIopb` alone is not inductive: `AddressInv` adds that the high half is
  right between the two writes, that the address armed again by 8001 is the one
  that was handed over, and that nothing is busy while an address is written.
  `TapeImplemented` is about requests and their answers, so that it rests on
  this invariant too: the block that is executed is the one that was asked.
  `TapeCounted` and `TapeImplemented` need a second invariant, `TapeSound`: the
  k files of the tape have the numbers 0 to k - 1, and the drive is where the
  driver's mode has brought it (`Placed`): a file is open for writing only at
  the end, and a writing drive that is closed is at the start, at the end or at
  the empty file behind the last mark. Each command has a lemma that says, on
  such a drive and tape, what it leaves and what it does in the terms of
  `Tape`; `CommandDone` puts them together. That a tape counted anew has as many
  more blocks as were written (`MoreBlocks`) needs no induction, because
  `CountBlocks` is the cardinality of the set of all blocks, and one file
  changes by one interval. The driver's restraint (`Suits`) is an assumption the
  proof uses: without it a write after a read is no write of a tape.

* RingBuffer, for any ports, characters and size from 2 on, if no ring is
  filled without the mutex (`~FillsUnlocked`). `RingInv` says what each thread
  relies on in the middle of a call: the emulator's thread that its tail is
  the one it read, the poll thread that there is still room. It is inductive
  because the mutex keeps the two apart while one of them moves the tail, and
  because an unlocked call has room for all its bytes. `RingsAreQueues` maps
  each step to one of `LossyFifo` or to a stutter.
  With the connections (`Sock`, under `SockAssumption`), `ConnectionsUseRings`
  shows that the poll thread and the emulator's thread do nothing else to the
  rings, so that both theorems hold of them (`ConnectionsSafe`), and
  `CharactersInOrder` follows the characters. Its invariant is `SockInv`: what
  waits for a port, in the ring, in the poll thread and on the wire, is one line
  of consecutive stamps, and a call that has returned has queued all it was
  called for. Every step leaves the line as it is, because bytes only change
  hands (`Kept`), or takes its first character (`Loses`); typing appends to it
  and hanging up cuts it. `Stamps` is at least `Size + MaxUnderWay`, so that
  the stamps do not run out.
* Machine, for any number of segments, any field width, RAM size and
  descriptors. `UserIsolated` rests on lemmas about the segment arithmetic
  (`ModOnce`: the sum without carry is the sum or one turn less) and on a case
  split of an access into its cycles. `WritesMarked` carries the written bit
  through the two words of a long access, and `BoardSound` the explanation of
  a fault.
* Fd, for any geometry, registers, commands and disks. `TurnsToCome` is for
  any host; `DriverIsCpu` shows that the driver and the user are a special
  case of it. `InterruptMeansDone` and `ReadsLastWrite` need what the driver
  knows at each point: it starts nothing while a command runs, and what it
  watches is in `possible` whatever has become of its writes.

Out of the prover's reach, and only model-checked: liveness (`QueueDrains`,
`RegisterFreed`, `ServedInTurn`, `ByteAnswered`, `CharacterRead`,
`KeepsTicking`, `CommandEnds`, `InputTaken`, `AcceptedAnswered`). Every safety
invariant, action property and refinement that a passing run checks is stated
by a theorem.

## 4. What is abstracted, and why

Data that no property tells apart: the contents of packets, baud rates, flow
control settings, the number of data bits. The host's memory is read when a
command runs, so the model chooses the command then. Undefined or machine
dependent choices (where in a driver a poll falls, which characters arrive,
which of two reads of the tail a compiler uses) are nondeterministic. The
drivers are not in the repository; each is as free as the comments and headers
of its device allow.

## 5. Known divergences

Besides the runs that expect a violation (fw_overwrite, sock_overwrite,
machine_image), reading the code for the models showed:

* fourway.c:596: a reset leaves completions in the queue and zeroes their
  count. The next one that is queued lets an old one be raised, with the zero
  base of a board that was handed no vector.
* fourway.c:332: `is8bit = (count = 1)` assigns; FW_CMD_EIGHT always leaves the
  seven bit mask, while the comment above says that any other value than 1
  configures 8 bits.
* wd.c:879: READ CAPACITY sets its reply length in the wrong branch; with DMA
  the data in phase comes as well, though wd.c:542 says that it must not.
* cs.c:671: a reset forgets that the tape that is in is write protected.
* socket_connections.c:808: the translation setting is looked up with the
  index of the table entry instead of the port, so that README.md:234 "Input
  translation can be set for each port" holds only while all lower ports are
  open.
* socket_connections.c:410: `recvFlag % FLAG_TOGGLE_BACKSPACE` for `&`.
* fd.c:110: the selection is tested with SEL0 twice, so that drive 1 is never
  ready, though README.md names two drives.
* fd.c:505: a reset of the machine leaves `fdIntAsserted` and forgets the
  images that are attached.
* cmb.c:138: a reset leaves the error flags of the MMU.
* cmb.c:109: the latch "Write: Inhibit serial port drivers" (cmb.h:37) inhibits
  nothing. `cmb_setWriteRegs` takes CMBWSTAT_INHSER (0x10) for the number of a
  bit and sets bit 16, while scc.c:243, 254 and 308 test it as a mask, bit 4.
  That bit is what CMBWSTAT_INHPAR (0x04) sets, so that inhibiting the parallel
  port switches the console off. `Scc` models both latches with the bits they
  set (`Latches`, `WriteLatch`, `SerialInhibited`).
* pit.c:335, scc.c:736: an image restores registers but not the static copies
  of the interrupt lines.

## 6. Not modelled

The 67392 lines of `src/` are for four fifths third party: the Musashi core with
its generated tables, softfloat and disassembler, linenoise, vtparse, argparse.
They are not this program's logic, and a model of them would say nothing about
it. Of the remaining lines, about 14500, the larger part is the debugger's
console in sim.c and util.c with its tables of commands and help texts, display
functions of each device, message formatting, the escape sequence tables, the
S-record loader and the superblock display: sequential text processing without
state that a property here could relate to something. Nor are modelled:

* sock_putchar, the telnet negotiation and the shutdown of the connections:
  what is sent leaves the machine at once, and the descriptor's races are
  outside what the code defines;
* nvram.c, a file of 64 nibbles;
* save and load functions of single devices (Image takes memory, CPU and MMU);
* the parallel ports of the PI/T and the latches of the main board that nothing
  reads;
* the second drive of the floppy controller and the second Winchester
  controller, which the code never reaches.

The streamer and the 4-Way boards share level 4 but are not composed: the
streamer's exception is taken and acknowledged within the call that raises it,
so that the acknowledge of the one never meets the other's.

## 7. What a next step would add

Images of the other devices against the CPU's lines; sock_putchar against the
poll thread once the code defines what a closed descriptor does; the streamer
with a driver that writes after reading, against a specification that says
which file it loses.
