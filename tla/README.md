# A verification development for SNES Station

SNES Station is a SNES emulator for the PlayStation 2: a front end and run time
for the EE (the console's MIPS CPU), libraries that talk by DMA to the IOP (its
I/O processor), and an emulator core derived from Snes9x 1.41. Beside the
recovered sources the repository keeps the Python tools that recover them. This
directory models the parts of both whose correctness depends on the order of
events. `src/` below is the root of the repository, so the recovered sources are
under `src/src/` and the tools under `src/tools/`.

## 1. The system

| Component | State it keeps | Operations | Meets the others by | Hard behaviour |
|---|---|---|---|---|
| SIF RPC client (`ps2/sifrpc.c`) | packet table, request id, client structures | SifBindRpc, SifCallRpc, `_request_end`, SifCheckStatRpc | commands to the IOP; called by every I/O library | answers in interrupts, shared packets, failures half way, ids that wrap |
| SIF RPC server (`ps2/sifrpc.c`) | queues of servers, ring of replies | SifRegisterRpc, SifExecRequest, SifRpcLoop, `_request_bind/_call/_rdata` | commands from the IOP | no caller registers a server |
| SIF commands (`ps2/sifcmd.c`) | receive buffer, handler tables, registers | SifInitCmd, SifSendCmd, `_SifCmdIntHandler` | DMA channel 5 | handshake with the IOP, one receive buffer |
| I/O clients (`fileio.c`, `loadfile.c`, `iopheap.c`, `iopcontrol.c`) | one client structure each, a completion semaphore | open, read, write, load, reset | SIF RPC | calls without waiting, failures, IOP reset |
| Audio, CD, cards, pads (`sjpcm_rpc.c`, `amigamod_rpc.c`, `cdvd_rpc.c`, `libmc_recovered.c`, `libpad_recovered.c`) | client structure, command in progress, shared buffers | one function per command | SIF RPC | a call without end function, double-buffered pad data |
| EE heap (`alloc.c`, `sbrk.c`) | list of headers in the heap, break | malloc, calloc, realloc, memalign, free | everything that allocates | pointer surgery, fragmentation |
| GS library (`gspipe_recovered.c`, ...) | two packet buffers | primitives, flush | DMA channel 2 | buffer reuse while DMA reads it |
| CPU main loop (`snes9x/cpu_execution.cpp`, `native_cpu_interrupts.cpp`, `cpushutdown.cpp`, part of `native_ppu_registers.cpp`) | beam position, next event, timers, IRQ and NMI flags | events of a line, delivery, WAI, register writes | the game's instructions, DMA, SA-1 | timers moved while the beam runs, interrupts in any order |
| DMA and HDMA, APU, PPU, SA-1, other chips (`snes9x/native_*.cpp`) | registers and their own processors | steps called from the loop | catch up with `CPU.Cycles` | order against the main loop |
| zlib, unzip | windows, trees, bit buffers | inflate, deflate, gz files, old PKZIP methods | ROM loading, snapshots | input and output cut anywhere |
| EE data-flow analysis (`tools/ee_dataflow.py`, `scan_body` of `tools/unnamed_data.py`) | facts about registers before each word, a worklist, claims | transfer, meet, the worklist, the decided prefix, the block-local scan | claims are about runs of the EE processor and become names of data | delay slots, likely branches, loops, budgets, joins that are not seen |
| Toolchain bootstrap (`tools/bootstrap_ee_gcc_stage1.py`) | archives, `.part` files, source trees, build trees, stamps, manifest: all on the disk | download, extract, patch, six build steps, recovery, verification | its own later invocations | killed anywhere and started again, with other arguments |
| C/C++ run time, other tools | none or pure | | | |

What makes each of the modelled parts correct:

* **RPC client**: a packet belongs to one request at a time, a call returns only
  after its own answer, a waiting call is always woken, its semaphore is its own,
  the status query is never early, and packets are lost only where a call fails.
* **Heap**: blocks do not overlap, the list is the set of blocks in order, the
  break is tight, and a request that fits is not refused.
* **inflate**: however input and output are cut, the output is what the stream stands
  for, the next lookup starts at the right bit, the stream ends at its last byte,
  and inflate stops only for want of input or room.
* **CPU loop**: one H-blank per line whatever the timers do, an active IRQ is not
  forgotten, WAI ends exactly at an interrupt, one NMI per frame, frames end.
* **Data-flow analysis**: a claim about an address holds in every run, whichever way
  control comes to the word; the facts are what all the ways into a word agree on,
  and no less in bodies without conditional moves; the flow analysis misses nothing that the block-local scan
  finds, except what that takes past a trap or an odd encoding.
* **Bootstrap**: when it says PASS everything asked for is installed and working, and the
  sources have each patch completely, except for patches that an invocation was
  interrupted in; a step's stamp is true whenever an invocation was killed; started
  again it passes, unless the disk is in one of five named states.

`PROJECT.json` lists every component and, under `hazards`, each thing that is hard
to test, at its line, with the property that covers it.

## 2. The modules

| Module | What it is | Source |
|---|---|---|
| `RpcService` | what a thread is promised: a call is answered, a waiting call returns after that | abstract |
| `SifRpc` | client half of the RPC library, threads and interrupt handler interleaved | `sifrpc.c` |
| `MCSifRpc` | thread and client sets, symmetry | instance |
| `SifRpcProofs` | inductive invariant and safety theorems of `SifRpc`; it implements `RpcService` | proofs |
| `EeHeap` | the allocator with its headers in memory, pure operators under four calls | `alloc.c`, `sbrk.c` |
| `EeHeapProofs` | the list as a set of blocks, inductive invariant and theorems of `EeHeap` | proofs |
| `CpuExecution` | main loop of the emulated CPU, the game as its environment | `cpu_execution.cpp` and the files it calls |
| `CpuExecutionProofs` | inductive invariant, safety and action theorems of `CpuExecution` | proofs |
| `DeflateStream` | compressed streams: their items, where each starts and what it stands for | reference for `Inflate` |
| `Inflate` | inflate over the items of a stream, with bit buffer and circular window | `zlib/inf*_recovered.c` |
| `MCInflate` | streams | instance |
| `InflateProofs` | inductive invariant and safety theorems of `Inflate` | proofs |
| `EeDataflow` | the worklist, the prefix, and the processor whose runs their claims are about | `ee_dataflow.py` |
| `EeLocalScan` | the block-local scan, operators over a body | `unnamed_data.py` |
| `MCEeDataflow` | function bodies: shapes of control flow with words to fill in | instance |
| `EeDataflowProofs`, `EeDataflowPrefixProofs`, `EeLocalScanProofs` | the claims of each of the three scans hold in every run | proofs |
| `Bootstrap` | the tool step by step, and what can go wrong with it | `bootstrap_ee_gcc_stage1.py` |
| `MCBootstrap` | two archives, three patches, two sets of languages | instance |
| `BootstrapProofs` | inductive invariant and theorems of `Bootstrap` | proofs |

### SifRpc

`pkt`, `pid` and `cd` are the packet table, `rpc_data.pid` and the client
structures; `sema` is the count of each kernel semaphore; `th` is where a thread is
in SifBindRpc or SifCallRpc, with its locals. `toIop` and `toEe` are the messages
under way: several servers answer in any order, so they are sets.
A thread step is the code between two points where an interrupt or another thread
can intervene and be noticed: getting a packet (with interrupts disabled), filling
the client in, CreateSema, SifSendCmd, WaitSema (its argument is read before it
blocks), waking up, DeleteSema (its argument is read again). `RequestEnd` is
`_request_end`, run in the DMAC interrupt of a single CPU and so one step. The
`EI()` at the top of `_SifCmdIntHandler` does not re-enable interrupts: the CPU is at
exception level until the handler returns.

A call is made in one of three ways: it waits; it does not wait and has an end
function; neither (`MOD_PAUSE` in `amigamod_rpc.c`, answered with `rmode = 0` by a
DMA over the packet). A bind is followed by another one while `cd->server` is NULL,
as every caller does.

What the callers guarantee is one operator, `ClientFree`: a client structure is used
by one call at a time, and its next call starts when the last one has returned and,
without waiting, when its end function has run. The program keeps to it because
its main thread makes the calls one after the other. The library does not enforce
it: the mutant of `SemaOwnership` starts the next call as soon as the answer is
handled, the way two threads over `fileio.c` would, and the first thread then deletes the
second one's semaphore.

### EeHeap

An address counts fractions of 16 bytes, the size of a header and of the alignment
(`Alignment` = 2 fractions). `mem` holds the header found at each address, so that a stale
pointer reads and writes what the real one does. `malloc`, `memalign` and `free`
are operators from heap to heap; the actions are the program's calls. `u32`
differences between a block and a successor that precedes it are huge, and
`FitsAfter` says so. The main thread is the only one that allocates, a call is a step.
`alloc.c:26-34` compiles malloc, calloc, memalign and free; realloc is in the source and is
modelled where the block grows. Where it shrinks, it copies as many bytes as the old block
had: that is about contents, which are not modelled. Sizes are far from 2^32, so sums do
not wrap.

### CpuExecution

`cpu` is one record with what the loop keeps in CPU, PPU and Memory.FillRAM. An iteration
is `Top` (delivery of NMI and IRQ) and then one instruction with the check for an event
after it; the instruction is chosen by the game: nothing special, a change of the I flag, a
write to $4200, $4207-$420A, an access to $4210 or $4211, WAI, a branch that triggers
CPUShutdown, a DMA (whose end processes the events passed one at a time, `DMAEvents`), and
the SA-1's IRQ and its acknowledgment. At the start of the H-blank of a line of the picture
`S9xDoHDMA` adds the time its transfers take to the clock, any of `HDMATimes`: which channels are on and what their
tables say is the game's choice, which it can change at any time ($420C). Records are transformed by operators with the
names of the functions. Not modelled: what instructions compute, the APU (it only
catches up with `CPU.Cycles`), the Super FX, the hacks DaffyDuck and DisableIRQ, changes
of the screen height.

### Inflate

A stream (`DeflateStream`) is a sequence of items (bytes of header and check, block headers, codes) and an
item lists its lookups with the bits each asks for (NEEDBITS) and takes (DUMPBITS). `StreamAssumption` says what
the items of a stream are and in which order they come: what the format and the tables built from it allow, with
an error as the last item. So the
bit buffer is its length `k`, the input an offset, and a code of two levels or with extra bits
is a longer list. `z` holds the fields of `zr_stream` and of the states
under it. An action is one case of one of the three nested `switch`es, or one lookup of
`inflate_fast`; `OutOfInput` and `OutOfRoom` are NEEDBITS and NEEDOUT that leave. `Flush`,
`Wrap` and `NeedOut` are the window macros. Between calls the application refills the input
when it is used up and gives new room, of any size each time. `Position`, `Decoded` and
`Output` are computed from the stream alone, and the invariants compare the state with them.
A few things are abstracted: what the window held before a stream is the byte 0, the
items of a dynamic block's tables are two lookups, the check bytes compare the output
itself, and bytes given back are the ones that were read, as if the input buffers were
contiguous (see the run `InflatePushback`). Not modelled: preset dictionaries, inflateSync,
failing allocations, the construction of the trees, distances that leave the window.

### EeDataflow and EeLocalScan

A behaviour takes one function body through `scan_body` (`phase` "scan"), `scan_prefix`
("prefix") and a run of the processor ("run", "running"). `reached`, `incoming`, `work`, `queued`
and `visits` are the variables of the worklist: `Visit` is one turn of the `while` (lines
360-376) with all the edges of the word, `GiveUp` the budget, `Emit` the last loop, which alone
makes claims. `prefix` and `found` are the locals of `scan_prefix` and `Prefix` is one turn of
its loop. `Transfer`, `Meet`, `Outgoing`, `BranchTaken` and `MemoryCall` are the functions of those names.
`EeLocalScan` adds `scan_body` of `unnamed_data.py`, which goes over the words once and has no
state but a dictionary: `LocalFacts` is that dictionary before each word, `Boundaries` where it is
emptied.

The processor (`Start`, `CpuPlain`, `CpuAnnul`, `CpuControl`) is not in the repository: it is the R5900 as
the analysis assumes it, and what the claims mean. Delay words execute before the branch is taken, a
likely branch that falls through skips its own, link instructions write $31 first, registers hold
32-bit values that wrap, loads return any input, a callee changes any register, an entry is at
the first word only, and a call through a register leaves the body.

Words are kept by what they do to registers. A lui is an addition to register 0; and, or, xor and
shifts have the shape of add and mul (operands, trace, result out of range or not; a shift is a "mul"
with an immediate) and are left out; loads into FPU registers are of the kind "store" (an access that writes no
general register), partial loads "write", partial stores "none". The decoder, the
names of instructions and the traces in the claims are left out. For the local scan, which
forgets everything at words that are not of opcode 0 and that it does not know, a "write" or "none" says
whether it is of opcode 0 (`fn`).

At words of opcode 0 the two scans differ. The local scan takes only syscall and break for barriers. At
any other one it does not follow, it drops rd alone (lines 198-199), whatever the comment two lines below says of unknown instructions, and
it follows a lui with bits in rs and an addition with bits in sa. The flow analysis takes traps, reserved functions and
such encodings for barriers (`ee_dataflow.py:159-164`). `Odd` are these words, a "barrier" whose `fn` says more. So the
local scan claims the address in `lui $4, 0x10; teq $2, $3; lw $5, 0($4)` and the flow analysis claims
nothing: `FlowCoversLocal` leaves out claims with such a word between the last boundary and the claim (`OddSince`), and
`LocalHitsSound` does not. What the processor does at such a word is an assumption about
the R5900 (`Execute`): bits that an encoding leaves unused are ignored, and a trap or a reserved function
changes rd at most, or stops the program.

The local scan takes mtsab and mtsah for branches, which only makes it forget more; they are left
out, and so is a control word in a delay slot, which the flow analysis refuses.

`FixedPoint` leaves out bodies with movz and movn where it says that no facts are missing. Once the condition is no
longer known, such a word can give the same value from other words (those of the condition drop out of the trace); the
trace of the first visit stays in the union, which may then be too long to be kept. The body `Select` does that.
It costs a claim and makes none wrong.

### Bootstrap

`tool` is where the invocation is, and everything else is on the disk: `archive` and `part` (a
`.part` file is missing, a beginning, whole, the beginning of something else, or such a file as
long as the archive), `source`, `patched` (of each patch, the files that are in their new form), `spoilt`
(patches with a file that neither form fits any more), `patchStamps`, the
Makefiles and products of the two build trees, `prefix` (what is installed, and whether it works),
the six `stamps` with the part of the signature that differs between invocations, and the
manifest. An action is the code between two points at which being killed leaves something
different on the disk; a command that writes several files is begun and ended by two actions, and
in between has built any part. `Crash` can happen at every place. The other faults: the
connection breaks, a mirror sends something else, the host compiler's probe fails within configure
(which leaves `OUTPUT_OPTION` empty, the poisoned build that `preserve_poisoned_gcc_build` moves aside), and the user changes
`--languages` or `--jobs`. configure and make are external and modelled from what the tool
expects of them; servers honour Range. An edit of the repository's own patches between two
invocations is left out. `torn` is not on the disk: it is history, the patches that an invocation
was interrupted in between their first file and their stamp.

patch(1) is external too, and what it does depends on the flag `--batch` on the command lines of the repository
(263 and 290-296): a patch that looks applied is then taken to be one to reverse, without a question and with exit
status 0, and GNU patch decides that for one file after the other. So the first probe succeeds on a clean tree, on
a patched one and on one that is half patched (`Probed`), and the run that follows turns each file into its other
form (`PatchFile`). A patch that was interrupted is therefore undone where it had been done, and
stamped. `apply_patch_once` has a branch for such a tree (311-315, "recovered interrupted stamp"), but it is behind a
failing first probe and a succeeding second one, which do not come together; the model has no action for it. A
file that is reversed leaves a backup with the suffix `.orig`. The repository's `binutils-2.14.patch` changes
`opcodes/mips-dis.c` and then creates `opcodes/mips-dis.c.orig`: the backup is written over that file, patch(1)
fails, and from then on both probes fail (`Backups`, `spoilt`). This was seen with GNU patch 2.7.6 on
trees that have the files of the repository's patches. Two files of GCC, `config.sub` and
`gcc/config.gcc`, are changed by two patches each, in hunks apart from each other; patches are modelled as
independent. Without its patches a source may fail to
configure, build or install (`Unfit`, `StepFails`), and then does not have to.

## 3. The runs

| Run | Instance | Shows |
|---|---|---|
| `SifRpcSafety` | 2 threads, 2 clients, 2 packets, 2 semaphores, ids modulo 3, all modes, sends may fail | six safety properties |
| `SifRpcLiveness` | the same, waiting calls only, sends succeed | calls return; `RpcService` is implemented |
| `EeHeap` | 18 fractions of heap, sizes 0, 1, 4 and 6, default alignment | list, break, disjointness, no needless refusal |
| `EeHeapMemalign` | alignment 4 | *violation*: head and tail are stale after memalign |
| `EeHeapFreed` | as `EeHeap` | *violation*: everything freed, the break is above the base |
| `CpuTimers` | line of 16 cycles, 5 lines, HDMA of 0 or 3 cycles, H positions before, at and past the H-blank and past the line, V line reachable or not, SA-1 | order of events, lines of bounded length, active IRQs pending, H events scheduled |
| `CpuInterrupts` | 4 lines, NMI, WAI, DMA, HDMA, SA-1 | one NMI a frame, waking, progress |
| `Inflate` | 9 streams, window of 6, longest match 4, buffers of 1 to 30 bytes in, 0 to 20 out | bit position, window, end, reason to stop |
| `InflateLiveness` | 3 streams, buffers of 1 or 30 bytes in, 0 or 3 out | every stream ends |
| `InflatePushback` | as `Inflate` | *violation*: a byte of a replaced buffer is given back |
| `EeDataflow` | 677 bodies of 6 to 14 words, 4 registers, values below 16, traces of 3 (2 in the local scan), 14 steps of prefix, 2 visits a word, runs of 20 instructions | claims of the three scans, the fixed point, the local scan is covered |
| `Bootstrap` | 2 archives, 3 patches, c or c and c++, 1 or 2 jobs, 2 attempts, patches of 3, 2 and 1 files, 4 faults of 5 kinds | what PASS and the stamps say is true; the tool gets through |

Why the bounds are enough: two threads on two clients exhaust two packets, and a third
request meets a freed packet with the id of an older one (ids modulo 3 wrap in the run);
a semaphore is created, deleted and created again by the other thread. In the heap
up to nine headers fit, and gaps of every size between a header and
three headers appear. A line of 16 cycles with instructions of
1 has all orders of timer, H-blank and end of line; a DMA of 17 passes a whole line, and HDMA of 3 is as long
as an iteration, so it moves the clock past a timer position and the end of the line.
The streams are up to twice as long as the window of 6, so the window wraps with every
amount unread, inside a literal run, a match and a stored block; `MaxMatch` and `FastInput`
(the code's 258 and 10) are reached and left again, and input pieces of 1 byte cut every lookup.
The bodies have diamonds, loops whose facts change while they are visited, calls and link branches
in and out of the body, likely branches, branches to delay words and a jump through a table, each with
all fillings of its open words; values reach 16, so sums leave the range that is tracked and wrap;
traces grow past 3 in a loop; the body `Chain` exhausts the visits and the loops exhaust the
prefix. 20 instructions take a run at least twice round a loop. Four faults are enough for any
two of the traps below and a crash in the recovery from a poisoned build; the probe's failure, a
wrong mirror and two kills meet in one behaviour.

### Fairness

`SifRpc!Fairness`: a thread inside the library that can go on does (the EE kernel
schedules ready threads), a pending interrupt is taken, and the IOP answers
a request it has. Nothing says that a thread starts a call. `CpuExecution!FairSpec`: the loop runs.
Some step is always enabled, so `[]<><<TRUE>>_cpu` is weak fairness of `Next`.
`Inflate!Fairness`: a call runs to its return, and the application calls again with room
for output until the stream ends, as gzread and uncompress do. Calls without room are
allowed in between, so this is strong fairness of the calls with room.
`Bootstrap!FairSpec`: the tool runs, and a user who has not seen PASS starts it again. Faults
are bounded, so that a behaviour has an undisturbed end; nothing says that they happen.

### Disagreements with the comments

* `alloc.c:248-253`: memalign moves a header; `__alloc_heap_head` and
  `__alloc_heap_tail` are not updated, although the comment says the header is fixed up.
  The GS pipe (`gspipe_recovered.c:195`) allocates with it.
* `alloc.c:273-288`: freeing the head never gives back what lies under the next block,
  which the comment at 306 sets out to prevent.
* `inffast_recovered.c:36-42` and `infcodes_recovered.c:245-249` give whole bytes of the bit buffer
  back without asking whether they came from this call's buffer. With codes of one or two bits
  they may not, and next_in is then in front of the buffer that gzread refills
  (`gzio_recovered.c:343`). With the fixed codes at most one byte is left over, and it is taken back in
  the same call.

Two more places were met where a text promises more than the code does. No run expects a violation
there: the properties say what the code does keep.

* `docs/HISTORICAL_EE_TOOLCHAIN.md:70-72`: downloads, trees and stamps are retained so that an
  interrupted build can resume. It can, but from five states of the disk (`Trapped`): a file of a
  patch overwritten by a backup (both probes of `apply_patch_once` fail from then on); a patch that is stamped but was
  reversed, so that the source is not the one to be built; a `.part` file that does not begin
  the archive (no attempt removes it, and one of full length is answered 416 for ever); a GCC tree
  moved aside by the recovery before stamp 04 was (configure is skipped and make finds no
  Makefile); and stamp 06, which is the same for all `--languages` (after c, asking for c,c++ builds
  C++ and skips its installation, and the verification fails). `OnlyTrapsStop` says that there is no
  sixth.
* `unnamed_data.py:126`: "clear at every control join". The targets of a jr through a table are not
  among the boundaries (lines 130-139). `LocalHitsSound` therefore speaks of bodies without indirect jumps;
  without that condition TLC finds the body `Table`, where the jump lands between a lui and a store.
  The flow analysis refuses such bodies.

## 4. The proofs

`SifRpcProofs` proves, for all sets of threads and clients, any number of packets and
semaphores, any width of the id and any modes, that `TypeOK`,
`PacketOwnership`, `NoEarlyReturn`, `SemaOwnership` and `CheckStatNeverEarly` are invariants and
`PacketLostOnlyByFailure` holds of every step. The argument is the
inductive invariant `IInv`. `PacketOwnership` alone is not inductive, because
`_request_end` frees the packet of the *client structure*: it needs `LastRequest` (that
structure describes the request under way), which needs `Exclusive` and `NoOtherRequest` (one
call at a time on a client). `NoEarlyReturn` needs `Awaited` and `SignalledMeansDone`:
a client structure names a semaphore only while somebody waits for it, and a count of
1 means that the answer was handled. There is one lemma per action.

It also proves `Spec => Promise!Spec`: with the status of a thread computed from
its program counter and the messages of its client (`StatusOf`), each step is a step of
`RpcService` or a stutter. It uses `IInv` for the exclusion between the calls.

`CpuExecutionProofs` proves, for every line length, position of the H-blank, number of lines,
cost of instructions, DMAs and HDMA, and every set of values the game programs, that `TypeOK`,
`HBlankOncePerLine`, `LineBounded`, `IRQNotForgotten` and `WaitsAtWAI` are invariants, and
`HTimerMissedOnlyByVTimerOff` and `OneNMIPerFrame` hold of every step. The assumptions are those
of `CpuExecution`: there are two cycles at least between the start of the H-blank and the end of
the line, V-blank starts before the last line, and an instruction and HDMA are short for the line (`PaceAssumption`: 13
instructions of 68 cycles at most and HDMA of 448 at most are 1332 of the 1368 cycles of a line). A step is a composition of operators on the
record, so the invariant is split the same way: `Flags` holds of every intermediate state, `Line` of
those between events, and `EventDone` of what the body of an event leaves to `S9xReschedule`. `Line` says
more than `HBlankOncePerLine`: past the start of the H-blank the clock is past it too, which
is what keeps `S9xUpdateHTimer` from scheduling a timer event on the wrong side. `Flags` needs
that `nmiActive` implies V-blank, so that the NMI of the first line of V-blank is the first of
the frame. `Good` is what every action does, with one lemma per action.

`LineBounded` needs `PaceAssumption`: an instruction as long as the line would add more than the one event
checked after it takes away, and the clock would run off; the same would happen if HDMA took most of the line.
Its invariant is `OnTime`. An iteration (the delivery of an interrupt, the
opcode, WAI) may leave the loop late by its length for each event that follows, so `Late` allows one iteration
more from event to event, and the end of the line takes all of it back, with the time of HDMA (`Reach`). The timer could make that allowance grow without end, since a game
may move it as often as it likes; but a timer event for which the loop is late is the last one of its part of the
line (`LastTimer`, `Settled`), because `S9xReschedule` takes only a position ahead of the one just processed, and
`S9xUpdateHTimer` only one ahead of the clock. Between two instructions `Settled` holds even if the V timer is about to change, which is
why a write to $4200 that switches it off in the middle does no harm. The end of a frame runs through one
delivery more (`Allowance`); a DMA is late by its length, and processes events until it is not;
meanwhile each line adds its HDMA and takes a whole line away (`HDMAOfLine`).

`EeHeapProofs` proves, for every heap, header size and set of request sizes, that `TypeOK`,
`BlocksDisjoint`, `BlocksInOrder`, `TopIsTight` and `RefusedOnlyWhenFull` are invariants. Its assumption `Small`
excludes the alignments above the default one with which memalign moves a header: the run
`EeHeapMemalign` shows that the theorems fail there. `RefusedOnlyWhenFull` also needs that the program ends on
the default alignment, because the first malloc leaves out more than its test of the break says if
it does not. The argument is `InList(h, L)`: the pointers in memory make a doubly linked list, in the
order of addresses, of the set `L` of blocks that are held, and the blocks do not overlap. `Insert` and
`Remove` show that linking in and out keeps this, whichever of head, tail and neighbours is missing;
`InListIsListed` that the recursive walk `Node`, by which the properties see the heap, meets each of
`L` once. The five properties follow from it.

`EeDataflowProofs` proves `HitsSound` for every body, register file, input and set of callees. The
inductive invariant has two parts. While the scan runs, `Settled`: the facts before a reached word that is not
queued stay below (know no more than) those of every edge out of its predecessors, so with an empty queue they are a
post-fixed point, which is enough for soundness; the order of visits and the budget play no part. While the processor runs,
`RunAgrees`: its registers agree with the facts of the word it is at, because each word's `Transfer` is true of
`Execute`. `FixedPoint` says more: the
facts before a word are not more than the ways into it agree on, and in a body without conditional moves not less
either. For the second half the invariant `ExactBoard` says that they stay above every state that is below all that arrives
(`Greatest`), which each visit keeps because a word turns less into less: `Monotone` names the one kind of word that does
not. `TypeOK` needs `Queue`, that the queue has each waiting word once, and the fields of the claims.
`EeDataflowPrefixProofs` proves `PrefixSound`: the places the scan has come to form a trail, each of
which leads to the next in every run, and each claim was made at one of them for the step with which the
processor leaves it. `EeLocalScanProofs` proves `LocalHitsSound`: a word that is no boundary is entered
from the word before it only, so the registers agree with the local facts too; and `FlowCoversLocal`: these facts, with
their traces, are among those the worklist has for a reached word (`Covers`), whatever it has met there, except
from an odd word to the next boundary (`NoOddBefore`). At an odd word the local facts follow the processor directly (`LocalTrap`, `LocalAddition`). That the recursive
function `LocalFacts` is what its definition says follows by taking the least word for which it would not be.

`BootstrapProofs` proves `TypeOK`, `PassIsTrue` and `StampsTrue` for all archives, patches, languages, jobs and
places to be killed. A pass is true because of what holds on the way to it: the sources before the one at hand are
extracted and their patches stamped (`SourcesReady`), a patch that is not in `torn` is changed up to the file at hand, and completely
when it is stamped (`Untorn`), a stamp about to be written is true (`StepDone`), binutils are installed before GCC is built,
and make never runs in a GCC tree without `OUTPUT_OPTION` (`NothingBad`), which is what the recovery and
`require_output_option` are for.

`InflateProofs` proves the five invariants of `Inflate`, for every set of streams of the format, every window no smaller than
the longest match, and all sizes of buffers. The inductive invariant has seven parts. `TypeInv` says that the read
pointer never rests on the end of the window, which is what tells a full window from an empty one. `ModeInv` and `LastInv` say which
items a mode can be at, and that `last` is that of the block being decoded. `BitsInv` bounds the bit buffer in each
mode: `BitPosition` needs it where bytes are given back, `TypeOK` where bits are asked for, and the end of the stream where the mode must
have left less than a byte. `FastInv` is why `inflate_fast` may skip the tests that the slow path makes: at each lookup it has bits
for the rest of the length or the distance, or bytes in `Reserve` to take them from. `DataInv` is `OutputCorrect` byte by byte, and
more: the window holds the last bytes of the output, those already delivered too, since a match reaches back
to them. `ReturnInv` relates the result that is kept in `r` to what is used up. What a stream stands for is a
recursive function; the proof uses only what `OutputStep` and `FirstBitStep` say of it, from an item to the next, and
the invariant carries that along. There is one lemma per action; `inflate_fast` has one per lookup, and one for the copy of
a match, which comes round to its own bytes.

Every safety invariant and action property of the runs that pass is proved. Model-checked only: liveness (`CallsReturn`, the fairness
part of `RpcServiceImplemented`, `WAIEnds`, `FramesEnd`, `OnlyTrapsStop`, the ends of inflate), which the prover does not
do.

## 5. Not modelled

* The server half of SIF RPC and the command layer's set-up: nothing in the program registers a server, and the
  receive side used by the client is in `SifRpc` as `RequestEnd`. Their hazards are listed.
* File, module, heap, reset, audio, CD, pad and memory card clients: each is a sequence of RPC calls made by the
  main thread, one after the other, with a semaphore around it. `SifRpc` models every way in which they
  call. What a client does with a failed call is listed as a hazard.
* The instructions of the SNES CPU, the SA-1, the SPC700 and the Super FX, the PPU's rendering, the
  arithmetic chips, sound mixing: computations on data whose errors tests show, not orders of events. The
  memory map is a table. DMA and HDMA appear in `CpuExecution` only by the time they take: a DMA when it is started, HDMA
  at the start of each H-blank of the picture.
* The GS library, the front end, the C and C++ run time: I/O and pure functions.
* deflate, gz files, the tree builders and the old PKZIP methods: functions from data to data.
* The other tools in `src/tools`: offline scripts that read listings and object files, match them with regular
  expressions and write reports, from files to files, without state between runs. They are most of the
  lines of Python in the repository, and the program's own logic is C, C++ and the two tools modelled here, so
  the share of Python lines that the models stand for is small and will stay so.

## 6. What is left

1. An abstract window for `Inflate` (a queue of bytes with a history), and `inflate` shown to
   implement it; preset dictionaries and inflateSync.
2. The channels and tables of HDMA, and the catch-up of the APU with the main loop of the CPU; changes of the screen height.
3. The handshake of `sifcmd.c` with the IOP, and an IOP reset with requests under way.
