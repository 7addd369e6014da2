# Verification of bugnes / libsfot

`bugnes` is a 6502 core with memory hooks (`libsfot`, `src/cpu/6502`) and two
machines on top of it: `simplenes`, a NES with the part of a PPU that games
program (`src/bin/simplenes`), and `simple6502`, a 6502 with a screen and a
keyboard (`src/bin/simple6502`). This directory holds TLA+ modules translated
from that code, TLC configurations that check them on small instances, and
proofs checked by TLAPS.

## Inventory

| Component | State | Operations | Talks to |
|---|---|---|---|
| core (`core.c`) | `mem[]`, the short registers, `reg_pc` | `MEM_READ/WRITE/INC`, the 16-bit forms, stack push and pop, flag access, `core_clear_all` | memhooks on every memory access; not for the stack page |
| addr (`addr.c`) | none | the 13 addressing modes, `ADDR_MODE_GET_VALUE` | core: every mode reads memory through the hooks, often twice |
| opcodes (`opcodes.c`, `opcodes-private.h`) | `reg_pc_branched`, the pending branch target | fetch, execute, one primitive per class of instruction, the flag routines | core, addr, excepthooks (BRK) |
| memhooks (`memhooks.c`) | a linked list of address ranges per hook type | insert, look up, clear, dump | called by the machines and, on every access, by the core |
| excepthooks (`excepthooks.c`) | one function per exception | insert, check, clear | called by BRK |
| sfot (`sfot.c`) | `step_cb`, `is_powered_on`, the CPU thread | power on (in the caller or in a thread), power off, load, DMA, the CPU loop | all of the above |
| disas (`disas.c`) | none | text of an instruction; asserts its number of parameters | called by the CPU loop when a step callback is installed |
| ppu, ppu_registers | VRAM, `memaddr`, the two-write latch, the dummy-read flag, register fields | hooks on 0x2000-0x2007, loading, sprite memory | called by the core through hooks |
| simplenes (`main.c`, `hooks.c`) | none | loads the file, installs hooks, mirrors RAM, DMA hook | all |
| simple6502 (`main.c`) | frame buffer, key code, SDL timer | main, CPU and timer threads | core through hooks |
| tests (`src/test`) | the suites' hooks and counters | the suites of the core and of the PPU | sfot, ppu, ppu_registers |
| demo, makefiles | none | run an assembler, build | |

Hard behaviours: the order and the number of memory accesses when a hook
answers differently each time; the pending branch target between two
instructions; a stack that wraps around its page; carries over chains of
instructions; hook lists whose outcome depends on the order of the calls;
power-on and power-off around CPU loops that run in a thread or in the caller;
short, failing and missing reads while loading; the PPU's latch and dummy read,
and accesses that the program did not mean (INC, a DMA of the PPU's own page);
three threads around one frame buffer and a mutex around the key code. `PROJECT.json`
lists them, each at its line, under `hazards`.

What makes a component correct:

* core, addr: an access reaches the translated address and no other, and what
  a hooked cell stores has been through its hook.
* opcodes: a program's instructions run along its control-flow graph, calls
  return, arithmetic over several bytes comes out right, and an instruction
  changes only the flags it owns.
* memhooks: a list is a map from addresses to functions; installing one range
  changes no other answer; ranges do not overlap.
* sfot: a power cycle starts from a clean machine, one CPU loop at a time; what a
  loop is about to use is not taken from it; a load stores the file where it was
  asked to, and ends.
* ppu: writes and reads of the data register walk over the VRAM as one address
  register with a buffer.
* ppu_registers: a field is a variable of its own, although it shares a byte.
* simplenes: what a program does on the bus, a DMA included, is a legal use of the
  PPU; mirrored RAM is one memory; the VROM is what follows the program in the file.
* simple6502: the screen ends up showing what the program has drawn, and shows it
  last; no key hangs, and none is missed.

## Modules

| Module | Models |
|---|---|
| `Bytes` | the C integer types used, and a byte as the set of its bits |
| `OpcodeTable` | `opcode_names[]`, written by the columns of the instruction set |
| `Alu` | the `flags_update_*()` routines and the arithmetic of `opcodes.c` |
| `Cpu6502` | `core.c`, `addr.c`, `opcodes.c` and the CPU loop of `sfot.c` |
| `ProgramFlow` | abstract: what the core promises a program about control |
| `CpuFlow` | the core as `ProgramFlow` sees it, and the discipline programs keep for it |
| `CpuArith` | programs that add, subtract, compare, shift, count and multiply, as listings, and the number each has to arrive at |
| `Assembler` | `6502_macros.h`, `sfot_load_stream`, `sfot_set_reset` |
| `Memhooks` | `memhooks.c` |
| `HookMap` | abstract: the map from addresses to functions the lists stand for |
| `Lifecycle` | `sfot_poweron`, `sfot_poweroff`, the callbacks, and the CPU loops they start |
| `SfotLoad` | `sfot_load` |
| `NesLoad` | `main()` of simplenes up to power-on: `sfot_load`, then `PPU_load` |
| `PpuRegs` | `ppu_registers.c`, its header and its fields |
| `Ppu` | the hooks of `ppu.c` and the VRAM behind them |
| `VramPort` | abstract: a window on the VRAM |
| `Simplenes` | the bus of simplenes: `core.c` with the hooks of `hooks.c` and `main.c`, and `Ppu` |
| `SimpleScreen` | the screen of simple6502: hook, timer thread, last refresh |
| `SimpleKeys` | the keyboard of simple6502: event loop, mutex, key register |
| `MCCpuTests`, `MCPpuTests`, `MCTests` | the two suites of tests, and the runner of both |
| `MCCpuArith`, `MCCpuPrograms`, `MCCpuCalls` | programs and hooks for TLC |
| `MCMemhooks`, `MCSimplenes`, `MCSimple6502` | instances for TLC |
| `Cpu6502Proofs`, `CpuFlowProofs`, `MemhooksProofs`, `LifecycleProofs`, `LoadProofs`, `PpuProofs`, `SimplenesProofs`, `Simple6502Proofs` | theorems |

`Simplenes` extends `Ppu` and `NesLoad` extends `SfotLoad`. Both machines are
built on the memory accesses of the core: where the hooks have no side effects
and may answer anything, `Cpu6502` has the instructions that make the accesses;
where the accesses themselves matter, `Simplenes` has the accesses and leaves the
choice of them to the program.

### Cpu6502

State: `mem` (sparse: absent means the 0 of `core_clear_all`), `sreg` and
`flags` (`short_regs[]`; the status register as the set of its bits), `pc`
(`reg_pc`), `branch` (`reg_pc_branched`), `phase` (where `cpu_thread()` is) and
`exc` (what the BRK hook was last given, or -1).

`cpu_thread()` alternates `opcode_fetch`, one of the `asm_*` actions
(`opcode_exec`) and, with a step callback, `step_callback`. There is one action
per primitive of `opcodes.c`; the table entries that call the same primitive are
told apart by small functions (`LoadInto`, `BranchOn`, ...) taken from the
one-line wrappers. `power_cycle` is a `sfot_poweroff` after the loop has
returned, a new image and a `sfot_poweron`.

Hooks are constants: a translation maps hooked addresses to addresses, a write
hook maps bytes to the byte stored, and a read hook has a set of possible
answers, because the machines hook a random generator and a keyboard. Every
call of `MEM_READ` picks an answer of its own, so an operand that the code
addresses twice may be addressed at two places. The stack page is accessed
without hooks, as in the code. An `assert` that fails is phase `"aborted"`.

Left out: cycle counts (not implemented by the code), the text of the
disassembler, decimal mode and interrupts (not implemented by the code). Hooks
that change a state of their own are in `Simplenes`; the DMA hook of the tests is
in `MCCpuTests`.

### ProgramFlow, CpuFlow

`ProgramFlow` has the code, the next instruction and a stack of bytes, no fetch
and no pending target. `CpuFlow` maps the core to it: the next instruction is
the one at `pc`, or where a fetch will go; the stack is what the page holds
between the stack pointer and 0, where the pointer starts. `Disciplined` is what
a program must keep to in each step for the mapping to hold: its stores go to data,
which is all memory in front of the program but the bytes now on the stack.
`CpuArith` has programs as listings of offset, function, mode and operand;
`Listed` says that one is in memory, whatever opcodes the table has for it.

### Memhooks

`all_mh` maps each type to the sequence of its entries; `insert` is the whole of
`insert()`: its assertion, the loop (`Passes`, `Accepts`, `StopsAt`) and the
linking (`Linked`), which loses the list when it links at the head. `ret` is the
outcome of the last call. `check` is the lookup of the core.

### Lifecycle

The client and the loops are interleaved processes: `client` and `loop[t]` say
where they are, and `inside` which loops are in a memory hook. A loop alternates
`cpu_executes`, `cpu_executed` (which may store values of its own in memory) and
the test and call of the step callback, which are two steps: between them
`collect_step_info()` reads the instruction again, through the hooks. A BRK calls
its hook in the middle of an instruction, which reads the vector afterwards
(`cpu_resumed`). Power-off is three steps, and power-on sets `is_powered_on` only
after the loop has been started, or has ended, as the code does. A callback that
is gone when it is called is a call of NULL, which ends the process (`Lives`).

The client is external and unrestricted in what it installs, clears and loads,
and when: none of these functions looks at `is_powered_on`. It calls them in its
own thread, a loop running or not, and in its hooks and callbacks, in the thread
of the loop. It powers off whenever the machine is marked as on. Nothing in
`sfot.c` waits for a thread, so such a client can take the machine, the callback
or the hooks from a loop at work; `taken` keeps a history of which of them it
took, and each property says what holds as long as that one was not. It is
not a guard of any action. One assumption remains: power-on and power-off are called
from the client's own thread, never from a hook. Both machines and the C tests
keep to that. The memory hooks are one, installed or not: what the lists hold
is in `Memhooks`, where an insertion is one step.

### SfotLoad, NesLoad

`read()` gives any part of what was asked for, nothing at the end of the file, or
fails; how often it fails is bounded by `MaxErrors`. `pos` is the position in
the file, `bytes_read` and `buf` the locals. A failing `read()` takes one from
the count like in the code. In `NesLoad` the loop of `PPU_load` starts from
`ppu_first`, any member of `Garbage`, because `bytes_read` there is not
initialised (ppu.c:120, 125), and what it stores outside `memory[]` is recorded
in `outside`, not followed. `VromStart` says where the loading of the program has
left the file, in terms of that call's result and errors only.

### PpuRegs, Ppu, VramPort

A register is the set of its bits, a field a range of bits. `Ppu` has the masks of
the VRAM address as sizes, so that small instances exist; `memaddr`,
`memaddr_just_setted` and `set_lower` are the code's. `VramPort` says what
programs rely on: a page and a place, set in turns, moving on with each access,
and a first answer that is missing. The refinement mapping splits `memaddr` by
division and takes the end of the VRAM, on which the code's address may stay, to
its start.

### Simplenes

One action per access of the core (`MEM_READ`, `MEM_WRITE`, `MEM_INC`) with what
all its hooks do; a write to the DMA register reads a page through the read
hooks in the same step. `MEM_INC` works on `mem[]` below the read hooks.

### SimpleScreen, SimpleKeys

`screen_update()` is a step per cell and per half of its loop's body, in two
threads at once, because `excepthook()` calls it while a call of the timer may be
under way; `alone` records whether one was. `SimpleKeys` has the events of SDL in
a queue, the loop of `main()` with the lock, the store and the unlock as steps,
and `keycode_memhook()` on the CPU thread. `main()` returns, which ends all threads,
at its two exit events in `SimpleKeys`, and so at any step of `SimpleScreen`.
`last` is the last key that was pressed without a modifier, a history of the user.

## Runs

| Run | Question | Instance |
|---|---|---|
| `cpu_tests` | Do the C tests of both suites come out right, and end? | four tests of `test/cpu/6502/check.c`, in any order, with power cycles; all tests of `test/bin/simplenes/check.c` on a PPU of the real size, and each of its fields with the largest value and one too large |
| `cpu_overflow` | Does ADC detect a signed overflow? (violated) | the programs of `CpuArith` |
| `cpu_programs` | Do instructions keep to their memory and flags? | every pair of 68 instructions after each of 3 preludes; a volatile register, a write filter, mirrored cells |
| `cpu_flow` | Does the core refine `ProgramFlow`, and is arithmetic over several bytes right? | all triples of 9 pieces with nested calls, loops, a jump table, the stack pointer set, and recursion 127 deep; the eight programs of `CpuArith`, all pairs of 11 boundary operands |
| `memhooks` | Do hook lists stay consistent, and act as `HookMap` does? | all sequences of calls over 5 addresses, two functions: on one type in any order, on two in ascending order |
| `memhooks_overlap`, `memhooks_lost` | Do they keep what their comments say? (violated) | as `memhooks` |
| `simplenes` | Is every access of a program a legal use of the PPU? What does loading a file load, and does it end? | 5 accesses to 9 addresses of a bus of 64, pages of 8, VRAM of 2 pages; every call of `sfot_load` and every run of `main()` on a file of 12 bytes with two failing reads |
| `simplenes_vrom` | Does loading the VROM start at the VROM? (violated) | as `simplenes` |
| `simplenes_mirror` | Is mirrored RAM one memory? (violated) | as `simplenes` |
| `simple6502` | Do its threads agree on the picture, the key code and the machine? | 3 cells, 3 writes; 2 keys, 3 presses; 2 power-ons, everything else as often as the client likes |
| `simple6502_lastkey` | Does the key register hold the last key pressed? (violated) | as `simple6502` |

`MCTests`, `MCSimplenes` and `MCSimple6502` each put parts side by side that have
no state in common (two suites; loading and running; screen, keyboard and power).
A behaviour is of one of the parts and the others rest: interleaving them would
multiply the states without a step of one being able to disturb another.

Bounds. The alphabet of `cpu_programs` has each function of the table but BRK,
which the cleared memory after each program holds, and each addressing mode, with
operands at the edges: the volatile register and its mirror, addresses that wrap
around, the mark of no branch 0xFFFF, the vectors and the program's own bytes. Pairs are enough for the properties it checks, each
of which speaks of one step, while the preludes and the first instruction of a
pair bring about the registers, flags and pending targets the second one meets.
`cpu_flow` takes operands where a byte or a sign wraps. Its recursion fills 254 of
the 256 bytes of the stack page, and `ProgramFlow` says what may happen up to that
depth; programs that push more overwrite their own stack, in this code as on the
processor. The lists of `memhooks` reach four
entries, which is every way of laying ranges over five addresses; `insert()` compares
with one entry at a time.

In `simplenes`, five accesses are the shortest way past the end of the VRAM: a
high byte, a low byte, a high byte again, a write that steps on the end, and a
low byte. The addresses are a cell and its mirror, every register, and a plain
cell; the values set and clear `VERTICAL_WRITE`, and ask for a DMA of the PPU's
own page and of a plain one. The file holds just what the program, the VROM
and two errors take, so `main()` can succeed; other clients ask for any length up to
11 of the 10 bytes there are, at any offset, also past the memory, and with a bad
descriptor. Two errors make a shift of two, and an error after an error.
`Garbage` has a count in front of `memory[]`, in it, at its end and past it.

In `simple6502`, three cells have a first, a last and one in between; of the three
bytes two are the same colour and one is past 15. Two keys may be down at once,
one of them with a symbol past 255, and a third press follows a release. Two
power-ons are a loop and the one that meets it after a power-off that came too
early; a third loop would meet them as the second meets the first, and the
theorems are about any number.

The programs of the C tests are the ones in C. The hook hits that the first test
counts are those of the operands of its instructions, and the DMA test's
buffer is compared after the test, as in C. The suite of the PPU sets fields to
values that fit; the run adds, for each field, its largest value and one that is too
large, which the setter must refuse. The tests of the VRAM run from seven more
addresses than the one in C, where an address carries or wraps around.

Deadlock is not checked where the program may end: after a BRK, a call of NULL, a failed
assertion, or after an assertion of `insert()`; nor where a bounded program has
made its accesses, a load has returned, or `main()` has. In `cpu_tests` it is
checked: a test of the core that has stopped is followed by another, and only a
test of the PPU that is through may stay as it is.

Fairness.

* `cpu_tests`: weak fairness of the CPU loop as a whole, for `TestEnds`: the loop
  runs in the thread that called `sfot_poweron`, never blocks, and is the only
  thing that thread does. Nothing is assumed of the choice between the answers of
  a hook, or of the client that powers on again.
* `simplenes`: weak fairness of the loading loops, for `LoadEnds` and `NesEnds`:
  one thread, and `read()` on a file returns. Both are stated for files that are
  long enough: at the end of a shorter one `read()` returns 0 for ever, and the
  loops do not end.
* `simple6502`, screen: the timer thread runs (`PictureSettles`). That the program
  writes, comes to a BRK, or that `main()` returns is not assumed.
* `simple6502`, keys: weak fairness of `main()` and of the hook, and strong
  fairness of `main()` taking the mutex (`EventsSeen`): the CPU thread unlocks it
  and, between two instructions, sleeps in `step_cb` (main.c:77) before it asks
  again. The user is not assumed to do anything.
* `simple6502`, power: as long as the process lives, each loop runs, and a call of
  power-on or power-off goes on once it can. The callback is not assumed ever to
  ask to stop, nor the client to do anything.

## What the runs found

* A new range that starts before an installed one and reaches into it is
  accepted, against the comment that mappings do not overlap
  (`memhooks_overlap`).
* Linking at the head of a list loses the list (`memhooks_lost`). Both machines
  install their hooks in ascending order, where neither of the two happens, which
  `memhooks` checks (`ImplementsMap`) and `ListsImplementMap` proves.
* `mirror_internal_ram()` passes the end of the mirrored range as the size of the
  memory, and so translates every address to itself: the mirrors are memory of
  their own, against the comment of `mirror()` (`simplenes_mirror`).
* ADC and SBC clear the overflow flag and never set it: the test compares a
  sum with itself, which the comment on it suspects. The run finds 1 + 127
  (`cpu_overflow`); `OverflowNeverDetected` proves that it is so for all operands,
  and that BIT, which is to set the flag too, does not.
* `main()` of simplenes goes on after a failed `sfot_load`, and `PPU_load` then takes
  the program for the VROM; or, after a failed read that the load survives, starts a
  byte too far, against its comment that the file is at the VROM
  (`simplenes_vrom`).
* Any key that goes up clears the key code: that of a key pressed later, and still
  down, is lost, against the header that calls it the last key pressed
  (`simple6502_lastkey`).

Some properties hold only under a condition, which is where the code's promise
ends:

* `LoadsBehindCount`, `NesEnds`: `PPU_load` adds to an uninitialised count. If it
  starts inside `memory[]`, that many cells stay empty; otherwise the loop stores
  outside, fails or does not end.
* `ShiftedByErrors`: after `n` failed reads that the loop survives, what it reports
  as loaded is late by up to `n` bytes.
* `LastRefreshShows`: only when no call of the timer was under way at the BRK; such
  a call may draw over the last refresh.
* `NoGhostKey`: a key code that is not 0, once every event is handled, is of the last
  key typed, which is still down. That the last key's code is there is what
  `simple6502_lastkey` refutes, and a symbol that is a multiple of 256 leaves 0.
* `OneLoop`, `OffIsOff`, `OwnMemory`: only for a client that never powers off a
  machine whose loop is at work. The library does not say so, nor help a client to
  wait.
* `CallbackThere`: a callback tested and gone at the call has been uninstalled by
  another thread, by a power-off, or by a memory hook that `collect_step_info()` came to;
  the last needs no second thread.
* `HooksStayInUse`: lists are freed under a loop walking them only by a clear or a
  power-off from another thread.

## Theorems

All theorems hold for every value of the constants, under the assumptions the
modules state about them (`TableAssumption`, `ImageAssumption`,
`HookAssumption`, `ClientAssumption`, `ProgramAssumption`, `ModeAssumption`,
`LastAddrAssumption`, `SizeAssumption`, `DataAssumption`, `MapAssumption`,
`ValuesAssumption`, `FileAssumption`, `LoadAssumption`, `NesAssumption`,
`StartsAssumption`, `ScreenAssumption`, `KeysAssumption`, `PressesAssumption`);
TLC evaluates those in the runs.

* `Cpu6502Proofs!TypeCorrect`. `TypeOK` is inductive as it stands, because of its
  last conjunct: an instruction is only executed when no target is pending. The
  proof has lemmas for what each operation on memory and each addressing mode
  returns, and one step per action.
* `Cpu6502Proofs!OnlyOwnersChangeFlags`. Each flag routine leaves all bits but
  a few alone (`Same`); each primitive is dispatched only for functions that own
  those bits.
* `Cpu6502Proofs!OverflowNeverDetected`. The two sides of the comparison in
  `flags_update_arith_overflow()` are equal for all operands, because neither
  conversion to 16 bits loses anything (`NoArithOverflow`), and bit 6 of 0 is 0:
  the finding of `cpu_overflow`, for all operands.
* `Cpu6502Proofs!WriteHooksFilter` assumes that no write hook is on the stack
  page and that images are loaded through the hooks (`WriteHooksOffStack`,
  `ImagesFiltered`); without the first, a push gets past the hook.
* `Cpu6502Proofs!TranslatedCellsKept` assumes that the stack page is not
  translated away (`StackInPlace`), and is about a single run: a power cycle
  loads new memory.
* `Cpu6502Proofs!CarriesAreExact`, `WordsAreExact`: one instruction loses nothing
  between its result and the carry, and so two of them, the second with the carry
  of the first, add, subtract or compare words, for every pair of words.
* `CpuFlowProofs!ArithIsExact`: the eight programs of `CpuArith` end, if they end,
  with the right number in memory (`WideResult`) for every x and y, every table
  that has their instructions and every place of the program. Its hypotheses: no
  hooks on the program, the vectors or the bytes from x to the expected number, BRK ends
  the loop, the step callback does not, and the images hold one of the programs
  with its operands. TLC evaluates the last on all its images
  (`SumsAssumption`). The invariant (`ArithInv`) is an assertion in front of each
  instruction, over
  memory, registers and status: in `Adding`, for instance, that the sum of the low
  bytes is what has been stored plus 256 times the carry, until the second ADC
  takes it. The loop of the multiplication has one over the bits still to come
  (`Multiplying`): the product times two to the number of rounds left is what has
  been added so far plus what the rest of x will add. The lemmas `LoadRuns` to
  `BranchRuns` say what each instruction leaves; `AddGoes` to `TimesGoes` that
  each takes one assertion to the next.
* `CpuFlowProofs!DisciplinedProgramsFlow`: every program that keeps the discipline
  of `CpuFlow` implements `ProgramFlow`. Its hypotheses: the program lies from
  `ProgramStart` up to the vectors, where there are no hooks, and stays there
  (`InProgram`); its stores change data only, which may also lie in the part of
  the stack page that is not in use; it has room on the stack for what it pushes
  and pulls only what is there; it never jumps or returns to 0xFFFF, which marks no
  branch; BRK ends the loop. It may set the stack pointer, and jump through a table in
  itself or in its data. The modes of JSR, JMP and the branches are those of the
  processor (`ModeAssumption`). Hooks on data, with any answers, and the step
  callback are free, and so is the number of calls and pushes up to the room.
  The programs of simple6502 that keep to it are covered, with
  `ProgramStart` at 0x600. The hypotheses about behaviour are true of all programs
  of `cpu_flow`, which calls 127 deep: `InProgram` as an invariant and
  `[][Disciplined]_vars` as a property, added to that run, are not violated. The
  invariant (`FlowInv`) is about the steps the mapping does not see: a fetch
  without a target goes on inside the program, also the first one after
  power-on, and the callback is never called for a BRK. The work is in lemmas
  on the page as a stack (`PushAppends`, `PopDropsLast`, and their 16-bit forms):
  a push to the wrapping pointer appends a byte and changes neither the bytes
  below it nor the code.
* `MemhooksProofs!TypeCorrect`, `StaysSorted`, `AcceptedHooksAnswer`,
  `OtherAnswersStay`, `AscendingCallsActOnMap`, `ListsImplementMap`: the inductive
  invariant is that every list holds nonempty ranges and is sorted by their starts.
  That is enough for an insertion above all of a list, whatever the calls
  before: the loop passes every entry, and no address of the range is hooked yet
  (`AscendingInserts`, `AboveIsFree`). The refinement follows step by step.
  `CheckInserted` and its neighbours say what a lookup returns after an
  insertion.
* `LifecycleProofs!AtMostOneLoop`, `OffMeansOff`, `MemoryIsOwn`, `CallbackStays`,
  `HooksOutliveUse`. One inductive invariant, whose parts hold as long as the history
  `taken` does not say otherwise: only the loop started last can be active
  (`OnlyLast`); the place of the client says whether the machine is marked as on
  and whether a loop may be at work (`ClientKnows`); memory holds nothing of
  another loop (`MemoryOf`); a callback that was tested is there until it is called
  (`Tested`). For any number of power-ons, and everything a client may do but
  power-on and power-off within a hook.
* `LoadProofs!LoadTypeCorrect`, `CountBehindErrors`, `LoadedFromFile`,
  `LoadIsAtomic`. The invariant relates the count to the file's position and the
  number of errors, and each byte of the buffer to one at most that many bytes
  further on in the file. An error that takes the count back makes the next read
  overwrite a byte with a later one, which is why the distance may grow by one.
* `LoadProofs!ProgramFromFile`, `VromBehindCount`: the first is `LoadedFromFile` for
  `main()` of simplenes, which moves in the file before and after the call. The
  second is about `PPU_load`, from any value of the uninitialised count that
  lies inside `memory[]`: the invariant (`Filling`) says that the count is as far
  from its first value as the file is from its start, less the errors, and that
  each cell between the two holds a byte of the file at most that late. The
  start is `VromStart`, which the invariant relates to the result and the errors of
  the load before (`Positioned`).
* `PpuProofs!AddressInRange`, `HooksImplementPort`: for every page size, number of
  pages and stride. The work is in lemmas on quotients and remainders: stepping an
  address past the end of the VRAM moves the window around.
  `FieldsFillRegister` and `FieldsAreIndependent` are about every value callers
  pass, too large ones included: the assertion of the setter lets exactly those through
  that fit.
* `SimplenesProofs!BusKeepsAddressInRange`, `ShadowsFollowRegisters`,
  `BusImplementsPort`: for every program, every bus whose hooks are
  behind the mirrored memory and at addresses of their own, and any number of
  accesses. Each access calls at most one hook of the PPU (`ReadsCallHook`,
  `WriteCallsHook`), so it is a step of the port or none. The invariant
  (`BusInv`) holds what memory has below the hooks: a register that can be
  written is stored there also, and `MEM_INC`, which reads it there, starts from
  the right value.
* `Simple6502Proofs!TypeCorrect`, `LastRefreshIsRight`. The invariant says that the
  frame buffer has the colours of memory (`PictureIsMemory`), who may draw when
  (`WhoDraws`), and that the last refresh has
  drawn the final picture up to where it is (`LastRefresh`). For every size of
  the screen.
* `Simple6502Proofs!KeyCodeIsGuarded`, `NoKeyHangs`: for every set of keys and any
  number of presses. A key code is that of the last key typed, which is still
  down, or something that changes it, a release or another key, is still in the queue or
  being handled (`CodeIsHeld`); for this a key typed that is in the queue must be
  the last one, and down, or have a change behind it (`QueueInOrder`), and so must the
  one `main()` is about to store (`StoresKey`).

Only model-checked: `TestSucceeds` and `TestsPass`, which are about what the C tests
compute, step by step, and everything about liveness, which the prover does not reach:
`TestEnds`, `LoadEnds`, `NesEnds`, `PictureSettles`, `EventsSeen`, `KeyReadEnds`,
`PowerOnReturns`.

## Not modelled

* Text: the disassembler's output (its modes and assertions are in `Cpu6502`),
  `sfot_memhook_dump`, the messages and the run time (`tv_sub`, `tv_print`) of
  simple6502.
* The random register of simple6502: a read hook with any answer, as the volatile
  register of `cpu_programs`.
* The setting up of SDL and its pixel formats.
* How a file ends inside the screen of simple6502 (the result of `read()` is
  ignored, and the rest is what the stack held), and a file of 0x10000 bytes, whose
  length is cut to 0. `SimpleScreen` starts from a file that reaches the program.
* The smoke test, which compares 1 with 1; the demo script and the makefiles.
* Cycle counts, interrupts, decimal mode, and the report of a stack that runs over or
  under, of which the header of the exception hooks speaks
  (`sfot_hooks_exc.h:7`): the code does not implement them, and the stack pointer
  wraps around its page.

* What sits between the parts: an insertion into a list while the CPU thread looks it
  up (`insert()` links in two assignments, and both machines install before they
  power on), and a power-on or power-off called in a hook.

## Plan

1. `insert()` and `check()` of `memhooks.c` assignment by assignment, in two threads,
   once a machine installs hooks while it runs.
