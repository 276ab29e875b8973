# A TLA+ model of N64Recomp

N64Recomp turns the MIPS machine code of a Nintendo 64 game into C source, or
at run time into native code, that a runtime executes. Beside the recompiler the
repository has an RSP microcode recompiler, mod tools, and a bridge to the
emulator Ares that records what the real machine does so that a recompiled game
can be compared with it.

This directory holds TLA+ models of the parts whose correctness depends on
control flow, order or concurrency, the TLC configurations that check them on
small instances, and TLAPS proofs of what matters most for every instance.

Paths below are relative to the repository; `RC` is `src/recompilation.cpp`,
`RR` is `ares-bridge/src/ares_rsp_ring.cpp`.

## 1. The system

| Component | State it keeps | Operations | What makes it correct | Module |
|---|---|---|---|---|
| Calling convention of the generated C (`src/cgenerator.cpp`, RC, `include/recomp.h`) | `recomp_context`: `tailcall_pending/target/dispatching`, `host_return_target`; the host stack | call, tail call, return, resolve, drain, bubble | control follows the guest's return addresses, the host stack stays bounded, every tail call is carried out | HostCalls |
| Translation of one function (RC `recompile_function_impl`, `process_instruction`) | the labels of pass one; in the emitted C the registers, the dispatch entry, a decided jump | emit each instruction, its delay slot copy, gotos, calls, returns | the emitted function does what the CPU would; it compiles; loops yield | FunctionBody |
| Emission of functions and statics (`src/main.cpp` 1911-2575, RC 62-195, 830-945) | `static_funcs_by_section`, the appended functions, the output file | translate, alias, drop data, stub | the output links: every name is defined exactly once; the work ends | StaticWorklist |
| Function bounds discovery (`src/analysis.cpp` 394-657) | worklist, visited words, register states of the scan | scan, push targets, stop | the size covers what the CPU executes and takes no other function in | FunctionBounds |
| RSP instruction trace (RR) | sliding ring, boot snapshot, `write_idx`, `enabled` | record, get, boot get, switch | the rings answer what an append-only log would | TraceRing |
| Audio-task and output capture (RR) | two rings, the pending capture, `last_pc` | recognise a task, flush, capture, get | each task once, each output under its task's index | AudioTaskRing |
| Call target resolution (RC 25-195, 740-965, `src/main.cpp` 2242-2309, 2523-2577) | sections and their address ranges, the FuncEntry tables; at run time where each section is | choose direct call, static, lookup; call | the function called is the one loaded there, and it is found | CallTargets |
| Relocations (RC 417-569, `src/elf.cpp`) | relocation lists | pair HI16 with LO16, apply | the constants of a moved section are the moved ones | planned |
| Function analysis and jump tables (`src/analysis.cpp` 100-392) | register states, tables; in the emitted C the addend of each `jr` | scan, record, size a table; save the addend, switch | the switch goes where the loaded entry says | JumpTables |
| Static entry seeding, dispatch aliases (`src/main.cpp` 368-1406, 2459-2486) | entries per section, aliases | scan data and code for pointers, add entries | every indirect target has an entry | planned |
| Decompressed sections (`src/decompressed.cpp`, `src/compression`) | fragments, synthesised sections | decompress, place, resolve across sections | bounds, targets across fragments | planned |
| Mod symbol file (`src/mod_symbols.cpp`) | a mod's context | read, write | the reader takes back what the writer wrote | planned |
| RSP recompiler (`RSPRecomp/src/rsp_recomp.cpp`, below `RP`) | overlays, permutations, jump and resume targets; at run time the wrapper's slots, `ctx` | emit functions, jump and resume switches, wrapper; overlay swap, watchdog, next task | the permutation that runs is what IMEM holds, a swap goes on where it left, every task ends | RspUcode |
| Live recompiler (`LiveRecomp/live_generator.cpp`) | labels, pending jumps, the code buffer | emit, finish, patch | as for the C output; every jump is patched | planned |
| TCC backend (`LiveRecomp/tcc_generator.cpp`) | the loaded library, a TCC state per output | load once, compile, own | code lives as long as it may be called | planned |
| Ares bridge lifecycle (`ares-bridge/src/ares_core_glue.cpp`) | `g_state` under one mutex | init, reset, step, read, shutdown | the system is loaded once, and known to be powered on exactly when it is | AresBridge |
| Oracle server (`ares-bridge/server/ares_oracle_server.cpp`) | the accepted connection, its line buffer | accept, receive, carry out a line, send, close, quit | each whole request once, in order, answered; the answers tell where the emulator stands | OracleServer |
| Mod tool, offline mod recompiler, trace replay, smoke test | none over time | straight-line drivers | | no |
| Configuration and symbol files, ELF input, symbol lists, operation tables | none over time | parsing, constant tables | | no |
| Instruction semantics of the emitted C | registers | arithmetic, loads, floating point | 32- and 64-bit results | no |
| Bundled libtcc, build files, engine tests | | | | no |

How they interact. The driver (`main.cpp`) reads the configuration, symbols and
ELF file into one context, finds function bounds and static entries, and works
off the functions. For each it calls the translation, which analyses the
function, resolves its call targets, and appends to the sections' lists the
addresses it wants a function at: the driver reads these lists while they grow.
The emitted C functions interact among themselves and with the runtime through
one shared `recomp_context` and the C stack. The bridge is a library: the oracle
server calls it from the one thread that also runs Ares; Ares calls the ring
hook on every RSP instruction; the API also allows readers on other threads.

Behaviours that are hard to test: a callee's request that several C frames could
answer (calling convention); a goto and its label computed in different passes,
delay slots that run before what they affect (translation); a list that grows
while it is worked off, in an order of its own (driver); a walk whose result
depends on what was reached first (bounds); a slot read while it is overwritten,
recording switched between two instructions, an output captured one task late
(rings); a name bound before it is known what will be loaded (calls); one scan that
ignores the control flow it describes (tables); code replaced while it runs (RSP).
`PROJECT.json` lists each of them under "hazards", at its line.

## 2. The modules

Every module names, in `PROJECT.json` under "map", the lines each definition
translates. A definition called `Faulty...` is never used by a specification: it
is a deliberately wrong variant of the definition it stands before, listed under
"mutants" with the property that fails when it takes that definition's place. It
documents what kind of mistake the property would catch.

### HostCalls: the calling convention

`GuestProgram` is a call graph: functions, call sites, which calls and tail
jumps the guest program has. `GuestCalls` is the abstract specification: a guest
with a stack of return addresses, which calls, tail-jumps and returns.
`HostCalls` is the generated C: `frames` is the host stack, of C functions (each
with the locals `emit_call_prologue` declares at a call site) and of the runtime's
trampolines (`recomp_handle_tailcalls`, which is outside the repository and is
modelled by what the code after each call to it relies on). `pending`, `target`,
`hostReturn` and `dispatching` are the fields of `recomp_context`. One action
each for a local jal, a call, a tail call, the three outcomes of `jr $ra` (a
local label, a host return, any other address), a return through another
register, and the epilogue's outcomes: plain return, resolved here, bubbled,
drained. Abstracted: all other instructions; the stack pointer is the number of
live activations. `MCHostCalls` has the programs.

The refinement mapping is `Guest == INSTANCE GuestCalls WITH at <- GuestAt`:
while C code runs, the guest is in the function on top; while a tail call is
pending, at the target; while a callee returns, at the call site
`host_return_target` names.

### FunctionBody: one translated function

`MipsCode` is the body of a function: words that are ordinary instructions,
branches, `jal`, `jr`, `jalr` or jump tables, with two registers, `$ra` and one
that holds an address elsewhere. `MipsFunction` is the CPU executing it, with
the delay slot after the decision and nullified slots of likely branches.
`FunctionBody` is the emitted C function executing: `at` and `step` say which part
of which instruction's code runs. `Labels` is pass one, `Goto` pass two;
`EnterAt` and `Reject` are the dispatch entry switch; `Transfer`, `DelaySlot`,
`GoHere`, `Call`, `JumpAway` follow the emitters in order, including which of them
read a register before and which after the slot's copy. `RunOff` is the end of the
emitted function. A called function may come back with another `t`. Left out:
syscall and break, `jalr` through another link register, hooks, relocated
sections in `jr $ra`, and what the values compute.

### StaticWorklist: what the driver emits

A program says which places have known functions, reimplemented symbols or data,
what code calls, whose translation fails, what is asked for beforehand, and
whether each function gets its own file. `KnownFunction` is the first pass; then
section by section `Alias`, `DropData` and `StaticFunction` take statics from the
section's list, which `Translate` and `GiveUp` extend; `copies` counts definitions
in the output, `named` collects uses. Abstracted: each place is in one section
(so `resolve_jal` has one candidate), calls never target relocated data, ignored
functions, run-time lookups and strict mode are left out.

### FunctionBounds: where a function ends

The walk of `discover_function_bounds`, one action per kind of word, with the
stack of offsets, the visited words, and the table the scan believes the register
to hold; when it is done the CPU runs the function. One register stands for all
(`table` in the scan, `held` in the CPU), and the several instructions that load
from a table are one. `Coverable` and `Conditional` are the bodies the walk is meant
for. The module's `Bounds...` names leave the short ones to StaticWorklist, with
which it shares a module of proofs.

### CallTargets: which function a call names

`LinkedProgram` is a program of sections: where each is linked, where its symbols
say so, where the game may load it, and the calls between them. `GuestLoader` is
the abstract specification: the game on the console, which loads sections over
each other (not over code that runs) and calls what is in memory. In `CallTargets`
the operators are the recompiler: `Base` infers where a section was linked,
`resolve_jal` chooses, `Requested` follows the calls in order and collects the
static functions they ask for, `StaticFunction` is what the driver makes of one,
and `Entries` the tables the runtime looks functions up in. The actions are the
emitted calls: `CallSymbol` and `CallStatic` are bound to a name, `CallLookup` asks
the runtime, `CallNothing` stops. `Load` and the lookup are external: the runtime's
`section_addresses` follow the game's loads, and a lookup finds an entry of a
loaded section. The refinement is by name: the C function on the stack is the code
the console would be running. Left out: reference symbols and events of mods;
what the functions do, which is FunctionBody's subject.

### JumpTables: the switches a function gets

`TableCode` is a function's words as far as a table is built from them: places
(registers and stack words) that a `lui`, an `addiu`, an `addu`, a move, a load or
something else writes, the labels where control arrives, the section's data in words.
`TableMachine` is the CPU running them to a `jr`. `JumpTables` has the two halves of
the code one after the other: `Scan` is `analyze_instruction` on the next word
(`Scanned` is the new `RegState`, `After` the array of them), `Size` the lengths of the
tables, or the stub; then the emitted C runs from any place where control arrives:
`Load` is the `addiu` that replaces an entry's load, `Addu` saves the addend,
`Switch` and `TailCall` are the two forms of a `jr`. The refinement mapping gives a
place that holds the address of an entry the entry itself. `entries` and `start` are
history. Left out: tables read through the GOT, the ROM's end, delay slots.

### RspUcode: microcodes with overlays

`RspCode` is a microcode: the words of IMEM, the slots that it overlays by DMA,
and what the config adds. `RspMachine` is the RSP: delay slots, links, and a DMA
that replaces the code being run. `RspUcode` is the C++ that RSPRecomp emits,
executing: one function per choice of overlays (`Permutation`, in the order of
`advance_overlay_counter`, selected by `Index`), with a label for each of `Targets`
and a resume switch over `ResumeTargets` and `DelayTargets`; `DmaRead` leaves the
function, `SwapOverlay` is the wrapper's loop, `NextTask` a new call of it. The
refinement mapping gives the RSP's pc and pending transfer at each point of the
emitted code; IMEM is the words of the function that runs. Abstracted: all that
the instructions compute, the vector unit, DMA of data and writes; one register
stands for those that jumps go through.

### TraceRing and AudioTaskRing: the rings of the bridge

`TraceLog` is the abstract specification: an append-only log whose newest
`Capacity` and oldest `BootCapacity` events may be asked for. `TraceRing` is the
hook and the reader, every copy of an event split into stores and loads that
interleave when `SharedThread = FALSE`. `AudioTaskRing` models a machine running
tasks over rotating output buffers, the recognition of a task by the instruction
at offset 0, and `record_audio_task_start` one store at a time: flush of the
pending output, sentinel, payload, index, counter; and the readers of both rings.
`seen` is a history variable: whether recording has ever been off, and whether an
audio task has saved nothing. `g_ring`'s caps on lengths and the first
installation of the hook are left out.

### AresBridge and OracleServer: the emulator over a socket

`AresBridge` is the bridge's entry points as actions that take the status they
return; the emulator is external, three stages of being brought up and a count of
frames. `OracleServer` extends it with the server's one thread and its clients.
`OracleService` is the abstract specification: turns, whole requests, each
carried out once and in order. A line is two pieces, its text and its newline,
which `Recv` may get together or apart; `buf`, `resp` and `at` are the locals of
`serve` and its place in the loops. `Execute` has one command for all that leave the
emulator alone, among them the ring queries, whose answers are TraceRing's and
AudioTaskRing's subject. A client is external: it sends up to `Burst` requests,
reads all their answers, and may leave at any moment, with what it sent last lost
or still arriving. `log` is a history variable. Left out: the wording of requests and
answers, empty or ill-formed lines, the range checks of the arguments, `ares_shutdown`,
which the server never calls, and the entry points only the replay program uses.

## 3. What is checked

| Run | Checks | Shows |
|---|---|---|
| `nested` | TypeOK, HostReturnChain, DepthCounted, HostStackBounded, FollowsGuest, Settles | with direct, register, local and tail calls, a foreign return, and a nesting limit of 1, control follows the guest; `host_return_target` is always what the innermost waiting call saved; tail calls cost no stack; each is carried out |
| `bubbled_recursion` (violation) | NoMismatch | a program that recurses through a tail call at the limit: bubbling abandons an inner frame, and the outer frame that waits for the same return address takes, through the trampoline and `host_return_target`, the return owed to it, with the inner activation's `$sp` |
| `follows` | TypeOK, NoMissingLabel, ReturnsStayLocal, FollowsGuest, LoopsYield | every body of 4 words: the C function implements the CPU, has each label, keeps local returns, yields in loops of branches |
| `closes` | TypeOK, NothingMissing, DefinedOnce, Finishes | 107 784 inputs over two sections: the output links, and the work ends |
| `backward` (violation) | NothingMissing | a static that calls into a section already done asks for a function nobody emits |
| `covers` | TypeOK, Covered, NothingElse | bodies of 6 words, every entry: the discovered size is neither too short nor too long |
| `shared_trace` | TypeOK, RingHoldsWindow, LogSpec | read on the emulator's thread the rings implement the log |
| `audio_tasks` | TypeOK, WholeReads, EveryTaskOnce, OutputOfItsTask, PositionIsIndex | pauses, silent tasks and a reader on another thread: each task is captured once and nothing else is, under its index, with its own output |
| `oracle` | TypeOK, LoadedOnce, FramesAnswered, ServiceSpec, Answered | two connections, resets that fail in both ways, clients that pipeline, leave in mid-line and ask again: the server is the service, its answers account for the emulator's position, and a client that stays is answered |
| `calls` | TypeOK, FollowsLoader, AlwaysFound | a main section, two overlays sharing their memory and a relocatable section, loaded in any order: a call bound by `resolve_jal` runs the code that is in memory, and stops the host only at an address no table lists |
| `tables` | TypeOK, FollowsCpu | every chain of six words over three places, with copies, second offsets and addends, calls and labels between them, and two tables side by side: each emitted switch has a case, and goes where the CPU goes |
| `overlays` | UcodeTypeOK, FollowsRsp, NeverLost, TaskEnds | 245 microcodes with two slots, of two and three overlays, over two tasks: the emitted functions execute what the RSP would, no swap loses its way, and each task returns |

### What the properties are limited to

A passing run states its limits as predicates on the input or the history; each
was met as a counterexample first. What happens beyond them:

| Limit | Beyond it | To see it |
|---|---|---|
| no recursion at the nesting limit (`nested`; `NotRecursive` in the theorems) | `bubbled_recursion`. Below the limit the same program is followed (`FollowsUnbubbled`, `FollowsShallow`) | `HostCallsBubbled.cfg` with `DepthLimit = 8`, `MaxDepth = 10` and `FollowsGuest` holds; with `DepthLimit = 2` the first mismatch needs `MaxDepth = 6` |
| no callee that jumps back into its caller's function (`nested`; `NeverReenters` in the theorems) | its return to a label of its own C function leaves the outer host frame behind | `Calls <- ReentrantCalls`, `Tails <- ReentrantTails` |
| `KeepsTarget`: no slot writes what its jump still reads, or the `$ra` a call gives | a jump or call through a register is emitted after the copy of the slot (RC 697, 718), so control goes to the value the slot has written | FollowsGuest with `Codes <- AllBodies`, `TValues = {6, 7}` |
| `EndIsFollowed`: control past the last word finds a function | the C function returns as if the guest had (RC 1708) | `Codes <- AllBodies` |
| `OnlyBranchesLoop` in LoopsYield | a loop closed by a jump table, a `jal` into the function or a local `jr $ra` never passes a checkpoint, against `include/recomp.h` 658-660 | drop the antecedent of LoopsYield |
| `Forward`: statics call forward | `backward` | |
| `Forward`: with a file for each function no alias is needed | the first alias is written while no file is open (`main.cpp` 2281 before 2290) | `Programs <- AliasPrograms` |
| `Conditional`: no unconditional branch (`covers`) | after an unconditional branch the walk goes on into the next function (`analysis.cpp` 617) | `Branches <- BothBranches` |
| `Coverable`, of it `SlotsAside`: no transfer to a delay slot | the slot counts as visited without having been decoded (`analysis.cpp` 620), and what follows it is not walked | `Codes <- SlotTargetBodies` |
| `InScan`: no table loaded in a slot | the scan skips slots, the table's arms are not walked (`analysis.cpp` 641) | `Codes <- SlotLoadBodies`, `Slots <- LoadSlots` |
| `TablesFirst`: the places of a table that are in the body come first | the table is read up to the first entry outside (`analysis.cpp` 413-419); a case after it is not walked | `Table1 == <<N - 2, Nowhere, N>>`, `Codes <- JumpBodies` |
| `JumpsLeave`: every `j` leaves the function | the target of a `j` is never walked (`analysis.cpp` 608-613) | `Codes <- JumpBodies`, `Jumps <- NearJumps`, `Branches <- FarBranches`, `Straight <- OnlyPlain`, `N = 9` |
| `InBlock`: a `jr`'s register is set in the `jr`'s block | a scan starts with fresh registers and stops at the first word seen before, so the table may not be recognised (`analysis.cpp` 469) | |
| reader on the emulator's thread (`shared_trace`) or copying the index last (`audio_tasks`) | a copy mixing two events passes the sequence check (RR 375, 412) | WholeReads in `TraceRingShared.cfg` with `SharedThread = FALSE`; `CopyOrders <- IndexFirst` in `AudioTask.cfg` |
| recording has stayed on (EveryTaskOnce, OutputOfItsTask) | a pause right after a task's first instruction hides the next task; an output pending over a pause is read after later tasks have overwritten it | drop `~seen.paused` |
| each audio task saves something (PositionIsIndex) | a task without a save writes no output (RR 155); every later output stands one position before its index, and the query, which relies on "exactly one event per audio task" (RR 430-432), refuses it | drop `~seen.silent` |
| the cartridge port is found (LoadedOnce) | a reset that fails there leaves the system loaded and unrecorded, and the next loads it again, against the comment at `ares_core_glue.cpp` 467-468 | `LoadedOnce` as `~loadedTwice` |
| unread answers fit into the socket buffers (Answered) | the server waits in `send`, the client in its own `send`, and every other client with them | `Burst = 3`, `MaxRequests = 3`, `SendCapacity = 1`, `RecvCapacity = 1` |
| `Unambiguous`: an address that sections share has a symbol in none of them or in two (`calls`) | the only symbol is bound, whatever is loaded there, against RC 114-115 ("always safe to name directly") | FollowsLoader with `Programs <- AllPrograms` |
| `Consistent`: a function ends with its section (`calls`) | a static in the section's other window is taken for a part of a function that reaches into it (`main.cpp` 145-156 compares addresses only) | |
| `Consistent`: a section's two windows are not adjacent (`calls`) | the static at the end of the linked window is decoded one word past its section (`main.cpp` 2246 compares with `<=`, RC 152-155 with `<`) | TypeOK with `RamOfR <- AdjacentWindows`, `Programs <- AllPrograms` |
| `Listed`: every section at the address has a function or a static there (AlwaysFound) | an address shared without a symbol is looked up, but nobody asks for its static: the lookup stops the host (RC 156-158); with a lookup at every call, so does an address that no section holds when it is linked | drop `Listed` |
| `Usual`: no label between a table's `lui` and its `jr` (`tables`) | the scan is linear, "it'll work for finding jtables" (`analysis.cpp` 318): control that arrives there finds another addend, or none assigned | drop the conjunct on labels |
| `Usual`: a table's register is not changed by a call or through another pointer | neither touches the scan's states, so a stale `lui` is believed | drop the conjunct on "unseen" |
| `Usual`: one addend for a table | an `addu` on top of an `addu` replaces the first addend; the switch is over the second only | drop the conjunct on `Base` |
| `Usual`: one table for an `addu` | only the first table found gets the addend (RC 1101): the other `jr`'s variable is not declared and the C does not compile (the model gives it any value) | drop `u.addu = t.addu => u = t` |
| `Usual`: an entry is only jumped to | its load is an `addiu`, so what else reads the register gets the entry's address | drop the conjunct on `Reads` |
| `Checked`: an index past the last case names no entry | the switch ends at the next table or the first word that is no address of the function; `switch_error` stops the host | drop `Checked` |
| `Sized`: every table begins in a place of its own | of two `jr` over one table the first gets no entry, and the function becomes a stub (`analysis.cpp` 383) | |
| `StartsWithFirst`: the text holds overlay 0 of each slot (`overlays`) | the wrapper starts with `slots[] = {0}` (RP 1135), so a first swap of another slot runs overlay 0 | |
| `FillsSlots`: a slot's overlays have one size and lie in the text | what the RSP keeps of a longer overlay comes from the text; past the text `std::copy` writes beyond the words it has counted (RP 1151), against RP 1026-1028 ("one fully-resolved instruction image") | |
| `KeepsSlots`: a DMA in a delay slot has the same transfer in every permutation | the swap goes on in the other transfer, or the emitted code lacks the label and does not compile | |
| `Translatable`: linking branches are always taken | `bgezal` and `bltzal` link inside the `if`, the RSP links either way | |
| `KeepsAddresses` (NeverLost): an address that is loaded or linked stays in every permutation | it is a jump target of the permutation that contains it only: after a swap the jump ends the task as unhandled | drop the antecedent of NeverLost |

### Bounds and why they are enough

- HostCalls: five functions, six call sites, at most 7 guest activations
  (`MaxDepth` in the guard of a call). A second trampoline is already beyond the
  limit of 1, so bubbling over one and over several waiting frames both happen;
  the code's limit of 64 changes when, not how.
- FunctionBody: 4 words hold two transfers with their slots, one inside the
  reach of the other, and a label on every word; addresses before, in, just after
  and beyond the function, resolved and unresolved ones.
- StaticWorklist: two sections of two places give calls within a section,
  forward and backward; a static that asks for another, and one that is a part
  of a known function. More places only lengthen chains.
- FunctionBounds: 6 words hold a load, a `jr`, and two arms at the end, or three
  transfers with slots in any order of visits. A word that the analysis rejects
  is tried in one place only; tables have two entries or an invalid one.
- The rings: capacity 2 wraps twice within 6 instructions or 4 tasks, with the
  window full, one short and overwritten; buffers rotate over 2.
- OracleServer: two connections, since nothing outlives a connection but the
  emulator and, wrongly, a buffer; two requests each, the second pipelined or not.
  Three pieces between client and server are the least for which one `recv`
  completes two lines; two answers are as many as a client leaves unread
  (`Burst = 2`). `FrameCap = 2` stands for 600, with a command that asks for more.
- CallTargets: two sections that overlap and one that moves are the least for
  which a name can be wrong; each has at most two symbols, so that none, one or two
  sections know an address, and the kinds of symbol all occur. Four call sites,
  one of each origin, run in any order, with names or with a lookup at every call; three functions deep is enough for a
  call out of an overlay to be under way while another is loaded.
- JumpTables: three places are the base, the index and a copy of either (two registers
  and a stack word); six words hold a chain and one word too many anywhere in it;
  indices 0 to 2 lie before, on and past the end of tables of two entries, with the
  offset in the `addiu` or in the load. `CONSTRAINT Followed` keeps the functions to
  which FollowsCpu applies; that TypeOK holds for all is proved.
- RspUcode: two slots of different numbers of overlays, since the wrapper's index
  weighs them; seven words hold a swap before, in and after a transfer, and its
  target in an overlay. The watchdog's 4 stands for 100000000, reached by every
  loop; the second task finds the first one's registers.
- Bounds on counters (`MaxInstr`, `MaxTasks`, `MaxDepth`) stand in guards, so
  liveness is checked on complete behaviours. Deadlock is checked for HostCalls,
  where only a finished thread may stop (`Done`); in the others the program
  itself ends, or the bound ends it.

### Fairness

Only weak fairness, on code that a single thread runs without waiting: the
generated C code between guest decisions (`WF_vars(HostStep)`), the emitted
function (`WF_vars(Next)` in FunctionBody), the driver (`WF_vars(Next)` in
StaticWorklist), the functions emitted for a microcode (`WF_ucodeVars(UcodeNext)` in RspUcode) and the oracle server's
thread (`WF_vars(ServerStep)`, where `Send` and `Recv` are disabled while they
block). Nothing is assumed of the guest's choices, of the rings' readers, or of
which branch of a condition is taken. Of an oracle client it is assumed that it
goes on talking and goes when it has all its answers: the server itself waits for a
silent client for ever, and the next client with it (one connection at a time by
design, `ares_oracle_server.cpp` 64-67).

## 4. What is proved

Eight modules state theorems, checked by TLAPS for every value of the constants
that satisfies the modules' named assumptions.

- **HostCallsProofs.** For every program, depth and nesting limit:
  `TypeCorrect`, `ReturnTargetsChain` (HostReturnChain) and `DepthBounded`
  (DepthCounted). HostReturnChain is not inductive by itself: a return hands
  control to a frame whose shape must be known. `IInv` adds the shape of the host
  stack (the thread's trampoline at the bottom, only bodies run, a waiting body
  has a frame of its own, a trampoline returns what it found) and of the guest's
  return stack. Each action is one of five changes of the host stack (push a body, push a
  trampoline, pop a running or waiting frame, resume), each with a lemma.
  `FollowsUntilMismatch`: as long as no return is taken by a frame it was not meant
  for, the generated C follows the guest, for every program. Its invariant pairs each
  waiting frame with an activation of the guest (`Waits`, `Keeps`, `Owned`), in order.
  `StackBounded` (HostStackBounded) for every program in which no callee comes back into
  its caller's function while that waits (`NeverReenters`): then waiting frames and
  activations alternate (`Activations`). `NeverMismatches` and `Follows` (FollowsGuest)
  for every program that is not recursive (`NotRecursive`): the functions of the
  waiting frames are distinct (`Ancestry`), so the frame a return is owed to (`Due`) is
  the only one with its address. A recursive program under `NeverReenters` is followed
  too: `NeverMismatchesUnbubbled` and `FollowsUnbubbled` for every execution in which no
  tail call is bubbled up, and `FollowsShallow` wherever its calls nest no deeper than
  one more than the limit (`Shallow`: 65 live activations under the code's limit of 64,
  `cgenerator.cpp` 429-440). A frame abandoned by bubbling is what makes an outer
  activation of the same function look like the inner one; without it, what executes was
  entered from the innermost waiting call (`Close`), so it is not that call's own
  function, and `Told`, which both arguments feed into `DueStep`, still holds. `Shallow`
  excludes bubbling because each trampoline stands on a waiting frame of an activation
  of its own (`ShallowNeverBubbles`).
- **RspProofs.** The RSP's instruction trace (TraceRing), for every capacity, snapshot
  size and length: `TypeCorrect`, `WindowHeld` (RingHoldsWindow) and `ImplementsLog`:
  under `SharedThread` the rings implement `TraceLog`. `IInv` says which events are in
  their slots while one is being copied in (`SlotsWritten`, `HookWrites`), and that
  what a reader has copied is still in the slot (`ReaderCopies`). The arithmetic,
  that two events of one window never share a slot, is `SlotsDiffer`.
  The recompiled microcode (RspUcode), for any number of slots, overlays, words and
  tasks: `UcodeTypesHold`, `FollowsTheRsp` (FollowsRsp), if every microcode is `Followed`,
  and `FindsItsWay` (NeverLost), whose property carries its hypotheses itself. `Good`
  says that the code that runs is the image of the overlays noted (`Patched`), that
  between a transfer and its target the transfer is still in that image, and that
  the wrapper is only entered from a DMA that it finds again. What keeps it over a
  swap is arithmetic: the wrapper computes a number, the recompiler counts (`Nth`)
  with `advance_overlay_counter`. The slots after one add less than its weight
  (`Beyond`), so different choices have different indices (`IndexInjective`) and the next
  choice has the next index (`AdvancedIs`): `PermutationIs`. That an image with one
  slot exchanged is what the DMA leaves in IMEM is `LoadChooses`. `Known` adds for
  NeverLost that every address in a register or under way comes from a link or an
  `li` of the text.
- **AudioTaskRingProofs.** For every capacity, number of tasks and buffers, and for
  readers on another thread: `TypeCorrect`, `OnceEach` (EveryTaskOnce), `OutputRight`
  (OutputOfItsTask), `PositionsHold` (PositionIsIndex). `Invariance` has two layers:
  what the writer has published and what it is in the middle of publishing
  (`WriterInvariance`), and on top of it what each reader has copied so far.
  `ReadsWhole` (WholeReads) needs the hypothesis `IndexLastOrShared` that the run has:
  the reader is on the emulator's thread, or copies the index last.
- **FunctionBodyProofs.** For every body, set of entries and requested statics:
  `TypeCorrect`, `LabelsEmitted` (NoMissingLabel), `LocalReturns`
  (ReturnsStayLocal), from `IInv`, which adds that a decided jump is one of the
  instruction's own targets. `Refinement`: when every body satisfies
  `KeepsTarget` and `EndIsFollowed` (`Followable`), the emitted function implements
  the CPU. Its `RInv` adds that a call's link register still holds the link when
  control leaves, and that the end is only reached where it falls through.
- **WorklistProofs.** The recompiler's two worklists. The statics to emit
  (StaticWorklist), for every set of sections and inputs: `TypeCorrect`;
  `EmittedOnce` (DefinedOnce), with the invariant that what is not yet handled is
  not yet defined; and `Closed`: if every input is `Forward`, NothingMissing.
  Its invariant accounts for every name in use: it is a known function's, or its
  static is asked for and not left behind in a section already done.
  The words to scan (FunctionBounds), for bodies of any length, over every
  instruction, from every entry: `BoundsTypesHold`; `WalkCovers` (Covered), if every
  body is `Coverable`; `WalkTakesNothingElse` (NothingElse), if it is `Conditional`.
  `CoverInv` is the closure of a worklist algorithm, with two complications. A slot
  counts as visited without having been decoded, so closure is claimed of the
  `Scanned` words only (`Sees`: their successors have been visited, wait on the stack
  or are under the cursor), and that the entry is decoded before it could be taken
  for a slot is a conjunct of its own (`Starts`). And what follows a `jr` depends on
  data: in the block that sets the register, the scan's belief (`Believed`) and the
  register itself (`Holds`) are both what that block is given, the empty table when
  the function is entered behind the load. `WalkWithin` is the converse: the walk
  stays inside every set of words closed under control flow.
- **OracleServerProofs.** For any number of connections and requests, any buffer
  sizes and backlog: `TypeCorrect`, `PoweredCorrect` (LoadedIsPowered), `LoadCorrect`
  (LoadedOnce) and `ServiceImplemented` (ServiceSpec). That a line in the buffer is the
  next request of the connection being served is not in the state's shape: `Streams`
  says that what is buffered, followed by what is still in the socket, is the stretch
  of the client's stream after the requests carried out, all of it while the
  client is there; `Answers` the same of the answers. The four things that happen to
  a stretch (some of it is received, a line is taken off, a piece is sent, the rest
  is left behind) are lemmas about sequences (`Moved`, `TakenOff`, `SentOn`,
  `LeftBehind`). `Queue`, that no connection waits twice or while it is served, is
  what the end of a turn needs. `FramesAccounted` (FramesAnswered): the frames of the
  answers since the last reset add up to the emulator's position. The property is a
  fold over the log; the invariant `Account` says that there is a table of partial sums
  that ends in the position, and `AnsweredIsSum` that the fold agrees with any such
  table. Where the fold starts (the last reset) is found with `LeastNat`.
- **CallTargetsProofs.** For programs of any size, with any sections, symbols and calls:
  `TypeCorrect`, if every program is `Consistent`; `CallsFollowLoader` (FollowsLoader), if
  every program is `Linked`; and `CallsFound` (AlwaysFound), whose property carries these
  hypotheses itself. `ResolveCases` is `resolve_jal` case by case, `Chosen` what its
  cases have in common: the section whose code is named holds the address. The two
  invariants are small (`AtHome`: sections are only where the game loads them;
  `InMemory`: a section with a running function has not been loaded over); the work
  is `BoundRight`: if the call can be made at all, the section named is the one that is
  loaded, and the address is the one linked, moved as far as the section. Two
  hypotheses were too weak, and were found so by these proofs: `Consistent` let a
  function reach past its section into the section's other window, and `Listed` let
  a program that looks up every call go to an address no section holds.
- **JumpTablesProofs.** For every function, number of places and set of values:
  `TypeCorrect`, and `Follows`: as long as the function is `Followed`, the emitted C
  implements the CPU (FollowsCpu). `IInv` is about the scan: what a `RegState` says
  of the words before it (`Known`: an addend's `addu` had one base and one index, a
  loaded state's `lw` had a base with an addend), and that the tables are those of the
  words before it (`Found`), from which a table's parts and their order follow
  (`TableShape`). `RInv` ties it to a run: of every place whose state goes back to a
  table's `lui` that the run has passed, the value is the sum the scan believes, and the
  addend put aside is the one in it (`Finds`). A run that passed the `lui` has come
  straight down since, which is where `Usual` is needed; what each operation leaves in
  the place it writes is a lemma of its own.

The theorems rest on the modules' ASSUMEs only (checked by TLC in the runs),
and where stated on the hypothesis in the theorem. Runs and theorems name the
same definitions.

Only model-checked: all liveness (Settles, LoopsYield, Finishes, TaskEnds, Answered),
which is out of the prover's reach. Of a recursive program that does bubble a tail call
nothing is claimed: `bubbled_recursion` shows one that goes wrong. Induction over data is available in one form
only, the least element of a set of numbers (`LeastNat`), since the library's induction
theorems take operators as parameters: where a property is about a recursive function
or a fold, the proof carries its value along as an invariant.

## 5. What is not modelled, and the plan

Not planned: straight-line drivers and parsers (offline mod recompiler, trace
replay, smoke test, configuration, ELF symbols), constant tables, third-party
code. They have no behaviour over time. Instruction semantics are a question of
widths and values rather than of order; the register-width part may become
operators checked against a reference (`Operations`).

Modules to come, the most important first. Each is meant to be proved about as
well: constants with named assumptions, one action per operation, no RECURSIVE
operator.

1. `DispatchAliases`: static entry seeding, interior aliases, and the wrapper
   that sets and restores a dispatch entry; composed with FunctionBody's `EnterAt`.
2. `Relocations`: pairing of HI16 and LO16 and the relocated constants, as
   functions checked against the linker's definition over bounded lists; with it
   the mod tool's `build_mod_context`.
3. `Fragments`: synthesis of decompressed sections.
4. `LiveLabels`, `TccBackend`, `ModSymbols`.

Two modelled parts are still apart: StaticWorklist takes what `resolve_jal` finds as
given, CallTargets computes it; FunctionBody and FunctionBounds take a function's
tables as given, JumpTables finds them.

Most of the repository's lines are the Windows headers that come with libtcc
(`lib/tcc/include/winapi`) and other third-party code: no part of the program's logic,
and nothing a model could say about them.

The number of configurations is kept small on purpose: a new module's run takes
the place of a violation run whose question the table of limits answers.

## 6. Running

    tlc -config HostCallsNested.cfg MCHostCalls
    tlapm WorklistProofs.tla

`PROJECT.json` lists each run with its module and configuration.
