# A TLA+ model of urvirt

urvirt runs a RISC-V supervisor-mode kernel as a Linux user process.  The guest
executes directly; whatever it cannot do as a user process arrives as a signal,
and one signal handler emulates it.  This directory holds a TLA+ model of that
handler and of the parts around it, the TLC runs that check the model on small
instances, and TLAPS proofs of the main properties for every instance.

Source paths below are relative to the root of the repository.

## 1. Inventory

| Part | State | Operations | Source |
|---|---|---|---|
| emulated hart | `struct priv_state`: mode, CSRs, block device registers, `should_clear_vm`; the guest's pc in the signal frame | `read_csr`, `write_csr`, `handle_priv_instr` (sfence.vma, wfi, sret, CSR instructions), `enter_trap`, `initialize_priv` | `src/urvirt-stub/riscv-priv.c`, `src/common/riscv-bits.h` |
| signal handler | none of its own; `CONFIG_FD` is mapped on entry and unmapped at the end | SIGSYS, SIGILL, SIGALRM, SIGSEGV; then the interrupt check and the unmapping | `src/urvirt-stub/urvirt-stub.c` |
| page faults | the host's memory map, used as a TLB; the guest's page tables in RAM | `handle_page_fault`, `lookup_pa` | `src/urvirt-stub/riscv-priv.c` |
| block device | block id and buffer registers, the file behind `BLOCK_FD` | stores to three registers, read and write command | `src/urvirt-stub/riscv-priv.c`, `urvirt-block.h` |
| SBI | the POSIX timer, `sip.STIP` | set_timer, putchar, getchar, shutdown | `src/urvirt-stub/handle-sbi.c` |
| seccomp filter | twelve BPF instructions | run by the kernel at each `ecall` | `src/urvirt-stub/seccomp-bpf.c` |
| start-up | maps, signal handlers, the timer, RAM, the kernel image | `entrypoint`, `entrypoint_1` | `src/urvirt-stub/urvirt-stub.c` |
| loader | four file descriptors, the configuration | `main` | `src/urvirt-loader/urvirt-loader.c` |
| test kernel | the smallest guest: a loop in U-mode and a trap handler | `kernel_main`, `umode`, `stvec` | `src/test-kernel/test-kernel.c` |

Not part of the core logic: `printf.c` (vendored), the system call wrappers, the
build files.

**How the parts interact.**  The guest's `ecall` goes through the seccomp filter,
which lets the stub's own system calls through and turns the others into SIGSYS.
SIGSYS becomes an SBI call (S-mode) or a trap (U-mode).  A privileged instruction
is SIGILL, and is emulated in S-mode.  A memory access that the host has not mapped
is SIGSEGV: the handler walks the guest's tables and maps the page, raises the
guest's page fault, or emulates a store to the block device.  The timer armed by
`sbi_set_timer` is SIGALRM, which sets `sip.STIP`.  After each of these the handler
takes the timer interrupt when it is due and, if something set `should_clear_vm`,
unmaps everything except the stub.  Before all this, the loader passes four files
to the stub under fixed descriptor numbers and calls it; the stub unmaps the loader,
gets itself a stack, maps RAM, copies the kernel, installs the filter and jumps.

**What is hard here.**

- *Order within one handler.*  An exception, an emulated instruction and an
  interrupt can meet in one signal; `sepc` must be right for each combination, and
  SIGSYS and SIGILL disagree about the pc.
- *A cache without invalidation messages.*  The memory map caches the guest's
  tables; correctness rests on flushing at sfence.vma, satp writes and mode changes.
- *A timer that races the handler.*  It expires between the steps of
  `sbi_set_timer`; only the SIGALRM mask keeps them apart.
- *Decoding.*  What a SIGSEGV was about is guessed from the instruction at the pc,
  read through the guest's own mapping.
- *A start that removes its own ground.*  `entrypoint` unmaps everything around it,
  the stack it was called on included, and finds its configuration through a mapping
  that the kernel may have put on either side; no system call but `seccomp` is
  checked, and the loader's descriptors may collide with inherited ones.
- *Tables are data.*  The walk reads whatever the guest left in RAM.
- *Edges.*  Unsigned wrap of the timer interval, the interrupt bit in the vectored
  target, 64-bit comparisons out of 32-bit ones, the two ends of the stub,
  instructions across a page boundary.

**What makes each part correct.**  Traps are precise and can be returned from; an
enabled interrupt is taken; an emulated instruction happens once; what is mapped is
what the tables say; the stub is never unmapped; every fault gets an answer; the
device moves data through the guest's tables; no wake-up is lost or late forever, and
none is early but for one leftover signal; the filter allows exactly the stub; the walk is that of Sv39; a guest starts
in the state its documentation promises, or not at all.  `PROJECT.json` lists the hazards at
their lines with the properties that cover them.

## 2. Plan

| Order | Module | What | State |
|---|---|---|---|
| 1 | `InsnDecode`, `RiscvPriv` | decoding and the hart as operators | done |
| 2 | `UrvirtStub` | guest, handler, memory map, timer signal, block device | done |
| 3 | `SoftTlb` | abstract TLB that `UrvirtStub` implements | done |
| 4 | `UrvirtStub_proofs`, `UrvirtTlb_proofs` | invariants and refinement | done |
| 5 | `SbiTimer`, `SbiTimer_proofs` | `sbi_set_timer` step by step | done |
| 6 | `SeccompFilter`, `SeccompFilter_proofs` | the BPF program | done |
| 7 | `DocClaims` | sentences of the documentation the code does not keep | done |
| 8 | `Sv39Walk`, `Sv39Walk_proofs` | the three-level walk over words of RAM, against the definition of Sv39 | done |
| 9 | `Boot` | the loader, `entrypoint`, `entrypoint_1`, ending in `UrvirtStub!Init` and composed with it | done |
| 10 | `TestKernel` | the repository's own guest on `UrvirtStub` | done |
| 11 | `Boot_proofs` | the start for every layout; with it `UrvirtStub`'s invariants hold after every boot | done |
| 12 | `UrvirtSteps_proofs` | `UserTrapPrecise`, `EmulatedOnce`, `FaultAnswered`, `AllowedAccess`, `DmaThroughTables` | done |
| 13 | `SbiDeadline` | the abstract timer with one deadline that `SbiTimer` implements | done |
| 14 | the step properties of `UrvirtStub` for a guest that was booted; which files and sizes make the start fail, the safety part of `Starts` | | to do |

## 3. The modules

**`InsnDecode`** - an instruction is the record of the fields the code looks at.
`segv_scause` is the if-chain of the SIGSEGV branch; `decode_sd` returns the *set* of
values the C function may return, because control runs off its end for a 32-bit
non-STORE; `lowest_bit_set` is what `(*pc) & 0b11 == 0b11` means in C.  `IsLoad`,
`IsStore`, `InsnLength` are the ISA's own reading: they say which accesses the
*hardware* makes, the code's reading says what the handler believes.

**`RiscvPriv`** - a hart is `struct priv_state` with the pc slot of the signal frame.
Each C function that mutates them is an operator from hart to hart with the same
name.  `sstatus`, `sie`, `sip` are sets of bit names, other CSRs words modulo
`WordSize` (2^64 in the code), `satp` a record.  The types are those of the CSRs as they
are kept: read-only bits stay as they were (`Sstatus`, `Six`), `stvec` has no reserved
mode (`Stvec`).  `Vector` is the architecture's trap target, written apart from
`trap_target` so that the properties do not compare the code with itself.  General registers are not kept: the
guest is free to do anything next, so what it reads cannot restrict it.  For csrrs
and csrrc on a word-valued CSR the operand stands for the resulting word.

**`UrvirtStub`** - the running system.  The process has one thread and every handler
masks SIGALRM, so a signal with its complete handling is one action.

| Variable | Code |
|---|---|
| `hart` | `struct priv_state` in `CONFIG_FD`, and the guest's pc |
| `vm` | the host's memory map while the guest runs, per page |
| `pt` | the guest's page tables, as what `lookup_pa_in_ram` returns per root and page |
| `ram`, `disk` | contents of RAM pages and of blocks |
| `timer`, `alarm` | the POSIX timer is armed; SIGALRM is pending |
| `status` | running, exited, the signal in whose handler the process ended, or a state that is not followed further |
| `dirty` | history: table entries written since the last fence event |

| Actions | Code |
|---|---|
| `EcallFromUser`, `SbiPlain`, `SbiGetcharFails`, `SbiShutdown`, `SbiSetTimer` | SIGSYS, `handle_legacy_sbi_call` |
| `IllegalInUser`, `CannotEmulate`, `UnreadableInsn`, `SfenceVma`, `Wfi`, `Sret`, `CsrInstr`, `UnimplementedCsr` | SIGILL, `handle_priv_instr` |
| `TimerExpires`, `Sigalrm` | the host timer, SIGALRM |
| `SegvFetch`, `SegvSecondHalf`, `SegvData` | SIGSEGV, `handle_page_fault` with `MapPage`, `Mmio`, `MmioStore`, `block_command` |
| `GuestJump`, `GuestWritePte`, `GuestStore` | the guest between two signals |

`Return` is the common end of the handler (interrupt check, unmapping).  `ebreak`
ends the process, because SIGTRAP has no handler; so does a SIGSEGV inside the
SIGSEGV handler.  A SIGSEGV inside the *SIGILL* handler is handled once more by the
same function on the handler's own frame; that state is recorded as "derailed" and
not followed.

A block command hands the guest's buffer address to `pread64` or `pwrite64`, which use the
host's map as it is at that moment.  The handler's own mapping of `CONFIG_FD` is part of
it, on any free page: a buffer that the host has not mapped may lie there.  A write then
puts `priv_state` on the disk as if it were the guest's page; a read overwrites the CSRs,
which is recorded as "corrupted" and not followed.  The file offset is computed in a word:
a large block id wraps onto another block (`block_offset`), and an offset that is negative
as an `off_t` is refused (`Offset`).  A result of the call is not looked at.

**`SoftTlb`** - what the documentation promises ("we're using the Linux memory
management system calls as a TLB"): a cached translation comes from the table of the
context in force, and the context changes only with a flush.  `UrvirtStub` maps its
memory map to the cache, `satp` to the address space and `priv_mode` to the mode.

**`SbiTimer`** - `sbi_set_timer` in four steps (entry, read the time, arm the timer,
set `sip`), with a clock that ticks and a timer that expires between any of them.
The `time` CSR counts ticks and the host timer nanoseconds.  The code takes a tick for
1000 ns; what it really takes is `TickNs`, which the code cannot know.  `DropStale` says
whether `timer_settime` discards a signal that is already queued: Linux does so since
6.13, the kernels of urvirt's time do not, so it is FALSE in the runs.  The guest also
writes `sip.STIP` by itself (`GuestSip`).  History variables remember a signal that an
earlier deadline left behind (`kept`, `stale`), that the guest has written `STIP`
(`written`), and mark each call and each such write (`acts`), so that the refinement
below can tell a signal from what the guest does.

**`SbiDeadline`** - what the guest is promised of the timer, with no host timer, signal
or handler in it: the deadline is that of the last call, `STIP` is raised at some time
after it and stays until the next call or until the guest writes it.  It says of early
wake-ups exactly what the code can promise: a call whose predecessor's deadline had passed
may leave one signal (`stale`) that raises `STIP` once, whatever the new deadline.
`SbiTimer` implements it, its steps `Call`, `ReadTime` and `SetTime` being invisible.

**`SeccompFilter`** - the program `gen_addr_filter` emits, jump offsets and all, run
by a BPF interpreter (external, modelled from the semantics the code relies on).

**`Sv39Walk`** - `lookup_pa_in_ram` as a loop over `level` and `pt_addr`, one action
per branch; RAM is a function from pages and indices to entries with arbitrary
contents, addresses are page numbers (the offset is copied through).  Below it is
Sv39 as the architecture defines it (`Sv39Level0` to `Sv39Level2`, `Canonical`), written
without looking at the code, and `Answer(mode, right)`, what `handle_page_fault` makes of
an outcome: a page fault, a frame of RAM, a page outside RAM whose rights it does not
look at, or `ebreak`, which is also what S-mode gets when a page of RAM denies the access.
`Agrees` relates it to the answer of Sv39.  `UrvirtStub` uses only the outcome per page
(`lookup_pa`).  The code tells bare mode by an entry of zero, the models by the kind of
the outcome; the two are the same because an accepted leaf has V set.

**`Boot`** - composes the start with the running system: it extends `UrvirtStub`, its
variables are those and the ones of the start, and after `Jump` the steps are
`UrvirtStub!Next`.

| Variable | Code |
|---|---|
| `host` | arguments, which files open, the kernel's pages, inherited descriptors, whether seccomp accepts |
| `fd` | the descriptor table: which file is behind each number |
| `cfg`, `conf` | `struct urvirt_config`, and the page it is mapped at |
| `image`, `copied` | the mapped kernel file and the progress of the copy |
| `step` | where `main`, `entrypoint` or `entrypoint_1` is |

`mmap` without an address takes any free page of `MmapArea`; the descriptor operations
are the kernel's (lowest free number, `dup2` replacing silently).  A fault during the
copy finds the handler installed and `satp` zero, so it ends in `ebreak`.

**`TestKernel`** - the signals of `src/test-kernel` in program order, as a guest of
`UrvirtStub`.

**`DocClaims`** - claims of the documentation, each refuted by a run.

**`MCUrvirt`**, `MCSv39Walk`, `MCBoot`, `MCTestKernel` - the instances of the runs.  An operator named `..._mutant` is the
definition after it with a plausible bug; replacing the definition by it makes a
property fail, which shows that the property notices.

## 4. The runs

Words have 8 bits and pages 32 bytes; there are 3 to 5 virtual pages with the stub on
page 2, one or two pages of RAM, and one or two page tables.  All page and address
arithmetic is the code's, so the small sizes keep every boundary: an address just
below a page, the first and the last page of the space, a word that wraps.

| Run | Guest | Shows |
|---|---|---|
| `traps` | one page of code; all SBI calls, all privileged instructions, direct and vectored `stvec`, timer at any time | `TypeOK`, `InterruptTaken`, `TrapReturns`, `UserTrapPrecise`, `EmulatedOnce` |
| `paging` | changes the entries of its code page and a data page at will (valid, execute-only, read-only, invalid, broken); 16- and 32-bit accesses; code at the end of a page | `StubIntact`, `NoStaleMapping`, `DerailedOnlyUnfenced`, `FaultAnswered`, `AllowedAccess` |
| `spaces` | two tables, an unusable one and bare mode; S and U | `TlbImplemented` |
| `block` | both commands, by sd, sw and c.sd; buffers on the code page and on a page that is mapped to either frame, remapped or left unmapped between the steps; block ids 1, 2, 98 and 100, whose offsets at 32 bytes a block are 32, 64, wrapped 64 again, and negative | `DmaThroughTables`, `FaultAnswered` |
| `timer` | deadlines in the past, now and ahead, repeated calls, the guest's own writes of `STIP`; ticks of 400 ns, and a kernel that keeps a queued SIGALRM | `WakeupNotLost`, `DeadlineKept`, `DeadlineHonoured` |
| `seccomp` | all ranges and pointers over two-digit addresses in base 3 | `FilterExact`, no jump leaves the program |
| `walk` | every content of two pages of RAM out of eight entries (tables and leaves inside and outside RAM, reserved and invalid entries), every root, all 32 page numbers of a word | `WalkIsSv39` |
| `boot` | every subset of inherited descriptors, every combination of missing files, kernels of 0, 1 and 2 pages with room for 1, every use of four pages by the loader, every choice of mmap | `OwnPagesMapped`, `RightFiles`, `KernelLoaded`, `HandsOver`, `Starts` |

`walk` has tables of two entries: all three levels, tables that are their own parent
and addresses on both sides of each bound of the sign-extension test occur.  `boot` has
two descriptors below the fixed ones, where the code has 64, and the stub between two
areas of mmap, so that the configuration lands below, above and directly behind it.
`block` follows one guest (`BlockGuest`): code at page 0, the buffer at page 3, the device
at page 4, up to its first trap or return to U-mode; the page contents are symmetric,
since they are only ever copied.  `timer` has a word of 6400 ns, so that the interval of a
deadline in the past wraps and that of one ahead does not.

The deadlock check is on in all of them: outside `Stopped` the system can always
move.

The runs named `doc_...` and `test_kernel` state a sentence of the documentation or
what the test kernel is for, and TLC finds the code breaking it:

| Run | The code |
|---|---|
| `test_kernel` | unmaps RAM at the first `sret` to U-mode in bare mode and cannot map it back: the test kernel ends before its first character |
| `doc_block` | drops a block read when the host has not mapped the buffer yet |
| `doc_sd_zero` | stores the pc for `sd zero` to a device register |
| `doc_stip` | sets `STIP` on any SIGALRM: the one of the previous deadline, queued while the handler ran, makes it early (notes.md:138), even where a tick is exactly 1000 ns |

Other differences between documentation and code are in the model without a run of
their own: S-mode that is denied an access, or reaches an address that is neither RAM
nor device, ends the process instead of taking an exception (how-it-works.md:337-339,
riscv-priv.c:361 and 430); PTE.U is never looked at, so a supervisor page is mapped for
U-mode (how-it-works.md:339, riscv-priv.c:355); the write command is number 2 and not 0
(how-it-works.md:404, urvirt-block.h:11); the page fault of fld or fsd is reported as
an instruction page fault (urvirt-stub.c:129), and that of lr as a store page fault,
which is why the accesses of `paging` are integer ones and no lr; the fault of a load or
store on its own instruction is taken for one of the fetch (urvirt-stub.c:101 has a TODO
for it), so `FaultAnswered` is stated for all other addresses; `decode_sd` takes the
encoding of c.ldsp for "c.sdsp" (riscv-priv.c:321), so a c.sdsp to the device ends the
process; the device path checks no right of the entry; an address with bit 39 unlike
bit 38 is translated (riscv-priv.c:241); a `time` CSR slower than 1 MHz
(`TickNs` above 1000) makes `STIP` early and a faster one makes it late, a deadline so far
ahead that its interval leaves the word makes it early or, at an interval of exactly zero,
never (`NoWrap`); `run.sh` passes two arguments where the loader wants three, and gets the
usage message (`Usage` in `Boot`).

Three corners of the start that `boot` brought out: a kernel file of zero bytes is
"started" even when RAM could not be mapped; when all numbers below `BLOCK_FD` are
inherited, the disk image is opened as `BLOCK_FD` itself and closed again, without a sign;
and when the kernel file cannot be opened but descriptor 66 (`KERNEL_FD`) was inherited,
the guest is started from that file, cut to the size of the stub's file, because the
failed `open` leaves the `struct stat` of the stub in place.  `RightFiles` states the
last for what it is and excludes the first two; `KernelLoaded` asks that the kernel file
was opened.

**Fairness.**  `DeadlineHonoured` needs that time passes, that the four steps of the
call, straight-line code, are eventually run by the scheduler, and that the kernel
delivers a pending unmasked signal.  `Starts` needs weak fairness of `BootStep`: one
thread of straight-line code whose system calls return.  No fairness is asked of the
guest.

## 5. The proofs

All theorems hold for every value of the constants under the assumptions named in
the modules: `WordAssumption` (the word is a multiple of 4 and holds the exception
codes below its top bit), `SatpAssumption`, `LayoutAssumption` (RAM, stub and device
do not overlap and lie in the user half, a block is not empty), `GuestAssumption` (the guest's choices
have the right types), `TimerAssumption`, `HalfAssumption`, `AddrAssumption`,
`WalkAssumption`, and `BootAssumption`: the four fixed descriptors are different, in the
order of `common.h`, and two more can be opened above them; the stub's file has a page
at least; mmap without an address places nothing in RAM or on the page after it; the
loader is not where the stub is mapped; the kernel starts on a page of RAM; the pages
of the kernel's file are numbered from 0.  TLC evaluates all of them in the runs.

**`UrvirtStub_proofs`**: `TypeCorrect`, `InterruptTakenAlways`, `StubIntactAlways`,
`NoStaleMappingAlways`, `DerailedOnlyUnfencedAlways`, from one inductive invariant

    Inv == TypeOK /\ Settled /\ InterruptTaken /\ StubIntact /\ NoStaleMapping

`Settled` (no flush is outstanding while the guest runs) is the strengthening: without
it a state that still owes an unmapping would satisfy the rest and break it in the next
step.  `NextShape` reduces the twenty-odd actions to six shapes (the hart goes through
`Return`, a page is added, a table entry is written, ...); the invariant is then
shown per shape.  The crux is that one `enter_trap` settles the interrupt condition,
and that every event that empties `dirty` also flushes.  `DerailedOnlyUnfencedAlways`
rests on `NoStaleMapping`: the instruction was executed, so its page is mapped, and the
tables do not map it, so the entry was written since the last fence.

**`UrvirtTlb_proofs`**: `TlbRefinement` (`Spec => Tlb!Spec`: each shape is a fill, a
flush, a table update or a stutter) and `TrapReturnsAlways`.

**`UrvirtSteps_proofs`**: the action properties, from `Inv`.

- `UserTrapPreciseAlways`, `EmulatedOnceAlways`: `Return` takes at most one interrupt, and
  none on top of a trap, because a trap leaves `SIE` off; the rest is the pc that each
  signal reports.  Vectored and direct targets and the wrap of the pc are included:
  `TargetIsVector` shows that the code's target, with the interrupt bit shifted out of the
  word, is the architecture's.
- `FaultAnsweredAlways`, `AllowedAccessAlways`, `DmaThroughTablesAlways`: the lemma
  `SigsegvOutcome` says what any SIGSEGV comes to: the guest is `Trapped`, the stub `GaveUp`,
  a page was added (`PageAdded`) or a store emulated (`Stored`).  The first two theorems
  assume `IntegerAccess` (no floating-point access and no lr: the code misreports those, see
  section 4).  `AllowedAccess` needs a second inductive invariant, `MapInv`: in bare mode
  either all of RAM is mapped or no guest page is (`BareAllOrNone`), so no access is
  made that a page is missing for, and only the stub's pages are mapped as the stub's
  (`StubOnly`), so nothing of it is in the way of a fill.  `DmaThroughTables` is about
  every block command: if RAM or the disk changes, the buffer's page was mapped and the
  change is the transfer between its frame and the block, unless the entry is unfenced,
  the offset leaves `Offset` before it is cut to a word, or nothing is mapped at the
  buffer.  `OffsetExact` says that otherwise nothing wraps.

**`Boot_proofs`**: `BootTypeAlways`, `OwnPagesMappedAlways`, `RightFilesAlways`,
`KernelLoadedAlways`, `HandsOverAlways`, `GuaranteedAfterBoot`, from one inductive
invariant `BootInv` by parts:

| Part | Says |
|---|---|
| `FdInv` | descriptors other than the four are as inherited, so two are always free above them; which file can be behind each fixed number from which step on |
| `SizeInv` | the kernel's size in the configuration, and where the stub ends before and after it has its stack |
| `CopyInv`, `RamInv` | how far the copy is, that it has come from the kernel's file, and that RAM holds that part and zeros |
| `LayoutInv` | what is mapped at every page at every step (`Layout`): the stub, the configuration, RAM, the image, and where the loader may still be |
| `Untouched` | the boot code leaves the rest of the state of `UrvirtStub` alone |

`LowestFreeIs` and `OpenAs` are what the descriptor proofs rest on: the lowest free number
exists, and a file that is opened and moved disturbs no other number.  The copy needs no
bound on the kernel: the page after RAM is not mapped, so `CopyPage` dies there
(`CopyTarget`).  At the jump the layout is exactly that of `UrvirtStub!Init`; from there
`BootInv` carries `Inv` on, so the guarantees of the running hypervisor are those of every
guest that was really booted (`GuaranteedAfterBoot`).  An empty kernel can be started
without RAM; `StartedInv` shows that `Inv` holds there too.

**`SbiTimer_proofs`**: `WakeupNeverLost`, from `Coming` (between arming and setting
`sip` the signal of a deadline ahead is pending or on its way), for every `TickNs` and
`DropStale`.  It assumes `NoWrap`: an interval that leaves the word in ns may come out as
zero, which disarms the timer, or too short.  `DeadlineRefinement` (`Spec => Promise!Spec`),
for every `DropStale`, rests on `EarlyInv`: neither the running timer nor a pending signal
belongs to an earlier deadline, but for the one left over, and the ns left on the timer are
enough for the ticks that are missing (`NoneBefore`); that needs `FastClock` besides
`NoWrap`: a tick takes 1000 ns or less.  `SetSip` is the call, `Sigalrm` raises `STIP`, the
guest's write is itself, the other steps do not show.  `TimerTypeCorrect` needs neither
assumption: the interval is unsigned also when it wraps.

**`SeccompFilter_proofs`**: `FilterExactAlways`, with what is known of the instruction
pointer before each of the twelve instructions, over the lemma that addresses are
ordered as their halves are, for any size of a half word; `FilterTypeCorrect` from the
same invariant.

**`Sv39Walk_proofs`**: `WalkCorrect`, `TypeCorrect`.  The
strengthening is `Sofar`: in the loop, the translation from the table reached
(`Rest(level, pt_addr, right)`) equals the translation from the root.  `SameEntry`
unfolds one level of it; `CanonicalIsSignExtended` shows that the code's test, one bit
too wide, rejects no canonical address.

**Model-checked only**: the liveness properties `DeadlineHonoured` and `Starts`, which are
out of the prover's reach, and the four claims that the code does not keep.

## 6. Left out

- The contents of general registers, characters of the console, event counters,
  logging and the magic `ecall`: nothing the properties speak of depends on them.
- In `UrvirtStub`, page tables sharing frames with data pages: a table entry changes
  only by `GuestWritePte`.  (`Sv39Walk` has them, for one walk.)
- The accessed and dirty bits, which the code ignores, and large pages beyond their
  `ebreak`.
- A guest that writes to the stub's pages, or has the block device do it: the
  documentation assumes it does not.
- What the guest does after its buffer was on the page of `CONFIG_FD` ("corrupted") or
  after a nested handler ("derailed").
- `printf.c` and `printf.h`: vendored, and used for messages only.  The build and run
  scripts.
- In `Boot`: failures of `memfd_create`, `ftruncate`, `sigaltstack`, `sigaction` and
  `timer_create`; a mmap that the kernel places in the range of RAM (the code relies on
  the area of mmap being elsewhere); the depth of the one-page stack.
- A SIGALRM sent by another process, and failures of the handler's own `mmap` of
  `CONFIG_FD` and `RAM_FD`.
- Blocks of 512 bytes within a page, and a buffer across two pages: a block stands
  for a page.
