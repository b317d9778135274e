# TLA+ models of Magical-OS5

Magical-OS5 is a small 32-bit x86 kernel with a shell and a clock as its user
programs. This directory models its start-up, scheduler, interrupt paths, timer,
keyboard, console, task creation, PCI scan, ATA driver and shell, checks the models
with TLC and proves the safety properties of all of them with TLAPS.

## Inventory of the system

| Part | State | Operations | Hard because |
|---|---|---|---|
| Scheduler (`kernel/sched.c`) | three circular lists through one `next`/`prev` pair per task, `current_task`, `dummy_task`, a flag per task | `schedule`, enqueue/delete ×3, two queue walks, two blocking calls | the walks unlink what they stand on; the blocked task is replaced by a dummy with a stale link; EOI must precede the jump; a jump to the busy TSS faults |
| Timer (`kernel/timer.c`) | `global_counter` | `do_ir_timer`, busy waits | wrap-around; ticks taken late or lost; ticks lost by the walk |
| Start-up, IDT, PIC (`kernel/init.c`, `intr.c`, `sys.S`) | gates, vector base and mask, IF, task register, paging | the steps of `kern_init`, interrupt entry, system call gate | order of gates, mask and `sti`; privilege of the gate; what the first task switch needs |
| Keyboard (`kernel/console_io.c`) | ring of 256 with `start`, `end`, `is_full`, `error_status` | `do_ir_keyboard`, `get_keydata` … `get_line` | wake-up against test-and-block; one wake-up per interrupt, several readers |
| Console (`kernel/console_io.c`, `apps/`) | `cursor_pos`, video memory, CRTC registers | `put_char`, `put_str`, `dump_hex`, `update_cursor`, `printk`, echo | preempted `printk`, a second shell, stale row in `uptime`, unsigned columns, finite video memory |
| Lock (`kernel/lock.c`) | EFLAGS.IF | `kern_lock`, `kern_unlock` | no-op in handlers, needed in the kernel task |
| Tasks (`kernel/task.c`, `kern_task_init.c`) | GDT entries, task pages, page tables | `task_init`, `kern_task_init` | unbounded ids, descriptors written in part, loop off by one |
| Memory (`kernel/memory.c`) | `heap_alloc_table`, `kmalloc`'s page | `mem_alloc`, `kmalloc` | search and mark not atomic; one page for all of `kmalloc` |
| PCI (`kernel/pci.c`), block registry (`kernel/block_driver.c`) | two lists | scan, register, look up | loop limits, missing controller |
| ATA (`kernel/ata.c`) | device registers, sector limit | open (reset, identify), read, write | late, failing and absent devices; time-outs |
| Shell, uptime (`apps/`) | line, command and argument arrays, a stack of 2 KB, two mapped pages | command loop and commands, clock loop | unchecked, uncleared arrays; NULs in lines; recursion; writes into the shell itself; overflow in number conversion; share the screen |
| File table (`kernel/fs.c`, `queue.c`) | ring of files | `fs_init`, `fs_open` | the walk ends only at the head |
| Strings (`kernel/string.c`, `stdlib.c`, `common.c`) | — | string and number functions | ends of strings, smallest numbers |
| Ethernet, boot loader | — | — | see "Not modelled" |

How the parts interact. `kern_init` sets the tables up, creates the shell task,
enables interrupts and *then* scans PCI and tries the disk: from there on it is the
kernel task, which runs only while no user task is runnable and can be preempted
anywhere. User tasks enter the kernel with `int 0x80`. Every IDT entry is an interrupt
gate, so handlers and system calls run with IF = 0 and are atomic with respect to each
other, up to the point where they switch tasks. `get_line` is the one system call that
blocks in the middle. Timer and keyboard handlers move tasks between queues; only the
timer handler and the blocking calls switch tasks.

## Modules

| Module | Models |
|---|---|
| `TaskQueues` | the heads, lengths and links of the three lists and the functions on them; `RingOK`, what it means to be three disjoint rings |
| `Sched` | `schedule`, `do_ir_timer`, the walks (one iteration per step), the blocking calls, `exec` as seen by the scheduler, PIC in-service bits, task register |
| `AbsSched` | what the scheduler promises: every task in one place; the processor belongs to a runnable task, or to the kernel task if there is none |
| `KeyQueue` | the key ring |
| `BoundedFifo` | what it promises: a FIFO of bounded capacity that drops and reports overflow |
| `Kernel` | composes `Sched` and `KeyQueue`: interrupt entry with IF, `do_ir_keyboard`, `get_line` with its retry loop |
| `Console` | the screen and its users: the kernel task, up to two shells, the clock |
| `Boot` | `kern_init` from its first line: gates, tables, interrupt controller; then interrupts, task creation and device set-up, sharing the page allocator |
| `Ata` | the ATA driver and, as external parts, the two devices of the channel |
| `Timer` | `global_counter` and the busy-wait loops against real time |
| `Strings` | the string and number functions on arrays of character codes: a loop that looks for a place is the least index at which it stops, a loop that accumulates a recursive function |
| `Shell` | the shell's command interpreter and the file table, over `Strings` |
| `MCSched`, `MCKernel`, `MCConsole`, `MCBoot`, `MCAta`, `MCTimer`, `MCShell` | instances for TLC |
| `SchedProofs`, `KernelProofs`, `TimerProofs`, `BootProofs`, `AtaProofs`, `ConsoleProofs`, `ShellProofs` | theorems |
| `StringProofs` | lemmas on `Strings`, induction and arithmetic |

`PROJECT.json` maps each definition to its lines. Definitions have the names of the C
functions they model; definitions marked "Mutant" are deliberately wrong variants, used
to see that each property can fail.

Correspondence worth knowing:

* *Lists.* The three pairs of enqueue and delete functions in `sched.c` are the same code,
  so `Enq(r, q, t)` and `Del(r, q, t)` take the queue as an argument and the six functions use them. `r` is the record of all
  heads, lengths and links. Its fields `loc` and `ahead` are history: which queue a task
  was put on, and who came first. No code field depends on them. Order is a relation
  rather than a sequence so that the proofs need no induction.
* *Task switch.* `tr` is the hardware task register. Jumping to the TSS it already names is
  a fault: `tr = Fault`, after which nothing runs.
* *Steps.* A handler is several steps (`cpu` says where it is) only because its loops are;
  nothing else is enabled meanwhile. In `Kernel`, `get_line` is one step per key.
  In `Console`, the kernel task takes one step per load or store, since it alone can be
  preempted there (the kernel is compiled without optimisation); only the row and the column of the
  cell to write are loaded in one step. It runs first, from the
  cursor's second row, until the first timer interrupt starts the shell (`shell_start`). No
  kernel message has an empty line; the text printed last is one of `kern_init`'s two strings
  (what a disk holds after a write that failed is not modelled).
* *Programs.* The disk holds `uptime` and `shell`. The shell may start one of them: `Shells` are the
  first shell and the one it may start, which prompts, echoes and answers on the same screen. Nothing is
  started after that, since the third task takes the place of the user code segment (`Boot`).
* *Start-up.* `Boot` takes one step per group of statements of `kern_init`. Before `sti` nothing
  else is enabled; afterwards every line the mask lets through may raise an interrupt at any
  step. Its handler is whatever the gate at `base + line` holds: `ignore_int` returns without
  an EOI (the line is then in `lost`), an exception handler never returns (`fault`).
* *Descriptors.* A GDT entry keeps the fields `init_gdt` leaves alone, of which the system bit matters:
  a code segment that is given a TSS's type is still a code segment (`IsTss`). Base and limit are one
  field, whose TSS it is.
* *A page with two owners.* When the allocation race has given `kmalloc` the page directory of a new task, the
  first record of the PCI list wipes it (`Wiped`). The kernel's pages are global, so the task may go on for
  a while with what the TLB still has of them (`interrupt`, `wiped_task_runs`).
* *Lines with NULs.* Shift, Ctrl and the like are a NUL in `keymap`, which `get_line` stores and counts. `typed`
  is the line with its NULs, `said` what stands before the first of them; the properties are about
  `said`.
* *Undefined stores.* In `Shell` a store outside an array, a recursion of `pow` past the end of the stack and a
  write to the shell's own bytes lead to the state `overrun` (the last one may also go well), about which
  nothing is said; arrays start with arbitrary bytes (`stack`), since the code never clears them.
* *User memory.* `task_init` maps two pages: the binary's, with the file's name in front, and the stack's, with
  the user stack of 2 KB (0x20001800 down to 0x20001000, where the writable page of the binary ends) and
  the kernel stack of the task (0x20002000 downwards). `Own` are the bytes these use, whose contents
  `read_access` leaves open at each read; `Free` is the rest, between the stacks for instance, and `mem` holds it.
  `Frames` says how many calls of `pow` the user stack has room for; `shell_main` takes more than 1 KB of it.
* *History variables.* `asked`/`slept` (Sched), `identified`/`promised` (Ata), `raced` (Boot),
  `lineAt`/`whole` (Console), `wrapped`/`least`/`waited` (Timer), `did`/`shown`/`written`/`walked` (Shell) record the past for properties and guard no action.
* *External.* The devices in `Ata` do what the driver relies on: they may be absent, may
  answer at any time or never, may end with ERR or with DRQ, or (a "mute" device) end IDENTIFY
  DEVICE with neither. `Timer!Clock` is the interval timer and the one request bit the
  interrupt controller keeps.

## Runs

Passing runs:

| Run | Instance | Shows |
|---|---|---|
| `sched` | 3 tasks, sleeps of 0, 15 and 20 ms, 10 ms tick, counter wrapping at 20 | rings stay rings (`QueuesOK`), `DispatchOK`, every interrupt acknowledged (`Acknowledged`), no early release (`SleepNotEarly`), lost ticks bounded (`SleepBounded`), `ImplementsAbsSched` |
| `kernel` | 2 tasks, ring of 2, line buffer of 3, all kinds of key | no lost keyboard wake-up (`NoLostWakeup`), waiters are inside `get_keydata` (`WaitersAreReaders`), `ImplementsFifo` across wrap and overflow, `get_line`'s index (`KernelTypeOK`); under fairness `KeysAreRead`, `NoStarvation`, `SleepersWake` |
| `ata` | two devices of 1 and 2 sectors, each a disk, a packet device, mute or absent; 2 polls, 2 tries | `ReadsAreFresh`, `OneCommandAtATime`, `CallsReturn` |
| `boot` | 2 buses × 2 devices × 2 functions, two IDE controllers, a page of 8 units, 3 tasks | `InterruptsServed` (no interrupt before its handler), `FaultExplained`, `PagesNotShared`, `SpillIsHarmless`, `SwitchFindsTss`, `ScanIsExact` |
| `console` | 3 rows of 4 columns, 27 cells, lines of 2 characters, both programs on the disk, two kernel characters or line ends before and after the first dispatch | `LineOnScreen`, `EchoShowsCursor`, `FaultsOnlyAtTheEnd` |
| `shell` | bytes of one hexadecimal digit, ints of four, scaled arrays, room for 6 to 9 calls of `pow`, 5 mapped bytes of which one is the shell's own, some 400 lines | each line is answered by the command or file of that name (`LineIsAnswered`), the arrays hold the words typed (`WordsExact`), which lines harm the shell (`ShortLinesFit`), what a write changes (`WritesLand`), that a read shows it (`ReadShowsWritten`), and that `string.c` and `stdlib.c` agree with the shell's functions (`LibraryAgrees`) |
| `timer` | 6 ms tick, counter wrapping at 16, waits of 0 to 3 s and 0 to 15 µs (2 µs to the ms) | `WaitNotShort`, `WaitReturns` |

Runs that show a disagreement between the code and what a comment or document of the
repository says (each one TLC counterexample):

| Run | Code | Said |
|---|---|---|
| `ata_device` | the Device/Head register is rewritten without the device bit (`ata.c:481`) | `ata.c:449` "@param device number." |
| `ata_identify` | identify reports success without having read anything, here of a slave that is still busy, and the sector limit becomes 0 (`ata.c:543`, `663`) | `ata.c:534` "@param false is failed Identify Device command." |
| `ata_write` | the end of a write is not looked at (`ata.c:167`) | `ata.c:155` "@return negative if fail to write data." |
| `boot_scan` | bus 255, device 31 and function 7 are never looked at (`pci.c:351`) | `pci.c:344` "Find all PCI devices.", `pci.c:271` "Check all function numbers." |
| `shell_library` | `strlen` counts the NUL (`string.c:70`), `strcpy` returns the place behind it (`string.c:83`); no caller uses either result | `string.c:64` "It words as strlen(3).", `string.c:77` "It words as strcpy(3)." |

### What the passing properties leave out

Some properties hold only with an exception, which the property states and a history
variable or a conjunct marks. These are behaviours of the code:

* `PagesNotShared`: an `exec` between search and mark of the kernel task's `mem_alloc` gives
  the same page to `kmalloc` and to the new task.
* `FaultExplained`: without an IDE controller `kern_init` calls through NULL; when a third task
  is created, the descriptor `doc/memory_map.txt:39` gives to user code gets its base, limit and type (`task.c:95`), so that the `iret` of that `exec`
  faults; and after the race of `PagesNotShared` the first record of the PCI list wipes the page directory of
  the new task, which faults when it runs.
* `SwitchFindsTss`: the third task's descriptor keeps the system bit of the user code segment and is no TSS.
* `ScanIsExact` promises only the functions below the limits of the loops, which are the highest numbers used
  as exclusive bounds (`boot_scan`).
* `FaultsOnlyAtTheEnd`: the screen moves down in the video memory with every line and never
  returns to the top; after some 200 lines a store faults.
* `CallsReturn`: a device that drops BSY after IDENTIFY DEVICE and raises neither DRQ nor ERR
  keeps `do_identify_device` in a loop without a bound.
* `WaitNotShort` counts whole ticks only: a wait shorter than a tick (all those of the ATA driver,
  2 to 5 µs) ends with the tick that is already running, at once if that is about to
  end; and a wait whose end passes 2^32 ms is cut short. `WaitReturns` leaves out the one end no
  tick reaches, 2^32 − 1.
* `LineIsAnswered`, `WordsExact`: what is typed after a key without a character (Shift, say) has no effect, and a
  line of such keys alone is looked up as the empty name.
* `ShortLinesFit`: lines of 128 characters, data words of 16 and address words of 32 overrun an array; numbers with
  more digits than the stack has room for calls of `pow`, which may be fewer than 32, run it into
  the binary; and a write may be aimed at the shell's own code or stacks.
* `WritesLand`, `ReadShowsWritten` speak of the bytes that are not the shell's own. Numbers are shown in
  capitals, which `str_conv_ahex_int` does not read back.
* `LibraryAgrees` does not speak of what `strlen` and `strcpy` return (`shell_library`), and leaves out the smallest
  long: it has no positive counterpart, its digit is a negative remainder (`stdlib.c:17`), and `%d` shows it as
  `-(`.
* `LineOnScreen`: kernel messages in the middle of a line, a backspace in column 0, and whatever a second shell
  prints.
* `EchoShowsCursor`: a late store of `cursor_pos.y` by `printk` can take the cursor above the
  scrolled screen.
* `NoStarvation` is checked with two user tasks, as many as the GDT has room for. With three it
  does not hold: two tasks that sleep for 10 ms in turn are put in front of a third one
  that only computes.

### Bounds

Three tasks are the least number with a head, a middle and a tail in a ring, and with two
tasks left when one goes. A ring of two keys fills, wraps and overflows.
A line buffer of three has room for a character, a backspace and the zero. Two polls and tries
reach "in time", "late" and "never". The console instance keeps the relations between
the real sizes that matter (named in `ConsoleAssumption`): lines wrap (also back over a
backspace in column 0), the screen scrolls, the memory ends inside a row, a line is shorter than the
screen, and a fault in the first two rows the cursor reaches would be too early. No step reads the video
memory and the properties look only at the undisturbed line in it, so `MCConsole` has a `VIEW` that leaves the other
cells out; likewise the `VIEW` of `MCKernel` leaves out the cells of the ring that hold no key, and what the
last call on the ring returned, which the caller has used in the same step. The page of `kmalloc` has
room for some, not all, of the possible PCI devices. Some slots of `MCBoot` are at the limits of the scan's loops.
In `MCShell` a byte is one hexadecimal digit, so that
words of five digits overflow an int; the lines fill every array, and overrun it by one; they have NULs before,
in, between and behind the words; `pow` runs out of stack before an array is full and, for `writeb`, after; writes
lie beside the shell's own byte, on it and across it.
In `MCTimer` the tick and the range of the counter share the factor 2 and no other, as 10 and 2^32 do.
`KMax`, `MaxTasks`, `CounterMod`, `Polls`,
`Tries`, `DrqLoops`, `MaxWaited` are the named bounds; those that stand for a number in the code say
so where they are declared.

`boot`, `console` and their violation runs do not check for deadlock: a fault, `KERN_ABORT` and
the end of the set-up stop the modelled system. All other runs check it.

### Fairness

`Kernel!FairSpec` has strong fairness of the timer interrupt (the PIC latches the request and
ranks it highest, and IF is 1 again and again) and weak fairness of steps of handlers and
of `get_line` once entered (they run with IF = 0 to their end). Nothing is assumed of user
tasks: they may compute for ever. `Ata!Spec` has weak fairness of the driver only, none of the
devices. `Timer!FairSpec` lets time pass, interrupts be taken and system calls end; the waiting
kernel task is strongly fair, since it is on the processor again and again only while no user
task is runnable, and `WaitReturns` asks for that at every value of the counter.
`Shell`, `Boot` and `Console` state no liveness.

## Proofs

The theorems hold for every value of the constants under the named assumptions, which TLC
evaluates in every run: any finite set of tasks, any ring, buffer, heap, bus, disk, screen,
stack and line size, any lines, any tick length and counter width. Assumptions that say more than types:

* `ConsoleAssumption`: the rows an unsigned char can name exceed the video memory by a few
  rows (16384 cells, 249 × 80), their addresses fit into an unsigned int, and a
  line is shorter than the screen without its first row (80 − 1 + 511 < 24 × 80).
* `BootAssumption`: the heap holds the pages of three tasks and of `kmalloc` (13; the code has
  3584). The third task is the last one: its TSS is written into the user
  code segment.
* `Lba28Assumption` (external): IDENTIFY DEVICE reports no more sectors than a 28-bit address
  reaches. Without it a sector number would set the device bit (`ata.c:481`).
* `ShellAssumption`: the commands have different names and the files are different entries; the last
  address is not mapped (`task_init` maps two pages), so that no access of mapped bytes wraps around;
  `first` and `other` of the read commands are not larger than `args` (128, 256). Lines are any sequences of
  `char`s that a key can give, NUL included; `Own` and `Frames` are arbitrary.

The argument of each module:

* `SchedProofs`, lists: `Enq` and `Del` keep `Good(r)` (types and `RingOK`). `RingOK` relates links to
  the order relation: `next[t]` is the next one in the order, or the head for the last.
* `SchedProofs`, scheduler: `SchedInv` is `SchedTypeOK /\ QueuesOK /\ DispatchOK /\ PhaseOK`. `QueuesOK`
  alone is not inductive: a walk is safe only if the task it stands on is on the queue it
  walks, and a blocking call only if the caller is on the run queue; `PhaseOK` says what a
  handler in progress may assume. `ScheduleOK` is the lemma about `schedule` as a whole.
  From the invariant follow `SchedTypes`, `QueuesAlwaysOK`, `DispatchAlwaysOK`, `AlwaysAcknowledged`
  and the refinement `AbsSchedRefinement` (mapping: `loc` for the places, `tr` for the processor).
  `NeverEarly` needs `SleepInv`: what was asked is at most what is left plus what has
  passed, and one tick less than that for a task the current walk has yet to visit.
  `NeverLongLate` (`SleepBounded`) needs `DelayInv`: each tick the walk takes away from a sleeper is
  paid for by a sleeper ahead of it that leaves the queue, so time slept, time left and a
  tick for every sleeper still ahead stay below what was asked plus a tick for each other task.
* `KernelProofs`, key ring: `KeyInv` (types, `is_full` implies `start = end`) and `FifoRefinement`, with the
  contents of the ring as the refinement mapping.
* `KernelProofs`, kernel: the composition implements `SchedSpec` and the FIFO, so their theorems carry
  over; `KernelInv` adds `WakeupInv`, the counting argument for `NoWakeupLost`: while somebody
  waits, keys ≤ runnable readers, plus one while the keyboard handler is still walking the queue.
  `WaitersAlwaysReaders` follows from the same invariant.
* `TimerProofs`: `WaitInv` for `WaitNeverShort`: if k more ticks would take the counter to `end`, then k
  ticks more than has been waited are at least what was asked for, and a tick more when an
  interrupt is pending. Lost pulses only lengthen a wait.
* `BootProofs`: `BootInv` says for each step of `kern_init` which gates, tables and masks are in place
  (`SetupOK`, `GatesOK`, `TablesOK`); that the pages in use are the first ones, four per task
  (`MemOK`, from which `PagesNeverShared` and `SpillAlwaysHarmless` follow); what `init_gdt` has written into which
  entry, and whose system bit it found there (`TablesOK`, `WrittenDescriptor`); that only a race makes
  `kmalloc`'s page a page directory; and that the list holds
  what the loops have passed, in reverse order (`ScanOK`; `Carry` covers the functions that are
  skipped after a first function that is alone). All seven properties of the run are theorems.
* `AtaProofs`: `AtaInv`. `OneCommandAtATime` alone is not inductive: what makes it true is who has been
  found idle in which step (`SelectOK`, `CommandOK`), that `open` leaves the slave selected and that a
  sector number never sets the device bit (`RangeOK`); `FreshOK` adds that no late write is under way
  when a read returns. `OnlyMuteHangs` is the safety half of `CallsReturn`.
* `ConsoleProofs`: lemmas on `put_char`, `put_str` (by induction on its length), `put_str_pos` and
  `dump_hex` say where the cursor is and which cells changed, or in which row they faulted. `ConsoleInv`
  adds to the properties what they rest on: the cursor is never many rows below the
  video memory, because nobody moves it by more than a few without a store (`ReachOK`, with `KernelSlack`
  for a preempted `printk` and `ShellSlack` for what the two shells have in hand); the row a preempted `printk`
  holds is not below the cursor (`KernelOK`), nor is the one `uptime` holds (`UptimeOK`); nothing is started before
  the first shell (`StartOK`); the lines are below the first row (`LineOK`).
  Then the clock's row is above the line (`ClockAbove`) and a fault in an older row implies one
  in the cursor's.
* `StringProofs`: `Holds(a, w)` says that the array `a` starts with the text `w` and its NUL; each function
  of `Strings` is then a function of the texts (`FindFirst`, `StrCpy` and their like), whatever follows the NUL.
  `NatRecursion` proves that a recursive function on numbers exists, so that `pow`, `Power`, `Digits`
  and the sums can be unfolded; `DivTwice`, `ModSum`, `ModProduct` and `PowerSum` are the arithmetic of
  digits.
* `ShellProofs`: `LineHolds` turns a typed line, with its NULs, into the text the arrays hold. `ShellInv` adds to
  the properties what they rest on: the table is the ring of the files in
  their order (`TableInv`, from `FsInit`, by induction on the files enqueued); at each point the arrays hold
  the words of the line and `command_id` is the command of that name (`WordsInv`); the walk of `fs_open` stands
  at its entry number `walked + 1` and no entry before it has the name (`WalkInv`). `LineIsAnswered` alone is
  not inductive for want of the last two. `FirstEntry` is the lemma on `str_get_first_entry`: it overruns an
  array exactly when a word does not fit, else the arrays hold the words.
  `WritesAlwaysLand` rests on `AhexIsValue` (wrapping powers and sums give the value of the word modulo
  2^32) and `StoreAt`. `ShellFits` needs `PowInv` besides, since it is about the words that were typed and `pow_overruns`
  about the arrays. `ReadAlwaysShowsWritten` needs `WrittenInv` (`mem` holds the low bytes of the last word
  written, at addresses that are not the shell's own; `MemoryBytes`); `LoadValue` and `DumpWord` take it back to its digits. `LibraryAlwaysAgrees` rests on
  `DigitsPrint` (printed digits have the number's value) and `CompareAgrees`.

Induction over numbers is by the least element of a set (`WFMin`), as in `StringProofs!AllNat`,
`ConsoleProofs!AllNat` and `BootProofs!NatLeast`.

Only model-checked: liveness and ENABLED (`KeysAreRead`, `NoStarvation`, `SleepersWake`, `CallsReturn`,
`WaitReturns`), which are out of TLAPS's reach. Every invariant and every action property of a passing run
is a theorem.

## Not modelled

* `i825xx.c`: `net_i825xx_init` has no caller, and it would stop in `pci_resolve_bar`, a stub that aborts.
* `boot.s`, `tools/`: sequential start-up in real mode. What it leaves behind (IF = 0, all lines masked)
  is in `Boot`'s initial state.
* `remove_blk_driver`, `blk_read_sector`, `close_ATA_disk`, `mem_free`, `kfree`, `queue_del`, `queue_dump`,
  `fs_close`, `intr_set_mask_slave`: no caller. (`remove_blk_driver` would not unlink anything,
  and would not end on a list with another driver.)
* `mem_init` clears 1 MiB from the page table on (`memory.c:100`), the video memory and the first heap pages
  too. No page has been handed out then; the cleared video memory is what `Console` starts with.
* `read_sector` with a buffer size other than 256 (`ata.c:189`) loops for ever; no caller passes one.
* `get_base_address` reads base addresses that nobody uses; `show_all_*` only print.
* Formatting in `printk` (`itoa` and `itox` are in `Strings`).

## Plan

Done: the models of all parts with state, and the proofs of every safety property. What is left:
the refinement of the console's line editor from an abstract line buffer, as `KeyQueue` has its FIFO.
