-------------------------------- MODULE Boot --------------------------------
(***************************************************************************)
(* kern_init: the set-up with interrupts off (gates, page table, first     *)
(* task, interrupt controller), then device set-up in the kernel task and  *)
(* task creation, which share the page allocator of kernel/memory.c.       *)
(*                                                                         *)
(* kern_init executes sti before find_pci_device and init_ata_disk_driver, *)
(* so the exec system call of a user task (task_init, one step: system     *)
(* calls run with IF = 0) may come between any two steps of the device     *)
(* set-up, and inside mem_alloc between the search of heap_alloc_table and *)
(* the assignment to it.                                                   *)
(*                                                                         *)
(* Init is the state in which sys.S calls kern_init.                       *)
(***************************************************************************)
EXTENDS Integers, Sequences, FiniteSets, FiniteSetsExt

CONSTANTS BusMax, DevMax, FuncMax,   \* PCI_BUS_MAX, PCI_DEVICE_MAX, PCI_FUNCTION_MAX
          Slots,                     \* <<bus, device, function>> that may be populated
          AtaFns,                    \* slots where an 82371 IDE function may sit
          HeapPages,                 \* MAX_HEAP_PAGES
          PageSize,                  \* PAGE_SIZE, in units of the smallest node
          PciNode, BlkNode,          \* sizes of the two kinds of list node
          MaxTasks                   \* bound on task_init calls

Positions == (0 .. BusMax) \X (0 .. DevMax) \X (0 .. FuncMax)

\* The heap (3584 pages) has room for kmalloc's page and three tasks.
ASSUME BootAssumption ==
    /\ {BusMax, DevMax, FuncMax} \subseteq Nat \ {0}
    /\ Slots \subseteq Positions
    /\ AtaFns \subseteq {p \in Slots : p[3] = 1}
    /\ {HeapPages, PageSize, PciNode, BlkNode, MaxTasks} \subseteq Nat \ {0}
    /\ HeapPages >= 13

VARIABLES
    present,            \* external: populated slots
    multi,              \* external: <<bus, device>> with the multi-function bit
    mastering,          \* external: functions whose bus master bit is set
    heap_alloc_table,   \* the set of page indices in use
    pending,            \* i of mem_alloc, after the search and before the mark
    sTopAddr, sTotalSize,
    pos,                \* loop variables of find_pci_device and find_pci_data
    pci_devices,        \* the list behind pci_device_head
    blk_drivers,        \* the list behind blk_drivers_head
    tasks,              \* the pages of the tasks, by task_id
    gdt, idt,           \* the descriptor tables
    tr,                 \* the task register
    pic,                \* master interrupt controller: vector base and masked lines
    IF_bit,             \* interrupt flag of the kernel task
    paging,             \* paging is on
    user,               \* a user task has been switched to
    lost,               \* lines taken and never acknowledged: they stay silent
    kpc,                \* where kern_init is
    fault,              \* the machine is lost: an exception handler, none of which
                        \* returns, has it, or no handler can be reached
    raced               \* history: task_init ran inside the kernel's mem_alloc

bus     == <<present, multi, mastering>>
machine == <<idt, tr, pic, IF_bit, paging>>
vars == <<bus, heap_alloc_table, pending, sTopAddr, sTotalSize, pos, pci_devices,
          blk_drivers, tasks, gdt, machine, user, lost, kpc, fault, raced>>

Vectors == 0 .. 255
Lines   == 0 .. 7
NoPage == -1
Pages  == 0 .. HeapPages - 1
Flat   == -1            \* the base of the segments that span the memory

\* A segment descriptor, base and limit as one field: whose TSS it is, or Flat.
Descriptors == [base : {Flat} \cup 0 .. 255, dpl : 0 .. 3, type : 0 .. 15, p : 0 .. 1,
                s : 0 .. 1]

TypeOK ==
    /\ present \subseteq Slots
    /\ multi \subseteq {<<p[1], p[2]>> : p \in Slots}
    /\ mastering \subseteq Slots
    /\ heap_alloc_table \subseteq Pages
    /\ {pending, sTopAddr} \subseteq Pages \cup {NoPage}
    /\ sTotalSize \in Nat
    /\ pos \in (0 .. BusMax - 1) \X (0 .. DevMax - 1) \X (0 .. FuncMax - 1)
    /\ pci_devices \in Seq(Slots)
    /\ blk_drivers \in Seq({"ATA disk"})
    /\ tasks \in Seq([pd : Pages, pt : Pages, task : Pages, stack : Pages \cup {NoPage}])
    /\ gdt \in [0 .. 7 -> Descriptors]
    /\ DOMAIN idt = Vectors /\ tr \in {0, 24}
    /\ pic \in [base : {0, 32}, mask : SUBSET Lines]
    /\ lost \subseteq Lines
    /\ kpc \in {"start", "kern_task", "tasks", "paging", "gates", "gate_kb", "gate_128", "pic", "unmask", "sti",
                "scan", "store", "ata", "register", "open", "done", "abort"}
    /\ {IF_bit, paging, user, fault, raced} \subseteq BOOLEAN

----------------------------------------------------------------------------
(***************************************************************************)
(* Memory.  Heap page i is page frame 0x100 + i.  mem_init fills one page  *)
(* table, the one page directory entry points to: what lies past entry     *)
(* 0x3ff of it is not looked at by the processor.                          *)
(***************************************************************************)
Frame(i) == 256 + i

\* Mutant: the extended heap is left out of the page table.
MapsLowOnly(f) == \/ 7 <= f /\ f <= 133
                  \/ 149 <= f /\ f <= 159
                  \/ 184 <= f /\ f <= 191

KernelMaps(f) == /\ f < 1024
                 /\ \/ 7 <= f /\ f <= 133         \* conventional memory
                    \/ 149 <= f /\ f <= 159       \* heap
                    \/ 184 <= f /\ f <= 191       \* VRAM
                    \/ 256 <= f /\ f < 3839       \* extended heap

\* A page the kernel can write: before mem_page_start any address, NULL too.
Writable(i) == paging => i # NoPage /\ KernelMaps(Frame(i))

\* The page mem_alloc's loop stops at, NoPage when the table is full.
FirstFit(table) == IF Pages \subseteq table THEN NoPage ELSE Min(Pages \ table)

\* Mutant: the page is handed out but not marked.
NotTaken(table, i) == table

Taken(table, i) == IF i = NoPage THEN table ELSE table \cup {i}

\* The four calls of mem_alloc in task_init.
TaskPages(table) ==
    LET pd == FirstFit(table)
        t1 == Taken(table, pd)
        pt == FirstFit(t1)
        t2 == Taken(t1, pt)
        tk == FirstFit(t2)
        t3 == Taken(t2, tk)
        st == FirstFit(t3)
    IN  [pages |-> [pd |-> pd, pt |-> pt, task |-> tk, stack |-> st],
         table |-> Taken(t3, st)]

----------------------------------------------------------------------------
(***************************************************************************)
(* Task creation.                                                          *)
(***************************************************************************)
\* Mutant: the selector is computed from the task id instead of id - 1.
SelectorLate(id) == (8 * id + 32) % 256

\* The selector patched into the task's copy of context_switch.
Selector(id) == (8 * (id - 1) + 32) % 256

\* The entry's system bit s (and its g, d and avl) stay what they were.
init_gdt(table, idx, base, dpl) ==
    [table EXCEPT ![idx] = [@ EXCEPT !.base = base, !.dpl = dpl, !.type = 9, !.p = 1]]

Segment(type, dpl) == [base |-> Flat, dpl |-> dpl, type |-> type, p |-> 1, s |-> 1]

UserCode == Segment(10, 3)
UserData == Segment(2, 3)

BootGdt == [n \in 0 .. 7 |-> CASE n = 1 -> Segment(10, 0)
                               [] n = 2 -> Segment(2, 0)
                               [] n = 6 -> UserCode
                               [] n = 7 -> UserData
                               [] OTHER -> [base |-> Flat, dpl |-> 0, type |-> 0,
                                            p |-> 0, s |-> 0]]

\* What ltr and the far jump to a task ask of a descriptor (with s = 1, type 9
\* is a code segment; the busy bit is Sched.tla's).
IsTss(d, id) == d.s = 0 /\ d.type = 9 /\ d.p = 1 /\ d.base = id

\* task_init; a page that cannot be written stops it with a page fault.
task_init(stops) ==
    LET new == TaskPages(heap_alloc_table)
        id  == Len(tasks) + 1
    IN  /\ heap_alloc_table' = new.table
        /\ stops = ~(\A p \in {new.pages.pd, new.pages.pt, new.pages.task} : Writable(p))
        /\ IF stops THEN UNCHANGED <<tasks, gdt>>
           ELSE /\ tasks' = Append(tasks, new.pages)
                /\ gdt' = init_gdt(gdt, id + 3, id, 3)

----------------------------------------------------------------------------
(***************************************************************************)
(* The set-up with interrupts off.                                         *)
(***************************************************************************)
Init ==
    /\ present \in SUBSET Slots
    /\ multi \in SUBSET {<<p[1], p[2]>> : p \in Slots}
    /\ mastering = {}
    /\ heap_alloc_table = {} /\ pending = NoPage
    /\ sTopAddr = NoPage /\ sTotalSize = 0
    /\ pos = <<0, 0, 0>>
    /\ pci_devices = <<>> /\ blk_drivers = <<>>
    /\ tasks = <<>> /\ gdt = BootGdt
    /\ idt = [v \in Vectors |-> <<"ignore_int", 0>>]
    /\ pic = [base |-> 0, mask |-> Lines]
    /\ tr = 0 /\ IF_bit = FALSE /\ paging = FALSE
    /\ user = FALSE /\ lost = {}
    /\ kpc = "start"
    /\ fault = FALSE /\ raced = FALSE

\* Mutant: user code may not use the system call gate.
GateNoUser(v, handler) == <<handler, 0>>

\* A gate is its handler and the lowest privilege that may raise it.
Gate(v, handler) == <<handler, IF v = 128 THEN 3 ELSE 0>>

intr_set_handler(v, handler) == idt' = [idt EXCEPT ![v] = Gate(v, handler)]

\* Mutant: the master gets the slave's vectors.
Icw2Slave == 40

Icw2 == 32

\* One step of kern_init before sti.
Setup(at, next) ==
    /\ kpc = at /\ kpc' = next /\ ~fault
    /\ UNCHANGED <<bus, pending, sTopAddr, sTotalSize, pos, pci_devices,
                   blk_drivers, user, lost, raced>>

\* Which of the exception handlers is not told apart: none of them returns.
set_exception_handlers ==
    /\ Setup("start", "kern_task")
    /\ idt' = [v \in Vectors |-> IF v < 21 THEN Gate(v, "exception") ELSE idt[v]]
    /\ UNCHANGED <<heap_alloc_table, tasks, gdt, tr, pic, IF_bit, paging, fault>>

kern_task_init ==
    /\ Setup("kern_task", "tasks")
    /\ gdt' = init_gdt(gdt, 3, 0, 0)
    /\ tr' = 8 * 3
    /\ UNCHANGED <<heap_alloc_table, tasks, idt, pic, IF_bit, paging, fault>>

task_init_fshell ==
    /\ Setup("tasks", "paging")
    /\ \E stops \in BOOLEAN : task_init(stops) /\ fault' = stops
    /\ UNCHANGED machine

mem_page_start ==
    /\ Setup("paging", "gates")
    /\ paging' = TRUE
    /\ UNCHANGED <<heap_alloc_table, tasks, gdt, idt, tr, pic, IF_bit, fault>>

set_interrupt_handlers ==
    /\ \/ Setup("gates", "gate_kb") /\ intr_set_handler(32, "timer_handler")
       \/ Setup("gate_kb", "gate_128") /\ intr_set_handler(33, "keyboard_handler")
       \/ Setup("gate_128", "pic") /\ intr_set_handler(128, "syscall_handler")
    /\ UNCHANGED <<heap_alloc_table, tasks, gdt, tr, pic, IF_bit, paging, fault>>

intr_init ==
    /\ Setup("pic", "unmask")
    /\ pic' = [base |-> Icw2, mask |-> Lines]
    /\ UNCHANGED <<heap_alloc_table, tasks, gdt, idt, tr, IF_bit, paging, fault>>

\* Bit 0 is the timer, bit 1 the keyboard.
intr_set_mask_master ==
    /\ Setup("unmask", "sti")
    /\ pic' = [pic EXCEPT !.mask = @ \ {0, 1}]
    /\ UNCHANGED <<heap_alloc_table, tasks, gdt, idt, tr, IF_bit, paging, fault>>

sti ==
    /\ Setup("sti", "scan")
    /\ IF_bit' = TRUE
    /\ UNCHANGED <<heap_alloc_table, tasks, gdt, idt, tr, pic, paging, fault>>

----------------------------------------------------------------------------
(***************************************************************************)
(* Interrupts and user code.  Sched.tla has the dispatcher; what it needs  *)
(* of the tables is a task register to save to, the task's TSS and, for    *)
(* every return to user code, the user code segment.                       *)
(***************************************************************************)
CanSwitchTo(n) == tr # 0 /\ IsTss(gdt[Selector(n) \div 8], n) /\ gdt[6] = UserCode

\* kmalloc's page is the task's page directory, and entry 0 of it, through which
\* the task finds the kernel, is the first record of the PCI list.
Wiped(n) == tasks[n].pd = sTopAddr /\ pci_devices # <<>>

interrupt(line) ==
    /\ IF_bit /\ ~fault /\ line \notin pic.mask \cup lost
    /\ CASE idt[pic.base + line][1] = "timer_handler" ->
              /\ \E n \in DOMAIN tasks : IF CanSwitchTo(n)
                                         THEN user' = TRUE /\ UNCHANGED fault
                                         ELSE fault' = TRUE /\ UNCHANGED user
              /\ UNCHANGED lost
         [] idt[pic.base + line][1] = "keyboard_handler" ->
              UNCHANGED <<user, fault, lost>>
         [] idt[pic.base + line][1] = "ignore_int" ->      \* no EOI
              lost' = lost \cup {line} /\ UNCHANGED <<user, fault>>
         [] OTHER -> fault' = TRUE /\ UNCHANGED <<user, lost>>
    /\ UNCHANGED <<bus, machine, heap_alloc_table, pending, sTopAddr, sTotalSize,
                   pos, pci_devices, blk_drivers, tasks, gdt, kpc, raced>>

\* The kernel's pages are global: what the processor still has of them in its TLB
\* lets a task without a page directory go on for a while after the switch to it.
\* Then it faults, and no handler is mapped.
wiped_task_runs ==
    /\ user /\ ~fault
    /\ \E n \in DOMAIN tasks : Wiped(n)
    /\ fault' = TRUE
    /\ UNCHANGED <<bus, machine, heap_alloc_table, pending, sTopAddr, sTotalSize,
                   pos, pci_devices, blk_drivers, tasks, gdt, user, lost, kpc, raced>>

\* The exec system call: int $0x80 through the gate, task_init, and iret,
\* which loads the user code segment again.
sys_exec ==
    /\ user /\ ~fault /\ Len(tasks) < MaxTasks
    /\ IF idt[128] = <<"syscall_handler", 3>>
       THEN /\ \E stops \in BOOLEAN :
                 task_init(stops) /\ fault' = (stops \/ gdt'[6] # UserCode)
            /\ raced' = (raced \/ pending # NoPage)
       ELSE fault' = TRUE /\ UNCHANGED <<heap_alloc_table, tasks, gdt, raced>>
    /\ UNCHANGED <<bus, machine, user, lost, pending, sTopAddr, sTotalSize, pos,
                   pci_devices, blk_drivers, kpc>>

----------------------------------------------------------------------------
(***************************************************************************)
(* The set-up of the devices, in the preemptible kernel task.              *)
(***************************************************************************)
\* kmalloc's first call allocates the page: the search, then the mark.
mem_alloc_search ==
    /\ kpc \in {"store", "register"} /\ ~fault
    /\ sTopAddr = NoPage /\ pending = NoPage
    /\ pending' = FirstFit(heap_alloc_table)
    /\ kpc' = IF pending' = NoPage THEN "abort" ELSE kpc
    /\ UNCHANGED <<bus, machine, user, lost, heap_alloc_table, sTopAddr, sTotalSize, pos,
                   pci_devices, blk_drivers, tasks, gdt, fault, raced>>

mem_alloc_mark ==
    /\ pending # NoPage /\ ~fault
    /\ heap_alloc_table' = Taken(heap_alloc_table, pending)
    /\ sTopAddr' = pending
    /\ pending' = NoPage
    /\ UNCHANGED <<bus, machine, user, lost, sTotalSize, pos, pci_devices, blk_drivers,
                   tasks, gdt, kpc, fault, raced>>

\* The rest of kmalloc(size), called with the page there; ok if there is room.
kmalloc(size, ok) ==
    /\ sTopAddr # NoPage /\ ~fault
    /\ sTotalSize' = sTotalSize + size
    /\ ok = (sTotalSize' <= PageSize)

(***************************************************************************)
(* find_pci_device: the loops over buses, devices and functions.           *)
(***************************************************************************)
\* What the configuration space answers: a vendor (not 0xffffffff) in register
\* 0x00, the multi-function bit in register 0x0c.  Only this task uses the
\* address and data ports.
read_pci_reg00 == pos \in present

is_multi_function == <<pos[1], pos[2]>> \in multi

\* Mutant: the function loop ends after a first function that is not there.
EndsFunctionsAbsent == pos[3] = 0 /\ ~is_multi_function

\* The return in find_pci_data for a single-function device.
EndsFunctions == pos[3] = 0 /\ read_pci_reg00 /\ ~is_multi_function

\* Mutant: the loops run up to the maximum.
MoreLate(i, max) == i + 1 <= max

More(i, max) == i + 1 < max

Advance ==
    LET b == pos[1]
        d == pos[2]
        f == pos[3]
    IN  IF ~EndsFunctions /\ More(f, FuncMax)
        THEN pos' = <<b, d, f + 1>> /\ kpc' = "scan"
        ELSE IF More(d, DevMax)
        THEN pos' = <<b, d + 1, 0>> /\ kpc' = "scan"
        ELSE IF More(b, BusMax)
        THEN pos' = <<b + 1, 0, 0>> /\ kpc' = "scan"
        ELSE UNCHANGED pos /\ kpc' = "ata"

find_pci_data ==
    /\ kpc = "scan" /\ ~fault
    /\ IF read_pci_reg00 THEN kpc' = "store" /\ UNCHANGED pos ELSE Advance
    /\ UNCHANGED <<bus, machine, user, lost, heap_alloc_table, pending, sTopAddr,
                   sTotalSize, pci_devices, blk_drivers, tasks, gdt, fault, raced>>

\* The record is cleared and written at the place kmalloc gave out, whoever else
\* has that page (Wiped).
store_pci_device_to_list ==
    /\ kpc = "store"
    /\ \/ /\ kmalloc(PciNode, TRUE)
          /\ pci_devices' = <<pos>> \o pci_devices
          /\ Advance
       \/ /\ kmalloc(PciNode, FALSE)
          /\ kpc' = "abort"
          /\ UNCHANGED <<pci_devices, pos>>
    /\ UNCHANGED <<bus, machine, user, lost, heap_alloc_table, pending, sTopAddr,
                   blk_drivers, tasks, gdt, fault, raced>>

----------------------------------------------------------------------------
\* The first entry of the list that matches, <<>> (NULL) without one.
get_pci_device(matching) ==
    LET found == {n \in DOMAIN pci_devices : pci_devices[n] \in matching}
    IN  IF found = {} THEN <<>> ELSE pci_devices[Min(found)]

find_ata_device == get_pci_device(AtaFns)

\* Writing the command register of the function the record names.
pci_data_write(p) == mastering' = mastering \cup {p}

set_bus_master_bit(p) == pci_data_write(p)

\* Without a controller kern_init goes on all the same.
init_ata_disk_driver ==
    /\ kpc = "ata" /\ ~fault
    /\ \/ find_ata_device # <<>> /\ set_bus_master_bit(find_ata_device) /\ kpc' = "register"
       \/ find_ata_device = <<>> /\ UNCHANGED mastering /\ kpc' = "open"
    /\ UNCHANGED <<present, multi, machine, user, lost, heap_alloc_table, pending,
                   sTopAddr, sTotalSize, pos, pci_devices, blk_drivers, tasks, gdt,
                   fault, raced>>

register_blk_driver ==
    /\ kpc = "register"
    /\ \/ /\ kmalloc(BlkNode, TRUE)
          /\ blk_drivers' = <<"ATA disk">> \o blk_drivers
          /\ kpc' = "open"
       \/ /\ kmalloc(BlkNode, FALSE)
          /\ kpc' = "abort"
          /\ UNCHANGED blk_drivers
    /\ UNCHANGED <<bus, machine, user, lost, heap_alloc_table, pending, sTopAddr, pos,
                   pci_devices, tasks, gdt, fault, raced>>

get_blk_driver == \E n \in DOMAIN blk_drivers : blk_drivers[n] = "ATA disk"

\* drivers->op->open(), with drivers = NULL when there is no such driver.
\* (Ata.tla has the rest of kern_init.)
kern_init_open ==
    /\ kpc = "open" /\ ~fault
    /\ IF get_blk_driver THEN kpc' = "done" /\ UNCHANGED fault
                         ELSE fault' = TRUE /\ UNCHANGED kpc
    /\ UNCHANGED <<bus, machine, user, lost, heap_alloc_table, pending, sTopAddr,
                   sTotalSize, pos, pci_devices, blk_drivers, tasks, gdt, raced>>

Next ==
    \/ set_exception_handlers
    \/ kern_task_init
    \/ task_init_fshell
    \/ mem_page_start
    \/ set_interrupt_handlers
    \/ intr_init
    \/ intr_set_mask_master
    \/ sti
    \/ \E line \in Lines : interrupt(line)
    \/ wiped_task_runs
    \/ sys_exec
    \/ find_pci_data
    \/ mem_alloc_search
    \/ mem_alloc_mark
    \/ store_pci_device_to_list
    \/ init_ata_disk_driver
    \/ register_blk_driver
    \/ kern_init_open

Spec == Init /\ [][Next]_vars

----------------------------------------------------------------------------
PagesOf(n) == {tasks[n].pd, tasks[n].pt, tasks[n].task, tasks[n].stack}

(***************************************************************************)
(* mem_alloc gives a page to one owner: the pages of a task are distinct,  *)
(* no two tasks share one, and the page behind kmalloc is nobody else's.   *)
(* The last is lost in one way only, an exec between the search and the    *)
(* mark of the kernel task's mem_alloc, which nothing prevents.            *)
(***************************************************************************)
PagesNotShared ==
    /\ \A n \in DOMAIN tasks : Cardinality(PagesOf(n)) = 4
    /\ \A m, n \in DOMAIN tasks : m # n => PagesOf(m) \cap PagesOf(n) = {}
    /\ ~raced => \A n \in DOMAIN tasks : sTopAddr \notin PagesOf(n)

(***************************************************************************)
(* task_init clears page directory entry 0x400, one past the end of the    *)
(* directory (the loop starts at i = 0x80 although entry 0x80 is written). *)
(* The entry is the first of the task's own page table, which is filled in *)
(* afterwards.                                                             *)
(***************************************************************************)
SpillIsHarmless == \A n \in DOMAIN tasks : tasks[n].pt = tasks[n].pd + 1

(***************************************************************************)
(* The far jump in a task's context_switch function names a descriptor of  *)
(* this task's TSS that the processor takes for one, and the task register *)
(* goes on naming the kernel task's, whatever later tasks do to the table. *)
(* That holds for the tasks whose entries the table leaves free: init_gdt  *)
(* does not write the system bit, so entry 6, where the third task's TSS   *)
(* goes, stays a code segment and the jump to it faults (FaultExplained).  *)
(***************************************************************************)
SwitchFindsTss ==
    /\ tr # 0 => IsTss(gdt[tr \div 8], 0)
    /\ \A n \in DOMAIN tasks : n <= 2 => IsTss(gdt[Selector(n) \div 8], n)

(***************************************************************************)
(* The functions there are: those above 0 of a device whose function 0 is  *)
(* there only if the device says that it has several.  Scanned are the     *)
(* ones below the limits of the loops.                                     *)
(***************************************************************************)
Answering == {p \in present : \/ p[3] = 0
                              \/ <<p[1], p[2], 0>> \notin present
                              \/ <<p[1], p[2]>> \in multi}

Scanned == {p \in Answering : p[1] < BusMax /\ p[2] < DevMax /\ p[3] < FuncMax}

Listed == {pci_devices[n] : n \in DOMAIN pci_devices}

Earlier(p, q) == \/ p[1] < q[1]
                 \/ p[1] = q[1] /\ p[2] < q[2]
                 \/ p[1] = q[1] /\ p[2] = q[2] /\ p[3] < q[3]

(***************************************************************************)
(* find_pci_device lists only functions that are there, each once and the  *)
(* latest first, and when it is done no function below the limits of its   *)
(* loops is missing (those at the limits: AllDevicesFound).  The driver    *)
(* turns bus mastering on in one listed function, the last IDE function    *)
(* that was found.                                                         *)
(***************************************************************************)
ScanIsExact ==
    /\ Listed \subseteq Answering
    /\ \A m, n \in DOMAIN pci_devices :
          m < n => Earlier(pci_devices[n], pci_devices[m])
    /\ kpc \in {"ata", "register", "open", "done"} => Scanned \subseteq Listed
    /\ kpc \in {"register", "open", "done"}
          => mastering = {p \in Listed \cap AtaFns :
                             \A q \in Listed \cap AtaFns : ~Earlier(p, q)}

(***************************************************************************)
(* pci.c:344 "Find all PCI devices.", pci.c:271 "Check all function        *)
(* numbers.": whatever bus, device or function number it has, a function   *)
(* that is there is listed.                                                *)
(***************************************************************************)
AllDevicesFound ==
    kpc \in {"ata", "register", "open", "done"} => Answering \subseteq Listed

(***************************************************************************)
(* The machine is lost in three cases only: kern_init calls open through   *)
(* the NULL get_blk_driver returned, when the scan found no IDE            *)
(* controller; a third task takes the place of the user code segment; and  *)
(* the race inside mem_alloc gives kmalloc the page directory of a new     *)
(* task, which the first record of the PCI list then wipes.  In particular *)
(* every page the kernel writes is mapped, user code reaches the system    *)
(* call gate, and the first timer interrupt finds the task register and a  *)
(* TSS to switch to.                                                       *)
(***************************************************************************)
FaultExplained ==
    fault => \/ kpc = "open" /\ Listed \cap AtaFns = {}
             \/ Len(tasks) > 2
             \/ \E n \in DOMAIN tasks : Wiped(n) /\ raced

(***************************************************************************)
(* No interrupt is taken before its handler is there: every line that is   *)
(* let through while IF is set reaches a handler that sends the EOI, so    *)
(* the timer and the keyboard are never silenced (a line without an EOI    *)
(* raises no second interrupt).                                            *)
(***************************************************************************)
InterruptsServed ==
    /\ lost = {}
    /\ IF_bit => pic.mask = Lines \ {0, 1}
=============================================================================
