----------------------------- MODULE BootProofs -----------------------------
(***************************************************************************)
(* The start-up of the kernel, for every number of buses, devices and      *)
(* functions, every set of populated slots, every heap that holds the      *)
(* pages of three tasks, and every size of the list nodes.                 *)
(***************************************************************************)
EXTENDS Boot, FiniteSetTheorems, WellFoundedInduction, TLAPS

(***************************************************************************)
(* The set-up: what each step of kern_init may rely on.                    *)
(***************************************************************************)
Early == {"start", "kern_task", "tasks", "paging", "gates", "gate_kb", "gate_128",
          "pic", "unmask", "sti"}
NoTask == {"start", "kern_task", "tasks"}

SetupOK ==
    /\ kpc \in Early =>
          /\ ~IF_bit /\ ~user /\ ~fault /\ ~raced /\ lost = {}
          /\ pending = NoPage /\ sTopAddr = NoPage
          /\ pos = <<0, 0, 0>> /\ pci_devices = <<>> /\ blk_drivers = <<>>
          /\ mastering = {}
    /\ kpc \notin Early => IF_bit
    /\ kpc \in NoTask => tasks = <<>>
    /\ kpc \notin NoTask => tasks # <<>>
    /\ kpc \in NoTask \cup {"paging"} => ~paging
    /\ kpc \notin NoTask \cup {"paging"} => paging

\* The gates and the interrupt controller.
GatesOK ==
    /\ kpc \notin NoTask \cup {"paging", "gates"} => idt[32][1] = "timer_handler"
    /\ kpc \notin NoTask \cup {"paging", "gates", "gate_kb"}
          => idt[33][1] = "keyboard_handler"
    /\ kpc \notin NoTask \cup {"paging", "gates", "gate_kb", "gate_128"}
          => idt[128] = <<"syscall_handler", 3>>
    /\ kpc = "unmask" => pic = [base |-> 32, mask |-> Lines]
    /\ kpc = "sti" \/ kpc \notin Early => pic = [base |-> 32, mask |-> Lines \ {0, 1}]

\* The task register and the descriptors: task n has entry n + 3.
TablesOK ==
    /\ kpc \in {"start", "kern_task"} => tr = 0
    /\ kpc \notin {"start", "kern_task"} => tr = 24 /\ IsTss(gdt[3], 0)
    /\ \A k \in 3 .. 5 : gdt[k].s = 0
    /\ \A n \in DOMAIN tasks : n <= 2 => IsTss(gdt[n + 3], n)
    /\ Len(tasks) <= 2 => gdt[6] = UserCode

(***************************************************************************)
(* The page allocator: the pages in use are the first ones, four for each  *)
(* task and one for kmalloc, unless a race gave kmalloc a page of a task.  *)
(***************************************************************************)
Top == 4 * Len(tasks) + (IF sTopAddr # NoPage /\ ~raced THEN 1 ELSE 0)

MemOK ==
    /\ heap_alloc_table = 0 .. Top - 1
    /\ pending # NoPage =>
          /\ sTopAddr = NoPage
          /\ raced => pending \in heap_alloc_table
          /\ ~raced => pending = Top
    /\ raced => pending # NoPage \/ sTopAddr # NoPage
    /\ sTopAddr # NoPage => sTopAddr \in heap_alloc_table
    /\ \A n \in DOMAIN tasks :
          /\ tasks[n].pt = tasks[n].pd + 1 /\ tasks[n].task = tasks[n].pd + 2
          /\ tasks[n].stack = tasks[n].pd + 3 /\ tasks[n].pd + 4 <= Top
          /\ sTopAddr # NoPage /\ ~raced =>
                sTopAddr < tasks[n].pd \/ sTopAddr > tasks[n].pd + 3
    /\ \A m, n \in DOMAIN tasks : m < n => tasks[m].pd + 4 <= tasks[n].pd

\* At most two tasks run; the third one ends in a fault.
TaskBound == Len(tasks) <= 3 /\ (~fault => Len(tasks) <= 2)

(***************************************************************************)
(* The scan: the list holds what the loops have passed, the latest first.  *)
(***************************************************************************)
Found  == kpc \in {"ata", "register", "open", "done"}

Descending == \A m, n \in DOMAIN pci_devices :
                  m < n => Earlier(pci_devices[n], pci_devices[m])

ScanOK ==
    /\ Descending
    /\ Listed \subseteq Scanned
    /\ kpc \in Early \cup {"scan", "store"} =>
          /\ Listed = {p \in Scanned : Earlier(p, pos)}
          /\ pos[3] # 0 => <<pos[1], pos[2], 0>> \notin present
                             \/ <<pos[1], pos[2]>> \in multi
    /\ kpc = "store" => pos \in present
    /\ Found => Listed = Scanned
    /\ kpc = "ata" => mastering = {}
    /\ kpc \in {"scan", "store"} => mastering = {}
    /\ kpc = "open" => Scanned \cap AtaFns = {} \/ blk_drivers # <<>>

LastFound == {p \in Scanned \cap AtaFns : \A q \in Scanned \cap AtaFns : ~Earlier(p, q)}
MasterOK == kpc \in {"register", "open", "done"} => mastering = LastFound

BootInv == /\ TypeOK /\ SetupOK /\ GatesOK /\ TablesOK /\ MemOK /\ TaskBound
           /\ ScanOK /\ MasterOK /\ FaultExplained /\ lost = {}

----------------------------------------------------------------------------
(***************************************************************************)
(* Facts about numbers, positions and the page search.                     *)
(***************************************************************************)
LEMMA NatLeast ==
    ASSUME NEW S, S \subseteq Nat, S # {}
    PROVE  \E m \in S : \A n \in S : m <= n
<1>1. PICK m \in S : \A n \in S : <<n, m>> \notin OpToRel(<, Nat)
  BY NatLessThanWellFounded, WFMin, Zenon
<1>2. \A n \in S : ~(n < m)
  BY <1>1 DEF OpToRel
<1> QED BY <1>2

\* Min picks that least element.
LEMMA MinIsLeast ==
    ASSUME NEW S, S \subseteq Nat, S # {}
    PROVE  Min(S) \in S /\ \A n \in S : Min(S) <= n
  BY NatLeast DEF Min

\* A list with an entry has a first one.
LEMMA NonEmpty ==
    ASSUME NEW x, NEW s \in Seq({x}), s # <<>>
    PROVE  1 \in DOMAIN s /\ s[1] = x
<1>1. Len(s) \in Nat /\ Len(s) # 0 /\ DOMAIN s = 1 .. Len(s)
  OBVIOUS
<1>2. 1 \in DOMAIN s
  BY <1>1
<1>3. \A n \in DOMAIN s : s[n] \in {x}
  BY <1>1
<1> QED BY <1>2, <1>3

\* mem_alloc's loop on a table whose first n entries are taken stops at n.
LEMMA FirstFree ==
    ASSUME NEW n \in Nat, n < HeapPages
    PROVE  FirstFit(0 .. n - 1) = n
<1>0. HeapPages \in Nat
  BY BootAssumption
<1> DEFINE S == Pages \ (0 .. n - 1)
<1>1. n \in S /\ S \subseteq Nat /\ \A m \in S : n <= m
  BY <1>0 DEF Pages
<1> HIDE DEF S
<1>2. Min(S) \in S /\ \A m \in S : Min(S) <= m
  BY <1>1, MinIsLeast
<1>3. Min(S) = n
  <2>1. Min(S) \in Nat /\ Min(S) <= n /\ n <= Min(S)
    BY <1>1, <1>2
  <2> QED BY <2>1
<1>4. ~(Pages \subseteq 0 .. n - 1)
  BY <1>1 DEF S
<1> QED BY <1>3, <1>4 DEF FirstFit, S

\* Taking the first free page leaves the pages in use without a gap.
LEMMA TakeNext ==
    ASSUME NEW n \in Nat
    PROVE  Taken(0 .. n - 1, n) = 0 .. (n + 1) - 1
<1>1. n # NoPage
  BY DEF NoPage
<1>2. (0 .. n - 1) \cup {n} = 0 .. (n + 1) - 1
  OBVIOUS
<1> QED BY <1>1, <1>2 DEF Taken

\* The pages in use, by the number of tasks.
LEMMA TopBounds ==
    ASSUME TypeOK
    PROVE  /\ Len(tasks) \in Nat /\ Top \in Nat
           /\ Top = 4 * Len(tasks) \/ Top = 4 * Len(tasks) + 1
<1>1. Len(tasks) \in Nat
  <2>1. \E S : tasks \in Seq(S)
    BY DEF TypeOK
  <2> QED BY <2>1
<1> DEFINE one == IF sTopAddr # NoPage /\ ~raced THEN 1 ELSE 0
<1>2. one = 0 \/ one = 1
  OBVIOUS
<1>3. Top = 4 * Len(tasks) + one
  BY DEF Top
<1> HIDE DEF one
<1> QED BY <1>1, <1>2, <1>3

(***************************************************************************)
(* task_init, while at most two tasks exist: it does not stop, and the new *)
(* task gets the next four pages and the next descriptor.                  *)
(***************************************************************************)
LEMMA TaskInitOK ==
    ASSUME BootInv, ~fault, NEW stops \in BOOLEAN, task_init(stops)
    PROVE  /\ stops = FALSE
           /\ heap_alloc_table' = 0 .. Top + 3
           /\ tasks' = Append(tasks, [pd |-> Top, pt |-> Top + 1,
                                      task |-> Top + 2, stack |-> Top + 3])
           /\ gdt' = init_gdt(gdt, Len(tasks) + 4, Len(tasks) + 1, 3)
           /\ Top \in 0 .. 9
<1>1. Len(tasks) \in 0 .. 2
  <2>1. Len(tasks) \in Nat
    BY TopBounds DEF BootInv
  <2>2. Len(tasks) <= 2
    BY DEF BootInv, TaskBound
  <2>3. \A l \in Nat : l <= 2 => l \in 0 .. 2
    OBVIOUS
  <2> QED BY <2>1, <2>2, <2>3
<1>2. Top \in 0 .. 9
  <2>1. Top = 4 * Len(tasks) \/ Top = 4 * Len(tasks) + 1
    BY TopBounds DEF BootInv
  <2>2. \A l \in 0 .. 2 : 4 * l \in 0 .. 9 /\ 4 * l + 1 \in 0 .. 9
    OBVIOUS
  <2> QED BY <1>1, <2>1, <2>2
<1>3. HeapPages \in Nat /\ HeapPages >= 13
  BY BootAssumption
<1>4. heap_alloc_table = 0 .. Top - 1
  BY DEF BootInv, MemOK
<1> DEFINE T == Top
<1> HIDE DEF T
<1>5. T \in 0 .. 9 /\ heap_alloc_table = 0 .. T - 1
  BY <1>2, <1>4 DEF T
<1>6. /\ FirstFit(0 .. T - 1) = T /\ Taken(0 .. T - 1, T) = 0 .. (T + 1) - 1
      /\ FirstFit(0 .. (T + 1) - 1) = T + 1
      /\ Taken(0 .. (T + 1) - 1, T + 1) = 0 .. (T + 2) - 1
      /\ FirstFit(0 .. (T + 2) - 1) = T + 2
      /\ Taken(0 .. (T + 2) - 1, T + 2) = 0 .. (T + 3) - 1
      /\ FirstFit(0 .. (T + 3) - 1) = T + 3
      /\ Taken(0 .. (T + 3) - 1, T + 3) = 0 .. (T + 4) - 1
  <2>1. T \in Nat /\ T < HeapPages
    BY <1>3, <1>5
  <2>2. T + 1 \in Nat /\ T + 1 < HeapPages /\ (T + 1) + 1 = T + 2
    BY <1>3, <1>5
  <2>3. T + 2 \in Nat /\ T + 2 < HeapPages /\ (T + 2) + 1 = T + 3
    BY <1>3, <1>5
  <2>4. T + 3 \in Nat /\ T + 3 < HeapPages /\ (T + 3) + 1 = T + 4
    BY <1>3, <1>5
  <2>5. FirstFit(0 .. T - 1) = T /\ Taken(0 .. T - 1, T) = 0 .. (T + 1) - 1
    BY <2>1, FirstFree, TakeNext
  <2>6. FirstFit(0 .. (T + 1) - 1) = T + 1 /\ Taken(0 .. (T + 1) - 1, T + 1) = 0 .. (T + 2) - 1
    BY <2>2, FirstFree, TakeNext
  <2>7. FirstFit(0 .. (T + 2) - 1) = T + 2 /\ Taken(0 .. (T + 2) - 1, T + 2) = 0 .. (T + 3) - 1
    BY <2>3, FirstFree, TakeNext
  <2>8. FirstFit(0 .. (T + 3) - 1) = T + 3 /\ Taken(0 .. (T + 3) - 1, T + 3) = 0 .. (T + 4) - 1
    BY <2>4, FirstFree, TakeNext
  <2> QED BY <2>5, <2>6, <2>7, <2>8
<1> DEFINE new == TaskPages(heap_alloc_table)
<1>7. /\ new.table = 0 .. (T + 4) - 1
      /\ new.pages = [pd |-> T, pt |-> T + 1, task |-> T + 2, stack |-> T + 3]
  BY <1>5, <1>6, Zenon DEF TaskPages
<1>8. \A p \in {T, T + 1, T + 2} : Writable(p)
  BY <1>5 DEF Writable, NoPage, KernelMaps, Frame
<1>9. \A p \in {new.pages.pd, new.pages.pt, new.pages.task} : Writable(p)
  BY <1>7, <1>8
<1>10. stops = FALSE
  BY <1>9 DEF task_init
<1>11. (T + 4) - 1 = T + 3 /\ Len(tasks) + 1 + 3 = Len(tasks) + 4
  BY <1>1, <1>5
<1> QED BY <1>2, <1>7, <1>10, <1>11 DEF task_init, T

\* The list of tasks and the tables after such a task_init.
LEMMA NewTask ==
    ASSUME BootInv, ~fault, NEW stops \in BOOLEAN, task_init(stops)
    PROVE  /\ stops = FALSE
           /\ tasks' # <<>> /\ Len(tasks') = Len(tasks) + 1
           /\ Len(tasks) \in 0 .. 2 /\ DOMAIN tasks' = 1 .. Len(tasks) + 1
           /\ \A n \in DOMAIN tasks : n \in DOMAIN tasks' /\ tasks'[n] = tasks[n]
           /\ tasks'[Len(tasks) + 1] = [pd |-> Top, pt |-> Top + 1,
                                       task |-> Top + 2, stack |-> Top + 3]
<1> DEFINE rec == [pd |-> Top, pt |-> Top + 1, task |-> Top + 2, stack |-> Top + 3]
<1>1. stops = FALSE /\ tasks' = Append(tasks, rec)
  BY TaskInitOK
<1> HIDE DEF rec
<1>2. PICK S : tasks \in Seq(S)
  BY DEF BootInv, TypeOK
<1>3. Len(tasks) \in 0 .. 2
  <2>1. Len(tasks) \in Nat
    BY <1>2
  <2>2. Len(tasks) <= 2
    BY DEF BootInv, TaskBound
  <2>3. \A l \in Nat : l <= 2 => l \in 0 .. 2
    OBVIOUS
  <2> QED BY <2>1, <2>2, <2>3
<1>4. tasks \in Seq(S \cup {rec}) /\ rec \in S \cup {rec}
  BY <1>2
<1>5. /\ Len(tasks') = Len(tasks) + 1 /\ DOMAIN tasks' = 1 .. Len(tasks) + 1
      /\ tasks'[Len(tasks) + 1] = rec
      /\ \A n \in 1 .. Len(tasks) : tasks'[n] = tasks[n]
  BY <1>1, <1>4
<1>6. tasks' # <<>>
  BY <1>1, <1>4
<1>7. DOMAIN tasks = 1 .. Len(tasks)
  BY <1>2
<1>8. \A n \in DOMAIN tasks : n \in DOMAIN tasks' /\ tasks'[n] = tasks[n]
  BY <1>3, <1>5, <1>7
<1> QED BY <1>1, <1>3, <1>5, <1>6, <1>8 DEF rec

----------------------------------------------------------------------------
(***************************************************************************)
(* Which steps change a variable, and how.                                 *)
(***************************************************************************)
LEMMA Changes ==
    ASSUME [Next]_vars
    PROVE  /\ UNCHANGED <<present, multi>>
           /\ init_ata_disk_driver \/ UNCHANGED mastering
           /\ \/ UNCHANGED heap_alloc_table \/ mem_alloc_mark
              \/ \E stops \in BOOLEAN : task_init(stops) /\ ~fault
           /\ \/ UNCHANGED <<pending, sTopAddr>>
              \/ pending' = FirstFit(heap_alloc_table) /\ UNCHANGED sTopAddr
              \/ pending' = NoPage /\ sTopAddr' = pending
           /\ \/ UNCHANGED sTotalSize \/ sTotalSize' = sTotalSize + PciNode
              \/ sTotalSize' = sTotalSize + BlkNode
           /\ UNCHANGED pos \/ (Advance /\ kpc \in {"scan", "store"})
           /\ \/ UNCHANGED pci_devices
              \/ kpc = "store" /\ pci_devices' = <<pos>> \o pci_devices
           /\ UNCHANGED blk_drivers \/ blk_drivers' = <<"ATA disk">> \o blk_drivers
           /\ UNCHANGED tasks \/ \E stops \in BOOLEAN : task_init(stops) /\ ~fault
           /\ UNCHANGED gdt \/ gdt' = init_gdt(gdt, 3, 0, 0)
              \/ \E stops \in BOOLEAN : task_init(stops) /\ ~fault
           /\ UNCHANGED idt \/ DOMAIN idt' = Vectors \/ DOMAIN idt' = DOMAIN idt
           /\ UNCHANGED tr \/ tr' = 24
           /\ \/ UNCHANGED pic \/ pic' = [base |-> 32, mask |-> Lines]
              \/ pic' = [pic EXCEPT !.mask = @ \ {0, 1}]
           /\ UNCHANGED IF_bit \/ IF_bit' = TRUE
           /\ UNCHANGED paging \/ paging' = TRUE
           /\ UNCHANGED fault \/ fault' \in BOOLEAN
           /\ UNCHANGED raced \/ raced' \in BOOLEAN
           /\ UNCHANGED user \/ \E line \in Lines : interrupt(line)
           /\ UNCHANGED kpc \/ kpc' \in {"kern_task", "tasks", "paging", "gates", "gate_kb",
                 "gate_128", "pic", "unmask", "sti", "scan", "store", "ata", "register", "open",
                 "done", "abort"}
<1>0. 8 * 3 = 24
  OBVIOUS
<1> USE DEF Next, vars, bus, machine, set_exception_handlers, kern_task_init, task_init_fshell,
       Setup, mem_page_start, set_interrupt_handlers, intr_init, intr_set_mask_master, sti,
       interrupt, wiped_task_runs, sys_exec, find_pci_data, mem_alloc_search, mem_alloc_mark,
       store_pci_device_to_list, init_ata_disk_driver, register_blk_driver, kern_init_open
<1>1. UNCHANGED <<present, multi>>
  OBVIOUS
<1>2. init_ata_disk_driver \/ UNCHANGED mastering
  OBVIOUS
<1>3. \/ UNCHANGED heap_alloc_table \/ mem_alloc_mark
      \/ \E stops \in BOOLEAN : task_init(stops) /\ ~fault
  OBVIOUS
<1>4. \/ UNCHANGED <<pending, sTopAddr>>
      \/ pending' = FirstFit(heap_alloc_table) /\ UNCHANGED sTopAddr
      \/ pending' = NoPage /\ sTopAddr' = pending
  OBVIOUS
<1>5. \/ UNCHANGED sTotalSize \/ sTotalSize' = sTotalSize + PciNode
      \/ sTotalSize' = sTotalSize + BlkNode
  BY DEF kmalloc
<1>6. UNCHANGED pos \/ (Advance /\ kpc \in {"scan", "store"})
  OBVIOUS
<1>7. \/ UNCHANGED pci_devices
      \/ kpc = "store" /\ pci_devices' = <<pos>> \o pci_devices
  OBVIOUS
<1>8. UNCHANGED blk_drivers \/ blk_drivers' = <<"ATA disk">> \o blk_drivers
  OBVIOUS
<1>9. UNCHANGED tasks \/ \E stops \in BOOLEAN : task_init(stops) /\ ~fault
  OBVIOUS
<1>10. UNCHANGED gdt \/ gdt' = init_gdt(gdt, 3, 0, 0)
       \/ \E stops \in BOOLEAN : task_init(stops) /\ ~fault
  OBVIOUS
<1>11. UNCHANGED idt \/ DOMAIN idt' = Vectors \/ DOMAIN idt' = DOMAIN idt
  BY DEF intr_set_handler
<1>12. UNCHANGED tr \/ tr' = 24
  BY <1>0, Zenon
<1>13. \/ UNCHANGED pic \/ pic' = [base |-> 32, mask |-> Lines]
       \/ pic' = [pic EXCEPT !.mask = @ \ {0, 1}]
  BY DEF Icw2
<1>14. /\ UNCHANGED IF_bit \/ IF_bit' = TRUE
       /\ UNCHANGED paging \/ paging' = TRUE
  OBVIOUS
<1>15. UNCHANGED fault \/ fault' \in BOOLEAN
  OBVIOUS
<1>16. UNCHANGED raced \/ raced' \in BOOLEAN
  OBVIOUS
<1>17. UNCHANGED user \/ \E line \in Lines : interrupt(line)
  OBVIOUS
<1>18. UNCHANGED kpc \/ kpc' \in {"kern_task", "tasks", "paging", "gates", "gate_kb",
       "gate_128", "pic", "unmask", "sti", "scan", "store", "ata", "register", "open",
       "done", "abort"}
  BY DEF Advance
<1> HIDE DEF Next, vars, bus, machine, set_exception_handlers, kern_task_init, task_init_fshell,
       Setup, mem_page_start, set_interrupt_handlers, intr_init, intr_set_mask_master, sti,
       interrupt, wiped_task_runs, sys_exec, find_pci_data, mem_alloc_search, mem_alloc_mark,
       store_pci_device_to_list, init_ata_disk_driver, register_blk_driver, kern_init_open
<1> QED BY <1>1, <1>2, <1>3, <1>4, <1>5, <1>6, <1>7, <1>8, <1>9, <1>10, <1>11, <1>12, <1>13,
  <1>14, <1>15, <1>16, <1>17, <1>18

\* The order of the set-up.
LEMMA SetupStep ==
    ASSUME BootInv, [Next]_vars
    PROVE  SetupOK'
<1>1. CASE set_exception_handlers
  BY <1>1 DEF BootInv, SetupOK, Early, NoTask, TypeOK, bus, set_exception_handlers, Setup
<1>2. CASE kern_task_init
  BY <1>2 DEF BootInv, SetupOK, Early, NoTask, TypeOK, bus, kern_task_init, Setup
<1>3. CASE task_init_fshell
  <2>1. tasks' # <<>> /\ ~fault'
    BY <1>3, NewTask DEF task_init_fshell, Setup
  <2> QED BY <1>3, <2>1 DEF BootInv, SetupOK, Early, NoTask, TypeOK, bus, task_init_fshell,
    Setup, machine
<1>4. CASE mem_page_start
  BY <1>4 DEF BootInv, SetupOK, Early, NoTask, TypeOK, bus, mem_page_start, Setup
<1>5. CASE set_interrupt_handlers
  BY <1>5 DEF BootInv, SetupOK, Early, NoTask, bus, set_interrupt_handlers, Setup
<1>6. CASE intr_init
  BY <1>6 DEF BootInv, SetupOK, Early, NoTask, TypeOK, bus, intr_init, Setup, Icw2
<1>7. CASE intr_set_mask_master
  BY <1>7 DEF BootInv, SetupOK, Early, NoTask, TypeOK, bus, intr_set_mask_master, Setup
<1>8. CASE sti
  BY <1>8 DEF BootInv, SetupOK, Early, NoTask, TypeOK, bus, sti, Setup
<1>9. ASSUME NEW line \in Lines, interrupt(line)
      PROVE  SetupOK'
  BY <1>9 DEF BootInv, SetupOK, Early, NoTask, TypeOK, bus, interrupt, machine
<1>10. CASE sys_exec
  <2>1. tasks' # <<>> \/ UNCHANGED tasks
    BY <1>10, NewTask DEF sys_exec
  <2> QED BY <1>10, <2>1 DEF BootInv, SetupOK, Early, NoTask, TypeOK, bus, sys_exec, machine
<1>11. CASE find_pci_data
  BY <1>11 DEF BootInv, SetupOK, Early, NoTask, TypeOK, bus, find_pci_data, machine, Advance
<1>12. CASE mem_alloc_search
  BY <1>12 DEF BootInv, SetupOK, Early, NoTask, TypeOK, bus, mem_alloc_search, machine
<1>13. CASE mem_alloc_mark
  BY <1>13 DEF BootInv, SetupOK, Early, NoTask, TypeOK, bus, mem_alloc_mark, machine
<1>14. CASE store_pci_device_to_list
  BY <1>14 DEF BootInv, SetupOK, Early, NoTask, TypeOK, bus, store_pci_device_to_list, machine,
     Advance, kmalloc
<1>15. CASE init_ata_disk_driver
  BY <1>15 DEF BootInv, SetupOK, Early, NoTask, TypeOK, bus, init_ata_disk_driver, machine,
     set_bus_master_bit, pci_data_write
<1>16. CASE register_blk_driver
  BY <1>16 DEF BootInv, SetupOK, Early, NoTask, TypeOK, bus, register_blk_driver, machine, kmalloc
<1>17. CASE kern_init_open
  BY <1>17 DEF BootInv, SetupOK, Early, NoTask, TypeOK, bus, kern_init_open, machine
<1>19. CASE wiped_task_runs
  BY <1>19 DEF BootInv, SetupOK, Early, NoTask, TypeOK, bus, wiped_task_runs, machine
<1>18. CASE UNCHANGED vars
  BY <1>18 DEF BootInv, SetupOK, Early, NoTask, TypeOK, bus, vars, machine
<1> QED BY <1>1, <1>2, <1>3, <1>4, <1>5, <1>6, <1>7, <1>8, <1>9, <1>10, <1>11, <1>12, <1>13,
  <1>14, <1>15, <1>16, <1>17, <1>18, <1>19 DEF Next

\* The gates and the interrupt controller.
LEMMA GatesStep ==
    ASSUME BootInv, [Next]_vars
    PROVE  GatesOK'
<1>1. CASE set_exception_handlers
  BY <1>1 DEF BootInv, GatesOK, SetupOK, Early, NoTask, TypeOK, bus, set_exception_handlers, Setup
<1>2. CASE kern_task_init
  BY <1>2 DEF BootInv, GatesOK, SetupOK, Early, NoTask, TypeOK, bus, kern_task_init, Setup
<1>3. CASE task_init_fshell
  BY <1>3 DEF BootInv, GatesOK, SetupOK, Early, NoTask, TypeOK, bus, task_init_fshell, Setup,
     machine
<1>4. CASE mem_page_start
  BY <1>4 DEF BootInv, GatesOK, SetupOK, Early, NoTask, TypeOK, bus, mem_page_start, Setup
<1>5. CASE set_interrupt_handlers
  <2>1. DOMAIN idt = Vectors /\ 32 \in Vectors /\ 33 \in Vectors /\ 128 \in Vectors
    <3>1. DOMAIN idt = Vectors
      BY DEF BootInv, TypeOK
    <3> QED BY <3>1 DEF Vectors
  <2>2. CASE Setup("gates", "gate_kb") /\ intr_set_handler(32, "timer_handler")
    BY <1>5, <2>1, <2>2 DEF BootInv, GatesOK, Early, NoTask, Setup, set_interrupt_handlers,
                            intr_set_handler, Gate
  <2>3. CASE Setup("gate_kb", "gate_128") /\ intr_set_handler(33, "keyboard_handler")
    BY <1>5, <2>1, <2>3 DEF BootInv, GatesOK, Early, NoTask, Setup, set_interrupt_handlers,
                            intr_set_handler, Gate
  <2>4. CASE Setup("gate_128", "pic") /\ intr_set_handler(128, "syscall_handler")
    BY <1>5, <2>1, <2>4 DEF BootInv, GatesOK, Early, NoTask, Setup, set_interrupt_handlers,
                            intr_set_handler, Gate
  <2> QED BY <1>5, <2>2, <2>3, <2>4 DEF set_interrupt_handlers
<1>6. CASE intr_init
  BY <1>6 DEF BootInv, GatesOK, SetupOK, Early, NoTask, TypeOK, bus, intr_init, Setup, Icw2
<1>7. CASE intr_set_mask_master
  <2>1. pic = [base |-> 32, mask |-> Lines]
    BY <1>7 DEF BootInv, GatesOK, intr_set_mask_master, Setup
  <2>2. pic' = [base |-> 32, mask |-> Lines \ {0, 1}]
    BY <1>7, <2>1 DEF intr_set_mask_master
  <2> QED BY <1>7, <2>2 DEF BootInv, GatesOK, Early, NoTask, intr_set_mask_master, Setup
<1>8. CASE sti
  BY <1>8 DEF BootInv, GatesOK, SetupOK, Early, NoTask, TypeOK, bus, sti, Setup
<1>9. ASSUME NEW line \in Lines, interrupt(line)
      PROVE  GatesOK'
  BY <1>9 DEF BootInv, GatesOK, SetupOK, Early, NoTask, TypeOK, bus, interrupt, machine
<1>10. CASE sys_exec
  BY <1>10 DEF BootInv, GatesOK, SetupOK, Early, NoTask, TypeOK, bus, sys_exec, machine
<1>11. CASE find_pci_data
  BY <1>11 DEF BootInv, GatesOK, SetupOK, Early, NoTask, TypeOK, bus, find_pci_data, machine,
     Advance
<1>12. CASE mem_alloc_search
  BY <1>12 DEF BootInv, GatesOK, SetupOK, Early, NoTask, TypeOK, bus, mem_alloc_search, machine
<1>13. CASE mem_alloc_mark
  BY <1>13 DEF BootInv, GatesOK, SetupOK, Early, NoTask, TypeOK, bus, mem_alloc_mark, machine
<1>14. CASE store_pci_device_to_list
  BY <1>14 DEF BootInv, GatesOK, SetupOK, Early, NoTask, TypeOK, bus, store_pci_device_to_list,
     machine, Advance, kmalloc
<1>15. CASE init_ata_disk_driver
  BY <1>15 DEF BootInv, GatesOK, SetupOK, Early, NoTask, TypeOK, bus, init_ata_disk_driver,
     machine, set_bus_master_bit, pci_data_write
<1>16. CASE register_blk_driver
  BY <1>16 DEF BootInv, GatesOK, SetupOK, Early, NoTask, TypeOK, bus, register_blk_driver,
     machine, kmalloc
<1>17. CASE kern_init_open
  BY <1>17 DEF BootInv, GatesOK, SetupOK, Early, NoTask, TypeOK, bus, kern_init_open, machine
<1>19. CASE wiped_task_runs
  BY <1>19 DEF BootInv, GatesOK, SetupOK, Early, NoTask, TypeOK, bus, wiped_task_runs, machine
<1>18. CASE UNCHANGED vars
  BY <1>18 DEF BootInv, GatesOK, SetupOK, Early, NoTask, TypeOK, bus, vars, machine
<1> QED BY <1>1, <1>2, <1>3, <1>4, <1>5, <1>6, <1>7, <1>8, <1>9, <1>10, <1>11, <1>12, <1>13,
  <1>14, <1>15, <1>16, <1>17, <1>18, <1>19 DEF Next

(***************************************************************************)
(* An interrupt that is let through finds its handler, and the timer finds *)
(* the TSS of each task and the user code segment.                         *)
(***************************************************************************)
LEMMA SwitchOK ==
    ASSUME BootInv, ~fault, NEW n \in DOMAIN tasks
    PROVE  CanSwitchTo(n)
<1>1. n \in 1 .. 2 /\ Len(tasks) <= 2
  <2>1. PICK S : tasks \in Seq(S)
    BY DEF BootInv, TypeOK
  <2>2. Len(tasks) \in Nat /\ n \in 1 .. Len(tasks)
    BY <2>1
  <2>3. Len(tasks) <= 2
    BY DEF BootInv, TaskBound
  <2>4. \A l \in Nat : l <= 2 /\ n \in 1 .. l => n \in 1 .. 2
    OBVIOUS
  <2> QED BY <2>2, <2>3, <2>4
<1>2. IsTss(gdt[n + 3], n) /\ gdt[6] = UserCode
  BY <1>1 DEF BootInv, TablesOK
<1>3. Selector(n) \div 8 = n + 3
  <2>1. CASE n = 1
    BY <2>1 DEF Selector
  <2>2. CASE n = 2
    BY <2>2 DEF Selector
  <2> QED BY <1>1, <2>1, <2>2
<1>4. tr # 0
  <2>1. kpc \notin {"start", "kern_task"}
    BY <1>1 DEF BootInv, SetupOK, NoTask
  <2> QED BY <2>1 DEF BootInv, TablesOK
<1> QED BY <1>2, <1>3, <1>4 DEF CanSwitchTo

\* After sti only the timer and the keyboard interrupt, and both find their handlers.
LEMMA Served ==
    ASSUME BootInv, NEW line \in Lines, interrupt(line)
    PROVE  UNCHANGED <<fault, lost>> /\ user' \in BOOLEAN
<1>1. kpc \notin Early /\ ~fault
  BY DEF BootInv, SetupOK, interrupt
<1>2. /\ pic = [base |-> 32, mask |-> Lines \ {0, 1}]
      /\ idt[32][1] = "timer_handler" /\ idt[33][1] = "keyboard_handler"
  BY <1>1 DEF BootInv, GatesOK, Early, NoTask
<1>3. line \in {0, 1}
  BY <1>2 DEF interrupt
<1>4. user \in BOOLEAN
  BY DEF BootInv, TypeOK
<1>5. CASE line = 0
  <2>1. idt[pic.base + line][1] = "timer_handler"
    BY <1>2, <1>5
  <2>2. /\ \E n \in DOMAIN tasks : IF CanSwitchTo(n) THEN user' = TRUE /\ UNCHANGED fault
                                    ELSE fault' = TRUE /\ UNCHANGED user
        /\ UNCHANGED lost
    BY <2>1 DEF interrupt
  <2> QED BY <1>1, <2>2, SwitchOK
<1>6. CASE line = 1
  <2>1. idt[pic.base + line][1] = "keyboard_handler"
    BY <1>2, <1>6
  <2> QED BY <1>4, <2>1 DEF interrupt
<1> QED BY <1>3, <1>5, <1>6

\* init_gdt sets the base, the type and the present bit of one entry and leaves
\* its system bit alone.
Written(table, idx, base, new) ==
    /\ \A k \in 0 .. 7 : k # idx => new[k] = table[k]
    /\ new[idx].type = 9 /\ new[idx].p = 1 /\ new[idx].base = base
    /\ new[idx].s = table[idx].s

LEMMA WrittenDescriptor ==
    ASSUME NEW table \in [0 .. 7 -> Descriptors], NEW idx \in 0 .. 7,
           NEW base \in 0 .. 255, NEW dpl \in 0 .. 3
    PROVE  /\ init_gdt(table, idx, base, dpl) \in [0 .. 7 -> Descriptors]
           /\ Written(table, idx, base, init_gdt(table, idx, base, dpl))
<1> DEFINE d == table[idx]
           e == [d EXCEPT !.base = base, !.dpl = dpl, !.type = 9, !.p = 1]
<1>1. d \in Descriptors
  OBVIOUS
<1>2. e \in Descriptors
  <2>1. 9 \in 0 .. 15 /\ 1 \in 0 .. 1
    OBVIOUS
  <2> HIDE DEF d
  <2> QED BY <1>1, <2>1, ZenonT(60) DEF Descriptors
<1>3. e.type = 9 /\ e.p = 1 /\ e.base = base /\ e.s = d.s
  <2> HIDE DEF d
  <2> QED BY <1>1 DEF Descriptors
<1> HIDE DEF e
<1>4. init_gdt(table, idx, base, dpl) = [table EXCEPT ![idx] = e]
  BY DEF init_gdt, e
<1>5. /\ \A k \in 0 .. 7 : k # idx => [table EXCEPT ![idx] = e][k] = table[k]
      /\ [table EXCEPT ![idx] = e][idx] = e
      /\ [table EXCEPT ![idx] = e] \in [0 .. 7 -> Descriptors]
  BY <1>2
<1> QED BY <1>3, <1>4, <1>5 DEF Written

\* A system call finds its gate: exec is a task_init.
LEMMA ExecOK ==
    ASSUME BootInv, sys_exec
    PROVE  /\ \E stops \in BOOLEAN : task_init(stops) /\ fault' = (stops \/ gdt'[6] # UserCode)
           /\ raced' = (raced \/ pending # NoPage)
           /\ ~fault /\ kpc \notin Early
<1>1. kpc \notin Early /\ ~fault
  BY DEF BootInv, SetupOK, sys_exec
<1>2. idt[128] = <<"syscall_handler", 3>>
  BY <1>1 DEF BootInv, GatesOK, Early, NoTask
<1> QED BY <1>1, <1>2 DEF sys_exec

(***************************************************************************)
(* A new task gets the descriptor after the last one; the third takes      *)
(* entry 6, the user code segment's, and the iret of that exec faults.     *)
(***************************************************************************)
LEMMA TaskTables ==
    ASSUME BootInv, ~fault, kpc \notin {"start", "kern_task"}, NEW stops \in BOOLEAN,
           task_init(stops)
    PROVE  /\ gdt'[3] = gdt[3]
           /\ \A k \in 3 .. 5 : gdt'[k].s = 0
           /\ \A n \in DOMAIN tasks' : n <= 2 => IsTss(gdt'[n + 3], n)
           /\ Len(tasks') <= 2 => gdt'[6] = UserCode
           /\ Len(tasks') = 3 => gdt'[6] # UserCode
<1> DEFINE L == Len(tasks)
<1>1. /\ L \in 0 .. 2 /\ Len(tasks') = L + 1
      /\ DOMAIN tasks' = 1 .. L + 1
      /\ gdt' = init_gdt(gdt, L + 4, L + 1, 3)
  BY TaskInitOK, NewTask
<1>2. DOMAIN tasks = 1 .. L
  <2>1. PICK S : tasks \in Seq(S)
    BY DEF BootInv, TypeOK
  <2> QED BY <2>1
<1>3. /\ \A n \in 1 .. L : n <= 2 => IsTss(gdt[n + 3], n)
      /\ \A k \in 3 .. 5 : gdt[k].s = 0
      /\ L <= 2 => gdt[6] = UserCode
  BY <1>2 DEF BootInv, TablesOK
<1>4. gdt \in [0 .. 7 -> Descriptors]
  BY DEF BootInv, TypeOK
<1> HIDE DEF L
<1>5. L + 4 \in 4 .. 6
  BY <1>1
<1>6. /\ \A k \in 0 .. 7 : k # L + 4 => gdt'[k] = gdt[k]
      /\ gdt'[L + 4].type = 9 /\ gdt'[L + 4].p = 1 /\ gdt'[L + 4].base = L + 1
      /\ gdt'[L + 4].s = gdt[L + 4].s
  <2>1. L + 4 \in 0 .. 7 /\ L + 1 \in 0 .. 255 /\ 3 \in 0 .. 3
    <3>1. \A l \in 0 .. 2 : l + 4 \in 0 .. 7 /\ l + 1 \in 0 .. 255
      OBVIOUS
    <3> QED BY <1>1, <3>1
  <2>2. Written(gdt, L + 4, L + 1, init_gdt(gdt, L + 4, L + 1, 3))
    BY <1>4, <2>1, WrittenDescriptor, Zenon
  <2> QED BY <1>1, <2>2 DEF Written
<1>7. gdt'[3] = gdt[3]
  BY <1>5, <1>6
<1>8. \A k \in 3 .. 5 : gdt'[k].s = 0
  <2>1. \A k \in 3 .. 5 : k \in 0 .. 7
    OBVIOUS
  <2> QED BY <1>3, <1>6, <2>1
<1>9. ASSUME NEW n \in 1 .. L + 1, n <= 2
      PROVE  IsTss(gdt'[n + 3], n)
  <2>1. CASE n \in 1 .. L
    <3>1. n + 3 \in 0 .. 7 /\ n + 3 # L + 4
      BY <1>1, <2>1
    <3> QED BY <1>3, <1>6, <1>9, <2>1, <3>1
  <2>2. CASE n = L + 1
    <3>1. n + 3 = L + 4 /\ L + 4 \in 3 .. 5
      BY <1>1, <1>9, <2>2
    <3> QED BY <1>3, <1>6, <2>2, <3>1 DEF IsTss
  <2> QED BY <1>1, <1>9, <2>1, <2>2
<1>10. L + 1 <= 2 => gdt'[6] = UserCode
  <2>1. L + 1 <= 2 => 6 # L + 4 /\ L <= 2 /\ 6 \in 0 .. 7
    BY <1>1
  <2> QED BY <1>3, <1>6, <2>1
<1>11. L + 1 = 3 => gdt'[6] # UserCode
  <2>1. L + 1 = 3 => L + 4 = 6
    BY <1>1
  <2>2. UserCode.type = 10
    BY DEF UserCode, Segment
  <2> QED BY <1>6, <2>1, <2>2
<1> QED BY <1>1, <1>7, <1>8, <1>9, <1>10, <1>11

\* The task register and the descriptor tables.
LEMMA TablesStep ==
    ASSUME BootInv, [Next]_vars
    PROVE  TablesOK'
<1>1. CASE kern_task_init
  <2>1. gdt \in [0 .. 7 -> Descriptors] /\ gdt' = init_gdt(gdt, 3, 0, 0)
    BY <1>1 DEF BootInv, TypeOK, kern_task_init
  <2>2. tasks = <<>> /\ gdt[6] = UserCode /\ \A k \in 3 .. 5 : gdt[k].s = 0
    <3>1. tasks = <<>>
      BY <1>1 DEF BootInv, SetupOK, NoTask, kern_task_init, Setup
    <3> QED BY <3>1 DEF BootInv, TablesOK
  <2>3. /\ \A k \in 0 .. 7 : k # 3 => gdt'[k] = gdt[k]
        /\ gdt'[3].type = 9 /\ gdt'[3].p = 1 /\ gdt'[3].base = 0
        /\ gdt'[3].s = gdt[3].s
    <3>1. 3 \in 0 .. 7 /\ 0 \in 0 .. 255 /\ 0 \in 0 .. 3
      OBVIOUS
    <3>2. Written(gdt, 3, 0, init_gdt(gdt, 3, 0, 0))
      BY <2>1, <3>1, WrittenDescriptor, Zenon
    <3> QED BY <2>1, <3>2 DEF Written
  <2>4. IsTss(gdt'[3], 0) /\ gdt'[6] = UserCode /\ \A k \in 3 .. 5 : gdt'[k].s = 0
    <3>1. 6 \in 0 .. 7 /\ 3 \in 3 .. 5 /\ \A k \in 3 .. 5 : k \in 0 .. 7
      OBVIOUS
    <3> QED BY <2>2, <2>3, <3>1 DEF IsTss
  <2>5. tr' = 24 /\ tasks' = <<>>
    <3>1. 8 * 3 = 24
      OBVIOUS
    <3> QED BY <1>1, <2>2, <3>1 DEF kern_task_init, Setup
  <2>6. DOMAIN tasks' = {} /\ kpc' = "tasks"
    BY <1>1, <2>5 DEF kern_task_init, Setup
  <2> QED BY <2>4, <2>5, <2>6 DEF TablesOK, UserCode, Segment
<1>2. ASSUME ~fault, kpc \notin {"start", "kern_task"}, NEW stops \in BOOLEAN,
             task_init(stops), UNCHANGED tr, kpc' \notin {"start", "kern_task"}
      PROVE  TablesOK'
  BY <1>2, TaskTables DEF BootInv, TablesOK
<1>3. CASE task_init_fshell
  BY <1>2, <1>3 DEF task_init_fshell, Setup, machine
<1>4. CASE sys_exec
  BY <1>2, <1>4, ExecOK DEF sys_exec, machine, Early
<1>5. ASSUME UNCHANGED <<tr, gdt, tasks>>,
             kpc \in {"start", "kern_task"} <=> kpc' \in {"start", "kern_task"}
      PROVE  TablesOK'
  BY <1>5 DEF BootInv, TablesOK
<1>6. \/ kern_task_init \/ task_init_fshell \/ sys_exec
      \/ /\ UNCHANGED <<tr, gdt, tasks>>
         /\ kpc \in {"start", "kern_task"} <=> kpc' \in {"start", "kern_task"}
  BY DEF Next, vars, machine, set_exception_handlers, Setup, mem_page_start,
         set_interrupt_handlers, intr_init, intr_set_mask_master, sti, interrupt,
         wiped_task_runs, find_pci_data,
         Advance, mem_alloc_search, mem_alloc_mark, store_pci_device_to_list,
         init_ata_disk_driver, register_blk_driver, kern_init_open
<1> QED BY <1>1, <1>3, <1>4, <1>5, <1>6

LEMMA PageTypes ==
    ASSUME TypeOK
    PROVE  \A n \in DOMAIN tasks : tasks[n].pd \in Pages
<1> DEFINE R == [pd : Pages, pt : Pages, task : Pages, stack : Pages \cup {NoPage}]
<1>1. tasks \in Seq(R)
  BY DEF TypeOK
<1>2. \A t \in R : t.pd \in Pages
  OBVIOUS
<1> HIDE DEF R
<1>3. \A n \in DOMAIN tasks : tasks[n] \in R
  BY <1>1
<1> QED BY <1>2, <1>3

\* A task has lost its page directory to the PCI list only after the race.
LEMMA WipedAfterRace ==
    ASSUME BootInv, NEW n \in DOMAIN tasks, Wiped(n)
    PROVE  raced
<1>1. tasks[n].pd \in Pages /\ tasks[n].pd = sTopAddr
  BY PageTypes DEF BootInv, Wiped
<1>2. sTopAddr # NoPage /\ sTopAddr \in Nat
  BY <1>1, BootAssumption DEF Pages, NoPage
<1>3. ~raced => sTopAddr < tasks[n].pd \/ sTopAddr > tasks[n].pd + 3
  BY <1>2 DEF BootInv, MemOK
<1> QED BY <1>1, <1>2, <1>3

\* The fault conditions and the interrupts without an EOI.
LEMMA FaultStep ==
    ASSUME BootInv, [Next]_vars
    PROVE  TaskBound' /\ FaultExplained' /\ lost' = {}
<1>0. lost = {} /\ fault \in BOOLEAN
  BY DEF BootInv, TypeOK
<1>1. CASE task_init_fshell
  <2>1. PICK stops \in BOOLEAN : task_init(stops) /\ fault' = stops
    BY <1>1 DEF task_init_fshell
  <2>2. ~fault /\ UNCHANGED lost /\ tasks = <<>>
    BY <1>1 DEF task_init_fshell, Setup, BootInv, SetupOK, NoTask
  <2>3. ~fault' /\ Len(tasks') = Len(tasks) + 1
    BY <2>1, <2>2, NewTask
  <2>4. Len(tasks') = 1
    BY <2>2, <2>3
  <2>5. Len(tasks') <= 3 /\ Len(tasks') <= 2
    BY <2>4
  <2> QED BY <1>0, <2>2, <2>3, <2>5 DEF TaskBound, FaultExplained
<1>2. CASE sys_exec
  <2>1. PICK stops \in BOOLEAN : task_init(stops) /\ fault' = (stops \/ gdt'[6] # UserCode)
    BY <1>2, ExecOK
  <2>2. ~fault /\ UNCHANGED lost /\ kpc \notin {"start", "kern_task"}
    BY <1>2, ExecOK DEF sys_exec, Early
  <2>3. /\ ~stops /\ Len(tasks') = Len(tasks) + 1 /\ Len(tasks) \in 0 .. 2
    BY <2>1, <2>2, NewTask
  <2>4. /\ Len(tasks') <= 2 => gdt'[6] = UserCode
        /\ Len(tasks') = 3 => gdt'[6] # UserCode
    BY <2>1, <2>2, TaskTables
  <2>5. Len(tasks') \in 1 .. 3
    <3>1. \A l \in 0 .. 2 : l + 1 \in 1 .. 3
      OBVIOUS
    <3> QED BY <2>3, <3>1
  <2>6. CASE Len(tasks') = 3
    <3>1. fault' = TRUE
      BY <2>1, <2>4, <2>6
    <3>2. Len(tasks') <= 3 /\ Len(tasks') > 2
      BY <2>6
    <3> QED BY <1>0, <2>2, <3>1, <3>2 DEF TaskBound, FaultExplained
  <2>7. CASE Len(tasks') # 3
    <3>1. Len(tasks') <= 2 /\ Len(tasks') <= 3
      BY <2>5, <2>7
    <3>2. fault' = FALSE
      BY <2>1, <2>3, <2>4, <3>1
    <3> QED BY <1>0, <2>2, <3>1, <3>2 DEF TaskBound, FaultExplained
  <2> QED BY <2>6, <2>7
<1>3. ASSUME UNCHANGED <<tasks, lost, fault>>, ~fault
      PROVE  TaskBound' /\ FaultExplained' /\ lost' = {}
  BY <1>0, <1>3 DEF BootInv, TaskBound, FaultExplained
<1>4. ASSUME NEW line \in Lines, interrupt(line)
      PROVE  TaskBound' /\ FaultExplained' /\ lost' = {}
  BY <1>3, <1>4, Served DEF interrupt
<1>5. CASE kern_init_open
  <2>1. CASE get_blk_driver
    BY <1>3, <1>5, <2>1 DEF kern_init_open
  <2>2. CASE ~get_blk_driver
    <3>1. blk_drivers = <<>>
      <4>1. blk_drivers \in Seq({"ATA disk"})
        BY DEF BootInv, TypeOK
      <4>2. ASSUME blk_drivers # <<>> PROVE 1 \in DOMAIN blk_drivers /\ blk_drivers[1] = "ATA disk"
        BY <4>1, <4>2, NonEmpty
      <4> QED BY <2>2, <4>2 DEF get_blk_driver
    <3>2. Listed \cap AtaFns = {} /\ kpc = "open"
      BY <1>5, <3>1 DEF BootInv, ScanOK, Found, kern_init_open
    <3>3. UNCHANGED <<pci_devices, kpc, tasks, lost>> /\ fault'
      BY <1>5, <2>2 DEF kern_init_open, bus
    <3>4. TaskBound /\ ~fault
      BY <1>5 DEF BootInv, kern_init_open
    <3>5. Listed' = Listed
      BY <3>3 DEF Listed
    <3> QED BY <1>0, <3>2, <3>3, <3>4, <3>5 DEF FaultExplained, TaskBound
  <2> QED BY <2>1, <2>2
<1>6. CASE UNCHANGED vars
  BY <1>0, <1>6 DEF BootInv, TaskBound, FaultExplained, Listed, Wiped, vars, bus
<1>8. CASE wiped_task_runs
  <2>1. PICK n \in DOMAIN tasks : Wiped(n)
    BY <1>8 DEF wiped_task_runs
  <2>2. raced
    BY <2>1, WipedAfterRace
  <2>3. UNCHANGED <<tasks, lost, sTopAddr, pci_devices, raced>> /\ fault' /\ ~fault
    BY <1>8 DEF wiped_task_runs
  <2>4. n \in DOMAIN tasks' /\ Wiped(n)' /\ raced'
    BY <2>1, <2>2, <2>3 DEF Wiped
  <2>5. FaultExplained'
    BY <2>4 DEF FaultExplained
  <2>6. Len(tasks) <= 3 /\ Len(tasks) <= 2
    BY <2>3 DEF BootInv, TaskBound
  <2> QED BY <1>0, <2>3, <2>5, <2>6 DEF TaskBound
<1>7. \/ task_init_fshell \/ sys_exec \/ kern_init_open \/ wiped_task_runs \/ UNCHANGED vars
      \/ \E line \in Lines : interrupt(line)
      \/ UNCHANGED <<tasks, lost, fault>> /\ ~fault
  BY DEF Next, set_exception_handlers, kern_task_init, Setup, mem_page_start,
         set_interrupt_handlers, intr_init, intr_set_mask_master, sti, find_pci_data,
         mem_alloc_search, mem_alloc_mark, store_pci_device_to_list, kmalloc,
         init_ata_disk_driver, register_blk_driver
<1> QED BY <1>1, <1>2, <1>3, <1>4, <1>5, <1>6, <1>7, <1>8

(***************************************************************************)
(* The page allocator.                                                     *)
(***************************************************************************)
\* A new task takes the pages after the last one in use.
LEMMA TaskMem ==
    ASSUME BootInv, ~fault, NEW stops \in BOOLEAN, task_init(stops),
           UNCHANGED <<pending, sTopAddr>>, raced' = (raced \/ pending # NoPage)
    PROVE  MemOK'
<1> DEFINE L == Len(tasks)
           T == Top
           rec == [pd |-> T, pt |-> T + 1, task |-> T + 2, stack |-> T + 3]
<1>1. /\ L \in 0 .. 2 /\ Len(tasks') = L + 1 /\ DOMAIN tasks' = 1 .. L + 1
      /\ \A n \in DOMAIN tasks : n \in DOMAIN tasks' /\ tasks'[n] = tasks[n]
      /\ tasks'[L + 1] = rec
      /\ heap_alloc_table' = 0 .. T + 3 /\ T \in 0 .. 9
  BY TaskInitOK, NewTask
<1>2. DOMAIN tasks = 1 .. L
  <2>1. PICK S : tasks \in Seq(S)
    BY DEF BootInv, TypeOK
  <2> QED BY <2>1
<1>3. /\ raced \in BOOLEAN /\ pending \in Int /\ sTopAddr \in Int
  <2>1. HeapPages \in Nat
    BY BootAssumption
  <2>2. Pages \cup {NoPage} \subseteq Int
    BY <2>1 DEF Pages, NoPage
  <2> QED BY <2>2 DEF BootInv, TypeOK
<1>4. MemOK
  BY DEF BootInv
<1>5. Top' = T + 4
  <2>1. (sTopAddr' # NoPage /\ ~raced') <=> (sTopAddr # NoPage /\ ~raced)
    BY <1>4 DEF MemOK
  <2> DEFINE one == IF sTopAddr # NoPage /\ ~raced THEN 1 ELSE 0
  <2>2. one \in {0, 1}
    OBVIOUS
  <2>3. Top = 4 * L + one /\ Top' = 4 * (L + 1) + one
    BY <1>1, <2>1 DEF Top
  <2> HIDE DEF one, L
  <2> QED BY <1>1, <2>2, <2>3
<1>6. heap_alloc_table = 0 .. T - 1 /\ heap_alloc_table' = 0 .. Top' - 1
  <2>1. (T + 4) - 1 = T + 3
    BY <1>1
  <2> QED BY <1>1, <1>4, <1>5, <2>1 DEF MemOK
<1>7. \A x \in heap_alloc_table : x \in heap_alloc_table' /\ x < T /\ x \in Int
  BY <1>1, <1>6
<1>8. pending' # NoPage =>
          /\ sTopAddr' = NoPage
          /\ raced' => pending' \in heap_alloc_table'
          /\ ~raced' => pending' = Top'
  <2>1. T \in heap_alloc_table'
    BY <1>1
  <2>2. pending # NoPage => raced' /\ sTopAddr = NoPage
    BY <1>4 DEF MemOK
  <2>3. pending # NoPage => pending \in heap_alloc_table'
    BY <1>4, <1>7, <2>1 DEF MemOK
  <2> QED BY <2>2, <2>3
<1>9. raced' => pending' # NoPage \/ sTopAddr' # NoPage
  BY <1>4 DEF MemOK
<1>10. sTopAddr' # NoPage => sTopAddr' \in heap_alloc_table'
  BY <1>4, <1>7 DEF MemOK
<1>11. sTopAddr' # NoPage => sTopAddr' < T
  BY <1>4, <1>7 DEF MemOK
<1>12. \A n \in 1 .. L :
          /\ tasks[n].pt = tasks[n].pd + 1 /\ tasks[n].task = tasks[n].pd + 2
          /\ tasks[n].stack = tasks[n].pd + 3 /\ tasks[n].pd + 4 <= T
          /\ sTopAddr # NoPage /\ ~raced =>
                sTopAddr < tasks[n].pd \/ sTopAddr > tasks[n].pd + 3
  BY <1>2, <1>4 DEF MemOK
<1>13. \A n \in 1 .. L : tasks[n].pd \in Int
  <2>1. \A n \in 1 .. L : tasks[n].pd \in Pages
    BY <1>2, PageTypes DEF BootInv
  <2>2. HeapPages \in Nat
    BY BootAssumption
  <2> QED BY <2>1, <2>2 DEF Pages
<1>14. \A n \in DOMAIN tasks' : n \in 1 .. L \/ n = L + 1
  BY <1>1
<1>15. \A m, n \in 1 .. L : m < n => tasks[m].pd + 4 <= tasks[n].pd
  BY <1>2, <1>4 DEF MemOK
<1> DEFINE Good(t) == /\ t.pt = t.pd + 1 /\ t.task = t.pd + 2
                      /\ t.stack = t.pd + 3 /\ t.pd + 4 <= Top'
                      /\ sTopAddr' # NoPage /\ ~raced' =>
                             sTopAddr' < t.pd \/ sTopAddr' > t.pd + 3
<1>16. \A n \in DOMAIN tasks' : Good(tasks'[n])
  <2>1. ASSUME NEW n \in 1 .. L
        PROVE  Good(tasks'[n])
    <3> DEFINE p == tasks[n].pd
    <3>1. p \in Int /\ p + 4 <= T
      BY <1>12, <1>13
    <3>2. p + 4 <= Top'
      <4> HIDE DEF p, T
      <4> QED BY <3>1, <1>5, <1>1
    <3>3. tasks'[n] = tasks[n]
      BY <1>1, <1>2
    <3>4. ~raced' => ~raced
      OBVIOUS
    <3> QED BY <1>12, <3>2, <3>3, <3>4
  <2>2. Good(rec)
    <3>1. T + 4 <= Top'
      <4> HIDE DEF T
      <4> QED BY <1>1, <1>5
    <3>2. rec.pt = rec.pd + 1 /\ rec.task = rec.pd + 2 /\ rec.stack = rec.pd + 3 /\ rec.pd = T
      OBVIOUS
    <3> QED BY <1>11, <3>1, <3>2
  <2> QED BY <1>1, <1>14, <2>1, <2>2
<1>17. \A m, n \in DOMAIN tasks' : m < n => tasks'[m].pd + 4 <= tasks'[n].pd
  <2> TAKE m, n \in DOMAIN tasks'
  <2> HAVE m < n
  <2>1. m \in 1 .. L
    BY <1>1
  <2>2. tasks'[m] = tasks[m]
    BY <1>1, <1>2, <2>1
  <2>3. CASE n \in 1 .. L
    BY <1>1, <1>2, <1>15, <2>1, <2>2, <2>3
  <2>4. CASE n = L + 1
    BY <1>1, <1>12, <2>1, <2>2, <2>4
  <2> QED BY <1>14, <2>3, <2>4
<1> QED BY <1>6, <1>8, <1>9, <1>10, <1>16, <1>17 DEF MemOK

\* Every step keeps what is known of the pages.
LEMMA MemStep ==
    ASSUME BootInv, [Next]_vars
    PROVE  MemOK'
<1>0. /\ MemOK /\ Top \in Nat /\ raced \in BOOLEAN
      /\ {pending, sTopAddr} \subseteq Pages \cup {NoPage} /\ NoPage \notin Pages
  <2>1. TypeOK /\ MemOK
    BY DEF BootInv
  <2>2. NoPage \notin Pages
    BY BootAssumption DEF NoPage, Pages
  <2> QED BY <2>1, <2>2, TopBounds DEF TypeOK
<1>1. CASE task_init_fshell
  <2>1. UNCHANGED <<pending, sTopAddr, raced>> /\ pending = NoPage /\ ~raced /\ ~fault
    BY <1>1 DEF task_init_fshell, Setup, BootInv, SetupOK, Early
  <2>2. raced' = (raced \/ pending # NoPage)
    BY <1>0, <2>1
  <2> QED BY <1>1, <2>1, <2>2, TaskMem DEF task_init_fshell
<1>2. CASE sys_exec
  BY <1>2, ExecOK, TaskMem DEF sys_exec
<1>3. CASE mem_alloc_search
  <2>1. /\ UNCHANGED <<heap_alloc_table, sTopAddr, tasks, raced>>
        /\ sTopAddr = NoPage /\ pending = NoPage /\ ~fault
        /\ pending' = FirstFit(heap_alloc_table)
    BY <1>3 DEF mem_alloc_search
  <2>2. ~raced
    BY <1>0, <2>1 DEF MemOK
  <2>3. Top' = Top
    BY <2>1 DEF Top
  <2>4. pending' = Top
    <3>1. Top < HeapPages
      <4>1. Len(tasks) \in Nat /\ Len(tasks) <= 2
        BY <2>1, TopBounds DEF BootInv, TaskBound
      <4>2. Top = 4 * Len(tasks) \/ Top = 4 * Len(tasks) + 1
        BY TopBounds DEF BootInv
      <4>3. HeapPages \in Nat /\ HeapPages >= 13
        BY BootAssumption
      <4>4. \A l, h \in Nat : l <= 2 /\ h >= 13 => 4 * l < h /\ 4 * l + 1 < h
        OBVIOUS
      <4> QED BY <4>1, <4>2, <4>3, <4>4
    <3> QED BY <1>0, <2>1, <3>1, FirstFree DEF MemOK
  <2> QED BY <1>0, <2>1, <2>2, <2>3, <2>4 DEF MemOK
<1>4. CASE mem_alloc_mark
  <2>1. /\ heap_alloc_table' = Taken(heap_alloc_table, pending)
        /\ sTopAddr' = pending /\ pending' = NoPage /\ pending # NoPage
        /\ sTopAddr = NoPage /\ UNCHANGED <<tasks, raced>>
    BY <1>0, <1>4 DEF mem_alloc_mark, MemOK
  <2>2. Len(tasks) \in Nat /\ Top = 4 * Len(tasks)
    BY <2>1, TopBounds DEF Top, BootInv
  <2>3. heap_alloc_table = 0 .. Top - 1
    BY <1>0 DEF MemOK
  <2>4. CASE raced
    <3>1. Top' = Top
      BY <2>1, <2>2, <2>4 DEF Top
    <3>2. pending \in heap_alloc_table
      BY <1>0, <2>1, <2>4 DEF MemOK
    <3>3. heap_alloc_table' = heap_alloc_table
      BY <2>1, <3>2 DEF Taken
    <3> QED BY <1>0, <2>1, <2>4, <3>1, <3>2, <3>3 DEF MemOK
  <2>5. CASE ~raced
    <3>1. pending = Top
      BY <1>0, <2>1, <2>5 DEF MemOK
    <3>2. Top' = Top + 1
      BY <2>1, <2>2, <2>5 DEF Top
    <3>3. heap_alloc_table' = 0 .. (Top + 1) - 1 /\ Top \in heap_alloc_table'
      BY <1>0, <2>1, <2>3, <3>1, TakeNext
    <3>4. \A n \in DOMAIN tasks : tasks[n].pd \in Int
      <4>1. HeapPages \in Nat
        BY BootAssumption
      <4>2. \A n \in DOMAIN tasks : tasks[n].pd \in Pages
        BY PageTypes DEF BootInv
      <4> QED BY <4>1, <4>2 DEF Pages
    <3>5. \A n \in DOMAIN tasks : tasks[n].pd + 4 <= Top' /\ Top > tasks[n].pd + 3
      <4>1. \A n \in DOMAIN tasks : tasks[n].pd + 4 <= Top
        BY <1>0 DEF MemOK
      <4>2. \A x \in Int, t \in Nat : x + 4 <= t => x + 4 <= t + 1 /\ t > x + 3
        OBVIOUS
      <4> QED BY <1>0, <3>2, <3>4, <4>1, <4>2
    <3> QED BY <1>0, <2>1, <2>5, <3>1, <3>2, <3>3, <3>5 DEF MemOK
  <2> QED BY <1>0, <2>4, <2>5
<1>5. CASE UNCHANGED <<heap_alloc_table, pending, sTopAddr, tasks, raced>>
  BY <1>0, <1>5 DEF MemOK, Top
<1>6. \/ task_init_fshell \/ sys_exec \/ mem_alloc_search \/ mem_alloc_mark
      \/ UNCHANGED <<heap_alloc_table, pending, sTopAddr, tasks, raced>>
  BY DEF Next, vars, set_exception_handlers, kern_task_init, Setup, mem_page_start,
         set_interrupt_handlers, intr_init, intr_set_mask_master, sti, interrupt,
         wiped_task_runs, find_pci_data, store_pci_device_to_list, init_ata_disk_driver, register_blk_driver, kern_init_open
<1> QED BY <1>1, <1>2, <1>3, <1>4, <1>5, <1>6

(***************************************************************************)
(* The scan.  A position that is passed over after a first function that   *)
(* says that it is alone holds nothing the loops would list.               *)
(***************************************************************************)
Carry == pos[3] # 0 => <<pos[1], pos[2], 0>> \notin present \/ <<pos[1], pos[2]>> \in multi

\* The position of the scan and the slots are triples of numbers.
LEMMA Places ==
    ASSUME TypeOK
    PROVE  /\ BusMax \in Nat /\ DevMax \in Nat /\ FuncMax \in Nat
           /\ pos = <<pos[1], pos[2], pos[3]>>
           /\ pos[1] \in 0 .. BusMax - 1 /\ pos[2] \in 0 .. DevMax - 1
           /\ pos[3] \in 0 .. FuncMax - 1
           /\ \A p \in Slots : /\ p = <<p[1], p[2], p[3]>>
                               /\ p[1] \in Nat /\ p[2] \in Nat /\ p[3] \in Nat
           /\ Scanned \subseteq Slots
<1>1. BusMax \in Nat /\ DevMax \in Nat /\ FuncMax \in Nat /\ Slots \subseteq Positions
  BY BootAssumption
<1>2. pos \in (0 .. BusMax - 1) \X (0 .. DevMax - 1) \X (0 .. FuncMax - 1) /\ present \subseteq Slots
  BY DEF TypeOK
<1>3. /\ pos = <<pos[1], pos[2], pos[3]>>
      /\ pos[1] \in 0 .. BusMax - 1 /\ pos[2] \in 0 .. DevMax - 1
      /\ pos[3] \in 0 .. FuncMax - 1
  BY <1>2
<1>4. \A p \in Positions : /\ p = <<p[1], p[2], p[3]>>
                           /\ p[1] \in Nat /\ p[2] \in Nat /\ p[3] \in Nat
  BY <1>1 DEF Positions
<1>5. Scanned \subseteq Slots
  BY <1>2 DEF Scanned, Answering
<1> QED BY <1>1, <1>3, <1>4, <1>5

\* The loops of the scan pass over exactly one listed position at a time.
LEMMA AdvanceExact ==
    ASSUME TypeOK, Carry, Advance, UNCHANGED <<present, multi>>
    PROVE  /\ kpc' \in {"scan", "ata"} /\ pos' \in (0 .. BusMax - 1) \X (0 .. DevMax - 1) \X (0 .. FuncMax - 1)
           /\ kpc' = "scan" => Carry' /\ \A p \in Scanned : Earlier(p, pos') <=> Earlier(p, pos) \/ p = pos
           /\ kpc' = "ata" => \A p \in Scanned : Earlier(p, pos) \/ p = pos
<1> DEFINE b == pos[1]
           d == pos[2]
           f == pos[3]
<1>1. /\ BusMax \in Nat /\ DevMax \in Nat /\ FuncMax \in Nat
      /\ pos = <<b, d, f>>
      /\ b \in 0 .. BusMax - 1 /\ d \in 0 .. DevMax - 1 /\ f \in 0 .. FuncMax - 1
  BY Places
<1>2. ASSUME NEW p \in Scanned
      PROVE  /\ p = <<p[1], p[2], p[3]>>
             /\ p[1] \in 0 .. BusMax - 1 /\ p[2] \in 0 .. DevMax - 1 /\ p[3] \in 0 .. FuncMax - 1
             /\ Earlier(p, pos) <=> \/ p[1] < b
                                    \/ p[1] = b /\ p[2] < d
                                    \/ p[1] = b /\ p[2] = d /\ p[3] < f
             /\ p = pos <=> p[1] = b /\ p[2] = d /\ p[3] = f
  <2>1. /\ p = <<p[1], p[2], p[3]>> /\ p[1] \in Nat /\ p[2] \in Nat /\ p[3] \in Nat
    BY Places
  <2>2. p[1] < BusMax /\ p[2] < DevMax /\ p[3] < FuncMax
    BY DEF Scanned, Answering
  <2> QED BY <1>1, <2>1, <2>2 DEF Earlier
<1>3. ASSUME NEW p \in Scanned, EndsFunctions, p[1] = b, p[2] = d
      PROVE  p[3] = f
  <2>1. f = 0 /\ pos \in present /\ <<b, d>> \notin multi
    BY <1>3 DEF EndsFunctions, read_pci_reg00, is_multi_function
  <2>2. \/ p[3] = 0 \/ <<b, d, 0>> \notin present \/ <<b, d>> \in multi
    BY <1>3 DEF Scanned, Answering
  <2> QED BY <1>1, <2>1, <2>2
<1>4. CASE ~EndsFunctions /\ More(f, FuncMax)
  <2>1. pos' = <<b, d, f + 1>> /\ kpc' = "scan" /\ f + 1 < FuncMax
    BY <1>4 DEF Advance, More
  <2>2. pos'[1] = b /\ pos'[2] = d /\ pos'[3] = f + 1
    BY <2>1
  <2>3. Carry'
    <3>1. CASE f = 0
      BY <1>1, <1>4, <2>2, <3>1 DEF Carry, EndsFunctions, read_pci_reg00, is_multi_function
    <3>2. CASE f # 0
      BY <2>2, <3>2 DEF Carry
    <3> QED BY <3>1, <3>2
  <2>4. \A p \in Scanned : Earlier(p, pos') <=> Earlier(p, pos) \/ p = pos
    <3> TAKE p \in Scanned
    <3>1. Earlier(p, pos') <=> \/ p[1] < b
                               \/ p[1] = b /\ p[2] < d
                               \/ p[1] = b /\ p[2] = d /\ p[3] < f + 1
      BY <2>2 DEF Earlier
    <3> HIDE DEF b, d, f
    <3> QED BY <1>1, <1>2, <3>1
  <2> HIDE DEF b, d, f
  <2> QED BY <1>1, <2>1, <2>3, <2>4
<1>5. CASE ~(~EndsFunctions /\ More(f, FuncMax)) /\ More(d, DevMax)
  <2>1. pos' = <<b, d + 1, 0>> /\ kpc' = "scan" /\ d + 1 < DevMax
    BY <1>5 DEF Advance, More
  <2>2. pos'[1] = b /\ pos'[2] = d + 1 /\ pos'[3] = 0
    BY <2>1
  <2>3. Carry'
    BY <2>2 DEF Carry
  <2>4. \A p \in Scanned : Earlier(p, pos') <=> Earlier(p, pos) \/ p = pos
    <3> TAKE p \in Scanned
    <3>1. Earlier(p, pos') <=> \/ p[1] < b
                               \/ p[1] = b /\ p[2] < d + 1
                               \/ p[1] = b /\ p[2] = d + 1 /\ p[3] < 0
      BY <2>2 DEF Earlier
    <3>2. p[1] = b /\ p[2] = d => p[3] <= f
      <4>1. CASE EndsFunctions
        BY <1>1, <1>3, <4>1
      <4>2. CASE ~More(f, FuncMax)
        <5>1. ~(f + 1 < FuncMax)
          BY <4>2 DEF More
        <5> HIDE DEF b, d, f
        <5> QED BY <1>1, <1>2, <5>1
      <4> QED BY <1>5, <4>1, <4>2
    <3> HIDE DEF b, d, f
    <3> QED BY <1>1, <1>2, <3>1, <3>2
  <2> HIDE DEF b, d, f
  <2> QED BY <1>1, <2>1, <2>3, <2>4
<1>6. ASSUME ~(~EndsFunctions /\ More(f, FuncMax)), ~More(d, DevMax), NEW p \in Scanned,
             p[1] = b
      PROVE  Earlier(p, pos) \/ p = pos
  <2>1. p[2] = d => p[3] <= f
    <3>1. CASE EndsFunctions
      BY <1>1, <1>3, <1>6, <3>1
    <3>2. CASE ~More(f, FuncMax)
      <4>1. ~(f + 1 < FuncMax)
        BY <3>2 DEF More
      <4> HIDE DEF b, d, f
      <4> QED BY <1>1, <1>2, <4>1
    <3> QED BY <1>6, <3>1, <3>2
  <2>2. ~(d + 1 < DevMax)
    BY <1>6 DEF More
  <2> HIDE DEF b, d, f
  <2> QED BY <1>1, <1>2, <1>6, <2>1, <2>2
<1>7. CASE /\ ~(~EndsFunctions /\ More(f, FuncMax)) /\ ~More(d, DevMax) /\ More(b, BusMax)
  <2>1. pos' = <<b + 1, 0, 0>> /\ kpc' = "scan" /\ b + 1 < BusMax
    BY <1>7 DEF Advance, More
  <2>2. pos'[1] = b + 1 /\ pos'[2] = 0 /\ pos'[3] = 0
    BY <2>1
  <2>3. Carry'
    BY <2>2 DEF Carry
  <2>4. \A p \in Scanned : Earlier(p, pos') <=> Earlier(p, pos) \/ p = pos
    <3> TAKE p \in Scanned
    <3>1. Earlier(p, pos') <=> \/ p[1] < b + 1
                               \/ p[1] = b + 1 /\ p[2] < 0
                               \/ p[1] = b + 1 /\ p[2] = 0 /\ p[3] < 0
      BY <2>2 DEF Earlier
    <3>2. p[1] = b => Earlier(p, pos) \/ p = pos
      BY <1>6, <1>7
    <3> HIDE DEF b, d, f
    <3> QED BY <1>1, <1>2, <3>1, <3>2
  <2> HIDE DEF b, d, f
  <2> QED BY <1>1, <2>1, <2>3, <2>4
<1>8. CASE /\ ~(~EndsFunctions /\ More(f, FuncMax)) /\ ~More(d, DevMax) /\ ~More(b, BusMax)
  <2>1. UNCHANGED pos /\ kpc' = "ata" /\ ~(b + 1 < BusMax)
    BY <1>8 DEF Advance, More
  <2>2. \A p \in Scanned : Earlier(p, pos) \/ p = pos
    <3> TAKE p \in Scanned
    <3>1. p[1] = b => Earlier(p, pos) \/ p = pos
      BY <1>6, <1>8
    <3> HIDE DEF b, d, f
    <3> QED BY <1>1, <1>2, <2>1, <3>1
  <2>3. pos \in (0 .. BusMax - 1) \X (0 .. DevMax - 1) \X (0 .. FuncMax - 1)
    BY DEF TypeOK
  <2> QED BY <2>1, <2>2, <2>3
<1> QED BY <1>4, <1>5, <1>7, <1>8

\* A list with a new first node.
LEMMA Pushed ==
    ASSUME NEW S, NEW s \in Seq(S), NEW x \in S, NEW t, t = <<x>> \o s
    PROVE  /\ t \in Seq(S) /\ t # <<>>
           /\ 1 \in DOMAIN t /\ t[1] = x
           /\ \A n \in DOMAIN t : n \in Nat /\ (n # 1 => n - 1 \in DOMAIN s /\ t[n] = s[n - 1])
           /\ \A n \in DOMAIN s : n \in Nat /\ n + 1 \in DOMAIN t /\ t[n + 1] = s[n]
<1>1. /\ t \in Seq(S) /\ Len(t) = Len(s) + 1 /\ Len(s) \in Nat
      /\ DOMAIN t = 1 .. Len(t) /\ DOMAIN s = 1 .. Len(s)
  OBVIOUS
<1>2. \A n \in 1 .. Len(t) : t[n] = IF n = 1 THEN x ELSE s[n - 1]
  OBVIOUS
<1>3. \A n \in 1 .. Len(t) : n # 1 => n - 1 \in 1 .. Len(s)
  BY <1>1
<1>4. \A n \in 1 .. Len(s) : n + 1 \in 1 .. Len(t) /\ n + 1 # 1 /\ (n + 1) - 1 = n
  BY <1>1
<1>5. 1 \in 1 .. Len(t)
  BY <1>1
<1>6. t # <<>>
  BY <1>1
<1> QED BY <1>1, <1>2, <1>3, <1>4, <1>5, <1>6

\* get_pci_device: the first match of the list is the last of the scan.
LEMMA NoneFound ==
    ASSUME TypeOK, Listed = Scanned, find_ata_device = <<>>
    PROVE  Scanned \cap AtaFns = {}
<1> DEFINE found == {n \in DOMAIN pci_devices : pci_devices[n] \in AtaFns}
<1>1. pci_devices \in Seq(Slots) /\ DOMAIN pci_devices \subseteq Nat
  <2>1. pci_devices \in Seq(Slots)
    BY DEF TypeOK
  <2> QED BY <2>1
<1>2. found = {}
  <2> SUFFICES ASSUME found # {} PROVE FALSE
    OBVIOUS
  <2>1. Min(found) \in found
    <3>1. found \subseteq Nat
      BY <1>1
    <3> HIDE DEF found
    <3> QED BY <3>1, MinIsLeast
  <2>2. find_ata_device = pci_devices[Min(found)]
    BY DEF find_ata_device, get_pci_device
  <2>3. pci_devices[Min(found)] \in Slots
    BY <1>1, <2>1
  <2>4. \A p \in Slots : p # <<>>
    <3>1. Slots \subseteq Positions
      BY BootAssumption
    <3> QED BY <3>1 DEF Positions
  <2> QED BY <2>2, <2>3, <2>4
<1> QED BY <1>2 DEF Listed

\* The list has the device found last in front, so the driver gets that one.
LEMMA LatestFound ==
    ASSUME TypeOK, Listed = Scanned, Descending, find_ata_device # <<>>
    PROVE  LastFound = {find_ata_device}
<1> DEFINE found == {n \in DOMAIN pci_devices : pci_devices[n] \in AtaFns}
           m == Min(found)
           p == pci_devices[m]
<1>1. pci_devices \in Seq(Slots) /\ DOMAIN pci_devices \subseteq Nat
  <2>1. pci_devices \in Seq(Slots)
    BY DEF TypeOK
  <2> QED BY <2>1
<1>2. found # {} /\ find_ata_device = p
  BY DEF find_ata_device, get_pci_device
<1>3. m \in found /\ \A n \in found : m <= n
  <2>1. found \subseteq Nat
    BY <1>1
  <2> HIDE DEF found
  <2> QED BY <1>2, <2>1, MinIsLeast
<1> HIDE DEF m
<1>4. p \in Scanned \cap AtaFns
  BY <1>3 DEF Listed
<1>5. \A q \in Scanned \cap AtaFns : q = p \/ Earlier(q, p)
  <2> TAKE q \in Scanned \cap AtaFns
  <2>1. PICK n \in DOMAIN pci_devices : q = pci_devices[n]
    BY DEF Listed
  <2>2. m <= n /\ m \in Nat /\ n \in Nat
    BY <1>1, <1>3, <2>1
  <2>3. n = m \/ m < n
    BY <2>2
  <2> QED BY <1>3, <2>1, <2>3 DEF Descending
<1>6. \A q \in Scanned : ~(Earlier(q, p) /\ Earlier(p, q)) /\ ~Earlier(p, p)
  <2>1. \A q \in Scanned : q[1] \in Nat /\ q[2] \in Nat /\ q[3] \in Nat
    BY Places
  <2> HIDE DEF p
  <2> QED BY <1>4, <2>1 DEF Earlier
<1> HIDE DEF p
<1>7. p \in LastFound
  BY <1>4, <1>5, <1>6 DEF LastFound
<1>8. \A q \in LastFound : q = p
  BY <1>4, <1>5 DEF LastFound
<1> QED BY <1>2, <1>7, <1>8

\* The list of functions.
LEMMA ScanStep ==
    ASSUME BootInv, [Next]_vars
    PROVE  ScanOK'
<1>0. TypeOK /\ ScanOK
  BY DEF BootInv
<1>1. Scanned' = Scanned
  <2>1. UNCHANGED <<present, multi>>
    BY Changes
  <2> QED BY <2>1 DEF Scanned, Answering
<1>2. CASE find_pci_data /\ read_pci_reg00
  BY <1>0, <1>1, <1>2 DEF find_pci_data, read_pci_reg00, ScanOK, Descending, Listed, Found,
                          Early, bus
<1>3. CASE find_pci_data /\ ~read_pci_reg00
  <2>1. /\ kpc = "scan" /\ Advance /\ pos \notin present
        /\ UNCHANGED <<present, multi, mastering, pci_devices>>
    BY <1>3 DEF find_pci_data, read_pci_reg00, bus
  <2>2. Carry /\ Descending /\ Listed = {p \in Scanned : Earlier(p, pos)} /\ mastering = {}
    BY <1>0, <2>1 DEF ScanOK, Carry
  <2>3. pos \notin Scanned
    BY <2>1 DEF Scanned, Answering
  <2>4. Descending' /\ Listed' = Listed
    BY <2>1, <2>2 DEF Descending, Listed
  <2>5. CASE kpc' = "scan"
    <3>1. Carry' /\ Listed' = {p \in Scanned : Earlier(p, pos')}
      BY <1>0, <2>1, <2>2, <2>3, <2>4, <2>5, AdvanceExact
    <3>2. Listed' = {p \in Scanned' : Earlier(p, pos')}
      BY <1>1, <3>1
    <3> QED BY <2>1, <2>2, <2>4, <2>5, <3>1, <3>2 DEF ScanOK, Carry, Found
  <2>6. CASE kpc' = "ata"
    <3>1. Listed' = Scanned'
      BY <1>0, <1>1, <2>1, <2>2, <2>3, <2>4, <2>6, AdvanceExact
    <3> QED BY <2>1, <2>2, <2>4, <2>6, <3>1 DEF ScanOK, Found, Early
  <2> QED BY <1>0, <2>1, <2>2, <2>5, <2>6, AdvanceExact
<1>4. CASE store_pci_device_to_list
  <2>1. CASE /\ pci_devices' = <<pos>> \o pci_devices /\ Advance
    <3>1. /\ kpc = "store" /\ pos \in present /\ UNCHANGED <<present, multi, mastering>>
      BY <1>0, <1>4 DEF store_pci_device_to_list, ScanOK, bus
    <3>2. Carry /\ Descending /\ Listed = {p \in Scanned : Earlier(p, pos)} /\ mastering = {}
      BY <1>0, <3>1 DEF ScanOK, Carry
    <3>3. pos \in Scanned
      <4>1. /\ pos = <<pos[1], pos[2], pos[3]>>
            /\ pos[1] < BusMax /\ pos[2] < DevMax /\ pos[3] < FuncMax
        BY <1>0, Places
      <4> QED BY <3>1, <3>2, <4>1 DEF Scanned, Answering, Carry
    <3>4. pci_devices \in Seq(Slots) /\ pos \in Slots
      BY <1>0, <3>1 DEF TypeOK
    <3>5. /\ 1 \in DOMAIN pci_devices' /\ pci_devices'[1] = pos
          /\ \A n \in DOMAIN pci_devices' : n \in Nat /\
                (n # 1 => n - 1 \in DOMAIN pci_devices /\ pci_devices'[n] = pci_devices[n - 1])
          /\ \A n \in DOMAIN pci_devices : n \in Nat /\ n + 1 \in DOMAIN pci_devices'
                                            /\ pci_devices'[n + 1] = pci_devices[n]
      BY <2>1, <3>4, Pushed
    <3>6. Listed' = Listed \cup {pos}
      BY <3>5 DEF Listed
    <3>7. Descending'
      <4> SUFFICES ASSUME NEW m \in DOMAIN pci_devices', NEW n \in DOMAIN pci_devices', m < n
                   PROVE  Earlier(pci_devices'[n], pci_devices'[m])
        BY DEF Descending
      <4>1. m \in Nat /\ n \in Nat /\ n # 1 /\ n - 1 \in DOMAIN pci_devices
            /\ pci_devices'[n] = pci_devices[n - 1]
        <5>1. m \in Nat /\ n \in Nat
          BY <3>5
        <5>2. m # 0
          <6>1. 0 - 1 \notin Nat
            OBVIOUS
          <6> QED BY <3>5, <6>1
        <5>3. n # 1
          BY <5>1, <5>2
        <5> QED BY <3>5, <5>1, <5>3
      <4>2. CASE m = 1
        <5>1. pci_devices[n - 1] \in Listed
          BY <4>1 DEF Listed
        <5>2. Earlier(pci_devices[n - 1], pos)
          BY <3>2, <5>1
        <5> QED BY <3>5, <4>1, <4>2, <5>2
      <4>3. CASE m # 1
        <5>1. m - 1 \in DOMAIN pci_devices /\ pci_devices'[m] = pci_devices[m - 1]
          BY <3>5, <4>3
        <5>2. m - 1 < n - 1
          BY <4>1
        <5> QED BY <3>2, <4>1, <5>1, <5>2 DEF Descending
      <4> QED BY <4>2, <4>3
    <3>8. CASE kpc' = "scan"
      <4>1. Carry' /\ Listed' = {p \in Scanned : Earlier(p, pos')}
        BY <1>0, <2>1, <3>1, <3>2, <3>3, <3>6, <3>8, AdvanceExact
      <4>2. Listed' = {p \in Scanned' : Earlier(p, pos')}
        BY <1>1, <4>1
      <4> QED BY <3>1, <3>2, <3>7, <3>8, <4>1, <4>2 DEF ScanOK, Carry, Found
    <3>9. CASE kpc' = "ata"
      <4>1. Listed' = Scanned'
        BY <1>0, <1>1, <2>1, <3>1, <3>2, <3>3, <3>6, <3>9, AdvanceExact
      <4> QED BY <3>1, <3>2, <3>7, <3>9, <4>1 DEF ScanOK, Found, Early
    <3> QED BY <1>0, <2>1, <3>1, <3>2, <3>8, <3>9, AdvanceExact
  <2>2. CASE kpc' = "abort" /\ UNCHANGED <<pci_devices, pos>>
    BY <1>0, <1>1, <2>2 DEF ScanOK, Descending, Listed, Found, Early
  <2> QED BY <1>4, <2>1, <2>2 DEF store_pci_device_to_list
<1>5. CASE init_ata_disk_driver
  <2>1. /\ kpc = "ata" /\ UNCHANGED pci_devices /\ kpc' \in {"register", "open"}
        /\ kpc' = "open" => find_ata_device = <<>>
    BY <1>5 DEF init_ata_disk_driver
  <2>2. Listed = Scanned /\ Descending
    BY <1>0, <2>1 DEF ScanOK, Found
  <2>3. ASSUME find_ata_device = <<>>
        PROVE  Scanned \cap AtaFns = {}
    BY <1>0, <2>2, <2>3, NoneFound
  <2>4. Listed' = Scanned' /\ Descending'
    BY <1>1, <2>1, <2>2 DEF Listed, Descending
  <2> QED BY <1>1, <2>1, <2>3, <2>4 DEF ScanOK, Found, Early
<1>6. CASE register_blk_driver
  <2>1. kpc = "register" /\ kpc' \in {"open", "abort"} /\ UNCHANGED pci_devices
        /\ (kpc' = "open" => blk_drivers' # <<>>)
    <3>1. <<"ATA disk">> \o blk_drivers # <<>>
      <4>1. blk_drivers \in Seq({"ATA disk"})
        BY <1>0 DEF TypeOK
      <4> QED BY <4>1, Pushed
    <3> QED BY <1>6, <3>1 DEF register_blk_driver
  <2>2. Listed = Scanned /\ Descending
    BY <1>0, <2>1 DEF ScanOK, Found
  <2>3. Listed' = Scanned' /\ Descending'
    BY <1>1, <2>1, <2>2 DEF Listed, Descending
  <2> QED BY <1>1, <2>1, <2>3 DEF ScanOK, Found, Early
<1>7. CASE kern_init_open
  BY <1>0, <1>1, <1>7 DEF kern_init_open, ScanOK, Descending, Listed, Found, Early, bus
<1>8. CASE sti
  BY <1>0, <1>1, <1>8 DEF sti, Setup, ScanOK, Descending, Listed, Found, Early, BootInv, SetupOK,
                          bus
<1>9. CASE mem_alloc_search
  BY <1>0, <1>1, <1>9 DEF mem_alloc_search, ScanOK, Descending, Listed, Found, Early, bus
<1>10. ASSUME UNCHANGED <<bus, pos, pci_devices, blk_drivers>>,
              kpc' = kpc \/ {kpc, kpc'} \subseteq Early
       PROVE  ScanOK'
  BY <1>0, <1>1, <1>10 DEF ScanOK, Descending, Listed, Found, Early, bus
<1>11. \/ find_pci_data \/ store_pci_device_to_list \/ init_ata_disk_driver
       \/ register_blk_driver \/ kern_init_open \/ sti \/ mem_alloc_search
       \/ /\ UNCHANGED <<bus, pos, pci_devices, blk_drivers>>
          /\ kpc' = kpc \/ {kpc, kpc'} \subseteq Early
  BY DEF Next, vars, Early, set_exception_handlers, kern_task_init, task_init_fshell, Setup,
         mem_page_start, set_interrupt_handlers, intr_init, intr_set_mask_master, interrupt,
         wiped_task_runs, sys_exec, mem_alloc_mark
<1> QED BY <1>2, <1>3, <1>4, <1>5, <1>6, <1>7, <1>8, <1>9, <1>10, <1>11

\* Bus mastering is on in the last IDE function of the scan, nowhere else.
LEMMA MasterStep ==
    ASSUME BootInv, [Next]_vars
    PROVE  MasterOK'
<1>0. TypeOK /\ ScanOK /\ MasterOK
  BY DEF BootInv
<1>1. UNCHANGED <<present, multi>>
  BY Changes
<1>2. LastFound' = LastFound
  BY <1>1 DEF LastFound, Scanned, Answering
<1>3. CASE init_ata_disk_driver
  <2>1. kpc = "ata" /\ mastering = {} /\ Listed = Scanned /\ Descending
    BY <1>0, <1>3 DEF init_ata_disk_driver, ScanOK, Found
  <2>2. CASE find_ata_device # <<>>
    <3>1. mastering' = {find_ata_device}
      BY <1>3, <2>1, <2>2 DEF init_ata_disk_driver, set_bus_master_bit, pci_data_write
    <3> QED BY <1>0, <1>2, <2>1, <2>2, <3>1, LatestFound DEF MasterOK
  <2>3. CASE find_ata_device = <<>>
    <3>1. mastering' = {}
      BY <1>3, <2>1, <2>3 DEF init_ata_disk_driver
    <3>2. LastFound = {}
      BY <1>0, <2>1, <2>3, NoneFound DEF LastFound
    <3> QED BY <1>2, <3>1, <3>2 DEF MasterOK
  <2> QED BY <2>2, <2>3
<1>4. \/ init_ata_disk_driver
      \/ /\ UNCHANGED mastering
         /\ kpc' \in {"register", "open", "done"} => kpc \in {"register", "open", "done"}
  BY DEF Next, vars, bus, set_exception_handlers, kern_task_init, task_init_fshell, Setup,
       mem_page_start, set_interrupt_handlers, intr_init, intr_set_mask_master, sti, interrupt,
       wiped_task_runs, sys_exec, find_pci_data, Advance, mem_alloc_search, mem_alloc_mark,
       store_pci_device_to_list, register_blk_driver, kern_init_open
<1> QED BY <1>0, <1>2, <1>3, <1>4 DEF MasterOK

(***************************************************************************)
(* Types, one group of variables at a time.                                *)
(***************************************************************************)
LEMMA TypeStep ==
    ASSUME BootInv, [Next]_vars
    PROVE  TypeOK'
<1>0. TypeOK
  BY DEF BootInv
<1>1. present' \subseteq Slots /\ multi' \subseteq {<<p[1], p[2]>> : p \in Slots}
      /\ UNCHANGED <<present, multi>>
  BY <1>0, Changes DEF TypeOK
<1>2. mastering' \subseteq Slots
  <2>1. mastering \subseteq Slots
    BY <1>0 DEF TypeOK
  <2>2. CASE init_ata_disk_driver
    <3>1. Listed = Scanned /\ Descending
      BY <2>2 DEF BootInv, ScanOK, init_ata_disk_driver, Found
    <3>2. LastFound \subseteq Slots
      BY <1>0, Places DEF LastFound
    <3> QED BY <1>0, <2>1, <2>2, <3>1, <3>2, LatestFound
            DEF init_ata_disk_driver, set_bus_master_bit, pci_data_write
  <2>3. init_ata_disk_driver \/ UNCHANGED mastering
    BY Changes
  <2> QED BY <2>1, <2>2, <2>3
<1>3. heap_alloc_table' \subseteq Pages
  <2>1. MemOK'
    BY MemStep
  <2>2. CASE \E stops \in BOOLEAN : task_init(stops) /\ ~fault
    <3>1. heap_alloc_table' = 0 .. Top + 3 /\ Top \in 0 .. 9
      BY <2>2, TaskInitOK
    <3> QED BY <3>1, BootAssumption DEF Pages
  <2>3. CASE mem_alloc_mark
    BY <1>0, <2>3 DEF mem_alloc_mark, Taken, TypeOK
  <2>4. \/ UNCHANGED heap_alloc_table \/ mem_alloc_mark
        \/ \E stops \in BOOLEAN : task_init(stops) /\ ~fault
    BY Changes
  <2> QED BY <1>0, <2>2, <2>3, <2>4 DEF TypeOK
<1>4. {pending', sTopAddr'} \subseteq Pages \cup {NoPage}
  <2>1. {pending, sTopAddr} \subseteq Pages \cup {NoPage}
    BY <1>0 DEF TypeOK
  <2>2. FirstFit(heap_alloc_table) \in Pages \cup {NoPage}
    <3>1. CASE Pages \subseteq heap_alloc_table
      BY <3>1 DEF FirstFit
    <3>2. CASE ~(Pages \subseteq heap_alloc_table)
      <4> DEFINE S == Pages \ heap_alloc_table
      <4>1. S \subseteq Nat /\ S # {}
        BY <3>2, BootAssumption DEF Pages
      <4>2. Min(S) \in S
        <5> HIDE DEF S
        <5> QED BY <4>1, MinIsLeast
      <4> QED BY <3>2, <4>2 DEF FirstFit
    <3> QED BY <3>1, <3>2
  <2>3. \/ UNCHANGED <<pending, sTopAddr>>
        \/ pending' = FirstFit(heap_alloc_table) /\ UNCHANGED sTopAddr
        \/ pending' = NoPage /\ sTopAddr' = pending
    BY Changes
  <2> QED BY <2>1, <2>2, <2>3
<1>5. sTotalSize' \in Nat
  <2>1. PciNode \in Nat /\ BlkNode \in Nat /\ sTotalSize \in Nat
    BY <1>0, BootAssumption DEF TypeOK
  <2>2. \/ UNCHANGED sTotalSize \/ sTotalSize' = sTotalSize + PciNode
        \/ sTotalSize' = sTotalSize + BlkNode
    BY Changes
  <2> QED BY <2>1, <2>2
<1>6. pos' \in (0 .. BusMax - 1) \X (0 .. DevMax - 1) \X (0 .. FuncMax - 1)
  <2>1. UNCHANGED pos \/ (Advance /\ kpc \in {"scan", "store"})
    BY Changes
  <2>2. kpc \in {"scan", "store"} => Carry
    BY DEF BootInv, ScanOK, Carry
  <2>3. UNCHANGED pos => pos' \in (0 .. BusMax - 1) \X (0 .. DevMax - 1) \X (0 .. FuncMax - 1)
    BY <1>0 DEF TypeOK
  <2> QED BY <1>0, <1>1, <2>1, <2>2, <2>3, AdvanceExact
<1>7. pci_devices' \in Seq(Slots)
  <2>1. pci_devices \in Seq(Slots)
    BY <1>0 DEF TypeOK
  <2>2. \/ UNCHANGED pci_devices
        \/ kpc = "store" /\ pci_devices' = <<pos>> \o pci_devices
    BY Changes
  <2>3. kpc = "store" => pos \in Slots
    BY <1>0 DEF BootInv, ScanOK, TypeOK
  <2> QED BY <2>1, <2>2, <2>3, Pushed
<1>8. blk_drivers' \in Seq({"ATA disk"})
  <2>1. blk_drivers \in Seq({"ATA disk"})
    BY <1>0 DEF TypeOK
  <2>2. UNCHANGED blk_drivers \/ blk_drivers' = <<"ATA disk">> \o blk_drivers
    BY Changes
  <2> QED BY <2>1, <2>2, Pushed
<1>9. tasks' \in Seq([pd : Pages, pt : Pages, task : Pages, stack : Pages \cup {NoPage}])
  <2> DEFINE R == [pd : Pages, pt : Pages, task : Pages, stack : Pages \cup {NoPage}]
  <2>1. tasks \in Seq(R)
    BY <1>0 DEF TypeOK
  <2>2. CASE \E stops \in BOOLEAN : task_init(stops) /\ ~fault
    <3> DEFINE r == [pd |-> Top, pt |-> Top + 1, task |-> Top + 2, stack |-> Top + 3]
    <3>1. tasks' = Append(tasks, r) /\ Top \in 0 .. 9
      BY <2>2, TaskInitOK
    <3>2. \A k \in 0 .. 9 : {k, k + 1, k + 2, k + 3} \subseteq Pages
      BY BootAssumption DEF Pages
    <3>3. r \in R
      BY <3>1, <3>2
    <3>4. tasks' \in Seq(R)
      <4> HIDE DEF r, R
      <4> QED BY <2>1, <3>1, <3>3
    <3> QED BY <3>4
  <2> QED BY <2>1, <2>2, Changes
<1>10. gdt' \in [0 .. 7 -> Descriptors]
  <2>1. gdt \in [0 .. 7 -> Descriptors]
    BY <1>0 DEF TypeOK
  <2>3. CASE \E stops \in BOOLEAN : task_init(stops) /\ ~fault
    <3>1. gdt' = init_gdt(gdt, Len(tasks) + 4, Len(tasks) + 1, 3)
      BY <2>3, TaskInitOK
    <3>2. Len(tasks) \in 0 .. 2
      BY <2>3, NewTask
    <3>3. Len(tasks) + 4 \in 0 .. 7 /\ Len(tasks) + 1 \in 0 .. 255
      <4>1. \A l \in 0 .. 2 : l + 4 \in 0 .. 7 /\ l + 1 \in 0 .. 255
        OBVIOUS
      <4> QED BY <3>2, <4>1
    <3>4. 3 \in 0 .. 3
      OBVIOUS
    <3> QED BY <2>1, <3>1, <3>3, <3>4, WrittenDescriptor, Zenon
  <2>4. CASE gdt' = init_gdt(gdt, 3, 0, 0)
    <3>1. 3 \in 0 .. 7 /\ 0 \in 0 .. 255 /\ 0 \in 0 .. 3
      OBVIOUS
    <3> QED BY <2>1, <2>4, <3>1, WrittenDescriptor, Zenon
  <2> QED BY <2>1, <2>3, <2>4, Changes
<1>11. DOMAIN idt' = Vectors
  BY <1>0, Changes DEF TypeOK
<1>12. tr' \in {0, 24}
  BY <1>0, Changes DEF TypeOK
<1>13. pic' \in [base : {0, 32}, mask : SUBSET Lines]
  <2> DEFINE P == [base : {0, 32}, mask : SUBSET Lines]
  <2>1. pic \in P
    BY <1>0 DEF TypeOK
  <2>2. /\ [base |-> 32, mask |-> Lines] \in P
        /\ \A q \in P : [q EXCEPT !.mask = @ \ {0, 1}] \in P
    OBVIOUS
  <2> HIDE DEF P
  <2>3. pic' \in P
    BY <2>1, <2>2, Changes
  <2> QED BY <2>3 DEF P
<1>14. lost' \subseteq Lines
  BY FaultStep
<1>15. kpc' \in {"start", "kern_task", "tasks", "paging", "gates", "gate_kb", "gate_128", "pic",
                 "unmask", "sti", "scan", "store", "ata", "register", "open", "done", "abort"}
  BY <1>0, Changes DEF TypeOK
<1>16. {IF_bit', paging', user', fault', raced'} \subseteq BOOLEAN
  <2>1. {IF_bit, paging, user, fault, raced} \subseteq BOOLEAN
    BY <1>0 DEF TypeOK
  <2>2. IF_bit' \in BOOLEAN /\ paging' \in BOOLEAN /\ fault' \in BOOLEAN /\ raced' \in BOOLEAN
    BY <2>1, Changes
  <2>3. user' \in BOOLEAN
    BY <2>1, Served, Changes
  <2> QED BY <2>2, <2>3
<1> QED BY <1>1, <1>2, <1>3, <1>4, <1>5, <1>6, <1>7, <1>8, <1>9, <1>10, <1>11, <1>12, <1>13,
           <1>14, <1>15, <1>16 DEF TypeOK

----------------------------------------------------------------------------
(***************************************************************************)
(* The inductive invariant.                                                *)
(***************************************************************************)
LEMMA BootInit == Init => BootInv
<1> SUFFICES ASSUME Init PROVE BootInv
  OBVIOUS
<1>0. Len(tasks) = 0 /\ DOMAIN tasks = {} /\ DOMAIN pci_devices = {}
  BY DEF Init
<1>1. TypeOK
  <2>1. pos \in (0 .. BusMax - 1) \X (0 .. DevMax - 1) \X (0 .. FuncMax - 1)
    <3>1. 0 \in 0 .. BusMax - 1 /\ 0 \in 0 .. DevMax - 1 /\ 0 \in 0 .. FuncMax - 1
      BY BootAssumption
    <3> QED BY <3>1 DEF Init
  <2>2. /\ pci_devices \in Seq(Slots) /\ blk_drivers \in Seq({"ATA disk"})
        /\ tasks \in Seq([pd : Pages, pt : Pages, task : Pages, stack : Pages \cup {NoPage}])
    BY DEF Init
  <2>3. gdt \in [0 .. 7 -> Descriptors] /\ DOMAIN idt = Vectors /\ tr \in {0, 24}
    BY DEF Init, BootGdt, Descriptors, Segment, UserCode, UserData, Flat
  <2>4. pic \in [base : {0, 32}, mask : SUBSET Lines]
    BY DEF Init
  <2>5. {IF_bit, paging, user, fault, raced} \subseteq BOOLEAN
    BY DEF Init
  <2>6. /\ present \subseteq Slots /\ multi \subseteq {<<p[1], p[2]>> : p \in Slots}
        /\ mastering \subseteq Slots /\ heap_alloc_table \subseteq Pages
        /\ {pending, sTopAddr} \subseteq Pages \cup {NoPage} /\ sTotalSize \in Nat
        /\ lost \subseteq Lines /\ kpc = "start"
    BY DEF Init
  <2> QED BY <2>1, <2>2, <2>3, <2>4, <2>5, <2>6 DEF TypeOK
<1>2. SetupOK
  BY DEF Init, SetupOK, Early, NoTask
<1>3. GatesOK
  BY DEF Init, GatesOK, Early, NoTask
<1>4. TablesOK
  <2>1. gdt[6] = UserCode /\ \A k \in 3 .. 5 : gdt[k].s = 0
    BY DEF Init, BootGdt
  <2> QED BY <1>0, <2>1 DEF Init, TablesOK
<1>5. MemOK
  <2>1. Top = 0
    BY <1>0 DEF Top, Init, NoPage
  <2>2. heap_alloc_table = 0 .. Top - 1
    BY <2>1 DEF Init
  <2> QED BY <1>0, <2>1, <2>2 DEF MemOK, Init
<1>6. TaskBound
  BY <1>0 DEF TaskBound
<1>7. ScanOK
  <2>1. pos = <<0, 0, 0>> /\ kpc = "start" /\ Listed = {} /\ Descending
    BY <1>0 DEF Init, Listed, Descending
  <2>2. \A p \in Scanned : ~Earlier(p, pos)
    <3>1. \A p \in Scanned : p[1] \in Nat /\ p[2] \in Nat /\ p[3] \in Nat
      BY <1>1, Places
    <3> QED BY <2>1, <3>1 DEF Earlier
  <2>3. pos[3] = 0
    BY <2>1
  <2> QED BY <2>1, <2>2, <2>3 DEF ScanOK, Found
<1>8. MasterOK /\ FaultExplained /\ lost = {}
  BY DEF Init, MasterOK, FaultExplained
<1> QED BY <1>1, <1>2, <1>3, <1>4, <1>5, <1>6, <1>7, <1>8 DEF BootInv

\* BootInv is kept by every step.
LEMMA BootStep == BootInv /\ [Next]_vars => BootInv'
<1> SUFFICES ASSUME BootInv, [Next]_vars PROVE BootInv'
  OBVIOUS
<1>1. TypeOK' /\ SetupOK' /\ GatesOK' /\ TablesOK'
  BY TypeStep, SetupStep, GatesStep, TablesStep
<1>2. MemOK' /\ TaskBound' /\ FaultExplained' /\ lost' = {}
  BY MemStep, FaultStep
<1>3. ScanOK' /\ MasterOK'
  BY ScanStep, MasterStep
<1> QED BY <1>1, <1>2, <1>3 DEF BootInv

\* The inductive invariant of kern_init with the interrupts and tasks it runs among.
THEOREM BootSafe == Spec => []BootInv
  BY BootInit, BootStep, PTL DEF Spec

----------------------------------------------------------------------------
(***************************************************************************)
(* What follows from it.                                                   *)
(***************************************************************************)
\* Every variable of the start-up has its type.
THEOREM BootTypes == Spec => []TypeOK
<1>1. BootInv => TypeOK
  BY DEF BootInv
<1> QED BY <1>1, BootSafe, PTL

(***************************************************************************)
(* mem_alloc: whatever the order of the kernel task's kmalloc and of the   *)
(* exec calls, no page has two owners, except the one the race inside      *)
(* mem_alloc hands out twice.                                              *)
(***************************************************************************)
THEOREM PagesNeverShared == Spec => []PagesNotShared
<1>1. BootInv => PagesNotShared
  <2> SUFFICES ASSUME BootInv PROVE PagesNotShared
    OBVIOUS
  <2>1. /\ \A n \in DOMAIN tasks : tasks[n].pd \in Nat
        /\ DOMAIN tasks \subseteq Nat
    <3>1. \A n \in DOMAIN tasks : tasks[n].pd \in Pages
      BY PageTypes DEF BootInv
    <3>2. PICK S : tasks \in Seq(S)
      BY DEF BootInv, TypeOK
    <3>3. DOMAIN tasks \subseteq Nat
      BY <3>2
    <3>4. Pages \subseteq Nat
      BY BootAssumption DEF Pages
    <3> QED BY <3>1, <3>3, <3>4
  <2>2. \A n \in DOMAIN tasks :
           PagesOf(n) = {tasks[n].pd, tasks[n].pd + 1, tasks[n].pd + 2, tasks[n].pd + 3}
    BY DEF BootInv, MemOK, PagesOf
  <2>3. \A n \in DOMAIN tasks : Cardinality(PagesOf(n)) = 4
    <3>1. \A k \in Nat : Cardinality({k, k + 1, k + 2, k + 3}) = 4
      <4> TAKE k \in Nat
      <4>1. IsFiniteSet({}) /\ Cardinality({}) = 0
        BY FS_EmptySet
      <4>2. IsFiniteSet({k}) /\ Cardinality({k}) = 1
        BY FS_Singleton
      <4>3. /\ IsFiniteSet({k, k + 1}) /\ Cardinality({k, k + 1}) = 2
        <5>1. k + 1 \notin {k} /\ {k} \cup {k + 1} = {k, k + 1}
          OBVIOUS
        <5> QED BY <4>2, <5>1, FS_AddElement
      <4>4. /\ IsFiniteSet({k, k + 1, k + 2}) /\ Cardinality({k, k + 1, k + 2}) = 3
        <5>1. k + 2 \notin {k, k + 1} /\ {k, k + 1} \cup {k + 2} = {k, k + 1, k + 2}
          OBVIOUS
        <5> QED BY <4>3, <5>1, FS_AddElement
      <4>5. k + 3 \notin {k, k + 1, k + 2}
            /\ {k, k + 1, k + 2} \cup {k + 3} = {k, k + 1, k + 2, k + 3}
        OBVIOUS
      <4> QED BY <4>4, <4>5, FS_AddElement
    <3> QED BY <2>1, <2>2, <3>1
  <2>4. \A m, n \in DOMAIN tasks : m < n => PagesOf(m) \cap PagesOf(n) = {}
    <3>1. \A j, k \in Nat : j + 4 <= k =>
             {j, j + 1, j + 2, j + 3} \cap {k, k + 1, k + 2, k + 3} = {}
      OBVIOUS
    <3>2. \A m, n \in DOMAIN tasks : m < n => tasks[m].pd + 4 <= tasks[n].pd
      BY DEF BootInv, MemOK
    <3> QED BY <2>1, <2>2, <3>1, <3>2
  <2>5. \A m, n \in DOMAIN tasks : m # n => PagesOf(m) \cap PagesOf(n) = {}
    <3>1. \A m, n \in DOMAIN tasks : m # n => m < n \/ n < m
      BY <2>1
    <3> QED BY <2>4, <3>1
  <2>6. ~raced => \A n \in DOMAIN tasks : sTopAddr \notin PagesOf(n)
    <3> SUFFICES ASSUME ~raced, NEW n \in DOMAIN tasks PROVE sTopAddr \notin PagesOf(n)
      OBVIOUS
    <3>1. CASE sTopAddr = NoPage
      BY <2>1, <2>2, <3>1 DEF NoPage
    <3>2. CASE sTopAddr # NoPage
      <4>1. sTopAddr < tasks[n].pd \/ sTopAddr > tasks[n].pd + 3
        BY <3>2 DEF BootInv, MemOK
      <4>2. sTopAddr \in Nat
        <5>1. sTopAddr \in Pages
          BY <3>2 DEF BootInv, TypeOK
        <5> QED BY <5>1, BootAssumption DEF Pages
      <4> QED BY <2>1, <2>2, <4>1, <4>2
    <3> QED BY <3>1, <3>2
  <2> QED BY <2>3, <2>5, <2>6 DEF PagesNotShared
<1> QED BY <1>1, BootSafe, PTL

\* The entry that task_init clears past the directory is its own page table's.
THEOREM SpillAlwaysHarmless == Spec => []SpillIsHarmless
<1>1. BootInv => SpillIsHarmless
  BY DEF BootInv, MemOK, SpillIsHarmless
<1> QED BY <1>1, BootSafe, PTL

\* The far jump of context_switch names the TSS of the task (the first two tasks:
\* the third one's is never one to the processor).
THEOREM SwitchAlwaysFindsTss == Spec => []SwitchFindsTss
<1>1. BootInv => SwitchFindsTss
  <2> SUFFICES ASSUME BootInv PROVE SwitchFindsTss
    OBVIOUS
  <2>1. tr # 0 => IsTss(gdt[tr \div 8], 0)
    <3>1. tr # 0 => tr = 24 /\ IsTss(gdt[3], 0)
      BY DEF BootInv, TablesOK
    <3>2. 24 \div 8 = 3
      OBVIOUS
    <3> QED BY <3>1, <3>2
  <2>2. ASSUME NEW n \in DOMAIN tasks, n <= 2
        PROVE  IsTss(gdt[Selector(n) \div 8], n)
    <3>1. n = 1 \/ n = 2
      <4>1. PICK S : tasks \in Seq(S)
        BY DEF BootInv, TypeOK
      <4>2. Len(tasks) \in Nat /\ n \in 1 .. Len(tasks)
        BY <4>1
      <4> QED BY <2>2, <4>2
    <3>2. Selector(n) \div 8 = n + 3
      <4>1. CASE n = 1
        BY <4>1 DEF Selector
      <4>2. CASE n = 2
        BY <4>2 DEF Selector
      <4> QED BY <3>1, <4>1, <4>2
    <3> QED BY <2>2, <3>2 DEF BootInv, TablesOK
  <2> QED BY <2>1, <2>2 DEF SwitchFindsTss
<1> QED BY <1>1, BootSafe, PTL

(***************************************************************************)
(* find_pci_device lists what it should, the latest first, and the driver  *)
(* turns bus mastering on in the last IDE function.                        *)
(***************************************************************************)
THEOREM ScanAlwaysExact == Spec => []ScanIsExact
<1>1. BootInv => ScanIsExact
  <2> SUFFICES ASSUME BootInv PROVE ScanIsExact
    OBVIOUS
  <2>1. Listed \subseteq Answering
    BY DEF BootInv, ScanOK, Scanned
  <2>2. kpc \in {"ata", "register", "open", "done"} => Scanned = Listed
    BY DEF BootInv, ScanOK, Found
  <2>3. kpc \in {"register", "open", "done"}
          => mastering = {p \in Listed \cap AtaFns :
                             \A q \in Listed \cap AtaFns : ~Earlier(p, q)}
    BY <2>2 DEF BootInv, MasterOK, LastFound
  <2> QED BY <2>1, <2>2, <2>3 DEF BootInv, ScanOK, Descending, ScanIsExact
<1> QED BY <1>1, BootSafe, PTL

\* The three ways to lose the machine.
THEOREM FaultAlwaysExplained == Spec => []FaultExplained
<1>1. BootInv => FaultExplained
  BY DEF BootInv
<1> QED BY <1>1, BootSafe, PTL

\* No interrupt before its handler, none without an EOI.
THEOREM InterruptsAlwaysServed == Spec => []InterruptsServed
<1>1. BootInv => InterruptsServed
  <2>1. BootInv => (IF_bit => pic = [base |-> 32, mask |-> Lines \ {0, 1}])
    BY DEF BootInv, SetupOK, GatesOK
  <2> QED BY <2>1 DEF BootInv, InterruptsServed
<1> QED BY <1>1, BootSafe, PTL
=============================================================================
