-------------------------------- MODULE Ata --------------------------------
(***************************************************************************)
(* The ATA driver of kernel/ata.c: open, read_sector and write_sector, as  *)
(* called through struct blk_dev_driver_operations, against the two        *)
(* devices of the primary channel.                                         *)
(*                                                                         *)
(* The driver is sequential but runs with interrupts enabled, so between   *)
(* any two of its register accesses a device may, or may not, make         *)
(* progress.  Every loop iteration that reads a status register is a step. *)
(* A device never answers unless it likes: timeouts are real.              *)
(*                                                                         *)
(* The devices are external: their behaviour is what the driver relies on. *)
(* An absent device reads as status 0 with arbitrary cylinder registers; a *)
(* busy device shows BSY only; ERR stays up until the next command.  A     *)
(* "mute" device drops BSY after IDENTIFY DEVICE with neither DRQ nor ERR. *)
(***************************************************************************)
EXTENDS Integers

CONSTANTS Sectors,   \* sector numbers callers ask for
          Data,      \* what a sector may hold
          Blank,     \* what the sectors hold at the start
          Size,      \* number of sectors of each device
          Polls,     \* the 1000 of the polling loops
          Tries,     \* the 5 of wait_until_device_is_ready
          DrqLoops   \* the 5 of "loop > 5" in sector_rw_common

Devices == {0, 1}
Kinds   == {"ata", "atapi", "mute", "none"}
NoSector == -1
Bit28 == 268435456

ASSUME AtaAssumption ==
    /\ Sectors \subseteq Nat
    /\ Blank \in Data
    /\ Size \in [Devices -> Nat]
    /\ {Polls, Tries} \subseteq Nat \ {0}
    /\ DrqLoops \in Nat

\* External: words 60 and 61 of IDENTIFY DEVICE count the sectors that a 28-bit
\* command can address.
ASSUME Lba28Assumption == \A d \in Devices : Size[d] < Bit28

VARIABLES
    attached,     \* external: what is plugged in, for each device
    status,       \* external: the state the status register shows
    job,          \* external: the command a device works on
    disk,         \* external: contents of the sectors
    dev_bit,      \* DEV bit of the Device/Head register
    max_logical_sector_num,
    pc,           \* where the driver is
    call,         \* the operation and its arguments
    then,         \* who called do_device_selection_protocol
    i,            \* iterations of the current loop
    tries,        \* i of wait_until_device_is_ready
    buf,          \* what the last read_sector stored
    ret,          \* result of the last operation
    identified,   \* history: devices that answered IDENTIFY DEVICE to open
    promised      \* history: data of the last successful write_sector

devices == <<attached, status, job, disk>>
driver  == <<max_logical_sector_num, pc, call, then, i, tries, buf, ret>>
notes   == <<identified, promised>>
vars    == <<devices, dev_bit, driver, notes>>

Jobs  == [cmd : {"none", "reset", "identify", "read", "write", "flush"},
          sector : Sectors \cup {NoSector}, data : Data]
Calls == [op : {"open", "read", "write"}, device : Devices,
          sector : Sectors \cup {NoSector}, data : Data]
Job(c, s, v) == [cmd |-> c, sector |-> s, data |-> v]

TypeOK ==
    /\ attached \in [Devices -> Kinds]
    /\ status \in [Devices -> {"idle", "busy", "drq", "err"}]
    /\ job \in [Devices -> Jobs]
    /\ disk \in [Devices -> [Sectors -> Data]]
    /\ dev_bit \in Devices
    /\ max_logical_sector_num \in Nat
    /\ pc \in {"idle", "reset", "sel1", "sel2", "drdy", "id_bsy", "id_drq",
               "command", "rw_drq"}
    /\ call \in Calls
    /\ then \in {"none", "identify", "ready", "print_error"}
    /\ i \in 0 .. Polls + DrqLoops
    /\ tries \in 0 .. Tries - 1
    /\ buf \in Data
    /\ ret \in {0, -1}
    /\ identified \subseteq Devices
    /\ promised \in [Sectors -> Data]

\* kern_init has called open; nobody uses the disk before.
Init ==
    /\ attached \in [Devices -> Kinds]
    /\ status = [d \in Devices |-> "idle"]
    /\ job = [d \in Devices |-> Job("none", NoSector, Blank)]
    /\ disk = [d \in Devices |-> [s \in Sectors |-> Blank]]
    /\ dev_bit = 0
    /\ max_logical_sector_num = 0
    /\ pc = "reset"
    /\ call = [op |-> "open", device |-> 0, sector |-> NoSector, data |-> Blank]
    /\ then = "none" /\ i = 0 /\ tries = 0
    /\ buf = Blank /\ ret = -1
    /\ identified = {}
    /\ promised = [s \in Sectors |-> Blank]

----------------------------------------------------------------------------
(***************************************************************************)
(* External: a busy device finishes what it is doing, or reports an error. *)
(***************************************************************************)
CanServe(d) ==
    /\ attached[d] = "ata"
    /\ job[d].cmd \in {"read", "write"} => job[d].sector < Size[d]

device_step(d) ==
    /\ status[d] = "busy"
    /\ \/ /\ job[d].cmd = "reset"
          /\ status' = [status EXCEPT ![d] = "idle"]
          /\ UNCHANGED disk
       \/ /\ job[d].cmd \in {"identify", "read", "write"} /\ CanServe(d)
          /\ status' = [status EXCEPT ![d] = "drq"]
          /\ UNCHANGED disk
       \/ /\ job[d].cmd = "identify" /\ attached[d] = "mute"
          /\ status' = [status EXCEPT ![d] = "idle"]
          /\ UNCHANGED disk
       \/ /\ job[d].cmd = "flush"
          /\ status' = [status EXCEPT ![d] = "idle"]
          /\ disk' = [disk EXCEPT ![d][job[d].sector] = job[d].data]
       \/ /\ status' = [status EXCEPT ![d] = "err"]
          /\ UNCHANGED disk
    /\ UNCHANGED <<attached, job, dev_bit, driver, notes>>

\* What the status register of the selected device shows.
BSY  == status[dev_bit] = "busy"
DRQ  == status[dev_bit] = "drq"
ERR  == status[dev_bit] = "err"
DRDY == attached[dev_bit] \in {"ata", "mute"} /\ ~BSY

\* Writing the command register of device d; nobody listens if it is absent.
write_command(d, j) ==
    IF attached[d] = "none"
    THEN UNCHANGED <<status, job>>
    ELSE /\ status' = [status EXCEPT ![d] = "busy"]
         /\ job' = [job EXCEPT ![d] = j]

----------------------------------------------------------------------------
(***************************************************************************)
(* Control: the ways an access can end.  Each sets pc, call, then, i,      *)
(* tries and ret.                                                          *)
(***************************************************************************)
Goto(p) == pc' = p /\ i' = 0 /\ UNCHANGED <<call, then, tries, ret>>

Again == i' = i + 1 /\ UNCHANGED <<pc, call, then, tries, ret>>

Select(who) == pc' = "sel1" /\ then' = who /\ i' = 0 /\ UNCHANGED <<call, tries, ret>>

Return(r) == /\ pc' = "idle" /\ ret' = r
             /\ then' = "none" /\ i' = 0 /\ tries' = 0
             /\ UNCHANGED call

\* initialize_common returned ok to initialize_ata: after the master comes
\* the slave, and only the master decides about the result of open.
initialize_ata(ok) ==
    IF call.device = 0 /\ ok
    THEN /\ pc' = "reset" /\ call' = [call EXCEPT !.device = 1]
         /\ then' = "none" /\ i' = 0 /\ tries' = 0
         /\ UNCHANGED ret
    ELSE Return(IF call.device = 0 THEN -1 ELSE 0)

Failed == IF call.op = "open" THEN initialize_ata(FALSE) ELSE Return(-1)

----------------------------------------------------------------------------
(***************************************************************************)
(* Device selection.  sel1 and sel2 are the two calls of                   *)
(* wait_until_BSY_and_DRQ_are_zero, before and after set_device_number.    *)
(***************************************************************************)
\* Mutant: DRQ is not looked at.
QuietBusyOnly == ~BSY

Quiet == ~BSY /\ ~DRQ

\* Mutant: the retry is not counted.
SameTry == tries

NextTry == tries + 1

\* do_device_selection_protocol returned ok to its caller.
selection_done(ok) ==
    \/ then = "identify" /\ Goto("drdy")
    \/ then = "print_error" /\ Failed
    \/ then = "ready" /\ ok /\ Goto("command")
    \/ then = "ready" /\ ~ok /\ NextTry < Tries
         /\ pc' = "sel1" /\ i' = 0 /\ tries' = NextTry
         /\ UNCHANGED <<call, then, ret>>
    \/ then = "ready" /\ ~ok /\ NextTry >= Tries /\ Return(-1)

do_device_selection_protocol ==
    /\ pc \in {"sel1", "sel2"}
    /\ \/ Quiet /\ pc = "sel1" /\ dev_bit' = call.device /\ Goto("sel2")
       \/ Quiet /\ pc = "sel2" /\ selection_done(TRUE) /\ UNCHANGED dev_bit
       \/ ~Quiet /\ i + 1 < Polls /\ Again /\ UNCHANGED dev_bit
       \/ ~Quiet /\ i + 1 >= Polls /\ selection_done(FALSE) /\ UNCHANGED dev_bit
    /\ UNCHANGED <<devices, max_logical_sector_num, buf, notes>>

----------------------------------------------------------------------------
(***************************************************************************)
(* open: initialize_common for the master, then for the slave.             *)
(***************************************************************************)
open_ATA_disk ==
    /\ pc = "idle"
    /\ pc' = "reset"
    /\ call' = [op |-> "open", device |-> 0, sector |-> NoSector, data |-> Blank]
    /\ identified' = {}
    /\ UNCHANGED <<devices, dev_bit, max_logical_sector_num, then, i, tries,
                   buf, ret, promised>>

\* What the cylinder registers may hold after the reset.
Signatures(d) == IF attached[d] = "atapi" THEN {"atapi"} ELSE {"ata", "unknown"}

initialize_common ==
    /\ pc = "reset"
    /\ dev_bit' = call.device
    /\ write_command(call.device, Job("reset", NoSector, Blank))
    /\ \E type \in Signatures(call.device) :
          IF type = "ata" THEN Select("identify") ELSE initialize_ata(FALSE)
    /\ UNCHANGED <<attached, disk, max_logical_sector_num, buf, notes>>

identify_start ==
    /\ pc = "drdy"
    /\ IF DRDY
       THEN /\ write_command(dev_bit, Job("identify", NoSector, Blank))
            /\ Goto("id_bsy")
            /\ UNCHANGED max_logical_sector_num
       ELSE /\ max_logical_sector_num' = 0    \* of a zeroed buffer
            /\ initialize_ata(TRUE)
            /\ UNCHANGED <<status, job>>
    /\ UNCHANGED <<attached, disk, dev_bit, buf, notes>>

identify_wait ==
    /\ pc = "id_bsy"
    /\ \/ ~BSY /\ Goto("id_drq")
       \/ BSY /\ i + 1 < Polls /\ Again
       \/ BSY /\ i + 1 >= Polls /\ initialize_ata(FALSE)
    /\ UNCHANGED <<devices, dev_bit, max_logical_sector_num, buf, notes>>

\* With neither ERR nor DRQ the status is read again, without a bound.
identify_data ==
    /\ pc = "id_drq"
    /\ \/ /\ ERR /\ Select("print_error")
          /\ UNCHANGED <<status, max_logical_sector_num, identified>>
       \/ /\ ~ERR /\ DRQ /\ initialize_ata(FALSE)     \* is_device_fault
          /\ UNCHANGED <<status, max_logical_sector_num, identified>>
       \/ /\ ~ERR /\ DRQ
          /\ status' = [status EXCEPT ![dev_bit] = "idle"]
          /\ max_logical_sector_num' = Size[dev_bit]
          /\ identified' = identified \cup {dev_bit}
          /\ initialize_ata(TRUE)
       \/ /\ ~ERR /\ ~DRQ /\ UNCHANGED <<pc, call, then, i, tries, ret>>
          /\ UNCHANGED <<status, max_logical_sector_num, identified>>
    /\ UNCHANGED <<attached, job, disk, dev_bit, buf, promised>>

----------------------------------------------------------------------------
(***************************************************************************)
(* read_sector and write_sector.                                           *)
(***************************************************************************)
sector_rw_common(op, d, s, v) ==
    /\ pc = "idle"
    /\ call' = [op |-> op, device |-> d, sector |-> s, data |-> v]
    /\ IF s > max_logical_sector_num
       THEN ret' = -1 /\ UNCHANGED <<pc, then>>
       ELSE pc' = "sel1" /\ then' = "ready" /\ UNCHANGED ret
    /\ UNCHANGED <<devices, dev_bit, max_logical_sector_num, i, tries, buf, notes>>

\* The last write to Device/Head: ((sector >> 24) & 0x1f) | 0x40.  Its DEV bit
\* is bit 28 of the sector number.
DevOf(s) == (s \div Bit28) % 2

rw_command ==
    /\ pc = "command"
    /\ dev_bit' = DevOf(call.sector)
    /\ write_command(DevOf(call.sector), Job(call.op, call.sector, call.data))
    /\ Goto("rw_drq")
    /\ UNCHANGED <<attached, disk, max_logical_sector_num, buf, notes>>

\* Mutant: the data register is read whether or not DRQ is up.
AnyStatus == TRUE

is_drq_active == DRQ

\* Mutant: the retry count is compared before it can grow.
NeverExceeded == FALSE

LoopExceeded == i > DrqLoops

\* Reading the data register of d: the sector being read, else anything.
Words(d) == IF status[d] = "drq" /\ job[d].cmd = "read"
            THEN {disk[d][job[d].sector]} ELSE Data

rw_status ==
    /\ pc = "rw_drq"
    /\ \/ /\ ERR /\ Select("print_error")
          /\ UNCHANGED <<status, job, buf, promised>>
       \/ /\ ~ERR /\ ~is_drq_active /\ ~LoopExceeded /\ Again
          /\ UNCHANGED <<status, job, buf, promised>>
       \/ /\ ~ERR /\ ~is_drq_active /\ LoopExceeded /\ Return(-1)
          /\ UNCHANGED <<status, job, buf, promised>>
       \/ /\ ~ERR /\ is_drq_active /\ call.op = "read"
          /\ buf' \in Words(dev_bit)
          /\ status' = [status EXCEPT ![dev_bit] = "idle"]
          /\ Return(0)
          /\ UNCHANGED <<job, promised>>
       \/ /\ ~ERR /\ is_drq_active /\ call.op = "write"
          /\ status' = [status EXCEPT ![dev_bit] = "busy"]
          /\ job' = [job EXCEPT ![dev_bit] = Job("flush", @.sector, call.data)]
          /\ promised' = [promised EXCEPT ![call.sector] = call.data]
          /\ Return(0)
          /\ UNCHANGED buf
    /\ UNCHANGED <<attached, disk, dev_bit, max_logical_sector_num, identified>>

----------------------------------------------------------------------------
driver_step ==
    \/ do_device_selection_protocol
    \/ initialize_common
    \/ identify_start
    \/ identify_wait
    \/ identify_data
    \/ rw_command
    \/ rw_status

Next ==
    \/ open_ATA_disk
    \/ \E d \in Devices, s \in Sectors : sector_rw_common("read", d, s, Blank)
    \/ \E d \in Devices, s \in Sectors, v \in Data : sector_rw_common("write", d, s, v)
    \/ driver_step
    \/ \E d \in Devices : device_step(d)

(***************************************************************************)
(* The driver keeps executing (the kernel task that calls it runs whenever *)
(* the user tasks wait); nothing is assumed of the devices.                *)
(***************************************************************************)
Spec == Init /\ [][Next]_vars /\ WF_vars(driver_step)

----------------------------------------------------------------------------
(***************************************************************************)
(* A read of the master that returns 0 delivers the sector asked for, as   *)
(* it is on the disk: not the data of an earlier command that the driver   *)
(* gave up on and the device finished late, nor a sector a write is still  *)
(* changing.                                                               *)
(***************************************************************************)
ReadsAreFresh ==
    pc = "idle" /\ call.op = "read" /\ call.device = 0 /\ ret = 0
      => buf = disk[0][call.sector]

(***************************************************************************)
(* A sector command for the master is written only when the device it goes *)
(* to is not working on an earlier command, although commands are given up *)
(* after a timeout, open leaves the slave selected and the Device/Head     *)
(* register is rewritten after the check.                                  *)
(***************************************************************************)
OneCommandAtATime ==
    pc = "command" /\ call.device = 0
      => status[DevOf(call.sector)] \notin {"busy", "drq"}

(***************************************************************************)
(* Every call returns, however late or never the devices answer: the       *)
(* polling loops, the retries of wait_until_device_is_ready and the DRQ    *)
(* loop are bounded.  Of the two loops without a bound, read_sector's, for *)
(* a buf_size other than 256, is left out: no caller passes one.  In the   *)
(* other, the status loop of do_identify_device, only a device that ended  *)
(* IDENTIFY DEVICE with neither DRQ nor ERR keeps the driver.              *)
(***************************************************************************)
Hung == pc = "id_drq" /\ status[dev_bit] = "idle"

CallsReturn == /\ pc # "idle" ~> (pc = "idle" \/ Hung)
               /\ [](Hung => attached[dev_bit] = "mute")

(***************************************************************************)
(* ata.c:449 "@param device number.": the command is executed by the       *)
(* device the caller named.                                                *)
(***************************************************************************)
CommandGoesToDevice == pc = "rw_drq" => dev_bit = call.device

(***************************************************************************)
(* ata.c:534 "false is failed Identify Device command": an open that       *)
(* identified the master and returned 0 leaves the sector limit of a       *)
(* device that answered IDENTIFY DEVICE.                                   *)
(***************************************************************************)
LimitIsIdentified ==
    pc = "idle" /\ call.op = "open" /\ ret = 0 /\ 0 \in identified
      => \E d \in identified : max_logical_sector_num = Size[d]

(***************************************************************************)
(* ata.c:155 "@return negative if fail to write data": a sector that was   *)
(* written with result 0 reads back as it was written.                     *)
(***************************************************************************)
WritesAreReported ==
    pc = "idle" /\ call.op = "read" /\ call.device = 0 /\ ret = 0
      => buf = promised[call.sector]
=============================================================================
