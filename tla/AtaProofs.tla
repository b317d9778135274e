----------------------------- MODULE AtaProofs ------------------------------
(***************************************************************************)
(* The ATA driver, for every number of sectors and every bound of its      *)
(* loops, whatever the devices do and however late they do it.             *)
(***************************************************************************)
EXTENDS Ata, TLAPS

\* Nobody answers for a device that is not there.
AbsentIdle == \A d \in Devices : attached[d] = "none" => status[d] = "idle"

\* Which operation the driver is in the middle of.
OpsOK ==
    /\ pc \in {"idle", "reset"} => then = "none"
    /\ pc \in {"reset", "drdy", "id_bsy", "id_drq"} \/ then = "identify" => call.op = "open"
    /\ pc \in {"command", "rw_drq"} \/ then = "ready" => call.op # "open"

\* A sector that passed the check of sector_rw_common is still in range.
RangeOK ==
    /\ max_logical_sector_num < Bit28
    /\ pc # "idle" /\ call.op # "open" =>
          call.sector \in Nat /\ call.sector <= max_logical_sector_num

\* The device selection: a device that was seen quiet stays quiet.
SelectOK ==
    /\ pc \in {"sel2", "command"} => dev_bit = call.device
    /\ pc = "command" => status[dev_bit] \notin {"busy", "drq"}

\* The command the driver waits for is the last one the device got.
CommandOK ==
    pc = "rw_drq" =>
        /\ dev_bit = 0
        /\ attached[0] # "none" => job[0].cmd = call.op /\ job[0].sector = call.sector

IdentifyOK ==
    pc \in {"id_bsy", "id_drq"} =>
        /\ attached[dev_bit] \in {"ata", "mute"} /\ job[dev_bit].cmd = "identify"
        /\ status[dev_bit] = "idle" => attached[dev_bit] = "mute"

\* Nothing is under way in the master after a read.
FreshOK ==
    pc = "idle" /\ call.op = "read" /\ ret = 0 =>
        status[0] # "busy" /\ buf = disk[0][call.sector]

AtaInv == /\ TypeOK /\ AbsentIdle /\ OpsOK /\ RangeOK /\ SelectOK
          /\ CommandOK /\ IdentifyOK /\ FreshOK

----------------------------------------------------------------------------
\* A sector below 2^28 keeps the DEV bit 0.
LEMMA DevOfLow ==
    ASSUME NEW s \in Nat, s < Bit28
    PROVE  DevOf(s) = 0
  BY SMT DEF DevOf, Bit28

\* An absent device never becomes busy.
LEMMA AbsentStep ==
    ASSUME AtaInv, [Next]_vars
    PROVE  AbsentIdle'
<1>1. CASE open_ATA_disk
  BY <1>1 DEF AtaInv, AbsentIdle, TypeOK, Devices,
            open_ATA_disk, devices
<1>2. ASSUME NEW op \in {"read", "write"}, NEW d \in Devices, NEW s \in Sectors, NEW v \in Data,
             sector_rw_common(op, d, s, v)
      PROVE  AbsentIdle'
  BY <1>2 DEF AtaInv, AbsentIdle, TypeOK, Devices,
            sector_rw_common, devices, notes
<1>3. CASE do_device_selection_protocol
  BY <1>3 DEF AtaInv, AbsentIdle, TypeOK, Devices,
            do_device_selection_protocol, selection_done, devices, notes, Quiet, BSY, DRQ,
            Goto, Again, Failed, initialize_ata, Return, NextTry
<1>4. CASE initialize_common
  BY <1>4 DEF AtaInv, AbsentIdle, TypeOK, Devices,
            initialize_common, write_command, Job, Select, initialize_ata, Return, notes
<1>5. CASE identify_start
  BY <1>5 DEF AtaInv, AbsentIdle, TypeOK, Devices,
            identify_start, write_command, Job, DRDY, BSY, Goto, initialize_ata, Return, notes
<1>6. CASE identify_wait
  BY <1>6 DEF AtaInv, AbsentIdle, TypeOK, Devices,
            identify_wait, BSY, Goto, Again, initialize_ata, Return, devices, notes
<1>7. CASE identify_data
  BY <1>7 DEF AtaInv, AbsentIdle, TypeOK, Devices,
            identify_data, ERR, DRQ, Select, initialize_ata, Return
<1>8. CASE rw_command
  BY <1>8 DEF AtaInv, AbsentIdle, TypeOK, Devices,
            rw_command, write_command, Job, Goto, notes
<1>9. CASE rw_status
  BY <1>9 DEF AtaInv, AbsentIdle, TypeOK, Devices,
            rw_status, ERR, DRQ, is_drq_active, LoopExceeded, Select, Again, Return, Job, Words
<1>10. ASSUME NEW d \in Devices, device_step(d)
      PROVE  AbsentIdle'
  BY <1>10 DEF AtaInv, AbsentIdle, TypeOK, Devices,
            device_step, CanServe, driver, notes
<1>11. CASE UNCHANGED vars
  BY <1>11 DEF AtaInv, AbsentIdle, TypeOK, Devices,
            vars, devices, driver, notes
<1> QED BY <1>1, <1>2, <1>3, <1>4, <1>5, <1>6, <1>7, <1>8, <1>9, <1>10, <1>11,
  AtaAssumption DEF Next, driver_step

\* The control of the driver and the operation agree.
LEMMA OpsStep ==
    ASSUME AtaInv, [Next]_vars
    PROVE  OpsOK'
<1>1. CASE open_ATA_disk
  BY <1>1 DEF AtaInv, OpsOK, TypeOK, Calls,
            open_ATA_disk, devices
<1>2. ASSUME NEW op \in {"read", "write"}, NEW d \in Devices, NEW s \in Sectors, NEW v \in Data,
             sector_rw_common(op, d, s, v)
      PROVE  OpsOK'
  BY <1>2 DEF AtaInv, OpsOK, TypeOK, Calls,
            sector_rw_common, devices, notes
<1>3. CASE do_device_selection_protocol
  BY <1>3 DEF AtaInv, OpsOK, TypeOK, Calls,
            do_device_selection_protocol, selection_done, devices, notes, Quiet, BSY, DRQ,
            Goto, Again, Failed, initialize_ata, Return, NextTry
<1>4. CASE initialize_common
  BY <1>4 DEF AtaInv, OpsOK, TypeOK, Calls,
            initialize_common, write_command, Job, Select, initialize_ata, Return, notes
<1>5. CASE identify_start
  BY <1>5 DEF AtaInv, OpsOK, TypeOK, Calls,
            identify_start, write_command, Job, DRDY, BSY, Goto, initialize_ata, Return, notes
<1>6. CASE identify_wait
  BY <1>6 DEF AtaInv, OpsOK, TypeOK, Calls,
            identify_wait, BSY, Goto, Again, initialize_ata, Return, devices, notes
<1>7. CASE identify_data
  BY <1>7 DEF AtaInv, OpsOK, TypeOK, Calls,
            identify_data, ERR, DRQ, Select, initialize_ata, Return
<1>8. CASE rw_command
  BY <1>8 DEF AtaInv, OpsOK, TypeOK, Calls,
            rw_command, write_command, Job, Goto, notes
<1>9. CASE rw_status
  BY <1>9 DEF AtaInv, OpsOK, TypeOK, Calls,
            rw_status, ERR, DRQ, is_drq_active, LoopExceeded, Select, Again, Return, Job, Words
<1>10. ASSUME NEW d \in Devices, device_step(d)
      PROVE  OpsOK'
  BY <1>10 DEF AtaInv, OpsOK, TypeOK, Calls,
            device_step, CanServe, driver, notes
<1>11. CASE UNCHANGED vars
  BY <1>11 DEF AtaInv, OpsOK, TypeOK, Calls,
            vars, devices, driver, notes
<1> QED BY <1>1, <1>2, <1>3, <1>4, <1>5, <1>6, <1>7, <1>8, <1>9, <1>10, <1>11,
  AtaAssumption DEF Next, driver_step

\* The sector stays in range.
LEMMA RangeStep ==
    ASSUME AtaInv, [Next]_vars
    PROVE  RangeOK'
<1>1. CASE open_ATA_disk
  BY <1>1 DEF AtaInv, RangeOK, OpsOK,
            open_ATA_disk, devices
<1>2. ASSUME NEW op \in {"read", "write"}, NEW d \in Devices, NEW s \in Sectors, NEW v \in Data,
             sector_rw_common(op, d, s, v)
      PROVE  RangeOK'
  <2>1. s \in Nat /\ call'.sector = s /\ UNCHANGED max_logical_sector_num
        /\ (pc' # "idle" => s <= max_logical_sector_num)
    <3>1. s \in Nat
      BY AtaAssumption
    <3>2. max_logical_sector_num \in Nat
      BY DEF AtaInv, TypeOK
    <3> QED BY <1>2, <3>1, <3>2 DEF sector_rw_common
  <2> QED BY <2>1 DEF AtaInv, RangeOK
<1>3. CASE do_device_selection_protocol
  BY <1>3 DEF AtaInv, RangeOK, OpsOK,
            do_device_selection_protocol, selection_done, devices, notes, Quiet, BSY, DRQ,
            Goto, Again, Failed, initialize_ata, Return, NextTry
<1>4. CASE initialize_common
  BY <1>4 DEF AtaInv, RangeOK, OpsOK,
            initialize_common, write_command, Job, Select, initialize_ata, Return, notes
<1>5. CASE identify_start
  <2>1. call.op = "open" /\ call \in Calls
    BY <1>5 DEF AtaInv, TypeOK, OpsOK, identify_start
  <2>2. call'.op = "open"
    BY <1>5, <2>1 DEF identify_start, Goto, initialize_ata, Return, Calls
  <2>3. max_logical_sector_num' < Bit28
    <3>1. 0 < Bit28
      BY SMT DEF Bit28
    <3>2. max_logical_sector_num' \in {0, max_logical_sector_num}
      BY <1>5 DEF identify_start
    <3> QED BY <3>1, <3>2 DEF AtaInv, RangeOK
  <2> QED BY <2>2, <2>3 DEF RangeOK
<1>6. CASE identify_wait
  BY <1>6 DEF AtaInv, RangeOK, OpsOK,
            identify_wait, BSY, Goto, Again, initialize_ata, Return, devices, notes
<1>7. CASE identify_data
  <2>1. call.op = "open" /\ call \in Calls
    BY <1>7 DEF AtaInv, TypeOK, OpsOK, identify_data
  <2>2. call'.op = "open"
    BY <1>7, <2>1 DEF identify_data, Select, initialize_ata, Return, Calls
  <2>3. max_logical_sector_num' < Bit28
    <3>1. max_logical_sector_num' \in {Size[dev_bit], max_logical_sector_num}
      BY <1>7 DEF identify_data
    <3>2. dev_bit \in Devices
      BY DEF AtaInv, TypeOK
    <3> QED BY <3>1, <3>2, Lba28Assumption DEF AtaInv, RangeOK
  <2> QED BY <2>2, <2>3 DEF RangeOK
<1>8. CASE rw_command
  BY <1>8 DEF AtaInv, RangeOK, OpsOK,
            rw_command, write_command, Job, Goto, notes
<1>9. CASE rw_status
  BY <1>9 DEF AtaInv, RangeOK, OpsOK,
            rw_status, ERR, DRQ, is_drq_active, LoopExceeded, Select, Again, Return, Job, Words
<1>10. ASSUME NEW d \in Devices, device_step(d)
      PROVE  RangeOK'
  BY <1>10 DEF AtaInv, RangeOK, OpsOK,
            device_step, CanServe, driver, notes
<1>11. CASE UNCHANGED vars
  BY <1>11 DEF AtaInv, RangeOK, OpsOK,
            vars, devices, driver, notes
<1> QED BY <1>1, <1>2, <1>3, <1>4, <1>5, <1>6, <1>7, <1>8, <1>9, <1>10, <1>11,
  AtaAssumption DEF Next, driver_step

\* The selected device stays quiet.
LEMMA SelectStep ==
    ASSUME AtaInv, [Next]_vars
    PROVE  SelectOK'
<1>1. CASE open_ATA_disk
  BY <1>1 DEF AtaInv, SelectOK, TypeOK, OpsOK,
            open_ATA_disk, devices
<1>2. ASSUME NEW op \in {"read", "write"}, NEW d \in Devices, NEW s \in Sectors, NEW v \in Data,
             sector_rw_common(op, d, s, v)
      PROVE  SelectOK'
  BY <1>2 DEF AtaInv, SelectOK, TypeOK, OpsOK,
            sector_rw_common, devices, notes
<1>3. CASE do_device_selection_protocol
  BY <1>3 DEF AtaInv, SelectOK, TypeOK, OpsOK,
            do_device_selection_protocol, selection_done, devices, notes, Quiet, BSY, DRQ,
            Goto, Again, Failed, initialize_ata, Return, NextTry
<1>4. CASE initialize_common
  BY <1>4 DEF AtaInv, SelectOK, TypeOK, OpsOK,
            initialize_common, write_command, Job, Select, initialize_ata, Return, notes
<1>5. CASE identify_start
  BY <1>5 DEF AtaInv, SelectOK, TypeOK, OpsOK,
            identify_start, write_command, Job, DRDY, BSY, Goto, initialize_ata, Return, notes
<1>6. CASE identify_wait
  BY <1>6 DEF AtaInv, SelectOK, TypeOK, OpsOK,
            identify_wait, BSY, Goto, Again, initialize_ata, Return, devices, notes
<1>7. CASE identify_data
  BY <1>7 DEF AtaInv, SelectOK, TypeOK, OpsOK,
            identify_data, ERR, DRQ, Select, initialize_ata, Return
<1>8. CASE rw_command
  BY <1>8 DEF AtaInv, SelectOK, TypeOK, OpsOK,
            rw_command, write_command, Job, Goto, notes
<1>9. CASE rw_status
  BY <1>9 DEF AtaInv, SelectOK, TypeOK, OpsOK,
            rw_status, ERR, DRQ, is_drq_active, LoopExceeded, Select, Again, Return, Job, Words
<1>10. ASSUME NEW d \in Devices, device_step(d)
      PROVE  SelectOK'
  BY <1>10 DEF AtaInv, SelectOK, TypeOK, OpsOK,
            device_step, CanServe, driver, notes
<1>11. CASE UNCHANGED vars
  BY <1>11 DEF AtaInv, SelectOK, TypeOK, OpsOK,
            vars, devices, driver, notes
<1> QED BY <1>1, <1>2, <1>3, <1>4, <1>5, <1>6, <1>7, <1>8, <1>9, <1>10, <1>11,
  AtaAssumption DEF Next, driver_step

\* Only a mute device ends IDENTIFY DEVICE with neither DRQ nor ERR.
LEMMA IdentifyStep ==
    ASSUME AtaInv, [Next]_vars
    PROVE  IdentifyOK'
<1>1. CASE open_ATA_disk
  BY <1>1 DEF AtaInv, IdentifyOK, TypeOK, AbsentIdle,
            open_ATA_disk, devices
<1>2. ASSUME NEW op \in {"read", "write"}, NEW d \in Devices, NEW s \in Sectors, NEW v \in Data,
             sector_rw_common(op, d, s, v)
      PROVE  IdentifyOK'
  BY <1>2 DEF AtaInv, IdentifyOK, TypeOK, AbsentIdle,
            sector_rw_common, devices, notes
<1>3. CASE do_device_selection_protocol
  BY <1>3 DEF AtaInv, IdentifyOK, TypeOK, AbsentIdle,
            do_device_selection_protocol, selection_done, devices, notes, Quiet, BSY, DRQ,
            Goto, Again, Failed, initialize_ata, Return, NextTry
<1>4. CASE initialize_common
  BY <1>4 DEF AtaInv, IdentifyOK, TypeOK, AbsentIdle,
            initialize_common, write_command, Job, Select, initialize_ata, Return, notes
<1>5. CASE identify_start
  BY <1>5 DEF AtaInv, IdentifyOK, TypeOK, AbsentIdle,
            identify_start, write_command, Job, DRDY, BSY, Goto, initialize_ata, Return, notes
<1>6. CASE identify_wait
  BY <1>6 DEF AtaInv, IdentifyOK, TypeOK, AbsentIdle,
            identify_wait, BSY, Goto, Again, initialize_ata, Return, devices, notes
<1>7. CASE identify_data
  BY <1>7 DEF AtaInv, IdentifyOK, TypeOK, AbsentIdle,
            identify_data, ERR, DRQ, Select, initialize_ata, Return
<1>8. CASE rw_command
  BY <1>8 DEF AtaInv, IdentifyOK, TypeOK, AbsentIdle,
            rw_command, write_command, Job, Goto, notes
<1>9. CASE rw_status
  BY <1>9 DEF AtaInv, IdentifyOK, TypeOK, AbsentIdle,
            rw_status, ERR, DRQ, is_drq_active, LoopExceeded, Select, Again, Return, Job, Words
<1>10. ASSUME NEW d \in Devices, device_step(d)
      PROVE  IdentifyOK'
  BY <1>10 DEF AtaInv, IdentifyOK, TypeOK, AbsentIdle,
            device_step, CanServe, driver, notes
<1>11. CASE UNCHANGED vars
  BY <1>11 DEF AtaInv, IdentifyOK, TypeOK, AbsentIdle,
            vars, devices, driver, notes
<1> QED BY <1>1, <1>2, <1>3, <1>4, <1>5, <1>6, <1>7, <1>8, <1>9, <1>10, <1>11,
  AtaAssumption DEF Next, driver_step

\* A sector command goes to the master, whichever device was selected.
LEMMA CommandSector ==
    ASSUME AtaInv, pc = "command"
    PROVE  DevOf(call.sector) = 0
<1>1. call.sector \in Nat /\ call.sector <= max_logical_sector_num
  BY DEF AtaInv, OpsOK, RangeOK
<1>2. max_logical_sector_num \in Nat /\ max_logical_sector_num < Bit28
  BY DEF AtaInv, TypeOK, RangeOK
<1>3. Bit28 \in Nat
  BY SMT DEF Bit28
<1>4. call.sector < Bit28
  BY <1>1, <1>2, <1>3
<1> QED BY <1>1, <1>4, DevOfLow

\* The command under way is the one the driver waits for.
LEMMA CommandStep ==
    ASSUME AtaInv, [Next]_vars
    PROVE  CommandOK'
<1>1. CASE open_ATA_disk
  BY <1>1 DEF AtaInv, CommandOK, TypeOK, AbsentIdle, OpsOK,
            open_ATA_disk, devices
<1>2. ASSUME NEW op \in {"read", "write"}, NEW d \in Devices, NEW s \in Sectors, NEW v \in Data,
             sector_rw_common(op, d, s, v)
      PROVE  CommandOK'
  BY <1>2 DEF AtaInv, CommandOK, TypeOK, AbsentIdle, OpsOK,
            sector_rw_common, devices, notes
<1>3. CASE do_device_selection_protocol
  BY <1>3 DEF AtaInv, CommandOK, TypeOK, AbsentIdle, OpsOK,
            do_device_selection_protocol, selection_done, devices, notes, Quiet, BSY, DRQ,
            Goto, Again, Failed, initialize_ata, Return, NextTry
<1>4. CASE initialize_common
  BY <1>4 DEF AtaInv, CommandOK, TypeOK, AbsentIdle, OpsOK,
            initialize_common, write_command, Job, Select, initialize_ata, Return, notes
<1>5. CASE identify_start
  BY <1>5 DEF AtaInv, CommandOK, TypeOK, AbsentIdle, OpsOK,
            identify_start, write_command, Job, DRDY, BSY, Goto, initialize_ata, Return, notes
<1>6. CASE identify_wait
  BY <1>6 DEF AtaInv, CommandOK, TypeOK, AbsentIdle, OpsOK,
            identify_wait, BSY, Goto, Again, initialize_ata, Return, devices, notes
<1>7. CASE identify_data
  BY <1>7 DEF AtaInv, CommandOK, TypeOK, AbsentIdle, OpsOK,
            identify_data, ERR, DRQ, Select, initialize_ata, Return
<1>8. CASE rw_command
  <2>1. DevOf(call.sector) = 0
    BY <1>8, CommandSector DEF rw_command
  <2>2. UNCHANGED <<call, attached>> /\ dev_bit' = 0
        /\ (attached[0] # "none" => job' = [job EXCEPT ![0] = Job(call.op, call.sector, call.data)])
    BY <1>8, <2>1 DEF rw_command, write_command, Goto
  <2>3. job \in [Devices -> Jobs] /\ 0 \in Devices
    BY DEF AtaInv, TypeOK, Devices
  <2> QED BY <2>2, <2>3 DEF CommandOK, Job
<1>9. CASE rw_status
  BY <1>9 DEF AtaInv, CommandOK, TypeOK, AbsentIdle, OpsOK,
            rw_status, ERR, DRQ, is_drq_active, LoopExceeded, Select, Again, Return, Job, Words
<1>10. ASSUME NEW d \in Devices, device_step(d)
      PROVE  CommandOK'
  BY <1>10 DEF AtaInv, CommandOK, TypeOK, AbsentIdle, OpsOK,
            device_step, CanServe, driver, notes
<1>11. CASE UNCHANGED vars
  BY <1>11 DEF AtaInv, CommandOK, TypeOK, AbsentIdle, OpsOK,
            vars, devices, driver, notes
<1> QED BY <1>1, <1>2, <1>3, <1>4, <1>5, <1>6, <1>7, <1>8, <1>9, <1>10, <1>11,
  AtaAssumption DEF Next, driver_step

\* What a read delivered stays what the sector holds until the next call.
LEMMA FreshStep ==
    ASSUME AtaInv, [Next]_vars
    PROVE  FreshOK'
<1>1. CASE open_ATA_disk
  BY <1>1 DEF AtaInv, FreshOK, TypeOK, OpsOK,
            open_ATA_disk, devices
<1>2. ASSUME NEW op \in {"read", "write"}, NEW d \in Devices, NEW s \in Sectors, NEW v \in Data,
             sector_rw_common(op, d, s, v)
      PROVE  FreshOK'
  BY <1>2 DEF AtaInv, FreshOK, TypeOK, OpsOK,
            sector_rw_common, devices, notes
<1>3. CASE do_device_selection_protocol
  BY <1>3 DEF AtaInv, FreshOK, TypeOK, OpsOK,
            do_device_selection_protocol, selection_done, devices, notes, Quiet, BSY, DRQ,
            Goto, Again, Failed, initialize_ata, Return, NextTry
<1>4. CASE initialize_common
  BY <1>4 DEF AtaInv, FreshOK, TypeOK, OpsOK,
            initialize_common, write_command, Job, Select, initialize_ata, Return, notes
<1>5. CASE identify_start
  BY <1>5 DEF AtaInv, FreshOK, TypeOK, OpsOK,
            identify_start, write_command, Job, DRDY, BSY, Goto, initialize_ata, Return, notes
<1>6. CASE identify_wait
  BY <1>6 DEF AtaInv, FreshOK, TypeOK, OpsOK,
            identify_wait, BSY, Goto, Again, initialize_ata, Return, devices, notes
<1>7. CASE identify_data
  BY <1>7 DEF AtaInv, FreshOK, TypeOK, OpsOK,
            identify_data, ERR, DRQ, Select, initialize_ata, Return
<1>8. CASE rw_command
  BY <1>8 DEF AtaInv, FreshOK, TypeOK, OpsOK,
            rw_command, write_command, Job, Goto, notes
<1>9. CASE rw_status
  <2>1. CASE pc' # "idle" \/ ret' # 0 \/ call'.op # "read"
    BY <2>1 DEF FreshOK
  <2>2. CASE pc' = "idle" /\ ret' = 0 /\ call'.op = "read"
    <3>1. /\ pc = "rw_drq" /\ status[dev_bit] = "drq" /\ call' = call
          /\ buf' \in Words(dev_bit) /\ UNCHANGED disk
          /\ status' = [status EXCEPT ![dev_bit] = "idle"]
      BY <1>9, <2>2 DEF rw_status, ERR, DRQ, is_drq_active, Select, Again, Return
    <3>2. /\ dev_bit = 0
          /\ attached[0] # "none" => job[0].cmd = "read" /\ job[0].sector = call.sector
      BY <2>2, <3>1 DEF AtaInv, CommandOK
    <3>3. attached[0] # "none" /\ status \in [Devices -> {"idle", "busy", "drq", "err"}]
          /\ 0 \in Devices
      BY <3>1, <3>2 DEF AtaInv, AbsentIdle, TypeOK, Devices
    <3>4. buf' = disk[0][call.sector]
      BY <3>1, <3>2, <3>3 DEF Words
    <3>5. status'[0] = "idle"
      BY <3>1, <3>2, <3>3
    <3> QED BY <3>1, <3>4, <3>5 DEF FreshOK
  <2> QED BY <2>1, <2>2
<1>10. ASSUME NEW d \in Devices, device_step(d)
      PROVE  FreshOK'
  <2>1. CASE ~(pc = "idle" /\ call.op = "read" /\ ret = 0)
    BY <1>10, <2>1 DEF FreshOK, device_step, driver
  <2>2. CASE pc = "idle" /\ call.op = "read" /\ ret = 0
    <3>1. status[0] # "busy" /\ buf = disk[0][call.sector]
      BY <2>2 DEF AtaInv, FreshOK
    <3>2. d # 0 /\ status[d] = "busy" /\ UNCHANGED <<pc, call, ret, buf>>
      BY <1>10, <3>1 DEF device_step, driver
    <3>3. status \in [Devices -> {"idle", "busy", "drq", "err"}] /\ 0 \in Devices
          /\ disk \in [Devices -> [Sectors -> Data]]
      BY DEF AtaInv, TypeOK, Devices
    <3>4. status'[0] = status[0] /\ disk'[0] = disk[0]
      BY <1>10, <3>2, <3>3 DEF device_step
    <3> QED BY <3>1, <3>2, <3>4 DEF FreshOK
  <2> QED BY <2>1, <2>2
<1>11. CASE UNCHANGED vars
  BY <1>11 DEF AtaInv, FreshOK, TypeOK, OpsOK,
            vars, devices, driver, notes
<1> QED BY <1>1, <1>2, <1>3, <1>4, <1>5, <1>6, <1>7, <1>8, <1>9, <1>10, <1>11,
  AtaAssumption DEF Next, driver_step

(***************************************************************************)
(* Types: the devices, the driver's control, its data.                     *)
(***************************************************************************)
DeviceTypes ==
    /\ attached \in [Devices -> Kinds]
    /\ status \in [Devices -> {"idle", "busy", "drq", "err"}]
    /\ job \in [Devices -> Jobs]
    /\ disk \in [Devices -> [Sectors -> Data]]

ControlTypes ==
    /\ dev_bit \in Devices
    /\ pc \in {"idle", "reset", "sel1", "sel2", "drdy", "id_bsy", "id_drq", "command", "rw_drq"}
    /\ call \in Calls
    /\ then \in {"none", "identify", "ready", "print_error"}
    /\ ret \in {0, -1}

CountTypes == i \in 0 .. Polls + DrqLoops /\ tries \in 0 .. Tries - 1

DataTypes ==
    /\ max_logical_sector_num \in Nat
    /\ buf \in Data
    /\ identified \subseteq Devices
    /\ promised \in [Sectors -> Data]

(***************************************************************************)
(* How a step may change the driver's variables.                           *)
(***************************************************************************)
LEMMA Changes ==
    ASSUME [Next]_vars
    PROVE  /\ UNCHANGED pc \/ pc' \in {"idle", "reset", "sel1", "sel2", "drdy", "id_bsy", "id_drq", "command",
                       "rw_drq"}
           /\ UNCHANGED then \/ then' \in {"none", "identify", "ready", "print_error"}
           /\ UNCHANGED ret \/ ret' = 0 \/ ret' = -1
           /\ \/ UNCHANGED call \/ call' = [call EXCEPT !.device = 1]
              \/ call' = [op |-> "open", device |-> 0, sector |-> NoSector, data |-> Blank]
              \/ \E op \in {"read", "write"}, d \in Devices, s \in Sectors, v \in Data :
                    call' = [op |-> op, device |-> d, sector |-> s, data |-> v]
           /\ UNCHANGED dev_bit \/ dev_bit' = call.device \/ dev_bit' = DevOf(call.sector)
           /\ UNCHANGED i \/ i' = 0 \/ (i' = i + 1 /\ (i + 1 < Polls \/ ~LoopExceeded))
           /\ UNCHANGED tries \/ tries' = 0 \/ (tries' = tries + 1 /\ tries + 1 < Tries)
           /\ \/ UNCHANGED max_logical_sector_num \/ max_logical_sector_num' = 0
              \/ max_logical_sector_num' = Size[dev_bit]
           /\ UNCHANGED identified \/ identified' = {} \/ identified' = identified \cup {dev_bit}
           /\ UNCHANGED promised \/ promised' = [promised EXCEPT ![call.sector] = call.data]
           /\ UNCHANGED buf \/ buf' \in Words(dev_bit)
<1>0. Blank \in Data
  BY AtaAssumption
<1> USE <1>0 DEF Next, driver_step, vars, devices, driver, notes, open_ATA_disk, sector_rw_common,
       do_device_selection_protocol, selection_done, initialize_common, identify_start,
       identify_wait, identify_data, rw_command, rw_status, device_step, write_command,
       Goto, Again, Select, Return, initialize_ata, Failed, NextTry
<1>1. UNCHANGED pc \/ pc' \in {"idle", "reset", "sel1", "sel2", "drdy", "id_bsy", "id_drq", "command",
                           "rw_drq"}
  OBVIOUS
<1>2. UNCHANGED then \/ then' \in {"none", "identify", "ready", "print_error"}
  OBVIOUS
<1>3. UNCHANGED ret \/ ret' = 0 \/ ret' = -1
  OBVIOUS
<1>4. \/ UNCHANGED call \/ call' = [call EXCEPT !.device = 1]
      \/ call' = [op |-> "open", device |-> 0, sector |-> NoSector, data |-> Blank]
      \/ \E op \in {"read", "write"}, d \in Devices, s \in Sectors, v \in Data :
            call' = [op |-> op, device |-> d, sector |-> s, data |-> v]
  OBVIOUS
<1>5. UNCHANGED dev_bit \/ dev_bit' = call.device \/ dev_bit' = DevOf(call.sector)
  OBVIOUS
<1>6. UNCHANGED i \/ i' = 0 \/ (i' = i + 1 /\ (i + 1 < Polls \/ ~LoopExceeded))
  OBVIOUS
<1>7. UNCHANGED tries \/ tries' = 0 \/ (tries' = tries + 1 /\ tries + 1 < Tries)
  OBVIOUS
<1>8. \/ UNCHANGED max_logical_sector_num \/ max_logical_sector_num' = 0
      \/ max_logical_sector_num' = Size[dev_bit]
  OBVIOUS
<1>9. UNCHANGED identified \/ identified' = {} \/ identified' = identified \cup {dev_bit}
  OBVIOUS
<1>10. UNCHANGED promised \/ promised' = [promised EXCEPT ![call.sector] = call.data]
  OBVIOUS
<1>11. UNCHANGED buf \/ buf' \in Words(dev_bit)
  OBVIOUS
<1> HIDE DEF Next, driver_step, vars, devices, driver, notes, open_ATA_disk, sector_rw_common,
       do_device_selection_protocol, selection_done, initialize_common, identify_start,
       identify_wait, identify_data, rw_command, rw_status, device_step, write_command,
       Goto, Again, Select, Return, initialize_ata, Failed, NextTry
<1> QED BY <1>1, <1>2, <1>3, <1>4, <1>5, <1>6, <1>7, <1>8, <1>9, <1>10, <1>11

\* The devices' commands.
LEMMA JobTypes ==
    /\ \A c \in {"none", "reset", "identify", "read", "write", "flush"},
          s \in Sectors \cup {NoSector}, v \in Data : Job(c, s, v) \in Jobs
    /\ \A j \in Jobs : j.sector \in Sectors \cup {NoSector} /\ j.data \in Data
    /\ \A c \in Calls : /\ c.op \in {"open", "read", "write"} /\ c.device \in Devices
                        /\ c.sector \in Sectors \cup {NoSector} /\ c.data \in Data
                        /\ [c EXCEPT !.device = 1] \in Calls
<1>1. \A c \in Calls : [c EXCEPT !.device = 1] \in Calls
  BY DEF Calls, Devices
<1>2. \A c \in Calls : /\ c.op \in {"open", "read", "write"} /\ c.device \in Devices
                       /\ c.sector \in Sectors \cup {NoSector} /\ c.data \in Data
  BY DEF Calls
<1> QED BY <1>1, <1>2 DEF Job, Jobs

\* A command and its job go to one device; the others keep theirs.
LEMMA CommandTypes ==
    ASSUME TypeOK, NEW d \in Devices, NEW j \in Jobs, write_command(d, j)
    PROVE  status' \in [Devices -> {"idle", "busy", "drq", "err"}] /\ job' \in [Devices -> Jobs]
<1>1. status \in [Devices -> {"idle", "busy", "drq", "err"}] /\ job \in [Devices -> Jobs]
  BY DEF TypeOK
<1> QED BY <1>1 DEF write_command

\* The devices.
LEMMA DeviceTypesStep ==
    ASSUME AtaInv, [Next]_vars
    PROVE  DeviceTypes'
<1>1. CASE open_ATA_disk
  BY <1>1 DEF AtaInv, DeviceTypes, TypeOK,
            open_ATA_disk, devices
<1>2. ASSUME NEW op \in {"read", "write"}, NEW d \in Devices, NEW s \in Sectors, NEW v \in Data,
             sector_rw_common(op, d, s, v)
      PROVE  DeviceTypes'
  BY <1>2 DEF AtaInv, DeviceTypes, TypeOK,
            sector_rw_common, devices, notes
<1>3. CASE do_device_selection_protocol
  BY <1>3 DEF AtaInv, DeviceTypes, TypeOK,
            do_device_selection_protocol, selection_done, devices, notes, Quiet, BSY, DRQ,
            Goto, Again, Failed, initialize_ata, Return, NextTry
<1>4. CASE initialize_common
  <2>1. Blank \in Data /\ call \in Calls /\ TypeOK
    BY AtaAssumption DEF AtaInv, TypeOK
  <2>2. Job("reset", NoSector, Blank) \in Jobs /\ call.device \in Devices
    BY <2>1, JobTypes
  <2>3. status' \in [Devices -> {"idle", "busy", "drq", "err"}] /\ job' \in [Devices -> Jobs]
    BY <1>4, <2>1, <2>2, CommandTypes DEF initialize_common
  <2> QED BY <1>4, <2>1, <2>3 DEF DeviceTypes, TypeOK, initialize_common
<1>5. CASE identify_start
  <2>1. Blank \in Data /\ dev_bit \in Devices /\ TypeOK
    BY AtaAssumption DEF AtaInv, TypeOK
  <2>2. Job("identify", NoSector, Blank) \in Jobs
    BY <2>1, JobTypes
  <2>3. status' \in [Devices -> {"idle", "busy", "drq", "err"}] /\ job' \in [Devices -> Jobs]
    BY <1>5, <2>1, <2>2, CommandTypes DEF identify_start, TypeOK
  <2> QED BY <1>5, <2>1, <2>3 DEF DeviceTypes, TypeOK, identify_start
<1>6. CASE identify_wait
  BY <1>6 DEF AtaInv, DeviceTypes, TypeOK,
            identify_wait, BSY, Goto, Again, initialize_ata, Return, devices, notes
<1>7. CASE identify_data
  BY <1>7 DEF AtaInv, DeviceTypes, TypeOK,
            identify_data, ERR, DRQ, Select, initialize_ata, Return
<1>8. CASE rw_command
  <2>1. call \in Calls /\ TypeOK /\ call.op # "open" /\ DevOf(call.sector) \in Devices
    BY <1>8, CommandSector DEF AtaInv, TypeOK, OpsOK, rw_command, Devices
  <2>2. Job(call.op, call.sector, call.data) \in Jobs
    BY <2>1, JobTypes
  <2>3. status' \in [Devices -> {"idle", "busy", "drq", "err"}] /\ job' \in [Devices -> Jobs]
    BY <1>8, <2>1, <2>2, CommandTypes DEF rw_command
  <2> QED BY <1>8, <2>1, <2>3 DEF DeviceTypes, TypeOK, rw_command
<1>9. CASE rw_status
  <2>1. /\ status \in [Devices -> {"idle", "busy", "drq", "err"}] /\ job \in [Devices -> Jobs]
        /\ dev_bit \in Devices /\ call \in Calls
    BY DEF AtaInv, TypeOK
  <2>2. Job("flush", job[dev_bit].sector, call.data) \in Jobs
    BY <2>1, JobTypes
  <2>3. \/ UNCHANGED <<status, job>>
        \/ UNCHANGED job /\ status' = [status EXCEPT ![dev_bit] = "idle"]
        \/ /\ status' = [status EXCEPT ![dev_bit] = "busy"]
           /\ job' = [job EXCEPT ![dev_bit] = Job("flush", job[dev_bit].sector, call.data)]
    BY <1>9 DEF rw_status
  <2>4. status' \in [Devices -> {"idle", "busy", "drq", "err"}]
    BY <2>1, <2>3
  <2>5. job' \in [Devices -> Jobs]
    BY <2>1, <2>2, <2>3
  <2> QED BY <1>9, <2>4, <2>5 DEF AtaInv, DeviceTypes, TypeOK, rw_status
<1>10. ASSUME NEW d \in Devices, device_step(d)
      PROVE  DeviceTypes'
  <2>1. /\ status \in [Devices -> {"idle", "busy", "drq", "err"}] /\ job \in [Devices -> Jobs]
        /\ disk \in [Devices -> [Sectors -> Data]]
    BY DEF AtaInv, TypeOK
  <2>2. status' \in [Devices -> {"idle", "busy", "drq", "err"}]
    BY <1>10, <2>1 DEF device_step
  <2>3. disk' \in [Devices -> [Sectors -> Data]]
    <3>1. job[d].data \in Data
      BY <2>1, JobTypes
    <3>2. UNCHANGED disk \/ disk' = [disk EXCEPT ![d] = [disk[d] EXCEPT ![job[d].sector] = job[d].data]]
      BY <1>10 DEF device_step
    <3>3. ASSUME NEW f \in [Sectors -> Data], NEW x, NEW v \in Data
          PROVE  [f EXCEPT ![x] = v] \in [Sectors -> Data]
      OBVIOUS
    <3>4. [disk[d] EXCEPT ![job[d].sector] = job[d].data] \in [Sectors -> Data]
      BY <2>1, <3>1, <3>3
    <3> QED BY <2>1, <3>2, <3>4
  <2> QED BY <1>10, <2>1, <2>2, <2>3 DEF AtaInv, DeviceTypes, TypeOK, device_step
<1>11. CASE UNCHANGED vars
  BY <1>11 DEF AtaInv, DeviceTypes, TypeOK,
            vars, devices, driver, notes
<1> QED BY <1>1, <1>2, <1>3, <1>4, <1>5, <1>6, <1>7, <1>8, <1>9, <1>10, <1>11,
  AtaAssumption DEF Next, driver_step

\* The control.
LEMMA ControlTypesStep ==
    ASSUME AtaInv, [Next]_vars
    PROVE  ControlTypes'
<1>0. TypeOK
  BY DEF AtaInv
<1>1. call' \in Calls
  <2>1. Blank \in Data /\ call \in Calls
    BY <1>0, AtaAssumption DEF TypeOK
  <2>2. [op |-> "open", device |-> 0, sector |-> NoSector, data |-> Blank] \in Calls
    BY <2>1 DEF Calls, Devices
  <2>3. \A op \in {"read", "write"}, d \in Devices, s \in Sectors, v \in Data :
           [op |-> op, device |-> d, sector |-> s, data |-> v] \in Calls
    BY DEF Calls
  <2> QED BY <2>1, <2>2, <2>3, JobTypes, Changes
<1>2. dev_bit' \in Devices
  <2>1. CASE rw_command
    BY <2>1, CommandSector DEF rw_command, Devices
  <2>2. rw_command \/ UNCHANGED dev_bit \/ dev_bit' = call.device
    BY DEF Next, driver_step, vars, driver, open_ATA_disk, sector_rw_common,
       do_device_selection_protocol, initialize_common, identify_start, identify_wait,
       identify_data, rw_status, device_step
  <2>3. dev_bit \in Devices /\ call \in Calls
    BY <1>0 DEF TypeOK
  <2> QED BY <2>1, <2>2, <2>3, JobTypes
<1>3. /\ pc' \in {"idle", "reset", "sel1", "sel2", "drdy", "id_bsy", "id_drq", "command", "rw_drq"}
      /\ then' \in {"none", "identify", "ready", "print_error"}
      /\ ret' \in {0, -1}
  BY <1>0, Changes DEF TypeOK
<1> QED BY <1>1, <1>2, <1>3 DEF ControlTypes

\* The counters of the loops stay within their bounds.
LEMMA CountTypesStep ==
    ASSUME AtaInv, [Next]_vars
    PROVE  CountTypes'
<1>0. /\ i \in 0 .. Polls + DrqLoops /\ tries \in 0 .. Tries - 1
      /\ Polls \in Nat \ {0} /\ Tries \in Nat \ {0} /\ DrqLoops \in Nat
  BY AtaAssumption DEF AtaInv, TypeOK
<1>1. i' \in 0 .. Polls + DrqLoops
  <2>1. UNCHANGED i \/ i' = 0 \/ (i' = i + 1 /\ (i + 1 < Polls \/ ~(i > DrqLoops)))
    BY Changes DEF LoopExceeded
  <2> QED BY <1>0, <2>1
<1>2. tries' \in 0 .. Tries - 1
  <2>1. UNCHANGED tries \/ tries' = 0 \/ (tries' = tries + 1 /\ tries + 1 < Tries)
    BY Changes
  <2> QED BY <1>0, <2>1
<1> QED BY <1>1, <1>2 DEF CountTypes

\* The data.
LEMMA DataTypesStep ==
    ASSUME AtaInv, [Next]_vars
    PROVE  DataTypes'
<1>0. TypeOK
  BY DEF AtaInv
<1>1. max_logical_sector_num' \in Nat /\ identified' \subseteq Devices
  <2>1. Size \in [Devices -> Nat] /\ dev_bit \in Devices
    BY <1>0, AtaAssumption DEF TypeOK
  <2> QED BY <1>0, <2>1, Changes DEF TypeOK
<1>2. promised' \in [Sectors -> Data]
  <2>1. promised \in [Sectors -> Data] /\ call \in Calls
    BY <1>0 DEF TypeOK
  <2>2. call.data \in Data
    BY <2>1, JobTypes
  <2> QED BY <2>1, <2>2, Changes
<1>3. buf' \in Data
  <2>1. CASE buf' \in Words(dev_bit) /\ rw_status
    <3>1. CASE status[dev_bit] = "drq" /\ job[dev_bit].cmd = "read"
      <4>1. /\ pc = "rw_drq" /\ dev_bit = 0 /\ attached[0] # "none"
        BY <2>1, <3>1 DEF rw_status, AtaInv, CommandOK, AbsentIdle, Devices
      <4>2. job[0].sector = call.sector /\ call.op # "open" /\ call.sector \in Nat
        BY <4>1 DEF AtaInv, CommandOK, OpsOK, RangeOK
      <4>3. call.sector \in Sectors
        <5>1. NoSector \notin Nat
          BY DEF NoSector
        <5> QED BY <1>0, <4>2, <5>1, JobTypes DEF TypeOK
      <4>4. disk[0][call.sector] \in Data
        BY <1>0, <4>3 DEF TypeOK, Devices
      <4> QED BY <2>1, <3>1, <4>1, <4>2, <4>4 DEF Words
    <3>2. CASE ~(status[dev_bit] = "drq" /\ job[dev_bit].cmd = "read")
      BY <2>1, <3>2 DEF Words
    <3> QED BY <3>1, <3>2
  <2>2. UNCHANGED buf \/ (rw_status /\ buf' \in Words(dev_bit))
    BY DEF Next, driver_step, vars, driver, open_ATA_disk, sector_rw_common,
       do_device_selection_protocol, initialize_common, identify_start, identify_wait,
       identify_data, rw_command, rw_status, device_step
  <2> QED BY <1>0, <2>1, <2>2 DEF TypeOK
<1> QED BY <1>1, <1>2, <1>3 DEF DataTypes

----------------------------------------------------------------------------
(***************************************************************************)
(* The inductive invariant.                                                *)
(***************************************************************************)
LEMMA AtaInit == Init => AtaInv
<1> SUFFICES ASSUME Init PROVE AtaInv
  OBVIOUS
<1>0. Blank \in Data /\ Polls \in Nat \ {0} /\ Tries \in Nat \ {0} /\ DrqLoops \in Nat
  BY AtaAssumption
<1>1. TypeOK
  <2>1. Job("none", NoSector, Blank) \in Jobs
    BY <1>0, JobTypes
  <2>2. call \in Calls
    BY <1>0 DEF Init, Calls, Devices
  <2>3. i \in 0 .. Polls + DrqLoops /\ tries \in 0 .. Tries - 1
    BY <1>0 DEF Init
  <2> QED BY <1>0, <2>1, <2>2, <2>3 DEF Init, TypeOK, Devices
<1>2. AbsentIdle /\ OpsOK /\ SelectOK /\ CommandOK /\ IdentifyOK /\ FreshOK
  BY DEF Init, AbsentIdle, OpsOK, SelectOK, CommandOK, IdentifyOK, FreshOK
<1>3. RangeOK
  <2>1. 0 < Bit28
    BY SMT DEF Bit28
  <2> QED BY <2>1 DEF Init, RangeOK
<1> QED BY <1>1, <1>2, <1>3 DEF AtaInv

\* AtaInv is kept by every step.
LEMMA AtaStep == AtaInv /\ [Next]_vars => AtaInv'
<1> SUFFICES ASSUME AtaInv, [Next]_vars PROVE AtaInv'
  OBVIOUS
<1>1. TypeOK'
  <2>1. DeviceTypes' /\ ControlTypes' /\ CountTypes' /\ DataTypes'
    BY DeviceTypesStep, ControlTypesStep, CountTypesStep, DataTypesStep
  <2> QED BY <2>1 DEF TypeOK, DeviceTypes, ControlTypes, CountTypes, DataTypes
<1>2. AbsentIdle' /\ OpsOK' /\ RangeOK' /\ SelectOK'
  BY AbsentStep, OpsStep, RangeStep, SelectStep
<1>3. CommandOK' /\ IdentifyOK' /\ FreshOK'
  BY CommandStep, IdentifyStep, FreshStep
<1> QED BY <1>1, <1>2, <1>3 DEF AtaInv

\* The invariant holds in every state.
THEOREM AtaSafe == Spec => []AtaInv
  BY AtaInit, AtaStep, PTL DEF Spec

----------------------------------------------------------------------------
\* Every variable of the driver and of the devices has its type; in particular
\* the counters of the polling loops stay within the loops' bounds.
THEOREM AtaTypes == Spec => []TypeOK
<1>1. AtaInv => TypeOK
  BY DEF AtaInv
<1> QED BY <1>1, AtaSafe, PTL

(***************************************************************************)
(* A command is never written to a device that still works on one.         *)
(***************************************************************************)
THEOREM AlwaysOneCommand == Spec => []OneCommandAtATime
<1>1. AtaInv => OneCommandAtATime
  <2> SUFFICES ASSUME AtaInv, pc = "command", call.device = 0
               PROVE  status[DevOf(call.sector)] \notin {"busy", "drq"}
    BY DEF OneCommandAtATime
  <2>1. DevOf(call.sector) = 0
    BY CommandSector
  <2> QED BY <2>1 DEF AtaInv, SelectOK
<1> QED BY <1>1, AtaSafe, PTL

\* read_sector never delivers the data of an abandoned command.
THEOREM ReadsAlwaysFresh == Spec => []ReadsAreFresh
<1>1. AtaInv => ReadsAreFresh
  BY DEF AtaInv, FreshOK, ReadsAreFresh
<1> QED BY <1>1, AtaSafe, PTL

(***************************************************************************)
(* The safety half of CallsReturn: only a device that ends IDENTIFY DEVICE *)
(* with neither DRQ nor ERR keeps the driver in its status loop.           *)
(***************************************************************************)
THEOREM OnlyMuteHangs == Spec => [](Hung => attached[dev_bit] = "mute")
<1>1. AtaInv => (Hung => attached[dev_bit] = "mute")
  BY DEF AtaInv, IdentifyOK, Hung
<1> QED BY <1>1, AtaSafe, PTL
=============================================================================
