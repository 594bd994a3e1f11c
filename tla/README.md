# A TLA+ model of opx-sdi-sys

opx-sdi-sys is the System Device Interface library of OPX: a C library, linked
into the platform service, that finds the devices of a switch from an XML
configuration and offers one API over them (entities, fans, thermal sensors,
LEDs, media, NVRAM, ...).  It comes in two flavours: `sdi-sys` talks to
hardware through drivers and buses, `sdi-sys-vm` answers the same API from an
SQLite file.

This directory holds TLA+ modules that model it, TLC configurations that check
them on small instances, and theorems proved with TLAPS.
`PROJECT.json` is the index: components, runs, mutants (a plausible bug for
every property, which its run must catch), the map from each definition to the
lines it models, the hazards, the findings and the theorems.

Paths below are relative to the repository; `drivers/`, `framework/`, `hwcore/`
`vmcore/` and `vmdb/` are directories of `src/`.

## Running

    tlc -config I2cPinMux.cfg MC_I2cStack.tla     # any cfg with its module, see "Runs"
    tlapm I2cStackProofs.tla                       # also CpldPinsProofs, EntityPresenceProofs,
                                                   # VmDbProofs, BmcSensorsProofs,
                                                   # DeviceProofs, ControllerProofs, MediaProofs

The library modules (FiniteSets, Sequences, SequencesExt, FiniteSetsExt, TLC,
TLAPS) are the standard and the community ones.

## 1. Inventory

### 1.1 Components

| Component | State it keeps | Operations | Talks to |
|---|---|---|---|
| **I2C adapter driver, bus API** (`drivers/sdi_i2cdev.c`, `framework/sdi_i2c_bus_api.c`) | one file descriptor per adapter with its slave address and PEC flag; a mutex | acquire, smbus_execute, i2c_execute, release; the `sdi_smbus_*` calls wrap acquire–execute–release | kernel ioctls; called by every I2C driver |
| **I2C muxes** (`drivers/sdi_i2cmux_pin.c`, `sdi_i2cmux_pca.c`) | a lock per mux; the selection in the hardware | per channel: acquire (select), execute through the parent, release | parent bus; a pin group or a control register on the parent bus |
| **CPLD pins, pin groups** (`drivers/sdi_cpld_pin.c`, `sdi_cpld_pin_group.c`, `framework/sdi_pin*_bus_api.c`) | none of their own: whole registers are read and written; a lock per pin / group | read_level, write_level | an I/O, I2C or FPGA register |
| **Entities** (`hwcore/sdi_entity.c`, `sdi_entity_info.c`, `sdi_entity_reset.c`, `sdi_entity_framework.c`) | per entity: `present`, `entity_info_valid`, `entity_info` | presence_get, fault status, PSU output status, init, reset, power control | presence pins or BMC sensors, the EEPROM, reset pins, fans |
| **VM database** (`vmdb/sdi_db_ops.c`) | SQLite file with a target and a regular column for some fields; a SysV semaphore | open, close, get, set, target set, reinit | all VM resources; several processes |
| **Media** (`hwcore/sdi_media.c`, `drivers/sdi_sfp*.c`, `sdi_qsfp*.c`, `sdi_media_*.c`, `sdi_fixed_port.c`) | per port: what module_init learned (adapter, category, version, power class); in the module: page select byte, transmitter and power control bytes; the levels of the mux and select pin groups | some fifty operations: presence, monitors, parameters, control, tuning, PHY, generic read and write | two pin groups, a bus, the module |
| **BMC** (`drivers/sdi_bmc.c`, `framework/sdi_bmc_db.cpp`) and **BMC resources** (`drivers/sdi_bmc_dev.c`, `sdi_bmc_fan.c`, `sdi_bmc_tmp.c`, `sdi_bmc_entity_info.c`) | the map of sensor records under a lock; records with states, readings and information; the list of pollers | event handlers, poller, search and registration at start-up, reads of temperature, fan and entity information | OpenIPMI's event thread; a poller thread |
| **Communication device** (`drivers/sdi_comm_dev_*.c`, `hwcore/sdi_comm_dev.c`) | none; the mailboxes and their command bits are the controller's | message read and write, ready and present, versions, external control, temperatures, platform information | a chassis controller, over I2C |
| **Fan controllers** (`drivers/sdi_max6620.c`, `sdi_emc2305.c`, `sdi_pmbus_dev.c`, `sdi_s6k_psu.c`, `hwcore/sdi_fan.c`) | maximum speed, latched faults; tachometer registers, fault registers cleared by reading | start-up, speed get and set, status | I2C |
| **Temperature and power sensors** (`drivers/sdi_emc142x.c`, `sdi_max6699.c`, `sdi_tmp75.c`, `sdi_ina219.c`, `hwcore/sdi_thermal.c`, `sdi_power_monitor.c`) | the limits written last; calibration | start-up, threshold get and set, temperature, alarms, power readings | I2C |
| **SmartFusion bus** (`drivers/sdi_sf_*.c`) | a lock; the address register of the bus | byte and word accesses as port accesses; fan speed, temperature, external control, entity information | an FPGA's RAM through three ports |
| **LEDs and displays** (`drivers/sdi_*_pin_led.c`, `sdi_segment_display.c`, `hwcore/sdi_led.c`) | the character map and the text shown last | on, off, set, get, state | pins and pin groups |
| **EEPROM readers** (`drivers/sdi_eeprom.c`, `sdi_onie_eeprom.c`, `sdi_dell_eeprom.c`, `sdi_entity_info_vdriver.c`) | the part number of the system | read the entity information | I2C, type pins |
| Bus framework (`framework/sdi_bus_framework.c`) | lists of buses and devices with their locks | register, get by name, for each, attach device | drivers at startup |
| Startup, driver and resource frameworks | registration lists | sdi_sys_init | configuration |
| NVRAM, GPIO, memory and port buses, host system | none | single accesses | buses, files |
| VM resources (`vmcore/`) | none | each API function is a few database calls | VM database |

### 1.2 How they interact

A driver calls `sdi_smbus_read_byte(bus, addr, ...)`.  The bus API acquires the
bus, executes, releases.  If the bus is a mux channel, *acquire* takes the
mux lock, makes the selector connect the channel, and — for a pin-selected mux —
acquires the parent; *execute* is the parent's execute; *release* undoes it all.
The selector itself may be a pin group in a CPLD on the *same* parent bus, so
that a single call acquires and releases the parent's lock three times.
Entities use drivers through resource handles and pins through the pin API; the
VM flavour replaces everything below the API by the database.

A media call takes the mux and the module select pin group, each with its lock,
and holds both over its accesses; a QSFP port hands calls for an adapted SFP on
to the SFP functions.  The BMC device is driven from three sides: OpenIPMI's
event thread calls the handlers, a poller thread asks for readings, and the
platform service registers and reads.  The communication device shares its
mailboxes with a controller that runs on its own.

### 1.3 What is hard

* *Shared modes of a descriptor.*  Slave address and PEC are set by ioctls that
  precede the transfer; only the adapter's lock ties them together.
* *Error paths of nested acquires.*  Each return must release exactly what was
  locked; a few of the media functions return from the middle of the section.
* *Read–modify–write of a register* by pins with a lock each, and of the
  transmitter byte of a module by its sub-ports.
* *State read, then used.*  The presence of a unit, then its EEPROM.  What was
  learned of a module, then of its successor in the cage.
* *Page registers.*  Most operations assume page 0; those that select another
  page must come back on every path.
* *A record searched and made in two sections of a lock*, by three threads, under
  two kinds of keys; readings that are cleared and filled without the lock.
* *A mailbox moved in pieces* while the other side takes, sends and resets.
* *An address in one port access, the data in another.*
* *Fault registers that reading clears*, caches beside a chip, narrow counters.
* *Errors that are dropped.*  Reset ignores init; a sensor's error is replaced; a
  byte that is read overwrites the result of the one before.
* *Processes that die, and a semaphore that survives them.*
* *Startup races* on the database file.

`PROJECT.json` lists these hazards one by one, at their lines, with the
properties that cover them or the reason none does.

### 1.4 What makes each component correct

* I2C: each transfer goes to the device its caller named, with the PEC setting
  its caller asked for; no path leaks a lock; every call returns.
* CPLD: a write changes its own bits only, and stands until the next one; a
  read reports the level the line has.
* Entities: contents that are given out belong to a unit that is there; an
  answer without error is what the hardware said; a unit that stays gets known.
* Database: accesses exclude each other; an opened database is complete; the
  two columns of a target field agree; the semaphore is always given back.
* Media: accesses reach the port's own module on their page; page, locks and
  transmitters are left as they should be; success means that nothing failed; a
  module draws high power only where the cage can supply it, once its class was learned.
* BMC: one record for a sensor, complete and from one source; presence and states
  are those the BMC reported last.
* Communication device: a message moves whole or not at all; none is lost; what
  the host is told of the controller is so.
* Fans: a speed set is the speed that is read back; a fault is told, once, and
  no fault is lost in the register of another fan.
* Sensors: the cached limits are those of the chip; readings fit the calibration.
* SmartFusion: a value is of one register and of one moment.
* Displays: what the driver remembers, the pins and what calls deliver agree.
* EEPROMs: what is told is what was meant when the image was written.

## 2. Plan

In order of importance; all but 6, 10 and 12 are done.

1. `I2cService` (abstract), `I2cStack` (implements it), `I2cStackCalls`
   (bounded calls, for progress), `I2cStackProofs`.
2. `CpldPins`: the pins below a pin-selected mux and most of the API.
3. `EntityPresence`: the layer the platform service sees.
4. `VmDb`: the concurrency of the VM flavour.
5. Theorems: type correctness, lock ownership and slave safety of `I2cStack`; type
   correctness, cache, init and presence safety of `EntityPresence`; type
   correctness and exclusion of `VmDb`.
6. `SmbusWire`: sizes and bytes of an SMBus call.  Left: the bytes matter where a
   retried or a multi-byte read starts again, and no component above looks at them.
7. `BmcSensors`: event thread, poller thread, start-up and readers of the records.
8. `CommDev`: host and controller at the mailboxes.
9. `MediaAccess`: select, page, access, deselect, on several ports and threads.
10. `BusFramework` and `Startup`.  Left: one thread builds the lists before any
    other runs and nothing changes them afterwards.
11. `FanControllers`, `Sensors`, `SfBus`, `Displays`, `Eeproms`: the drivers of
    single devices, on one base (`DeviceBus`).
12. `VmResources`: API functions of several database accesses.  Left: they hold
    nothing between their accesses; each one is a call of `VmDb`.
13. Theorems: `ExactTarget`, `PecHonoured`, `PointerStable` and the refinement for
    `I2cStack`; `OwnBitsOnly`, `ReadsWhatIs` and `LastWriteStands` for `CpldPins`;
    `OpenedIsReady` and `ColumnsAgree` for `VmDb`; `RecordsWhole` and `PresenceKept`
    for `BmcSensors`; `DisplayShows`, `SensorsAgree`, `SfWhole`, `FansHonest` and `FaultTold`
    for the single devices; `HostTold` and `MailboxWhole` for the communication device;
    `SlotOwned` and `HonestResult` for the media.  Left: EEPROMs, and the pages, transmitters
    and power of the media.

Modules that are proved about use no RECURSIVE operator; bounds and layouts are
CONSTANTS with named assumptions.

## 3. Modules and the code

### 3.1 I2cStack

Threads call the bus API on the root bus or on channels of muxes.

| State | Code |
|---|---|
| `busLock`, `muxLock`, `groupLock` | `sdi_sys_i2c_bus_t.lock`, `mux_lock` of each mux, the pin group's lock |
| `sel` | which channel the selector connects in the hardware |
| `fdSlave`, `fdPec` | what ioctl(I2C_SLAVE) and ioctl(I2C_PEC) set on the descriptor |
| `ptr` | whose address write moved a device's register pointer last |
| `pc`, `phase`, `call`, `count`, `sub`, `tries`, `rc` | the position and locals of the call a thread is in |

Actions follow the code in order: `Start`; `LockMux`, `LockGroup`,
`WriteLevel`, `LockBus` and `LockFails` for the acquire functions; `SetSlave`,
`EnablePec`, `Transfer` / `TransferFails` (one attempt each), `DisablePec` for
`sdi_i2cdev_smbus_execute`; `UnlockBus`, `UnlockGroup`, `UnlockMux` for the
release functions.  `phase` tells which execute is under way: the caller's
(`body`), the select and deselect byte of a PCA mux, or the register read and
write of a pin group behind I2C.  Every lock operation, ioctl and attempt is a
step.

A transfer that reaches a control register by mistake may select anything.
A failed attempt may have reached the device or not.  A PCA channel executes
its body without the adapter's lock, as the code does.

Abstracted: the bytes of a transfer, `sdi_i2c_execute` (I2C_RDWR),
registration, more than one level of muxes.

### 3.2 I2cService

What a driver may rely on: sessions with one device that do not overlap, and
transfers that touch the session's device.  `I2cStack` implements it with
`session[t]` = the device of the execute under way while `t` is inside an
acquired bus; the select, register and body executes are sessions of their own.

### 3.3 I2cStackCalls

`I2cStack` with at most `MaxCalls` calls per thread and weak fairness per thread.

### 3.4 CpldPins

Registers and levels are sets of the bits that are 1; shifts and masks of the C
code become sums and intersections.  `LevelOf` and `RegisterOf` translate the
three cases (only, first, last register) of `sdi_cpld_pin_group_read_level` and
`..._write_level`; a pin is a line of one bit.  Actions: `Start`, `Lock`,
`LockFails`, `ReadToReport`, `ReadToModify`, `Write`, `AccessFails`, `Unlock`.
`stands` is a history variable: the level last reported as written.  The
reference (`BitsOf`, `LevelOnLine`) is written independently: the bits of a line
are numbered consecutively from `StartOffset` of the first register.

### 3.5 EntityPresence

One entity and its slot.  `present`, `valid`, `info` are the fields of
`entity_priv_hdl`; `unit` and `power` are the world.  `Call(o)` enters one of the
API functions, which all begin with `sdi_entity_presence_get`: `ReadPresence`,
`ReadPower` (PSU), `Update`, `ReadEeprom`; then `FinishQuery` or `FinishInit`.
`DrivePins` is the reset or power pin of those that have one.  `Plug`, `Pull` and
`SwitchPower` may happen at any time, between any two steps of a call too.  `actual`,
`since` and `late` are history variables: the truth when presence was read; the units
that have been in the slot since a poll last found it empty; and that a unit was
inserted after a poll had found the slot empty and before it read the EEPROM, until
nothing of what that poll read is left.  The entity layer
has no lock, so there is one calling thread.

### 3.6 VmDb

Processes open (`OpenSemaphore`, `LookForFile`, `MakeFile`, `RunCreateScript`,
`RunInitScript`, `OpenFile`), close and crash; threads `Start` a call, `Take` the semaphore,
`Access`, `Give`.  A target set passes twice.  `sdi_db_run_sql_script` returns nothing: of
a script that cannot be opened, a command that fails and the commands behind an
over-long one no caller learns, and each of the two scripts may in the model leave the
file as it was or half done (fault `"script"`).  `torn` is a history variable: filling
the file was cut short or lost a command.  The semaphore's count belongs to
the kernel and survives the processes.  One field of one row stands for all
tables.

### 3.7 MediaSteps, MediaPhy, QsfpEeprom, SfpEeprom, MediaApi, MediaAccess

The transceiver drivers are some seventy functions of one shape: select the
module, access registers, select a page on the way and go back, deselect.
`MediaSteps` is the vocabulary for them: a function is the sequence of the steps
it takes, and each step says how many of the following ones a failure passes over
(a `break`, a `return` without the cleanup, an error that is only logged) and
whether its result reaches the return code.  `QsfpEeprom` and `SfpEeprom` write
down the drivers, `MediaPhy` the copper PHY, the mailbox of the external
controller and the 4x1000BASE-T module; `MediaApi` is `hwcore/sdi_media.c`: for
each API function the set of sequences a call can be, over its arguments, what the
driver remembers of the module (`d`) and what the module answers (`f`).

`MediaAccess` executes them: `Call` and `InitModule` start one on a port,
`Acquire`, `Select`, `SelectFails`, `Deselect` handle the two pin groups with their
locks, `Access` and `AccessFails` the accesses, `Stray` an access after the
selection failed or before it was made, `Decide` and `Note` the jumps and the driver's memory,
`Finish` the return.  Modules come and go (`Insert`, `Remove`).  `page`, `off` and
`hp` are the page byte, the transmitters switched off and the power enable of the
module in a cage; `known`, `asked` and `hurt` are history variables, and so is the mark
`astray` of a thread: its generic access goes on without pages though the module has
them.  A module is
inserted when no port remembers its predecessor, that is after module_init has run
for the empty cage.

Values read, the repetitions of the mailbox poll and the registration of ports
are abstracted.

### 3.8 BmcSensors

The records (`heap`), the map of them by key (`sensor_map`), the entity, the
pointers the resources keep (`devs`), the poller list (`sensor_loc`, `head`), and
the BMC itself (`bmc`, `link`).  Start-up (`DeviceDriverInit`, `SetPollerHead`,
`RegisterData`, `FanResRegister`, `EntityInfoResAdd`, `EntityInfoResRegister`), the
handlers of the event thread, the poller's rounds and the readers each take the
map's lock for one section; every section is one action, and what a thread does
with a record outside the lock is an action of its own.  The creation of a record
is `SensorCreate` (search), `SensorCreateAdd`, `SensorCreateInit`, for the event
thread and the poller alike.  The states of a discrete sensor are cleared by
`SensorDiscreteStates` and set bit by bit.  `told` (the presence reported
last) and `main.out` (what a reader got) are what the properties look at; `died`
says that a NULL was followed.  `scene` is the configuration of the entity.

### 3.9 DeviceBus and the single devices

`DeviceBus` is what the small I2C drivers share: a call is a chain of accesses
over a record of registers (`chip`), driver data (`drv`) and success; one access
may fail and what follows is left out, unless the driver logs and goes on.  The
call is one action when one thread uses the device; `out` is its outcome, `seen`
the history.

* `FanControllers`: MAX6620 (fault register cleared by reading, faults latched for
  all fans, tachometer counts), EMC2305 (three fault registers, direct and closed
  loop), PMBus supplies (the pct/rpm map, linear format), and the fan API.  A fan is
  called once its resource_init has run (`Usable`), as the entity framework does it.
  A counter of turns shows a fan that has not started, is stuck or turns as told
  (`FansTurn`), any of them at every read.
* `Sensors`: EMC142x, MAX6699 and TMP75 with limits in a cache beside the chip,
  INA219 with its calibration and restarts.  A start-up goes through the connected
  sensors in their order (`Started`).
* `SfBus`: two threads; a byte of the RAM is three port accesses (address high,
  address low, data), each an action; the bus lock around the calls of three
  drivers and none around the entity information, as in the code.
* `CommDev`: every transfer of a call is an action, between any two of which the
  controller may send, take or reset.  A plan lists what a call has still to do
  and what a failure passes over.
* `Displays`: LEDs on pins and groups, the seven segment LED, the segment display
  with its character map.
* `Eeproms`: images are their fields together with what was meant by them; the
  ONIE walk, the Dell and Delta formats at fixed offsets, and the virtual supply
  whose type follows from the part number of the system or from pins.

`MC_Devices` is their disjoint union: the initial states choose one device and
one configuration, and each device's actions are guarded by it.  The properties
of the others hold vacuously there; each is broken by a mutant of its own device.

## 4. Runs

Passing runs:

| Run (cfg, module) | States | Instance | Shows |
|---|---|---|---|
| i2c_pin_mux (`I2cPinMux`, MC_I2cStack) | 2.0 M | 2 threads; root, 2 channels of a mux whose pin group is a register on the root bus, 1 channel of a mux selected by GPIO; lock, level, address and transfer failures | locks are owned as the position says; the address, the device, PEC and the register pointer are the caller's |
| i2c_pca_channels (`I2cPcaChannels`, MC_I2cStack) | 14 k | the same behind a PCA mux, channels only | the mux lock alone is enough while nobody uses the root bus |
| i2c_pin_service (`I2cPinService`, I2cStackCalls) | 271 k | 2 threads with 3 calls between them; the channels of the same two muxes (their register is reached over the root bus); every failure | refinement of `I2cService`; every call returns |
| cpld_lines (`CpldLines`, MC_CpldPins) | 1.3 M | 2 threads; four lines that share a register (one of them two registers long, upwards, one an input pin) used by one thread, a group of three registers, downwards, by both; failures | own bits only, writes stand, reads are right and never torn |
| entity_polls (`EntityPolls`, MC_EntityPresence) | 95 k | fan tray, PSU tray, fixed board; 2 units, pulled and inserted at any time; every access may fail | cache, presence and init are honest; a unit that stays gets known |
| db_serial (`DbSerial`, MC_VmDb) | 3 k | 2 processes, one master, each opens once; gets, sets, target sets, reinit; failing accesses | accesses exclude each other, every call comes back |
| db_faults (`DbFaults`, MC_VmDb) | 27 k | 1 process that may crash and open again, one writer, one reader; signals, failing accesses, scripts and commands of scripts that are lost | a target set without error leaves both columns equal; an opened database is complete unless filling it was cut short or lost commands |
| media (`MediaPorts`, MC_MediaAccess) | 2.3 M | a double density cage with two sub-ports and an SFP cage behind one mux group and one select group; eight kinds of modules; exchanged under one thread with every call, and two threads on the sub-ports of one module or on both cages; generic accesses to page 0, to page 3, without page and to a page that is refused | sections belong to one port and are given back; pages, results, transmitters and power are right |
| bmc (`BmcThreads`, MC_BmcSensors) | 220 k | event thread, poller, start-up and readers; a supply with a FRU that is read, a dummy, asked for by OEM command or not configured; boards with a discrete or a threshold sensor | records are whole, presence is the last one reported, states follow the BMC |
| devices (`Devices`, MC_Devices) | 394 k | three fan controllers, three temperature sensors, a power monitor, SmartFusion boards with two threads, hosts at the communication device, LEDs and displays, boards with EEPROMs; any access may fail | see below |

Several properties are conjunctions of named parts, each commented in its module:

| Property | Parts |
|---|---|
| `SlotOwned` | `TypeOK`; `OwnModule`: accesses reach the port's own module; `LocksReturned`: a call that returned holds no pin group |
| `PagesRight` | `RightPage`: a register above 127 is accessed on its page, except by a generic access whose question for pages failed or was answered by another module, which reaches page 0; `PageRestored`: page 0 between calls |
| `RecordsWhole` | `TypeOK`; `OneRecord`: one record for a sensor, and every pointer is to it; `OneSource`: fields from the FRU or from the dummy, never both; `InfoHasFans`: what is served is complete |
| `FansHonest` | `FanTypeOK`; `FaultKept`: no fault of MAX6620 is lost in the register that reading clears; `SpeedStands`, `SpeedReadsBack`: the speed set is the speed turned and read; `LinearExact`: the PMBus format |
| `SensorsAgree` | `LimitsAgree`: cache and chip of all three chips, for every limit that no failed call left unknown; `CalibrationStands`: the word sent to the monitor stands after restarts, which is the one of the file with its bytes exchanged |
| `SfWhole` | `OwnRegister`: a port access means the address its thread wrote; `ControlWhole`: a word is of one set; `LockReturned`; `InfoExact`: fields of the information |
| `MailboxWhole` | `DeliveredWhole`, `NoneLost`, `TakenWhole`: messages in both directions |
| `HostTold` | `ReadyHonest`: a buffer reported free is free; `SetsStand`: what was set is read |
| `DisplayShows` | `TextStands`, `GetTellsText`, `StateTold` |
| `InfoHonest` | `ImageTold`: what was meant with the image, in every format; `PsuOfPart`: the virtual supply |

`FaultTold` (an action property of `devices`): a status call of a fan that comes back
without an error tells of every fault that the registers or the latch held of
that fan, whichever access comes last.

Violation runs (each one is a finding; the text is in `PROJECT.json`):

| Run | Property | The code does |
|---|---|---|
| i2c_pca_shared | `SlaveIsMine` | a PCA channel's transfer runs without the parent's lock |
| db_restart | `Exclusive` | a second open gives the semaphore once more |

The passing runs stay inside the conditions under which the code is right; the
violation runs and the following variations lift one of them each.

* `CpldLines` with a group of two registers that starts at bit 1 (`Line = {"shift"}`,
  `Uses <- Shifted`, one thread): `LastWriteStands` fails, the write shifts whole
  bytes and loses bits (`drivers/sdi_cpld_pin_group.c:379`).
* `CpldLines` with two threads that use `pin` and `tail` (two lines of one
  register, a lock each; `Uses <- AnyLine`): `OwnBitsOnly` fails, an update is lost
  (`drivers/sdi_cpld_pin.c:135-165`).
* `CpldLines` with a level wider than its group: only inverted levels are masked
  (`drivers/sdi_cpld_pin_group.c:248`), and bits above the group change.
* `EntityPolls` without `\/ late` in the property: `NoInfoWhenAbsent`, `InfoIsRecent` and
  `InitHonest` each fail.  A unit inserted after its presence was read has its EEPROM
  read, and the cache is valid for an entity recorded as absent
  (`hwcore/sdi_entity.c:152`).  Nor are valid contents always contents (`valid => info #
  Zero` fails): if the unit's presence is found later and its EEPROM read fails then, the
  cache is zeroed and stays valid (:48), and an initialisation that follows reports
  success with fans at speed 0.
* `EntityPolls` with `Config <- BmcPsu` and `"bmc"` among the faults: the power sensor's
  result replaces the presence sensor's error, and `PresenceHonest` fails
  (`hwcore/sdi_entity.c:136`).
* `DbFaults` with `Process <- Two`, `Home <- OneEach`, no faults: the second process
  finds the file before the scripts have run and `OpenedIsReady` fails
  (`vmdb/sdi_db_ops.c:315`).
* `DbFaults` without `torn` in `OpenedIsReady`: it fails for one process too, in two
  ways.  After a crash between the creation of the file and the end of the scripts the
  next open finds the file and goes on.  And an open that was not cut short succeeds on
  a database without its tables or rows, though `sdi_db_open` is documented to return
  "STD_ERR_OK on success, error code on failure": `sdi_db_run_sql_script` returns
  without a word if the script cannot be opened (:168-171), ignores the result of every
  command (:180) and means to stop at a command that is too long (:187-191).
* `DbFaults` with `Calls <- BothSet`: two target sets interleave between their two
  accesses and `ColumnsAgree` fails (`vmdb/sdi_db_ops.c:1201`).
* `DbSerial` with `crash` or `signal`: `CallsReturn` fails after a crash between take
  and give (no SEM_UNDO), `Exclusive` after an interrupted wait.
* `MediaPorts` with `LeakyReads = TRUE`: `SlotOwned` fails, a read that returns from the
  middle of a section keeps both pin groups
  (`drivers/sdi_qsfp_eeprom.c:627`, `sdi_sfp_eeprom.c:1253`).
* `MediaPorts` with `means == Step(t).n` in `RightPage`, that is without the exception for
  a thread that is `astray`: `PagesRight` fails.  Generic reads and writes ask whether
  the module has pages before they select it (`drivers/sdi_qsfp_eeprom.c:2379`, :2480).
  If that read fails, or the module the groups select at that moment is another one,
  without pages, the access to page 3 goes to page 0 and reports success (:2395, :2495).
* `MediaPorts` without the condition `Learned` in `PowerWithinBudget`: it fails.  A module
  within the cage's budget is replaced by one above it, module_init fails to select or
  identify the new one and returns with the old power class still remembered
  (`drivers/sdi_qsfp_eeprom.c:2781`), and module_control enables high power
  (`drivers/sdi_qsfp.c:127`), which its message says it must not.
* `Devices` without the withdrawal (`Doubted`) of a limit in doubt: `SensorsAgree` fails
  for TMP75, whose `threshold_set` caches a limit before it writes it
  (`drivers/sdi_tmp75.c:164`) and whose failed start caches limits the chip did not
  take, and for the critical limit of EMC142x after a failed start
  (`drivers/sdi_emc142x.c:395`): `threshold_get` then tells a limit the chip does not have.
* `Devices` with `chip.calib = conf.calib` in `CalibrationStands`: `SensorsAgree` fails.  The
  comments of INA219 say that the register gets the value of the config file
  (`drivers/sdi_ina219.c:337`, :349), but only the read converts the byte order
  (:329); the writes (:339, :351) send it unconverted, and 4096 arrives as 16.
* `Devices` with `CommConf <- HiddenCommConf`: `HostTold` fails, a byte that was not
  received counts as read (`drivers/sdi_comm_dev_driver.c:56`).
* `Devices` with the second board of `MCSfConf` used by both threads: `SfWhole` fails,
  the entity information is read without the lock of the bus
  (`drivers/sdi_sf_entity_info.c:110`, against `inc/opx/private/sdi_smartfusion_io.h:75`).
* A reset (`hwcore/sdi_entity_reset.c:94`) ignores the result of the initialisation:
  `InitHonest` does not hold for `op = "reset"`.

### Bounds

* Two threads: every hazard here is between two parties.  Retries: `MaxRetry` = 2
  has a first, a last and a repeated attempt.  Multi-byte calls make 2 executes,
  the first and the last of the loop.
* Two channels of one mux whose devices have equal addresses, and devices with
  other addresses on the root bus and behind a second mux: wrong routing and wrong
  addressing are both visible.
* CPLD bytes of 6 bits: a register holds parts of four lines.  Lines of one, two and
  three registers, upwards and downwards, of both polarities.  A line that two
  threads use shares its registers with no other line.
* Two units: the earlier and the later one.  Two values and two columns.
* `MaxOpens`: opens per process; `MaxCount` = 3: the count of the semaphore below
  which signals still come (each interrupted wait raises it by one).
* Media: one channel per sub-port (the channels of a call differ in the bit they
  touch; the sub-ports bring two of them together).  Modules above and within the
  cage's power, exchanged for each other, with and without pages, adapters, a copper and a tunable SFP.
  Generic accesses name page 0, a page above it (3; the others behave as it does), no page, or a negative
  one, which is refused.  Two
  threads are given the calls that mean a page or leave something changed; to the
  others the rest are reads of registers no page covers.  A call of `LaxCalls` drops
  some results by design, and `HonestResult` does not speak of it.
* BMC: one entity with one sensor or one FRU; two bits; one value of a threshold
  sensor besides none.  The two searches and three creators of one record are all
  there.
* Devices: `Fails` names the accesses that may fail (the first three, the sixth, none);
  `Accesses` exceeds the longest call.  Speeds 0, below, at and above
  the maximum; limits
  in and out of range; map entries out of order, words with the sign bit of either
  field; characters that share a pattern; images in both documented orders and
  with wrong headers, checksums and extensions.  Messages of one byte and of two,
  so of one block and of two, in both directions at once or two of them to the
  controller; one transfer of a call may fail.
* The database runs may stop once all opens are used up and the database is
  closed, i2c_pin_service once all calls are made, bmc and devices after a NULL
  or a division by zero took the process: they switch deadlock checking
  off, all others check it.
* I2cPinMux and I2cPcaChannels leave out the failure of the ioctl that turns PEC
  off: with it PEC stays on for the next caller and `PecHonoured` does not hold.

### Fairness

* `FairCalls`: weak fairness of each thread.  A default pthread mutex does not
  promise a waiter its turn, so each thread makes a bounded number of calls; what
  is shown is that nothing waits on a cycle and retries end.
* `FairPolls`: the platform service polls without end (weak fairness of the steps
  of a call, strong fairness of the call of presence_get), and a read that is
  tried again and again succeeds again and again (strong fairness of successes).
  Units, power and all other calls are not fair.
* `FairSpec` of VmDb: the master is started; threads run; strong fairness of `Take` because the kernel
  serves the waiters of a SysV semaphore in the order they came.
* `Fairness` of BmcSensors: start-up, the poller and the event thread run on (weak
  fairness of their steps); the event loop takes messages in the order they came,
  so the answer with the states of a sensor is not passed over for ever (strong
  fairness of `SensorDiscreteStates`).  The BMC, its link, events and readers are not fair;
  `StatesFollow` speaks of a state that settles while the link is up.

## 5. Proofs

Every theorem holds for all values of the constants that satisfy the named
assumptions of its module (`TopologyAssumption`, `CallAssumption`,
`LineAssumption`, `EntityAssumption`, `DbAssumption`, `BmcAssumption`, `PlatformAssumption`,
and one for the boards of each device, `FanConfAssumption` to `EepromConfAssumption`): any number of
threads, channels, muxes, requests, lines, registers, units, processes, devices, boards,
ports, modules.
TLC evaluates the assumptions on every run.

**I2cStackProofs.**

* `TypeInvariant`: Spec => []TypeOK; in particular an execute never counts more
  than `MaxRetry` failed attempts.
* `LockSafety`: Spec => []LockOwnership.  By itself `LockOwnership` is not
  inductive: whether a thread at `xfer` holds the adapter's lock depends on the
  kind of bus and on the phase, and a state with, say, a root-bus call in phase
  `deselect` would release a mux lock it never took.  `CallShape` says which
  phases and steps a call can be in.  The inductive invariant is
  `IInv == TypeOK /\ CallShape /\ LockOwnership`; its three parts are shown to be
  preserved by the acquire, execute and release actions separately.
* `SlaveSafety`: if there are no PCA channels, Spec => []SlaveIsMine.  From `IInv`:
  without them every step from `slave` to `busunlock` owns the adapter's lock, so
  no two threads are in such a step and the other one's ioctl cannot intervene.
  The condition is needed: i2c_pca_shared is the counterexample.
* `PecSafety`: if moreover the ioctl that turns PEC off does not fail, Spec =>
  []PecHonoured.  The invariant `PecSet` adds that PEC is on only for an execute
  under way that asked for it: that is what a failing disable would break.
* `TargetSafety`: without PCA channels and under `AddressPlan`, Spec => []ExactTarget.
  `AddressPlan` says that a device which has the address of a request, or of
  a selector, is on its bus or behind another channel of the same mux.  The
  invariant `Routing`: from the select until the adapter is given back the channel of the call is
  connected, because its mux and group locks are held and only their owner
  writes the selector.
* `PointerSafety`: under the same conditions Spec => []PointerStable.  A call that has
  moved a device's pointer and has yet to read is inside the adapter's lock, so nobody
  reaches the device in between; the inductive part adds that a receive half is only
  under way at the transfer step.  The layout of i2c_pin_mux meets both conditions.
* `Refinement`: under the same conditions Spec => ImplementsService.  Initial states
  map to initial states; entering an acquired bus maps to `Open`, leaving it to `Close`,
  an attempt that moves a device's pointer to `Touch`, and all else to
  a stutter.  That sessions exclude each other is `LockOwnership`.

**CpldPinsProofs.**

* `PinTypeSafety`: Spec => []TypeOK, for lines of any number of registers in either
  direction: no index runs past the last register of a line.
* `BitSafety`: if threads that use different lines share no register (`Apart`) and
  levels fit their lines (`Fitting`), Spec => OwnBitsOnly.  The inductive part is
  `Fresh`: what a thread is about to write was built from what is still in the
  register; it holds because the line's lock is held (`Locked`) and nobody
  else may touch the register.  `RegisterBits` and `InLine` relate the shifts and
  masks of the code to the bits of the line.  Both conditions are needed: see the
  variations with `AnyLine` and with a wide level.
* `ReadSafety`: if lines are `Apart` and read straight, Spec => []ReadsWhatIs.  A line of
  several registers reads straight if it starts at bit 0 or is not inverted: the
  complement of a register brings in the bits below the start
  (`drivers/sdi_cpld_pin_group.c`).  `Gathered` says that a call that has read n
  registers has the level's bits of these n as the registers have them now; no sum is
  needed, as each register adds bits of its own (`LevelOfBits`).
* `StandingSafety`: if moreover levels fit, lines share no bit (`Separate`) and a written
  line has one register or starts at bit 0 (`Straight`), Spec => []LastWriteStands.
  `Written` says that the registers a write has done have the bits of the level, and
  `OwnStep` that other lines' writes leave them.  The variation `Shifted` shows that
  `Straight` is needed.  The layout of cpld_lines meets all of these conditions.

**EntityPresenceProofs.**

* `EntityTypeInvariant`: Spec => []TypeOK.
* `CacheSafety`, `AbsenceSafety`, `InitSafety`: if no BMC sensor fails, []InfoIsRecent,
  []NoInfoWhenAbsent and []InitHonest, with units that come and go between any two
  steps.  Each says that there is one way round it and no other: an insertion between
  the presence and the EEPROM read of a poll that found the slot empty (`late`).
  Inductive invariant `CacheInv`: the unit in
  the slot is in `since`; a poll that has found the slot empty is right until it
  ends, or a unit came late; the cache is invalid while the EEPROM is read, or a late
  reading is in it; a valid cache is that of a
  present entity and, outside the steps between finding the slot empty and
  recording it, of a unit in `since`, or again late.  The condition and the exception are
  needed: the variation with `BmcPsu` breaks the reading of the presence, those without
  `late` break each of the three.
* `PresenceSafety`: if no BMC sensor fails, []PresenceHonest, whenever units come
  and go; from `PresenceInv`, which says the same of the steps in between.

**VmDbProofs.**

* `DbTypeInvariant`: Spec => []TypeOK; in particular the semaphore never goes below
  zero.
* `ExclusionSafety`: if at most one process opens with masterf, at most once, and
  only accesses fail (no crash, no signal), Spec => []Exclusive for any number of
  processes and threads.  `Exclusive` is not inductive: it must be known that the
  semaphore's count is 0 while somebody is inside.  `TokenInv` says that the
  semaphore is one token: nowhere until the master has opened, then either in the
  semaphore or with one thread.  Each condition is needed: db_restart and the
  variations of db_serial are the counterexamples.
* `OpenedSafety`: if there is one process and the file is absent or whole at first,
  Spec => []OpenedIsReady, through crashes, signals, scripts and commands that are lost and
  any number of openings.  The property excepts two ways of opening a database that is not
  filled, which the code has and the model takes: filling the file was cut short, or it
  lost a script or a command that nobody was told of (`torn`).  The theorem says that
  there is no third: not a reinitialisation whose open fails, nor the threads of the
  process, nor a second opening.  `ReadyInv` says of each stage of an opening what the
  tables are while nothing was lost.  With two processes it fails (variation
  `Process <- Two`), without `torn` for one.
* `AgreementSafety`: with one process and one writer Spec => []ColumnsAgree, also when
  accesses fail, a signal lets a thread in without the semaphore or the process
  dies.  `WriterInv(w)` says what each half of a target set has left in which column.
  With two writers it fails (variation `BothSet`).

**BmcSensorsProofs.**

* `RecordSafety`: Spec => []RecordsWhole; `PresenceSafety`: Spec => []PresenceKept; for
  every entity, device list and set of pollers.  The inductive invariant
  `IInv` has seven parts: types; what the locals of the two threads hold where they are
  used; before the driver's init nothing has happened (`AtStart`); the map and the
  records are two sides of one thing (`Mapped`), which is why a second search before
  the insertion is enough; every pointer kept outside the lock is NULL or to the
  record of its sensor (`Pointed`), as no step frees or renames a record (`Grown`);
  the FRU is asked for only while no record was filled as a dummy (`Sourced`);
  what start-up has registered is complete (`Registered`).
* `BmcAssumption` includes that the list of resources of a scene is a list of
  devices: a fact of `SelectSeq` whose proof needs induction over the list.

**DeviceProofs.** These theorems are about the specification of `MC_Devices`, all
devices together: `Steps` says that a step is one of the driver of the board's device.

* `DisplaySafety`: Spec => []DisplayShows, for every display, map and command.  The
  inductive invariant adds what the chip holds: the level of the text set last, and,
  for the LED that decodes itself, its digit (`SegmentHolds`, `SevenHolds`).  That what
  is read back is what was set is the inverse of a search in the map: `ReadInvertsMap`
  picks the least entry with the level (`LeastNatural`, from well-foundedness).
* `SensorSafety`: Spec => []SensorsAgree, for any number of sensors of all three chips and
  every limit that a call is known to have written.  A failed call makes unknown what
  it may have cached without writing it: `threshold_set` of TMP75 the limit it was to
  set, a failed start of TMP75 both limits, a failed start of EMC142x the critical ones
  (`Doubted`); all other failures leave what is known (`Early` names these limits).  A start-up goes
  through the sensors one after the other and stops at the first failure; what holds
  after k of them is shown by the least k at which it would not (`StartedStands`), as
  induction over the natural numbers is not available.  The induction hypothesis is
  `StillAgrees`: an access may leave a limit of chip and cache different only where
  they were.  For the calibration: the configuration, which may reset the chip, is
  written first; what stands is the word that was sent, not the one of the file.
* `HostSafety`: if `NoneHidden`, Spec => []HostTold, for any messages, versions, control
  values and sizes of mailbox and block.  `NoneHidden`: of a read only the last byte may
  be lost, as an earlier one is overwritten by the next (the variation with
  `HiddenCommConf` breaks the property without it).  `HostInv` speaks of the plan a call
  has left.  `Plans`: every operation left is one its call may do (`Serves`), and what a
  failure passes over writes no register (`Skips`).  `LaidIn`: each byte of a value that
  is written is in the device already or in a block still to come, so all of them are
  there when the plan is empty; that the blocks of a value of any length cover it is
  division (`BlocksForm`).  `Reads`: the bytes received so far are those of the register.
  `Free`, `Loads`, `Filled`: the buffer is empty from the report until the command that
  ends the write, and when it is full its header and bytes are one message.
* `MailboxSafety`: if besides `Short`, Spec => []MailboxWhole.  `MailInv` follows a
  message through its read.  `HeaderIn`: of the header a first part may have been read
  before the message was there and a last part after a reset, both read as erased
  (`Torn`); a reset turns messages off, so there is no second message in the same
  read (`There`).  A header whose last byte is torn announces more than the buffer holds
  (`HeaderWhole`).  `BytesIn`: each byte received is erased or the message's own; erased
  bytes only raise the sum, so one that agrees with the checksum has none that differ
  (`ChecksTell`, from `SumCompare`).  `Short`, messages of at most 255 bytes, is needed
  for that: 258 missing bytes can change the sum by 65536, which the two bytes of the
  checksum do not show.  `Verifying`: what the command drops is the message that was read.

**ControllerProofs.** The SmartFusion bus and the fan controllers, also about the
specification of `MC_Devices`.

* `SfSafety`: if `Boards`, Spec => []SfWhole.  `Boards` says that the registers of
  the measurements, those of the control and the ranges of the entity information are
  in the RAM and apart from each other, that what is set fits a word, and that where
  there is entity information one thread calls.  The boards of the devices run meet
  it (they were evaluated); its last part is what the variation with two threads
  violates.  `Turns` gives each thread its turn: from the acquire to the release its
  position says what the ports hold, and nobody else is between the two (`Alone`).
  `ControlHolds` follows a setting through its two bytes and a reading through its
  two, `InfoHolds` the entity information byte by byte.
* `FanSafety`: Spec => []FansHonest, for every configuration that meets
  `FanConfAssumption`: any number of fans, any maximum, pulses, poles, drive voltage,
  map of a supply.  The invariant `FanInv` has a part for each
  driver.  `Inv6620`: a fault that was raised is in FANFAULT or in the driver's latch,
  and a fan whose speed was set has its detection armed or is in one of the two, which
  is why no poll of another fan loses it; the count in the register is the one of the
  last accepted speed for the counting period that belongs to the present maximum.
  `Inv2305`: the two bytes of the target or the drive setting are those of the last
  accepted speed; a call that fails in between withdraws the claim.  `InvSupply`: the
  percentage is that of a nearest entry.  Rounded division is bounded by its product
  (`CountStands`, `Drives`); the nearest entry of a map of any length is shown by the
  least k whose best of the first k entries would not be nearest; a word of the linear
  format is taken apart byte by byte, and its power of two is positive by the same
  argument.
* `FaultSafety`: Spec => FaultTold.  A call that searches the fault registers of an
  EMC2305 and comes back without error has read each register up to the one with the
  fan's bit; the latch of the MAX6620 only loses the bit that is reported.

**MediaProofs.** For any ports, modules, cages, threads and scenes that meet
`PlatformAssumption` (the pins of a transceiver are none of the selection groups, and a
port's two selection groups differ).

* `OwnModuleReached`: Spec => [](TypeOK /\ OwnModule).  A call is a sequence of steps of
  which a failed one passes over a given number.  `Phases` say of a position in a
  sequence which groups are held and which of them are written already;
  `Flows` is the set of sequences in which every step, succeeding or failing, goes
  on where the phase is the one the rest begins with.  The lemmas build it up as the
  drivers build their sequences: bodies of sections (`Bodies`), sections around
  them (`Around`), several sections in a row (`Calls`), and every operation of
  `MediaApi` is one of `Calls`.  The inductive invariant `Inv` says that the steps a thread
  has left have a labelling that begins with the groups it holds (`Placed`).  By itself
  `OwnModule` is not inductive: nothing in it says that the lines are written before
  the first access.
* `SectionsAreOwned`: if not `LeakyReads`, Spec => []SlotOwned.  A sequence that is used up
  is in the phase in which nothing is held.  The condition is needed: a read that returns
  from inside its section uses the sequence up with both groups held (the variation).
  `OwnModuleReached` does not need it.
* `ResultsAreHonest`: Spec => []HonestResult, also when reads leak.  A failed step leads to
  a sealed position (`Sealing`): from there the sequence only gives groups back or
  comes to a check, which leaves it for another sealed position or the end, so that no
  later step sets the return code again.  `Faithful` is the invariant of a call: what is
  left of it can be sealed, and once an access was lost it is at a sealed position with
  an error.  Each of `StrictCalls` is shown to be such a sequence (`Trails`).

## 6. Only model-checked

* `PagesRight`, `TxAsDone` and `PowerWithinBudget` of `MediaAccess`.  They need a labelling
  of the sequences of their own (which page is selected, which transmitters were read,
  who may enable power), for each of the operations; `PagesRight` and `TxAsDone` further
  that ports of one cage share a selection group.
* `MailboxWhole` for messages above 255 bytes, which the runs do not have either.
* `InfoHonest`: the walk over an image is a fold over its fields, so over data.
* Liveness under fairness (`CallsReturn`, `UnitBecomesKnown`, `StatesFollow`) is out of
  reach of TLAPS.

## 7. Not modelled, and why

Whole parts:

* Bus framework, driver and resource frameworks, startup, parsing of the XML
  configuration: one thread runs them once, before any other uses the library;
  afterwards the lists are only searched.
* `sdi_i2c_execute` (I2C_RDWR) and the bytes of SMBus transfers.
* GPIO through sysfs, memory and port mapped buses, NVRAM: single accesses; a
  selector without an I2C address, a CPLD register or a port access of `SfBus`
  stands for them.
* Host system and utilities: they pass calls on and keep no state.
* VM resource API: each function is one or a few calls of `VmDb`.
* Unit tests and the Python shell.

Inside the modelled parts:

* I2C: registration, more than one level of muxes.
* Entities: the LPC bus check and the configuration; two threads that poll one
  entity (the entity layer has no lock).
* Database: the SQL texts and the conversions of single fields.  What a command that is
  too long does is left out as far as it goes beyond losing commands: with a C library
  whose `fgets` answers a buffer of one byte with an empty string the break at
  `vmdb/sdi_db_ops.c:190` is never reached and the open does not return.
* Media: the values of registers, the repetitions of the mailbox poll, the
  registration of ports.  Removing an adapter frees its device while another thread
  may read through it (`drivers/sdi_qsfp_eeprom.c:2771`): the run with two threads
  exchanges no modules.
* BMC: the OEM external control, thresholds of a sensor, allocation failures, the loss of a thread, clean-up
  after a second registration.  The model has, and no property forbids: the poller
  that is started before `oem_poller_head` is set (`drivers/sdi_bmc.c:1005`; `died`);
  information read while it is filled (:311); an initial 0xFF that a second creator
  sets again; a temperature of 0 before the first answer; an error answer that
  clears all bits; a poller that is never bound because its sensor appears after the
  last entity event, or because the search ends at the first unknown one.  Left
  out because nothing modelled depends on it: the response data of OEM commands, which
  are never set in a reallocated array (`drivers/sdi_bmc_dev.c:236`, length at :262).
* Communication device: the address and the read pointer that all calls share, as
  one call runs at a time; callers ask is_msg_present or is_write_buffer_ready
  before they move a message.  Command bits take effect when they are written, and
  only while messages are enabled; a block has 2 bytes instead of 16.
* Fans: `SpeedStands` speaks of speeds whose count fits 16 bits (it wraps below 960
  rpm); speed 0 divides by zero, in the model too; the percentage of a PMBus
  supply is cut to 8 bits and not capped.
* Sensors: which limit `threshold_get` tells after a failed call of TMP75, or a failed start
  of EMC142x, until it is written again: the model has it, the properties claim nothing.
  The configuration register of INA219 is written with its bytes exchanged as its
  calibration is (`drivers/sdi_ina219.c:339`); no property depends on it.
* SmartFusion: an external control with more than two steps reports success without
  writing (`drivers/sdi_sf_ext_ctrl.c:153`), a low byte 0xFF is refused (:112).
* Displays: until the first set the remembered text is uninitialised memory
  (`drivers/sdi_segment_display.c:335`): an arbitrary level in the model; the properties
  speak of texts that were set.
* EEPROMs: a read of several bytes is one access; sizes other than 256 and 8192 are
  refused; the images leave room behind the checksum.  An unknown air flow of a Delta
  supply is told as success (`drivers/sdi_dell_eeprom.c:193`); part numbers of more than
  eight characters are never found (`inc/opx/private/sdi_entity_info_vdriver.h:84`).
