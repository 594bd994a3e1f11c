--------------------------- MODULE BmcSensorsProofs ---------------------------
(***************************************************************************)
(* Theorems about BmcSensors for every set of sensors, list of resources,  *)
(* configuration and interleaving of start-up, events, poller and readers. *)
(***************************************************************************)
EXTENDS BmcSensors, TLAPS

Record ==
  [name : Names, type : {None, "discrete", "threshold", "info"}, state : SUBSET Bits,
   data : Values \cup {0}, valid : BOOLEAN, maker : {None, "dummy", "fru"},
   supply : {None, "dummy", "fru"}, fans : BOOLEAN, dummy : BOOLEAN]

MainAt == {"start", "head", "data", "status", "add", "info", "ready", "copy"}
Outcome == {None, "EINVAL", "ENOTSUP", "good", "fault", "unset", "value", "info", "nofans"}
MainType == [at : MainAt, dev : Nat \ {0}, out : Outcome]

Types ==
  /\ scene \in Scenes
  /\ heap \in Seq(Record)
  /\ entity \in {None, "absent", "present"}
  /\ devs \in [ToSet(Devices) -> [data : Nat, status : Nat]]
  /\ sensor_loc \in [ToSet(PollerOf) -> Nat]
  /\ main \in MainType
  /\ th \in [Threads -> [at : States, n : Sensors \cup {None}, r : Nat,
                         todo : SUBSET (Bits \cup Sensors)]]
  /\ asked \subseteq Sensors \cup {"oem"}
  /\ bmc \in [Discrete -> SUBSET Bits]

\* What the threads' locals hold where they are used.
Locals ==
  /\ \A t \in Threads : th[t].at \in {"create", "add", "init", "ask"} => th[t].n \in Sensors
  /\ th["event"].todo \subseteq Bits
  /\ th["poller"].todo \subseteq Sensors
  /\ th["event"].at \notin {"ask", "next"}
  /\ th["poller"].at \in {"off", "loop", "create", "add", "init", "ask", "next"}

\* Before the driver's init nothing has happened.
AtStart ==
  main.at = "start" =>
    /\ heap = <<>> /\ DOMAIN sensor_map = {} /\ told = None
    /\ \A t \in Threads : th[t].at = "off"

\* The map and the records are two sides of one thing.
Mapped ==
  /\ DOMAIN sensor_map \subseteq {SensorKey(n) : n \in Names}
  /\ \A n \in Names : SensorKey(n) \in DOMAIN sensor_map =>
       /\ sensor_map[SensorKey(n)] \in 1 .. Len(heap)
       /\ heap[sensor_map[SensorKey(n)]].name = n
  /\ \A i \in 1 .. Len(heap) :
       /\ SensorKey(heap[i].name) \in DOMAIN sensor_map
       /\ sensor_map[SensorKey(heap[i].name)] = i

\* A pointer kept outside the lock is Null or to the record it stands for.
PointsTo(r, n) == r # Null => r \in 1 .. Len(heap) /\ heap[r].name = n
Pointed ==
  /\ \A d \in ToSet(Devices) : PointsTo(devs[d].data, DataId[d])
  /\ \A d \in ToSet(Devices) : PointsTo(devs[d].status, StatusId[d])
  /\ \A p \in ToSet(PollerOf) : PointsTo(sensor_loc[p], p)
  /\ \A t \in Threads : th[t].r \in 0 .. Len(heap)

NoField(v) == \A i \in 1 .. Len(heap) : heap[i].maker # v /\ heap[i].supply # v

\* The FRU is asked for only while no record was filled as a dummy, and then
\* none is.
Sourced ==
  /\ "fru" \in hooks => "entity" \in hooks
  /\ "fru" \in hooks => NoField("dummy") /\ th["event"].at \notin {"dummy", "dummy2"}
  /\ "fru" \notin hooks => /\ NoField("fru") /\ "oem" \notin asked
                           /\ th["event"].at \notin {"fill", "fill2"}
  /\ "fru" \notin hooks /\ th["event"].at \in {"fruget", "fruadd", "frutype", "dummy"}
       => NoField("dummy")
  /\ "entity" \notin hooks =>
       /\ NoField("dummy")
       /\ th["event"].at \notin {"fruget", "fruadd", "frutype", "dummy", "dummy2"}

\* What start-up has registered is complete.
Complete == devs[Info].data # Null /\ heap[devs[Info].data].fans
Registered ==
  /\ main.at \in {"start", "head", "data", "status", "add", "info"} =>
       main.dev \in 1 .. Len(Listed(scene))
  /\ main.at \in {"add", "info"} => Info \in ToSet(Devices) /\ Here = Info
  /\ main.at = "status" => Here # Info
  /\ main.at = "info" => devs[Info].data # Null
  /\ main.at = "copy" => Info \in ToSet(Devices) /\ Complete
  /\ main.out # "nofans"
  /\ \A i \in 1 .. Len(Listed(scene)) :
       Listed(scene)[i] = Info /\ (i < main.dev \/ main.at \in {"ready", "copy"}) => Complete

IInv == Types /\ Locals /\ AtStart /\ Mapped /\ Pointed /\ Sourced /\ Registered

-----------------------------------------------------------------------------
(* The records and their map.                                              *)

\* What every step does to the records: none goes or is renamed.
Grown ==
  /\ heap' \in Seq(Record) /\ Len(heap) <= Len(heap')
  /\ \A i \in 1 .. Len(heap) : /\ heap'[i].name = heap[i].name
                               /\ heap[i].fans => heap'[i].fans

LEMMA KeyInjective ==
  ASSUME NEW m, NEW n, SensorKey(m) = SensorKey(n) PROVE m = n
BY DEF SensorKey

LEMMA SensorGetType ==
  ASSUME Mapped, NEW n \in Names
  PROVE  SensorGet(n) \in 0 .. Len(heap) /\ PointsTo(SensorGet(n), n)
BY DEF Mapped, SensorGet, PointsTo, Null

\* The search by name finds the record if there is one.
LEMMA ByNameType ==
  ASSUME Types, Mapped, NEW n
  PROVE  /\ SensorGetByName(n) \in 0 .. Len(heap)
         /\ PointsTo(SensorGetByName(n), n)
         /\ \A i \in 1 .. Len(heap) : heap[i].name = n => SensorGetByName(n) # Null
<1> DEFINE hit == {k \in DOMAIN sensor_map : heap[sensor_map[k]].name = n}
<1>1. CASE hit = {}
  <2>1. SensorGetByName(n) = Null
    BY <1>1 DEF SensorGetByName
  <2>2. ASSUME NEW i \in 1 .. Len(heap), heap[i].name = n PROVE FALSE
    BY <1>1, <2>2 DEF Mapped
  <2> QED BY <2>1, <2>2 DEF PointsTo, Null, Types
<1>2. CASE hit # {}
  <2>1. PICK k \in hit : SensorGetByName(n) = sensor_map[k]
    BY <1>2 DEF SensorGetByName
  <2>2. sensor_map[k] \in 1 .. Len(heap)
    BY <2>1 DEF Mapped
  <2> QED BY <2>1, <2>2 DEF PointsTo, Null, Types
<1> QED BY <1>1, <1>2

LEMMA BlankType == ASSUME NEW n \in Names PROVE Blank(n) \in Record /\ Blank(n).name = n
BY DEF Blank, Record, None

LEMMA InsertMaps ==
  ASSUME Types, Mapped, NEW n \in Names, Insert(SensorKey(n), n)
  PROVE  /\ Mapped' /\ Grown
         /\ \A i \in 1 .. Len(heap) : heap'[i] = heap[i]
         /\ \A i \in 1 .. Len(heap') : i \in 1 .. Len(heap) \/ heap'[i] = Blank(n)
         /\ Found(SensorKey(n)) \in 1 .. Len(heap')
         /\ heap'[Found(SensorKey(n))].name = n
<1>h. heap \in Seq(Record)
  BY DEF Types
<1>1. CASE SensorKey(n) \in DOMAIN sensor_map
  <2>1. UNCHANGED <<sensor_map, heap>>
    BY <1>1 DEF Insert
  <2>2. Found(SensorKey(n)) = sensor_map[SensorKey(n)]
    BY <1>1 DEF Found
  <2> QED BY <1>h, <1>1, <2>1, <2>2 DEF Mapped, Grown
<1>2. CASE SensorKey(n) \notin DOMAIN sensor_map
  <2> DEFINE new == Len(heap) + 1
  <2>1. /\ heap' = Append(heap, Blank(n))
        /\ sensor_map' = [k \in DOMAIN sensor_map \cup {SensorKey(n)} |->
                            IF k = SensorKey(n) THEN Len(heap) + 1 ELSE sensor_map[k]]
    BY <1>2 DEF Insert
  <2>2. /\ heap' \in Seq(Record) /\ Len(heap') = new /\ heap'[new] = Blank(n)
        /\ \A i \in 1 .. Len(heap) : heap'[i] = heap[i]
    BY <1>h, <2>1, BlankType
  <2>3. Found(SensorKey(n)) = new
    BY <1>2 DEF Found
  <2>4. DOMAIN sensor_map' = DOMAIN sensor_map \cup {SensorKey(n)}
    BY <2>1
  <2>5. sensor_map'[SensorKey(n)] = new
    BY <2>1
  <2>6. \A m \in Names : m # n /\ SensorKey(m) \in DOMAIN sensor_map' =>
          /\ SensorKey(m) \in DOMAIN sensor_map
          /\ sensor_map'[SensorKey(m)] = sensor_map[SensorKey(m)]
    BY <2>1, <2>4, KeyInjective
  <2>7. \A i \in 1 .. Len(heap) : heap[i].name \in Names /\ heap[i].name # n
    BY <1>h, <1>2 DEF Mapped, Record
  <2>8. Mapped'
    <3>1. DOMAIN sensor_map' \subseteq {SensorKey(m) : m \in Names}
      BY <2>4 DEF Mapped
    <3>2. ASSUME NEW m \in Names, SensorKey(m) \in DOMAIN sensor_map'
          PROVE  /\ sensor_map'[SensorKey(m)] \in 1 .. Len(heap')
                 /\ heap'[sensor_map'[SensorKey(m)]].name = m
      <4>1. CASE m = n
        BY <1>h, <2>2, <2>5, <4>1, BlankType
      <4>2. CASE m # n
        <5>1. /\ sensor_map[SensorKey(m)] \in 1 .. Len(heap)
              /\ heap[sensor_map[SensorKey(m)]].name = m
              /\ sensor_map'[SensorKey(m)] = sensor_map[SensorKey(m)]
          BY <2>6, <3>2, <4>2 DEF Mapped
        <5> QED BY <1>h, <2>2, <5>1
      <4> QED BY <4>1, <4>2
    <3>3. ASSUME NEW i \in 1 .. Len(heap')
          PROVE  /\ SensorKey(heap'[i].name) \in DOMAIN sensor_map'
                 /\ sensor_map'[SensorKey(heap'[i].name)] = i
      <4>1. CASE i = new
        BY <2>2, <2>4, <2>5, <4>1, BlankType
      <4>2. CASE i # new
        <5>1. i \in 1 .. Len(heap)
          BY <1>h, <2>2, <3>3, <4>2
        <5>2. SensorKey(heap[i].name) \in DOMAIN sensor_map /\ sensor_map[SensorKey(heap[i].name)] = i
          BY <5>1 DEF Mapped
        <5> QED BY <2>2, <2>4, <2>6, <2>7, <5>1, <5>2
      <4> QED BY <4>1, <4>2
    <3> QED BY <3>1, <3>2, <3>3 DEF Mapped
  <2>9. \A i \in 1 .. Len(heap') : i \in 1 .. Len(heap) \/ heap'[i] = Blank(n)
    BY <1>h, <2>2
  <2> QED BY <1>h, <2>2, <2>3, <2>8, <2>9, BlankType DEF Grown
<1> QED BY <1>1, <1>2

\* A record is filled in place.
LEMMA UpdateMaps ==
  ASSUME Types, Mapped, UNCHANGED sensor_map, NEW r \in 0 .. Len(heap), NEW q,
         heap' = [heap EXCEPT ![r] = q],
         r # 0 => q \in Record /\ q.name = heap[r].name /\ (heap[r].fans => q.fans)
  PROVE  /\ Mapped' /\ Grown /\ Len(heap') = Len(heap)
         /\ \A i \in 1 .. Len(heap) : heap'[i] = IF i = r THEN q ELSE heap[i]
<1>h. heap \in Seq(Record)
  BY DEF Types
<1>1. /\ heap' \in Seq(Record) /\ Len(heap') = Len(heap)
      /\ \A i \in 1 .. Len(heap) : heap'[i] = IF i = r THEN q ELSE heap[i]
  <2>1. CASE r = 0
    <3>1. heap' = heap
      BY <1>h, <2>1
    <3>2. \A i \in 1 .. Len(heap) : i # r
      BY <1>h, <2>1
    <3> QED BY <1>h, <3>1, <3>2
  <2>2. CASE r # 0
    <3>1. r \in 1 .. Len(heap) /\ q \in Record
      BY <1>h, <2>2
    <3> QED BY <1>h, <3>1
  <2> QED BY <2>1, <2>2
<1> QED BY <1>1 DEF Mapped, Grown

LEMMA SameMaps ==
  ASSUME Types, Mapped, UNCHANGED <<sensor_map, heap>>
  PROVE  Mapped' /\ Grown
BY DEF Types, Mapped, Grown

\* Pointers that are kept stay good.
LEMMA PointsKept ==
  ASSUME Types, Grown, NEW r, NEW n, PointsTo(r, n)
  PROVE  r # Null => r \in 1 .. Len(heap') /\ heap'[r].name = n
<1>1. heap \in Seq(Record) /\ heap' \in Seq(Record) /\ Len(heap) <= Len(heap')
  BY DEF Types, Grown
<1>2. ASSUME r # Null PROVE r \in 1 .. Len(heap) /\ heap[r].name = n
  BY <1>2 DEF PointsTo
<1>3. r \in 1 .. Len(heap) => r \in 1 .. Len(heap')
  BY <1>1
<1> QED BY <1>2, <1>3 DEF Grown

-----------------------------------------------------------------------------
(* The main thread.                                                        *)

USE DEF MainOnly, ThreadOnly, DbSame, EventOnly, PollOnly, Go, At, Event, Answer

Start == \/ SetPollerHead \/ RegisterData \/ FanResRegister
         \/ EntityInfoResAdd \/ EntityInfoResRegister
Reads == \/ \E d \in ToSet(Devices) : TemperatureGet(d) \/ FanStatusGet(d)
         \/ DataGet \/ DataGetRest \/ Return
         \/ \E n \in Names : DcSensorReadingGetByName(n)

\* Where the main thread goes.
LEMMA NextDeviceType ==
  ASSUME Types, NextDevice
  PROVE  main' \in MainType /\ main'.out = main.out /\ main'.at \in {"ready", "data"}
<1>1. main \in MainType
  BY DEF Types
<1>2. CASE main' = [main EXCEPT !.at = "ready"]
  BY <1>1, <1>2 DEF MainAt, MainType
<1>3. CASE main' = [main EXCEPT !.at = "data", !.dev = @ + 1]
  <2>1. main.dev + 1 \in Nat \ {0}
    BY <1>1 DEF MainType
  <2> QED BY <1>1, <1>3, <2>1 DEF MainAt, MainType
<1> QED BY <1>2, <1>3 DEF NextDevice

LEMMA MainMaps ==
  ASSUME IInv, Start \/ Reads
  PROVE  Mapped' /\ Grown
<1>i. Types /\ Mapped /\ Pointed /\ Registered
  BY DEF IInv
<1>1. CASE EntityInfoResAdd
  <2>1. Insert(SensorKey(Info), Info) /\ Info \in Names
    BY <1>1 DEF EntityInfoResAdd, SensorAddByName, SensorKeyByName, SensorKey, Names
  <2> QED BY <1>i, <2>1, InsertMaps
<1>2. CASE EntityInfoResRegister
  <2> DEFINE r == devs[Info].data
             q == [heap[r] EXCEPT !.fans = TRUE, !.dummy = scene.dummy]
  <2>1. Info \in ToSet(Devices)
    BY <1>i, <1>2 DEF EntityInfoResRegister, Registered
  <2>2. r \in 1 .. Len(heap)
    BY <1>i, <1>2, <2>1, BmcAssumption
       DEF EntityInfoResRegister, Registered, Pointed, PointsTo
  <2>3. heap[r] \in Record /\ scene.dummy \in BOOLEAN
    BY <1>i, <2>2, BmcAssumption DEF Types
  <2>4. q \in Record /\ q.name = heap[r].name /\ q.fans
    BY <2>3 DEF Record
  <2>5. heap' = [heap EXCEPT ![r] = q] /\ UNCHANGED sensor_map
    BY <1>2 DEF EntityInfoResRegister
  <2>6. r \in 0 .. Len(heap)
    BY <1>i, <2>2 DEF Types
  <2> QED BY <1>i, <2>4, <2>5, <2>6, UpdateMaps
<1>3. CASE UNCHANGED <<sensor_map, heap>>
  BY <1>i, <1>3, SameMaps
<1> QED
  BY <1>1, <1>2, <1>3
     DEF Start, Reads, SetPollerHead, RegisterData, FanResRegister, TemperatureGet,
         FanStatusGet, DataGet, DataGetRest, Return, DcSensorReadingGetByName, Served

LEMMA HereType ==
  ASSUME Types, main.dev \in 1 .. Len(Listed(scene))
  PROVE  Here \in ToSet(Devices)
<1>1. Listed(scene) \in Seq(ToSet(Devices))
  BY BmcAssumption DEF Types
<1> QED BY <1>1 DEF Here

LEMMA ListedDevice ==
  ASSUME Types, NEW d \in ToSet(Listed(scene)) PROVE d \in ToSet(Devices)
<1>1. Listed(scene) \in Seq(ToSet(Devices))
  BY BmcAssumption DEF Types
<1>2. PICK i \in DOMAIN Listed(scene) : Listed(scene)[i] = d
  BY DEF ToSet
<1> QED BY <1>1, <1>2

\* A reader keeps the pointer it has and looks for the one it has not.
LEMMA LookupType ==
  ASSUME Types, Mapped, Pointed, NEW d \in ToSet(Devices)
  PROVE  /\ Lookup(d, "data", DataId[d]) \in Nat
         /\ PointsTo(Lookup(d, "data", DataId[d]), DataId[d])
         /\ Lookup(d, "status", StatusId[d]) \in Nat
         /\ PointsTo(Lookup(d, "status", StatusId[d]), StatusId[d])
<1>1. /\ SensorGetByName(DataId[d]) \in Nat /\ SensorGetByName(StatusId[d]) \in Nat
      /\ PointsTo(SensorGetByName(DataId[d]), DataId[d])
      /\ PointsTo(SensorGetByName(StatusId[d]), StatusId[d])
  BY ByNameType DEF Types
<1>2. devs[d].data \in Nat /\ devs[d].status \in Nat
  BY DEF Types
<1> QED BY <1>1, <1>2 DEF Lookup, Pointed

\* One pointer of a resource is set.
SetsPointer(d, r) ==
  \/ UNCHANGED devs
  \/ /\ devs' = [devs EXCEPT ![d].data = r]
     /\ r # Null => r \in 1 .. Len(heap') /\ heap'[r].name = DataId[d]
  \/ /\ devs' = [devs EXCEPT ![d].status = r]
     /\ r # Null => r \in 1 .. Len(heap') /\ heap'[r].name = StatusId[d]

Dev == [data : Nat, status : Nat]

LEMMA DevsPointed ==
  ASSUME Types, Pointed, Grown, UNCHANGED <<sensor_loc, th>>,
         NEW d, NEW r \in Nat, SetsPointer(d, r)
  PROVE  Pointed' /\ devs' \in [ToSet(Devices) -> Dev]
<1>0. devs \in [ToSet(Devices) -> Dev]
  BY DEF Types, Dev
<1>1. devs' \in [ToSet(Devices) -> Dev]
  <2>1. ASSUME d \in ToSet(Devices)
        PROVE  [devs[d] EXCEPT !.data = r] \in Dev /\ [devs[d] EXCEPT !.status = r] \in Dev
    BY <1>0, <2>1 DEF Dev
  <2> QED BY <1>0, <2>1 DEF SetsPointer
<1>2. ASSUME NEW e \in ToSet(Devices)
      PROVE  /\ devs'[e].data # Null =>
                  devs'[e].data \in 1 .. Len(heap') /\ heap'[devs'[e].data].name = DataId[e]
             /\ devs'[e].status # Null =>
                  devs'[e].status \in 1 .. Len(heap') /\ heap'[devs'[e].status].name = StatusId[e]
  <2>1. /\ devs[e].data # Null =>
             devs[e].data \in 1 .. Len(heap') /\ heap'[devs[e].data].name = DataId[e]
        /\ devs[e].status # Null =>
             devs[e].status \in 1 .. Len(heap') /\ heap'[devs[e].status].name = StatusId[e]
    BY PointsKept DEF Pointed
  <2>2. CASE UNCHANGED devs
    BY <2>1, <2>2
  <2>3. CASE /\ devs' = [devs EXCEPT ![d].data = r]
             /\ r # Null => r \in 1 .. Len(heap') /\ heap'[r].name = DataId[d]
    <3>1. devs'[e].status = devs[e].status /\ devs'[e].data = IF e = d THEN r ELSE devs[e].data
      BY <1>0, <2>3 DEF Dev
    <3> QED BY <2>1, <2>3, <3>1
  <2>4. CASE /\ devs' = [devs EXCEPT ![d].status = r]
             /\ r # Null => r \in 1 .. Len(heap') /\ heap'[r].name = StatusId[d]
    <3>1. devs'[e].data = devs[e].data /\ devs'[e].status = IF e = d THEN r ELSE devs[e].status
      BY <1>0, <2>4 DEF Dev
    <3> QED BY <2>1, <2>4, <3>1
  <2> QED BY <2>2, <2>3, <2>4 DEF SetsPointer
<1>3. ASSUME NEW p \in ToSet(PollerOf)
      PROVE  sensor_loc'[p] # Null =>
               sensor_loc'[p] \in 1 .. Len(heap') /\ heap'[sensor_loc'[p]].name = p
  BY PointsKept DEF Pointed
<1>4. \A t \in Threads : th'[t].r \in 0 .. Len(heap')
  <2>1. heap \in Seq(Record) /\ heap' \in Seq(Record) /\ Len(heap) <= Len(heap')
    BY DEF Types, Grown
  <2> QED BY <2>1 DEF Pointed
<1> QED BY <1>1, <1>2, <1>3, <1>4 DEF Pointed, PointsTo

\* Every step of the main thread sets one pointer at most.
LEMMA MainPointed ==
  ASSUME IInv, Start \/ Reads
  PROVE  Pointed' /\ devs' \in [ToSet(Devices) -> Dev]
<1>i. Types /\ Mapped /\ Pointed /\ Registered /\ Grown
  BY MainMaps DEF IInv
<1>u. UNCHANGED <<sensor_loc, th>>
  BY DEF Start, Reads, SetPollerHead, RegisterData, FanResRegister, EntityInfoResAdd,
         EntityInfoResRegister, TemperatureGet, FanStatusGet, DataGet, DataGetRest, Return,
         DcSensorReadingGetByName, Served
<1>g. ASSUME NEW n, NEW r \in Nat, PointsTo(r, n)
      PROVE  r # Null => r \in 1 .. Len(heap') /\ heap'[r].name = n
  BY <1>i, <1>g, PointsKept
<1>n. \A n : SensorGetByName(n) \in Nat /\ PointsTo(SensorGetByName(n), n)
  BY <1>i, ByNameType DEF Types
<1> SUFFICES \E d : \E r \in Nat : SetsPointer(d, r)
  BY <1>i, <1>u, DevsPointed
<1>d. ASSUME NEW d, NEW r \in Nat, PointsTo(r, DataId[d]), devs' = [devs EXCEPT ![d].data = r]
      PROVE  \E e : \E q \in Nat : SetsPointer(e, q)
  <2>1. SetsPointer(d, r)
    BY <1>d, <1>g DEF SetsPointer
  <2> QED BY <2>1
<1>e. ASSUME NEW d, NEW r \in Nat, PointsTo(r, StatusId[d]), devs' = [devs EXCEPT ![d].status = r]
      PROVE  \E e : \E q \in Nat : SetsPointer(e, q)
  <2>1. SetsPointer(d, r)
    BY <1>e, <1>g DEF SetsPointer
  <2> QED BY <2>1
<1>1. CASE RegisterData
  <2>1. devs' = [devs EXCEPT ![Here].data = SensorGetByName(DataId[Here])]
    BY <1>1 DEF RegisterData
  <2> QED BY <1>d, <1>n, <2>1
<1>2. CASE FanResRegister
  <2>1. devs' = [devs EXCEPT ![Here].status = SensorGetByName(StatusId[Here])]
    BY <1>2 DEF FanResRegister
  <2> QED BY <1>e, <1>n, <2>1
<1>3. CASE EntityInfoResAdd
  <2> DEFINE r == Found(SensorKey(Info))
  <2>1. Insert(SensorKey(Info), Info) /\ Info \in Names /\ devs' = [devs EXCEPT ![Info].data = r]
    BY <1>3 DEF EntityInfoResAdd, SensorAddByName, SensorKeyByName, SensorKey, Names
  <2>2. r \in 1 .. Len(heap') /\ heap'[r].name = DataId[Info]
    BY <1>i, <2>1, InsertMaps, BmcAssumption
  <2>3. r \in Nat
    BY <1>i, <2>2 DEF Grown
  <2>4. SetsPointer(Info, r)
    BY <2>1, <2>2 DEF SetsPointer
  <2> QED BY <2>3, <2>4
<1>4. ASSUME NEW d \in ToSet(Devices), TemperatureGet(d)
      PROVE  \E e : \E r \in Nat : SetsPointer(e, r)
  <2>1. devs' = [devs EXCEPT ![d].data = Lookup(d, "data", DataId[d])]
    BY <1>4 DEF TemperatureGet, Served
  <2> QED BY <1>i, <1>d, <2>1, LookupType
<1>5. ASSUME NEW d \in ToSet(Devices), FanStatusGet(d)
      PROVE  \E e : \E r \in Nat : SetsPointer(e, r)
  <2>1. devs' = [devs EXCEPT ![d].status = Lookup(d, "status", StatusId[d])]
    BY <1>5 DEF FanStatusGet, Served
  <2> QED BY <1>i, <1>e, <2>1, LookupType
<1>6. CASE DataGet
  <2>1. devs' = [devs EXCEPT ![Info].data = Lookup(Info, "data", DataId[Info])]
    BY <1>6, BmcAssumption DEF DataGet, Served
  <2>2. Info \in ToSet(Listed(scene))
    BY <1>6 DEF DataGet
  <2>3. Info \in ToSet(Devices)
    BY <1>i, <2>2, ListedDevice
  <2> QED BY <1>i, <1>d, <2>1, <2>3, LookupType
<1>7. CASE UNCHANGED devs
  <2>1. SetsPointer(Info, 0)
    BY <1>7 DEF SetsPointer
  <2> QED BY <2>1
<1> QED
  BY <1>1, <1>2, <1>3, <1>4, <1>5, <1>6, <1>7
     DEF Start, Reads, SetPollerHead, EntityInfoResRegister, DataGetRest, Return,
         DcSensorReadingGetByName

MainKept == UNCHANGED <<scene, entity, sensor_loc, th, hooks, asked, bmc, told>>

LEMMA MainSteps ==
  ASSUME Types, Start \/ Reads
  PROVE  MainKept /\ main' \in MainType
<1>0. main \in MainType
  BY DEF Types
<1>1. MainKept
  BY DEF MainKept, Start, Reads, SetPollerHead, RegisterData, FanResRegister, EntityInfoResAdd,
         EntityInfoResRegister, TemperatureGet, FanStatusGet, DataGet, DataGetRest, Return,
         DcSensorReadingGetByName, Served
<1> SUFFICES main' \in MainType
  BY <1>1
<1>a. ASSUME NEW a \in MainAt, main' = [main EXCEPT !.at = a] PROVE main' \in MainType
  BY <1>0, <1>a DEF MainType
<1>o. ASSUME NEW o \in Outcome, Answer(o) PROVE main' \in MainType
  <2>1. main' = [main EXCEPT !.out = o, !.at = "ready"] /\ "ready" \in MainAt
    BY <1>o DEF MainAt
  <2> QED BY <1>0, <2>1 DEF MainType
<1>2. CASE Start
  <2>1. \/ NextDevice
        \/ \E a \in MainAt : main' = [main EXCEPT !.at = a]
    BY <1>2 DEF Start, SetPollerHead, RegisterData, FanResRegister, EntityInfoResAdd,
                EntityInfoResRegister, MainAt
  <2> QED BY <1>a, <2>1, NextDeviceType
<1>3. CASE Reads
  <2>1. \/ \E o \in Outcome : Answer(o)
        \/ main' = [main EXCEPT !.at = "copy"]
        \/ main' = [main EXCEPT !.out = None]
    BY <1>3 DEF Reads, TemperatureGet, FanStatusGet, DataGet, DataGetRest, Return,
                DcSensorReadingGetByName, Outcome
  <2>2. CASE main' = [main EXCEPT !.out = None]
    BY <1>0, <2>2 DEF MainType, Outcome
  <2>3. "copy" \in MainAt
    BY DEF MainAt
  <2> QED BY <1>a, <1>o, <2>1, <2>2, <2>3
<1> QED BY <1>2, <1>3

\* The pointer of a registered information is the one to its only record.
LEMMA OnlyRecord ==
  ASSUME Types, Mapped, NEW r, NEW q, NEW n,
         r # Null, PointsTo(r, n), q # Null, PointsTo(q, n)
  PROVE  r = q
BY DEF PointsTo, Mapped

LEMMA MainSourced ==
  ASSUME IInv, Start \/ Reads
  PROVE  Sourced'
<1>i. Types /\ Mapped /\ Pointed /\ Registered /\ Sourced
  BY DEF IInv
<1>1. UNCHANGED <<hooks, th, asked>>
  BY <1>i, MainSteps DEF MainKept
<1>2. ASSUME NEW v \in {"dummy", "fru"}, NoField(v) PROVE NoField(v)'
  <2>1. CASE EntityInfoResAdd
    <3>1. Insert(SensorKey(Info), Info) /\ Info \in Names
      BY <2>1 DEF EntityInfoResAdd, SensorAddByName, SensorKeyByName, SensorKey, Names
    <3>2. \A i \in 1 .. Len(heap') :
            (i \in 1 .. Len(heap) /\ heap'[i] = heap[i]) \/ heap'[i] = Blank(Info)
      BY <1>i, <3>1, InsertMaps
    <3> QED BY <1>2, <3>2 DEF NoField, Blank, None
  <2>2. CASE EntityInfoResRegister
    <3>1. heap' = [heap EXCEPT ![devs[Info].data] =
                     [heap[devs[Info].data] EXCEPT !.fans = TRUE, !.dummy = scene.dummy]]
      BY <2>2 DEF EntityInfoResRegister
    <3>2. heap \in Seq(Record)
      BY <1>i DEF Types
    <3>3. Len(heap') = Len(heap) /\ \A i \in 1 .. Len(heap) :
            heap'[i].maker = heap[i].maker /\ heap'[i].supply = heap[i].supply
      BY <3>1, <3>2 DEF Record
    <3> QED BY <1>2, <3>3 DEF NoField
  <2>3. CASE UNCHANGED heap
    BY <1>2, <2>3 DEF NoField
  <2> QED
    BY <2>1, <2>2, <2>3
       DEF Start, Reads, SetPollerHead, RegisterData, FanResRegister, TemperatureGet,
           FanStatusGet, DataGet, DataGetRest, Return, DcSensorReadingGetByName, Served
<1> QED BY <1>i, <1>1, <1>2 DEF Sourced

\* A complete registration stays complete.
LEMMA CompleteKept ==
  ASSUME IInv, Start \/ Reads, Info \in ToSet(Devices), Complete
  PROVE  Complete'
<1> DEFINE r == devs[Info].data
<1>i. Types /\ Mapped /\ Pointed /\ Mapped' /\ Grown /\ Pointed'
  BY MainMaps, MainPointed DEF IInv
<1>d. devs \in [ToSet(Devices) -> Dev] /\ devs' \in [ToSet(Devices) -> Dev]
  BY <1>i, MainPointed DEF Types, Dev
<1>1. r \in 1 .. Len(heap) /\ heap[r].name = Info /\ heap[r].fans /\ r # Null
  BY <1>i, BmcAssumption DEF Complete, Pointed, PointsTo
<1>2. devs'[Info].data # Null
  <2>1. CASE RegisterData
    <3>1. devs' = [devs EXCEPT ![Here].data = SensorGetByName(DataId[Here])]
      BY <2>1 DEF RegisterData
    <3>2. SensorGetByName(Info) # Null
      BY <1>i, <1>1, ByNameType
    <3> QED BY <1>d, <1>1, <3>1, <3>2, BmcAssumption DEF Dev
  <2>2. CASE FanResRegister
    <3>1. devs' = [devs EXCEPT ![Here].status = SensorGetByName(StatusId[Here])]
      BY <2>2 DEF FanResRegister
    <3> QED BY <1>d, <1>1, <3>1 DEF Dev
  <2>3. CASE EntityInfoResAdd
    <3>1. Insert(SensorKey(Info), Info) /\ Info \in Names
          /\ devs' = [devs EXCEPT ![Info].data = Found(SensorKey(Info))]
      BY <2>3 DEF EntityInfoResAdd, SensorAddByName, SensorKeyByName, SensorKey, Names
    <3>2. Found(SensorKey(Info)) # Null
      BY <1>i, <3>1, InsertMaps DEF Null, Grown
    <3> QED BY <1>d, <3>1, <3>2 DEF Dev
  <2>4. ASSUME NEW e \in ToSet(Devices), TemperatureGet(e) PROVE devs'[Info].data # Null
    <3>1. devs' = [devs EXCEPT ![e].data = Lookup(e, "data", DataId[e])] /\ e # Info
      BY <2>4 DEF TemperatureGet, Served
    <3> QED BY <1>d, <1>1, <3>1 DEF Dev
  <2>5. ASSUME NEW e \in ToSet(Devices), FanStatusGet(e) PROVE devs'[Info].data # Null
    <3>1. devs' = [devs EXCEPT ![e].status = Lookup(e, "status", StatusId[e])] /\ e # Info
      BY <2>5 DEF FanStatusGet, Served
    <3> QED BY <1>d, <1>1, <3>1 DEF Dev
  <2>6. CASE DataGet
    <3>1. devs' = [devs EXCEPT ![Info].data = Lookup(Info, "data", Info)]
      BY <2>6 DEF DataGet, Served
    <3>2. Lookup(Info, "data", Info) = r
      BY <1>1 DEF Lookup
    <3> QED BY <1>d, <1>1, <3>1, <3>2 DEF Dev
  <2>7. CASE UNCHANGED devs
    BY <1>1, <2>7
  <2> QED
    BY <2>1, <2>2, <2>3, <2>4, <2>5, <2>6, <2>7
       DEF Start, Reads, SetPollerHead, EntityInfoResRegister, DataGetRest, Return,
           DcSensorReadingGetByName
<1>3. devs'[Info].data \in 1 .. Len(heap') /\ heap'[devs'[Info].data].name = Info
  BY <1>i, <1>2, BmcAssumption DEF Pointed, PointsTo
<1>4. r \in 1 .. Len(heap') /\ heap'[r].name = Info /\ heap'[r].fans
  <2>1. heap \in Seq(Record) /\ heap' \in Seq(Record) /\ Len(heap) <= Len(heap')
    BY <1>i DEF Types, Grown
  <2> QED BY <1>i, <1>1, <2>1 DEF Grown
<1>5. devs'[Info].data = r
  BY <1>i, <1>3, <1>4 DEF Mapped
<1> QED BY <1>2, <1>4, <1>5 DEF Complete

\* The next device is taken when what concerns this one is complete.
LEMMA NextDeviceRegistered ==
  ASSUME Types, Registered, NextDevice, UNCHANGED scene,
         main.dev \in 1 .. Len(Listed(scene)),
         Here = Info => Complete',
         \A i \in 1 .. Len(Listed(scene)) : Listed(scene)[i] = Info /\ Complete => Complete'
  PROVE  Registered'
<1>1. main \in MainType /\ main'.out = main.out /\ Len(Listed(scene)) \in Nat
  <2>1. Listed(scene) \in Seq(ToSet(Devices))
    BY BmcAssumption DEF Types
  <2> QED BY <2>1, NextDeviceType DEF Types
<1>2. CASE main.dev = Len(Listed(scene)) /\ main' = [main EXCEPT !.at = "ready"]
  <2>1. main'.at = "ready" /\ main'.dev = main.dev
    BY <1>1, <1>2 DEF MainType
  <2>2. \A i \in 1 .. Len(Listed(scene)) : i < main.dev \/ i = main.dev
    BY <1>1, <1>2
  <2> QED BY <1>1, <2>1, <2>2 DEF Registered, Here
<1>3. CASE main.dev # Len(Listed(scene)) /\ main' = [main EXCEPT !.at = "data", !.dev = @ + 1]
  <2>1. main'.at = "data" /\ main'.dev = main.dev + 1
    BY <1>1, <1>3 DEF MainType
  <2>2. \A i \in 1 .. Len(Listed(scene)) : i < main'.dev => i < main.dev \/ i = main.dev
    BY <1>1, <2>1
  <2>3. main'.dev \in 1 .. Len(Listed(scene))
    BY <1>1, <1>3, <2>1
  <2> QED BY <1>1, <2>1, <2>2, <2>3 DEF Registered, Here
<1> QED BY <1>2, <1>3 DEF NextDevice

LEMMA MainRegistered ==
  ASSUME IInv, Start \/ Reads
  PROVE  Registered'
<1>i. Types /\ Mapped /\ Pointed /\ Registered /\ main \in MainType
  BY DEF IInv, Types
<1>s. UNCHANGED scene /\ main' \in MainType
  BY <1>i, MainSteps DEF MainKept
<1>d. devs \in [ToSet(Devices) -> Dev] /\ devs' \in [ToSet(Devices) -> Dev]
  BY <1>i, MainPointed DEF Types, Dev
<1>k. \A i \in 1 .. Len(Listed(scene)) :
        Listed(scene)[i] = Info => Info \in ToSet(Devices) /\ (Complete => Complete')
  <2>1. Listed(scene) \in Seq(ToSet(Devices))
    BY <1>i, BmcAssumption DEF Types
  <2> QED BY <2>1, CompleteKept
<1>1. CASE SetPollerHead
  <2>1. main'.at = "data" /\ main'.dev = main.dev /\ main'.out = main.out /\ main.at = "head"
    BY <1>i, <1>1 DEF SetPollerHead, MainType
  <2> QED BY <1>i, <1>s, <1>k, <2>1 DEF Registered, Here
<1>2. CASE RegisterData
  <2>0. main.at = "data" /\ main.dev \in 1 .. Len(Listed(scene))
    BY <1>i, <1>2 DEF RegisterData, Registered
  <2>1. CASE Here # Info /\ NextDevice
    BY <1>i, <1>s, <1>k, <2>0, <2>1, NextDeviceRegistered
  <2>2. CASE Here # Info /\ main' = [main EXCEPT !.at = "status"]
    <3>1. main'.at = "status" /\ main'.dev = main.dev /\ main'.out = main.out
      BY <1>i, <2>2 DEF MainType
    <3> QED BY <1>i, <1>s, <1>k, <2>0, <2>2, <3>1 DEF Registered, Here
  <2>3. CASE Here = Info
    <3> DEFINE r == SensorGetByName(DataId[Here])
    <3>1. /\ main' = [main EXCEPT !.at = IF r = Null THEN "add" ELSE "info"]
          /\ devs' = [devs EXCEPT ![Info].data = r]
      BY <1>2, <2>3 DEF RegisterData
    <3>2. /\ main'.at = (IF r = Null THEN "add" ELSE "info")
          /\ main'.dev = main.dev /\ main'.out = main.out
      BY <1>i, <3>1 DEF MainType
    <3>3. Info \in ToSet(Devices)
      BY <1>i, <2>0, <2>3, HereType
    <3>4. devs'[Info].data = r
      BY <1>d, <3>1, <3>3 DEF Dev
    <3> HIDE DEF r
    <3> QED BY <1>i, <1>s, <1>k, <2>0, <2>3, <3>2, <3>3, <3>4 DEF Registered, Here
  <2> QED BY <1>2, <2>1, <2>2, <2>3 DEF RegisterData
<1>3. CASE FanResRegister
  <2>1. NextDevice /\ Here # Info /\ main.dev \in 1 .. Len(Listed(scene))
    BY <1>i, <1>3 DEF FanResRegister, Registered
  <2> QED BY <1>i, <1>s, <1>k, <2>1, NextDeviceRegistered
<1>4. CASE EntityInfoResAdd
  <2>1. main.at = "add" /\ main'.at = "info" /\ main'.dev = main.dev /\ main'.out = main.out
    BY <1>i, <1>4 DEF EntityInfoResAdd, MainType
  <2>2. Info \in ToSet(Devices) /\ Here = Info
    BY <1>i, <2>1 DEF Registered
  <2>3. devs'[Info].data # Null
    <3>1. Insert(SensorKey(Info), Info) /\ Info \in Names
          /\ devs' = [devs EXCEPT ![Info].data = Found(SensorKey(Info))]
      BY <1>4 DEF EntityInfoResAdd, SensorAddByName, SensorKeyByName, SensorKey, Names
    <3>2. Found(SensorKey(Info)) # Null
      BY <1>i, <3>1, InsertMaps DEF Null, Grown
    <3> QED BY <1>d, <2>2, <3>1, <3>2 DEF Dev
  <2> QED BY <1>i, <1>s, <1>k, <2>1, <2>2, <2>3 DEF Registered, Here
<1>5. CASE EntityInfoResRegister
  <2> DEFINE r == devs[Info].data
  <2>1. /\ NextDevice /\ main.at = "info" /\ UNCHANGED devs
        /\ heap' = [heap EXCEPT ![r] = [heap[r] EXCEPT !.fans = TRUE, !.dummy = scene.dummy]]
    BY <1>5 DEF EntityInfoResRegister
  <2>2. Info \in ToSet(Devices) /\ r # Null /\ main.dev \in 1 .. Len(Listed(scene))
    BY <1>i, <2>1 DEF Registered
  <2>3. r \in 1 .. Len(heap) /\ heap \in Seq(Record)
    BY <1>i, <2>2 DEF Pointed, PointsTo, Types
  <2>4. heap'[r].fans
    BY <2>1, <2>3 DEF Record
  <2>5. Complete'
    BY <2>1, <2>2, <2>4 DEF Complete
  <2> QED BY <1>i, <1>s, <2>1, <2>2, <2>5, NextDeviceRegistered
<1>6. CASE Return
  <2>1. main'.at = main.at /\ main'.dev = main.dev /\ main'.out = None /\ UNCHANGED devs
    BY <1>i, <1>6 DEF Return, MainType
  <2>2. Complete => Complete'
    BY <1>6, <2>1 DEF Return, Complete
  <2> QED BY <1>i, <1>s, <2>1, <2>2 DEF Registered, Here, None
<1>7. CASE Reads /\ ~Return
  <2>1. main.at \in {"ready", "copy"} /\ (main.at = "copy" => DataGetRest)
    BY <1>7 DEF Reads, TemperatureGet, FanStatusGet, DataGet, DataGetRest, DcSensorReadingGetByName, Served
  <2>2. /\ main'.dev = main.dev /\ main'.at \in {"ready", "copy"}
        /\ main'.at = "copy" => DataGet
    BY <1>i, <1>7
       DEF Reads, TemperatureGet, FanStatusGet, DataGet, DataGetRest, DcSensorReadingGetByName, MainType
  <2>3. main'.out # "nofans"
    <3>1. CASE DataGetRest
      <4>1. heap[devs[Info].data].fans
        BY <1>i, <3>1 DEF DataGetRest, Registered, Complete
      <4>2. Answer("info")
        BY <3>1, <4>1 DEF DataGetRest
      <4> QED BY <1>i, <4>2 DEF MainType
    <3>2. CASE ~DataGetRest
      <4>1. \/ \E o \in Outcome \ {"nofans"} : Answer(o)
            \/ main' = [main EXCEPT !.at = "copy"]
        BY <1>7, <3>2 DEF Reads, TemperatureGet, FanStatusGet, DataGet, DcSensorReadingGetByName, Outcome
      <4> QED BY <1>i, <4>1 DEF MainType, Registered
    <3> QED BY <3>1, <3>2
  <2>4. \A i \in 1 .. Len(Listed(scene)) : Listed(scene)[i] = Info => Complete'
    BY <1>i, <1>k, <2>1 DEF Registered
  <2>5. main'.at = "copy" => Info \in ToSet(Devices) /\ Complete'
    <3>1. ASSUME DataGet PROVE \E i \in 1 .. Len(Listed(scene)) : Listed(scene)[i] = Info
      <4>1. Listed(scene) \in Seq(ToSet(Devices)) /\ Info \in ToSet(Listed(scene))
        BY <1>i, <3>1, BmcAssumption DEF Types, DataGet
      <4> QED BY <4>1 DEF ToSet
    <3> QED BY <1>k, <2>2, <2>4, <3>1
  <2> QED BY <1>s, <2>2, <2>3, <2>4, <2>5 DEF Registered
<1> QED BY <1>1, <1>2, <1>3, <1>4, <1>5, <1>6, <1>7 DEF Start

LEMMA MainStep ==
  ASSUME IInv, Start \/ Reads
  PROVE  IInv'
<1>i. Types /\ Mapped /\ Locals /\ AtStart /\ main \in MainType
  BY DEF IInv, Types
<1>1. MainKept /\ main' \in MainType /\ Mapped' /\ Grown /\ Pointed' /\ Sourced' /\ Registered'
  BY <1>i, MainSteps, MainMaps, MainPointed, MainSourced, MainRegistered
<1>2. devs' \in [ToSet(Devices) -> [data : Nat, status : Nat]]
  BY MainPointed DEF Dev
<1>3. Types'
  BY <1>i, <1>1, <1>2 DEF Types, MainKept, Grown
<1>4. Locals'
  BY <1>i, <1>1 DEF Locals, MainKept
<1>5. AtStart'
  <2>1. CASE Return
    <3>1. main'.at = main.at /\ UNCHANGED <<heap, sensor_map, told, th>>
      BY <1>i, <2>1 DEF Return, MainType
    <3> QED BY <1>i, <3>1 DEF AtStart
  <2>2. CASE ~Return
    <3>1. main'.at # "start"
      <4>1. CASE NextDevice
        BY <1>i, <4>1, NextDeviceType
      <4>2. CASE ~NextDevice
        BY <1>i, <2>2, <4>2
           DEF Start, Reads, SetPollerHead, RegisterData, FanResRegister, EntityInfoResAdd,
               EntityInfoResRegister, TemperatureGet, FanStatusGet, DataGet, DataGetRest,
               DcSensorReadingGetByName, MainType
      <4> QED BY <4>1, <4>2
    <3> QED BY <3>1 DEF AtStart
  <2> QED BY <2>1, <2>2
<1> QED BY <1>1, <1>3, <1>4, <1>5 DEF IInv

-----------------------------------------------------------------------------
(* The event thread and the poller.                                        *)

OtherStep == \/ Poller
             \/ \E t \in Threads : Creation(t)
             \/ \E n \in Threshold, v \in Values : ThresholdEventHandler(n, v)
             \/ \E there \in BOOLEAN : PresenceHandler(there)
ThreadStep == Handlers \/ Answers \/ OtherStep

\* What a step does to the records, and which sources it may write.
HeapStep(W) ==
  Mapped' /\ Grown /\ \A v \in {"dummy", "fru"} \ W : NoField(v) => NoField(v)'

LEMMA InsertSteps ==
  ASSUME Types, Mapped, NEW n \in Names, Insert(SensorKey(n), n)
  PROVE  HeapStep({})
<1>1. \A i \in 1 .. Len(heap') :
        (i \in 1 .. Len(heap) /\ heap'[i] = heap[i]) \/ heap'[i] = Blank(n)
  BY InsertMaps
<1>2. ASSUME NEW v \in {"dummy", "fru"}, NoField(v) PROVE NoField(v)'
  BY <1>1, <1>2 DEF NoField, Blank, None
<1> QED BY <1>2, InsertMaps DEF HeapStep

LEMMA UpdateSteps ==
  ASSUME Types, Mapped, UNCHANGED sensor_map, NEW r \in 0 .. Len(heap), NEW q, NEW W,
         heap' = [heap EXCEPT ![r] = q],
         r # 0 => /\ q \in Record /\ q.name = heap[r].name /\ (heap[r].fans => q.fans)
                  /\ q.maker \in {heap[r].maker} \cup W
                  /\ q.supply \in {heap[r].supply} \cup W
  PROVE  HeapStep(W)
<1>1. /\ Mapped' /\ Grown /\ Len(heap') = Len(heap)
      /\ \A i \in 1 .. Len(heap) : heap'[i] = IF i = r THEN q ELSE heap[i]
  BY UpdateMaps
<1>2. ASSUME NEW v \in {"dummy", "fru"} \ W, NoField(v) PROVE NoField(v)'
  <2>1. heap \in Seq(Record)
    BY DEF Types
  <2> SUFFICES ASSUME NEW i \in 1 .. Len(heap) PROVE heap'[i].maker # v /\ heap'[i].supply # v
    BY <1>1 DEF NoField
  <2>2. heap[i].maker # v /\ heap[i].supply # v
    BY <1>2 DEF NoField
  <2> QED BY <1>1, <1>2, <2>1, <2>2
<1> QED BY <1>1, <1>2 DEF HeapStep

LEMMA SameSteps ==
  ASSUME Types, Mapped, UNCHANGED <<sensor_map, heap>>
  PROVE  HeapStep({})
BY SameMaps DEF HeapStep, NoField

\* Which steps write the fields of a record, and from what.
Sources == IF AskForFru \/ EntityInfoDummyPopulate THEN {"dummy"}
           ELSE IF FillFruFields \/ OemRespHandler THEN {"fru"} ELSE {}

LEMMA Weaken == ASSUME HeapStep({}), NEW W PROVE HeapStep(W)
BY DEF HeapStep

LEMMA EventHeap ==
  ASSUME IInv, Handlers \/ Answers
  PROVE  HeapStep(Sources)
<1> DEFINE r == th["event"].r
           h == heap[r]
<1>i. Types /\ Mapped /\ Locals /\ Pointed
  BY DEF IInv
<1>r. r \in 0 .. Len(heap) /\ (r # 0 => h \in Record)
  BY <1>i DEF Pointed, Types, Threads
<1>g. \A n \in Names : /\ SensorGet(n) \in 0 .. Len(heap)
                       /\ SensorGet(n) # 0 => heap[SensorGet(n)] \in Record
  BY <1>i, SensorGetType DEF Types
<1> HIDE DEF r
<1>1. CASE AddEntityFruRecord
  <2>1. Insert(SensorKey(Info), Info) /\ Info \in Names
    BY <1>1 DEF AddEntityFruRecord, SensorAdd, Names
  <2> QED BY <1>i, <2>1, InsertSteps, Weaken
<1>2. CASE TypeEntityFruInfo
  <2>1. heap' = [heap EXCEPT ![r] = [h EXCEPT !.type = "info"]] /\ UNCHANGED sensor_map
    BY <1>2 DEF TypeEntityFruInfo, Set, r
  <2>2. r # 0 => /\ [h EXCEPT !.type = "info"] \in Record
                 /\ [h EXCEPT !.type = "info"].name = h.name
                 /\ [h EXCEPT !.type = "info"].fans = h.fans
                 /\ [h EXCEPT !.type = "info"].maker = h.maker
                 /\ [h EXCEPT !.type = "info"].supply = h.supply
    BY <1>r DEF Record
  <2>3. HeapStep({})
    BY <1>i, <1>r, <2>1, <2>2, UpdateSteps
  <2> QED BY <2>3, Weaken
<1>3. CASE AskForFru
  <2> DEFINE q == [h EXCEPT !.valid = TRUE, !.maker = "dummy"]
  <2>1. CASE UNCHANGED heap
    <3>1. UNCHANGED <<sensor_map, heap>>
      BY <1>3, <2>1 DEF AskForFru
    <3> QED BY <1>i, <3>1, SameSteps, Weaken
  <2>2. CASE heap' = [heap EXCEPT ![r] = q]
    <3>1. r # 0 => q \in Record /\ q.name = h.name /\ q.fans = h.fans
                   /\ q.maker = "dummy" /\ q.supply = h.supply
      BY <1>r DEF Record
    <3>2. UNCHANGED sensor_map
      BY <1>3 DEF AskForFru
    <3>3. HeapStep({"dummy"})
      BY <1>i, <1>r, <2>2, <3>1, <3>2, UpdateSteps
    <3> QED BY <1>3, <3>3 DEF Sources
  <2>3. \/ UNCHANGED heap
        \/ heap' = [heap EXCEPT ![r].valid = TRUE, ![r].maker = "dummy"]
    BY <1>3 DEF AskForFru, r
  <2>4. [heap EXCEPT ![r].valid = TRUE, ![r].maker = "dummy"] = [heap EXCEPT ![r] = q]
    OBVIOUS
  <2> QED BY <2>1, <2>2, <2>3, <2>4
<1>4. CASE EntityInfoDummyPopulate
  <2> DEFINE q == [h EXCEPT !.supply = "dummy"]
  <2>1. heap' = [heap EXCEPT ![r] = q] /\ UNCHANGED sensor_map
    BY <1>4 DEF EntityInfoDummyPopulate, Set, r
  <2>2. r # 0 => q \in Record /\ q.name = h.name /\ q.fans = h.fans
                 /\ q.maker = h.maker /\ q.supply = "dummy"
    BY <1>r DEF Record
  <2>3. HeapStep({"dummy"})
    BY <1>i, <1>r, <2>1, <2>2, UpdateSteps
  <2> QED BY <1>4, <2>3 DEF Sources
<1>5. CASE TraverseFruNodeTree
  <2> DEFINE q == [h EXCEPT !.valid = TRUE]
  <2>1. heap' = [heap EXCEPT ![r] = q] /\ UNCHANGED sensor_map
    BY <1>5 DEF TraverseFruNodeTree, Set, r
  <2>2. r # 0 => q \in Record /\ q.name = h.name /\ q.fans = h.fans
                 /\ q.maker = h.maker /\ q.supply = h.supply
    BY <1>r DEF Record
  <2>3. HeapStep({})
    BY <1>i, <1>r, <2>1, <2>2, UpdateSteps
  <2> QED BY <2>3, Weaken
<1>6. CASE FillFruFields
  <2>1. PICK fields \in SUBSET {"maker", "supply"} :
          heap' = [heap EXCEPT ![r] = [f \in DOMAIN @ |-> IF f \in fields THEN "fru" ELSE @[f]]]
    BY <1>6 DEF FillFruFields, r
  <2> DEFINE q == [f \in DOMAIN h |-> IF f \in fields THEN "fru" ELSE h[f]]
  <2>2. heap' = [heap EXCEPT ![r] = q] /\ UNCHANGED sensor_map
    BY <1>6, <2>1 DEF FillFruFields
  <2>3. ASSUME r # 0
        PROVE  /\ q \in Record /\ q.name = h.name /\ q.fans = h.fans
               /\ q.maker \in {h.maker, "fru"} /\ q.supply \in {h.supply, "fru"}
    <3>1. h \in Record
      BY <1>r, <2>3
    <3> QED BY <3>1 DEF Record
  <2>4. HeapStep({"fru"})
    BY <1>i, <1>r, <2>2, <2>3, UpdateSteps
  <2>6. ~AskForFru /\ ~EntityInfoDummyPopulate
    BY <1>6 DEF FillFruFields, AskForFru, EntityInfoDummyPopulate
  <2> QED BY <1>6, <2>4, <2>6 DEF Sources
<1>7. CASE OemRespHandler
  <2> DEFINE k == SensorGet(Info)
             q == [heap[k] EXCEPT !.supply = "fru"]
  <2>0. k \in 0 .. Len(heap) /\ (k # 0 => heap[k] \in Record)
    BY <1>g DEF Names
  <2>1. CASE UNCHANGED heap
    <3>1. UNCHANGED <<sensor_map, heap>>
      BY <1>7, <2>1 DEF OemRespHandler
    <3> QED BY <1>i, <3>1, SameSteps, Weaken
  <2>2. CASE heap' = [heap EXCEPT ![k] = q]
    <3>1. k # 0 => q \in Record /\ q.name = heap[k].name /\ q.fans = heap[k].fans
                   /\ q.maker = heap[k].maker /\ q.supply = "fru"
      BY <2>0 DEF Record
    <3>2. UNCHANGED sensor_map
      BY <1>7 DEF OemRespHandler
    <3>3. HeapStep({"fru"})
      BY <1>i, <2>0, <2>2, <3>1, <3>2, UpdateSteps
    <3>4. ~AskForFru /\ ~EntityInfoDummyPopulate
      BY <1>7 DEF OemRespHandler, AskForFru, EntityInfoDummyPopulate
    <3> QED BY <1>7, <3>3, <3>4 DEF Sources
  <2> QED BY <1>7, <2>1, <2>2 DEF OemRespHandler, Set
<1>8. ASSUME NEW n \in Discrete, SensorDiscreteStates(n) PROVE HeapStep({})
  <2> DEFINE k == SensorGet(n)
             q == [heap[k] EXCEPT !.state = {}]
  <2>0. k \in 0 .. Len(heap) /\ (k # 0 => heap[k] \in Record)
    BY <1>g DEF Names, Sensors
  <2>1. heap' = [heap EXCEPT ![k] = q] /\ UNCHANGED sensor_map
    BY <1>8 DEF SensorDiscreteStates, Set
  <2>2. k # 0 => q \in Record /\ q.name = heap[k].name /\ q.fans = heap[k].fans
                 /\ q.maker = heap[k].maker /\ q.supply = heap[k].supply
    BY <2>0 DEF Record
  <2> QED BY <1>i, <2>0, <2>1, <2>2, UpdateSteps
<1>9. CASE SensorDiscreteBit
  <2> DEFINE todo == th["event"].todo
             b == CHOOSE c \in todo : TRUE
             q == [h EXCEPT !.state = @ \cup {b}]
  <2>1. todo # {} /\ heap' = [heap EXCEPT ![r] = q] /\ UNCHANGED sensor_map
    BY <1>9 DEF SensorDiscreteBit, r
  <2>2. b \in Bits
    BY <1>i, <2>1 DEF Locals
  <2>3. r # 0 => q \in Record /\ q.name = h.name /\ q.fans = h.fans
                 /\ q.maker = h.maker /\ q.supply = h.supply
    BY <1>r, <2>2 DEF Record
  <2>4. HeapStep({})
    BY <1>i, <1>r, <2>1, <2>3, UpdateSteps
  <2> QED BY <2>4, Weaken
<1>10. ASSUME NEW n \in Threshold, NEW v \in Values, SensorReadingHandler(n, v)
       PROVE  HeapStep({})
  <2> DEFINE k == SensorGet(n)
             q == [heap[k] EXCEPT !.data = v]
  <2>0. k \in 0 .. Len(heap) /\ (k # 0 => heap[k] \in Record)
    BY <1>g DEF Names, Sensors
  <2>1. CASE UNCHANGED heap
    BY <1>i, <1>10, <2>1, SameSteps DEF SensorReadingHandler
  <2>2. CASE heap' = [heap EXCEPT ![k] = q]
    <3>1. k # 0 => q \in Record /\ q.name = heap[k].name /\ q.fans = heap[k].fans
                   /\ q.maker = heap[k].maker /\ q.supply = heap[k].supply
      BY <2>0 DEF Record
    <3>2. UNCHANGED sensor_map
      BY <1>10 DEF SensorReadingHandler
    <3> QED BY <1>i, <2>0, <2>2, <3>1, <3>2, UpdateSteps
  <2> QED BY <1>10, <2>1, <2>2 DEF SensorReadingHandler, Set
<1>11. CASE UNCHANGED <<sensor_map, heap>>
  BY <1>i, <1>11, SameSteps, Weaken
<1> QED
  BY <1>1, <1>2, <1>3, <1>4, <1>5, <1>6, <1>7, <1>8, <1>9, <1>10, <1>11, Weaken
     DEF Handlers, Answers, EntityUpdateHandler, OtherEntityUpdate, AddEntityFruInfo,
         PopulateSensorForPoller, FruUpdateHandler, SensorUpdateHandler, SensorDiscreteDone

LEMMA OtherHeap ==
  ASSUME IInv, OtherStep
  PROVE  HeapStep({})
<1>i. Types /\ Mapped /\ Locals /\ Pointed
  BY DEF IInv
<1>1. CASE Poller \/ \E there \in BOOLEAN : PresenceHandler(there)
  <2>1. UNCHANGED <<sensor_map, heap>>
    BY <1>1 DEF Poller, IterateEntities, IterateSensors, IterateSensorsAsk, OemPoller,
                PresenceHandler
  <2> QED BY <1>i, <2>1, SameSteps
<1>2. ASSUME NEW t \in Threads, SensorCreate(t) PROVE HeapStep({})
  BY <1>i, <1>2, SameSteps DEF SensorCreate
<1>3. ASSUME NEW t \in Threads, SensorCreateAdd(t) PROVE HeapStep({})
  <2>1. th[t].n \in Names /\ Insert(SensorKey(th[t].n), th[t].n)
    BY <1>i, <1>3 DEF SensorCreateAdd, SensorAdd, Locals, Names
  <2> QED BY <1>i, <2>1, InsertSteps
<1>4. ASSUME NEW t \in Threads, SensorCreateInit(t) PROVE HeapStep({})
  <2> DEFINE r == th[t].r
             h == heap[r]
             p == [h EXCEPT !.type = "discrete", !.state = Bits]
             q == [h EXCEPT !.type = "threshold"]
  <2>1. r \in 0 .. Len(heap) /\ (r # 0 => h \in Record) /\ UNCHANGED sensor_map
    BY <1>i, <1>4 DEF Pointed, Types, SensorCreateInit
  <2>2. CASE heap' = [heap EXCEPT ![r] = p]
    <3>1. r # 0 => p \in Record /\ p.name = h.name /\ p.fans = h.fans
                   /\ p.maker = h.maker /\ p.supply = h.supply
      BY <2>1 DEF Record
    <3> QED BY <1>i, <2>1, <2>2, <3>1, UpdateSteps
  <2>3. CASE heap' = [heap EXCEPT ![r] = q]
    <3>1. r # 0 => q \in Record /\ q.name = h.name /\ q.fans = h.fans
                   /\ q.maker = h.maker /\ q.supply = h.supply
      BY <2>1 DEF Record
    <3> QED BY <1>i, <2>1, <2>3, <3>1, UpdateSteps
  <2>4. [heap EXCEPT ![r].type = "discrete", ![r].state = Bits] = [heap EXCEPT ![r] = p]
    OBVIOUS
  <2>5. \/ heap' = [heap EXCEPT ![r].type = "discrete", ![r].state = Bits]
        \/ heap' = [heap EXCEPT ![r] = q]
    BY <1>4 DEF SensorCreateInit
  <2> QED BY <2>2, <2>3, <2>4, <2>5
<1>5. ASSUME NEW n \in Threshold, NEW v \in Values, ThresholdEventHandler(n, v)
      PROVE  HeapStep({})
  <2> DEFINE k == SensorGet(n)
             q == [heap[k] EXCEPT !.data = v]
  <2>0. k \in 0 .. Len(heap) /\ (k # 0 => heap[k] \in Record) /\ UNCHANGED sensor_map
    BY <1>i, <1>5, SensorGetType DEF Types, Names, Sensors, ThresholdEventHandler
  <2>1. heap' = [heap EXCEPT ![k] = q]
    BY <1>5 DEF ThresholdEventHandler, Set
  <2>2. k # 0 => q \in Record /\ q.name = heap[k].name /\ q.fans = heap[k].fans
                 /\ q.maker = heap[k].maker /\ q.supply = heap[k].supply
    BY <2>0 DEF Record
  <2> QED BY <1>i, <2>0, <2>1, <2>2, UpdateSteps
<1> QED BY <1>1, <1>2, <1>3, <1>4, <1>5 DEF OtherStep, Creation

\* The locals of the threads.
Local == [at : States, n : Sensors \cup {None}, r : Nat, todo : SUBSET (Bits \cup Sensors)]
LocalOK(t, l) ==
  /\ l \in Local
  /\ l.at \in {"create", "add", "init", "ask"} => l.n \in Sensors
  /\ t = "event" => l.todo \subseteq Bits /\ l.at \notin {"ask", "next"}
  /\ t = "poller" => /\ l.todo \subseteq Sensors
                     /\ l.at \in {"off", "loop", "create", "add", "init", "ask", "next"}

LEMMA LocalsSplit ==
  ASSUME th \in [Threads -> Local]
  PROVE  Locals <=> \A t \in Threads : LocalOK(t, th[t])
BY DEF Locals, LocalOK, Threads

LEMMA ThreadMoves ==
  ASSUME Types, Locals, Pointed, Grown, NEW t \in Threads, NEW l, LocalOK(t, l),
         l.r \in 0 .. Len(heap'), th' = [th EXCEPT ![t] = l]
  PROVE  /\ th' \in [Threads -> Local] /\ Locals'
         /\ \A u \in Threads : th'[u].r \in 0 .. Len(heap')
<1>0. /\ th \in [Threads -> Local] /\ l \in Local
      /\ Len(heap) \in Nat /\ Len(heap') \in Nat /\ Len(heap) <= Len(heap')
  BY DEF Types, Local, Grown, LocalOK
<1>1. th' \in [Threads -> Local] /\ \A u \in Threads : th'[u] = IF u = t THEN l ELSE th[u]
  BY <1>0
<1>2. \A u \in Threads : LocalOK(u, th[u])
  BY <1>0, LocalsSplit
<1>3. \A u \in Threads : LocalOK(u, th'[u])
  BY <1>1, <1>2
<1>4. Locals'
  BY <1>1, <1>3 DEF Locals, LocalOK, Threads
<1>5. \A u \in Threads : th'[u].r \in 0 .. Len(heap')
  BY <1>0, <1>1 DEF Pointed
<1> QED BY <1>1, <1>4, <1>5

\* Every step of a thread leaves it in a place with the locals of that place.
Moves == \E t \in Threads : \E l \in Local :
           LocalOK(t, l) /\ l.r \in 0 .. Len(heap') /\ th' = [th EXCEPT ![t] = l]

LEMMA EventMoves ==
  ASSUME IInv, Grown, Handlers \/ Answers
  PROVE  Moves \/ UNCHANGED th
<1> DEFINE e == th["event"]
<1>i. Types /\ Mapped /\ Locals /\ Pointed
  BY DEF IInv
<1>0. /\ e \in Local /\ th["event"].r \in 0 .. Len(heap) /\ e.todo \subseteq Bits
      /\ Len(heap) \in Nat /\ Len(heap') \in Nat /\ Len(heap) <= Len(heap')
  BY <1>i DEF Types, Local, Grown, Threads, Pointed, Locals
<1>m. ASSUME NEW l \in Local, l.at \in {"create", "add", "init"} => l.n \in Sensors,
             l.todo \subseteq Bits, l.at \notin {"ask", "next"}, l.r \in 0 .. Len(heap'),
             th' = [th EXCEPT !["event"] = l]
      PROVE  Moves
  BY <1>m DEF Moves, LocalOK, Threads
<1>g. ASSUME NEW a \in {"fruget", "bind", "dummy", "fill", "dummy2", "fill2", "loop"},
             th' = [th EXCEPT !["event"].at = a]
      PROVE  Moves
  <2>1. /\ [e EXCEPT !.at = a] \in Local /\ [e EXCEPT !.at = a].at = a
        /\ [e EXCEPT !.at = a].todo = e.todo /\ [e EXCEPT !.at = a].r = e.r
    BY <1>0 DEF Local, States
  <2>2. [e EXCEPT !.at = a].r \in 0 .. Len(heap')
    BY <1>0, <2>1
  <2>3. th' = [th EXCEPT !["event"] = [e EXCEPT !.at = a]]
    BY <1>g
  <2> QED BY <1>0, <1>m, <2>1, <2>2, <2>3
<1>1. CASE AddEntityFruInfo \/ AddEntityFruRecord
  <2>1. PICK r \in 0 .. Len(heap'), a \in {"fruadd", "frutype"} :
          th' = [th EXCEPT !["event"].r = r, !["event"].at = a]
    <3>1. Info \in Names
      BY DEF Names
    <3>2. CASE AddEntityFruInfo
      <4>1. SensorGet(Info) \in 0 .. Len(heap')
        BY <1>i, <1>0, <3>1, SensorGetType
      <4> QED BY <3>2, <4>1 DEF AddEntityFruInfo
    <3>3. CASE AddEntityFruRecord
      <4>1. Insert(SensorKey(Info), Info)
        BY <3>3 DEF AddEntityFruRecord, SensorAdd
      <4>2. Found(SensorKey(Info)) \in 0 .. Len(heap')
        BY <1>i, <1>0, <3>1, <4>1, InsertMaps
      <4> QED BY <3>3, <4>2 DEF AddEntityFruRecord
    <3> QED BY <1>1, <3>2, <3>3
  <2> DEFINE l == [e EXCEPT !.r = r, !.at = a]
  <2>r. r \in Nat /\ a \in States
    BY <1>0 DEF States
  <2>2. l \in Local /\ l.at = a /\ l.todo = e.todo /\ l.r = r
    BY <1>0, <2>r DEF Local
  <2>3. th' = [th EXCEPT !["event"] = l]
    BY <2>1
  <2> QED BY <1>0, <1>m, <2>2, <2>3
<1>2. ASSUME NEW n \in Sensors, SensorUpdateHandler(n) PROVE Moves
  <2> DEFINE l == [e EXCEPT !.n = n, !.at = "create"]
  <2>1. l \in Local /\ l.at = "create" /\ l.n = n /\ l.todo = e.todo /\ l.r = e.r
    BY <1>0 DEF Local, States
  <2>2. th' = [th EXCEPT !["event"] = l]
    BY <1>2 DEF SensorUpdateHandler
  <2>3. l.r \in 0 .. Len(heap')
    BY <1>0, <2>1
  <2> QED BY <1>0, <1>m, <2>1, <2>2, <2>3
<1>3. ASSUME NEW n \in Discrete, SensorDiscreteStates(n) PROVE Moves
  <2> DEFINE bits == IF link THEN bmc[n] ELSE {}
             l == [e EXCEPT !.n = n, !.r = SensorGet(n), !.at = "bits", !.todo = bits]
  <2>1. n \in Sensors /\ SensorGet(n) \in 0 .. Len(heap) /\ bits \subseteq Bits
    BY <1>i, SensorGetType DEF Sensors, Names, Types
  <2>3. th' = [th EXCEPT !["event"] = l]
    BY <1>3 DEF SensorDiscreteStates
  <2>r. SensorGet(n) \in Nat /\ bits \in SUBSET (Bits \cup Sensors) /\ "bits" \in States
    BY <1>0, <2>1 DEF States
  <2> HIDE DEF bits
  <2>2. l \in Local /\ l.at = "bits" /\ l.todo = bits /\ l.r = SensorGet(n)
    BY <1>0, <2>1, <2>r DEF Local
  <2>4. l.r \in 0 .. Len(heap')
    BY <1>0, <2>1, <2>2
  <2> HIDE DEF l
  <2> QED BY <1>m, <2>1, <2>2, <2>3, <2>4
<1>4. CASE SensorDiscreteBit
  <2> DEFINE b == CHOOSE c \in e.todo : TRUE
             l == [e EXCEPT !.todo = @ \ {b}]
  <2>1. l \in Local /\ l.at = "bits" /\ l.todo \subseteq Bits /\ l.r = e.r
    BY <1>0, <1>4 DEF Local, SensorDiscreteBit
  <2>2. th' = [th EXCEPT !["event"] = l]
    BY <1>4 DEF SensorDiscreteBit
  <2>3. l.r \in 0 .. Len(heap')
    BY <1>0, <2>1
  <2> QED BY <1>m, <2>1, <2>2, <2>3
<1>5. CASE \E a \in {"fruget", "bind", "dummy", "fill", "dummy2", "fill2", "loop"} :
             th' = [th EXCEPT !["event"].at = a]
  BY <1>5, <1>g
<1> QED
  BY <1>1, <1>2, <1>3, <1>4, <1>5
     DEF Handlers, Answers, EntityUpdateHandler, OtherEntityUpdate, TypeEntityFruInfo, AskForFru,
         EntityInfoDummyPopulate, PopulateSensorForPoller, FruUpdateHandler, TraverseFruNodeTree,
         FillFruFields, OemRespHandler, SensorDiscreteDone, SensorReadingHandler

LEMMA OtherMoves ==
  ASSUME IInv, Grown, OtherStep
  PROVE  Moves \/ UNCHANGED th
<1>i. Types /\ Mapped /\ Locals /\ Pointed
  BY DEF IInv
<1>0. /\ \A t \in Threads : th[t] \in Local /\ LocalOK(t, th[t]) /\ th[t].r \in 0 .. Len(heap')
      /\ Len(heap) \in Nat /\ Len(heap') \in Nat /\ Len(heap) <= Len(heap')
  <2>1. th \in [Threads -> Local] /\ Len(heap) \in Nat /\ Len(heap') \in Nat
        /\ Len(heap) <= Len(heap')
    BY <1>i DEF Types, Local, Grown
  <2>2. \A t \in Threads : LocalOK(t, th[t])
    BY <1>i, <2>1, LocalsSplit
  <2>3. \A t \in Threads : th[t].r \in 0 .. Len(heap')
    BY <1>i, <2>1 DEF Pointed
  <2> QED BY <2>1, <2>2, <2>3
<1>m. ASSUME NEW t \in Threads, NEW l, LocalOK(t, l), l.r \in 0 .. Len(heap'),
             th' = [th EXCEPT ![t] = l]
      PROVE  Moves
  BY <1>m DEF Moves, LocalOK
<1>1. ASSUME NEW t \in Threads, SensorCreate(t) \/ SensorCreateAdd(t) PROVE Moves
  <2>1. PICK r \in 0 .. Len(heap'), a \in {"add", "init", Created(t)} :
          th' = [th EXCEPT ![t].r = r, ![t].at = a]
    <3>1. th[t].n \in Names
      BY <1>i, <1>1 DEF SensorCreate, SensorCreateAdd, Locals, Names
    <3>2. CASE SensorCreate(t)
      <4>1. SensorGet(th[t].n) \in 0 .. Len(heap')
        BY <1>i, <1>0, <3>1, SensorGetType
      <4> QED BY <3>2, <4>1 DEF SensorCreate
    <3>3. CASE SensorCreateAdd(t)
      <4>1. Insert(SensorKey(th[t].n), th[t].n)
        BY <3>3 DEF SensorCreateAdd, SensorAdd
      <4>2. Found(SensorKey(th[t].n)) \in 0 .. Len(heap')
        BY <1>i, <1>0, <3>1, <4>1, InsertMaps
      <4> QED BY <3>3, <4>2 DEF SensorCreateAdd
    <3> QED BY <1>1, <3>2, <3>3
  <2> DEFINE l == [th[t] EXCEPT !.r = r, !.at = a]
  <2>r. r \in Nat /\ a \in States /\ th[t].n \in Sensors
    BY <1>0, <1>1, <1>i DEF States, Created, SensorCreate, SensorCreateAdd, Locals
  <2>2. l \in Local /\ l.at = a /\ l.todo = th[t].todo /\ l.r = r /\ l.n = th[t].n
    BY <1>0, <2>r DEF Local
  <2>3. th' = [th EXCEPT ![t] = l]
    BY <2>1
  <2> HIDE DEF l
  <2>4. LocalOK(t, l)
    BY <1>0, <2>1, <2>2, <2>r DEF LocalOK, Created, Threads
  <2> QED BY <1>m, <2>1, <2>2, <2>3, <2>4
<1>2. ASSUME NEW t \in Threads, NEW a \in {"loop", "ask", "next"}, Go(t, a),
             a = "loop" \/ (t = "poller" /\ (a = "ask" => th[t].n \in Sensors))
      PROVE  Moves
  <2> DEFINE l == [th[t] EXCEPT !.at = a]
  <2>1. a \in States
    BY DEF States
  <2>2. l \in Local /\ l.at = a /\ l.todo = th[t].todo /\ l.r = th[t].r /\ l.n = th[t].n
    BY <1>0, <2>1 DEF Local
  <2>3. th' = [th EXCEPT ![t] = l]
    BY <1>2
  <2> HIDE DEF l
  <2>4. LocalOK(t, l)
    BY <1>0, <1>2, <2>2 DEF LocalOK
  <2> QED BY <1>0, <1>m, <2>2, <2>3, <2>4
<1>3. ASSUME NEW t \in Threads, SensorCreateInit(t) PROVE Moves
  <2>1. th[t].n \in Sensors /\ Go(t, Created(t))
    BY <1>i, <1>3 DEF SensorCreateInit, Locals
  <2>2. Created(t) = "loop" \/ (t = "poller" /\ Created(t) = "ask")
    BY DEF Created, Threads
  <2> QED BY <1>2, <2>1, <2>2
<1>4. CASE IterateSensorsAsk \/ OemPoller
  BY <1>2, <1>4 DEF IterateSensorsAsk, OemPoller, Threads
<1>5. CASE IterateEntities
  <2> DEFINE l == [th["poller"] EXCEPT !.todo = scene.has, !.at = "next"]
  <2>1. scene.has \subseteq Sensors /\ "poller" \in Threads
    BY <1>i, BmcAssumption DEF Types, Threads
  <2>2. th["poller"] \in Local /\ "next" \in States
    BY <1>0, <2>1 DEF States
  <2>3. l \in Local /\ l.at = "next" /\ l.todo = scene.has /\ l.r = th["poller"].r
    BY <2>1, <2>2 DEF Local
  <2>4. th' = [th EXCEPT !["poller"] = l]
    BY <1>5 DEF IterateEntities
  <2> HIDE DEF l
  <2>5. LocalOK("poller", l)
    BY <2>1, <2>3 DEF LocalOK
  <2> QED BY <1>0, <1>m, <2>1, <2>3, <2>4, <2>5
<1>6. CASE IterateSensors
  <2> DEFINE n == CHOOSE m \in th["poller"].todo : TRUE
             l == [th["poller"] EXCEPT !.n = n, !.todo = @ \ {n}, !.at = "create"]
  <2>1. "poller" \in Threads /\ th["poller"].todo \subseteq Sensors /\ n \in Sensors
    BY <1>i, <1>6 DEF IterateSensors, Threads, Locals
  <2>2. th' = [th EXCEPT !["poller"] = l]
    BY <1>6 DEF IterateSensors
  <2>3. th["poller"] \in Local /\ "create" \in States
    BY <1>0, <2>1 DEF States
  <2> HIDE DEF n
  <2>4. l \in Local /\ l.at = "create" /\ l.todo \subseteq Sensors /\ l.r = th["poller"].r /\ l.n = n
    BY <2>1, <2>3 DEF Local
  <2> HIDE DEF l
  <2>5. LocalOK("poller", l)
    BY <2>1, <2>4 DEF LocalOK
  <2> QED BY <1>0, <1>m, <2>1, <2>2, <2>4, <2>5
<1>7. CASE UNCHANGED th
  BY <1>7
<1> QED
  BY <1>1, <1>3, <1>4, <1>5, <1>6, <1>7
     DEF OtherStep, Poller, Creation, ThresholdEventHandler, PresenceHandler

\* The place of the event thread, the handlers and the requests after a step.
LEMMA ThreadSourced ==
  ASSUME IInv, ThreadStep
  PROVE  Sourced'
<1> DEFINE e == th["event"].at
           d == th'["event"].at
<1>i. Types /\ Mapped /\ Locals /\ Pointed /\ Sourced
  BY DEF IInv
<1>h. (Handlers \/ Answers => HeapStep(Sources)) /\ (OtherStep => HeapStep({}))
  BY EventHeap, OtherHeap
<1>t. th \in [Threads -> Local] /\ "event" \in Threads /\ "poller" \in Threads
  BY <1>i DEF Types, Local, Threads
<1>k. HeapStep({}) => \A v \in {"dummy", "fru"} : NoField(v) => NoField(v)'
  BY DEF HeapStep
<1>w. \A W : HeapStep(W) => \A v \in {"dummy", "fru"} \ W : NoField(v) => NoField(v)'
  BY DEF HeapStep
<1>n. \A n \in Sensors : n \notin {"entity", "fru", "frudone", "oem"}
  BY BmcAssumption
\* A thread step that leaves the place or goes to one without a duty.
<1>q. ASSUME HeapStep({}), UNCHANGED hooks, "oem" \in asked' => "oem" \in asked,
             d = e \/ d \notin {"fruget", "fruadd", "frutype", "dummy", "dummy2", "fill", "fill2"}
      PROVE  Sourced'
  BY <1>i, <1>k, <1>q DEF Sourced
<1>1. CASE Poller
  BY <1>1, <1>h, <1>n, <1>q, <1>t, <1>i
     DEF OtherStep, Poller, IterateEntities, IterateSensors, IterateSensorsAsk, OemPoller, Local, Locals
<1>2. ASSUME NEW t \in Threads, Creation(t) PROVE Sourced'
  <2>1. UNCHANGED hooks /\ ("oem" \in asked' => "oem" \in asked)
    BY <1>i, <1>2, <1>n DEF Creation, SensorCreate, SensorCreateAdd, SensorCreateInit, Locals
  <2>2. d = e \/ d \in {"add", "init", "loop", "ask"}
    BY <1>2, <1>t
       DEF Creation, SensorCreate, SensorCreateAdd, SensorCreateInit, Created, Threads, Local
  <2>3. HeapStep({})
    BY <1>2, <1>h DEF OtherStep
  <2> QED BY <1>q, <2>1, <2>2, <2>3
<1>3. CASE \/ \E n \in Threshold, v \in Values : ThresholdEventHandler(n, v)
           \/ \E there \in BOOLEAN : PresenceHandler(there)
  <2>1. HeapStep({})
    BY <1>3, <1>h DEF OtherStep
  <2>2. UNCHANGED <<hooks, asked, th>>
    BY <1>3 DEF ThresholdEventHandler, PresenceHandler
  <2> QED BY <1>q, <2>1, <2>2
<1>4. CASE EntityUpdateHandler
  <2>1. HeapStep({})
    BY <1>i, <1>4, SameSteps DEF EntityUpdateHandler
  <2>2. /\ e = "loop" /\ "entity" \notin hooks /\ hooks' = hooks \cup {"entity"} /\ UNCHANGED asked
        /\ d \in {"fruget", "bind"}
    BY <1>4, <1>t DEF EntityUpdateHandler, Local
  <2> QED BY <1>i, <1>k, <2>1, <2>2 DEF Sourced
<1>5. CASE \/ OtherEntityUpdate \/ PopulateSensorForPoller \/ SensorDiscreteDone
  <2>1. HeapStep({})
    BY <1>i, <1>5, SameSteps DEF OtherEntityUpdate, PopulateSensorForPoller, SensorDiscreteDone
  <2>2. d \in {"bind", "loop"} /\ UNCHANGED <<hooks, asked>>
    BY <1>5, <1>t DEF OtherEntityUpdate, PopulateSensorForPoller, SensorDiscreteDone, Local
  <2> QED BY <1>q, <2>1, <2>2
<1>6. CASE AddEntityFruInfo
  <2>1. HeapStep({})
    BY <1>i, <1>6, SameSteps DEF AddEntityFruInfo
  <2>2. e = "fruget" /\ d \in {"fruadd", "frutype"} /\ UNCHANGED <<hooks, asked>>
    BY <1>6, <1>t DEF AddEntityFruInfo, Local
  <2> QED BY <1>i, <1>k, <2>1, <2>2 DEF Sourced
<1>7. CASE AddEntityFruRecord
  <2>1. HeapStep({})
    <3>1. Insert(SensorKey(Info), Info) /\ Info \in Names
      BY <1>7 DEF AddEntityFruRecord, SensorAdd, Names
    <3> QED BY <1>i, <3>1, InsertSteps
  <2>2. e = "fruadd" /\ d = "frutype" /\ UNCHANGED <<hooks, asked>>
    BY <1>7, <1>t DEF AddEntityFruRecord, Local
  <2> QED BY <1>i, <1>k, <2>1, <2>2 DEF Sourced
<1>8. CASE TypeEntityFruInfo
  <2>1. e = "frutype" /\ d = (IF "fru" \in hooks THEN "fill" ELSE "dummy") /\ UNCHANGED <<hooks, asked>>
    BY <1>8, <1>t DEF TypeEntityFruInfo, Local
  <2>2. Sources = {}
    BY <2>1 DEF Sources, AskForFru, EntityInfoDummyPopulate, FillFruFields, OemRespHandler
  <2>3. HeapStep({})
    BY <1>8, <1>h, <2>2 DEF Handlers
  <2> QED BY <1>i, <1>k, <2>1, <2>3 DEF Sourced
<1>9. CASE AskForFru
  <2>1. e = "dummy" /\ UNCHANGED asked /\ "entity" \in hooks /\ "fru" \notin hooks
    BY <1>9, <1>i DEF AskForFru, Sourced
  <2>2. CASE d = "dummy2" /\ UNCHANGED hooks
    <3>1. HeapStep({"dummy"})
      BY <1>9, <1>h DEF Sources, Handlers
    <3>2. NoField("fru") => NoField("fru")'
      BY <1>w, <3>1
    <3> QED BY <1>i, <2>1, <2>2, <3>2 DEF Sourced
  <2>3. CASE UNCHANGED heap /\ hooks' = hooks \cup {"fru"} /\ d = "bind"
    <3>1. HeapStep({})
      BY <1>i, <1>9, <2>3, SameSteps DEF AskForFru
    <3> QED BY <1>i, <1>k, <2>1, <2>3, <3>1 DEF Sourced
  <2> QED BY <1>9, <1>t, <2>2, <2>3 DEF AskForFru, Local
<1>10. CASE EntityInfoDummyPopulate
  <2>1. e = "dummy2" /\ d = "bind" /\ UNCHANGED <<hooks, asked>> /\ "entity" \in hooks /\ "fru" \notin hooks
    BY <1>10, <1>i, <1>t DEF EntityInfoDummyPopulate, Sourced, Local
  <2>2. HeapStep({"dummy"})
    BY <1>10, <1>h DEF Sources, Handlers
  <2>3. NoField("fru") => NoField("fru")'
    BY <1>w, <2>2
  <2> QED BY <1>i, <2>1, <2>3 DEF Sourced
<1>11. CASE FruUpdateHandler
  <2>1. HeapStep({})
    BY <1>i, <1>11, SameSteps DEF FruUpdateHandler
  <2>2. "fru" \in hooks /\ d = "fruget" /\ UNCHANGED asked /\ hooks' = hooks \cup {"frudone"}
    BY <1>11, <1>t DEF FruUpdateHandler, Local
  <2> QED BY <1>i, <1>k, <2>1, <2>2 DEF Sourced
<1>12. CASE TraverseFruNodeTree
  <2>1. e = "fill" /\ d = "fill2" /\ UNCHANGED hooks /\ "fru" \in hooks
    BY <1>12, <1>i, <1>t DEF TraverseFruNodeTree, Sourced, Local
  <2>2. Sources = {}
    BY <2>1 DEF Sources, AskForFru, EntityInfoDummyPopulate, FillFruFields, OemRespHandler
  <2>3. HeapStep({})
    BY <1>12, <1>h, <2>2 DEF Handlers
  <2> QED BY <1>i, <1>k, <2>1, <2>3 DEF Sourced
<1>13. CASE FillFruFields
  <2>1. e = "fill2" /\ d = "loop" /\ UNCHANGED <<hooks, asked>> /\ "fru" \in hooks
    BY <1>13, <1>i, <1>t DEF FillFruFields, Sourced, Local
  <2>2. HeapStep({"fru"})
    <3>1. ~AskForFru /\ ~EntityInfoDummyPopulate
      BY <2>1 DEF AskForFru, EntityInfoDummyPopulate
    <3> QED BY <1>13, <1>h, <3>1 DEF Sources, Handlers
  <2>3. NoField("dummy") => NoField("dummy")'
    BY <1>w, <2>2
  <2> QED BY <1>i, <2>1, <2>3 DEF Sourced
<1>14. ASSUME NEW n \in Sensors, SensorUpdateHandler(n) PROVE Sourced'
  <2>1. HeapStep({})
    BY <1>i, <1>14, SameSteps DEF SensorUpdateHandler
  <2>2. d = "create" /\ UNCHANGED asked /\ hooks' = hooks \cup {n} /\ n \notin {"entity", "fru"}
    BY <1>14, <1>t, <1>n DEF SensorUpdateHandler, Local
  <2> QED BY <1>i, <1>k, <2>1, <2>2 DEF Sourced
<1>15. CASE OemRespHandler
  <2>1. "oem" \in asked /\ asked' = asked \ {"oem"} /\ UNCHANGED <<hooks, th>> /\ e = "loop"
    BY <1>15 DEF OemRespHandler
  <2>2. HeapStep({"fru"}) /\ "fru" \in hooks
    <3>1. ~AskForFru /\ ~EntityInfoDummyPopulate
      BY <2>1 DEF AskForFru, EntityInfoDummyPopulate
    <3> QED BY <1>15, <1>h, <1>i, <2>1, <3>1 DEF Sources, Sourced, Answers
  <2>3. NoField("dummy") => NoField("dummy")'
    BY <1>w, <2>2
  <2> QED BY <1>i, <2>1, <2>2, <2>3 DEF Sourced
<1>16. ASSUME NEW n \in Sensors,
              SensorDiscreteStates(n) \/ \E v \in Values : SensorReadingHandler(n, v),
              Answers
       PROVE  Sourced'
  <2>1. /\ UNCHANGED hooks /\ asked' = asked \ {n} /\ (d = e \/ d = "bits") /\ e = "loop"
    BY <1>16, <1>t DEF SensorDiscreteStates, SensorReadingHandler, Local
  <2>2. ~OemRespHandler
    BY <2>1, <1>n DEF OemRespHandler
  <2>3. Sources = {}
    BY <2>1, <2>2 DEF Sources, AskForFru, EntityInfoDummyPopulate, FillFruFields
  <2>4. HeapStep({})
    BY <1>16, <1>h, <2>3
  <2> QED BY <1>q, <2>1, <2>4
<1>17. CASE SensorDiscreteBit
  <2>1. UNCHANGED <<hooks, asked>> /\ d = e /\ e = "bits"
    BY <1>17, <1>t DEF SensorDiscreteBit, Local
  <2>2. Sources = {}
    BY <2>1 DEF Sources, AskForFru, EntityInfoDummyPopulate, FillFruFields, OemRespHandler
  <2>3. HeapStep({})
    BY <1>17, <1>h, <2>2 DEF Answers
  <2> QED BY <1>q, <2>1, <2>3
<1> QED
  BY <1>1, <1>2, <1>3, <1>4, <1>5, <1>6, <1>7, <1>8, <1>9, <1>10, <1>11, <1>12, <1>13, <1>14,
     <1>15, <1>16, <1>17
     DEF ThreadStep, OtherStep, Handlers, Answers, Sensors

LEMMA ThreadStepKeeps ==
  ASSUME IInv, ThreadStep
  PROVE  IInv'
<1>i. Types /\ Mapped /\ Locals /\ AtStart /\ Pointed /\ Registered
  BY DEF IInv
<1>h. Mapped' /\ Grown
  BY EventHeap, OtherHeap DEF ThreadStep, HeapStep
<1>u. UNCHANGED <<scene, devs, main, bmc>>
  BY DEF ThreadStep, OtherStep, Handlers, Answers, Poller, Creation, SensorCreate, SensorCreateAdd,
         SensorCreateInit, EntityUpdateHandler, OtherEntityUpdate, AddEntityFruInfo,
         AddEntityFruRecord, TypeEntityFruInfo, AskForFru, EntityInfoDummyPopulate,
         PopulateSensorForPoller, SensorUpdateHandler, FruUpdateHandler, TraverseFruNodeTree,
         FillFruFields, OemRespHandler, SensorDiscreteStates, SensorDiscreteBit,
         SensorDiscreteDone, SensorReadingHandler, ThresholdEventHandler, PresenceHandler,
         IterateEntities, IterateSensors, IterateSensorsAsk, OemPoller
<1>1. /\ th' \in [Threads -> Local] /\ Locals'
      /\ \A t \in Threads : th'[t].r \in 0 .. Len(heap')
  <2>1. CASE Moves
    BY <1>i, <1>h, <2>1, ThreadMoves DEF Moves
  <2>2. CASE UNCHANGED th
    <3>1. /\ th \in [Threads -> Local]
          /\ Len(heap) \in Nat /\ Len(heap') \in Nat /\ Len(heap) <= Len(heap')
      BY <1>i, <1>h DEF Types, Local, Grown
    <3>2. Locals'
      BY <1>i, <2>2 DEF Locals
    <3>3. \A t \in Threads : th'[t].r \in 0 .. Len(heap')
      BY <1>i, <2>2, <3>1 DEF Pointed
    <3> QED BY <2>2, <3>1, <3>2, <3>3
  <2> QED BY <1>h, <2>1, <2>2, EventMoves, OtherMoves DEF ThreadStep
<1>2. /\ sensor_loc' \in [ToSet(PollerOf) -> Nat]
      /\ \A p \in ToSet(PollerOf) : sensor_loc'[p] # Null =>
           sensor_loc'[p] \in 1 .. Len(heap') /\ heap'[sensor_loc'[p]].name = p
  <2>0. \A r \in Nat, p \in ToSet(PollerOf) :
          PointsTo(r, p) => (r # Null => r \in 1 .. Len(heap') /\ heap'[r].name = p)
    BY <1>i, <1>h, PointsKept
  <2>k. \A p \in ToSet(PollerOf) : sensor_loc[p] \in Nat /\ PointsTo(sensor_loc[p], p)
    BY <1>i DEF Types, Pointed
  <2>1. CASE UNCHANGED sensor_loc
    BY <1>i, <2>0, <2>k, <2>1 DEF Types
  <2>2. CASE PopulateSensorForPoller
    <3>1. \A p \in ToSet(PollerOf) : SensorGetByName(p) \in Nat /\ PointsTo(SensorGetByName(p), p)
      BY <1>i, ByNameType DEF Types
    <3>2. PICK P : \/ UNCHANGED sensor_loc
                   \/ sensor_loc' = [p \in ToSet(PollerOf) |->
                                       IF p \in P THEN SensorGetByName(p) ELSE sensor_loc[p]]
      <4> DEFINE Known(i) == \A j \in 1..i : SensorGetByName(PollerOf[j]) # Null
                 P == {p \in ToSet(PollerOf) :
                         \E i \in 1..Len(PollerOf) : PollerOf[i] = p /\ Known(i)}
      <4>1. \/ UNCHANGED sensor_loc
            \/ sensor_loc' = [p \in ToSet(PollerOf) |->
                  IF \E i \in 1..Len(PollerOf) : PollerOf[i] = p /\ Known(i)
                  THEN SensorGetByName(p) ELSE sensor_loc[p]]
        BY <2>2 DEF PopulateSensorForPoller
      <4>2. \A p \in ToSet(PollerOf) :
              p \in P <=> \E i \in 1..Len(PollerOf) : PollerOf[i] = p /\ Known(i)
        OBVIOUS
      <4> HIDE DEF P, Known
      <4>3. \/ UNCHANGED sensor_loc
            \/ sensor_loc' = [p \in ToSet(PollerOf) |->
                                IF p \in P THEN SensorGetByName(p) ELSE sensor_loc[p]]
        BY <4>1, <4>2
      <4> QED BY <4>3
    <3>3. CASE UNCHANGED sensor_loc
      BY <2>1, <3>3
    <3>4. CASE sensor_loc' = [p \in ToSet(PollerOf) |->
                                IF p \in P THEN SensorGetByName(p) ELSE sensor_loc[p]]
      <4>1. \A p \in ToSet(PollerOf) :
              \/ sensor_loc'[p] = SensorGetByName(p)
              \/ sensor_loc'[p] = sensor_loc[p]
        BY <3>4
      <4>2. sensor_loc' \in [ToSet(PollerOf) -> Nat]
        BY <2>k, <3>1, <3>4
      <4> QED BY <2>0, <2>k, <3>1, <4>1, <4>2
    <3> QED BY <3>2, <3>3, <3>4
  <2> QED
    BY <2>1, <2>2
       DEF ThreadStep, OtherStep, Handlers, Answers, Poller, Creation, SensorCreate,
         SensorCreateAdd, SensorCreateInit, EntityUpdateHandler, OtherEntityUpdate,
         AddEntityFruInfo, AddEntityFruRecord, TypeEntityFruInfo, AskForFru,
         EntityInfoDummyPopulate, SensorUpdateHandler, FruUpdateHandler, TraverseFruNodeTree,
         FillFruFields, OemRespHandler, SensorDiscreteStates, SensorDiscreteBit,
         SensorDiscreteDone, SensorReadingHandler, ThresholdEventHandler, PresenceHandler,
         IterateEntities, IterateSensors, IterateSensorsAsk, OemPoller
<1>3. entity' \in {None, "absent", "present"} /\ asked' \subseteq Sensors \cup {"oem"}
  <2>1. \A t \in Threads : th[t].at \in {"init", "ask"} => th[t].n \in Sensors
    BY <1>i DEF Locals
  <2>2. entity' \in {None, "absent", "present"}
    BY <1>i
       DEF Types, ThreadStep, OtherStep, Handlers, Answers, Poller, Creation, SensorCreate,
         SensorCreateAdd, SensorCreateInit, EntityUpdateHandler, OtherEntityUpdate, EntityAdd,
         AddEntityFruInfo, AddEntityFruRecord, TypeEntityFruInfo, AskForFru, Threads,
         EntityInfoDummyPopulate, PopulateSensorForPoller, SensorUpdateHandler, FruUpdateHandler,
         TraverseFruNodeTree, FillFruFields, OemRespHandler, SensorDiscreteStates,
         SensorDiscreteBit, SensorDiscreteDone, SensorReadingHandler, ThresholdEventHandler,
         PresenceHandler, IterateEntities, IterateSensors, IterateSensorsAsk, OemPoller
  <2>3. asked' \subseteq Sensors \cup {"oem"}
    <3>0. /\ asked \subseteq Sensors \cup {"oem"}
          /\ \A t \in {"event", "poller"} : th[t].at \in {"init", "ask"} => th[t].n \in Sensors
      BY <1>i, <2>1 DEF Types, Threads
    <3>1. CASE Handlers
      BY ONLY <3>0, <3>1 DEF Handlers, EntityUpdateHandler, OtherEntityUpdate, AddEntityFruInfo,
         AddEntityFruRecord, TypeEntityFruInfo, AskForFru, EntityInfoDummyPopulate,
         PopulateSensorForPoller, FruUpdateHandler, TraverseFruNodeTree, FillFruFields, SensorUpdateHandler
    <3>2. CASE Answers
      BY ONLY <3>0, <3>2 DEF Answers, OemRespHandler, SensorDiscreteBit, SensorDiscreteDone,
         SensorDiscreteStates, SensorReadingHandler
    <3>3. CASE Poller
      BY ONLY <3>0, <3>3 DEF Poller, IterateEntities, IterateSensors, IterateSensorsAsk, OemPoller, At
    <3>4. CASE \E t \in Threads : Creation(t)
      BY ONLY <3>0, <3>4 DEF Threads, Creation, SensorCreate, SensorCreateAdd, SensorCreateInit, At
    <3>5. CASE \/ \E n \in Threshold, v \in Values : ThresholdEventHandler(n, v)
               \/ \E there \in BOOLEAN : PresenceHandler(there)
      BY ONLY <3>0, <3>5 DEF ThresholdEventHandler, PresenceHandler
    <3> QED
      BY <3>1, <3>2, <3>3, <3>4, <3>5 DEF ThreadStep, OtherStep
  <2> QED
    BY <2>2, <2>3
<1>4. Types'
  BY <1>i, <1>h, <1>u, <1>1, <1>2, <1>3 DEF Types, Grown, Local
<1>5. AtStart'
  <2>1. \E t \in Threads : th[t].at # "off"
    BY DEF ThreadStep, OtherStep, Handlers, Answers, Poller, Creation, SensorCreate,
         SensorCreateAdd, SensorCreateInit, EntityUpdateHandler, OtherEntityUpdate,
         AddEntityFruInfo, AddEntityFruRecord, TypeEntityFruInfo, AskForFru, Threads,
         EntityInfoDummyPopulate, PopulateSensorForPoller, SensorUpdateHandler, FruUpdateHandler,
         TraverseFruNodeTree, FillFruFields, OemRespHandler, SensorDiscreteStates,
         SensorDiscreteBit, SensorDiscreteDone, SensorReadingHandler, ThresholdEventHandler,
         PresenceHandler, IterateEntities, IterateSensors, IterateSensorsAsk, OemPoller
  <2> QED BY <1>i, <1>u, <2>1 DEF AtStart
<1>6. Pointed'
  <2>1. \A d \in ToSet(Devices) :
          /\ devs[d].data # Null =>
               devs[d].data \in 1 .. Len(heap') /\ heap'[devs[d].data].name = DataId[d]
          /\ devs[d].status # Null =>
               devs[d].status \in 1 .. Len(heap') /\ heap'[devs[d].status].name = StatusId[d]
    BY <1>i, <1>h, PointsKept DEF Pointed
  <2> QED BY <1>u, <1>1, <1>2, <2>1 DEF Pointed, PointsTo
<1>7. Registered'
  <2>1. ASSUME Info \in ToSet(Devices), Complete PROVE Complete'
    <3>1. devs[Info].data \in 1 .. Len(heap)
      BY <1>i, <2>1 DEF Pointed, PointsTo, Complete
    <3> QED BY <1>h, <1>u, <2>1, <3>1 DEF Complete, Grown
  <2>2. \/ Listed(scene) \in Seq(ToSet(Devices)) /\ Info \in ToSet(Devices)
        \/ \A i \in 1 .. Len(Listed(scene)) : Listed(scene)[i] # Info
    <3>1. Listed(scene) \in Seq(ToSet(Devices))
      BY <1>i, BmcAssumption DEF Types
    <3> QED BY <3>1
  <2>3. main.at = "copy" => Info \in ToSet(Devices) /\ Complete'
    BY <1>i, <2>1 DEF Registered
  <2> QED BY <1>i, <1>u, <2>1, <2>2, <2>3 DEF Registered, Here
<1> QED BY <1>h, <1>1, <1>4, <1>5, <1>6, <1>7, ThreadSourced DEF IInv

-----------------------------------------------------------------------------
(* The theorems.                                                           *)

\* The two threads start with the maps empty.
LEMMA StartStep ==
  ASSUME IInv, DeviceDriverInit
  PROVE  IInv'
<1>i. Types /\ Mapped /\ Locals /\ AtStart /\ Pointed /\ Registered /\ Sourced
  BY DEF IInv
<1>0. main \in MainType /\ th \in [Threads -> Local]
  BY <1>i DEF Types, Local
<1>1. /\ heap = <<>> /\ heap' = <<>> /\ DOMAIN sensor_map = {} /\ sensor_map' = <<>>
      /\ main'.at = "head" /\ main'.dev = main.dev /\ main'.out = main.out /\ entity' = None
      /\ UNCHANGED <<scene, devs, sensor_loc, hooks, asked, bmc>>
  BY <1>i, <1>0 DEF DeviceDriverInit, AtStart, MainType
<1>2. \A t \in Threads : /\ th'[t].at = "loop" /\ th'[t].n = th[t].n
                         /\ th'[t].r = th[t].r /\ th'[t].todo = th[t].todo
  BY <1>0 DEF DeviceDriverInit, Local
<1>3. main' \in MainType
  BY <1>0 DEF DeviceDriverInit, MainType, MainAt
<1>4. th' \in [Threads -> Local]
  <2>1. "loop" \in States
    BY DEF States
  <2>2. \A t \in Threads : [th[t] EXCEPT !.at = "loop"] \in Local
    BY <1>0, <2>1 DEF Local
  <2> QED BY <2>2 DEF DeviceDriverInit
<1>5. Types'
  <2>1. heap' \in Seq(Record)
    BY <1>1
  <2> QED BY <1>i, <1>1, <1>3, <1>4, <2>1 DEF Types, Local
<1>6. Locals'
  BY <1>i, <1>2 DEF Locals, Threads
<1>7. AtStart'
  BY <1>1 DEF AtStart
<1>8. Mapped'
  <2>1. DOMAIN sensor_map' = {} /\ Len(heap') = 0
    BY <1>1
  <2> QED BY <2>1 DEF Mapped
<1>9. Pointed'
  BY <1>i, <1>1, <1>2 DEF Pointed, PointsTo
<1>10. Sourced'
  BY <1>i, <1>1, <1>2 DEF Sourced, NoField, Threads
<1>11. Registered'
  <2>1. main.at = "start" /\ (Complete => Complete')
    BY <1>1 DEF DeviceDriverInit, Complete
  <2> QED BY <1>i, <1>1, <2>1 DEF Registered, Here
<1> QED BY <1>5, <1>6, <1>7, <1>8, <1>9, <1>10, <1>11 DEF IInv

\* Nothing that the BMC or the link does touches the records.
LEMMA OutsideKeeps ==
  ASSUME IInv,
         UNCHANGED <<scene, sensor_map, heap, entity, devs, sensor_loc, main, th, hooks, asked, told>>,
         bmc' \in [Discrete -> SUBSET Bits]
  PROVE  IInv'
BY DEF IInv, Types, Locals, AtStart, Mapped, Pointed, PointsTo, Sourced, NoField, Registered,
       Complete, Here

LEMMA Inductive == Spec => []IInv
<1>1. Init => IInv
  <2> SUFFICES ASSUME Init PROVE IInv
    OBVIOUS
  <2>1. /\ heap = <<>> /\ sensor_map = <<>> /\ Len(heap) = 0 /\ DOMAIN sensor_map = {}
        /\ main = [at |-> "start", dev |-> 1, out |-> None]
        /\ th = [t \in Threads |-> [at |-> "off", n |-> None, r |-> Null, todo |-> {}]]
        /\ devs = [d \in ToSet(Devices) |-> [data |-> Null, status |-> Null]]
        /\ sensor_loc = [p \in ToSet(PollerOf) |-> Null]
        /\ scene \in Scenes /\ hooks = {} /\ asked = {} /\ entity = None /\ told = None
        /\ bmc = [n \in Discrete |-> {}]
    BY DEF Init
  <2>2. Types
    <3>1. heap \in Seq(Record) /\ entity \in {None, "absent", "present"}
      BY <2>1
    <3>2. main \in MainType
      BY <2>1 DEF MainType, MainAt, Outcome
    <3>3. th \in [Threads -> [at : States, n : Sensors \cup {None}, r : Nat,
                              todo : SUBSET (Bits \cup Sensors)]]
      BY <2>1 DEF States, Null
    <3>4. /\ devs \in [ToSet(Devices) -> [data : Nat, status : Nat]]
          /\ sensor_loc \in [ToSet(PollerOf) -> Nat] /\ bmc \in [Discrete -> SUBSET Bits]
      BY <2>1 DEF Null
    <3> QED BY <2>1, <3>1, <3>2, <3>3, <3>4 DEF Types
  <2>3. Locals /\ AtStart
    BY <2>1 DEF Locals, AtStart, Threads
  <2>4. Mapped /\ Pointed
    BY <2>1 DEF Mapped, Pointed, PointsTo, Null
  <2>5. Sourced
    BY <2>1 DEF Sourced, NoField, Threads
  <2>6. Registered
    <3>1. Listed(scene) \in Seq(ToSet(Devices)) /\ Listed(scene) # <<>>
      BY <2>1, BmcAssumption
    <3>2. 1 \in 1 .. Len(Listed(scene))
      BY <3>1
    <3> QED BY <2>1, <3>1, <3>2 DEF Registered, None
  <2> QED BY <2>2, <2>3, <2>4, <2>5, <2>6 DEF IInv
<1>2. IInv /\ [Next]_vars => IInv'
  <2> SUFFICES ASSUME IInv, [Next]_vars PROVE IInv'
    OBVIOUS
  <2>0. bmc \in [Discrete -> SUBSET Bits]
    BY DEF IInv, Types
  <2>1. CASE DeviceDriverInit
    BY <2>1, StartStep
  <2>2. CASE Start \/ Reads
    BY <2>2, MainStep
  <2>3. CASE ThreadStep
    BY <2>3, ThreadStepKeeps
  <2>4. ASSUME NEW n \in Discrete, NEW bits \in SUBSET Bits, BmcChanges(n, bits) PROVE IInv'
    <3>1. bmc' \in [Discrete -> SUBSET Bits]
      BY <2>0, <2>4 DEF BmcChanges
    <3> QED BY <2>4, <3>1, OutsideKeeps DEF BmcChanges
  <2>5. CASE LinkChanges
    BY <2>0, <2>5, OutsideKeeps DEF LinkChanges
  <2>6. CASE UNCHANGED vars
    BY <2>0, <2>6, OutsideKeeps DEF vars
  <2> QED
    BY <2>1, <2>2, <2>3, <2>4, <2>5, <2>6
       DEF Next, Startup, Calls, Start, Reads, ThreadStep, OtherStep
<1> QED BY <1>1, <1>2, PTL DEF Spec

\* RecordsWhole for every entity and configuration: although start-up, events,
\* poller and readers find, make and fill the records in sections of their own
\* (sdi_bmc_sensor_create, sdi_bmc_add_entity_fru_info, the resources' init),
\* a sensor has one record, its fields one source, and what is served is
\* complete.
THEOREM RecordSafety == Spec => []RecordsWhole
<1>1. IInv => RecordsWhole
  <2> SUFFICES ASSUME IInv PROVE RecordsWhole
    OBVIOUS
  <2>i. Types /\ Mapped /\ Pointed /\ Registered /\ Sourced
    BY DEF IInv
  <2>h. heap \in Seq(Record) /\ Len(heap) \in Nat
    BY <2>i DEF Types
  <2>1. TypeOK
    <3>1. \A k \in DOMAIN sensor_map : sensor_map[k] \in Ids \ {Null}
      BY <2>i, <2>h DEF Mapped, Ids, Null
    <3>2. \A i \in 1 .. Len(heap) :
            /\ heap[i].name \in Names /\ heap[i].state \subseteq Bits
            /\ heap[i].type \in {None, "discrete", "threshold", "info"}
            /\ {heap[i].maker, heap[i].supply} \subseteq {None, "dummy", "fru"}
      <4> SUFFICES ASSUME NEW i \in 1 .. Len(heap)
                   PROVE  /\ heap[i].name \in Names /\ heap[i].state \subseteq Bits
                          /\ heap[i].type \in {None, "discrete", "threshold", "info"}
                          /\ {heap[i].maker, heap[i].supply} \subseteq {None, "dummy", "fru"}
        OBVIOUS
      <4>1. heap[i] \in Record
        BY <2>h
      <4>2. heap[i].maker \in {None, "dummy", "fru"} /\ heap[i].supply \in {None, "dummy", "fru"}
        BY <4>1 DEF Record
      <4>3. /\ heap[i].name \in Names /\ heap[i].state \in SUBSET Bits
            /\ heap[i].type \in {None, "discrete", "threshold", "info"}
        BY <4>1 DEF Record
      <4> QED BY <4>2, <4>3
    <3>3. \A d \in ToSet(Devices) : devs[d].data \in Ids /\ devs[d].status \in Ids
      <4> SUFFICES ASSUME NEW d \in ToSet(Devices)
                   PROVE  devs[d].data \in Ids /\ devs[d].status \in Ids
        OBVIOUS
      <4>1. /\ devs[d].data # Null => devs[d].data \in 1 .. Len(heap)
            /\ devs[d].status # Null => devs[d].status \in 1 .. Len(heap)
        BY <2>i DEF Pointed, PointsTo
      <4> QED BY <2>h, <4>1 DEF Ids, Null
    <3>4. \A t \in Threads : th[t].at \in States /\ th[t].r \in Ids
      BY <2>i DEF Types, Pointed, Ids
    <3>5. main.out \in Outcome /\ entity \in {None, "absent", "present"}
          /\ asked \subseteq Sensors \cup {"oem"} /\ DOMAIN devs = ToSet(Devices)
      BY <2>i DEF Types, MainType
    <3> QED BY <3>1, <3>2, <3>3, <3>4, <3>5 DEF TypeOK, Outcome
  <2>2. OneRecord
    BY <2>i DEF OneRecord, Mapped, Pointed, PointsTo
  <2>3. OneSource
    <3>1. NoField("dummy") \/ NoField("fru")
      BY <2>i DEF Sourced
    <3> QED BY <3>1 DEF OneSource, NoField
  <2>4. InfoHasFans
    BY <2>i DEF Registered, InfoHasFans
  <2> QED BY <2>1, <2>2, <2>3, <2>4 DEF RecordsWhole
<1> QED BY <1>1, Inductive, PTL

\* PresenceKept for every entity: the event that reports a presence, the first
\* report of the entity and the round of the poller each write the entity's
\* record, and the start of the threads empties it; the last report stands.
THEOREM PresenceSafety == Spec => []PresenceKept
<1>1. Init => PresenceKept
  BY DEF Init, PresenceKept
<1>2. IInv /\ PresenceKept /\ [Next]_vars => PresenceKept'
  <2> SUFFICES ASSUME IInv, PresenceKept, [Next]_vars PROVE PresenceKept'
    OBVIOUS
  <2>1. CASE DeviceDriverInit
    BY <2>1 DEF DeviceDriverInit, IInv, AtStart, PresenceKept
  <2>2. ASSUME UNCHANGED told, entity # None => UNCHANGED entity PROVE PresenceKept'
    BY <2>2 DEF PresenceKept
  <2>3. CASE \E there \in BOOLEAN : PresenceHandler(there)
    BY <2>3 DEF PresenceHandler, PresenceKept
  <2>4. CASE EntityUpdateHandler \/ IterateEntities
    BY <2>2, <2>4 DEF EntityUpdateHandler, IterateEntities, EntityAdd
  <2>5. CASE UNCHANGED <<told, entity>>
    BY <2>2, <2>5
  <2>6. CASE Start \/ Reads
    BY <2>5, <2>6, MainSteps DEF MainKept, IInv
  <2> QED
    BY <2>1, <2>3, <2>4, <2>5, <2>6
       DEF Next, vars, Startup, Calls, Start, Reads, Handlers, Answers, Poller, Creation,
         SensorCreate, SensorCreateAdd, SensorCreateInit, OtherEntityUpdate, AddEntityFruInfo,
         AddEntityFruRecord, TypeEntityFruInfo, AskForFru, EntityInfoDummyPopulate,
         PopulateSensorForPoller, SensorUpdateHandler, FruUpdateHandler, TraverseFruNodeTree,
         FillFruFields, OemRespHandler, SensorDiscreteStates, SensorDiscreteBit,
         SensorDiscreteDone, SensorReadingHandler, ThresholdEventHandler, IterateSensors,
         IterateSensorsAsk, OemPoller, BmcChanges, LinkChanges
<1> QED BY <1>1, <1>2, Inductive, PTL DEF Spec
=============================================================================
