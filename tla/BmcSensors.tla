----------------------------- MODULE BmcSensors -----------------------------
(***************************************************************************)
(* The BMC device: the database of sensors and entities, the event thread  *)
(* that runs the IPMI callbacks, the poller thread, the main thread that   *)
(* registers the resources and then serves the readers of fan, temperature *)
(* and entity information.  Every section of the database lock is a step;  *)
(* what a thread does with a record it got, outside the lock, is a step of *)
(* its own.                                                                *)
(***************************************************************************)
EXTENDS Naturals, Sequences, FiniteSets, SequencesExt

CONSTANTS Discrete,   \* names of the discrete sensors of the entity
          Threshold,  \* names of its threshold sensors
          Info,       \* name of its FRU record, "Entity_info.<id>.<instance>"
          Devices,    \* the resources of the device list, in order
          DataId, StatusId,   \* sensor names each of them is configured with
          PollerOf,   \* the sensors OEM pollers are configured with, in order
          Bits,       \* bits of a discrete state
          PollBit, StatusBit, \* sensor_req_bit, status_bit
          Values,     \* what a threshold sensor can measure
          Scenes      \* an entity: whether it has a FRU, which sensors are its
                      \* own, and the configuration: whether the FRU is listed,
                      \* is a dummy, has OEM commands

Null == 0
None == "none"
Sensors == Discrete \cup Threshold
Names == Sensors \cup {Info}
Threads == {"event", "poller"}
Listed(s) == SelectSeq(Devices, LAMBDA d : d # Info \/ s.listed)

ASSUME BmcAssumption ==
  /\ None \notin Sensors /\ {"entity", "fru", "frudone", "oem"} \cap Sensors = {}
  /\ DataId[Info] = Info
  /\ \A s \in Scenes : /\ s.has \subseteq Sensors /\ s.dummy \in BOOLEAN
                       /\ Listed(s) \in Seq(ToSet(Devices)) /\ Listed(s) # <<>>

VARIABLES scene,      \* the configuration
          sensor_map, \* key -> record
          heap,       \* the records, never freed while the threads run
          entity,     \* the entity's record in entity_map
          devs,       \* data_sdr and status_sdr of each resource
          sensor_loc, \* where each poller looks: a record, Null: its private one
          head,       \* oem_poller_head of sdi_bmc.c is set
          main, th,   \* where the main thread and the two others are
          hooks,      \* IPMI update handlers registered so far
          asked,      \* requests the BMC has not answered yet
          bmc,        \* what the BMC measures; told: the presence it reported
          told,
          commands,   \* OEM commands of the pollers that were sent
          link,       \* requests to the BMC are answered without an error
          died        \* a NULL pointer was followed
vars == <<scene, sensor_map, heap, entity, devs, sensor_loc, head, main, th,
          hooks, asked, bmc, told, commands, link, died>>

Has(n) == n \in scene.has
Blank(n) == [name |-> n, type |-> None, state |-> {}, data |-> 0,
             valid |-> FALSE, maker |-> None, supply |-> None,
             fans |-> FALSE, dummy |-> FALSE]

(*********************************** keys **********************************)
\* A key names the entity and the sensor.  From the name alone the entity is
\* known only when the name carries it after a dot.
SensorKey(n) == <<"entity", n>>
SensorKeyBare(n) == <<"", n>>
SensorKeyByName(n) == <<IF n = Info THEN "entity" ELSE "", n>>

(************************* sections of the database lock *******************)
SensorGet(n) == IF SensorKey(n) \in DOMAIN sensor_map
                THEN sensor_map[SensorKey(n)] ELSE Null
SensorGetByName(n) ==
  LET hit == {k \in DOMAIN sensor_map : heap[sensor_map[k]].name = n}
  IN IF hit = {} THEN Null ELSE sensor_map[CHOOSE k \in hit : TRUE]
Found(key) == IF key \in DOMAIN sensor_map THEN sensor_map[key] ELSE Len(heap) + 1
Insert(key, n) ==
  IF key \in DOMAIN sensor_map THEN UNCHANGED <<sensor_map, heap>>
  ELSE /\ heap' = Append(heap, Blank(n))
       /\ sensor_map' = [k \in DOMAIN sensor_map \cup {key} |->
                           IF k = key THEN Len(heap) + 1 ELSE sensor_map[k]]
SensorAdd(n) == Insert(SensorKey(n), n)
SensorAddByName(n) == Insert(SensorKeyByName(n), n)
EntityAddFresh == entity' = "absent"
EntityAdd == entity' = IF entity = None THEN "absent" ELSE entity

Init ==
  /\ scene \in Scenes
  /\ sensor_map = <<>> /\ heap = <<>> /\ entity = None
  /\ devs = [d \in ToSet(Devices) |-> [data |-> Null, status |-> Null]]
  /\ sensor_loc = [p \in ToSet(PollerOf) |-> Null]
  /\ head = FALSE /\ hooks = {} /\ asked = {}
  /\ main = [at |-> "start", dev |-> 1, out |-> None]
  /\ th = [t \in Threads |-> [at |-> "off", n |-> None, r |-> Null, todo |-> {}]]
  /\ bmc = [n \in Discrete |-> {}] /\ told = None
  /\ commands = FALSE /\ link = TRUE /\ died = FALSE

Set(r, f, v) == heap' = [heap EXCEPT ![r][f] = v]
DbSame == UNCHANGED <<sensor_map, heap, entity>>
MainOnly == UNCHANGED <<scene, entity, sensor_loc, th, hooks, asked, bmc, told,
                        commands, link, died>>
ThreadOnly == UNCHANGED <<scene, devs, main, bmc, head, link>>

(******************************** main thread ******************************)
Here == Listed(scene)[main.dev]
NextDevice == main' = IF main.dev = Len(Listed(scene))
                      THEN [main EXCEPT !.at = "ready"]
                      ELSE [main EXCEPT !.at = "data", !.dev = @ + 1]

\* The maps are emptied and the threads start; only then is the list of
\* pollers made known to them.
DeviceDriverInit ==
  /\ ~died /\ main.at = "start"
  /\ main' = [main EXCEPT !.at = "head"]
  /\ sensor_map' = <<>> /\ heap' = <<>> /\ entity' = None
  /\ th' = [t \in Threads |-> [th[t] EXCEPT !.at = "loop"]]
  /\ UNCHANGED <<scene, devs, sensor_loc, head, hooks, asked, bmc, told, commands, link, died>>
SetPollerHead ==
  /\ ~died /\ main.at = "head"
  /\ head' = TRUE /\ main' = [main EXCEPT !.at = "data"]
  /\ MainOnly /\ UNCHANGED <<sensor_map, heap, devs>>

\* The registrations of a temperature, a fan and an entity information.
RegisterData ==
  /\ ~died /\ main.at = "data"
  /\ LET r == SensorGetByName(DataId[Here])
     IN /\ devs' = [devs EXCEPT ![Here].data = r]
        /\ IF Here = Info
           THEN main' = [main EXCEPT !.at = IF r = Null THEN "add" ELSE "info"]
           ELSE IF StatusId[Here] # None THEN main' = [main EXCEPT !.at = "status"]
           ELSE NextDevice
  /\ MainOnly /\ UNCHANGED <<sensor_map, heap, head>>
FanResRegister ==
  /\ ~died /\ main.at = "status"
  /\ devs' = [devs EXCEPT ![Here].status = SensorGetByName(StatusId[Here])]
  /\ NextDevice /\ MainOnly /\ UNCHANGED <<sensor_map, heap, head>>
EntityInfoResAdd ==
  /\ ~died /\ main.at = "add"
  /\ SensorAddByName(Info)
  /\ devs' = [devs EXCEPT ![Info].data = Found(SensorKeyByName(Info))]
  /\ main' = [main EXCEPT !.at = "info"] /\ MainOnly /\ UNCHANGED head
EntityInfoResRegister ==
  /\ ~died /\ main.at = "info"
  /\ heap' = [heap EXCEPT ![devs[Info].data].fans = TRUE,
                          ![devs[Info].data].dummy = scene.dummy]
  /\ NextDevice /\ MainOnly /\ UNCHANGED <<sensor_map, devs, head>>

\* A reader looks a record up that the registration did not find.
Lookup(d, f, n) == IF devs[d][f] # Null THEN devs[d][f] ELSE SensorGetByName(n)
Served(d, f, n) == /\ ~died /\ main.at = "ready" /\ main.out = None
                   /\ devs' = [devs EXCEPT ![d][f] = Lookup(d, f, n)]
                   /\ MainOnly /\ UNCHANGED <<sensor_map, heap, head>>
Answer(o) == main' = [main EXCEPT !.out = o, !.at = "ready"]
TemperatureGet(d) ==
  /\ d # Info /\ Served(d, "data", DataId[d])
  /\ LET r == Lookup(d, "data", DataId[d])
     IN IF r = Null THEN Answer("EINVAL")
        ELSE Answer(IF heap[r].data = 0 THEN "unset" ELSE "value")
\* A fan without a status sensor, or whose sensor is not there, has no fault.
FanStatusGet(d) ==
  /\ d # Info /\ StatusId[d] # None /\ Served(d, "status", StatusId[d])
  /\ LET r == Lookup(d, "status", StatusId[d])
     IN Answer(IF r = Null THEN "good"
               ELSE IF StatusBit \in heap[r].state THEN "fault" ELSE "good")
DataGet ==
  /\ Info \in ToSet(Listed(scene)) /\ Served(Info, "data", Info)
  /\ LET r == Lookup(Info, "data", Info)
     IN IF r = Null \/ (r # Null /\ ~heap[r].valid) THEN Answer("EINVAL")
        ELSE main' = [main EXCEPT !.at = "copy"]
\* The rest of the record is copied while the event thread may fill it.
DataGetRest ==
  /\ ~died /\ main.at = "copy"
  /\ Answer(IF heap[devs[Info].data].fans THEN "info" ELSE "nofans")
  /\ MainOnly /\ UNCHANGED <<sensor_map, heap, devs, head>>
DcSensorReadingGetByName(n) ==
  /\ ~died /\ main.at = "ready" /\ main.out = None
  /\ LET r == SensorGetByName(n)
     IN Answer(IF r = Null THEN "EINVAL"
               ELSE IF heap[r].type # "discrete" THEN "ENOTSUP" ELSE "value")
  /\ MainOnly /\ UNCHANGED <<sensor_map, heap, devs, head>>
Return == /\ main.out # None /\ main' = [main EXCEPT !.out = None]
          /\ MainOnly /\ UNCHANGED <<sensor_map, heap, devs, head>>

(************************* steps of both other threads *********************)
Go(t, at) == th' = [th EXCEPT ![t].at = at]
At(t, at) == ~died /\ th[t].at = at
\* The end of a handler: the event thread waits for the next event, the
\* poller goes on with the next sensor of the entity.
Created(t) == IF t = "event" THEN "loop" ELSE "ask"

\* sdi_bmc_sensor_create: the search and the insertion are two sections.
SensorCreate(t) ==
  /\ At(t, "create")
  /\ LET r == SensorGet(th[t].n)
     IN th' = [th EXCEPT ![t].r = r, ![t].at = IF r = Null THEN "add" ELSE Created(t)]
  /\ DbSame /\ ThreadOnly /\ UNCHANGED <<sensor_loc, hooks, asked, told, commands, died>>
SensorCreateAdd(t) ==
  /\ At(t, "add")
  /\ SensorAdd(th[t].n)
  /\ th' = [th EXCEPT ![t].r = Found(SensorKey(th[t].n)), ![t].at = "init"]
  /\ ThreadOnly /\ UNCHANGED <<entity, sensor_loc, hooks, asked, told, commands, died>>
\* Until the BMC has answered every bit of a discrete state is set.
SensorCreateInit(t) ==
  /\ At(t, "init")
  /\ heap' = IF th[t].n \in Discrete
             THEN [heap EXCEPT ![th[t].r].type = "discrete", ![th[t].r].state = Bits]
             ELSE [heap EXCEPT ![th[t].r].type = "threshold"]
  /\ asked' = asked \cup {th[t].n}
  /\ Go(t, Created(t))
  /\ ThreadOnly /\ UNCHANGED <<sensor_map, entity, sensor_loc, hooks, told, commands, died>>

(******************************* event thread ******************************)
Event == At("event", "loop")
EventOnly == ThreadOnly /\ UNCHANGED <<told, commands>>
EntityUpdateHandler ==
  /\ Event /\ "entity" \notin hooks
  /\ EntityAdd /\ hooks' = hooks \cup {"entity"}
  /\ Go("event", IF scene.fru THEN "fruget" ELSE "bind")
  /\ EventOnly /\ UNCHANGED <<sensor_map, heap, sensor_loc, asked, died>>
\* Another entity of the chassis, without sensors that matter here.
OtherEntityUpdate ==
  /\ Event /\ Go("event", "bind")
  /\ DbSame /\ EventOnly /\ UNCHANGED <<sensor_loc, hooks, asked, died>>
\* sdi_bmc_add_entity_fru_info, from the entity's and from the FRU's handler.
AddEntityFruInfo ==
  /\ At("event", "fruget")
  /\ LET r == SensorGet(Info)
     IN th' = [th EXCEPT !["event"].r = r, !["event"].at = IF r = Null THEN "fruadd" ELSE "frutype"]
  /\ DbSame /\ EventOnly /\ UNCHANGED <<sensor_loc, hooks, asked, died>>
AddEntityFruRecord ==
  /\ At("event", "fruadd")
  /\ SensorAdd(Info)
  /\ th' = [th EXCEPT !["event"].r = Found(SensorKey(Info)), !["event"].at = "frutype"]
  /\ EventOnly /\ UNCHANGED <<entity, sensor_loc, hooks, asked, died>>
TypeEntityFruInfo ==
  /\ At("event", "frutype")
  /\ Set(th["event"].r, "type", "info")
  /\ Go("event", IF "fru" \in hooks THEN "fill" ELSE "dummy")
  /\ EventOnly /\ UNCHANGED <<sensor_map, entity, sensor_loc, hooks, asked, died>>
\* A record already known to be a dummy is filled; else the FRU will be.
AskForFru ==
  /\ At("event", "dummy")
  /\ IF heap[th["event"].r].dummy
     THEN /\ heap' = [heap EXCEPT ![th["event"].r].valid = TRUE,
                                  ![th["event"].r].maker = "dummy"]
          /\ Go("event", "dummy2") /\ UNCHANGED hooks
     ELSE hooks' = hooks \cup {"fru"} /\ Go("event", "bind") /\ UNCHANGED heap
  /\ EventOnly /\ UNCHANGED <<sensor_map, entity, sensor_loc, asked, died>>
EntityInfoDummyPopulate ==
  /\ At("event", "dummy2")
  /\ Set(th["event"].r, "supply", "dummy") /\ Go("event", "bind")
  /\ EventOnly /\ UNCHANGED <<sensor_map, entity, sensor_loc, hooks, asked, died>>
\* The first poller whose sensor is not known ends the search for the others.
PopulateSensorForPoller ==
  /\ At("event", "bind")
  /\ IF ~head THEN died' = TRUE /\ UNCHANGED sensor_loc
     ELSE LET Known(i) == \A j \in 1..i : SensorGetByName(PollerOf[j]) # Null
          IN /\ sensor_loc' = [p \in ToSet(PollerOf) |->
                  IF \E i \in 1..Len(PollerOf) : PollerOf[i] = p /\ Known(i)
                  THEN SensorGetByName(p) ELSE sensor_loc[p]]
             /\ UNCHANGED died
  /\ Go("event", "loop")
  /\ DbSame /\ EventOnly /\ UNCHANGED <<hooks, asked>>

SensorUpdateHandler(n) ==
  /\ Event /\ "entity" \in hooks /\ Has(n) /\ n \notin hooks
  /\ hooks' = hooks \cup {n}
  /\ th' = [th EXCEPT !["event"].n = n, !["event"].at = "create"]
  /\ DbSame /\ EventOnly /\ UNCHANGED <<sensor_loc, asked, died>>
FruUpdateHandler ==
  /\ Event /\ "fru" \in hooks /\ "frudone" \notin hooks
  /\ hooks' = hooks \cup {"frudone"} /\ Go("event", "fruget")
  /\ DbSame /\ EventOnly /\ UNCHANGED <<sensor_loc, asked, died>>
\* The record is valid before its fields are filled.  The OEM commands of the
\* resource are looked up without asking whether there is a resource.
TraverseFruNodeTree ==
  /\ At("event", "fill")
  /\ Set(th["event"].r, "valid", TRUE)
  /\ died' = ~scene.listed
  /\ asked' = asked \cup (IF scene.oem THEN {"oem"} ELSE {})
  /\ Go("event", "fill2")
  /\ EventOnly /\ UNCHANGED <<sensor_map, entity, sensor_loc, hooks>>
\* A FRU need not have every field.
FillFruFields ==
  /\ At("event", "fill2")
  /\ \E fields \in SUBSET {"maker", "supply"} :
       heap' = [heap EXCEPT ![th["event"].r] = [f \in DOMAIN @ |->
                              IF f \in fields THEN "fru" ELSE @[f]]]
  /\ Go("event", "loop")
  /\ EventOnly /\ UNCHANGED <<sensor_map, entity, sensor_loc, hooks, asked, died>>
OemRespHandler ==
  /\ Event /\ "oem" \in asked
  /\ asked' = asked \ {"oem"}
  /\ \/ Set(SensorGet(Info), "supply", "fru")
     \/ UNCHANGED heap
  /\ EventOnly /\ UNCHANGED <<th, sensor_map, entity, sensor_loc, hooks, died>>

\* Answers: a state is cleared and then set bit by bit; a failed request
\* (err is not looked at) has no bit set.
SensorDiscreteStatesOver(n) ==
  /\ Event /\ n \in asked /\ n \in Discrete /\ SensorGet(n) # Null
  /\ asked' = asked \ {n}
  /\ th' = [th EXCEPT !["event"].n = n, !["event"].r = SensorGet(n),
                      !["event"].at = "bits",
                      !["event"].todo = IF link THEN bmc[n] ELSE {}]
  /\ EventOnly /\ UNCHANGED <<sensor_map, heap, entity, sensor_loc, hooks, died>>
SensorDiscreteStates(n) ==
  /\ Event /\ n \in asked /\ n \in Discrete /\ SensorGet(n) # Null
  /\ asked' = asked \ {n}
  /\ Set(SensorGet(n), "state", {})
  /\ LET bits == IF link THEN bmc[n] ELSE {}
     IN th' = [th EXCEPT !["event"].n = n, !["event"].r = SensorGet(n),
                        !["event"].at = "bits", !["event"].todo = bits]
  /\ EventOnly /\ UNCHANGED <<sensor_map, entity, sensor_loc, hooks, died>>
SensorDiscreteBit ==
  /\ At("event", "bits") /\ th["event"].todo # {}
  /\ LET b == CHOOSE b \in th["event"].todo : TRUE
     IN /\ heap' = [heap EXCEPT ![th["event"].r].state = @ \cup {b}]
        /\ th' = [th EXCEPT !["event"].todo = @ \ {b}]
  /\ EventOnly /\ UNCHANGED <<sensor_map, entity, sensor_loc, hooks, asked, died>>
SensorDiscreteDone ==
  /\ At("event", "bits") /\ th["event"].todo = {}
  /\ Go("event", "loop")
  /\ DbSame /\ EventOnly /\ UNCHANGED <<sensor_loc, hooks, asked, died>>
\* Both values, or only the raw one or none, which leaves the reading alone.
SensorReadingHandler(n, v) ==
  /\ Event /\ n \in asked /\ n \in Threshold /\ SensorGet(n) # Null
  /\ asked' = asked \ {n}
  /\ \/ Set(SensorGet(n), "data", v)
     \/ UNCHANGED heap
  /\ EventOnly /\ UNCHANGED <<th, sensor_map, entity, sensor_loc, hooks, died>>
ThresholdEventHandler(n, v) ==
  /\ Event /\ SensorGet(n) # Null
  /\ heap[SensorGet(n)].type = "threshold"
  /\ Set(SensorGet(n), "data", v)
  /\ EventOnly /\ UNCHANGED <<th, sensor_map, entity, sensor_loc, hooks, asked, died>>
PresenceHandler(there) ==
  /\ Event /\ scene.fru /\ entity # None
  /\ told' = IF there THEN "present" ELSE "absent"
  /\ entity' = told'
  /\ ThreadOnly
  /\ UNCHANGED <<th, sensor_map, heap, sensor_loc, hooks, asked, commands, died>>

(******************************* poller thread *****************************)
PollOnly == ThreadOnly /\ UNCHANGED <<hooks, told>>
\* The first round comes 100 seconds after the start, when the list of the
\* pollers has long been set.
IterateEntities ==
  /\ At("poller", "loop") /\ head
  /\ EntityAdd
  /\ th' = [th EXCEPT !["poller"].todo = scene.has, !["poller"].at = "next"]
  /\ PollOnly /\ UNCHANGED <<sensor_map, heap, sensor_loc, asked, commands, died>>
IterateSensors ==
  /\ At("poller", "next") /\ th["poller"].todo # {}
  /\ LET n == CHOOSE n \in th["poller"].todo : TRUE
     IN th' = [th EXCEPT !["poller"].n = n, !["poller"].todo = @ \ {n},
                         !["poller"].at = "create"]
  /\ DbSame /\ PollOnly /\ UNCHANGED <<sensor_loc, asked, commands, died>>
IterateSensorsAsk ==
  /\ At("poller", "ask")
  /\ asked' = asked \cup {th["poller"].n}
  /\ Go("poller", "next")
  /\ DbSame /\ PollOnly /\ UNCHANGED <<sensor_loc, commands, died>>
\* A poller not bound to a sensor looks at a private state with all bits set.
OemPoller ==
  /\ At("poller", "next") /\ th["poller"].todo = {}
  /\ commands' = \E p \in ToSet(PollerOf) : \/ sensor_loc[p] = Null
                                             \/ PollBit \in heap[sensor_loc[p]].state
  /\ Go("poller", "loop")
  /\ DbSame /\ PollOnly /\ UNCHANGED <<sensor_loc, asked, died>>

BmcChanges(n, bits) ==
  /\ ~died /\ Has(n) /\ bmc[n] # bits /\ bmc' = [bmc EXCEPT ![n] = bits]
  /\ UNCHANGED <<scene, sensor_map, heap, entity, devs, sensor_loc, head, main,
                 th, hooks, asked, told, commands, link, died>>
LinkChanges ==
  /\ ~died /\ scene.has \cap Discrete # {} /\ link' = ~link
  /\ UNCHANGED <<scene, sensor_map, heap, entity, devs, sensor_loc, head, main,
                 th, hooks, asked, bmc, told, commands, died>>

Calls == \/ \E d \in ToSet(Devices) : TemperatureGet(d) \/ FanStatusGet(d)
         \/ DataGet \/ DataGetRest \/ Return
         \/ \E n \in Names : DcSensorReadingGetByName(n)
Startup == \/ DeviceDriverInit \/ SetPollerHead \/ RegisterData \/ FanResRegister
           \/ EntityInfoResAdd \/ EntityInfoResRegister
Creation(t) == SensorCreate(t) \/ SensorCreateAdd(t) \/ SensorCreateInit(t)
Handlers == \/ EntityUpdateHandler \/ OtherEntityUpdate \/ AddEntityFruInfo \/ AddEntityFruRecord
            \/ TypeEntityFruInfo \/ AskForFru \/ EntityInfoDummyPopulate
            \/ PopulateSensorForPoller \/ FruUpdateHandler
            \/ TraverseFruNodeTree \/ FillFruFields
            \/ \E n \in Sensors : SensorUpdateHandler(n)
Answers == \/ OemRespHandler \/ SensorDiscreteBit \/ SensorDiscreteDone
           \/ \E n \in Discrete : SensorDiscreteStates(n)
           \/ \E n \in Threshold, v \in Values :
                SensorReadingHandler(n, v)
Poller == IterateEntities \/ IterateSensors \/ IterateSensorsAsk \/ OemPoller
Next == \/ Startup \/ Calls \/ Handlers \/ Answers \/ Poller \/ LinkChanges
        \/ \E t \in Threads : Creation(t)
        \/ \E n \in Threshold, v \in Values : ThresholdEventHandler(n, v)
        \/ \E there \in BOOLEAN : PresenceHandler(there)
        \/ \E n \in Discrete, bits \in SUBSET Bits : BmcChanges(n, bits)

\* The threads run for ever; the loop of the event thread takes the messages
\* in their order, so an answer is not passed over for ever.
Fairness == /\ WF_vars(Startup) /\ WF_vars(Poller)
            /\ \A t \in Threads : WF_vars(Creation(t))
            /\ WF_vars(AddEntityFruInfo \/ AddEntityFruRecord \/ TypeEntityFruInfo
                       \/ AskForFru \/ EntityInfoDummyPopulate
                       \/ PopulateSensorForPoller \/ TraverseFruNodeTree
                       \/ FillFruFields \/ SensorDiscreteBit \/ SensorDiscreteDone)
            /\ \A n \in Discrete : SF_vars(SensorDiscreteStates(n))
Spec == Init /\ [][Next]_vars /\ Fairness
-----------------------------------------------------------------------------
Ids == 0..Len(heap)
States == {"off", "loop", "create", "add", "init", "ask", "next", "fruget",
           "fruadd", "frutype", "dummy", "dummy2", "bind", "fill", "fill2", "bits"}

\* Everything has its type; no NULL record is in the map or filled.
TypeOK ==
  /\ \A k \in DOMAIN sensor_map : sensor_map[k] \in Ids \ {Null}
  /\ \A i \in 1..Len(heap) :
       /\ heap[i].name \in Names /\ heap[i].state \subseteq Bits
       /\ heap[i].type \in {None, "discrete", "threshold", "info"}
       /\ {heap[i].maker, heap[i].supply} \subseteq {None, "dummy", "fru"}
  /\ entity \in {None, "absent", "present"}
  /\ \A d \in DOMAIN devs : devs[d].data \in Ids /\ devs[d].status \in Ids
  /\ \A t \in Threads : th[t].at \in States /\ th[t].r \in Ids
  /\ asked \subseteq Sensors \cup {"oem"}
  /\ main.out \in {None, "EINVAL", "ENOTSUP", "good", "fault", "unset", "value",
                   "info", "nofans"}

\* The searches and insertions of a record are separate sections, made by
\* three threads with two kinds of keys: still no sensor has two records, and
\* every pointer kept outside the lock is to the record the events fill.
OneRecord ==
  /\ \A i, j \in 1..Len(heap) : heap[i].name = heap[j].name => i = j
  /\ \A d \in ToSet(Devices) :
       /\ devs[d].data # Null => heap[devs[d].data].name = DataId[d]
       /\ devs[d].status # Null => heap[devs[d].status].name = StatusId[d]
  /\ \A p \in ToSet(PollerOf) :
       sensor_loc[p] # Null => heap[sensor_loc[p]].name = p

\* An entity information that is served has the number of fans and the speed
\* the configuration gives, whoever made the record first.
InfoHasFans == main.out # "nofans"

\* The fields of a record come all from the FRU or all from the dummy, also
\* when the entity is reported before its resource is registered.
OneSource == \A i \in 1..Len(heap) : ~({"dummy", "fru"} \subseteq {heap[i].maker, heap[i].supply})

\* The records keep together what belongs together although start-up, event
\* thread, poller and reader make, find and fill them in sections of their own:
\* one record for a sensor, one source for its fields, and all of them served.
RecordsWhole == TypeOK /\ OneRecord /\ OneSource /\ InfoHasFans

\* The presence the BMC reported last is the one kept, whatever the poller
\* does with the entity meanwhile.
PresenceKept == told # None => entity = told

\* When a state of the BMC settles, the stale bits go, the new ones come back
\* after every poll, and a poller bound to it stops sending commands.
StatesFollow ==
  \A n \in Discrete, bits \in SUBSET Bits :
    LET Settled == Has(n) /\ link /\ bmc[n] = bits /\ ~died /\ head
        Kept == SensorGet(n) # Null /\ heap[SensorGet(n)].state \subseteq bits
        Shown == SensorGet(n) # Null /\ heap[SensorGet(n)].state = bits
        Silent == (n \in ToSet(PollerOf) /\ PollBit \notin bits
                   /\ (\A p \in ToSet(PollerOf) : p = n) /\ sensor_loc[n] # Null)
                  => ~commands
    IN <>[]Settled => /\ <>[]Kept /\ []<>Shown /\ <>[]Silent
=============================================================================
