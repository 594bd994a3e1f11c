------------------------------- MODULE MC_Devices -------------------------------
EXTENDS FanControllers, Sensors, SfBus, CommDev, Displays, Eeproms

(* Controllers with and without a maximum of their own; maps, words and limits *)
(* at the edges of their conversions, among them a default out of range.       *)
MCFanConf ==
  {[dev |-> "max6620", np |-> 2, max |-> 2000, maxRpm |-> {4000}, volt |-> 511,
    fullOnFail |-> TRUE, info |-> {[valid |-> FALSE, max |-> 0], [valid |-> TRUE, max |-> 4000]}]}
  \cup
  {[dev |-> "emc2305", control |-> c, poles |-> 2, max |-> IF c = "rpm" THEN 0 ELSE 2000,
    maxRpm |-> {0, 9000}, info |-> {[valid |-> TRUE, max |-> 0]}] : c \in {"rpm", "direct"}}
  \cup
  {[dev |-> "pmbus", map |-> mp, max |-> 15000, default |-> d,
    words |-> {<<11, 255>>, <<215, 9>>, <<231, 200>>}] :
      d \in {0, 7000},
      mp \in {<<>>, <<[rpm |-> 6000, pct |-> 40], [rpm |-> 500, pct |-> 10],
                      [rpm |-> 1500, pct |-> 20]>>}}

MCSensorConf ==
  {[dev |-> "emc142x", sensors |-> <<1>>, types |-> <<"low", "high", "critical">>,
    default |-> [low |-> 0, high |-> 85, critical |-> 90]],
   [dev |-> "emc142x", sensors |-> <<1>>, types |-> <<"low", "high", "critical">>,
    default |-> [low |-> 0, high |-> 85, critical |-> 256]],
   [dev |-> "max6699", sensors |-> <<1, 2>>, types |-> <<"high">>, default |-> [high |-> 70]],
   [dev |-> "tmp75", sensors |-> <<1>>, types |-> <<"low", "high">>,
    default |-> [low |-> 70, high |-> 80]]}
  \cup {[dev |-> "ina219", config |-> c, calib |-> 4096] : c \in {DefaultConfig, 40761, 7}}

(* A fan, a sensor and a control whose word crosses a page of the RAM; the      *)
(* entity information of another board, with a blank byte, without room, and of *)
(* no length.                                                                   *)
SfRam == [a \in {0, 1, 2, 3, 4, 255, 256} \cup 16..20 |->
            CASE a = 17 -> 255 [] a \in 16..20 -> 40 + a [] OTHER -> 0]
SfBoard(callers, users, width, step) ==
  [dev |-> "sf", callers |-> callers, users |-> users, fan |-> 0, temp |-> 2, low |-> 2, high |-> -1,
   status |-> 4, ctrl |-> 255, width |-> width, step |-> step, values |-> {30, 153},
   words |-> {<<1, 44>>, <<255, 255>>}, ram |-> SfRam,
   fields |-> <<[first |-> 16, last |-> 18, room |-> 8], [first |-> 4, last |-> 4, room |-> 8]>>,
   ppidEnds |-> 2, ppid |-> [first |-> 19, last |-> 20, room |-> 1],
   parts |-> <<[first |-> 18, last |-> 20, room |-> 3]>>]
MCSfConf == {SfBoard(Thread, {"fan", "ext"}, 2, 1),
             SfBoard({CHOOSE t \in Thread : TRUE}, {"fan", "tmp", "ext"}, 2, 1),
             SfBoard({CHOOSE t \in Thread : TRUE}, {"info"}, 1, 1),
             [SfBoard({CHOOSE t \in Thread : TRUE}, {"info"}, 1, 1) EXCEPT !.ppidEnds = 0],
             [SfBoard(Thread, {"ext", "tmp"}, 1, 1) EXCEPT !.status = -1],
             SfBoard(Thread, {"ext"}, 4, 1)}

(* A host that moves messages in both directions, one that writes messages of *)
(* different lengths, one that writes versions, temperatures and a control of *)
(* two bytes, and one whose control has the width of the default. One transfer *)
(* of each call may fail, and is reported.                                     *)
Host(calls, sent, written, width, refresh) ==
  [dev |-> "comm", calls |-> calls, sent |-> sent, written |-> written, room |-> 3, block |-> 2, first |-> <<1, 1, 1>>,
   versions |-> {<<2, 2, 2>>}, values |-> {25, 7000}, width |-> width, refresh |-> refresh,
   spare |-> 1, hidden |-> FALSE]
MCCommConf ==
  {Host({"msg_read", "msg_write", "ready", "enable"}, {<<3, 0>>, <<5, 2, 0>>}, {<<1, 2, 0>>},
        2, TRUE),
   Host({"msg_write", "ready", "enable"}, {}, {<<4, 0>>, <<1, 2, 0>>}, 2, TRUE),
   Host({"version_get", "version_set", "ext_get", "ext_set", "temperature_set", "enable"},
        {<<3, 0>>}, {}, 2, TRUE),
   Host({"ambient_set", "platform_info", "flush", "ext_get", "ext_set"}, {<<3, 0>>}, {}, 1, FALSE)}
(* Any byte of a read may be lost. *)
HiddenCommConf == {[h EXCEPT !.hidden = TRUE] : h \in MCCommConf}

(* Displays whose map has two characters with one pattern, one character twice, *)
(* an entry that is out of range, and an off pattern that is also a character.  *)
MCLedConf ==
  {[dev |-> "pin_led", levels |-> {0, 1}]}
  \cup {[dev |-> "group_led", levels |-> {0, 5}, on |-> 3, off |-> o] : o \in {-1, 4}}
  \cup {[dev |-> "seven", levels |-> {0, 9, 31},
         strings |-> {<<>>, <<48>>, <<98>>, <<70>>, <<71>>, <<48, 48>>}]}
  \cup {[dev |-> "segment", levels |-> {0, 9, 255}, off |-> o,
         strings |-> {<<48>>, <<65>>, <<97>>, <<90>>, <<48, 48>>},
         nodes |-> <<[input |-> 48, output |-> 0], [input |-> 65, output |-> 7],
                     [input |-> 97, output |-> 8], [input |-> 256, output |-> 9],
                     [input |-> 97, output |-> 7]>>] : o \in {255, 7}}

(* Images of EEPROMs, each with what is meant with it: both orders of the  *)
(* documented vendor extension, a field of another length, one that is not *)
(* known, and headers, checksums and extensions that are wrong.            *)
Part1 == <<48, 71, 86>>
Part2 == <<48, 71, 86, 55, 48, 67, 65, 48, 49>>
Text(tag, bytes) == [tag |-> tag, len |-> Len(bytes), value |-> bytes]
Extn(iana, words) == [tag |-> "vendor_extn", len |-> 4 * Len(words) + 5, iana |-> iana, words |-> words]
Label(w) == [word |-> w, num |-> 0]
Num(n) == [word |-> "", num |-> n]
Told(part, ac, dc, air, fans, max) ==
  [Zeros EXCEPT !.text["part_number"] = part, !.ac = ac, !.dc = dc, !.air = air, !.fans = fans,
                !.max = max]
Image(fields, meant) == [header |-> TRUE, crc |-> TRUE, fields |-> fields, meant |-> meant]
SysImage(part) ==
  Image(<<Text("prod_name", <<83, 51, 48, 48, 48, 45, 79>>), Text("part_number", part),
          Text("ppid", <<67, 0, 67>>), Text("service_tag", <<65, 200>>), Text("unknown", <<>>),
          [tag |-> "mac", len |-> 6, value |-> <<0, 1, 2, 3, 4, 5>>], [tag |-> "macs", len |-> 2,
          value |-> <<1, 2>>], Extn("num", <<Label("PSU"), Num(1)>>), Text("vendor_name", <<68>>)>>,
        [Told(part, FALSE, FALSE, 0, 0, 0) EXCEPT
           !.text["prod_name"] = <<83, 51, 48, 48, 48, 45, 79>>, !.text["ppid"] = <<67>>,
           !.text["vendor_name"] = <<68>>, !.mac = <<0, 1, 2, 3, 4, 5>>, !.macs = 258])
NodeOf(parser, size, images) ==
  [parser |-> parser, size |-> size, fans |-> 2, max |-> 9000, images |-> images]
SysNode == NodeOf("onie_sys", 8192,
  {SysImage(Part1), SysImage(Part2), [SysImage(Part2) EXCEPT !.crc = FALSE],
   [SysImage(Part1) EXCEPT !.header = FALSE], Image(<<>>, Zeros)})
PsuImages ==
  {Image(<<Extn("num", <<Label("PSU"), Num(3), Label("MAXRPM"), Num(18000), Label("FANS"), Num(1),
                         Label("FF")>>), Text("part_number", Part2)>>,
         Told(Part2, FALSE, TRUE, ReverseFlow, 1, 18000)),
   Image(<<Text("hw_revision", <<65, 48, 49>>), Extn("ascii", <<Num(0), Num(4), Num(16000), Label("FF")>>)>>,
         [Told(<<>>, TRUE, FALSE, NormalFlow, 4, 16000) EXCEPT !.text["hw_revision"] = <<65, 48, 49>>]),
   Image(<<Extn("ascii", <<Label("PSU"), Num(1), Label("MAXRPM"), Num(15000)>>)>>,
         Told(<<>>, TRUE, FALSE, ReverseFlow, 2, 15000)),
   Image(<<Extn("ascii", <<Label("FANTRAY"), Num(1)>>), [tag |-> "mac", len |-> 2, value |-> <<1, 2>>]>>,
         Told(<<>>, FALSE, FALSE, 0, 2, 9000)),
   Image(<<Extn("none", <<Num(1)>>)>>, Told(<<>>, FALSE, FALSE, 0, 2, 9000))}
FanImages ==
  {Image(<<Extn("num", <<Label("FANTRAY"), Num(1), Label("MAXRPM"), Num(12000), Label("FANS"), Num(3),
                         Label("FF")>>)>>, Told(<<>>, FALSE, FALSE, ReverseFlow, 3, 12000)),
   Image(<<Extn("num", <<Num(0), Num(2), Num(7000), Label("FF")>>)>>,
         Told(<<>>, FALSE, FALSE, NormalFlow, 2, 7000)),
   Image(<<Extn("num", <<Num(2), Num(2)>>)>>, Told(<<>>, FALSE, FALSE, 0, 2, 9000))}
DellImage(type, meant) == [ppid |-> <<67, 78>>, part |-> Part1, rev |-> <<65, 48, 48, 0>>, svc |-> <<71, 7>>,
  type |-> type, fans |-> 5, max |-> 0,
  meant |-> [meant EXCEPT !.text["ppid"] = <<67, 78>>, !.text["prod_name"] = <<67, 78>>,
                          !.text["hw_revision"] = <<65, 48, 48>>]]
DeltaImage(air, source, meant) == [ppid |-> <<68>>, part |-> Part1, rev |-> <<83, 49>>, air |-> air,
  source |-> source, watts |-> 460, fans |-> 1, max |-> 11000,
  meant |-> [meant EXCEPT !.text["ppid"] = <<68>>, !.text["hw_revision"] = <<83, 49>>, !.watts = 460]]
DellFan == NodeOf("dell_fan", 256, {DellImage(2, Told(Part1, FALSE, FALSE, ReverseFlow, 5, 9000)),
                                    DellImage(1, Told(Part1, FALSE, FALSE, NormalFlow, 5, 9000)),
                                    DellImage(0, Zeros)})
DellPsu == NodeOf("dell_psu", 256, {DellImage(4, Told(Part1, FALSE, TRUE, ReverseFlow, 2, 9000)),
                                    DellImage(1, Told(Part1, TRUE, FALSE, NormalFlow, 2, 9000)),
                                    DellImage(255, Zeros)})
Delta == NodeOf("delta", 256, {DeltaImage("REVERSE", {"DC"}, Told(Part1, FALSE, TRUE, ReverseFlow, 1, 11000)),
                               DeltaImage("FORWARD", {"AC", "DC"}, Told(Part1, TRUE, TRUE, NormalFlow, 1, 11000))})
VirtualNode(byPart, pins) ==
  [parser |-> "virtual", size |-> 0, fans |-> 1, max |-> 15000, byPart |-> byPart, pins |-> pins,
   normal |-> 1, reverse |-> 2, ac |-> 1, dc |-> 0,
   images |-> IF pins THEN [air : 1..3, psu : {0, 1}] ELSE {[air |-> 0, psu |-> 0]}]
Board(nodes) == [dev |-> "eeprom", slots |-> DOMAIN nodes, node |-> nodes,
  map |-> <<[part |-> Part2, ac |-> TRUE, dc |-> FALSE, air |-> ReverseFlow],
            [part |-> Part1, ac |-> FALSE, dc |-> TRUE, air |-> NormalFlow],
            [part |-> Part1, ac |-> TRUE, dc |-> TRUE, air |-> ReverseFlow]>>]
MCEepromConf ==
  {Board([sys |-> SysNode, fan |-> DellFan, psu |-> VirtualNode(TRUE, FALSE)]),
   Board([sys |-> SysNode, psu |-> NodeOf("onie_psu", 256, PsuImages)]),
   Board([fan |-> NodeOf("onie_fan", 256, FanImages), psu |-> DellPsu, delta |-> Delta]),
   Board([sys |-> [SysNode EXCEPT !.size = 256], odd |-> NodeOf("onie_fan", 128, FanImages),
          small |-> [SysNode EXCEPT !.images = {[SysImage(Part1) EXCEPT !.fields[1].len = 250]},
                                    !.size = 256],
          psu |-> VirtualNode(FALSE, TRUE)])}

Init == FanInit \/ SensorsInit \/ SfInit \/ CommInit \/ LedInit \/ EepromInit
Next == Taken \/ FanNext \/ SensorsNext \/ SfNext \/ CommNext \/ LedNext \/ EepromNext
Spec == Init /\ [][Next]_device
================================================================================
