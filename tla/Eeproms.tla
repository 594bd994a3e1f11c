--------------------------------- MODULE Eeproms ---------------------------------
(* The EEPROMs that describe the boards, fan trays and power supplies of a    *)
(* switch, in the three formats the driver parses, and the power supplies     *)
(* without one, whose type follows from the part number of the system. A read *)
(* of several bytes counts as one access.                                     *)
EXTENDS DeviceBus, SequencesExt

CONSTANT EepromConf   \* the boards: their EEPROMs, the images these may hold

ASSUME EepromConfAssumption == \A c \in EepromConf : c.dev = "eeprom"

(* conf.slots are the EEPROMs and the power supplies without one, conf.node    *)
(* what the configuration says of each: parser, size, fans and max, the images *)
(* that may be found there. An image is its fields in their order and what was *)
(* meant with them. The driver keeps the part number of the system.            *)
EepromInit ==
  /\ conf \in EepromConf
  /\ chip \in {c \in [conf.slots -> UNION {conf.node[e].images : e \in conf.slots}] :
                 \A e \in conf.slots : c[e] \in conf.node[e].images}
  /\ drv = [part |-> <<>>]
  /\ out = NoCall
  /\ seen = [slot |-> "none", part |-> <<>>]

NormalFlow == 0
ReverseFlow == 1
NotApplicable == 3
Texts == {"prod_name", "ppid", "service_tag", "hw_revision", "platform_name", "vendor_name",
          "part_number"}
Zeros == [text |-> [t \in Texts |-> <<>>], mac |-> <<>>, macs |-> 0, ac |-> FALSE, dc |-> FALSE,
          air |-> 0, watts |-> 0, fans |-> 0, max |-> 0]

--------------------------------------------------------------------------------
(* Strings: up to a zero, with room for one more byte, and nothing of a string *)
(* with a byte that cannot be printed.                                         *)

Room(text) == CASE text = "part_number" -> 10 [] text = "hw_revision" -> 8
                [] text = "ppid" -> 120 [] OTHER -> 255
CopyBytes(bytes, room) ==
  LET n == Min2(room - 1, Len(bytes))
      string == SubSeq(bytes, 1, Min({i \in 1..n : bytes[i] = 0} \cup {n + 1}) - 1)
  IN IF \A i \in DOMAIN string : string[i] \in 32..126 THEN string ELSE <<>>

Copied(info, text, bytes) == [info EXCEPT !.text[text] = CopyBytes(bytes, Room(text))]

--------------------------------------------------------------------------------
(* The vendor extension of an ONIE EEPROM: words between dashes, a number being *)
(* a word with its value, every other word having the value zero. What was told *)
(* before a word is missing or wrong stays.                                     *)

PsuTypes == <<[ac |-> TRUE, air |-> NormalFlow], [ac |-> TRUE, air |-> ReverseFlow],
              [ac |-> FALSE, air |-> NormalFlow], [ac |-> FALSE, air |-> ReverseFlow]>>
OfPsuType(info, n) == [info EXCEPT !.ac = PsuTypes[n].ac, !.dc = ~PsuTypes[n].ac,
                                   !.air = PsuTypes[n].air]
TypeKnown(parser, n) == n \in IF parser = "onie_psu" THEN 0..3 ELSE 0..1
OfType(info, parser, n) ==
  IF parser = "onie_psu" THEN OfPsuType(info, n + 1) ELSE [info EXCEPT !.air = n]

Fans(info, w, k) ==
  IF k \notin DOMAIN w THEN info
  ELSE IF w[k].word # "FANS" THEN [info EXCEPT !.max = w[k].num]
  ELSE IF k + 1 \in DOMAIN w THEN [info EXCEPT !.fans = w[k + 1].num] ELSE info
SpeedAndFans(info, w, k) ==
  IF k \notin DOMAIN w THEN info
  ELSE IF w[k].word # "MAXRPM" THEN Fans([info EXCEPT !.fans = w[k].num], w, k + 1)
  ELSE IF k + 1 \notin DOMAIN w THEN info
  ELSE Fans([info EXCEPT !.max = w[k + 1].num], w, k + 2)

FillVendorExtn(info, parser, f) ==
  LET w == f.words
      named == w # <<>> /\ w[1].word \in {"PSU", "FANTRAY"}
      k == IF named THEN 2 ELSE 1
  IN IF \/ parser = "onie_sys" \/ f.iana = "none"
        \/ named /\ w[1].word # (IF parser = "onie_psu" THEN "PSU" ELSE "FANTRAY")
        \/ k \notin DOMAIN w \/ ~TypeKnown(parser, w[k].num)
     THEN info
     ELSE SpeedAndFans(OfType(info, parser, w[k].num), w, k + 1)

--------------------------------------------------------------------------------
(* The ONIE format: a header, fields, the last of which is the CRC. *)

MacSize == 6
HeaderLen == 11
CrcLen == 6
Crc == [tag |-> "crc", len |-> 4, value |-> <<>>]
Erased0 == [tag |-> "none", len |-> 0, value |-> <<>>]
FieldAt(image, i) ==
  IF i <= Len(image.fields) THEN image.fields[i]
  ELSE IF i = Len(image.fields) + 1 THEN Crc ELSE Erased0
TotalLen(image) == FoldSeq(LAMBDA f, n : n + f.len + 2, CrcLen, image.fields)

ValidateHeader(image, size) == image.header /\ TotalLen(image) <= size - HeaderLen

(* The walk counts down the length of the field it comes to, without its tag: *)
(* it ends after the CRC, among bytes that were never read and are zero.      *)
Walked(image) ==
  LET end[i \in Nat, left \in Int] ==
        IF left <= 0 THEN i - 1 ELSE end[i + 1, left - FieldAt(image, i + 1).len - 1]
  IN end[1, TotalLen(image) - CrcLen]

FillField(info, parser, f) ==
  CASE f.tag \in Texts -> Copied(info, f.tag, f.value)
    [] f.tag = "mac" -> IF f.len = MacSize THEN [info EXCEPT !.mac = f.value] ELSE info
    [] f.tag = "macs" -> [info EXCEPT !.macs = f.value[1] * 256 + f.value[2]]
    [] f.tag = "vendor_extn" -> FillVendorExtn(info, parser, f)
    [] OTHER -> info
OnieInfo(image, parser) ==
  FoldLeft(LAMBDA info, f : FillField(info, parser, f), Zeros,
           SubSeq(image.fields, 1, Min2(Walked(image), Len(image.fields))))
WithDefaults(info, node) ==
  IF node.parser = "onie_sys" THEN info
  ELSE [info EXCEPT !.max = IF @ = 0 THEN node.max ELSE @,
                    !.fans = IF @ = 0 THEN node.fans ELSE @]

(* Mutant: the part number of every ONIE EEPROM but the system's is remembered. *)
RememberPartOfUnits(parser, part) == IF parser = "onie_sys" THEN drv.part ELSE part

(* The last ONIE EEPROM with a part number, whose ever it is. *)
RememberPart(parser, part) == part

(* A failure to read what follows the header is noticed as a wrong CRC. *)
OnieGet(n, node, image) ==
  LET header == Access(Begin(n), Begin(n))
      info == OnieInfo(image, node.parser)
      told == IF \E f \in ToSet(image.fields) : f.tag = "part_number"
              THEN RememberPart(node.parser, info.text["part_number"]) ELSE drv.part
  IN IF header.ok /\ (~ValidateHeader(image, node.size) \/ ~image.crc)
     THEN [s |-> [header EXCEPT !.ok = FALSE], info |-> Zeros]
     ELSE [s |-> Access(header, [header EXCEPT !.drv.part = told]),
           info |-> WithDefaults(info, node)]

--------------------------------------------------------------------------------
(* The formats of Dell and Delta: fields at fixed offsets. A read that fails, *)
(* or in the formats of Dell a type that is not known, ends in an error.      *)

OfBoard(image) == Copied(Copied([Zeros EXCEPT !.fans = image.fans, !.max = image.max],
                                "ppid", image.ppid), "part_number", image.part)

(* Air flow and power source of a Delta supply are words; others leave the *)
(* zero.                                                                   *)
DeltaInfo(image) ==
  [Copied(OfBoard(image), "hw_revision", image.rev) EXCEPT
     !.air = IF image.air = "REVERSE" THEN ReverseFlow ELSE NormalFlow,
     !.ac = "AC" \in image.source, !.dc = "DC" \in image.source, !.watts = image.watts]

LegacyInfo(image) ==
  LET info == Copied(Copied(Copied(OfBoard(image), "hw_revision", image.rev),
                            "service_tag", image.svc), "prod_name", image.ppid)
  IN IF image.type \notin 1..4 THEN info ELSE OfPsuType(info, image.type)
LegacyFanInfo(image) == [LegacyInfo(image) EXCEPT !.air = image.type - 1, !.ac = FALSE, !.dc = FALSE]
TypesOf(parser) == IF parser = "dell_fan" THEN 1..2 ELSE 1..4

FixedGet(n, node, image) ==
  LET i == [image EXCEPT !.max = IF node.parser = "delta" THEN @ ELSE node.max,
                         !.fans = IF node.parser = "dell_psu" THEN node.fans ELSE @]
      s == Access(Begin(n), Begin(n))
  IN IF node.parser = "delta" THEN [s |-> s, info |-> DeltaInfo(i)]
     ELSE [s |-> [s EXCEPT !.ok = @ /\ image.type \in TypesOf(node.parser)],
           info |-> IF node.parser = "dell_fan" THEN LegacyFanInfo(i) ELSE LegacyInfo(i)]

--------------------------------------------------------------------------------
(* A power supply without an EEPROM: by the part number of the system, the *)
(* first entry of the map that has it, and by pins, where there are any.   *)

MapPart(part) == SubSeq(part, 1, Min2(8, Len(part)))
MapEntries(part) == {i \in 1..Len(conf.map) : MapPart(conf.map[i].part) = part}
OfPart(info, part) ==
  IF MapEntries(part) = {} THEN info
  ELSE LET e == conf.map[Min(MapEntries(part))]
       IN [info EXCEPT !.ac = e.ac, !.dc = e.dc, !.air = e.air]

NA == <<78, 65>>
VirtualGet(n, node, pins) ==
  LET none == [[Zeros EXCEPT !.max = node.max, !.fans = node.fans, !.air = NotApplicable]
                 EXCEPT !.text = [t \in Texts |-> IF t = "service_tag" THEN <<>> ELSE NA]]
      typed == IF node.byPart THEN OfPart(none, drv.part) ELSE none
      locked == Access(Begin(n), Begin(n))
      aired == IF node.pins THEN Access(locked, locked) ELSE Begin(n)
      psu == IF node.pins THEN Access(aired, aired) ELSE aired
  IN IF ~node.pins THEN [s |-> psu, info |-> typed]
     ELSE [s |-> [psu EXCEPT !.ok = @ /\ pins.air \in {node.normal, node.reverse}
                                      /\ pins.psu \in {node.ac, node.dc}],
           info |-> [typed EXCEPT !.air = IF pins.air = node.normal THEN NormalFlow ELSE ReverseFlow,
                                  !.ac = @ \/ pins.psu = node.ac,
                                  !.dc = @ \/ pins.psu # node.ac]]

--------------------------------------------------------------------------------
(* The API. *)

Sizes == {256, 8192}
EntityInfoGet == On("eeprom") /\ \E e \in conf.slots, n \in Fails :
  LET node == conf.node[e]
      get == IF node.parser = "virtual" THEN VirtualGet(n, node, chip[e])
             ELSE IF node.parser \in {"onie_sys", "onie_psu", "onie_fan"}
             THEN OnieGet(n, node, chip[e])
             ELSE FixedGet(n, node, chip[e])
  IN IF node.size \notin Sizes /\ node.parser \in {"onie_sys", "onie_psu", "onie_fan"}
     THEN Refuse("info", "invalid")
     ELSE Finish("info", get.s, get.info,
                 [seen EXCEPT !.slot = e,
                              !.part = IF get.s.ok /\ node.parser = "onie_sys"
                                       THEN chip[e].meant.text["part_number"] ELSE @])

(* Another unit in the slot, another level at the pins. *)
Exchanged == On("eeprom") /\ \E e \in conf.slots : \E image \in conf.node[e].images :
  /\ chip' = [chip EXCEPT ![e] = image]
  /\ UNCHANGED <<conf, drv, out, seen>>

EepromNext == EntityInfoGet \/ Exchanged

--------------------------------------------------------------------------------
(* Properties. *)

InfoTold == Is("eeprom") /\ out.call = "info" /\ out.res = "ok"

(* A successful read tells what was meant when the EEPROM was written, field by *)
(* field and nothing more, in every format and order that is documented: the    *)
(* walk reaches every field and takes nothing behind the last one for a field,  *)
(* what is missing comes from the configuration, and nothing of another EEPROM, *)
(* of the unit that was there before, or of a read that failed is told.         *)
ImageTold ==
  InfoTold /\ conf.node[seen.slot].parser # "virtual" => out.val = chip[seen.slot].meant

(* A supply whose type follows from the part number of the system is told that  *)
(* type in every read after the first successful one of the system's EEPROM, on *)
(* a board where no other ONIE EEPROM has a part number. The map keeps eight    *)
(* characters of a part number: longer ones are never found.                    *)
PsuOfPart ==
  InfoTold /\ conf.node[seen.slot].parser = "virtual" /\ conf.node[seen.slot].byPart
    /\ ~conf.node[seen.slot].pins /\ seen.part # <<>> /\ Len(seen.part) <= 8
  => \A i \in 1..Len(conf.map) :
       conf.map[i].part = seen.part /\ (\A j \in 1..(i - 1) : conf.map[j].part # seen.part) =>
         /\ out.val.ac = conf.map[i].ac /\ out.val.dc = conf.map[i].dc
         /\ out.val.air = conf.map[i].air

(* The entity information that is told is that of the unit that is there: read *)
(* from its own EEPROM, or following from the part number of the system.       *)
InfoHonest == ImageTold /\ PsuOfPart
================================================================================
