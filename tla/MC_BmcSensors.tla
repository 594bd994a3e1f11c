---------------------------- MODULE MC_BmcSensors ---------------------------
(* Boards with the discrete or the threshold sensor that a fan is read by; a  *)
(* power supply whose FRU is read, a dummy, or missing in the configuration. *)
EXTENDS BmcSensors

MCDevices == <<"fan", "Entity_info.10.1">>
MCDataId == [d \in {"fan", "Entity_info.10.1"} |-> IF d = "fan" THEN "rpm" ELSE d]
MCStatusId == [d \in {"fan", "Entity_info.10.1"} |-> IF d = "fan" THEN "status" ELSE None]
MCPollerOf == <<"status">>
Fru(dummy, oem, listed) ==
  [fru |-> TRUE, has |-> {}, dummy |-> dummy, oem |-> oem, listed |-> listed]
Board(has) == [fru |-> FALSE, has |-> has, dummy |-> FALSE,
               oem |-> FALSE, listed |-> FALSE]
MCScenes == {Fru(FALSE, FALSE, TRUE), Fru(TRUE, FALSE, TRUE),
             Fru(FALSE, TRUE, TRUE), Fru(FALSE, FALSE, FALSE),
             Board({"status"}), Board({"rpm"})}
=============================================================================
