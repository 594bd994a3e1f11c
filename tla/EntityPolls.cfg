SPECIFICATION FairPolls
CONSTANTS
  NoUnit = NoUnit
  Zero = Zero
  Unit = {u1, u2}
  Config <- PinKinds
  Fault = {"pin", "power", "eeprom", "reset", "fan"}
INVARIANTS TypeOK NoInfoWhenAbsent InfoIsRecent PresenceHonest InitHonest
PROPERTY UnitBecomesKnown
