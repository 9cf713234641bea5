SPECIFICATION FairSpec
CONSTANTS
  MaxIncidents = 1
  MaxMishaps = 0
  NoIncident = NoIncident
  Env = {"cancel"}
PROPERTIES CancelledNeverRings
CHECK_DEADLOCK FALSE
