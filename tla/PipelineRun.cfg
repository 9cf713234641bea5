SPECIFICATION FairSpec
CONSTANTS
  MaxIncidents = 2
  MaxMishaps = 1
  NoIncident = NoIncident
  Env = {"cancel", "early", "storefail", "enabled", "disabled", "absent", "crash"}
INVARIANTS TypeOK SettledStoreMatchesEngine ForgottenIsClosed
PROPERTIES DispatchLostOnlyByFault CancelStopsRun
CHECK_DEADLOCK FALSE
