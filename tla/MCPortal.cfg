\* One device, any two faults, three ticks; one query, one record arriving;
\* two refreshes under way, three acts of the user or failing requests.
CONSTANTS
  Devices = {"d"}
  Channels = {"Z"}
  Expected <- OneComponent
  OfflineSeconds = 1
  MissingSeconds = 0
  Silence = 2
  MaxTime = 3
  MaxFaults = 2
  Never = Never
  Paths <- TwoFiles
  Streams <- TwoStreams
  ComponentOf <- Component
  Signal <- TenValues
  Contents <- Some
  Arriving <- OneArriving
  Windows <- ThreeWindows
  Limits = {1, 3}
  MaxPoints = 4
  LeastPoints = 2
  MaxAppends = 1
  Options = {"P", "Q", "R"}
  ComponentsOf <- ThreeDevices
  MaxChecked = 3
  MaxInFlight = 2
  MaxActs = 3
  Nothing = Nothing
SPECIFICATION Spec
INVARIANTS
  AlertsTypeOK
  AnswerComplete
  EnvelopeKept
PROPERTIES
  AlertsSettle
  MailsSpaced
  ChartSettles
