\* One account of the device with one order, and two rows.
CONSTANTS
  Collector = {c1}
  Order = {o1}
  MaxRecords = 2
  BatchSize = 1
  MaxAttempts = 2
  None = None
\* Three analyses of two photos, of which two may be overtaken.
  Code = {own, other}
  OwnCode = own
  Look <- Looks
  Deviation = {d1}
  MaxPhotos = 2
  MaxRuns = 3
  Null = Null
\* Two scans, and two screens that want to know where they are.
  Scan = {scan1, scan2}
  Caller = {screen1, screen2}
  GpsToken = {token1, token2}
  Off = Off
SPECIFICATION ScreensSpec
INVARIANTS
  SyncedIsReceived
  VerdictIsOfThePhotos
  OverrideIsOfTheVerdict
  CameraIsReleased
  TokenRedeemedOnce
\* Photos, analyses and scans are bounded.
CHECK_DEADLOCK FALSE
