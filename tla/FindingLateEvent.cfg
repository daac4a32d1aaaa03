SPECIFICATION IntakeSpec
CONSTANTS
  None = None
  NoCoverage = NoCoverage
  Rails <- QueryOnly
  PageSize = 2
  Start = 4
  MaxArrivals = 1
  StillPagers = {"numbered"}
  Width = 1
  MaxSlices = 2
  From = 1
  To = 4
  Horizon = 3
  Bad = Bad
  Uploads <- UploadsDef
  CardNames <- CardNamesDef
  Cards <- CardsDef
  Codes = {"USD", "EUR"}
  MaxRows = 7
  MaxColumns = 7
  MaxMinor = 20
  h1 = h1
  h2 = h2
  Subs = {1}
  Handlers = {h1}
  MaxEvents = 3
INVARIANT
  ProWhilePaid
CHECK_DEADLOCK FALSE
