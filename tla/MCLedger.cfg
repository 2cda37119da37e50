SPECIFICATION Spec
CONSTANTS
  Names = {a, b}
  Ids = {f, g}
  Uploads = {u}
  Addresses = {ip}
  Nobody = Nobody
  NoUpload = NoUpload
  Lengths = {1, 3}
  RecipientPending = 4
  SenderPending = 4
  SenderDaily = 4
  TotalPending = 5
  AddressHourly = 1
  SenderOffers = 2
  DailyWrites = 2
  DailyReads = 0
  PartTries = 1
  OfferTtl = 1
  GrantTtl = 1
  StaleUpload = 1
  UploadMax = 1
  StoredTtl = 1
  PartBytes = 3
  SealedChunk = 1
  StreamChunks = 3
  StreamPartsMax = 2
  Hour = 1
  Day = 1
  MaxTime = 1
  MaxGrants = 2
INVARIANTS
  RoomAccounted
  OffersCounted
  DayCharged
  CapsHold
SYMMETRY MCSymmetry
