SPECIFICATION CronSpec
CONSTANTS
  Names = {a, b}
  Ids = {f}
  Uploads = {u}
  Addresses = {ip}
  Nobody = Nobody
  NoUpload = NoUpload
  Lengths = {3}
  RecipientPending = 4
  SenderPending = 4
  SenderDaily = 4
  TotalPending = 5
  AddressHourly = 1
  SenderOffers = 1
  DailyWrites = 3
  DailyReads = 1
  PartTries = 1
  OfferTtl = 2
  GrantTtl = 2
  StaleUpload = 1
  UploadMax = 2
  StoredTtl = 2
  PartBytes = 2
  SealedChunk = 1
  StreamChunks = 1
  StreamPartsMax = 2
  Hour = 1
  Day = 4
  MaxTime = 8
  MaxGrants = 1
INVARIANTS
  TypeOK
  StagesEnd
SYMMETRY MCSymmetry
