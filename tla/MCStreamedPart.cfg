SPECIFICATION FTSpec
CONSTANTS
  Names = {a, b}
  Ids = {f}
  Uploads = {u}
  Addresses = {ip}
  Workers = {w1, w2, w3}
  Nobody = Nobody
  NoUpload = NoUpload
  Lengths = {3}
  RecipientPending = 4
  SenderPending = 4
  SenderDaily = 4
  TotalPending = 4
  AddressHourly = 2
  SenderOffers = 2
  DailyWrites = 5
  DailyReads = 2
  PartTries = 2
  OfferTtl = 2
  GrantTtl = 1
  StaleUpload = 1
  UploadMax = 1
  StoredTtl = 1
  PartBytes = 2
  SealedChunk = 1
  StreamChunks = 1
  StreamPartsMax = 2
  Hour = 1
  Day = 10
  MaxTime = 1
  MaxGrants = 2
  MaxDeaths = 1
INVARIANTS
  StreamIsThere
SYMMETRY MCSymmetry
