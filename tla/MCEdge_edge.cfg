SPECIFICATION Spec
CONSTANTS
  Sessions = {s1, s2}
  Off = Off
  Batches <- EventBatches
  Addresses = {"a", "A", "b"}
  Audience = {"A", "b"}
  lower <- MCLower
  NoOne = "nobody"
  WebhookCalls = 4
  Utms = {"u", "none"}
  NoUtm = "none"
  SyncDays = 2
  Spans = {1}
  MaxViews = 1
  SyncCalls = 3
  MaxRetries = 2
  PublishCalls = 3
  MaxGrants = 4
  MaxRows = 1
  ConnectionCalls = 5
  Members = {"m1", "m2"}
  Uploads <- UploadedPayloads
  Persons <- DirectoryPersons
  MaxEnrich = 1
  OutboundCalls = 3
  Campaigns = {"c1"}
  NoCampaign = "none"
  MaxMessages = 6
  MaxTurns = 2
  MaxIds = 9
  ChatCalls = 4
  Names = {"first_name", "city"}
  Audiences <- MergePayloads
  Texts <- MergeTexts
  MaxAudiences = 2
  MaxEdits = 1
SYMMETRY Symmetry
INVARIANTS
  EventsKept
  ImportsReconcile
  DuplicatesNeedDoubt
  ToldTheTruth
  PreviewsTrue
PROPERTIES
  SuppressedNotMailed
  ConnectionsSound
  OutreachSound
  ChatMemorySound
CHECK_DEADLOCK FALSE
