CONSTANTS
  Contexts = {c1, c2}
  Deepest = 2
  MaxKeys = 4
  MaxMail = 2
  Programs = {p1, p2}
  MaxIds = 2
  Users = {u1, u2}
  Services = {"web", "db"}
  MaxConfigs = 2
  Attempts = 2
  MaxOps = 3
  Urls = {"url1", "url2"}
  Seeded = "url1"
  Undigested = {"url2"}
  MaxContents = 2
  MaxCommands = 3
  Retries = 1
  ServiceNames = {1, 2}
  MaxEdits = 1
  MaxOthers = 1
SPECIFICATION Spec
INVARIANTS FitsTheScreen SentAsDisclosed LoadsWhatWasPublished CacheIsItsRepositorys
PROPERTIES KeepsWhatOthersDid EditChangesOnlyTheEdit
CHECK_DEADLOCK FALSE
