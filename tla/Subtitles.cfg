SPECIFICATION FairSpec
CONSTANTS
  r1 = r1
  r2 = r2
  None = None
  English = "en"
  Und = "und"
  Films <- TheFilms
  MaxLanguages = 2
  Tries = 2
  Req = {r1, r2}
  MaxBlips = 3
CHECK_DEADLOCK FALSE
INVARIANTS PromisedWell FetchedOnce
PROPERTY Heals
