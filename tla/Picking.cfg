SPECIFICATION FairSpec
CONSTANTS
  p5 = p5
  hdr = hdr
  avc = avc
  junk = junk
  hd = hd
  NoReport = NoReport
  NoLink = NoLink
  NoDV = NoDV
  Nobody = Nobody
  Posed <- Deceived
  Presets <- ThePresets
  AudioMax = 4
  Rel <- Five
  List <- ScoutsList
  Attr <- TheAttributes
  File <- TheFiles
  Wants <- TheWants
  ParallelOpens = 2
  MaxTries = 4
  MaxPrebuffer = 2
  LongPrebuffer = 4
  Buffers <- TheBuffers
  AacRate <- TheAacRate
  Uplink = 100
  Target = 6
  Slack = 1
  NoSize = NoSize
  NoIndex = NoIndex
  OpenedMax = 1
  KnownMax = 2
  Picks = 2
CHECK_DEADLOCK FALSE
INVARIANTS RuledOutForCause TakesTheBest  PlaysThrough CutsRight
PROPERTY Decides
