SPECIFICATION FairSpec
CONSTANTS
  intro = intro
  Last = 3
  Unlisted <- LastUnlisted
  Own <- OddOwn
  Kind <- JustIntro
  QueueMax = 2
  Cap = 2
  Days = 2
  Requests = 1
INVARIANT QueueExact
PROPERTIES FoundIsKept QueuedIsTaken
