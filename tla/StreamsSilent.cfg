SPECIFICATION Spec
CONSTANTS
  Containers = {c}
  Titles = {t}
  Feed = Feed
  Streams = {s1, s2}
  NoCh = NoCh
  NoTitle = NoTitle
  BufCap = 1
  BatchMax = 2
  MaxLines = 2
  MaxFlying = 2
INVARIANT FeedNotSilent
