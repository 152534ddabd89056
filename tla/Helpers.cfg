\* Two devices; two captures of two sources through a ring of three bytes; at most six packets of a source, and an audio time that wraps.
SPECIFICATION Spec
CONSTANTS
  Devices = {d1, d2}
  MaxNews = 2
  MaxWindows = 2
  Sources = {video, audio}
  Capacity = 3
  ReadLen = 2
  Lens = {0, 2, 4}
  MaxData = 6
  MaxCaptures = 2
  AccumSize = 4
  PcrEvery = 2
  PtsOffset = 2
  AudioLag = 1
  TimeRange = 6
  Times = {3, 4, 5}
  StopTimes = {5}
  MaxBlock = 2
  MaxPackets = 5
INVARIANTS DevicesFollowed PostedInOrder EndsOnce PacketsInOrder
CHECK_DEADLOCK FALSE
