\* Two writers fill the feed past three growths of its array while it is listed.
CONSTANTS
  Writers = {w1, w2}
  Readers = {r1}
  MaxNotifs = 4
  Conditions = {{}, {"over_temperature"}, {"fan_stopped"}}
SPECIFICATION USpec
INVARIANTS
  FeedIsComplete
  ReaderGetsWhatWasThere
  AnswerFitsReadings
CHECK_DEADLOCK FALSE
