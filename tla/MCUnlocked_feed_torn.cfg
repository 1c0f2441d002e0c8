\* A reader lists the feed between the store of the length and that of the element.
CONSTANTS
  Writers = {w1}
  Readers = {r1}
  MaxNotifs = 1
  Conditions = {{}}
SPECIFICATION USpec
INVARIANTS
  EveryEntryIsUsable
CHECK_DEADLOCK FALSE
