\* Polls every 100 ms (asked for as 0 and as 100), 200 ms and 500 ms, and four
\* edits: one compiled, two inside its debounce window, one after it.
SPECIFICATION Spec
CONSTANTS
  Intervals <- MCIntervals
  MinInterval = 1
  Debounce = 2
  MaxEdits = 4
PROPERTIES
  LaterChangeNotLost
  EditsCompiledWhenPollsAreFar
CHECK_DEADLOCK FALSE
