\* Streams of up to three events and pings, cut into chunks in every way.
SPECIFICATION Spec
CONSTANTS
  Words = {"token", "done", "a", "b"}
  Sendable <- Events
  MaxEvents = 3
INVARIANTS EventsOut
CHECK_DEADLOCK FALSE
