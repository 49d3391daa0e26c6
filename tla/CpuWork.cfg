\* Two slots, a queue of two, five callers.
CONSTANTS
  c1 = c1 c2 = c2 c3 = c3 c4 = c4 c5 = c5
  Callers <- MCFive
  Workers = 2
  MaxQueue = 2
SPECIFICATION LoopSpec
INVARIANTS SlotConservation NativeWithinSlots NoStrandedWaiter
PROPERTIES NoBarging CancelledEnds
