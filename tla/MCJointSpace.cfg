CONSTANT MaxWaiting = 3
SPECIFICATION Spec
INVARIANTS TypeOK DisabledIsStopped UnloadedIsClosed
PROPERTIES TvOffStopsOutput Recovers
