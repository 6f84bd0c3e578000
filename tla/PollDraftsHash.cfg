SPECIFICATION DraftSpec
CONSTANT DraftCalls = {1, 2, 3}
CHECK_DEADLOCK FALSE
INVARIANT HashIsOfTheOptions
