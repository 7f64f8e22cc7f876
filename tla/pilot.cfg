CONSTANT NumHooks <- SomeHooks
SPECIFICATION FairSpec
CHECK_DEADLOCK FALSE
INVARIANTS TypeOK 
PROPERTIES UnknownMeansNotStarted PilotEnds StatusFollowsProcess 
