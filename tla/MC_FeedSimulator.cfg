\* One feed, three updates, with any number of stops and restarts: the feeds share no state.
CONSTANTS
    fa = fa
    fb = fb
    Feeds = {fa}
    SequenceStart = 1
    MaxPublish = 3
SPECIFICATION Spec
INVARIANTS TypeOK DeliveredInSequence UpdatesAccounted
PROPERTIES QueuedIsHandled
