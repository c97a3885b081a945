SPECIFICATION FairSpec
CONSTANT QueueCap = 2
CONSTANT Messages = {"ha", "change", "apply", "reject"}
INVARIANTS FlagsSettle PublishedSettles
PROPERTY Recovers
