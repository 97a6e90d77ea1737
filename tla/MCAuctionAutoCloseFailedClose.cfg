\* One UpdateOne of the auto-close goroutine that fails.
CONSTANTS
    Auctions = {x1, x2}
    Interval = 2
    MaxFailures = 1
    MaxRestarts = 0
    FailingCalls = {"UpdateOne"}
SPECIFICATION Spec
PROPERTIES AuctionEventuallyCompleted
