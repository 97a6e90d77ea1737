\* Three auctions, an interval of two ticks; up to two Mongo calls fail,
\* inserts and updates, applied or not, and the process may restart once.
CONSTANTS
    Auctions = {x1, x2, x3}
    Interval = 2
    MaxFailures = 2
    MaxRestarts = 1
    FailingCalls = {"InsertOne", "UpdateOne"}
SPECIFICATION Spec
PROPERTIES ImplementsAuctionSpec FaultFreeImplementsLiveness
