-------------------------- MODULE AuctionAutoClose --------------------------
(***************************************************************************)
(* AuctionRepository.CreateAuction and its auto-close goroutine            *)
(* (labs-auction-goexpert-master/internal/infra/database/auction/          *)
(* create_auction.go).  CreateAuction inserts the auction document and,    *)
(* if the insert succeeded, starts a goroutine that sleeps until the       *)
(* auction's end time and then sets status Active -> Completed with a      *)
(* conditional UpdateOne.                                                  *)
(*                                                                         *)
(* Time is counted in ticks of the auction interval's unit.  An auction's  *)
(* age saturates at Interval, so the state space is finite.                *)
(***************************************************************************)
EXTENDS Naturals

CONSTANTS
    Auctions,     \* auction ids
    Interval,     \* getAuctionInterval(), in ticks
    MaxFailures,  \* how many Mongo calls may fail
    FailingCalls, \* which calls may fail: a subset of {"InsertOne", "UpdateOne"}
    MaxRestarts   \* how many times the process may restart

ASSUME Interval \in Nat /\ MaxFailures \in Nat

VARIABLES
    status,     \* the document's status: "none" (absent), "Active", "Completed"
    closer,     \* the auto-close goroutine: "none", "waiting", "closing", "exited"
    wait,       \* remaining timer duration of a waiting goroutine
    age,        \* history: ticks since the auction's Timestamp, capped at Interval
    failures,
    restarts

vars == <<status, closer, wait, age, failures, restarts>>

TypeOK ==
    /\ status \in [Auctions -> {"none", "Active", "Completed"}]
    /\ closer \in [Auctions -> {"none", "waiting", "closing", "exited"}]
    /\ wait \in [Auctions -> 0..Interval]
    /\ age \in [Auctions -> 0..Interval]
    /\ failures \in 0..MaxFailures
    /\ restarts \in 0..MaxRestarts

Init ==
    /\ status = [a \in Auctions |-> "none"]
    /\ closer = [a \in Auctions |-> "none"]
    /\ wait = [a \in Auctions |-> 0]
    /\ age = [a \in Auctions |-> 0]
    /\ failures = 0
    /\ restarts = 0

MongoFails(call) == call \in FailingCalls /\ failures < MaxFailures /\ failures' = failures + 1

\* Mutant: time.Until(startTime), without adding the interval.
WaitDurationFromStart(elapsed) == 0

\* calculateAuctionEndTime and time.Until, clamped at 0: the time left until
\* Timestamp + Interval for an auction whose Timestamp is elapsed ticks ago.
WaitDuration(elapsed) == IF Interval - elapsed < 0 THEN 0 ELSE Interval - elapsed

\* triggerAuctionAutoClose: start the goroutine with its timer.
TriggerAutoClose(a, elapsed) ==
    /\ closer' = [closer EXCEPT ![a] = "waiting"]
    /\ wait' = [wait EXCEPT ![a] = WaitDuration(elapsed)]

\* CreateAuction for an Active auction whose Timestamp lies elapsed ticks in
\* the past.  InsertOne fails on a duplicate _id or a Mongo error; a failed
\* call may have inserted the document before its reply was lost.  On an
\* error no goroutine is started.
CreateAuction(a) ==
    \E elapsed \in 0..Interval + 1 :
        /\ UNCHANGED restarts
        /\ age' = [age EXCEPT ![a] =
                    IF status[a] = "none" THEN IF elapsed < Interval THEN elapsed ELSE Interval
                    ELSE @]
        /\ \/ /\ status[a] = "none"
              /\ status' = [status EXCEPT ![a] = "Active"]
              /\ TriggerAutoClose(a, elapsed)
              /\ UNCHANGED failures
           \/ /\ status[a] # "none"
              /\ UNCHANGED <<status, closer, wait, failures>>
           \/ /\ status[a] = "none"
              /\ MongoFails("InsertOne")
              /\ status' \in {status, [status EXCEPT ![a] = "Active"]}
              /\ UNCHANGED <<closer, wait>>

\* <-timer.C: the goroutine wakes once its timer has run out.
TimerFires(a) ==
    /\ closer[a] = "waiting"
    /\ wait[a] = 0
    /\ closer' = [closer EXCEPT ![a] = "closing"]
    /\ UNCHANGED <<status, wait, age, failures, restarts>>

\* Mutant: the filter names status Completed, so it never matches.
CloseAuctionWrongFilter(a) ==
    /\ closer[a] = "closing"
    /\ closer' = [closer EXCEPT ![a] = "exited"]
    /\ \/ UNCHANGED failures
       \/ MongoFails("UpdateOne")
    /\ UNCHANGED <<status, wait, age, restarts>>

\* closeAuctionIfActive: UpdateOne({_id, status: Active}, $set Completed).
\* An error (including the 10 s context timeout) is logged and returned to
\* the goroutine, which exits; an update may have been applied before the
\* error.
CloseAuctionIfActive(a) ==
    /\ closer[a] = "closing"
    /\ closer' = [closer EXCEPT ![a] = "exited"]
    /\ LET closed == [status EXCEPT ![a] = IF @ = "Active" THEN "Completed" ELSE @]
       IN \/ status' = closed /\ UNCHANGED failures
          \/ MongoFails("UpdateOne") /\ status' \in {status, closed}
    /\ UNCHANGED <<wait, age, restarts>>

\* One tick passes: timers count down and auctions age.
Tick ==
    /\ wait' = [a \in Auctions |-> IF wait[a] > 0 THEN wait[a] - 1 ELSE 0]
    /\ age' = [a \in Auctions |->
                 IF status[a] # "none" /\ age[a] < Interval THEN age[a] + 1 ELSE age[a]]
    /\ UNCHANGED <<status, closer, failures, restarts>>

\* The process restarts: the documents stay in Mongo, the goroutines and
\* their timers are gone, and nothing in the repository re-arms them.
Restart ==
    /\ restarts < MaxRestarts
    /\ restarts' = restarts + 1
    /\ closer' = [a \in Auctions |-> IF closer[a] = "exited" THEN "exited" ELSE "none"]
    /\ UNCHANGED <<status, wait, age, failures>>

Next ==
    \/ \E a \in Auctions : CreateAuction(a) \/ TimerFires(a) \/ CloseAuctionIfActive(a)
    \/ Tick
    \/ Restart

Spec ==
    /\ Init /\ [][Next]_vars
    /\ \A a \in Auctions : WF_vars(TimerFires(a)) /\ WF_vars(CloseAuctionIfActive(a))
    /\ WF_vars(Tick)

-----------------------------------------------------------------------------
(* Properties.                                                             *)

\* The repository implements AuctionSpec: an absent auction has no age yet
\* (CreateAuction sets it from the Timestamp once the document exists).
AbstractAge == [a \in Auctions |-> IF status[a] = "none" THEN 0 ELSE age[a]]

AbstractAuction == INSTANCE AuctionSpec WITH age <- AbstractAge

\* Whatever Mongo and the process do, every step of CreateAuction, of the
\* timer and of closeAuctionIfActive is a step of AuctionSpec: an auction
\* is never completed before Timestamp + AUCTION_INTERVAL (the goroutine
\* sleeps time.Until(endTime) first), never reopened and never removed.
ImplementsAuctionSpec == AbstractAuction!SafetySpec

\* As long as no Mongo call fails and the process never restarts, the
\* goroutine started by CreateAuction completes every auction: the
\* repository implements AuctionSpec's liveness.
FaultFreeImplementsLiveness ==
    [](failures = 0 /\ restarts = 0) => AbstractAuction!Liveness

\* Every auction that is stored as Active is eventually Completed, as
\* TestAuctionAutoClose expects of CreateAuction.
AuctionEventuallyCompleted ==
    \A a \in Auctions : status[a] = "Active" ~> status[a] = "Completed"
=============================================================================
