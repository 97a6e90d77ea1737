----------------------------- MODULE AuctionSpec -----------------------------
(***************************************************************************)
(* What the auction repository promises about an auction's lifetime,      *)
(* without its goroutines, timers or database calls: an auction is        *)
(* stored as Active with some time already elapsed since its Timestamp,    *)
(* ages with the clock, and becomes Completed once, at or after its end    *)
(* time Timestamp + AUCTION_INTERVAL, and never before.  The Liveness      *)
(* part says every Active auction is eventually Completed.                 *)
(*                                                                         *)
(* AuctionAutoClose implements SafetySpec under every fault it models,     *)
(* and Liveness as long as Mongo does not fail and the process does not    *)
(* restart.                                                                *)
(***************************************************************************)
EXTENDS Naturals

CONSTANTS Auctions, Interval

VARIABLES
    status,  \* "none", "Active" or "Completed"
    age      \* ticks since the auction's Timestamp, capped at Interval

vars == <<status, age>>

Init ==
    /\ status = [a \in Auctions |-> "none"]
    /\ age = [a \in Auctions |-> 0]

\* The auction is stored, its Timestamp lying some ticks in the past.
Open(a) ==
    /\ status[a] = "none"
    /\ status' = [status EXCEPT ![a] = "Active"]
    /\ \E elapsed \in 0..Interval : age' = [age EXCEPT ![a] = elapsed]

\* The auction is closed, never before its end time.
Complete(a) ==
    /\ status[a] = "Active"
    /\ age[a] = Interval
    /\ status' = [status EXCEPT ![a] = "Completed"]
    /\ UNCHANGED age

Tick ==
    /\ age' = [a \in Auctions |->
                 IF status[a] # "none" /\ age[a] < Interval THEN age[a] + 1 ELSE age[a]]
    /\ UNCHANGED status

Next == Tick \/ \E a \in Auctions : Open(a) \/ Complete(a)

SafetySpec == Init /\ [][Next]_vars

Liveness == WF_vars(Tick) /\ \A a \in Auctions : WF_vars(Complete(a))

Spec == SafetySpec /\ Liveness
=============================================================================
