----------------------------- MODULE EngineFanout -----------------------------
(***************************************************************************)
(* concurrency.execute: the batches a policy plans are priced by one       *)
(* engine call each, all at once under asyncio.gather, which keeps what    *)
(* each task returns in the task's place; the lists are then flattened.    *)
(* Each call goes through RetryingEngineClient, which retries what gRPC    *)
(* reports as UNAVAILABLE or DEADLINE_EXCEEDED.  A trade is known by its   *)
(* place in the request; that the engine answers a request's trades in     *)
(* their order is its contract.                                            *)
(***************************************************************************)
EXTENDS Naturals, Sequences

CONSTANTS
    Sizes,       \* how many trades each batch of the plan holds
    Prices,      \* what the engine may answer for a trade
    NoPrice,     \* of a trade it has not answered for
    MaxRetries   \* engine_max_retries

N == Len(Sizes)
Batches == 1..N

\* How many trades the first b batches hold.
Planned[b \in 0..N] == IF b = 0 THEN 0 ELSE Planned[b - 1] + Sizes[b]

ASSUME FanoutAssumption ==
    /\ Sizes \in Seq(Nat \ {0}) /\ Sizes # <<>>
    /\ NoPrice \notin Prices
    /\ MaxRetries \in Nat

Trades == 1..Planned[N]

\* A plan keeps the input order: batch b holds the trades after b - 1's.
Batch(b) == (Planned[b - 1] + 1)..Planned[b]

VARIABLES
    stage,     \* what each batch's task is doing
    tries,     \* its failed attempts
    slot,      \* what it returned, in gather's list
    outcome,   \* what gather gives the route
    results,   \* the list execute returns
    priced     \* for the properties: what the engine answered for each trade

vars == <<stage, tries, slot, outcome, results, priced>>

Stages == {"calling", "backoff", "done", "failed"}

\* gather starts every task before any call comes back.
Init ==
    /\ stage = [b \in Batches |-> "calling"]
    /\ tries = [b \in Batches |-> 0]
    /\ slot = [b \in Batches |-> <<>>]
    /\ outcome = "waiting"
    /\ results = <<>>
    /\ priced = [k \in Trades |-> NoPrice]

-----------------------------------------------------------------------------
(* RetryingEngineClient over one gRPC call.                                *)

\* The back-off is over: the same request again.
Resend(b) ==
    /\ stage[b] = "backoff"
    /\ stage' = [stage EXCEPT ![b] = "calling"]
    /\ UNCHANGED <<tries, slot, outcome, results, priced>>

\* gather hands the first exception to the route at once; the other tasks run on.
Raise(b) ==
    /\ stage' = [stage EXCEPT ![b] = "failed"]
    /\ outcome' = IF outcome = "waiting" THEN "raised" ELSE outcome
    /\ UNCHANGED <<slot, results, priced>>

\* Mutants: the attempt is not counted; one retry too many.
Unavailable_Forever(b) ==
    /\ stage[b] = "calling"
    /\ stage' = [stage EXCEPT ![b] = "backoff"]
    /\ UNCHANGED <<tries, slot, outcome, results, priced>>
Unavailable_OneMore(b) ==
    /\ stage[b] = "calling"
    /\ tries' = [tries EXCEPT ![b] = @ + 1]
    /\ \/ tries[b] > MaxRetries /\ Raise(b)
       \/ /\ tries[b] <= MaxRetries
          /\ stage' = [stage EXCEPT ![b] = "backoff"]
          /\ UNCHANGED <<slot, outcome, results, priced>>

\* UNAVAILABLE or DEADLINE_EXCEEDED: back off and retry, or raise.
Unavailable(b) ==
    /\ stage[b] = "calling"
    /\ tries' = [tries EXCEPT ![b] = @ + 1]
    /\ \/ tries[b] = MaxRetries /\ Raise(b)
       \/ /\ tries[b] < MaxRetries
          /\ stage' = [stage EXCEPT ![b] = "backoff"]
          /\ UNCHANGED <<slot, outcome, results, priced>>

\* Any other error: the engine's, or a response that does not decode or holds
\* another number of results than the batch has trades.
Refused(b) == stage[b] = "calling" /\ Raise(b) /\ UNCHANGED tries

-----------------------------------------------------------------------------
(* gather and the flattening.                                              *)

\* One list after the other.
Joined(lists) ==
    LET upto[n \in 0..Len(lists)] == IF n = 0 THEN <<>> ELSE upto[n - 1] \o lists[n]
    IN  upto[Len(lists)]

\* The task of b returns answer, one result for each trade of the batch.
Fill(b, answer) ==
    /\ stage[b] = "calling"
    /\ stage' = [stage EXCEPT ![b] = "done"]
    /\ slot' = [slot EXCEPT ![b] = answer]
    /\ priced' = [k \in Trades |-> IF k \in Batch(b) THEN answer[k - Planned[b - 1]]
                                   ELSE priced[k]]
    /\ UNCHANGED tries

AllDone == \A b \in Batches : stage'[b] = "done"

\* Mutants: results in the order the calls come back; gather returns with the first
\* result.
Succeed_AsCompleted(b) ==
    \E answer \in [1..Sizes[b] -> Prices] :
        /\ Fill(b, answer)
        /\ results' = results \o answer
        /\ outcome' = IF AllDone THEN "returned" ELSE outcome
Succeed_First(b) ==
    \E answer \in [1..Sizes[b] -> Prices] :
        /\ Fill(b, answer)
        /\ IF outcome = "waiting" THEN outcome' = "returned" /\ results' = Joined(slot')
           ELSE UNCHANGED <<outcome, results>>

\* The last task to succeed lets execute return.
Succeed(b) ==
    \E answer \in [1..Sizes[b] -> Prices] :
        /\ Fill(b, answer)
        /\ IF AllDone THEN outcome' = "returned" /\ results' = Joined(slot')
           ELSE UNCHANGED <<outcome, results>>

Step(b) == Resend(b) \/ Unavailable(b) \/ Refused(b) \/ Succeed(b)

Settled(b) == stage[b] \in {"done", "failed"}

AllSettled == (\A b \in Batches : Settled(b)) /\ UNCHANGED vars

Next == (\E b \in Batches : Step(b)) \/ AllSettled

Spec == Init /\ [][Next]_vars

\* Every engine call has a deadline and every back-off ends.
FairSpec == Spec /\ \A b \in Batches : WF_vars(Step(b))

-----------------------------------------------------------------------------
(* Properties.                                                             *)

\* Every variable keeps its type; no batch is sent more than MaxRetries + 1 times.
TypeOK ==
    /\ stage \in [Batches -> Stages]
    /\ tries \in [Batches -> 0..MaxRetries + 1]
    /\ \A b \in Batches : stage[b] # "failed" => tries[b] <= MaxRetries
    /\ slot \in [Batches -> Seq(Prices)]
    /\ outcome \in {"waiting", "returned", "raised"}
    /\ results \in Seq(Prices)
    /\ priced \in [Trades -> Prices \cup {NoPrice}]

\* The list a route gets holds, in the place of every trade of the request, what
\* the engine answered for that trade, whatever the order in which the calls came
\* back and however often they were sent: callers zip the two.
ResultsInInputOrder == outcome = "returned" => results = priced

\* A route gets prices only when every batch has one: a list is never partial,
\* and a batch that failed is never followed by a list.
AllOrNothing ==
    /\ outcome = "returned" => \A b \in Batches : stage[b] = "done"
    /\ (\E b \in Batches : stage[b] = "failed") => outcome = "raised"

\* Every task ends, those nobody waits for any more included, and the route gets
\* an outcome.
EveryTaskEnds ==
    \A b \in Batches : stage[b] = "calling" ~> Settled(b) /\ outcome # "waiting"
=============================================================================
