------------------------------- MODULE Market -------------------------------
(***************************************************************************)
(* An agent wallet buys from the seller server: it may negotiate a quote,  *)
(* then makes a paid call in two requests, the challenge and the signed    *)
(* payment.  The server charges its list price and a rate limit behind the *)
(* tollbooth may still decline the call.  Requests and answers get lost,   *)
(* and the server may be started again with other prices in between.       *)
(* What the tollbooth writes is one step here; module Tollbooth has it.    *)
(***************************************************************************)
EXTENDS QuoteEngine

CONSTANTS
  Wallets,      \* buyers
  Splits,       \* bps of the recipients
  RateLimit,    \* calls per window and address: 30 in the code
  RateWindow,   \* seconds: 60 in the code
  MaxCalls      \* bound: paid calls of one wallet

ASSUME MarketAssumption ==
  /\ RateLimit \in Nat \ {0} /\ RateWindow \in Nat \ {0} /\ MaxCalls \in Nat
  /\ Splits \in Seq(Nat) /\ FoldSeq(+, 0, Splits) = Bps

VARIABLES
  pc,           \* where the call of each wallet stands
  offer,        \* price of the challenge it holds
  charged,      \* payments booked for this call: their value and shares
  outcome,      \* how the wallet's last call ended
  calls,        \* paid calls begun
  bucket,       \* rateLimit's entry for the wallets' address
  passes        \* history: calls let through by this server at each second

wallet == <<pc, offer, charged, outcome, calls>>
limiter == <<bucket, passes>>
marketVars == <<engine, wallet, limiter>>

Labels == {"idle", "asking", "signing", "paying", "rejected", "booked",
           "served", "limited"}
Outcomes == {"none", "given up", "refused", "served", "limited", "network error"}
NoBucket == [count |-> 0, resetAt |-> 0]

MarketTypeOK ==
  /\ EngineTypeOK
  /\ pc \in [Wallets -> Labels]
  /\ offer \in [Wallets -> Nat]
  /\ charged \in [Wallets -> Seq([value : Nat, shares : Seq(Nat)])]
  /\ outcome \in [Wallets -> Outcomes]
  /\ calls \in [Wallets -> 0..MaxCalls]
  /\ bucket \in [count : 0..RateLimit + 1, resetAt : Nat]
  /\ passes \in [0..MaxTime -> Nat]

ListPrice == deployment.base

Goto(w, label) == pc' = [pc EXCEPT ![w] = label]

\* The call ends for the wallet, whatever the server has done.
End(w, how) ==
  /\ outcome' = [outcome EXCEPT ![w] = how]
  /\ Goto(w, "idle")
  /\ UNCHANGED <<offer, charged, calls>>

-----------------------------------------------------------------------------
(* paidCall of the agent wallet. *)

\* The first request, without a payment.
Ask(w) ==
  /\ pc[w] = "idle" /\ calls[w] < MaxCalls
  /\ Goto(w, "asking")
  /\ calls' = [calls EXCEPT ![w] = @ + 1]
  /\ charged' = [charged EXCEPT ![w] = <<>>]
  /\ outcome' = [outcome EXCEPT ![w] = "none"]
  /\ offer' = [offer EXCEPT ![w] = 0]
  /\ UNCHANGED <<engine, limiter>>

\* The challenge does not parse, the balance is too low, or signing fails.
GiveUp(w) ==
  /\ pc[w] = "signing"
  /\ End(w, "given up")
  /\ UNCHANGED <<engine, limiter>>

\* Signed for the price of the challenge, and sent.
Sign(w) ==
  /\ pc[w] = "signing"
  /\ Goto(w, "paying")
  /\ UNCHANGED <<engine, limiter, offer, charged, outcome, calls>>

\* The second answer, and what the wallet makes of it: PAYMENT_RETRY_FAILED for a
\* 402, the body for anything else.
Receive(w) ==
  /\ pc[w] \in {"rejected", "served", "limited"}
  /\ End(w, IF pc[w] = "rejected" THEN "refused" ELSE pc[w])
  /\ UNCHANGED <<engine, limiter>>

\* A request or its answer is lost: NETWORK_ERROR, and no further try.
Lose(w) ==
  /\ pc[w] \in {"asking", "paying", "rejected", "booked", "served", "limited"}
  /\ End(w, "network error")
  /\ UNCHANGED <<engine, limiter>>

-----------------------------------------------------------------------------
(* The server. *)

\* POST /api/price_quote.  No later step looks at the quote.
Negotiate(r) ==
  /\ Issue(r)
  /\ UNCHANGED <<wallet, limiter>>

LookUp(q) ==
  /\ Consume(q)
  /\ UNCHANGED <<wallet, limiter>>

\* 402 with the price of the endpoint, a quote or not.
Challenge(w) ==
  /\ pc[w] = "asking"
  /\ Goto(w, "signing")
  /\ offer' = [offer EXCEPT ![w] = ListPrice]
  /\ UNCHANGED <<engine, limiter, charged, outcome, calls>>

\* mistake: a value that differs from the price is refused after it is booked
VerifyLate(w) ==
  /\ pc[w] = "paying"
  /\ \/ Goto(w, IF offer[w] = ListPrice THEN "booked" ELSE "rejected")
        /\ charged' = [charged EXCEPT ![w] =
             Append(@, [value |-> offer[w], shares |-> Shares(offer[w], Splits)])]
     \/ Goto(w, "rejected") /\ UNCHANGED charged
  /\ UNCHANGED <<engine, limiter, offer, outcome, calls>>

\* verifyPayment wants the value to be the price in force, and may refuse for
\* another reason; what it accepts is booked, unless the tables fail.
Verify(w) ==
  /\ pc[w] = "paying"
  /\ \/ /\ offer[w] = ListPrice
        /\ Goto(w, "booked")
        /\ charged' = [charged EXCEPT ![w] =
             Append(@, [value |-> ListPrice, shares |-> Shares(ListPrice, Splits)])]
     \/ offer[w] = ListPrice /\ Goto(w, "booked") /\ UNCHANGED charged
     \/ Goto(w, "rejected") /\ UNCHANGED charged
  /\ UNCHANGED <<engine, limiter, offer, outcome, calls>>

\* mistake: the end of the window is given without its start
CountCallWindowless ==
  IF bucket.resetAt <= now
  THEN bucket' = [count |-> 1, resetAt |-> RateWindow]
  ELSE bucket' = [bucket EXCEPT !.count = IF @ > RateLimit THEN @ ELSE @ + 1]

\* rateLimit: a new bucket after the window of the last one, otherwise one more in
\* it.  (Counts above the limit act alike.)
CountCall ==
  IF bucket.resetAt <= now
  THEN bucket' = [count |-> 1, resetAt |-> now + RateWindow]
  ELSE bucket' = [bucket EXCEPT !.count = IF @ > RateLimit THEN @ ELSE @ + 1]

Admitted == bucket'.count <= RateLimit

RateLimited ==
  /\ CountCall
  /\ passes' = IF Admitted THEN [passes EXCEPT ![now] = @ + 1] ELSE passes

\* The endpoint: 429 above the limit, the result below it.
Serve(w) ==
  /\ pc[w] = "booked"
  /\ RateLimited
  /\ Goto(w, IF Admitted THEN "served" ELSE "limited")
  /\ UNCHANGED <<engine, offer, charged, outcome, calls>>

\* Another client behind the same address.
ServeOther ==
  /\ RateLimited
  /\ UNCHANGED <<engine, wallet>>

Clock == Tick /\ UNCHANGED <<wallet, limiter>>

\* Buckets go with the process; requests it was working on are never answered.
Restart ==
  /\ Redeploy
  /\ bucket' = NoBucket
  /\ passes' = [t \in 0..MaxTime |-> 0]
  /\ pc' = [w \in Wallets |-> IF pc[w] = "signing" THEN "signing" ELSE "idle"]
  /\ outcome' = [w \in Wallets |->
       IF pc[w] \in {"idle", "signing"} THEN outcome[w] ELSE "network error"]
  /\ UNCHANGED <<offer, charged, calls>>

-----------------------------------------------------------------------------
MarketInit ==
  /\ EngineInit
  /\ pc = [w \in Wallets |-> "idle"]
  /\ offer = [w \in Wallets |-> 0]
  /\ charged = [w \in Wallets |-> <<>>]
  /\ outcome = [w \in Wallets |-> "none"]
  /\ calls = [w \in Wallets |-> 0]
  /\ bucket = NoBucket
  /\ passes = [t \in 0..MaxTime |-> 0]

Buyer(w) == Ask(w) \/ GiveUp(w) \/ Sign(w) \/ Receive(w) \/ Lose(w)

Seller(w) == Challenge(w) \/ Verify(w) \/ Serve(w)

MarketNext ==
  \/ \E w \in Wallets : Buyer(w) \/ Seller(w)
  \/ \E r \in Requests : Negotiate(r)
  \/ \E q \in QuoteIds : LookUp(q)
  \/ ServeOther \/ Clock \/ Restart

MarketSpec == MarketInit /\ [][MarketNext]_marketVars

-----------------------------------------------------------------------------
(* Properties. *)

\* The wallet can believe its errors: a call is paid at most once, and one it gave up
\* or was refused is not paid at all, even across a restart with other prices.
ErrorsMeanUnpaid ==
  \A w \in Wallets :
    /\ Len(charged[w]) <= 1
    /\ outcome[w] \in {"given up", "refused"} => charged[w] = <<>>

\* The shares of a payment add up to its value, and none is off its part by as much
\* as one unit for each recipient.
SharesAddUp ==
  \A w \in Wallets : \A i \in DOMAIN charged[w] :
    LET c == charged[w][i] IN
    /\ FoldSeq(+, 0, c.shares) = c.value
    /\ \A j \in DOMAIN c.shares :
         Gap(c.shares[j] * Bps, c.value * Splits[j]) < Bps * Len(Splits)

\* Fixed windows let a caller exceed the limit, but any span as long as the window
\* has fewer than twice the limit: the first call of a bucket opens it.
RateOverrunIsBounded ==
  \A t \in 0..MaxTime :
    SumFunctionOnSet(passes, {s \in 0..MaxTime : t <= s /\ s < t + RateWindow})
      <= 2 * RateLimit - 1

\* "Never quote below floorPrice", whichever deployment the running server has: a
\* restart with another floor takes the quotes of the former one away.
NeverBelowFloor ==
  \A q \in QuoteIds : quote[q] # Nothing /\ deployment.floor # Nothing =>
    quote[q].price >= deployment.floor

-----------------------------------------------------------------------------
(* What the repository says of quotes and the code does not do. *)

\* "If buyer proposed a price within 10% of the resulting price, accept it.  Otherwise
\* counter with the policy price."  The code divides before it compares, so a proposal
\* almost eleven percent away is accepted too.
AcceptsWithinTenPercent ==
  \A q \in QuoteIds : quote[q] # Nothing =>
    LET policy == PolicyPrice(deployment, quote[q].asked)
        price == quote[q].price
    IN price \in {policy, deployment.floor} \/ 10 * Gap(price, policy) <= policy
=============================================================================
