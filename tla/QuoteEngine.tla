---------------------------- MODULE QuoteEngine ----------------------------
(***************************************************************************)
(* The negotiation engine behind POST /api/price_quote: a quote is priced  *)
(* by a policy, kept in memory for a validity window, looked up by its id, *)
(* and swept out after it has expired once more than MaxKept are held.     *)
(* The engine lives as long as the process of the seller server.           *)
(***************************************************************************)
EXTENDS Money, FiniteSets

CONSTANTS
  Deployments,  \* [base, tiers, overrides, floor] the seller may be started with
  Requests,     \* [volume, buyer, proposed] that buyers may send
  Nothing,      \* a field of a request or a deployment that is not given
  QuoteIds,     \* 1..n: the quotes that may be issued (a bound)
  Validity,     \* validityWindowSec
  MaxKept,      \* quotes above which the engine sweeps: 1000 in the code
  MaxTime       \* bound: seconds

ASSUME QuoteAssumption ==
  /\ QuoteIds \subseteq Nat /\ Validity \in Nat /\ MaxKept \in Nat /\ MaxTime \in Nat
  /\ Nothing \notin Nat
  /\ \A d \in Deployments :
       /\ d.base \in Nat /\ d.floor \in Nat \cup {Nothing}
       /\ IsFiniteSet(d.tiers)
       /\ \A t \in d.tiers : t.minVolume \in Nat /\ t.discountBps \in 0..Bps
       /\ \A b \in DOMAIN d.overrides : d.overrides[b] \in Nat
  /\ \A r \in Requests : r.volume \in Nat \cup {Nothing} /\ r.proposed \in Nat \cup {Nothing}

VARIABLES
  now,          \* seconds
  deployment,   \* what the running server was started with
  quote,        \* each quote issued since the start, or Nothing
  kept          \* ids in the engine's map

engine == <<now, deployment, quote, kept>>

Quotes == [asked : Requests, price : Nat, expires_at : Nat]

ASSUME NothingAssumption == Nothing \notin Quotes

EngineTypeOK ==
  /\ now \in 0..MaxTime
  /\ deployment \in Deployments
  /\ quote \in [QuoteIds -> Quotes \cup {Nothing}]
  /\ kept \subseteq {q \in QuoteIds : quote[q] # Nothing}

EngineInit ==
  /\ now = 0
  /\ deployment \in Deployments
  /\ quote = [q \in QuoteIds |-> Nothing]
  /\ kept = {}

-----------------------------------------------------------------------------
(* The price of a quote. *)

\* The best tier whose volume is reached.
Tiered(d, r) ==
  LET reached == {t \in d.tiers : r.volume # Nothing /\ r.volume >= t.minVolume}
  IN IF reached = {} THEN d.base
     ELSE LET best == CHOOSE t \in reached : \A u \in reached : u.minVolume <= t.minVolume
          IN ApplyDiscountBps(d.base, best.discountBps)

\* A buyer with a price of its own gets that.
PolicyPrice(d, r) ==
  IF r.buyer \in DOMAIN d.overrides THEN d.overrides[r.buyer] ELSE Tiered(d, r)

Accepted(d, r) ==
  IF r.proposed # Nothing /\ WithinTenPercent(r.proposed, PolicyPrice(d, r))
  THEN r.proposed
  ELSE PolicyPrice(d, r)

\* mistake: the floor is applied to the policy price, and then the proposal
QuotedFloorFirst(d, r) ==
  LET policy == PolicyPrice(d, r)
      lifted == IF d.floor # Nothing /\ policy < d.floor THEN d.floor ELSE policy
  IN IF r.proposed # Nothing /\ WithinTenPercent(r.proposed, lifted)
     THEN r.proposed ELSE lifted

Quoted(d, r) ==
  IF d.floor # Nothing /\ Accepted(d, r) < d.floor THEN d.floor ELSE Accepted(d, r)

-----------------------------------------------------------------------------
(* The life of a quote. *)

\* gc(): what has expired goes.
Sweep(ids) == {q \in ids : now <= quote[q].expires_at}

\* quote(): priced, put into the map, and the map swept when it is too large (the
\* new quote is not expired).
Issue(r) ==
  \E q \in QuoteIds :
    /\ quote[q] = Nothing
    /\ \A p \in QuoteIds : p < q => quote[p] # Nothing
    /\ quote' = [quote EXCEPT ![q] =
         [asked |-> r, price |-> Quoted(deployment, r), expires_at |-> now + Validity]]
    /\ kept' = {q} \cup IF Cardinality(kept) >= MaxKept THEN Sweep(kept) ELSE kept
    /\ UNCHANGED <<now, deployment>>

\* consume(): an expired quote is dropped and not found, another stays as it is.
Consume(q) ==
  /\ q \in kept
  /\ now > quote[q].expires_at
  /\ kept' = kept \ {q}
  /\ UNCHANGED <<now, deployment, quote>>

Tick ==
  /\ now < MaxTime
  /\ now' = now + 1
  /\ UNCHANGED <<deployment, quote, kept>>

\* The server is started again, perhaps with other prices; its quotes are gone.
Redeploy ==
  /\ deployment' \in Deployments
  /\ quote' = [q \in QuoteIds |-> Nothing]
  /\ kept' = {}
  /\ UNCHANGED now
=============================================================================
