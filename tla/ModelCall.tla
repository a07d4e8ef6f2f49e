------------------------------- MODULE ModelCall -------------------------------
(***************************************************************************)
(* One run's calls to models: the pool ranks its entries for a requirement   *)
(* (model-pool/src/lib.rs), the failover walks down the ranking              *)
(* (executors/src/failover.rs), and all callers share one registry of        *)
(* breakers (types/src/model.rs).  The registry's lock is held for each      *)
(* question and each record, never across the call in between.               *)
(***************************************************************************)
EXTENDS Integers, Sequences, FiniteSets

CONSTANTS Caller,     \* steps and subagents that call at the same time
          Entry,      \* the pool: name, tier, remote, cost, latency
          Config,     \* starts: breaker_failures, breaker_cooldown, wired (providers with a client)
          MaxNow,     \* bound: the clock
          MaxFailures \* bound: the failures in a row that are counted

VARIABLES
    config,     \* what the run was started with
    failures,   \* provider -> failures in a row
    opened_at,  \* provider -> when its breaker opened, or Closed
    caller,     \* caller -> its walk down the ranking
    now

call_vars == <<config, failures, opened_at, caller, now>>

Closed == -1
Tiers == [Weak |-> 1, Medium |-> 2, Strong |-> 3, Any |-> 1]
Providers == {Entry[i].name : i \in DOMAIN Entry}
EntryOf(p) == CHOOSE i \in DOMAIN Entry : Entry[i].name = p
Unmeasured == 0

\* An entry is found by its provider's name, so a name is one entry's; failures are
\* counted at least to the threshold.
CallAssumption ==
    /\ Entry \in Seq([name : STRING, tier : Nat, remote : BOOLEAN, cost : Nat, latency : Nat])
    /\ \A i, j \in DOMAIN Entry : Entry[i].name = Entry[j].name => i = j
    /\ MaxFailures \in Nat
    /\ \A c \in Config : c.breaker_failures \in 0..MaxFailures

\* breaker_failures = 0 in the configuration: a threshold nobody reaches (run.rs).
breaker_policy ==
    IF config.breaker_failures > 0
      THEN [threshold |-> config.breaker_failures, cooldown |-> config.breaker_cooldown]
      ELSE [threshold |-> MaxFailures + 2, cooldown |-> 0]

-----------------------------------------------------------------------------
(* ModelPool::select_ranked *)

\* Bug: a requirement is a preference.
any_tier(i, requirement) == TRUE
strong_enough(i, requirement) == Entry[i].tier >= Tiers[requirement]

\* Only a measured latency can exclude; no budget excludes nothing.
within_budget(i, budget) == budget = Unmeasured \/ Entry[i].latency = Unmeasured \/ Entry[i].latency <= budget

\* Local before remote, then the price, then the order of registration.
ranks_before(i, j) ==
    LET a == Entry[i]  b == Entry[j]
    IN  \/ ~a.remote /\ b.remote
        \/ a.remote = b.remote /\ (a.cost < b.cost \/ (a.cost = b.cost /\ i < j))

Eligible(requirement, budget) ==
    {i \in DOMAIN Entry : strong_enough(i, requirement) /\ within_budget(i, budget)}

\* The sort: the n-th of E is the one that n - 1 others rank before.
rank(i, E) == Cardinality({j \in E : ranks_before(j, i)}) + 1
ranked_at(n, E) == CHOOSE i \in E : rank(i, E) = n

select_ranked(requirement, budget) ==
    LET E == Eligible(requirement, budget)
    IN  [n \in 1 .. Cardinality(E) |-> Entry[ranked_at(n, E)].name]
-----------------------------------------------------------------------------
(* BreakerRegistry *)

is_available(p) == opened_at[p] = Closed \/ now - opened_at[p] >= breaker_policy.cooldown

record_success(p) ==
    /\ failures' = [failures EXCEPT ![p] = 0]
    /\ opened_at' = [opened_at EXCEPT ![p] = Closed]

\* Only an empty opened_at is set, so a failed probe leaves the old time.
record_failure(p) ==
    /\ failures' = [failures EXCEPT ![p] = IF @ < MaxFailures THEN @ + 1 ELSE @]
    /\ opened_at' =
         IF failures[p] + 1 >= breaker_policy.threshold /\ opened_at[p] = Closed
           THEN [opened_at EXCEPT ![p] = now] ELSE opened_at

-----------------------------------------------------------------------------
(* The calls.  A caller is idle, at the next candidate of "ranked", "calling" the first   *)
(* of them, calling its "only" one, or at an end.                                          *)

Walk(at, requirement, budget, ranked) ==
    [at |-> at, asks |-> requirement, budget |-> budget, ranked |-> ranked, tried |-> {}, skipped |-> {}]
Idle == Walk("idle", "Any", Unmeasured, <<>>)
skips(w) == [w EXCEPT !.ranked = Tail(w.ranked), !.skipped = w.skipped \cup {Head(w.ranked)}]
tries_next(w) == [w EXCEPT !.at = "next", !.ranked = Tail(w.ranked), !.tried = w.tried \cup {Head(w.ranked)}]

goes(c, at) == caller' = [caller EXCEPT ![c].at = at]
Candidate(c) == Head(caller[c].ranked)

\* Every candidate needs a client, or the step fails before any call (select_provider,
\* AgentStep::execute).
begins(c, requirement, budget) ==
    LET ranked == select_ranked(requirement, budget)
        at == IF ranked = <<>> THEN "no_provider"
              ELSE IF {ranked[n] : n \in DOMAIN ranked} \subseteq config.wired THEN "next" ELSE "not_wired"
    IN /\ caller[c].at = "idle"
       /\ caller' = [caller EXCEPT ![c] = Walk(at, requirement, budget, ranked)]
       /\ UNCHANGED <<config, failures, opened_at, now>>

\* A subagent of class strong checks that there is a strong provider; its loop then asks
\* for any (run_agent_scoped).
subagent_begins(c) ==
    /\ select_ranked("Strong", Unmeasured) # <<>> /\ begins(c, "Any", Unmeasured)

\* CodeAct selects one provider and calls it without the failover and its breaker.
codeact_begins(c, requirement, budget) ==
    LET ranked == select_ranked(requirement, budget)
        at == IF ranked = <<>> THEN "no_provider"
              ELSE IF Head(ranked) \in config.wired THEN "only" ELSE "not_wired"
    IN /\ caller[c].at = "idle"
       /\ caller' = [caller EXCEPT ![c] = Walk(at, requirement, budget, ranked)]
       /\ UNCHANGED <<config, failures, opened_at, now>>

asks(c) ==
    /\ caller[c].at = "next" /\ caller[c].ranked # <<>>
    /\ IF is_available(Candidate(c))
         THEN goes(c, "calling")
         ELSE caller' = [caller EXCEPT ![c] = skips(@)]
    /\ UNCHANGED <<config, failures, opened_at, now>>

answered(c) ==
    /\ caller[c].at = "calling" /\ record_success(Candidate(c))
    /\ goes(c, "answered")
    /\ UNCHANGED <<config, now>>

\* The provider, or a subagent's DeadlineProvider whose time is over (agent_dispatch.rs),
\* says Unavailable.
unavailable(c) ==
    /\ caller[c].at = "calling" /\ record_failure(Candidate(c))
    /\ caller' = [caller EXCEPT ![c] = tries_next(@)]
    /\ UNCHANGED <<config, now>>

\* BudgetExceeded is nobody else's to repair.
refused(c) ==
    /\ caller[c].at = "calling" /\ goes(c, "refused")
    /\ UNCHANGED <<config, failures, opened_at, now>>

exhausted(c) ==
    /\ caller[c].at = "next" /\ caller[c].ranked = <<>> /\ goes(c, "unavailable")
    /\ UNCHANGED <<config, failures, opened_at, now>>

\* The only provider's error is the step's.
only_ends(c) ==
    /\ caller[c].at = "only" /\ \E at \in {"answered", "failed"} : goes(c, at)
    /\ UNCHANGED <<config, failures, opened_at, now>>

again(c) ==
    /\ caller[c].at \notin {"idle", "next", "calling", "only"}
    /\ caller' = [caller EXCEPT ![c] = Idle]
    /\ UNCHANGED <<config, failures, opened_at, now>>

tick == now < MaxNow /\ now' = now + 1
        /\ UNCHANGED <<config, failures, opened_at, caller>>

CallInit ==
    /\ config \in Config
    /\ failures = [p \in Providers |-> 0] /\ opened_at = [p \in Providers |-> Closed]
    /\ caller = [c \in Caller |-> Idle] /\ now = 0

CallNext ==
    \/ tick
    \/ \E c \in Caller :
          \/ \E requirement \in {"Any", "Strong"}, budget \in {Unmeasured, 5} :
                begins(c, requirement, budget) \/ codeact_begins(c, requirement, budget)
          \/ subagent_begins(c) \/ only_ends(c)
          \/ asks(c) \/ answered(c) \/ unavailable(c) \/ refused(c) \/ exhausted(c) \/ again(c)

CallSpec == CallInit /\ [][CallNext]_call_vars

-----------------------------------------------------------------------------
(* Properties *)

\* No silent downgrade: whoever answers, after however many failures, has the tier that
\* was asked for and is not known to be too slow (select_ranked, complete).
NoDowngrade ==
    \A c \in Caller : caller[c].at = "answered" =>
        EntryOf(Candidate(c)) \in Eligible(caller[c].asks, caller[c].budget)
        /\ Entry[EntryOf(Candidate(c))].tier >= Tiers[caller[c].asks]

\* A call of the failover reports Unavailable only when each eligible entry failed in this
\* very call or was resting; a caller never gives up while a candidate is left.
EveryCandidateHeard ==
    \A c \in Caller : caller[c].at = "unavailable" =>
        \A i \in Eligible(caller[c].asks, caller[c].budget) :
            Entry[i].name \in caller[c].tried \cup caller[c].skipped

\* A remote provider answers only when each eligible local one failed in this call or was
\* resting.
LocalBeforeRemote ==
    \A c \in Caller : caller[c].at = "answered" /\ Entry[EntryOf(Candidate(c))].remote =>
        \A i \in Eligible(caller[c].asks, caller[c].budget) :
            ~Entry[i].remote => Entry[i].name \in caller[c].tried \cup caller[c].skipped

\* A breaker rests a provider only after as many failures in a row as the policy says, and
\* never when it is switched off (record_failure, run.rs).
RestIsEarned ==
    \A p \in Providers : opened_at[p] # Closed =>
        config.breaker_failures \in 1..failures[p]

\* The failover keeps the tier, hears every candidate, asks local ones first and rests
\* only who failed.
ModelCallsRight == NoDowngrade /\ EveryCandidateHeard /\ LocalBeforeRemote /\ RestIsEarned
=============================================================================
