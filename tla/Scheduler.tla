----------------------------- MODULE Scheduler -----------------------------
(***************************************************************************)
(* Schedules: the ScheduleStore of crates/berimor-storage/src/lib.rs and    *)
(* its two kinds of clients, Scheduler::run_gated of                       *)
(* crates/berimor-actors/src/scheduler.rs and the loop of                  *)
(* crates/berimor-cli/src/daemon.rs, which asks no gate.                   *)
(*                                                                         *)
(* Clients are OS processes or tasks over one database.  tick is one SQL    *)
(* transaction, hence one action; what a client holds of its result is in   *)
(* memory and dies with it.                                                *)
(***************************************************************************)
EXTENDS Integers, Sequences, FiniteSets

CONSTANTS Schedule,  \* identifiers
          Rows,      \* [id, next, interval] a caller may submit
          Once,      \* interval of a one-shot schedule (None)
          Gated,     \* clients that run run_gated
          Daemon,    \* clients that run run_daemon
          Horizon, MaxSubmit, MaxDeath, MaxSetBack,  \* bounds
          NoRow

Row  == [id : Schedule, next : Nat, interval : (Nat \ {0}) \cup {Once}]
Past == [edition : Nat, first : Nat, fired : Nat, last : Nat, started : SUBSET Nat]

\* What an instance assumes of its constants.
SchedulerAssumption ==
    /\ Rows \subseteq Row
    /\ IsFiniteSet(Schedule) /\ Once \notin Nat
    /\ {Horizon, MaxSubmit, MaxDeath, MaxSetBack} \subseteq Nat
    /\ Gated \cap Daemon = {}

VARIABLES throttled,  \* what is_throttled answers now (the dispatcher's queue)
          clock,      \* wall clock
          table,      \* [Schedule -> its row, or NoRow]
          polled,     \* [Gated -> the arguments of its tick_at_gated, or NoRow]
          todo,       \* [client -> fired schedules it has not come to yet]
          ended,      \* daemons that ended with an error
          past,       \* [Schedule -> since its last upsert: the first time, how often it
                      \*  fired, when it last did, which of these firings were run]
          latest,     \* the latest the clock has been
          submits, deaths, setbacks

schedules == <<clock, table, polled, todo, ended, past, latest, submits, deaths, setbacks>>

Client == Gated \cup Daemon

due(now) == {id \in Schedule : table[id] # NoRow /\ table[id].next <= now}

Nothing == [edition |-> 0, first |-> 0, fired |-> 0, last |-> 0, started |-> {}]

-----------------------------------------------------------------------------
(* ScheduleStore *)

\* An upsert replaces the row; past starts over.
upsert_schedule(r) ==
    /\ submits < MaxSubmit /\ submits' = submits + 1
    /\ table' = [table EXCEPT ![r.id] = r]
    /\ past' = [past EXCEPT ![r.id] = [Nothing EXCEPT !.edition = submits + 1, !.first = r.next]]
    /\ UNCHANGED <<clock, polled, todo, ended, latest, deaths, setbacks>>

cancel_schedule(id) ==
    /\ table[id] # NoRow
    /\ table' = [table EXCEPT ![id] = NoRow]
    /\ past' = [past EXCEPT ![id] = Nothing]
    /\ UNCHANGED <<clock, polled, todo, ended, latest, submits, deaths, setbacks>>

\* Bug: one interval further, so missed firings are made up for (the state
\* before audit 4.4).
one_interval(r, now) == [r EXCEPT !.next = @ + r.interval]

\* To the first time of the grid strictly after now.
advanced(r, now) ==
    LET missed == (now - r.next) \div r.interval + 1
    IN  [r EXCEPT !.next = @ + r.interval * missed]

\* A row that is due moves on, or is deleted if it fires once.
tick(now) ==
    LET fires == due(now)
    IN  /\ table' = [id \in Schedule |->
                        IF id \notin fires THEN table[id]
                        ELSE IF table[id].interval = Once THEN NoRow
                        ELSE advanced(table[id], now)]
        /\ past' = [id \in Schedule |->
                        IF id \in fires THEN [past[id] EXCEPT !.fired = @ + 1, !.last = now]
                        ELSE past[id]]

\* SELECT ... ORDER BY next_fire_ms, ties in any order.
InOrder(S) == {q \in [1..Cardinality(S) -> S] :
                  \A i, j \in DOMAIN q : i < j => /\ q[i] # q[j]
                                                  /\ table[q[i]].next <= table[q[j]].next}

\* The firing of a schedule that a tick hands out.
Firing(id) == [id |-> id, edition |-> past[id].edition, n |-> past[id].fired + 1]

\* A client takes what is due.
takes_due(c, now) ==
    /\ tick(now)
    /\ \E q \in InOrder(due(now)) :
          todo' = [todo EXCEPT ![c] = [k \in DOMAIN q |-> Firing(q[k])]]

-----------------------------------------------------------------------------
(* run_gated *)

\* The arguments of tick_at_gated are read before the store is asked.
polls(g) ==
    /\ todo[g] = <<>> /\ polled[g] = NoRow
    /\ polled' = [polled EXCEPT ![g] = [now |-> clock, throttled |-> throttled]]
    /\ UNCHANGED <<clock, table, todo, ended, past, latest, submits, deaths, setbacks>>

\* Bug: the schedules are taken from the store before the gate is looked at.
tick_then_ask(g) == tick(polled[g].now) /\ UNCHANGED todo

\* A closed gate only reads what is due.
leaves_due(g) == UNCHANGED <<table, past, todo>>

\* A storage error is dropped: the next tick tries again.
tick_at_gated(g) ==
    /\ polled[g] # NoRow
    /\ polled' = [polled EXCEPT ![g] = NoRow]
    /\ \/ polled[g].throttled /\ leaves_due(g)
       \/ ~polled[g].throttled /\ takes_due(g, polled[g].now)
    /\ UNCHANGED <<clock, ended, latest, submits, deaths, setbacks>>

tick_fails(g) ==
    /\ polled[g] # NoRow
    /\ polled' = [polled EXCEPT ![g] = NoRow]
    /\ UNCHANGED <<clock, table, todo, ended, past, latest, submits, deaths, setbacks>>

-----------------------------------------------------------------------------
(* run_daemon *)

daemon_ticks(d) ==
    /\ d \notin ended /\ todo[d] = <<>>
    /\ takes_due(d, clock)
    /\ UNCHANGED <<clock, polled, ended, latest, submits, deaths, setbacks>>

\* A storage error, another client's write among them, ends the daemon.
daemon_fails(d) ==
    /\ d \notin ended /\ todo[d] = <<>>
    /\ ended' = ended \cup {d}
    /\ UNCHANGED <<clock, table, polled, todo, past, latest, submits, deaths, setbacks>>

-----------------------------------------------------------------------------
(* Both *)

\* The past p of f's schedule once f was run.
Ran(p, f) == IF p.edition = f.edition THEN [p EXCEPT !.started = @ \cup {f.n}] ELSE p

\* on_fire, or run::run of the schedule's process: one after the other.
on_fire(c) ==
    /\ todo[c] # <<>>
    /\ LET f == Head(todo[c]) IN past' = [past EXCEPT ![f.id] = Ran(@, f)]
    /\ todo' = [todo EXCEPT ![c] = Tail(@)]
    /\ UNCHANGED <<clock, table, polled, ended, latest, submits, deaths, setbacks>>

\* A client dies and is started again; what it had fired and not run is gone.
crash(c) ==
    /\ deaths < MaxDeath /\ deaths' = deaths + 1
    /\ todo' = [todo EXCEPT ![c] = <<>>]
    /\ polled' = [g \in Gated |-> IF g = c THEN NoRow ELSE polled[g]]
    /\ ended' = ended \ {c}
    /\ UNCHANGED <<clock, table, past, latest, submits, setbacks>>

time_passes ==
    /\ clock < Horizon /\ clock' = clock + 1
    /\ latest' = IF clock' > latest THEN clock' ELSE latest
    /\ UNCHANGED <<table, polled, todo, ended, past, submits, deaths, setbacks>>

\* SystemTime is not monotonic.
clock_set_back ==
    /\ setbacks < MaxSetBack /\ setbacks' = setbacks + 1
    /\ clock > 0 /\ clock' = clock - 1
    /\ UNCHANGED <<table, polled, todo, ended, past, latest, submits, deaths>>

-----------------------------------------------------------------------------
SchedulerInit ==
    /\ clock = 0 /\ latest = 0
    /\ table = [id \in Schedule |-> NoRow]
    /\ polled = [g \in Gated |-> NoRow]
    /\ todo = [c \in Client |-> <<>>]
    /\ ended = {}
    /\ past = [id \in Schedule |-> Nothing]
    /\ submits = 0 /\ deaths = 0 /\ setbacks = 0

SchedulerNext ==
    \/ \E r \in Rows : upsert_schedule(r)
    \/ \E id \in Schedule : cancel_schedule(id)
    \/ \E g \in Gated : polls(g) \/ tick_at_gated(g) \/ tick_fails(g)
    \/ \E d \in Daemon : daemon_ticks(d) \/ daemon_fails(d)
    \/ \E c \in Client : on_fire(c) \/ crash(c)
    \/ time_passes \/ clock_set_back

SchedulerSpec == SchedulerInit /\ [][SchedulerNext]_schedules

-----------------------------------------------------------------------------
(* Properties *)

\* Every variable stays in its type (table schedules, run_gated, run_daemon).
SchedulerTypeOK ==
    /\ table \in [Schedule -> Row \cup {NoRow}]
    /\ clock \in 0..latest /\ latest \in Nat /\ submits \in Nat
    /\ past \in [Schedule -> Past]
    /\ todo \in [Client -> Seq([id : Schedule, edition : Nat, n : Nat])]
    /\ DOMAIN polled = Gated
    /\ \A g \in Gated : polled[g] # NoRow => polled[g].now \in 0..latest /\ todo[g] = <<>>

\* A recurring schedule keeps the grid of its first time, fires once per time of
\* the grid at most, waits for the next one only, and that one lies after the
\* moment it last fired: no double firing by two clients, no storm after a
\* pause, also when the clock is set back (ScheduleStore::tick, audit 4.4).
GridKept ==
    \A id \in Schedule : table[id] # NoRow /\ table[id].interval # Once =>
        LET r == table[id]
            p == past[id]
        IN  /\ (r.next - p.first) % r.interval = 0
            /\ r.next >= p.first + p.fired * r.interval
            /\ p.fired > 0 => r.next > p.last /\ r.next - r.interval <= latest

\* A firing of the schedule as it was last submitted.
Mine(id, f) == f.id = id /\ f.edition = past[id].edition

\* No firing is run twice: what waits to be run was fired, was not run, and waits
\* with one client only; a schedule that fires once does not fire again.
StartedOnce ==
    \A id \in Schedule :
        /\ past[id].started \subseteq 1..past[id].fired
        /\ \A c \in Client : \A k \in DOMAIN todo[c] : Mine(id, todo[c][k]) =>
              /\ todo[c][k].n \in (1..past[id].fired) \ past[id].started
              /\ \A d \in Client : \A l \in DOMAIN todo[d] :
                    Mine(id, todo[d][l]) /\ todo[d][l].n = todo[c][k].n => c = d /\ k = l
        /\ table[id] # NoRow /\ table[id].interval = Once => past[id].fired = 0

\* Recurring schedules keep their grid, and no firing is run twice, whoever of the
\* clients takes it (ScheduleStore::tick is one transaction).
SchedulesAreKept == GridKept /\ StartedOnce

\* In the end nothing is due that has not fired and nothing has fired that has
\* not been run, however often the gate closed in between; only a client that
\* dies between its tick and the run loses a firing (process-engine.md section
\* 5: throttled schedules are "neither cancelled nor ticking idly"; daemon.rs).
DueIsStarted ==
    []<>(\/ deaths > 0
         \/ \A id \in Schedule :
               id \notin due(clock) /\ past[id].started = 1..past[id].fired)
=============================================================================
