----------------------------- MODULE DaemonProofs -----------------------------
(***************************************************************************)
(* Proofs about what a daemon does and whom it meets.                       *)
(*                                                                         *)
(* InstanceLease, for any number of OS processes, steps, gates and deaths:   *)
(* its types, mutual exclusion under the lease, and that a run that starts   *)
(* from an outdated journal repeats steps but skips none.                   *)
(*                                                                         *)
(* Scheduler, for any table, any number of clients and any gate: throttled   *)
(* is a variable nothing is assumed of.  GridKept is arithmetic: the next     *)
(* time is the first plus a whole number of intervals, at least as many as    *)
(* the schedule fired.  StartedOnce follows the firings: the tick that hands  *)
(* one out numbers it with a number nobody holds and nobody ran.             *)
(***************************************************************************)
EXTENDS InstanceLease, Scheduler, WellFoundedInduction, FiniteSetTheorems, SequenceTheorems, TLAPS

-----------------------------------------------------------------------------
(* InstanceLease *)

LEMMA LeastExists ==
    ASSUME NEW S \in SUBSET Nat, S # {}
    PROVE  Least(S) \in S
<1>1. PICK x \in S : \A y \in S : ~(<<y, x>> \in OpToRel(<, Nat))
  BY WFMin, NatLessThanWellFounded
<1>2. OpToRel(<, Nat) = {ss \in Nat \X Nat : ss[1] < ss[2]}
  BY DEF OpToRel
<1>3. ASSUME NEW y \in S PROVE x <= y
  <2>1. x \in Nat /\ y \in Nat /\ <<y, x>> \in Nat \X Nat
    OBVIOUS
  <2>2. ~(y < x)
    BY <1>1, <1>2, <2>1
  <2>3. QED
    BY <2>1, <2>2
<1>4. QED
  BY <1>3 DEF Least

\* recover starts after a step the journal holds, or before the first.
LEMMA RestoredStep ==
    ASSUME NEW events \in Seq(Event)
    PROVE  \/ restored_step(events) = 0
           \/ \E i \in DOMAIN events : /\ events[i].kind = "StepApplied"
                                       /\ events[i].step = restored_step(events)
<1> DEFINE back == {k \in 0..(Len(events) - 1) :
                        events[Len(events) - k].kind = "StepApplied"}
<1>1. CASE back = {}
  BY <1>1 DEF restored_step
<1>2. CASE back # {}
  <2>1. Least(back) \in back
    <3>1. back \in SUBSET Nat
      OBVIOUS
    <3>2. QED
      BY <1>2, <3>1, LeastExists
  <2>2. Len(events) - Least(back) \in DOMAIN events
    <3>1. Least(back) \in 0..(Len(events) - 1)
      BY <2>1
    <3>2. Len(events) \in Nat /\ DOMAIN events = 1..Len(events)
      OBVIOUS
    <3> HIDE DEF back
    <3>3. QED
      BY <3>1, <3>2
  <2>3. restored_step(events) = events[Len(events) - Least(back)].step
    BY <1>2 DEF restored_step
  <2>4. QED
    BY <2>1, <2>2, <2>3
<1>3. QED
  BY <1>1, <1>2

LEMMA HappenedTyped ==
    ASSUME NEW kind \in {"Instantiated", "StepApplied", "HumanGateOpened", "HumanGateResolved"},
           NEW step \in 0..N
    PROVE  Happened(kind, step) \in Event
BY DEF Happened, Event

LEMMA RestoredTyped ==
    ASSUME NEW events \in Seq(Event)
    PROVE  restored_step(events) \in 0..N
<1>1. ASSUME NEW i \in DOMAIN events PROVE events[i].step \in 0..N
  <2>1. events[i] \in Event
    OBVIOUS
  <2>2. QED
    BY <2>1 DEF Event
<1>2. 0 \in 0..N
  BY LeaseAssumption
<1>3. QED
  BY <1>1, <1>2, RestoredStep

-----------------------------------------------------------------------------
(* Types and mutual exclusion *)

\* Who drives holds the lock; nothing else keeps two drivers apart.
DriverHoldsLease == \A p \in Proc : stands[p] \in Driving => lease = p

\* What is being executed is a step of the process, and no gate.
ExecutesAStep == \A p \in Proc : stands[p] = "executing" => pos[p] + 1 \in (1..N) \ Gates

LeaseInv == TypeOK /\ DriverHoldsLease /\ ExecutesAStep

LEMMA InitLease == LeaseInit => LeaseInv
BY LeaseAssumption DEF LeaseInit, LeaseInv, TypeOK, DriverHoldsLease, ExecutesAStep, Driving

LEMMA StepLease == LeaseInv /\ [LeaseNext]_lease_vars => LeaseInv'
<1> SUFFICES ASSUME LeaseInv, [LeaseNext]_lease_vars PROVE LeaseInv'
  OBVIOUS
<1> USE LeaseAssumption DEF LeaseInv, TypeOK, DriverHoldsLease, ExecutesAStep, GoesTo, MovesTo
<1>1. ASSUME NEW p \in Proc, instantiate(p) PROVE LeaseInv'
  <2>1. journal' \in Seq(Event)
    BY <1>1, HappenedTyped DEF instantiate
  <2>2. QED
    BY <1>1, <2>1 DEF instantiate, Starts, Driving
<1>2. ASSUME NEW p \in Proc, recover(p) PROVE LeaseInv'
  <2>1. restored_step(journal) \in 0..N
    BY RestoredTyped
  <2>2. QED
    BY <1>2, <2>1 DEF recover, Starts, Driving
<1>3. ASSUME NEW p \in Proc, acquires(p) PROVE LeaseInv'
  BY <1>3 DEF acquires, try_acquire_file_lease, Driving
<1>4. ASSUME NEW p \in Proc, run_enters(p) PROVE LeaseInv'
  <2>1. journal' \in Seq(Event)
    BY <1>4, HappenedTyped DEF run_enters
  <2>2. QED
    BY <1>4, <2>1 DEF run_enters, Driving
<1>5. ASSUME NEW p \in Proc, run_finishes(p) PROVE LeaseInv'
  BY <1>5 DEF run_finishes, Driving
<1>6. ASSUME NEW p \in Proc, human_gate(p) PROVE LeaseInv'
  <2>1. pos[p] + 1 \in 0..N
    BY <1>6 DEF human_gate
  <2>2. journal' \in Seq(Event)
    BY <1>6, <2>1, HappenedTyped DEF human_gate
  <2>3. QED
    BY <1>6, <2>1, <2>2 DEF human_gate, Driving
<1>7. ASSUME NEW p \in Proc, executes(p) PROVE LeaseInv'
  BY <1>7 DEF executes, Driving
<1>8. ASSUME NEW p \in Proc, step_applied(p) PROVE LeaseInv'
  BY <1>8, HappenedTyped DEF step_applied, Driving
<1>9. ASSUME NEW p \in Proc, answered(p) PROVE LeaseInv'
  BY <1>9 DEF answered, Driving
<1>10. ASSUME NEW p \in Proc, returns(p) PROVE LeaseInv'
  BY <1>10 DEF returns, Unlocks, Driving
<1>11. ASSUME NEW p \in Proc, killed(p) PROVE LeaseInv'
  BY <1>11 DEF killed, Unlocks, Driving
<1>12. CASE UNCHANGED lease_vars
  BY <1>12 DEF lease_vars
<1>13. QED
  BY <1>1, <1>2, <1>3, <1>4, <1>5, <1>6, <1>7, <1>8, <1>9, <1>10, <1>11, <1>12
  DEF LeaseNext, drives

\* No two processes drive the instance at once, however many there are and
\* whenever they die (instance_lock.rs, audit 1.11).
THEOREM MutualExclusion == LeaseSpec => []OneDriver
<1>1. LeaseInv => OneDriver
  BY DEF LeaseInv, DriverHoldsLease, OneDriver
<1>2. QED
  BY <1>1, InitLease, StepLease, PTL DEF LeaseSpec

-----------------------------------------------------------------------------
(* What a late run may repeat, and what it may not skip *)

Journalled(s) == \E j \in DOMAIN journal : journal[j] = Happened("StepApplied", s)

\* A run knows of no step as done that the journal does not hold.
KnownIsJournalled == \A p \in Proc : \A s \in (1..pos[p]) \ Gates : Journalled(s)

OrderInv == LeaseInv /\ NoStepSkipped /\ KnownIsJournalled /\ FinishedIsComplete

LEMMA InitOrder == LeaseInit => OrderInv
<1> SUFFICES ASSUME LeaseInit PROVE OrderInv
  OBVIOUS
<1>1. LeaseInv
  BY InitLease
<1>2. journal = <<>> /\ \A p \in Proc : pos[p] = 0 /\ stands[p] = "idle"
  BY DEF LeaseInit
<1>3. NoStepSkipped /\ FinishedIsComplete
  BY <1>2 DEF NoStepSkipped, FinishedIsComplete
<1>4. KnownIsJournalled
  <2>1. \A s : s \notin 1..0
    OBVIOUS
  <2>2. QED
    BY <1>2, <2>1 DEF KnownIsJournalled
<1>5. QED
  BY <1>1, <1>3, <1>4 DEF OrderInv

\* The journal only grows: what it holds stays, and an appended step must follow
\* the steps before it.
LEMMA JournalGrows ==
    ASSUME TypeOK, NoStepSkipped,
           NEW e \in Event, journal' = journal \/ journal' = Append(journal, e),
           e.kind = "StepApplied" =>
               \A s \in (1..(e.step - 1)) \ Gates : Journalled(s)
    PROVE  NoStepSkipped' /\ \A s : Journalled(s) => Journalled(s)'
<1>1. /\ DOMAIN journal = 1..Len(journal) /\ Len(journal) \in Nat
      /\ \A i \in DOMAIN journal : i \in DOMAIN journal' /\ journal'[i] = journal[i]
      /\ \A i \in DOMAIN journal' : \/ i \in DOMAIN journal
                                    \/ i = Len(journal) + 1 /\ journal'[i] = e
  <2>1. journal \in Seq(Event)
    BY DEF TypeOK
  <2>2. CASE journal' = journal
    BY <2>1, <2>2
  <2>3. CASE journal' = Append(journal, e)
    <3>1. Len(journal') = Len(journal) + 1 /\ DOMAIN journal' = 1..(Len(journal) + 1)
      BY <2>1, <2>3
    <3>2. \A i \in 1..Len(journal) : journal'[i] = journal[i]
      BY <2>1, <2>3
    <3>3. journal'[Len(journal) + 1] = e
      BY <2>1, <2>3
    <3>4. QED
      BY <2>1, <3>1, <3>2, <3>3
  <2>4. QED
    BY <2>2, <2>3
<1>2. \A s : Journalled(s) => Journalled(s)'
  BY <1>1 DEF Journalled
<1>3. ASSUME NEW i \in DOMAIN journal', journal'[i].kind = "StepApplied",
             NEW s \in (1..(journal'[i].step - 1)) \ Gates
      PROVE  \E j \in 1..(i - 1) : journal'[j] = Happened("StepApplied", s)
  <2>1. CASE i \in DOMAIN journal
    <3>1. journal'[i] = journal[i]
      BY <1>1, <2>1
    <3>2. PICK j \in 1..(i - 1) : journal[j] = Happened("StepApplied", s)
      BY <1>3, <2>1, <3>1 DEF NoStepSkipped
    <3>3. j \in DOMAIN journal
      BY <1>1, <2>1, <3>2
    <3>4. QED
      BY <1>1, <3>2, <3>3
  <2>2. CASE i = Len(journal) + 1 /\ journal'[i] = e
    <3>1. Journalled(s)
      BY <1>3, <2>2
    <3>2. PICK j \in DOMAIN journal : journal[j] = Happened("StepApplied", s)
      BY <3>1 DEF Journalled
    <3>3. j \in 1..(i - 1)
      BY <1>1, <2>2, <3>2
    <3>4. QED
      BY <1>1, <3>2, <3>3
  <2>3. QED
    BY <1>1, <2>1, <2>2
<1>4. NoStepSkipped'
  BY <1>3 DEF NoStepSkipped
<1>5. QED
  BY <1>2, <1>4

LEMMA StepOrder == OrderInv /\ [LeaseNext]_lease_vars => OrderInv'
<1> SUFFICES ASSUME OrderInv, [LeaseNext]_lease_vars PROVE OrderInv'
  OBVIOUS
<1>0. LeaseInv'
  BY StepLease DEF OrderInv
<1> USE DEF OrderInv
<1>a. TypeOK /\ TypeOK'
  BY <1>0 DEF LeaseInv
<1>b. ASSUME NoStepSkipped', \A s : Journalled(s) => Journalled(s)',
             \A p \in Proc : pos'[p] # pos[p] =>
                 \A s \in (1..pos'[p]) \ Gates : Journalled(s)',
             \A p \in Proc : stands'[p] = "finished" => stands[p] = "finished" \/ pos[p] = N
      PROVE  OrderInv'
  <2>1. KnownIsJournalled'
    BY <1>b DEF KnownIsJournalled
  <2>2. FinishedIsComplete'
    BY <1>b DEF FinishedIsComplete, KnownIsJournalled, Journalled
  <2>3. QED
    BY <1>0, <1>b, <2>1, <2>2
<1>c. ASSUME UNCHANGED journal
      PROVE  NoStepSkipped' /\ \A s : Journalled(s) => Journalled(s)'
  BY <1>c DEF NoStepSkipped, Journalled
<1>d. ASSUME NEW p \in Proc, pos' = [pos EXCEPT ![p] = 0]
      PROVE  \A r \in Proc : pos'[r] # pos[r] => \A s \in (1..pos'[r]) \ Gates : Journalled(s)'
  BY <1>a, <1>d DEF TypeOK
<1>1. ASSUME NEW p \in Proc, instantiate(p) PROVE OrderInv'
  <2>1. Happened("Instantiated", 0) \in Event /\ Happened("Instantiated", 0).kind # "StepApplied"
    BY HappenedTyped, LeaseAssumption DEF Happened
  <2>2. journal' = Append(journal, Happened("Instantiated", 0))
    BY <1>1 DEF instantiate
  <2>3. NoStepSkipped' /\ \A s : Journalled(s) => Journalled(s)'
    BY <1>a, <2>1, <2>2, JournalGrows
  <2>4. QED
    BY <1>1, <1>a, <1>b, <1>d, <2>3 DEF instantiate, Starts, GoesTo, MovesTo, TypeOK
<1>2. ASSUME NEW p \in Proc, recover(p) PROVE OrderInv'
  <2> DEFINE r == restored_step(journal)
  <2>1. \A s \in (1..r) \ Gates : Journalled(s)
    <3>1. CASE r = 0
      BY <3>1
    <3>2. CASE \E i \in DOMAIN journal : journal[i].kind = "StepApplied" /\ journal[i].step = r
      <4>1. PICK i \in DOMAIN journal : journal[i].kind = "StepApplied" /\ journal[i].step = r
        BY <3>2
      <4>2. journal[i] = Happened("StepApplied", r) /\ r \in Int
        <5>1. journal[i] \in Event
          BY <1>a DEF TypeOK
        <5>2. QED
          BY <4>1, <5>1, LeaseAssumption DEF Event, Happened
      <4>3. \A s \in (1..(r - 1)) \ Gates : Journalled(s)
        <5>1. \A j \in 1..(i - 1) : j \in DOMAIN journal
          BY <1>a DEF TypeOK
        <5>2. QED
          BY <4>1, <5>1 DEF NoStepSkipped, Journalled
      <4>4. Journalled(r)
        BY <4>2 DEF Journalled
      <4> HIDE DEF r
      <4>5. \A s \in 1..r : s = r \/ s \in 1..(r - 1)
        BY <4>2
      <4>6. QED
        BY <4>3, <4>4, <4>5
    <3>3. QED
      BY <1>a, <3>1, <3>2, RestoredStep DEF TypeOK
  <2>2. pos' = [pos EXCEPT ![p] = r] /\ journal' = journal /\ stands' = [stands EXCEPT ![p] = "unleased"]
    BY <1>2 DEF recover, MovesTo, GoesTo
  <2> HIDE DEF r
  <2>3. NoStepSkipped' /\ \A s : Journalled(s) => Journalled(s)'
    BY <1>c, <2>2
  <2>4. \A q \in Proc : pos'[q] # pos[q] => \A s \in (1..pos'[q]) \ Gates : Journalled(s)'
    BY <1>a, <2>1, <2>2, <2>3 DEF TypeOK
  <2>5. QED
    BY <1>a, <1>b, <2>2, <2>3, <2>4 DEF TypeOK
<1>3. ASSUME NEW p \in Proc, acquires(p) \/ executes(p) \/ answered(p) \/ run_finishes(p)
      PROVE  OrderInv'
  <2>1. NoStepSkipped' /\ \A s : Journalled(s) => Journalled(s)'
    BY <1>c, <1>3 DEF acquires, executes, answered, run_finishes
  <2>2. QED
    BY <1>3, <1>a, <1>b, <2>1
    DEF acquires, try_acquire_file_lease, executes, answered, run_finishes, GoesTo, TypeOK
<1>4. ASSUME NEW p \in Proc, run_enters(p) PROVE OrderInv'
  <2>1. Happened("HumanGateResolved", 0) \in Event
        /\ Happened("HumanGateResolved", 0).kind # "StepApplied"
    BY HappenedTyped, LeaseAssumption DEF Happened
  <2>2. journal' = journal \/ journal' = Append(journal, Happened("HumanGateResolved", 0))
    BY <1>4 DEF run_enters
  <2>3. NoStepSkipped' /\ \A s : Journalled(s) => Journalled(s)'
    BY <1>a, <2>1, <2>2, JournalGrows
  <2>4. QED
    BY <1>4, <1>a, <1>b, <2>3 DEF run_enters, GoesTo, TypeOK
<1>5. ASSUME NEW p \in Proc, human_gate(p) PROVE OrderInv'
  <2> DEFINE g == pos[p] + 1
             e == Happened("HumanGateOpened", g)
  <2>1. g \in Gates /\ g \in 0..N /\ pos[p] \in Nat
    BY <1>5, <1>a, LeaseAssumption DEF human_gate, TypeOK
  <2>2. e \in Event /\ e.kind # "StepApplied"
    BY <2>1, HappenedTyped DEF Happened
  <2>3. journal' = journal \/ journal' = Append(journal, e)
    BY <1>5 DEF human_gate
  <2> HIDE DEF e
  <2>4. NoStepSkipped' /\ \A s : Journalled(s) => Journalled(s)'
    BY <1>a, <2>2, <2>3, JournalGrows
  <2>5. \A s \in (1..g) \ Gates : s \in (1..pos[p]) \ Gates
    BY <2>1
  <2>6. pos' = [pos EXCEPT ![p] = g] /\ stands' = [stands EXCEPT ![p] = "awaiting"]
    BY <1>5 DEF human_gate, MovesTo, GoesTo
  <2> HIDE DEF g
  <2>7. \A q \in Proc : pos'[q] # pos[q] => \A s \in (1..pos'[q]) \ Gates : Journalled(s)'
    BY <1>a, <2>4, <2>5, <2>6 DEF TypeOK, KnownIsJournalled
  <2>8. QED
    BY <1>a, <1>b, <2>4, <2>6, <2>7 DEF TypeOK
<1>6. ASSUME NEW p \in Proc, step_applied(p) PROVE OrderInv'
  <2>0. pos[p] + 1 \in 1..N /\ pos[p] \in Nat
    BY <1>6, <1>a, LeaseAssumption DEF step_applied, TypeOK, LeaseInv, ExecutesAStep
  <2> PICK g \in 1..N : g = pos[p] + 1
    BY <2>0
  <2> DEFINE e == Happened("StepApplied", g)
  <2>1. g \in 1..N /\ pos[p] \in Nat /\ g - 1 = pos[p]
    BY <2>0
  <2>2. e \in Event /\ e.step = g
    BY <2>1, HappenedTyped DEF Happened
  <2>3. journal' = Append(journal, e)
    BY <1>6 DEF step_applied
  <2>4. \A s \in (1..(e.step - 1)) \ Gates : Journalled(s)
    BY <2>1, <2>2 DEF KnownIsJournalled
  <2>5. NoStepSkipped' /\ \A s : Journalled(s) => Journalled(s)'
    BY <1>a, <2>2, <2>3, <2>4, JournalGrows
  <2>6. Journalled(g)'
    <3>1. e \in Event /\ journal \in Seq(Event) /\ journal' = Append(journal, e)
      BY <1>a, <2>2, <2>3 DEF TypeOK
    <3> HIDE DEF e
    <3>2. Len(journal) + 1 \in DOMAIN journal' /\ journal'[Len(journal) + 1] = e
      BY <3>1
    <3>3. e = Happened("StepApplied", g)
      BY DEF e
    <3>4. QED
      BY <3>2, <3>3 DEF Journalled
  <2>7. \A s \in 1..g : s = g \/ s \in 1..pos[p]
    BY <2>1
  <2>8. pos' = [pos EXCEPT ![p] = g] /\ stands' = [stands EXCEPT ![p] = "loop"]
    BY <1>6 DEF step_applied, MovesTo, GoesTo
  <2> HIDE DEF e
  <2>9. \A q \in Proc : pos'[q] # pos[q] => \A s \in (1..pos'[q]) \ Gates : Journalled(s)'
    BY <1>a, <2>5, <2>6, <2>7, <2>8 DEF TypeOK, KnownIsJournalled
  <2>10. QED
    BY <1>a, <1>b, <2>5, <2>8, <2>9 DEF TypeOK
<1>7. ASSUME NEW p \in Proc, returns(p) \/ killed(p) PROVE OrderInv'
  <2>1. NoStepSkipped' /\ \A s : Journalled(s) => Journalled(s)'
    BY <1>c, <1>7 DEF returns, killed
  <2>2. QED
    BY <1>7, <1>a, <1>b, <1>d, <2>1 DEF returns, killed, GoesTo, MovesTo, TypeOK
<1>8. CASE UNCHANGED lease_vars
  <2>1. NoStepSkipped' /\ \A s : Journalled(s) => Journalled(s)'
    BY <1>c, <1>8 DEF lease_vars
  <2>2. QED
    BY <1>8, <1>b, <2>1 DEF lease_vars
<1>9. QED
  BY <1>1, <1>2, <1>3, <1>4, <1>5, <1>6, <1>7, <1>8 DEF LeaseNext, drives

\* However late a run locks, it repeats steps but leaves none out (run.rs
\* recovers first and takes the lease second).
THEOREM LateRunsSkipNothing == LeaseSpec => []NoStepSkipped
<1>1. OrderInv => NoStepSkipped
  BY DEF OrderInv
<1>2. QED
  BY <1>1, InitOrder, StepOrder, PTL DEF LeaseSpec

\* A run that reports Finished reports it of an instance whose steps are all
\* journalled, whoever took them (run.rs, RunOutcome::Finished).
THEOREM FinishedMeansComplete == LeaseSpec => []FinishedIsComplete
<1>1. OrderInv => FinishedIsComplete
  BY DEF OrderInv
<1>2. QED
  BY <1>1, InitOrder, StepOrder, PTL DEF LeaseSpec

-----------------------------------------------------------------------------
(* Scheduler: arithmetic of the catch-up *)

LEMMA TimesMono ==
    ASSUME NEW I \in Nat, NEW a \in Nat, NEW b \in Nat, a <= b
    PROVE  a * I <= b * I
OBVIOUS

LEMMA Euclid ==
    ASSUME NEW I \in Nat \ {0}, NEW d \in Int
    PROVE  /\ d \div I \in Int
           /\ d % I \in 0..(I - 1)
           /\ d = I * (d \div I) + (d % I)
OBVIOUS

LEMMA Division ==
    ASSUME NEW I \in Nat \ {0}, NEW d \in Nat
    PROVE  /\ d \div I \in Nat
           /\ I * (d \div I) <= d
           /\ d < I * (d \div I) + I
OBVIOUS

LEMMA TimesMod ==
    ASSUME NEW I \in Nat \ {0}, NEW k \in Nat
    PROVE  (k * I) % I = 0
<1> DEFINE q == (k * I) \div I
<1>1. q \in Int /\ (k * I) % I \in 0..(I - 1) /\ k * I = I * q + ((k * I) % I)
  <2> DEFINE d == k * I
  <2>1. d \in Int
    OBVIOUS
  <2> HIDE DEF d
  <2>2. d \div I \in Int /\ d % I \in 0..(I - 1) /\ d = I * (d \div I) + (d % I)
    BY <2>1, Euclid
  <2>3. QED
    BY <2>2 DEF d
<1>2. I * (k - q) = (k * I) % I
  BY <1>1
<1>3. CASE k - q >= 1
  BY <1>1, <1>2, <1>3
<1>4. CASE k - q <= -1
  BY <1>1, <1>2, <1>4
<1>5. CASE k = q
  BY <1>1, <1>2, <1>5
<1>6. QED
  BY <1>1, <1>3, <1>4, <1>5

\* A row's next time lies on the grid, past every firing.
OnGrid(r, p) == \E k \in Nat : k >= p.fired /\ r.next = p.first + k * r.interval

\* It is the next one: after the last firing, and not further than an interval.
Nearest(r, p) == p.fired > 0 => r.next > p.last /\ r.next - r.interval <= latest

LEMMA AdvancedRow ==
    ASSUME NEW r \in Row, r.interval # Once, NEW now \in Nat, r.next <= now
    PROVE  /\ advanced(r, now) \in Row /\ advanced(r, now).interval = r.interval
           /\ advanced(r, now).next > now
           /\ advanced(r, now).next - r.interval <= now
           /\ \E m \in Nat \ {0} : advanced(r, now).next = r.next + m * r.interval
<1> DEFINE d == now - r.next
<1> DEFINE m == (d \div r.interval) + 1
<1>1. r.next \in Nat /\ r.interval \in Nat \ {0} /\ d \in Nat
  BY DEF Row
<1>2. /\ d \div r.interval \in Nat
      /\ r.interval * (d \div r.interval) <= d
      /\ d < r.interval * (d \div r.interval) + r.interval
  <2> HIDE DEF d
  <2>1. QED
    BY <1>1, Division
<1>3. m \in Nat \ {0} /\ r.interval * m = r.interval * (d \div r.interval) + r.interval
  BY <1>1, <1>2
<1>4. advanced(r, now) = [r EXCEPT !.next = r.next + r.interval * m]
  BY DEF advanced
<1>5. r.interval * m \in Nat /\ r.interval * m = m * r.interval
  BY <1>1, <1>3
<1>6. now = r.next + d
  BY <1>1
<1> HIDE DEF m, d
<1>7. advanced(r, now).next = r.next + r.interval * m /\ advanced(r, now).interval = r.interval
  BY <1>4 DEF Row
<1>8. advanced(r, now) \in Row
  BY <1>1, <1>4, <1>5 DEF Row
<1>9. QED
  BY <1>1, <1>2, <1>3, <1>5, <1>6, <1>7, <1>8

-----------------------------------------------------------------------------
(* The invariant *)

\* Editions are given once; a row in the table has one.
EditionInv ==
    /\ \A id \in Schedule : /\ past[id].edition <= submits
                            /\ table[id] # NoRow => past[id].edition > 0
    /\ \A c \in Client : \A k \in DOMAIN todo[c] : todo[c][k].edition \in 1..submits

GridInv ==
    \A id \in Schedule : table[id] # NoRow /\ table[id].interval # Once =>
        OnGrid(table[id], past[id]) /\ Nearest(table[id], past[id])

SchedulerInv == SchedulerTypeOK /\ EditionInv /\ GridInv /\ StartedOnce

LEMMA GridInvIsGridKept ==
    ASSUME SchedulerTypeOK, GridInv
    PROVE  GridKept
<1> SUFFICES ASSUME NEW id \in Schedule, table[id] # NoRow, table[id].interval # Once
             PROVE  /\ (table[id].next - past[id].first) % table[id].interval = 0
                    /\ table[id].next >= past[id].first + past[id].fired * table[id].interval
                    /\ past[id].fired > 0 => /\ table[id].next > past[id].last
                                             /\ table[id].next - table[id].interval <= latest
  BY DEF GridKept
<1> DEFINE r == table[id]
<1> DEFINE p == past[id]
<1>1. r \in Row /\ p \in Past
  BY DEF SchedulerTypeOK
<1>2. /\ r.next \in Nat /\ r.interval \in Nat \ {0}
      /\ p.first \in Nat /\ p.fired \in Nat
  BY <1>1 DEF Row, Past
<1>3. PICK k \in Nat : k >= p.fired /\ r.next = p.first + k * r.interval
  BY DEF GridInv, OnGrid
<1>4. Nearest(r, p)
  BY DEF GridInv
<1> HIDE DEF r, p
<1>5. r.next - p.first = k * r.interval
  BY <1>2, <1>3
<1>6. (r.next - p.first) % r.interval = 0
  BY <1>2, <1>5, TimesMod
<1>7. p.fired * r.interval <= k * r.interval
  BY <1>2, <1>3, TimesMono
<1>8. r.next >= p.first + p.fired * r.interval
  BY <1>2, <1>3, <1>7
<1>9. QED
  BY <1>4, <1>6, <1>8 DEF Nearest, r, p

-----------------------------------------------------------------------------
(* A tick *)

\* Mine, for the past of either side of a step.
Of(id, p, f) == f.id = id /\ f.edition = p.edition

LEMMA TickedTypes ==
    ASSUME SchedulerAssumption, SchedulerInv, NEW now \in 0..latest, tick(now)
    PROVE  /\ table' \in [Schedule -> Row \cup {NoRow}]
           /\ past' \in [Schedule -> Past]
           /\ \A id \in Schedule :
                 IF id \in due(now)
                 THEN /\ past'[id] = [past[id] EXCEPT !.fired = @ + 1, !.last = now]
                      /\ table'[id] = IF table[id].interval = Once THEN NoRow
                                      ELSE advanced(table[id], now)
                 ELSE past'[id] = past[id] /\ table'[id] = table[id]
<1>1. now \in Nat /\ latest \in Nat
  BY DEF SchedulerInv, SchedulerTypeOK
<1>2. ASSUME NEW id \in Schedule
      PROVE  past[id] \in Past /\ [past[id] EXCEPT !.fired = @ + 1, !.last = now] \in Past
  <2>1. past[id] \in Past
    BY DEF SchedulerInv, SchedulerTypeOK
  <2>2. past[id].fired + 1 \in Nat
    BY <2>1 DEF Past
  <2>3. [past[id] EXCEPT !.fired = past[id].fired + 1] \in Past
    BY <2>1, <2>2 DEF Past
  <2>4. [past[id] EXCEPT !.fired = @ + 1, !.last = now]
            = [[past[id] EXCEPT !.fired = past[id].fired + 1] EXCEPT !.last = now]
    OBVIOUS
  <2>5. QED
    BY <1>1, <2>1, <2>3, <2>4 DEF Past
<1>3. ASSUME NEW id \in due(now), table[id].interval # Once
      PROVE  advanced(table[id], now) \in Row
  <2>1. table[id] \in Row /\ table[id].next <= now
    BY DEF due, SchedulerInv, SchedulerTypeOK
  <2>2. QED
    BY <1>1, <1>3, <2>1, AdvancedRow
<1>4. \A id \in Schedule : table[id] \in Row \cup {NoRow}
  BY DEF SchedulerInv, SchedulerTypeOK
<1>5. QED
  BY <1>2, <1>3, <1>4 DEF tick

LEMMA TickedGrid ==
    ASSUME SchedulerAssumption, SchedulerInv, NEW now \in 0..latest, tick(now), UNCHANGED latest
    PROVE  GridInv'
<1> SUFFICES ASSUME NEW id \in Schedule, table'[id] # NoRow, table'[id].interval # Once
             PROVE  OnGrid(table'[id], past'[id]) /\ Nearest(table'[id], past'[id])
  BY DEF GridInv, OnGrid, Nearest
<1>1. now \in Nat /\ latest \in Nat /\ now <= latest
  BY DEF SchedulerInv, SchedulerTypeOK
<1>2. past[id] \in Past /\ table[id] \in Row \cup {NoRow}
  BY DEF SchedulerInv, SchedulerTypeOK
<1>3. CASE id \notin due(now)
  BY <1>3, TickedTypes DEF SchedulerInv, GridInv
<1>4. CASE id \in due(now)
  <2> DEFINE r == table[id]
  <2> DEFINE p == past[id]
  <2>1. /\ past'[id] = [p EXCEPT !.fired = p.fired + 1, !.last = now]
        /\ r.interval # Once /\ table'[id] = advanced(r, now)
    BY <1>4, TickedTypes
  <2>2. r \in Row /\ r.next <= now /\ table[id] # NoRow
    BY <1>2, <1>4 DEF due
  <2>3. PICK k \in Nat : k >= p.fired /\ r.next = p.first + k * r.interval
    BY <2>1, <2>2 DEF SchedulerInv, GridInv, OnGrid
  <2>4. /\ table'[id].interval = r.interval
        /\ table'[id].next > now
        /\ table'[id].next - r.interval <= now
        /\ \E m \in Nat \ {0} : table'[id].next = r.next + m * r.interval
        /\ table'[id] \in Row
    BY <1>1, <2>1, <2>2, AdvancedRow
  <2>5. PICK m \in Nat \ {0} : table'[id].next = r.next + m * r.interval
    BY <2>4
  <2>6. p \in Past /\ past'[id].first = p.first /\ past'[id].fired = p.fired + 1 /\ past'[id].last = now
    BY <1>2, <2>1 DEF Past
  <2>7. r.interval \in Nat /\ r.next \in Nat /\ p.first \in Nat /\ p.fired \in Nat
    BY <2>1, <2>2, <2>6 DEF Row, Past
  <2> HIDE DEF r, p
  <2>8. k + m \in Nat /\ k + m >= p.fired + 1
    BY <2>3, <2>5, <2>7
  <2>9. table'[id].next = p.first + (k + m) * r.interval
    BY <2>3, <2>5, <2>7
  <2>10. OnGrid(table'[id], past'[id])
    BY <2>4, <2>6, <2>8, <2>9 DEF OnGrid
  <2>11. table'[id].next \in Nat
    BY <2>4 DEF Row
  <2>12. Nearest(table'[id], past'[id])
    BY <1>1, <2>4, <2>6, <2>7, <2>11 DEF Nearest
  <2>13. QED
    BY <2>10, <2>12
<1>5. QED
  BY <1>3, <1>4

LEMMA InOrderTyped ==
    ASSUME SchedulerAssumption, NEW now, NEW q \in InOrder(due(now))
    PROVE  /\ q \in Seq(due(now))
           /\ \A k, l \in DOMAIN q : q[k] = q[l] => k = l
<1>1. due(now) \subseteq Schedule
  BY DEF due
<1>2. Cardinality(due(now)) \in Nat
  BY <1>1, FS_Subset, FS_CardinalityType DEF SchedulerAssumption
<1>3. q \in [1..Cardinality(due(now)) -> due(now)]
  BY DEF InOrder
<1>4. q \in Seq(due(now)) /\ DOMAIN q \subseteq Nat
  BY <1>2, <1>3
<1>5. ASSUME NEW k \in DOMAIN q, NEW l \in DOMAIN q, q[k] = q[l] PROVE k = l
  <2>1. ~(k < l) /\ ~(l < k)
    BY <1>5 DEF InOrder
  <2>2. QED
    BY <1>4, <2>1
<1>6. QED
  BY <1>4, <1>5

\* What a client holds after it took what is due.
LEMMA Taken ==
    ASSUME SchedulerAssumption, SchedulerInv, NEW c \in Client, NEW now \in 0..latest,
           takes_due(c, now)
    PROVE  /\ todo' \in [Client -> Seq([id : Schedule, edition : Nat, n : Nat])]
           /\ \A d \in Client : d # c => todo'[d] = todo[d]
           /\ \A k \in DOMAIN todo'[c] :
                 /\ todo'[c][k].id \in due(now)
                 /\ todo'[c][k].edition = past[todo'[c][k].id].edition
                 /\ todo'[c][k].n = past[todo'[c][k].id].fired + 1
           /\ \A k, l \in DOMAIN todo'[c] : todo'[c][k].id = todo'[c][l].id => k = l
<1>1. PICK q \in InOrder(due(now)) :
          todo' = [todo EXCEPT ![c] = [k \in DOMAIN q |-> Firing(q[k])]]
  BY DEF takes_due
<1>2. q \in Seq(due(now)) /\ \A k, l \in DOMAIN q : q[k] = q[l] => k = l
  BY <1>1, InOrderTyped
<1>3. todo \in [Client -> Seq([id : Schedule, edition : Nat, n : Nat])]
  BY DEF SchedulerInv, SchedulerTypeOK
<1> DEFINE taken == [k \in DOMAIN q |-> Firing(q[k])]
<1>4. /\ todo'[c] = taken /\ DOMAIN todo'[c] = DOMAIN q
      /\ \A k \in DOMAIN q : todo'[c][k] = Firing(q[k])
  BY <1>1, <1>3
<1>5. \A k \in DOMAIN q : q[k] \in due(now) /\ q[k] \in Schedule
  BY <1>2 DEF due
<1>6. taken \in Seq([id : Schedule, edition : Nat, n : Nat])
  <2>1. \A k \in DOMAIN q : Firing(q[k]) \in [id : Schedule, edition : Nat, n : Nat]
    <3> TAKE k \in DOMAIN q
    <3>1. past[q[k]] \in Past
      BY <1>5 DEF SchedulerInv, SchedulerTypeOK
    <3>2. QED
      BY <1>5, <3>1 DEF Firing, Past
  <2>2. DOMAIN q = 1..Len(q) /\ Len(q) \in Nat
    BY <1>2
  <2>3. QED
    BY <2>1, <2>2
<1> HIDE DEF taken
<1>7. todo' \in [Client -> Seq([id : Schedule, edition : Nat, n : Nat])]
  BY <1>1, <1>3, <1>6 DEF taken
<1>8. \A d \in Client : d # c => todo'[d] = todo[d]
  BY <1>1, <1>3
<1>9. \A k \in DOMAIN todo'[c] :
          /\ todo'[c][k].id = q[k]
          /\ todo'[c][k].edition = past[q[k]].edition
          /\ todo'[c][k].n = past[q[k]].fired + 1
  BY <1>4 DEF Firing
<1>10. QED
  BY <1>2, <1>4, <1>5, <1>7, <1>8, <1>9

LEMMA TakenStarted ==
    ASSUME SchedulerAssumption, SchedulerInv, NEW c \in Client, NEW now \in 0..latest,
           takes_due(c, now)
    PROVE  StartedOnce'
<1> DEFINE fresh(id) == past[id].fired + 1
<1>1. tick(now)
  BY DEF takes_due
<1>2. ASSUME NEW id \in Schedule
      PROVE  /\ past[id].fired \in Nat
             /\ past'[id].edition = past[id].edition
             /\ past'[id].started = past[id].started
             /\ past'[id].fired = IF id \in due(now) THEN fresh(id) ELSE past[id].fired
  <2>1. past[id] \in Past
    BY DEF SchedulerInv, SchedulerTypeOK
  <2>2. past[id].fired \in Nat
    BY <2>1 DEF Past
  <2>3. IF id \in due(now)
        THEN past'[id] = [past[id] EXCEPT !.fired = @ + 1, !.last = now]
        ELSE past'[id] = past[id]
    BY <1>1, TickedTypes
  <2>4. QED
    BY <2>1, <2>2, <2>3 DEF Past
<1>3. ASSUME NEW id \in Schedule
      PROVE  past'[id].started \subseteq 1..past'[id].fired
  <2>1. past[id].started \subseteq 1..past[id].fired
    BY DEF SchedulerInv, StartedOnce
  <2>2. QED
    BY <1>2, <2>1
<1>4. ASSUME NEW id \in Schedule, NEW d \in Client, NEW k \in DOMAIN todo'[d],
             Of(id, past'[id], todo'[d][k])
      PROVE  \/ /\ d = c /\ id \in due(now) /\ todo'[d][k].n = fresh(id)
             \/ /\ d # c /\ k \in DOMAIN todo[d] /\ todo'[d][k] = todo[d][k]
                /\ Mine(id, todo[d][k])
                /\ todo[d][k].n \in (1..past[id].fired) \ past[id].started
  <2>1. todo'[d][k].id = id /\ todo'[d][k].edition = past'[id].edition
    BY <1>4 DEF Of
  <2>2. CASE d = c
    BY <2>1, <2>2, Taken
  <2>3. CASE d # c
    <3>1. todo'[d] = todo[d]
      BY <2>3, Taken
    <3>2. Mine(id, todo[d][k])
      BY <1>2, <2>1, <3>1 DEF Mine
    <3>3. QED
      BY <2>3, <3>1, <3>2 DEF SchedulerInv, StartedOnce
  <2>4. QED
    BY <2>2, <2>3
<1>5. ASSUME NEW id \in Schedule, NEW d \in Client, NEW k \in DOMAIN todo'[d],
             Of(id, past'[id], todo'[d][k])
      PROVE  todo'[d][k].n \in (1..past'[id].fired) \ past'[id].started
  <2>1. past[id].started \subseteq 1..past[id].fired
    BY DEF SchedulerInv, StartedOnce
  <2>2. QED
    BY <1>2, <1>4, <1>5, <2>1
<1>6. ASSUME NEW id \in Schedule,
             NEW d \in Client, NEW k \in DOMAIN todo'[d], Of(id, past'[id], todo'[d][k]),
             NEW e \in Client, NEW l \in DOMAIN todo'[e], Of(id, past'[id], todo'[e][l]),
             todo'[e][l].n = todo'[d][k].n
      PROVE  d = e /\ k = l
  <2>1. fresh(id) \notin 1..past[id].fired
    BY <1>2
  <2>2. CASE d = c /\ e = c
    <3>1. todo'[c][k].id = todo'[c][l].id
      BY <1>6, <2>2 DEF Of
    <3>2. QED
      BY <2>2, <3>1, Taken
  <2>3. CASE d # c /\ e # c
    <3>1. /\ k \in DOMAIN todo[d] /\ todo'[d][k] = todo[d][k] /\ Mine(id, todo[d][k])
          /\ l \in DOMAIN todo[e] /\ todo'[e][l] = todo[e][l] /\ Mine(id, todo[e][l])
      BY <1>4, <1>6, <2>3
    <3>2. QED
      BY <1>6, <3>1 DEF SchedulerInv, StartedOnce
  <2>4. QED
    BY <1>4, <1>6, <2>1, <2>2, <2>3
<1>7. ASSUME NEW id \in Schedule, table'[id] # NoRow, table'[id].interval = Once
      PROVE  past'[id].fired = 0
  <2>1. id \notin due(now)
    <3>1. SUFFICES ASSUME id \in due(now) PROVE FALSE
      OBVIOUS
    <3>2. table[id].interval # Once /\ table'[id] = advanced(table[id], now)
      BY <1>1, <1>7, <3>1, TickedTypes
    <3>3. table[id] \in Row /\ table[id].next <= now /\ now \in Nat
      BY <3>1 DEF due, SchedulerInv, SchedulerTypeOK
    <3>4. QED
      BY <1>7, <3>2, <3>3, AdvancedRow
  <2>2. past'[id] = past[id] /\ table'[id] = table[id]
    BY <1>1, <2>1, TickedTypes
  <2>3. QED
    BY <1>7, <2>2 DEF SchedulerInv, StartedOnce
<1> HIDE DEF fresh
<1>8. QED
  BY <1>3, <1>5, <1>6, <1>7 DEF StartedOnce, Mine, Of

LEMMA TakenEditions ==
    ASSUME SchedulerAssumption, SchedulerInv, NEW c \in Client, NEW now \in 0..latest,
           takes_due(c, now), UNCHANGED submits
    PROVE  EditionInv'
<1>1. tick(now)
  BY DEF takes_due
<1>2. ASSUME NEW id \in Schedule
      PROVE  /\ past'[id].edition = past[id].edition /\ past[id].edition \in Nat
             /\ past[id].edition <= submits
             /\ table'[id] # NoRow => table[id] # NoRow
  <2>1. past[id] \in Past
    BY DEF SchedulerInv, SchedulerTypeOK
  <2>2. IF id \in due(now)
        THEN past'[id] = [past[id] EXCEPT !.fired = @ + 1, !.last = now]
        ELSE past'[id] = past[id] /\ table'[id] = table[id]
    BY <1>1, TickedTypes
  <2>3. past'[id].edition = past[id].edition /\ past[id].edition \in Nat
    BY <2>1, <2>2 DEF Past
  <2>4. table'[id] # NoRow => table[id] # NoRow
    BY <2>2 DEF due
  <2>5. QED
    BY <2>3, <2>4 DEF SchedulerInv, EditionInv
<1>3. ASSUME NEW d \in Client, NEW k \in DOMAIN todo'[d]
      PROVE  todo'[d][k].edition \in 1..submits
  <2>1. CASE d # c
    BY <2>1, Taken DEF SchedulerInv, EditionInv
  <2>2. CASE d = c
    <3> DEFINE id == todo'[d][k].id
    <3>1. id \in due(now) /\ todo'[d][k].edition = past[id].edition
      BY <2>2, Taken
    <3>2. id \in Schedule /\ past[id].edition > 0
      BY <3>1 DEF due, SchedulerInv, EditionInv
    <3> HIDE DEF id
    <3>3. past[id].edition \in Nat /\ past[id].edition <= submits /\ submits \in Nat
      BY <1>2, <3>2 DEF SchedulerInv, SchedulerTypeOK
    <3>4. QED
      BY <3>1, <3>2, <3>3
  <2>3. QED
    BY <2>1, <2>2
<1>4. QED
  BY <1>2, <1>3 DEF SchedulerInv, EditionInv

\* A client that waits for no answer of the store takes what is due.
LEMMA TakenInv ==
    ASSUME SchedulerAssumption, SchedulerInv, NEW c \in Client, NEW now \in 0..latest,
           takes_due(c, now), UNCHANGED <<clock, latest, submits>>,
           DOMAIN polled' = Gated,
           \A g \in Gated : polled'[g] # NoRow => g # c /\ polled'[g] = polled[g]
    PROVE  SchedulerInv'
<1>1. tick(now)
  BY DEF takes_due
<1>2. ASSUME NEW g \in Gated, polled'[g] # NoRow
      PROVE  polled'[g].now \in 0..latest /\ todo'[g] = <<>>
  <2>1. g \in Client /\ g # c /\ polled[g] # NoRow /\ polled'[g] = polled[g]
    BY <1>2 DEF Client
  <2>2. QED
    BY <2>1, Taken DEF SchedulerInv, SchedulerTypeOK
<1>3. SchedulerTypeOK'
  BY <1>1, <1>2, TickedTypes, Taken DEF SchedulerInv, SchedulerTypeOK
<1>4. QED
  BY <1>1, <1>3, TickedGrid, TakenStarted, TakenEditions DEF SchedulerInv

-----------------------------------------------------------------------------
(* The other steps *)

\* A step that leaves table and past alone, and todo but for clients it empties.
LEMMA QuietInv ==
    ASSUME SchedulerInv, UNCHANGED <<table, past, submits>>,
           clock' \in 0..latest', latest' \in Nat, latest' >= latest,
           \A c \in Client : todo'[c] \in {todo[c], <<>>},
           todo' = [c \in Client |-> todo'[c]], DOMAIN polled' = Gated,
           \A g \in Gated : polled'[g] # NoRow =>
               todo'[g] = <<>> /\ (polled'[g] = polled[g] \/ polled'[g].now = clock)
    PROVE  SchedulerInv'
<1>1. /\ latest \in Nat /\ clock \in 0..latest
      /\ todo \in [Client -> Seq([id : Schedule, edition : Nat, n : Nat])]
  BY DEF SchedulerInv, SchedulerTypeOK
<1>2. todo' \in [Client -> Seq([id : Schedule, edition : Nat, n : Nat])]
  <2>1. <<>> \in Seq([id : Schedule, edition : Nat, n : Nat])
    OBVIOUS
  <2>2. \A c \in Client : todo'[c] \in Seq([id : Schedule, edition : Nat, n : Nat])
    BY <1>1, <2>1
  <2>3. QED
    BY <2>2
<1>3. \A c \in Client : \A k \in DOMAIN todo'[c] : todo'[c] = todo[c]
  OBVIOUS
<1>4. ASSUME NEW g \in Gated, polled'[g] # NoRow
      PROVE  polled'[g].now \in 0..latest'
  BY <1>1, <1>4 DEF SchedulerInv, SchedulerTypeOK
<1>5. SchedulerTypeOK'
  BY <1>2, <1>4 DEF SchedulerInv, SchedulerTypeOK
<1>6. EditionInv'
  BY <1>3 DEF SchedulerInv, EditionInv
<1>7. GridInv'
  <2> SUFFICES ASSUME NEW id \in Schedule, table[id] # NoRow, table[id].interval # Once
               PROVE  OnGrid(table[id], past[id]) /\ Nearest(table[id], past[id])'
    BY DEF GridInv, OnGrid
  <2>1. OnGrid(table[id], past[id]) /\ Nearest(table[id], past[id])
    BY DEF SchedulerInv, GridInv
  <2>2. table[id] \in Row
    BY DEF SchedulerInv, SchedulerTypeOK
  <2>3. table[id].next - table[id].interval \in Int
    BY <2>2 DEF Row
  <2>4. QED
    BY <1>1, <2>1, <2>3 DEF Nearest
<1>8. StartedOnce'
  BY <1>3 DEF SchedulerInv, StartedOnce, Mine
<1>9. QED
  BY <1>5, <1>6, <1>7, <1>8 DEF SchedulerInv

LEMMA UpsertInv ==
    ASSUME SchedulerAssumption, SchedulerInv, NEW r \in Rows, upsert_schedule(r)
    PROVE  SchedulerInv'
<1> DEFINE p == [edition |-> submits + 1, first |-> r.next, fired |-> 0, last |-> 0, started |-> {}]
<1>1. r \in Row /\ r.id \in Schedule /\ r.next \in Nat
  BY DEF SchedulerAssumption, Row
<1>2. submits \in Nat /\ past \in [Schedule -> Past] /\ table \in [Schedule -> Row \cup {NoRow}]
  BY DEF SchedulerInv, SchedulerTypeOK
<1>3. p \in Past
  BY <1>1, <1>2 DEF Past
<1>4. /\ UNCHANGED <<clock, polled, todo, latest>> /\ submits' = submits + 1
      /\ table' = [table EXCEPT ![r.id] = r] /\ past' = [past EXCEPT ![r.id] = p]
  <2>1. [Nothing EXCEPT !.edition = submits + 1, !.first = r.next]
            = [[Nothing EXCEPT !.edition = submits + 1] EXCEPT !.first = r.next]
    OBVIOUS
  <2>2. [Nothing EXCEPT !.edition = submits + 1]
            = [edition |-> submits + 1, first |-> 0, fired |-> 0, last |-> 0, started |-> {}]
    BY DEF Nothing
  <2>3. [[edition |-> submits + 1, first |-> 0, fired |-> 0, last |-> 0, started |-> {}]
            EXCEPT !.first = r.next] = p
    OBVIOUS
  <2> HIDE DEF p
  <2>4. [Nothing EXCEPT !.edition = submits + 1, !.first = r.next] = p
    BY <2>1, <2>2, <2>3
  <2>5. QED
    BY <2>4 DEF upsert_schedule
<1>5. /\ table'[r.id] = r /\ past'[r.id] = p
      /\ \A id \in Schedule : id # r.id => table'[id] = table[id] /\ past'[id] = past[id]
  BY <1>1, <1>2, <1>4
<1>6. SchedulerTypeOK'
  BY <1>1, <1>2, <1>3, <1>4 DEF SchedulerInv, SchedulerTypeOK
<1>7. EditionInv'
  <2>1. \A id \in Schedule : past[id].edition \in Nat
    BY <1>2 DEF Past
  <2>2. QED
    BY <1>2, <1>4, <1>5, <2>1 DEF SchedulerInv, EditionInv
<1>8. GridInv'
  <2> SUFFICES ASSUME NEW id \in Schedule, table'[id] # NoRow, table'[id].interval # Once
               PROVE  OnGrid(table'[id], past'[id]) /\ Nearest(table'[id], past'[id])
    BY <1>4 DEF GridInv, OnGrid, Nearest
  <2>1. CASE id = r.id
    <3>1. r.interval \in Nat
      BY <1>1, <1>5, <2>1 DEF Row
    <3>2. r.next = p.first + 0 * r.interval /\ 0 >= p.fired /\ ~(p.fired > 0)
      BY <1>1, <3>1
    <3>3. table'[id] = r /\ past'[id] = p
      BY <1>5, <2>1
    <3> HIDE DEF p
    <3>4. OnGrid(r, p) /\ Nearest(r, p)
      BY <3>2 DEF OnGrid, Nearest
    <3>5. QED
      BY <3>3, <3>4
  <2>2. CASE id # r.id
    BY <1>5, <2>2 DEF SchedulerInv, GridInv
  <2>3. QED
    BY <2>1, <2>2
<1>9. StartedOnce'
  <2>1. ASSUME NEW id \in Schedule, NEW c \in Client, NEW k \in DOMAIN todo[c],
               Of(id, past'[id], todo[c][k])
        PROVE  id # r.id /\ Mine(id, todo[c][k])
    <3>1. todo[c][k].edition \in 1..submits
      BY DEF SchedulerInv, EditionInv
    <3>2. id # r.id
      BY <1>2, <1>5, <2>1, <3>1 DEF Of
    <3>3. QED
      BY <1>5, <2>1, <3>2 DEF Of, Mine
  <2>2. ASSUME NEW id \in Schedule
        PROVE  /\ past'[id].started \subseteq 1..past'[id].fired
               /\ \A c \in Client : \A k \in DOMAIN todo[c] : Of(id, past'[id], todo[c][k]) =>
                    /\ todo[c][k].n \in (1..past'[id].fired) \ past'[id].started
                    /\ \A d \in Client : \A l \in DOMAIN todo[d] :
                         Of(id, past'[id], todo[d][l]) /\ todo[d][l].n = todo[c][k].n
                            => c = d /\ k = l
               /\ table'[id] # NoRow /\ table'[id].interval = Once => past'[id].fired = 0
    <3>1. CASE id = r.id
      BY <1>5, <2>1, <3>1
    <3>2. CASE id # r.id
      BY <1>5, <2>1, <3>2 DEF SchedulerInv, StartedOnce
    <3>3. QED
      BY <3>1, <3>2
  <2>3. QED
    BY <1>4, <2>2 DEF StartedOnce, Mine, Of
<1>10. QED
  BY <1>6, <1>7, <1>8, <1>9 DEF SchedulerInv

LEMMA CancelInv ==
    ASSUME SchedulerAssumption, SchedulerInv, NEW gone \in Schedule, cancel_schedule(gone)
    PROVE  SchedulerInv'
<1>1. submits \in Nat /\ past \in [Schedule -> Past] /\ table \in [Schedule -> Row \cup {NoRow}]
  BY DEF SchedulerInv, SchedulerTypeOK
<1>2. /\ Nothing \in Past /\ Nothing.edition = 0 /\ Nothing.fired = 0 /\ Nothing.started = {}
  BY DEF Nothing, Past
<1>3. /\ UNCHANGED <<clock, polled, todo, latest, submits>>
      /\ table' = [table EXCEPT ![gone] = NoRow] /\ past' = [past EXCEPT ![gone] = Nothing]
  BY DEF cancel_schedule
<1>4. /\ table'[gone] = NoRow /\ past'[gone] = Nothing
      /\ \A id \in Schedule : id # gone => table'[id] = table[id] /\ past'[id] = past[id]
  BY <1>1, <1>3
<1>5. SchedulerTypeOK'
  BY <1>1, <1>2, <1>3 DEF SchedulerInv, SchedulerTypeOK
<1>6. EditionInv'
  BY <1>1, <1>2, <1>3, <1>4 DEF SchedulerInv, EditionInv
<1>7. GridInv'
  BY <1>3, <1>4 DEF SchedulerInv, GridInv, Nearest
<1>8. StartedOnce'
  <2>1. ASSUME NEW id \in Schedule, NEW c \in Client, NEW k \in DOMAIN todo[c],
               Of(id, past'[id], todo[c][k])
        PROVE  id # gone /\ Mine(id, todo[c][k])
    <3>1. todo[c][k].edition \in 1..submits
      BY DEF SchedulerInv, EditionInv
    <3>2. id # gone
      BY <1>1, <1>2, <1>4, <2>1, <3>1 DEF Of
    <3>3. QED
      BY <1>4, <2>1, <3>2 DEF Of, Mine
  <2>2. ASSUME NEW id \in Schedule
        PROVE  /\ past'[id].started \subseteq 1..past'[id].fired
               /\ \A c \in Client : \A k \in DOMAIN todo[c] : Of(id, past'[id], todo[c][k]) =>
                    /\ todo[c][k].n \in (1..past'[id].fired) \ past'[id].started
                    /\ \A d \in Client : \A l \in DOMAIN todo[d] :
                         Of(id, past'[id], todo[d][l]) /\ todo[d][l].n = todo[c][k].n
                            => c = d /\ k = l
               /\ table'[id] # NoRow /\ table'[id].interval = Once => past'[id].fired = 0
    <3>1. CASE id = gone
      BY <1>2, <1>4, <2>1, <3>1
    <3>2. CASE id # gone
      BY <1>4, <2>1, <3>2 DEF SchedulerInv, StartedOnce
    <3>3. QED
      BY <3>1, <3>2
  <2>3. QED
    BY <1>3, <2>2 DEF StartedOnce, Mine, Of
<1>9. QED
  BY <1>5, <1>6, <1>7, <1>8 DEF SchedulerInv

LEMMA ElementOf ==
    ASSUME NEW S, NEW s \in Seq(S), NEW k \in DOMAIN s
    PROVE  s[k] \in S
OBVIOUS

\* The firing that is run leaves the client's list and is marked as run.
LEMMA FiredInv ==
    ASSUME SchedulerAssumption, SchedulerInv, NEW c \in Client, on_fire(c)
    PROVE  SchedulerInv'
<1> DEFINE f == Head(todo[c])
<1>1. past \in [Schedule -> Past] /\ todo \in [Client -> Seq([id : Schedule, edition : Nat, n : Nat])]
  BY DEF SchedulerInv, SchedulerTypeOK
<1>2. /\ 1 \in DOMAIN todo[c] /\ f = todo[c][1] /\ f.id \in Schedule /\ f.n \in Nat
      /\ todo'[c] = Tail(todo[c])
      /\ \A k \in DOMAIN todo'[c] : k \in Nat /\ k + 1 \in DOMAIN todo[c] /\ todo'[c][k] = todo[c][k + 1]
      /\ \A d \in Client : d # c => todo'[d] = todo[d]
      /\ todo' \in [Client -> Seq([id : Schedule, edition : Nat, n : Nat])]
  <2>1. todo[c] \in Seq([id : Schedule, edition : Nat, n : Nat]) /\ todo[c] # <<>>
    BY <1>1 DEF on_fire
  <2>2. todo' = [todo EXCEPT ![c] = Tail(todo[c])]
    BY DEF on_fire
  <2>3. 1 \in DOMAIN todo[c] /\ f = todo[c][1]
    BY <2>1
  <2>4. Tail(todo[c]) \in Seq([id : Schedule, edition : Nat, n : Nat])
    BY <2>1
  <2>5. \A k \in DOMAIN Tail(todo[c]) :
            k \in Nat /\ k + 1 \in DOMAIN todo[c] /\ Tail(todo[c])[k] = todo[c][k + 1]
    BY <2>1
  <2>6. f \in [id : Schedule, edition : Nat, n : Nat]
    <3>1. todo[c][1] \in [id : Schedule, edition : Nat, n : Nat]
      BY <2>1, <2>3, ElementOf
    <3>2. QED
      BY <2>3, <3>1
  <2> HIDE DEF f
  <2>7. QED
    BY <1>1, <2>2, <2>3, <2>4, <2>5, <2>6
<1> HIDE DEF f
<1>3. UNCHANGED <<clock, table, polled, latest, submits>> /\ todo[c] # <<>>
  BY DEF on_fire
<1>4. past' = [past EXCEPT ![f.id] = Ran(past[f.id], f)]
  BY DEF on_fire, f
<1>5. ASSUME NEW id \in Schedule
      PROVE  /\ past'[id] \in Past
             /\ past'[id].edition = past[id].edition /\ past'[id].fired = past[id].fired
             /\ past'[id].first = past[id].first /\ past'[id].last = past[id].last
             /\ past'[id].started = IF Mine(id, f) THEN past[id].started \cup {f.n}
                                    ELSE past[id].started
  <2>1. past[id] \in Past
    BY <1>1
  <2>2. past'[id] = IF Mine(id, f) THEN [past[id] EXCEPT !.started = past[id].started \cup {f.n}]
                    ELSE past[id]
    <3>1. CASE id = f.id
      <4>1. past'[id] = Ran(past[id], f)
        BY <1>1, <1>4, <3>1
      <4>2. QED
        BY <3>1, <4>1 DEF Mine, Ran
    <3>2. CASE id # f.id
      BY <1>1, <1>4, <3>2 DEF Mine
    <3>3. QED
      BY <3>1, <3>2
  <2>3. past[id].started \cup {f.n} \in SUBSET Nat
    BY <1>2, <2>1 DEF Past
  <2>4. QED
    BY <2>1, <2>2, <2>3 DEF Past
<1>6. SchedulerTypeOK'
  <2>1. past' \in [Schedule -> Past]
    BY <1>1, <1>4, <1>5
  <2>2. ASSUME NEW g \in Gated, polled[g] # NoRow PROVE todo'[g] = <<>>
    <3>1. todo[g] = <<>> /\ g \in Client
      BY <2>2 DEF SchedulerInv, SchedulerTypeOK, Client
    <3>2. QED
      BY <1>2, <1>3, <3>1
  <2>3. QED
    BY <1>2, <1>3, <2>1, <2>2 DEF SchedulerInv, SchedulerTypeOK
<1> DEFINE was(d, k) == IF d = c THEN k + 1 ELSE k
<1>7. ASSUME NEW d \in Client, NEW k \in DOMAIN todo'[d]
      PROVE  /\ was(d, k) \in DOMAIN todo[d] /\ todo'[d][k] = todo[d][was(d, k)]
             /\ ~(d = c /\ was(d, k) = 1)
  <2>1. CASE d = c
    <3>1. k \in Nat /\ k + 1 \in DOMAIN todo[d] /\ todo'[d][k] = todo[d][k + 1] /\ k # 0
      <4>1. todo'[c] \in Seq([id : Schedule, edition : Nat, n : Nat])
        BY <1>2
      <4>2. k # 0
        BY <2>1, <4>1
      <4>3. QED
        BY <1>2, <2>1, <4>2
    <3>2. QED
      BY <2>1, <3>1
  <2>2. CASE d # c
    BY <1>2, <2>2
  <2>3. QED
    BY <2>1, <2>2
<1>8. EditionInv'
  <2>1. \A d \in Client : \A k \in DOMAIN todo'[d] : todo'[d][k].edition \in 1..submits
    BY <1>7 DEF SchedulerInv, EditionInv
  <2>2. QED
    BY <1>3, <1>5, <2>1 DEF SchedulerInv, EditionInv
<1>9. GridInv'
  BY <1>3, <1>5 DEF SchedulerInv, GridInv, OnGrid, Nearest
<1>10. StartedOnce'
  <2>1. ASSUME NEW id \in Schedule, NEW d \in Client, NEW k \in DOMAIN todo'[d],
               Of(id, past'[id], todo'[d][k])
        PROVE  /\ Mine(id, todo[d][was(d, k)])
               /\ todo'[d][k].n \in (1..past'[id].fired) \ past'[id].started
    <3>1. Mine(id, todo[d][was(d, k)])
      BY <1>5, <1>7, <2>1 DEF Of, Mine
    <3>2. todo'[d][k].n \in (1..past[id].fired) \ past[id].started
      BY <1>7, <3>1 DEF SchedulerInv, StartedOnce
    <3>3. Mine(id, f) => todo'[d][k].n # f.n
      <4>1. SUFFICES ASSUME Mine(id, todo[c][1]), todo[d][was(d, k)].n = todo[c][1].n
                     PROVE  FALSE
        BY <1>2, <1>7
      <4>2. was(d, k) \in DOMAIN todo[d] /\ 1 \in DOMAIN todo[c] /\ ~(d = c /\ was(d, k) = 1)
        BY <1>2, <1>7
      <4> HIDE DEF was
      <4>3. d = c /\ was(d, k) = 1
        BY <3>1, <4>1, <4>2 DEF SchedulerInv, StartedOnce
      <4>4. QED
        BY <4>2, <4>3
    <3>4. QED
      BY <1>5, <3>1, <3>2, <3>3
  <2>2. ASSUME NEW id \in Schedule PROVE past'[id].started \subseteq 1..past'[id].fired
    <3>1. Mine(id, f) => f.n \in 1..past[id].fired
      <4>1. SUFFICES ASSUME Mine(id, todo[c][1]) PROVE todo[c][1].n \in 1..past[id].fired
        BY <1>2
      <4>2. 1 \in DOMAIN todo[c]
        BY <1>2
      <4>3. QED
        BY <4>1, <4>2 DEF SchedulerInv, StartedOnce
    <3>2. past[id].started \subseteq 1..past[id].fired
      BY DEF SchedulerInv, StartedOnce
    <3>3. QED
      BY <1>5, <3>1, <3>2
  <2>3. ASSUME NEW id \in Schedule,
               NEW d \in Client, NEW k \in DOMAIN todo'[d], Of(id, past'[id], todo'[d][k]),
               NEW e \in Client, NEW l \in DOMAIN todo'[e], Of(id, past'[id], todo'[e][l]),
               todo'[e][l].n = todo'[d][k].n
        PROVE  d = e /\ k = l
    <3>1. d = e /\ was(d, k) = was(e, l)
      <4>1. /\ was(d, k) \in DOMAIN todo[d] /\ todo'[d][k] = todo[d][was(d, k)]
            /\ was(e, l) \in DOMAIN todo[e] /\ todo'[e][l] = todo[e][was(e, l)]
        BY <1>7
      <4>2. Mine(id, todo[d][was(d, k)]) /\ Mine(id, todo[e][was(e, l)])
        BY <2>1, <2>3
      <4> HIDE DEF was
      <4>3. QED
        BY <2>3, <4>1, <4>2 DEF SchedulerInv, StartedOnce
    <3>2. QED
      BY <1>2, <2>3, <3>1
  <2>4. \A id \in Schedule : table[id] # NoRow /\ table[id].interval = Once => past'[id].fired = 0
    BY <1>5 DEF SchedulerInv, StartedOnce
  <2> HIDE DEF was
  <2>5. QED
    BY <1>3, <2>1, <2>2, <2>3, <2>4 DEF StartedOnce, Mine, Of
<1>11. QED
  BY <1>6, <1>8, <1>9, <1>10 DEF SchedulerInv

LEMMA NextInv ==
    ASSUME SchedulerAssumption, SchedulerInv, SchedulerNext
    PROVE  SchedulerInv'
<1>1. /\ latest \in Nat /\ clock \in 0..latest /\ DOMAIN polled = Gated
      /\ todo \in [Client -> Seq([id : Schedule, edition : Nat, n : Nat])]
      /\ todo = [c \in Client |-> todo[c]]
      /\ \A g \in Gated : polled[g] # NoRow => polled[g].now \in 0..latest /\ todo[g] = <<>>
  BY DEF SchedulerInv, SchedulerTypeOK
<1>2. ASSUME NEW g \in Gated, polls(g) PROVE SchedulerInv'
  BY <1>1, <1>2, QuietInv DEF polls
<1>3. ASSUME NEW g \in Gated, tick_at_gated(g) PROVE SchedulerInv'
  <2>1. /\ g \in Client /\ polled[g].now \in 0..latest /\ DOMAIN polled' = Gated
        /\ \A h \in Gated : polled'[h] # NoRow => h # g /\ polled'[h] = polled[h]
    BY <1>1, <1>3 DEF tick_at_gated, Client
  <2>2. CASE takes_due(g, polled[g].now)
    BY <1>3, <2>1, <2>2, TakenInv DEF tick_at_gated
  <2>3. CASE leaves_due(g)
    BY <1>1, <1>3, <2>1, <2>3, QuietInv DEF tick_at_gated, leaves_due
  <2>4. QED
    BY <1>3, <2>2, <2>3 DEF tick_at_gated
<1>4. ASSUME NEW g \in Gated, tick_fails(g) PROVE SchedulerInv'
  BY <1>1, <1>4, QuietInv DEF tick_fails
<1>5. ASSUME NEW d \in Daemon, daemon_ticks(d) PROVE SchedulerInv'
  <2>1. d \in Client /\ d \notin Gated
    BY DEF SchedulerAssumption, Client
  <2>2. QED
    BY <1>1, <1>5, <2>1, TakenInv DEF daemon_ticks
<1>6. ASSUME NEW d \in Daemon, daemon_fails(d) PROVE SchedulerInv'
  BY <1>1, <1>6, QuietInv DEF daemon_fails
<1>7. ASSUME NEW c \in Client, crash(c) PROVE SchedulerInv'
  <2>1. /\ UNCHANGED <<table, past, submits, clock, latest>>
        /\ todo' = [todo EXCEPT ![c] = <<>>]
        /\ polled' = [g \in Gated |-> IF g = c THEN NoRow ELSE polled[g]]
    BY <1>7 DEF crash
  <2>2. /\ \A d \in Client : todo'[d] \in {todo[d], <<>>}
        /\ todo' = [d \in Client |-> todo'[d]]
    BY <1>1, <2>1
  <2>3. ASSUME NEW g \in Gated, polled'[g] # NoRow
        PROVE  todo'[g] = <<>> /\ polled'[g] = polled[g]
    <3>1. g # c /\ polled'[g] = polled[g] /\ g \in Client
      BY <2>1, <2>3 DEF Client
    <3>2. todo'[g] = todo[g]
      BY <1>1, <2>1, <3>1
    <3>3. QED
      BY <1>1, <2>3, <3>1, <3>2
  <2>4. QED
    BY <1>1, <2>1, <2>2, <2>3, QuietInv
<1>8. CASE time_passes
  BY <1>1, <1>8, QuietInv DEF time_passes
<1>9. CASE clock_set_back
  BY <1>1, <1>9, QuietInv DEF clock_set_back
<1>10. QED
  BY <1>2, <1>3, <1>4, <1>5, <1>6, <1>7, <1>8, <1>9, UpsertInv, CancelInv, FiredInv
     DEF SchedulerNext

LEMMA InitInv == SchedulerAssumption /\ SchedulerInit => SchedulerInv
<1> SUFFICES ASSUME SchedulerInit PROVE SchedulerInv
  OBVIOUS
<1>1. Nothing \in Past /\ Nothing.edition = 0 /\ Nothing.started = {}
  BY DEF Nothing, Past
<1>2. SchedulerTypeOK
  BY <1>1 DEF SchedulerInit, SchedulerTypeOK
<1>3. EditionInv /\ GridInv /\ StartedOnce
  BY <1>1 DEF SchedulerInit, EditionInv, GridInv, StartedOnce
<1>4. QED
  BY <1>2, <1>3 DEF SchedulerInv

\* For any rows, clients, gate, deaths and steps of the clock, a recurring
\* schedule keeps its grid, and no firing is handed to two clients or run twice
\* (ScheduleStore::tick of lib.rs).
THEOREM SchedulesKept ==
    ASSUME SchedulerAssumption
    PROVE  SchedulerSpec => [](SchedulerTypeOK /\ SchedulesAreKept)
<1>1. SchedulerInit => SchedulerInv
  BY InitInv
<1>2. SchedulerInv /\ [SchedulerNext]_schedules => SchedulerInv'
  <2> SUFFICES ASSUME SchedulerInv, [SchedulerNext]_schedules PROVE SchedulerInv'
    OBVIOUS
  <2>1. CASE UNCHANGED schedules
    <3>1. UNCHANGED <<clock, table, polled, todo, past, latest, submits>>
      BY <2>1 DEF schedules
    <3>2. SchedulerTypeOK'
      BY <3>1 DEF SchedulerInv, SchedulerTypeOK
    <3>3. EditionInv'
      BY <3>1 DEF SchedulerInv, EditionInv
    <3>4. GridInv'
      BY <3>1 DEF SchedulerInv, GridInv, OnGrid, Nearest
    <3>5. StartedOnce'
      BY <3>1 DEF SchedulerInv, StartedOnce, Mine
    <3>6. QED
      BY <3>2, <3>3, <3>4, <3>5 DEF SchedulerInv
  <2>2. QED
    BY <2>1, NextInv
<1>3. SchedulerInv => SchedulerTypeOK /\ SchedulesAreKept
  BY GridInvIsGridKept DEF SchedulerInv, SchedulesAreKept
<1>4. QED
  BY <1>1, <1>2, <1>3, PTL DEF SchedulerSpec
=============================================================================
