----------------------------- MODULE AgentProofs -----------------------------
(***************************************************************************)
(* Proofs about what one step may do, for any tools, agents, models and      *)
(* bounds: the turns of an agent, nested agents, the callers of the model     *)
(* pool, single calls, generated programs, and the calls to other hosts.      *)
(***************************************************************************)
EXTENDS AgentLayer, FiniteSetTheorems, SequenceTheorems, TLAPS

-----------------------------------------------------------------------------
(* Subagents *)

Frame == [agent : AgentNames, allowed : {Unlimited} \cup SUBSET Builtin, deadline : Nat]

\* Each loop has its agent's ceiling.
Bounded(stack) ==
    \A i \in DOMAIN stack : stack[i].allowed = ceiling(load_all[stack[i].agent])

\* The stack of rights is that of the loops, and who reached a tool was inside
\* its own bounds.
SubInv ==
    /\ frames \in Seq(Frame) /\ Bounded(frames)
    /\ spawn_stack \in Seq({load_all[n].allow_spawn : n \in AgentNames})
    /\ Len(spawn_stack) = Len(frames) /\ Len(frames) <= MAX_SPAWN_DEPTH
    /\ \A i \in DOMAIN frames : spawn_stack[i] = load_all[frames[i].agent].allow_spawn
    /\ \A i \in 1 .. Len(frames) - 1 : load_all[frames[i].agent].allow_spawn
    /\ clock \in Nat
    /\ OwnBoundsHold

LEMMA InitSub == SubInit => SubInv
BY DEF SubInit, SubInv, Bounded, OwnBoundsHold, Nobody, MAX_SPAWN_DEPTH

LEMMA CallInBounds ==
    ASSUME SubagentsAssumption, SubInv, NEW tool \in Tool, call_tool(tool)
    PROVE  SubInv'
<1>1. UNCHANGED <<frames, spawn_stack, clock>> /\ reached' = [tool |-> tool, by |-> frames, at |-> clock]
  BY DEF call_tool
<1>2. ASSUME frames # <<>>
      PROVE  /\ Top \in Frame /\ Top.allowed = ceiling(load_all[Top.agent])
             /\ clock <= Top.deadline /\ Permits(Top.allowed, tool)
  <2>1. Len(frames) \in DOMAIN frames
    BY <1>2 DEF SubInv
  <2>2. QED
    BY <1>2, <2>1 DEF SubInv, Bounded, Top, call_tool, passes
<1>3. OwnBoundsHold'
  <2> SUFFICES ASSUME frames # <<>>
               PROVE  /\ load_all[Top.agent].tools # {} => tool \in load_all[Top.agent].tools \cap Builtin
                      /\ clock <= Top.deadline
    BY <1>1 DEF OwnBoundsHold, Top
  <2>1. CASE load_all[Top.agent].tools = {}
    BY <1>2, <2>1
  <2>2. CASE load_all[Top.agent].tools # {}
    <3>1. Top.allowed = load_all[Top.agent].tools \cap Builtin
      BY <1>2, <2>2 DEF ceiling
    <3>2. Top.allowed # Unlimited
      BY <3>1 DEF SubagentsAssumption, Unlimited
    <3>3. QED
      BY <1>2, <3>1, <3>2 DEF Permits
  <2>3. QED
    BY <2>1, <2>2
<1>4. QED
  BY <1>1, <1>3 DEF SubInv, Bounded

LEMMA SpawnByRight ==
    ASSUME SubagentsAssumption, SubInv, NEW name \in AgentNames, run_agent(name)
    PROVE  SubInv'
<1> DEFINE f == [agent |-> name, allowed |-> ceiling(load_all[name]), deadline |-> clock + load_all[name].wall]
           r == load_all[name].allow_spawn
<1>1. frames' = Append(frames, f) /\ spawn_stack' = Append(spawn_stack, r) /\ UNCHANGED <<clock, reached>>
  BY DEF run_agent
<1>2. f \in Frame /\ f.allowed = ceiling(load_all[f.agent])
  BY DEF Frame, ceiling, SubInv, SubagentsAssumption
<1>3. r \in {load_all[n].allow_spawn : n \in AgentNames}
  OBVIOUS
<1> HIDE DEF f, r
<1>4. /\ frames' \in Seq(Frame) /\ Len(frames') = Len(frames) + 1
      /\ \A i \in DOMAIN frames' : frames'[i] = IF i = Len(frames) + 1 THEN f ELSE frames[i]
  BY <1>1, <1>2 DEF SubInv
<1>5. /\ spawn_stack' \in Seq({load_all[n].allow_spawn : n \in AgentNames})
      /\ Len(spawn_stack') = Len(spawn_stack) + 1
      /\ \A i \in DOMAIN spawn_stack' : spawn_stack'[i] = IF i = Len(spawn_stack) + 1 THEN r ELSE spawn_stack[i]
  BY <1>1, <1>3 DEF SubInv
<1>6. Len(spawn_stack) = Len(frames) /\ Len(frames) \in Nat
  BY DEF SubInv
<1>7. frames # <<>> => Len(frames) < MAX_SPAWN_DEPTH /\ spawn_stack[Len(frames)]
  <2>1. frames # <<>> => spawn_stack # <<>>
    BY DEF SubInv
  <2>2. QED
    BY <2>1, <1>6 DEF run_agent, may_spawn
<1>8. Len(frames') <= MAX_SPAWN_DEPTH
  BY <1>4, <1>6, <1>7 DEF SubInv, MAX_SPAWN_DEPTH
<1>9. Bounded(frames)'
  BY <1>4, <1>2 DEF SubInv, Bounded
<1>10. \A i \in DOMAIN frames' : spawn_stack'[i] = load_all[frames'[i].agent].allow_spawn
  <2>1. r = load_all[f.agent].allow_spawn
    BY DEF f, r
  <2>2. QED
    BY <1>4, <1>5, <1>6, <2>1 DEF SubInv
<1>11. \A i \in 1 .. Len(frames') - 1 : load_all[frames'[i].agent].allow_spawn
  <2> SUFFICES ASSUME NEW i \in 1 .. Len(frames) PROVE load_all[frames'[i].agent].allow_spawn
    BY <1>4, <1>6
  <2>1. frames'[i] = frames[i] /\ i \in DOMAIN frames
    BY <1>4, <1>6 DEF SubInv
  <2>2. CASE i < Len(frames)
    BY <2>1, <2>2, <1>6 DEF SubInv
  <2>3. CASE i = Len(frames)
    BY <2>1, <2>3, <1>7, <1>6 DEF SubInv
  <2>4. QED
    BY <2>2, <2>3, <1>6
<1>12. OwnBoundsHold'
  BY <1>1 DEF SubInv, OwnBoundsHold
<1>13. QED
  BY <1>1, <1>4, <1>5, <1>6, <1>8, <1>9, <1>10, <1>11, <1>12 DEF SubInv

LEMMA ReturnKeeps ==
    ASSUME SubInv, agent_returns
    PROVE  SubInv'
<1>1. /\ frames # <<>> /\ UNCHANGED <<clock, reached>>
      /\ frames' = SubSeq(frames, 1, Len(frames) - 1)
      /\ spawn_stack' = SubSeq(spawn_stack, 1, Len(spawn_stack) - 1)
  BY DEF agent_returns
<1>2. Len(spawn_stack) = Len(frames) /\ Len(frames) \in Nat \ {0}
  BY <1>1 DEF SubInv
<1>3. /\ frames' \in Seq(Frame) /\ Len(frames') = Len(frames) - 1
      /\ \A i \in DOMAIN frames' : frames'[i] = frames[i] /\ i \in DOMAIN frames
  BY <1>1, <1>2 DEF SubInv
<1>4. /\ spawn_stack' \in Seq({load_all[n].allow_spawn : n \in AgentNames})
      /\ Len(spawn_stack') = Len(frames) - 1
      /\ \A i \in DOMAIN spawn_stack' : spawn_stack'[i] = spawn_stack[i] /\ i \in DOMAIN spawn_stack
  BY <1>1, <1>2 DEF SubInv
<1>5. Bounded(frames)'
  BY <1>3 DEF SubInv, Bounded
<1>6. OwnBoundsHold'
  BY <1>1 DEF SubInv, OwnBoundsHold
<1>7. \A i \in 1 .. Len(frames') - 1 : load_all[frames'[i].agent].allow_spawn
  BY <1>3, <1>2 DEF SubInv
<1>8. \A i \in DOMAIN frames' : spawn_stack'[i] = load_all[frames'[i].agent].allow_spawn
  BY <1>3, <1>4, <1>2 DEF SubInv
<1>9. QED
  BY <1>1, <1>2, <1>3, <1>4, <1>5, <1>6, <1>7, <1>8 DEF SubInv, MAX_SPAWN_DEPTH

LEMMA SubSteps ==
    ASSUME SubagentsAssumption, SubInv, [SubNext]_sub_vars
    PROVE  SubInv'
<1>1. CASE time_passes
  <2>1. UNCHANGED <<frames, spawn_stack, reached>> /\ clock' = clock + 1
    BY <1>1 DEF time_passes
  <2>2. QED
    BY <2>1 DEF SubInv, Bounded, OwnBoundsHold
<1>2. CASE UNCHANGED sub_vars
  BY <1>2 DEF sub_vars, SubInv, Bounded, OwnBoundsHold
<1>3. QED
  BY <1>1, <1>2, ReturnKeeps, SpawnByRight, CallInBounds DEF SubNext

LEMMA SubRight == SubInv => SubagentsBounded
BY DEF SubInv, SubagentsBounded, SpawnedByRight

-----------------------------------------------------------------------------
(* The turns of an agent *)

Result   == [form : {"whole"}, grade : Grades, secret : BOOLEAN]
Proposed == Action \cup {NoAction}
Places   == {"decide", "tool", "verify", "record", "critique", "finalize", "Committed", "Escalate",
             "SecurityViolation", "Model", "StuckLoop", "ActionRejected", "VerificationFailed",
             "TurnsExhausted"}
StepType == [at : Places, turn : Nat, attempt : 0 .. MAX_RETRIES, calls : Nat, last : Proposed,
             repeats : Nat, action : Proposed, reached : BOOLEAN, result : Result \cup {None}]
Setups   == [mode : Modes, rego : Rego, contract : {"code", "config"},
             self_critique : BOOLEAN, verify_actions : BOOLEAN]
Effect   == [action : Action, turn : Nat, confirmed : BOOLEAN]

AgentTypeOK ==
    /\ setup \in Setups /\ step \in StepType /\ effects \in Seq(Effect) /\ journalled \in Nat
    /\ step.at \in {"tool", "verify", "record"} => step.action \in Action

\* What is left of the four calls of a turn.
CallsInv ==
    /\ step.at = "decide" => step.calls = step.attempt
    /\ step.at \in {"tool", "verify", "critique"} => step.calls <= 3
    /\ CallsBounded

\* A finish waits without a secret.
FinishInv ==
    /\ step.at \in {"critique", "finalize"} => step.result \in Result /\ ~step.result.secret
    /\ PatchWasChecked

\* One call at most is not journalled yet.
JournalInv ==
    /\ step.at \in {"decide", "tool"} => ~step.reached
    /\ step.at = "verify" => setup.verify_actions
    /\ ~setup.verify_actions =>
          Len(effects) = counts_effects(journalled, step.at = "record" /\ step.reached)

\* The last turn whose proposal was counted, and the calls that end with it: as
\* many in a row as there are repeats, or fewer.
Counts   == step.at \in {"verify", "record"}
Latest   == IF Counts THEN step.turn ELSE step.turn - 1
InARow(n, last) == \A i \in n .. Len(effects) :
                      effects[i].action = step.last /\ effects[i].turn = last - (Len(effects) - i)
RepeatInv ==
    /\ NoFourInARow
    /\ ~Ended =>
          /\ \A i \in DOMAIN effects : effects[i].turn <= Latest
          /\ effects # <<>> /\ effects[Len(effects)].turn = Latest
                => effects[Len(effects)].action = step.last
          /\ \A n \in DOMAIN effects : InARow(n, Latest) => Len(effects) - n <= step.repeats

AgentInv == AgentTypeOK /\ EffectsWereAllowed /\ CallsInv /\ FinishInv /\ JournalInv /\ RepeatInv

LEMMA Mediated ==
    ASSUME NEW text \in Text \cup Result, NEW attempt \in 0 .. MAX_RETRIES,
           NEW rules \in BOOLEAN, NEW known \in BOOLEAN
    PROVE  LET o == mediate(text, attempt, rules, known)
           IN /\ o.kind \in {"Committed", "Retry", "Escalate", "SecurityViolation"}
              /\ o.kind = "Retry" => attempt < MAX_RETRIES
              /\ o.kind = "Committed" =>
                    /\ text.form # "torn" /\ text.grade # "shapeless"
                    /\ known => ~text.secret
                    /\ rules => text.grade # "unruly"
              /\ without_retry(o).kind \in {"Committed", "Escalate", "SecurityViolation"}
              /\ without_retry(o).kind = "Committed" => o.kind = "Committed"
<1> DEFINE o == mediate(text, attempt, rules, known)
<1>1. CASE ~parse_with_repair(text)
  BY <1>1 DEF mediate, retry_or_escalate, outcome, more_attempts, parse_with_repair, without_retry
<1>2. CASE parse_with_repair(text) /\ ~validate(text)
  BY <1>2 DEF mediate, retry_or_escalate, outcome, more_attempts, parse_with_repair, validate, without_retry
<1>3. CASE parse_with_repair(text) /\ validate(text) /\ ~check_no_leaked_secrets(text, known)
  BY <1>3 DEF mediate, outcome, without_retry
<1>4. CASE parse_with_repair(text) /\ validate(text) /\ check_no_leaked_secrets(text, known)
  BY <1>4 DEF mediate, outcome, without_retry, check_no_leaked_secrets, check_rules, parse_with_repair, validate
<1>5. QED
  BY <1>1, <1>2, <1>3, <1>4

\* What the actions set in the record of a step.
LEMMA StepsTyped ==
    ASSUME NEW s \in StepType, NEW at \in Places, NEW n \in Nat
    PROVE  /\ [s EXCEPT !.at = at] \in StepType
           /\ [s EXCEPT !.at = at, !.calls = n] \in StepType
           /\ \A a \in Proposed : [s EXCEPT !.at = at, !.action = a, !.calls = n] \in StepType
           /\ \A r \in Result : [s EXCEPT !.at = at, !.result = r, !.calls = n] \in StepType
           /\ \A m \in 0 .. MAX_RETRIES : [s EXCEPT !.attempt = m, !.calls = n] \in StepType
<1>1. [s EXCEPT !.at = at, !.calls = n] = [[s EXCEPT !.at = at] EXCEPT !.calls = n]
  BY DEF StepType
<1>2. ASSUME NEW a PROVE [s EXCEPT !.at = at, !.action = a, !.calls = n]
                            = [[[s EXCEPT !.at = at] EXCEPT !.action = a] EXCEPT !.calls = n]
  BY DEF StepType
<1>3. ASSUME NEW r PROVE [s EXCEPT !.at = at, !.result = r, !.calls = n]
                            = [[[s EXCEPT !.at = at] EXCEPT !.result = r] EXCEPT !.calls = n]
  BY DEF StepType
<1>4. ASSUME NEW m PROVE [s EXCEPT !.attempt = m, !.calls = n] = [[s EXCEPT !.attempt = m] EXCEPT !.calls = n]
  BY DEF StepType
<1>5. /\ [s EXCEPT !.at = at] \in StepType
      /\ \A m \in 0 .. MAX_RETRIES : [s EXCEPT !.attempt = m] \in StepType
  BY DEF StepType
<1>6. ASSUME NEW q \in StepType
      PROVE  /\ [q EXCEPT !.calls = n] \in StepType
             /\ \A a \in Proposed : [q EXCEPT !.action = a] \in StepType
             /\ \A r \in Result : [q EXCEPT !.result = r] \in StepType
  BY DEF StepType
<1>7. QED
  BY <1>1, <1>2, <1>3, <1>4, <1>5, <1>6

LEMMA InitAgent == AgentInit => AgentInv
<1> SUFFICES ASSUME AgentInit PROVE AgentInv
  OBVIOUS
<1>1. AgentTypeOK
  <2>1. Start \in StepType /\ Start.at = "decide"
    <3>1. 0 \in 0 .. MAX_RETRIES /\ 0 \in Nat
      BY DEF MAX_RETRIES
    <3>2. NoAction \in Proposed /\ None \in Result \cup {None}
      BY DEF Proposed
    <3>3. QED
      BY <3>1, <3>2 DEF Start, Places, StepType
  <2>2. QED
    BY <2>1 DEF AgentInit, AgentTypeOK, Setups
<1>2. step.at = "decide" /\ step.calls = 0 /\ step.attempt = 0 /\ step.turn = 0 /\ step.reached = FALSE
  BY DEF AgentInit, Start
<1>3. CallsInv /\ FinishInv
  BY <1>2 DEF CallsInv, FinishInv, CallsBounded, PatchWasChecked
<1>4. JournalInv
  BY <1>2 DEF JournalInv, AgentInit, counts_effects
<1>5. EffectsWereAllowed /\ RepeatInv
  BY DEF EffectsWereAllowed, RepeatInv, NoFourInARow, AgentInit
<1>6. QED
  BY <1>1, <1>3, <1>4, <1>5 DEF AgentInv

\* A step that calls no tool and counts no proposal.
Quiet ==
    /\ UNCHANGED <<setup, effects, journalled>>
    /\ step'.turn = step.turn /\ step'.last = step.last /\ step'.repeats = step.repeats
    /\ step'.reached = step.reached
    /\ Counts' => Counts
    /\ Counts => Counts' \/ Ended'

LEMMA QuietKeeps ==
    ASSUME AgentInv, Quiet, ~Ended, AgentTypeOK'
    PROVE  EffectsWereAllowed' /\ RepeatInv'
<1>1. EffectsWereAllowed'
  BY DEF Quiet, AgentInv, EffectsWereAllowed
<1>2. ~Ended' => Latest' = Latest
  BY DEF Quiet, Latest, Counts, Ended, AgentInv
<1>3. RepeatInv'
  BY <1>2 DEF Quiet, AgentInv, RepeatInv, InARow, NoFourInARow
<1>4. QED
  BY <1>1, <1>3


LEMMA KeepsQuiet ==
    ASSUME AgentInv, Quiet, ~Ended, AgentTypeOK', CallsInv', FinishInv', JournalInv'
    PROVE  AgentInv'
BY QuietKeeps DEF AgentInv

LEMMA ModelFails == ASSUME AgentInv, model_fails PROVE AgentInv'
<1>1. /\ step.at \in {"decide", "verify", "critique"} /\ UNCHANGED <<setup, effects, journalled>>
      /\ step' = [step EXCEPT !.at = "Model", !.calls = step.calls + 1]
  BY DEF model_fails, Asks
<1>2. step \in StepType /\ step.calls \in Nat
  BY DEF AgentInv, AgentTypeOK, StepType
<1>3. /\ step'.at = "Model" /\ step'.calls = step.calls + 1 /\ step' \in StepType
      /\ step'.turn = step.turn /\ step'.last = step.last /\ step'.repeats = step.repeats
      /\ step'.reached = step.reached
  <2>1. step.calls + 1 \in Nat
    BY <1>2
  <2>2. step' \in StepType
    BY <1>1, <1>2, <2>1, StepsTyped DEF Places
  <2>3. QED
    BY <2>2, <1>1, <1>2 DEF StepType
<1>4. AgentTypeOK'
  BY <1>1, <1>3 DEF AgentInv, AgentTypeOK
<1>5. CallsInv'
  BY <1>1, <1>2, <1>3 DEF AgentInv, AgentTypeOK, StepType, CallsInv, CallsBounded, MAX_RETRIES
<1>6. FinishInv'
  BY <1>3 DEF FinishInv, PatchWasChecked
<1>7. JournalInv'
  BY <1>1, <1>3 DEF AgentInv, JournalInv, counts_effects
<1>8. Quiet /\ ~Ended
  BY <1>1, <1>3 DEF Quiet, Counts, Ended
<1>9. QED
  BY <1>4, <1>5, <1>6, <1>7, <1>8, KeepsQuiet

LEMMA Finishes ==
    ASSUME NEW text \in Text \cup Result, text.form # "torn", ~text.secret, NEW r \in Results(text)
    PROVE  r \in Result /\ ~r.secret
BY DEF Results, Result

LEMMA DecideTurn == ASSUME AgentInv, decide_turn PROVE AgentInv'
<1>1. PICK raw \in Text : \E text \in repair_turn_decision(raw) :
         LET o == mediate_turn(text, step.attempt)
         IN CASE o.kind = "Committed" -> decided(text)
              [] o.kind = "Retry" -> step' = [step EXCEPT !.attempt = step.attempt + 1, !.calls = step.calls + 1]
              [] OTHER -> step' = [step EXCEPT !.at = o.kind, !.calls = step.calls + 1]
  BY DEF decide_turn, Asks
<1>2. PICK text \in repair_turn_decision(raw) :
         LET o == mediate_turn(text, step.attempt)
         IN CASE o.kind = "Committed" -> decided(text)
              [] o.kind = "Retry" -> step' = [step EXCEPT !.attempt = step.attempt + 1, !.calls = step.calls + 1]
              [] OTHER -> step' = [step EXCEPT !.at = o.kind, !.calls = step.calls + 1]
  BY <1>1
<1> DEFINE o == mediate_turn(text, step.attempt)
<1>3. /\ step.at = "decide" /\ UNCHANGED <<setup, effects, journalled>>
      /\ step \in StepType /\ step.attempt \in 0 .. MAX_RETRIES /\ step.calls = step.attempt
      /\ ~step.reached
  BY DEF decide_turn, AgentInv, AgentTypeOK, StepType, CallsInv, JournalInv
<1>4. text \in Text
  BY DEF repair_turn_decision, Text, Grades
<1>5. /\ o.kind \in {"Committed", "Retry", "Escalate", "SecurityViolation"}
      /\ o.kind = "Retry" => step.attempt < MAX_RETRIES
      /\ o.kind = "Committed" => text.form # "torn" /\ ~text.secret
  BY <1>3, <1>4, Mediated DEF mediate_turn
<1> HIDE DEF o
<1>6. CASE o.kind = "Committed"
  <2>1. decided(text)
    BY <1>2, <1>6 DEF o
  <2>2. CASE \E a \in Action : step' = [step EXCEPT !.at = "tool", !.action = a, !.calls = step.calls + 1]
    <3>1. PICK a \in Action : step' = [step EXCEPT !.at = "tool", !.action = a, !.calls = step.calls + 1]
      BY <2>2
    <3>2. /\ step' \in StepType /\ step'.at = "tool" /\ step'.action = a /\ step'.calls = step.calls + 1
          /\ step'.turn = step.turn /\ step'.last = step.last /\ step'.repeats = step.repeats
          /\ step'.reached = step.reached
      <4>1. a \in Proposed /\ step.calls + 1 \in Nat
        BY <1>3 DEF Proposed, MAX_RETRIES
      <4>2. step' \in StepType
        BY <3>1, <1>3, <4>1, StepsTyped DEF Places
      <4>3. QED
        BY <3>1, <4>2, <1>3 DEF StepType
    <3>3. AgentTypeOK'
      BY <1>3, <3>2 DEF AgentInv, AgentTypeOK
    <3>4. CallsInv'
      BY <1>3, <3>2 DEF CallsInv, CallsBounded, MAX_RETRIES
    <3>5. FinishInv'
      BY <3>2 DEF FinishInv, PatchWasChecked
    <3>6. JournalInv'
      BY <1>3, <3>2 DEF AgentInv, JournalInv, counts_effects
    <3>7. Quiet /\ ~Ended
      BY <1>3, <3>2 DEF Quiet, Counts, Ended
    <3>8. QED
      BY <3>3, <3>4, <3>5, <3>6, <3>7, KeepsQuiet
  <2>3. CASE \E r \in Results(text) :
               step' = [step EXCEPT !.at = IF setup.self_critique THEN "critique" ELSE "finalize",
                                    !.result = r, !.calls = step.calls + 1]
    <3>1. PICK r \in Results(text) :
               step' = [step EXCEPT !.at = IF setup.self_critique THEN "critique" ELSE "finalize",
                                    !.result = r, !.calls = step.calls + 1]
      BY <2>3
    <3>2. r \in Result /\ ~r.secret
      BY <1>4, <1>5, <1>6, Finishes
    <3>3. /\ step' \in StepType /\ step'.at \in {"critique", "finalize"}
          /\ step'.result = r /\ step'.calls = step.calls + 1
          /\ step'.turn = step.turn /\ step'.last = step.last /\ step'.repeats = step.repeats
          /\ step'.reached = step.reached
      <4>1. step.calls + 1 \in Nat
        BY <1>3 DEF MAX_RETRIES
      <4>2. step' \in StepType
        <5>1. (IF setup.self_critique THEN "critique" ELSE "finalize") \in Places
          BY DEF Places
        <5>2. QED
          BY <3>1, <3>2, <1>3, <4>1, <5>1, StepsTyped
      <4>3. QED
        BY <3>1, <4>2, <1>3 DEF StepType
    <3>4. AgentTypeOK'
      BY <1>3, <3>3 DEF AgentInv, AgentTypeOK
    <3>5. CallsInv'
      BY <1>3, <3>3 DEF CallsInv, CallsBounded, MAX_RETRIES
    <3>6. FinishInv'
      BY <3>2, <3>3 DEF FinishInv, PatchWasChecked
    <3>7. JournalInv'
      BY <1>3, <3>3 DEF AgentInv, JournalInv, counts_effects
    <3>8. Quiet /\ ~Ended
      BY <1>3, <3>3 DEF Quiet, Counts, Ended
    <3>9. QED
      BY <3>4, <3>5, <3>6, <3>7, <3>8, KeepsQuiet
  <2>4. QED
    BY <2>1, <2>2, <2>3 DEF decided, Asks
<1>7. CASE o.kind = "Retry"
  <2>1. step' = [step EXCEPT !.attempt = step.attempt + 1, !.calls = step.calls + 1]
    BY <1>2, <1>7 DEF o
  <2>2. /\ step' \in StepType /\ step'.at = "decide"
        /\ step'.attempt = step.attempt + 1 /\ step'.calls = step.calls + 1
        /\ step'.turn = step.turn /\ step'.last = step.last /\ step'.repeats = step.repeats
        /\ step'.reached = step.reached
    <3>1. step.calls + 1 \in Nat /\ step.attempt + 1 \in 0 .. MAX_RETRIES
      BY <1>3, <1>5, <1>7 DEF MAX_RETRIES
    <3>2. step' \in StepType
      BY <2>1, <1>3, <3>1, StepsTyped DEF Places
    <3>3. QED
      BY <2>1, <3>2, <1>3 DEF StepType
  <2>3. AgentTypeOK' /\ CallsInv' /\ FinishInv' /\ JournalInv'
    BY <1>3, <1>5, <1>7, <2>2 DEF AgentInv, AgentTypeOK, CallsInv, CallsBounded, FinishInv, PatchWasChecked,
         JournalInv, counts_effects, MAX_RETRIES
  <2>4. Quiet /\ ~Ended
    BY <1>3, <2>2 DEF Quiet, Counts, Ended
  <2>5. QED
    BY <2>3, <2>4, KeepsQuiet
<1>8. CASE o.kind \in {"Escalate", "SecurityViolation"}
  <2>1. step' = [step EXCEPT !.at = o.kind, !.calls = step.calls + 1]
    BY <1>2, <1>8 DEF o
  <2>2. /\ step' \in StepType /\ step'.at \in {"Escalate", "SecurityViolation"} /\ step'.calls = step.calls + 1
        /\ step'.turn = step.turn /\ step'.last = step.last /\ step'.repeats = step.repeats
        /\ step'.reached = step.reached
    <3>1. step.calls + 1 \in Nat
      BY <1>3 DEF MAX_RETRIES
    <3>2. step' \in StepType
      BY <2>1, <1>3, <1>8, <3>1, StepsTyped DEF Places
    <3>3. QED
      BY <2>1, <3>2, <1>3, <1>8 DEF StepType
  <2>3. AgentTypeOK' /\ CallsInv' /\ FinishInv' /\ JournalInv'
    BY <1>3, <2>2 DEF AgentInv, AgentTypeOK, CallsInv, CallsBounded, FinishInv, PatchWasChecked,
         JournalInv, counts_effects, MAX_RETRIES
  <2>4. Quiet /\ ~Ended
    BY <1>3, <2>2 DEF Quiet, Counts, Ended
  <2>5. QED
    BY <2>3, <2>4, KeepsQuiet
<1>9. QED
  BY <1>5, <1>6, <1>7, <1>8

LEMMA FailsKeeps ==
    ASSUME AgentInv, ~Ended, ~Counts, NEW why \in Places, Fails(why),
           why \in {"StuckLoop", "ActionRejected", "Escalate", "SecurityViolation"},
           UNCHANGED <<setup, effects, journalled>>
    PROVE  AgentInv'
<1>1. step \in StepType /\ step' = [step EXCEPT !.at = why]
  BY DEF AgentInv, AgentTypeOK, Fails
<1>2. step' \in StepType
  BY <1>1, StepsTyped
<1>3. /\ step'.at = why /\ step'.calls = step.calls
      /\ step'.turn = step.turn /\ step'.last = step.last /\ step'.repeats = step.repeats
      /\ step'.reached = step.reached
  BY <1>1 DEF StepType
<1>4. AgentTypeOK' /\ CallsInv' /\ FinishInv'
  BY <1>2, <1>3 DEF AgentInv, AgentTypeOK, CallsInv, CallsBounded, FinishInv, PatchWasChecked
<1>5. JournalInv'
  BY <1>3 DEF AgentInv, JournalInv, counts_effects, Counts
<1>6. Quiet
  BY <1>3 DEF Quiet, Counts, Ended
<1>7. QED
  BY <1>4, <1>5, <1>6, KeepsQuiet

LEMMA Stuck == ASSUME AgentInv, stuck PROVE AgentInv'
<1>1. ~Ended /\ ~Counts /\ "StuckLoop" \in Places
  BY DEF stuck, Ended, Counts, Places
<1>2. QED
  BY <1>1, FailsKeeps DEF stuck

LEMMA HumanSaysNo == ASSUME AgentInv, human_says_no PROVE AgentInv'
<1>1. ~Ended /\ ~Counts /\ "ActionRejected" \in Places
  BY DEF human_says_no, Ended, Counts, Places
<1>2. QED
  BY <1>1, FailsKeeps DEF human_says_no

LEMMA EffectsTyped ==
    ASSUME AgentTypeOK
    PROVE  /\ effects \in Seq(Effect) /\ Len(effects) \in Nat
           /\ \A i \in DOMAIN effects : effects[i] \in Effect /\ effects[i].turn \in Nat
<1>1. effects \in Seq(Effect) /\ \A i \in DOMAIN effects : effects[i] \in Effect
  BY DEF AgentTypeOK
<1>2. QED
  BY <1>1 DEF Effect

\* The record of a step after its proposal was counted.
LEMMA CountedTyped ==
    ASSUME NEW s \in StepType, NEW a \in Proposed, NEW n \in Nat, NEW at \in Places
    PROVE  LET q == [s EXCEPT !.last = a, !.repeats = n]
           IN /\ [q EXCEPT !.at = at] \in StepType
              /\ [q EXCEPT !.at = at, !.reached = TRUE] \in StepType
<1> DEFINE q == [s EXCEPT !.last = a, !.repeats = n]
<1>1. q = [[s EXCEPT !.last = a] EXCEPT !.repeats = n]
  BY DEF StepType
<1>2. [s EXCEPT !.last = a] \in StepType
  BY DEF StepType
<1>3. q \in StepType
  <2>1. ASSUME NEW p \in StepType PROVE [p EXCEPT !.repeats = n] \in StepType
    BY DEF StepType
  <2>2. QED
    BY <1>1, <1>2, <2>1
<1> HIDE DEF q
<1>4. [q EXCEPT !.at = at] \in StepType
  BY <1>3 DEF StepType
<1>5. [q EXCEPT !.at = at, !.reached = TRUE] = [[q EXCEPT !.at = at] EXCEPT !.reached = TRUE]
  BY <1>3 DEF StepType
<1>6. [q EXCEPT !.at = at, !.reached = TRUE] \in StepType
  <2>1. ASSUME NEW p \in StepType PROVE [p EXCEPT !.reached = TRUE] \in StepType
    BY DEF StepType
  <2>2. QED
    BY <1>4, <1>5, <2>1
<1>7. QED
  BY <1>4, <1>6 DEF q

\* What is left after the count of a proposal, whatever happens to it.
After ==
    /\ step'.at = (IF setup.verify_actions THEN "verify" ELSE "record")
    /\ step'.last = step.action /\ step'.repeats = identical(step.action)
    /\ step'.action = step.action /\ step'.turn = step.turn /\ step'.calls = step.calls
    /\ step' \in StepType /\ setup' = setup

LEMMA CountKeeps ==
    ASSUME AgentInv, After, step.at = "tool"
    PROVE  CallsInv' /\ FinishInv' /\ ~Ended' /\ Latest' = step.turn /\ Latest = step.turn - 1 /\ ~Ended
<1>1. step'.at \in {"verify", "record"}
  BY DEF After
<1>2. QED
  BY <1>1 DEF After, AgentInv, CallsInv, CallsBounded, FinishInv, PatchWasChecked, Ended, Latest, Counts,
       AgentTypeOK, StepType

LEMMA Denied == ASSUME AgentInv, denied PROVE AgentInv'
<1> DEFINE at == IF setup.verify_actions THEN "verify" ELSE "record"
<1>1. /\ step.at = "tool" /\ UNCHANGED <<setup, effects, journalled>> /\ step \in StepType
      /\ step.action \in Action /\ step' = [Counted(step.action) EXCEPT !.at = at]
      /\ ~step.reached
  BY DEF denied, AgentInv, AgentTypeOK, JournalInv
<1>2. identical(step.action) \in Nat /\ step.action \in Proposed /\ at \in Places
  BY <1>1 DEF identical, StepType, Proposed, Places
<1> HIDE DEF at
<1>3. step' \in StepType
  BY <1>1, <1>2, CountedTyped DEF Counted
<1>4. After /\ step'.reached = step.reached
  BY <1>1, <1>3 DEF After, Counted, StepType, at
<1>5. AgentTypeOK'
  BY <1>1, <1>4 DEF AgentInv, AgentTypeOK, After
<1>6. JournalInv'
  BY <1>1, <1>4 DEF AgentInv, JournalInv, counts_effects, After
<1>7. EffectsWereAllowed'
  BY <1>1 DEF AgentInv, EffectsWereAllowed
<1>8. CallsInv' /\ FinishInv' /\ ~Ended' /\ Latest' = step.turn /\ Latest = step.turn - 1 /\ ~Ended
  BY <1>1, <1>4, CountKeeps
<1>9. RepeatInv'
  <2>1. step.turn \in Nat /\ effects \in Seq(Effect) /\ \A i \in DOMAIN effects : effects[i].turn \in Nat
    BY <1>1, EffectsTyped DEF StepType, AgentInv
  <2>2. NoFourInARow'
    BY <1>1 DEF AgentInv, RepeatInv, NoFourInARow
  <2>3. \A i \in DOMAIN effects : effects[i].turn <= step.turn - 1
    BY <1>8 DEF AgentInv, RepeatInv
  <2>4. \A i \in DOMAIN effects : effects[i].turn # step.turn /\ effects[i].turn <= step.turn
    BY <2>1, <2>3
  <2>5. ASSUME NEW n \in DOMAIN effects PROVE ~InARow(n, Latest)'
    <3>1. Len(effects) \in n .. Len(effects) /\ Len(effects) - (Len(effects)) = 0
      BY <2>1
    <3>2. QED
      BY <1>1, <1>8, <2>1, <2>4, <3>1 DEF InARow
  <2>6. effects # <<>> => Len(effects) \in DOMAIN effects
    BY <2>1
  <2>7. QED
    BY <1>1, <1>8, <2>2, <2>4, <2>5, <2>6 DEF RepeatInv
<1>10. QED
  BY <1>5, <1>6, <1>7, <1>8, <1>9 DEF AgentInv

\* What the gate's verdict says of a call that is not denied.
LEMMA AllowedByGate ==
    ASSUME AgentAssumption, setup \in Setups, NEW a \in Action, Verdict(a) # "Deny"
    PROVE  LET p == Policy[a.tool]  confirmed == Verdict(a) = "ConfirmRequired"
           IN /\ ~a.outside /\ setup.rego[a.tool] = "silent"
              /\ setup.mode = "deny" => p.mutates = "no"
              /\ p.external_effect => confirmed
              /\ setup.mode = "manual" /\ p.requires_confirmation # "no" /\ a.tool \notin Granted
                   => confirmed
<1> DEFINE p == Policy[a.tool]
           d == check(setup.mode, p, a.tool \in Granted, FALSE, a.outside)
<1>1. setup.rego[a.tool] \in {"silent", "denies", "fails"}
  BY DEF AgentAssumption, Setups
<1>2. setup.rego[a.tool] = "silent" /\ Verdict(a) = d
  BY <1>1 DEF Verdict, rego
<1>3. ~a.outside /\ d = evaluate(setup.mode, p, a.tool \in Granted)
  BY <1>2 DEF check
<1>4. evaluate(setup.mode, p, a.tool \in Granted) # "Deny"
  BY <1>2, <1>3
<1>5. setup.mode = "deny" => p.mutates = "no"
  BY <1>4 DEF evaluate, before_mode, mutates
<1>6. p.external_effect => evaluate(setup.mode, p, a.tool \in Granted) = "ConfirmRequired"
  BY <1>4 DEF evaluate, before_mode
<1>7. setup.mode = "manual" /\ p.requires_confirmation # "no" /\ a.tool \notin Granted
        => evaluate(setup.mode, p, a.tool \in Granted) = "ConfirmRequired"
  BY <1>4 DEF evaluate, before_mode, by_mode
<1>8. QED
  BY <1>2, <1>3, <1>5, <1>6, <1>7

LEMMA FourTurns ==
    /\ MAX_IDENTICAL_TURNS = 4
    /\ \A i \in Nat : i - MAX_IDENTICAL_TURNS + 1 .. i - 1 = i - 3 .. i - 1
BY DEF MAX_IDENTICAL_TURNS

LEMMA Dispatched == ASSUME AgentAssumption, AgentInv, dispatched PROVE AgentInv'
<1> DEFINE at == IF setup.verify_actions THEN "verify" ELSE "record"
           a == step.action
           e == [action |-> a, turn |-> step.turn, confirmed |-> Verdict(a) = "ConfirmRequired"]
           L == Len(effects)
<1>1. /\ step.at = "tool" /\ UNCHANGED <<setup, journalled>> /\ step \in StepType /\ setup \in Setups
      /\ a \in Action /\ step' = [Counted(a) EXCEPT !.at = at, !.reached = TRUE]
      /\ Verdict(a) # "Deny" /\ ~is_stuck(identical(a)) /\ effects' = Append(effects, e)
      /\ step.turn \in Nat /\ step.repeats \in Nat
  BY DEF dispatched, AgentInv, AgentTypeOK, StepType
<1>2. identical(a) \in Nat /\ a \in Proposed /\ at \in Places
  BY <1>1 DEF identical, Proposed, Places
<1>3. e \in Effect /\ e.action = a /\ e.turn = step.turn
  BY <1>1 DEF Effect
<1>4. /\ L \in Nat /\ effects \in Seq(Effect) /\ effects' \in Seq(Effect) /\ Len(effects') = L + 1
      /\ \A i \in 1 .. L : effects'[i] = effects[i] /\ effects[i].turn \in Nat
      /\ effects'[L + 1] = e /\ DOMAIN effects = 1 .. L /\ DOMAIN effects' = 1 .. (L + 1)
  BY <1>1, <1>3, EffectsTyped DEF AgentInv
<1> HIDE DEF at, e, a, L
<1>5. step' \in StepType
  BY <1>1, <1>2, CountedTyped DEF Counted
<1>6. After /\ step'.reached
  BY <1>1, <1>5 DEF After, Counted, StepType, at, a
<1>7. AgentTypeOK'
  BY <1>1, <1>4, <1>6 DEF AgentInv, AgentTypeOK, After, a
<1>8. JournalInv'
  <2>1. ~setup.verify_actions => L = journalled /\ step'.at = "record"
    BY <1>1, <1>6 DEF AgentInv, JournalInv, counts_effects, After, L
  <2>2. setup.verify_actions => step'.at = "verify"
    BY <1>6 DEF After
  <2>3. QED
    BY <1>1, <1>4, <1>6, <2>1, <2>2 DEF JournalInv, counts_effects
<1>9. EffectsWereAllowed'
  <2>1. a \in Action => LET p == Policy[a.tool]
        IN /\ ~a.outside /\ setup.rego[a.tool] = "silent"
           /\ setup.mode = "deny" => p.mutates = "no"
           /\ p.external_effect => e.confirmed
           /\ setup.mode = "manual" /\ p.requires_confirmation # "no" /\ a.tool \notin Granted
                => e.confirmed
    BY <1>1, AllowedByGate DEF e
  <2>2. ASSUME NEW i \in 1 .. (L + 1)
        PROVE  LET b == effects'[i].action  p == Policy[b.tool]
               IN /\ ~b.outside /\ setup.rego[b.tool] = "silent"
                  /\ setup.mode = "deny" => p.mutates = "no"
                  /\ p.external_effect => effects'[i].confirmed
                  /\ setup.mode = "manual" /\ p.requires_confirmation # "no" /\ b.tool \notin Granted
                       => effects'[i].confirmed
    <3>1. CASE i = L + 1
      BY <3>1, <1>1, <1>3, <1>4, <2>1
    <3>2. CASE i \in 1 .. L
      BY <3>2, <1>4 DEF AgentInv, EffectsWereAllowed
    <3>3. QED
      BY <3>1, <3>2, <1>4
  <2>3. QED
    BY <2>2, <1>1, <1>4 DEF EffectsWereAllowed
<1>10. CallsInv' /\ FinishInv' /\ ~Ended' /\ Latest' = step.turn /\ Latest = step.turn - 1 /\ ~Ended
  BY <1>1, <1>6, CountKeeps
<1>11. /\ \A i \in 1 .. L : effects[i].turn <= step.turn - 1
       /\ L > 0 /\ effects[L].turn = step.turn - 1 => effects[L].action = step.last
       /\ \A n \in 1 .. L : InARow(n, step.turn - 1) => L - n <= step.repeats
       /\ step'.last = a /\ step'.repeats = identical(a)
  <2>1. L > 0 => effects # <<>>
    BY <1>4 DEF L
  <2>2. QED
    BY <1>4, <1>6, <1>10, <2>1 DEF AgentInv, RepeatInv, After, L, a
<1>12. RepeatInv'
  <2>1. ASSUME NEW n \in 1 .. L, step.last = a,
               \A i \in n .. L : effects[i].action = a /\ effects[i].turn = step.turn - (L + 1 - i)
        PROVE  L + 1 - n <= identical(a)
    <3>1. InARow(n, step.turn - 1)
      BY <2>1, <1>1, <1>4 DEF InARow, L
    <3>2. identical(a) = step.repeats + 1
      BY <2>1 DEF identical
    <3>3. QED
      BY <3>1, <3>2, <1>1, <1>4, <1>11
  <2>2. ASSUME L > 0, effects[L].action = a, effects[L].turn = step.turn - 1
        PROVE  step.last = a
    BY <2>2, <1>11
  <2>3. ASSUME NEW n \in 1 .. (L + 1),
               \A i \in n .. (L + 1) : effects'[i].action = a /\ effects'[i].turn = step.turn - (L + 1 - i)
        PROVE  L + 1 - n <= identical(a)
    <3>1. CASE n = L + 1
      BY <3>1, <1>2, <1>4
    <3>2. CASE n \in 1 .. L
      <4>1. \A i \in n .. L : effects[i].action = a /\ effects[i].turn = step.turn - (L + 1 - i)
        BY <2>3, <3>2, <1>4
      <4>2. L > 0 /\ effects[L].action = a /\ effects[L].turn = step.turn - 1
        BY <4>1, <3>2, <1>1, <1>4
      <4>3. QED
        BY <4>1, <4>2, <3>2, <2>1, <2>2
    <3>3. QED
      BY <3>1, <3>2, <1>4
  <2>4. NoFourInARow'
    <3>a. ASSUME NEW i \in 1 .. (L + 1), i >= 4
          PROVE  /\ i >= MAX_IDENTICAL_TURNS
                 /\ i - MAX_IDENTICAL_TURNS + 1 .. i - 1 = i - 3 .. i - 1
      BY <3>a, <1>4, FourTurns
    <3>b. \A i \in 1 .. (L + 1) : i >= MAX_IDENTICAL_TURNS => i >= 4
      BY FourTurns
    <3> SUFFICES ASSUME NEW i \in 1 .. (L + 1), i >= 4,
                        \A j \in i - 3 .. i - 1 : effects'[j].action = effects'[i].action
                                                    /\ effects'[j].turn = effects'[i].turn - (i - j)
                 PROVE  FALSE
      BY <1>4, <3>a, <3>b, Zenon DEF NoFourInARow
    <3>1. CASE i \in 1 .. L
      <4>1. \A j \in i - 3 .. i - 1 : j \in 1 .. L /\ effects'[j] = effects[j]
        BY <3>1, <1>4
      <4>2. effects'[i] = effects[i]
        BY <3>1, <1>4
      <4>3. PICK j \in i - 3 .. i - 1 :
               effects[j].action # effects[i].action \/ effects[j].turn # effects[i].turn - (i - j)
        <5>1. NoFourInARow /\ i \in DOMAIN effects
          BY <3>1, <1>4 DEF AgentInv, RepeatInv
        <5>2. QED
          BY <5>1, <3>a, Zenon DEF NoFourInARow
      <4>4. QED
        BY <4>1, <4>2, <4>3
    <3>2. CASE i = L + 1
      <4>1. \A j \in L - 2 .. L + 1 : effects'[j].action = a /\ effects'[j].turn = step.turn - (L + 1 - j)
        <5> SUFFICES ASSUME NEW j \in L - 2 .. L + 1
                     PROVE  effects'[j].action = a /\ effects'[j].turn = step.turn - (L + 1 - j)
          OBVIOUS
        <5>1. effects'[L + 1].action = a /\ effects'[L + 1].turn = step.turn
          BY <1>3, <1>4
        <5>2. CASE j = L + 1
          BY <5>1, <5>2, <1>1, <1>4
        <5>3. CASE j # L + 1
          BY <5>1, <5>3, <3>2, <1>4
        <5>4. QED
          BY <5>2, <5>3
      <4>2. L - 2 \in 1 .. (L + 1)
        BY <3>2, <1>4
      <4>3. L + 1 - (L - 2) <= identical(a)
        BY <4>1, <4>2, <2>3
      <4>4. identical(a) + 1 >= 4
        BY <4>3, <1>2, <1>4
      <4>5. QED
        BY <4>4, <1>1 DEF is_stuck, MAX_IDENTICAL_TURNS
    <3>3. QED
      BY <3>1, <3>2, <1>4
  <2>5. \A i \in 1 .. (L + 1) : effects'[i].turn <= step.turn
    BY <1>1, <1>3, <1>4, <1>11
  <2>6. effects'[L + 1].action = a
    BY <1>3, <1>4
  <2>7. \A n \in DOMAIN effects' : InARow(n, Latest)' => L + 1 - n <= identical(a)
    BY <2>3, <1>4, <1>10, <1>11 DEF InARow
  <2>8. /\ \A i \in DOMAIN effects' : effects'[i].turn <= Latest'
        /\ effects'[Len(effects')].action = step'.last
        /\ \A n \in DOMAIN effects' : InARow(n, Latest)' => Len(effects') - n <= step'.repeats
    <3>1. Len(effects') = L + 1 /\ step'.last = a /\ step'.repeats = identical(a)
          /\ Latest' = step.turn /\ DOMAIN effects' = 1 .. (L + 1)
      BY <1>4, <1>10, <1>11
    <3>2. \A i \in DOMAIN effects' : effects'[i].turn <= Latest'
      BY <2>5, <3>1
    <3>3. effects'[Len(effects')].action = step'.last
      BY <2>6, <3>1
    <3>4. \A n \in DOMAIN effects' : InARow(n, Latest)' => Len(effects') - n <= step'.repeats
      <4> SUFFICES ASSUME NEW n \in DOMAIN effects', InARow(n, Latest)'
                   PROVE  Len(effects') - n <= step'.repeats
        OBVIOUS
      <4>1. L + 1 - n <= identical(a)
        BY <2>7, Zenon
      <4>2. QED
        BY <4>1, <3>1, <1>2, <1>4
    <3>5. QED
      BY <3>2, <3>3, <3>4, Zenon
  <2>9. QED
    BY <2>4, <2>8 DEF RepeatInv
<1>13. QED
  BY <1>7, <1>8, <1>9, <1>10, <1>12 DEF AgentInv

LEMMA VerifyAction == ASSUME AgentInv, verify_action PROVE AgentInv'
<1>1. PICK text \in Text, passed \in BOOLEAN :
         LET o == without_retry(mediate(text, 0, FALSE, TRUE))
         IN step' = [step EXCEPT !.calls = step.calls + 1,
                        !.at = IF o.kind # "Committed" THEN o.kind
                               ELSE IF passed THEN "record" ELSE "VerificationFailed"]
  BY DEF verify_action, Asks
<1> DEFINE o == without_retry(mediate(text, 0, FALSE, TRUE))
           at == IF o.kind # "Committed" THEN o.kind ELSE IF passed THEN "record" ELSE "VerificationFailed"
<1>2. /\ step.at = "verify" /\ UNCHANGED <<setup, effects, journalled>> /\ setup.verify_actions
      /\ step \in StepType /\ step.calls \in Nat /\ step.calls <= 3 /\ step.action \in Action
  BY DEF verify_action, AgentInv, AgentTypeOK, StepType, CallsInv, JournalInv
<1>3. at \in {"record", "Escalate", "SecurityViolation", "VerificationFailed"}
  <2>1. 0 \in 0 .. MAX_RETRIES /\ text \in Text \cup Result
    BY DEF MAX_RETRIES
  <2>2. QED
    BY <2>1, Mediated
<1>4. step' = [step EXCEPT !.at = at, !.calls = step.calls + 1]
  BY <1>1, <1>2 DEF StepType
<1> HIDE DEF at
<1>5. step' \in StepType
  <2>1. step.calls + 1 \in Nat /\ at \in Places
    BY <1>2, <1>3 DEF Places
  <2>2. QED
    BY <1>2, <1>4, <2>1, StepsTyped
<1>6. /\ step'.at = at /\ step'.calls = step.calls + 1 /\ step'.action = step.action
      /\ step'.turn = step.turn /\ step'.last = step.last /\ step'.repeats = step.repeats
      /\ step'.reached = step.reached
  BY <1>2, <1>4 DEF StepType
<1>7. AgentTypeOK'
  BY <1>2, <1>5, <1>6 DEF AgentInv, AgentTypeOK
<1>8. CallsInv' /\ FinishInv'
  BY <1>2, <1>3, <1>6 DEF CallsInv, CallsBounded, FinishInv, PatchWasChecked
<1>9. JournalInv'
  BY <1>2, <1>3, <1>6 DEF JournalInv
<1>10. Quiet /\ ~Ended
  BY <1>2, <1>3, <1>6 DEF Quiet, Counts, Ended
<1>11. QED
  BY <1>7, <1>8, <1>9, <1>10, KeepsQuiet

\* The next turn, from a step whose turn is over.
LEMMA NextTurnIs ==
    ASSUME NEW s \in StepType
    PROVE  /\ NextTurn(s) \in StepType /\ NextTurn(s).at \in {"decide", "TurnsExhausted"}
           /\ NextTurn(s).turn = s.turn + 1 /\ NextTurn(s).attempt = 0 /\ NextTurn(s).calls = 0
           /\ ~NextTurn(s).reached /\ NextTurn(s).last = s.last /\ NextTurn(s).repeats = s.repeats
<1> DEFINE at == IF s.turn + 1 = MaxTurns THEN "TurnsExhausted" ELSE "decide"
           a == [s EXCEPT !.turn = s.turn + 1]
           b == [a EXCEPT !.attempt = 0]
           c == [b EXCEPT !.calls = 0]
           d == [c EXCEPT !.action = NoAction]
           e == [d EXCEPT !.reached = FALSE]
           f == [e EXCEPT !.at = at]
<1>1. NextTurn(s) = f
  BY DEF NextTurn, StepType
<1>2. a \in StepType /\ a.turn = s.turn + 1 /\ a.last = s.last /\ a.repeats = s.repeats
  BY DEF StepType
<1> HIDE DEF a
<1>3. b \in StepType /\ b.turn = s.turn + 1 /\ b.attempt = 0 /\ b.last = s.last /\ b.repeats = s.repeats
  BY <1>2 DEF StepType, MAX_RETRIES
<1> HIDE DEF b
<1>4. c \in StepType /\ c.turn = s.turn + 1 /\ c.attempt = 0 /\ c.calls = 0 /\ c.last = s.last
      /\ c.repeats = s.repeats
  BY <1>3 DEF StepType
<1> HIDE DEF c
<1>5. d \in StepType /\ d.turn = s.turn + 1 /\ d.attempt = 0 /\ d.calls = 0 /\ d.last = s.last
      /\ d.repeats = s.repeats
  BY <1>4 DEF StepType, Proposed
<1> HIDE DEF d
<1>6. e \in StepType /\ e.turn = s.turn + 1 /\ e.attempt = 0 /\ e.calls = 0 /\ ~e.reached
      /\ e.last = s.last /\ e.repeats = s.repeats
  BY <1>5 DEF StepType
<1> HIDE DEF e
<1>7. at \in {"decide", "TurnsExhausted"} /\ at \in Places
  BY DEF Places
<1> HIDE DEF at
<1>8. f \in StepType /\ f.at = at /\ f.turn = s.turn + 1 /\ f.attempt = 0 /\ f.calls = 0 /\ ~f.reached
      /\ f.last = s.last /\ f.repeats = s.repeats
  BY <1>6, <1>7 DEF StepType
<1>9. QED
  BY <1>1, <1>7, <1>8

\* A turn that is over leaves the count to the next one.
LEMMA TurnKeeps ==
    ASSUME AgentInv, NEW s \in StepType, step' = NextTurn(s), UNCHANGED <<setup, effects>>,
           s.turn = step.turn, s.last = step.last, s.repeats = step.repeats, ~Ended,
           journalled' \in Nat, ~setup.verify_actions => journalled' = Len(effects)
    PROVE  AgentInv'
<1>1. /\ step' \in StepType /\ step'.at \in {"decide", "TurnsExhausted"}
      /\ step'.turn = step.turn + 1 /\ step'.attempt = 0 /\ step'.calls = 0
      /\ ~step'.reached /\ step'.last = step.last /\ step'.repeats = step.repeats
  BY NextTurnIs
<1>2. AgentTypeOK' /\ EffectsWereAllowed'
  BY <1>1 DEF AgentInv, AgentTypeOK, EffectsWereAllowed
<1>3. CallsInv' /\ FinishInv' /\ JournalInv'
  BY <1>1 DEF CallsInv, CallsBounded, FinishInv, PatchWasChecked, JournalInv, counts_effects
<1>4. RepeatInv'
  <2>1. NoFourInARow'
    BY DEF AgentInv, RepeatInv, NoFourInARow
  <2>2. CASE step'.at = "TurnsExhausted"
    BY <2>1, <2>2 DEF RepeatInv, Ended
  <2>3. CASE step'.at = "decide"
    <3>1. step.turn \in Nat /\ Latest' = step.turn /\ Latest \in {step.turn, step.turn - 1}
      BY <1>1, <2>3 DEF AgentInv, AgentTypeOK, StepType, Latest, Counts
    <3>2. effects \in Seq(Effect) /\ Len(effects) \in Nat /\ \A i \in DOMAIN effects : effects[i].turn \in Nat
      BY EffectsTyped DEF AgentInv
    <3>3. /\ \A i \in DOMAIN effects : effects[i].turn <= Latest
          /\ effects # <<>> /\ effects[Len(effects)].turn = Latest
                => effects[Len(effects)].action = step.last
          /\ \A n \in DOMAIN effects : InARow(n, Latest) => Len(effects) - n <= step.repeats
      BY DEF AgentInv, RepeatInv
    <3>4. CASE Latest = step.turn
      BY <1>1, <2>1, <3>1, <3>3, <3>4 DEF RepeatInv, InARow
    <3>5. CASE Latest = step.turn - 1
      <4>1. \A i \in DOMAIN effects : effects[i].turn <= step.turn /\ effects[i].turn # step.turn
        BY <3>1, <3>2, <3>3, <3>5
      <4>2. effects # <<>> => Len(effects) \in DOMAIN effects
        BY <3>2
      <4>3. ASSUME NEW n \in DOMAIN effects PROVE ~InARow(n, Latest)'
        <5>1. Len(effects) \in n .. Len(effects) /\ Len(effects) - (Len(effects)) = 0
          BY <3>2
        <5>2. QED
          BY <3>1, <3>2, <4>1, <5>1 DEF InARow
      <4>4. QED
        BY <2>1, <3>1, <4>1, <4>2, <4>3 DEF RepeatInv
    <3>6. QED
      BY <3>1, <3>4, <3>5
  <2>4. QED
    BY <1>1, <2>2, <2>3
<1>5. QED
  BY <1>2, <1>3, <1>4 DEF AgentInv

LEMMA RecordTurn == ASSUME AgentInv, record_turn PROVE AgentInv'
<1>1. /\ step.at = "record" /\ UNCHANGED <<setup, effects>> /\ step' = NextTurn(step)
      /\ journalled' = counts_effects(journalled, step.reached)
      /\ step \in StepType /\ step.reached \in BOOLEAN /\ journalled \in Nat
  BY DEF record_turn, AgentInv, AgentTypeOK, StepType
<1>2. journalled' \in Nat /\ (~setup.verify_actions => journalled' = Len(effects))
  BY <1>1 DEF AgentInv, JournalInv, counts_effects
<1>3. ~Ended
  BY <1>1 DEF Ended
<1>4. QED
  BY <1>1, <1>2, <1>3, TurnKeeps

LEMMA CritiqueFinish == ASSUME AgentInv, critique_finish PROVE AgentInv'
<1>1. PICK text \in Text, passed \in BOOLEAN :
         LET o == without_retry(mediate(text, 0, FALSE, TRUE))
             s == [step EXCEPT !.calls = step.calls + 1]
         IN step' = IF o.kind # "Committed" THEN [s EXCEPT !.at = o.kind]
                    ELSE IF passed THEN [s EXCEPT !.at = "finalize"]
                    ELSE NextTurn([s EXCEPT !.result = None])
  BY DEF critique_finish, Asks
<1> DEFINE o == without_retry(mediate(text, 0, FALSE, TRUE))
           s == [step EXCEPT !.calls = step.calls + 1]
           q == [s EXCEPT !.result = None]
           at == IF o.kind # "Committed" THEN o.kind ELSE "finalize"
<1>2. /\ step.at = "critique" /\ UNCHANGED <<setup, effects, journalled>>
      /\ step \in StepType /\ step.calls \in Nat /\ step.calls <= 3
      /\ step.result \in Result /\ ~step.result.secret /\ journalled \in Nat
  BY DEF critique_finish, AgentInv, AgentTypeOK, StepType, CallsInv, FinishInv
<1>3. o.kind \in {"Committed", "Escalate", "SecurityViolation"}
  <2>1. 0 \in 0 .. MAX_RETRIES /\ text \in Text \cup Result
    BY DEF MAX_RETRIES
  <2>2. QED
    BY <2>1, Mediated
<1> HIDE DEF o
<1>4. /\ s \in StepType /\ s.calls = step.calls + 1 /\ s.turn = step.turn /\ s.last = step.last
      /\ s.repeats = step.repeats /\ s.reached = step.reached /\ s.result = step.result
  BY <1>2 DEF StepType
<1>5. step' = [s EXCEPT !.at = at] \/ step' = NextTurn(q)
  BY <1>1 DEF o
<1>6. at \in {"finalize", "Escalate", "SecurityViolation"}
  BY <1>3
<1> HIDE DEF s, at
<1>7. CASE step' = [s EXCEPT !.at = at]
  <2>1. step' \in StepType
    BY <1>4, <1>6, <1>7, StepsTyped DEF Places
  <2>2. /\ step'.at = at /\ step'.calls = step.calls + 1
        /\ step'.turn = step.turn /\ step'.last = step.last /\ step'.repeats = step.repeats
        /\ step'.reached = step.reached /\ step'.result = step.result
    BY <1>4, <1>7 DEF StepType
  <2>3. AgentTypeOK' /\ CallsInv' /\ FinishInv' /\ JournalInv'
    BY <1>2, <1>6, <2>1, <2>2 DEF AgentInv, AgentTypeOK, CallsInv, CallsBounded, FinishInv, PatchWasChecked,
         JournalInv, counts_effects
  <2>4. Quiet /\ ~Ended
    BY <1>2, <1>6, <2>2 DEF Quiet, Counts, Ended
  <2>5. QED
    BY <2>3, <2>4, KeepsQuiet
<1>8. CASE step' = NextTurn(q)
  <2>1. q \in StepType /\ q.turn = step.turn /\ q.last = step.last /\ q.repeats = step.repeats
    BY <1>4 DEF StepType
  <2>2. ~Ended /\ (~setup.verify_actions => journalled' = Len(effects)) /\ journalled' \in Nat
    BY <1>2 DEF AgentInv, JournalInv, counts_effects, Ended
  <2>3. QED
    BY <1>2, <1>8, <2>1, <2>2, TurnKeeps
<1>9. QED
  BY <1>5, <1>7, <1>8

LEMMA Finalize == ASSUME AgentInv, finalize PROVE AgentInv'
<1> DEFINE o == finalize_outcome(step.result)
<1>1. /\ step.at = "finalize" /\ Fails(o.kind) /\ UNCHANGED <<setup, effects, journalled>>
      /\ step \in StepType /\ step.result \in Result /\ ~step.result.secret
  BY DEF finalize, AgentInv, AgentTypeOK, FinishInv
<1>2. /\ o.kind \in {"Committed", "Escalate", "SecurityViolation"}
      /\ o.kind = "Committed" => /\ step.result.grade # "shapeless"
                                 /\ setup.contract = "code" => step.result.grade # "unruly"
  <2>1. 0 \in 0 .. MAX_RETRIES /\ step.result \in Text \cup Result
    BY <1>1 DEF MAX_RETRIES
  <2>2. CASE setup.contract = "config"
    BY <2>1, <2>2, Mediated DEF finalize_outcome
  <2>3. CASE setup.contract # "config"
    BY <2>1, <2>3, Mediated DEF finalize_outcome
  <2>4. QED
    BY <2>2, <2>3
<1> HIDE DEF o
<1>3. step' = [step EXCEPT !.at = o.kind] /\ o.kind \in Places
  BY <1>1, <1>2 DEF Fails, Places
<1>4. step' \in StepType
  BY <1>1, <1>3, StepsTyped
<1>5. /\ step'.at = o.kind /\ step'.calls = step.calls
      /\ step'.turn = step.turn /\ step'.last = step.last /\ step'.repeats = step.repeats
      /\ step'.reached = step.reached /\ step'.result = step.result
  BY <1>1, <1>3 DEF StepType
<1>6. AgentTypeOK' /\ CallsInv' /\ FinishInv' /\ JournalInv'
  BY <1>1, <1>2, <1>4, <1>5 DEF AgentInv, AgentTypeOK, CallsInv, CallsBounded, FinishInv, PatchWasChecked,
       JournalInv, counts_effects
<1>7. Quiet /\ ~Ended
  BY <1>1, <1>2, <1>5 DEF Quiet, Counts, Ended
<1>8. QED
  BY <1>6, <1>7, KeepsQuiet

LEMMA AgentSteps ==
    ASSUME AgentAssumption, AgentInv, [AgentNext]_agent_vars
    PROVE  AgentInv'
<1>1. CASE UNCHANGED agent_vars
  BY <1>1 DEF agent_vars, AgentInv, AgentTypeOK, EffectsWereAllowed, CallsInv, CallsBounded, FinishInv,
       PatchWasChecked, JournalInv, RepeatInv, NoFourInARow, Ended, Latest, Counts, InARow
<1>2. QED
  BY <1>1, ModelFails, DecideTurn, Stuck, Denied, Dispatched, HumanSaysNo, VerifyAction, RecordTurn,
     CritiqueFinish, Finalize DEF AgentNext

LEMMA AgentRight == AgentInv => TurnsRight
<1> SUFFICES ASSUME AgentInv PROVE EffectsAreJournalled
  BY DEF AgentInv, TurnsRight, CallsInv, FinishInv, RepeatInv
<1>1. Ended => step.at # "record"
  BY DEF Ended
<1>2. QED
  BY <1>1 DEF AgentInv, JournalInv, EffectsAreJournalled, counts_effects

-----------------------------------------------------------------------------
(* The callers of the model pool *)

Asked == {"Any", "Strong"}
Budgets == {Unmeasured, 5}

\* The ranking is a strict order of the entries.
LEMMA RanksOrder ==
    ASSUME CallAssumption
    PROVE  /\ \A i \in DOMAIN Entry : ~ranks_before(i, i)
           /\ \A i, j \in DOMAIN Entry : i = j \/ ranks_before(i, j) \/ ranks_before(j, i)
           /\ \A i, j, k \in DOMAIN Entry :
                 ranks_before(i, j) /\ ranks_before(j, k) => ranks_before(i, k)
<1>1. \A i \in DOMAIN Entry :
         i \in Nat /\ Entry[i].remote \in BOOLEAN /\ Entry[i].cost \in Nat
  <2>1. \A i \in DOMAIN Entry : i \in Nat /\ Entry[i] \in
           [name : STRING, tier : Nat, remote : BOOLEAN, cost : Nat, latency : Nat]
    <3> DEFINE R == [name : STRING, tier : Nat, remote : BOOLEAN, cost : Nat, latency : Nat]
    <3>1. Entry \in Seq(R)
      BY DEF CallAssumption
    <3> HIDE DEF R
    <3>2. DOMAIN Entry = 1 .. Len(Entry) /\ Len(Entry) \in Nat
      BY <3>1, LenProperties
    <3>3. \A i \in DOMAIN Entry : i \in Nat /\ Entry[i] \in R
      BY <3>1, <3>2, ElementOfSeq
    <3>4. QED
      BY <3>3 DEF R
  <2>2. QED
    BY <2>1
<1>2. QED
  BY <1>1 DEF ranks_before

LEMMA RankRange ==
    ASSUME CallAssumption, NEW E \in SUBSET DOMAIN Entry
    PROVE  /\ IsFiniteSet(E) /\ Cardinality(E) \in Nat
           /\ \A i \in E : rank(i, E) \in 1 .. Cardinality(E)
<1>1. IsFiniteSet(E)
  <2>1. DOMAIN Entry = 1 .. Len(Entry) /\ Len(Entry) \in Nat
    BY DEF CallAssumption
  <2>2. IsFiniteSet(1 .. Len(Entry))
    BY <2>1, FS_Interval
  <2>3. QED
    BY <2>1, <2>2, FS_Subset
<1>2. Cardinality(E) \in Nat
  BY <1>1, FS_CardinalityType
<1>3. ASSUME NEW i \in E PROVE rank(i, E) \in 1 .. Cardinality(E)
  <2> DEFINE B == {j \in E : ranks_before(j, i)}
  <2>1. B \in SUBSET E /\ i \notin B
    BY RanksOrder
  <2>2. B # E
    BY <2>1
  <2>3. IsFiniteSet(B) /\ Cardinality(B) <= Cardinality(E) /\ Cardinality(B) # Cardinality(E)
    BY <1>1, <2>1, <2>2, FS_Subset
  <2>4. Cardinality(B) \in Nat
    BY <2>3, FS_CardinalityType
  <2>5. rank(i, E) = Cardinality(B) + 1
    BY DEF rank
  <2> HIDE DEF B
  <2>6. QED
    BY <1>2, <2>3, <2>4, <2>5
<1>4. QED
  BY <1>1, <1>2, <1>3

\* Who ranks before has the lower rank.
LEMMA RankGrows ==
    ASSUME CallAssumption, NEW E \in SUBSET DOMAIN Entry,
           NEW i \in E, NEW j \in E, ranks_before(i, j)
    PROVE  rank(i, E) < rank(j, E)
<1> DEFINE B(k) == {x \in E : ranks_before(x, k)}
<1>1. IsFiniteSet(E) /\ B(j) \in SUBSET E /\ B(i) \in SUBSET E
  BY RankRange
<1>2. B(i) \in SUBSET B(j) /\ i \in B(j) /\ i \notin B(i)
  BY RanksOrder
<1>3. B(i) # B(j)
  BY <1>2
<1>4. IsFiniteSet(B(j)) /\ IsFiniteSet(B(i))
  BY <1>1, FS_Subset
<1>5. Cardinality(B(i)) <= Cardinality(B(j)) /\ Cardinality(B(i)) # Cardinality(B(j))
  BY <1>2, <1>3, <1>4, FS_Subset
<1>6. Cardinality(B(i)) \in Nat /\ Cardinality(B(j)) \in Nat
  BY <1>4, FS_CardinalityType
<1>7. rank(i, E) = Cardinality(B(i)) + 1 /\ rank(j, E) = Cardinality(B(j)) + 1
  BY DEF rank
<1> HIDE DEF B
<1>8. QED
  BY <1>5, <1>6, <1>7

\* Each place of the ranking has its entry.
LEMMA RankedAt ==
    ASSUME CallAssumption, NEW E \in SUBSET DOMAIN Entry, NEW n \in 1 .. Cardinality(E)
    PROVE  ranked_at(n, E) \in E /\ rank(ranked_at(n, E), E) = n
<1> DEFINE f == [i \in E |-> rank(i, E)]
           T == 1 .. Cardinality(E)
<1>1. f \in [E -> T]
  BY RankRange
<1>2. \A i, j \in E : f[i] = f[j] => i = j
  <2> SUFFICES ASSUME NEW i \in E, NEW j \in E, f[i] = f[j], i # j PROVE FALSE
    OBVIOUS
  <2>1. ranks_before(i, j) \/ ranks_before(j, i)
    BY RanksOrder
  <2>2. rank(i, E) < rank(j, E) \/ rank(j, E) < rank(i, E)
    BY <2>1, RankGrows
  <2>3. rank(i, E) \in Nat /\ rank(i, E) = rank(j, E)
    BY RankRange
  <2>4. QED
    BY <2>2, <2>3
<1>3. f \in Injection(E, T)
  BY <1>1, <1>2 DEF Injection, IsInjective
<1>4. IsFiniteSet(E) /\ Cardinality(E) \in Nat
  BY RankRange
<1>5. IsFiniteSet(T) /\ Cardinality(T) = Cardinality(E)
  BY <1>4, FS_Interval
<1>6. f \in Surjection(E, T)
  BY <1>3, <1>5, FS_Injection
<1>7. \E i \in E : rank(i, E) = n
  BY <1>6 DEF Surjection
<1>8. QED
  BY <1>7 DEF ranked_at

LEMMA NamedEntry ==
    ASSUME CallAssumption, NEW i \in DOMAIN Entry
    PROVE  Entry[i].name \in Providers /\ EntryOf(Entry[i].name) = i
<1>1. \A j \in DOMAIN Entry : Entry[i].name = Entry[j].name => i = j
  BY DEF CallAssumption
<1>2. QED
  BY <1>1 DEF Providers, EntryOf

\* A walk down a ranking: what is left are eligible entries in their order, and
\* every eligible one is left, was tried or rests.
Ats == {"idle", "next", "calling", "only", "no_provider", "not_wired", "answered", "failed",
        "refused", "unavailable"}
WalkType == [at : Ats, asks : Asked, budget : Budgets, ranked : Seq(Providers),
             tried : SUBSET Providers, skipped : SUBSET Providers]

Left(ranked, E) == \A n \in DOMAIN ranked : EntryOf(ranked[n]) \in E
InOrder(ranked) == \A m, n \in DOMAIN ranked :
                      m < n => ranks_before(EntryOf(ranked[m]), EntryOf(ranked[n]))
Heard(w, E) == \A i \in E : \/ Entry[i].name \in w.tried \cup w.skipped
                            \/ \E n \in DOMAIN w.ranked : w.ranked[n] = Entry[i].name

Walked(w) ==
    /\ w.at # "idle" => /\ Left(w.ranked, Eligible(w.asks, w.budget))
                        /\ InOrder(w.ranked)
                        /\ Heard(w, Eligible(w.asks, w.budget))
    /\ w.at \in {"calling", "only", "answered"} => w.ranked # <<>>
    /\ w.at = "unavailable" => w.ranked = <<>>

LEMMA Selected ==
    ASSUME CallAssumption, NEW requirement \in Asked, NEW budget \in Budgets
    PROVE  LET R == select_ranked(requirement, budget)
               E == Eligible(requirement, budget)
           IN  /\ R \in Seq(Providers) /\ Left(R, E) /\ InOrder(R)
               /\ \A i \in E : \E n \in DOMAIN R : R[n] = Entry[i].name
<1> DEFINE R == select_ranked(requirement, budget)
           E == Eligible(requirement, budget)
<1>1. E \in SUBSET DOMAIN Entry
  BY DEF Eligible
<1>2. IsFiniteSet(E) /\ Cardinality(E) \in Nat
  BY <1>1, RankRange
<1>3. R = [n \in 1 .. Cardinality(E) |-> Entry[ranked_at(n, E)].name]
  BY DEF select_ranked
<1> HIDE DEF R, E
<1>4. \A n \in 1 .. Cardinality(E) :
         /\ ranked_at(n, E) \in E /\ rank(ranked_at(n, E), E) = n
         /\ R[n] \in Providers /\ EntryOf(R[n]) = ranked_at(n, E)
  BY <1>1, <1>3, RankedAt, NamedEntry
<1>5. R \in Seq(Providers) /\ DOMAIN R = 1 .. Cardinality(E)
  BY <1>2, <1>3, <1>4
<1>6. Left(R, E)
  BY <1>4, <1>5 DEF Left
<1>7. InOrder(R)
  <2> SUFFICES ASSUME NEW m \in DOMAIN R, NEW n \in DOMAIN R, m < n
               PROVE  ranks_before(EntryOf(R[m]), EntryOf(R[n]))
    BY DEF InOrder
  <2> DEFINE i == ranked_at(m, E)
             j == ranked_at(n, E)
  <2>1. i \in E /\ j \in E /\ rank(i, E) = m /\ rank(j, E) = n /\ m \in Nat /\ n \in Nat
    BY <1>2, <1>4, <1>5
  <2> HIDE DEF i, j
  <2>2. i # j /\ ~ranks_before(j, i)
    BY <1>1, <2>1, RankGrows
  <2>3. ranks_before(i, j)
    BY <1>1, <2>1, <2>2, RanksOrder
  <2>4. QED
    BY <1>4, <1>5, <2>3 DEF i, j
<1>8. ASSUME NEW i \in E PROVE \E n \in DOMAIN R : R[n] = Entry[i].name
  <2> DEFINE n == rank(i, E)
             j == ranked_at(n, E)
  <2>1. n \in 1 .. Cardinality(E)
    BY <1>1, RankRange
  <2>2. j \in E /\ rank(j, E) = n
    BY <1>4, <2>1
  <2>3. i = j
    <3> SUFFICES ASSUME i # j PROVE FALSE
      OBVIOUS
    <3>1. ranks_before(i, j) \/ ranks_before(j, i)
      BY <1>1, <2>2, RanksOrder
    <3>2. rank(i, E) < rank(j, E) \/ rank(j, E) < rank(i, E)
      BY <1>1, <2>2, <3>1, RankGrows
    <3>3. QED
      BY <1>2, <2>1, <2>2, <3>2
  <2>4. R[n] = Entry[i].name
    BY <1>3, <2>1, <2>3
  <2>5. QED
    BY <1>5, <2>1, <2>4
<1>9. QED
  BY <1>5, <1>6, <1>7, <1>8 DEF R, E

\* A caller that begins has its whole ranking before it.
LEMMA Begun ==
    ASSUME CallAssumption, NEW requirement \in Asked, NEW budget \in Budgets,
           NEW at \in {"next", "only", "no_provider", "not_wired"},
           at = "only" => select_ranked(requirement, budget) # <<>>
    PROVE  LET w == Walk(at, requirement, budget, select_ranked(requirement, budget))
           IN  w \in WalkType /\ Walked(w)
<1> DEFINE R == select_ranked(requirement, budget)
           E == Eligible(requirement, budget)
           w == Walk(at, requirement, budget, R)
<1>1. /\ R \in Seq(Providers) /\ Left(R, E) /\ InOrder(R)
      /\ \A i \in E : \E n \in DOMAIN R : R[n] = Entry[i].name
  BY Selected
<1>2. at = "only" => R # <<>>
  OBVIOUS
<1> HIDE DEF R
<1>3. w \in WalkType
  BY <1>1 DEF Walk, WalkType, Ats
<1>4. w.at = at /\ w.asks = requirement /\ w.budget = budget /\ w.ranked = R
  BY DEF Walk
<1>5. Heard(w, E)
  BY <1>1, <1>4 DEF Heard
<1>6. Walked(w)
  BY <1>1, <1>2, <1>4, <1>5 DEF Walked
<1>7. QED
  BY <1>3, <1>6 DEF R

\* One candidate further down.
LEMMA OneFurther ==
    ASSUME NEW w \in WalkType, NEW v \in WalkType, Walked(w), w.at \in {"next", "calling"},
           w.ranked # <<>>, v.at = "next", v.asks = w.asks, v.budget = w.budget,
           v.ranked = Tail(w.ranked),
           v.tried \cup v.skipped = w.tried \cup w.skipped \cup {Head(w.ranked)}
    PROVE  Walked(v)
<1> DEFINE E == Eligible(w.asks, w.budget)
<1>1. w.ranked \in Seq(Providers) /\ Left(w.ranked, E) /\ InOrder(w.ranked) /\ Heard(w, E)
  BY DEF WalkType, Walked
<1>2. /\ Len(v.ranked) = Len(w.ranked) - 1 /\ DOMAIN v.ranked = 1 .. Len(w.ranked) - 1
      /\ Len(w.ranked) \in Nat /\ DOMAIN w.ranked = 1 .. Len(w.ranked)
      /\ \A n \in 1 .. Len(w.ranked) - 1 : v.ranked[n] = w.ranked[n + 1]
      /\ Head(w.ranked) = w.ranked[1]
  BY <1>1
<1> HIDE DEF E
<1>3. Left(v.ranked, E)
  BY <1>1, <1>2 DEF Left
<1>4. InOrder(v.ranked)
  <2> SUFFICES ASSUME NEW m \in DOMAIN v.ranked, NEW n \in DOMAIN v.ranked, m < n
               PROVE  ranks_before(EntryOf(v.ranked[m]), EntryOf(v.ranked[n]))
    BY DEF InOrder
  <2>1. /\ m + 1 \in DOMAIN w.ranked /\ n + 1 \in DOMAIN w.ranked /\ m + 1 < n + 1
        /\ v.ranked[m] = w.ranked[m + 1] /\ v.ranked[n] = w.ranked[n + 1]
    BY <1>2
  <2>2. QED
    BY <1>1, <2>1 DEF InOrder
<1>5. ASSUME NEW i \in E, NEW n \in DOMAIN w.ranked, w.ranked[n] = Entry[i].name,
             Entry[i].name \notin v.tried \cup v.skipped
      PROVE  \E k \in DOMAIN v.ranked : v.ranked[k] = Entry[i].name
  <2>1. n # 1
    BY <1>2, <1>5
  <2>2. n - 1 \in DOMAIN v.ranked /\ v.ranked[n - 1] = w.ranked[n]
    BY <1>2, <2>1
  <2>3. QED
    BY <1>5, <2>2
<1>6. Heard(v, E)
  BY <1>1, <1>5 DEF Heard
<1>7. QED
  BY <1>3, <1>4, <1>6 DEF Walked, E

CallInv ==
    /\ config \in Config /\ failures \in [Providers -> 0 .. MaxFailures]
    /\ opened_at \in [Providers -> Int] /\ now \in Nat
    /\ caller \in [Caller -> WalkType]
    /\ \A c \in Caller : Walked(caller[c])
    /\ RestIsEarned

\* One caller moves, and the registry of breakers stays.
LEMMA OneWalks ==
    ASSUME CallInv, NEW c \in Caller, NEW w \in WalkType, Walked(w),
           caller' = [caller EXCEPT ![c] = w], UNCHANGED <<config, failures, opened_at, now>>
    PROVE  CallInv'
<1>1. caller' \in [Caller -> WalkType]
  BY DEF CallInv
<1>2. \A d \in Caller : Walked(caller'[d])
  BY DEF CallInv
<1>3. RestIsEarned'
  BY DEF CallInv, RestIsEarned, Providers
<1>4. QED
  BY <1>1, <1>2, <1>3 DEF CallInv, Walked

LEMMA CallerBegins ==
    ASSUME CallAssumption, CallInv, NEW c \in Caller,
           NEW requirement \in Asked, NEW budget \in Budgets,
           begins(c, requirement, budget) \/ codeact_begins(c, requirement, budget)
    PROVE  CallInv'
<1> DEFINE R == select_ranked(requirement, budget)
<1>1. PICK at \in {"next", "only", "no_provider", "not_wired"} :
         /\ at = "only" => R # <<>>
         /\ caller' = [caller EXCEPT ![c] = Walk(at, requirement, budget, R)]
         /\ UNCHANGED <<config, failures, opened_at, now>>
  <2> HIDE DEF R
  <2>1. CASE begins(c, requirement, budget)
    BY <2>1 DEF begins, R
  <2>2. CASE codeact_begins(c, requirement, budget)
    BY <2>2 DEF codeact_begins, R
  <2>3. QED
    BY <2>1, <2>2
<1>2. Walk(at, requirement, budget, R) \in WalkType /\ Walked(Walk(at, requirement, budget, R))
  BY <1>1, Begun
<1> HIDE DEF R
<1>3. QED
  BY <1>1, <1>2, OneWalks

\* Another place, the same candidates.
LEMMA Goes ==
    ASSUME CallInv, NEW c \in Caller, NEW at \in Ats, caller[c].at # "idle",
           at \in {"calling", "only", "answered"} => caller[c].ranked # <<>>,
           at = "unavailable" => caller[c].ranked = <<>>, goes(c, at)
    PROVE  \E w \in WalkType : Walked(w) /\ caller' = [caller EXCEPT ![c] = w]
<1> DEFINE w == [caller[c] EXCEPT !.at = at]
<1>1. caller[c] \in WalkType /\ Walked(caller[c]) /\ caller \in [Caller -> WalkType]
  BY DEF CallInv
<1>2. /\ w \in WalkType /\ w.at = at /\ w.asks = caller[c].asks /\ w.budget = caller[c].budget
      /\ w.ranked = caller[c].ranked /\ w.tried = caller[c].tried /\ w.skipped = caller[c].skipped
  BY <1>1 DEF WalkType
<1>3. caller' = [caller EXCEPT ![c] = w]
  BY <1>1 DEF goes
<1> HIDE DEF w
<1>4. Walked(w)
  BY <1>1, <1>2 DEF Walked, Heard
<1>5. QED
  BY <1>2, <1>3, <1>4

LEMMA CallerAsks ==
    ASSUME CallInv, NEW c \in Caller, asks(c)
    PROVE  CallInv'
<1>1. /\ caller[c].at = "next" /\ caller[c].ranked # <<>>
      /\ UNCHANGED <<config, failures, opened_at, now>>
      /\ caller[c] \in WalkType /\ Walked(caller[c]) /\ caller \in [Caller -> WalkType]
  BY DEF asks, CallInv
<1>2. CASE is_available(Candidate(c))
  <2>1. goes(c, "calling")
    BY <1>2 DEF asks
  <2>2. QED
    BY <1>1, <2>1, Goes, OneWalks DEF Ats
<1>3. CASE ~is_available(Candidate(c))
  <2> DEFINE w == skips(caller[c])
  <2>1. caller' = [caller EXCEPT ![c] = w]
    BY <1>3 DEF asks
  <2>2. Tail(caller[c].ranked) \in Seq(Providers) /\ Head(caller[c].ranked) \in Providers
    BY <1>1 DEF WalkType
  <2>3. /\ w \in WalkType /\ w.at = "next" /\ w.asks = caller[c].asks /\ w.budget = caller[c].budget
        /\ w.ranked = Tail(caller[c].ranked) /\ w.tried = caller[c].tried
        /\ w.skipped = caller[c].skipped \cup {Head(caller[c].ranked)}
    BY <1>1, <2>2 DEF skips, WalkType
  <2> HIDE DEF w
  <2>4. Walked(w)
    BY <1>1, <2>3, OneFurther
  <2>5. QED
    BY <1>1, <2>1, <2>3, <2>4, OneWalks
<1>4. QED
  BY <1>2, <1>3

LEMMA CallerAnswered ==
    ASSUME CallAssumption, CallInv, NEW c \in Caller, answered(c)
    PROVE  CallInv'
<1>1. /\ caller[c].at = "calling" /\ goes(c, "answered") /\ UNCHANGED <<config, now>>
      /\ record_success(Candidate(c))
      /\ caller[c] \in WalkType /\ Walked(caller[c]) /\ caller \in [Caller -> WalkType]
  BY DEF answered, CallInv
<1>2. PICK w \in WalkType : Walked(w) /\ caller' = [caller EXCEPT ![c] = w]
  BY <1>1, Goes DEF Ats, Walked
<1>3. /\ failures' \in [Providers -> 0 .. MaxFailures] /\ opened_at' \in [Providers -> Int]
      /\ \A p \in Providers : opened_at'[p] # Closed => opened_at'[p] = opened_at[p] /\ failures'[p] = failures[p]
  <2> DEFINE p == Candidate(c)
  <2>1. /\ failures' = [failures EXCEPT ![p] = 0] /\ opened_at' = [opened_at EXCEPT ![p] = Closed]
        /\ failures \in [Providers -> 0 .. MaxFailures] /\ opened_at \in [Providers -> Int]
        /\ MaxFailures \in Nat
    BY <1>1 DEF CallInv, record_success, CallAssumption
  <2> HIDE DEF p
  <2>2. opened_at' \in [Providers -> Int] /\ failures' \in [Providers -> 0 .. MaxFailures]
    <3>1. Closed \in Int /\ 0 \in 0 .. MaxFailures
      BY <2>1 DEF Closed
    <3>2. opened_at' \in [Providers -> Int]
      BY <2>1, <3>1
    <3>3. failures' \in [Providers -> 0 .. MaxFailures]
      BY <2>1, <3>1
    <3>4. QED
      BY <3>2, <3>3
  <2>3. \A q \in Providers : /\ opened_at'[q] = IF q = p THEN Closed ELSE opened_at[q]
                             /\ failures'[q] = IF q = p THEN 0 ELSE failures[q]
    BY <2>1
  <2>4. QED
    BY <2>2, <2>3
<1>4. RestIsEarned'
  BY <1>1, <1>3 DEF CallInv, RestIsEarned, Providers
<1>5. caller' \in [Caller -> WalkType] /\ \A d \in Caller : Walked(caller'[d])
  BY <1>2 DEF CallInv
<1>6. QED
  BY <1>1, <1>3, <1>4, <1>5 DEF CallInv, Walked

LEMMA CallerUnavailable ==
    ASSUME CallAssumption, CallInv, NEW c \in Caller, unavailable(c)
    PROVE  CallInv'
<1> DEFINE p == Candidate(c)
           w == tries_next(caller[c])
<1>1. /\ caller[c].at = "calling" /\ UNCHANGED <<config, now>> /\ record_failure(p)
      /\ caller' = [caller EXCEPT ![c] = w]
      /\ caller[c] \in WalkType /\ Walked(caller[c]) /\ caller \in [Caller -> WalkType]
      /\ caller[c].ranked # <<>>
  BY DEF unavailable, CallInv, Walked
<1>2. Tail(caller[c].ranked) \in Seq(Providers) /\ Head(caller[c].ranked) \in Providers
      /\ p = Head(caller[c].ranked)
  BY <1>1 DEF WalkType, Candidate
<1>3. /\ w \in WalkType /\ w.at = "next" /\ w.asks = caller[c].asks /\ w.budget = caller[c].budget
      /\ w.ranked = Tail(caller[c].ranked) /\ w.skipped = caller[c].skipped
      /\ w.tried = caller[c].tried \cup {Head(caller[c].ranked)}
  BY <1>1, <1>2 DEF tries_next, WalkType, Ats
<1> HIDE DEF w, p
<1>4. Walked(w)
  BY <1>1, <1>3, OneFurther
<1>5. caller' \in [Caller -> WalkType] /\ \A d \in Caller : Walked(caller'[d])
  BY <1>1, <1>3, <1>4 DEF CallInv
<1>6. MaxFailures \in Nat /\ config.breaker_failures \in 0 .. MaxFailures
  BY DEF CallAssumption, CallInv
<1>7. /\ failures' \in [Providers -> 0 .. MaxFailures] /\ opened_at' \in [Providers -> Int]
      /\ \A q \in Providers : failures'[q] >= failures[q]
      /\ failures'[p] = IF failures[p] < MaxFailures THEN failures[p] + 1 ELSE failures[p]
  <2>1. PICK more : more = IF failures[p] < MaxFailures THEN failures[p] + 1 ELSE failures[p]
    OBVIOUS
  <2>2. p \in Providers /\ failures \in [Providers -> 0 .. MaxFailures] /\ now \in Nat
        /\ opened_at \in [Providers -> Int]
    BY <1>2 DEF CallInv
  <2>3. failures[p] \in 0 .. MaxFailures
    BY <2>2
  <2>4. more \in 0 .. MaxFailures /\ more >= failures[p]
    BY <1>6, <2>1, <2>3
  <2>5. failures' = [failures EXCEPT ![p] = more]
    BY <1>1, <2>1 DEF record_failure
  <2>6. opened_at' = [opened_at EXCEPT ![p] = now] \/ opened_at' = opened_at
    BY <1>1 DEF record_failure
  <2>7. opened_at' \in [Providers -> Int]
    BY <2>2, <2>6
  <2>8. \A q \in Providers : failures'[q] = IF q = p THEN more ELSE failures[q]
    BY <2>2, <2>5
  <2>9. \A q \in Providers : failures[q] \in 0 .. MaxFailures /\ failures[q] >= failures[q]
    BY <1>6, <2>2
  <2>10. failures' \in [Providers -> 0 .. MaxFailures]
    BY <2>2, <2>4, <2>5
  <2>11. QED
    BY <2>1, <2>2, <2>4, <2>7, <2>8, <2>9, <2>10
<1>8. ASSUME NEW q \in Providers, opened_at'[q] # Closed
      PROVE  config'.breaker_failures \in 1 .. failures'[q]
  <2>1. CASE opened_at[q] # Closed
    BY <1>1, <1>6, <1>7, <2>1 DEF CallInv, RestIsEarned
  <2>2. CASE opened_at[q] = Closed
    <3>1. q = p /\ failures[p] + 1 >= breaker_policy.threshold
      BY <1>1, <1>2, <1>8, <2>2 DEF CallInv, record_failure
    <3>2. failures[p] \in 0 .. MaxFailures
      BY <1>2 DEF CallInv
    <3>3. config.breaker_failures > 0 /\ breaker_policy.threshold = config.breaker_failures
      BY <1>6, <3>1, <3>2 DEF breaker_policy
    <3>4. QED
      BY <1>1, <1>6, <1>7, <3>1, <3>2, <3>3
  <2>3. QED
    BY <2>1, <2>2
<1>9. RestIsEarned'
  BY <1>8 DEF RestIsEarned, Providers
<1>10. QED
  BY <1>1, <1>5, <1>7, <1>9 DEF CallInv, Walked

LEMMA CallerMoves ==
    ASSUME CallInv, NEW c \in Caller,
           refused(c) \/ exhausted(c) \/ only_ends(c) \/ again(c)
    PROVE  CallInv'
<1>1. /\ UNCHANGED <<config, failures, opened_at, now>> /\ Walked(caller[c])
  BY DEF refused, exhausted, only_ends, again, CallInv
<1>2. CASE refused(c)
  <2>1. caller[c].at = "calling" /\ goes(c, "refused")
    BY <1>2 DEF refused
  <2>2. QED
    BY <1>1, <2>1, Goes, OneWalks DEF Ats
<1>3. CASE exhausted(c)
  <2>1. caller[c].at = "next" /\ caller[c].ranked = <<>> /\ goes(c, "unavailable")
    BY <1>3 DEF exhausted
  <2>2. QED
    BY <1>1, <2>1, Goes, OneWalks DEF Ats
<1>4. CASE only_ends(c)
  <2>1. caller[c].at = "only" /\ caller[c].ranked # <<>>
    BY <1>1, <1>4 DEF only_ends, Walked
  <2>2. PICK at \in {"answered", "failed"} : goes(c, at)
    BY <1>4 DEF only_ends
  <2>3. QED
    BY <1>1, <2>1, <2>2, Goes, OneWalks DEF Ats
<1>5. CASE again(c)
  <2>1. Idle \in WalkType /\ Idle.at = "idle"
    BY DEF Idle, Walk, WalkType, Ats, Asked, Budgets
  <2>2. Walked(Idle)
    BY <2>1 DEF Walked
  <2>3. caller' = [caller EXCEPT ![c] = Idle]
    BY <1>5 DEF again
  <2>4. QED
    BY <1>1, <2>1, <2>2, <2>3, OneWalks
<1>6. QED
  BY <1>2, <1>3, <1>4, <1>5

LEMMA InitCalls == ASSUME CallAssumption, CallInit PROVE CallInv
<1>1. Idle \in WalkType /\ Walked(Idle)
  <2>1. Idle \in WalkType /\ Idle.at = "idle"
    BY DEF Idle, Walk, WalkType, Ats, Asked, Budgets
  <2>2. QED
    BY <2>1 DEF Walked
<1>2. caller \in [Caller -> WalkType] /\ \A c \in Caller : Walked(caller[c])
  BY <1>1 DEF CallInit
<1>3. failures \in [Providers -> 0 .. MaxFailures] /\ opened_at \in [Providers -> Int]
  BY DEF CallInit, CallAssumption, Closed
<1>4. RestIsEarned
  BY DEF CallInit, RestIsEarned
<1>5. QED
  BY <1>2, <1>3, <1>4 DEF CallInit, CallInv

\* Who answers is the first of what is left.
LEMMA AnswersFirst ==
    ASSUME CallAssumption, CallInv
    PROVE  NoDowngrade /\ EveryCandidateHeard /\ LocalBeforeRemote
<1> SUFFICES ASSUME NEW c \in Caller
             PROVE  /\ caller[c].at = "answered" =>
                          /\ EntryOf(Candidate(c)) \in Eligible(caller[c].asks, caller[c].budget)
                          /\ Entry[EntryOf(Candidate(c))].tier >= Tiers[caller[c].asks]
                    /\ caller[c].at = "unavailable" =>
                          \A i \in Eligible(caller[c].asks, caller[c].budget) :
                             Entry[i].name \in caller[c].tried \cup caller[c].skipped
                    /\ caller[c].at = "answered" /\ Entry[EntryOf(Candidate(c))].remote =>
                          \A i \in Eligible(caller[c].asks, caller[c].budget) :
                             ~Entry[i].remote => Entry[i].name \in caller[c].tried \cup caller[c].skipped
  BY DEF NoDowngrade, EveryCandidateHeard, LocalBeforeRemote
<1> DEFINE w == caller[c]
           E == Eligible(w.asks, w.budget)
<1>1. w \in WalkType /\ Walked(w)
  BY DEF CallInv
<1>2. w.at = "unavailable" => \A i \in E : Entry[i].name \in w.tried \cup w.skipped
  BY <1>1 DEF Walked, Heard
<1>3. ASSUME w.at = "answered"
      PROVE  /\ EntryOf(Candidate(c)) \in E
             /\ Entry[EntryOf(Candidate(c))].remote =>
                   \A i \in E : ~Entry[i].remote => Entry[i].name \in w.tried \cup w.skipped
  <2> DEFINE h == EntryOf(Candidate(c))
  <2>1. /\ w.ranked \in Seq(Providers) /\ w.ranked # <<>>
        /\ Left(w.ranked, E) /\ InOrder(w.ranked) /\ Heard(w, E)
    BY <1>1, <1>3 DEF WalkType, Walked
  <2>2. 1 \in DOMAIN w.ranked /\ Candidate(c) = w.ranked[1] /\ DOMAIN w.ranked \in SUBSET Nat
        /\ \A n \in DOMAIN w.ranked : n >= 1
    BY <2>1 DEF Candidate
  <2>3. h \in E
    BY <2>1, <2>2 DEF Left
  <2>4. ASSUME Entry[h].remote, NEW i \in E, ~Entry[i].remote,
               Entry[i].name \notin w.tried \cup w.skipped
        PROVE  FALSE
    <3>1. PICK n \in DOMAIN w.ranked : w.ranked[n] = Entry[i].name
      BY <2>1, <2>4 DEF Heard
    <3>2. i \in DOMAIN Entry /\ EntryOf(w.ranked[n]) = i
      BY <3>1, NamedEntry DEF Eligible
    <3>3. n # 1
      BY <2>2, <2>4, <3>2
    <3>4. ranks_before(h, i)
      BY <2>1, <2>2, <3>2, <3>3 DEF InOrder
    <3>5. QED
      BY <2>4, <3>4 DEF ranks_before
  <2>5. QED
    BY <2>3, <2>4
<1>4. \A i \in E : Entry[i].tier >= Tiers[w.asks]
  BY DEF Eligible, strong_enough
<1>5. QED
  BY <1>2, <1>3, <1>4

LEMMA CallSteps ==
    ASSUME CallAssumption, CallInv, [CallNext]_call_vars
    PROVE  CallInv'
<1>1. CASE tick
  BY <1>1 DEF tick, CallInv, Walked, RestIsEarned, Providers
<1>2. CASE UNCHANGED call_vars
  BY <1>2 DEF call_vars, CallInv, Walked, RestIsEarned, Providers
<1>3. ASSUME NEW c \in Caller, subagent_begins(c) PROVE CallInv'
  <2>1. "Any" \in Asked /\ Unmeasured \in Budgets /\ begins(c, "Any", Unmeasured)
    BY <1>3 DEF subagent_begins, Asked, Budgets
  <2>2. QED
    BY <2>1, CallerBegins
<1>4. ASSUME NEW c \in Caller, NEW requirement \in {"Any", "Strong"}, NEW budget \in {Unmeasured, 5},
             begins(c, requirement, budget) \/ codeact_begins(c, requirement, budget)
      PROVE  CallInv'
  <2>1. requirement \in Asked /\ budget \in Budgets
    BY DEF Asked, Budgets
  <2>2. QED
    BY <1>4, <2>1, CallerBegins
<1>5. QED
  BY <1>1, <1>2, <1>3, <1>4, CallerAsks, CallerAnswered, CallerUnavailable, CallerMoves DEF CallNext

LEMMA CallRight == ASSUME CallAssumption, CallInv PROVE ModelCallsRight
BY AnswersFirst DEF ModelCallsRight, CallInv

-----------------------------------------------------------------------------
(* Generated programs *)

ActPlaces == {"ask", "runs", "mediate", "Model", "AttemptsExhausted", "Committed", "Escalate",
              "SecurityViolation"}
ActType == [at : ActPlaces, attempt : 0 .. MAX_RETRIES, program : SUBSET C!Finds,
            finished : Result \cup {C!Nothing}, called : BOOLEAN, said : SUBSET Result,
            result : Result \cup {C!Nothing}, threw : Result \cup {C!Nothing, C!Oversize}]
CallType == [attempt : 0 .. MAX_RETRIES, tool : {"listed"}]

\* The calls of one attempt.
CallsOf(list, n) == {i \in DOMAIN list : list[i].attempt = n}

\* Calls are counted for the running program, and no attempt to come has any.
CountInv ==
    /\ \A n \in 0 .. MAX_RETRIES :
          /\ Cardinality(CallsOf(calls, n)) <= C!Limit
          /\ n > act.attempt => CallsOf(calls, n) = {}
    /\ act.at = "ask" => CallsOf(calls, act.attempt) = {}
    /\ act.at = "runs" => Cardinality(CallsOf(calls, act.attempt)) <= made /\ made <= C!Limit

\* What waits for mediation was said by this program.
SaidInv ==
    /\ act.finished # C!Nothing => act.finished \in act.said
    /\ act.at \in {"ask", "runs"} => act.threw = C!Nothing
    /\ act.at \in {"mediate", "Committed"} =>
          act.result \in act.said /\ (act.threw = C!Nothing \/ act.threw \in act.said)
    /\ C!CommittedWasFinished

ActInv ==
    /\ act_setup \in [contract : {"code", "config"}, tier : DOMAIN Budget]
    /\ act \in ActType /\ made \in Nat /\ calls \in Seq(CallType)
    /\ CountInv /\ SaidInv

\* An instance has copies of what its module extends; they are the same operators.
LEMMA SameCardinality == ASSUME NEW E PROVE C!Cardinality(E) = Cardinality(E)
BY Zenon DEF Cardinality, C!Cardinality

LEMMA NothingIsNothing ==
    /\ C!Nothing \notin Result /\ C!Oversize \notin Result /\ C!Nothing # C!Oversize
    /\ C!Values = Result
<1>1. C!Nothing.form = "none" /\ C!Oversize.form = "oversize"
  BY DEF C!Nothing, C!Oversize
<1>2. \A v \in Result : v.form = "whole"
  BY DEF Result
<1>3. C!Values = Result
  BY DEF C!Values, C!Grades, Result, Grades
<1>4. QED
  BY <1>1, <1>2, <1>3

LEMMA FreshTyped ==
    ASSUME NEW a \in 0 .. MAX_RETRIES
    PROVE  /\ C!Fresh(a) \in ActType /\ C!Fresh(a).at = "ask" /\ C!Fresh(a).attempt = a
           /\ C!Fresh(a).finished = C!Nothing /\ C!Fresh(a).threw = C!Nothing
           /\ C!After(a) \in ActType /\ C!After(a).at \in {"ask", "AttemptsExhausted"}
           /\ C!After(a).finished = C!Nothing
           /\ C!After(a).attempt = a \/ C!After(a).attempt = a + 1
           /\ C!After(a).at = "ask" => C!After(a).attempt = a + 1 /\ C!After(a).threw = C!Nothing
<1>1. /\ C!Fresh(a) \in ActType /\ C!Fresh(a).at = "ask" /\ C!Fresh(a).attempt = a
      /\ C!Fresh(a).finished = C!Nothing /\ C!Fresh(a).threw = C!Nothing
  BY DEF C!Fresh, ActType, ActPlaces
<1>2. CASE a + 1 = MAX_ATTEMPTS
  <2>1. C!After(a) = [C!Fresh(a) EXCEPT !.at = "AttemptsExhausted"]
    BY <1>2 DEF C!After, MAX_ATTEMPTS, MAX_RETRIES, C!MAX_ATTEMPTS, C!MAX_RETRIES
  <2> HIDE DEF C!Fresh
  <2>2. QED
    BY <1>1, <2>1 DEF ActType, ActPlaces
<1>3. CASE a + 1 # MAX_ATTEMPTS
  <2>1. C!After(a) = C!Fresh(a + 1) /\ a + 1 \in 0 .. MAX_RETRIES
    BY <1>3 DEF C!After, MAX_ATTEMPTS, MAX_RETRIES, C!MAX_ATTEMPTS, C!MAX_RETRIES
  <2>2. QED
    BY <1>1, <2>1 DEF C!Fresh, ActType, ActPlaces
<1>4. QED
  BY <1>1, <1>2, <1>3

\* Another attempt, or the end, leaves the calls alone.
LEMMA NewAttempt ==
    ASSUME ActInv, act.at \in {"ask", "runs", "mediate"}, UNCHANGED <<act_setup, calls>>, made' \in Nat,
           act' \in ActType, act'.at \notin {"runs", "mediate", "Committed"},
           act'.finished # C!Nothing => act'.finished \in act'.said,
           act'.attempt = act.attempt \/ act'.attempt = act.attempt + 1,
           act'.at = "ask" => act'.attempt = act.attempt + 1 /\ act'.threw = C!Nothing
    PROVE  ActInv'
<1>1. CountInv'
  <2>1. act.attempt \in 0 .. MAX_RETRIES /\ act'.attempt \in 0 .. MAX_RETRIES
    BY DEF ActInv, ActType
  <2>2. QED
    BY <2>1 DEF ActInv, CountInv, C!Limit
<1>2. SaidInv'
  BY DEF SaidInv, C!CommittedWasFinished
<1>3. QED
  BY <1>1, <1>2 DEF ActInv

\* Mediation inside the instance is mediation.
LEMMA SameMediation ==
    ASSUME NEW text, NEW attempt, NEW rules, NEW known
    PROVE  C!mediate(text, attempt, rules, known) = mediate(text, attempt, rules, known)
BY DEF mediate, retry_or_escalate, outcome, more_attempts, parse_with_repair, validate,
       check_no_leaked_secrets, check_rules, MAX_RETRIES,
       C!mediate, C!retry_or_escalate, C!outcome, C!more_attempts, C!parse_with_repair, C!validate,
       C!check_no_leaked_secrets, C!check_rules, C!MAX_RETRIES

\* The program goes on, or its end goes to mediation.
LEMMA ProgramGoesOn ==
    ASSUME ActInv, act.at = "runs", UNCHANGED <<act_setup, calls, made>>, act' \in ActType,
           act'.attempt = act.attempt, act'.at \in {"runs", "mediate"},
           act'.finished # C!Nothing => act'.finished \in act'.said,
           act'.at = "runs" => act'.threw = C!Nothing,
           act'.at = "mediate" =>
              act'.result \in act'.said /\ (act'.threw = C!Nothing \/ act'.threw \in act'.said)
    PROVE  ActInv'
<1>1. CountInv'
  BY DEF ActInv, CountInv, C!Limit
<1>2. SaidInv'
  BY DEF SaidInv, C!CommittedWasFinished
<1>3. QED
  BY <1>1, <1>2 DEF ActInv

LEMMA ActUnavailable == ASSUME ActInv, C!unavailable PROVE ActInv'
<1>1. /\ act.at = "ask" /\ act' = [act EXCEPT !.at = "Model"] /\ UNCHANGED <<act_setup, made, calls>>
      /\ act \in ActType /\ made \in Nat
  BY DEF C!unavailable, C!Quits, ActInv
<1>2. act' \in ActType /\ act'.at = "Model" /\ act'.attempt = act.attempt
      /\ act'.finished = act.finished /\ act'.said = act.said
  BY <1>1 DEF ActType, ActPlaces
<1>3. QED
  BY <1>1, <1>2, NewAttempt DEF ActInv, SaidInv

LEMMA Retries ==
    ASSUME ActInv, act.at \in {"ask", "runs"}, act' = C!After(act.attempt),
           made' \in Nat, UNCHANGED <<act_setup, calls>>
    PROVE  ActInv'
<1>1. act.attempt \in 0 .. MAX_RETRIES
  BY DEF ActInv, ActType
<1>2. QED
  BY <1>1, FreshTyped, NewAttempt

LEMMA AsksProgram == ASSUME ActInv, C!ActAssumption, C!asks_program PROVE ActInv'
<1>1. PICK written \in C!Programs :
         act' = IF C!analyze(written) THEN [act EXCEPT !.at = "runs", !.program = written]
                ELSE C!After(act.attempt)
  BY DEF C!asks_program
<1>2. act.at = "ask" /\ made' = 0 /\ UNCHANGED <<act_setup, calls>> /\ act \in ActType
  BY DEF C!asks_program, ActInv
<1>3. CASE ~C!analyze(written)
  BY <1>1, <1>2, <1>3, Retries
<1>4. CASE C!analyze(written)
  <2>1. act' = [act EXCEPT !.at = "runs", !.program = written] /\ written \in SUBSET C!Finds
    BY <1>1, <1>4 DEF C!Programs
  <2>2. act' \in ActType
    BY <1>2, <2>1 DEF ActType, ActPlaces
  <2>3. /\ act'.at = "runs" /\ act'.attempt = act.attempt /\ act'.finished = act.finished
        /\ act'.said = act.said /\ act'.threw = act.threw
    BY <1>2, <2>1 DEF ActType
  <2>4. CallsOf(calls, act.attempt) = {} /\ Cardinality({}) = 0
    BY <1>2, FS_EmptySet DEF ActInv, CountInv
  <2>5. C!Limit \in Nat /\ 0 \in Nat
    BY DEF C!ActAssumption, C!Limit, ActInv
  <2>6. CountInv'
    BY <1>2, <2>3, <2>4, <2>5 DEF ActInv, CountInv, C!Limit
  <2>7. SaidInv'
    BY <1>2, <2>3 DEF ActInv, SaidInv, C!CommittedWasFinished
  <2>8. QED
    BY <1>2, <2>2, <2>5, <2>6, <2>7 DEF ActInv
<1>5. QED
  BY <1>3, <1>4

LEMMA MediateResult == ASSUME ActInv, C!mediate_result PROVE ActInv'
<1> DEFINE o == mediate(act.result, act.attempt, act_setup.contract = "code", TRUE)
<1>1. /\ act.at = "mediate" /\ UNCHANGED <<act_setup, made, calls>> /\ act \in ActType /\ made \in Nat
      /\ act.attempt \in 0 .. MAX_RETRIES /\ act.result \in act.said /\ act.result \in Result
  BY DEF C!mediate_result, ActInv, SaidInv, ActType
<1>2. act' = IF o.kind = "Retry" THEN C!Fresh(act.attempt + 1) ELSE [act EXCEPT !.at = o.kind]
  BY SameMediation DEF C!mediate_result
<1>3. /\ o.kind \in {"Committed", "Retry", "Escalate", "SecurityViolation"}
      /\ o.kind = "Retry" => act.attempt < MAX_RETRIES
      /\ o.kind = "Committed" =>
            /\ act.result.grade # "shapeless" /\ ~act.result.secret
            /\ act_setup.contract = "code" => act.result.grade # "unruly"
  BY <1>1, Mediated
<1> HIDE DEF o
<1>4. CASE o.kind = "Retry"
  <2>1. act' = C!Fresh(act.attempt + 1) /\ act.attempt + 1 \in 0 .. MAX_RETRIES
    BY <1>1, <1>2, <1>3, <1>4 DEF MAX_RETRIES
  <2>2. /\ act' \in ActType /\ act'.at = "ask" /\ act'.attempt = act.attempt + 1
        /\ act'.finished = C!Nothing /\ act'.threw = C!Nothing
    BY <2>1, FreshTyped
  <2>3. QED
    BY <1>1, <2>2, NewAttempt
<1>5. CASE o.kind # "Retry"
  <2>1. act' = [act EXCEPT !.at = o.kind]
    BY <1>2, <1>5
  <2>2. /\ act' \in ActType /\ act'.at = o.kind /\ act'.attempt = act.attempt
        /\ act'.finished = act.finished /\ act'.said = act.said /\ act'.threw = act.threw
        /\ act'.result = act.result
    BY <1>1, <1>3, <1>5, <2>1 DEF ActType, ActPlaces
  <2>3. CASE o.kind = "Committed"
    <3>1. CountInv'
      BY <1>1, <2>2, <2>3 DEF ActInv, CountInv, C!Limit
    <3>2. C!CommittedWasFinished'
      BY <1>1, <1>3, <2>2, <2>3 DEF ActInv, SaidInv, C!CommittedWasFinished
    <3>3. SaidInv'
      BY <1>1, <2>2, <2>3, <3>2 DEF ActInv, SaidInv
    <3>4. QED
      BY <1>1, <2>2, <3>1, <3>3 DEF ActInv
  <2>4. CASE o.kind # "Committed"
    BY <1>1, <1>3, <1>5, <2>2, <2>4, NewAttempt DEF ActInv, SaidInv
  <2>5. QED
    BY <2>3, <2>4
<1>6. QED
  BY <1>4, <1>5

\* A call that reaches its tool is one of the running program.
LEMMA HostCallTool == ASSUME ActInv, C!ActAssumption, C!host_call_tool PROVE ActInv'
<1>1. PICK tool \in C!Tools(act.program), arrives \in BOOLEAN :
         /\ tool = "listed" /\ made < C!Limit /\ made' = made + 1
         /\ calls' = IF arrives THEN Append(calls, [attempt |-> act.attempt, tool |-> tool]) ELSE calls
  BY DEF C!host_call_tool, C!tool_allowed, C!counts_calls
<1>2. /\ act.at = "runs" /\ UNCHANGED <<act_setup, act>> /\ act \in ActType /\ made \in Nat
      /\ calls \in Seq(CallType) /\ act.attempt \in 0 .. MAX_RETRIES
  BY DEF C!host_call_tool, ActInv, ActType
<1>3. C!Limit \in Nat /\ UNCHANGED C!Limit
  BY <1>2 DEF C!ActAssumption, C!Limit, ActInv
<1>4. SaidInv'
  BY <1>2 DEF ActInv, SaidInv, C!CommittedWasFinished
<1>5. \A n \in 0 .. MAX_RETRIES : Cardinality(CallsOf(calls, n)) \in Nat /\ IsFiniteSet(CallsOf(calls, n))
  <2> SUFFICES ASSUME NEW n \in 0 .. MAX_RETRIES
               PROVE  Cardinality(CallsOf(calls, n)) \in Nat /\ IsFiniteSet(CallsOf(calls, n))
    OBVIOUS
  <2>1. CallsOf(calls, n) \in SUBSET (1 .. Len(calls)) /\ Len(calls) \in Nat
    BY <1>2 DEF CallsOf
  <2>2. IsFiniteSet(1 .. Len(calls))
    BY <2>1, FS_Interval
  <2>3. QED
    BY <2>1, <2>2, FS_Subset, FS_CardinalityType
<1>6. CASE ~arrives
  <2>1. CountInv'
    BY <1>1, <1>2, <1>3, <1>5, <1>6 DEF ActInv, CountInv
  <2>2. QED
    BY <1>1, <1>2, <1>4, <1>6, <2>1 DEF ActInv
<1>7. CASE arrives
  <2> DEFINE call == [attempt |-> act.attempt, tool |-> tool]
  <2>1. call \in CallType /\ call.attempt = act.attempt /\ calls' = Append(calls, call)
    BY <1>1, <1>2, <1>7 DEF CallType
  <2> HIDE DEF call
  <2>2. /\ calls' \in Seq(CallType) /\ DOMAIN calls' = DOMAIN calls \cup {Len(calls) + 1}
        /\ \A i \in DOMAIN calls : calls'[i] = calls[i]
        /\ calls'[Len(calls) + 1] = call
    BY <1>2, <2>1
  <2>3. \A n \in 0 .. MAX_RETRIES : n # act.attempt => CallsOf(calls', n) = CallsOf(calls, n)
    BY <2>1, <2>2 DEF CallsOf
  <2>4. CallsOf(calls', act.attempt) = CallsOf(calls, act.attempt) \cup {Len(calls) + 1}
    BY <2>1, <2>2 DEF CallsOf
  <2>5. Cardinality(CallsOf(calls', act.attempt)) <= Cardinality(CallsOf(calls, act.attempt)) + 1
        /\ Cardinality(CallsOf(calls', act.attempt)) \in Nat
    <3>1. IsFiniteSet(CallsOf(calls, act.attempt)) /\ Cardinality(CallsOf(calls, act.attempt)) \in Nat
      BY <1>2, <1>5
    <3> DEFINE Before == CallsOf(calls, act.attempt)
               place == Len(calls) + 1
    <3> HIDE DEF Before, place
    <3>2. /\ IsFiniteSet(Before \cup {place})
          /\ Cardinality(Before \cup {place}) = IF place \in Before THEN Cardinality(Before) ELSE Cardinality(Before) + 1
      BY <3>1, FS_AddElement DEF Before
    <3>3. QED
      BY <2>4, <3>1, <3>2 DEF Before, place
  <2>6. Cardinality(CallsOf(calls', act.attempt)) <= made + 1
    BY <1>2, <1>5, <2>5 DEF ActInv, CountInv
  <2>7. CountInv'
    <3>1. ASSUME NEW n \in 0 .. MAX_RETRIES
          PROVE  /\ Cardinality(CallsOf(calls', n)) <= C!Limit
                 /\ n > act.attempt => CallsOf(calls', n) = {}
      <4>1. CASE n = act.attempt
        BY <1>1, <1>2, <1>3, <2>5, <2>6, <4>1
      <4>2. CASE n # act.attempt
        BY <2>3, <4>2 DEF ActInv, CountInv
      <4>3. QED
        BY <4>1, <4>2
    <3>2. act' = act /\ (C!Limit)' = C!Limit /\ made + 1 <= C!Limit /\ made' = made + 1
      BY <1>1, <1>2, <1>3
    <3>3. QED
      BY <1>2, <2>6, <3>1, <3>2 DEF CountInv
  <2>8. QED
    BY <1>1, <1>2, <1>4, <2>2, <2>7 DEF ActInv
<1>8. QED
  BY <1>6, <1>7

\* A finish, caught or not, is said by the program.
LEMMA Finishing ==
    ASSUME ActInv, NEW v \in Result \cup {C!Oversize}
    PROVE  LET f == C!Finished(v)
           IN  /\ f \in ActType /\ f.at = act.at /\ f.attempt = act.attempt /\ f.threw = act.threw
               /\ f.said = IF v = C!Oversize THEN act.said ELSE act.said \cup {v}
               /\ f.finished # C!Nothing => f.finished \in f.said
<1>1. act \in ActType /\ (act.finished # C!Nothing => act.finished \in act.said)
  BY DEF ActInv, SaidInv
<1>2. CASE v = C!Oversize
  <2>1. C!Finished(v) = [act EXCEPT !.called = TRUE]
    BY <1>2 DEF C!Finished
  <2>2. QED
    BY <1>1, <1>2, <2>1 DEF ActType
<1>3. CASE v # C!Oversize
  <2>1. C!Finished(v) = [act EXCEPT !.finished = v, !.called = TRUE, !.said = act.said \cup {v}]
    BY <1>3 DEF C!Finished
  <2>2. v \in Result /\ act.said \cup {v} \in SUBSET Result
    BY <1>1, <1>3 DEF ActType
  <2> DEFINE said == act.said \cup {v}
  <2> HIDE DEF said
  <2>3. C!Finished(v) = [act EXCEPT !.finished = v, !.called = TRUE, !.said = said]
    BY <2>1 DEF said
  <2>4. said \in SUBSET Result /\ v \in said
    BY <2>2 DEF said
  <2>5. /\ C!Finished(v) \in ActType /\ C!Finished(v).at = act.at
        /\ C!Finished(v).attempt = act.attempt /\ C!Finished(v).threw = act.threw
        /\ C!Finished(v).said = said /\ C!Finished(v).finished = v
    BY <1>1, <2>2, <2>3, <2>4 DEF ActType
  <2>6. QED
    BY <1>3, <2>4, <2>5 DEF said
<1>4. QED
  BY <1>2, <1>3

LEMMA ProgramFinishes ==
    ASSUME ActInv, C!finish_propagates \/ C!finish_caught
    PROVE  ActInv'
<1>1. act.at = "runs" /\ UNCHANGED <<act_setup, made, calls>> /\ act \in ActType /\ act.threw = C!Nothing
  BY DEF C!finish_propagates, C!finish_caught, ActInv, SaidInv
<1>2. CASE C!finish_propagates
  <2>1. PICK v \in Result : act' = [C!Finished(v) EXCEPT !.at = "mediate", !.result = v, !.threw = v]
    BY <1>2, NothingIsNothing DEF C!finish_propagates
  <2> DEFINE f == C!Finished(v)
  <2>2. /\ f \in ActType /\ f.attempt = act.attempt /\ v \in f.said
        /\ f.finished # C!Nothing => f.finished \in f.said
    BY Finishing, NothingIsNothing
  <2>3. act' = [f EXCEPT !.at = "mediate", !.result = v, !.threw = v]
    BY <2>1
  <2> HIDE DEF f
  <2>4. /\ act' \in ActType /\ act'.at = "mediate" /\ act'.result = v /\ act'.threw = v
        /\ act'.attempt = f.attempt /\ act'.finished = f.finished /\ act'.said = f.said
    BY <2>2, <2>3 DEF ActType, ActPlaces
  <2>5. QED
    BY <1>1, <2>2, <2>4, ProgramGoesOn
<1>3. CASE C!finish_caught
  <2>1. PICK v \in Result \cup {C!Oversize} : act' = C!Finished(v)
    BY <1>3, NothingIsNothing DEF C!finish_caught
  <2>2. /\ act' \in ActType /\ act'.at = "runs" /\ act'.attempt = act.attempt
        /\ act'.threw = C!Nothing
        /\ act'.finished # C!Nothing => act'.finished \in act'.said
    BY <1>1, <2>1, Finishing
  <2>3. QED
    BY <1>1, <2>2, ProgramGoesOn
<1>4. QED
  BY <1>2, <1>3

\* What another exception ends is the finish it repeats.
LEMMA ProgramEnds ==
    ASSUME ActInv, C!throws \/ C!ends \/ C!traps
    PROVE  ActInv'
<1>1. /\ act.at = "runs" /\ UNCHANGED <<act_setup, made, calls>> /\ act \in ActType /\ made \in Nat
      /\ act.threw = C!Nothing
      /\ act.finished # C!Nothing => act.finished \in act.said
  BY DEF C!throws, C!ends, C!traps, ActInv, SaidInv
<1>2. ASSUME act.finished # C!Nothing, NEW thrown \in {C!Nothing, act.finished},
             act' = [act EXCEPT !.at = "mediate", !.result = act.finished, !.threw = thrown]
      PROVE  ActInv'
  <2>1. act.finished \in Result /\ thrown \in Result \cup {C!Nothing, C!Oversize}
    BY <1>1, <1>2 DEF ActType
  <2>2. /\ act' \in ActType /\ act'.at = "mediate" /\ act'.result = act.finished /\ act'.threw = thrown
        /\ act'.attempt = act.attempt /\ act'.finished = act.finished /\ act'.said = act.said
    BY <1>1, <1>2, <2>1 DEF ActType, ActPlaces
  <2>3. QED
    BY <1>1, <1>2, <2>2, ProgramGoesOn
<1>3. CASE C!throws
  <2>1. PICK thrown \in C!Values \cup {C!Oversize} :
           act' = IF C!own_exception(thrown) /\ act.finished # C!Nothing
                  THEN [act EXCEPT !.at = "mediate", !.result = act.finished, !.threw = thrown]
                  ELSE C!After(act.attempt)
    BY <1>3 DEF C!throws
  <2>2. CASE C!own_exception(thrown) /\ act.finished # C!Nothing
    BY <1>2, <2>1, <2>2 DEF C!own_exception
  <2>3. QED
    BY <1>1, <2>1, <2>2, Retries
<1>4. CASE C!ends
  <2>1. CASE act.finished = C!Nothing
    BY <1>1, <1>4, <2>1, Retries DEF C!ends
  <2>2. CASE act.finished # C!Nothing
    <3>1. act' = [act EXCEPT !.at = "mediate", !.result = act.finished]
      BY <1>4, <2>2 DEF C!ends
    <3>2. act' = [act EXCEPT !.at = "mediate", !.result = act.finished, !.threw = C!Nothing]
      BY <1>1, <3>1 DEF ActType
    <3>3. QED
      BY <1>2, <2>2, <3>2
  <2>3. QED
    BY <2>1, <2>2
<1>5. CASE C!traps
  BY <1>1, <1>5, Retries DEF C!traps
<1>6. QED
  BY <1>3, <1>4, <1>5

LEMMA InitAct == ASSUME C!ActAssumption, C!ActInit PROVE ActInv
<1>1. act = C!Fresh(0) /\ made = 0 /\ calls = <<>>
      /\ act_setup \in [contract : {"code", "config"}, tier : DOMAIN Budget]
  BY DEF C!ActInit
<1>2. /\ act \in ActType /\ act.at = "ask" /\ act.attempt = 0
      /\ act.finished = C!Nothing /\ act.threw = C!Nothing
  BY <1>1, FreshTyped DEF MAX_RETRIES
<1>3. \A n \in 0 .. MAX_RETRIES : CallsOf(calls, n) = {}
  BY <1>1 DEF CallsOf
<1>4. Cardinality({}) = 0 /\ C!Limit \in Nat
  BY <1>1, FS_EmptySet DEF C!ActAssumption, C!Limit
<1>5. CountInv
  BY <1>2, <1>3, <1>4 DEF CountInv, MAX_RETRIES
<1>6. SaidInv
  BY <1>2 DEF SaidInv, C!CommittedWasFinished
<1>7. QED
  BY <1>1, <1>2, <1>5, <1>6 DEF ActInv

LEMMA ActSteps == ASSUME C!ActAssumption, ActInv, [C!ActNext]_(C!act_vars) PROVE ActInv'
<1>1. CASE UNCHANGED C!act_vars
  BY <1>1 DEF C!act_vars, ActInv, CountInv, SaidInv, C!CommittedWasFinished, C!Limit
<1>2. CASE C!ActNext
  BY <1>2, ActUnavailable, AsksProgram, MediateResult, HostCallTool, ProgramFinishes, ProgramEnds DEF C!ActNext
<1>3. QED
  BY <1>1, <1>2

LEMMA ActRight == ActInv => C!ProgramsRight
<1> SUFFICES ASSUME ActInv PROVE C!ProgramsRight
  OBVIOUS
<1>1. \A i \in DOMAIN calls : calls[i].tool = "listed"
  <2>1. calls \in Seq(CallType)
    BY DEF ActInv
  <2>2. DOMAIN calls = 1 .. Len(calls) /\ \A i \in 1 .. Len(calls) : calls[i] \in CallType
    BY <2>1, LenProperties, ElementOfSeq
  <2>3. QED
    BY <2>2 DEF CallType
<1>2. 0 .. C!MAX_ATTEMPTS - 1 = 0 .. MAX_RETRIES
  BY DEF C!MAX_ATTEMPTS, C!MAX_RETRIES, MAX_RETRIES
<1>3. C!CallsWithinBudget
  <2> SUFFICES ASSUME NEW n \in 0 .. C!MAX_ATTEMPTS - 1
               PROVE  Cardinality({i \in DOMAIN calls : calls[i].attempt = n}) <= C!Limit
    BY <1>1, SameCardinality, Zenon DEF C!CallsWithinBudget
  <2>1. n \in 0 .. MAX_RETRIES
    BY <1>2
  <2>2. QED
    BY <2>1 DEF ActInv, CountInv, CallsOf
<1>4. QED
  BY <1>3 DEF ActInv, SaidInv, C!ProgramsRight

-----------------------------------------------------------------------------
(* Single calls *)

\* Here too, the instance's copies are the same operators.
LEMMA SingleMediation ==
    ASSUME NEW text, NEW attempt, NEW rules, NEW known
    PROVE  S!mediate(text, attempt, rules, known) = mediate(text, attempt, rules, known)
BY DEF mediate, retry_or_escalate, outcome, more_attempts, parse_with_repair, validate,
       check_no_leaked_secrets, check_rules, MAX_RETRIES,
       S!mediate, S!retry_or_escalate, S!outcome, S!more_attempts, S!parse_with_repair, S!validate,
       S!check_no_leaked_secrets, S!check_rules, S!MAX_RETRIES

LEMMA SingleCardinality == ASSUME NEW E PROVE S!Cardinality(E) = Cardinality(E)
BY Zenon DEF Cardinality, S!Cardinality

Stages   == {"MediationParseRepaired", "MediationParsed", "MediationValidated"}
Outcomes == {"MediationCommitted", "MediationRejected", "SecurityEvent"}
RunType  == [at : {"start", "ask", "gate", "dispatch", "NoProvider", "UnknownContract", "Model",
                   "UnresolvedTemplate", "CapabilityDenied", "ConfirmationRejected", "Dispatch",
                   "Committed", "Escalate", "SecurityViolation"},
             attempt : 0 .. MAX_RETRIES, feedback : BOOLEAN,
             patch : Grades \cup {"none", "value"}, secret : BOOLEAN]

\* Where a journal tells events of a kind, and answers are cut.
ToldAt(list, kinds) == {i \in DOMAIN list : list[i] \in kinds}
CutAnswers(list) == {i \in DOMAIN list : list[i].form = "cut"}

SingleInv ==
    /\ run \in RunType /\ events \in Seq(Stages \cup Outcomes) /\ answers \in Seq(Text)
    /\ run.at = "ask" => Len(answers) = run.attempt
    /\ run.at \in {"gate", "dispatch"} => task.kind = "tool"
    /\ Len(answers) <= MAX_ATTEMPTS
    /\ run.at = "start" => answers = <<>> /\ run.attempt = 0
    /\ Cardinality(ToldAt(events, Outcomes)) = Len(answers)
    /\ \A i \in DOMAIN events : events[i] = "MediationCommitted" => i = Len(events) /\ run.at = "Committed"
    /\ Cardinality(ToldAt(events, {"MediationParseRepaired"})) = Cardinality(CutAnswers(answers))
    /\ S!NoSecretLeaves

\* A trace is of stages, and only a repaired text's begins with its mark.
LEMMA TraceShape ==
    ASSUME NEW text \in Text
    PROVE  LET t == S!trace(text)
           IN  /\ t \in Seq(Stages)
               /\ \A i \in DOMAIN t : t[i] = "MediationParseRepaired" <=> i = 1 /\ text.form = "cut"
               /\ text.form = "cut" => t # <<>>
<1> DEFINE t == S!trace(text)
           a == IF text.form = "cut" THEN <<"MediationParseRepaired">> ELSE <<>>
           b == IF S!parse_with_repair(text) THEN <<"MediationParsed">> ELSE <<>>
           c == IF S!parse_with_repair(text) /\ S!validate(text) THEN <<"MediationValidated">> ELSE <<>>
<1>1. t = (a \o b) \o c
  BY DEF S!trace
<1>2. text.form = "cut" => S!parse_with_repair(text)
  BY DEF S!parse_with_repair
<1>3. /\ a \in Seq(Stages) /\ b \in Seq(Stages) /\ c \in Seq(Stages)
      /\ IF text.form = "cut" THEN Len(a) = 1 /\ a[1] = "MediationParseRepaired" ELSE Len(a) = 0
      /\ Len(b) \in {0, 1} /\ (Len(b) = 1 => b[1] = "MediationParsed")
      /\ Len(c) \in {0, 1} /\ (Len(c) = 1 => c[1] = "MediationValidated")
  <2>1. \A s \in Stages : <<s>> \in Seq(Stages) /\ Len(<<s>>) = 1 /\ <<s>>[1] = s
    OBVIOUS
  <2>2. <<>> \in Seq(Stages) /\ Len(<<>>) = 0
    OBVIOUS
  <2>3. "MediationParseRepaired" \in Stages /\ "MediationParsed" \in Stages /\ "MediationValidated" \in Stages
    BY DEF Stages
  <2>4. a \in Seq(Stages) /\ IF text.form = "cut" THEN Len(a) = 1 /\ a[1] = "MediationParseRepaired" ELSE Len(a) = 0
    BY <2>1, <2>2, <2>3
  <2>5. b \in Seq(Stages) /\ Len(b) \in {0, 1} /\ (Len(b) = 1 => b[1] = "MediationParsed")
    BY <2>1, <2>2, <2>3
  <2>6. c \in Seq(Stages) /\ Len(c) \in {0, 1} /\ (Len(c) = 1 => c[1] = "MediationValidated")
    BY <2>1, <2>2, <2>3
  <2>7. QED
    BY <2>4, <2>5, <2>6
<1> HIDE DEF a, b, c, t
<1>4. /\ a \o b \in Seq(Stages) /\ Len(a \o b) = Len(a) + Len(b)
      /\ \A i \in 1 .. Len(a) + Len(b) : (a \o b)[i] = IF i <= Len(a) THEN a[i] ELSE b[i - Len(a)]
  BY <1>3
<1>5. /\ t \in Seq(Stages) /\ Len(t) = Len(a) + Len(b) + Len(c)
      /\ \A i \in 1 .. Len(t) : t[i] = IF i <= Len(a) + Len(b) THEN (a \o b)[i] ELSE c[i - Len(a) - Len(b)]
  BY <1>1, <1>3, <1>4
<1>6. \A i \in DOMAIN t : t[i] = "MediationParseRepaired" <=> i = 1 /\ text.form = "cut"
  BY <1>3, <1>4, <1>5
<1>7. text.form = "cut" => t # <<>>
  BY <1>3, <1>5
<1>8. QED
  BY <1>5, <1>6, <1>7 DEF t

\* Places in a sequence are finitely many, and one behind its end is new.
LEMMA FinitePlaces ==
    ASSUME NEW X, NEW list \in Seq(X), NEW P \in SUBSET DOMAIN list
    PROVE  /\ IsFiniteSet(P) /\ Cardinality(P) \in Nat
           /\ \A k \in Nat : k > Len(list) => Cardinality(P \cup {k}) = Cardinality(P) + 1
<1>1. DOMAIN list = 1 .. Len(list) /\ Len(list) \in Nat
  BY LenProperties
<1>2. IsFiniteSet(P)
  <2>1. IsFiniteSet(1 .. Len(list))
    BY <1>1, FS_Interval
  <2>2. QED
    BY <1>1, <2>1, FS_Subset
<1>3. Cardinality(P) \in Nat
  BY <1>2, FS_CardinalityType
<1>4. ASSUME NEW k \in Nat, k > Len(list)
      PROVE  Cardinality(P \cup {k}) = Cardinality(P) + 1
  <2>1. k \notin P
    BY <1>1, <1>4
  <2>2. QED
    BY <1>2, <2>1, FS_AddElement
<1>5. QED
  BY <1>2, <1>3, <1>4

\* One answer more, and its events.
LEMMA AnswerTold ==
    ASSUME SingleInv, NEW text \in Text, NEW sort \in Outcomes,
           answers' = Append(answers, text),
           events' = events \o S!trace(text) \o <<sort>>
    PROVE  /\ events' \in Seq(Stages \cup Outcomes) /\ answers' \in Seq(Text)
           /\ Len(answers') = Len(answers) + 1
           /\ events'[Len(events')] = sort /\ Len(events') \in DOMAIN events'
           /\ \A i \in DOMAIN events' :
                 events'[i] \in Outcomes => i = Len(events') \/ (i \in DOMAIN events /\ events'[i] = events[i])
           /\ Cardinality(ToldAt(events', Outcomes)) = Cardinality(ToldAt(events, Outcomes)) + 1
           /\ Cardinality(ToldAt(events, {"MediationParseRepaired"})) = Cardinality(CutAnswers(answers)) =>
              Cardinality(ToldAt(events', {"MediationParseRepaired"})) = Cardinality(CutAnswers(answers'))
<1> DEFINE t == S!trace(text)
           n == Len(events)
           m == Len(t)
           Marks == {"MediationParseRepaired"}
<1>1. /\ t \in Seq(Stages) /\ m \in Nat /\ n \in Nat /\ events \in Seq(Stages \cup Outcomes)
      /\ answers \in Seq(Text) /\ DOMAIN t = 1 .. m /\ DOMAIN events = 1 .. n
      /\ \A i \in DOMAIN t : t[i] = "MediationParseRepaired" <=> i = 1 /\ text.form = "cut"
      /\ text.form = "cut" => 1 \in DOMAIN t
  BY TraceShape DEF SingleInv
<1>2. events' = (events \o t) \o <<sort>>
  OBVIOUS
<1> HIDE DEF t
<1>3. /\ events \o t \in Seq(Stages \cup Outcomes) /\ Len(events \o t) = n + m
      /\ \A i \in 1 .. n : (events \o t)[i] = events[i]
      /\ \A i \in 1 .. m : (events \o t)[n + i] = t[i]
  BY <1>1
<1> DEFINE u == events \o t
<1> HIDE DEF u
<1>4. /\ events' \in Seq(Stages \cup Outcomes) /\ Len(events') = n + m + 1 /\ events'[n + m + 1] = sort
      /\ \A i \in 1 .. n + m : events'[i] = u[i]
  <2> DEFINE Y == Stages \cup Outcomes
             last == <<sort>>
  <2>1. sort \in Y
    OBVIOUS
  <2> HIDE DEF Y
  <2>2. last \in Seq(Y) /\ Len(last) = 1 /\ last[1] = sort
    BY <2>1
  <2> HIDE DEF last
  <2>3. /\ u \in Seq(Y) /\ Len(u) = n + m /\ events' = u \o last /\ n + m \in Nat
        /\ DOMAIN u = 1 .. n + m
    <3>1. u \in Seq(Y) /\ Len(u) = n + m
      BY <1>3 DEF u, Y
    <3>2. events' = u \o last
      BY <1>2 DEF u, last
    <3>3. n + m \in Nat
      BY <1>1
    <3>4. QED
      BY <3>1, <3>2, <3>3, LenProperties
  <2> HIDE DEF n, m
  <2>4. /\ u \o last \in Seq(Y) /\ Len(u \o last) = n + m + 1 /\ (u \o last)[n + m + 1] = sort
        /\ \A i \in 1 .. n + m : (u \o last)[i] = u[i]
    <3>1. /\ u \o last \in Seq(Y) /\ Len(u \o last) = Len(u) + Len(last)
          /\ \A i \in 1 .. Len(u) + Len(last) :
                (u \o last)[i] = IF i <= Len(u) THEN u[i] ELSE last[i - Len(u)]
      BY <2>2, <2>3, ConcatProperties
    <3>2. Len(u) + Len(last) = n + m + 1 /\ n + m + 1 \in 1 .. n + m + 1 /\ (n + m + 1) - (n + m) = 1
      BY <2>2, <2>3
    <3>3. QED
      BY <2>2, <2>3, <3>1, <3>2
  <2>5. QED
    BY <2>3, <2>4 DEF Y
<1> HIDE DEF n, m
<1>5. /\ DOMAIN events' = 1 .. n + m + 1
      /\ \A i \in 1 .. n : events'[i] = events[i]
      /\ \A i \in n + 1 .. n + m : i - n \in 1 .. m /\ events'[i] = t[i - n] /\ t[i - n] \in Stages
  BY <1>1, <1>3, <1>4 DEF u, n, m
<1>6. answers' \in Seq(Text) /\ Len(answers') = Len(answers) + 1
  BY <1>1
<1>7. Outcomes \cap Stages = {} /\ sort \notin Stages /\ Marks \subseteq Stages
  BY DEF Outcomes, Stages
<1>8. ToldAt(events', Outcomes) = ToldAt(events, Outcomes) \cup {n + m + 1}
  <2>1. \A i \in 1 .. n + m + 1 :
           events'[i] \in Outcomes <=> (i \in 1 .. n /\ events[i] \in Outcomes) \/ i = n + m + 1
    <3> SUFFICES ASSUME NEW i \in 1 .. n + m + 1
                 PROVE  events'[i] \in Outcomes <=> (i \in 1 .. n /\ events[i] \in Outcomes) \/ i = n + m + 1
      OBVIOUS
    <3>1. n \in Nat /\ m \in Nat
      BY <1>1 DEF n, m
    <3>2. CASE i \in 1 .. n
      BY <1>5, <3>1, <3>2
    <3>3. CASE i \in n + 1 .. n + m
      <4>1. events'[i] \in Stages
        BY <1>5, <3>3
      <4>2. events'[i] \notin Outcomes
        BY <1>7, <4>1
      <4>3. ~(i \in 1 .. n) /\ i # n + m + 1
        BY <3>1, <3>3
      <4>4. QED
        BY <4>2, <4>3
    <3>4. CASE i = n + m + 1
      BY <1>4, <3>4
    <3>5. i \in 1 .. n \/ i \in n + 1 .. n + m \/ i = n + m + 1
      BY <3>1
    <3>6. QED
      BY <3>2, <3>3, <3>4, <3>5
  <2>2. n + m + 1 \in 1 .. n + m + 1 /\ DOMAIN events = 1 .. n /\ 1 .. n \subseteq 1 .. n + m + 1
    BY <1>1 DEF n, m
  <2>3. QED
    BY <1>5, <2>1, <2>2 DEF ToldAt
<1>9. ToldAt(events', Marks) = ToldAt(events, Marks) \cup (IF text.form = "cut" THEN {n + 1} ELSE {})
  <2> SUFFICES ASSUME NEW i \in 1 .. n + m + 1
               PROVE  events'[i] \in Marks <=> (i \in 1 .. n /\ events[i] \in Marks)
                                             \/ (i = n + 1 /\ text.form = "cut")
    <3>1. /\ n + 1 \in 1 .. n + m + 1 /\ DOMAIN events = 1 .. n
          /\ 1 .. n \subseteq 1 .. n + m + 1 /\ DOMAIN events' = 1 .. n + m + 1
      BY <1>1, <1>5 DEF n, m
    <3> DEFINE U == IF text.form = "cut" THEN {n + 1} ELSE {}
    <3>2. \A i : i \in U <=> i = n + 1 /\ text.form = "cut"
      OBVIOUS
    <3> HIDE DEF U, Marks
    <3>3. ToldAt(events', Marks) = ToldAt(events, Marks) \cup U
      BY <3>1, <3>2 DEF ToldAt
    <3>4. QED
      BY <3>3 DEF U
  <2>1. CASE i \in 1 .. n
    BY <1>1, <1>5, <2>1 DEF n
  <2>2. CASE i \in n + 1 .. n + m
    <3>1. events'[i] = t[i - n] /\ i - n \in DOMAIN t
      BY <1>1, <1>5, <2>2 DEF m
    <3>2. i - n = 1 <=> i = n + 1
      BY <1>1 DEF n
    <3>3. ~(i \in 1 .. n)
      BY <1>1, <2>2 DEF n
    <3>4. QED
      BY <1>1, <3>1, <3>2, <3>3
  <2>3. CASE i = n + m + 1
    <3>1. events'[i] \notin Marks
      BY <1>4, <1>7, <2>3
    <3>2. ~(i \in 1 .. n)
      BY <1>1, <2>3 DEF n, m
    <3>3. i = n + 1 => text.form # "cut"
      BY <1>1, <2>3 DEF n, m
    <3>4. QED
      BY <3>1, <3>2, <3>3
  <2>4. i \in 1 .. n \/ i \in n + 1 .. n + m \/ i = n + m + 1
    <3>1. n \in Nat /\ m \in Nat
      BY <1>1 DEF n, m
    <3>2. QED
      BY <3>1
  <2>5. QED
    BY <2>1, <2>2, <2>3, <2>4
<1>10. CutAnswers(answers') = CutAnswers(answers) \cup (IF text.form = "cut" THEN {Len(answers) + 1} ELSE {})
  <2>1. /\ DOMAIN answers' = DOMAIN answers \cup {Len(answers) + 1}
        /\ \A i \in DOMAIN answers : answers'[i] = answers[i]
        /\ answers'[Len(answers) + 1] = text
    BY <1>1
  <2>2. QED
    BY <2>1 DEF CutAnswers
<1>11. Cardinality(ToldAt(events', Outcomes)) = Cardinality(ToldAt(events, Outcomes)) + 1
  <2>1. ToldAt(events, Outcomes) \in SUBSET DOMAIN events /\ n + m + 1 > Len(events) /\ n + m + 1 \in Nat
    BY <1>1 DEF ToldAt, n, m
  <2>2. QED
    BY <1>1, <1>8, <2>1, FinitePlaces
<1>12. ASSUME Cardinality(ToldAt(events, Marks)) = Cardinality(CutAnswers(answers))
       PROVE  Cardinality(ToldAt(events', Marks)) = Cardinality(CutAnswers(answers'))
  <2>1. CASE text.form = "cut"
    <3>1. ToldAt(events, Marks) \in SUBSET DOMAIN events /\ n + 1 > Len(events) /\ n + 1 \in Nat
      BY <1>1 DEF ToldAt, n
    <3>2. CutAnswers(answers) \in SUBSET DOMAIN answers /\ Len(answers) + 1 > Len(answers)
          /\ Len(answers) + 1 \in Nat /\ answers \in Seq(Text)
      BY <1>1 DEF CutAnswers
    <3>3. Cardinality(ToldAt(events', Marks)) = Cardinality(ToldAt(events, Marks)) + 1
      BY <1>1, <1>9, <2>1, <3>1, FinitePlaces
    <3>4. Cardinality(CutAnswers(answers')) = Cardinality(CutAnswers(answers)) + 1
      <4> DEFINE cut == CutAnswers(answers)
                 place == Len(answers) + 1
      <4>1. CutAnswers(answers') = cut \cup {place}
        BY <1>10, <2>1
      <4>2. cut \in SUBSET DOMAIN answers /\ place \in Nat /\ place > Len(answers)
        BY <3>2
      <4> HIDE DEF cut, place
      <4>3. Cardinality(cut \cup {place}) = Cardinality(cut) + 1
        BY <3>2, <4>2, FinitePlaces
      <4>4. QED
        BY <4>1, <4>3 DEF cut
    <3>5. QED
      BY <1>12, <3>3, <3>4
  <2>2. CASE text.form # "cut"
    BY <1>9, <1>10, <1>12, <2>2
  <2>3. QED
    BY <2>1, <2>2
<1>13. /\ Len(events') \in DOMAIN events' /\ events'[Len(events')] = sort
       /\ \A i \in DOMAIN events' :
             events'[i] \in Outcomes => i = Len(events') \/ (i \in DOMAIN events /\ events'[i] = events[i])
  <2>1. n \in Nat /\ m \in Nat /\ DOMAIN events = 1 .. n
    BY <1>1 DEF n, m
  <2>2. Len(events') \in DOMAIN events' /\ events'[Len(events')] = sort
    BY <1>4, <1>5, <2>1
  <2>3. ASSUME NEW i \in DOMAIN events', events'[i] \in Outcomes, i # Len(events')
        PROVE  i \in DOMAIN events /\ events'[i] = events[i]
    <3>1. i \in 1 .. n \/ i \in n + 1 .. n + m
      BY <1>4, <1>5, <2>1, <2>3
    <3>2. ~(i \in n + 1 .. n + m)
      BY <1>5, <1>7, <2>3
    <3>3. QED
      BY <1>5, <2>1, <3>1, <3>2
  <2>4. QED
    BY <2>2, <2>3
<1>14. QED
  BY <1>4, <1>6, <1>11, <1>12, <1>13

\* What the journal tells stays while no answer comes and nothing is committed.
LEMMA NothingTold ==
    ASSUME SingleInv, UNCHANGED <<task, events, answers>>, run' \in RunType, run.at # "Committed",
           run'.at = "ask" => Len(answers) = run'.attempt,
           run'.at \in {"gate", "dispatch"} => task.kind = "tool",
           run'.at # "start", ~run'.secret, run'.at = "Committed" => task.kind = "tool"
    PROVE  SingleInv'
<1>1. \A i \in DOMAIN events : events[i] # "MediationCommitted"
  BY DEF SingleInv
<1>2. task.kind = "tool" => task.kind # "llm"
  OBVIOUS
<1>3. S!NoSecretLeaves'
  BY <1>2 DEF S!NoSecretLeaves
<1>4. QED
  BY <1>1, <1>3 DEF SingleInv

LEMMA AskModel == ASSUME SingleInv, S!ask_model PROVE SingleInv'
<1>1. PICK text \in S!Text :
         LET o == S!mediate_answer(text, run.attempt)
         IN /\ S!Journals(text, o)
            /\ answers' = Append(answers, text)
            /\ run' = CASE o.kind = "Committed" ->
                             [run EXCEPT !.at = "Committed", !.patch = text.grade, !.secret = text.secret]
                        [] o.kind = "Retry" -> [run EXCEPT !.attempt = @ + 1, !.feedback = TRUE]
                        [] OTHER -> [run EXCEPT !.at = o.kind]
  BY DEF S!ask_model
<1> DEFINE rules == S!find_contract(task.contract)
           o == mediate(text, run.attempt, rules, TRUE)
           sort == S!outcome_to_event_kind(o)
<1>2. /\ run.at = "ask" /\ task' = task /\ run \in RunType /\ run.attempt \in 0 .. MAX_RETRIES
      /\ ~run.secret /\ Len(answers) = run.attempt /\ text \in Text /\ rules \in BOOLEAN
      /\ answers \in Seq(Text)
  BY DEF S!ask_model, SingleInv, RunType, S!NoSecretLeaves, S!Text, S!Grades, Text, Grades, S!find_contract
<1>3. /\ o.kind \in {"Committed", "Retry", "Escalate", "SecurityViolation"}
      /\ o.kind = "Retry" => run.attempt < MAX_RETRIES
      /\ o.kind = "Committed" =>
            /\ text.form # "torn" /\ text.grade # "shapeless" /\ ~text.secret
            /\ rules => text.grade # "unruly"
  BY <1>2, Mediated
<1>4. sort \in Outcomes /\ (sort = "MediationCommitted" <=> o.kind = "Committed")
  BY <1>3 DEF S!outcome_to_event_kind, Outcomes
<1>5. /\ events' = events \o S!trace(text) \o <<sort>> /\ answers' = Append(answers, text)
      /\ run' = CASE o.kind = "Committed" ->
                       [run EXCEPT !.at = "Committed", !.patch = text.grade, !.secret = text.secret]
                  [] o.kind = "Retry" -> [run EXCEPT !.attempt = @ + 1, !.feedback = TRUE]
                  [] OTHER -> [run EXCEPT !.at = o.kind]
  BY <1>1, SingleMediation DEF S!Journals, S!mediate_answer
<1> HIDE DEF o, sort, rules
<1>6. /\ events' \in Seq(Stages \cup Outcomes) /\ answers' \in Seq(Text)
      /\ Len(answers') = Len(answers) + 1
      /\ events'[Len(events')] = sort /\ Len(events') \in DOMAIN events'
      /\ \A i \in DOMAIN events' :
            events'[i] \in Outcomes => i = Len(events') \/ (i \in DOMAIN events /\ events'[i] = events[i])
      /\ Cardinality(ToldAt(events', Outcomes)) = Cardinality(ToldAt(events, Outcomes)) + 1
      /\ Cardinality(ToldAt(events', {"MediationParseRepaired"})) = Cardinality(CutAnswers(answers'))
  BY <1>2, <1>4, <1>5, AnswerTold DEF SingleInv
<1>7. /\ run' \in RunType
      /\ run'.at = "Committed" <=> o.kind = "Committed"
      /\ run'.at = "ask" => o.kind = "Retry" /\ run'.attempt = run.attempt + 1
      /\ run'.at \notin {"start", "gate", "dispatch"}
      /\ ~run'.secret
      /\ o.kind = "Committed" => run'.patch = text.grade
  <2>1. CASE o.kind = "Committed"
    <3>1. run' = [run EXCEPT !.at = "Committed", !.patch = text.grade, !.secret = text.secret]
      BY <1>5, <2>1
    <3>2. text.grade \in Grades \cup {"none", "value"} /\ text.secret = FALSE
      BY <1>2, <1>3, <2>1 DEF Text
    <3>3. QED
      BY <1>2, <2>1, <3>1, <3>2 DEF RunType
  <2>2. CASE o.kind = "Retry"
    <3>1. run' = [run EXCEPT !.attempt = run.attempt + 1, !.feedback = TRUE]
      BY <1>5, <2>2
    <3>2. run.attempt + 1 \in 0 .. MAX_RETRIES
      BY <1>2, <1>3, <2>2 DEF MAX_RETRIES
    <3>3. QED
      BY <1>2, <2>2, <3>1, <3>2 DEF RunType
  <2>3. CASE o.kind \in {"Escalate", "SecurityViolation"}
    <3>1. run' = [run EXCEPT !.at = o.kind]
      BY <1>5, <2>3
    <3>2. QED
      BY <1>2, <2>3, <3>1 DEF RunType
  <2>4. QED
    BY <1>3, <2>1, <2>2, <2>3
<1>8. \A i \in DOMAIN events' : events'[i] = "MediationCommitted" => i = Len(events') /\ run'.at = "Committed"
  <2> SUFFICES ASSUME NEW i \in DOMAIN events', events'[i] = "MediationCommitted"
               PROVE  i = Len(events') /\ run'.at = "Committed"
    OBVIOUS
  <2>1. \A j \in DOMAIN events : events[j] # "MediationCommitted"
    BY <1>2 DEF SingleInv
  <2>2. i = Len(events')
    BY <1>6, <2>1 DEF Outcomes
  <2>3. QED
    BY <1>4, <1>6, <1>7, <2>2
<1>9. Len(answers') <= MAX_ATTEMPTS
  BY <1>2, <1>6 DEF MAX_ATTEMPTS, MAX_RETRIES
<1>10. S!NoSecretLeaves'
  <2>1. run'.at = "Committed" => run'.patch # "shapeless" /\ (rules => run'.patch # "unruly")
    BY <1>3, <1>7
  <2>2. S!find_contract(task'.contract) = rules
    BY <1>2 DEF rules
  <2>3. QED
    BY <1>7, <2>1, <2>2 DEF S!NoSecretLeaves
<1>11. Cardinality(ToldAt(events', Outcomes)) = Len(answers')
  BY <1>6 DEF SingleInv
<1>12. QED
  BY <1>2, <1>6, <1>7, <1>8, <1>9, <1>10, <1>11 DEF SingleInv

LEMMA SingleStops ==
    ASSUME SingleInv,
           \/ S!select_provider \/ S!model_fails \/ S!resolve_template \/ S!dispatch_confirmed \/ S!dispatch
    PROVE  SingleInv'
<1>1. run \in RunType /\ UNCHANGED <<task, events, answers>> /\ ~run.secret
      /\ run.at \in {"start", "ask", "gate", "dispatch"}
  BY DEF S!select_provider, S!model_fails, S!resolve_template, S!dispatch_confirmed, S!dispatch,
         SingleInv, S!NoSecretLeaves
<1>2. ASSUME NEW at, run' = [run EXCEPT !.at = at],
             at \in {"NoProvider", "UnknownContract", "Model", "UnresolvedTemplate", "CapabilityDenied",
                    "ConfirmationRejected", "ask", "gate", "dispatch"},
             at = "ask" => run.at = "start", at \in {"gate", "dispatch"} => task.kind = "tool"
      PROVE  SingleInv'
  <2>1. /\ run' \in RunType /\ run'.at = at /\ run'.attempt = run.attempt /\ run'.secret = run.secret
    BY <1>1, <1>2 DEF RunType
  <2>2. at = "ask" => Len(answers) = run'.attempt
    BY <1>2, <2>1 DEF SingleInv
  <2>3. QED
    BY <1>1, <1>2, <2>1, <2>2, NothingTold
<1>3. CASE S!select_provider
  <2>1. run.at = "start" /\ \E why \in {"NoProvider", "ask", "UnknownContract"} : run' = [run EXCEPT !.at = why]
    BY <1>3 DEF S!select_provider, S!Stops
  <2>2. QED
    BY <1>2, <2>1
<1>4. CASE S!model_fails
  BY <1>2, <1>4 DEF S!model_fails, S!Stops
<1>5. CASE S!resolve_template
  <2>1. task.kind = "tool" /\ \E why \in {"gate", "UnresolvedTemplate"} : run' = [run EXCEPT !.at = why]
    BY <1>5 DEF S!resolve_template, S!Stops
  <2>2. QED
    BY <1>2, <2>1
<1>6. CASE S!dispatch_confirmed
  <2>1. task.kind = "tool"
    BY <1>6 DEF S!dispatch_confirmed, SingleInv
  <2>2. \E why \in {"CapabilityDenied", "ConfirmationRejected", "dispatch"} : run' = [run EXCEPT !.at = why]
    BY <1>6 DEF S!dispatch_confirmed, S!Stops
  <2>3. QED
    BY <1>2, <2>1, <2>2
<1>7. CASE S!dispatch
  <2>1. task.kind = "tool" /\ run.at = "dispatch"
    BY <1>7 DEF S!dispatch, SingleInv
  <2>2. \/ run' = [run EXCEPT !.at = "Committed", !.patch = "value", !.secret = FALSE]
        \/ run' = [run EXCEPT !.at = "Dispatch", !.secret = FALSE]
    BY <1>7 DEF S!dispatch, S!mask_value
  <2>3. /\ run' \in RunType /\ run'.at \in {"Committed", "Dispatch"} /\ run'.attempt = run.attempt
        /\ ~run'.secret
    BY <1>1, <2>2 DEF RunType
  <2>4. QED
    BY <1>1, <2>1, <2>3, NothingTold
<1>8. QED
  BY <1>3, <1>4, <1>5, <1>6, <1>7

LEMMA InitSingle == ASSUME S!SingleInit PROVE SingleInv
<1>1. run = S!Idle /\ events = <<>> /\ answers = <<>>
  BY DEF S!SingleInit
<1>2. run \in RunType /\ run.at = "start" /\ run.attempt = 0 /\ ~run.secret
  BY <1>1 DEF S!Idle, RunType, MAX_RETRIES
<1>3. ToldAt(events, Outcomes) = {} /\ ToldAt(events, {"MediationParseRepaired"}) = {} /\ CutAnswers(answers) = {}
  BY <1>1 DEF ToldAt, CutAnswers
<1>4. Cardinality({}) = 0
  BY FS_EmptySet
<1>5. events \in Seq(Stages \cup Outcomes) /\ answers \in Seq(Text) /\ Len(answers) = 0 /\ DOMAIN events = {}
  BY <1>1
<1>6. S!NoSecretLeaves
  BY <1>2 DEF S!NoSecretLeaves
<1>7. /\ Cardinality(ToldAt(events, Outcomes)) = Len(answers)
      /\ Cardinality(ToldAt(events, {"MediationParseRepaired"})) = Cardinality(CutAnswers(answers))
  BY <1>3, <1>4, <1>5, Zenon
<1>8. Len(answers) <= MAX_ATTEMPTS
  BY <1>5 DEF MAX_ATTEMPTS, MAX_RETRIES
<1>9. QED
  BY <1>1, <1>2, <1>5, <1>6, <1>7, <1>8 DEF SingleInv

LEMMA SingleRight == SingleInv => S!NoSecretLeaves /\ S!JournalTellsAttempts
<1> SUFFICES ASSUME SingleInv PROVE S!JournalTellsAttempts
  BY DEF SingleInv
<1>1. S!Told(Outcomes) = ToldAt(events, Outcomes)
      /\ S!Told({"MediationParseRepaired"}) = ToldAt(events, {"MediationParseRepaired"})
  BY DEF S!Told, ToldAt
<1>2. S!Cardinality(S!Told(Outcomes)) = Len(answers)
  BY <1>1, SingleCardinality DEF SingleInv
<1>3. S!Cardinality(S!Told({"MediationParseRepaired"})) = S!Cardinality({i \in DOMAIN answers : answers[i].form = "cut"})
  BY <1>1, SingleCardinality DEF SingleInv, CutAnswers
<1>4. \A i \in S!Told({"MediationCommitted"}) : i = Len(events) /\ run.at = "Committed"
  BY DEF S!Told, SingleInv
<1>5. Len(answers) <= S!MAX_ATTEMPTS
  BY DEF SingleInv, MAX_ATTEMPTS, MAX_RETRIES, S!MAX_ATTEMPTS, S!MAX_RETRIES
<1>6. QED
  BY <1>2, <1>3, <1>4, <1>5, Zenon DEF S!JournalTellsAttempts, Outcomes

LEMMA SingleMoves == ASSUME SingleInv, [S!SingleNext]_(S!single_vars) PROVE SingleInv'
<1>1. CASE UNCHANGED S!single_vars
  BY <1>1 DEF S!single_vars, SingleInv, S!NoSecretLeaves, S!find_contract
<1>2. CASE S!SingleNext
  BY <1>2, AskModel, SingleStops DEF S!SingleNext
<1>3. QED
  BY <1>1, <1>2

-----------------------------------------------------------------------------
(* OutwardCalls: the network gate *)

LEMMA TwoBytes ==
    ASSUME NEW p \in O!UpTo(255), NEW q \in O!UpTo(255)
    PROVE  /\ p * 256 + q \in O!UpTo(65535)
           /\ (p * 256 + q) \div 256 = p /\ (p * 256 + q) % 256 = q
BY DEF O!UpTo

\* The blocks by the first two bytes.
LEMMA BlocksByBytes ==
    ASSUME NEW p \in O!UpTo(255), NEW q \in O!UpTo(255)
    PROVE  /\ 2560 <= p * 256 + q /\ p * 256 + q <= 2815 => p = 10
           /\ 44048 <= p * 256 + q /\ p * 256 + q <= 44063 => p = 172 /\ q \in 16 .. 31
           /\ 32512 <= p * 256 + q /\ p * 256 + q <= 32767 => p = 127
           /\ 25664 <= p * 256 + q /\ p * 256 + q <= 25727 => p = 100 /\ q \div 64 = 1
           /\ p * 256 + q = 49320 => p = 192 /\ q = 168
           /\ p * 256 + q = 43518 => p = 169 /\ q = 254
           /\ p * 256 + q = 0 => p = 0 /\ q = 0
BY DEF O!UpTo

LEMMA ReservedIsPrivate ==
    ASSUME NEW ip \in O!V4, O!Reserved(ip[1] * 256 + ip[2], ip[3] * 256 + ip[4])
    PROVE  O!is_private_v4(ip)
<1>1. ip[1] \in O!UpTo(255) /\ ip[2] \in O!UpTo(255) /\ ip[3] \in O!UpTo(255) /\ ip[4] \in O!UpTo(255)
  BY DEF O!V4
<1>2. ip[3] * 256 + ip[4] = 0 => ip[3] = 0 /\ ip[4] = 0
  BY <1>1, BlocksByBytes
<1>3. \/ ip[1] = 10 \/ ip[1] = 127
      \/ ip[1] = 172 /\ ip[2] \in 16 .. 31
      \/ ip[1] = 192 /\ ip[2] = 168
      \/ ip[1] = 169 /\ ip[2] = 254
      \/ ip[1] = 100 /\ ip[2] \div 64 = 1
      \/ ip[1] = 0 /\ ip[2] = 0 /\ ip[3] = 0 /\ ip[4] = 0
  <2> DEFINE high == ip[1] * 256 + ip[2]
  <2>1. /\ 2560 <= high /\ high <= 2815 => ip[1] = 10
        /\ 44048 <= high /\ high <= 44063 => ip[1] = 172 /\ ip[2] \in 16 .. 31
        /\ 32512 <= high /\ high <= 32767 => ip[1] = 127
        /\ 25664 <= high /\ high <= 25727 => ip[1] = 100 /\ ip[2] \div 64 = 1
        /\ high = 49320 => ip[1] = 192 /\ ip[2] = 168
        /\ high = 43518 => ip[1] = 169 /\ ip[2] = 254
        /\ high = 0 => ip[1] = 0 /\ ip[2] = 0
    BY <1>1, BlocksByBytes
  <2> HIDE DEF high
  <2>2. O!Reserved(high, ip[3] * 256 + ip[4])
    BY DEF high
  <2>3. QED
    BY <1>2, <2>1, <2>2 DEF O!Reserved
<1>4. \A i \in 1 .. 4 : i = 1 \/ i = 2 \/ i = 3 \/ i = 4
  OBVIOUS
<1>5. QED
  BY <1>3, <1>4 DEF O!is_private_v4

LEMMA ReservedIsPrivate6 ==
    ASSUME NEW s, s[1] \in O!UpTo(65535), O!ReservedV6(s) PROVE O!is_private_v6(s)
<1>1. 64512 <= s[1] /\ s[1] <= 65023 => s[1] \div 512 = 126
  BY DEF O!UpTo
<1>2. 65152 <= s[1] /\ s[1] <= 65215 => s[1] \div 64 = 1018
  BY DEF O!UpTo
<1>3. QED
  BY <1>1, <1>2 DEF O!ReservedV6, O!is_private_v6

\* What the four tests of an embedded address take out.
LEMMA EmbeddedForms ==
    ASSUME NEW s
    PROVE  /\ s[1] = 8194 => O!embedded(s) = {O!v4_of(s[2], s[3])}
           /\ s[1] = 8193 /\ s[2] = 0 => O!embedded(s) = {O!v4_of(65535 - s[7], 65535 - s[8])}
           /\ s[1] = 0 /\ s[2] = 0 /\ s[3] = 0 /\ s[4] = 0 /\ s[5] = 0 /\ (s[6] = 0 \/ s[6] = 65535)
                => O!embedded(s) = {O!v4_of(s[7], s[8])}
           /\ s[1] = 100 /\ s[2] = 65435 /\ s[3] = 0 /\ s[4] = 0 /\ s[5] = 0 /\ s[6] = 0
                => O!embedded(s) = {O!v4_of(s[7], s[8])}
<1>1. /\ \A i \in 1 .. 5 : i = 1 \/ i = 2 \/ i = 3 \/ i = 4 \/ i = 5
      /\ \A i \in 1 .. 6 : i = 1 \/ i = 2 \/ i = 3 \/ i = 4 \/ i = 5 \/ i = 6
      /\ \A i \in 3 .. 6 : i = 3 \/ i = 4 \/ i = 5 \/ i = 6
  OBVIOUS
<1>2. s[1] = 8194 => O!embedded(s) = {O!v4_of(s[2], s[3])}
  BY DEF O!embedded
<1>3. s[1] = 8193 /\ s[2] = 0 => O!embedded(s) = {O!v4_of(65535 - s[7], 65535 - s[8])}
  BY DEF O!embedded
<1>4. ASSUME s[1] = 0, s[2] = 0, s[3] = 0, s[4] = 0, s[5] = 0, s[6] = 0 \/ s[6] = 65535
      PROVE  O!embedded(s) = {O!v4_of(s[7], s[8])}
  <2>1. \A i \in 1 .. 5 : s[i] = 0
    BY <1>1, <1>4, SMT
  <2>2. s[6] = 0 => \A i \in 1 .. 6 : s[i] = 0
    BY <1>1, <1>4, SMT
  <2>3. s[1] # 8194 /\ s[1] # 8193
    BY <1>4
  <2>4. QED
    BY <1>4, <2>1, <2>2, <2>3, SMT DEF O!embedded
<1>5. ASSUME s[1] = 100, s[2] = 65435, s[3] = 0, s[4] = 0, s[5] = 0, s[6] = 0
      PROVE  O!embedded(s) = {O!v4_of(s[7], s[8])}
  <2>1. \A i \in 3 .. 6 : s[i] = 0
    BY <1>1, <1>5, SMT
  <2>2. s[1] # 8194 /\ s[1] # 8193
    BY <1>5
  <2>3. QED
    BY <1>5, <2>1, <2>2, SMT DEF O!embedded
<1>6. QED
  BY <1>2, <1>3, <1>4, <1>5

\* Each form of an IPv4 address is taken apart again.
LEMMA EmbeddedFound ==
    ASSUME NEW a \in O!Address, a.form # "v4", a.form # "v6"
    PROVE  /\ a.v4 \in O!embedded(O!segments(a)) /\ O!segments(a)[1] \in O!UpTo(65535)
<1> DEFINE ip == a.v4
           high == ip[1] * 256 + ip[2]
           low == ip[3] * 256 + ip[4]
           s == O!segments(a)
<1>1. ip \in [1 .. 4 -> O!UpTo(255)]
  BY DEF O!Address, O!V4
<1>2. ip[1] \in O!UpTo(255) /\ ip[2] \in O!UpTo(255) /\ ip[3] \in O!UpTo(255) /\ ip[4] \in O!UpTo(255)
  BY <1>1
<1>3. high \in O!UpTo(65535) /\ low \in O!UpTo(65535)
  BY <1>2, TwoBytes
<1>4. high \div 256 = ip[1] /\ high % 256 = ip[2] /\ low \div 256 = ip[3] /\ low % 256 = ip[4]
  BY <1>2, TwoBytes
<1>5. ip = <<ip[1], ip[2], ip[3], ip[4]>>
  BY <1>1
<1>6. O!v4_of(high, low) = ip
  BY <1>4, <1>5 DEF O!v4_of
<1> HIDE DEF ip, high, low, s
<1> SUFFICES O!v4_of(high, low) \in O!embedded(s) /\ s[1] \in O!UpTo(65535)
  BY <1>6 DEF ip, s
<1>0. 0 \in O!UpTo(65535) /\ 100 \in O!UpTo(65535) /\ 8194 \in O!UpTo(65535) /\ 8193 \in O!UpTo(65535)
  BY DEF O!UpTo
<1>7. CASE a.form \in {"mapped", "compatible"}
  <2>1. s = <<0, 0, 0, 0, 0, IF a.form = "mapped" THEN 65535 ELSE 0, high, low>>
    BY <1>7 DEF O!segments, s, high, low, ip
  <2>2. s[1] = 0 /\ s[2] = 0 /\ s[3] = 0 /\ s[4] = 0 /\ s[5] = 0 /\ (s[6] = 0 \/ s[6] = 65535) /\ s[7] = high /\ s[8] = low
    BY <2>1
  <2>3. O!embedded(s) = {O!v4_of(high, low)}
    BY <2>2, EmbeddedForms
  <2>4. QED
    BY <2>2, <2>3, <1>0
<1>8. CASE a.form = "nat64"
  <2>1. s = <<100, 65435, 0, 0, 0, 0, high, low>>
    BY <1>8 DEF O!segments, s, high, low, ip
  <2>2. s[1] = 100 /\ s[2] = 65435 /\ s[3] = 0 /\ s[4] = 0 /\ s[5] = 0 /\ s[6] = 0 /\ s[7] = high /\ s[8] = low
    BY <2>1
  <2>3. O!embedded(s) = {O!v4_of(high, low)}
    BY <2>2, EmbeddedForms
  <2>4. QED
    BY <2>2, <2>3, <1>0
<1>9. CASE a.form = "6to4"
  <2>1. s = <<8194, high, low, 0, 0, 0, 0, 0>>
    BY <1>9 DEF O!segments, s, high, low, ip
  <2>2. s[1] = 8194 /\ s[2] = high /\ s[3] = low
    BY <2>1
  <2>3. O!embedded(s) = {O!v4_of(high, low)}
    BY <2>2, EmbeddedForms
  <2>4. QED
    BY <2>2, <2>3, <1>0
<1>10. CASE a.form = "teredo"
  <2>1. s = <<8193, 0, 0, 0, 0, 0, 65535 - high, 65535 - low>>
    BY <1>10 DEF O!segments, s, high, low, ip
  <2>2. s[1] = 8193 /\ s[2] = 0 /\ s[7] = 65535 - high /\ s[8] = 65535 - low
    BY <2>1
  <2>3. 65535 - (65535 - high) = high /\ 65535 - (65535 - low) = low
    BY <1>3 DEF O!UpTo
  <2>4. O!embedded(s) = {O!v4_of(high, low)}
    BY <2>2, <2>3, EmbeddedForms
  <2>5. QED
    BY <2>2, <2>4, <1>0
<1>11. QED
  BY <1>7, <1>8, <1>9, <1>10 DEF O!Address

LEMMA NothingReservedPasses ==
    ASSUME NEW a \in O!Address, O!ReservedAddress(a) PROVE O!is_private(a)
<1>1. a.v4 \in O!V4
  BY DEF O!Address
<1>2. CASE a.form = "v4"
  BY <1>1, <1>2, ReservedIsPrivate DEF O!ReservedAddress, O!is_private
<1>3. CASE a.form = "v6"
  <2>1. O!segments(a) = a.v6
    BY <1>3 DEF O!segments
  <2>2. a.v6[1] \in O!UpTo(65535)
    BY <1>3 DEF O!Address, O!V6
  <2>3. O!ReservedV6(O!segments(a))
    BY <1>3 DEF O!ReservedAddress
  <2>4. QED
    BY <1>3, <2>1, <2>2, <2>3, ReservedIsPrivate6 DEF O!is_private
<1>4. CASE a.form # "v4" /\ a.form # "v6"
  <2>1. a.v4 \in O!embedded(O!segments(a)) /\ O!segments(a)[1] \in O!UpTo(65535)
    BY <1>4, EmbeddedFound
  <2>2. CASE O!Reserved(a.v4[1] * 256 + a.v4[2], a.v4[3] * 256 + a.v4[4])
    BY <1>1, <1>4, <2>1, <2>2, ReservedIsPrivate DEF O!is_private
  <2>3. CASE O!ReservedV6(O!segments(a))
    BY <1>4, <2>1, <2>3, ReservedIsPrivate6 DEF O!is_private
  <2>4. QED
    BY <1>4, <2>2, <2>3 DEF O!ReservedAddress
<1>5. QED
  BY <1>2, <1>3, <1>4

\* A request that leaves has passed the gate.
LEMMA ContactAllowed ==
    ASSUME NEW e \in O!Endpoint, NEW allow, NEW hint, O!passes_gate(e, allow),
           contact' \in O!Contacted(e, allow, hint)
    PROVE  O!PrivateNeedsOptIn'
<1> DEFINE host == e[Len(e)]
<1>1. host \in SUBSET O!Address
  BY DEF O!Endpoint
<1>2. PICK x \in host : contact' = {[address |-> x, allowed |-> allow, hint |-> hint]}
  BY DEF O!Contacted
<1>3. \A c \in contact' : c.address = x /\ c.allowed = allow
  BY <1>2
<1>4. O!ReservedAddress(x) => allow
  <2> SUFFICES ASSUME O!ReservedAddress(x), ~allow PROVE FALSE
    BY Zenon
  <2>1. O!check_host(host) = "allow"
    BY DEF O!passes_gate, O!check_endpoint
  <2>2. ~O!is_private(x)
    BY <1>2, <2>1 DEF O!check_host
  <2>3. QED
    BY <1>1, <1>2, <2>2, NothingReservedPasses
<1>5. QED
  BY <1>3, <1>4, Zenon DEF O!PrivateNeedsOptIn

-----------------------------------------------------------------------------
(* OutwardCalls: the decisions of the configured providers *)

LEMMA LeastNumber == ASSUME NEW Z \in SUBSET Nat, Z # {} PROVE \E n \in Z : \A m \in Z : n <= m
<1>1. PICK x \in Z : \A y \in Z : ~(<<y, x>> \in OpToRel(<, Nat))
  BY WFMin, NatLessThanWellFounded
<1>2. OpToRel(<, Nat) = {ss \in Nat \X Nat : ss[1] < ss[2]}
  BY DEF OpToRel
<1>3. ASSUME NEW y \in Z PROVE x <= y
  <2>1. x \in Nat /\ y \in Nat /\ <<y, x>> \in Nat \X Nat
    OBVIOUS
  <2>2. ~(y < x)
    BY <1>1, <1>2, <2>1
  <2>3. QED
    BY <2>1, <2>2
<1>4. QED
  BY <1>3

LEMMA MovesOver ==
    ASSUME NEW Z, NEW s \in Seq(Z), NEW l \in Seq(Z), l # <<>>
    PROVE  /\ Head(l) \in Z /\ Tail(l) \in Seq(Z) /\ Append(s, Head(l)) \in Seq(Z)
           /\ Append(s, Head(l)) \o Tail(l) = s \o l
           /\ Len(Append(s, Head(l))) = Len(s) + 1 /\ Len(s \o <<Head(l)>>) = Len(s) + 1
           /\ Append(s, Head(l)) = SubSeq(s \o l, 1, Len(s) + 1)
           /\ s \o <<Head(l)>> = SubSeq(s \o l, 1, Len(s) + 1)
OBVIOUS

LEMMA CandidatesAreProviders ==
    ASSUME NEW r, NEW T, providers \in Seq(T) PROVE O!candidates(r) \in Seq(DOMAIN providers)
<1>1. CASE r.provider = O!None
  <2>1. O!candidates(r) = [i \in 1 .. Len(providers) |-> i] /\ DOMAIN providers = 1 .. Len(providers)
    BY <1>1 DEF O!candidates
  <2>2. QED
    BY <2>1
<1>2. CASE r.provider # O!None
  <2> DEFINE named == {i \in DOMAIN providers : providers[i].name = r.provider}
  <2>1. CASE named = {}
    BY <1>2, <2>1 DEF O!candidates
  <2>2. CASE named # {}
    <3>1. named \in SUBSET Nat
      OBVIOUS
    <3>2. PICK first \in named : \A j \in named : first <= j
      BY <2>2, <3>1, LeastNumber, Zenon
    <3>3. (CHOOSE i \in named : \A j \in named : i <= j) \in named
      BY <3>2, Zenon
    <3>4. O!candidates(r) = <<CHOOSE i \in named : \A j \in named : i <= j>>
      BY <1>2, <2>2 DEF O!candidates
    <3>5. QED
      BY <3>3, <3>4
  <2>3. QED
    BY <2>1, <2>2
<1>3. QED
  BY <1>1, <1>2

LEMMA Verdicts ==
    ASSUME NEW reply
    PROVE  /\ O!verdict(reply) \in {"next", "rejected", "answered"}
           /\ reply.status \in {400, 413, 422} /\ reply.body \notin {"cut", "huge"} => O!verdict(reply) = "rejected"
           /\ O!verdict(reply) = "answered" => reply.body \in DOMAIN Body
<1>1. CASE reply.body \in {"cut", "huge"}
  BY <1>1 DEF O!verdict
<1>2. CASE reply.body \notin {"cut", "huge"} /\ ~(200 <= reply.status /\ reply.status < 300)
  BY <1>2 DEF O!verdict, O!REQUEST_ERROR_STATUSES
<1>3. CASE reply.body \notin {"cut", "huge"} /\ 200 <= reply.status /\ reply.status < 300
  <2>1. reply.status \notin {400, 413, 422}
    BY <1>3
  <2>2. QED
    BY <1>3, <2>1 DEF O!verdict
<1>4. QED
  BY <1>1, <1>2, <1>3

\* The candidates are behind, ahead, or the one that ended the call; every reply
\* but the last leads on, and the last one's verdict is the ruling.
DecideInv ==
    /\ providers \in DecisionList
    /\ left \in Seq(DOMAIN providers) /\ skipped \in Seq(DOMAIN providers)
    /\ heard \in Seq([by : DOMAIN providers, reply : O!Reply])
    /\ request \in Question \cup {O!Unasked}
    /\ request = O!Unasked => left = <<>> /\ skipped = <<>> /\ heard = <<>> /\ ruling = O!Pending
    /\ left # <<>> => ruling = O!Pending /\ request.valid
    /\ \A i \in DOMAIN heard :
          /\ providers[heard[i].by].key # "unset"
          /\ O!verdict(heard[i].reply) = "next" \/ (i = Len(heard) /\ ruling.kind = O!verdict(heard[i].reply))
    /\ ruling.kind = "answered" =>
          /\ heard # <<>> /\ O!verdict(heard[Len(heard)].reply) = "answered"
          /\ ruling.routed = O!route_answers(heard[Len(heard)].reply.body, request.min_confidence)
    /\ ruling.kind = "degraded" => request.degrade
    /\ request # O!Unasked /\ request.valid =>
          LET all == O!candidates(request)
              answering == IF ruling.kind = "answered" THEN <<ruling.by>> ELSE <<>>
          IN  IF ruling.kind \in {"answered", "rejected"}
              THEN skipped \o answering = SubSeq(all, 1, Len(skipped \o answering))
              ELSE skipped \o left = all

LEMMA DecideSafe == ASSUME O!OutwardAssumption, DecideInv PROVE O!AnswerIsTheFirst
<1> SUFFICES ASSUME request # O!Unasked, request.valid
             PROVE  /\ \A i \in DOMAIN heard :
                          heard[i].reply.status \in {400, 413, 422} /\ heard[i].reply.body \notin {"cut", "huge"} =>
                             ruling.kind = "rejected" /\ i = Len(heard)
                    /\ ruling.kind = "answered" =>
                          /\ O!verdict(heard[Len(heard)].reply) = "answered"
                          /\ \A i \in 1 .. Len(heard) - 1 : ~(O!verdict(heard[i].reply) = "answered")
                          /\ \A id \in DOMAIN ruling.routed :
                                ruling.routed[id] # "uncertain" =>
                                   O!confidence(Body[heard[Len(heard)].reply.body][id]) >= request.min_confidence
  BY Zenon DEF O!AnswerIsTheFirst, DecideInv
<1>0. heard \in Seq([by : DOMAIN providers, reply : O!Reply]) /\ DOMAIN heard = 1 .. Len(heard)
  BY DEF DecideInv
<1>1. ASSUME NEW i \in DOMAIN heard, heard[i].reply.status \in {400, 413, 422}, heard[i].reply.body \notin {"cut", "huge"}
      PROVE  ruling.kind = "rejected" /\ i = Len(heard)
  <2>1. O!verdict(heard[i].reply) = "rejected"
    BY <1>1, Verdicts
  <2>2. QED
    BY <2>1 DEF DecideInv
<1>2. ASSUME ruling.kind = "answered", NEW i \in 1 .. Len(heard) - 1
      PROVE  O!verdict(heard[i].reply) # "answered"
  <2>1. i \in DOMAIN heard /\ i # Len(heard)
    <3>1. \A n \in Nat : i \in 1 .. n - 1 => i \in 1 .. n /\ i # n
      OBVIOUS
    <3>2. Len(heard) \in Nat
      BY <1>0
    <3>3. QED
      BY <1>0, <3>1, <3>2
  <2>2. QED
    BY <2>1 DEF DecideInv
<1>3. ASSUME ruling.kind = "answered", NEW id \in DOMAIN ruling.routed, ruling.routed[id] # "uncertain"
      PROVE  O!confidence(Body[heard[Len(heard)].reply.body][id]) >= request.min_confidence
  <2> DEFINE b == heard[Len(heard)].reply.body
             answer == Body[b][id]
  <2>1. b \in DOMAIN Body /\ ruling.routed = O!route_answers(b, request.min_confidence)
    BY <1>3, Verdicts DEF DecideInv
  <2>2. id \in DOMAIN Body[b] /\ ~(O!confidence(answer) < request.min_confidence)
    <3> HIDE DEF b
    <3>1. id \in DOMAIN Body[b]
      BY <2>1 DEF O!route_answers
    <3>2. QED
      BY <1>3, <2>1, <3>1 DEF O!route_answers
  <2>3. answer.number \in Int
    BY <2>1, <2>2 DEF O!OutwardAssumption
  <2>4. O!confidence(answer) \in Int
    <3> HIDE DEF answer
    <3>1. QED
      BY <2>3 DEF O!confidence
  <2>5. request.min_confidence \in Int
    BY DEF DecideInv, O!OutwardAssumption, O!Unasked
  <2> HIDE DEF b, answer
  <2>6. QED
    BY <2>2, <2>4, <2>5 DEF answer, b
<1>4. QED
  BY <1>1, <1>2, <1>3 DEF DecideInv

LEMMA InitDecide == ASSUME O!DecideInit PROVE DecideInv
<1>1. O!Pending.kind = O!None
  BY DEF O!Pending, O!Ended
<1>2. QED
  BY <1>1 DEF O!DecideInit, DecideInv, O!None

\* A candidate is passed over: who failed first is behind, and nobody has ruled.
LEMMA SkipKeeps ==
    ASSUME DecideInv, left # <<>>, O!skips(Head(left)), UNCHANGED <<providers, request>>,
           \/ UNCHANGED heard
           \/ \E reply \in O!Reply : /\ heard' = Append(heard, [by |-> Head(left), reply |-> reply])
                                     /\ O!verdict(reply) = "next" /\ providers[Head(left)].key # "unset"
    PROVE  DecideInv'
<1> DEFINE P == DOMAIN providers
           R == [by : P, reply : O!Reply]
<1>1. /\ left \in Seq(P) /\ skipped \in Seq(P) /\ heard \in Seq(R) /\ ruling = O!Pending /\ request.valid /\ request # O!Unasked
      /\ request \in Question \cup {O!Unasked} /\ providers \in DecisionList
  BY DEF DecideInv
<1>2. O!Pending.kind = "none"
  BY DEF O!Pending, O!Ended, O!None
<1>3. /\ skipped' \in Seq(P) /\ left' \in Seq(P) /\ skipped' \o left' = skipped \o left
      /\ Head(left) \in P
  BY <1>1, MovesOver DEF O!skips
<1>4. /\ ruling' \in {O!Pending, O!nobody_answered(request)}
      /\ left' # <<>> => ruling' = O!Pending
  BY DEF O!skips
<1>5. /\ O!nobody_answered(request).kind \in {"degraded", "unconfigured", "failed"}
      /\ O!nobody_answered(request).kind = "degraded" => request.degrade
  BY DEF O!nobody_answered, O!Ended
<1>6. /\ ruling'.kind \in {"none", "degraded", "unconfigured", "failed"}
      /\ ruling'.kind = "degraded" => request.degrade
  BY <1>2, <1>4, <1>5
<1>7. \A i \in DOMAIN heard : providers[heard[i].by].key # "unset" /\ O!verdict(heard[i].reply) = "next"
  BY <1>1, <1>2, Verdicts DEF DecideInv
<1>8. heard' \in Seq(R) /\ \A i \in DOMAIN heard' : providers[heard'[i].by].key # "unset" /\ O!verdict(heard'[i].reply) = "next"
  <2>1. CASE UNCHANGED heard
    BY <1>1, <1>7, <2>1
  <2>2. ASSUME NEW reply \in O!Reply, heard' = Append(heard, [by |-> Head(left), reply |-> reply]),
               O!verdict(reply) = "next", providers[Head(left)].key # "unset"
        PROVE  heard' \in Seq(R) /\ \A i \in DOMAIN heard' : providers[heard'[i].by].key # "unset" /\ O!verdict(heard'[i].reply) = "next"
    <3> DEFINE x == [by |-> Head(left), reply |-> reply]
    <3>1. x \in R /\ x.by = Head(left) /\ x.reply = reply
      BY <1>3
    <3> HIDE DEF x, R
    <3>2. /\ heard' \in Seq(R) /\ DOMAIN heard' = 1 .. Len(heard) + 1 /\ DOMAIN heard = 1 .. Len(heard)
          /\ heard'[Len(heard) + 1] = x /\ \A i \in 1 .. Len(heard) : heard'[i] = heard[i]
      BY <1>1, <2>2, <3>1 DEF x
    <3>3. \A i \in DOMAIN heard' : i \in DOMAIN heard \/ i = Len(heard) + 1
      <4>1. Len(heard) \in Nat
        BY <1>1
      <4>2. QED
        BY <3>2, <4>1
    <3>4. QED
      BY <1>7, <2>2, <3>1, <3>2, <3>3
  <2>3. QED
    BY <2>1, <2>2
<1>9. skipped \o left = O!candidates(request)
  BY <1>1, <1>2 DEF DecideInv
<1>10. O!candidates(request)' = O!candidates(request)
  BY DEF O!candidates
<1> HIDE DEF P, R
<1>11. QED
  <2>1. /\ left' \in Seq(DOMAIN providers') /\ skipped' \in Seq(DOMAIN providers')
        /\ heard' \in Seq([by : DOMAIN providers', reply : O!Reply])
    BY <1>3, <1>8 DEF P, R
  <2>2. ruling'.kind \notin {"answered", "rejected"} /\ skipped' \o left' = O!candidates(request)'
    BY <1>3, <1>6, <1>9, <1>10
  <2>3. QED
    BY <1>1, <1>4, <1>6, <1>8, <2>1, <2>2 DEF DecideInv

\* The last reply ends the call: with an answer or with an error.
LEMMA EndKeeps ==
    ASSUME DecideInv, left # <<>>, UNCHANGED <<providers, request>>, left' = <<>>,
           NEW reply \in O!Reply, heard' = Append(heard, [by |-> Head(left), reply |-> reply]),
           providers[Head(left)].key # "unset",
           \/ /\ O!verdict(reply) = "rejected" /\ skipped' = Append(skipped, Head(left))
              /\ ruling' = O!Ended("rejected", Head(left), <<>>)
           \/ /\ O!verdict(reply) = "answered" /\ skipped' = skipped
              /\ ruling' = O!Ended("answered", Head(left), O!route_answers(reply.body, request.min_confidence))
    PROVE  DecideInv'
<1> DEFINE P == DOMAIN providers
           R == [by : P, reply : O!Reply]
           x == [by |-> Head(left), reply |-> reply]
           all == O!candidates(request)
<1>1. /\ left \in Seq(P) /\ skipped \in Seq(P) /\ heard \in Seq(R) /\ ruling = O!Pending /\ request.valid /\ request # O!Unasked
      /\ request \in Question \cup {O!Unasked} /\ providers \in DecisionList
  BY DEF DecideInv
<1>2. O!Pending.kind = "none"
  BY DEF O!Pending, O!Ended, O!None
<1>3. /\ Head(left) \in P /\ Append(skipped, Head(left)) \in Seq(P)
      /\ Len(Append(skipped, Head(left))) = Len(skipped) + 1 /\ Len(skipped \o <<Head(left)>>) = Len(skipped) + 1
      /\ Append(skipped, Head(left)) = SubSeq(skipped \o left, 1, Len(skipped) + 1)
      /\ skipped \o <<Head(left)>> = SubSeq(skipped \o left, 1, Len(skipped) + 1)
  BY <1>1, MovesOver
<1>4. skipped \o left = all
  BY <1>1, <1>2 DEF DecideInv
<1>5. ruling'.kind = O!verdict(reply) /\ ruling'.kind \in {"rejected", "answered"} /\ ruling'.by = Head(left)
  BY DEF O!Ended
<1>6. \A i \in DOMAIN heard : providers[heard[i].by].key # "unset" /\ O!verdict(heard[i].reply) = "next"
  BY <1>1, <1>2, Verdicts DEF DecideInv
<1>7. x \in R /\ x.by = Head(left) /\ x.reply = reply
  BY <1>3
<1> HIDE DEF x, R, P
<1>8. /\ heard' \in Seq(R) /\ Len(heard') = Len(heard) + 1 /\ heard'[Len(heard')] = x /\ heard' # <<>>
      /\ \A i \in DOMAIN heard' : i = Len(heard') \/ (i \in DOMAIN heard /\ heard'[i] = heard[i])
  BY <1>1, <1>7 DEF x
<1>9. \A i \in DOMAIN heard' :
         /\ providers[heard'[i].by].key # "unset"
         /\ O!verdict(heard'[i].reply) = "next" \/ (i = Len(heard') /\ ruling'.kind = O!verdict(heard'[i].reply))
  BY <1>5, <1>6, <1>7, <1>8
<1>10. ruling'.kind = "answered" =>
          /\ O!verdict(heard'[Len(heard')].reply) = "answered"
          /\ ruling'.routed = O!route_answers(heard'[Len(heard')].reply.body, request.min_confidence)
  <2> SUFFICES ASSUME ruling'.kind = "answered"
               PROVE  O!verdict(reply) = "answered" /\ ruling'.routed = O!route_answers(reply.body, request.min_confidence)
    BY <1>7, <1>8
  <2>1. O!verdict(reply) = "answered"
    BY <1>5
  <2>2. QED
    BY <2>1 DEF O!Ended
<1>11. all' = all
  BY DEF O!candidates
<1>12. skipped' \in Seq(P)
  BY <1>1, <1>3
<1>13. LET answering == IF ruling'.kind = "answered" THEN <<ruling'.by>> ELSE <<>>
       IN  skipped' \o answering = SubSeq(all, 1, Len(skipped' \o answering))
  <2>1. CASE ruling'.kind = "answered"
    <3>1. skipped' = skipped /\ ruling'.by = Head(left)
      BY <1>5, <2>1 DEF O!Ended
    <3>2. QED
      BY <1>3, <1>4, <2>1, <3>1
  <2>2. CASE ruling'.kind # "answered"
    <3>1. skipped' = Append(skipped, Head(left))
      BY <1>5, <2>2 DEF O!Ended
    <3>2. skipped' \o <<>> = skipped'
      BY <1>12
    <3>3. QED
      BY <1>3, <1>4, <2>2, <3>1, <3>2
  <2>3. QED
    BY <2>1, <2>2
<1> HIDE DEF all
<1>14. QED
  <2>1. /\ left' \in Seq(DOMAIN providers') /\ skipped' \in Seq(DOMAIN providers')
        /\ heard' \in Seq([by : DOMAIN providers', reply : O!Reply])
    BY <1>8, <1>12 DEF P, R
  <2>2. LET answering == IF ruling'.kind = "answered" THEN <<ruling'.by>> ELSE <<>>
        IN  skipped' \o answering = SubSeq(O!candidates(request)', 1, Len(skipped' \o answering))
    BY <1>11, <1>13 DEF all
  <2>3. ruling'.kind # "degraded" /\ ruling'.kind \in {"answered", "rejected"}
    BY <1>5
  <2>4. QED
    BY <1>1, <1>8, <1>9, <1>10, <2>1, <2>2, <2>3 DEF DecideInv

LEMMA AskKeeps == ASSUME O!OutwardAssumption, DecideInv, NEW r \in Question, O!ask(r) PROVE DecideInv'
<1>1. request = O!Unasked
  <2>1. \A q \in Question : q.provider # "unasked"
    BY DEF O!OutwardAssumption
  <2>2. QED
    BY <2>1 DEF DecideInv, O!ask
<1>2. left = <<>> /\ skipped = <<>> /\ heard = <<>>
  BY <1>1 DEF DecideInv
<1>3. request' = r /\ r # O!Unasked /\ UNCHANGED <<providers, skipped, heard>> /\ providers \in DecisionList
  BY DEF O!ask, O!OutwardAssumption, O!Unasked, DecideInv
<1>4. PICK T : providers \in Seq(T)
  BY <1>3 DEF O!OutwardAssumption
<1>5. O!candidates(r) \in Seq(DOMAIN providers)
  BY <1>4, CandidatesAreProviders
<1>6. r.provider = O!None /\ providers = <<>> => O!candidates(r) = <<>>
  BY DEF O!candidates
<1>7. /\ O!Pending.kind = "none"
      /\ O!nobody_answered(r).kind \in {"degraded", "unconfigured", "failed"}
      /\ O!nobody_answered(r).kind = "degraded" => r.degrade
  BY DEF O!nobody_answered, O!Ended, O!Pending, O!None
<1>8. /\ ruling'.kind \in {"bad arguments", "unknown provider", "degraded", "unconfigured", "failed", "none"}
      /\ ruling'.kind = "degraded" => r.degrade
  BY <1>7 DEF O!ask, O!Ended
<1>9. left' = IF r.valid THEN O!candidates(r) ELSE <<>>
  BY DEF O!ask
<1>10. left' # <<>> => ruling' = O!Pending /\ r.valid
  BY <1>6, <1>9 DEF O!ask
<1>11. left' \in Seq(DOMAIN providers)
  <2>1. <<>> \in Seq(DOMAIN providers)
    OBVIOUS
  <2>2. QED
    BY <1>5, <1>9, <2>1
<1>12. O!candidates(request)' = O!candidates(r)
  BY <1>3 DEF O!candidates
<1>13. r.valid => skipped' \o left' = O!candidates(r)
  BY <1>2, <1>3, <1>5, <1>9
<1>14. /\ skipped' = <<>> /\ heard' = <<>> /\ request' \in Question /\ request' = r /\ providers' = providers
       /\ \A Z : <<>> \in Seq(Z)
  BY <1>2, <1>3
<1>15. ruling'.kind \notin {"answered", "rejected"}
  BY <1>8
<1>16. QED
  <2>1. /\ left' \in Seq(DOMAIN providers') /\ skipped' \in Seq(DOMAIN providers')
        /\ heard' \in Seq([by : DOMAIN providers', reply : O!Reply])
    BY <1>11, <1>14
  <2>2. DOMAIN heard' = {}
    BY <1>14
  <2>3. request'.valid => skipped' \o left' = O!candidates(request)'
    BY <1>12, <1>13, <1>14
  <2>4. /\ request' \in Question \cup {O!Unasked} /\ request' # O!Unasked /\ providers' \in DecisionList
        /\ left' # <<>> => ruling' = O!Pending /\ request'.valid
        /\ ruling'.kind = "degraded" => request'.degrade
    BY <1>3, <1>8, <1>10, <1>14
  <2>5. QED
    BY <1>15, <2>1, <2>2, <2>3, <2>4 DEF DecideInv

LEMMA DecideSteps ==
    ASSUME O!OutwardAssumption, DecideInv, O!PrivateNeedsOptIn, O!DecideNext
    PROVE  DecideInv' /\ O!PrivateNeedsOptIn'
<1>1. ASSUME NEW r \in Question, O!ask(r) PROVE DecideInv' /\ UNCHANGED contact
  BY <1>1, AskKeeps DEF O!ask
<1>2. ASSUME O!passed_over PROVE DecideInv' /\ UNCHANGED contact
  BY <1>2, SkipKeeps DEF O!passed_over
<1>3. ASSUME O!asked PROVE DecideInv' /\ O!PrivateNeedsOptIn'
  <2> DEFINE i == Head(left)
  <2>1. left # <<>> /\ providers[i].key # "unset" /\ UNCHANGED <<providers, request>>
    BY <1>3 DEF O!asked, O!unavailable
  <2>2. O!passes_gate(providers[i].endpoint, providers[i].allow)
        /\ contact' \in O!Contacted(providers[i].endpoint, providers[i].allow, O!NoHint)
    BY <1>3 DEF O!asked
  <2>3. i \in DOMAIN providers
    BY <2>1, MovesOver DEF DecideInv
  <2>4. providers[i].endpoint \in O!Endpoint
    <3>1. providers \in Seq([name : STRING, key : {"set", "unset", "none"}, endpoint : O!Endpoint, allow : BOOLEAN])
      BY DEF DecideInv, O!OutwardAssumption
    <3>2. \A Z : providers \in Seq(Z) => providers[i] \in Z
      BY <2>3
    <3>3. providers[i] \in [name : STRING, key : {"set", "unset", "none"}, endpoint : O!Endpoint, allow : BOOLEAN]
      BY <3>1, <3>2, Zenon
    <3>4. QED
      BY <3>3
  <2>5. O!PrivateNeedsOptIn'
    BY <2>2, <2>4, ContactAllowed
  <2>6. CASE O!skips(i) /\ UNCHANGED heard
    BY <2>1, <2>5, <2>6, SkipKeeps
  <2>7. ASSUME NEW reply \in O!Reply, heard' = Append(heard, [by |-> i, reply |-> reply]),
               \/ O!verdict(reply) = "next" /\ O!skips(i)
               \/ /\ O!verdict(reply) = "rejected" /\ left' = <<>>
                  /\ skipped' = Append(skipped, i) /\ ruling' = O!Ended("rejected", i, <<>>)
               \/ /\ O!verdict(reply) = "answered" /\ left' = <<>> /\ UNCHANGED skipped
                  /\ ruling' = O!Ended("answered", i, O!route_answers(reply.body, request.min_confidence))
        PROVE  DecideInv'
    <3>1. CASE O!verdict(reply) = "next" /\ O!skips(i)
      BY <2>1, <2>7, <3>1, SkipKeeps
    <3>2. CASE \/ /\ O!verdict(reply) = "rejected" /\ left' = <<>>
                  /\ skipped' = Append(skipped, i) /\ ruling' = O!Ended("rejected", i, <<>>)
               \/ /\ O!verdict(reply) = "answered" /\ left' = <<>> /\ UNCHANGED skipped
                  /\ ruling' = O!Ended("answered", i, O!route_answers(reply.body, request.min_confidence))
      BY <2>1, <2>7, <3>2, EndKeeps
    <3>3. QED
      BY <2>7, <3>1, <3>2
  <2>8. QED
    BY <1>3, <2>5, <2>6, <2>7 DEF O!asked
<1>4. ASSUME UNCHANGED contact PROVE O!PrivateNeedsOptIn'
  BY <1>4 DEF O!PrivateNeedsOptIn
<1>5. QED
  BY <1>1, <1>2, <1>3, <1>4 DEF O!DecideNext
-----------------------------------------------------------------------------
(* OutwardCalls: completions behind the response cache *)

AnswerType == {O!NoAnswer, O!Failed} \cup {O!Said(t, m) : t \in Wording, m \in ModelId}
Requests   == {q.id : q \in Completion}
WorkerType == [at : {"rest", "sending", "storing"}, provider : DOMAIN Remote \cup {O!None},
               request : Requests \cup {O!None}, sends : Nat, answer : AnswerType]
CacheRow   == [key : (DOMAIN Remote) \X Completion, text : Wording, model : ModelId]

\* Who sends has passed the gate; what a worker answers, is about to store or has
\* stored was produced by the provider for the request that it stands for.
CompletionInv ==
    /\ worker \in [Worker -> WorkerType] /\ model_of \in [DOMAIN Remote -> ModelId]
    /\ cache \subseteq CacheRow
    /\ \A w \in Worker : worker[w].at # "rest" =>
          worker[w].provider \in DOMAIN Remote /\ worker[w].request \in Requests
    /\ \A w \in Worker : worker[w].at = "sending" =>
          O!passes_gate(Remote[worker[w].provider].endpoint, Remote[worker[w].provider].allow)
    /\ \A w \in Worker : worker[w].at = "storing" => worker[w].answer.kind = "text"
    /\ \A w \in Worker : worker[w].answer.kind = "text" =>
          <<worker[w].provider, worker[w].request, worker[w].answer.text, worker[w].answer.model>> \in produced
    /\ \A row \in cache : <<row.key[1], row.key[2].id, row.text, row.model>> \in produced

LEMMA AnswerKinds ==
    /\ O!NoAnswer \in AnswerType /\ O!NoAnswer.kind # "text"
    /\ O!Failed \in AnswerType /\ O!Failed.kind # "text"
    /\ \A t \in Wording, m \in ModelId :
          /\ O!Said(t, m) \in AnswerType
          /\ O!Said(t, m).kind = "text" /\ O!Said(t, m).text = t /\ O!Said(t, m).model = m
    /\ \A a \in AnswerType : a.kind = "text" => a.text \in Wording /\ a.model \in ModelId /\ a = O!Said(a.text, a.model)
<1>1. O!Failed = [kind |-> "error", text |-> O!None, model |-> O!None]
  BY DEF O!Failed, O!NoAnswer
<1>2. O!NoAnswer.kind # "text" /\ O!Failed.kind # "text"
  BY <1>1 DEF O!NoAnswer, O!None
<1>3. QED
  BY <1>2 DEF AnswerType, O!Said

\* A worker that is given a new state of that type.
LEMMA WorkerMoves ==
    ASSUME CompletionInv, NEW w \in Worker, NEW v \in WorkerType,
           worker' = [worker EXCEPT ![w] = v], UNCHANGED <<model_of, cache>>, produced \subseteq produced',
           v.at # "rest" => v.provider \in DOMAIN Remote /\ v.request \in Requests,
           v.at = "sending" => O!passes_gate(Remote[v.provider].endpoint, Remote[v.provider].allow),
           v.at = "storing" => v.answer.kind = "text",
           v.answer.kind = "text" => <<v.provider, v.request, v.answer.text, v.answer.model>> \in produced'
    PROVE  CompletionInv'
<1>1. worker' \in [Worker -> WorkerType] /\ worker'[w] = v /\ \A x \in Worker \ {w} : worker'[x] = worker[x]
  BY DEF CompletionInv
<1>2. QED
  BY <1>1 DEF CompletionInv

LEMMA InitCompletions == ASSUME O!ModelInit PROVE CompletionInv
<1>1. O!Resting(O!NoAnswer) \in WorkerType
  BY AnswerKinds DEF O!Resting, WorkerType
<1>2. O!Resting(O!NoAnswer).at = "rest" /\ O!Resting(O!NoAnswer).answer = O!NoAnswer
  BY DEF O!Resting
<1>3. QED
  BY <1>1, <1>2, AnswerKinds DEF O!ModelInit, CompletionInv

LEMMA CallsKeeps == ASSUME CompletionInv, NEW w \in Worker, O!calls(w) PROVE CompletionInv'
<1>1. UNCHANGED <<model_of, cache, produced>>
  BY DEF O!calls
<1>2. PICK p \in DOMAIN Remote, q \in Completion :
        \/ \E row \in O!get(p, q) : caching /\ worker' = [worker EXCEPT ![w] =
              [at |-> "rest", provider |-> p, request |-> q.id, sends |-> 0, answer |-> O!Said(row.text, row.model)]]
        \/ worker' = [worker EXCEPT ![w] =
              IF O!passes_gate(Remote[p].endpoint, Remote[p].allow)
              THEN [at |-> "sending", provider |-> p, request |-> q.id, sends |-> 0, answer |-> O!NoAnswer]
              ELSE O!Resting(O!Failed)]
  BY DEF O!calls
<1>3. ASSUME NEW row \in O!get(p, q),
             worker' = [worker EXCEPT ![w] =
                [at |-> "rest", provider |-> p, request |-> q.id, sends |-> 0, answer |-> O!Said(row.text, row.model)]]
      PROVE  CompletionInv'
  <2>1. row \in cache /\ row.key = <<p, q>> /\ row.text \in Wording /\ row.model \in ModelId
    BY <1>3 DEF O!get, O!cache_key, CompletionInv, CacheRow
  <2>2. <<p, q.id, row.text, row.model>> \in produced
    BY <2>1 DEF CompletionInv
  <2> DEFINE v == [at |-> "rest", provider |-> p, request |-> q.id, sends |-> 0, answer |-> O!Said(row.text, row.model)]
  <2>3. worker' = [worker EXCEPT ![w] = v]
    BY <1>3
  <2>4. v \in WorkerType
    BY <2>1, AnswerKinds DEF WorkerType, Requests
  <2>5. v.at = "rest" /\ v.answer.text = row.text /\ v.answer.model = row.model /\ v.provider = p /\ v.request = q.id
    BY <2>1, AnswerKinds
  <2> HIDE DEF v
  <2>6. QED
    BY <1>1, <2>2, <2>3, <2>4, <2>5, WorkerMoves
<1>4. ASSUME O!passes_gate(Remote[p].endpoint, Remote[p].allow),
             worker' = [worker EXCEPT ![w] =
                [at |-> "sending", provider |-> p, request |-> q.id, sends |-> 0, answer |-> O!NoAnswer]]
      PROVE  CompletionInv'
  <2> DEFINE v == [at |-> "sending", provider |-> p, request |-> q.id, sends |-> 0, answer |-> O!NoAnswer]
  <2>1. v \in WorkerType
    BY AnswerKinds DEF WorkerType, Requests
  <2>2. v.at = "sending" /\ v.answer.kind # "text" /\ v.provider = p /\ v.request \in Requests
    BY AnswerKinds DEF Requests
  <2>3. worker' = [worker EXCEPT ![w] = v]
    BY <1>4
  <2> HIDE DEF v
  <2>4. QED
    BY <1>1, <1>4, <2>1, <2>2, <2>3, WorkerMoves
<1>5. ASSUME worker' = [worker EXCEPT ![w] = O!Resting(O!Failed)] PROVE CompletionInv'
  <2>1. O!Resting(O!Failed) \in WorkerType
    BY AnswerKinds DEF WorkerType, O!Resting
  <2>2. O!Resting(O!Failed).at = "rest" /\ O!Resting(O!Failed).answer.kind # "text"
    BY AnswerKinds DEF O!Resting
  <2>3. QED
    BY <1>1, <1>5, <2>1, <2>2, WorkerMoves
<1>6. QED
  BY <1>2, <1>3, <1>4, <1>5

LEMMA SendsKeeps == ASSUME CompletionInv, NEW w \in Worker, O!sends(w) PROVE CompletionInv'
<1> DEFINE v == worker[w]
<1>1. /\ UNCHANGED <<model_of, cache>> /\ v.at = "sending" /\ v \in WorkerType
      /\ v.provider \in DOMAIN Remote /\ v.request \in Requests
      /\ O!passes_gate(Remote[v.provider].endpoint, Remote[v.provider].allow)
      /\ v.answer \in AnswerType /\ v.sends \in Nat
  BY DEF O!sends, CompletionInv, WorkerType
<1>2. CASE worker' = [worker EXCEPT ![w].sends = @ + 1] /\ UNCHANGED produced
  <2> DEFINE u == [v EXCEPT !.sends = @ + 1]
  <2>1. worker' = [worker EXCEPT ![w] = u]
    BY <1>2 DEF CompletionInv
  <2>2. u \in WorkerType /\ u.at = v.at /\ u.provider = v.provider /\ u.request = v.request /\ u.answer = v.answer
    BY <1>1 DEF WorkerType
  <2>3. v.answer.kind = "text" => <<v.provider, v.request, v.answer.text, v.answer.model>> \in produced
    BY DEF CompletionInv
  <2> HIDE DEF u
  <2>4. QED
    BY <1>1, <1>2, <2>1, <2>2, <2>3, WorkerMoves
<1>3. CASE O!ends(w, O!Failed) /\ UNCHANGED produced
  <2> DEFINE u == [v EXCEPT !.at = "rest", !.answer = O!Failed]
  <2>1. worker' = [worker EXCEPT ![w] = u]
    BY <1>3 DEF O!ends
  <2>2. u \in WorkerType /\ u.at = "rest" /\ u.answer = O!Failed
    BY <1>1, AnswerKinds DEF WorkerType
  <2> HIDE DEF u
  <2>3. QED
    BY <1>1, <1>3, <2>1, <2>2, AnswerKinds, WorkerMoves
<1>4. ASSUME NEW text \in Wording,
             produced' = produced \cup {<<v.provider, v.request, text, model_of[v.provider]>>},
             worker' = [worker EXCEPT ![w] = [@ EXCEPT !.at = IF caching THEN "storing" ELSE "rest",
                                                      !.answer = O!Said(text, model_of[v.provider])]]
      PROVE  CompletionInv'
  <2> DEFINE said == O!Said(text, model_of[v.provider])
             u == [v EXCEPT !.at = IF caching THEN "storing" ELSE "rest", !.answer = said]
  <2>1. worker' = [worker EXCEPT ![w] = u]
    BY <1>4
  <2>2. model_of[v.provider] \in ModelId
    BY <1>1 DEF CompletionInv
  <2>3. said \in AnswerType /\ said.kind = "text" /\ said.text = text /\ said.model = model_of[v.provider]
    BY <2>2, AnswerKinds
  <2> HIDE DEF said
  <2>4. /\ u \in WorkerType /\ u.at \in {"storing", "rest"} /\ u.answer = said
        /\ u.provider = v.provider /\ u.request = v.request
    BY <1>1, <2>3 DEF WorkerType
  <2> HIDE DEF u
  <2>5. <<u.provider, u.request, u.answer.text, u.answer.model>> \in produced'
    BY <1>4, <2>3, <2>4
  <2>6. produced \subseteq produced' /\ u.at # "sending"
    BY <1>4, <2>4
  <2>7. QED
    BY <1>1, <2>1, <2>3, <2>4, <2>5, <2>6, WorkerMoves
<1>5. QED
  BY <1>2, <1>3, <1>4 DEF O!sends

LEMMA StoresKeeps == ASSUME CompletionInv, NEW w \in Worker, O!stores(w) PROVE CompletionInv'
<1> DEFINE v == worker[w]
           u == [v EXCEPT !.at = "rest", !.answer = v.answer]
<1>1. /\ UNCHANGED <<model_of, produced>> /\ v.at = "storing" /\ v \in WorkerType
      /\ v.provider \in DOMAIN Remote /\ v.request \in Requests /\ v.answer \in AnswerType
      /\ v.answer.kind = "text" /\ <<v.provider, v.request, v.answer.text, v.answer.model>> \in produced
  BY DEF O!stores, CompletionInv, WorkerType
<1>2. worker' = [worker EXCEPT ![w] = u]
  BY DEF O!stores, O!ends
<1>3. /\ u \in WorkerType /\ u.at = "rest" /\ u.answer = v.answer
      /\ u.provider = v.provider /\ u.request = v.request
  BY <1>1 DEF WorkerType
<1> HIDE DEF u
<1>4. worker' \in [Worker -> WorkerType] /\ worker'[w] = u /\ \A x \in Worker \ {w} : worker'[x] = worker[x]
  BY <1>2, <1>3 DEF CompletionInv
<1>5. \A row \in cache' : row \in CacheRow /\ <<row.key[1], row.key[2].id, row.text, row.model>> \in produced
  <2>1. CASE O!put(w)
    <3>1. O!Asked(w) \in Completion /\ O!Asked(w).id = v.request
      BY <1>1 DEF O!Asked, Requests
    <3> DEFINE new == [key |-> <<v.provider, O!Asked(w)>>, text |-> v.answer.text, model |-> v.answer.model]
    <3>2. cache' \subseteq cache \cup {new}
      BY <2>1 DEF O!put, O!cache_key
    <3>3. new \in CacheRow
      <4>1. v.answer.text \in Wording /\ v.answer.model \in ModelId
        BY <1>1, AnswerKinds
      <4>2. <<v.provider, O!Asked(w)>> \in (DOMAIN Remote) \X Completion
        BY <1>1, <3>1
      <4>3. QED
        BY <4>1, <4>2 DEF CacheRow
    <3>4. new.key[1] = v.provider /\ new.key[2] = O!Asked(w) /\ new.text = v.answer.text /\ new.model = v.answer.model
      OBVIOUS
    <3> HIDE DEF new
    <3>5. QED
      BY <1>1, <3>1, <3>2, <3>3, <3>4 DEF CompletionInv
  <2>2. CASE UNCHANGED cache
    BY <2>2 DEF CompletionInv
  <2>3. QED
    BY <2>1, <2>2 DEF O!stores
<1>6. QED
  BY <1>1, <1>3, <1>4, <1>5 DEF CompletionInv

LEMMA RestartKeeps == ASSUME CompletionInv, O!restarted PROVE CompletionInv'
<1>1. O!Resting(O!NoAnswer) \in WorkerType
  BY AnswerKinds DEF O!Resting, WorkerType
<1>2. O!Resting(O!NoAnswer).at = "rest" /\ O!Resting(O!NoAnswer).answer = O!NoAnswer
  BY DEF O!Resting
<1>3. QED
  BY <1>1, <1>2, AnswerKinds DEF O!restarted, CompletionInv

LEMMA ModelSteps ==
    ASSUME O!OutwardAssumption, CompletionInv, O!PrivateNeedsOptIn, O!ModelNext
    PROVE  CompletionInv' /\ O!PrivateNeedsOptIn'
<1>1. CompletionInv'
  BY CallsKeeps, SendsKeeps, StoresKeeps, RestartKeeps DEF O!ModelNext
<1>2. ASSUME NEW w \in Worker, O!sends(w) PROVE O!PrivateNeedsOptIn'
  <2> DEFINE p == worker[w].provider
  <2>1. p \in DOMAIN Remote /\ O!passes_gate(Remote[p].endpoint, Remote[p].allow)
    BY <1>2 DEF O!sends, CompletionInv
  <2>2. Remote[p].endpoint \in O!Endpoint
    BY <2>1 DEF O!OutwardAssumption
  <2>3. contact' \in O!Contacted(Remote[p].endpoint, Remote[p].allow, O!hints(p, O!Asked(w)))
    BY <1>2 DEF O!sends
  <2>4. QED
    BY <2>1, <2>2, <2>3, ContactAllowed
<1>3. CASE UNCHANGED contact \/ contact' = {}
  BY <1>1, <1>3 DEF O!PrivateNeedsOptIn
<1>4. QED
  BY <1>1, <1>2, <1>3 DEF O!ModelNext, O!calls, O!stores, O!restarted
-----------------------------------------------------------------------------
(* OutwardCalls: the vector store *)

LEMMA StoreCardinality == ASSUME NEW E PROVE O!Cardinality(E) = Cardinality(E) /\ (O!IsFiniteSet(E) <=> IsFiniteSet(E))
BY Zenon DEF Cardinality, O!Cardinality, IsFiniteSet, O!IsFiniteSet

\* A list of as many different members as there are misses none.
LEMMA Enumerates ==
    ASSUME NEW H, IsFiniteSet(H), NEW f \in [1 .. Cardinality(H) -> H],
           \A i, j \in 1 .. Cardinality(H) : i < j => f[i] # f[j]
    PROVE  /\ Cardinality(H) \in Nat
           /\ \A i, j \in 1 .. Cardinality(H) : i # j => f[i] # f[j]
           /\ \A h \in H : \E i \in 1 .. Cardinality(H) : f[i] = h
<1> DEFINE n == Cardinality(H)
<1>1. n \in Nat
  BY FS_CardinalityType
<1> HIDE DEF n
<1>2. \A i, j \in 1 .. n : i # j => f[i] # f[j]
  BY <1>1 DEF n
<1>3. IsFiniteSet(1 .. n) /\ Cardinality(1 .. n) = n
  BY <1>1, FS_Interval
<1>4. f \in Injection(1 .. n, H)
  BY <1>2 DEF Injection, IsInjective, n
<1>5. f \in Surjection(1 .. n, H)
  BY <1>3, <1>4, FS_Injection DEF n
<1>6. QED
  BY <1>1, <1>2, <1>5 DEF Surjection, n

Increasing(l, Z) ==
    l \in [1 .. Cardinality(Z) -> Z] /\ \A i, j \in 1 .. Cardinality(Z) : i < j => l[i] < l[j]

\* A finite set of numbers can be listed in order: the least member first, then the rest.
LEMMA OrderExists == ASSUME NEW Z \in SUBSET Nat, IsFiniteSet(Z) PROVE \E l : Increasing(l, Z)
<1> DEFINE Listed(T) == \E l : Increasing(l, T)
           Bad == {n \in Nat : \E T \in SUBSET Nat : IsFiniteSet(T) /\ Cardinality(T) = n /\ ~Listed(T)}
<1>1. CASE Bad = {}
  BY <1>1, FS_CardinalityType
<1>2. CASE Bad # {}
  <2>1. PICK n \in Bad : \A m \in Bad : n <= m
    BY <1>2, LeastNumber
  <2>2. PICK T \in SUBSET Nat : IsFiniteSet(T) /\ Cardinality(T) = n /\ ~Listed(T)
    OBVIOUS
  <2>3. CASE T = {}
    <3>1. n = 0
      BY <2>2, <2>3, FS_EmptySet
    <3>2. Increasing([i \in 1 .. 0 |-> 0], T)
      BY <2>2, <2>3, <3>1 DEF Increasing
    <3>3. QED
      BY <2>2, <3>2
  <2>4. CASE T # {}
    <3>1. PICK x \in T : \A y \in T : x <= y
      BY <2>4, LeastNumber
    <3> DEFINE U == T \ {x}
    <3>2. IsFiniteSet(U) /\ Cardinality(U) = n - 1 /\ n \in Nat /\ n - 1 \in Nat
      <4>1. IsFiniteSet(U) /\ Cardinality(U) = n - 1
        BY <2>2, <3>1, FS_RemoveElement
      <4>2. QED
        BY <4>1, FS_CardinalityType
    <3>3. PICK l : Increasing(l, U)
      <4>1. n - 1 \notin Bad
        BY <2>1, <3>2
      <4>2. QED
        BY <3>2, <4>1
    <3> DEFINE k == [i \in 1 .. n |-> IF i = 1 THEN x ELSE l[i - 1]]
    <3>4. l \in [1 .. n - 1 -> U] /\ \A i, j \in 1 .. n - 1 : i < j => l[i] < l[j]
      BY <3>2, <3>3 DEF Increasing
    <3>5. \A i \in 1 .. n : i # 1 => i - 1 \in 1 .. n - 1
      BY <3>2
    <3>6. \A i \in 1 .. n : k[i] \in T /\ (i # 1 => k[i] = l[i - 1] /\ k[i] \in U) /\ (i = 1 => k[i] = x)
      BY <3>1, <3>4, <3>5
    <3>7. \A y \in U : x < y
      BY <3>1
    <3>8. k \in [1 .. n -> T]
      BY <3>6
    <3> HIDE DEF k, U
    <3>9. ASSUME NEW i \in 1 .. n, NEW j \in 1 .. n, i < j PROVE k[i] < k[j]
      <4>1. j # 1 /\ k[j] \in U /\ k[j] = l[j - 1] /\ j - 1 \in 1 .. n - 1
        BY <3>5, <3>6, <3>9
      <4>2. CASE i = 1
        BY <3>6, <3>7, <4>1, <4>2
      <4>3. CASE i # 1
        <5>1. i - 1 \in 1 .. n - 1 /\ i - 1 < j - 1 /\ k[i] = l[i - 1]
          BY <3>5, <3>6, <3>9, <4>3
        <5>2. QED
          BY <3>4, <4>1, <5>1
      <4>4. QED
        BY <4>2, <4>3
    <3>10. Increasing(k, T)
      BY <2>2, <3>8, <3>9 DEF Increasing
    <3>11. QED
      BY <2>2, <3>10
  <2>5. QED
    BY <2>3, <2>4
<1>3. QED
  BY <1>1, <1>2

LEMMA OrderedIds ==
    ASSUME NEW ids \in SUBSET Nat, IsFiniteSet(ids)
    PROVE  LET l == O!in_order(ids)
               n == Cardinality(ids)
           IN  /\ n \in Nat /\ l \in [1 .. n -> ids] /\ l \in Seq(ids) /\ Len(l) = n
               /\ \A i, j \in 1 .. n : i < j => l[i] < l[j]
               /\ \A id \in ids : \E i \in 1 .. n : l[i] = id
<1> DEFINE l == O!in_order(ids)
           n == Cardinality(ids)
<1>1. n \in Nat
  BY FS_CardinalityType
<1>2. PICK k : Increasing(k, ids)
  BY OrderExists
<1>3. l = CHOOSE list \in [1 .. n -> ids] : \A i, j \in DOMAIN list : i < j => list[i] < list[j]
  BY StoreCardinality DEF O!in_order
<1>4. k \in [1 .. n -> ids] /\ \A i, j \in DOMAIN k : i < j => k[i] < k[j]
  BY <1>2 DEF Increasing
<1>5. l \in [1 .. n -> ids] /\ \A i, j \in DOMAIN l : i < j => l[i] < l[j]
  BY <1>3, <1>4, Zenon
<1>6. \A i, j \in 1 .. n : i < j => l[i] < l[j]
  BY <1>5
<1> HIDE DEF l
<1>7. \A i, j \in 1 .. n : i < j => l[i] # l[j]
  <2>1. \A i \in 1 .. n : l[i] \in Nat
    BY <1>5
  <2>2. QED
    BY <1>6, <2>1
<1>8. \A id \in ids : \E i \in 1 .. n : l[i] = id
  BY <1>5, <1>7, Enumerates
<1>9. l \in Seq(ids) /\ Len(l) = n
  <2> HIDE DEF n
  <2>1. QED
    BY <1>1, <1>5
<1>10. QED
  BY <1>1, <1>5, <1>6, <1>8, <1>9 DEF l

\* What a page leaves out comes after it.
LEMMA PageIsNext ==
    ASSUME NEW from, IsFiniteSet(FactId), FactId \in SUBSET Nat, Page \in Nat
    PROVE  /\ O!page_of(from) \subseteq O!rest_of(from) /\ O!rest_of(from) \subseteq FactId
           /\ IsFiniteSet(O!page_of(from))
           /\ \A id \in O!rest_of(from) \ O!page_of(from), a \in O!page_of(from) : a < id
<1> DEFINE R == O!rest_of(from)
           before(id) == {a \in R : a < id}
<1>1. R \subseteq FactId /\ O!page_of(from) = {id \in R : Cardinality(before(id)) < Page}
  BY StoreCardinality DEF O!rest_of, O!present, O!page_of
<1> DEFINE P == O!page_of(from)
<1> HIDE DEF R, P, before
<1>0. R \subseteq Nat
  BY <1>1
<1>a. \A n, m \in R : m < n \/ n = m \/ n < m
  BY <1>0
<1>b. \A b, n, m \in R : b < n /\ n < m => b < m
  BY <1>0
<1> USE DEF before
<1>2. ASSUME NEW id \in R \ P, NEW a \in P, ~(a < id) PROVE FALSE
  <2>1. id \in R /\ a \in R /\ id < a
    <3>1. id \in R /\ a \in R /\ id # a
      BY <1>1, <1>2 DEF P
    <3>2. QED
      BY <1>2, <1>a, <3>1
  <2>2. before(id) \subseteq before(a)
    BY <1>b, <2>1
  <2>3. IsFiniteSet(before(a)) /\ IsFiniteSet(before(id))
    BY <1>1, FS_Subset
  <2>4. Cardinality(before(id)) <= Cardinality(before(a)) /\ Cardinality(before(id)) \in Nat /\ Cardinality(before(a)) \in Nat
    BY <2>2, <2>3, FS_Subset, FS_CardinalityType
  <2> HIDE DEF before
  <2>5. Cardinality(before(a)) < Page /\ ~(Cardinality(before(id)) < Page)
    BY <1>1, <1>2, <2>1 DEF P
  <2>6. \A x, y \in Nat : x <= y /\ y < Page => x < Page
    OBVIOUS
  <2>7. QED
    BY <2>4, <2>5, <2>6
<1>3. IsFiniteSet(O!page_of(from))
  BY <1>1, FS_Subset
<1>4. QED
  BY <1>1, <1>2, <1>3 DEF R, P

Hits(I) == {O!Hit(id, Score[id], FALSE) : id \in I}

\* The hits of the vectors and of the text together: one for each fact.
LEMMA HitsTogether ==
    ASSUME NEW I \in SUBSET FactId, NEW got \in Seq(FactId), IsFiniteSet(FactId),
           \A id \in FactId : Score[id] \in Nat
    PROVE  LET W == O!with_text(Hits(I), got)
           IN  /\ IsFiniteSet(W)
               /\ \A h \in W : O!combined(h) \in Int /\ (h.text => O!combined(h) >= O!TEXT_WEIGHT)
               /\ \A h, k \in W : h.id = k.id => h = k
               /\ \A id \in O!matched(got) : \E h \in W : h.id = id /\ h.text
<1> DEFINE W == O!with_text(Hits(I), got)
           M == O!matched(got)
<1>1. M \subseteq FactId
  BY DEF O!matched
<1>2. {h.id : h \in Hits(I)} = I
  <2>1. \A id \in I : O!Hit(id, Score[id], FALSE).id = id
    BY DEF O!Hit
  <2>2. QED
    BY <2>1 DEF Hits
<1> DEFINE G(id) == [id |-> id, score |-> IF id \in I THEN Score[id] ELSE 0, text |-> (id \in M)]
<1>3. \A h \in W : \E id \in I \cup M : h = G(id)
  <2>1. \A id \in I : [O!Hit(id, Score[id], FALSE) EXCEPT !.text = O!Hit(id, Score[id], FALSE).id \in M] = G(id)
    BY DEF O!Hit
  <2>2. \A id \in M \ I : O!Hit(id, 0, TRUE) = G(id)
    <3> SUFFICES ASSUME NEW id \in M \ I PROVE O!Hit(id, 0, TRUE) = G(id)
      OBVIOUS
    <3>1. (id \in M) = TRUE /\ (IF id \in I THEN Score[id] ELSE 0) = 0
      BY Zenon
    <3>2. QED
      BY <3>1, Zenon DEF O!Hit
  <2>3. W = {[h EXCEPT !.text = h.id \in M] : h \in Hits(I)} \cup {O!Hit(id, 0, TRUE) : id \in M \ I}
    BY <1>2 DEF O!with_text
  <2>4. ASSUME NEW h \in Hits(I) PROVE \E id \in I : [h EXCEPT !.text = h.id \in M] = G(id)
    <3>1. PICK id \in I : h = O!Hit(id, Score[id], FALSE)
      BY <2>4 DEF Hits
    <3>2. QED
      BY <2>1, <3>1
  <2> HIDE DEF G, W
  <2>5. QED
    BY <2>2, <2>3, <2>4
<1>4. \A id \in M : \E h \in W : h.id = id /\ h.text
  <2>1. ASSUME NEW id \in M, id \in I PROVE \E h \in W : h.id = id /\ h.text
    <3> DEFINE g == O!Hit(id, Score[id], FALSE)
               h == [g EXCEPT !.text = g.id \in M]
    <3>1. g \in Hits(I)
      BY <2>1 DEF Hits
    <3>2. h \in W
      BY <3>1 DEF O!with_text
    <3>3. h.id = id /\ h.text = (id \in M)
      BY DEF O!Hit
    <3>4. QED
      BY <3>2, <3>3
  <2>2. ASSUME NEW id \in M, id \notin I PROVE \E h \in W : h.id = id /\ h.text
    <3>1. O!Hit(id, 0, TRUE) \in W
      BY <1>2, <2>2 DEF O!with_text
    <3>2. O!Hit(id, 0, TRUE).id = id /\ O!Hit(id, 0, TRUE).text
      BY DEF O!Hit
    <3>3. QED
      BY <3>1, <3>2
  <2>3. QED
    BY <2>1, <2>2
<1> HIDE DEF W, M
<1>a. \A id \in I \cup M : G(id).id = id /\ G(id).score \in Nat /\ id \in FactId
  BY <1>1
<1> HIDE DEF G
<1>5. \A h, k \in W : h.id = k.id => h = k
  BY <1>3, <1>a
<1>6. \A h \in W : h.id \in FactId /\ h.score \in Nat
  BY <1>3, <1>a
<1>7. \A h \in W : O!combined(h) \in Int /\ (h.text => O!combined(h) >= O!TEXT_WEIGHT)
  BY <1>6 DEF O!combined, O!TEXT_WEIGHT, O!VECTOR_WEIGHT
<1>8. IsFiniteSet(W)
  <2>1. [h \in W |-> h.id] \in Injection(W, FactId)
    BY <1>5, <1>6 DEF Injection, IsInjective
  <2>2. QED
    BY <2>1, FS_Injection
<1>9. QED
  BY <1>4, <1>5, <1>7, <1>8 DEF W, M

LEMMA SortedList ==
    ASSUME NEW W, IsFiniteSet(W), NEW list \in O!sorted(W)
    PROVE  /\ Cardinality(W) \in Nat
           /\ \A i, j \in 1 .. Cardinality(W) : i # j => list[i] # list[j]
           /\ \A h \in W : \E i \in 1 .. Cardinality(W) : list[i] = h
<1>1. list \in [1 .. Cardinality(W) -> W] /\ \A i, j \in 1 .. Cardinality(W) : i < j => list[i] # list[j]
  BY StoreCardinality DEF O!sorted
<1>2. QED
  BY <1>1, Enumerates

FoundWhole(f, T, limit) ==
    /\ Len(f) < limit => \A id \in T : \E i \in DOMAIN f : f[i].id = id
    /\ \A i \in DOMAIN f, id \in T : (\E j \in DOMAIN f : f[j].id = id) \/ O!combined(f[i]) >= O!TEXT_WEIGHT
    /\ \A i, j \in DOMAIN f : i # j => f[i].id # f[j].id

\* A list of hits by score, cut to its limit.
LEMMA CutIsWhole ==
    ASSUME NEW W, IsFiniteSet(W), \A h \in W : O!combined(h) \in Int /\ (h.text => O!combined(h) >= O!TEXT_WEIGHT),
           \A h, k \in W : h.id = k.id => h = k,
           NEW list \in O!sorted(W), NEW limit \in Nat,
           NEW T, \A id \in T : \E h \in W : h.id = id /\ h.text,
           NEW f, f = O!truncate(list, limit)
    PROVE  FoundWhole(f, T, limit)
<1> DEFINE n == Cardinality(W)
           m == IF n < limit THEN n ELSE limit
<1>1. list \in [1 .. n -> W] /\ \A i, j \in 1 .. n : i < j => list[i] # list[j] /\ O!combined(list[i]) >= O!combined(list[j])
  BY StoreCardinality DEF O!sorted
<1>2. n \in Nat /\ (\A i, j \in 1 .. n : i # j => list[i] # list[j]) /\ \A h \in W : \E i \in 1 .. n : list[i] = h
  BY SortedList
<1> HIDE DEF n
<1>3. list \in Seq(W) /\ Len(list) = n
  BY <1>1, <1>2
<1>4. m \in Nat /\ m <= n /\ (m < limit => m = n)
  BY <1>2
<1>5. f = SubSeq(list, 1, m)
  BY <1>3 DEF O!truncate
<1> HIDE DEF m
<1>6. Len(f) = m /\ DOMAIN f = 1 .. m /\ \A i \in 1 .. m : f[i] = list[i] /\ i \in 1 .. n
  BY <1>3, <1>4, <1>5
<1>7. ASSUME NEW id \in T, \A j \in DOMAIN f : f[j].id # id
      PROVE  \E j \in 1 .. n : m < j /\ list[j].id = id /\ list[j].text
  <2>1. PICK h \in W : h.id = id /\ h.text
    OBVIOUS
  <2>2. PICK j \in 1 .. n : list[j] = h
    BY <1>2
  <2>3. j \notin 1 .. m
    BY <1>6, <1>7, <2>1, <2>2
  <2>4. m < j
    BY <1>2, <1>4, <2>3
  <2>5. QED
    BY <2>1, <2>2, <2>4
<1>8. ASSUME Len(f) < limit, NEW id \in T PROVE \E i \in DOMAIN f : f[i].id = id
  <2>1. m = n
    BY <1>4, <1>6, <1>8
  <2>2. QED
    BY <1>2, <1>7, <1>8, <2>1
<1>9. ASSUME NEW i \in DOMAIN f, NEW id \in T, \A j \in DOMAIN f : f[j].id # id PROVE O!combined(f[i]) >= O!TEXT_WEIGHT
  <2>1. PICK j \in 1 .. n : m < j /\ list[j].id = id /\ list[j].text
    BY <1>7, <1>9
  <2>2. i \in 1 .. n /\ i < j /\ f[i] = list[i]
    BY <1>2, <1>4, <1>6, <1>9, <2>1
  <2>3. O!combined(list[i]) >= O!combined(list[j]) /\ list[i] \in W /\ list[j] \in W
    BY <1>1, <2>1, <2>2
  <2>4. O!combined(list[j]) >= O!TEXT_WEIGHT /\ O!combined(list[j]) \in Int /\ O!combined(list[i]) \in Int
    BY <2>1, <2>3
  <2>5. QED
    BY <2>2, <2>3, <2>4 DEF O!TEXT_WEIGHT
<1>10. ASSUME NEW i \in DOMAIN f, NEW j \in DOMAIN f, i # j PROVE f[i].id # f[j].id
  <2>1. list[i] # list[j] /\ list[i] \in W /\ list[j] \in W /\ f[i] = list[i] /\ f[j] = list[j]
    BY <1>1, <1>2, <1>6, <1>10
  <2>2. QED
    BY <2>1
<1>11. QED
  BY <1>8, <1>9, <1>10 DEF FoundWhole

SaverType  == [at : {"free", "creating", "putting"}, id : Nat, size : Nat]
ScrollType == [at : {"rest", "paging"}, limit : Nat, from : Nat, hits : {Hits(I) : I \in SUBSET FactId}, got : Seq(FactId)]

\* Pages come in the order of the ids, and the next one begins after them.
PagesInOrder ==
    scroll.at = "paging" =>
        /\ \A i, j \in DOMAIN scroll.got : i < j => scroll.got[i] < scroll.got[j]
        /\ \A i \in DOMAIN scroll.got : scroll.got[i] < scroll.from

VectorInv ==
    /\ kind = "vectors"
    /\ points \in [FactId -> Nat \cup {O!Missing}] /\ saver \in [Worker -> SaverType]
    /\ \A w \in Worker : saver[w].at # "free" => saver[w].id \in FactId
    /\ stable \subseteq O!present /\ O!present \subseteq ever
    /\ scroll \in ScrollType /\ PagesInOrder /\ O!ScrollIsWhole

LEMMA InitVectors == ASSUME O!VectorInit PROVE VectorInv
<1>1. O!Free \in SaverType /\ O!Free.at = "free" /\ O!Missing \in {O!Missing}
  BY DEF O!Free, SaverType
<1>2. Hits({}) = {}
  BY DEF Hits
<1>3. O!NoScroll \in ScrollType /\ O!NoScroll.at = "rest" /\ O!NoScroll.limit = 0 /\ O!NoScroll.got = <<>>
  <2>1. {} \in {Hits(I) : I \in SUBSET FactId}
    BY <1>2
  <2>2. QED
    BY <2>1 DEF O!NoScroll, ScrollType
<1>4. O!present = {}
  BY DEF O!VectorInit, O!present
<1>5. O!ScrollIsWhole /\ PagesInOrder
  <2>1. scroll.at = "rest" /\ scroll.limit = 0 /\ scroll.got = <<>>
    BY <1>3 DEF O!VectorInit
  <2>2. QED
    BY <2>1 DEF O!ScrollIsWhole, PagesInOrder
<1>6. QED
  BY <1>1, <1>3, <1>4, <1>5 DEF O!VectorInit, VectorInv

\* What a scroll has found stays right when facts come, and when facts go.
LEMMA ScrollStays ==
    ASSUME VectorInv, UNCHANGED <<kind, scroll, found>>, stable' \subseteq stable, ever \subseteq ever'
    PROVE  scroll' \in ScrollType /\ PagesInOrder' /\ O!ScrollIsWhole'
<1>1. scroll' \in ScrollType /\ PagesInOrder'
  BY DEF VectorInv, PagesInOrder
<1>2. O!ScrollIsWhole'
  BY DEF VectorInv, O!ScrollIsWhole, O!combined
<1>3. QED
  BY <1>1, <1>2

LEMMA StoreAssumptions ==
    ASSUME O!OutwardAssumption
    PROVE  /\ IsFiniteSet(FactId) /\ FactId \in SUBSET Nat /\ Page \in Nat
           /\ \A id \in FactId : Score[id] \in Nat
           /\ \A size \in Size : size \in Nat
           /\ \A limit \in HitLimit : limit \in Nat
BY StoreCardinality DEF O!OutwardAssumption

\* A writer that is given a new state.
LEMMA SaverMoves ==
    ASSUME VectorInv, NEW w \in Worker, UNCHANGED <<kind, points, scroll, stable, ever, found>>,
           NEW v \in SaverType, saver' = [saver EXCEPT ![w] = v], v.at # "free" => v.id \in FactId
    PROVE  VectorInv'
<1>1. saver' \in [Worker -> SaverType] /\ \A x \in Worker : saver'[x].at # "free" => saver'[x].id \in FactId
  BY DEF VectorInv
<1>2. UNCHANGED O!present
  BY DEF O!present
<1>3. scroll' \in ScrollType /\ PagesInOrder' /\ O!ScrollIsWhole'
  BY ScrollStays
<1>4. QED
  BY <1>1, <1>2, <1>3 DEF VectorInv

LEMMA FreeSaver == O!Free \in SaverType /\ O!Free.at = "free"
BY DEF O!Free, SaverType

LEMMA UpsertKeeps ==
    ASSUME O!OutwardAssumption, VectorInv, UNCHANGED kind,
           NEW w \in Worker, NEW id \in FactId, NEW size \in Size, O!upsert_fact(w, id, size)
    PROVE  VectorInv'
<1>1. PICK at \in {"putting", "creating"} : saver' = [saver EXCEPT ![w] = [at |-> at, id |-> id, size |-> size]]
  BY DEF O!upsert_fact
<1>2. [at |-> at, id |-> id, size |-> size] \in SaverType
  BY StoreAssumptions DEF SaverType
<1>3. UNCHANGED <<points, scroll, stable, ever, found>>
  BY DEF O!upsert_fact
<1>4. QED
  BY <1>1, <1>2, <1>3, SaverMoves

LEMMA EnsureKeeps ==
    ASSUME VectorInv, UNCHANGED kind, NEW w \in Worker, O!ensure_collection(w)
    PROVE  VectorInv'
<1> DEFINE v == [saver[w] EXCEPT !.at = "putting"]
<1>1. UNCHANGED <<points, scroll, stable, ever, found>> /\ saver[w].at = "creating"
  BY DEF O!ensure_collection
<1>2. saver[w] \in SaverType /\ saver[w].id \in FactId
  BY <1>1 DEF VectorInv
<1>3. v \in SaverType /\ v.id = saver[w].id
  BY <1>2 DEF SaverType
<1>4. CASE saver' = [saver EXCEPT ![w].at = "putting"]
  BY <1>1, <1>2, <1>3, <1>4, SaverMoves
<1>5. CASE saver' = [saver EXCEPT ![w] = O!Free]
  BY <1>1, <1>5, FreeSaver, SaverMoves
<1>6. QED
  BY <1>4, <1>5 DEF O!ensure_collection

LEMMA PutKeeps ==
    ASSUME VectorInv, UNCHANGED kind, NEW w \in Worker, O!put_point(w)
    PROVE  VectorInv'
<1> DEFINE id == saver[w].id
           size == saver[w].size
<1>1. UNCHANGED <<scroll, stable, found>> /\ saver[w].at = "putting" /\ saver' = [saver EXCEPT ![w] = O!Free]
  BY DEF O!put_point
<1>2. saver[w] \in SaverType /\ id \in FactId /\ size \in Nat
  BY <1>1 DEF VectorInv, SaverType
<1>3. CASE points' = [points EXCEPT ![id] = size] /\ ever' = ever \cup {id}
  <2>1. /\ points' \in [FactId -> Nat \cup {O!Missing}] /\ points'[id] = size
        /\ \A x \in FactId \ {id} : points'[x] = points[x]
    BY <1>2, <1>3 DEF VectorInv
  <2>2. size # O!Missing
    BY <1>2 DEF O!Missing
  <2>3. O!present' = O!present \cup {id}
    BY <1>2, <2>1, <2>2 DEF O!present
  <2>4. saver' \in [Worker -> SaverType] /\ \A x \in Worker : saver'[x].at # "free" => saver'[x].id \in FactId
    BY <1>1, FreeSaver DEF VectorInv
  <2>5. scroll' \in ScrollType /\ PagesInOrder' /\ O!ScrollIsWhole'
    BY <1>1, <1>3, ScrollStays
  <2>6. QED
    BY <1>1, <1>3, <2>1, <2>3, <2>4, <2>5 DEF VectorInv
<1>4. CASE UNCHANGED <<points, ever>>
  BY <1>1, <1>4, FreeSaver, SaverMoves
<1>5. QED
  BY <1>3, <1>4 DEF O!put_point

LEMMA DeleteKeeps ==
    ASSUME VectorInv, UNCHANGED kind, NEW id \in FactId, O!delete_fact(id)
    PROVE  VectorInv'
<1>1. /\ UNCHANGED <<saver, scroll, ever, found>> /\ points' = [points EXCEPT ![id] = O!Missing]
      /\ stable' = stable \ {id}
  BY DEF O!delete_fact
<1>2. points' \in [FactId -> Nat \cup {O!Missing}] /\ O!present' = O!present \ {id}
  BY <1>1 DEF VectorInv, O!present
<1>3. scroll' \in ScrollType /\ PagesInOrder' /\ O!ScrollIsWhole'
  BY <1>1, ScrollStays
<1>4. QED
  BY <1>1, <1>2, <1>3 DEF VectorInv

LEMMA SearchKeeps ==
    ASSUME O!OutwardAssumption, VectorInv, UNCHANGED kind, NEW limit \in HitLimit, O!hybrid_search(limit)
    PROVE  VectorInv'
<1>1. UNCHANGED <<points, saver>> /\ stable' = O!present /\ ever' = O!present
  BY DEF O!hybrid_search
<1>2. PICK I \in SUBSET FactId :
        scroll' = [at |-> "paging", limit |-> limit, from |-> 0, hits |-> Hits(I), got |-> <<>>]
  <2>1. \A I \in O!vector_hits(limit) \cup {{}} : I \in SUBSET FactId
    BY DEF O!vector_hits, O!present
  <2>2. QED
    BY <2>1, Zenon DEF O!hybrid_search, Hits
<1>3. scroll' \in ScrollType /\ scroll'.at = "paging" /\ scroll'.from = 0 /\ scroll'.got = <<>>
  <2>1. limit \in Nat /\ Hits(I) \in {Hits(J) : J \in SUBSET FactId}
    BY StoreAssumptions
  <2>2. QED
    BY <1>2, <2>1 DEF ScrollType
<1>4. UNCHANGED O!present
  BY <1>1 DEF O!present
<1>5. PagesInOrder'
  BY <1>3 DEF PagesInOrder
<1>6. \A id \in stable' : ~(id < 0)
  BY <1>1, StoreAssumptions DEF O!present
<1>7. O!ScrollIsWhole'
  BY <1>3, <1>6 DEF O!ScrollIsWhole
<1>8. QED
  BY <1>1, <1>3, <1>4, <1>5, <1>7 DEF VectorInv

\* A page is added to those before: what is there before the next one is in them.
LEMMA PageAdds ==
    ASSUME O!OutwardAssumption, VectorInv, scroll.at = "paging"
    PROVE  LET ids == O!page_of(scroll.from)
               got == scroll.got \o O!in_order(ids)
               all == {got[i] : i \in DOMAIN got}
           IN  /\ got \in Seq(FactId) /\ all \subseteq ever
               /\ \A i, j \in DOMAIN got : i < j => got[i] < got[j]
               /\ all = {scroll.got[i] : i \in DOMAIN scroll.got} \cup ids
               /\ {id \in stable : id < scroll.from} \subseteq all
<1> DEFINE ids == O!page_of(scroll.from)
           l == O!in_order(ids)
           n == Cardinality(ids)
           s == scroll.got
           got == s \o l
           all == {got[i] : i \in DOMAIN got}
           old == {s[i] : i \in DOMAIN s}
<1>1. ids \subseteq O!rest_of(scroll.from) /\ IsFiniteSet(ids) /\ ids \in SUBSET FactId /\ FactId \in SUBSET Nat
  BY StoreAssumptions, PageIsNext
<1>2. /\ n \in Nat /\ l \in [1 .. n -> ids] /\ l \in Seq(ids) /\ Len(l) = n
      /\ \A i, j \in 1 .. n : i < j => l[i] < l[j]
      /\ \A id \in ids : \E i \in 1 .. n : l[i] = id
  BY <1>1, OrderedIds
<1>3. /\ s \in Seq(FactId) /\ scroll.from \in Nat
      /\ \A i, j \in DOMAIN s : i < j => s[i] < s[j]
      /\ \A i \in DOMAIN s : s[i] < scroll.from
      /\ old \subseteq ever /\ {id \in stable : id < scroll.from} \subseteq old
  BY DEF VectorInv, ScrollType, PagesInOrder, O!ScrollIsWhole
<1>4. ids \subseteq ever /\ \A id \in ids : scroll.from <= id
  BY <1>1 DEF O!rest_of, VectorInv
<1> HIDE DEF ids, l, n
<1>5. /\ got \in Seq(FactId) /\ DOMAIN got = 1 .. Len(s) + n /\ DOMAIN s = 1 .. Len(s) /\ Len(s) \in Nat
      /\ \A i \in 1 .. Len(s) : got[i] = s[i]
      /\ \A i \in 1 .. n : got[Len(s) + i] = l[i]
  <2>1. l \in Seq(FactId)
    <3>1. \A Z, U, e : Z \subseteq U /\ e \in Seq(Z) => e \in Seq(U)
      OBVIOUS
    <3>2. QED
      BY <1>1, <1>2, <3>1
  <2>2. /\ got \in Seq(FactId) /\ Len(got) = Len(s) + n
        /\ \A i \in 1 .. Len(s) + n : got[i] = IF i <= Len(s) THEN s[i] ELSE l[i - Len(s)]
    <3>1. s \in Seq(FactId) /\ Len(l) = n
      BY <1>2, <1>3
    <3> HIDE DEF s
    <3>2. QED
      BY <2>1, <3>1, ConcatProperties
  <2>3. DOMAIN got = 1 .. Len(s) + n /\ DOMAIN s = 1 .. Len(s) /\ Len(s) \in Nat
    BY <1>3, <2>2
  <2> HIDE DEF got, s
  <2>4. \A i \in 1 .. Len(s) : i \in 1 .. Len(s) + n /\ i <= Len(s)
    BY <1>2, <2>3
  <2>5. \A i \in 1 .. n : Len(s) + i \in 1 .. Len(s) + n /\ ~(Len(s) + i <= Len(s)) /\ (Len(s) + i) - Len(s) = i
    BY <1>2, <2>3
  <2>6. QED
    BY <2>2, <2>3, <2>4, <2>5
<1>6. \A k \in DOMAIN got : k \in 1 .. Len(s) \/ (k - Len(s) \in 1 .. n /\ k = Len(s) + (k - Len(s)))
  BY <1>2, <1>5
<1>7. all = old \cup ids
  <2>1. \A k \in DOMAIN got : got[k] \in old \cup ids
    BY <1>2, <1>5, <1>6
  <2>2. \A i \in DOMAIN s : i \in DOMAIN got
    BY <1>2, <1>5
  <2>3. \A i \in 1 .. n : Len(s) + i \in DOMAIN got
    BY <1>2, <1>5
  <2>4. old \subseteq all
    BY <1>5, <2>2
  <2>5. ids \subseteq all
    BY <1>2, <1>5, <2>3
  <2>6. QED
    BY <2>1, <2>4, <2>5
<1>8. ASSUME NEW i \in DOMAIN got, NEW j \in DOMAIN got, i < j PROVE got[i] < got[j]
  <2>1. CASE j \in 1 .. Len(s)
    <3>1. i \in 1 .. Len(s)
      BY <1>5, <1>8, <2>1
    <3>2. QED
      BY <1>3, <1>5, <1>8, <2>1, <3>1
  <2>2. CASE i \in 1 .. Len(s) /\ j - Len(s) \in 1 .. n /\ j = Len(s) + (j - Len(s))
    <3>1. got[i] = s[i] /\ s[i] < scroll.from /\ got[j] \in ids /\ s[i] \in Nat
      <4> HIDE DEF got, s
      <4>1. got[i] = s[i] /\ s[i] < scroll.from /\ s[i] \in FactId
        BY <1>3, <1>5, <2>2, ElementOfSeq
      <4>2. got[j] = l[j - Len(s)] /\ l[j - Len(s)] \in ids
        BY <1>2, <1>5, <2>2
      <4>3. QED
        BY <1>1, <4>1, <4>2
    <3>2. scroll.from <= got[j] /\ got[j] \in Nat
      BY <1>1, <1>4, <3>1
    <3>3. QED
      BY <1>3, <3>1, <3>2
  <2>3. CASE i - Len(s) \in 1 .. n /\ i = Len(s) + (i - Len(s)) /\ j - Len(s) \in 1 .. n /\ j = Len(s) + (j - Len(s))
    <3>1. i - Len(s) < j - Len(s) /\ got[i] = l[i - Len(s)] /\ got[j] = l[j - Len(s)]
      <4> HIDE DEF got, s
      <4>1. i \in Int /\ j \in Int /\ Len(s) \in Int
        BY <1>2, <1>5
      <4>2. QED
        BY <1>5, <1>8, <2>3, <4>1
    <3>2. QED
      BY <1>2, <2>3, <3>1
  <2>4. QED
    BY <1>6, <2>1, <2>2, <2>3
<1>9. QED
  BY <1>3, <1>4, <1>5, <1>7, <1>8 DEF ids, l

LEMMA PagesKeep ==
    ASSUME O!OutwardAssumption, VectorInv, UNCHANGED kind, O!all_facts
    PROVE  VectorInv'
<1> DEFINE ids   == O!page_of(scroll.from)
           rest  == O!rest_of(scroll.from)
           after == {id \in rest : \A a \in ids : a < id}
           got   == scroll.got \o O!in_order(ids)
           all   == {got[i] : i \in DOMAIN got}
<1>1. scroll.at = "paging" /\ UNCHANGED <<points, saver, stable, ever>>
  BY DEF O!all_facts
<1>2. /\ got \in Seq(FactId) /\ all \subseteq ever
      /\ \A i, j \in DOMAIN got : i < j => got[i] < got[j]
      /\ all = {scroll.got[i] : i \in DOMAIN scroll.got} \cup ids
      /\ {id \in stable : id < scroll.from} \subseteq all
  BY <1>1, PageAdds
<1>3. /\ ids \subseteq rest /\ rest \subseteq FactId /\ FactId \in SUBSET Nat
      /\ \A id \in rest \ ids : id \in after
  <2>1. /\ ids \subseteq rest /\ rest \subseteq FactId /\ FactId \in SUBSET Nat
        /\ \A id \in rest \ ids, a \in ids : a < id
    BY StoreAssumptions, PageIsNext
  <2>2. QED
    BY <2>1
<1>4. \A id \in stable : id \in Nat /\ (scroll.from <= id => id \in rest)
  BY StoreAssumptions DEF VectorInv, O!present, O!rest_of
<1>5. \A i, j \in DOMAIN got : i # j => got[i] # got[j]
  <2> HIDE DEF got
  <2>1. \A i \in DOMAIN got : i \in Nat /\ got[i] \in FactId
    BY <1>2
  <2>2. \A i \in DOMAIN got : i \in Nat /\ got[i] \in Nat
    BY <1>3, <2>1
  <2>3. QED
    BY <1>2, <2>2
<1>6. scroll \in ScrollType /\ UNCHANGED O!present
  BY <1>1 DEF VectorInv, O!present
<1>7. O!all_facts /\ scroll.from \in Nat /\ \A i \in DOMAIN scroll.got : scroll.got[i] < scroll.from
  BY <1>1, <1>6 DEF ScrollType, VectorInv, PagesInOrder
<1>8. ASSUME after # {},
             scroll' = [scroll EXCEPT !.got = got, !.from = CHOOSE id \in after : \A b \in after : id <= b]
      PROVE  VectorInv'
  <2> DEFINE next == CHOOSE id \in after : \A b \in after : id <= b
  <2>1. next \in after /\ \A b \in after : next <= b
    <3>1. \E id \in after : \A b \in after : id <= b
      <4>1. after \in SUBSET Nat
        BY <1>3
      <4>2. QED
        BY <1>8, <4>1, LeastNumber
    <3>2. QED
      BY <3>1, Zenon
  <2> HIDE DEF next, got
  <2>2. next \in Nat /\ (\A a \in ids : a < next) /\ scroll.from <= next
    BY <1>3, <2>1 DEF O!rest_of
  <2>3. scroll' \in ScrollType /\ scroll'.at = "paging" /\ scroll'.got = got /\ scroll'.from = next
    BY <1>1, <1>2, <1>6, <1>8, <2>2 DEF ScrollType, next
  <2>4. \A i \in DOMAIN got : got[i] < next
    <3>1. \A i \in DOMAIN scroll.got : scroll.got[i] < next
      <4>a. scroll.got \in Seq(FactId)
        BY <1>6 DEF ScrollType
      <4>1. \A i \in DOMAIN scroll.got : scroll.got[i] \in Nat
        <5>1. \A i \in DOMAIN scroll.got : scroll.got[i] \in FactId
          BY <4>a
        <5>2. QED
          BY <1>3, <5>1
      <4>2. QED
        BY <1>7, <2>2, <4>1
    <3>2. \A x \in all : x < next
      BY <1>2, <2>2, <3>1
    <3>3. QED
      BY <3>2
  <2>5. {id \in stable : id < next} \subseteq all
    <3>1. ASSUME NEW id \in stable, id < next, ~(id < scroll.from) PROVE id \in ids
      <4>1. id \in rest /\ id \in Nat
        BY <1>4, <1>7, <3>1
      <4>2. id \notin after
        BY <2>1, <2>2, <3>1, <4>1
      <4>3. QED
        BY <1>3, <4>1, <4>2
    <3>2. QED
      BY <1>2, <3>1
  <2>6. PagesInOrder'
    BY <1>2, <2>3, <2>4 DEF PagesInOrder
  <2>7. O!ScrollIsWhole'
    BY <1>1, <1>2, <1>5, <2>3, <2>5 DEF O!ScrollIsWhole
  <2>8. QED
    BY <1>1, <1>6, <2>3, <2>6, <2>7 DEF VectorInv
<1>9. ASSUME after = {}, scroll' = [scroll EXCEPT !.at = "rest", !.got = got],
             NEW list \in O!sorted(O!with_text(scroll.hits, got)), found' = O!truncate(list, scroll.limit)
      PROVE  VectorInv'
  <2> DEFINE W == O!with_text(scroll.hits, got)
             T == stable \cap Matching
  <2>1. stable \subseteq all
    <3>1. \A id \in stable : scroll.from <= id => id \in ids
      BY <1>3, <1>4, <1>9
    <3>2. \A id \in stable : id < scroll.from \/ scroll.from <= id
      BY <1>4, <1>7
    <3> HIDE DEF all, ids
    <3>3. ids \subseteq all
      BY <1>2
    <3>4. QED
      BY <1>2, <3>1, <3>2, <3>3
  <2>2. T \subseteq O!matched(got)
    BY <2>1 DEF O!matched
  <2>3. PICK I \in SUBSET FactId : scroll.hits = Hits(I)
    BY <1>6 DEF ScrollType
  <2> HIDE DEF got
  <2>4. /\ IsFiniteSet(W)
        /\ \A h \in W : O!combined(h) \in Int /\ (h.text => O!combined(h) >= O!TEXT_WEIGHT)
        /\ \A h, k \in W : h.id = k.id => h = k
        /\ \A id \in O!matched(got) : \E h \in W : h.id = id /\ h.text
    BY <1>2, <2>3, StoreAssumptions, HitsTogether
  <2>5. scroll.limit \in Nat /\ \A id \in T : \E h \in W : h.id = id /\ h.text
    BY <1>6, <2>2, <2>4 DEF ScrollType
  <2> HIDE DEF W, T
  <2>6. /\ Len(found') < scroll.limit => T \subseteq {found'[i].id : i \in DOMAIN found'}
        /\ \A i \in DOMAIN found', id \in T \ {found'[j].id : j \in DOMAIN found'} : O!combined(found'[i]) >= O!TEXT_WEIGHT
        /\ \A i, j \in DOMAIN found' : i # j => found'[i].id # found'[j].id
    <3>1. list \in O!sorted(W)
      BY <1>9 DEF W
    <3>2. FoundWhole(found', T, scroll.limit)
      BY <1>9, <2>4, <2>5, <3>1, CutIsWhole
    <3>3. QED
      BY <3>2 DEF FoundWhole
  <2>7. scroll' \in ScrollType /\ scroll'.at = "rest" /\ scroll'.got = got /\ scroll'.limit = scroll.limit
    BY <1>2, <1>6, <1>9 DEF ScrollType
  <2>8. PagesInOrder'
    BY <2>7 DEF PagesInOrder
  <2>9. O!ScrollIsWhole'
    BY <1>1, <1>2, <1>5, <2>6, <2>7 DEF O!ScrollIsWhole, O!combined, T
  <2>10. QED
    BY <1>1, <1>6, <2>7, <2>8, <2>9 DEF VectorInv
<1>10. CASE scroll' = O!NoScroll
  <2>1. scroll' \in ScrollType /\ scroll'.at = "rest" /\ scroll'.limit = 0 /\ scroll'.got = <<>>
    <3>1. Hits({}) = {}
      BY DEF Hits
    <3>2. {} \in {Hits(I) : I \in SUBSET FactId}
      BY <3>1
    <3>3. QED
      BY <1>10, <3>2 DEF O!NoScroll, ScrollType
  <2>2. O!ScrollIsWhole' /\ PagesInOrder'
    BY <2>1 DEF O!ScrollIsWhole, PagesInOrder
  <2>3. QED
    BY <1>1, <1>6, <2>1, <2>2 DEF VectorInv
<1>11. QED
  BY <1>8, <1>9, <1>10, Zenon DEF O!all_facts

LEMMA VectorSteps ==
    ASSUME O!OutwardAssumption, VectorInv, UNCHANGED kind, O!PrivateNeedsOptIn, O!VectorNext
    PROVE  VectorInv' /\ O!PrivateNeedsOptIn'
<1>1. VectorInv'
  BY UpsertKeeps, EnsureKeeps, PutKeeps, DeleteKeeps, SearchKeeps, PagesKeep DEF O!VectorNext
<1>2. UNCHANGED contact
  BY DEF O!VectorNext, O!upsert_fact, O!ensure_collection, O!put_point, O!delete_fact, O!hybrid_search, O!all_facts
<1>3. QED
  BY <1>1, <1>2 DEF O!PrivateNeedsOptIn

-----------------------------------------------------------------------------
(* OutwardCalls: all of it *)

OutInv ==
    /\ O!PrivateNeedsOptIn
    /\ kind = "decisions" => DecideInv
    /\ kind = "models" => CompletionInv
    /\ kind = "vectors" => VectorInv

LEMMA InitOut == ASSUME O!OutInit PROVE OutInv
<1>1. O!PrivateNeedsOptIn
  BY DEF O!OutInit, O!DecideInit, O!ModelInit, O!PageInit, O!VectorInit, O!PrivateNeedsOptIn
<1>2. CASE O!DecideInit
  BY <1>1, <1>2, InitDecide DEF OutInv, O!DecideInit
<1>3. CASE O!ModelInit
  BY <1>1, <1>3, InitCompletions DEF OutInv, O!ModelInit
<1>4. CASE O!PageInit
  BY <1>1, <1>4 DEF OutInv, O!PageInit
<1>5. CASE O!VectorInit
  BY <1>1, <1>5, InitVectors DEF OutInv, O!VectorInit
<1>6. QED
  BY <1>2, <1>3, <1>4, <1>5 DEF O!OutInit

\* http.fetch and web.search have no opt-in.
LEMMA PageSteps == ASSUME O!OutwardAssumption, O!PageNext PROVE O!PrivateNeedsOptIn'
<1>1. PICK host \in Host \cup {SEARCH_HOST} : O!fetch(host)
  BY DEF O!PageNext, O!search
<1>2. <<host>> \in O!Endpoint /\ <<host>>[Len(<<host>>)] = host
  <2>1. host \in SUBSET O!Address
    BY DEF O!OutwardAssumption
  <2>2. QED
    BY <2>1 DEF O!Endpoint
<1>3. O!passes_gate(<<host>>, FALSE)
  BY <1>1, <1>2 DEF O!fetch, O!passes_gate, O!check_endpoint
<1>4. contact' \in O!Contacted(<<host>>, FALSE, O!NoHint)
  BY <1>1 DEF O!fetch
<1>5. QED
  BY <1>2, <1>3, <1>4, ContactAllowed

LEMMA OutSteps == ASSUME O!OutwardAssumption, OutInv, [O!OutNext]_outward PROVE OutInv'
<1>1. CASE UNCHANGED outward
  <2>1. kind = "decisions" => DecideInv'
    BY <1>1 DEF OutInv, DecideInv, outward, O!candidates, O!route_answers
  <2>2. kind = "models" => CompletionInv'
    BY <1>1 DEF OutInv, CompletionInv, outward
  <2>3. kind = "vectors" => VectorInv'
    BY <1>1 DEF OutInv, VectorInv, outward, PagesInOrder, O!ScrollIsWhole, O!present, O!combined
  <2>4. O!PrivateNeedsOptIn' /\ kind' = kind
    BY <1>1 DEF OutInv, outward, O!PrivateNeedsOptIn
  <2>5. QED
    BY <2>1, <2>2, <2>3, <2>4 DEF OutInv
<1>2. CASE O!OutNext
  <2>1. kind' = kind
    BY <1>2 DEF O!OutNext
  <2>2. CASE kind = "decisions" /\ O!DecideNext
    BY <2>1, <2>2, DecideSteps DEF OutInv
  <2>3. CASE kind = "models" /\ O!ModelNext
    BY <2>1, <2>3, ModelSteps DEF OutInv
  <2>4. CASE kind = "pages" /\ O!PageNext
    BY <2>1, <2>4, PageSteps DEF OutInv
  <2>5. CASE kind = "vectors" /\ O!VectorNext
    BY <2>1, <2>5, VectorSteps DEF OutInv
  <2>6. QED
    BY <1>2, <2>2, <2>3, <2>4, <2>5 DEF O!OutNext
<1>3. QED
  BY <1>1, <1>2

LEMMA OutRight == ASSUME O!OutwardAssumption, OutInv PROVE O!OutwardRight
<1>1. O!AnswerIsTheFirst
  <2>1. CASE kind = "decisions"
    BY <2>1, DecideSafe DEF OutInv
  <2>2. CASE kind # "decisions"
    BY <2>2 DEF O!AnswerIsTheFirst
  <2>3. QED
    BY <2>1, <2>2
<1>2. O!AnswersAreSomeones
  BY DEF OutInv, CompletionInv, O!AnswersAreSomeones
<1>3. O!ScrollIsWhole
  <2>1. CASE kind = "vectors"
    BY <2>1 DEF OutInv, VectorInv
  <2>2. CASE kind # "vectors"
    BY <2>2 DEF O!ScrollIsWhole
  <2>3. QED
    BY <2>1, <2>2
<1>4. QED
  BY <1>1, <1>2, <1>3 DEF OutInv, O!OutwardRight

-----------------------------------------------------------------------------
(* The theorems *)

\* Whatever a model proposes, whatever the gate's tables say and however many turns there
\* are: what reached a tool was allowed, the same call never reaches it in four turns on
\* end, a step that ends has journalled its calls, and what it leaves was mediated (execute
\* of agent_step.rs).
THEOREM TurnsAreRight == LayerSpec => []RightTurns
<1> DEFINE Inv == part = "turns" => AgentInv
<1>1. LayerInit => Inv
  BY LayerAssumption, InitAgent DEF LayerInit
<1>2. Inv /\ [LayerNext]_layer_vars => Inv'
  <2> SUFFICES ASSUME Inv, [LayerNext]_layer_vars, part' = "turns" PROVE AgentInv'
    OBVIOUS
  <2>1. part = "turns" /\ [AgentNext]_agent_vars
    BY DEF LayerNext, layer_vars
  <2>2. QED
    BY <2>1, LayerAssumption, AgentSteps
<1>3. Inv => RightTurns
  BY AgentRight DEF RightTurns
<1>4. QED
  BY <1>1, <1>2, <1>3, PTL DEF LayerSpec

\* Whatever the model answers and whatever a program does, for every policy of the
\* tools and every budget: no known secret gets into the state, the journal has one
\* outcome for each of at most three answers and its commit last, a program reaches
\* only its tools and no more often than its budget, and what is committed is what it
\* finished with (mediate_traced, tool_only::execute, host_call_tool, CodeActExecutor).
THEOREM Answers == LayerSpec => []AnswersRight
<1> DEFINE Inv == (part = "single" => SingleInv) /\ (part = "codeact" => ActInv)
<1>1. LayerInit => Inv
  BY LayerAssumption, InitSingle, InitAct DEF LayerInit
<1>2. Inv /\ [LayerNext]_layer_vars => Inv'
  <2> SUFFICES ASSUME Inv, [LayerNext]_layer_vars PROVE Inv'
    OBVIOUS
  <2>1. CASE part' = "single"
    <3>1. part = "single" /\ [S!SingleNext]_(S!single_vars)
      BY <2>1 DEF LayerNext, layer_vars, single, S!single_vars
    <3>2. SingleInv'
      BY <3>1, SingleMoves
    <3>3. QED
      BY <2>1, <3>2
  <2>2. CASE part' = "codeact"
    <3>1. part = "codeact" /\ [C!ActNext]_(C!act_vars)
      BY <2>2 DEF LayerNext, layer_vars, program, C!act_vars
    <3>2. ActInv'
      BY <3>1, LayerAssumption, ActSteps
    <3>3. QED
      BY <2>2, <3>2
  <2>3. QED
    BY <2>1, <2>2
<1>3. Inv => AnswersRight
  BY SingleRight, ActRight DEF AnswersRight
<1>4. QED
  BY <1>1, <1>2, <1>3, PTL DEF LayerSpec

\* Whatever agents there are and however deep they nest, an agent exists only
\* where its spawner had the right to spawn it, and reaches a tool only inside
\* its own list and time (run_agent of agent_dispatch.rs).
THEOREM NestedAgentsBounded == LayerSpec => []BoundedSubagents
<1> DEFINE Inv == part = "sub" => SubInv
<1>1. LayerInit => Inv
  BY LayerAssumption, InitSub DEF LayerInit
<1>2. Inv /\ [LayerNext]_layer_vars => Inv'
  <2> SUFFICES ASSUME Inv, [LayerNext]_layer_vars, part' = "sub" PROVE SubInv'
    OBVIOUS
  <2>1. part = "sub" /\ [SubNext]_sub_vars
    BY DEF LayerNext, layer_vars
  <2>2. QED
    BY <2>1, LayerAssumption, SubSteps
<1>3. Inv => BoundedSubagents
  BY SubRight DEF BoundedSubagents
<1>4. QED
  BY <1>1, <1>2, <1>3, PTL DEF LayerSpec

\* For every pool, every number of callers and every start: whoever answers has
\* the tier that was asked for, a call is reported unavailable only after every
\* eligible provider was heard, a remote one answers only when the local ones
\* could not, and only failures rest a provider (select_ranked, complete,
\* record_failure).
THEOREM ModelCalls == LayerSpec => []RightModelCalls
<1> DEFINE Inv == part = "call" => CallInv
<1>1. LayerInit => Inv
  BY LayerAssumption, InitCalls DEF LayerInit
<1>2. Inv /\ [LayerNext]_layer_vars => Inv'
  <2> SUFFICES ASSUME Inv, [LayerNext]_layer_vars, part' = "call" PROVE CallInv'
    OBVIOUS
  <2>1. part = "call" /\ [CallNext]_call_vars
    BY DEF LayerNext, layer_vars
  <2>2. QED
    BY <2>1, LayerAssumption, CallSteps
<1>3. Inv => RightModelCalls
  BY LayerAssumption, CallRight DEF RightModelCalls
<1>4. QED
  BY <1>1, <1>2, <1>3, PTL DEF LayerSpec

\* Whatever hosts, providers, models and facts there are and whatever they answer, in any
\* number of calls: no reserved address is contacted without the owner's opt-in, however
\* it is written; decision.ask answers with the first reply that stands; a completion is
\* what that provider said to that request, cached or not, across restarts; and a search
\* beside writers loses no fact that was there throughout (net_gate.rs, builtin_decision.rs,
\* http_provider.rs, llm_cache.rs, qdrant.rs).
THEOREM OutwardCallsAreTrue == LayerSpec => []OutwardIsTrue
<1> DEFINE Inv == part = "outward" => OutInv
<1>1. LayerInit => Inv
  BY LayerAssumption, InitOut DEF LayerInit
<1>2. Inv /\ [LayerNext]_layer_vars => Inv'
  <2> SUFFICES ASSUME Inv, [LayerNext]_layer_vars, part' = "outward" PROVE OutInv'
    OBVIOUS
  <2>1. part = "outward" /\ [O!OutNext]_outward
    BY DEF LayerNext, layer_vars
  <2>2. QED
    BY <2>1, LayerAssumption, OutSteps
<1>3. Inv => OutwardIsTrue
  BY LayerAssumption, OutRight DEF OutwardIsTrue
<1>4. QED
  BY <1>1, <1>2, <1>3, PTL DEF LayerSpec
=============================================================================
