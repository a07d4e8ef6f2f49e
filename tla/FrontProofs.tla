------------------------------ MODULE FrontProofs ------------------------------
(***************************************************************************)
(* What a person and a program meet is so.  Of the HTTP service: a run       *)
(* belongs to a caller that may have one (HttpInv).  Of the editor: the        *)
(* updates of a prompt follow the journal of its instance (EditorInv).  Of     *)
(* the tool runtime: a policy is that of the component that answers, and an    *)
(* answer is the one its call waits for (ToolInv).  Of logins, extensions and  *)
(* settings: what is stored stands (LoginInv, ExtInv, SettingInv).  Of the     *)
(* chat: an answer stands behind its question, and a tool ran with one         *)
(* (ChatInv).                                                                  *)
(***************************************************************************)
EXTENDS MCFront, SequenceTheorems, FiniteSetTheorems, TLAPS

-----------------------------------------------------------------------------
(* the HTTP service: who may have a run *)

Allowed(r) == r.bearer \/ (W!Hook(r) /\ r.signed)

Connection ==
    [at : {"running", "read", "commenting"}, request : Request, own : {0, 1}, said : Int,
     answer : Int, outcome : W!Outcome \cup {"none"}, comment : W!Outcome \cup {"none", "lost"}]

HttpInv ==
    \/ http = W!Closed
    \/ /\ http \in Connection
       /\ http.own # 0 \/ http.at = "running" => Allowed(http.request)
       /\ http.comment \in W!Outcome => http.comment = http.outcome
       /\ http.at # "read" => http.comment = "none"

LEMMA InitHttp ==
    ASSUME W!ServerInit PROVE HttpInv
BY DEF W!ServerInit, HttpInv

LEMMA StatusAllows ==
    ASSUME NEW r, NEW disk
    PROVE  /\ W!handle_connection(r, disk) \in Int
           /\ W!write_json(W!handle_connection(r, disk)) \in Int
           /\ W!handle_connection(r, disk) \in {0, 202} => Allowed(r)
<1>1. W!handle_github_webhook(r) \in {404, 500, 401, 202} /\ (W!handle_github_webhook(r) = 202 => r.signed)
  BY DEF W!handle_github_webhook
<1>2. W!handle_run(r) \in {400, 0}
  BY DEF W!handle_run
<1>3. /\ W!handle_connection(r, disk) \in {404, 500, 401, 202, 200, 400, 0}
      /\ W!handle_connection(r, disk) = 202 => W!Hook(r) /\ r.signed
      /\ W!handle_connection(r, disk) = 0 => r.bearer
  <2>1. CASE W!Hook(r)
    BY <1>1, <2>1 DEF W!handle_connection
  <2>2. CASE ~W!Hook(r) /\ ~r.bearer
    BY <2>2 DEF W!handle_connection
  <2>3. CASE ~W!Hook(r) /\ r.bearer
    BY <1>2, <2>3 DEF W!handle_connection
  <2>4. QED
    BY <2>1, <2>2, <2>3
<1>4. QED
  BY <1>3 DEF W!write_json, Allowed

LEMMA StepHttp ==
    ASSUME HttpInv, W!ServerNext PROVE HttpInv'
<1>1. ASSUME NEW r \in Request, W!request(r) PROVE HttpInv'
  <2>1. PICK disk \in {"opens", "fails"} :
          LET status == W!handle_connection(r, disk)
              taken == status = 0 \/ (status = 202 /\ W!route_event(r))
          IN  http' = [at |-> IF taken THEN "running" ELSE "read", request |-> r, own |-> 0,
                       said |-> status, answer |-> IF status = 0 THEN 0 ELSE W!write_json(status),
                       outcome |-> "none", comment |-> "none"]
    BY <1>1 DEF W!request
  <2>2. QED
    BY <2>1, StatusAllows DEF HttpInv, Connection, W!Outcome
<1>2. CASE W!gives_up
  BY <1>2 DEF W!gives_up, HttpInv, Connection, W!Closed, W!Outcome
<1>3. CASE W!http_run_begins
  BY <1>3 DEF W!http_run_begins, HttpInv, Connection, W!Closed, W!Outcome
<1>4. CASE W!http_run_ends
  <2>1. http \in Connection /\ http.at = "running" /\ Allowed(http.request) /\ http.comment = "none"
    BY <1>4 DEF W!http_run_ends, HttpInv, W!Closed
  <2>2. PICK outcome \in W!Outcome :
          http' = IF W!Hook(http.request)
                  THEN [http EXCEPT !.at = "commenting", !.outcome = outcome]
                  ELSE [http EXCEPT !.at = "read", !.outcome = outcome,
                                    !.answer = W!answer_of(outcome)]
    BY <1>4 DEF W!http_run_ends, W!Outcome
  <2>3. W!answer_of(outcome) \in Int
    BY DEF W!answer_of, W!write_json
  <2>4. QED
    BY <2>1, <2>2, <2>3 DEF HttpInv, Connection, W!Outcome
<1>5. CASE W!post_comment
  <2>1. http \in Connection /\ http.at = "commenting" /\ (http.own # 0 => Allowed(http.request))
    BY <1>5 DEF W!post_comment, HttpInv, W!Closed
  <2>2. PICK comment \in {http.outcome, "lost"} : http' = [http EXCEPT !.at = "read", !.comment = comment]
    BY <1>5 DEF W!post_comment
  <2>3. QED
    BY <2>1, <2>2 DEF HttpInv, Connection, W!Outcome
<1>6. CASE W!closes
  BY <1>6 DEF W!closes, HttpInv
<1>7. CASE W!mcp_line
  BY <1>7 DEF W!mcp_line, HttpInv
<1>8. QED
  BY <1>1, <1>2, <1>3, <1>4, <1>5, <1>6, <1>7 DEF W!ServerNext

LEMMA HttpFromInv ==
    ASSUME HttpInv PROVE W!HttpRunsAreAllowed
BY DEF HttpInv, W!HttpRunsAreAllowed, Allowed, Connection

-----------------------------------------------------------------------------
(* the editor: what a prompt's emitter has told *)

Line == Nat \X Nat \X (W!EventKind \cup {"nothing"})
Lines == Seq(Line)
Events == Seq(W!EventKind)
Journals == Seq(Events)

IsPrompt(e) ==
    /\ e = [at |-> e.at, session |-> e.session, before |-> e.before, run |-> e.run,
            own |-> e.own, instance_found |-> e.instance_found, emitted |-> e.emitted,
            updates |-> e.updates, stop |-> e.stop, unread |-> e.unread]
    /\ e.before \in Nat /\ e.own \in Nat /\ e.instance_found \in Nat /\ e.emitted \in Nat
    /\ e.updates \in Lines

\* What has been told is the beginning of the instance that was found.
Told(jnl, i, k) == <<i, k, IF W!shown(jnl[i][k]) THEN jnl[i][k] ELSE "nothing">>
Streamed(jnl, e) ==
    IF e.instance_found = 0 THEN e.emitted = 0 /\ e.updates = <<>>
    ELSE /\ e.emitted <= Len(jnl[e.instance_found]) /\ Len(e.updates) = e.emitted
         /\ \A k \in 1..e.emitted : e.updates[k] = Told(jnl, e.instance_found, k)

\* After the run's end its instance grows no more, so that the tail is its end.
Control(e) ==
    /\ e.at \in {"none", "spawned"} => e.run = "none"
    /\ e.run \in {"none", "starting"} => e.own = 0
    /\ e.run = "going" => e.own # 0
    /\ e.at = "tail" \/ e.stop = "end_turn" => e.run = "done"
    /\ e.stop = "end_turn" => e.at \in {"answering", "answered", "over"}
Placed(jnl, e) == e.own <= Len(jnl) /\ e.instance_found <= Len(jnl)
Complete(jnl, e) ==
    e.stop = "end_turn" /\ ~e.unread /\ e.instance_found # 0 /\ e.instance_found = e.own
      => e.emitted = Len(jnl[e.own])
Sane(jnl, e) ==
    /\ IsPrompt(e) /\ Control(e) /\ Placed(jnl, e)
    /\ ~e.unread => Streamed(jnl, e)
    /\ Complete(jnl, e)

EditorInv ==
    /\ journal \in Journals
    /\ DOMAIN prompt = Prompt /\ prompt = [p \in Prompt |-> prompt[p]]
    /\ \A p \in Prompt : Sane(journal, prompt[p])
    /\ \A p, q \in Prompt : p # q /\ prompt[p].own # 0 => prompt[p].own # prompt[q].own

LEMMA InitEditor ==
    ASSUME W!EditorInit PROVE EditorInv
<1>1. IsPrompt(W!Quiet)
  BY DEF IsPrompt, W!Quiet, Lines
<1>2. Sane(journal, W!Quiet)
  BY <1>1 DEF W!EditorInit, W!Quiet, Sane, Control, Placed, Streamed, Complete
<1>3. QED
  BY <1>2 DEF W!EditorInit, EditorInv, Journals, W!Quiet

\* One prompt changes, and nothing else.
LEMMA PromptStep ==
    ASSUME EditorInv, UNCHANGED journal, NEW p \in Prompt, NEW e, Sane(journal, e),
           e.own = prompt[p].own, prompt' = [prompt EXCEPT ![p] = e]
    PROVE  EditorInv'
<1>1. prompt'[p] = e /\ \A q \in Prompt : q # p => prompt'[q] = prompt[q]
  BY DEF EditorInv
<1>2. ASSUME NEW q \in Prompt PROVE Sane(journal', prompt'[q]) /\ prompt'[q].own = prompt[q].own
  BY <1>1 DEF EditorInv
<1>3. QED
  BY <1>1, <1>2 DEF EditorInv

Grows(old, new) ==
    /\ old \in Journals /\ new \in Journals /\ Len(old) <= Len(new)
    /\ \A i \in 1..Len(old) :
          Len(old[i]) <= Len(new[i]) /\ \A k \in 1..Len(old[i]) : new[i][k] = old[i][k]

\* The journal grows, and not where a run has ended.
LEMMA Grown ==
    ASSUME NEW old, NEW new, Grows(old, new), NEW e, Sane(old, e),
           e.run = "done" /\ e.own # 0 => new[e.own] = old[e.own]
    PROVE  Sane(new, e)
<1>1. /\ Len(old) \in Nat /\ Len(new) \in Nat /\ Len(old) <= Len(new)
      /\ \A i \in 1..Len(old) : Len(old[i]) \in Nat
      /\ \A i \in 1..Len(old) : Len(new[i]) \in Nat
  BY DEF Grows, Journals, Events
<1>2. e.own \in 0..Len(old) /\ e.instance_found \in 0..Len(old) /\ e.emitted \in Nat
  BY <1>1 DEF Sane, IsPrompt, Placed
<1>3. IsPrompt(e) /\ Control(e) /\ Placed(new, e)
  BY <1>1, <1>2 DEF Sane, Placed
<1>4. ASSUME ~e.unread PROVE Streamed(new, e)
  <2>1. Streamed(old, e)
    BY <1>4 DEF Sane
  <2>2. CASE e.instance_found = 0
    BY <2>1, <2>2 DEF Streamed
  <2>3. CASE e.instance_found # 0
    <3>1. PICK i : i = e.instance_found /\ i \in 1..Len(old)
      BY <1>1, <1>2, <2>3
    <3>2. /\ e.emitted <= Len(old[i]) /\ e.emitted <= Len(new[i]) /\ Len(e.updates) = e.emitted
          /\ \A k \in 1..e.emitted : e.updates[k] = Told(old, i, k)
      BY <1>1, <1>2, <2>1, <2>3, <3>1 DEF Streamed, Grows
    <3>3. ASSUME NEW k \in 1..e.emitted PROVE Told(old, i, k) = Told(new, i, k)
      <4>1. k \in 1..Len(old[i])
        BY <1>1, <1>2, <3>1, <3>2
      <4>2. old[i][k] = new[i][k]
        BY <4>1, <3>1 DEF Grows
      <4>3. QED
        BY <4>2 DEF Told
    <3>4. QED
      BY <2>3, <3>1, <3>2, <3>3 DEF Streamed
  <2>4. QED
    BY <2>2, <2>3
<1>5. Complete(new, e)
  BY <1>1, <1>2 DEF Sane, Complete, Control
<1>6. QED
  BY <1>3, <1>4, <1>5 DEF Sane

\* A new instance, of a prompt's run or of another command.
LEMMA NewInstance ==
    ASSUME EditorInv, NEW kind \in W!EventKind, journal' = Append(journal, <<kind>>)
    PROVE  /\ journal' \in Journals /\ Len(journal') = Len(journal) + 1 /\ Len(journal) \in Nat
           /\ \A e : Sane(journal, e) => Sane(journal', e)
<1>1. <<kind>> \in Events
  BY DEF Events
<1>2. /\ journal' \in Journals /\ Len(journal') = Len(journal) + 1 /\ Len(journal) \in Nat
      /\ \A i \in 1..Len(journal) : journal'[i] = journal[i]
  BY <1>1 DEF EditorInv, Journals
<1>3. \A i \in 1..Len(journal) : Len(journal[i]) \in Nat
  BY DEF EditorInv, Journals, Events
<1>4. Grows(journal, journal')
  BY <1>2, <1>3 DEF EditorInv, Grows
<1>5. ASSUME NEW e, Sane(journal, e) PROVE Sane(journal', e)
  <2>1. e.own # 0 => e.own \in 1..Len(journal)
    BY <1>2, <1>5 DEF Sane, Placed, IsPrompt
  <2>2. QED
    BY <1>2, <1>4, <1>5, <2>1, Grown
<1>6. QED
  BY <1>2, <1>5

LEMMA StepBegins ==
    ASSUME EditorInv, NEW p \in Prompt, W!run_begins(p) PROVE EditorInv'
<1>1. Sane(journal, prompt[p]) /\ prompt[p].run = "starting" /\ prompt[p].own = 0
  BY DEF W!run_begins, EditorInv, Sane, Control
<1>2. ASSUME NEW kind \in W!EventKind, journal' = Append(journal, <<kind>>),
             prompt' = [prompt EXCEPT ![p].run = "going", ![p].own = Len(journal) + 1]
      PROVE  EditorInv'
  <2>1. PICK e : e = [prompt[p] EXCEPT !.run = "going", !.own = Len(journal) + 1]
    OBVIOUS
  <2>2. /\ Len(journal) \in Nat /\ journal' \in Journals /\ Len(journal') = Len(journal) + 1
        /\ \A f : Sane(journal, f) => Sane(journal', f)
    BY <1>2, NewInstance
  <2>3. Sane(journal', prompt[p])
    BY <1>1, <2>2
  <2>4. prompt'[p] = e /\ DOMAIN prompt' = Prompt /\ prompt' = [q \in Prompt |-> prompt'[q]]
        /\ \A q \in Prompt : q # p => prompt'[q] = prompt[q]
    BY <1>2, <2>1 DEF EditorInv
  <2>5. Sane(journal', e) /\ e.own = Len(journal) + 1
    <3>1. IsPrompt(e) /\ e.own = Len(journal) + 1 /\ e.run = "going" /\ e.at = prompt[p].at
          /\ e.stop = prompt[p].stop /\ e.unread = prompt[p].unread
          /\ e.instance_found = prompt[p].instance_found /\ e.emitted = prompt[p].emitted
          /\ e.updates = prompt[p].updates
      <4>1. PICK x : x = prompt[p]
        OBVIOUS
      <4>2. PICK n \in Nat : n = Len(journal) + 1
        BY <2>2
      <4>3. IsPrompt(x) /\ e = [x EXCEPT !.run = "going", !.own = n]
        BY <1>1, <2>1, <4>1, <4>2 DEF Sane
      <4>4. /\ IsPrompt(e) /\ e.own = n /\ e.run = "going" /\ e.at = x.at
            /\ e.stop = x.stop /\ e.unread = x.unread /\ e.instance_found = x.instance_found
            /\ e.emitted = x.emitted /\ e.updates = x.updates
        <5>1. e = [at |-> x.at, session |-> x.session, before |-> x.before, run |-> "going",
                   own |-> n, instance_found |-> x.instance_found, emitted |-> x.emitted,
                   updates |-> x.updates, stop |-> x.stop, unread |-> x.unread]
          BY <4>3 DEF IsPrompt
        <5>2. QED
          BY <4>2, <4>3, <5>1 DEF IsPrompt
      <4>5. QED
        BY <4>1, <4>2, <4>4
    <3>2. Control(e)
      BY <1>1, <2>2, <3>1 DEF Sane, Control
    <3>3. Placed(journal', e) /\ Complete(journal', e)
      BY <1>1, <2>2, <2>3, <3>1, <3>2 DEF Sane, Control, Placed, Complete
    <3>4. e.unread \/ Streamed(journal', e)
      BY <2>3, <3>1 DEF Sane, Streamed
    <3>5. QED
      BY <3>1, <3>2, <3>3, <3>4 DEF Sane
  <2>6. \A q \in Prompt : prompt[q].own <= Len(journal) /\ prompt[q].own \in Nat
    BY DEF EditorInv, Sane, Placed, IsPrompt
  <2>7. \A q \in Prompt : Sane(journal', prompt'[q])
    BY <2>2, <2>4, <2>5 DEF EditorInv
  <2>8. \A q, r \in Prompt : q # r /\ prompt'[q].own # 0 => prompt'[q].own # prompt'[r].own
    BY <2>2, <2>4, <2>5, <2>6 DEF EditorInv
  <2>9. QED
    BY <2>2, <2>4, <2>7, <2>8 DEF EditorInv
<1>3. CASE prompt' = [prompt EXCEPT ![p].run = "done"] /\ UNCHANGED journal
  <2>1. PICK e : e = [prompt[p] EXCEPT !.run = "done"]
    OBVIOUS
  <2>2. Sane(journal, e) /\ e.own = prompt[p].own
    BY <1>1, <2>1 DEF Sane, IsPrompt, Control, Placed, Streamed, Complete
  <2>3. QED
    BY <1>3, <2>1, <2>2, PromptStep
<1>4. QED
  BY <1>2, <1>3 DEF W!run_begins

LEMMA StepGoesOn ==
    ASSUME EditorInv, NEW p \in Prompt, W!run_goes_on(p) PROVE EditorInv'
<1>1. prompt[p].run = "going" /\ Sane(journal, prompt[p]) /\ prompt' = prompt
  BY DEF W!run_goes_on, EditorInv
<1>2. PICK i : i = prompt[p].own
  OBVIOUS
<1>3. i \in 1..Len(journal) /\ journal \in Journals /\ Len(journal) \in Nat
  BY <1>1, <1>2 DEF Sane, Control, Placed, IsPrompt, EditorInv, Journals
<1>4. PICK kind \in W!EventKind : journal' = [journal EXCEPT ![i] = Append(journal[i], kind)]
  BY <1>2 DEF W!run_goes_on, W!appended
<1>5. journal[i] \in Events
  BY <1>3 DEF Journals
<1>6. PICK longer : longer = Append(journal[i], kind)
  OBVIOUS
<1>7. /\ longer \in Events /\ Len(longer) = Len(journal[i]) + 1 /\ Len(journal[i]) \in Nat
      /\ \A k \in 1..Len(journal[i]) : longer[k] = journal[i][k]
  BY <1>5, <1>6, AppendProperties DEF Events
<1>8. /\ journal' \in Journals /\ Len(journal') = Len(journal) /\ journal'[i] = longer
      /\ \A j \in 1..Len(journal) : j # i => journal'[j] = journal[j]
  BY <1>3, <1>4, <1>6, <1>7 DEF Journals
<1>9. Grows(journal, journal')
  <2>1. \A j \in 1..Len(journal) : Len(journal[j]) \in Nat
    BY <1>3 DEF Journals, Events
  <2>2. QED
    BY <1>3, <1>7, <1>8, <2>1 DEF Grows
<1>10. ASSUME NEW q \in Prompt PROVE Sane(journal', prompt'[q])
  <2>1. Sane(journal, prompt[q]) /\ (prompt[q].run = "done" => q # p)
    BY <1>1 DEF EditorInv
  <2>2. prompt[q].run = "done" => prompt[q].own # i
    BY <1>1, <1>2, <1>3, <2>1 DEF EditorInv
  <2>3. prompt[q].own # 0 => prompt[q].own \in 1..Len(journal)
    BY <1>3, <2>1 DEF Sane, Placed, IsPrompt
  <2>4. QED
    BY <1>1, <1>8, <1>9, <2>1, <2>2, <2>3, Grown
<1>11. QED
  BY <1>1, <1>8, <1>10 DEF EditorInv

\* What a look adds to what was told.
LEMMA Sends ==
    ASSUME journal \in Journals, NEW e, Sane(journal, e), NEW i \in 1..Len(journal),
           e.instance_found \in {0, i}, NEW f, f = W!sends(e, i)
    PROVE  /\ IsPrompt(f) /\ Placed(journal, f) /\ (~f.unread => Streamed(journal, f))
           /\ f.instance_found = i /\ f.emitted = Len(journal[i])
           /\ f.own = e.own /\ f.at = e.at /\ f.run = e.run /\ f.stop = e.stop /\ f.unread = e.unread
<1>1. journal[i] \in Events /\ Len(journal[i]) \in Nat
  BY DEF Journals, Events
<1>2. PICK m \in Nat : m = e.emitted
  BY DEF Sane, IsPrompt
<1>3. PICK us : us = W!Updates(i, m)
  OBVIOUS
<1>4. us = [k \in 1..Len(journal[i]) - m |-> Told(journal, i, m + k)]
  BY <1>3 DEF W!Updates, W!emit_event, Told
<1>5. ASSUME NEW k \in 1..Len(journal[i]) PROVE Told(journal, i, k) \in Line
  <2>1. journal[i][k] \in W!EventKind
    BY <1>1 DEF Events
  <2>2. QED
    BY <1>1, <2>1 DEF Told, Line
<1>6. PICK n : n = IF m <= Len(journal[i]) THEN Len(journal[i]) - m ELSE 0
  OBVIOUS
<1>7. n \in Nat /\ 1..Len(journal[i]) - m = 1..n
  BY <1>1, <1>6
<1>8. us \in Lines /\ Len(us) = n
  <2>1. \A k \in 1..n : m + k \in 1..Len(journal[i])
    BY <1>1, <1>6, <1>7
  <2>2. us \in [1..n -> Line]
    BY <1>4, <1>5, <1>7, <2>1
  <2>3. QED
    BY <1>7, <2>2 DEF Lines
<1>9. PICK all : all = e.updates \o us
  OBVIOUS
<1>10. /\ all \in Lines /\ Len(all) = Len(e.updates) + n /\ Len(e.updates) \in Nat
       /\ \A k \in 1..Len(e.updates) : all[k] = e.updates[k]
       /\ \A k \in 1..n : all[Len(e.updates) + k] = us[k]
  <2>1. e.updates \in Seq(Line)
    BY DEF Lines, Sane, IsPrompt
  <2>2. QED
    <3>1. PICK ups \in Seq(Line) : ups = e.updates
      BY <2>1
    <3>2. /\ all \in Seq(Line) /\ Len(all) = Len(ups) + n /\ Len(ups) \in Nat
          /\ \A k \in 1..Len(ups) : all[k] = ups[k]
          /\ \A k \in 1..n : all[Len(ups) + k] = us[k]
      <4>1. /\ ups \o us \in Seq(Line) /\ Len(ups \o us) = Len(ups) + Len(us) /\ Len(ups) \in Nat
            /\ \A k \in 1..Len(ups) + Len(us) :
                  (ups \o us)[k] = IF k <= Len(ups) THEN ups[k] ELSE us[k - Len(ups)]
        BY <1>8, <3>1, ConcatProperties, LenProperties DEF Lines
      <4>2. all = ups \o us /\ Len(us) = n
        BY <1>8, <1>9, <3>1
      <4>3. QED
        BY <1>7, <4>1, <4>2
    <3>3. QED
      BY <3>1, <3>2 DEF Lines
<1>11. PICK len \in Nat : len = Len(journal[i])
  BY <1>1
<1>12. f = [at |-> e.at, session |-> e.session, before |-> e.before, run |-> e.run, own |-> e.own,
            instance_found |-> i, emitted |-> len, updates |-> all, stop |-> e.stop,
            unread |-> e.unread]
  BY <1>2, <1>3, <1>9, <1>11 DEF W!sends, Sane, IsPrompt
<1>13. IsPrompt(f) /\ Placed(journal, f)
  BY <1>10, <1>12 DEF Sane, IsPrompt, Placed
<1>14. ASSUME ~e.unread PROVE Streamed(journal, f)
  <2>1. m <= len /\ Len(e.updates) = m /\ \A k \in 1..m : e.updates[k] = Told(journal, i, k)
    BY <1>2, <1>11, <1>14 DEF Sane, Streamed
  <2>2. n = len - m /\ Len(all) = len
    BY <1>6, <1>10, <1>11, <2>1
  <2>3. ASSUME NEW k \in 1..len PROVE all[k] = Told(journal, i, k)
    <3>1. CASE k \in 1..m
      BY <1>10, <2>1, <3>1
    <3>2. CASE k \notin 1..m
      <4>1. PICK j \in 1..n : k = m + j
        BY <2>2, <3>2
      <4>2. QED
        BY <1>4, <1>7, <1>10, <2>1, <4>1
    <3>3. QED
      BY <3>1, <3>2
  <2>4. QED
    BY <1>11, <1>12, <2>2, <2>3 DEF Streamed
<1>15. QED
  BY <1>11, <1>12, <1>13, <1>14

LEMMA Found ==
    ASSUME EditorInv, NEW p \in Prompt, NEW i \in W!news(prompt[p])
    PROVE  i \in 1..Len(journal) /\ prompt[p].instance_found \in {0, i}
<1>1. Sane(journal, prompt[p]) /\ Len(journal) \in Nat
  BY DEF EditorInv, Journals
<1>2. QED
  BY <1>1 DEF W!news, Sane, Placed, IsPrompt

LEMMA StepPoll ==
    ASSUME EditorInv, NEW p \in Prompt, W!poll(p) PROVE EditorInv'
<1>1. PICK e : e = prompt[p]
  OBVIOUS
<1>2. /\ Sane(journal, e) /\ e.at = "polling" /\ e.stop # "end_turn"
      /\ IsPrompt(e) /\ Control(e) /\ Placed(journal, e) /\ (~e.unread => Streamed(journal, e))
      /\ journal \in Journals /\ journal' = journal /\ Len(journal) \in Nat
  BY <1>1 DEF EditorInv, Sane, Control, W!poll, Journals
<1>3. ASSUME NEW f, IsPrompt(f), Placed(journal, f), ~f.unread => Streamed(journal, f),
             f.own = e.own, f.run = e.run, f.at # "tail", f.at \notin {"none", "spawned"},
             f.stop # "end_turn", prompt' = [prompt EXCEPT ![p] = f]
      PROVE  EditorInv'
  <2>1. Sane(journal, f)
    BY <1>2, <1>3 DEF Sane, Control, Complete
  <2>2. QED
    BY <1>1, <1>2, <1>3, <2>1, PromptStep
<1>4. CASE e.session \in cancelled
  <2>1. PICK f : f = [at |-> "answering", session |-> e.session, before |-> e.before, run |-> e.run,
             own |-> e.own, instance_found |-> e.instance_found, emitted |-> e.emitted,
             updates |-> e.updates, stop |-> "cancelled", unread |-> e.unread]
    OBVIOUS
  <2>2. prompt' = [prompt EXCEPT ![p] = f]
    BY <1>1, <1>2, <1>4, <2>1 DEF W!poll, IsPrompt
  <2>3. IsPrompt(f) /\ Placed(journal, f) /\ (~f.unread => Streamed(journal, f))
    BY <1>2, <2>1 DEF IsPrompt, Placed, Streamed
  <2>4. QED
    BY <1>3, <2>1, <2>2, <2>3
<1>5. CASE e.session \notin cancelled
  <2>1. PICK after \in W!looks(e) : prompt' = [prompt EXCEPT ![p] = [after EXCEPT !.at = "looking"]]
    BY <1>1, <1>5 DEF W!poll
  <2>2. /\ IsPrompt(after) /\ Placed(journal, after) /\ (~after.unread => Streamed(journal, after))
        /\ after.own = e.own /\ after.run = e.run /\ after.stop # "end_turn"
    <3>0. DEFINE Right(a) ==
            /\ IsPrompt(a) /\ Placed(journal, a) /\ (~a.unread => Streamed(journal, a))
            /\ a.own = e.own /\ a.run = e.run /\ a.stop # "end_turn"
    <3>1. Right(e)
      BY <1>2
    <3>2. ASSUME NEW i \in W!news(e), after = W!sends(e, i) PROVE Right(after)
      BY <1>1, <1>2, <3>2, Found, Sends, SMTT(60)
    <3>3. ASSUME NEW i \in W!news(e), after = W!forgotten(e, i) PROVE Right(after)
      <4>1. i \in Nat /\ i <= Len(journal)
        BY <1>1, <1>2, <3>3, Found
      <4>2. PICK on : on = TRUE
        OBVIOUS
      <4>3. after = [at |-> e.at, session |-> e.session, before |-> e.before, run |-> e.run,
             own |-> e.own, instance_found |-> i, emitted |-> 0,
             updates |-> e.updates, stop |-> e.stop, unread |-> on]
        BY <1>2, <3>3, <4>2 DEF IsPrompt, W!forgotten
      <4>4. QED
        BY <1>2, <4>1, <4>2, <4>3 DEF IsPrompt, Placed
    <3>4. Right(after)
      <4> HIDE DEF Right
      <4>1. QED
        BY <2>1, <3>1, <3>2, <3>3 DEF W!looks
    <3>5. QED
      BY <3>4
  <2>3. PICK f : f = [at |-> "looking", session |-> after.session, before |-> after.before,
             run |-> after.run, own |-> after.own, instance_found |-> after.instance_found,
             emitted |-> after.emitted, updates |-> after.updates, stop |-> after.stop,
             unread |-> after.unread]
    OBVIOUS
  <2>4. prompt' = [prompt EXCEPT ![p] = f]
    <3>1. f = [after EXCEPT !.at = "looking"]
      BY <2>2, <2>3 DEF IsPrompt
    <3>2. QED
      BY <2>1, <3>1
  <2>5. IsPrompt(f) /\ Placed(journal, f) /\ (~f.unread => Streamed(journal, f))
    BY <2>2, <2>3 DEF IsPrompt, Placed, Streamed
  <2>6. QED
    BY <1>3, <2>2, <2>3, <2>4, <2>5
<1>6. QED
  BY <1>4, <1>5

LEMMA StepTail ==
    ASSUME EditorInv, NEW p \in Prompt, W!tail(p) PROVE EditorInv'
<1>1. PICK e : e = prompt[p]
  OBVIOUS
<1>2. /\ Sane(journal, e) /\ e.at = "tail" /\ e.run = "done"
      /\ IsPrompt(e) /\ Control(e) /\ Placed(journal, e) /\ (~e.unread => Streamed(journal, e))
      /\ journal \in Journals /\ journal' = journal /\ Len(journal) \in Nat
  BY <1>1 DEF EditorInv, Sane, Control, W!tail, Journals
<1>3. PICK after \in W!fetched(e) :
        prompt' = [prompt EXCEPT ![p] = [after EXCEPT !.at = "answering", !.stop = "end_turn"]]
  BY <1>1 DEF W!tail
<1>4. DEFINE Right(a) ==
        /\ IsPrompt(a) /\ Placed(journal, a) /\ (~a.unread => Streamed(journal, a))
        /\ a.own = e.own /\ a.run = "done"
        /\ ~a.unread /\ a.instance_found # 0 => a.emitted = Len(journal[a.instance_found])
<1>5. Right(after)
  <2>1. CASE e.instance_found = 0
    BY <1>2, <1>3, <2>1 DEF W!fetched
  <2>2. CASE e.instance_found # 0
    <3>1. PICK i : i = e.instance_found /\ i \in 1..Len(journal)
      BY <1>2, <2>2 DEF IsPrompt, Placed
    <3>2. ASSUME after = W!sends(e, i) PROVE Right(after)
      BY <1>2, <3>1, <3>2, Sends
    <3>3. ASSUME after = [e EXCEPT !.unread = TRUE] PROVE Right(after)
      <4>1. PICK on : on = TRUE
        OBVIOUS
      <4>2. after = [at |-> e.at, session |-> e.session, before |-> e.before, run |-> e.run,
             own |-> e.own, instance_found |-> e.instance_found, emitted |-> e.emitted,
             updates |-> e.updates, stop |-> e.stop, unread |-> on]
        BY <1>2, <3>3, <4>1 DEF IsPrompt
      <4>3. QED
        BY <1>2, <4>1, <4>2 DEF IsPrompt, Placed
    <3>4. after \in {W!sends(e, i), [e EXCEPT !.unread = TRUE]}
      BY <1>3, <2>2, <3>1 DEF W!fetched
    <3>5. QED
      <4> HIDE DEF Right
      <4>1. QED
        BY <3>2, <3>3, <3>4
  <2>3. QED
    BY <2>1, <2>2
<1>6. PICK f : f = [at |-> "answering", session |-> after.session, before |-> after.before,
             run |-> after.run, own |-> after.own, instance_found |-> after.instance_found,
             emitted |-> after.emitted, updates |-> after.updates, stop |-> "end_turn",
             unread |-> after.unread]
  OBVIOUS
<1>7. prompt' = [prompt EXCEPT ![p] = f]
  <2>1. f = [after EXCEPT !.at = "answering", !.stop = "end_turn"]
    <3>1. IsPrompt(after)
      BY <1>5
    <3>2. QED
      <4>1. PICK g : g = [after EXCEPT !.at = "answering", !.stop = "end_turn"]
        OBVIOUS
      <4>2. g =
              [at |-> "answering", session |-> after.session, before |-> after.before,
               run |-> after.run, own |-> after.own, instance_found |-> after.instance_found,
               emitted |-> after.emitted, updates |-> after.updates, stop |-> "end_turn",
               unread |-> after.unread]
        BY <3>1, <4>1 DEF IsPrompt
      <4>3. g = f
        BY <1>6, <4>2
      <4>4. QED
        BY <4>1, <4>3
  <2>2. QED
    BY <1>3, <2>1
<1>8. Sane(journal, f)
  <2>1. IsPrompt(f) /\ Placed(journal, f) /\ (~f.unread => Streamed(journal, f))
    BY <1>5, <1>6 DEF IsPrompt, Placed, Streamed
  <2>2. Control(f) /\ Complete(journal, f)
    BY <1>5, <1>6 DEF Control, Complete
  <2>3. QED
    BY <2>1, <2>2 DEF Sane
<1>9. QED
  BY <1>1, <1>2, <1>5, <1>6, <1>7, <1>8, PromptStep

\* A step that moves a prompt's threads and tells nothing.
LEMMA Moves ==
    ASSUME EditorInv, NEW p \in Prompt, UNCHANGED journal, NEW e, e = prompt[p],
           NEW at, NEW s, NEW before \in Nat, NEW run, NEW f,
           f = [at |-> at, session |-> s, before |-> before, run |-> run, own |-> e.own,
                instance_found |-> e.instance_found, emitted |-> e.emitted,
                updates |-> e.updates, stop |-> e.stop, unread |-> e.unread],
           Control(f), prompt' = [prompt EXCEPT ![p] = f]
    PROVE  EditorInv'
<1>1. Sane(journal, e)
  BY DEF EditorInv
<1>2. IsPrompt(f) /\ Placed(journal, f) /\ (~f.unread => Streamed(journal, f)) /\ Complete(journal, f)
  BY <1>1 DEF Sane, IsPrompt, Placed, Streamed, Complete
<1>3. Sane(journal, f)
  BY <1>2 DEF Sane
<1>4. QED
  BY <1>3, PromptStep

LEMMA StepMoves ==
    ASSUME EditorInv, NEW p \in Prompt,
           \/ \E s \in 1..sessions : W!session_prompt(p, s)
           \/ W!run_prompt(p) \/ W!run_ends(p) \/ W!checks_done(p) \/ W!answer(p) \/ W!forgets(p)
    PROVE  EditorInv'
<1>1. PICK e : e = prompt[p]
  OBVIOUS
<1>2. IsPrompt(e) /\ Control(e) /\ e.before \in Nat /\ Len(journal) \in Nat
  BY <1>1 DEF EditorInv, Sane, IsPrompt, Journals
<1>3. ASSUME NEW s \in 1..sessions, W!session_prompt(p, s) PROVE EditorInv'
  <2>1. PICK f : f = [at |-> "spawned", session |-> s, before |-> e.before, run |-> e.run,
                own |-> e.own, instance_found |-> e.instance_found, emitted |-> e.emitted,
                updates |-> e.updates, stop |-> e.stop, unread |-> e.unread]
    OBVIOUS
  <2>2. prompt' = [prompt EXCEPT ![p] = f] /\ e.at = "none" /\ UNCHANGED journal
    <3>1. f = [e EXCEPT !.at = "spawned", !.session = s]
      <4>1. PICK g : g = [e EXCEPT !.at = "spawned", !.session = s]
        OBVIOUS
      <4>2. g =
              [at |-> "spawned", session |-> s, before |-> e.before, run |-> e.run,
               own |-> e.own, instance_found |-> e.instance_found, emitted |-> e.emitted,
               updates |-> e.updates, stop |-> e.stop, unread |-> e.unread]
        BY <1>2, <4>1 DEF IsPrompt
      <4>3. g = f
        BY <2>1, <4>2
      <4>4. QED
        BY <4>1, <4>3
    <3>2. QED
      BY <1>1, <1>3, <3>1 DEF W!session_prompt
  <2>3. Control(f)
    BY <1>2, <2>1, <2>2 DEF Control
  <2>4. QED
    BY <1>1, <1>2, <2>1, <2>2, <2>3, Moves
<1>4. CASE W!run_prompt(p)
  <2>1. PICK before \in {0, Len(journal)} :
          prompt' = [prompt EXCEPT ![p].at = "polling", ![p].run = "starting", ![p].before = before]
    BY <1>4 DEF W!run_prompt
  <2>2. PICK f : f = [at |-> "polling", session |-> e.session, before |-> before,
                run |-> "starting", own |-> e.own, instance_found |-> e.instance_found,
                emitted |-> e.emitted, updates |-> e.updates, stop |-> e.stop, unread |-> e.unread]
    OBVIOUS
  <2>3. prompt' = [prompt EXCEPT ![p] = f] /\ e.at = "spawned" /\ UNCHANGED journal
    <3>1. f = [e EXCEPT !.at = "polling", !.run = "starting", !.before = before]
      <4>1. PICK g : g = [e EXCEPT !.at = "polling", !.run = "starting", !.before = before]
        OBVIOUS
      <4>2. g =
              [at |-> "polling", session |-> e.session, before |-> before,
               run |-> "starting", own |-> e.own, instance_found |-> e.instance_found,
               emitted |-> e.emitted, updates |-> e.updates, stop |-> e.stop, unread |-> e.unread]
        BY <1>2, <4>1 DEF IsPrompt
      <4>3. g = f
        BY <2>2, <4>2
      <4>4. QED
        BY <4>1, <4>3
    <3>2. QED
      BY <1>1, <1>4, <2>1, <3>1 DEF W!run_prompt
  <2>4. Control(f) /\ before \in Nat
    BY <1>2, <2>2, <2>3 DEF Control
  <2>5. QED
    BY <1>1, <1>2, <2>2, <2>3, <2>4, Moves
<1>5. CASE W!run_ends(p)
  <2>1. PICK f : f = [at |-> e.at, session |-> e.session, before |-> e.before, run |-> "done",
                own |-> e.own, instance_found |-> e.instance_found, emitted |-> e.emitted,
                updates |-> e.updates, stop |-> e.stop, unread |-> e.unread]
    OBVIOUS
  <2>2. prompt' = [prompt EXCEPT ![p] = f] /\ e.run = "going" /\ UNCHANGED journal
    <3>1. f = [e EXCEPT !.run = "done"]
      BY <1>2, <2>1 DEF IsPrompt
    <3>2. QED
      BY <1>1, <1>5, <3>1 DEF W!run_ends
  <2>3. Control(f)
    BY <1>2, <2>1, <2>2 DEF Control
  <2>4. QED
    BY <1>1, <1>2, <2>1, <2>2, <2>3, Moves
<1>6. ASSUME NEW at, at \notin {"none", "spawned"}, at = "tail" => e.run = "done",
             e.stop = "end_turn" => at \in {"answering", "answered", "over"},
             prompt' = [prompt EXCEPT ![p].at = at], UNCHANGED journal
      PROVE  EditorInv'
  <2>1. PICK f : f = [at |-> at, session |-> e.session, before |-> e.before, run |-> e.run,
                own |-> e.own, instance_found |-> e.instance_found, emitted |-> e.emitted,
                updates |-> e.updates, stop |-> e.stop, unread |-> e.unread]
    OBVIOUS
  <2>2. prompt' = [prompt EXCEPT ![p] = f]
    <3>1. f = [e EXCEPT !.at = at]
      BY <1>2, <2>1 DEF IsPrompt
    <3>2. QED
      BY <1>1, <1>6, <3>1
  <2>3. Control(f)
    BY <1>2, <1>6, <2>1 DEF Control
  <2>4. QED
    BY <1>1, <1>2, <1>6, <2>1, <2>2, <2>3, Moves
<1>7. CASE W!checks_done(p)
  <2>1. PICK at : at = IF prompt[p].run = "done" THEN "tail" ELSE "polling"
    OBVIOUS
  <2>2. /\ prompt' = [prompt EXCEPT ![p].at = at] /\ UNCHANGED journal /\ e.at = "looking"
        /\ at \in {"tail", "polling"} /\ (at = "tail" => e.run = "done")
    BY <1>1, <1>7, <2>1 DEF W!checks_done
  <2>3. QED
    BY <1>2, <1>6, <2>2 DEF Control
<1>8. CASE W!answer(p)
  <2>1. PICK at : at = "answered"
    OBVIOUS
  <2>2. /\ prompt' = [prompt EXCEPT ![p].at = at] /\ UNCHANGED journal
        /\ at \in {"answered", "over"}
    BY <1>8, <2>1 DEF W!answer
  <2>3. QED
    BY <1>6, <2>2
<1>9. CASE W!forgets(p)
  <2>1. PICK at : at = "over"
    OBVIOUS
  <2>2. /\ prompt' = [prompt EXCEPT ![p].at = at] /\ UNCHANGED journal
        /\ at \in {"answered", "over"}
    BY <1>9, <2>1 DEF W!forgets
  <2>3. QED
    BY <1>6, <2>2
<1>10. QED
  BY <1>3, <1>4, <1>5, <1>7, <1>8, <1>9

LEMMA StepEditor ==
    ASSUME EditorInv, W!EditorNext PROVE EditorInv'
<1>1. CASE UNCHANGED <<journal, prompt>>
  BY <1>1 DEF EditorInv
<1>2. CASE W!other_run
  <2>1. journal' = Append(journal, <<"turn">>) /\ prompt' = prompt /\ "turn" \in W!EventKind
    BY <1>2 DEF W!other_run, W!EventKind
  <2>2. journal' \in Journals /\ \A e : Sane(journal, e) => Sane(journal', e)
    BY <2>1, NewInstance
  <2>3. QED
    BY <2>1, <2>2 DEF EditorInv
<1>3. QED
  BY <1>1, <1>2, StepMoves, StepBegins, StepGoesOn, StepPoll, StepTail
  DEF W!EditorNext, W!session_new, W!session_cancel

LEMMA StreamFromInv ==
    ASSUME EditorInv PROVE W!StreamIsExact
<1>1. SUFFICES ASSUME NEW p \in Prompt, prompt[p].stop = "end_turn",
                      prompt[p].instance_found = prompt[p].own, prompt[p].own # 0,
                      ~prompt[p].unread
               PROVE  prompt[p].updates = W!Updates(prompt[p].own, 0)
  BY DEF W!StreamIsExact
<1>2. PICK us \in Lines : us = prompt[p].updates
  BY DEF EditorInv, Sane, IsPrompt
<1>3. PICK i : i = prompt[p].own
  OBVIOUS
<1>4. i \in 1..Len(journal) /\ Len(journal[i]) \in Nat
  <2>1. Len(journal) \in Nat /\ Placed(journal, prompt[p]) /\ i \in Nat
    BY <1>3 DEF EditorInv, Sane, IsPrompt, Journals
  <2>2. i \in 1..Len(journal)
    BY <1>1, <1>3, <2>1 DEF Placed
  <2>3. QED
    BY <2>2 DEF EditorInv, Journals, Events
<1>5. Len(us) = Len(journal[i]) /\ \A k \in 1..Len(journal[i]) : us[k] = Told(journal, i, k)
  BY <1>1, <1>2, <1>3 DEF EditorInv, Sane, Streamed, Complete
<1>6. us = [k \in 1..Len(journal[i]) |-> us[k]]
  BY <1>2, <1>5 DEF Lines
<1>7. W!Updates(i, 0) = [k \in 1..Len(journal[i]) |-> Told(journal, i, k)]
  BY <1>4 DEF W!Updates, W!emit_event, Told
<1>8. QED
  BY <1>2, <1>3, <1>5, <1>6, <1>7

-----------------------------------------------------------------------------
(* the tools of a run *)

\* The gate's policies once the directories have been read.
PolicyInv ==
    /\ DOMAIN plugins \subseteq Int
    /\ stage \in {"connect", "ready", "closed"} =>
         policies = R!over(R!over(Stub, BuiltinTool), R!declared(plugins))

\* Whoever has been connected to has its tools, and its name its client.
Led(k) ==
    \A t \in R!ToSet(servers[k].tools) :
        /\ t \in DOMAIN routes /\ routes[t] = servers[k].name
        /\ servers[k].name \in DOMAIN clients /\ clients[servers[k].name] = k
Names == [k \in DOMAIN servers |-> servers[k].name]
RouteInv ==
    /\ servers \in McpServers /\ connected \in Nat /\ connected <= Len(servers)
    /\ stage = "scan" => connected = 0
    /\ stage = "ready" => connected = Len(servers)
    /\ stage \in {"connect", "ready"} /\ R!IsInjective(Names) => \A k \in 1..connected : Led(k)

\* Whom a call has left behind is at work for one that timed out or was lost.
Given == {"timeout", "lost"}
IsWork(w) ==
    /\ w = [to |-> w.to, tool |-> w.tool, state |-> w.state]
    /\ w.state \in {"runs", "ok", "error"}
CallInv ==
    /\ results \in Seq({"ok", "error", "timeout", "lost"})
    /\ \A n \in DOMAIN works : n \in 1..Len(results) + 1 /\ IsWork(works[n])
    /\ \A n \in DOMAIN works : n <= Len(results) => results[n] \in Given
    /\ \A n \in late : n \in 1..Len(results) /\ results[n] \in Given
    /\ call.at \in {"none", "begun", "writing", "waiting"}
    /\ call.at \in {"none", "begun"} <=> R!number \notin DOMAIN works

ToolInv == PolicyInv /\ RouteInv /\ CallInv

LEMMA InitTools ==
    ASSUME R!ToolInit PROVE ToolInv
<1>1. PolicyInv
  BY DEF R!ToolInit, PolicyInv
<1>2. RouteInv
  BY FrontAssumption DEF R!ToolInit, RouteInv, R!ToolAssumption
<1>3. CallInv
  BY DEF R!ToolInit, CallInv, R!number
<1>4. QED
  BY <1>1, <1>2, <1>3 DEF ToolInv

LEMMA StepPolicy ==
    ASSUME PolicyInv, R!ToolNext PROVE PolicyInv'
<1>1. CASE R!scan
  <2>1. DOMAIN plugins' \subseteq Int
    BY <1>1 DEF R!scan, R!SetToSeqs
  <2>2. QED
    BY <1>1, <2>1 DEF R!scan, PolicyInv
<1>2. CASE UNCHANGED <<plugins, policies>> /\ (stage' \in {"refused", stage}
              \/ (stage = "connect" /\ stage' = "ready") \/ (stage = "ready" /\ stage' = "closed"))
  BY <1>2 DEF PolicyInv
<1>3. QED
  BY <1>1, <1>2 DEF R!ToolNext, R!connect, R!refuses, R!stands, R!drop, R!calls_tool,
      R!answers_here, R!hands_over, R!writes, R!collects, R!times_out, R!breaks, R!acts, R!ends,
      R!bundle

LEMMA StepRoute ==
    ASSUME RouteInv, R!ToolNext PROVE RouteInv'
<1>0. Len(servers) \in Nat /\ servers \in Seq([name : STRING, tools : Seq(STRING)])
      /\ DOMAIN servers = 1..Len(servers)
  BY FrontAssumption DEF RouteInv, R!ToolAssumption
<1>1. CASE R!connect
  <2>1. servers' = servers /\ stage' = stage /\ connected' = connected + 1 /\ stage = "connect"
        /\ connected < Len(servers)
    BY <1>1 DEF R!connect
  <2>2. SUFFICES ASSUME R!IsInjective(Names) PROVE \A k \in 1..connected + 1 : Led(k)'
    BY <1>0, <2>1, <2>2 DEF RouteInv, Names
  <2>3. PICK next : next = connected + 1
    OBVIOUS
  <2>4. next \in DOMAIN servers /\ R!next_server = servers[next]
    BY <1>0, <2>1, <2>3 DEF R!next_server, RouteInv
  <2>5. /\ \A t \in DOMAIN routes : t \in DOMAIN routes' /\ (t \notin R!ToSet(servers[next].tools) => routes'[t] = routes[t])
        /\ \A t \in R!ToSet(servers[next].tools) : t \in DOMAIN routes' /\ routes'[t] = servers[next].name
        /\ \A t \in R!ToSet(servers[next].tools) : t \notin DOMAIN routes
        /\ \A n \in DOMAIN clients : n \in DOMAIN clients' /\ (n # servers[next].name => clients'[n] = clients[n])
        /\ servers[next].name \in DOMAIN clients' /\ clients'[servers[next].name] = next
    BY <1>1, <2>3, <2>4 DEF R!connect, R!over, R!duplicate
  <2>6. Led(next)'
    BY <2>1, <2>5 DEF Led
  <2>7. ASSUME NEW k \in 1..connected PROVE Led(k)'
    <3>1. k \in DOMAIN servers /\ k # next /\ Led(k)
      BY <1>0, <2>1, <2>2, <2>3, <2>7 DEF RouteInv
    <3>2. servers[k].name # servers[next].name
      BY <3>1, <2>2, <2>4 DEF R!IsInjective, Names
    <3>3. QED
      BY <3>1, <3>2, <2>1, <2>5 DEF Led
  <2>8. QED
    BY <2>3, <2>6, <2>7 DEF RouteInv
<1>2. CASE R!scan
  BY <1>2 DEF R!scan, RouteInv
<1>3. CASE R!refuses
  BY <1>3 DEF R!refuses, RouteInv
<1>4. CASE R!stands
  BY <1>4 DEF R!stands, RouteInv, Led, Names
<1>5. CASE R!drop
  BY <1>5 DEF R!drop, RouteInv
<1>6. CASE UNCHANGED <<stage, servers, connected, routes, clients>>
  BY <1>6 DEF RouteInv, Led, Names
<1>7. QED
  BY <1>1, <1>2, <1>3, <1>4, <1>5, <1>6 DEF R!ToolNext, R!calls_tool,
      R!answers_here, R!hands_over, R!writes, R!collects, R!times_out, R!breaks, R!acts, R!ends,
      R!bundle

LEMMA Restricted ==
    ASSUME NEW kept, kept \subseteq DOMAIN works, works' = R!Restrict(works, kept)
    PROVE  DOMAIN works' = kept /\ \A n \in kept : works'[n] = works[n]
BY DEF R!Restrict

LEMMA StepCalls ==
    ASSUME CallInv, R!ToolNext PROVE CallInv'
<1>1. /\ Len(results) \in Nat /\ R!number = Len(results) + 1
      /\ DOMAIN results = 1..Len(results) /\ R!number' = Len(results') + 1
  BY DEF CallInv, R!number
<1>2. ASSUME NEW result \in {"ok", "error", "timeout", "lost"}, R!answered(result), late' = late,
             DOMAIN works' \subseteq DOMAIN works, \A n \in DOMAIN works' : works'[n] = works[n],
             R!number \in DOMAIN works' => result \in Given
      PROVE  CallInv'
  <2>1. results' = Append(results, result) /\ call'.at = "none"
    BY <1>2 DEF R!answered
  <2>2. /\ results' \in Seq({"ok", "error", "timeout", "lost"}) /\ Len(results') = Len(results) + 1
        /\ results'[R!number] = result /\ \A n \in 1..Len(results) : results'[n] = results[n]
    BY <1>1, <2>1 DEF CallInv
  <2>3. ASSUME NEW n \in DOMAIN works' PROVE n \in 1..Len(results) + 1 /\ IsWork(works'[n])
    BY <1>2, <2>3 DEF CallInv
  <2>4. ASSUME NEW n \in DOMAIN works', n <= Len(results') PROVE results'[n] \in Given
    <3>1. CASE n = R!number
      BY <1>2, <2>2, <2>4, <3>1
    <3>2. CASE n # R!number
      BY <1>1, <1>2, <2>2, <2>3, <2>4, <3>2 DEF CallInv
    <3>3. QED
      BY <3>1, <3>2
  <2>5. \A n \in late' : n \in 1..Len(results') /\ results'[n] \in Given
    BY <1>1, <1>2, <2>2 DEF CallInv
  <2>6. R!number' \notin DOMAIN works'
    BY <1>1, <2>2, <2>3
  <2>7. \A n \in DOMAIN works' : n \in 1..Len(results') + 1
    BY <1>1, <2>2, <2>3
  <2>8. QED
    BY <2>1, <2>2, <2>3, <2>4, <2>5, <2>6, <2>7 DEF CallInv
<1>3. ASSUME UNCHANGED <<results, late>>, DOMAIN works' \subseteq DOMAIN works,
             \A n \in DOMAIN works' : IsWork(works'[n]),
             \/ call' = call /\ (R!number \in DOMAIN works => R!number \in DOMAIN works')
             \/ call.at = "writing" /\ call'.at = "waiting" /\ works' = works
             \/ call.at = "none" /\ call'.at = "begun" /\ works' = works
      PROVE  CallInv'
  BY <1>1, <1>3 DEF CallInv
<1>4. CASE R!drop
  <2>1. DOMAIN works' \subseteq DOMAIN works /\ \A n \in DOMAIN works' : works'[n] = works[n]
    BY <1>4, Restricted DEF R!drop
  <2>2. QED
    BY <1>1, <1>3, <1>4, <2>1 DEF R!drop, CallInv
<1>5. ASSUME NEW t \in Called, R!calls_tool(t) PROVE CallInv'
  BY <1>3, <1>5 DEF R!calls_tool, R!bundle, CallInv
<1>6. CASE R!answers_here
  <2>1. PICK result \in {"ok", "error"} : R!answered(result)
    BY <1>6 DEF R!answers_here
  <2>2. QED
    BY <1>2, <1>6, <2>1 DEF R!answers_here, CallInv
<1>7. CASE R!hands_over
  <2>1. CASE R!answered("error") /\ UNCHANGED works
    BY <1>2, <1>7, <2>1 DEF R!hands_over, CallInv
  <2>2. CASE /\ call' = [call EXCEPT !.at = IF call.to[1] = "plugin" THEN "writing" ELSE "waiting"]
             /\ works' = R!over(works, [n \in {R!number} |-> [to |-> call.to, tool |-> call.tool,
                                                              state |-> "runs"]])
             /\ UNCHANGED results
    <3>1. call'.at \in {"writing", "waiting"}
      BY <1>7, <2>2 DEF R!hands_over
    <3>2. /\ DOMAIN works' = DOMAIN works \cup {R!number}
          /\ \A n \in DOMAIN works : n # R!number => works'[n] = works[n]
          /\ works'[R!number] = [to |-> call.to, tool |-> call.tool, state |-> "runs"]
      BY <2>2 DEF R!over
    <3>3. IsWork(works'[R!number])
      BY <3>2 DEF IsWork
    <3>4. QED
      BY <1>1, <1>7, <2>2, <3>1, <3>2, <3>3 DEF R!hands_over, CallInv
  <2>3. QED
    BY <1>7, <2>1, <2>2 DEF R!hands_over
<1>8. CASE R!writes
  BY <1>3, <1>8 DEF R!writes, CallInv
<1>9. CASE R!collects
  <2>1. /\ DOMAIN works' = DOMAIN works \ {R!number} /\ \A n \in DOMAIN works' : works'[n] = works[n]
    BY <1>9, Restricted DEF R!collects, R!Others
  <2>2. R!number \in DOMAIN works /\ works[R!number].state \in {"ok", "error"}
    BY <1>9 DEF R!collects, CallInv, IsWork
  <2>3. QED
    BY <1>2, <1>9, <2>1, <2>2 DEF R!collects
<1>10. CASE R!times_out
  <2>1. DOMAIN works' \subseteq DOMAIN works /\ \A n \in DOMAIN works' : works'[n] = works[n]
    BY <1>10, Restricted DEF R!times_out, R!Others
  <2>2. QED
    BY <1>2, <1>10, <2>1 DEF R!times_out, Given
<1>11. CASE R!breaks
  BY <1>2, <1>11 DEF R!breaks, Given
<1>12. ASSUME NEW n \in DOMAIN works, R!acts(n) PROVE CallInv'
  <2>1. n \in 1..Len(results) => results[n] \in Given
    BY DEF CallInv
  <2>2. QED
    BY <1>12, <2>1, <1>1 DEF R!acts, CallInv, R!bundle
<1>13. ASSUME NEW n \in DOMAIN works, R!ends(n) PROVE CallInv'
  <2>1. ASSUME NEW state \in {"ok", "error"}, works' = [works EXCEPT ![n].state = state]
        PROVE  DOMAIN works' = DOMAIN works /\ \A m \in DOMAIN works' : IsWork(works'[m])
    BY <2>1 DEF CallInv, IsWork
  <2>2. ASSUME works' = R!Others({n})
        PROVE  DOMAIN works' = DOMAIN works \ {n} /\ \A m \in DOMAIN works' : IsWork(works'[m])
    <3>1. DOMAIN works' = DOMAIN works \ {n} /\ \A m \in DOMAIN works' : works'[m] = works[m]
      BY <2>2, Restricted DEF R!Others
    <3>2. QED
      BY <3>1 DEF CallInv
  <2>3. UNCHANGED <<call, results, late>> /\ R!number' = R!number
    BY <1>13 DEF R!ends, R!number
  <2>4. CASE n = R!number
    BY <1>3, <1>13, <2>1, <2>3, <2>4 DEF R!ends
  <2>5. CASE n # R!number
    BY <1>3, <1>13, <2>2, <2>3, <2>5 DEF R!ends
  <2>6. QED
    BY <2>4, <2>5
<1>14. CASE UNCHANGED <<call, results, works, late>>
  BY <1>3, <1>14 DEF CallInv
<1>15. QED
  BY <1>4, <1>5, <1>6, <1>7, <1>8, <1>9, <1>10, <1>11, <1>12, <1>13, <1>14
  DEF R!ToolNext, R!scan, R!connect, R!refuses, R!stands

LEMMA OnlyOne ==
    ASSUME NEW only, NEW k \in only, only = {k}, only \subseteq Int
    PROVE  R!Max(only) = k /\ R!Min(only) = k
BY DEF R!Max, R!Min

LEMMA ToolsFromInv ==
    ASSUME ToolInv
    PROVE  R!PolicyIsTheCallees /\ R!NoServerIsShadowed /\ R!AnswersAreFinal
<1>1. ASSUME stage = "ready", NEW t \in Called, ~R!Shadows(t)
      PROVE  R!Mutates(t) = R!DeclaredBy(R!component(t), t)
  <2>0. DEFINE given == R!Declaring(plugins, t)
               all == R!over(R!over(Stub, BuiltinTool), R!declared(plugins))
  <2>1. policies = all /\ given \subseteq Int
    BY <1>1 DEF ToolInv, PolicyInv, R!Declaring
  <2>2. t \in DOMAIN R!declared(plugins) <=> given # {}
    BY DEF R!declared, R!Declaring, R!ToSet
  <2>3. CASE t \in DOMAIN BuiltinTool
    <3>1. given = {}
      BY <1>1, <2>3 DEF R!Shadows
    <3>2. t \in DOMAIN policies /\ policies[t] = BuiltinTool[t]
      BY <2>1, <2>2, <2>3, <3>1 DEF R!over
    <3>3. R!component(t) = <<"builtin">>
      BY <2>3 DEF R!component
    <3>4. QED
      BY <3>2, <3>3 DEF R!Mutates, R!DeclaredBy
  <2>4. CASE t \notin DOMAIN BuiltinTool /\ given # {}
    <3>1. PICK k \in given : given = {k}
      BY <1>1, <2>4 DEF R!Shadows
    <3>2. R!Max(given) = k /\ R!Min(given) = k
      BY <2>1, <3>1, OnlyOne
    <3>3. t \in DOMAIN policies /\ policies[t] = Manifest[plugins[k]][t]
      BY <2>1, <2>2, <2>4, <3>2 DEF R!over, R!declared
    <3>4. R!component(t) = <<"plugin", plugins[k]>>
      BY <2>4, <3>2 DEF R!component
    <3>5. QED
      BY <3>3, <3>4 DEF R!Mutates, R!DeclaredBy
  <2>5. CASE t \notin DOMAIN BuiltinTool /\ given = {} /\ t \in DOMAIN routes
    <3>1. t \notin DOMAIN policies
      BY <1>1, <2>1, <2>2, <2>5 DEF R!over, R!Shadows
    <3>2. R!component(t) = <<"mcp", clients[routes[t]]>>
      BY <2>5 DEF R!component
    <3>3. QED
      BY <3>1, <3>2 DEF R!Mutates, R!DeclaredBy
  <2>6. CASE t \notin DOMAIN BuiltinTool /\ given = {} /\ t \notin DOMAIN routes
    <3>1. t \in DOMAIN policies <=> t \in DOMAIN Stub
      BY <2>1, <2>2, <2>6 DEF R!over
    <3>2. t \in DOMAIN Stub => policies[t] = Stub[t]
      BY <2>1, <2>2, <2>6 DEF R!over
    <3>3. R!component(t) = <<"stub">>
      BY <2>6 DEF R!component
    <3>4. CASE t \in DOMAIN Stub
      <4>1. R!Mutates(t) = Stub[t]
        BY <3>1, <3>2, <3>4 DEF R!Mutates
      <4>2. R!DeclaredBy(<<"stub">>, t) = Stub[t]
        BY <3>4 DEF R!DeclaredBy
      <4>3. QED
        BY <3>3, <4>1, <4>2
    <3>5. CASE t \notin DOMAIN Stub
      <4>1. R!Mutates(t) = TRUE
        BY <3>1, <3>5 DEF R!Mutates
      <4>2. R!DeclaredBy(<<"stub">>, t) = TRUE
        BY <3>5 DEF R!DeclaredBy
      <4>3. QED
        BY <3>3, <4>1, <4>2
    <3>6. QED
      BY <3>4, <3>5
  <2>7. QED
    BY <2>3, <2>4, <2>5, <2>6
<1>2. R!NoServerIsShadowed
  <2>1. DOMAIN servers = 1..Len(servers)
    BY FrontAssumption DEF ToolInv, RouteInv, R!ToolAssumption
  <2>2. QED
    BY <2>1 DEF ToolInv, RouteInv, R!NoServerIsShadowed, Led, Names
<1>3. R!AnswersAreFinal
  BY DEF ToolInv, CallInv, R!AnswersAreFinal, Given
<1>4. QED
  BY <1>1, <1>2, <1>3 DEF R!PolicyIsTheCallees

-----------------------------------------------------------------------------
(* logins: what a file of secrets and its writers hold, while no two writers overlap *)

Rec(k) == [access : 0..k, refresh : 0..k, expires : Int]
Command(k) ==
    [op : {"none", "login", "logout", "access"}, at : {"rest", "has", "read", "writing", "asking",
                                                     "browsing"},
     provider : Provider \cup {"none"}, seen : Rec(k), record : Rec(k), records : [Provider -> Rec(k)]]

LoginTypes ==
    /\ issued \in Nat /\ now \in Nat /\ rotates \in BOOLEAN /\ disturbed \in BOOLEAN
    /\ file \in [records : [Provider -> Rec(issued)], keys : BOOLEAN]
    /\ live \in [Provider -> SUBSET Nat]
    /\ command \in [Process -> Command(issued)]
    /\ \A c \in Process : command[c].at = "rest" \/ command[c].provider \in Provider

Busy(j)  == j.at \in {"asking", "read", "writing"}
Holds(j) == j.at \in {"has", "read", "writing"}
Gives(j) == Holds(j) /\ j.op # "logout"

\* One that holds a record gives a living one, or has none to give.
Prepared(j) ==
    /\ Holds(j) => j.op \in {"login", "logout", "access"} /\ j.provider \in Provider
    /\ Holds(j) /\ j.op = "logout" => j.record = L!NoRecord
    /\ Gives(j) => j.record # L!NoRecord /\ j.record.refresh \in live[j.provider]
    /\ rotates /\ Gives(j) => j.record.refresh # 0
    /\ j.at = "asking" => /\ j.op = "access" /\ j.provider \in Provider
                          /\ j.seen # L!NoRecord /\ j.seen = file.records[j.provider]

\* The logins of a file, each alive unless someone holds the record that follows it.
Stands(records) ==
    /\ {p \in Provider : records[p] # L!NoRecord} = logins
    /\ \A p \in logins : \/ records[p].refresh \in live[p]
                         \/ \E c \in Process : Gives(command[c]) /\ command[c].provider = p
    /\ rotates => \A c \in Process : Gives(command[c]) =>
                      records[command[c].provider].refresh # command[c].record.refresh

Undisturbed ==
    /\ \A c, d \in Process : c # d => ~(Busy(command[c]) /\ Busy(command[d]))
    /\ \A c \in Process : Prepared(command[c])
    /\ rotates => \A c, d \in Process :
         c # d /\ Gives(command[c]) /\ Gives(command[d]) =>
             command[c].record.refresh # command[d].record.refresh
    /\ (\A c \in Process : command[c].at # "writing") => file.keys /\ Stands(file.records)
    /\ \A c \in Process : command[c].at \in {"read", "writing"} => Stands(command[c].records)

LoginInv == LoginTypes /\ (~disturbed => Undisturbed)

LEMMA NoRecordIs ==
    ASSUME NEW k \in Nat PROVE L!NoRecord \in Rec(k) /\ L!Idle \in Command(k)
<1>1. L!NoRecord \in Rec(k)
  BY DEF L!NoRecord, Rec
<1>2. QED
  BY <1>1 DEF L!Idle, Command

LEMMA InitLogin ==
    ASSUME L!LoginInit PROVE LoginInv
<1>1. issued = 0 /\ command = [c \in Process |-> L!Idle]
  BY DEF L!LoginInit
<1>2. L!NoRecord \in Rec(0) /\ L!Idle \in Command(0)
  BY NoRecordIs
<1>3. LoginTypes
  <2>1. [p \in Provider |-> L!NoRecord] \in [Provider -> Rec(0)]
    BY <1>2
  <2>2. file \in [records : [Provider -> Rec(0)], keys : BOOLEAN]
    BY <2>1 DEF L!LoginInit, L!Whole
  <2>3. command \in [Process -> Command(0)]
    BY <1>1, <1>2
  <2>4. /\ now \in Nat /\ rotates \in BOOLEAN /\ disturbed \in BOOLEAN /\ issued \in Nat
        /\ live \in [Provider -> SUBSET Nat]
    BY DEF L!LoginInit
  <2>5. QED
    BY <1>1, <2>2, <2>3, <2>4 DEF LoginTypes, L!Idle
<1>4. \A c \in Process : command[c].at = "rest"
  BY <1>1 DEF L!Idle
<1>5. Undisturbed
  <2>1. \A c \in Process : Prepared(command[c]) /\ ~Gives(command[c]) /\ ~Busy(command[c])
    BY <1>4 DEF Prepared, Gives, Holds, Busy
  <2>2. file.keys /\ Stands(file.records)
    BY <2>1 DEF L!LoginInit, L!Whole, Stands
  <2>3. QED
    BY <1>4, <2>1, <2>2 DEF Undisturbed
<1>6. QED
  BY <1>3, <1>5 DEF LoginInv

LEMMA LoginFromInv ==
    ASSUME LoginInv PROVE L!StoredLoginIsLive /\ L!LoginsStay
<1>1. ASSUME L!AtRest, ~disturbed
      PROVE  file.keys /\ Stands(file.records) /\ \A c \in Process : ~Gives(command[c])
  BY <1>1 DEF LoginInv, Undisturbed, L!AtRest, Gives, Holds
<1>2. QED
  BY <1>1 DEF L!StoredLoginIsLive, L!LoginsStay, Stands

-----------------------------------------------------------------------------
\* A later number of issues admits what an earlier did.
LEMMA RecGrows ==
    ASSUME NEW k \in Nat
    PROVE  Rec(k) \subseteq Rec(k + 1) /\ Command(k) \subseteq Command(k + 1)
<1>1. Rec(k) \subseteq Rec(k + 1)
  BY DEF Rec
<1>2. [Provider -> Rec(k)] \subseteq [Provider -> Rec(k + 1)]
  BY <1>1
<1>3. ASSUME NEW j \in Command(k) PROVE j \in Command(k + 1)
  BY <1>1, <1>2, <1>3 DEF Command
<1>4. QED
  BY <1>1, <1>3

\* One process takes a step that leaves the file and the tokens.
LEMMA OneCommand ==
    ASSUME LoginInv, NEW c \in Process, NEW j \in Command(issued),
           j.at = "rest" \/ j.provider \in Provider,
           command' = [command EXCEPT ![c] = j],
           UNCHANGED <<file, issued, rotates, live, now, logins>>, disturbed' \in BOOLEAN,
           ~disturbed' => /\ ~disturbed /\ Prepared(j)
                          /\ Busy(j) => \A d \in Process \ {c} : ~Busy(command[d])
                          /\ Gives(j) <=> Gives(command[c])
                          /\ Gives(j) => j.record = command[c].record /\ j.provider = command[c].provider
                          /\ j.at # "writing" /\ command[c].at # "writing"
                          /\ j.at = "read" => Stands(j.records)
    PROVE  LoginInv'
<1>1. command' \in [Process -> Command(issued)]
  BY DEF LoginInv, LoginTypes
<1>2. LoginTypes'
  <2>1. \A d \in Process : command'[d] = IF d = c THEN j ELSE command[d]
    BY DEF LoginInv, LoginTypes
  <2>2. QED
    BY <1>1, <2>1 DEF LoginInv, LoginTypes
<1>3. ASSUME ~disturbed' PROVE Undisturbed'
  <2>1. /\ \A d \in Process : command'[d] = IF d = c THEN j ELSE command[d]
        /\ Undisturbed
    BY <1>3 DEF LoginInv, LoginTypes
  <2>2. \A d \in Process : Prepared(command[d])'
    BY <1>3, <2>1 DEF Undisturbed, Prepared, Holds, Gives
  <2>3. \A d \in Process : /\ Gives(command'[d]) <=> Gives(command[d])
                           /\ Gives(command[d]) => /\ command'[d].record = command[d].record
                                                   /\ command'[d].provider = command[d].provider
    BY <1>3, <2>1
  <2>4. ASSUME NEW r, Stands(r) PROVE Stands(r)'
    BY <2>3, <2>4 DEF Stands
  <2>5. ASSUME \A d \in Process : command'[d].at # "writing" PROVE file'.keys /\ Stands(file.records)'
    <3>1. \A d \in Process : command[d].at # "writing"
      BY <1>3, <2>1, <2>5
    <3>2. file.keys /\ Stands(file.records)
      BY <2>1, <3>1 DEF Undisturbed
    <3>3. PICK r : r = file.records
      OBVIOUS
    <3>4. Stands(r)'
      BY <2>4, <3>2, <3>3
    <3>5. QED
      BY <3>2, <3>3, <3>4
  <2>6. ASSUME NEW d \in Process, command'[d].at \in {"read", "writing"}
        PROVE  Stands(command[d].records)'
    <3>1. PICK r : r = command'[d].records
      OBVIOUS
    <3>2. Stands(r)
      BY <1>3, <2>1, <2>6, <3>1 DEF Undisturbed
    <3>3. Stands(r)'
      BY <2>4, <3>2
    <3>4. QED
      BY <3>1, <3>3
  <2>7. \A d, e \in Process : d # e => ~(Busy(command'[d]) /\ Busy(command'[e]))
    BY <1>3, <2>1 DEF Undisturbed
  <2>8. rotates' => \A d, e \in Process :
          d # e /\ Gives(command'[d]) /\ Gives(command'[e]) =>
              command'[d].record.refresh # command'[e].record.refresh
    BY <2>1, <2>3 DEF Undisturbed
  <2>9. QED
    BY <2>2, <2>5, <2>6, <2>7, <2>8 DEF Undisturbed
<1>4. QED
  BY <1>2, <1>3 DEF LoginInv

LEMMA NoCommandMoves ==
    ASSUME LoginInv, now' \in Nat, UNCHANGED <<file, issued, rotates, live, command, logins, disturbed>>
    PROVE  LoginInv'
<1>1. LoginTypes'
  BY DEF LoginInv, LoginTypes
<1>2. \A c \in Process : Prepared(command[c]) => Prepared(command[c])'
  BY DEF Prepared
<1>3. ASSUME NEW r, Stands(r) PROVE Stands(r)'
  BY <1>3 DEF Stands
<1>4. Undisturbed => Undisturbed'
  BY <1>2, <1>3 DEF Undisturbed
<1>5. QED
  BY <1>1, <1>4 DEF LoginInv

LEMMA StepAlone ==
    ASSUME LoginInv, NEW c \in Process,
           \/ L!reads_file(c) \/ L!refresh_fails(c) \/ L!login_fails(c) \/ L!killed(c)
           \/ \E p \in Provider : L!login(c, p) \/ L!logout(c, p) \/ L!access_token(c, p)
    PROVE  LoginInv'
<1>1. /\ command[c] \in Command(issued) /\ file.records \in [Provider -> Rec(issued)]
      /\ L!Idle \in Command(issued) /\ L!NoRecord \in Rec(issued) /\ disturbed \in BOOLEAN
      /\ command \in [Process -> Command(issued)]
      /\ command[c].at = "rest" \/ command[c].provider \in Provider
  BY NoRecordIs DEF LoginInv, LoginTypes
<1>2. ASSUME ~disturbed, ~L!Others(c) PROVE \A d \in Process \ {c} : ~Busy(command[d])
  BY <1>2 DEF L!Others, Busy
<1>3. ~disturbed => Undisturbed /\ Prepared(command[c])
  BY DEF LoginInv, Undisturbed
<1>4. /\ L!Idle.at = "rest" /\ ~Gives(L!Idle) /\ ~Busy(L!Idle) /\ Prepared(L!Idle)
      /\ L!Idle.op = "none" /\ L!Idle.record = L!NoRecord
  BY DEF L!Idle, Gives, Holds, Busy, Prepared
<1>5. CASE L!reads_file(c)
  <2>1. PICK j : j = [command[c] EXCEPT !.at = "read", !.records = file.records]
    OBVIOUS
  <2>2. /\ j \in Command(issued) /\ j.at = "read" /\ j.records = file.records
        /\ j.op = command[c].op /\ j.provider = command[c].provider /\ j.record = command[c].record
    BY <1>1, <2>1 DEF Command
  <2>3. /\ command[c].at = "has" /\ command' = [command EXCEPT ![c] = j]
        /\ disturbed' = (disturbed \/ L!Others(c))
        /\ UNCHANGED <<file, issued, rotates, live, now, logins>>
    BY <1>5, <2>1 DEF L!reads_file, L!Goes
  <2>4. ASSUME ~disturbed'
        PROVE  /\ Prepared(j) /\ (Gives(j) <=> Gives(command[c]))
               /\ \A d \in Process \ {c} : ~Busy(command[d])
               /\ Stands(j.records)
    <3>1. Prepared(j) /\ (Gives(j) <=> Gives(command[c]))
      BY <1>3, <2>2, <2>3, <2>4 DEF Prepared, Gives, Holds
    <3>2. \A d \in Process \ {c} : ~Busy(command[d])
      BY <1>2, <2>3, <2>4
    <3>3. \A d \in Process : command[d].at # "writing"
      BY <2>3, <3>2 DEF Busy
    <3>4. QED
      BY <1>3, <2>2, <2>3, <2>4, <3>1, <3>2, <3>3 DEF Undisturbed
  <2>5. disturbed' \in BOOLEAN /\ (~disturbed' => ~disturbed)
    BY <1>1, <2>3
  <2>6. ~disturbed' => j.at # "writing" /\ command[c].at # "writing"
    BY <2>2, <2>3
  <2>7. j.provider \in Provider
    BY <1>1, <2>2, <2>3
  <2>8. QED
    BY <2>2, <2>3, <2>4, <2>5, <2>6, <2>7, OneCommand
<1>6. ASSUME NEW p \in Provider, L!logout(c, p) PROVE LoginInv'
  <2>1. PICK j : j = [L!Idle EXCEPT !.op = "logout", !.at = "has", !.provider = p]
    OBVIOUS
  <2>2. /\ j \in Command(issued) /\ j.at = "has" /\ j.op = "logout" /\ j.provider = p
        /\ j.record = L!NoRecord
    BY <1>1, <1>4, <2>1 DEF Command
  <2>3. /\ command[c].at = "rest" /\ command' = [command EXCEPT ![c] = j]
        /\ UNCHANGED <<file, issued, rotates, live, now, logins, disturbed>>
    BY <1>6, <2>1 DEF L!logout, L!Goes
  <2>4. Prepared(j) /\ ~Gives(j) /\ ~Gives(command[c]) /\ ~Busy(j)
    BY <2>2, <2>3 DEF Prepared, Gives, Holds, Busy
  <2>5. QED
    BY <1>1, <2>2, <2>3, <2>4, OneCommand
<1>7. ASSUME NEW p \in Provider, L!access_token(c, p) PROVE LoginInv'
  <2>1. CASE UNCHANGED <<command, disturbed>>
    <3>1. UNCHANGED <<file, issued, rotates, live, now, logins>> /\ now \in Nat
      BY <1>7 DEF L!access_token, L!load_record, LoginInv, LoginTypes
    <3>2. QED
      BY <2>1, <3>1, NoCommandMoves
  <2>2. PICK j : j = [L!Idle EXCEPT !.op = "access", !.at = "asking", !.provider = p,
                                   !.seen = file.records[p]]
    OBVIOUS
  <2>3. CASE command' = [command EXCEPT ![c] = j] /\ disturbed' = (disturbed \/ L!Others(c))
    <3>1. /\ j \in Command(issued) /\ j.at = "asking" /\ j.op = "access" /\ j.provider = p
          /\ j.seen = file.records[p]
      BY <1>1, <1>4, <2>2 DEF Command
    <3>2. /\ command[c].at = "rest" /\ file.records[p] # L!NoRecord
          /\ UNCHANGED <<file, issued, rotates, live, now, logins>>
      BY <1>7 DEF L!access_token, L!load_record
    <3>3. Prepared(j) /\ ~Gives(j) /\ ~Gives(command[c])
      BY <3>1, <3>2 DEF Prepared, Gives, Holds
    <3>4. ~disturbed' => \A d \in Process \ {c} : ~Busy(command[d])
      BY <1>2, <2>3
    <3>5. QED
      BY <1>1, <2>3, <3>1, <3>2, <3>3, <3>4, OneCommand
  <2>4. QED
    BY <1>7, <2>1, <2>2, <2>3 DEF L!access_token, L!load_record, L!Goes
<1>8. CASE L!refresh_fails(c)
  <2>1. /\ command[c].at = "asking" /\ command' = [command EXCEPT ![c] = L!Idle]
        /\ UNCHANGED <<file, issued, rotates, now, logins>>
    BY <1>8 DEF L!refresh_fails, L!Goes
  <2>2. CASE UNCHANGED <<live, disturbed>>
    <3>1. ~Gives(command[c])
      BY <2>1 DEF Gives, Holds
    <3>2. QED
      BY <1>1, <1>4, <2>1, <2>2, <3>1, OneCommand
  <2>3. CASE disturbed' = TRUE /\ \E q, r : live' = [live EXCEPT ![q] = live[q] \ {r}]
    <3>1. command' \in [Process -> Command(issued)]
      BY <1>1, <2>1
    <3>2. live' \in [Provider -> SUBSET Nat]
      BY <2>3 DEF LoginInv, LoginTypes
    <3>3. \A d \in Process : command'[d] = IF d = c THEN L!Idle ELSE command[d]
      BY <1>1, <2>1
    <3>4. LoginTypes'
      BY <1>4, <2>1, <2>3, <3>1, <3>2, <3>3 DEF LoginInv, LoginTypes
    <3>5. QED
      BY <2>3, <3>4 DEF LoginInv
  <2>4. QED
    BY <1>8, <2>2, <2>3 DEF L!refresh_fails
<1>9. CASE L!killed(c)
  <2>1. /\ command' = [command EXCEPT ![c] = L!Idle]
        /\ disturbed' = (disturbed \/ command[c].at \notin {"asking", "browsing"})
        /\ UNCHANGED <<file, issued, rotates, live, now, logins>>
    BY <1>9 DEF L!killed, L!Goes
  <2>2. ~disturbed' => ~disturbed /\ ~Gives(command[c]) /\ command[c].at # "writing"
    BY <2>1 DEF Gives, Holds
  <2>3. QED
    BY <1>1, <1>4, <2>1, <2>2, OneCommand
<1>10. ASSUME NEW p \in Provider, L!login(c, p) PROVE LoginInv'
  <2>1. PICK j : j = [L!Idle EXCEPT !.op = "login", !.at = "browsing", !.provider = p]
    OBVIOUS
  <2>2. j \in Command(issued) /\ j.at = "browsing" /\ j.provider = p
    BY <1>1, <1>4, <2>1 DEF Command
  <2>3. /\ command[c].at = "rest" /\ command' = [command EXCEPT ![c] = j]
        /\ UNCHANGED <<file, issued, rotates, live, now, logins, disturbed>>
    BY <1>10, <2>1 DEF L!login, L!Goes
  <2>4. Prepared(j) /\ ~Gives(j) /\ ~Gives(command[c]) /\ ~Busy(j)
    BY <2>2, <2>3 DEF Prepared, Gives, Holds, Busy
  <2>5. QED
    BY <1>1, <2>2, <2>3, <2>4, OneCommand
<1>11. CASE L!login_fails(c)
  <2>1. /\ command[c].at = "browsing" /\ command' = [command EXCEPT ![c] = L!Idle]
        /\ UNCHANGED <<file, issued, rotates, live, now, logins, disturbed>>
    BY <1>11 DEF L!login_fails, L!Goes
  <2>2. ~Gives(command[c])
    BY <2>1 DEF Gives, Holds
  <2>3. QED
    BY <1>1, <1>4, <2>1, <2>2, OneCommand
<1>12. QED
  BY <1>5, <1>6, <1>7, <1>8, <1>9, <1>10, <1>11

LEMMA StepTruncates ==
    ASSUME LoginInv, NEW c \in Process, L!truncates(c)
    PROVE  LoginInv'
<1>1. PICK j : j = [command[c] EXCEPT !.at = "writing"]
  OBVIOUS
<1>2. command[c] \in Command(issued) /\ L!NoRecord \in Rec(issued)
  BY NoRecordIs DEF LoginInv, LoginTypes
<1>3. /\ j \in Command(issued) /\ j.at = "writing" /\ j.op = command[c].op
      /\ j.provider = command[c].provider /\ j.record = command[c].record
      /\ j.records = command[c].records
  BY <1>1, <1>2 DEF Command
<1>4. /\ command[c].at = "read" /\ command' = [command EXCEPT ![c] = j]
      /\ file' = [records |-> [p \in Provider |-> L!NoRecord], keys |-> FALSE]
      /\ UNCHANGED <<issued, rotates, live, now, logins, disturbed>>
  BY <1>1 DEF L!truncates, L!Goes
<1>5. LoginTypes'
  <2>1. command' \in [Process -> Command(issued)]
    BY <1>3, <1>4 DEF LoginInv, LoginTypes
  <2>2. file' \in [records : [Provider -> Rec(issued)], keys : BOOLEAN]
    BY <1>2, <1>4
  <2>3. \A d \in Process : command'[d] = IF d = c THEN j ELSE command[d]
    BY <1>4 DEF LoginInv, LoginTypes
  <2>4. QED
    BY <1>3, <1>4, <2>1, <2>2, <2>3 DEF LoginInv, LoginTypes
<1>6. ASSUME ~disturbed PROVE Undisturbed'
  <2>1. /\ \A d \in Process : command'[d] = IF d = c THEN j ELSE command[d]
        /\ Undisturbed
    BY <1>4, <1>6 DEF LoginInv, LoginTypes
  <2>2. \A d \in Process \ {c} : ~Busy(command[d])
    BY <1>4, <2>1 DEF Undisturbed, Busy
  <2>3. \A d \in Process : Prepared(command[d])'
    BY <1>3, <1>4, <2>1, <2>2 DEF Undisturbed, Prepared, Holds, Gives, Busy
  <2>4. \A d \in Process : /\ Gives(command'[d]) <=> Gives(command[d])
                           /\ command'[d].record = command[d].record
                           /\ command'[d].provider = command[d].provider
    BY <1>3, <1>4, <2>1 DEF Gives, Holds
  <2>5. ASSUME NEW d \in Process, command'[d].at \in {"read", "writing"}
        PROVE  Stands(command[d].records)'
    <3>1. d = c
      BY <2>1, <2>2, <2>5 DEF Busy
    <3>2. Stands(command[c].records)
      BY <1>4, <2>1 DEF Undisturbed
    <3>3. command'[c].records = command[c].records
      BY <1>3, <2>1
    <3>4. QED
      BY <1>4, <2>4, <3>1, <3>2, <3>3 DEF Stands
  <2>6. \A d, e \in Process : d # e => ~(Busy(command'[d]) /\ Busy(command'[e]))
    BY <2>1, <2>2
  <2>7. rotates' => \A d, e \in Process :
          d # e /\ Gives(command'[d]) /\ Gives(command'[e]) =>
              command'[d].record.refresh # command'[e].record.refresh
    BY <1>4, <2>1, <2>4 DEF Undisturbed
  <2>8. command'[c].at = "writing"
    BY <1>3, <2>1
  <2>9. QED
    BY <2>3, <2>5, <2>6, <2>7, <2>8 DEF Undisturbed
<1>7. QED
  BY <1>4, <1>5, <1>6 DEF LoginInv

LEMMA StepWrites ==
    ASSUME LoginInv, NEW c \in Process, L!writes_file(c)
    PROVE  LoginInv'
<1> DEFINE j == command[c]
<1>1. PICK new : new = [j.records EXCEPT ![j.provider] = j.record]
  OBVIOUS
<1>2. /\ j \in Command(issued) /\ command \in [Process -> Command(issued)]
      /\ L!Idle \in Command(issued) /\ j.at = "writing" /\ j.record \in Rec(issued)
      /\ j.records \in [Provider -> Rec(issued)]
  BY NoRecordIs DEF LoginInv, LoginTypes, Command, L!writes_file
<1>3. new \in [Provider -> Rec(issued)]
  BY <1>1, <1>2
<1>4. /\ file' = [records |-> new, keys |-> TRUE] /\ command' = [command EXCEPT ![c] = L!Idle]
      /\ logins' = IF j.op = "logout" THEN logins \ {j.provider} ELSE logins \cup {j.provider}
      /\ UNCHANGED <<issued, rotates, live, now, disturbed>>
  BY <1>1 DEF L!writes_file, L!Goes, L!Whole, L!kept_lines
<1>5. ~disturbed => j.provider \in Provider
  BY <1>2 DEF LoginInv, Undisturbed, Prepared, Holds
<1>6. ASSUME ~disturbed PROVE Undisturbed'
  <2>1. /\ \A d \in Process : command'[d] = IF d = c THEN L!Idle ELSE command[d]
        /\ Undisturbed /\ Prepared(j) /\ Stands(j.records) /\ Holds(j)
    BY <1>2, <1>4, <1>6 DEF LoginInv, Undisturbed, Holds
  <2>2. L!Idle.at = "rest" /\ ~Gives(L!Idle) /\ ~Busy(L!Idle) /\ Prepared(L!Idle)
    BY DEF L!Idle, Gives, Holds, Busy, Prepared
  <2>3. \A d \in Process \ {c} : ~Busy(command[d])
    BY <1>2, <2>1 DEF Undisturbed, Busy
  <2>4. \A d \in Process : ~Busy(command'[d])
    BY <2>1, <2>2, <2>3
  <2>5. \A d \in Process : Prepared(command[d])'
    <3>1. ASSUME NEW d \in Process PROVE Prepared(command'[d]) /\ command'[d].at # "asking"
      BY <2>1, <2>2, <2>4 DEF Undisturbed, Busy, Prepared, Holds, Gives
    <3>2. QED
      BY <1>4, <3>1 DEF Prepared
  <2>6. \A p \in Provider : new[p] = IF p = j.provider THEN j.record ELSE j.records[p]
    BY <1>1, <1>2
  <2>7. Gives(j) <=> j.op # "logout"
    BY <2>1 DEF Gives
  <2>8. j.op = "logout" => j.record = L!NoRecord
    BY <2>1 DEF Prepared
  <2>9. j.op # "logout" => j.record # L!NoRecord /\ j.record.refresh \in live[j.provider]
    BY <2>1, <2>7 DEF Prepared
  <2>10. {p \in Provider : new[p] # L!NoRecord} = logins'
    BY <1>4, <1>5, <1>6, <2>1, <2>6, <2>8, <2>9 DEF Stands
  <2>11. ASSUME NEW p \in logins'
         PROVE  \/ new[p].refresh \in live[p]
                \/ \E d \in Process : Gives(command'[d]) /\ command'[d].provider = p
    <3>1. p \in Provider
      BY <2>10
    <3>2. CASE p = j.provider
      BY <2>6, <2>8, <2>9, <2>10, <3>1, <3>2
    <3>3. CASE p # j.provider
      <4>1. p \in logins /\ new[p] = j.records[p]
        BY <1>4, <2>6, <3>1, <3>3
      <4>2. CASE j.records[p].refresh \in live[p]
        BY <4>1, <4>2
      <4>3. CASE \E d \in Process : Gives(command[d]) /\ command[d].provider = p
        <5>1. PICK d \in Process : Gives(command[d]) /\ command[d].provider = p
          BY <4>3
        <5>2. d # c
          BY <3>3, <5>1
        <5>3. QED
          BY <2>1, <5>1, <5>2
      <4>4. QED
        BY <2>1, <4>1, <4>2, <4>3 DEF Stands
    <3>4. QED
      BY <3>2, <3>3
  <2>12. ASSUME rotates, NEW d \in Process, Gives(command'[d])
         PROVE  new[command'[d].provider].refresh # command'[d].record.refresh
    <3>1. d # c /\ command'[d] = command[d] /\ Gives(command[d]) /\ Prepared(command[d])
      BY <2>1, <2>2, <2>12 DEF Undisturbed
    <3>2. command[d].provider \in Provider /\ command[d].record.refresh # 0
      BY <2>12, <3>1 DEF Prepared, Gives
    <3>3. j.records[command[d].provider].refresh # command[d].record.refresh
      BY <2>1, <2>12, <3>1 DEF Stands
    <3>4. j.op # "logout" => j.record.refresh # command[d].record.refresh
      BY <2>1, <2>7, <2>12, <3>1 DEF Undisturbed
    <3>5. L!NoRecord.refresh = 0
      BY DEF L!NoRecord
    <3>6. QED
      BY <2>6, <2>8, <3>1, <3>2, <3>3, <3>4, <3>5
  <2>13. file'.keys /\ Stands(file.records)'
    BY <1>4, <2>10, <2>11, <2>12 DEF Stands
  <2>14. rotates' => \A d, e \in Process :
          d # e /\ Gives(command'[d]) /\ Gives(command'[e]) =>
              command'[d].record.refresh # command'[e].record.refresh
    BY <1>4, <2>1, <2>2 DEF Undisturbed
  <2>15. QED
    BY <2>4, <2>5, <2>13, <2>14 DEF Undisturbed, Busy
<1>7. LoginTypes'
  <2>1. command' \in [Process -> Command(issued)]
    BY <1>2, <1>4
  <2>2. file' \in [records : [Provider -> Rec(issued)], keys : BOOLEAN]
    BY <1>3, <1>4
  <2>3. \A d \in Process : command'[d] = IF d = c THEN L!Idle ELSE command[d]
    BY <1>2, <1>4
  <2>4. L!Idle.at = "rest"
    BY DEF L!Idle
  <2>5. QED
    BY <1>4, <2>1, <2>2, <2>3, <2>4 DEF LoginInv, LoginTypes
<1>8. QED
  BY <1>4, <1>6, <1>7 DEF LoginInv

\* A new number was nobody's before.
LEMMA Numbers ==
    ASSUME LoginTypes
    PROVE  /\ issued + 1 \in Nat /\ issued + 1 # 0
           /\ \A p \in Provider : file.records[p] \in Rec(issued) /\ file.records[p].refresh \in 0..issued
           /\ \A c \in Process : /\ command[c].record.refresh \in 0..issued
                                  /\ command[c].seen.refresh \in 0..issued
<1>1. \A r \in Rec(issued) : r.refresh \in 0..issued
  BY DEF Rec
<1>2. \A p \in Provider : file.records[p] \in Rec(issued)
  BY DEF LoginTypes
<1>3. \A c \in Process : command[c].record \in Rec(issued) /\ command[c].seen \in Rec(issued)
  BY DEF LoginTypes, Command
<1>4. QED
  BY <1>1, <1>2, <1>3 DEF LoginTypes

\* The provider has issued a record, which a process now holds.
LEMMA NewRecord ==
    ASSUME LoginInv, NEW c \in Process, NEW p \in Provider, NEW j \in Command(issued + 1),
           command' = [command EXCEPT ![c] = j], issued' = issued + 1, disturbed' \in BOOLEAN,
           live' \in [Provider -> SUBSET Nat],
           UNCHANGED <<file, rotates, now, logins>>,
           j.at = "has", j.provider = p, j.record # L!NoRecord,
           ~disturbed' =>
               /\ ~disturbed /\ j.op \in {"login", "access"} /\ ~Holds(command[c])
               /\ \A d \in Process \ {c} : ~Busy(command[d])
               /\ rotates => j.record.refresh = issued + 1
               /\ j.record.refresh \in live'[p]
               /\ \A q \in Provider \ {p} : live'[q] = live[q]
               /\ \A d \in Process \ {c} : Gives(command[d]) /\ command[d].provider = p =>
                      command[d].record.refresh \in live'[p]
    PROVE  LoginInv'
<1>1. LoginTypes'
  <2>1. Rec(issued) \subseteq Rec(issued + 1) /\ Command(issued) \subseteq Command(issued + 1)
    BY RecGrows DEF LoginInv, LoginTypes
  <2>2. command' \in [Process -> Command(issued + 1)]
    BY <2>1 DEF LoginInv, LoginTypes
  <2>3. file \in [records : [Provider -> Rec(issued + 1)], keys : BOOLEAN]
    BY <2>1 DEF LoginInv, LoginTypes
  <2>4. \A d \in Process : command'[d] = IF d = c THEN j ELSE command[d]
    BY DEF LoginInv, LoginTypes
  <2>5. QED
    BY <2>2, <2>3, <2>4 DEF LoginInv, LoginTypes
<1>2. ASSUME ~disturbed' PROVE Undisturbed'
  <2>1. /\ \A d \in Process : command'[d] = IF d = c THEN j ELSE command[d]
        /\ Undisturbed /\ Gives(j)
    BY <1>2 DEF LoginInv, LoginTypes, Gives, Holds
  <2>2. \A d \in Process : ~Busy(command'[d])
    BY <1>2, <2>1 DEF Busy
  <2>3. \A d \in Process \ {c} : Gives(command[d]) => command[d].provider \in Provider
    BY <2>1 DEF Undisturbed, Prepared, Gives
  <2>4. \A d \in Process : Prepared(command[d])'
    <3>1. Prepared(j)'
      BY <1>2, Numbers DEF Prepared, Holds, Gives, LoginInv
    <3>2. ASSUME NEW d \in Process \ {c} PROVE Prepared(command[d])'
      <4>1. command'[d] = command[d] /\ command[d].at # "asking" /\ Prepared(command[d])
        BY <1>2, <2>1 DEF Undisturbed, Busy
      <4>2. Gives(command[d]) => command[d].record.refresh \in live'[command[d].provider]
        BY <1>2, <2>3, <4>1 DEF Prepared
      <4>3. QED
        BY <4>1, <4>2 DEF Prepared
    <3>3. PICK i : i = j
      OBVIOUS
    <3>4. Prepared(i)' /\ command'[c] = i
      BY <2>1, <3>1, <3>3
    <3>5. QED
      BY <3>2, <3>4
  <2>5. \A d \in Process : command[d].at # "writing"
    BY <1>2 DEF Busy, Holds
  <2>6. file.keys /\ Stands(file.records)
    BY <2>1, <2>5 DEF Undisturbed
  <2>7. ASSUME NEW q \in logins
        PROVE  \/ file.records[q].refresh \in live'[q]
               \/ \E d \in Process : Gives(command'[d]) /\ command'[d].provider = q
    <3>1. CASE q = p
      BY <2>1, <3>1
    <3>2. CASE q # p /\ file.records[q].refresh \in live[q]
      <4>1. q \in Provider
        BY <2>6 DEF Stands
      <4>2. QED
        BY <1>2, <3>2, <4>1
    <3>3. CASE \E d \in Process : Gives(command[d]) /\ command[d].provider = q
      <4>1. PICK d \in Process : Gives(command[d]) /\ command[d].provider = q
        BY <3>3
      <4>2. d # c
        BY <1>2, <4>1 DEF Gives
      <4>3. QED
        BY <2>1, <4>1, <4>2
    <3>4. QED
      BY <2>6, <3>1, <3>2, <3>3 DEF Stands
  <2>8. ASSUME rotates, NEW d \in Process, Gives(command'[d])
        PROVE  file.records[command'[d].provider].refresh # command'[d].record.refresh
    <3>1. CASE d = c
      <4>1. j.record.refresh = issued + 1 /\ j.provider = p /\ command'[d] = j
        BY <1>2, <2>1, <2>8, <3>1
      <4>2. file.records[p].refresh \in 0..issued /\ issued \in Nat
        BY Numbers DEF LoginInv, LoginTypes
      <4>3. QED
        BY <4>1, <4>2
    <3>2. CASE d # c
      BY <2>1, <2>6, <2>8, <3>2 DEF Stands
    <3>3. QED
      BY <3>1, <3>2
  <2>9. file'.keys /\ Stands(file.records)'
    BY <2>6, <2>7, <2>8 DEF Stands
  <2>10. rotates' => \A d, e \in Process :
          d # e /\ Gives(command'[d]) /\ Gives(command'[e]) =>
              command'[d].record.refresh # command'[e].record.refresh
    <3>1. ASSUME rotates, NEW d \in Process \ {c}
          PROVE  j.record.refresh # command[d].record.refresh
      <4>1. j.record.refresh = issued + 1
        BY <1>2, <3>1
      <4>2. command[d].record.refresh \in 0..issued /\ issued \in Nat
        BY Numbers DEF LoginInv, LoginTypes
      <4>3. QED
        BY <4>1, <4>2
    <3>2. QED
      BY <2>1, <3>1 DEF Undisturbed
  <2>11. QED
    BY <2>2, <2>4, <2>9, <2>10 DEF Undisturbed, Busy
<1>3. QED
  BY <1>1, <1>2 DEF LoginInv

LEMMA StepIssues ==
    ASSUME LoginInv, NEW c \in Process,
           L!refreshed(c) \/ L!finish_login(c)
    PROVE  LoginInv'
<1>1. /\ command[c] \in Command(issued) /\ issued \in Nat /\ L!Idle \in Command(issued + 1)
      /\ now + LIFETIME \in Int /\ Command(issued) \subseteq Command(issued + 1)
      /\ disturbed \in BOOLEAN /\ live \in [Provider -> SUBSET Nat]
  BY FrontAssumption, RecGrows, NoRecordIs DEF LoginInv, LoginTypes, L!LoginAssumption
<1>2. ASSUME ~disturbed, ~L!Others(c) PROVE \A d \in Process \ {c} : ~Busy(command[d])
  BY <1>2 DEF L!Others, Busy
<1>3. L!NoRecord.access = 0
  BY DEF L!NoRecord
<1>4. ASSUME L!finish_login(c), NEW p, p = command[c].provider PROVE LoginInv'
  <2>0. p \in Provider
    BY <1>4 DEF LoginInv, LoginTypes, L!finish_login
  <2>1. PICK r : r = [access |-> issued + 1, refresh |-> issued + 1, expires |-> now + LIFETIME]
    OBVIOUS
  <2>2. r \in Rec(issued + 1) /\ r # L!NoRecord /\ r.refresh = issued + 1
    BY <1>1, <1>3, <2>1 DEF Rec
  <2>3. PICK j : j = [L!Idle EXCEPT !.op = "login", !.at = "has", !.provider = p, !.record = r]
    OBVIOUS
  <2>4. /\ j \in Command(issued + 1) /\ j.at = "has" /\ j.op = "login" /\ j.provider = p
        /\ j.record = r
    BY <1>1, <2>0, <2>2, <2>3 DEF Command
  <2>5. /\ command[c].at = "browsing" /\ issued' = issued + 1
        /\ live' = [live EXCEPT ![p] = live[p] \cup {issued + 1}]
        /\ disturbed' = (disturbed \/ L!Others(c)) /\ UNCHANGED <<file, rotates, now, logins>>
    BY <1>4 DEF L!finish_login, L!issues
  <2>6. command' = [command EXCEPT ![c] = j]
    BY <1>4, <2>1, <2>3, <2>5 DEF L!finish_login, L!parse_token_response, L!Goes
  <2>7. live' \in [Provider -> SUBSET Nat] /\ live'[p] = live[p] \cup {issued + 1}
        /\ \A q \in Provider \ {p} : live'[q] = live[q]
    BY <1>1, <2>0, <2>5
  <2>8. disturbed' \in BOOLEAN /\ (~disturbed' => ~disturbed /\ ~L!Others(c))
    BY <1>1, <2>5
  <2>9. ASSUME ~disturbed', NEW d \in Process, Gives(command[d]), command[d].provider = p
        PROVE  command[d].record.refresh \in live'[p]
    BY <2>7, <2>8, <2>9 DEF LoginInv, Undisturbed, Prepared
  <2>10. ~Holds(command[c])
    BY <2>5 DEF Holds
  <2>11. QED
    BY <1>2, <2>0, <2>2, <2>4, <2>5, <2>6, <2>7, <2>8, <2>9, <2>10, NewRecord
<1>5. ASSUME L!refreshed(c), NEW p, p = command[c].provider PROVE LoginInv'
  <2>0. p \in Provider
    BY <1>5 DEF LoginInv, LoginTypes, L!refreshed
  <2>1. /\ command[c].at = "asking" /\ issued' = issued + 1 /\ command[c].seen.refresh \in live[p]
        /\ live' = [live EXCEPT ![p] = IF rotates
                         THEN (live[p] \ {command[c].seen.refresh}) \cup {issued + 1} ELSE live[p]]
        /\ UNCHANGED <<file, rotates, now, logins, disturbed>>
    BY <1>5 DEF L!refreshed, L!issues
  <2>2. PICK n : n = IF rotates THEN issued + 1 ELSE command[c].seen.refresh
    OBVIOUS
  <2>3. n = L!refresh_of(c, IF rotates THEN issued' ELSE 0)
    BY <1>1, <2>1, <2>2 DEF L!refresh_of
  <2>4. PICK r : r = [access |-> issued + 1, expires |-> now + LIFETIME, refresh |-> n]
    OBVIOUS
  <2>5. r \in Rec(issued + 1) /\ r # L!NoRecord /\ r.refresh = n
    BY <1>1, <1>3, <2>2, <2>4, Numbers DEF Rec, LoginInv
  <2>6. PICK j : j = [command[c] EXCEPT !.at = "has", !.record = r]
    OBVIOUS
  <2>7. /\ j \in Command(issued + 1) /\ j.at = "has" /\ j.op = command[c].op /\ j.provider = p
        /\ j.record = r
    BY <1>1, <1>5, <2>5, <2>6 DEF Command
  <2>8. command' = [command EXCEPT ![c] = j]
    BY <1>5, <2>1, <2>3, <2>4, <2>6 DEF L!refreshed, L!parse_token_response, L!Goes
  <2>9. live' \in [Provider -> SUBSET Nat] /\ n \in live'[p]
        /\ live'[p] = (IF rotates THEN (live[p] \ {command[c].seen.refresh}) \cup {issued + 1} ELSE live[p])
        /\ \A q \in Provider \ {p} : live'[q] = live[q]
    BY <1>1, <2>0, <2>1, <2>2
  <2>10. ASSUME ~disturbed
         PROVE  /\ j.op = "access" /\ \A d \in Process \ {c} : ~Busy(command[d])
                /\ \A d \in Process \ {c} : Gives(command[d]) /\ command[d].provider = p =>
                       command[d].record.refresh \in live'[p]
    <3>1. Undisturbed /\ Busy(command[c]) /\ Prepared(command[c])
      BY <2>1, <2>10 DEF LoginInv, Undisturbed, Busy
    <3>2. j.op = "access" /\ command[c].seen = file.records[p]
      BY <1>5, <2>1, <2>7, <3>1 DEF Prepared
    <3>3. \A d \in Process \ {c} : ~Busy(command[d])
      BY <3>1 DEF Undisturbed
    <3>4. Stands(file.records)
      BY <2>1, <3>1, <3>3 DEF Undisturbed, Busy
    <3>5. ASSUME NEW d \in Process \ {c}, Gives(command[d]), command[d].provider = p
          PROVE  command[d].record.refresh \in live'[p]
      <4>1. command[d].record.refresh \in live[p]
        BY <3>1, <3>5 DEF Undisturbed, Prepared
      <4>2. rotates => command[d].record.refresh # command[c].seen.refresh
        BY <3>2, <3>4, <3>5 DEF Stands
      <4>3. QED
        BY <2>9, <4>1, <4>2
    <3>6. QED
      BY <3>2, <3>3, <3>5
  <2>11. ~Holds(command[c]) /\ disturbed' \in BOOLEAN
    BY <1>1, <2>1 DEF Holds
  <2>12. QED
    <3>1. ~disturbed' => ~disturbed
      BY <2>1
    <3>2. r.refresh \in live'[p] /\ (rotates => r.refresh = issued + 1)
      BY <2>2, <2>5, <2>9
    <3>3. QED
      BY <2>1, <2>5, <2>7, <2>8, <2>9, <2>10, <2>11, <2>0, <3>1, <3>2, NewRecord
<1>6. QED
  BY <1>4, <1>5

LEMMA StepLogin ==
    ASSUME LoginInv, L!LoginNext
    PROVE  LoginInv'
<1>1. CASE L!tick
  <2>1. now' \in Nat /\ UNCHANGED <<file, issued, rotates, live, command, logins, disturbed>>
    BY <1>1 DEF L!tick, LoginInv, LoginTypes
  <2>2. QED
    BY <2>1, NoCommandMoves
<1>2. CASE \E c \in Process : L!reads_file(c) \/ L!refresh_fails(c) \/ L!login_fails(c) \/ L!killed(c)
  BY <1>2, StepAlone
<1>3. CASE \E c \in Process : L!truncates(c) \/ L!writes_file(c)
  BY <1>3, StepTruncates, StepWrites
<1>4. CASE \E c \in Process : L!refreshed(c) \/ L!finish_login(c)
  BY <1>4, StepIssues
<1>5. CASE \E c \in Process, p \in Provider : L!login(c, p) \/ L!logout(c, p) \/ L!access_token(c, p)
  BY <1>5, StepAlone, StepIssues
<1>6. QED
  BY <1>1, <1>2, <1>3, <1>4, <1>5 DEF L!LoginNext

-----------------------------------------------------------------------------
(* extensions: what stands in a directory, and who put it there *)

Sources == {[pkg EXCEPT !.whole = TRUE] : pkg \in Package}
Pieces  == {X!Nothing, X!Torn} \cup Sources \cup {[pkg EXCEPT !.whole = FALSE] : pkg \in Sources}
Fronts  == {"cli", "tui", "git"}
Placing ==
    [at : {"copy", "copying", "old", "removing", "rename", "lint", "unplace"}, front : Fronts,
     scope : X!Scope, name : Name, from : Sources]
Deleting ==
    [at : {"delete"}, front : {"cli", "tui"}, scope : X!Scope, name : Name, from : {X!Nothing}]
Jobs == Placing \cup Deleting \cup {X!NoJob}

Mark == (Fronts \cup {"none", "killed", "torn"}) \X (Installer \cup {"none"})

ExtTypes ==
    /\ catalog \in [Name -> Package]
    /\ dir \in [X!Scope -> [Name -> Pieces]] /\ staging \in [X!Scope -> [Name -> Pieces]]
    /\ placed \in [X!Scope -> [Name -> Mark]]
    /\ job \in [Installer -> Jobs] /\ shared \in BOOLEAN

\* An install that no other overlaps renames what it has copied.
WholeInv ==
    ~shared =>
        /\ \A i, j \in Installer : i # j /\ job[i].at # "rest" /\ job[j].at # "rest" =>
               <<job[i].scope, job[i].name>> # <<job[j].scope, job[j].name>>
        /\ \A i \in Installer : job[i].at \in {"old", "removing", "rename"} =>
               staging[job[i].scope][job[i].name] = job[i].from
        /\ \A s \in X!Scope, n \in Name :
               dir[s][n] # X!Nothing => dir[s][n].whole \/ placed[s][n][1] = "torn"

\* What the gate has not seen is in the hands of the job that placed it.
GateInv ==
    \A s \in X!Scope, n \in Name :
        dir[s][n] # X!Nothing /\ placed[s][n][1] = "cli" =>
            \/ X!Declared(dir[s][n])
            \/ /\ placed[s][n][2] \in Installer /\ job[placed[s][n][2]].at = "lint"
               /\ job[placed[s][n][2]].scope = s /\ job[placed[s][n][2]].name = n

ExtInv == ExtTypes /\ WholeInv /\ GateInv /\ X!ProjectIsStronger

LEMMA Written ==
    ASSUME NEW V, NEW f \in [X!Scope -> [Name -> V]], NEW s \in X!Scope, NEW n \in Name, NEW v \in V,
           NEW g, g = [f EXCEPT ![s][n] = v]
    PROVE  /\ g \in [X!Scope -> [Name -> V]]
           /\ \A t \in X!Scope, m \in Name : g[t][m] = IF t = s /\ m = n THEN v ELSE f[t][m]
OBVIOUS

LEMMA NoJobIs == X!NoJob.at = "rest" /\ X!Nothing \in Pieces /\ X!NoJob \in Jobs
BY DEF X!NoJob, Pieces, Jobs

\* What is left of a piece is a piece.
LEMMA PartsArePieces ==
    ASSUME NEW piece \in Pieces PROVE X!Parts(piece) \subseteq Pieces
<1>1. X!Torn \in Pieces
  BY DEF Pieces
<1>2. [piece EXCEPT !.whole = FALSE] \in Pieces
  <2>1. CASE piece \in {X!Nothing, X!Torn}
    <3>1. [piece EXCEPT !.whole = FALSE] = piece
      BY <2>1 DEF X!Nothing, X!Torn
    <3>2. QED
      BY <3>1
  <2>2. CASE piece \in Sources
    BY <2>2 DEF Pieces
  <2>3. ASSUME NEW pkg \in Sources, piece = [pkg EXCEPT !.whole = FALSE]
        PROVE  [piece EXCEPT !.whole = FALSE] \in Pieces
    <3>1. [piece EXCEPT !.whole = FALSE] = piece
      BY <2>3
    <3>2. QED
      BY <3>1
  <2>4. QED
    BY <2>1, <2>2, <2>3 DEF Pieces
<1>3. QED
  BY <1>1, <1>2 DEF X!Parts

LEMMA InitExt ==
    ASSUME X!ExtInit PROVE ExtInv
<1>1. ExtTypes
  <2>1. [n \in Name |-> X!Nothing] \in [Name -> Pieces]
    BY NoJobIs
  <2>2. dir \in [X!Scope -> [Name -> Pieces]] /\ staging \in [X!Scope -> [Name -> Pieces]]
    BY <2>1 DEF X!ExtInit
  <2>3. /\ catalog \in [Name -> Package]
        /\ placed \in [X!Scope -> [Name -> Mark]]
        /\ job \in [Installer -> Jobs] /\ shared \in BOOLEAN
    <3>1. <<"none", "none">> \in Mark
      BY DEF Mark
    <3>2. [n \in Name |-> <<"none", "none">>] \in [Name -> Mark]
      BY <3>1
    <3>3. placed \in [X!Scope -> [Name -> Mark]]
      BY <3>2 DEF X!ExtInit
    <3>4. catalog \in [Name -> Package]
      BY DEF X!ExtInit
    <3>5. job \in [Installer -> Jobs] /\ shared \in BOOLEAN
      BY NoJobIs DEF X!ExtInit
    <3>6. QED
      BY <3>3, <3>4, <3>5
  <2>4. QED
    BY <2>2, <2>3 DEF ExtTypes
<1>2. WholeInv /\ GateInv
  BY NoJobIs DEF X!ExtInit, WholeInv, GateInv
<1>3. X!ProjectIsStronger
  BY DEF X!ExtInit, X!ProjectIsStronger
<1>4. QED
  BY <1>1, <1>2, <1>3 DEF ExtInv

LEMMA ExtFromInv ==
    ASSUME ExtInv PROVE X!GatedPassesLint /\ X!InstalledIsWhole /\ X!ProjectIsStronger
BY DEF ExtInv, GateInv, WholeInv, X!GatedPassesLint, X!InstalledIsWhole

\* Of two scopes the second one wins.
LEMMA SecondWins ==
    ASSUME NEW g, NEW p, \A x \in g : x.scope = "global", \A x \in p : x.scope = "project",
           NEW one \in {x \in g : \A y \in p : y.skill.name # x.skill.name} \cup p,
           NEW other \in {x \in g : \A y \in p : y.skill.name # x.skill.name} \cup p,
           one.skill.name = other.skill.name
    PROVE  one.scope = other.scope
OBVIOUS

LEMMA Stronger ==
    ASSUME session' = session \/ session' = X!load_all \/ session' = X!load_all',
           X!ProjectIsStronger
    PROVE  X!ProjectIsStronger'
<1>1. CASE session' = session
  BY <1>1 DEF X!ProjectIsStronger
<1>2. CASE session' = X!load_all
  <2>1. /\ \A x \in X!load_dir("global") : x.scope = "global"
        /\ \A x \in X!load_dir("project") : x.scope = "project"
    BY DEF X!load_dir
  <2>2. QED
    BY <1>2, <2>1, SecondWins DEF X!ProjectIsStronger, X!load_all
<1>3. CASE session' = X!load_all'
  <2>1. /\ \A x \in X!load_dir("global")' : x.scope = "global"
        /\ \A x \in X!load_dir("project")' : x.scope = "project"
    BY DEF X!load_dir
  <2>2. QED
    BY <1>3, <2>1, SecondWins DEF X!ProjectIsStronger, X!load_all
<1>4. QED
  BY <1>1, <1>2, <1>3

-----------------------------------------------------------------------------
\* What an install is in the middle of.
LEMMA Working ==
    ASSUME ExtInv, NEW i \in Installer, job[i].at # "rest"
    PROVE  /\ job[i].scope \in X!Scope /\ job[i].name \in Name
           /\ job[i].at # "delete" =>
                job[i] \in Placing /\ job[i].from.whole /\ job[i].from \in Sources
<1>1. job[i] \in Placing \cup Deleting
  BY NoJobIs DEF ExtInv, ExtTypes, Jobs
<1>2. \A pkg \in Sources : pkg.whole = TRUE
  BY FrontAssumption DEF X!ExtAssumption, Sources
<1>3. QED
  BY <1>1, <1>2 DEF Placing, Deleting

\* A removal begins, or ends.
LEMMA Tears ==
    ASSUME ExtInv, NEW s \in X!Scope, NEW n \in Name, X!tears(s, n)
    PROVE  /\ dir' \in [X!Scope -> [Name -> Pieces]] /\ placed' \in [X!Scope -> [Name -> Mark]]
           /\ placed'[s][n][1] = "torn"
           /\ \A u \in X!Scope, m \in Name :
                ~(u = s /\ m = n) => dir'[u][m] = dir[u][m] /\ placed'[u][m] = placed[u][m]
<1>1. dir \in [X!Scope -> [Name -> Pieces]] /\ placed \in [X!Scope -> [Name -> Mark]]
  BY DEF ExtInv, ExtTypes
<1>2. PICK rest \in X!Parts(dir[s][n]) : dir' = [dir EXCEPT ![s][n] = rest]
  BY DEF X!tears
<1>3. rest \in Pieces
  BY <1>1, <1>2, PartsArePieces
<1>4. /\ dir' \in [X!Scope -> [Name -> Pieces]]
      /\ \A u \in X!Scope, m \in Name : dir'[u][m] = IF u = s /\ m = n THEN rest ELSE dir[u][m]
  BY <1>1, <1>2, <1>3, Written
<1>5. PICK mark : mark = <<"torn", "none">>
  OBVIOUS
<1>6. mark \in Mark /\ mark[1] = "torn" /\ placed' = [placed EXCEPT ![s][n] = mark]
  BY <1>5 DEF Mark, X!tears
<1>7. /\ placed' \in [X!Scope -> [Name -> Mark]]
      /\ \A u \in X!Scope, m \in Name : placed'[u][m] = IF u = s /\ m = n THEN mark ELSE placed[u][m]
  BY <1>1, <1>6, Written
<1>8. QED
  BY <1>4, <1>6, <1>7

LEMMA Emptied ==
    ASSUME ExtInv, NEW s \in X!Scope, NEW n \in Name, X!removed(s, n)
    PROVE  /\ dir' \in [X!Scope -> [Name -> Pieces]]
           /\ \A u \in X!Scope, m \in Name : dir'[u][m] \in {dir[u][m], X!Nothing}
<1>1. dir \in [X!Scope -> [Name -> Pieces]]
  BY DEF ExtInv, ExtTypes
<1>2. QED
  BY <1>1, NoJobIs, Written DEF X!removed

\* How a directory and its mark may move: it stays, or it goes, or a removal of it has begun.
Moved ==
    \A u \in X!Scope, m \in Name :
        \/ placed'[u][m][1] = "torn"
        \/ /\ dir'[u][m] \in {dir[u][m], X!Nothing}
           /\ \/ placed'[u][m] = placed[u][m]
              \/ placed'[u][m][1] = "killed" /\ placed[u][m][1] = "cli"

\* What the gate of one job has left.
Passed(i) ==
    \A u \in X!Scope, m \in Name :
        dir'[u][m] # X!Nothing /\ placed'[u][m][1] = "cli" /\ placed'[u][m][2] = i =>
            X!Declared(dir'[u][m])

\* One job goes on, and the directories stay, go or are torn.
LEMMA OneInstalls ==
    ASSUME ExtInv, NEW i \in Installer, NEW j \in Jobs, job' = [job EXCEPT ![i] = j],
           dir' \in [X!Scope -> [Name -> Pieces]], placed' \in [X!Scope -> [Name -> Mark]], Moved,
           catalog' \in [Name -> Package], shared' \in BOOLEAN,
           staging' \in [X!Scope -> [Name -> Pieces]],
           ~shared' => ~shared,
           ~shared' /\ j.at # "rest" => \A d \in Installer \ {i} : job[d].at # "rest" =>
               <<j.scope, j.name>> # <<job[d].scope, job[d].name>>,
           ~shared' => \A d \in Installer \ {i} : job[d].at # "rest" =>
               staging'[job[d].scope][job[d].name] = staging[job[d].scope][job[d].name],
           ~shared' /\ j.at \in {"old", "removing", "rename"} => staging'[j.scope][j.name] = j.from,
           job[i].at = "lint" => Passed(i)
    PROVE  ExtTypes' /\ WholeInv' /\ GateInv'
<1>1. \A d \in Installer : job'[d] = IF d = i THEN j ELSE job[d]
  BY DEF ExtInv, ExtTypes
<1>2. ExtTypes'
  BY DEF ExtInv, ExtTypes
<1>3. WholeInv'
  <2>1. ASSUME ~shared' PROVE WholeInv /\ ~shared
    BY <2>1 DEF ExtInv
  <2>2. ASSUME ~shared', NEW c \in Installer, NEW d \in Installer, c # d, job'[c].at # "rest", job'[d].at # "rest"
        PROVE  <<job'[c].scope, job'[c].name>> # <<job'[d].scope, job'[d].name>>
    BY <1>1, <2>1, <2>2 DEF WholeInv
  <2>3. ASSUME ~shared', NEW d \in Installer, job'[d].at \in {"old", "removing", "rename"}
        PROVE  staging'[job'[d].scope][job'[d].name] = job'[d].from
    <3>1. CASE d = i
      BY <1>1, <2>3, <3>1
    <3>2. CASE d # i
      BY <1>1, <2>1, <2>3, <3>2 DEF WholeInv
    <3>3. QED
      BY <3>1, <3>2
  <2>4. ASSUME ~shared', NEW s \in X!Scope, NEW n \in Name, dir'[s][n] # X!Nothing
        PROVE  dir'[s][n].whole \/ placed'[s][n][1] = "torn"
    <3>1. SUFFICES ASSUME placed'[s][n][1] # "torn" PROVE dir'[s][n].whole
      OBVIOUS
    <3>2. dir'[s][n] = dir[s][n] /\ placed[s][n][1] # "torn"
      BY <2>4, <3>1 DEF Moved
    <3>3. QED
      BY <2>1, <2>4, <3>2 DEF WholeInv
  <2>5. QED
    BY <2>2, <2>3, <2>4 DEF WholeInv
<1>4. GateInv'
  <2>1. ASSUME NEW s \in X!Scope, NEW n \in Name, dir'[s][n] # X!Nothing, placed'[s][n][1] = "cli",
               ~X!Declared(dir'[s][n])
        PROVE  /\ placed'[s][n][2] \in Installer /\ job'[placed'[s][n][2]].at = "lint"
               /\ job'[placed'[s][n][2]].scope = s /\ job'[placed'[s][n][2]].name = n
    <3>1. dir'[s][n] = dir[s][n] /\ placed'[s][n] = placed[s][n]
      BY <2>1 DEF Moved
    <3>2. /\ placed[s][n][2] \in Installer /\ job[placed[s][n][2]].at = "lint"
          /\ job[placed[s][n][2]].scope = s /\ job[placed[s][n][2]].name = n
      BY <2>1, <3>1 DEF ExtInv, GateInv
    <3>3. placed[s][n][2] # i
      BY <2>1, <3>1, <3>2 DEF Passed
    <3>4. QED
      BY <1>1, <3>1, <3>2, <3>3
  <2>2. QED
    BY <2>1 DEF GateInv, X!Declared
<1>5. QED
  BY <1>2, <1>3, <1>4

LEMMA OneRests ==
    ASSUME ExtInv, NEW i \in Installer, job' = [job EXCEPT ![i] = X!NoJob],
           UNCHANGED <<catalog, staging, shared>>,
           dir' \in [X!Scope -> [Name -> Pieces]], placed' \in [X!Scope -> [Name -> Mark]], Moved,
           job[i].at = "lint" => Passed(i)
    PROVE  ExtTypes' /\ WholeInv' /\ GateInv'
<1>1. /\ X!NoJob.at = "rest" /\ catalog' \in [Name -> Package] /\ shared' \in BOOLEAN
      /\ staging' \in [X!Scope -> [Name -> Pieces]]
  BY NoJobIs DEF ExtInv, ExtTypes
<1>2. PICK j : j = X!NoJob
  OBVIOUS
<1>3. /\ j \in Jobs /\ j.at = "rest"
      /\ job' = [job EXCEPT ![i] = j] /\ staging' = staging /\ shared' = shared
  BY <1>1, <1>2, NoJobIs
<1>4. ~shared' /\ j.at # "rest" => \A d \in Installer \ {i} : job[d].at # "rest" =>
               <<j.scope, j.name>> # <<job[d].scope, job[d].name>>
  BY <1>3
<1>5. ~shared' => \A d \in Installer \ {i} : job[d].at # "rest" =>
               staging'[job[d].scope][job[d].name] = staging[job[d].scope][job[d].name]
  BY <1>3
<1>6.  ~shared' /\ j.at \in {"old", "removing", "rename"} => staging'[j.scope][j.name] = j.from
  BY <1>3
<1>8. ~shared' => ~shared
  BY <1>3
<1>7. QED
  BY <1>1, <1>3, <1>4, <1>5, <1>6, <1>8, OneInstalls

\* A job that goes on in place, with its staging directory as it is.
LEMMA OneGoesOn ==
    ASSUME ExtInv, NEW i \in Installer, job[i].at \notin {"rest", "delete"},
           NEW at \in {"removing", "rename", "unplace"}, X!Goes(i, at),
           UNCHANGED <<catalog, staging, shared>>,
           at # "unplace" => job[i].at \in {"old", "removing"},
           dir' \in [X!Scope -> [Name -> Pieces]], placed' \in [X!Scope -> [Name -> Mark]], Moved,
           job[i].at = "lint" => Passed(i)
    PROVE  ExtTypes' /\ WholeInv' /\ GateInv'
<1>1. PICK j : j = [job[i] EXCEPT !.at = at]
  OBVIOUS
<1>2. job[i] \in Placing
  BY Working
<1>3. /\ j \in Jobs /\ j.at = at /\ j.scope = job[i].scope /\ j.name = job[i].name
      /\ j.from = job[i].from
  BY <1>1, <1>2 DEF Placing, Jobs
<1>4. job' = [job EXCEPT ![i] = j]
  BY <1>1 DEF X!Goes
<1>5. /\ catalog' \in [Name -> Package] /\ shared' \in BOOLEAN /\ (~shared' => ~shared)
      /\ staging' \in [X!Scope -> [Name -> Pieces]]
  BY DEF ExtInv, ExtTypes
<1>6. ~shared' /\ j.at # "rest" => \A d \in Installer \ {i} : job[d].at # "rest" =>
               <<j.scope, j.name>> # <<job[d].scope, job[d].name>>
  BY <1>3 DEF ExtInv, WholeInv
<1>7. ~shared' => \A d \in Installer \ {i} : job[d].at # "rest" =>
               staging'[job[d].scope][job[d].name] = staging[job[d].scope][job[d].name]
  OBVIOUS
<1>8. ~shared' /\ j.at \in {"old", "removing", "rename"} => staging'[j.scope][j.name] = j.from
  BY <1>3 DEF ExtInv, WholeInv
<1>9. QED
  BY <1>3, <1>4, <1>5, <1>6, <1>7, <1>8, OneInstalls

LEMMA StepInstall ==
    ASSUME ExtInv, NEW i \in Installer,
           \/ X!copies(i) \/ X!copied(i)
           \/ \E fr \in Fronts, s \in X!Scope, n \in Name : X!begins(i, fr, s, n)
    PROVE  ExtInv'
<1>1. /\ job \in [Installer -> Jobs] /\ shared \in BOOLEAN
      /\ staging \in [X!Scope -> [Name -> Pieces]] /\ catalog \in [Name -> Package]
      /\ dir \in [X!Scope -> [Name -> Pieces]] /\ placed \in [X!Scope -> [Name -> Mark]]
  BY DEF ExtInv, ExtTypes
<1>2. CASE X!copies(i)
  <2>1. PICK piece \in X!Parts(job[i].from) : X!stages(i, piece)
    BY <1>2 DEF X!copies
  <2>2. job[i].at = "copy" /\ X!Goes(i, "copying") /\ UNCHANGED <<catalog, dir, placed, shared, session>>
    BY <1>2 DEF X!copies, X!At
  <2>3. /\ job[i] \in Placing /\ job[i].scope \in X!Scope /\ job[i].name \in Name
        /\ job[i].from \in Sources
    BY <2>2, Working
  <2>4. piece \in Pieces
    BY <2>1, <2>3, PartsArePieces DEF Pieces
  <2>5. /\ staging' \in [X!Scope -> [Name -> Pieces]]
        /\ \A t \in X!Scope, m \in Name : staging'[t][m] =
             IF t = job[i].scope /\ m = job[i].name THEN piece ELSE staging[t][m]
    BY <1>1, <2>1, <2>3, <2>4, Written DEF X!stages
  <2>6. PICK j : j = [job[i] EXCEPT !.at = "copying"]
    OBVIOUS
  <2>7. /\ j \in Placing /\ j.at = "copying" /\ j.scope = job[i].scope /\ j.name = job[i].name
        /\ job' = [job EXCEPT ![i] = j]
    BY <2>2, <2>3, <2>6 DEF Placing, X!Goes
  <2>8. ASSUME ~shared, NEW d \in Installer \ {i}, job[d].at # "rest"
        PROVE  /\ <<j.scope, j.name>> # <<job[d].scope, job[d].name>>
               /\ staging'[job[d].scope][job[d].name] = staging[job[d].scope][job[d].name]
    <3>1. <<job[i].scope, job[i].name>> # <<job[d].scope, job[d].name>>
      BY <2>2, <2>8 DEF ExtInv, WholeInv
    <3>2. job[d].scope \in X!Scope /\ job[d].name \in Name
      BY <2>8, Working
    <3>3. QED
      BY <2>5, <2>7, <3>1, <3>2
  <2>9. ExtTypes' /\ WholeInv' /\ GateInv'
    BY <1>1, <2>2, <2>5, <2>7, <2>8, OneInstalls DEF Jobs, Moved
  <2>10. QED
    BY <2>2, <2>9, Stronger DEF ExtInv
<1>3. CASE X!copied(i)
  <2>1. /\ job[i].at = "copying" /\ X!Goes(i, "old") /\ X!stages(i, job[i].from)
        /\ UNCHANGED <<catalog, dir, placed, shared, session>>
    BY <1>3 DEF X!copied, X!At, X!copy_ends
  <2>3. /\ job[i] \in Placing /\ job[i].scope \in X!Scope /\ job[i].name \in Name
        /\ job[i].from \in Sources
    BY <2>1, Working
  <2>4. job[i].from \in Pieces
    BY <2>3 DEF Pieces
  <2>5. /\ staging' \in [X!Scope -> [Name -> Pieces]]
        /\ \A t \in X!Scope, m \in Name : staging'[t][m] =
             IF t = job[i].scope /\ m = job[i].name THEN job[i].from ELSE staging[t][m]
    BY <1>1, <2>1, <2>3, <2>4, Written DEF X!stages
  <2>6. PICK j : j = [job[i] EXCEPT !.at = "old"]
    OBVIOUS
  <2>7. /\ j \in Placing /\ j.at = "old" /\ j.scope = job[i].scope /\ j.name = job[i].name
        /\ j.from = job[i].from /\ job' = [job EXCEPT ![i] = j]
    BY <2>1, <2>3, <2>6 DEF Placing, X!Goes
  <2>8. ASSUME ~shared, NEW d \in Installer \ {i}, job[d].at # "rest"
        PROVE  /\ <<j.scope, j.name>> # <<job[d].scope, job[d].name>>
               /\ staging'[job[d].scope][job[d].name] = staging[job[d].scope][job[d].name]
    <3>1. <<job[i].scope, job[i].name>> # <<job[d].scope, job[d].name>>
      BY <2>1, <2>8 DEF ExtInv, WholeInv
    <3>2. job[d].scope \in X!Scope /\ job[d].name \in Name
      BY <2>8, Working
    <3>3. QED
      BY <2>5, <2>7, <3>1, <3>2
  <2>9. ExtTypes' /\ WholeInv' /\ GateInv'
    BY <1>1, <2>1, <2>3, <2>5, <2>7, <2>8, OneInstalls DEF Jobs, Moved
  <2>10. QED
    BY <2>1, <2>9, Stronger DEF ExtInv
<1>4. ASSUME NEW fr \in Fronts, NEW s \in X!Scope, NEW n \in Name, X!begins(i, fr, s, n)
      PROVE  ExtInv'
  <2>1. PICK pkg \in IF fr = "git" THEN Package ELSE {catalog[n]} :
          job' = [job EXCEPT ![i] = [at |-> "copy", front |-> fr, scope |-> s, name |-> n,
                                    from |-> [pkg EXCEPT !.whole = TRUE]]]
    BY <1>4 DEF X!begins
  <2>2. PICK j : j = [at |-> "copy", front |-> fr, scope |-> s, name |-> n,
                      from |-> [pkg EXCEPT !.whole = TRUE]]
    OBVIOUS
  <2>3. pkg \in Package
    BY <1>1, <2>1
  <2>4. j \in Placing /\ j.at = "copy" /\ j.scope = s /\ j.name = n
    BY <2>2, <2>3 DEF Placing, Sources
  <2>5. /\ job' = [job EXCEPT ![i] = j] /\ job[i].at = "rest"
        /\ shared' = (shared \/ X!Same(i, s, n) # {})
        /\ UNCHANGED <<catalog, dir, staging, placed, session>>
    BY <1>4, <2>1, <2>2 DEF X!begins
  <2>6. shared' \in BOOLEAN /\ (~shared' => ~shared /\ X!Same(i, s, n) = {})
    BY <1>1, <2>5
  <2>7. ASSUME ~shared', NEW d \in Installer \ {i}, job[d].at # "rest"
        PROVE  <<j.scope, j.name>> # <<job[d].scope, job[d].name>>
    BY <2>4, <2>6, <2>7 DEF X!Same
  <2>8. ExtTypes' /\ WholeInv' /\ GateInv'
    BY <1>1, <2>4, <2>5, <2>6, <2>7, OneInstalls DEF Jobs, Moved
  <2>9. QED
    BY <2>5, <2>8, Stronger DEF ExtInv
<1>5. QED
  BY <1>2, <1>3, <1>4

\* A removal begins, or ends, in a command, before a new version or after a failed lint.
LEMMA StepRemoves ==
    ASSUME ExtInv, NEW i \in Installer,
           \/ X!removes_old(i) \/ X!removed_old(i) \/ X!lints(i) \/ X!unplaced(i) \/ X!deletes(i)
           \/ \E fr \in {"cli", "tui"}, s \in X!Scope, n \in Name : X!removes(i, fr, s, n)
    PROVE  ExtInv'
<1> DEFINE s == job[i].scope
           n == job[i].name
<1>1. /\ dir \in [X!Scope -> [Name -> Pieces]] /\ placed \in [X!Scope -> [Name -> Mark]]
      /\ staging \in [X!Scope -> [Name -> Pieces]] /\ catalog \in [Name -> Package]
      /\ shared \in BOOLEAN
  BY DEF ExtInv, ExtTypes
<1>2. job[i].at # "rest" => s \in X!Scope /\ n \in Name
  BY Working
<1>3. CASE X!removes_old(i)
  <2>1. job[i].at = "old" /\ UNCHANGED <<catalog, staging, shared, session>>
    BY <1>3 DEF X!removes_old, X!At
  <2>2. ExtTypes' /\ WholeInv' /\ GateInv'
    <3>1. CASE dir[s][n] = X!Nothing
      <4>1. X!Goes(i, "rename") /\ dir' = dir /\ placed' = placed
        BY <1>3, <3>1 DEF X!removes_old
      <4>2. dir' \in [X!Scope -> [Name -> Pieces]] /\ placed' \in [X!Scope -> [Name -> Mark]] /\ Moved
        BY <1>1, <4>1 DEF Moved
      <4>3. QED
        BY <2>1, <4>1, <4>2, OneGoesOn
    <3>2. CASE dir[s][n] # X!Nothing
      <4>1. X!Goes(i, "removing") /\ X!tears(s, n)
        BY <1>3, <3>2 DEF X!removes_old
      <4>2. dir' \in [X!Scope -> [Name -> Pieces]] /\ placed' \in [X!Scope -> [Name -> Mark]] /\ Moved
        BY <1>2, <2>1, <4>1, Tears DEF Moved
      <4>3. QED
        BY <2>1, <4>1, <4>2, OneGoesOn
    <3>3. QED
      BY <3>1, <3>2
  <2>3. QED
    BY <2>1, <2>2, Stronger DEF ExtInv
<1>4. CASE X!removed_old(i)
  <2>1. /\ job[i].at = "removing" /\ UNCHANGED <<catalog, staging, placed, shared, session>>
        /\ X!removed(s, n) /\ X!Goes(i, "rename")
    BY <1>4 DEF X!removed_old, X!At
  <2>2. dir' \in [X!Scope -> [Name -> Pieces]] /\ placed' \in [X!Scope -> [Name -> Mark]] /\ Moved
    BY <1>1, <1>2, <2>1, Emptied DEF Moved
  <2>3. ExtTypes' /\ WholeInv' /\ GateInv'
    BY <2>1, <2>2, OneGoesOn
  <2>4. QED
    BY <2>1, <2>3, Stronger DEF ExtInv
<1>5. CASE X!lints(i)
  <2>1. /\ job[i].at = "lint" /\ UNCHANGED <<catalog, staging, shared, session>>
        /\ s \in X!Scope /\ n \in Name
    BY <1>2, <1>5 DEF X!lints, X!At
  <2>2. ASSUME NEW t \in X!Scope, NEW m \in Name, ~(t = s /\ m = n), dir[t][m] # X!Nothing,
               placed[t][m][1] = "cli", placed[t][m][2] = i
        PROVE  X!Declared(dir[t][m])
    BY <2>2 DEF ExtInv, GateInv
  <2>3. CASE X!lint(dir[s][n]) \/ dir[s][n] = X!Nothing
    <3>1. job' = [job EXCEPT ![i] = X!NoJob] /\ dir' = dir /\ placed' = placed
      BY <1>5, <2>3 DEF X!lints
    <3>2. dir' \in [X!Scope -> [Name -> Pieces]] /\ placed' \in [X!Scope -> [Name -> Mark]] /\ Moved
      BY <1>1, <3>1 DEF Moved
    <3>3. Passed(i)
      BY <2>2, <2>3, <3>1 DEF Passed, X!lint, X!Declared
    <3>4. ExtTypes' /\ WholeInv' /\ GateInv'
      BY <2>1, <3>1, <3>2, <3>3, OneRests
    <3>5. QED
      BY <2>1, <3>4, Stronger DEF ExtInv
  <2>4. CASE ~(X!lint(dir[s][n]) \/ dir[s][n] = X!Nothing)
    <3>1. X!Goes(i, "unplace") /\ X!tears(s, n)
      BY <1>5, <2>4 DEF X!lints
    <3>2. /\ dir' \in [X!Scope -> [Name -> Pieces]] /\ placed' \in [X!Scope -> [Name -> Mark]]
          /\ placed'[s][n][1] = "torn"
          /\ \A u \in X!Scope, m \in Name :
               ~(u = s /\ m = n) => dir'[u][m] = dir[u][m] /\ placed'[u][m] = placed[u][m]
      BY <2>1, <3>1, Tears
    <3>3. Moved
      BY <3>2 DEF Moved
    <3>4. Passed(i)
      BY <2>2, <3>2 DEF Passed, X!Declared
    <3>5. ExtTypes' /\ WholeInv' /\ GateInv'
      BY <2>1, <3>1, <3>2, <3>3, <3>4, OneGoesOn
    <3>6. QED
      BY <2>1, <3>5, Stronger DEF ExtInv
  <2>5. QED
    BY <2>3, <2>4
<1>6. CASE X!unplaced(i) \/ X!deletes(i)
  <2>1. /\ job[i].at \in {"unplace", "delete"} /\ UNCHANGED <<catalog, staging, placed, shared>>
        /\ X!removed(s, n) /\ job' = [job EXCEPT ![i] = X!NoJob]
        /\ session' = session \/ session' = X!load_all'
    BY <1>6 DEF X!unplaced, X!deletes, X!At
  <2>2. dir' \in [X!Scope -> [Name -> Pieces]] /\ placed' \in [X!Scope -> [Name -> Mark]] /\ Moved
    BY <1>1, <1>2, <2>1, Emptied DEF Moved
  <2>3. ExtTypes' /\ WholeInv' /\ GateInv'
    BY <2>1, <2>2, OneRests
  <2>4. QED
    BY <2>1, <2>3, Stronger DEF ExtInv
<1>7. ASSUME NEW fr \in {"cli", "tui"}, NEW sc \in X!Scope, NEW nm \in Name, X!removes(i, fr, sc, nm)
      PROVE  ExtInv'
  <2>1. PICK j : j = [at |-> "delete", front |-> fr, scope |-> sc, name |-> nm, from |-> X!Nothing]
    OBVIOUS
  <2>2. j \in Jobs /\ j.at = "delete" /\ j.scope = sc /\ j.name = nm
    BY <2>1 DEF Jobs, Deleting
  <2>3. /\ job' = [job EXCEPT ![i] = j] /\ job[i].at = "rest" /\ X!tears(sc, nm)
        /\ shared' = (shared \/ X!Same(i, sc, nm) # {}) /\ UNCHANGED <<catalog, staging, session>>
    BY <1>7, <2>1 DEF X!removes
  <2>4. shared' \in BOOLEAN /\ (~shared' => ~shared /\ X!Same(i, sc, nm) = {})
    BY <1>1, <2>3
  <2>5. ASSUME ~shared', NEW d \in Installer \ {i}, job[d].at # "rest"
        PROVE  <<j.scope, j.name>> # <<job[d].scope, job[d].name>>
    BY <2>2, <2>4, <2>5 DEF X!Same
  <2>6. dir' \in [X!Scope -> [Name -> Pieces]] /\ placed' \in [X!Scope -> [Name -> Mark]] /\ Moved
    BY <2>3, Tears DEF Moved
  <2>7. ExtTypes' /\ WholeInv' /\ GateInv'
    BY <1>1, <2>2, <2>3, <2>4, <2>5, <2>6, OneInstalls
  <2>8. QED
    BY <2>3, <2>7, Stronger DEF ExtInv
<1>8. QED
  BY <1>3, <1>4, <1>5, <1>6, <1>7

\* The end of an install: its directory gets its name, or the job stops before.
LEMMA StepPlaces ==
    ASSUME ExtInv, NEW i \in Installer, X!rename_fails(i) \/ X!renames(i) \/ X!killed(i)
    PROVE  ExtInv'
<1> DEFINE s == job[i].scope
           n == job[i].name
<1>1. job[i].at # "rest" /\ s \in X!Scope /\ n \in Name
  BY Working DEF X!rename_fails, X!renames, X!killed, X!At
<1>2. /\ job \in [Installer -> Jobs] /\ shared \in BOOLEAN /\ X!NoJob.at = "rest"
      /\ staging \in [X!Scope -> [Name -> Pieces]] /\ catalog \in [Name -> Package]
      /\ dir \in [X!Scope -> [Name -> Pieces]] /\ placed \in [X!Scope -> [Name -> Mark]]
  BY NoJobIs DEF ExtInv, ExtTypes
<1>3. ASSUME ~shared, NEW d \in Installer \ {i}, job[d].at # "rest"
      PROVE  <<s, n>> # <<job[d].scope, job[d].name>>
  BY <1>1, <1>3 DEF ExtInv, WholeInv
<1>4. CASE X!killed(i)
  <2>1. /\ job' = [job EXCEPT ![i] = X!NoJob] /\ dir' = dir
        /\ UNCHANGED <<catalog, dir, staging, shared, session>>
        /\ placed' = IF job[i].at = "lint" /\ placed[s][n] = <<"cli", i>>
                        THEN [placed EXCEPT ![s][n] = <<"killed", i>>] ELSE placed
    BY <1>4 DEF X!killed, X!At
  <2>2. CASE job[i].at = "lint" /\ placed[s][n] = <<"cli", i>>
    <3>1. PICK mark : mark = <<"killed", i>>
      OBVIOUS
    <3>2. mark \in Mark /\ mark[1] = "killed" /\ placed' = [placed EXCEPT ![s][n] = mark]
      BY <2>1, <2>2, <3>1 DEF Mark
    <3>3. /\ placed' \in [X!Scope -> [Name -> Mark]]
          /\ \A u \in X!Scope, m \in Name :
               placed'[u][m] = IF u = s /\ m = n THEN mark ELSE placed[u][m]
      BY <1>1, <1>2, <3>2, Written
    <3>4. placed[s][n][1] = "cli"
      BY <2>2
    <3>5. Moved
      BY <2>1, <3>2, <3>3, <3>4 DEF Moved
    <3>6. Passed(i)
      <4>1. ASSUME NEW t \in X!Scope, NEW m \in Name, dir'[t][m] # X!Nothing,
                   placed'[t][m][1] = "cli", placed'[t][m][2] = i
            PROVE  X!Declared(dir'[t][m])
        <5>1. ~(t = s /\ m = n) /\ placed'[t][m] = placed[t][m] /\ dir'[t][m] = dir[t][m]
          BY <2>1, <3>2, <3>3, <4>1
        <5>2. QED
          BY <4>1, <5>1 DEF ExtInv, GateInv, X!Declared
      <4>2. QED
        BY <4>1 DEF Passed, X!Declared
    <3>7. ExtTypes' /\ WholeInv' /\ GateInv'
      BY <1>2, <2>1, <3>3, <3>5, <3>6, OneRests
    <3>8. QED
      BY <2>1, <3>7, Stronger DEF ExtInv
  <2>3. CASE ~(job[i].at = "lint" /\ placed[s][n] = <<"cli", i>>)
    <3>1. placed' = placed
      BY <2>1, <2>3
    <3>2. Moved
      BY <2>1, <3>1 DEF Moved
    <3>3. job[i].at = "lint" => Passed(i)
      <4>1. ASSUME job[i].at = "lint", NEW t \in X!Scope, NEW m \in Name, dir'[t][m] # X!Nothing,
                   placed'[t][m][1] = "cli", placed'[t][m][2] = i
            PROVE  X!Declared(dir'[t][m])
        <5>1. placed[t][m] = <<"cli", i>>
          <6>1. PICK a \in Fronts \cup {"none", "killed", "torn"}, b \in Installer \cup {"none"} :
                  placed[t][m] = <<a, b>>
            BY <1>2 DEF Mark
          <6>2. QED
            BY <3>1, <4>1, <6>1
        <5>2. ~(t = s /\ m = n)
          BY <2>3, <4>1, <5>1
        <5>3. QED
          BY <2>1, <3>1, <4>1, <5>2 DEF ExtInv, GateInv, X!Declared
      <4>2. QED
        BY <4>1 DEF Passed, X!Declared
    <3>4. ExtTypes' /\ WholeInv' /\ GateInv'
      BY <1>2, <2>1, <3>1, <3>2, <3>3, OneRests
    <3>5. QED
      BY <2>1, <3>4, Stronger DEF ExtInv
  <2>4. QED
    BY <2>2, <2>3
<1>5. CASE X!rename_fails(i)
  <2>1. /\ job[i].at = "rename" /\ job' = [job EXCEPT ![i] = X!NoJob] /\ dir' = dir /\ placed' = placed
        /\ UNCHANGED <<catalog, dir, staging, placed, shared, session>>
    BY <1>5 DEF X!rename_fails, X!At
  <2>2. Moved
    BY <2>1 DEF Moved
  <2>3. ExtTypes' /\ WholeInv' /\ GateInv'
    BY <1>2, <2>1, <2>2, OneRests
  <2>4. QED
    BY <2>1, <2>3, Stronger DEF ExtInv
<1>6. CASE X!renames(i)
  <2>00. job[i] \in Placing /\ job[i].from.whole
    BY <1>6, Working DEF X!renames, X!At
  <2>1. PICK j \in Jobs :
          /\ j = IF job[i].front = "cli" THEN [job[i] EXCEPT !.at = "lint"] ELSE X!NoJob
          /\ j.at = IF job[i].front = "cli" THEN "lint" ELSE "rest"
          /\ job[i].front = "cli" => j.scope = s /\ j.name = n
    <3>1. CASE job[i].front = "cli"
      <4>1. PICK j : j = [job[i] EXCEPT !.at = "lint"]
        OBVIOUS
      <4>2. j \in Placing /\ j.at = "lint" /\ j.scope = s /\ j.name = n
        BY <1>1, <2>00, <4>1 DEF Placing
      <4>3. QED
        BY <3>1, <4>1, <4>2 DEF Jobs
    <3>2. CASE job[i].front # "cli"
      BY <1>2, <3>2, NoJobIs
    <3>3. QED
      BY <3>1, <3>2
  <2>0. /\ j.at \in {"lint", "rest"}
        /\ j.at # "rest" => job[i].front = "cli" /\ j.scope = s /\ j.name = n
        /\ job[i].front = "cli" => j.at = "lint"
    BY <2>1
  <2>2. /\ job[i].at = "rename" /\ job' = [job EXCEPT ![i] = j]
        /\ dir' = [dir EXCEPT ![s][n] = staging[s][n]]
        /\ staging' = [staging EXCEPT ![s][n] = X!Nothing]
        /\ placed' = [placed EXCEPT ![s][n] = <<job[i].front, i>>]
        /\ UNCHANGED <<catalog, shared>> /\ (session' = session \/ session' = X!load_all')
    BY <1>6, <2>1 DEF X!renames, X!At, X!stages, X!Goes
  <2>3. /\ dir' \in [X!Scope -> [Name -> Pieces]]
        /\ \A t \in X!Scope, m \in Name :
             dir'[t][m] = IF t = s /\ m = n THEN staging[s][n] ELSE dir[t][m]
    <3>1. staging[s][n] \in Pieces
      BY <1>1, <1>2
    <3>2. QED
      BY <1>1, <1>2, <2>2, <3>1, Written
  <2>4. /\ staging' \in [X!Scope -> [Name -> Pieces]]
        /\ \A t \in X!Scope, m \in Name :
             staging'[t][m] = IF t = s /\ m = n THEN X!Nothing ELSE staging[t][m]
    BY <1>1, <1>2, <2>2, Written, NoJobIs
  <2>5. /\ placed' \in [X!Scope -> [Name -> Mark]]
        /\ \A t \in X!Scope, m \in Name :
             placed'[t][m] = IF t = s /\ m = n THEN <<job[i].front, i>> ELSE placed[t][m]
    <3>1. <<job[i].front, i>> \in Mark
      BY <2>00 DEF Placing, Mark
    <3>2. placed \in [X!Scope -> [Name -> Mark]]
      BY DEF ExtInv, ExtTypes
    <3>3. QED
      BY <1>1, <2>2, <3>1, <3>2, Written
  <2>6. \A d \in Installer : job'[d] = IF d = i THEN j ELSE job[d]
    BY <1>2, <2>2
  <2>7. ExtTypes'
    BY <2>2, <2>3, <2>4, <2>5 DEF ExtInv, ExtTypes
  <2>8. WholeInv'
    <3>1. SUFFICES ASSUME ~shared PROVE WholeInv'
      BY <2>2 DEF WholeInv
    <3>2. WholeInv
      BY DEF ExtInv
    <3>3. ASSUME NEW c \in Installer, NEW d \in Installer, c # d, job'[c].at # "rest", job'[d].at # "rest"
          PROVE  <<job'[c].scope, job'[c].name>> # <<job'[d].scope, job'[d].name>>
      BY <1>3, <2>0, <2>6, <3>1, <3>2, <3>3 DEF WholeInv
    <3>4. ASSUME NEW d \in Installer, job'[d].at \in {"old", "removing", "rename"}
          PROVE  staging'[job'[d].scope][job'[d].name] = job'[d].from
      <4>1. d # i /\ job'[d] = job[d]
        BY <2>0, <2>6, <3>4
      <4>2. job[d].scope \in X!Scope /\ job[d].name \in Name
        BY <3>4, <4>1, Working
      <4>3. <<s, n>> # <<job[d].scope, job[d].name>> /\ staging[job[d].scope][job[d].name] = job[d].from
        BY <1>3, <3>1, <3>2, <3>4, <4>1 DEF WholeInv
      <4>4. QED
        BY <2>4, <4>1, <4>2, <4>3
    <3>5. ASSUME NEW t \in X!Scope, NEW m \in Name, dir'[t][m] # X!Nothing
          PROVE  dir'[t][m].whole \/ placed'[t][m][1] = "torn"
      <4>1. staging[s][n].whole
        BY <2>00, <2>2, <3>1, <3>2 DEF WholeInv
      <4>2. QED
        BY <2>3, <2>5, <3>1, <3>2, <3>5, <4>1 DEF WholeInv
    <3>6. QED
      BY <3>3, <3>4, <3>5 DEF WholeInv
  <2>9. GateInv'
    <3>1. ASSUME NEW t \in X!Scope, NEW m \in Name, dir'[t][m] # X!Nothing, placed'[t][m][1] = "cli",
                 ~X!Declared(dir'[t][m])
          PROVE  /\ placed'[t][m][2] \in Installer /\ job'[placed'[t][m][2]].at = "lint"
                 /\ job'[placed'[t][m][2]].scope = t /\ job'[placed'[t][m][2]].name = m
      <4>1. CASE t = s /\ m = n
        BY <2>0, <2>5, <2>6, <3>1, <4>1
      <4>2. CASE ~(t = s /\ m = n)
        <5>1. dir'[t][m] = dir[t][m] /\ placed'[t][m] = placed[t][m]
          BY <2>3, <2>5, <4>2
        <5>2. /\ placed[t][m][2] \in Installer /\ job[placed[t][m][2]].at = "lint"
              /\ job[placed[t][m][2]].scope = t /\ job[placed[t][m][2]].name = m
          BY <3>1, <5>1 DEF ExtInv, GateInv
        <5>3. QED
          BY <2>2, <2>6, <5>1, <5>2
      <4>3. QED
        BY <4>1, <4>2
    <3>2. QED
      BY <3>1 DEF GateInv, X!Declared
  <2>10. QED
    BY <2>2, <2>7, <2>8, <2>9, Stronger DEF ExtInv
<1>7. QED
  BY <1>4, <1>5, <1>6

LEMMA StepExt ==
    ASSUME ExtInv, X!ExtNext
    PROVE  ExtInv'
<1>1. ASSUME UNCHANGED <<dir, staging, placed, job, shared>>, catalog' \in [Name -> Package],
             session' = session \/ session' = X!load_all
      PROVE  ExtInv'
  <2>1. ExtTypes' /\ WholeInv' /\ GateInv'
    BY <1>1 DEF ExtInv, ExtTypes, WholeInv, GateInv, X!Declared
  <2>2. QED
    BY <1>1, <2>1, Stronger DEF ExtInv
<1>2. CASE \E n \in Name, pkg \in Package : X!release(n, pkg)
  <2>1. UNCHANGED <<dir, staging, placed, job, shared, session>> /\ catalog' \in [Name -> Package]
    BY <1>2 DEF X!release, ExtInv, ExtTypes
  <2>2. QED
    BY <1>1, <2>1
<1>3. CASE \/ X!opens \/ \E loaded \in session, tool \in DOMAIN Needs : X!calls(loaded, tool)
           \/ \E answers \in [Reviewer -> {"pass", "concerns", "fail", "none"}] : X!review(answers)
  <2>1. /\ UNCHANGED <<dir, staging, placed, job, shared, catalog>>
        /\ session' = session \/ session' = X!load_all
    BY <1>3 DEF X!opens, X!calls, X!review
  <2>2. catalog' \in [Name -> Package]
    BY <2>1 DEF ExtInv, ExtTypes
  <2>3. QED
    BY <1>1, <2>1, <2>2
<1>4. CASE \E i \in Installer, fr \in {"cli", "tui", "git"}, s \in X!Scope, n \in Name :
              X!begins(i, fr, s, n)
  BY <1>4, StepInstall DEF Fronts
<1>5. CASE \E i \in Installer : X!copies(i) \/ X!copied(i)
  BY <1>5, StepInstall
<1>6. CASE \E i \in Installer : X!rename_fails(i) \/ X!renames(i) \/ X!killed(i)
  BY <1>6, StepPlaces
<1>7. CASE \E i \in Installer :
              \/ X!removes_old(i) \/ X!removed_old(i) \/ X!lints(i) \/ X!unplaced(i) \/ X!deletes(i)
              \/ \E fr \in {"cli", "tui"}, s \in X!Scope, n \in Name : X!removes(i, fr, s, n)
  BY <1>7, StepRemoves
<1>8. QED
  BY <1>2, <1>3, <1>4, <1>5, <1>6, <1>7 DEF X!ExtNext

-----------------------------------------------------------------------------
(* settings: two layers of providers, and what was told about them *)

LEMMA Counts == \A I : S!Cardinality(I) = Cardinality(I) /\ (S!IsFiniteSet(I) <=> IsFiniteSet(I))
<1>1. ASSUME NEW I PROVE S!Cardinality(I) = Cardinality(I)
  BY Zenon DEF S!Cardinality, Cardinality
<1>2. ASSUME NEW I PROVE S!IsFiniteSet(I) <=> IsFiniteSet(I)
  BY Zenon DEF S!IsFiniteSet, IsFiniteSet
<1>3. QED
  BY <1>1, <1>2

\* The positions of some entries are numbered from one on, in their order.
LEMMA Ranks ==
    ASSUME NEW n \in Nat, NEW I \in SUBSET (1..n)
    PROVE  /\ IsFiniteSet(I) /\ Cardinality(I) \in Nat
           /\ \A i \in I : S!rank(I, i) \in 1..Cardinality(I)
           /\ \A i, j \in I : i < j => S!rank(I, i) < S!rank(I, j)
           /\ \A k \in 1..Cardinality(I) : \E i \in I : S!rank(I, i) = k
<1> DEFINE Upto(i) == {j \in I : j <= i}
<1>1. IsFiniteSet(I) /\ Cardinality(I) \in Nat
  <2>1. IsFiniteSet(1..n)
    BY FS_Interval
  <2>2. IsFiniteSet(I)
    BY <2>1, FS_Subset
  <2>3. QED
    BY <2>2, FS_CardinalityType
<1>2. \A i : S!rank(I, i) = Cardinality(Upto(i))
  BY Counts DEF S!rank
<1>3. ASSUME NEW i \in I
      PROVE  IsFiniteSet(Upto(i)) /\ Cardinality(Upto(i)) \in 1..Cardinality(I)
  <2>1. Upto(i) \in SUBSET I /\ i \in Upto(i)
    OBVIOUS
  <2>2. IsFiniteSet(Upto(i)) /\ Cardinality(Upto(i)) <= Cardinality(I)
    BY <1>1, <2>1, FS_Subset
  <2>3. Cardinality(Upto(i)) \in Nat /\ Cardinality(Upto(i)) # 0
    BY <2>1, <2>2, FS_CardinalityType, FS_EmptySet
  <2>4. QED
    BY <1>1, <2>2, <2>3
<1>4. ASSUME NEW i \in I, NEW j \in I, i < j
      PROVE  Cardinality(Upto(i)) < Cardinality(Upto(j))
  <2>1. Upto(i) \in SUBSET Upto(j) /\ j \in Upto(j) /\ j \notin Upto(i)
    <3>1. i \in Int /\ j \in Int /\ \A k \in I : k \in Int
      OBVIOUS
    <3>2. ASSUME NEW k \in I, k <= i PROVE k <= j
      BY <1>4, <3>1, <3>2
    <3>3. j \in Upto(j) /\ j \notin Upto(i)
      BY <1>4, <3>1
    <3>4. QED
      BY <3>2, <3>3
  <2>2. Cardinality(Upto(i)) <= Cardinality(Upto(j)) /\ Cardinality(Upto(i)) # Cardinality(Upto(j))
    BY <1>3, <2>1, FS_Subset
  <2>3. QED
    BY <1>1, <1>3, <2>2
<1>5. ASSUME NEW k \in 1..Cardinality(I) PROVE \E i \in I : S!rank(I, i) = k
  <2> DEFINE f == [i \in I |-> Cardinality(Upto(i))]
  <2>1. f \in [I -> 1..Cardinality(I)]
    BY <1>3
  <2>2. ASSUME NEW i \in I, NEW j \in I, f[i] = f[j] PROVE i = j
    <3>1. ~(i < j) /\ ~(j < i)
      BY <1>1, <1>3, <1>4, <2>2
    <3>2. QED
      BY <3>1
  <2>3. f \in Injection(I, 1..Cardinality(I))
    BY <2>1, <2>2 DEF Injection, IsInjective
  <2>4. IsFiniteSet(1..Cardinality(I)) /\ Cardinality(1..Cardinality(I)) = Cardinality(I)
    BY <1>1, FS_Interval
  <2>5. f \in Surjection(I, 1..Cardinality(I))
    BY <2>3, <2>4, FS_Injection
  <2>6. PICK i \in I : f[i] = k
    BY <2>5 DEF Surjection
  <2>7. QED
    BY <1>2, <2>6
<1>6. QED
  BY <1>1, <1>2, <1>3, <1>4, <1>5

LEMMA Entries ==
    ASSUME NEW V, NEW s \in Seq(V), NEW I \in SUBSET DOMAIN s, NEW e, e = S!entries(s, I)
    PROVE  /\ e \in Seq(V)
           /\ \E at \in [DOMAIN e -> I] :
                /\ \A k \in DOMAIN e : e[k] = s[at[k]]
                /\ \A k, l \in DOMAIN e : at[k] = at[l] => k = l
                /\ \A i \in I : \E k \in DOMAIN e : at[k] = i
<1> DEFINE c == Cardinality(I)
           at == [k \in 1..c |-> CHOOSE i \in I : S!rank(I, i) = k]
<1>1. Len(s) \in Nat /\ DOMAIN s = 1..Len(s)
  OBVIOUS
<1>2. /\ c \in Nat
      /\ \A i \in I : S!rank(I, i) \in 1..c
      /\ \A i, j \in I : i < j => S!rank(I, i) < S!rank(I, j)
      /\ \A k \in 1..c : \E i \in I : S!rank(I, i) = k
  BY <1>1, Ranks
<1>3. \A k \in 1..c : at[k] \in I /\ S!rank(I, at[k]) = k
  BY <1>2
<1>4. e = [k \in 1..c |-> s[at[k]]]
  BY Counts DEF S!entries
<1>5. DOMAIN e = 1..c /\ \A k \in 1..c : e[k] = s[at[k]] /\ e[k] \in V
  BY <1>1, <1>3, <1>4
<1>6. e \in Seq(V)
  BY <1>2, <1>4, <1>5
<1>7. at \in [DOMAIN e -> I]
  BY <1>3, <1>5
<1>8. \A k, l \in DOMAIN e : at[k] = at[l] => k = l
  BY <1>3, <1>5
<1>9. ASSUME NEW i \in I PROVE \E k \in DOMAIN e : at[k] = i
  <2>1. S!rank(I, i) \in 1..c
    BY <1>2
  <2>2. at[S!rank(I, i)] \in I /\ S!rank(I, at[S!rank(I, i)]) = S!rank(I, i)
    BY <1>3, <2>1
  <2>3. ~(i < at[S!rank(I, i)]) /\ ~(at[S!rank(I, i)] < i)
    BY <1>2, <2>1, <2>2
  <2>4. at[S!rank(I, i)] = i
    BY <1>1, <2>2, <2>3
  <2>5. QED
    BY <1>5, <2>1, <2>4
<1>10. QED
  BY <1>5, <1>6, <1>7, <1>8, <1>9

LEMMA Least ==
    ASSUME NEW n \in Nat, NEW I \in SUBSET (1..n), I # {}
    PROVE  \E i \in I : \A j \in I : i <= j
<1>1. /\ Cardinality(I) \in Nat
      /\ \A i \in I : S!rank(I, i) \in 1..Cardinality(I)
      /\ \A i, j \in I : i < j => S!rank(I, i) < S!rank(I, j)
      /\ \A k \in 1..Cardinality(I) : \E i \in I : S!rank(I, i) = k
  BY Ranks
<1>2. 1 \in 1..Cardinality(I)
  <2>1. PICK i \in I : TRUE
    OBVIOUS
  <2>2. S!rank(I, i) \in 1..Cardinality(I)
    BY <1>1
  <2>3. QED
    BY <1>1, <2>2
<1>3. PICK least \in I : S!rank(I, least) = 1
  BY <1>1, <1>2
<1>4. ASSUME NEW j \in I PROVE least <= j
  <2>1. ~(j < least)
    BY <1>1, <1>3
  <2>2. QED
    BY <2>1
<1>5. QED
  BY <1>4

Prov == [name : S!Names, model : Model, auth : {"key", "login"}]
Blk  == [kind : {"providers", "mcp_servers"}, name : S!Names, model : Model,
         auth : {"key", "login"}, by : {"user", "pin"}]
Provides(l, n) == {i \in DOMAIN l : l[i].kind = "providers" /\ l[i].name = n}
Pinned(l, n, m) == Provides(l, n) # {} /\ \A j \in Provides(l, n) : l[j].model = m
Loaded(c, n, m) == \A x \in DOMAIN c : c[x].name = n => c[x].model = m
Only(s, n) == \A i, j \in DOMAIN s : s[i].name = n /\ s[j].name = n => i = j

LEMMA ProvidersOf ==
    ASSUME NEW l \in Seq(Blk), NEW p, p = S!providers_of(l)
    PROVE  /\ p \in Seq(Prov)
           /\ \E at \in [DOMAIN p -> {i \in DOMAIN l : l[i].kind = "providers"}] :
                /\ \A k \in DOMAIN p : p[k].name = l[at[k]].name /\ p[k].model = l[at[k]].model
                /\ \A k, m \in DOMAIN p : at[k] = at[m] => k = m
                /\ \A i \in DOMAIN l : l[i].kind = "providers" => \E k \in DOMAIN p : at[k] = i
<1>0. PICK I : I = {i \in DOMAIN l : l[i].kind = "providers"}
  OBVIOUS
<1>1. PICK e : e = S!entries(l, I)
  OBVIOUS
<1>2. /\ e \in Seq(Blk)
      /\ \E at \in [DOMAIN e -> I] :
           /\ \A k \in DOMAIN e : e[k] = l[at[k]]
           /\ \A k, m \in DOMAIN e : at[k] = at[m] => k = m
           /\ \A i \in I : \E k \in DOMAIN e : at[k] = i
  <2>1. I \in SUBSET DOMAIN l
    BY <1>0
  <2>2. QED
    BY <1>1, <2>1, Entries
<1>3. PICK at \in [DOMAIN e -> I] :
           /\ \A k \in DOMAIN e : e[k] = l[at[k]]
           /\ \A k, m \in DOMAIN e : at[k] = at[m] => k = m
           /\ \A i \in I : \E k \in DOMAIN e : at[k] = i
  BY <1>2
<1>4. p = [i \in DOMAIN e |-> S!Configured(e[i].name, e[i].model, e[i].auth)]
  BY <1>0, <1>1 DEF S!providers_of
<1>5. \A k \in DOMAIN e : e[k] \in Blk
  BY <1>2
<1>6. /\ DOMAIN p = DOMAIN e
      /\ \A k \in DOMAIN p : p[k].name = e[k].name /\ p[k].model = e[k].model /\ p[k] \in Prov
  BY <1>4, <1>5 DEF S!Configured, Blk, Prov
<1>7. DOMAIN p = 1..Len(e) /\ Len(e) \in Nat
  BY <1>2, <1>6
<1>8. p \in Seq(Prov)
  BY <1>4, <1>6, <1>7
<1>9. QED
  BY <1>0, <1>3, <1>6, <1>8

LEMMA Loads ==
    ASSUME NEW g \in Seq(Prov), NEW l \in Seq(Blk), NEW c, c = S!load(g, l)
    PROVE  /\ c \in Seq(Prov)
           /\ \A n, m : Pinned(l, n, m) => Loaded(c, n, m)
           /\ \A n : Only(g, n) /\ (\A i, j \in Provides(l, n) : i = j) => Only(c, n)
<1>1. PICK p : p = S!providers_of(l)
  OBVIOUS
<1>2. PICK I : I = {i \in DOMAIN g : \A j \in DOMAIN p : p[j].name # g[i].name}
  OBVIOUS
<1>3. PICK e : e = S!entries(g, I)
  OBVIOUS
<1>4. /\ e \in Seq(Prov)
      /\ \E at \in [DOMAIN e -> I] :
           /\ \A k \in DOMAIN e : e[k] = g[at[k]]
           /\ \A k, m \in DOMAIN e : at[k] = at[m] => k = m
           /\ \A i \in I : \E k \in DOMAIN e : at[k] = i
  <2>1. I \in SUBSET DOMAIN g
    BY <1>2
  <2>2. QED
    BY <1>3, <2>1, Entries
<1>5. p \in Seq(Prov)
  BY <1>1, ProvidersOf
<1>6. PICK own \in [DOMAIN p -> {i \in DOMAIN l : l[i].kind = "providers"}] :
        /\ \A k \in DOMAIN p : p[k].name = l[own[k]].name /\ p[k].model = l[own[k]].model
        /\ \A k, m \in DOMAIN p : own[k] = own[m] => k = m
        /\ \A i \in DOMAIN l : l[i].kind = "providers" => \E k \in DOMAIN p : own[k] = i
  BY <1>1, ProvidersOf
<1>7. PICK at \in [DOMAIN e -> I] :
           /\ \A k \in DOMAIN e : e[k] = g[at[k]]
           /\ \A k, m \in DOMAIN e : at[k] = at[m] => k = m
  BY <1>4
<1>8. c = e \o p
  BY <1>2, <1>1, <1>3 DEF S!load, S!merge_named
<1>9. c \in Seq(Prov) /\ Len(c) = Len(e) + Len(p) /\ Len(e) \in Nat /\ Len(p) \in Nat
  BY <1>5, <1>4, <1>8, ConcatProperties, LenProperties
<1>10. \A x \in 1..(Len(e) + Len(p)) : c[x] = IF x <= Len(e) THEN e[x] ELSE p[x - Len(e)]
  BY <1>5, <1>4, <1>8, ConcatProperties
<1>11. DOMAIN e = 1..Len(e) /\ DOMAIN p = 1..Len(p) /\ DOMAIN c = 1..(Len(e) + Len(p))
  BY <1>5, <1>4, <1>9, LenProperties
<1>12. ASSUME NEW x \in DOMAIN c, x <= Len(e)
       PROVE  x \in DOMAIN e /\ at[x] \in I /\ c[x] = g[at[x]] /\ Provides(l, c[x].name) = {}
  <2>1. x \in DOMAIN e /\ c[x] = e[x]
    BY <1>9, <1>10, <1>11, <1>12
  <2>2. at[x] \in I /\ c[x] = g[at[x]]
    BY <1>7, <2>1
  <2>3. \A j \in DOMAIN p : p[j].name # c[x].name
    BY <1>2, <2>2
  <2>4. QED
    BY <1>6, <2>1, <2>2, <2>3 DEF Provides
<1>13. ASSUME NEW x \in DOMAIN c, ~(x <= Len(e))
       PROVE  /\ x - Len(e) \in DOMAIN p /\ c[x] = p[x - Len(e)]
              /\ own[x - Len(e)] \in Provides(l, c[x].name) /\ l[own[x - Len(e)]].model = c[x].model
  <2>1. x - Len(e) \in DOMAIN p /\ c[x] = p[x - Len(e)]
    BY <1>9, <1>10, <1>11, <1>13
  <2>2. own[x - Len(e)] \in DOMAIN l /\ l[own[x - Len(e)]].kind = "providers"
    BY <1>6, <2>1
  <2>3. QED
    BY <1>6, <2>1, <2>2 DEF Provides
<1>14. ASSUME NEW n, Only(g, n), \A i, j \in Provides(l, n) : i = j,
              NEW x \in DOMAIN c, NEW y \in DOMAIN c, c[x].name = n, c[y].name = n
       PROVE  x = y
  <2>1. x \in Int /\ y \in Int
    BY <1>9, <1>11
  <2>2. CASE x <= Len(e) /\ y <= Len(e)
    <3>1. x \in DOMAIN e /\ y \in DOMAIN e /\ at[x] \in I /\ at[y] \in I
      BY <1>12, <2>2
    <3>2. g[at[x]].name = n /\ g[at[y]].name = n /\ at[x] \in DOMAIN g /\ at[y] \in DOMAIN g
      BY <1>2, <1>12, <1>14, <2>2, <3>1
    <3>3. at[x] = at[y]
      BY <1>14, <3>2 DEF Only
    <3>4. QED
      BY <1>7, <3>1, <3>3
  <2>3. CASE ~(x <= Len(e)) /\ ~(y <= Len(e))
    <3>1. /\ own[x - Len(e)] \in Provides(l, n) /\ own[y - Len(e)] \in Provides(l, n)
          /\ x - Len(e) \in DOMAIN p /\ y - Len(e) \in DOMAIN p
      BY <1>13, <1>14, <2>3
    <3>2. own[x - Len(e)] = own[y - Len(e)]
      BY <1>14, <3>1
    <3>3. x - Len(e) = y - Len(e)
      BY <1>6, <3>1, <3>2
    <3>4. QED
      BY <1>9, <2>1, <3>3
  <2>4. CASE x <= Len(e) /\ ~(y <= Len(e))
    <3>1. Provides(l, n) = {}
      BY <1>12, <1>14, <2>4
    <3>2. own[y - Len(e)] \in Provides(l, n)
      BY <1>13, <1>14, <2>4
    <3>3. QED
      BY <3>1, <3>2
  <2>5. CASE ~(x <= Len(e)) /\ y <= Len(e)
    <3>1. Provides(l, n) = {}
      BY <1>12, <1>14, <2>5
    <3>2. own[x - Len(e)] \in Provides(l, n)
      BY <1>13, <1>14, <2>5
    <3>3. QED
      BY <3>1, <3>2
  <2>6. QED
    BY <2>2, <2>3, <2>4, <2>5
<1>15. ASSUME NEW n, NEW m, Pinned(l, n, m) PROVE Loaded(c, n, m)
  <2>1. ASSUME NEW x \in DOMAIN c, c[x].name = n PROVE c[x].model = m
    <3>1. Provides(l, n) # {} /\ \A j \in Provides(l, n) : l[j].model = m
      BY <1>15 DEF Pinned
    <3>2. CASE x <= Len(e)
      BY <1>12, <2>1, <3>1, <3>2
    <3>3. CASE ~(x <= Len(e))
      BY <1>13, <2>1, <3>1, <3>3
    <3>4. QED
      BY <3>2, <3>3
  <2>2. QED
    BY <2>1 DEF Loaded
<1>16. ASSUME NEW n, Only(g, n), \A i, j \in Provides(l, n) : i = j PROVE Only(c, n)
  BY <1>14, <1>16 DEF Only
<1>17. QED
  BY <1>9, <1>15, <1>16

LEMMA AtMostOne ==
    ASSUME NEW s \in Seq(Prov), NEW n
    PROVE  S!Cardinality(S!Indices(s, n)) <= 1 <=> Only(s, n)
<1> DEFINE I == {i \in 1..Len(s) : s[i].name = n}
<1>1. Len(s) \in Nat /\ DOMAIN s = 1..Len(s)
  OBVIOUS
<1>2. S!Indices(s, n) = I
  BY <1>1 DEF S!Indices
<1>3. I \in SUBSET (1..Len(s))
  OBVIOUS
<1>9. Only(s, n) <=> \A i, j \in I : i = j
  BY <1>1 DEF Only
<1> HIDE DEF I
<1>4. IsFiniteSet(I) /\ Cardinality(I) \in Nat
  BY <1>1, <1>3, Ranks
<1>5. ASSUME Cardinality(I) <= 1, NEW i \in I, NEW j \in I PROVE i = j
  <2>1. Cardinality(I) = 0 \/ Cardinality(I) = 1
    BY <1>4, <1>5
  <2>2. Cardinality(I) = 1
    BY <1>4, <1>5, <2>1, FS_EmptySet
  <2>3. \E x : I = {x}
    BY <1>4, <2>2, FS_Singleton
  <2>4. QED
    BY <2>3
<1>6. ASSUME \A i, j \in I : i = j PROVE Cardinality(I) <= 1
  <2>1. CASE I = {}
    BY <2>1, FS_EmptySet
  <2>2. CASE I # {}
    <3>1. PICK x : x \in I
      BY <2>2
    <3>2. I = {x}
      BY <1>6, <3>1
    <3>3. Cardinality({x}) = 1
      BY FS_Singleton
    <3>4. QED
      BY <3>2, <3>3
  <2>3. QED
    BY <2>1, <2>2
<1>7. S!Cardinality(S!Indices(s, n)) = Cardinality(I)
  BY <1>2, Counts
<1>8. QED
  BY <1>5, <1>6, <1>7, <1>9

SettingTypes ==
    /\ global_file \in Seq(Prov) /\ config \in Seq(Prov) /\ staging_providers \in Seq(Prov)
    /\ local_file \in Seq(Blk) /\ pending_presets \in Seq(S!Names)
    /\ staging_keys \in SUBSET (S!Keys \X {"typed"})
    /\ pinned \in [S!Names -> Model \cup {"none"}]
    /\ added \in SUBSET [name : S!Names, typed : BOOLEAN]
    /\ secrets_env \in [S!Keys -> {"none", "typed"}] /\ explicit.blocks \in Seq(Blk)

\* A key that was to be appended waits, or its write failed, or the file has it.
Pairs == S!Keys \X {"typed"}
Adding == [at : {"append_keys"}, by : {"dialogue", "wizard"}, keys : SUBSET Pairs, left : SUBSET Pairs,
           lost : SUBSET Pairs, names : SUBSET S!Names]
Appending ==
    /\ flow \in Adding /\ flow.left \in SUBSET flow.keys
    /\ \A kv \in flow.keys : kv \in flow.left \/ kv \in flow.lost \/ secrets_env[kv[1]] # "none"

\* An open dialogue is about a preset, or about a provider of the session.
FlowInv ==
    /\ flow.at \in {"ask_key", "pick_model"} => flow.name \in S!Names
    /\ flow.at = "ask_key" => Preset[flow.name] \in S!Keys
    /\ flow.at = "switch_model" => \E i \in DOMAIN config : config[i].name = flow.name
    /\ flow.at = "append_keys" => Appending

\* A provider that was pinned has one block of its own, with the pinned model.
PinInv ==
    /\ \A n \in S!Names : \A i, j \in Provides(local_file, n) : i = j
    /\ \A n \in S!Names : pinned[n] # "none" /\ ~S!Clash(n) =>
         Pinned(local_file, n, pinned[n])

AddInv ==
    \A a \in added : a.typed =>
        Preset[a.name] \in S!Keys /\ secrets_env[Preset[a.name]] # "none"

SettingInv == SettingTypes /\ FlowInv /\ PinInv /\ AddInv

LEMMA SettingsFromInv ==
    ASSUME SettingInv PROVE S!PinHolds /\ S!NamesAreUnique /\ S!TypedKeysAreKept
<1>1. PICK c : c = S!load(global_file, local_file)
  OBVIOUS
<1>2. global_file \in Seq(Prov) /\ local_file \in Seq(Blk)
  BY DEF SettingInv, SettingTypes
<1>3. /\ c \in Seq(Prov)
      /\ \A n, m : Pinned(local_file, n, m) => Loaded(c, n, m)
      /\ \A n : Only(global_file, n) /\ (\A i, j \in Provides(local_file, n) : i = j) => Only(c, n)
  <2>1. c \in Seq(Prov)
    BY <1>1, <1>2, Loads
  <2>2. \A n, m : Pinned(local_file, n, m) => Loaded(c, n, m)
    BY <1>1, <1>2, Loads
  <2>3. \A n : Only(global_file, n) /\ (\A i, j \in Provides(local_file, n) : i = j) => Only(c, n)
    BY <1>1, <1>2, Loads
  <2>4. QED
    BY <2>1, <2>2, <2>3
<1>4. S!PinHolds
  <2>1. ASSUME NEW n \in S!Names, pinned[n] # "none", ~S!Clash(n), NEW i \in S!Indices(c, n)
        PROVE  c[i].model = pinned[n]
    <3>1. i \in DOMAIN c /\ c[i].name = n
      BY <2>1 DEF S!Indices
    <3>2. Pinned(local_file, n, pinned[n])
      BY <2>1 DEF SettingInv, PinInv
    <3>3. QED
      BY <1>3, <3>1, <3>2 DEF Loaded
  <2>2. QED
    BY <1>1, <2>1 DEF S!PinHolds
<1>5. S!NamesAreUnique
  <2>1. ASSUME NEW n \in S!Names, S!Cardinality(S!Indices(global_file, n)) <= 1
        PROVE  S!Cardinality(S!Indices(c, n)) <= 1
    <3>1. Only(global_file, n)
      BY <1>2, <2>1, AtMostOne
    <3>2. Only(c, n)
      BY <1>3, <3>1 DEF SettingInv, PinInv
    <3>3. QED
      BY <1>3, <3>2, AtMostOne
  <2>2. QED
    BY <1>1, <2>1 DEF S!NamesAreUnique
<1>6. QED
  BY <1>4, <1>5 DEF SettingInv, AddInv, S!TypedKeysAreKept

LEMMA DefaultIs == S!default_model \in Model
BY FrontAssumption DEF S!default_model, S!SettingsAssumption

LEMMA Instantiated ==
    ASSUME NEW n \in S!Names, NEW m \in Model PROVE S!instantiate(n, m) \in Prov
BY DEF S!instantiate, S!Configured, Prov

LEMMA Explicits ==
    ASSUME NEW f \in S!ExplicitFile PROVE f.blocks \in Seq(Blk)
<1>1. CASE f = S!NoFile
  BY <1>1 DEF S!NoFile
<1>2. CASE f # S!NoFile
  <2>1. PICK n \in Explicit :
          f = [given |-> TRUE,
               blocks |-> <<S!Block("providers", S!instantiate(n, S!default_model), "user")>>]
    BY <1>2 DEF S!ExplicitFile
  <2>2. n \in S!Names
    BY <2>1, FrontAssumption DEF S!SettingsAssumption, S!Names
  <2>3. S!Block("providers", S!instantiate(n, S!default_model), "user") \in Blk
    BY <2>2, DefaultIs DEF S!Block, S!instantiate, S!Configured, Blk
  <2>4. QED
    BY <2>1, <2>3
<1>3. QED
  BY <1>1, <1>2

\* What is loaded, from the local file or from the one --config names.
LEMMA LoadsWith ==
    ASSUME NEW g \in Seq(Prov), NEW l \in Seq(Blk), NEW f, f.blocks \in Seq(Blk)
    PROVE  S!load_with(g, l, f) \in Seq(Prov)
<1>1. PICK b : b = IF f.given THEN f.blocks ELSE l
  OBVIOUS
<1>2. b \in Seq(Blk)
  BY <1>1
<1>3. QED
  BY <1>1, <1>2, Loads DEF S!load_with

LEMMA InitSettings ==
    ASSUME S!SettingInit PROVE SettingInv
<1>1. global_file \in Seq(Prov) /\ Len(global_file) <= 1
  <2>1. ASSUME NEW n \in S!Names, NEW auth \in {"key", "login"}
        PROVE  S!Configured(n, S!default_model, auth) \in Prov
    BY DefaultIs DEF S!Configured, Prov
  <2>2. CASE global_file = <<>>
    BY <2>2
  <2>3. CASE global_file # <<>>
    <3>1. PICK n \in S!Names, auth \in {"key", "login"} :
            global_file = <<S!Configured(n, S!default_model, auth)>>
      BY <2>3 DEF S!SettingInit
    <3>2. QED
      BY <2>1, <3>1
  <2>4. QED
    BY <2>2, <2>3
<1>2. local_file \in Seq(Blk) /\ Len(local_file) <= 1
  <2>1. ASSUME NEW n \in S!Names, NEW kind \in {"providers", "mcp_servers"}
        PROVE  S!Block(kind, S!instantiate(n, S!default_model), "user") \in Blk
    BY DefaultIs DEF S!Block, S!instantiate, S!Configured, Blk
  <2>2. CASE local_file = <<>>
    BY <2>2
  <2>3. CASE local_file # <<>>
    <3>1. PICK kind \in {"providers", "mcp_servers"}, n \in S!Names :
            local_file = <<S!Block(kind, S!instantiate(n, S!default_model), "user")>>
      BY <2>3 DEF S!SettingInit
    <3>2. QED
      BY <2>1, <3>1
  <2>4. QED
    BY <2>2, <2>3
<1>8. explicit.blocks \in Seq(Blk)
  BY Explicits DEF S!SettingInit
<1>3. config \in Seq(Prov)
  BY <1>1, <1>2, <1>8, LoadsWith DEF S!SettingInit
<1>4. SettingTypes
  BY <1>1, <1>2, <1>3, <1>8 DEF S!SettingInit, SettingTypes
<1>5. FlowInv /\ AddInv
  BY DEF S!SettingInit, S!NoFlow, FlowInv, AddInv
<1>6. PinInv
  <2>1. \A i, j \in DOMAIN local_file : i = j
    BY <1>2
  <2>2. \A n \in S!Names : pinned[n] = "none"
    BY DEF S!SettingInit
  <2>3. QED
    BY <2>1, <2>2 DEF PinInv, Provides
<1>7. QED
  BY <1>4, <1>5, <1>6 DEF SettingInv

\* One more sequence of providers: those whose names are free; their keys follow.
LEMMA Adds ==
    ASSUME SettingInv, NEW fresh \in Seq(Prov), NEW keys \in SUBSET (S!Keys \X {"typed"}), NEW by \in {"dialogue", "wizard"},
           S!finish_add(fresh, keys, by), UNCHANGED <<local_file, pinned>>
    PROVE  /\ UNCHANGED <<secrets_env, config, added>>
           /\ global_file' \in Seq(Prov) /\ FlowInv' /\ AddInv' /\ PinInv'
<1>1. PinInv'
  BY DEF SettingInv, PinInv, Pinned, Provides, S!Clash
<1>2. UNCHANGED <<secrets_env, config, added>>
  BY DEF S!finish_add
<1>3. AddInv'
  BY <1>2 DEF SettingInv, AddInv
<1>4. CASE flow' = S!NoFlow /\ UNCHANGED global_file
  <2>1. FlowInv'
    BY <1>4 DEF FlowInv, S!NoFlow
  <2>2. QED
    BY <1>1, <1>2, <1>3, <1>4, <2>1 DEF SettingInv, SettingTypes
<1>5. CASE /\ global_file' = S!append_providers(global_file, fresh)
           /\ flow' = [at |-> "append_keys", by |-> by, keys |-> keys, left |-> keys, lost |-> {},
                       names |-> {p.name : p \in {q \in S!Range(fresh) :
                                                     S!Indices(global_file, q.name) = {}}}]
  <2>1. global_file' \in Seq(Prov)
    <3>1. PICK I : I = {i \in DOMAIN fresh : S!Indices(global_file, fresh[i].name) = {}}
      OBVIOUS
    <3>2. PICK e : e = S!entries(fresh, I)
      OBVIOUS
    <3>3. I \in SUBSET DOMAIN fresh
      BY <3>1
    <3>4. e \in Seq(Prov)
      BY <3>2, <3>3, Entries
    <3>5. global_file' = global_file \o e
      BY <1>5, <3>1, <3>2 DEF S!append_providers
    <3>6. QED
      BY <3>4, <3>5, ConcatProperties DEF SettingInv, SettingTypes
  <2>2. PICK names : names = {p.name : p \in {q \in S!Range(fresh) :
                                                 S!Indices(global_file, q.name) = {}}}
    OBVIOUS
  <2>3. names \in SUBSET S!Names
    <3>1. ASSUME NEW p \in S!Range(fresh) PROVE p.name \in S!Names
      <4>1. PICK x \in DOMAIN fresh : p = fresh[x]
        BY DEF S!Range
      <4>2. p \in Prov
        BY <4>1
      <4>3. QED
        BY <4>2 DEF Prov
    <3>2. QED
      BY <2>2, <3>1
  <2>4. flow' = [at |-> "append_keys", by |-> by, keys |-> keys, left |-> keys, lost |-> {},
                 names |-> names]
    BY <1>5, <2>2
  <2>5. FlowInv'
    BY <2>3, <2>4 DEF FlowInv, Appending, Adding, Pairs
  <2>6. QED
    BY <1>1, <1>2, <1>3, <2>1, <2>5
<1>6. QED
  BY <1>4, <1>5 DEF S!finish_add

\* The next preset of those that were chosen, or the end.
LEMMA NextPreset ==
    ASSUME SettingInv, NEW left \in Seq(S!Names), NEW fresh \in Seq(Prov),
           NEW keys \in SUBSET (S!Keys \X {"typed"}), NEW known,
           S!next_preset(left, fresh, keys, known), UNCHANGED <<local_file, explicit, pinned>>
    PROVE  SettingInv'
<1>1. /\ pending_presets' \in Seq(S!Names) /\ staging_providers' \in Seq(Prov)
      /\ staging_keys' \in SUBSET (S!Keys \X {"typed"})
  BY DEF S!next_preset
<1>2. CASE left = <<>>
  <2>1. S!finish_add(fresh, keys, "dialogue")
    BY <1>2 DEF S!next_preset
  <2>2. /\ UNCHANGED <<secrets_env, config, added>>
        /\ global_file' \in Seq(Prov) /\ FlowInv' /\ AddInv' /\ PinInv'
    BY <2>1, Adds
  <2>3. SettingTypes'
    BY <1>1, <2>2 DEF SettingInv, SettingTypes
  <2>4. QED
    BY <2>2, <2>3 DEF SettingInv
<1>3. CASE left # <<>>
  <2>1. Head(left) \in S!Names
    BY <1>3
  <2>2. /\ UNCHANGED <<global_file, secrets_env, config, added>>
        /\ flow' = [at |-> IF Preset[Head(left)] \in S!Keys /\ known[Preset[Head(left)]] = "none"
                           THEN "ask_key" ELSE "pick_model", name |-> Head(left)]
    BY <1>3 DEF S!next_preset
  <2>3. SettingTypes'
    BY <1>1, <2>2 DEF SettingInv, SettingTypes
  <2>4. FlowInv'
    BY <2>1, <2>2 DEF FlowInv
  <2>5. PinInv' /\ AddInv'
    BY <2>2 DEF SettingInv, PinInv, AddInv, Pinned, Provides, S!Clash
  <2>6. QED
    BY <2>3, <2>4, <2>5 DEF SettingInv
<1>4. QED
  BY <1>2, <1>3

\* What a step leaves alone when it touches neither the files nor what was told about them.
LEMMA SettingRests ==
    ASSUME SettingInv, UNCHANGED <<global_file, local_file, secrets_env, pinned, added>>,
           config' \in Seq(Prov), staging_providers' \in Seq(Prov), explicit'.blocks \in Seq(Blk),
           pending_presets' \in Seq(S!Names), staging_keys' \in SUBSET (S!Keys \X {"typed"}), FlowInv'
    PROVE  SettingInv'
<1>1. SettingTypes'
  BY DEF SettingInv, SettingTypes
<1>2. PinInv' /\ AddInv'
  BY DEF SettingInv, PinInv, AddInv, Pinned, Provides, S!Clash
<1>3. QED
  BY <1>1, <1>2 DEF SettingInv

\* The first provider of a name in the session.
LEMMA FirstOf ==
    ASSUME NEW c \in Seq(Prov), NEW n, \E i \in DOMAIN c : c[i].name = n,
           NEW first, first = CHOOSE i \in S!Indices(c, n) : \A j \in S!Indices(c, n) : i <= j
    PROVE  first \in DOMAIN c /\ c[first].name = n
<1>1. PICK I : I = S!Indices(c, n)
  OBVIOUS
<1>2. Len(c) \in Nat /\ I \in SUBSET (1..Len(c)) /\ I # {}
  BY <1>1 DEF S!Indices
<1>3. /\ Cardinality(I) \in Nat
      /\ \A i \in I : S!rank(I, i) \in 1..Cardinality(I)
      /\ \A i, j \in I : i < j => S!rank(I, i) < S!rank(I, j)
      /\ \A k \in 1..Cardinality(I) : \E i \in I : S!rank(I, i) = k
  BY <1>2, Ranks
<1>4. 1 \in 1..Cardinality(I)
  <2>1. PICK i \in I : TRUE
    BY <1>2
  <2>2. S!rank(I, i) \in 1..Cardinality(I)
    BY <1>3
  <2>3. QED
    BY <1>3, <2>2
<1>5. PICK least \in I : S!rank(I, least) = 1
  BY <1>3, <1>4
<1>6. ASSUME NEW j \in I PROVE least <= j
  <2>1. ~(j < least)
    BY <1>3, <1>5
  <2>2. QED
    BY <1>2, <2>1
<1>7. first \in I
  BY <1>1, <1>5, <1>6
<1>8. QED
  BY <1>1, <1>7 DEF S!Indices

\* A pin gives a provider one block with the model, and leaves the blocks of the others.
LEMMA Pins ==
    ASSUME NEW l \in Seq(Blk), NEW p \in Prov, NEW k, k = S!pin_model_to(l, p),
           \A n \in S!Names : \A i, j \in Provides(l, n) : i = j
    PROVE  /\ k \in Seq(Blk)
           /\ \A n \in S!Names : \A i, j \in Provides(k, n) : i = j
           /\ (\A i \in DOMAIN k : k[i].kind = "providers" \/ k[i].name # p.name) =>
                Pinned(k, p.name, p.model)
           /\ \A i \in DOMAIN l : i \in DOMAIN k /\ k[i].kind = l[i].kind /\ k[i].name = l[i].name
           /\ \A n \in S!Names : \A m : n # p.name /\ Pinned(l, n, m) => Pinned(k, n, m)
<1> DEFINE found == (\E i \in DOMAIN l : l[i].kind = "providers") /\ S!Indices(l, p.name) # {}
<1>1. Len(l) \in Nat /\ DOMAIN l = 1..Len(l) /\ \A i \in DOMAIN l : l[i] \in Blk
  OBVIOUS
<1>2. p.name \in S!Names /\ p.model \in Model
  BY DEF Prov
<1>3. CASE found
  <2>1. k = S!replace_model_id(l, p.name, p.model)
    BY <1>3 DEF S!pin_model_to
  <2>2. DOMAIN k = DOMAIN l
    BY <2>1 DEF S!replace_model_id
  <2>3. ASSUME NEW i \in DOMAIN l
        PROVE  /\ k[i] \in Blk /\ k[i].kind = l[i].kind /\ k[i].name = l[i].name
               /\ k[i].model = IF l[i].name = p.name /\ l[i].kind = "providers"
                               THEN p.model ELSE l[i].model
    <3>1. k[i] = IF l[i].name = p.name /\ l[i].kind = "providers"
                 THEN [l[i] EXCEPT !.model = p.model] ELSE l[i]
      BY <2>1 DEF S!replace_model_id
    <3>2. QED
      BY <1>1, <1>2, <3>1 DEF Blk
  <2>4. k \in Seq(Blk)
    <3>1. k = [i \in 1..Len(l) |-> k[i]]
      BY <1>1, <2>1, <2>2 DEF S!replace_model_id
    <3>2. QED
      BY <1>1, <2>2, <2>3, <3>1
  <2>5. \A n : Provides(k, n) = Provides(l, n)
    BY <2>2, <2>3 DEF Provides
  <2>6. ASSUME \A i \in DOMAIN k : k[i].kind = "providers" \/ k[i].name # p.name
        PROVE  Pinned(k, p.name, p.model)
    <3>1. PICK i \in DOMAIN l : l[i].name = p.name
      BY <1>3 DEF S!Indices
    <3>2. i \in Provides(k, p.name)
      BY <2>2, <2>3, <2>6, <3>1 DEF Provides
    <3>3. \A j \in Provides(k, p.name) : k[j].model = p.model
      BY <2>2, <2>3 DEF Provides
    <3>4. QED
      BY <3>2, <3>3 DEF Pinned
  <2>7. ASSUME NEW n \in S!Names, NEW m, n # p.name, Pinned(l, n, m) PROVE Pinned(k, n, m)
    <3>1. \A j \in Provides(k, n) : k[j].model = l[j].model
      BY <2>2, <2>3, <2>7 DEF Provides
    <3>2. QED
      BY <2>5, <2>7, <3>1 DEF Pinned
  <2>8. QED
    BY <2>2, <2>3, <2>4, <2>5, <2>6, <2>7
<1>4. CASE ~found
  <2>1. k = Append(l, S!rendered(p))
    BY <1>4 DEF S!pin_model_to
  <2>2. /\ S!rendered(p) \in Blk /\ S!rendered(p).kind = "providers"
        /\ S!rendered(p).name = p.name /\ S!rendered(p).model = p.model
    BY <1>2 DEF S!rendered, S!Block, S!instantiate, S!Configured, Blk
  <2>3. /\ k \in Seq(Blk) /\ DOMAIN k = 1..(Len(l) + 1)
        /\ \A i \in 1..Len(l) : k[i] = l[i]
        /\ k[Len(l) + 1] = S!rendered(p)
    BY <1>1, <2>1, <2>2, AppendProperties
  <2>4. \A i \in DOMAIN k : i \in DOMAIN l \/ i = Len(l) + 1
    BY <1>1, <2>3
  <2>5. Provides(l, p.name) = {}
    BY <1>4 DEF S!Indices, Provides
  <2>6. Provides(k, p.name) = {Len(l) + 1}
    BY <1>1, <2>2, <2>3, <2>4, <2>5 DEF Provides
  <2>7. \A n : n # p.name => Provides(k, n) = Provides(l, n)
    BY <1>1, <2>2, <2>3, <2>4 DEF Provides
  <2>8. Pinned(k, p.name, p.model)
    BY <2>2, <2>3, <2>6 DEF Pinned
  <2>9. ASSUME NEW n \in S!Names, NEW m, n # p.name, Pinned(l, n, m) PROVE Pinned(k, n, m)
    <3>1. ASSUME NEW j \in Provides(k, n) PROVE k[j].model = l[j].model
      <4>1. j \in Provides(l, n)
        BY <2>7, <2>9
      <4>2. QED
        BY <1>1, <2>3, <4>1 DEF Provides
    <3>2. QED
      BY <2>7, <2>9, <3>1 DEF Pinned
  <2>10. \A n \in S!Names : \A i, j \in Provides(k, n) : i = j
    BY <2>6, <2>7
  <2>11. \A i \in DOMAIN l : i \in DOMAIN k /\ k[i].kind = l[i].kind /\ k[i].name = l[i].name
    BY <1>1, <2>3
  <2>12. QED
    BY <2>3, <2>8, <2>9, <2>10, <2>11
<1>5. QED
  BY <1>3, <1>4

LEMMA StepSwitch ==
    ASSUME SettingInv, S!switch_pick_model PROVE SettingInv'
<1>1. PICK m \in Model, written \in BOOLEAN :
         LET first == CHOOSE i \in S!Indices(config, flow.name) :
                          \A j \in S!Indices(config, flow.name) : i <= j
             p == [config[first] EXCEPT !.model = m]
         IN  /\ config' = [config EXCEPT ![first] = p] /\ active_provider' = p.name
             /\ local_file' = IF written THEN S!pin_model_to(local_file, p) ELSE local_file
             /\ pinned' = IF written THEN [pinned EXCEPT ![p.name] = m] ELSE pinned
  BY DEF S!switch_pick_model
<1>2. PICK first : first = CHOOSE i \in S!Indices(config, flow.name) :
                                \A j \in S!Indices(config, flow.name) : i <= j
  OBVIOUS
<1>3. PICK p : p = [config[first] EXCEPT !.model = m]
  OBVIOUS
<1>4. /\ config' = [config EXCEPT ![first] = p]
      /\ local_file' = IF written THEN S!pin_model_to(local_file, p) ELSE local_file
      /\ pinned' = IF written THEN [pinned EXCEPT ![p.name] = m] ELSE pinned
  BY <1>1, <1>2, <1>3
<1>5. config \in Seq(Prov) /\ \E i \in DOMAIN config : config[i].name = flow.name
  BY DEF SettingInv, SettingTypes, FlowInv, S!switch_pick_model
<1>6. first \in DOMAIN config
  BY <1>2, <1>5, FirstOf
<1>7. p \in Prov /\ p.model = m
  <2>1. config[first] \in Prov /\ m \in Model
    BY <1>1, <1>5, <1>6
  <2>2. QED
    BY <1>3, <2>1 DEF Prov
<1>8. /\ UNCHANGED <<global_file, secrets_env, explicit, pending_presets, staging_providers,
                     staging_keys, added>>
      /\ flow' = S!NoFlow
  BY DEF S!switch_pick_model, S!staging
<1>9. config' \in Seq(Prov)
  BY <1>4, <1>5, <1>6, <1>7
<1>10. FlowInv'
  BY <1>8 DEF FlowInv, S!NoFlow
<1>11. CASE ~written
  BY <1>4, <1>8, <1>9, <1>10, <1>11, SettingRests DEF SettingInv, SettingTypes
<1>12. CASE written
  <2>1. local_file' = S!pin_model_to(local_file, p) /\ pinned' = [pinned EXCEPT ![p.name] = m]
    BY <1>4, <1>12
  <2>2. local_file \in Seq(Blk) /\ \A n \in S!Names : \A i, j \in Provides(local_file, n) : i = j
    BY DEF SettingInv, SettingTypes, PinInv
  <2>3. /\ local_file' \in Seq(Blk)
        /\ \A n \in S!Names : \A i, j \in Provides(local_file', n) : i = j
        /\ (\A i \in DOMAIN local_file' :
              local_file'[i].kind = "providers" \/ local_file'[i].name # p.name) =>
             Pinned(local_file', p.name, p.model)
        /\ \A i \in DOMAIN local_file :
             /\ i \in DOMAIN local_file' /\ local_file'[i].kind = local_file[i].kind
             /\ local_file'[i].name = local_file[i].name
        /\ \A n \in S!Names : \A o : n # p.name /\ Pinned(local_file, n, o) => Pinned(local_file', n, o)
    BY <1>7, <2>1, <2>2, Pins
  <2>4. pinned \in [S!Names -> Model \cup {"none"}] /\ p.name \in S!Names
    BY <1>7 DEF SettingInv, SettingTypes, Prov
  <2>5. SettingTypes'
    BY <1>8, <1>9, <2>1, <2>3, <2>4 DEF SettingInv, SettingTypes
  <2>6. ASSUME NEW n \in S!Names, pinned'[n] # "none", ~S!Clash(n)' PROVE Pinned(local_file', n, pinned'[n])
    <3>1. CASE n = p.name
      <4>1. \A i \in DOMAIN local_file' :
              local_file'[i].kind = "providers" \/ local_file'[i].name # p.name
        BY <2>6, <3>1 DEF S!Clash
      <4>2. pinned'[n] = p.model
        BY <1>7, <2>1, <2>4, <3>1
      <4>3. QED
        BY <2>3, <3>1, <4>1, <4>2
    <3>2. CASE n # p.name
      <4>1. pinned'[n] = pinned[n]
        BY <2>1, <2>4, <3>2
      <4>2. ~S!Clash(n)
        BY <2>3, <2>6 DEF S!Clash
      <4>3. Pinned(local_file, n, pinned[n])
        BY <2>6, <4>1, <4>2 DEF SettingInv, PinInv
      <4>4. QED
        BY <2>3, <3>2, <4>1, <4>3
    <3>3. QED
      BY <3>1, <3>2
  <2>7. PinInv'
    BY <2>3, <2>6 DEF PinInv
  <2>8. AddInv'
    BY <1>8 DEF SettingInv, AddInv
  <2>9. QED
    BY <1>10, <2>5, <2>7, <2>8 DEF SettingInv
<1>13. QED
  BY <1>11, <1>12

LEMMA Chosen ==
    ASSUME NEW c \in SUBSET S!Names, NEW s, s = S!SetToSeq(c) PROVE s \in Seq(S!Names)
<1>1. IsFiniteSet(S!Names)
  BY FrontAssumption, Counts DEF S!SettingsAssumption, S!Names
<1>2. IsFiniteSet(c) /\ Cardinality(c) \in Nat /\ ExistsBijection(1..Cardinality(c), c)
  <2>1. IsFiniteSet(c)
    BY <1>1, FS_Subset
  <2>2. QED
    BY <2>1, FS_CardinalityType
<1>3. PICK f \in [1..Cardinality(c) -> c] : S!IsInjective(f)
  BY <1>2 DEF ExistsBijection, Bijection, Injection, IsInjective, S!IsInjective
<1>4. s \in [1..Cardinality(c) -> c]
  BY <1>3, Counts DEF S!SetToSeq
<1>5. QED
  BY <1>2, <1>4

\* A key that waited waits no more, and is perhaps lost.
Dealt(f, g, u, v) ==
    /\ f \in Adding /\ u \in SUBSET Pairs /\ v \in SUBSET Pairs
    /\ (g = [f EXCEPT !.left = u] /\ v = f.lost) \/ g = [f EXCEPT !.left = u, !.lost = v]
Follows(f, g, u, v) ==
    g \in Adding /\ g.at = "append_keys" /\ g.left = u /\ g.lost = v /\ g.keys = f.keys

LEMMA Fields ==
    ASSUME NEW f, NEW g, NEW u, NEW v, Dealt(f, g, u, v) PROVE Follows(f, g, u, v)
BY DEF Dealt, Follows, Adding

\* One key is dealt with: the file has it, or its write failed and is passed over or ends
\* the wizard; then the add ends.
LEMMA StepKeys ==
    ASSUME SettingInv, S!key_written \/ S!key_fails \/ S!add_ends PROVE SettingInv'
<1>1. /\ UNCHANGED <<global_file, local_file, explicit, staging_providers, staging_keys,
                     pending_presets, pinned>>
      /\ flow.at = "append_keys"
  BY DEF S!key_written, S!key_fails, S!add_ends, S!writing, S!staging
<1>2. Appending /\ SettingTypes
  BY <1>1 DEF SettingInv, FlowInv
<1>3. PinInv'
  BY <1>1 DEF SettingInv, PinInv, Pinned, Provides, S!Clash
<1>4. ASSUME NEW kv \in flow.left
      PROVE  /\ S!append_secret(secrets_env, kv) \in [S!Keys -> {"none", "typed"}]
             /\ S!append_secret(secrets_env, kv)[kv[1]] # "none"
             /\ \A k \in S!Keys : secrets_env[k] # "none" =>
                  S!append_secret(secrets_env, kv)[k] # "none"
  <2>1. secrets_env \in [S!Keys -> {"none", "typed"}] /\ kv \in S!Keys \X {"typed"}
    BY <1>2, <1>4 DEF SettingTypes, Appending, Adding, Pairs
  <2>2. kv[1] \in S!Keys /\ kv[2] = "typed"
    BY <2>1
  <2>3. QED
    BY <2>1, <2>2 DEF S!append_secret
<1>5. ASSUME NEW kv \in flow.left, UNCHANGED <<config, added>>,
             secrets_env' = secrets_env \/ secrets_env' = S!append_secret(secrets_env, kv),
             FlowInv'
      PROVE  SettingInv'
  <2>1. /\ secrets_env' \in [S!Keys -> {"none", "typed"}]
        /\ \A k \in S!Keys : secrets_env[k] # "none" => secrets_env'[k] # "none"
    BY <1>2, <1>4, <1>5 DEF SettingTypes
  <2>2. AddInv'
    BY <1>5, <2>1 DEF SettingInv, AddInv
  <2>3. SettingTypes'
    BY <1>1, <1>2, <1>5, <2>1 DEF SettingTypes
  <2>4. QED
    BY <1>3, <1>5, <2>2, <2>3 DEF SettingInv
<1>6. CASE S!key_written
  <2>1. PICK kv \in flow.left : /\ secrets_env' = S!append_secret(secrets_env, kv)
                                /\ flow' = [flow EXCEPT !.left = @ \ {kv}]
    BY <1>6 DEF S!key_written
  <2>2. UNCHANGED <<config, added>>
    BY <1>6 DEF S!key_written
  <2>3. /\ flow' \in Adding /\ flow'.at = "append_keys" /\ flow'.left = flow.left \ {kv}
        /\ flow'.lost = flow.lost /\ flow'.keys = flow.keys
    <3>1. PICK u : u = flow.left \ {kv}
      OBVIOUS
    <3>2. flow' = [flow EXCEPT !.left = u] /\ u \in SUBSET Pairs /\ flow \in Adding
      BY <1>2, <2>1, <3>1 DEF Appending, Adding
    <3>3. PICK f, g, v : f = flow /\ g = flow' /\ v = flow.lost
      OBVIOUS
    <3>4. Dealt(f, g, u, v)
      BY <3>2, <3>3 DEF Adding, Dealt
    <3>5. Follows(f, g, u, v)
      BY <3>4, Fields
    <3>6. QED
      BY <3>1, <3>3, <3>5 DEF Follows
  <2>4. ASSUME NEW o \in flow.keys
        PROVE  o \in flow.left \ {kv} \/ o \in flow.lost \/ secrets_env'[o[1]] # "none"
    <3>1. o[1] \in S!Keys
      BY <1>2 DEF Appending, Adding, Pairs
    <3>2. QED
      BY <1>2, <1>4, <2>1, <3>1 DEF Appending
  <2>5. FlowInv'
    BY <1>2, <2>3, <2>4 DEF FlowInv, Appending
  <2>6. QED
    BY <1>5, <2>1, <2>2, <2>5
<1>7. CASE S!key_fails
  <2>1. PICK kv \in flow.left :
          /\ secrets_env' = secrets_env \/ secrets_env' = S!append_secret(secrets_env, kv)
          /\ flow' = IF flow.by = "wizard" THEN S!NoFlow
                     ELSE [flow EXCEPT !.left = @ \ {kv}, !.lost = @ \cup {kv}]
    BY <1>7 DEF S!key_fails
  <2>2. UNCHANGED <<config, added>>
    BY <1>7 DEF S!key_fails
  <2>3. CASE flow.by = "wizard"
    <3>1. FlowInv'
      BY <2>1, <2>3 DEF FlowInv, S!NoFlow
    <3>2. QED
      BY <1>5, <2>1, <2>2, <3>1
  <2>4. CASE flow.by # "wizard"
    <3>1. /\ flow' \in Adding /\ flow'.at = "append_keys" /\ flow'.left = flow.left \ {kv}
          /\ flow'.lost = flow.lost \cup {kv} /\ flow'.keys = flow.keys
      <4>1. PICK u, v : u = flow.left \ {kv} /\ v = flow.lost \cup {kv}
        OBVIOUS
      <4>2. /\ flow' = [flow EXCEPT !.left = u, !.lost = v]
            /\ u \in SUBSET Pairs /\ v \in SUBSET Pairs /\ flow \in Adding
        BY <1>2, <2>1, <2>4, <4>1 DEF Appending, Adding
      <4>3. PICK f, g : f = flow /\ g = flow'
        OBVIOUS
      <4>4. Dealt(f, g, u, v)
        BY <4>2, <4>3 DEF Dealt
      <4>5. Follows(f, g, u, v)
        BY <4>4, Fields
      <4>6. QED
        BY <4>1, <4>3, <4>5 DEF Follows
    <3>2. ASSUME NEW o \in flow.keys
          PROVE  o \in flow.left \ {kv} \/ o \in flow.lost \cup {kv} \/ secrets_env'[o[1]] # "none"
      <4>1. o[1] \in S!Keys
        BY <1>2 DEF Appending, Adding, Pairs
      <4>2. QED
        BY <1>2, <1>4, <2>1, <4>1 DEF Appending
    <3>3. FlowInv'
      BY <1>2, <3>1, <3>2 DEF FlowInv, Appending
    <3>4. QED
      BY <1>5, <2>1, <2>2, <3>3
  <2>5. QED
    BY <2>3, <2>4
<1>8. CASE S!add_ends
  <2>1. /\ flow.left = {} /\ flow' = S!NoFlow /\ UNCHANGED secrets_env
        /\ config' = config \/ config' = S!load_with(global_file, local_file, explicit)
        /\ added' = added \cup
             {[name |-> n, typed |-> \E kv \in flow.keys \ flow.lost : kv[1] = Preset[n]]
                : n \in flow.names}
    BY <1>8 DEF S!add_ends
  <2>2. config' \in Seq(Prov)
    BY <1>2, <2>1, LoadsWith DEF SettingTypes
  <2>3. added' \in SUBSET [name : S!Names, typed : BOOLEAN]
    <3>1. ASSUME NEW a \in added' PROVE a \in [name : S!Names, typed : BOOLEAN]
      <4>1. CASE a \in added
        BY <1>2, <4>1 DEF SettingTypes
      <4>2. CASE a \notin added
        <5>1. PICK n \in flow.names :
                a = [name |-> n, typed |-> \E kv \in flow.keys \ flow.lost : kv[1] = Preset[n]]
          BY <2>1, <4>2
        <5>2. PICK b \in BOOLEAN : b = \E kv \in flow.keys \ flow.lost : kv[1] = Preset[n]
          OBVIOUS
        <5>3. a = [name |-> n, typed |-> b] /\ n \in S!Names
          BY <1>2, <5>1, <5>2 DEF Appending, Adding
        <5>4. QED
          BY <5>3
      <4>3. QED
        BY <4>1, <4>2
    <3>2. QED
      BY <3>1
  <2>4. SettingTypes'
    BY <1>1, <1>2, <2>1, <2>2, <2>3 DEF SettingTypes
  <2>5. ASSUME NEW a \in added', a.typed
        PROVE  Preset[a.name] \in S!Keys /\ secrets_env[Preset[a.name]] # "none"
    <3>1. CASE a \in added
      BY <2>5, <3>1 DEF SettingInv, AddInv
    <3>2. CASE a \notin added
      <4>1. PICK n \in flow.names :
              a = [name |-> n, typed |-> \E kv \in flow.keys \ flow.lost : kv[1] = Preset[n]]
        BY <2>1, <2>5, <3>2
      <4>2. PICK kv \in flow.keys \ flow.lost : kv[1] = Preset[n]
        BY <2>5, <4>1
      <4>3. kv[1] \in S!Keys /\ secrets_env[kv[1]] # "none"
        BY <1>2, <2>1, <4>2 DEF Appending, Adding, Pairs
      <4>4. a.name = n
        BY <4>1
      <4>5. QED
        BY <4>2, <4>3, <4>4
    <3>3. QED
      BY <3>1, <3>2
  <2>6. AddInv'
    BY <2>1, <2>5 DEF AddInv
  <2>7. FlowInv'
    BY <2>1 DEF FlowInv, S!NoFlow
  <2>8. QED
    BY <1>3, <2>4, <2>6, <2>7 DEF SettingInv
<1>9. QED
  BY <1>6, <1>7, <1>8

LEMMA StepSettings ==
    ASSUME SettingInv, S!SettingNext PROVE SettingInv'
<1>1. /\ global_file \in Seq(Prov) /\ config \in Seq(Prov) /\ staging_providers \in Seq(Prov)
      /\ local_file \in Seq(Blk) /\ pending_presets \in Seq(S!Names)
      /\ staging_keys \in SUBSET (S!Keys \X {"typed"}) /\ explicit.blocks \in Seq(Blk)
  BY DEF SettingInv, SettingTypes
<1>2. <<>> \in Seq(Prov) /\ <<>> \in Seq(S!Names) /\ {} \in SUBSET (S!Keys \X {"typed"})
  OBVIOUS
<1>3. CASE S!restart
  <2>4. explicit'.blocks \in Seq(Blk)
    BY <1>3, Explicits DEF S!restart
  <2>1. config' \in Seq(Prov)
    BY <1>1, <1>3, <2>4, LoadsWith DEF S!restart
  <2>2. FlowInv'
    BY <1>3 DEF S!restart, S!NoFlow, FlowInv
  <2>3. QED
    BY <1>2, <1>3, <2>1, <2>2, <2>4, SettingRests DEF S!restart, S!files, S!ghosts
<1>4. CASE S!switch_pick_provider
  <2>1. /\ UNCHANGED <<global_file, local_file, secrets_env, pinned, added, config>>
        /\ UNCHANGED <<explicit, staging_providers, pending_presets, staging_keys>>
    BY <1>4 DEF S!switch_pick_provider, S!files, S!session, S!staging, S!ghosts
  <2>2. PICK i \in DOMAIN config : flow' = [at |-> "switch_model", name |-> config[i].name]
    BY <1>4 DEF S!switch_pick_provider, S!opens
  <2>3. FlowInv'
    BY <2>1, <2>2 DEF FlowInv
  <2>4. QED
    BY <1>1, <2>1, <2>3, SettingRests
<1>5. CASE S!switch_pick_model
  BY <1>5, StepSwitch
<1>6. CASE S!apply_locale
  <2>1. /\ UNCHANGED <<global_file, local_file, secrets_env, pinned, added, config, flow>>
        /\ UNCHANGED <<explicit, staging_providers, pending_presets, staging_keys>>
    BY <1>6 DEF S!apply_locale, S!staging, S!ghosts
  <2>2. FlowInv'
    BY <2>1 DEF SettingInv, FlowInv, Appending
  <2>3. QED
    BY <1>1, <2>1, <2>2, SettingRests
<1>7. CASE S!add_pick_presets
  <2>1. PICK c \in SUBSET S!Names : S!next_preset(S!SetToSeq(c), <<>>, {}, env)
    BY <1>7 DEF S!add_pick_presets
  <2>2. PICK s : s = S!SetToSeq(c)
    OBVIOUS
  <2>3. s \in Seq(S!Names) /\ S!next_preset(s, <<>>, {}, env)
    BY <2>1, <2>2, Chosen
  <2>4. UNCHANGED <<local_file, explicit, pinned>>
    BY <1>7 DEF S!add_pick_presets
  <2>5. QED
    BY <1>2, <2>3, <2>4, NextPreset
<1>8. CASE S!add_ask_key
  <2>1. /\ UNCHANGED <<global_file, local_file, secrets_env, pinned, added, config>>
        /\ UNCHANGED <<explicit, staging_providers, pending_presets>>
        /\ flow.at = "ask_key" /\ flow' = [flow EXCEPT !.at = "pick_model"]
        /\ \/ UNCHANGED staging_keys
           \/ staging_keys' = staging_keys \cup {<<Preset[flow.name], "typed">>}
    BY <1>8 DEF S!add_ask_key, S!files, S!ghosts
  <2>2. flow.name \in S!Names /\ Preset[flow.name] \in S!Keys
    BY <2>1 DEF SettingInv, FlowInv
  <2>3. staging_keys' \in SUBSET (S!Keys \X {"typed"})
    BY <1>1, <2>1, <2>2
  <2>4. FlowInv'
    BY <2>1, <2>2 DEF FlowInv
  <2>5. QED
    BY <1>1, <2>1, <2>3, <2>4, SettingRests
<1>9. CASE S!add_pick_model
  <2>1. PICK m \in Model :
          S!next_preset(pending_presets,
                        IF m \in Refused THEN staging_providers
                        ELSE Append(staging_providers, S!instantiate(flow.name, m)), staging_keys, env)
    BY <1>9 DEF S!add_pick_model
  <2>2. PICK fresh : fresh = IF m \in Refused THEN staging_providers
                             ELSE Append(staging_providers, S!instantiate(flow.name, m))
    OBVIOUS
  <2>3. flow.name \in S!Names
    BY <1>9 DEF S!add_pick_model, SettingInv, FlowInv
  <2>4. S!instantiate(flow.name, m) \in Prov
    BY <2>3, Instantiated
  <2>5. fresh \in Seq(Prov)
    BY <1>1, <2>2, <2>4
  <2>6. S!next_preset(pending_presets, fresh, staging_keys, env)
    BY <2>1, <2>2
  <2>7. UNCHANGED <<local_file, explicit, pinned>>
    BY <1>9 DEF S!add_pick_model
  <2>8. QED
    BY <1>1, <2>5, <2>6, <2>7, NextPreset
<1>10. CASE S!escape
  <2>1. /\ UNCHANGED <<global_file, local_file, secrets_env, pinned, added, config>>
        /\ UNCHANGED <<explicit, staging_providers, staging_keys>>
        /\ flow' = S!NoFlow /\ pending_presets' = <<>>
    BY <1>10 DEF S!escape, S!files, S!session, S!ghosts
  <2>2. FlowInv'
    BY <2>1 DEF FlowInv, S!NoFlow
  <2>3. QED
    BY <1>1, <1>2, <2>1, <2>2, SettingRests
<1>11. CASE S!run_wizard
  <2>1. PICK chosen \in S!SeqOf(S!Names, 2), m \in Model, typed \in SUBSET S!Keys :
          LET fresh == [i \in DOMAIN chosen |-> S!instantiate(chosen[i], m)]
              asked == {k \in typed \cap {Preset[n] : n \in S!Range(chosen)} : env[k] = "none"}
          IN  S!finish_add(fresh, {<<k, "typed">> : k \in asked}, "wizard")
    BY <1>11 DEF S!run_wizard
  <2>2. PICK fresh : fresh = [i \in DOMAIN chosen |-> S!instantiate(chosen[i], m)]
    OBVIOUS
  <2>3. PICK keys : keys = {<<k, "typed">> :
                     k \in {k \in typed \cap {Preset[n] : n \in S!Range(chosen)} : env[k] = "none"}}
    OBVIOUS
  <2>4. S!finish_add(fresh, keys, "wizard")
    BY <2>1, <2>2, <2>3
  <2>5. PICK l \in 0..2 : chosen \in [1..l -> S!Names]
    <3>1. chosen \in UNION {[1..l -> S!Names] : l \in 0..2}
      BY <2>1 DEF S!SeqOf
    <3>2. QED
      BY <3>1
  <2>6. \A i \in 1..l : S!instantiate(chosen[i], m) \in Prov
    BY <2>5, Instantiated
  <2>7. fresh \in Seq(Prov)
    BY <2>2, <2>5, <2>6
  <2>8. keys \in SUBSET (S!Keys \X {"typed"})
    BY <2>3
  <2>9. UNCHANGED <<local_file, explicit, pinned, staging_providers, staging_keys, pending_presets>>
    BY <1>11 DEF S!run_wizard, S!staging
  <2>10. /\ UNCHANGED <<secrets_env, config, added>>
         /\ global_file' \in Seq(Prov) /\ FlowInv' /\ AddInv' /\ PinInv'
    BY <2>4, <2>7, <2>8, <2>9, Adds
  <2>11. SettingTypes'
    BY <2>9, <2>10 DEF SettingInv, SettingTypes
  <2>12. QED
    BY <2>10, <2>11 DEF SettingInv
<1>13. CASE S!key_written \/ S!key_fails \/ S!add_ends
  BY <1>13, StepKeys
<1>12. QED
  BY <1>3, <1>4, <1>5, <1>6, <1>7, <1>8, <1>9, <1>10, <1>11, <1>13 DEF S!SettingNext

-----------------------------------------------------------------------------
(* the chat: a dialogue, the worker of a turn and what the human has said *)

Facts == Nat \X {"asked", "answered"}
Entry == [role : {"user", "assistant", "summary"}, of : SUBSET Facts, size : Nat]
Turn  == {t \in [at : {"none", "thinking", "confirming", "done"}, tool : Tool \cup {"none"},
                asked : Nat, answer : H!Answers \cup {"none"}, auto : SUBSET (Tool \cup {"all"})] :
            t.at = "confirming" => t.tool \in Tool}
Question == [kind : {"confirm"}, n : Nat, k : Nat, tool : Tool]
Ending   == [kind : {"ok", "err"}, n : Nat]

ChatTypes ==
    /\ front \in {"tui", "repl"} /\ busy \in BOOLEAN
    /\ turn \in [H!Messages -> Turn] /\ mail \in Seq(Question \cup Ending)
    /\ confirm_prompt = <<>> \/ \E q \in Question : confirm_prompt = <<q>>
    /\ answer_tx \in H!Messages \cup {0}
    /\ grants \in SUBSET (Tool \cup {"all"}) /\ allow \in SUBSET (Tool \cup {"all"})
    /\ conversation \in Seq(Entry)

\* One message at a time has a worker, and its mail ends with its outcome.
Rests(n) == turn[n].at \in {"none", "done"}
Active(n) ==
    /\ turn[n].at # "none" /\ \A m \in H!Messages : m # n => Rests(m)
    /\ answer_tx \in {0, n}
    /\ conversation # <<>> /\ conversation[Len(conversation)] = H!User(n)
    /\ \A i \in DOMAIN mail : mail[i].n = n
    /\ \A i \in DOMAIN mail : mail[i].kind # "confirm" => turn[n].at = "done" /\ i = Len(mail)

ControlInv ==
    /\ front = "repl" => ~busy /\ confirm_prompt = <<>>
    /\ ~busy => mail = <<>> /\ \A n \in H!Messages : Rests(n)
    /\ busy => \E n \in H!Messages : Active(n)

\* An answer that waits was given to the question its worker waits with: while the channel of a
\* turn is open, the only question about is that one.
Asks(n)     == [kind |-> "confirm", n |-> n, k |-> turn[n].asked, tool |-> turn[n].tool]
Answered(n) == [req |-> <<n, turn[n].asked>>, tool |-> turn[n].tool, answer |-> turn[n].answer]
Open(n) ==
    /\ turn[n].answer = "none" /\ turn[n].at # "none"
    /\ turn[n].at = "thinking" => mail = <<>> /\ confirm_prompt = <<>>
    /\ turn[n].at = "confirming" => \/ mail = <<Asks(n)>> /\ confirm_prompt = <<>>
                                    \/ mail = <<>> /\ confirm_prompt = <<Asks(n)>>
    /\ turn[n].at = "done" =>
         confirm_prompt = <<>> /\ \A i \in DOMAIN mail : mail[i].kind # "confirm"

ChannelInv ==
    /\ answer_tx # 0 => Open(answer_tx)
    /\ \A n \in H!Messages : turn[n].answer # "none" => turn[n].at = "confirming" /\ Answered(n) \in said

\* A permission that is kept was given.
GrantInv ==
    \A g \in grants : \E s \in said :
        \/ g = "all" /\ s.answer = "all"
        \/ g \in Tool /\ s.tool = g /\ s.answer \in {"session", "project"}

Plain(d) == \A i \in DOMAIN d : d[i].role # "summary"
Covers(d) == UNION {d[i].of : i \in DOMAIN d}
Disjoint(d) == \A i, j \in DOMAIN d : i # j => d[i].of \cap d[j].of = {}
Apart(d) ==
    /\ Disjoint(d)
    /\ \A i \in DOMAIN d : \A f \in d[i].of : f[1] \in H!Messages /\ turn[f[1]].at # "none"

\* A file in which every answer stands behind its question; and where the answer to n may be
\* written: behind its question, or where that cannot be read.
Readable(f) ==
    /\ f \in [entries : Seq(Entry), open : {"no", "torn", "whole"}, unread : SUBSET Facts]
    /\ H!Paired(f.entries, 1, f.unread) /\ Plain(f.entries)
    /\ f.open = "whole" => f.entries # <<>>
Awaits(d, n, unread) == (d # <<>> /\ d[Len(d)] = H!User(n)) \/ <<n, "asked">> \in unread

TextInv ==
    /\ Readable(kept_file)
    /\ front = "tui" => H!Paired(conversation, 2, kept_file.unread) /\ Plain(conversation)
    /\ front = "repl" => /\ Apart(conversation) /\ Apart(kept_file.entries) /\ kept_file.open = "no"
                         /\ Covers(H!resumed(kept_file.entries)) \subseteq Covers(conversation)

ChatInv == ChatTypes /\ ControlInv /\ ChannelInv /\ GrantInv /\ H!RunsWereApproved /\ TextInv

-----------------------------------------------------------------------------

LEMMA MessagesAre ==
    /\ H!Messages \in SUBSET Nat /\ 0 \notin H!Messages
    /\ \A n \in H!Messages :
         /\ H!User(n) \in Entry /\ H!User(n).role = "user" /\ H!User(n).of = {<<n, "asked">>}
         /\ H!Reply(n) \in Entry /\ H!Reply(n).role = "assistant" /\ H!Reply(n).of = {<<n, "answered">>}
<1>1. MaxSent \in Nat /\ MaxLines \in Nat /\ \A n \in 1..MaxSent \cup 1..MaxLines : Size[n] \in Nat
  BY FrontAssumption DEF H!ChatAssumption
<1>2. \A n \in H!Messages : n \in Nat /\ n # 0 /\ Size[n] \in Nat
  BY <1>1 DEF H!Messages
<1>3. QED
  BY <1>2 DEF H!User, H!Reply, Entry, Facts

\* A dialogue with one more entry, or a part of one, and one of which more is known.
LEMMA Longer ==
    ASSUME NEW d \in Seq(Entry), NEW n \in H!Messages, NEW first \in {1, 2}, NEW unread,
           H!Paired(d, first, unread), Plain(d)
    PROVE  /\ Append(d, H!User(n)) \in Seq(Entry) /\ H!Paired(Append(d, H!User(n)), first, unread)
           /\ Plain(Append(d, H!User(n)))
           /\ Awaits(d, n, unread) =>
                /\ Append(d, H!Reply(n)) \in Seq(Entry) /\ H!Paired(Append(d, H!Reply(n)), first, unread)
                /\ Plain(Append(d, H!Reply(n)))
<1>1. /\ H!User(n) \in Entry /\ H!User(n).role = "user" /\ H!User(n).of = {<<n, "asked">>}
      /\ H!Reply(n) \in Entry /\ H!Reply(n).role = "assistant" /\ H!Reply(n).of = {<<n, "answered">>}
  BY MessagesAre
<1>2. Len(d) \in Nat /\ DOMAIN d = 1..Len(d) /\ \A i \in DOMAIN d : d[i] \in Entry
  OBVIOUS
<1>3. ASSUME NEW e \in Entry, NEW w, w = Append(d, e), e.role # "summary",
             e.role = "assistant" => e = H!Reply(n) /\ Awaits(d, n, unread)
      PROVE  w \in Seq(Entry) /\ H!Paired(w, first, unread) /\ Plain(w)
  <2>1. /\ w \in Seq(Entry) /\ Len(w) = Len(d) + 1 /\ DOMAIN w = 1..(Len(d) + 1)
        /\ \A i \in 1..Len(d) : w[i] = d[i]
        /\ w[Len(d) + 1] = e
    BY <1>2, <1>3, AppendProperties
  <2>2. Plain(w)
    BY <1>2, <1>3, <2>1 DEF Plain
  <2>3. ASSUME NEW i \in first..Len(w), w[i].role = "assistant"
        PROVE  \E m \in H!Messages :
                 /\ w[i].of = {<<m, "answered">>}
                 /\ \/ i > 1 /\ w[i - 1].role = "user" /\ w[i - 1].of = {<<m, "asked">>}
                    \/ <<m, "asked">> \in unread
    <3>1. CASE i = Len(d) + 1
      <4>1. e.role = "assistant" /\ e = H!Reply(n) /\ Awaits(d, n, unread) /\ w[i] = H!Reply(n)
        BY <1>3, <2>1, <2>3, <3>1
      <4>2. CASE <<n, "asked">> \in unread
        BY <1>1, <4>1, <4>2
      <4>3. CASE d # <<>> /\ d[Len(d)] = H!User(n)
        <5>1. Len(d) \in 1..Len(d) /\ i > 1 /\ i - 1 = Len(d)
          BY <1>2, <3>1, <4>3
        <5>2. w[i - 1] = H!User(n)
          BY <2>1, <4>3, <5>1
        <5>3. QED
          BY <1>1, <4>1, <5>1, <5>2
      <4>4. QED
        BY <4>1, <4>2, <4>3 DEF Awaits
    <3>2. CASE i # Len(d) + 1
      <4>1. i \in first..Len(d) /\ i \in 1..Len(d) /\ (i > 1 => i - 1 \in 1..Len(d))
        BY <1>2, <2>1, <3>2
      <4>2. w[i] = d[i] /\ (i > 1 => w[i - 1] = d[i - 1])
        BY <2>1, <4>1
      <4>3. QED
        BY <2>3, <4>1, <4>2 DEF H!Paired
    <3>3. QED
      BY <3>1, <3>2
  <2>4. QED
    BY <2>1, <2>2, <2>3 DEF H!Paired
<1>4. QED
  BY <1>1, <1>3

\* A suffix of a sequence of entries.
LEMMA EndOf ==
    ASSUME NEW d \in Seq(Entry), NEW s \in 1..(Len(d) + 1), NEW w, w = SubSeq(d, s, Len(d))
    PROVE  /\ w \in Seq(Entry) /\ Len(w) = Len(d) - s + 1
           /\ \A i \in 1..Len(w) : w[i] = d[i + s - 1]
<1>1. Len(d) \in Nat /\ DOMAIN d = 1..Len(d)
  OBVIOUS
<1>2. QED
  BY <1>1, SubSeqProperties

LEMMA Ended ==
    ASSUME NEW d \in Seq(Entry), NEW s \in 1..(Len(d) + 1), NEW w, w = SubSeq(d, s, Len(d)), NEW unread
    PROVE  /\ w \in Seq(Entry) /\ Len(w) = Len(d) - s + 1
           /\ \A i \in 1..Len(w) : w[i] = d[i + s - 1]
           /\ H!Paired(d, 1, unread) => H!Paired(w, 2, unread)
           /\ Plain(d) => Plain(w)
<1>1. Len(d) \in Nat /\ DOMAIN d = 1..Len(d)
  OBVIOUS
<1>2. /\ w \in Seq(Entry) /\ Len(w) = Len(d) - s + 1
      /\ \A i \in 1..Len(w) : w[i] = d[i + s - 1]
  BY EndOf
<1>3. DOMAIN w = 1..Len(w)
  BY <1>2
<1>4. ASSUME H!Paired(d, 1, unread) PROVE H!Paired(w, 2, unread)
  <2>1. ASSUME NEW i \in 2..Len(w), w[i].role = "assistant"
        PROVE  \E m \in H!Messages :
                 /\ w[i].of = {<<m, "answered">>}
                 /\ \/ i > 1 /\ w[i - 1].role = "user" /\ w[i - 1].of = {<<m, "asked">>}
                    \/ <<m, "asked">> \in unread
    <3>1. /\ i \in 1..Len(w) /\ i - 1 \in 1..Len(w) /\ i + s - 1 \in 1..Len(d) /\ i > 1
          /\ (i - 1) + s - 1 = (i + s - 1) - 1
      BY <1>1, <1>2
    <3>2. w[i] = d[i + s - 1] /\ w[i - 1] = d[(i + s - 1) - 1]
      BY <1>2, <3>1
    <3>3. QED
      BY <1>4, <2>1, <3>1, <3>2 DEF H!Paired
  <2>2. QED
    BY <2>1 DEF H!Paired
<1>5. ASSUME Plain(d) PROVE Plain(w)
  <2>1. ASSUME NEW i \in 1..Len(w) PROVE w[i].role # "summary"
    <3>1. i + s - 1 \in DOMAIN d
      BY <1>1, <1>2
    <3>2. QED
      BY <1>2, <1>5, <3>1 DEF Plain
  <2>2. QED
    BY <1>3, <2>1 DEF Plain
<1>6. QED
  BY <1>2, <1>4, <1>5

LEMMA MoreUnread ==
    ASSUME NEW d, NEW first, NEW unread, NEW more, unread \subseteq more, H!Paired(d, first, unread)
    PROVE  H!Paired(d, first, more)
BY DEF H!Paired

LEMMA Shorter ==
    ASSUME NEW d \in Seq(Entry), d # <<>>, NEW unread, H!Paired(d, 1, unread), Plain(d)
    PROVE  H!Front(d) \in Seq(Entry) /\ H!Paired(H!Front(d), 1, unread) /\ Plain(H!Front(d))
<1>1. Len(d) \in Nat /\ Len(d) # 0 /\ DOMAIN d = 1..Len(d)
  OBVIOUS
<1>2. PICK w : w = SubSeq(d, 1, Len(d) - 1)
  OBVIOUS
<1>3. /\ w \in Seq(Entry) /\ Len(w) = Len(d) - 1 /\ DOMAIN w = 1..(Len(d) - 1)
      /\ \A i \in 1..(Len(d) - 1) : w[i] = d[i]
  <2>1. /\ w \in Seq(Entry) /\ Len(w) = Len(d) - 1
        /\ \A i \in 1..Len(w) : w[i] = d[i + 1 - 1]
    BY <1>1, <1>2, SubSeqProperties
  <2>2. DOMAIN w = 1..Len(w)
    BY <2>1
  <2>3. QED
    BY <1>1, <2>1, <2>2
<1>4. ASSUME NEW i \in 1..Len(w)
      PROVE  i \in 1..Len(d) /\ w[i] = d[i] /\ (i > 1 => w[i - 1] = d[i - 1])
  <2>1. i \in 1..(Len(d) - 1) /\ (i > 1 => i - 1 \in 1..(Len(d) - 1))
    BY <1>1, <1>3
  <2>2. QED
    BY <1>1, <1>3, <2>1
<1>5. H!Paired(w, 1, unread)
  BY <1>4 DEF H!Paired
<1>6. Plain(w)
  BY <1>1, <1>3 DEF Plain
<1>7. QED
  BY <1>2, <1>3, <1>5, <1>6 DEF H!Front

\* What an append makes of a file, and what a kill in it leaves.
LEMMA Behind ==
    ASSUME NEW f, Readable(f)
    PROVE  /\ H!behind(f) \in Seq(Entry) /\ H!Paired(H!behind(f), 1, f.unread) /\ Plain(H!behind(f))
BY Shorter DEF Readable, H!behind

LEMMA QuestionWritten ==
    ASSUME NEW f, Readable(f), NEW n \in H!Messages, NEW g, g = H!line(f, H!User(n))
    PROVE  Readable(g) /\ g.open = "no" /\ Awaits(g.entries, n, g.unread) /\ f.unread \subseteq g.unread
<1>1. /\ H!User(n).of = {<<n, "asked">>} /\ H!User(n) \in Entry /\ n \in Nat
  BY MessagesAre
<1>2. /\ f \in [entries : Seq(Entry), open : {"no", "torn", "whole"}, unread : SUBSET Facts]
      /\ H!Paired(f.entries, 1, f.unread) /\ Plain(f.entries) /\ f.entries \in Seq(Entry)
  BY DEF Readable
<1>3. CASE f.open = "no"
  <2>1. PICK w : w = Append(f.entries, H!User(n))
    OBVIOUS
  <2>2. w \in Seq(Entry) /\ H!Paired(w, 1, f.unread) /\ Plain(w)
    BY <1>2, <2>1, Longer
  <2>3. w # <<>> /\ w[Len(w)] = H!User(n)
    <3>1. Len(w) = Len(f.entries) + 1 /\ w[Len(f.entries) + 1] = H!User(n) /\ Len(f.entries) \in Nat
      BY <1>1, <1>2, <2>1, AppendProperties
    <3>2. QED
      BY <3>1
  <2>4. g = [f EXCEPT !.entries = w]
    BY <1>3, <2>1 DEF H!line
  <2>5. g.entries = w /\ g.open = "no" /\ g.unread = f.unread
        /\ g \in [entries : Seq(Entry), open : {"no", "torn", "whole"}, unread : SUBSET Facts]
    BY <1>2, <1>3, <2>2, <2>4
  <2>6. QED
    BY <2>2, <2>3, <2>5 DEF Readable, Awaits
<1>4. CASE f.open # "no"
  <2>1. PICK w, u : w = H!behind(f) /\ u = f.unread \cup {<<n, "asked">>}
    OBVIOUS
  <2>2. w \in Seq(Entry) /\ H!Paired(w, 1, f.unread) /\ Plain(w)
    BY <2>1, Behind
  <2>3. u \in SUBSET Facts /\ f.unread \subseteq u /\ <<n, "asked">> \in u
    BY <1>1, <1>2, <2>1 DEF Facts
  <2>4. H!Paired(w, 1, u)
    BY <2>2, <2>3, MoreUnread
  <2>5. g = [entries |-> w, open |-> "no", unread |-> u]
    BY <1>1, <1>4, <2>1 DEF H!line
  <2>6. QED
    BY <2>2, <2>3, <2>4, <2>5 DEF Readable, Awaits
<1>5. QED
  BY <1>3, <1>4

LEMMA AnswerWritten ==
    ASSUME NEW f, Readable(f), f.open = "no", NEW n \in H!Messages, Awaits(f.entries, n, f.unread),
           NEW g, g = H!line(f, H!Reply(n))
    PROVE  Readable(g) /\ g.open = "no" /\ g.unread = f.unread
<1>1. /\ f \in [entries : Seq(Entry), open : {"no", "torn", "whole"}, unread : SUBSET Facts]
      /\ H!Paired(f.entries, 1, f.unread) /\ Plain(f.entries) /\ f.entries \in Seq(Entry)
  BY DEF Readable
<1>2. PICK w : w = Append(f.entries, H!Reply(n))
  OBVIOUS
<1>3. w \in Seq(Entry) /\ H!Paired(w, 1, f.unread) /\ Plain(w)
  BY <1>1, <1>2, Longer
<1>4. g = [f EXCEPT !.entries = w]
  BY <1>2 DEF H!line
<1>5. /\ g.entries = w /\ g.open = "no" /\ g.unread = f.unread
      /\ g \in [entries : Seq(Entry), open : {"no", "torn", "whole"}, unread : SUBSET Facts]
  BY <1>1, <1>3, <1>4
<1>6. QED
  BY <1>3, <1>5 DEF Readable

LEMMA LineBroken ==
    ASSUME NEW f, Readable(f), NEW n \in H!Messages, NEW e,
           e = H!User(n) \/ (e = H!Reply(n) /\ Awaits(f.entries, n, f.unread)),
           NEW g \in H!broken_line(f, e)
    PROVE  Readable(g) /\ g.unread = f.unread
<1>1. /\ f \in [entries : Seq(Entry), open : {"no", "torn", "whole"}, unread : SUBSET Facts]
      /\ H!Paired(f.entries, 1, f.unread) /\ Plain(f.entries) /\ f.entries \in Seq(Entry)
  BY DEF Readable
<1>2. CASE g = f
  BY <1>2
<1>3. CASE g = [f EXCEPT !.entries = H!behind(f), !.open = "torn"]
  <2>1. PICK w : w = H!behind(f)
    OBVIOUS
  <2>2. w \in Seq(Entry) /\ H!Paired(w, 1, f.unread) /\ Plain(w)
    BY <2>1, Behind
  <2>3. /\ g.entries = w /\ g.open = "torn" /\ g.unread = f.unread
        /\ g \in [entries : Seq(Entry), open : {"no", "torn", "whole"}, unread : SUBSET Facts]
    BY <1>1, <1>3, <2>1, <2>2
  <2>4. QED
    BY <2>2, <2>3 DEF Readable
<1>4. CASE g = [f EXCEPT !.entries = Append(@, e), !.open = "whole"]
  <2>1. PICK w : w = Append(f.entries, e)
    OBVIOUS
  <2>2. w \in Seq(Entry) /\ H!Paired(w, 1, f.unread) /\ Plain(w)
    BY <1>1, <2>1, Longer
  <2>3. w # <<>>
    <3>1. e \in Entry
      BY MessagesAre
    <3>2. Len(w) = Len(f.entries) + 1 /\ Len(f.entries) \in Nat
      BY <1>1, <2>1, <3>1, AppendProperties
    <3>3. QED
      BY <3>2
  <2>4. /\ g.entries = w /\ g.open = "whole" /\ g.unread = f.unread
        /\ g \in [entries : Seq(Entry), open : {"no", "torn", "whole"}, unread : SUBSET Facts]
    BY <1>1, <1>4, <2>1, <2>2
  <2>5. QED
    BY <2>2, <2>3, <2>4 DEF Readable
<1>5. QED
  BY <1>2, <1>3, <1>4 DEF H!broken_line

\* A pair that is appended, or a kill in it.
LEMMA PairWritten ==
    ASSUME Readable(kept_file), NEW n \in H!Messages, NEW g,
           g = H!append_pair(H!User(n), n) \/ g \in H!broken_pair(H!User(n), n)
    PROVE  Readable(g) /\ kept_file.unread \subseteq g.unread
<1>1. PICK h : h = H!line(kept_file, H!User(n))
  OBVIOUS
<1>2. /\ Readable(h) /\ h.open = "no" /\ Awaits(h.entries, n, h.unread)
      /\ kept_file.unread \subseteq h.unread
  BY <1>1, QuestionWritten
<1>3. CASE g = H!append_pair(H!User(n), n)
  <2>1. g = H!line(h, H!Reply(n))
    BY <1>1, <1>3 DEF H!append_pair
  <2>2. Readable(g) /\ g.unread = h.unread
    BY <1>2, <2>1, AnswerWritten
  <2>3. QED
    BY <1>2, <2>2
<1>4. CASE g \in H!broken_line(kept_file, H!User(n))
  <2>1. Readable(g) /\ g.unread = kept_file.unread
    BY <1>4, LineBroken
  <2>2. QED
    BY <2>1
<1>5. CASE g \in H!broken_line(h, H!Reply(n))
  <2>1. Readable(g) /\ g.unread = h.unread
    BY <1>2, <1>5, LineBroken
  <2>2. QED
    BY <1>2, <2>1
<1>6. QED
  BY <1>1, <1>3, <1>4, <1>5 DEF H!broken_pair

LEMMA Resumed ==
    ASSUME NEW d \in Seq(Entry)
    PROVE  \E s \in 1..(Len(d) + 1) :
             /\ H!resumed(d) = SubSeq(d, s, Len(d))
             /\ s = IF Len(d) > RESUME_DEPTH THEN Len(d) - RESUME_DEPTH + 1 ELSE 1
<1>1. RESUME_DEPTH \in Nat /\ Len(d) \in Nat
  BY FrontAssumption DEF H!ChatAssumption
<1>2. PICK s : s = IF Len(d) > RESUME_DEPTH THEN Len(d) - RESUME_DEPTH + 1 ELSE 1
  OBVIOUS
<1>3. s \in 1..(Len(d) + 1)
  BY <1>1, <1>2
<1>4. QED
  BY <1>2, <1>3 DEF H!resumed

\* What the first entries become covers what they covered, and nothing that stays.
LEMMA Compacts ==
    ASSUME NEW d \in Seq(Entry), NEW s \in 1..Len(d), NEW w,
           w = <<H!Summary(SubSeq(d, 1, s))>> \o SubSeq(d, s + 1, Len(d))
    PROVE  w \in Seq(Entry) /\ Covers(w) = Covers(d) /\ (Disjoint(d) => Disjoint(w))
<1>1. Len(d) \in Nat /\ DOMAIN d = 1..Len(d) /\ \A i \in DOMAIN d : d[i] \in Entry
  OBVIOUS
<1>2. PICK old : old = SubSeq(d, 1, s)
  OBVIOUS
<1>3. /\ old \in Seq(Entry) /\ Len(old) = s /\ DOMAIN old = 1..s
      /\ \A i \in 1..s : old[i] = d[i]
  BY <1>1, <1>2, SubSeqProperties
<1>4. PICK tail : tail = SubSeq(d, s + 1, Len(d))
  OBVIOUS
<1>5. /\ tail \in Seq(Entry) /\ Len(tail) = Len(d) - s
      /\ \A i \in 1..Len(tail) : tail[i] = d[i + s]
  <2>1. s + 1 \in 1..(Len(d) + 1)
    BY <1>1
  <2>2. /\ tail \in Seq(Entry) /\ Len(tail) = Len(d) - (s + 1) + 1
        /\ \A i \in 1..Len(tail) : tail[i] = d[i + (s + 1) - 1]
    BY <1>4, <2>1, Ended
  <2>3. QED
    BY <1>1, <2>2
<1>6. PICK sum : sum = H!Summary(old)
  OBVIOUS
<1>7. sum \in Entry /\ sum.of = UNION {d[i].of : i \in 1..s}
  <2>1. sum = [role |-> "summary", of |-> UNION {d[i].of : i \in 1..s}, size |-> 1]
    BY <1>3, <1>6 DEF H!Summary
  <2>2. UNION {d[i].of : i \in 1..s} \in SUBSET Facts
    BY <1>1 DEF Entry
  <2>3. QED
    BY <2>1, <2>2 DEF Entry
<1>8. w = <<sum>> \o tail
  BY <1>2, <1>4, <1>6
<1>9. /\ w \in Seq(Entry) /\ Len(w) = 1 + Len(tail) /\ DOMAIN w = 1..(1 + Len(tail))
      /\ w[1] = sum
      /\ \A i \in 1..Len(tail) : w[i + 1] = tail[i]
  <2>1. PICK one : one = <<sum>>
    OBVIOUS
  <2>2. one \in Seq(Entry) /\ Len(one) = 1 /\ one[1] = sum
    BY <1>7, <2>1
  <2>3. w = one \o tail
    BY <1>8, <2>1
  <2>4. /\ w \in Seq(Entry) /\ Len(w) = 1 + Len(tail)
        /\ \A i \in 1..(1 + Len(tail)) : w[i] = IF i <= 1 THEN one[i] ELSE tail[i - 1]
    <3>1. tail \in Seq(Entry) /\ one \in Seq(Entry)
      BY <1>5, <2>2
    <3>2. w \in Seq(Entry) /\ Len(w) = Len(one) + Len(tail)
      BY <2>3, <3>1, ConcatProperties
    <3>3. \A i \in 1..(Len(one) + Len(tail)) :
               w[i] = IF i <= Len(one) THEN one[i] ELSE tail[i - Len(one)]
      BY <2>3, <3>1, ConcatProperties
    <3>4. QED
      BY <2>2, <3>2, <3>3
  <2>5. Len(tail) \in Nat
    BY <1>5
  <2>6. DOMAIN w = 1..(1 + Len(tail)) /\ w[1] = sum
    BY <2>2, <2>4, <2>5
  <2>7. ASSUME NEW i \in 1..Len(tail) PROVE w[i + 1] = tail[i]
    <3>1. i + 1 \in 1..(1 + Len(tail)) /\ ~(i + 1 <= 1) /\ (i + 1) - 1 = i
      BY <2>5
    <3>2. QED
      BY <2>4, <3>1
  <2>8. QED
    BY <2>4, <2>6, <2>7
<1>10. ASSUME NEW j \in 2..Len(w)
       PROVE  j + s - 1 \in (s + 1)..Len(d) /\ w[j] = d[j + s - 1]
  <2>1. /\ Len(tail) \in Nat /\ Len(w) = 1 + Len(tail) /\ Len(tail) = Len(d) - s
        /\ Len(d) \in Nat /\ s \in 1..Len(d)
    BY <1>1, <1>5, <1>9
  <2>2. j - 1 \in 1..Len(tail) /\ (j - 1) + 1 = j /\ (j - 1) + s = j + s - 1
    BY <2>1
  <2>3. w[j] = tail[j - 1]
    BY <1>9, <2>2
  <2>4. tail[j - 1] = d[(j - 1) + s]
    BY <1>5, <2>2
  <2>5. j + s - 1 \in (s + 1)..Len(d)
    BY <2>1
  <2>6. QED
    BY <2>2, <2>3, <2>4, <2>5
<1>11. Covers(w) = Covers(d)
  <2>1. ASSUME NEW j \in DOMAIN w, NEW f \in w[j].of PROVE \E i \in DOMAIN d : f \in d[i].of
    <3>1. CASE j = 1
      <4>1. f \in UNION {d[i].of : i \in 1..s}
        BY <1>7, <1>9, <2>1, <3>1
      <4>2. PICK i \in 1..s : f \in d[i].of
        BY <4>1
      <4>3. i \in DOMAIN d
        BY <1>1
      <4>4. QED
        BY <4>2, <4>3
    <3>2. CASE j # 1
      <4>1. j \in 2..Len(w)
        BY <1>5, <1>9, <3>2
      <4>2. j + s - 1 \in DOMAIN d
        BY <1>1, <1>10, <4>1
      <4>3. QED
        BY <1>10, <2>1, <4>1, <4>2
    <3>3. QED
      BY <3>1, <3>2
  <2>2. ASSUME NEW i \in DOMAIN d, NEW f \in d[i].of PROVE \E j \in DOMAIN w : f \in w[j].of
    <3>1. CASE i <= s
      <4>1. f \in w[1].of
        BY <1>1, <1>7, <1>9, <2>2, <3>1
      <4>2. 1 \in DOMAIN w
        BY <1>5, <1>9
      <4>3. QED
        BY <4>1, <4>2
    <3>2. CASE ~(i <= s)
      <4>1. i - s + 1 \in 2..Len(w) /\ i - s + 1 \in DOMAIN w /\ (i - s + 1) + s - 1 = i
        BY <1>1, <1>5, <1>9, <3>2
      <4>2. w[i - s + 1] = d[i]
        BY <1>10, <4>1
      <4>3. QED
        BY <2>2, <4>1, <4>2
    <3>3. QED
      BY <3>1, <3>2
  <2>3. ASSUME NEW f \in Covers(w) PROVE f \in Covers(d)
    <3>1. PICK j \in DOMAIN w : f \in w[j].of
      BY <2>3 DEF Covers
    <3>2. PICK i \in DOMAIN d : f \in d[i].of
      BY <2>1, <3>1
    <3>3. QED
      BY <3>2 DEF Covers
  <2>4. ASSUME NEW f \in Covers(d) PROVE f \in Covers(w)
    <3>1. PICK i \in DOMAIN d : f \in d[i].of
      BY <2>4 DEF Covers
    <3>2. PICK j \in DOMAIN w : f \in w[j].of
      BY <2>2, <3>1
    <3>3. QED
      BY <3>2 DEF Covers
  <2>5. QED
    BY <2>3, <2>4
<1>12. ASSUME Disjoint(d) PROVE Disjoint(w)
  <2>1. ASSUME NEW i \in 2..Len(w) PROVE w[1].of \cap w[i].of = {}
    <3>1. i + s - 1 \in DOMAIN d /\ ~(i + s - 1 \in 1..s) /\ w[i] = d[i + s - 1]
      BY <1>1, <1>10
    <3>2. ASSUME NEW j \in 1..s PROVE d[j].of \cap d[i + s - 1].of = {}
      <4>1. j \in DOMAIN d /\ j # i + s - 1
        BY <1>1, <3>1
      <4>2. QED
        BY <1>12, <3>1, <4>1 DEF Disjoint
    <3>3. QED
      BY <1>7, <1>9, <3>1, <3>2
  <2>2. ASSUME NEW i \in 2..Len(w), NEW j \in 2..Len(w), i # j PROVE w[i].of \cap w[j].of = {}
    <3>1. i + s - 1 \in (s + 1)..Len(d) /\ w[i] = d[i + s - 1]
      BY <1>10
    <3>2. j + s - 1 \in (s + 1)..Len(d) /\ w[j] = d[j + s - 1]
      BY <1>10
    <3>3. i + s - 1 \in DOMAIN d /\ j + s - 1 \in DOMAIN d
      BY <1>1, <3>1, <3>2
    <3>4. i + s - 1 # j + s - 1
      BY <1>9, <2>2
    <3>5. QED
      BY <1>12, <3>1, <3>2, <3>3, <3>4 DEF Disjoint
  <2>3. ASSUME NEW i \in DOMAIN w, NEW j \in DOMAIN w, i # j PROVE w[i].of \cap w[j].of = {}
    <3>1. /\ i = 1 \/ i \in 2..Len(w)
          /\ j = 1 \/ j \in 2..Len(w)
      BY <1>5, <1>9
    <3>2. QED
      BY <2>1, <2>2, <2>3, <3>1
  <2>4. QED
    BY <2>3 DEF Disjoint
<1>13. QED
  BY <1>9, <1>11, <1>12

LEMMA ChatFromInv ==
    ASSUME ChatInv
    PROVE  H!AnswersFollowTheirQuestion /\ H!NothingIsForgotten /\ H!RunsWereApproved
<1>1. H!AnswersFollowTheirQuestion
  BY DEF ChatInv, TextInv, Readable, H!AnswersFollowTheirQuestion
<1>2. H!NothingIsForgotten
  <2>1. conversation \in Seq(Entry) /\ front \in {"tui", "repl"}
    BY DEF ChatInv, ChatTypes
  <2>2. Len(conversation) \in Nat
    BY <2>1
  <2>3. PICK fitting : fitting = {s \in 2..Len(conversation) :
                        s = Len(conversation)
                        \/ H!size_of(SubSeq(conversation, s + 1, Len(conversation))) <= Trigger \div 3}
    OBVIOUS
  <2>4. PICK split : split = CHOOSE s \in fitting : \A t \in fitting : s <= t
    OBVIOUS
  <2>5. ASSUME ~(Len(conversation) < 4) PROVE split \in 1..Len(conversation)
    <3>1. Len(conversation) \in fitting /\ fitting \in SUBSET (1..Len(conversation))
      BY <2>2, <2>3, <2>5
    <3>2. \E i \in fitting : \A j \in fitting : i <= j
      BY <2>2, <3>1, Least
    <3>3. QED
      BY <2>4, <3>1, <3>2
  <2>6. H!compact_conversation(conversation) =
          IF Len(conversation) < 4 \/ H!size_of(conversation) <= Trigger THEN conversation
          ELSE <<H!Summary(SubSeq(conversation, 1, split))>>
                 \o SubSeq(conversation, split + 1, Len(conversation))
    BY <2>3, <2>4 DEF H!compact_conversation
  <2>7. Covers(H!compact_conversation(conversation)) = Covers(conversation)
    <3>1. CASE Len(conversation) < 4 \/ H!size_of(conversation) <= Trigger
      BY <2>6, <3>1
    <3>2. CASE ~(Len(conversation) < 4 \/ H!size_of(conversation) <= Trigger)
      <4>1. PICK w : w = <<H!Summary(SubSeq(conversation, 1, split))>>
                           \o SubSeq(conversation, split + 1, Len(conversation))
        OBVIOUS
      <4>2. Covers(w) = Covers(conversation)
        BY <2>1, <2>5, <3>2, <4>1, Compacts
      <4>3. QED
        BY <2>6, <3>2, <4>1, <4>2
    <3>3. QED
      BY <3>1, <3>2
  <2>8. ASSUME NEW i \in DOMAIN conversation, NEW j \in DOMAIN conversation,
               conversation[i].role = "summary", i # j
        PROVE  conversation[i].of \cap conversation[j].of = {}
    <3>1. front = "repl"
      BY <2>1, <2>8 DEF ChatInv, TextInv, Plain
    <3>2. QED
      BY <2>8, <3>1 DEF ChatInv, TextInv, Apart, Disjoint
  <2>9. front = "repl" => Covers(H!resumed(kept_file.entries)) \subseteq Covers(conversation)
    BY DEF ChatInv, TextInv
  <2>10. QED
    BY <2>7, <2>8, <2>9 DEF H!NothingIsForgotten, Covers
<1>3. QED
  BY <1>1, <1>2 DEF ChatInv

LEMMA InitChat ==
    ASSUME H!ChatInit PROVE ChatInv
<1>1. turn = [n \in H!Messages |-> H!NoTurn]
  BY DEF H!ChatInit
<1>2. H!NoTurn \in Turn /\ H!NoTurn.at = "none" /\ H!NoTurn.answer = "none"
  BY DEF H!NoTurn, Turn
<1>3. \A n \in H!Messages : turn[n].at = "none" /\ turn[n].answer = "none"
  BY <1>1, <1>2
<1>4. ChatTypes
  <2>1. turn \in [H!Messages -> Turn]
    BY <1>1, <1>2
  <2>2. <<>> \in Seq(Question \cup Ending) /\ <<>> \in Seq(Entry)
    OBVIOUS
  <2>3. QED
    BY <2>1, <2>2 DEF H!ChatInit, ChatTypes
<1>5. ControlInv /\ ChannelInv /\ GrantInv /\ H!RunsWereApproved
  BY <1>3 DEF H!ChatInit, ControlInv, Rests, ChannelInv, GrantInv, H!RunsWereApproved
<1>6. TextInv
  <2>1. /\ conversation = <<>> /\ kept_file = H!NoFile
        /\ kept_file.entries = <<>> /\ kept_file.open = "no" /\ kept_file.unread = {}
    BY DEF H!ChatInit, H!NoFile
  <2>2. /\ \A first \in {1, 2} : H!Paired(<<>>, first, {})
        /\ Plain(<<>>) /\ Apart(<<>>) /\ <<>> \in Seq(Entry)
    BY DEF H!Paired, Plain, Apart, Disjoint
  <2>3. Readable(kept_file)
    <3>1. kept_file \in [entries : Seq(Entry), open : {"no", "torn", "whole"}, unread : SUBSET Facts]
      BY <2>1, <2>2 DEF H!NoFile
    <3>2. QED
      BY <2>1, <2>2, <3>1 DEF Readable
  <2>4. H!resumed(kept_file.entries) = <<>>
    <3>1. PICK d : d = kept_file.entries
      OBVIOUS
    <3>2. d \in Seq(Entry) /\ Len(d) = 0
      BY <2>1, <2>2, <3>1
    <3>3. PICK s \in 1..(Len(d) + 1) : H!resumed(d) = SubSeq(d, s, Len(d))
      BY <3>2, Resumed
    <3>4. PICK w : w = SubSeq(d, s, Len(d))
      OBVIOUS
    <3>5. w \in Seq(Entry) /\ Len(w) = Len(d) - s + 1
      BY <3>2, <3>4, Ended
    <3>6. Len(w) = 0
      BY <3>2, <3>3, <3>5
    <3>7. QED
      BY <3>1, <3>3, <3>4, <3>5, <3>6, EmptySeq
  <2>5. QED
    BY <2>1, <2>2, <2>3, <2>4 DEF TextInv, Covers
<1>7. QED
  BY <1>4, <1>5, <1>6 DEF ChatInv

\* What is written stays right while no worker returns to where it had not begun.
LEMMA SameText ==
    ASSUME ChatInv, UNCHANGED <<conversation, kept_file, front>>,
           \A n \in H!Messages : turn[n].at # "none" => turn'[n].at # "none"
    PROVE  TextInv'
<1>1. H!Messages' = H!Messages
  BY DEF H!Messages
<1>2. Readable(kept_file)' <=> Readable(kept_file)
  BY <1>1 DEF Readable, H!Paired, Plain
<1>3. H!Paired(conversation, 2, kept_file.unread)' <=> H!Paired(conversation, 2, kept_file.unread)
  BY <1>1 DEF H!Paired
<1>4. Plain(conversation)' = Plain(conversation)
  BY DEF Plain
<1>5. Apart(conversation) => Apart(conversation)'
  BY <1>1 DEF Apart, Disjoint
<1>6. Apart(kept_file.entries) => Apart(kept_file.entries)'
  BY <1>1 DEF Apart, Disjoint
<1>7. /\ Covers(H!resumed(kept_file.entries))' = Covers(H!resumed(kept_file.entries))
      /\ Covers(conversation)' = Covers(conversation)
  BY DEF Covers, H!resumed
<1>8. TextInv
  BY DEF ChatInv
<1>9. QED
  BY <1>2, <1>3, <1>4, <1>5, <1>6, <1>7, <1>8 DEF TextInv

LEMMA SameGrants ==
    ASSUME ChatInv, said \subseteq said', UNCHANGED <<grants, runs>>
    PROVE  GrantInv' /\ H!RunsWereApproved'
BY DEF ChatInv, GrantInv, H!RunsWereApproved

LEMMA NextIs ==
    ASSUME H!Unsent # {} PROVE H!Next1 \in H!Messages /\ turn[H!Next1].at = "none"
<1>1. PICK k \in Nat : H!Messages = 1..k
  BY FrontAssumption DEF H!Messages, H!ChatAssumption
<1>2. H!Unsent \in SUBSET (1..k)
  BY <1>1 DEF H!Unsent
<1>3. \E i \in H!Unsent : \A j \in H!Unsent : i <= j
  BY <1>2, Least
<1>4. H!Next1 \in H!Unsent
  BY <1>3 DEF H!Next1
<1>5. QED
  BY <1>4 DEF H!Unsent

\* Someone is at work only while the front is busy, and is the only one.
LEMMA Works ==
    ASSUME ChatInv, NEW n \in H!Messages, ~Rests(n)
    PROVE  busy /\ front = "tui" /\ Active(n)
<1>1. busy
  BY DEF ChatInv, ControlInv
<1>2. PICK m \in H!Messages : Active(m)
  BY <1>1 DEF ChatInv, ControlInv
<1>3. m = n
  BY <1>2 DEF Active
<1>4. QED
  BY <1>1, <1>2, <1>3 DEF ChatInv, ControlInv, ChatTypes

LEMMA HasMail ==
    ASSUME ChatInv, mail # <<>>
    PROVE  /\ busy /\ front = "tui"
           /\ \E n \in H!Messages : Active(n) /\ Head(mail).n = n
                /\ (Head(mail).kind # "confirm" => turn[n].at = "done" /\ Len(mail) = 1)
<1>1. busy
  BY DEF ChatInv, ControlInv
<1>2. PICK n \in H!Messages : Active(n)
  BY <1>1 DEF ChatInv, ControlInv
<1>3. mail \in Seq(Question \cup Ending) /\ front \in {"tui", "repl"}
  BY DEF ChatInv, ChatTypes
<1>4. 1 \in DOMAIN mail /\ Head(mail) = mail[1]
  BY <1>3
<1>5. QED
  BY <1>1, <1>2, <1>3, <1>4 DEF Active, ChatInv, ControlInv

LEMMA StepSubmit ==
    ASSUME ChatInv, H!submit PROVE ChatInv'
<1>1. PICK n : n = H!Next1
  OBVIOUS
<1>2. n \in H!Messages /\ turn[n].at = "none"
  BY <1>1, NextIs DEF H!submit
<1>3. /\ ~busy /\ confirm_prompt = <<>> /\ busy' = TRUE /\ front = "tui"
      /\ conversation' = Append(conversation, H!User(n)) /\ answer_tx' = n
      /\ turn' = [turn EXCEPT ![n] = [H!NoTurn EXCEPT !.at = "thinking", !.auto = allow]]
      /\ UNCHANGED <<kept_file, front, mail, confirm_prompt, grants, allow, said, runs>>
  BY <1>1 DEF H!submit, H!takes_input
<1>4. mail = <<>> /\ \A m \in H!Messages : Rests(m)
  BY <1>3 DEF ChatInv, ControlInv
<1>5. H!Messages' = H!Messages
  BY <1>3 DEF H!Messages
<1>6. PICK t : t = [H!NoTurn EXCEPT !.at = "thinking", !.auto = allow]
  OBVIOUS
<1>7. t \in Turn /\ t.at = "thinking" /\ t.answer = "none"
  BY <1>6 DEF H!NoTurn, Turn, ChatInv, ChatTypes
<1>8. /\ turn' \in [H!Messages -> Turn] /\ turn'[n] = t
      /\ \A m \in H!Messages : m # n => turn'[m] = turn[m]
  BY <1>2, <1>3, <1>6, <1>7 DEF ChatInv, ChatTypes
<1>9. /\ conversation' \in Seq(Entry) /\ H!Paired(conversation', 2, kept_file.unread) /\ Plain(conversation')
      /\ conversation' # <<>> /\ conversation'[Len(conversation')] = H!User(n)
  <2>1. /\ conversation \in Seq(Entry) /\ H!Paired(conversation, 2, kept_file.unread)
        /\ Plain(conversation)
    BY <1>3 DEF ChatInv, ChatTypes, TextInv
  <2>2. /\ Append(conversation, H!User(n)) \in Seq(Entry)
        /\ H!Paired(Append(conversation, H!User(n)), 2, kept_file.unread)
        /\ Plain(Append(conversation, H!User(n)))
    BY <1>2, <2>1, Longer
  <2>3. QED
    BY <1>3, <2>1, <2>2
<1>10. ChatTypes'
  BY <1>2, <1>3, <1>5, <1>8, <1>9 DEF ChatInv, ChatTypes
<1>11. Active(n)'
  <2>1. H!User(n)' = H!User(n)
    BY DEF H!User
  <2>2. QED
    BY <1>3, <1>4, <1>5, <1>7, <1>8, <1>9, <2>1 DEF Active, Rests
<1>12. ControlInv'
  BY <1>2, <1>3, <1>5, <1>11 DEF ControlInv
<1>13. ChannelInv'
  <2>1. Open(n)'
    BY <1>3, <1>4, <1>7, <1>8 DEF Open
  <2>2. ASSUME NEW m \in H!Messages, turn'[m].answer # "none"
        PROVE  turn'[m].at = "confirming" /\ Answered(m)' \in said'
    BY <1>3, <1>7, <1>8, <2>2 DEF ChatInv, ChannelInv, Answered
  <2>3. QED
    BY <1>3, <1>5, <2>1, <2>2 DEF ChannelInv
<1>14. GrantInv' /\ H!RunsWereApproved'
  BY <1>3, SameGrants
<1>15. TextInv'
  <2>1. H!Paired(conversation, 2, kept_file.unread)'
    BY <1>3, <1>5, <1>9 DEF H!Paired
  <2>2. Readable(kept_file)'
    BY <1>3, <1>5 DEF Readable, H!Paired, Plain, ChatInv, TextInv
  <2>3. QED
    BY <1>3, <1>9, <2>1, <2>2 DEF TextInv, ChatInv, Plain
<1>16. QED
  BY <1>10, <1>12, <1>13, <1>14, <1>15 DEF ChatInv

LEMMA StepRequest ==
    ASSUME ChatInv, H!confirm_request PROVE ChatInv'
<1>1. /\ mail # <<>> /\ Head(mail).kind = "confirm" /\ mail' = Tail(mail)
      /\ confirm_prompt' = <<Head(mail)>>
      /\ UNCHANGED <<conversation, kept_file, front, busy, turn, answer_tx, grants, allow, said, runs>>
  BY DEF H!confirm_request
<1>2. busy /\ front = "tui"
  BY <1>1, HasMail
<1>3. PICK n \in H!Messages : Active(n)
  BY <1>2 DEF ChatInv, ControlInv
<1>4. H!Messages' = H!Messages
  BY <1>1 DEF H!Messages
<1>5. mail \in Seq(Question \cup Ending)
  BY DEF ChatInv, ChatTypes
<1>6. /\ mail' \in Seq(Question \cup Ending) /\ Head(mail) = mail[1] /\ Len(mail) \in Nat
      /\ Len(mail') = Len(mail) - 1
      /\ \A i \in DOMAIN mail' : i + 1 \in DOMAIN mail /\ mail'[i] = mail[i + 1] /\ i \in 1..Len(mail')
  BY <1>1, <1>5
<1>7. Head(mail) \in Question
  <2>1. Head(mail) \in Question \cup Ending
    BY <1>1, <1>5
  <2>2. QED
    BY <1>1, <2>1 DEF Ending
<1>8. ChatTypes'
  <2>1. ChatTypes
    BY DEF ChatInv
  <2>2. \E q \in Question : confirm_prompt' = <<q>>
    BY <1>1, <1>7
  <2>3. QED
    BY <1>1, <1>4, <1>6, <2>1, <2>2 DEF ChatTypes
<1>9. Active(n)'
  <2>1. \A i \in DOMAIN mail' : mail'[i].n = n
    BY <1>3, <1>6 DEF Active
  <2>2. \A i \in DOMAIN mail' : mail'[i].kind # "confirm" => turn[n].at = "done" /\ i = Len(mail')
    BY <1>3, <1>6 DEF Active
  <2>3. QED
    BY <1>1, <1>3, <1>4, <2>1, <2>2 DEF Active, Rests, H!User
<1>10. ControlInv'
  BY <1>1, <1>2, <1>4, <1>9 DEF ControlInv
<1>11. ChannelInv'
  <2>1. ASSUME answer_tx # 0 PROVE Open(answer_tx)'
    <3>1. Open(answer_tx) /\ answer_tx \in H!Messages
      BY <2>1 DEF ChatInv, ChannelInv, ChatTypes
    <3>2. 1 \in DOMAIN mail /\ mail[1].kind = "confirm"
      BY <1>1, <1>5
    <3>3. turn[answer_tx].at # "thinking" /\ turn[answer_tx].at # "done"
      BY <1>1, <3>1, <3>2 DEF Open
    <3>4. turn[answer_tx].at = "confirming"
      <4>1. turn[answer_tx] \in Turn
        BY <3>1 DEF ChatInv, ChatTypes
      <4>2. QED
        BY <3>1, <3>3, <4>1 DEF Open, Turn
    <3>5. mail = <<Asks(answer_tx)>>
      BY <1>1, <3>1, <3>4 DEF Open
    <3>6. mail' = <<>> /\ confirm_prompt' = <<Asks(answer_tx)>>
      BY <1>1, <3>5
    <3>7. QED
      BY <1>1, <3>1, <3>4, <3>6 DEF Open, Asks
  <2>2. QED
    BY <1>1, <1>4, <2>1 DEF ChatInv, ChannelInv, Answered
<1>12. GrantInv' /\ H!RunsWereApproved'
  BY <1>1, SameGrants
<1>13. TextInv'
  BY <1>1, SameText
<1>14. QED
  BY <1>8, <1>10, <1>11, <1>12, <1>13 DEF ChatInv

\* An outcome is the last of a turn's mail.
LEMMA Over ==
    ASSUME ChatInv, mail # <<>>, Head(mail).kind # "confirm", mail' = Tail(mail), busy' = FALSE,
           UNCHANGED <<front, turn, answer_tx, confirm_prompt, grants, allow, said, runs>>,
           conversation' \in Seq(Entry)
    PROVE  ChatTypes' /\ ControlInv' /\ ChannelInv' /\ GrantInv' /\ H!RunsWereApproved'
<1>1. /\ busy /\ front = "tui"
      /\ \E n \in H!Messages : Active(n) /\ Head(mail).n = n
           /\ (Head(mail).kind # "confirm" => turn[n].at = "done" /\ Len(mail) = 1)
  BY HasMail
<1>2. PICK n \in H!Messages : Active(n) /\ turn[n].at = "done" /\ Len(mail) = 1
  BY <1>1
<1>3. mail' = <<>>
  <2>1. mail \in Seq(Question \cup Ending)
    BY DEF ChatInv, ChatTypes
  <2>2. QED
    BY <1>2, <2>1
<1>4. H!Messages' = H!Messages
  BY DEF H!Messages
<1>5. ChatTypes'
  <2>1. <<>> \in Seq(Question \cup Ending)
    OBVIOUS
  <2>2. QED
    BY <1>3, <1>4, <2>1 DEF ChatInv, ChatTypes
<1>6. ControlInv'
  <2>1. \A m \in H!Messages : Rests(m)
    BY <1>2 DEF Active, Rests
  <2>2. QED
    BY <1>1, <1>3, <1>4, <2>1 DEF ControlInv, Rests
<1>7. ChannelInv'
  <2>1. ASSUME answer_tx # 0 PROVE Open(answer_tx)'
    <3>1. answer_tx = n
      BY <1>2, <2>1 DEF Active
    <3>2. Open(n)
      BY <2>1, <3>1 DEF ChatInv, ChannelInv
    <3>3. QED
      BY <1>2, <1>3, <3>1, <3>2 DEF Open
  <2>2. QED
    BY <1>4, <2>1 DEF ChatInv, ChannelInv, Answered
<1>8. GrantInv' /\ H!RunsWereApproved'
  BY SameGrants
<1>9. QED
  BY <1>5, <1>6, <1>7, <1>8

\* A question and its answer at the end of a file.
LEMMA Pair ==
    ASSUME NEW d \in Seq(Entry), NEW n \in H!Messages, NEW w,
           w = d \o (<<H!User(n)>> \o <<H!Reply(n)>>) \/ w = d \o <<H!User(n), H!Reply(n)>>
    PROVE  /\ w \in Seq(Entry) /\ Len(w) = Len(d) + 2
           /\ \A i \in 1..Len(d) : w[i] = d[i]
           /\ w[Len(d) + 1] = H!User(n) /\ w[Len(d) + 2] = H!Reply(n)
           /\ w = Append(Append(d, H!User(n)), H!Reply(n))
<1>1. H!User(n) \in Entry /\ H!Reply(n) \in Entry
  BY MessagesAre
<1>2. PICK u, r : u = H!User(n) /\ r = H!Reply(n)
  OBVIOUS
<1>3. w = d \o <<u, r>>
  <2>1. PICK a, two : a = <<u>> /\ two = <<u, r>>
    OBVIOUS
  <2>2. /\ a \in Seq(Entry) /\ Len(a) = 1 /\ a[1] = u
        /\ two \in Seq(Entry) /\ Len(two) = 2 /\ two[1] = u /\ two[2] = r
    BY <1>1, <1>2, <2>1
  <2>3. PICK b : b = Append(a, r)
    OBVIOUS
  <2>4. b \in Seq(Entry) /\ Len(b) = 2 /\ b[1] = u /\ b[2] = r
    <3>1. r \in Entry
      BY <1>1, <1>2
    <3>2. a \in Seq(Entry)
      BY <2>2
    <3>3. /\ Append(a, r) \in Seq(Entry) /\ Len(Append(a, r)) = Len(a) + 1
          /\ Append(a, r)[Len(a) + 1] = r
      BY <3>1, <3>2, AppendProperties
    <3>4. \A i \in 1..Len(a) : Append(a, r)[i] = a[i]
      BY <3>1, <3>2, AppendProperties
    <3>5. QED
      BY <2>2, <2>3, <3>3, <3>4
  <2>5. b = two
    <3>1. \A i \in 1..2 : b[i] = two[i]
      BY <2>2, <2>4
    <3>2. QED
      BY <2>2, <2>4, <3>1, SeqEqual
  <2>6. <<u>> \o <<r>> = <<u, r>>
    BY <1>1, <1>2, <2>1, <2>2, <2>3, <2>5, AppendIsConcat
  <2>7. QED
    BY <1>2, <2>6
<1>4. Len(d) \in Nat /\ DOMAIN d = 1..Len(d)
  OBVIOUS
<1>5. /\ w \in Seq(Entry) /\ Len(w) = Len(d) + 2
      /\ \A i \in 1..(Len(d) + 2) : w[i] = IF i <= Len(d) THEN d[i] ELSE <<u, r>>[i - Len(d)]
  <2>1. <<u, r>> \in Seq(Entry) /\ Len(<<u, r>>) = 2
    BY <1>1, <1>2
  <2>2. PICK two : two = <<u, r>>
    OBVIOUS
  <2>3. w \in Seq(Entry) /\ Len(w) = Len(d) + Len(two)
    BY <1>3, <2>1, <2>2, ConcatProperties
  <2>4. \A i \in 1..(Len(d) + Len(two)) : w[i] = IF i <= Len(d) THEN d[i] ELSE two[i - Len(d)]
    BY <1>3, <2>1, <2>2, ConcatProperties
  <2>5. QED
    BY <2>1, <2>2, <2>3, <2>4
<1>6. \A i \in 1..Len(d) : w[i] = d[i]
  BY <1>4, <1>5
<1>7. w[Len(d) + 1] = u
  <2>1. Len(d) + 1 \in 1..(Len(d) + 2) /\ ~(Len(d) + 1 <= Len(d)) /\ (Len(d) + 1) - Len(d) = 1
    BY <1>4
  <2>2. w[Len(d) + 1] = <<u, r>>[1]
    BY <1>5, <2>1
  <2>3. QED
    BY <2>2
<1>8. w[Len(d) + 2] = r
  <2>1. Len(d) + 2 \in 1..(Len(d) + 2) /\ ~(Len(d) + 2 <= Len(d)) /\ (Len(d) + 2) - Len(d) = 2
    BY <1>4
  <2>2. w[Len(d) + 2] = <<u, r>>[2]
    BY <1>5, <2>1
  <2>3. QED
    BY <2>2
<1>9. PICK e : e = Append(d, u)
  OBVIOUS
<1>10. /\ e \in Seq(Entry) /\ Len(e) = Len(d) + 1 /\ e # <<>>
       /\ \A i \in 1..Len(d) : e[i] = d[i]
       /\ e[Len(d) + 1] = u
  BY <1>1, <1>2, <1>9, AppendProperties
<1>11. PICK v : v = Append(e, r)
  OBVIOUS
<1>12. /\ v \in Seq(Entry) /\ Len(v) = Len(e) + 1
       /\ \A i \in 1..Len(e) : v[i] = e[i]
       /\ v[Len(e) + 1] = r
  BY <1>1, <1>2, <1>10, <1>11, AppendProperties
<1>13. w = v
  <2>1. Len(w) = Len(v)
    BY <1>4, <1>5, <1>10, <1>12
  <2>2. ASSUME NEW i \in 1..Len(w) PROVE w[i] = v[i]
    <3>1. CASE i \in 1..Len(d)
      BY <1>4, <1>6, <1>10, <1>12, <3>1
    <3>2. CASE i = Len(d) + 1
      BY <1>4, <1>7, <1>10, <1>12, <3>2
    <3>3. CASE i = Len(d) + 2
      BY <1>4, <1>8, <1>10, <1>12, <3>3
    <3>4. i \in 1..Len(d) \/ i = Len(d) + 1 \/ i = Len(d) + 2
      BY <1>4, <1>5
    <3>5. QED
      BY <3>1, <3>2, <3>3, <3>4
  <2>3. QED
    BY <1>5, <1>12, <2>1, <2>2, SeqEqual
<1>14. QED
  BY <1>2, <1>5, <1>6, <1>7, <1>8, <1>9, <1>11, <1>13

\* The question that goes to the file is the message of the turn.
LEMMA AskedLast ==
    ASSUME NEW n, conversation # <<>>, conversation[Len(conversation)] = H!User(n)
    PROVE  H!question = H!User(n)
<1>1. H!Last(conversation) = H!User(n)
  BY DEF H!Last
<1>2. [H!User(n) EXCEPT !.role = "user"] = H!User(n)
  BY DEF H!User
<1>3. QED
  BY <1>1, <1>2 DEF H!question

LEMMA StepReply ==
    ASSUME ChatInv, H!reply_ok \/ H!reply_err PROVE ChatInv'
<1>1. CASE H!reply_err
  <2>1. /\ mail # <<>> /\ Head(mail).kind = "err" /\ mail' = Tail(mail) /\ busy' = FALSE
        /\ UNCHANGED <<front, turn, answer_tx, confirm_prompt, grants, allow, said, runs>>
        /\ UNCHANGED <<conversation, kept_file>>
    BY <1>1 DEF H!reply_err
  <2>2. conversation' \in Seq(Entry)
    BY <2>1 DEF ChatInv, ChatTypes
  <2>3. ChatTypes' /\ ControlInv' /\ ChannelInv' /\ GrantInv' /\ H!RunsWereApproved'
    BY <2>1, <2>2, Over
  <2>4. TextInv'
    BY <2>1, SameText
  <2>5. QED
    BY <2>3, <2>4 DEF ChatInv
<1>2. CASE H!reply_ok
  <2>1. /\ mail # <<>> /\ Head(mail).kind = "ok" /\ mail' = Tail(mail) /\ busy' = FALSE
        /\ UNCHANGED <<front, turn, answer_tx, confirm_prompt, grants, allow, said, runs>>
        /\ conversation # <<>> => kept_file' = H!append_pair(H!question, Head(mail).n)
        /\ conversation' = Append(conversation, H!Reply(Head(mail).n))
    BY <1>2 DEF H!reply_ok
  <2>2. PICK n \in H!Messages : Active(n) /\ Head(mail).n = n
    BY <2>1, HasMail
  <2>3. front = "tui" /\ conversation \in Seq(Entry)
    BY <2>1, HasMail DEF ChatInv, ChatTypes
  <2>4. conversation # <<>> /\ conversation[Len(conversation)] = H!User(n)
    BY <2>2 DEF Active
  <2>5. H!question = H!User(n)
    BY <2>4, AskedLast
  <2>6. /\ Readable(kept_file)
        /\ H!Paired(conversation, 2, kept_file.unread) /\ Plain(conversation)
    BY <2>3 DEF ChatInv, TextInv
  <2>7. kept_file' = H!append_pair(H!User(n), n)
    BY <2>1, <2>2, <2>4, <2>5
  <2>8. PICK g : g = H!append_pair(H!User(n), n)
    OBVIOUS
  <2>9. Readable(g) /\ kept_file.unread \subseteq g.unread /\ kept_file' = g
    BY <2>6, <2>7, <2>8, PairWritten
  <2>10. /\ conversation' \in Seq(Entry) /\ H!Paired(conversation', 2, g.unread) /\ Plain(conversation')
    <3>1. PICK w : w = Append(conversation, H!Reply(n))
      OBVIOUS
    <3>2. w \in Seq(Entry) /\ H!Paired(w, 2, kept_file.unread) /\ Plain(w)
      BY <2>3, <2>4, <2>6, <3>1, Longer DEF Awaits
    <3>3. H!Paired(w, 2, g.unread)
      BY <2>9, <3>2, MoreUnread
    <3>4. QED
      BY <2>1, <2>2, <3>1, <3>2, <3>3
  <2>11. ChatTypes' /\ ControlInv' /\ ChannelInv' /\ GrantInv' /\ H!RunsWereApproved'
    BY <2>1, <2>10, Over
  <2>12. TextInv'
    <3>1. H!Messages' = H!Messages
      BY <2>1 DEF H!Messages
    <3>2. Readable(kept_file)' /\ H!Paired(conversation, 2, kept_file.unread)' /\ Plain(conversation)'
      BY <2>9, <2>10, <3>1 DEF Readable, H!Paired, Plain
    <3>3. QED
      BY <2>1, <2>3, <3>2 DEF TextInv
  <2>13. QED
    BY <2>11, <2>12 DEF ChatInv
<1>3. QED
  BY <1>1, <1>2

LEMMA StepAnswers ==
    ASSUME ChatInv, NEW a \in H!Answers, H!answers(a) PROVE ChatInv'
<1>1. PICK q : confirm_prompt = <<q>> /\ q \in Question
  BY DEF H!answers, ChatInv, ChatTypes
<1>2. PICK s : s = [req |-> <<q.n, q.k>>, tool |-> q.tool, answer |-> a]
  OBVIOUS
<1>3. /\ mail = <<>> /\ said' = said \cup {s}
      /\ turn' = IF answer_tx = 0 THEN turn ELSE [turn EXCEPT ![answer_tx].answer = a]
      /\ answer_tx' = 0 /\ confirm_prompt' = <<>>
      /\ UNCHANGED <<conversation, kept_file, front, busy, mail, grants, allow, runs>>
  BY <1>1, <1>2 DEF H!answers
<1>4. H!Messages' = H!Messages
  BY <1>3 DEF H!Messages
<1>5. turn \in [H!Messages -> Turn] /\ answer_tx \in H!Messages \cup {0} /\ ChatTypes
  BY DEF ChatInv, ChatTypes
<1>6. a # "none" /\ a \in H!Answers \cup {"none"}
  BY DEF H!Answers
<1>7. CASE answer_tx = 0
  <2>1. turn' = turn
    BY <1>3, <1>7
  <2>2. ChatTypes'
    BY <1>3, <1>4, <1>5, <2>1 DEF ChatTypes
  <2>3. ControlInv'
    <3>1. ASSUME NEW n \in H!Messages, Active(n) PROVE Active(n)'
      BY <1>3, <1>4, <2>1, <3>1 DEF Active, Rests, H!User
    <3>2. QED
      BY <1>3, <1>4, <2>1, <3>1 DEF ChatInv, ControlInv, Rests
  <2>4. ChannelInv'
    BY <1>3, <1>4, <2>1 DEF ChatInv, ChannelInv, Answered
  <2>5. GrantInv' /\ H!RunsWereApproved'
    BY <1>3, SameGrants
  <2>6. TextInv'
    BY <1>3, <2>1, SameText
  <2>7. QED
    BY <2>2, <2>3, <2>4, <2>5, <2>6 DEF ChatInv
<1>8. CASE answer_tx # 0
  <2>1. PICK m \in H!Messages : m = answer_tx
    BY <1>5, <1>8
  <2>2. Open(m)
    BY <1>8, <2>1 DEF ChatInv, ChannelInv
  <2>3. turn[m].at = "confirming" /\ q = Asks(m)
    <3>1. turn[m].at \in {"none", "thinking", "confirming", "done"}
      BY <1>5 DEF Turn
    <3>2. confirm_prompt # <<>>
      BY <1>1
    <3>3. turn[m].at = "confirming"
      BY <2>2, <3>1, <3>2 DEF Open
    <3>4. confirm_prompt = <<Asks(m)>>
      BY <2>2, <3>2, <3>3 DEF Open
    <3>5. QED
      BY <1>1, <3>3, <3>4
  <2>4. /\ turn' \in [H!Messages -> Turn]
        /\ turn'[m] = [turn[m] EXCEPT !.answer = a]
        /\ \A n \in H!Messages : n # m => turn'[n] = turn[n]
    <3>1. turn[m] \in Turn
      BY <1>5
    <3>2. [turn[m] EXCEPT !.answer = a] \in Turn
      BY <1>6, <3>1 DEF Turn
    <3>3. turn' = [turn EXCEPT ![m] = [turn[m] EXCEPT !.answer = a]]
      BY <1>3, <1>8, <2>1
    <3>4. QED
      BY <1>5, <3>2, <3>3
  <2>5. /\ turn'[m].at = "confirming" /\ turn'[m].answer = a
        /\ turn'[m].tool = turn[m].tool /\ turn'[m].asked = turn[m].asked
    BY <1>5, <2>3, <2>4 DEF Turn
  <2>6. \A n \in H!Messages : turn'[n].at = turn[n].at
    BY <2>3, <2>4, <2>5
  <2>7. ChatTypes'
    BY <1>3, <1>4, <1>5, <2>4 DEF ChatTypes
  <2>8. ControlInv'
    <3>1. ASSUME NEW n \in H!Messages, Active(n) PROVE Active(n)'
      BY <1>3, <1>4, <2>6, <3>1 DEF Active, Rests, H!User
    <3>2. QED
      BY <1>3, <1>4, <2>6, <3>1 DEF ChatInv, ControlInv, Rests
  <2>9. ChannelInv'
    <3>1. Answered(m)' = s
      BY <1>2, <2>3, <2>5 DEF Answered, Asks
    <3>2. ASSUME NEW n \in H!Messages, turn'[n].answer # "none"
          PROVE  turn'[n].at = "confirming" /\ Answered(n)' \in said'
      <4>1. CASE n = m
        BY <1>3, <2>5, <3>1, <4>1
      <4>2. CASE n # m
        <5>1. turn'[n] = turn[n]
          BY <2>4, <4>2
        <5>2. turn[n].at = "confirming" /\ Answered(n) \in said
          BY <3>2, <5>1 DEF ChatInv, ChannelInv
        <5>3. Answered(n)' = Answered(n)
          BY <5>1 DEF Answered
        <5>4. QED
          BY <1>3, <5>1, <5>2, <5>3
      <4>3. QED
        BY <4>1, <4>2
    <3>3. QED
      BY <1>3, <1>4, <3>2 DEF ChannelInv
  <2>10. GrantInv' /\ H!RunsWereApproved'
    BY <1>3, SameGrants
  <2>11. TextInv'
    BY <1>3, <2>6, SameText
  <2>12. QED
    BY <2>7, <2>8, <2>9, <2>10, <2>11 DEF ChatInv
<1>9. QED
  BY <1>7, <1>8

LEMMA StepQuit ==
    ASSUME ChatInv, H!quit PROVE ChatInv'
<1>1. /\ conversation' = H!resumed(kept_file'.entries) /\ busy' = FALSE /\ mail' = <<>>
      /\ turn' = [n \in H!Messages |-> IF turn[n].at = "none" THEN H!NoTurn
                                        ELSE [H!NoTurn EXCEPT !.at = "done"]]
      /\ answer_tx' = 0 /\ confirm_prompt' = <<>> /\ grants' = {}
      /\ UNCHANGED <<front, allow, said, runs>>
  BY DEF H!quit
<1>2. H!Messages' = H!Messages
  BY <1>1 DEF H!Messages
<1>3. ChatTypes /\ conversation \in Seq(Entry) /\ Readable(kept_file) /\ TextInv
  BY DEF ChatInv, ChatTypes, TextInv
<1>4. PICK g : g = kept_file'
  OBVIOUS
<1>5. \/ g = kept_file
      \/ front = "tui" /\ \E n \in H!Messages : g \in H!broken_pair(H!User(n), n)
  <2>1. SUFFICES ASSUME g # kept_file
                 PROVE  front = "tui" /\ \E n \in H!Messages : g \in H!broken_pair(H!User(n), n)
    OBVIOUS
  <2>2. /\ mail # <<>> /\ Head(mail).kind = "ok" /\ conversation # <<>>
        /\ g \in H!broken_pair(H!question, Head(mail).n)
    BY <1>4, <2>1 DEF H!quit
  <2>3. PICK n \in H!Messages : Active(n) /\ Head(mail).n = n
    BY <2>2, HasMail
  <2>4. H!question = H!User(n)
    BY <2>2, <2>3, AskedLast DEF Active
  <2>5. QED
    BY <2>2, <2>3, <2>4, HasMail
<1>6. Readable(g) /\ (front = "repl" => g = kept_file)
  BY <1>3, <1>5, PairWritten
<1>7. PICK written \in Seq(Entry) : written = g.entries
  BY <1>6 DEF Readable
<1>8. PICK s \in 1..(Len(written) + 1) : H!resumed(written) = SubSeq(written, s, Len(written))
  BY Resumed
<1>9. PICK w : w = SubSeq(written, s, Len(written))
  OBVIOUS
<1>10. /\ w \in Seq(Entry) /\ Len(w) = Len(written) - s + 1
       /\ \A i \in 1..Len(w) : w[i] = written[i + s - 1]
       /\ H!Paired(w, 2, g.unread) /\ Plain(w)
  <2>1. H!Paired(written, 1, g.unread) /\ Plain(written)
    BY <1>6, <1>7 DEF Readable
  <2>2. /\ w \in Seq(Entry) /\ Len(w) = Len(written) - s + 1
        /\ \A i \in 1..Len(w) : w[i] = written[i + s - 1]
        /\ H!Paired(written, 1, g.unread) => H!Paired(w, 2, g.unread)
        /\ Plain(written) => Plain(w)
    BY <1>9, Ended
  <2>3. QED
    BY <2>1, <2>2
<1>11. conversation' = w
  BY <1>1, <1>4, <1>7, <1>8, <1>9
<1>12. turn' \in [H!Messages -> Turn]
       /\ \A n \in H!Messages : /\ turn'[n].at \in {"none", "done"} /\ turn'[n].answer = "none"
                                /\ turn[n].at # "none" => turn'[n].at # "none"
  <2>1. PICK t : t = [H!NoTurn EXCEPT !.at = "done"]
    OBVIOUS
  <2>2. /\ H!NoTurn \in Turn /\ H!NoTurn.at = "none" /\ H!NoTurn.answer = "none"
        /\ t \in Turn /\ t.at = "done" /\ t.answer = "none"
    BY <2>1 DEF H!NoTurn, Turn
  <2>3. turn' = [n \in H!Messages |-> IF turn[n].at = "none" THEN H!NoTurn ELSE t]
    BY <1>1, <2>1
  <2>4. QED
    BY <2>2, <2>3
<1>13. ChatTypes'
  <2>1. <<>> \in Seq(Question \cup Ending)
    OBVIOUS
  <2>2. QED
    BY <1>1, <1>2, <1>3, <1>10, <1>11, <1>12, <2>1 DEF ChatTypes
<1>14. ControlInv'
  BY <1>1, <1>2, <1>12 DEF ControlInv, Rests
<1>15. ChannelInv'
  BY <1>1, <1>2, <1>12 DEF ChannelInv
<1>16. GrantInv' /\ H!RunsWereApproved'
  BY <1>1 DEF ChatInv, GrantInv, H!RunsWereApproved
<1>17. TextInv'
  <2>1. H!Paired(conversation, 2, kept_file.unread)' /\ Plain(conversation)'
    BY <1>2, <1>4, <1>10, <1>11 DEF H!Paired, Plain
  <2>2. Readable(kept_file)'
    BY <1>2, <1>4, <1>6 DEF Readable, H!Paired, Plain
  <2>3. ASSUME front = "repl"
        PROVE  /\ Apart(conversation)' /\ Apart(kept_file.entries)' /\ kept_file'.open = "no"
               /\ Covers(H!resumed(kept_file.entries))' \subseteq Covers(conversation)'
    <3>1. Apart(kept_file.entries) /\ written = kept_file.entries /\ kept_file' = kept_file
          /\ kept_file.open = "no"
      BY <1>3, <1>4, <1>6, <1>7, <2>3 DEF TextInv
    <3>2. Apart(kept_file.entries)'
      BY <1>2, <1>12, <3>1 DEF Apart, Disjoint
    <3>3. Apart(conversation)'
      <4>1. DOMAIN w = 1..Len(w) /\ DOMAIN written = 1..Len(written) /\ Len(written) \in Nat
        BY <1>10
      <4>2. ASSUME NEW i \in DOMAIN w PROVE i + s - 1 \in DOMAIN written /\ w[i] = written[i + s - 1]
        <5>1. i \in 1..Len(w) /\ Len(w) = Len(written) - s + 1 /\ s \in 1..(Len(written) + 1)
          BY <1>8, <1>10, <4>1
        <5>2. i + s - 1 \in 1..Len(written)
          BY <4>1, <5>1
        <5>3. QED
          BY <1>10, <4>1, <5>1, <5>2
      <4>3. ASSUME NEW i \in DOMAIN w, NEW j \in DOMAIN w, i # j PROVE w[i].of \cap w[j].of = {}
        <5>1. i + s - 1 # j + s - 1
          BY <4>1, <4>3
        <5>2. QED
          BY <3>1, <4>2, <5>1 DEF Apart, Disjoint
      <4>4. ASSUME NEW i \in DOMAIN w, NEW f \in w[i].of
            PROVE  f[1] \in H!Messages /\ turn'[f[1]].at # "none"
        BY <1>12, <3>1, <4>2, <4>4 DEF Apart, Disjoint
      <4>5. QED
        BY <1>2, <1>11, <4>3, <4>4 DEF Apart, Disjoint
    <3>4. Covers(H!resumed(kept_file.entries))' = Covers(conversation)'
      <4>1. H!resumed(kept_file.entries)' = conversation'
        BY <1>1 DEF H!resumed
      <4>2. QED
        BY <4>1 DEF Covers
    <3>5. QED
      BY <3>1, <3>2, <3>3, <3>4
  <2>4. QED
    BY <1>1, <2>1, <2>2, <2>3 DEF TextInv
<1>18. QED
  BY <1>13, <1>14, <1>15, <1>16, <1>17 DEF ChatInv

\* A dialogue that is summed up, or not.
LEMMA Summed ==
    ASSUME NEW d \in Seq(Entry), NEW w \in H!compacted(d)
    PROVE  w \in Seq(Entry) /\ Covers(w) = Covers(d) /\ (Disjoint(d) => Disjoint(w))
<1>1. w = d \/ w = H!compact_if_needed(d)
  BY DEF H!compacted
<1>2. PICK split : split = Len(d) - KEEP_RECENT_ENTRIES
  OBVIOUS
<1>3. H!compact_if_needed(d) =
        IF Len(d) <= KEEP_RECENT_ENTRIES \/ H!size_of(d) <= Trigger THEN d
        ELSE <<H!Summary(SubSeq(d, 1, split))>> \o SubSeq(d, split + 1, Len(d))
  BY <1>2 DEF H!compact_if_needed
<1>4. CASE w = d
  BY <1>4
<1>5. CASE w # d
  <2>1. /\ ~(Len(d) <= KEEP_RECENT_ENTRIES)
        /\ w = <<H!Summary(SubSeq(d, 1, split))>> \o SubSeq(d, split + 1, Len(d))
    BY <1>1, <1>3, <1>5
  <2>2. KEEP_RECENT_ENTRIES \in Nat /\ Len(d) \in Nat
    BY FrontAssumption DEF H!ChatAssumption
  <2>3. split \in 1..Len(d)
    BY <1>2, <2>1, <2>2
  <2>4. PICK v : v = <<H!Summary(SubSeq(d, 1, split))>> \o SubSeq(d, split + 1, Len(d))
    OBVIOUS
  <2>5. v \in Seq(Entry) /\ Covers(v) = Covers(d) /\ (Disjoint(d) => Disjoint(v))
    BY <2>3, <2>4, Compacts, ZenonT(60)
  <2>6. v = w
    BY <2>1, <2>4
  <2>7. QED
    BY <2>5, <2>6
<1>6. QED
  BY <1>4, <1>5

\* A dialogue and the pair of a message that had no turn yet.
LEMMA Joined ==
    ASSUME NEW d \in Seq(Entry), NEW n \in H!Messages, NEW w,
           w = d \o <<H!User(n), H!Reply(n)>>, Apart(d), turn[n].at = "none",
           H!Messages' = H!Messages,
           turn'[n].at # "none", \A m \in H!Messages : m # n => turn'[m] = turn[m]
    PROVE  Apart(w)' /\ Covers(w) = Covers(d) \cup {<<n, "asked">>, <<n, "answered">>}
<1>1. /\ w \in Seq(Entry) /\ Len(w) = Len(d) + 2
      /\ \A i \in 1..Len(d) : w[i] = d[i]
      /\ w[Len(d) + 1] = H!User(n) /\ w[Len(d) + 2] = H!Reply(n)
  BY Pair
<1>2. Len(d) \in Nat /\ DOMAIN d = 1..Len(d) /\ DOMAIN w = 1..(Len(d) + 2)
  BY <1>1
<1>3. /\ w[Len(d) + 1].of = {<<n, "asked">>}
      /\ w[Len(d) + 2].of = {<<n, "answered">>}
  BY <1>1, MessagesAre
<1>4. ASSUME NEW i \in DOMAIN d, NEW f \in d[i].of PROVE f[1] \in H!Messages /\ f[1] # n
  BY <1>4 DEF Apart, Disjoint
<1>5. \A i \in DOMAIN w : i \in DOMAIN d \/ i = Len(d) + 1 \/ i = Len(d) + 2
  BY <1>2
<1>6. <<n, "asked">> # <<n, "answered">> /\ <<n, "asked">>[1] = n /\ <<n, "answered">>[1] = n
  OBVIOUS
<1>7. ASSUME NEW i \in DOMAIN w, NEW j \in DOMAIN w, i # j PROVE w[i].of \cap w[j].of = {}
  <2>1. CASE i \in DOMAIN d /\ j \in DOMAIN d
    <3>1. w[i] = d[i] /\ w[j] = d[j]
      BY <1>1, <1>2, <2>1
    <3>2. QED
      BY <1>7, <2>1, <3>1 DEF Apart, Disjoint
  <2>2. CASE i \in DOMAIN d /\ j \notin DOMAIN d
    <3>1. w[i] = d[i]
      BY <1>1, <1>2, <2>2
    <3>2. w[j].of = {<<n, "asked">>} \/ w[j].of = {<<n, "answered">>}
      BY <1>3, <1>5, <2>2
    <3>3. QED
      BY <1>4, <1>6, <2>2, <3>1, <3>2
  <2>3. CASE i \notin DOMAIN d /\ j \in DOMAIN d
    <3>1. w[j] = d[j]
      BY <1>1, <1>2, <2>3
    <3>2. w[i].of = {<<n, "asked">>} \/ w[i].of = {<<n, "answered">>}
      BY <1>3, <1>5, <2>3
    <3>3. QED
      BY <1>4, <1>6, <2>3, <3>1, <3>2
  <2>4. CASE i \notin DOMAIN d /\ j \notin DOMAIN d
    <3>1. \/ w[i].of = {<<n, "asked">>} /\ w[j].of = {<<n, "answered">>}
          \/ w[i].of = {<<n, "answered">>} /\ w[j].of = {<<n, "asked">>}
      BY <1>3, <1>5, <1>7, <2>4
    <3>2. QED
      BY <1>6, <3>1
  <2>5. QED
    BY <2>1, <2>2, <2>3, <2>4
<1>8. ASSUME NEW i \in DOMAIN w, NEW f \in w[i].of
      PROVE  f[1] \in H!Messages /\ turn'[f[1]].at # "none"
  <2>1. CASE i \in DOMAIN d
    <3>1. f \in d[i].of
      BY <1>1, <1>2, <1>8, <2>1
    <3>2. QED
      BY <1>4, <2>1, <3>1 DEF Apart, Disjoint
  <2>2. CASE i \notin DOMAIN d
    <3>1. f = <<n, "asked">> \/ f = <<n, "answered">>
      BY <1>3, <1>5, <1>8, <2>2
    <3>2. QED
      BY <1>6, <3>1
  <2>3. QED
    BY <2>1, <2>2
<1>9. Apart(w)'
  BY <1>7, <1>8 DEF Apart, Disjoint
<1>10. ASSUME NEW f \in Covers(w)
       PROVE  f \in Covers(d) \cup {<<n, "asked">>, <<n, "answered">>}
  <2>1. PICK i \in DOMAIN w : f \in w[i].of
    BY <1>10 DEF Covers
  <2>2. CASE i \in DOMAIN d
    BY <1>1, <1>2, <2>1, <2>2 DEF Covers
  <2>3. CASE i \notin DOMAIN d
    BY <1>3, <1>5, <2>1, <2>3
  <2>4. QED
    BY <2>2, <2>3
<1>11. ASSUME NEW f \in Covers(d) PROVE f \in Covers(w)
  <2>1. PICK i \in DOMAIN d : f \in d[i].of
    BY <1>11 DEF Covers
  <2>2. i \in DOMAIN w /\ w[i] = d[i]
    BY <1>1, <1>2
  <2>3. QED
    BY <2>1, <2>2 DEF Covers
<1>12. {<<n, "asked">>, <<n, "answered">>} \subseteq Covers(w)
  <2>1. Len(d) + 1 \in DOMAIN w /\ Len(d) + 2 \in DOMAIN w
    BY <1>2
  <2>2. QED
    BY <1>3, <2>1 DEF Covers
<1>13. QED
  BY <1>9, <1>10, <1>11, <1>12

\* The end of a longer file is the end of the file and what was added.
LEMMA RereadOf ==
    ASSUME NEW d \in Seq(Entry), NEW n \in H!Messages, NEW w \in Seq(Entry), Len(w) = Len(d) + 2,
           \A i \in 1..Len(d) : w[i] = d[i],
           w[Len(d) + 1] = H!User(n), w[Len(d) + 2] = H!Reply(n)
    PROVE  Covers(H!resumed(w)) \subseteq Covers(H!resumed(d)) \cup {<<n, "asked">>, <<n, "answered">>}
<1>1. /\ w \in Seq(Entry) /\ Len(w) = Len(d) + 2
      /\ \A i \in 1..Len(d) : w[i] = d[i]
      /\ w[Len(d) + 1] = H!User(n) /\ w[Len(d) + 2] = H!Reply(n)
  OBVIOUS
<1>2. PICK s \in 1..(Len(w) + 1) :
        /\ H!resumed(w) = SubSeq(w, s, Len(w))
        /\ s = IF Len(w) > RESUME_DEPTH THEN Len(w) - RESUME_DEPTH + 1 ELSE 1
  BY <1>1, Resumed
<1>3. PICK t \in 1..(Len(d) + 1) :
        /\ H!resumed(d) = SubSeq(d, t, Len(d))
        /\ t = IF Len(d) > RESUME_DEPTH THEN Len(d) - RESUME_DEPTH + 1 ELSE 1
  BY Resumed
<1>4. Len(d) \in Nat /\ RESUME_DEPTH \in Nat /\ Len(w) \in Nat
  BY <1>1, FrontAssumption DEF H!ChatAssumption
<1>5. t <= s
  BY <1>1, <1>2, <1>3, <1>4
<1>6. PICK a, b : a = SubSeq(w, s, Len(w)) /\ b = SubSeq(d, t, Len(d))
  OBVIOUS
<1>7. /\ a \in Seq(Entry) /\ Len(a) = Len(w) - s + 1
      /\ \A i \in 1..Len(a) : a[i] = w[i + s - 1]
  <2>1. w \in Seq(Entry) /\ s \in 1..(Len(w) + 1) /\ a = SubSeq(w, s, Len(w))
    BY <1>1, <1>2, <1>6
  <2>2. QED
    BY <2>1, EndOf, SMTT(30)
<1>8. /\ b \in Seq(Entry) /\ Len(b) = Len(d) - t + 1
      /\ \A i \in 1..Len(b) : b[i] = d[i + t - 1]
  BY <1>6, EndOf
<1>9. DOMAIN a = 1..Len(a) /\ DOMAIN b = 1..Len(b)
  BY <1>7, <1>8
<1>10. ASSUME NEW i \in DOMAIN a, NEW f \in a[i].of
       PROVE  f \in Covers(b) \cup {<<n, "asked">>, <<n, "answered">>}
  <2>1. PICK k : k = i + s - 1
    OBVIOUS
  <2>2. k \in s..(Len(d) + 2) /\ a[i] = w[k] /\ s \in Nat /\ t \in 1..(Len(d) + 1)
    <3>1. i \in 1..Len(a) /\ Len(a) = Len(w) - s + 1 /\ s \in 1..(Len(w) + 1) /\ t \in 1..(Len(d) + 1)
      BY <1>2, <1>3, <1>7, <1>9
    <3>2. a[i] = w[i + s - 1]
      BY <1>7, <3>1
    <3>3. QED
      BY <1>1, <1>4, <2>1, <3>1, <3>2
  <2>3. CASE k <= Len(d)
    <3>1. k \in 1..Len(d) /\ k - t + 1 \in 1..Len(b) /\ (k - t + 1) + t - 1 = k
      BY <1>4, <1>5, <1>8, <2>2, <2>3
    <3>2. b[k - t + 1] = d[k] /\ w[k] = d[k]
      BY <1>1, <1>8, <3>1
    <3>3. f \in b[k - t + 1].of
      BY <1>10, <2>2, <3>2
    <3>4. QED
      BY <1>9, <3>1, <3>3 DEF Covers
  <2>4. CASE ~(k <= Len(d))
    <3>1. k = Len(d) + 1 \/ k = Len(d) + 2
      BY <1>4, <2>2, <2>4
    <3>2. f \in w[k].of
      BY <1>10, <2>2
    <3>3. QED
      BY <1>1, <3>1, <3>2, MessagesAre
  <2>5. QED
    BY <2>3, <2>4
<1>11. ASSUME NEW f \in Covers(a) PROVE f \in Covers(b) \cup {<<n, "asked">>, <<n, "answered">>}
  <2>1. PICK i \in DOMAIN a : f \in a[i].of
    BY <1>11 DEF Covers
  <2>2. QED
    BY <1>10, <2>1
<1>12. QED
  BY <1>2, <1>3, <1>6, <1>11

LEMMA Reread ==
    ASSUME NEW d \in Seq(Entry), NEW n \in H!Messages, NEW w,
           w = d \o <<H!User(n), H!Reply(n)>>
    PROVE  Covers(H!resumed(w)) \subseteq Covers(H!resumed(d)) \cup {<<n, "asked">>, <<n, "answered">>}
<1>1. /\ w \in Seq(Entry) /\ Len(w) = Len(d) + 2
      /\ \A i \in 1..Len(d) : w[i] = d[i]
      /\ w[Len(d) + 1] = H!User(n) /\ w[Len(d) + 2] = H!Reply(n)
  BY Pair
<1>2. QED
  BY <1>1, RereadOf, ZenonT(40)

LEMMA StepRepl ==
    ASSUME ChatInv, H!repl_turn PROVE ChatInv'
<1>1. PICK n : n = H!Next1
  OBVIOUS
<1>2. n \in H!Messages /\ turn[n].at = "none" /\ front = "repl"
  BY <1>1, NextIs DEF H!repl_turn
<1>3. PICK pair : pair = <<H!User(n), H!Reply(n)>>
  OBVIOUS
<1>4. /\ turn' = [turn EXCEPT ![n].at = "done"]
      /\ \/ conversation' = conversation /\ kept_file' = kept_file
         \/ /\ kept_file' = H!append_pair(H!User(n), n)
            /\ conversation' \in H!compacted(conversation \o pair)
      /\ UNCHANGED <<front, busy, mail, answer_tx, confirm_prompt, grants, allow, said, runs>>
  BY <1>1, <1>3 DEF H!repl_turn
<1>5. H!Messages' = H!Messages
  BY <1>4 DEF H!Messages
<1>6. /\ ChatTypes /\ conversation \in Seq(Entry) /\ TextInv
      /\ Readable(kept_file) /\ kept_file.entries \in Seq(Entry)
  BY DEF ChatInv, ChatTypes, TextInv, Readable
<1>7. ~busy /\ \A m \in H!Messages : Rests(m)
  BY <1>2 DEF ChatInv, ControlInv
<1>8. /\ turn' \in [H!Messages -> Turn] /\ turn'[n].at = "done" /\ turn'[n].answer = turn[n].answer
      /\ \A m \in H!Messages : m # n => turn'[m] = turn[m]
  <2>1. turn \in [H!Messages -> Turn] /\ turn[n] \in Turn
    BY <1>2, <1>6 DEF ChatTypes
  <2>2. PICK t : t = [turn[n] EXCEPT !.at = "done"]
    OBVIOUS
  <2>3. t \in Turn /\ t.at = "done" /\ t.answer = turn[n].answer
    BY <2>1, <2>2 DEF Turn
  <2>4. turn' = [turn EXCEPT ![n] = t]
    BY <1>4, <2>2
  <2>5. QED
    BY <1>2, <2>1, <2>3, <2>4
<1>9. answer_tx = 0 \/ answer_tx \in H!Messages
  BY <1>6 DEF ChatTypes
<1>10. ControlInv'
  BY <1>2, <1>4, <1>5, <1>7, <1>8 DEF ChatInv, ControlInv, Rests
<1>11. ChannelInv'
  <2>1. ASSUME answer_tx # 0 PROVE Open(answer_tx)'
    <3>1. Open(answer_tx) /\ answer_tx \in H!Messages
      BY <1>9, <2>1 DEF ChatInv, ChannelInv
    <3>2. answer_tx # n /\ turn'[answer_tx] = turn[answer_tx]
      BY <1>2, <1>8, <3>1 DEF Open
    <3>3. QED
      BY <1>4, <3>1, <3>2 DEF Open, Asks
  <2>2. ASSUME NEW m \in H!Messages, turn'[m].answer # "none"
        PROVE  turn'[m].at = "confirming" /\ Answered(m)' \in said'
    <3>1. turn[m].answer # "none"
      BY <1>8, <2>2
    <3>2. turn[m].at = "confirming"
      BY <3>1 DEF ChatInv, ChannelInv
    <3>3. QED
      BY <1>7, <3>2 DEF Rests
  <2>3. QED
    BY <1>4, <1>5, <2>1, <2>2 DEF ChannelInv
<1>12. GrantInv' /\ H!RunsWereApproved'
  BY <1>4, SameGrants
<1>13. CASE conversation' = conversation /\ kept_file' = kept_file
  <2>1. ChatTypes'
    BY <1>4, <1>5, <1>6, <1>8, <1>13 DEF ChatTypes
  <2>2. TextInv'
    BY <1>4, <1>8, <1>13, SameText
  <2>3. QED
    BY <1>10, <1>11, <1>12, <2>1, <2>2 DEF ChatInv
<1>14. CASE kept_file' = H!append_pair(H!User(n), n) /\ conversation' \in H!compacted(conversation \o pair)
  <2>1. PICK written, longer : written = kept_file.entries \o pair /\ longer = conversation \o pair
    OBVIOUS
  <2>2. /\ Apart(conversation) /\ Apart(kept_file.entries) /\ kept_file.open = "no"
        /\ Covers(H!resumed(kept_file.entries)) \subseteq Covers(conversation)
    BY <1>2, <1>6 DEF TextInv
  <2>3. Readable(kept_file') /\ kept_file'.entries = written /\ kept_file'.open = "no"
    <3>1. PICK a, b : a = Append(kept_file.entries, H!User(n)) /\ b = Append(a, H!Reply(n))
      OBVIOUS
    <3>2. written = b
      BY <1>2, <1>3, <1>6, <2>1, <3>1, Pair
    <3>3. kept_file \in [entries : Seq(Entry), open : {"no", "torn", "whole"}, unread : SUBSET Facts]
      BY <1>6 DEF Readable
    <3>4. PICK f : f = [kept_file EXCEPT !.entries = a]
      OBVIOUS
    <3>5. f = H!line(kept_file, H!User(n)) /\ f.open = "no" /\ f.entries = a
      BY <2>2, <3>1, <3>3, <3>4 DEF H!line
    <3>6. H!append_pair(H!User(n), n) = [f EXCEPT !.entries = b]
      BY <3>1, <3>5 DEF H!line, H!append_pair
    <3>7. PICK g : g = H!append_pair(H!User(n), n)
      OBVIOUS
    <3>8. g.entries = b /\ g.open = "no"
      BY <3>3, <3>4, <3>6, <3>7, <2>2
    <3>9. Readable(g)
      BY <1>2, <1>6, <3>7, PairWritten
    <3>10. QED
      BY <1>14, <3>2, <3>7, <3>8, <3>9
  <2>4. longer \in Seq(Entry)
    BY <1>2, <1>3, <1>6, <2>1, Pair
  <2>5. PICK new \in H!compacted(longer) : new = conversation'
    BY <1>14, <2>1
  <2>6. new \in Seq(Entry) /\ Covers(new) = Covers(longer)
    BY <2>4, Summed
  <2>7. turn'[n].at # "none"
    BY <1>8
  <2>8. /\ Apart(longer)'
        /\ Covers(longer) = Covers(conversation) \cup {<<n, "asked">>, <<n, "answered">>}
    BY <1>2, <1>3, <1>5, <1>6, <1>8, <2>1, <2>2, <2>7, Joined
  <2>9. Apart(written)'
    BY <1>2, <1>3, <1>5, <1>6, <1>8, <2>1, <2>2, <2>7, Joined
  <2>10. Covers(H!resumed(written)) \subseteq Covers(H!resumed(kept_file.entries)) \cup {<<n, "asked">>, <<n, "answered">>}
    BY <1>2, <1>3, <1>6, <2>1, Reread
  <2>11. Covers(H!resumed(written)) \subseteq Covers(new)
    BY <2>2, <2>6, <2>8, <2>10
  <2>12. Apart(new)'
    <3>1. Disjoint(longer)
      BY <2>8 DEF Apart
    <3>2. Disjoint(new)
      BY <2>4, <3>1, Summed
    <3>3. ASSUME NEW i \in DOMAIN new, NEW f \in new[i].of
          PROVE  f[1] \in H!Messages /\ turn'[f[1]].at # "none"
      <4>1. f \in Covers(longer)
        BY <2>6, <3>3 DEF Covers
      <4>2. PICK j \in DOMAIN longer : f \in longer[j].of
        BY <4>1 DEF Covers
      <4>3. QED
        BY <1>5, <2>8, <4>2 DEF Apart
    <3>4. QED
      BY <1>5, <3>2, <3>3 DEF Apart, Disjoint
  <2>14. ChatTypes'
    BY <1>4, <1>5, <1>6, <1>8, <2>5, <2>6 DEF ChatTypes
  <2>15. TextInv'
    <3>1. kept_file'.entries = written /\ conversation' = new
      BY <2>3, <2>5
    <3>2. Readable(kept_file)'
      BY <1>5, <2>3 DEF Readable, H!Paired, Plain
    <3>3. Apart(kept_file.entries)' /\ Apart(conversation)'
      BY <2>9, <2>12, <3>1 DEF Apart, Disjoint
    <3>4. H!resumed(kept_file.entries)' = H!resumed(written)
      BY <3>1 DEF H!resumed
    <3>5. Covers(H!resumed(kept_file.entries))' = Covers(H!resumed(written)) /\ Covers(conversation)' = Covers(new)
      BY <3>1, <3>4 DEF Covers
    <3>6. front' # "tui"
      BY <1>2, <1>4
    <3>7. QED
      BY <2>3, <2>11, <3>2, <3>3, <3>5, <3>6 DEF TextInv
  <2>16. QED
    BY <1>10, <1>11, <1>12, <2>14, <2>15 DEF ChatInv
<1>15. QED
  BY <1>4, <1>13, <1>14

\* What the UI holds is not touched by a worker, and its turn stays with the front.
LEMMA StepAsks ==
    ASSUME ChatInv, NEW n \in H!Messages, NEW tool \in Tool, H!asks_gate(n, tool)
    PROVE  ChatInv'
<1>1. turn[n].at = "thinking" /\ ~Rests(n)
  BY DEF H!asks_gate, Rests
<1>2. busy /\ front = "tui" /\ Active(n)
  BY <1>1, Works
<1>3. PICK k : k = turn[n].asked + 1
  OBVIOUS
<1>4. PICK q : q = [kind |-> "confirm", n |-> n, k |-> k, tool |-> tool]
  OBVIOUS
<1>5. /\ \/ /\ H!granted(tool)
            /\ runs' = runs \cup {[req |-> <<n, 0>>, tool |-> tool]}
            /\ turn' = [turn EXCEPT ![n].asked = k] /\ mail' = mail
         \/ /\ ~H!granted(tool)
            /\ mail' = Append(mail, q)
            /\ turn' = [turn EXCEPT ![n].at = "confirming", ![n].tool = tool, ![n].asked = k]
            /\ runs' = runs
      /\ UNCHANGED <<conversation, kept_file, front, busy, answer_tx, confirm_prompt, grants, allow, said>>
  BY <1>3, <1>4 DEF H!asks_gate
<1>6. H!Messages' = H!Messages
  BY <1>5 DEF H!Messages
<1>7. /\ ChatTypes /\ turn \in [H!Messages -> Turn] /\ turn[n] \in Turn
      /\ mail \in Seq(Question \cup Ending) /\ k \in Nat /\ n \in Nat
  <2>1. ChatTypes
    BY DEF ChatInv
  <2>2. turn \in [H!Messages -> Turn] /\ mail \in Seq(Question \cup Ending)
    BY <2>1 DEF ChatTypes
  <2>3. turn[n] \in Turn
    BY <2>2
  <2>4. k \in Nat
    BY <1>3, <2>3 DEF Turn
  <2>5. QED
    BY <2>1, <2>2, <2>3, <2>4, MessagesAre
<1>8. turn[n].answer = "none"
  BY <1>1 DEF ChatInv, ChannelInv
<1>9. PICK t : t = turn'[n]
  OBVIOUS
<1>10. /\ t \in Turn /\ turn' \in [H!Messages -> Turn] /\ t.answer = "none"
       /\ \A m \in H!Messages : m # n => turn'[m] = turn[m]
       /\ \/ H!granted(tool) /\ t.at = "thinking"
          \/ ~H!granted(tool) /\ t.at = "confirming" /\ t.tool = tool /\ t.asked = k
  <2>1. CASE H!granted(tool)
    <3>1. PICK u : u = [turn[n] EXCEPT !.asked = k]
      OBVIOUS
    <3>2. u \in Turn /\ u.at = "thinking" /\ u.answer = "none"
      BY <1>1, <1>7, <1>8, <3>1 DEF Turn
    <3>3. turn' = [turn EXCEPT ![n] = u]
      BY <1>5, <2>1, <3>1
    <3>4. QED
      BY <1>7, <1>9, <2>1, <3>2, <3>3
  <2>2. CASE ~H!granted(tool)
    <3>1. PICK u : u = [turn[n] EXCEPT !.at = "confirming", !.tool = tool, !.asked = k]
      OBVIOUS
    <3>2. u \in Turn /\ u.at = "confirming" /\ u.answer = "none" /\ u.tool = tool /\ u.asked = k
      BY <1>7, <1>8, <3>1 DEF Turn
    <3>3. turn' = [turn EXCEPT ![n] = u]
      BY <1>5, <1>7, <2>2, <3>1
    <3>4. QED
      BY <1>7, <1>9, <2>2, <3>2, <3>3
  <2>3. QED
    BY <2>1, <2>2
<1>11. \A i \in DOMAIN mail : mail[i].kind = "confirm"
  BY <1>1, <1>2 DEF Active
<1>12. /\ mail' \in Seq(Question \cup Ending)
       /\ \A i \in DOMAIN mail' : mail'[i].kind = "confirm" /\ mail'[i].n = n
  <2>1. \A i \in DOMAIN mail : mail[i].n = n
    BY <1>2 DEF Active
  <2>2. CASE mail' = mail
    BY <1>7, <1>11, <2>1, <2>2
  <2>3. CASE mail' = Append(mail, q)
    <3>1. q \in Question \cup Ending /\ q.kind = "confirm" /\ q.n = n
      BY <1>4, <1>7 DEF Question
    <3>2. PICK w : w = Append(mail, q)
      OBVIOUS
    <3>3. /\ w \in Seq(Question \cup Ending) /\ Len(w) = Len(mail) + 1
          /\ \A i \in 1..Len(mail) : w[i] = mail[i]
          /\ w[Len(mail) + 1] = q
      BY <1>7, <3>1, <3>2, AppendProperties
    <3>4. /\ Len(mail) \in Nat /\ DOMAIN mail = 1..Len(mail)
          /\ \A i \in DOMAIN w : i \in 1..Len(mail) \/ i = Len(mail) + 1
      BY <1>7, <3>3
    <3>5. QED
      BY <1>11, <2>1, <2>3, <3>1, <3>2, <3>3, <3>4
  <2>4. QED
    BY <1>5, <2>2, <2>3
<1>13. ChatTypes'
  BY <1>5, <1>6, <1>7, <1>10, <1>12 DEF ChatTypes
<1>14. Active(n)'
  <2>1. \A m \in H!Messages : m # n => Rests(m)'
    BY <1>2, <1>10 DEF Active, Rests
  <2>2. t.at # "none"
    BY <1>10
  <2>3. QED
    BY <1>2, <1>5, <1>6, <1>9, <1>12, <2>1, <2>2 DEF Active, H!User
<1>15. ControlInv'
  BY <1>2, <1>5, <1>6, <1>14 DEF ControlInv
<1>16. ChannelInv'
  <2>1. ASSUME answer_tx # 0 PROVE Open(n)' /\ answer_tx = n
    <3>1. answer_tx = n /\ Open(n)
      BY <1>2, <2>1 DEF Active, ChatInv, ChannelInv
    <3>2. mail = <<>> /\ confirm_prompt = <<>>
      BY <1>1, <3>1 DEF Open
    <3>3. CASE H!granted(tool)
      <4>1. turn'[n].at = "thinking" /\ turn'[n].answer = "none" /\ mail' = <<>> /\ confirm_prompt' = <<>>
        BY <1>5, <1>9, <1>10, <3>2, <3>3
      <4>2. QED
        BY <3>1, <4>1 DEF Open
    <3>4. CASE ~H!granted(tool)
      <4>1. /\ turn'[n].at = "confirming" /\ turn'[n].answer = "none"
            /\ turn'[n].tool = tool /\ turn'[n].asked = k
        BY <1>9, <1>10, <3>4
      <4>2. mail' = <<q>> /\ confirm_prompt' = <<>>
        BY <1>5, <3>2, <3>4
      <4>3. Asks(n)' = q
        BY <1>4, <4>1 DEF Asks
      <4>4. QED
        BY <3>1, <4>1, <4>2, <4>3 DEF Open
    <3>5. QED
      BY <3>1, <3>3, <3>4
  <2>2. ASSUME NEW m \in H!Messages, turn'[m].answer # "none"
        PROVE  turn'[m].at = "confirming" /\ Answered(m)' \in said'
    <3>1. m # n
      BY <1>9, <1>10, <2>2
    <3>2. turn'[m] = turn[m]
      BY <1>10, <3>1
    <3>3. turn[m].at = "confirming" /\ Answered(m) \in said
      BY <2>2, <3>2 DEF ChatInv, ChannelInv
    <3>4. Answered(m)' = Answered(m)
      BY <3>2 DEF Answered
    <3>5. QED
      BY <1>5, <3>2, <3>3, <3>4
  <2>3. QED
    BY <1>5, <1>6, <2>1, <2>2 DEF ChannelInv
<1>17. GrantInv'
  BY <1>5 DEF ChatInv, GrantInv
<1>18. H!RunsWereApproved'
  <2>1. CASE runs' = runs
    BY <1>5, <2>1 DEF ChatInv, H!RunsWereApproved
  <2>2. CASE H!granted(tool) /\ runs' = runs \cup {[req |-> <<n, 0>>, tool |-> tool]}
    <3>1. \E s \in said : s.answer = "all" \/ (s.tool = tool /\ s.answer \in {"session", "project"})
      <4>1. "all" \notin Tool
        BY FrontAssumption DEF H!ChatAssumption
      <4>2. PICK g \in grants : g = tool \/ g = "all"
        BY <2>2 DEF H!granted
      <4>3. QED
        BY <4>1, <4>2 DEF ChatInv, GrantInv
    <3>2. ASSUME NEW r \in runs'
          PROVE  \E s \in said : \/ s.req = r.req /\ s.tool = r.tool /\ s.answer # "deny"
                                 \/ s.tool = r.tool /\ s.answer \in {"session", "project"}
                                 \/ s.answer = "all"
      <4>1. CASE r \in runs
        BY <4>1 DEF ChatInv, H!RunsWereApproved
      <4>2. CASE r = [req |-> <<n, 0>>, tool |-> tool]
        BY <3>1, <4>2
      <4>3. QED
        BY <2>2, <3>2, <4>1, <4>2
    <3>3. QED
      BY <1>5, <3>2 DEF H!RunsWereApproved
  <2>3. QED
    BY <1>5, <2>1, <2>2
<1>19. TextInv'
  <2>1. \A m \in H!Messages : turn[m].at # "none" => turn'[m].at # "none"
    BY <1>9, <1>10
  <2>2. QED
    BY <1>5, <2>1, SameText
<1>20. QED
  BY <1>13, <1>15, <1>16, <1>17, <1>18, <1>19 DEF ChatInv

LEMMA StepHears ==
    ASSUME ChatInv, NEW n \in H!Messages, H!hears(n) PROVE ChatInv'
<1>1. turn[n].at = "confirming" /\ ~Rests(n)
  BY DEF H!hears, Rests
<1>2. busy /\ front = "tui" /\ Active(n)
  BY <1>1, Works
<1>3. PICK a : a = IF turn[n].answer = "none" THEN "deny" ELSE turn[n].answer
  OBVIOUS
<1>4. PICK lasting : lasting = CASE a = "all" -> {"all"}
                                 [] a \in {"session", "project"} -> {turn[n].tool}
                                 [] OTHER -> {}
  OBVIOUS
<1>5. PICK r : r = [req |-> <<n, turn[n].asked>>, tool |-> turn[n].tool]
  OBVIOUS
<1>6. /\ turn[n].answer # "none" \/ answer_tx # n
      /\ runs' = (IF a = "deny" THEN runs ELSE runs \cup {r})
      /\ grants' = grants \cup lasting
      /\ allow' \in (IF a \in {"project", "all"} THEN {allow, allow \cup lasting} ELSE {allow})
      /\ turn' = [turn EXCEPT ![n].at = "thinking", ![n].answer = "none"]
      /\ UNCHANGED <<conversation, kept_file, front, busy, mail, answer_tx, confirm_prompt, said>>
  BY <1>3, <1>4, <1>5 DEF H!hears, H!append_project_allow
<1>7. H!Messages' = H!Messages
  BY <1>6 DEF H!Messages
<1>8. ChatTypes /\ turn \in [H!Messages -> Turn] /\ turn[n] \in Turn
  <2>1. ChatTypes
    BY DEF ChatInv
  <2>2. turn \in [H!Messages -> Turn]
    BY <2>1 DEF ChatTypes
  <2>3. QED
    BY <2>1, <2>2
<1>9. turn[n].tool \in Tool
  BY <1>1, <1>8 DEF Turn
<1>10. PICK t : t = [turn[n] EXCEPT !.at = "thinking", !.answer = "none"]
  OBVIOUS
<1>11. /\ t \in Turn /\ t.at = "thinking" /\ t.answer = "none"
       /\ turn' \in [H!Messages -> Turn] /\ turn'[n] = t
       /\ \A m \in H!Messages : m # n => turn'[m] = turn[m]
  <2>1. t \in Turn /\ t.at = "thinking" /\ t.answer = "none"
    BY <1>8, <1>10 DEF Turn
  <2>2. turn' = [turn EXCEPT ![n] = t]
    BY <1>6, <1>8, <1>10
  <2>3. QED
    BY <1>8, <2>1, <2>2
<1>12. /\ a = "all" => lasting = {"all"}
       /\ a \in {"session", "project"} => lasting = {turn[n].tool}
       /\ a \notin {"all", "session", "project"} => lasting = {}
  <2>1. CASE a = "all"
    BY <1>4, <2>1
  <2>2. CASE a \in {"session", "project"}
    BY <1>4, <2>2
  <2>3. CASE a \notin {"all", "session", "project"}
    BY <1>4, <2>3
  <2>4. QED
    BY <2>1, <2>2, <2>3
<1>13. a # "deny" => \E s \in said : s.req = r.req /\ s.tool = r.tool /\ s.answer = a
  <2>1. ASSUME a # "deny" PROVE turn[n].answer # "none" /\ turn[n].answer = a
    BY <1>3, <2>1
  <2>2. ASSUME a # "deny" PROVE Answered(n) \in said
    BY <2>1, <2>2 DEF ChatInv, ChannelInv
  <2>3. /\ Answered(n).req = <<n, turn[n].asked>> /\ Answered(n).tool = turn[n].tool
        /\ Answered(n).answer = turn[n].answer
    BY DEF Answered
  <2>4. r.req = <<n, turn[n].asked>> /\ r.tool = turn[n].tool
    BY <1>5
  <2>5. QED
    BY <2>1, <2>2, <2>3, <2>4
<1>14. r.tool = turn[n].tool
  BY <1>5
<1>15. ChatTypes'
  <2>1. lasting \in SUBSET (Tool \cup {"all"})
    BY <1>9, <1>12
  <2>2. grants \in SUBSET (Tool \cup {"all"}) /\ allow \in SUBSET (Tool \cup {"all"})
    BY <1>8 DEF ChatTypes
  <2>3. grants' \in SUBSET (Tool \cup {"all"}) /\ allow' \in SUBSET (Tool \cup {"all"})
    BY <1>6, <2>1, <2>2
  <2>4. QED
    BY <1>6, <1>7, <1>8, <1>11, <2>3 DEF ChatTypes
<1>16. mail = <<>> \/ \A i \in DOMAIN mail : mail[i].kind = "confirm"
  BY <1>1, <1>2 DEF Active
<1>17. Active(n)'
  <2>1. \A m \in H!Messages : m # n => Rests(m)'
    BY <1>2, <1>11 DEF Active, Rests
  <2>2. turn'[n].at # "none"
    BY <1>11
  <2>3. \A i \in DOMAIN mail : mail[i].kind = "confirm"
    BY <1>1, <1>2 DEF Active
  <2>4. QED
    BY <1>2, <1>6, <1>7, <2>1, <2>2, <2>3 DEF Active, H!User
<1>18. ControlInv'
  BY <1>2, <1>6, <1>7, <1>17 DEF ControlInv
<1>19. ChannelInv'
  <2>1. answer_tx = 0
    <3>1. answer_tx # 0 => answer_tx = n
      BY <1>2 DEF Active
    <3>2. answer_tx # 0 => turn[n].answer = "none"
      BY <3>1 DEF ChatInv, ChannelInv, Open
    <3>3. QED
      BY <1>6, <3>1, <3>2
  <2>2. ASSUME NEW m \in H!Messages, turn'[m].answer # "none"
        PROVE  turn'[m].at = "confirming" /\ Answered(m)' \in said'
    <3>1. turn'[m] = turn[m]
      BY <1>11, <2>2
    <3>2. turn[m].at = "confirming" /\ Answered(m) \in said
      BY <2>2, <3>1 DEF ChatInv, ChannelInv
    <3>3. Answered(m)' = Answered(m)
      BY <3>1 DEF Answered
    <3>4. QED
      BY <1>6, <3>1, <3>2, <3>3
  <2>3. QED
    BY <1>6, <1>7, <2>1, <2>2 DEF ChannelInv
<1>20. GrantInv'
  <2>1. ASSUME NEW g \in lasting
        PROVE  \E s \in said : \/ g = "all" /\ s.answer = "all"
                               \/ g \in Tool /\ s.tool = g /\ s.answer \in {"session", "project"}
    <3>1. a \in {"all", "session", "project"}
      BY <1>12, <2>1
    <3>2. PICK s \in said : s.tool = r.tool /\ s.answer = a
      BY <1>13, <3>1
    <3>3. CASE a = "all"
      BY <1>12, <2>1, <3>2, <3>3
    <3>4. CASE a \in {"session", "project"}
      BY <1>9, <1>12, <1>14, <2>1, <3>2, <3>4
    <3>5. QED
      BY <3>1, <3>3, <3>4
  <2>2. QED
    BY <1>6, <2>1 DEF ChatInv, GrantInv
<1>21. H!RunsWereApproved'
  <2>1. CASE a = "deny"
    BY <1>6, <2>1 DEF ChatInv, H!RunsWereApproved
  <2>2. CASE a # "deny"
    <3>1. PICK s \in said : s.req = r.req /\ s.tool = r.tool /\ s.answer = a
      BY <1>13, <2>2
    <3>2. ASSUME NEW x \in runs'
          PROVE  \E y \in said : \/ y.req = x.req /\ y.tool = x.tool /\ y.answer # "deny"
                                 \/ y.tool = x.tool /\ y.answer \in {"session", "project"}
                                 \/ y.answer = "all"
      <4>1. CASE x \in runs
        BY <4>1 DEF ChatInv, H!RunsWereApproved
      <4>2. CASE x = r
        BY <2>2, <3>1, <4>2
      <4>3. QED
        BY <1>6, <2>2, <3>2, <4>1, <4>2
    <3>3. QED
      BY <1>6, <3>2 DEF H!RunsWereApproved
  <2>3. QED
    BY <2>1, <2>2
<1>22. TextInv'
  <2>1. \A m \in H!Messages : turn[m].at # "none" => turn'[m].at # "none"
    BY <1>11
  <2>2. QED
    BY <1>6, <2>1, SameText
<1>23. QED
  BY <1>15, <1>18, <1>19, <1>20, <1>21, <1>22 DEF ChatInv

LEMMA StepEnds ==
    ASSUME ChatInv, NEW n \in H!Messages, H!ends(n) PROVE ChatInv'
<1>1. turn[n].at = "thinking" /\ ~Rests(n)
  BY DEF H!ends, Rests
<1>2. busy /\ front = "tui" /\ Active(n)
  BY <1>1, Works
<1>3. PICK outcome \in {"ok", "err"} : mail' = Append(mail, [kind |-> outcome, n |-> n])
  BY DEF H!ends
<1>4. PICK e : e = [kind |-> outcome, n |-> n]
  OBVIOUS
<1>5. /\ mail' = Append(mail, e)
      /\ turn' = [turn EXCEPT ![n].at = "done"]
      /\ UNCHANGED <<conversation, kept_file, front, busy, answer_tx, confirm_prompt, grants, allow, said, runs>>
  BY <1>3, <1>4 DEF H!ends
<1>6. H!Messages' = H!Messages
  BY <1>5 DEF H!Messages
<1>7. ChatTypes /\ turn \in [H!Messages -> Turn] /\ turn[n] \in Turn /\ mail \in Seq(Question \cup Ending)
  <2>1. ChatTypes
    BY DEF ChatInv
  <2>2. turn \in [H!Messages -> Turn] /\ mail \in Seq(Question \cup Ending)
    BY <2>1 DEF ChatTypes
  <2>3. QED
    BY <2>1, <2>2
<1>8. e \in Question \cup Ending /\ e.n = n /\ e.kind # "confirm"
  BY <1>4, MessagesAre DEF Ending
<1>9. turn[n].answer = "none"
  BY <1>1 DEF ChatInv, ChannelInv
<1>10. PICK t : t = [turn[n] EXCEPT !.at = "done"]
  OBVIOUS
<1>11. /\ t \in Turn /\ t.at = "done" /\ t.answer = "none"
       /\ turn' \in [H!Messages -> Turn] /\ turn'[n] = t
       /\ \A m \in H!Messages : m # n => turn'[m] = turn[m]
  <2>1. t \in Turn /\ t.at = "done" /\ t.answer = "none"
    BY <1>7, <1>9, <1>10 DEF Turn
  <2>2. turn' = [turn EXCEPT ![n] = t]
    BY <1>5, <1>10
  <2>3. QED
    BY <1>7, <2>1, <2>2
<1>12. PICK w : w = mail'
  OBVIOUS
<1>13. /\ w \in Seq(Question \cup Ending) /\ Len(w) = Len(mail) + 1
       /\ \A i \in 1..Len(mail) : w[i] = mail[i]
       /\ w[Len(mail) + 1] = e
  BY <1>5, <1>7, <1>8, <1>12, AppendProperties
<1>14. /\ Len(mail) \in Nat /\ DOMAIN mail = 1..Len(mail)
       /\ \A i \in DOMAIN w : i \in 1..Len(mail) \/ i = Len(mail) + 1
  BY <1>7, <1>13
<1>15. ChatTypes'
  BY <1>5, <1>6, <1>7, <1>11, <1>12, <1>13 DEF ChatTypes
<1>16. Active(n)'
  <2>1. \A m \in H!Messages : m # n => Rests(m)'
    BY <1>2, <1>11 DEF Active, Rests
  <2>2. turn'[n].at = "done"
    BY <1>11
  <2>3. /\ \A i \in DOMAIN w : w[i].n = n
        /\ \A i \in DOMAIN w : w[i].kind # "confirm" => i = Len(w)
    <3>1. /\ \A i \in DOMAIN mail : mail[i].n = n
          /\ \A i \in DOMAIN mail : mail[i].kind = "confirm"
      BY <1>1, <1>2 DEF Active
    <3>2. QED
      BY <1>8, <1>13, <1>14, <3>1
  <2>4. QED
    BY <1>2, <1>5, <1>6, <1>12, <2>1, <2>2, <2>3 DEF Active, H!User
<1>17. ControlInv'
  BY <1>2, <1>5, <1>6, <1>16 DEF ControlInv
<1>18. ChannelInv'
  <2>1. ASSUME answer_tx # 0 PROVE Open(n)' /\ answer_tx = n
    <3>1. answer_tx = n /\ Open(n)
      BY <1>2, <2>1 DEF Active, ChatInv, ChannelInv
    <3>2. mail = <<>> /\ confirm_prompt = <<>>
      BY <1>1, <3>1 DEF Open
    <3>3. \A i \in DOMAIN mail' : mail'[i].kind # "confirm"
      BY <1>8, <1>12, <1>13, <1>14, <3>2
    <3>4. turn'[n].at = "done" /\ turn'[n].answer = "none" /\ confirm_prompt' = <<>>
      BY <1>5, <1>11, <3>2
    <3>5. QED
      BY <3>1, <3>3, <3>4 DEF Open
  <2>2. ASSUME NEW m \in H!Messages, turn'[m].answer # "none"
        PROVE  turn'[m].at = "confirming" /\ Answered(m)' \in said'
    <3>1. turn'[m] = turn[m]
      BY <1>11, <2>2
    <3>2. turn[m].at = "confirming" /\ Answered(m) \in said
      BY <2>2, <3>1 DEF ChatInv, ChannelInv
    <3>3. Answered(m)' = Answered(m)
      BY <3>1 DEF Answered
    <3>4. QED
      BY <1>5, <3>1, <3>2, <3>3
  <2>3. QED
    BY <1>5, <1>6, <2>1, <2>2 DEF ChannelInv
<1>19. GrantInv' /\ H!RunsWereApproved'
  BY <1>5, SameGrants
<1>20. TextInv'
  <2>1. \A m \in H!Messages : turn[m].at # "none" => turn'[m].at # "none"
    BY <1>11
  <2>2. QED
    BY <1>5, <2>1, SameText
<1>21. QED
  BY <1>15, <1>17, <1>18, <1>19, <1>20 DEF ChatInv

LEMMA StepChat ==
    ASSUME ChatInv, H!ChatNext PROVE ChatInv'
BY StepSubmit, StepRequest, StepReply, StepQuit, StepRepl, StepAnswers, StepAsks, StepHears, StepEnds
   DEF H!ChatNext

-----------------------------------------------------------------------------
(* the parts together *)

ServedInv ==
    /\ part = "servers" => HttpInv
    /\ part = "editor" => EditorInv
    /\ part = "tools" => ToolInv

\* ServedIsTrue, whatever is asked, however many prompts and runs there are, and whatever
\* the plugins, stubs and servers offer.
THEOREM WhatIsServed == Spec => []ServedIsTrue
<1>1. Init => ServedInv
  BY InitHttp, InitEditor, InitTools DEF Init, ServedInv
<1>2. ServedInv /\ [Next]_vars => ServedInv'
  <2>1. ASSUME ServedInv, Next PROVE ServedInv'
    <3>1. part' = part
      BY <2>1 DEF Next
    <3>2. CASE part = "servers"
      BY <2>1, <3>1, <3>2, StepHttp DEF ServedInv, Next
    <3>3. CASE part = "editor"
      BY <2>1, <3>1, <3>3, StepEditor DEF ServedInv, Next
    <3>4. CASE part = "tools"
      <4>1. R!ToolNext /\ ToolInv
        BY <2>1, <3>4 DEF ServedInv, Next
      <4>2. ToolInv'
        BY <4>1, StepPolicy, StepRoute, StepCalls DEF ToolInv
      <4>3. QED
        BY <3>1, <3>4, <4>2 DEF ServedInv
    <3>5. CASE part \notin {"servers", "editor", "tools"}
      BY <3>1, <3>5 DEF ServedInv
    <3>6. QED
      BY <3>2, <3>3, <3>4, <3>5
  <2>2. CASE UNCHANGED vars
    BY <2>2 DEF vars, wire, editor, runtime, ServedInv, HttpInv, EditorInv,
        ToolInv, PolicyInv, RouteInv, Led, Names, CallInv, R!number
  <2>3. QED
    BY <2>1, <2>2
<1>3. ServedInv => ServedIsTrue
  BY HttpFromInv, StreamFromInv, ToolsFromInv DEF ServedInv, ServedIsTrue
<1>4. QED
  BY <1>1, <1>2, <1>3, PTL DEF Spec

\* DialogueIsKept, whatever is asked, answered and said, however long a dialogue gets, and
\* wherever it is summed up or its process ends.
THEOREM WhatIsSaid == Spec => []DialogueIsKept
<1>1. Init => (part = "chat" => ChatInv)
  BY InitChat DEF Init
<1>2. (part = "chat" => ChatInv) /\ [Next]_vars => (part = "chat" => ChatInv)'
  <2>1. ASSUME part = "chat", ChatInv, Next PROVE ChatInv'
    BY <2>1, StepChat DEF Next
  <2>2. ASSUME Next PROVE part' = part
    BY <2>2 DEF Next
  <2>3. ASSUME ChatInv, UNCHANGED vars PROVE ChatInv'
    <3>1. UNCHANGED dialogue
      BY <2>3 DEF vars
    <3>2. H!Messages' = H!Messages
      BY <3>1 DEF H!Messages, dialogue
    <3>3. TextInv'
      BY <2>3, <3>1, SameText DEF dialogue
    <3>4. GrantInv' /\ H!RunsWereApproved'
      BY <2>3, <3>1, SameGrants DEF dialogue
    <3>5. ChatTypes' /\ ControlInv' /\ ChannelInv'
      <4>1. ChatTypes'
        BY <2>3, <3>1, <3>2 DEF dialogue, ChatInv, ChatTypes
      <4>2. ASSUME NEW n \in H!Messages, Active(n) PROVE Active(n)'
        BY <3>1, <3>2, <4>2 DEF dialogue, Active, Rests, H!User
      <4>3. ControlInv'
        BY <2>3, <3>1, <3>2, <4>2 DEF dialogue, ChatInv, ControlInv, Rests
      <4>4. ASSUME answer_tx # 0 PROVE Open(answer_tx)'
        BY <2>3, <3>1, <4>4 DEF dialogue, ChatInv, ChannelInv, Open, Asks
      <4>5. ChannelInv'
        BY <2>3, <3>1, <3>2, <4>4 DEF dialogue, ChatInv, ChannelInv, Answered
      <4>6. QED
        BY <4>1, <4>3, <4>5
    <3>6. QED
      BY <3>3, <3>4, <3>5 DEF ChatInv
  <2>4. ASSUME UNCHANGED vars PROVE part' = part
    BY <2>4 DEF vars
  <2>5. QED
    BY <2>1, <2>2, <2>3, <2>4
<1>3. (part = "chat" => ChatInv) => DialogueIsKept
  BY ChatFromInv DEF DialogueIsKept
<1>4. QED
  BY <1>1, <1>2, <1>3, PTL DEF Spec

\* The files of settings, a directory and a file of secrets, whoever writes at the same time.
StoredInv ==
    /\ part = "settings" => SettingInv
    /\ part = "extensions" => ExtInv
    /\ part = "login" => LoginInv

\* SetIsKept: the model that was pinned is what the next start without --config loads, a name
\* stands once, a typed key of which no write failed is in the file when its add has ended and
\* stays; what stands in a directory has passed the lint and is whole, but for what a removal
\* has begun to take away, and is the project's where the project has one; and a login that is
\* stored can be refreshed, whatever presets and models there are and however many dialogues,
\* installers and processes, killed between any two writes.
THEOREM WhatIsStored == Spec => []SetIsKept
<1>1. Init => StoredInv
  BY InitSettings, InitExt, InitLogin DEF Init, StoredInv
<1>2. StoredInv /\ [Next]_vars => StoredInv'
  <2>1. ASSUME StoredInv, Next PROVE StoredInv'
    <3>1. part' = part
      BY <2>1 DEF Next
    <3>2. CASE part = "extensions"
      BY <2>1, <3>1, <3>2, StepExt DEF StoredInv, Next
    <3>3. CASE part = "login"
      BY <2>1, <3>1, <3>3, StepLogin DEF StoredInv, Next
    <3>4. CASE part = "settings"
      BY <2>1, <3>1, <3>4, StepSettings DEF StoredInv, Next
    <3>5. CASE part \notin {"settings", "extensions", "login"}
      BY <3>1, <3>5 DEF StoredInv
    <3>6. QED
      BY <3>2, <3>3, <3>4, <3>5
  <2>2. ASSUME StoredInv, UNCHANGED vars PROVE StoredInv'
    <3>1. part' = part /\ UNCHANGED tokens /\ UNCHANGED packages /\ UNCHANGED setup
      BY <2>2 DEF vars
    <3>2. ASSUME part = "login" PROVE LoginInv'
      <4>1. LoginInv /\ now \in Nat /\ UNCHANGED tokens
        BY <2>2, <3>1, <3>2 DEF StoredInv, LoginInv, LoginTypes
      <4>2. QED
        BY <4>1, NoCommandMoves DEF tokens
    <3>3. ASSUME part = "extensions" PROVE ExtInv'
      <4>1. ExtInv /\ UNCHANGED packages
        BY <2>2, <3>1, <3>3 DEF StoredInv
      <4>2. QED
        BY <4>1 DEF packages, ExtInv, ExtTypes, WholeInv, GateInv, X!ProjectIsStronger
    <3>4. ASSUME part = "settings" PROVE SettingInv'
      <4>1. SettingInv /\ UNCHANGED setup
        BY <2>2, <3>1, <3>4 DEF StoredInv
      <4>2. UNCHANGED <<global_file, local_file, secrets_env, explicit, pinned, added, config, flow,
                        staging_providers, pending_presets, staging_keys>>
        BY <4>1 DEF setup
      <4>3. FlowInv'
        BY <4>1, <4>2 DEF SettingInv, FlowInv, Appending
      <4>4. QED
        BY <4>1, <4>2, <4>3, SettingRests DEF SettingInv, SettingTypes
    <3>5. QED
      BY <3>1, <3>2, <3>3, <3>4 DEF StoredInv
  <2>3. QED
    BY <2>1, <2>2
<1>3. StoredInv => SetIsKept
  BY SettingsFromInv, ExtFromInv, LoginFromInv DEF StoredInv, SetIsKept
<1>4. QED
  BY <1>1, <1>2, <1>3, PTL DEF Spec
=============================================================================
