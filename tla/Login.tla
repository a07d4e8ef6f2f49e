-------------------------------- MODULE Login --------------------------------
(***************************************************************************)
(* Logins by subscription (oauth.rs): processes that log in, log out and take a  *)
(* token, over one file of secrets that they rewrite whole, and the providers'     *)
(* token endpoints.  A bundle of executors (run.rs) takes its token when built.     *)
(* A refresh token and an access token are the number of the issue they came with.   *)
(***************************************************************************)
EXTENDS Integers, FiniteSets

CONSTANTS Process, Provider, LIFETIME, SKEW, MaxTime, MaxIssues

LoginAssumption == LIFETIME \in Nat

VARIABLES file,      \* secrets.env: provider -> record, "keys" for the lines of others
          issued,    \* issues so far; the number of the last is the newest refresh token
          rotates,   \* a refresh makes the older refresh tokens invalid
          live,      \* provider -> the refresh tokens it accepts
          now,
          job,       \* process -> its command
          held,      \* process -> the token its bundle calls the model with
          logins,    \* the providers whose last ended command was a login
          disturbed  \* two writers have overlapped, one was stopped, or an answer lost

login_vars == <<file, issued, rotates, live, now, job, held, logins, disturbed>>

NoRecord == [access |-> 0, refresh |-> 0, expires |-> 0]
Idle == [op |-> "none", at |-> "rest", provider |-> "none", seen |-> NoRecord,
         record |-> NoRecord, records |-> [p \in Provider |-> NoRecord]]
Whole(records) == [records |-> records, keys |-> TRUE]

LoginInit ==
    /\ file = Whole([p \in Provider |-> NoRecord]) /\ issued = 0 /\ rotates \in BOOLEAN
    /\ live = [p \in Provider |-> {}] /\ now = 0 /\ job = [c \in Process |-> Idle]
    /\ held = [c \in Process |-> NoRecord] /\ logins = {} /\ disturbed = FALSE

Others(c) == \E d \in Process \ {c} : job[d].at \in {"asking", "read", "writing"}
Goes(c, j) == job' = [job EXCEPT ![c] = j]

-----------------------------------------------------------------------------
(* The file *)

\* Lines of others stay as they were read, the provider's own are replaced.
kept_lines(c, record) == [job[c].records EXCEPT ![job[c].provider] = record]

\* store_record and remove_record: the file is read ...
reads_file(c) ==
    /\ job[c].at = "has" /\ Goes(c, [job[c] EXCEPT !.at = "read", !.records = file.records])
    /\ disturbed' = (disturbed \/ Others(c))
    /\ UNCHANGED <<file, issued, rotates, live, now, held, logins>>

\* ... made anew, which leaves it empty ...
truncates(c) ==
    /\ job[c].at = "read"
    /\ file' = [records |-> [p \in Provider |-> NoRecord], keys |-> FALSE]
    /\ Goes(c, [job[c] EXCEPT !.at = "writing"])
    /\ UNCHANGED <<issued, rotates, live, now, held, logins, disturbed>>

\* ... and written.
writes_file(c) ==
    /\ job[c].at = "writing" /\ file' = Whole(kept_lines(c, job[c].record))
    /\ Goes(c, Idle)
    /\ held' = IF job[c].op = "access" THEN [held EXCEPT ![c] = job[c].record] ELSE held
    /\ logins' = IF job[c].op = "logout" THEN logins \ {job[c].provider}
                 ELSE logins \cup {job[c].provider}
    /\ UNCHANGED <<issued, rotates, live, now, disturbed>>

-----------------------------------------------------------------------------
(* The token endpoint *)

\* A new access token, with the refresh tokens that the provider takes from now on.
issues(p, takes) ==
    /\ issued < MaxIssues /\ issued' = issued + 1 /\ live' = [live EXCEPT ![p] = takes]

\* An answer lasts from when it came.
parse_token_response(access, refresh) ==
    [access |-> access, refresh |-> refresh, expires |-> now + LIFETIME]

\* Bug: the refresh token of the record stays, whatever the answer brings.
keeps_the_old(c, refresh) == job[c].seen.refresh

refresh_of(c, refresh) == IF refresh = 0 THEN job[c].seen.refresh ELSE refresh

\* What comes back to a login: a code and a state, of this attempt, of another, or none.
Answer == [code : {"own", "other", "none"}, state : {"own", "other", "none"}]
validate_state(answer) == answer.state = "own"

\* The listener takes one connection and wants both of it; what is pasted may be the bare
\* code, and a state beside it is compared.
wait_for_callback(answer) == answer.code # "none" /\ validate_state(answer)
parse_code_input(answer) ==
    answer.code # "none" /\ (answer.state # "none" => validate_state(answer))

\* The verifier goes with the code: the endpoint exchanges what its challenge was made for.
exchange_code(answer) == answer.code = "own"

\* login: the address is printed and the process waits, for minutes ...
login(c, p) ==
    /\ job[c].at = "rest"
    /\ Goes(c, [Idle EXCEPT !.op = "login", !.at = "browsing", !.provider = p])
    /\ UNCHANGED <<file, issued, rotates, live, now, held, logins, disturbed>>

\* ... until a code comes that is exchanged for both tokens ...
finish_login(c) ==
    LET p == job[c].provider
    IN  /\ job[c].at = "browsing" /\ issues(p, live[p] \cup {issued + 1})
        /\ \E answer \in Answer, manual \in BOOLEAN :
             /\ IF manual THEN parse_code_input(answer) ELSE wait_for_callback(answer)
             /\ exchange_code(answer)
        /\ Goes(c, [Idle EXCEPT !.op = "login", !.at = "has", !.provider = p,
                    !.record = parse_token_response(issued', issued')])
        /\ disturbed' = (disturbed \/ Others(c)) /\ UNCHANGED <<file, rotates, now, held, logins>>

\* ... or a wrong one, none in time, or a reply without a refresh token: nothing is written.
login_fails(c) ==
    /\ job[c].at = "browsing" /\ Goes(c, Idle)
    /\ UNCHANGED <<file, issued, rotates, live, now, held, logins, disturbed>>

logout(c, p) ==
    /\ job[c].at = "rest" /\ file.records[p] # NoRecord
    /\ Goes(c, [Idle EXCEPT !.op = "logout", !.at = "has", !.provider = p])
    /\ UNCHANGED <<file, issued, rotates, live, now, held, logins, disturbed>>

\* The record as the file has it; one that lacks a line is none.
load_record(p) == file.records[p]

still_good(record) == record.expires > now + SKEW

\* access_token: the record as it is, or a refresh with it.
access_token(c, p) ==
    /\ job[c].at = "rest" /\ load_record(p) # NoRecord
    /\ IF still_good(load_record(p))
         THEN held' = [held EXCEPT ![c] = load_record(p)] /\ UNCHANGED <<job, disturbed>>
         ELSE /\ Goes(c, [Idle EXCEPT !.op = "access", !.at = "asking", !.provider = p,
                          !.seen = load_record(p)])
              /\ disturbed' = (disturbed \/ Others(c)) /\ UNCHANGED held
    /\ UNCHANGED <<file, issued, rotates, live, now, logins>>

refreshed(c) ==
    LET p == job[c].provider
    IN  /\ job[c].at = "asking" /\ job[c].seen.refresh \in live[p]
        /\ issues(p, IF rotates THEN (live[p] \ {job[c].seen.refresh}) \cup {issued + 1} ELSE live[p])
        /\ Goes(c, [job[c] EXCEPT !.at = "has",
                    !.record = parse_token_response(issued',
                                   refresh_of(c, IF rotates THEN issued' ELSE 0))])
        /\ UNCHANGED <<file, rotates, now, held, logins, disturbed>>

\* The endpoint refuses, cannot be reached, or its answer is lost on the way: the whole
\* bundle is not built.
refresh_fails(c) ==
    LET p == job[c].provider
    IN  /\ job[c].at = "asking" /\ Goes(c, Idle)
        /\ \/ UNCHANGED <<live, disturbed>>
           \/ /\ rotates /\ job[c].seen.refresh \in live[p] /\ disturbed' = TRUE
              /\ live' = [live EXCEPT ![p] = @ \ {job[c].seen.refresh}]
        /\ UNCHANGED <<file, issued, rotates, now, held, logins>>

-----------------------------------------------------------------------------

killed(c) ==
    /\ job[c].at # "rest" /\ Goes(c, Idle) /\ held' = [held EXCEPT ![c] = NoRecord]
    /\ disturbed' = (disturbed \/ job[c].at \notin {"asking", "browsing"})
    /\ UNCHANGED <<file, issued, rotates, live, now, logins>>

tick ==
    /\ now < MaxTime /\ now' = now + 1
    /\ UNCHANGED <<file, issued, rotates, live, job, held, logins, disturbed>>

LoginNext ==
    \/ tick
    \/ \E c \in Process :
         \/ reads_file(c) \/ truncates(c) \/ writes_file(c) \/ refreshed(c)
         \/ refresh_fails(c) \/ finish_login(c) \/ login_fails(c) \/ killed(c)
         \/ \E p \in Provider : login(c, p) \/ logout(c, p) \/ access_token(c, p)

-----------------------------------------------------------------------------
(* Properties *)

AtRest == \A c \in Process : job[c].at \in {"rest", "asking", "browsing"}

\* Unless writers overlap or one is stopped, a stored login can always be refreshed.
StoredLoginIsLive ==
    (AtRest /\ ~disturbed) =>
        \A p \in Provider : file.records[p] # NoRecord => file.records[p].refresh \in live[p]

\* What the file holds is what was logged in: a write for one provider leaves the others
\* and the lines beside them.
LoginsStay ==
    (AtRest /\ ~disturbed) =>
        file.keys /\ {p \in Provider : file.records[p] # NoRecord} = logins
===============================================================================
