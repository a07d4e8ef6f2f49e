-------------------------------- MODULE Servers --------------------------------
(***************************************************************************)
(* The servers that run processes for others.  The HTTP service and its        *)
(* webhook, a thread a connection (serve.rs, ghapp_serve.rs); the MCP server,    *)
(* which answers its lines one by one (mcp_serve.rs); and the editor protocol     *)
(* (acp.rs), where a prompt runs a process in one thread and streams its events    *)
(* from another, which polls the journal and tells its instance by what was not     *)
(* there before.                                                                     *)
(***************************************************************************)
EXTENDS Naturals, Sequences

CONSTANTS Request, MaxLines,
          Prompt, MaxSessions, MaxEvents, MaxInstances

VARIABLES http,        \* a connection's thread, and the one a webhook leaves behind
          lines,       \* what the MCP client has sent and read
          sessions,    \* the counter of session/new
          cancelled,   \* the sessions an editor has cancelled
          journal,     \* instances in the order of their first events
          prompt       \* prompt -> its two threads

server_vars == <<http, lines>>

Closed == [at |-> "closed"]

ServerInit ==
    /\ http = Closed /\ lines = [sent |-> <<>>, answers |-> <<>>]

-----------------------------------------------------------------------------
(* serve.rs and ghapp_serve.rs *)

\* write_json knows five statuses; any other goes out as 500.
write_json(status) == IF status \in {200, 400, 401, 404} THEN status ELSE 500

\* handle_connection: the webhook is told apart before the bearer is looked at.
Hook(r) == r.method = "POST" /\ r.path = "/webhooks/github"
handle_run(r) == IF r.body = "malformed" \/ r.body = "no process" THEN 400 ELSE 0
handle_github_webhook(r) ==
    CASE ~r.app -> 404
      [] r.app /\ ~r.secret -> 500
      [] r.app /\ r.secret /\ ~r.signed -> 401
      [] OTHER -> 202
\* route_event: a created comment that holds the trigger.
route_event(r) == r.event = "issue_comment" /\ r.body = "trigger"
\* handle_sessions and handle_schedules open the storage, which may fail.
handle_connection(r, storage) ==
    CASE Hook(r) -> handle_github_webhook(r)
      [] ~Hook(r) /\ ~r.bearer -> 401
      [] ~Hook(r) /\ r.bearer /\ r.method = "GET"
           /\ r.path \in {"/sessions", "/schedules"} -> IF storage = "opens" THEN 200 ELSE 500
      [] ~Hook(r) /\ r.bearer /\ r.method = "POST" /\ r.path = "/run" -> handle_run(r)
      [] OTHER -> 404

\* A connection's request: answered at once, by a run, or with a run behind it.
request(r) == \E storage \in {"opens", "fails"} :
    LET status == handle_connection(r, storage)
        runs == status = 0 \/ (status = 202 /\ route_event(r))
    IN /\ http = Closed
       /\ http' = [at |-> IF runs THEN "running" ELSE "read", request |-> r, own |-> 0,
                   said |-> status, answer |-> IF status = 0 THEN 0 ELSE write_json(status),
                   outcome |-> "none", comment |-> "none"]
       /\ UNCHANGED lines

\* run_and_reply: the key, the app's token and the token of the installation come first.
gives_up ==
    /\ http.at = "running" /\ Hook(http.request) /\ http.own = 0
    /\ http' = [http EXCEPT !.at = "read"]
    /\ UNCHANGED lines

http_run_begins ==
    /\ http.at = "running" /\ http.own = 0
    /\ http' = [http EXCEPT !.own = 1]
    /\ UNCHANGED lines

Outcome == {"finished", "declined", "error"}
answer_of(outcome) == write_json(IF outcome = "error" THEN 500 ELSE 200)
http_run_ends ==
    /\ http.at = "running" /\ http.outcome = "none"
    /\ \E outcome \in IF http.own = 0 THEN {"error"} ELSE Outcome :
         http' = IF Hook(http.request)
                 THEN [http EXCEPT !.at = "commenting", !.outcome = outcome]
                 ELSE [http EXCEPT !.at = "read", !.outcome = outcome,
                                   !.answer = answer_of(outcome)]
    /\ UNCHANGED lines

\* post_comment: a refusal is only logged.
post_comment ==
    /\ http.at = "commenting"
    /\ \E posted \in BOOLEAN :
         http' = [http EXCEPT !.at = "read",
                              !.comment = IF posted THEN http.outcome ELSE "lost"]
    /\ UNCHANGED lines

closes ==
    /\ http.at = "read" /\ http' = Closed
    /\ UNCHANGED lines

-----------------------------------------------------------------------------
(* mcp_serve.rs *)

Line == [method : {"initialize", "notifications/x", "tools/list", "process.run",
                   "process.list", "trace.read", "unknown tool", "unknown", "not JSON"},
         path : {"inside", "outside", "absent"}]

call_tool(name, path) ==
    CASE name \in {"process.list", "trace.read"} -> "text"
      [] name = "process.run" /\ path = "inside" -> "text"
      [] OTHER -> "isError"

\* handle_message: a notification is not answered.
handle_message(line) ==
    CASE line.method = "notifications/x" -> <<>>
      [] line.method = "not JSON" -> <<"-32700">>
      [] line.method = "unknown" -> <<"-32601">>
      [] line.method \in {"initialize", "tools/list"} -> <<"result">>
      [] OTHER -> <<call_tool(line.method, line.path)>>

mcp_line ==
    /\ Len(lines.sent) < MaxLines
    /\ \E line \in Line :
         /\ line.path = "absent" \/ line.method = "process.run"
         /\ lines' = [sent |-> Append(lines.sent, line),
                      answers |-> lines.answers \o handle_message(line)]
    /\ UNCHANGED http

ServerNext ==
    \/ (\E r \in Request : request(r)) \/ gives_up \/ http_run_begins \/ http_run_ends
    \/ post_comment \/ closes \/ mcp_line

-----------------------------------------------------------------------------
(* acp.rs: what a prompt keeps *)

editor_vars == <<sessions, cancelled, journal, prompt>>

Quiet == [at |-> "none", session |-> 0, before |-> 0, run |-> "none", own |-> 0,
          instance_found |-> 0, emitted |-> 0, updates |-> <<>>, stop |-> "none",
          unread |-> FALSE]

EditorInit ==
    /\ sessions = 0 /\ cancelled = {} /\ journal = <<>>
    /\ prompt = [p \in Prompt |-> Quiet]

EventKind == {"turn", "other"}

-----------------------------------------------------------------------------
(* acp.rs: the loop of lines *)

session_new ==
    /\ sessions < MaxSessions /\ sessions' = sessions + 1
    /\ UNCHANGED <<cancelled, journal, prompt>>

session_cancel(s) ==
    /\ cancelled' = cancelled \cup {s}
    /\ UNCHANGED <<sessions, journal, prompt>>

session_prompt(p, s) ==
    /\ prompt[p].at = "none"
    /\ prompt' = [prompt EXCEPT ![p].at = "spawned", ![p].session = s]
    /\ UNCHANGED <<sessions, cancelled, journal>>

\* The instances that exist before the run's thread is started; a listing that fails is
\* taken for an empty journal (unwrap_or_default).
run_prompt(p) ==
    /\ prompt[p].at = "spawned"
    /\ \E before \in {0, Len(journal)} :
         prompt' = [prompt EXCEPT ![p].at = "polling", ![p].run = "starting",
                                  ![p].before = before]
    /\ UNCHANGED <<sessions, cancelled, journal>>

-----------------------------------------------------------------------------
(* The run of a prompt: run::run in a thread of its own *)

appended(i, kind) == [journal EXCEPT ![i] = Append(@, kind)]

\* The run makes an instance, or fails before its first event.
run_begins(p) ==
    /\ prompt[p].run = "starting"
    /\ \/ \E kind \in EventKind :
            /\ journal' = Append(journal, <<kind>>)
            /\ prompt' = [prompt EXCEPT ![p].run = "going", ![p].own = Len(journal) + 1]
       \/ /\ prompt' = [prompt EXCEPT ![p].run = "done"] /\ UNCHANGED journal
    /\ UNCHANGED <<sessions, cancelled>>

run_goes_on(p) ==
    /\ prompt[p].run = "going" /\ Len(journal[prompt[p].own]) < MaxEvents
    /\ \E kind \in EventKind : journal' = appended(prompt[p].own, kind)
    /\ UNCHANGED <<sessions, cancelled, prompt>>

run_ends(p) ==
    /\ prompt[p].run = "going" /\ prompt' = [prompt EXCEPT ![p].run = "done"]
    /\ UNCHANGED <<sessions, cancelled, journal>>

\* Any other command over the same storage, the HTTP service among them.
other_run ==
    /\ Len(journal) < MaxInstances /\ journal' = Append(journal, <<"turn">>)
    /\ UNCHANGED <<sessions, cancelled, prompt>>

-----------------------------------------------------------------------------
(* The emitter *)

\* emit_event: an editor is told of the turns, the gates and the rejections; of another
\* event nothing is sent.
shown(kind) == kind \in {"turn", "gate", "rejected"}
emit_event(i, k) == <<i, k, IF shown(journal[i][k]) THEN journal[i][k] ELSE "nothing">>
Updates(i, from) == [k \in 1..Len(journal[i]) - from |-> emit_event(i, from + k)]

\* Bug: what was sent is not counted.
counts_nothing(e, i) == [e EXCEPT !.instance_found = i, !.updates = @ \o Updates(i, e.emitted)]

sends(e, i) == [e EXCEPT !.instance_found = i, !.emitted = Len(journal[i]),
                         !.updates = @ \o Updates(i, e.emitted)]

\* A look at the journal.  The instance is one that was not there before: the list is
\* ordered by the least number of each, which is 1 for all.  A storage that does not open or
\* a listing that fails changes nothing.  A replay that fails is taken for an empty one, and
\* the count of what was sent goes back to nothing (followed once for a prompt).
news(e) == IF e.instance_found # 0 THEN {e.instance_found} ELSE e.before + 1..Len(journal)
forgotten(e, i) == [e EXCEPT !.instance_found = i, !.emitted = 0, !.unread = TRUE]
looks(e) ==
    {e} \cup {sends(e, i) : i \in news(e)}
        \cup IF e.unread THEN {} ELSE {forgotten(e, i) : i \in news(e)}

poll(p) ==
    LET e == prompt[p] IN
    /\ e.at = "polling"
    /\ IF e.session \in cancelled
         THEN prompt' = [prompt EXCEPT ![p].at = "answering", ![p].stop = "cancelled"]
         ELSE \E after \in looks(e) :
                prompt' = [prompt EXCEPT ![p] = [after EXCEPT !.at = "looking"]]
    /\ UNCHANGED <<sessions, cancelled, journal>>

\* run_done is read after the look.
checks_done(p) ==
    /\ prompt[p].at = "looking"
    /\ prompt' = [prompt EXCEPT ![p].at = IF prompt[p].run = "done" THEN "tail" ELSE "polling"]
    /\ UNCHANGED <<sessions, cancelled, journal>>

\* The tail is fetched for a known instance only, and lost when it cannot be read.
fetched(e) ==
    IF e.instance_found = 0 THEN {e}
    ELSE {sends(e, e.instance_found), [e EXCEPT !.unread = TRUE]}
tail(p) ==
    /\ prompt[p].at = "tail"
    /\ \E after \in fetched(prompt[p]) :
         prompt' = [prompt EXCEPT ![p] = [after EXCEPT !.at = "answering", !.stop = "end_turn"]]
    /\ UNCHANGED <<sessions, cancelled, journal>>

\* The response, and after it the session's cancel is forgotten.
answer(p) ==
    /\ prompt[p].at = "answering"
    /\ prompt' = [prompt EXCEPT ![p].at = "answered"]
    /\ UNCHANGED <<sessions, cancelled, journal>>

forgets(p) ==
    /\ prompt[p].at = "answered"
    /\ prompt' = [prompt EXCEPT ![p].at = "over"]
    /\ cancelled' = cancelled \ {prompt[p].session}
    /\ UNCHANGED <<sessions, journal>>

EditorNext ==
    \/ session_new \/ other_run
    \/ \E s \in 1..sessions : session_cancel(s) \/ (\E p \in Prompt : session_prompt(p, s))
    \/ \E p \in Prompt : run_prompt(p) \/ run_begins(p) \/ run_goes_on(p) \/ run_ends(p)
    \/ \E p \in Prompt : poll(p) \/ checks_done(p) \/ tail(p) \/ answer(p) \/ forgets(p)

-----------------------------------------------------------------------------
(* Properties *)

\* A process runs for nobody who has shown neither the bearer nor a signed body, and a
\* comment tells how the run it is about has ended (serve.rs, ghapp_serve.rs).
HttpRunsAreAllowed ==
    http # Closed =>
        /\ http.own # 0 => http.request.bearer \/ (Hook(http.request) /\ http.request.signed)
        /\ http.comment \in Outcome => http.comment = http.outcome

\* What an editor has been told when its turn ends is every event of the instance that
\* was found for it, each once and in order, if the journal could be read at every look
\* (the emitter, acp.rs).
StreamIsExact ==
    \A p \in Prompt :
        (prompt[p].stop = "end_turn" /\ prompt[p].instance_found = prompt[p].own
            /\ prompt[p].own # 0 /\ ~prompt[p].unread)
          => prompt[p].updates = Updates(prompt[p].own, 0)
=============================================================================
