----------------------------- MODULE Conversation -----------------------------
(***************************************************************************)
(* A chat: the full-screen front end (chat_tui.rs), whose loop shares a turn    *)
(* with a worker thread over channels, the line front end (chat.rs run_repl),     *)
(* the dialogue kept per workspace (chat_history.rs) and the two ways it is         *)
(* compacted.  A message is a number; an entry stands for a set of them.             *)
(***************************************************************************)
EXTENDS Integers, Sequences, FiniteSets, SequencesExt

CONSTANTS Tool, External, MaxSent, MaxAsks, MaxLines, Size,
          KEEP_RECENT_ENTRIES, Trigger, RESUME_DEPTH

\* "all" is an answer and the name of no tool; a message has a size.
ChatAssumption ==
    /\ "all" \notin Tool /\ {MaxSent, MaxLines, KEEP_RECENT_ENTRIES, RESUME_DEPTH} \subseteq Nat
    /\ \A n \in 1..MaxSent \cup 1..MaxLines : Size[n] \in Nat

VARIABLES conversation, \* App.conversation, or run_repl's history
          kept_file,    \* the dialogue file of the workspace: NoFile says its fields
          front,        \* "tui" or "repl"
          busy,         \* App.busy
          turn,         \* n -> the worker of message n
          mail,         \* worker -> UI
          answer_tx,    \* the turn whose answer channel the UI holds, 0 for none
          confirm_prompt,  \* the modal on the screen
          grants,       \* session_grants
          allow,        \* .berimor/allow
          said,         \* what the human has answered: request, tool, answer
          runs          \* the tools that ran after a question, with the request

chat_vars == <<conversation, kept_file, front, busy, turn, mail, answer_tx, confirm_prompt,
               grants, allow, said, runs>>

Answers == {"once", "session", "project", "all", "deny"}
User(n)  == [role |-> "user", of |-> {<<n, "asked">>}, size |-> Size[n]]
Reply(n) == [role |-> "assistant", of |-> {<<n, "answered">>}, size |-> 1]
Summary(old) == [role |-> "summary", of |-> UNION {old[i].of : i \in DOMAIN old}, size |-> 1]
size_of(dialogue) == FoldSeq(LAMBDA e, sum : e.size + sum, 0, dialogue)

\* The entries that load can read; whether the last line of the file lacks its end alone
\* ("whole") or a part of its text too ("torn"); and what was written behind such a line.
NoFile == [entries |-> <<>>, open |-> "no", unread |-> {}]

NoTurn == [at |-> "none", tool |-> "none", asked |-> 0, answer |-> "none", auto |-> {}]
Messages == 1..(IF front = "tui" THEN MaxSent ELSE MaxLines)
Unsent == {n \in Messages : turn[n].at = "none"}
Next1 == CHOOSE n \in Unsent : \A m \in Unsent : n <= m

ChatInit ==
    /\ conversation = <<>> /\ kept_file = NoFile /\ front \in {"tui", "repl"}
    /\ busy = FALSE /\ turn = [n \in Messages |-> NoTurn] /\ mail = <<>>
    /\ answer_tx = 0 /\ confirm_prompt = <<>> /\ grants = {} /\ allow = {}
    /\ said = {} /\ runs = {}

-----------------------------------------------------------------------------
(* Compaction *)

\* chat_compaction.rs: all but the last entries become one.
compact_if_needed(dialogue) ==
    LET split == Len(dialogue) - KEEP_RECENT_ENTRIES
    IN  IF Len(dialogue) <= KEEP_RECENT_ENTRIES \/ size_of(dialogue) <= Trigger THEN dialogue
        ELSE <<Summary(SubSeq(dialogue, 1, split))>> \o SubSeq(dialogue, split + 1, Len(dialogue))

\* chat.rs: the tail within a third of the threshold stays, from no entry on; two entries at
\* least are summed up.
compact_conversation(dialogue) ==
    LET tail(s) == SubSeq(dialogue, s + 1, Len(dialogue))
        fitting == {s \in 2..Len(dialogue) :
                        s = Len(dialogue) \/ size_of(tail(s)) <= Trigger \div 3}
        split   == CHOOSE s \in fitting : \A t \in fitting : s <= t
    IN  IF Len(dialogue) < 4 \/ size_of(dialogue) <= Trigger THEN dialogue
        ELSE <<Summary(SubSeq(dialogue, 1, split))>> \o tail(split)

\* The summing model may fail: the dialogue stays as it is.
compacted(dialogue) == {compact_if_needed(dialogue), dialogue}

-----------------------------------------------------------------------------
(* The UI thread *)

takes_input == ~busy /\ confirm_prompt = <<>>

\* What the file holds for load once more text follows: a line without its end makes one
\* with the next, and neither can be read.
behind(file) == IF file.open = "whole" THEN Front(file.entries) ELSE file.entries

\* writeln! of an entry, and what a kill in the middle of it leaves.
line(file, entry) ==
    IF file.open = "no" THEN [file EXCEPT !.entries = Append(@, entry)]
    ELSE [entries |-> behind(file), open |-> "no", unread |-> file.unread \cup entry.of]
broken_line(file, entry) ==
    {file, [file EXCEPT !.entries = behind(file), !.open = "torn"]}
    \cup IF file.open = "no" THEN {[file EXCEPT !.entries = Append(@, entry), !.open = "whole"]} ELSE {}

\* append: two lines, whole, or broken by a kill in the first or in the second.
append_pair(user, n) == line(line(kept_file, user), Reply(n))
broken_pair(user, n) == broken_line(kept_file, user) \cup broken_line(line(kept_file, user), Reply(n))

\* The last entry of the dialogue is taken for the question.
question == [Last(conversation) EXCEPT !.role = "user"]

\* submit and start_turn: the worker gets a copy of the dialogue, which it compacts, and a
\* channel of its own.
submit ==
    /\ front = "tui" /\ takes_input /\ Unsent # {} /\ busy' = TRUE
    /\ conversation' = Append(conversation, User(Next1)) /\ answer_tx' = Next1
    /\ turn' = [turn EXCEPT ![Next1] = [NoTurn EXCEPT !.at = "thinking", !.auto = allow]]
    /\ UNCHANGED <<kept_file, front, mail, confirm_prompt, grants, allow, said, runs>>

confirm_request ==
    /\ mail # <<>> /\ Head(mail).kind = "confirm" /\ mail' = Tail(mail)
    /\ confirm_prompt' = <<Head(mail)>>
    /\ UNCHANGED <<conversation, kept_file, front, busy, turn, answer_tx, grants, allow, said,
                   runs>>

reply_ok ==
    /\ mail # <<>> /\ Head(mail).kind = "ok" /\ mail' = Tail(mail) /\ busy' = FALSE
    /\ kept_file' = IF conversation = <<>> THEN kept_file ELSE append_pair(question, Head(mail).n)
    /\ conversation' = Append(conversation, Reply(Head(mail).n))
    /\ UNCHANGED <<front, turn, answer_tx, confirm_prompt, grants, allow, said, runs>>

\* The question stays in the dialogue without an answer.
reply_err ==
    /\ mail # <<>> /\ Head(mail).kind = "err" /\ mail' = Tail(mail) /\ busy' = FALSE
    /\ UNCHANGED <<conversation, kept_file, front, turn, answer_tx, confirm_prompt, grants,
                   allow, said, runs>>

\* The modal: the channel is taken for the first answer of a turn and not put back.
answers(a) ==
    /\ confirm_prompt # <<>> /\ mail = <<>>
    /\ LET asked == Head(confirm_prompt)
       IN  /\ said' = said \cup {[req |-> <<asked.n, asked.k>>, tool |-> asked.tool, answer |-> a]}
           /\ turn' = IF answer_tx = 0 THEN turn ELSE [turn EXCEPT ![answer_tx].answer = a]
    /\ answer_tx' = 0 /\ confirm_prompt' = <<>>
    /\ UNCHANGED <<conversation, kept_file, front, busy, mail, grants, allow, runs>>

\* The process ends, perhaps inside the pair it appends, and a new one resumes the file.
resumed(file) == SubSeq(file, IF Len(file) > RESUME_DEPTH THEN Len(file) - RESUME_DEPTH + 1 ELSE 1,
                        Len(file))

quit ==
    /\ kept_file' \in {kept_file} \cup
         IF mail # <<>> /\ Head(mail).kind = "ok" /\ conversation # <<>>
           THEN broken_pair(question, Head(mail).n) ELSE {}
    /\ conversation' = resumed(kept_file'.entries) /\ busy' = FALSE /\ mail' = <<>>
    /\ turn' = [n \in Messages |-> IF turn[n].at = "none" THEN NoTurn
                                     ELSE [NoTurn EXCEPT !.at = "done"]]
    /\ answer_tx' = 0 /\ confirm_prompt' = <<>> /\ grants' = {}
    /\ UNCHANGED <<front, allow, said, runs>>

-----------------------------------------------------------------------------
(* The worker of a turn *)

\* Bug: any permission of the session is taken for a permission of this tool.
any_grant(tool) == grants # {}

granted(tool) == tool \in grants \/ "all" \in grants

\* The gate asks about a tool no list permits, and about an external effect in any case.
asks_gate(n, tool) ==
    /\ turn[n].at = "thinking" /\ turn[n].asked < MaxAsks
    /\ tool \in External \/ {tool, "all"} \cap turn[n].auto = {}
    /\ LET k == turn[n].asked + 1
       IN  IF granted(tool)
             THEN /\ runs' = runs \cup {[req |-> <<n, 0>>, tool |-> tool]}
                  /\ turn' = [turn EXCEPT ![n].asked = k] /\ UNCHANGED mail
             ELSE /\ mail' = Append(mail, [kind |-> "confirm", n |-> n, k |-> k, tool |-> tool])
                  /\ turn' = [turn EXCEPT ![n].at = "confirming", ![n].tool = tool, ![n].asked = k]
                  /\ UNCHANGED runs
    /\ UNCHANGED <<conversation, kept_file, front, busy, answer_tx, confirm_prompt, grants,
                   allow, said>>

\* What the project allows is added to its file, if that can be written.
append_project_allow(names) == {allow, allow \cup names}

\* recv: the answer, or a channel whose sender is gone, which is a refusal.
hears(n) ==
    /\ turn[n].at = "confirming"
    /\ turn[n].answer # "none" \/ answer_tx # n
    /\ LET a == IF turn[n].answer = "none" THEN "deny" ELSE turn[n].answer
           lasting == CASE a = "all" -> {"all"} [] a \in {"session", "project"} -> {turn[n].tool}
                        [] OTHER -> {}
       IN  /\ runs' = IF a = "deny" THEN runs
                      ELSE runs \cup {[req |-> <<n, turn[n].asked>>, tool |-> turn[n].tool]}
           /\ grants' = grants \cup lasting
           /\ allow' \in IF a \in {"project", "all"} THEN append_project_allow(lasting) ELSE {allow}
    /\ turn' = [turn EXCEPT ![n].at = "thinking", ![n].answer = "none"]
    /\ UNCHANGED <<conversation, kept_file, front, busy, mail, answer_tx, confirm_prompt, said>>

ends(n) ==
    /\ turn[n].at = "thinking"
    /\ \E outcome \in {"ok", "err"} : mail' = Append(mail, [kind |-> outcome, n |-> n])
    /\ turn' = [turn EXCEPT ![n].at = "done"]
    /\ UNCHANGED <<conversation, kept_file, front, busy, answer_tx, confirm_prompt, grants,
                   allow, said, runs>>

-----------------------------------------------------------------------------
(* The line front end: one thread; a failed turn leaves no trace in the dialogue *)
repl_turn ==
    /\ front = "repl" /\ Unsent # {}
    /\ \E outcome \in {"ok", "err"} :
         /\ turn' = [turn EXCEPT ![Next1].at = "done"]
         /\ IF outcome = "err" THEN UNCHANGED <<conversation, kept_file>>
            ELSE /\ kept_file' = append_pair(User(Next1), Next1)
                 /\ conversation' \in compacted(conversation \o <<User(Next1), Reply(Next1)>>)
    /\ UNCHANGED <<front, busy, mail, answer_tx, confirm_prompt, grants, allow, said, runs>>

ChatNext ==
    \/ submit \/ confirm_request \/ reply_ok \/ reply_err \/ quit \/ repl_turn
    \/ \E a \in Answers : answers(a)
    \/ \E n \in Messages : \/ hears(n) \/ ends(n)
                             \/ \E tool \in Tool : asks_gate(n, tool)
-----------------------------------------------------------------------------
Paired(dialogue, first, unread) ==
    \A i \in first..Len(dialogue) : dialogue[i].role = "assistant" =>
        \E n \in Messages :
            /\ dialogue[i].of = {<<n, "answered">>}
            /\ \/ i > 1 /\ dialogue[i - 1].role = "user" /\ dialogue[i - 1].of = {<<n, "asked">>}
               \/ <<n, "asked">> \in unread

\* Every answer in the dialogue and in its file stands behind the question it answers, over
\* failed turns, restarts and a kill anywhere in a pair, unless the question was written behind
\* a line that a kill had left without its end (event_loop, chat_history).
AnswersFollowTheirQuestion ==
    /\ front = "tui" => Paired(conversation, 2, kept_file.unread)
    /\ Paired(kept_file.entries, 1, kept_file.unread)

\* No message of the dialogue disappears in a compaction: it is kept or summed up, once.
NothingIsForgotten ==
    LET told(dialogue) == UNION {dialogue[i].of : i \in DOMAIN dialogue}
    IN  /\ told(compact_conversation(conversation)) = told(conversation)
        /\ front = "repl" => told(resumed(kept_file.entries)) \subseteq told(conversation)
        /\ \A i, j \in DOMAIN conversation :
             conversation[i].role = "summary" /\ i # j =>
                 conversation[i].of \cap conversation[j].of = {}

\* A tool the gate asked about runs because this request was approved, or because an earlier
\* answer was a permission for this tool or for all of them (TuiConfirmer).
RunsWereApproved ==
    \A r \in runs : \E s \in said :
        \/ s.req = r.req /\ s.tool = r.tool /\ s.answer # "deny"
        \/ s.tool = r.tool /\ s.answer \in {"session", "project"}
        \/ s.answer = "all"
=============================================================================
