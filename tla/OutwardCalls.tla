---------------------------- MODULE OutwardCalls ----------------------------
(***************************************************************************)
(* What the program asks of other hosts: decisions of the configured          *)
(* providers, completions of remote models behind the response cache, pages     *)
(* and search results, and the facts in a vector store.  The network gate         *)
(* (net_gate.rs) stands before the first three; a client follows no redirect.       *)
(* A provider, a site and the vector store are outside: they answer anything.         *)
(***************************************************************************)
EXTENDS Integers, Sequences, FiniteSets

CONSTANTS Host,          \* a host: the addresses its name resolves to
          DecisionList,  \* the lists of [[decision_providers]] there may be
          Question,      \* the calls of decision.ask
          Body,          \* name of a reply's JSON -> the answers in it
          Remote,        \* provider's name -> endpoint, opt-in, port, format
          ModelId, Completion, Wording, Worker,
          MaxCalls,      \* bound: completions asked for
          SEARCH_HOST,
          FactId, Size, Score, Matching, Page, HitLimit,  \* the facts, those a text matches, a page
          MaxWrites      \* bound: calls of the writers of the vector store

VARIABLES kind,          \* decisions, models, pages or vectors
          contact,       \* the last request to leave through the gate
          providers, request, left, skipped, heard, ruling,
          caching, model_of, worker, cache, produced, called,
          collection, points, saver, writes, scroll, stable, ever, found

decide_vars == <<providers, request, left, skipped, heard, ruling>>
model_vars  == <<caching, model_of, worker, cache, produced, called>>
vector_vars == <<collection, points, saver, writes, scroll, stable, ever, found>>
out_vars    == <<kind, contact, decide_vars, model_vars, vector_vars>>

None == "none"

-----------------------------------------------------------------------------
(* The network gate *)

UpTo(n) == {x \in Nat : x <= n}
V4 == [1..4 -> UpTo(255)]
V6 == [1..8 -> UpTo(65535)]

\* How an address is written: as IPv4, as IPv6, or the one inside the other.
Address ==
    {a \in [form : {"v4", "v6", "mapped", "compatible", "nat64", "6to4", "teredo"}, v4 : V4, v6 : {<<>>} \cup V6] :
        a.form = "v6" => a.v6 # <<>>}
Endpoint == {e \in Seq(SUBSET Address) : e # <<>>}

\* How the standards write an IPv4 address inside an IPv6 one.
segments(a) ==
    LET high == a.v4[1] * 256 + a.v4[2]
        low  == a.v4[3] * 256 + a.v4[4]
    IN  CASE a.form = "mapped"     -> <<0, 0, 0, 0, 0, 65535, high, low>>
          [] a.form = "compatible" -> <<0, 0, 0, 0, 0, 0, high, low>>
          [] a.form = "nat64"      -> <<100, 65435, 0, 0, 0, 0, high, low>>
          [] a.form = "6to4"       -> <<8194, high, low, 0, 0, 0, 0, 0>>
          [] a.form = "teredo"     -> <<8193, 0, 0, 0, 0, 0, 65535 - high, 65535 - low>>
          [] OTHER                 -> a.v6

is_private_v4(ip) ==
    \/ ip[1] \in {10, 127}
    \/ ip[1] = 172 /\ ip[2] \in 16..31
    \/ ip[1] = 192 /\ ip[2] = 168
    \/ ip[1] = 169 /\ ip[2] = 254
    \/ ip[1] = 100 /\ ip[2] \div 64 = 1
    \/ \A i \in 1..4 : ip[i] = 0

is_private_v6(s) ==
    \/ (\A i \in 1..7 : s[i] = 0) /\ s[8] \in {0, 1}
    \/ s[1] \div 512 = 126
    \/ s[1] \div 64 = 1018

v4_of(high, low) == <<high \div 256, high % 256, low \div 256, low % 256>>

\* 6to4, then teredo, then the three forms that end in the IPv4 address.
embedded(s) ==
    LET zero(from, to) == \A i \in from..to : s[i] = 0
    IN  CASE s[1] = 8194                  -> {v4_of(s[2], s[3])}
          [] s[1] = 8193 /\ s[2] = 0      -> {v4_of(65535 - s[7], 65535 - s[8])}
          [] \/ zero(1, 6)
             \/ zero(1, 5) /\ s[6] = 65535
             \/ s[1] = 100 /\ s[2] = 65435 /\ zero(3, 6) -> {v4_of(s[7], s[8])}
          [] OTHER                        -> {}

is_private(a) ==
    IF a.form = "v4" THEN is_private_v4(a.v4)
    ELSE LET s == segments(a)
         IN  is_private_v6(s) \/ \E v4 \in embedded(s) : is_private_v4(v4)

\* One private answer of the resolver is enough, and no answer proves nothing.
check_host(host) ==
    IF host = {} \/ \E a \in host : is_private(a) THEN "confirm" ELSE "allow"

\* The host of an authority is what follows its last @; a literal IPv6 host has a port.
check_endpoint(endpoint) == check_host(endpoint[Len(endpoint)])

passes_gate(endpoint, allow_private) == check_endpoint(endpoint) = "allow" \/ allow_private

\* The client connects to one of the host's addresses.
Contacted(endpoint, allow_private, hint) ==
    {{[address |-> a, allowed |-> allow_private, hint |-> hint]} : a \in endpoint[Len(endpoint)]}

NoHint == [response_format |-> None, format |-> None]

-----------------------------------------------------------------------------
(* decision.ask *)

REQUEST_ERROR_STATUSES == {400, 413, 422}
Absent == -1

\* A number is in tenths; Absent stands for a field that is missing or of another type.
fits_protocol(answer) ==
    /\ answer.number # Absent
    /\ \/ answer.type = "noul"
       \/ answer.type = "choice" /\ answer.choice # None
       \/ answer.type = "score" /\ answer.probabilities # <<>>

\* max_by keeps the last of equal levels.
top_level(levels) ==
    levels[CHOOSE i \in DOMAIN levels :
               \A j \in DOMAIN levels : levels[j].p <= levels[i].p /\ (j > i => levels[j].p < levels[i].p)].level

confidence(answer) ==
    IF answer.type = "noul" /\ answer.number < 5 THEN 10 - answer.number ELSE answer.number

label(answer) ==
    CASE answer.type = "noul"   -> IF answer.number >= 5 THEN "yes" ELSE "no"
      [] answer.type = "choice" -> answer.choice
      [] answer.type = "score"  -> LET level == top_level(answer.probabilities)
                                   IN  IF level \in DOMAIN answer.legend THEN answer.legend[level] ELSE level

\* No min_confidence is a minimum of 0.
route_answers(body, min_confidence) ==
    [id \in DOMAIN Body[body] |->
        IF confidence(Body[body][id]) < min_confidence THEN "uncertain" ELSE label(Body[body][id])]

\* The body is read to its cap before the status is looked at.
verdict(reply) ==
    CASE reply.body \in {"cut", "huge"} -> "next"
      [] reply.body \notin {"cut", "huge"} /\ ~(200 <= reply.status /\ reply.status < 300) ->
            IF reply.status \in REQUEST_ERROR_STATUSES THEN "rejected" ELSE "next"
      [] OTHER -> IF reply.body \in DOMAIN Body /\ \A id \in DOMAIN Body[reply.body] : fits_protocol(Body[reply.body][id])
                  THEN "answered" ELSE "next"

Reply == [status : {200, 302, 400, 503}, body : {"cut", "huge", "not json"} \cup DOMAIN Body]

Ended(how, by, routed) == [kind |-> how, by |-> by, routed |-> routed]
Pending == Ended(None, 0, <<>>)

unavailable(i) == providers[i].key = "unset"

\* An explicit provider is the only one; otherwise all of them in the configured order.
candidates(r) ==
    IF r.provider = None THEN [i \in DOMAIN providers |-> i]
    ELSE LET named == {i \in DOMAIN providers : providers[i].name = r.provider}
         IN  IF named = {} THEN <<>> ELSE <<CHOOSE i \in named : \A j \in named : i <= j>>

nobody_answered(r) ==
    CASE r.degrade                       -> Ended("degraded", 0, <<>>)
      [] ~r.degrade /\ providers = <<>> -> Ended("unconfigured", 0, <<>>)
      [] OTHER                           -> Ended("failed", 0, <<>>)

\* parse_args and the choice of the candidates, before anything is sent.
ask(r) ==
    /\ request.provider = "unasked" /\ request' = r
    /\ left' = IF r.valid THEN candidates(r) ELSE <<>>
    /\ ruling' = CASE ~r.valid -> Ended("bad arguments", 0, <<>>)
                    [] r.valid /\ r.provider # None /\ candidates(r) = <<>> -> Ended("unknown provider", 0, <<>>)
                    [] r.valid /\ r.provider = None /\ providers = <<>> -> nobody_answered(r)
                    [] OTHER -> Pending
    /\ UNCHANGED <<contact, providers, skipped, heard>>

skips(i) ==
    /\ skipped' = Append(skipped, i) /\ left' = Tail(left)
    /\ ruling' = IF Tail(left) = <<>> THEN nobody_answered(request) ELSE Pending

passed_over ==
    /\ left # <<>> /\ skips(Head(left))
    /\ unavailable(Head(left)) \/ ~passes_gate(providers[Head(left)].endpoint, providers[Head(left)].allow)
    /\ UNCHANGED <<contact, providers, request, heard>>

asked ==
    /\ left # <<>>
    /\ LET i == Head(left)
       IN  /\ ~unavailable(i) /\ passes_gate(providers[i].endpoint, providers[i].allow)
           /\ contact' \in Contacted(providers[i].endpoint, providers[i].allow, NoHint)
           /\ \/ skips(i) /\ UNCHANGED heard
              \/ \E reply \in Reply :
                   /\ heard' = Append(heard, [by |-> i, reply |-> reply])
                   /\ \/ verdict(reply) = "next" /\ skips(i)
                      \/ /\ verdict(reply) = "rejected" /\ left' = <<>>
                         /\ skipped' = Append(skipped, i) /\ ruling' = Ended("rejected", i, <<>>)
                      \/ /\ verdict(reply) = "answered" /\ left' = <<>> /\ UNCHANGED skipped
                         /\ ruling' = Ended("answered", i, route_answers(reply.body, request.min_confidence))
    /\ UNCHANGED <<providers, request>>

Unasked == [provider |-> "unasked", valid |-> FALSE, min_confidence |-> 0, degrade |-> FALSE]

DecideInit ==
    /\ kind = "decisions" /\ contact = {}
    /\ providers \in DecisionList /\ request = Unasked
    /\ left = <<>> /\ skipped = <<>> /\ heard = <<>> /\ ruling = Pending

No_decision == providers = <<>> /\ request = Unasked /\ left = <<>> /\ skipped = <<>> /\ heard = <<>> /\ ruling = Pending

DecideNext == (\E r \in Question : ask(r)) \/ passed_over \/ asked

-----------------------------------------------------------------------------
(* The completions of remote models, behind the response cache *)

MAX_SENDS == 4

detect(p) == IF p = "ollama" \/ Remote[p].port = 11434 THEN "ollama" ELSE "openai"

\* The two places of a hint: OpenAI's response_format, and Ollama's format.
hints(p, q) ==
    LET format == Remote[p].response_format
    IN  CASE ~q.structured \/ format = None -> NoHint
          [] q.structured /\ format # None /\ detect(p) = "openai" ->
                [NoHint EXCEPT !.response_format =
                    IF format # "json_object" /\ q.schema /\ q.contract THEN "json_schema" ELSE "json_object"]
          [] OTHER -> [NoHint EXCEPT !.format = IF format # "json_object" /\ q.schema THEN "schema" ELSE "json"]

Resting(answer) == [at |-> "rest", provider |-> None, request |-> None, sends |-> 0, answer |-> answer]
NoAnswer == [kind |-> None, text |-> None, model |-> None]
Failed   == [NoAnswer EXCEPT !.kind = "error"]
Said(text, model) == [kind |-> "text", text |-> text, model |-> model]

\* Bug: the key does not name the provider.
key_of_request(p, q) == <<None, q>>

cache_key(p, q) == <<p, q>>

get(p, q) == {row \in cache : row.key = cache_key(p, q)}

calls(w) ==
    /\ worker[w].at = "rest" /\ called < MaxCalls /\ called' = called + 1
    /\ \E p \in DOMAIN Remote, q \in Completion :
          \/ \E row \in get(p, q) : caching /\ worker' = [worker EXCEPT ![w] =
                [at |-> "rest", provider |-> p, request |-> q.id, sends |-> 0, answer |-> Said(row.text, row.model)]]
          \/ /\ ~caching \/ get(p, q) = {}
             /\ worker' = [worker EXCEPT ![w] =
                    IF passes_gate(Remote[p].endpoint, Remote[p].allow)
                    THEN [at |-> "sending", provider |-> p, request |-> q.id, sends |-> 0, answer |-> NoAnswer]
                    ELSE Resting(Failed)]
    /\ UNCHANGED <<contact, caching, model_of, cache, produced>>

Asked(w) == CHOOSE q \in Completion : q.id = worker[w].request

ends(w, answer) ==
    worker' = [worker EXCEPT ![w] = [@ EXCEPT !.at = "rest", !.answer = answer]]

\* A broken connection or body is tried again; a body past the cap, one that is
\* no JSON, any other status and a reply with no content are errors at once.
sends(w) ==
    /\ worker[w].at = "sending"
    /\ contact' \in Contacted(Remote[worker[w].provider].endpoint, Remote[worker[w].provider].allow,
                             hints(worker[w].provider, Asked(w)))
    /\ \/ /\ IF worker[w].sends + 1 < MAX_SENDS
              THEN worker' = [worker EXCEPT ![w].sends = @ + 1]
              ELSE ends(w, Failed)
          /\ UNCHANGED produced
       \/ ends(w, Failed) /\ UNCHANGED produced
       \/ \E text \in Wording :
            LET model == model_of[worker[w].provider]
            IN  /\ produced' = produced \cup {<<worker[w].provider, worker[w].request, text, model>>}
                /\ worker' = [worker EXCEPT ![w] = [@ EXCEPT !.at = IF caching THEN "storing" ELSE "rest",
                                                            !.answer = Said(text, model)]]
    /\ UNCHANGED <<caching, model_of, cache, called>>

\* INSERT OR REPLACE, or a failure that nobody is told of.
put(w) ==
    LET key == cache_key(worker[w].provider, Asked(w))
    IN  cache' = {row \in cache : row.key # key}
                    \cup {[key |-> key, text |-> worker[w].answer.text, model |-> worker[w].answer.model]}

stores(w) ==
    /\ worker[w].at = "storing" /\ ends(w, worker[w].answer)
    /\ put(w) \/ UNCHANGED cache
    /\ UNCHANGED <<contact, caching, model_of, produced, called>>

\* The next process reads the configuration anew; the file of the cache stays,
\* and one that does not open is done without.
restarted ==
    /\ \A w \in Worker : worker[w].at = "rest"
    /\ caching' \in BOOLEAN /\ model_of' \in [DOMAIN Remote -> ModelId]
    /\ worker' = [w \in Worker |-> Resting(NoAnswer)] /\ contact' = {}
    /\ UNCHANGED <<cache, produced, called>>

ModelInit ==
    /\ kind = "models" /\ contact = {} /\ caching \in BOOLEAN
    /\ model_of \in [DOMAIN Remote -> ModelId]
    /\ worker = [w \in Worker |-> Resting(NoAnswer)] /\ cache = {} /\ produced = {} /\ called = 0

No_model == caching = FALSE /\ model_of = 0 /\ worker = 0 /\ cache = {} /\ produced = {} /\ called = 0

ModelNext == (\E w \in Worker : calls(w) \/ sends(w) \/ stores(w)) \/ restarted

-----------------------------------------------------------------------------
(* http.fetch and web.search: no opt-in, and no redirect *)

fetch(host) ==
    check_host(host) = "allow" /\ contact' \in Contacted(<<host>>, FALSE, NoHint)

search == fetch(SEARCH_HOST)

PageInit == kind = "pages" /\ contact = {}
PageNext == (\E host \in Host : fetch(host)) \/ search

-----------------------------------------------------------------------------
(* The vector store: facts by id, a collection of one size of vectors *)

DEFAULT_SIZE  == 384
VECTOR_WEIGHT == 7
TEXT_WEIGHT   == 30
Missing       == -1

\* What is stored of a fact: the size of its vector, 0 for none.
present == {id \in FactId : points[id] # Missing}

Free == [at |-> "free", id |-> 0, size |-> 0]

\* The first fact makes the collection, with its own size; a fact with no
\* vector makes it with the default.
upsert_fact(w, id, size) ==
    /\ saver[w].at = "free" /\ writes < MaxWrites /\ writes' = writes + 1
    /\ \/ collection # 0 /\ saver' = [saver EXCEPT ![w] = [at |-> "putting", id |-> id, size |-> size]]
       \/ saver' = [saver EXCEPT ![w] = [at |-> "creating", id |-> id, size |-> size]]
    /\ UNCHANGED <<contact, collection, points, scroll, stable, ever, found>>

\* What exists already is refused; an answer may be lost on its way back.
ensure_collection(w) ==
    /\ saver[w].at = "creating"
    /\ \/ /\ collection = 0 /\ collection' = IF saver[w].size = 0 THEN DEFAULT_SIZE ELSE saver[w].size
          /\ saver' = [saver EXCEPT ![w].at = "putting"] \/ saver' = [saver EXCEPT ![w] = Free]
       \/ UNCHANGED collection /\ saver' = [saver EXCEPT ![w] = Free]
    /\ UNCHANGED <<contact, points, writes, scroll, stable, ever, found>>

put_point(w) ==
    /\ saver[w].at = "putting" /\ saver' = [saver EXCEPT ![w] = Free]
    /\ \/ /\ saver[w].size \in {0, collection}
          /\ points' = [points EXCEPT ![saver[w].id] = saver[w].size]
          /\ ever' = ever \cup {saver[w].id}
       \/ UNCHANGED <<points, ever>>
    /\ UNCHANGED <<contact, collection, writes, scroll, stable, found>>

delete_fact(id) ==
    /\ writes < MaxWrites /\ writes' = writes + 1 /\ collection # 0
    /\ points' = [points EXCEPT ![id] = Missing] /\ stable' = stable \ {id}
    /\ UNCHANGED <<contact, collection, saver, scroll, ever, found>>

\* The hits of a search: pairs of an id and a score, and whether the text matched.
Hit(id, score, text) == [id |-> id, score |-> score, text |-> text]
combined(h) == h.score * VECTOR_WEIGHT + IF h.text THEN TEXT_WEIGHT ELSE 0

NoScroll == [at |-> "rest", limit |-> 0, from |-> 0, hits |-> {}, got |-> <<>>]

hit_cap(limit) == IF limit * 5 > 10 THEN limit * 5 ELSE 10

\* The best of the vectors; no query vector and a failed call give none.
vector_hits(limit) ==
    LET vectored == {id \in present : points[id] # 0}
    IN  {best \in SUBSET vectored :
            /\ Cardinality(best) = IF Cardinality(vectored) < hit_cap(limit) THEN Cardinality(vectored) ELSE hit_cap(limit)
            /\ \A a \in best, b \in vectored \ best : Score[a] >= Score[b]}

hybrid_search(limit) ==
    /\ scroll.at = "rest"
    /\ \E ids \in vector_hits(limit) \cup {{}} :
          scroll' = [at |-> "paging", limit |-> limit, from |-> 0, hits |-> {Hit(id, Score[id], FALSE) : id \in ids}, got |-> <<>>]
    /\ stable' = present /\ ever' = present /\ found' = <<>>
    /\ UNCHANGED <<contact, collection, points, saver, writes>>

\* The hits by score, the best first, those of equal score in any order.
sorted(hits) ==
    {list \in [1..Cardinality(hits) -> hits] :
        /\ \A i, j \in DOMAIN list : i < j => list[i] # list[j] /\ combined(list[i]) >= combined(list[j])}

matched(got) == {got[i] : i \in DOMAIN got} \cap Matching

\* A fact that the vectors found already is marked; another has no vector part.
with_text(hits, got) ==
    {[h EXCEPT !.text = h.id \in matched(got)] : h \in hits}
        \cup {Hit(id, 0, TRUE) : id \in matched(got) \ {h.id : h \in hits}}

truncate(list, limit) == SubSeq(list, 1, IF Len(list) < limit THEN Len(list) ELSE limit)

\* One page of all_facts: the next points from the offset on, and the point after
\* them as the next offset.  A call that fails ends the search with an error.
rest_of(from) == {id \in present : id >= from}
page_of(from) == {id \in rest_of(from) : Cardinality({a \in rest_of(from) : a < id}) < Page}
in_order(ids) == CHOOSE list \in [1..Cardinality(ids) -> ids] : \A i, j \in DOMAIN list : i < j => list[i] < list[j]

all_facts ==
    /\ scroll.at = "paging"
    /\ LET ids   == page_of(scroll.from)
           after == {id \in rest_of(scroll.from) : \A a \in ids : a < id}
           got   == scroll.got \o in_order(ids)
       IN  \/ /\ after # {} /\ UNCHANGED found
              /\ scroll' = [scroll EXCEPT !.got = got, !.from = CHOOSE id \in after : \A b \in after : id <= b]
           \/ /\ after = {} /\ scroll' = [scroll EXCEPT !.at = "rest", !.got = got]
              /\ \E list \in sorted(with_text(scroll.hits, got)) : found' = truncate(list, scroll.limit)
           \/ scroll' = NoScroll /\ UNCHANGED found
    /\ UNCHANGED <<contact, collection, points, saver, writes, stable, ever>>

VectorInit ==
    /\ kind = "vectors" /\ contact = {} /\ collection = 0 /\ writes = 0 /\ scroll = NoScroll
    /\ points = [id \in FactId |-> Missing] /\ saver = [w \in Worker |-> Free]
    /\ stable = {} /\ ever = {} /\ found = <<>>

No_vectors == collection = 0 /\ points = 0 /\ saver = 0 /\ writes = 0 /\ scroll = NoScroll /\ stable = {} /\ ever = {} /\ found = <<>>

VectorNext ==
    \/ \E w \in Worker : (\E id \in FactId, size \in Size : upsert_fact(w, id, size))
                            \/ ensure_collection(w) \/ put_point(w)
    \/ \E id \in FactId : delete_fact(id)
    \/ (\E limit \in HitLimit : hybrid_search(limit)) \/ all_facts

-----------------------------------------------------------------------------
OutInit ==
    \/ DecideInit /\ No_model /\ No_vectors
    \/ ModelInit /\ No_decision /\ No_vectors
    \/ PageInit /\ No_decision /\ No_model /\ No_vectors
    \/ VectorInit /\ No_decision /\ No_model

No_outward == kind = None /\ contact = {} /\ No_decision /\ No_model /\ No_vectors

OutNext ==
    /\ UNCHANGED kind
    /\ \/ kind = "decisions" /\ DecideNext /\ UNCHANGED <<model_vars, vector_vars>>
       \/ kind = "models"    /\ ModelNext /\ UNCHANGED <<decide_vars, vector_vars>>
       \/ kind = "pages"     /\ PageNext /\ UNCHANGED <<decide_vars, model_vars, vector_vars>>
       \/ kind = "vectors"   /\ VectorNext /\ UNCHANGED <<decide_vars, model_vars>>

-----------------------------------------------------------------------------
\* Addresses are bytes and words; numbers are numbers; no question comes from the
\* provider that stands for none asked yet; a fact's id is a number, as its place is.
OutwardAssumption ==
    /\ \A host \in Host \cup {SEARCH_HOST} : host \in SUBSET Address
    /\ \A list \in DecisionList : list \in
          Seq([name : STRING, key : {"set", "unset", "none"}, endpoint : Endpoint, allow : BOOLEAN])
    /\ \A q \in Question : /\ q.provider # "unasked" /\ q.valid \in BOOLEAN /\ q.min_confidence \in Int
    /\ \A b \in DOMAIN Body : \A id \in DOMAIN Body[b] : Body[b][id].number \in Int
    /\ \A p \in DOMAIN Remote : Remote[p].endpoint \in Endpoint
    /\ IsFiniteSet(FactId) /\ \A id \in FactId : id \in Nat
    /\ \A size \in Size : size \in Nat
    /\ DOMAIN Score = FactId /\ \A id \in FactId : Score[id] \in Nat
    /\ \A limit \in HitLimit : limit \in Nat \ {0}
    /\ Page \in Nat \ {0} /\ MaxWrites \in Nat

-----------------------------------------------------------------------------
(* Properties *)

\* The reserved blocks by the two numbers of 16 bits an address is written with:
\* 10/8, 172.16/12, 192.168/16, 127/8, 169.254/16, 100.64/10 and 0.0.0.0.
Reserved(high, low) ==
    LET block(from, to) == from <= high /\ high <= to
    IN  \/ block(2560, 2815) \/ block(44048, 44063) \/ block(32512, 32767) \/ block(25664, 25727)
        \/ high = 49320 \/ high = 43518
        \/ high = 0 /\ low = 0

\* fc00::/7, fe80::/10, :: and ::1.
ReservedV6(s) ==
    \/ 64512 <= s[1] /\ s[1] <= 65023
    \/ 65152 <= s[1] /\ s[1] <= 65215
    \/ (\A i \in 1..7 : s[i] = 0) /\ s[8] \in {0, 1}

ReservedAddress(a) ==
    \/ a.form # "v6" /\ Reserved(a.v4[1] * 256 + a.v4[2], a.v4[3] * 256 + a.v4[4])
    \/ a.form # "v4" /\ ReservedV6(segments(a))

\* No request reaches a loopback, private or link-local address, in whatever form
\* a name or a literal hides it, unless the owner opted in for that provider.
PrivateNeedsOptIn == \A c \in contact : ReservedAddress(c.address) => c.allowed

\* decision.ask: the candidates are asked in their order, each once, and the answer
\* is that of the first whose reply stands; a reply that blames the request ends
\* the call with an error, never with a degraded answer or with another provider.
AnswerIsTheFirst ==
    LET all == candidates(request)
        answering == IF ruling.kind = "answered" THEN <<ruling.by>> ELSE <<>>
        good(i) == verdict(heard[i].reply) = "answered"
        blamed(i) == heard[i].reply.status \in {400, 413, 422} /\ heard[i].reply.body \notin {"cut", "huge"}
    IN  kind = "decisions" /\ request # Unasked /\ request.valid =>
          /\ IF ruling.kind \in {"answered", "rejected"}
             THEN skipped \o answering = SubSeq(all, 1, Len(skipped \o answering))
             ELSE skipped \o left = all
          /\ \A i \in DOMAIN heard : providers[heard[i].by].key # "unset"
          /\ \A i \in DOMAIN heard : blamed(i) => ruling.kind = "rejected" /\ i = Len(heard)
          /\ ruling.kind = "degraded" => request.degrade
          /\ ruling.kind = "answered" =>
                /\ good(Len(heard)) /\ \A i \in 1..Len(heard) - 1 : ~good(i)
                /\ \A id \in DOMAIN ruling.routed :
                      LET answer == Body[heard[Len(heard)].reply.body][id]
                      IN  ruling.routed[id] # "uncertain" => confidence(answer) >= request.min_confidence

\* Completions: an answer is a text that this provider gave to this very request,
\* under the name of the model that gave it, cached or not, whoever asked at once
\* and across a restart.
AnswersAreSomeones ==
    kind = "models" =>
        \A w \in Worker : worker[w].answer.kind = "text" =>
            <<worker[w].provider, worker[w].request, worker[w].answer.text, worker[w].answer.model>> \in produced

\* The vector store: a scroll by pages beside writers yields every fact that was
\* there throughout, none twice and none that never was; a list of hits that is
\* not full holds all of those that match.
ScrollIsWhole ==
    LET got == {scroll.got[i] : i \in DOMAIN scroll.got}
    IN  kind = "vectors" =>
          /\ \A i, j \in DOMAIN scroll.got : i # j => scroll.got[i] # scroll.got[j]
          /\ got \subseteq ever
          /\ scroll.at = "paging" => {id \in stable : id < scroll.from} \subseteq got
          /\ scroll.at = "rest" /\ scroll.limit # 0 =>
                /\ Len(found) < scroll.limit => stable \cap Matching \subseteq {found[i].id : i \in DOMAIN found}
                /\ \A i \in DOMAIN found, id \in (stable \cap Matching) \ {found[j].id : j \in DOMAIN found} :
                      combined(found[i]) >= TEXT_WEIGHT
                /\ \A i, j \in DOMAIN found : i # j => found[i].id # found[j].id

OutwardRight == PrivateNeedsOptIn /\ AnswerIsTheFirst /\ AnswersAreSomeones /\ ScrollIsWhole
=============================================================================
