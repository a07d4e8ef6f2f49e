--------------------------- MODULE CapabilityRules ---------------------------
(***************************************************************************)
(* The fixed rules of the capability layer, and the box of a command.          *)
(* Deny statics (capability/src/deny.rs): what a proposed action names is      *)
(* read as a shell or execve would read it, and ten classes of operations are   *)
(* refused in every mode.  A text is a sequence of segments, a segment a        *)
(* sequence of tokens; a quoted token or a subshell has a text for its body,    *)
(* and ends its segment.                                                        *)
(* FsJail (jail.rs): a path, walked component by component to a physical place   *)
(* inside the workspace, or refused.  A place is the sequence of names from the   *)
(* root of the file system.                                                       *)
(* The sandbox (landlock.rs): the rules that terminal.exec puts on a shell, which  *)
(* everything the shell starts inherits, and the shell's life until its deadline.   *)
(***************************************************************************)
EXTENDS Naturals, FiniteSets, SequencesExt

CONSTANTS Command,   \* plain commands, each a sequence of words
          Wrapper,   \* name -> the words put before a command
          MaxMixed,  \* bound: layers of different wrappers
          MaxWrap,   \* bound: layers of one wrapper
          Root,      \* the workspace
          Dirs,      \* the directories there are
          LinkAt,    \* places that may hold a symlink
          Component, \* components a path is made of, ".." among them
          MaxPath,   \* bound: components of a path
          Setting,   \* the system, its kernel and the [sandbox] section
          Port,
          MaxForks   \* bound: processes of a command beside its shell

VARIABLES plain,     \* the command somebody would propose
          layers,    \* what it is wrapped in, innermost first
          line,      \* the text that is proposed
          links,     \* symlink -> the place it names
          path,      \* the components a tool was given
          absolute,  \* path starts at the root of the file system
          box        \* a command of terminal.exec and the rules it runs under

line_vars == <<plain, layers, line>>

None == "none"
Word(w) == [word |-> w, body |-> <<>>]
Quoted(kind, text) == [word |-> kind, body |-> text]
Words(s) == {s[i].word : i \in DOMAIN s}

Options == {"-c", "-r", "-n", "-k", "-u", "-a", "-i", "-C", "-f", "-t", "-delete", "-exec",
            "--create", "--adjustment", "--reuid", "--reference"}
Assignments == {"A=1"}
\* A word with a closing mark that is not its own; every such mark is alike.
torn(w) == w \o ")"
Marked(S) == S \cup {torn(w) : w \in S}

Outside == Marked({"/", "/outside", "$VAR", "/dev/sda", "/dev/null"}) \cup {"$()", "$("}
BlockDevices == Marked({"/dev/sda"})

\* path_within: a relative name, or a path that normalises into the workspace;
\* what has a $ or a ~ is not proved to be inside.
path_within(w) == w \notin Outside
is_block_device(w) == w \in BlockDevices
is_harmless_device(w) == w = "/dev/null"

-----------------------------------------------------------------------------
(* The rules of one program *)

classify_write_target(w) ==
    CASE is_block_device(w) -> "BlockDeviceWrite"
      [] ~is_block_device(w) /\ ~path_within(w) /\ ~is_harmless_device(w) -> "DeletionOutsideWorkspace"
      [] OTHER -> None

FirstOf(verdicts) == IF \E i \in DOMAIN verdicts : verdicts[i] # None
                     THEN verdicts[CHOOSE i \in DOMAIN verdicts :
                                   verdicts[i] # None /\ \A j \in 1 .. i - 1 : verdicts[j] = None]
                     ELSE None
Each(s, F(_)) == FirstOf([i \in DOMAIN s |-> F(s[i].word)])
Positional(args) == SelectSeq(args, LAMBDA a : a.word \notin Options)
After(args, options) == {args[i + 1].word : i \in {j \in 1 .. Len(args) - 1 : args[j].word \in options}}

detect_write_redirects(args) ==
    FirstOf([i \in DOMAIN args |-> IF i > 1 /\ args[i - 1].word = ">"
                                   THEN classify_write_target(args[i].word) ELSE None])

analyze_rm(targets) ==
    Each(targets, LAMBDA w : CASE w = "/" -> "FilesystemDestruction"
                               [] w # "/" /\ ~path_within(w) -> "DeletionOutsideWorkspace"
                               [] OTHER -> None)
outside(words) == IF \E w \in words : ~path_within(w) THEN "DeletionOutsideWorkspace" ELSE None

class_of(program, args) ==
    LET words == Words(args)  rest == Positional(args)
    IN CASE program = "fdisk" -> "FilesystemDestruction"
         [] program = "mkfs" /\ (\E w \in words : is_block_device(w)) -> "FilesystemDestruction"
         [] program = "dd" /\ words \cap Marked({"of=/dev/sda", "of=$VAR"}) # {} -> "BlockDeviceWrite"
         [] program = "rm" /\ "-r" \in words -> analyze_rm(rest)
         [] program = "find" /\ ("-delete" \in words \/ "rm" \in After(args, {"-exec"})) ->
               analyze_rm(SelectSeq(rest, LAMBDA a : a.word # "rm"))
         [] program = "sudo" -> "PrivilegeEscalation"
         [] program = "unshare" /\ words \cap {"-r", "--reuid"} # {} -> "PrivilegeEscalation"
         [] program = "chmod" /\ words \cap {"u+s", "--reference"} # {} -> "PrivilegeEscalation"
         [] program = "chown" /\ words \cap {"root", "--reference"} # {} -> "PrivilegeEscalation"
         [] program = "tee" -> Each(rest, classify_write_target)
         [] program = "cp" /\ "-t" \in words ->
               FirstOf([i \in DOMAIN args |-> IF i > 1 /\ args[i - 1].word = "-t"
                                              THEN classify_write_target(args[i].word) ELSE None])
         [] program = "cp" /\ "-t" \notin words /\ rest # <<>> -> classify_write_target(rest[Len(rest)].word)
         [] program = "rsync" -> outside(Words(rest))
         [] program = "sed" /\ "-i" \in words /\ rest # <<>> -> outside(Words(Tail(rest)))
         [] program = "tar" -> outside(After(args, {"-C"} \cup IF "--create" \in words THEN {"-f"} ELSE {}))
         [] OTHER -> None

rules(program, args) ==
    LET redirect == detect_write_redirects(args)
    IN IF redirect # None THEN redirect ELSE class_of(program, args)

-----------------------------------------------------------------------------
(* Wrappers *)

MAX_DEPTH == 8
Shells == {"bash"}
Valued == [env |-> {"-u"}, nice |-> {"-n", "--adjustment"}, timeout |-> {"-k"}, xargs |-> {"-a"},
           exec |-> {}, busybox |-> {}]
Transparent == DOMAIN Valued

\* Bug: an option's value is taken for the program.
RECURSIVE skip_flags_only(_, _)
skip_flags_only(tokens, valued) ==
    IF tokens # <<>> /\ tokens[1].word \in Options THEN skip_flags_only(Tail(tokens), valued) ELSE tokens

RECURSIVE skip_options(_, _)
skip_options(tokens, valued) ==
    IF tokens = <<>> \/ tokens[1].word \notin Options THEN tokens
    ELSE IF tokens[1].word \in valued /\ Len(tokens) > 1
         THEN skip_options(Tail(Tail(tokens)), valued) ELSE skip_options(Tail(tokens), valued)

RECURSIVE skip_assignments(_)
skip_assignments(tokens) ==
    IF tokens # <<>> /\ tokens[1].word \in Assignments THEN skip_assignments(Tail(tokens)) ELSE tokens

\* exec, command, builtin and busybox pass their arguments on as they are.
unwrapped(program, args) ==
    LET rest == IF program \in {"exec", "busybox"} THEN args ELSE skip_options(args, Valued[program])
    IN CASE program = "timeout" -> IF rest = <<>> THEN rest ELSE Tail(rest)
         [] program = "env" -> skip_options(skip_assignments(rest), Valued["env"])
         [] OTHER -> rest

-----------------------------------------------------------------------------
(* split_chain cuts the text at every separator, in quotes and subshells too *)

Opened(kind, first) ==
    IF kind = "$()" THEN <<Word("$(")>> \o first ELSE <<Quoted(kind, <<first>>)>>
Closing(kind) == Word(IF kind = "$()" THEN ")" ELSE "'")
ClosingMarks == {Closing("$()"), Closing("''")}

RECURSIVE pieces(_), tear(_)
\* What stands between the separators of a text.  Where the last token of a segment
\* holds separators, the first piece is what it opens with, and the last piece
\* keeps the mark that closes it.
pieces(text) ==
    LET of(segment) ==
            LET outer == Last(segment)  inner == pieces(outer.body)
            IN IF Len(inner) <= 1 THEN <<segment>>
               ELSE <<Front(segment) \o Opened(outer.word, Head(inner))>>
                        \o Front(Tail(inner)) \o <<Append(Last(inner), Closing(outer.word))>>
    IN FlattenSeq([i \in DOMAIN text |-> of(text[i])])

\* The marks become part of the last word, unless a complete subshell stands before
\* them.
tear(segment) ==
    LET last == Last(segment)
    IN Append(Front(segment), CASE last.body = <<>> -> Word(torn(last.word))
                                [] last.word = "$()" -> last
                                [] OTHER -> [last EXCEPT !.body = Append(Front(@), tear(Last(@)))])

\* tokenize ends an open quote with the text: a single one leaves no trace.
split_chain(text) ==
    LET whole == pieces(text)
        closed(piece) ==
            LET marks == SelectSeq(piece, LAMBDA t : t \in ClosingMarks)
                words == SelectSeq(piece, LAMBDA t : t \notin ClosingMarks)
            IN IF marks \in {<<>>, <<Closing("''")>>} THEN words ELSE tear(words)
    IN [i \in DOMAIN whole |-> closed(whole[i])]

-----------------------------------------------------------------------------
(* From a text to the rules *)

RECURSIVE Spelled(_), extract_subshells(_), analyze_command(_), analyze_tokens(_, _)
\* The words of a text, those in quotes and subshells too.
Spelled(text) ==
    UNION {UNION {{t.word} \cup Spelled(t.body) : t \in {s[i] : i \in DOMAIN s}} : s \in {text[i] : i \in DOMAIN text}}

\* The search is by character: quotes do not hide a subshell.
extract_subshells(segment) ==
    UNION {IF t.word = "$()" THEN {t.body}
           ELSE UNION {extract_subshells(t.body[i]) : i \in DOMAIN t.body} : t \in {segment[i] : i \in DOMAIN segment}}

\* unwrap_wrappers, then the rules of what is left.
analyze_tokens(before, depth) ==
    LET tokens == skip_assignments(before)
        c == {i \in 2 .. Len(tokens) - 1 : tokens[i].word = "-c"}
        script == tokens[(CHOOSE i \in c : \A j \in c : i <= j) + 1]
        inner == IF c = {} THEN None ELSE analyze_command(script.body)
    IN CASE depth = MAX_DEPTH -> "DeletionOutsideWorkspace"
         [] depth < MAX_DEPTH /\ tokens = <<>> -> None
         [] OTHER -> CASE tokens[1].word \in Shells /\ inner # None -> inner
                       [] tokens[1].word \in Transparent ->
                             analyze_tokens(unwrapped(tokens[1].word, Tail(tokens)), depth + 1)
                       [] OTHER -> rules(tokens[1].word, Tail(tokens))

analyze_segment(segment) ==
    LET inside == {analyze_command(s) : s \in extract_subshells(segment)} \ {None}
    IN IF inside # {} THEN CHOOSE m \in inside : TRUE ELSE analyze_tokens(segment, 0)

\* detect_fork_bomb looks at the whole text, then each piece of the chain.
analyze_command(text) ==
    LET segments == split_chain(text)
    IN IF Marked({"f(){f&};f"}) \cap Spelled(text) # {} THEN "ForkBomb"
       ELSE FirstOf([i \in DOMAIN segments |-> analyze_segment(segments[i])])

\* A file that decides over the gate may be read but not written.
analyze_control_file_write(text) ==
    Marked({".berimor/allow"}) \cap Spelled(text) # {} /\ Spelled(text) \cap {">", "tee", "dd", "cp", "rsync"} # {}

analyze(text) == IF analyze_control_file_write(text) THEN "PrivilegeEscalation" ELSE analyze_command(text)

-----------------------------------------------------------------------------
(* A command and the same command behind more and more layers *)

Text(words) == <<[i \in DOMAIN words |-> Word(words[i])]>>

wrap(layer, text) ==
    CASE layer = "sh" -> <<<<Word("bash"), Word("-c"), Quoted("''", text)>>>>
      [] layer = "subshell" -> <<<<Word("echo"), Quoted("$()", text)>>>>
      [] layer = "chain" -> Text(<<"echo", "done">>) \o text
      [] OTHER -> [text EXCEPT ![1] = Text(Wrapper[layer])[1] \o @]

LineInit == \E c \in Command : plain = c /\ layers = <<>> /\ line = Text(c)

wraps(layer) ==
    /\ \/ Len(layers) < MaxMixed
       \/ Len(layers) < MaxWrap /\ \A i \in DOMAIN layers : layers[i] = layer
    /\ layers' = Append(layers, layer)
    /\ line' = wrap(layer, line)
    /\ UNCHANGED plain

LineNext == \E layer \in DOMAIN Wrapper \cup {"sh", "subshell", "chain"} : wraps(layer)

-----------------------------------------------------------------------------
(* FsJail *)

jail_vars == <<links, path, absolute>>

Escapes == <<"EscapesJail">>
Broken == <<"Canonicalize">>
Missing == <<"ENOENT">>
Failed == {Escapes, Broken, Missing}

is_symlink(place) == place \in DOMAIN links
starts_with_root(place) == IsPrefix(Root, place)

-----------------------------------------------------------------------------
(* The operating system: a walk that follows each symlink when it meets it *)

RECURSIVE walk(_, _, _)
\* From the directory at, the components of rest; hops bounds the symlinks (ELOOP).
walk(at, rest, hops) ==
    LET next == Append(at, rest[1])
    IN CASE rest = <<>> -> at
         [] rest # <<>> /\ rest[1] = ".." -> walk(IF at = <<>> THEN at ELSE Front(at), Tail(rest), hops)
         [] rest # <<>> /\ rest[1] # ".." ->
               CASE hops = 0 -> Missing
                 [] hops > 0 /\ is_symlink(next) -> walk(<<>>, links[next] \o Tail(rest), hops - 1)
                 [] hops > 0 /\ next \in Dirs -> walk(next, Tail(rest), hops)
                 [] OTHER -> IF Len(rest) = 1 THEN next ELSE Missing

\* canonicalize: only what exists has a physical path.
canonicalize(place) == LET p == walk(<<>>, place, 4) IN IF p \in Dirs THEN p ELSE Missing

-----------------------------------------------------------------------------
(* FsJail::resolve *)

\* Every symlink is a point of no return to the lexical path.
enforce(current) ==
    IF ~is_symlink(current) THEN current
    ELSE LET p == canonicalize(current)
         IN CASE p = Missing -> Broken
              [] p # Missing /\ ~starts_with_root(p) -> Escapes
              [] OTHER -> p

component(current, name) ==
    CASE current \in Failed -> current
      [] current \notin Failed /\ name = ".." ->
            IF is_symlink(current) \/ current = <<>> \/ ~starts_with_root(Front(current))
            THEN Escapes ELSE enforce(Front(current))
      [] OTHER -> enforce(Append(current, name))

resolve(names, is_absolute) ==
    LET current == FoldLeft(component, IF is_absolute THEN <<>> ELSE Root, names)
    IN IF current \in Failed THEN current
       ELSE IF starts_with_root(current) THEN current ELSE Escapes

-----------------------------------------------------------------------------

JailInit ==
    /\ \E s \in SUBSET LinkAt : links \in [s -> Dirs \cup LinkAt]
    /\ path = <<>> /\ absolute \in BOOLEAN

names(n) == /\ Len(path) < MaxPath /\ path' = Append(path, n)
            /\ UNCHANGED <<links, absolute>>

JailNext == \E n \in Component : names(n)

-----------------------------------------------------------------------------
(* terminal.exec: a shell in a box *)

Operation == {"read", "write", "truncate", "refer"}
RO == {"read"}
RW == Operation

\* The workspace, /usr and the like, /tmp and the like, ~/.cargo and the like; any
\* other place is in no rule.
workspace_rules ==
    [workspace |-> RW, system |-> RO, scratch |-> RW, tools |-> RO, home |-> {}]

is_restrict(net) == net.network = "restrict"
kernel_abi(s) == IF s.linux THEN s.abi ELSE 0

\* Whether the rules are put on, and whether those of the network are among them.
fails_closed(s) ==
    /\ s.linux /\ s.mode = "require"
    /\ kernel_abi(s) = 0 \/ (is_restrict(s.net) /\ kernel_abi(s) < 4)
confines(s) == s.linux /\ s.mode # "off" /\ kernel_abi(s) >= 1
restricts(s) == confines(s) /\ is_restrict(s.net) /\ kernel_abi(s) >= 4

\* What the kernel is told to handle: what is not handled is not limited.
handled(s) ==
    IF ~confines(s) THEN {}
    ELSE Operation \ ((IF kernel_abi(s) < 3 THEN {"truncate"} ELSE {})
                          \cup (IF kernel_abi(s) < 2 THEN {"refer"} ELSE {}))

handled_net(s) ==
    CASE ~restricts(s) -> {}
      [] restricts(s) /\ s.net.connect = {} /\ s.net.bind = {} -> {"connect", "bind"}
      [] OTHER -> {kind \in {"connect", "bind"} : s.net[kind] # {}}

\* The kernel: moves between directories are refused unless a rule grants them.
may(op, place) ==
    \/ op \notin box.handled /\ (op = "refer" => box.handled = {})
    \/ op \in box.handled \cap workspace_rules[place]
may_use(kind, port) == kind \notin box.handled_net \/ port \in box.setting.net[kind]

NoOperation == [op |-> None, place |-> None, port |-> 0]

BoxInit ==
    \E s \in Setting :
        box = [setting |-> s, shell |-> "none", handled |-> {}, handled_net |-> {}, others |-> 0,
               status |-> None, output |-> None, last |-> NoOperation]

\* The rules are collected before the fork; a place that is gone when the child
\* opens it ends the child before its exec.
spawn ==
    /\ box.shell = "none"
    /\ \/ /\ fails_closed(box.setting) \/ confines(box.setting)
          /\ box' = [box EXCEPT !.shell = "refused"]
       \/ /\ ~fails_closed(box.setting)
          /\ box' = [box EXCEPT !.shell = "running", !.handled = handled(box.setting),
                                !.handled_net = handled_net(box.setting)]

alive == box.shell = "running" \/ box.others > 0

forks == alive /\ box.others < MaxForks /\ box' = [box EXCEPT !.others = @ + 1]
other_ends == box.others > 0 /\ box' = [box EXCEPT !.others = @ - 1]

acts == alive /\ \E op \in Operation, place \in DOMAIN workspace_rules :
            may(op, place) /\ box' = [box EXCEPT !.last = [op |-> op, place |-> place, port |-> 0]]
uses == alive /\ \E kind \in {"connect", "bind"}, port \in Port :
            may_use(kind, port) /\ box' = [box EXCEPT !.last = [op |-> kind, place |-> None, port |-> port]]

\* The shell ends by itself, or is killed at the deadline: it alone.
shell_ends ==
    /\ box.shell = "running"
    /\ \E status \in {"exited", "timeout"} : box' = [box EXCEPT !.shell = "gone", !.status = status]

\* join_capped: whoever else holds the pipe keeps the readers from their end, and
\* what they have read is given up after two seconds.
join_capped ==
    /\ box.shell = "gone" /\ box.output = None
    /\ box' = [box EXCEPT !.output = IF box.others = 0 THEN "whole" ELSE "given up"]

BoxNext == spawn \/ forks \/ other_ends \/ acts \/ uses \/ shell_ends \/ join_capped

-----------------------------------------------------------------------------
(* Properties *)

\* A chain inside a subshell, or inside quotes within quotes: the last word of the
\* command has a mark to it that it would not have for a shell.
Torn == \E i \in DOMAIN layers :
            LET after(layer) == {j \in i + 1 .. Len(layers) : layers[j] = layer}
            IN layers[i] = "chain" /\ (after("subshell") # {} \/ Cardinality(after("sh")) > 1)
TornPlain == <<tear(Text(plain)[1])>>

\* A shell, a subshell, a chain or any run of wrappers hides no operation that is
\* refused when it is written plainly, but for one that split_chain cuts out
\* together with a closing mark that changes what the operation is.
WrappingHidesNothing ==
    analyze(Text(plain)) # None =>
        \/ analyze(line) # None
        \/ Torn /\ analyze(TornPlain) = None

\* What is allowed plainly stays allowed, unless it stands behind so many
\* wrappers that the analysis gives up, or a closing mark makes it another word.
Unwrappable == \E i \in DOMAIN layers : i >= MAX_DEPTH /\ \A j \in i - MAX_DEPTH + 1 .. i :
                   layers[j] \in DOMAIN Wrapper \ {"assign"}
WrappingAddsNothing ==
    /\ analyze(Text(plain)) = None /\ ~Unwrappable
    /\ Torn => analyze(TornPlain) = None
    => analyze(line) = None

\* What is accepted lies in the workspace, and the path a tool then opens leads
\* the system to that very place, whatever symlinks there are.
ResolvedIsPhysical ==
    LET place == resolve(path, absolute)
        real == walk(IF absolute THEN <<>> ELSE Root, path, 4)
    IN place \notin Failed => /\ starts_with_root(place)
                              /\ real # Missing => (real = place \/ (real \in Dirs /\ canonicalize(place) = real))

\* A path of directories that never leaves the workspace is not refused.
InsideIsAccepted ==
    ~absolute /\ (\A i \in 0 .. Len(path) : LET p == walk(Root, SubSeq(path, 1, i), 4)
                                             IN p \in Dirs /\ starts_with_root(p))
        => resolve(path, absolute) \notin Failed

\* What runs under the rules, the shell or anything it left behind, past the
\* deadline too, writes only in the workspace and the scratch directories, and
\* uses no port that its list does not name; where the rules cannot be had and
\* are required, nothing runs.
BoxHolds ==
    LET s == box.setting  writes == {"write", "refer"} \cup (IF s.abi >= 3 THEN {"truncate"} ELSE {})
    IN  /\ s.linux /\ s.mode # "off" /\ s.abi >= 1 /\ box.last.op \in writes =>
              box.last.place \in {"workspace", "scratch"}
        /\ \A kind \in {"connect", "bind"} :
              /\ s.linux /\ s.mode # "off" /\ s.abi = 4 /\ is_restrict(s.net) /\ box.last.op = kind
              /\ s.net[kind] # {} \/ s.net.connect \cup s.net.bind = {}
              => box.last.port \in s.net[kind]
        /\ s.linux /\ s.mode = "require" /\ (s.abi = 0 \/ (is_restrict(s.net) /\ s.abi < 4)) =>
              box.shell \in {"none", "refused"} /\ box.last = NoOperation
=============================================================================
