------------------------------ MODULE Extensions ------------------------------
(***************************************************************************)
(* Skills and subagents: the cached catalogue (catalog.rs), the three ways in   *)
(* (ext_cmd.rs install and --from, the picker of chat_tui.rs), the lint           *)
(* (skill_lint.rs), the loading of two scopes (skills.rs), and the ceiling that     *)
(* a skill puts on a turn (chat.rs).  An installer is a process or a thread.         *)
(***************************************************************************)
EXTENDS Integers, Sequences, FiniteSets

CONSTANTS Installer, Name, Package, Needs, Reviewer, MaxInstalls

ExtAssumption == \A pkg \in Package :
    pkg = [name |-> pkg.name, tools |-> pkg.tools, permissions |-> pkg.permissions, whole |-> pkg.whole]

VARIABLES catalog,    \* name -> the package in the catalogue's repository
          cache,      \* the clone of it
          dir,        \* scope -> name -> what stands there
          staging,    \* scope -> name -> what stands in .staging-name
          job,        \* installer -> its install or removal
          placed,     \* scope -> name -> the front and the job that put it there; "torn" once
                      \* its removal has begun, "killed" if the job ended before its lint
          shared,     \* two jobs of one place have overlapped
          session,    \* the skills an open session has loaded
          installs,   \* begun so far
          last        \* the last call of a turn or the last review

ext_vars == <<catalog, cache, dir, staging, job, placed, shared, session, installs, last>>

Scope == {"global", "project"}
Nothing == [name |-> "none", tools |-> {}, permissions |-> {}, whole |-> FALSE]
Torn == [Nothing EXCEPT !.name = "torn"]
Parts(pkg) == {[pkg EXCEPT !.whole = FALSE], Torn}
NoJob == [at |-> "rest", front |-> "none", scope |-> "global", name |-> "none", from |-> Nothing]
NoUse == [skill |-> Nothing, tool |-> "none", answers |-> <<>>, exit |-> 1]

-----------------------------------------------------------------------------
(* What a manifest says *)

\* A manifest that parses, with a permission for each tool that needs one.
lint(pkg) == pkg.name \in Name /\ \A tool \in pkg.tools : Needs[tool] \subseteq pkg.permissions

parses(pkg) == pkg.name \in Name

\* Every manifest of a directory, staging leftovers among them.
load_dir(s) == {[skill |-> pkg, scope |-> s] : pkg \in {p \in {dir[s][n] : n \in Name}
                    \cup {staging[s][n] : n \in Name} : parses(p)}}

load_all ==
    {g \in load_dir("global") : \A p \in load_dir("project") : p.skill.name # g.skill.name}
        \cup load_dir("project")

\* No tools, no ceiling.
ceiling(skill) == IF skill.tools = {} THEN DOMAIN Needs ELSE skill.tools

ExtInit ==
    /\ catalog \in [Name -> {pkg \in Package : lint(pkg)}] /\ cache = catalog
    /\ dir = [s \in Scope |-> [n \in Name |-> Nothing]] /\ staging = dir
    /\ job = [i \in Installer |-> NoJob] /\ shared = FALSE
    /\ placed = [s \in Scope |-> [n \in Name |-> <<"none", "none">>]]
    /\ session = {} /\ installs = 0 /\ last = NoUse

-----------------------------------------------------------------------------
(* Installing *)

release(n, pkg) ==
    /\ catalog[n] = cache[n] /\ installs < MaxInstalls /\ catalog[n] # pkg
    /\ catalog' = [catalog EXCEPT ![n] = pkg]
    /\ UNCHANGED <<cache, dir, staging, job, placed, shared, session, installs>> /\ last' = NoUse

Same(i, s, n) == {j \in Installer \ {i} : job[j].at # "rest" /\ job[j].scope = s /\ job[j].name = n}

\* sync pulls the catalogue; --from clones another repository instead.
begins(i, front, s, n) ==
    /\ job[i].at = "rest" /\ installs < MaxInstalls /\ installs' = installs + 1
    /\ front = "tui" => s = "global"
    /\ IF front = "git" THEN UNCHANGED cache ELSE cache' = catalog
    /\ \E pkg \in IF front = "git" THEN Package ELSE {catalog[n]} :
         job' = [job EXCEPT ![i] = [at |-> "copy", front |-> front, scope |-> s, name |-> n,
                                    from |-> [pkg EXCEPT !.whole = TRUE]]]
    /\ shared' = (shared \/ Same(i, s, n) # {})
    /\ UNCHANGED <<catalog, dir, staging, placed, session>> /\ last' = NoUse

At(i, where) == job[i].at = where
Goes(i, where) == job' = [job EXCEPT ![i].at = where]
stages(i, pkg) == staging' = [staging EXCEPT ![job[i].scope][job[i].name] = pkg]

\* place: an old staging directory goes, a copy of the source is begun in it.
copies(i) ==
    /\ At(i, "copy") /\ \E part \in Parts(job[i].from) : stages(i, part)
    /\ Goes(i, "copying")
    /\ UNCHANGED <<catalog, cache, dir, placed, shared, session, installs>> /\ last' = NoUse

copy_ends(i) == stages(i, job[i].from) /\ Goes(i, "old")

copied(i) ==
    /\ At(i, "copying") /\ copy_ends(i)
    /\ UNCHANGED <<catalog, cache, dir, placed, shared, session, installs>> /\ last' = NoUse

\* remove_dir_all takes one entry after another, and ends when the last is gone.
tears(s, n) ==
    /\ \E part \in Parts(dir[s][n]) : dir' = [dir EXCEPT ![s][n] = part]
    /\ placed' = [placed EXCEPT ![s][n] = <<"torn", "none">>]

removed(s, n) == dir' = [dir EXCEPT ![s][n] = Nothing]

removes_old(i) ==
    LET s == job[i].scope
        n == job[i].name
    IN  /\ At(i, "old")
        /\ \/ dir[s][n] = Nothing /\ Goes(i, "rename") /\ UNCHANGED <<dir, placed>>
           \/ dir[s][n] # Nothing /\ Goes(i, "removing") /\ tears(s, n)
        /\ UNCHANGED <<catalog, cache, staging, shared, session, installs>> /\ last' = NoUse

removed_old(i) ==
    /\ At(i, "removing") /\ removed(job[i].scope, job[i].name) /\ Goes(i, "rename")
    /\ UNCHANGED <<catalog, cache, staging, placed, shared, session, installs>> /\ last' = NoUse

\* The rename fails when another install has taken the staging directory, or has put a
\* directory under the name that is not empty.
rename_fails(i) ==
    LET s == job[i].scope
        n == job[i].name
    IN  /\ At(i, "rename") /\ (staging[s][n] = Nothing \/ dir[s][n] # Nothing)
        /\ job' = [job EXCEPT ![i] = NoJob]
        /\ UNCHANGED <<catalog, cache, dir, staging, placed, shared, session, installs>> /\ last' = NoUse

renames(i) ==
    LET s == job[i].scope
        n == job[i].name
    IN  /\ At(i, "rename") /\ staging[s][n] # Nothing /\ dir[s][n] \in {Nothing, Torn}
        /\ dir' = [dir EXCEPT ![s][n] = staging[s][n]] /\ stages(i, Nothing)
        /\ placed' = [placed EXCEPT ![s][n] = <<job[i].front, i>>]
        /\ IF job[i].front = "cli" THEN Goes(i, "lint") ELSE job' = [job EXCEPT ![i] = NoJob]
        /\ IF job[i].front = "tui" THEN session' = load_all' ELSE UNCHANGED session
        /\ UNCHANGED <<catalog, cache, shared, installs>> /\ last' = NoUse

\* The gate of ext_cmd::install: what fails the lint, or cannot be read, is deleted.
lints(i) ==
    LET s == job[i].scope
        n == job[i].name
    IN  /\ At(i, "lint")
        /\ IF lint(dir[s][n]) \/ dir[s][n] = Nothing
             THEN job' = [job EXCEPT ![i] = NoJob] /\ UNCHANGED <<dir, placed>>
             ELSE Goes(i, "unplace") /\ tears(s, n)
        /\ UNCHANGED <<catalog, cache, staging, shared, session, installs>> /\ last' = NoUse

unplaced(i) ==
    /\ At(i, "unplace") /\ removed(job[i].scope, job[i].name) /\ job' = [job EXCEPT ![i] = NoJob]
    /\ UNCHANGED <<catalog, cache, staging, placed, shared, session, installs>> /\ last' = NoUse

\* The process is stopped, or the removal it is in fails: an error of it is no retry.
killed(i) ==
    LET s == job[i].scope
        n == job[i].name
    IN  /\ job[i].at # "rest" /\ job' = [job EXCEPT ![i] = NoJob]
        /\ placed' = IF At(i, "lint") /\ placed[s][n] = <<"cli", i>>
                       THEN [placed EXCEPT ![s][n] = <<"killed", i>>] ELSE placed
        /\ UNCHANGED <<catalog, cache, dir, staging, shared, session, installs>> /\ last' = NoUse

\* remove_installed: the command of either scope, or the picker of the chat, which lists
\* every loaded skill and removes the global directory of its name.
removes(i, front, s, n) ==
    /\ job[i].at = "rest" /\ dir[s][n] # Nothing /\ tears(s, n)
    /\ front = "tui" => s = "global" /\ \E loaded \in session : loaded.skill.name = n
    /\ job' = [job EXCEPT ![i] = [at |-> "delete", front |-> front, scope |-> s, name |-> n,
                                  from |-> Nothing]]
    /\ shared' = (shared \/ Same(i, s, n) # {})
    /\ UNCHANGED <<catalog, cache, staging, session, installs>> /\ last' = NoUse

deletes(i) ==
    /\ At(i, "delete") /\ removed(job[i].scope, job[i].name) /\ job' = [job EXCEPT ![i] = NoJob]
    /\ UNCHANGED <<catalog, cache, staging, placed, shared, installs>> /\ last' = NoUse
    /\ session' = IF job[i].front = "tui" THEN load_all' ELSE session

-----------------------------------------------------------------------------
(* Using *)

opens ==
    /\ session' = load_all /\ session' # session
    /\ UNCHANGED <<catalog, cache, dir, staging, job, placed, shared, installs>> /\ last' = NoUse

\* A trigger of the skill starts a turn under its ceiling; turns are asked while no install runs.
calls(loaded, tool) ==
    /\ \A i \in Installer : job[i].at = "rest"
    /\ tool \in ceiling(loaded.skill)
    /\ last' = [NoUse EXCEPT !.skill = loaded.skill, !.tool = tool]
    /\ UNCHANGED <<catalog, cache, dir, staging, job, placed, shared, session, installs>>

quorum(verdicts) ==
    IF "fail" \in verdicts THEN "fail" ELSE IF "concerns" \in verdicts THEN "concerns" ELSE "pass"

\* Each provider is asked; one that fails or answers beside the form has no voice.  A review
\* changes nothing: those before the first install are enough.
review(answers) ==
    LET verdicts == {answers[r] : r \in Reviewer} \ {"none"}
    IN  /\ installs = 0
        /\ last' = [NoUse EXCEPT !.answers = answers,
                        !.exit = IF verdicts = {} \/ quorum(verdicts) = "fail" THEN 1 ELSE 0]
        /\ UNCHANGED <<catalog, cache, dir, staging, job, placed, shared, session, installs>>

ExtNext ==
    \/ \E n \in Name, pkg \in Package : release(n, pkg)
    \/ \E i \in Installer, front \in {"cli", "tui", "git"}, s \in Scope, n \in Name :
         begins(i, front, s, n)
    \/ \E i \in Installer :
         \/ copies(i) \/ copied(i) \/ removes_old(i) \/ removed_old(i) \/ rename_fails(i)
         \/ renames(i) \/ lints(i) \/ unplaced(i) \/ killed(i) \/ deletes(i)
    \/ \E i \in Installer, front \in {"cli", "tui"}, s \in Scope, n \in Name :
         removes(i, front, s, n)
    \/ opens
    \/ \E loaded \in session, tool \in DOMAIN Needs : calls(loaded, tool)
    \/ \E answers \in [Reviewer -> {"pass", "concerns", "fail", "none"}] : review(answers)

-----------------------------------------------------------------------------
(* Properties *)

Declared(pkg) == \A tool \in pkg.tools : Needs[tool] \subseteq pkg.permissions

\* What the install command has put in place, and another install has not replaced,
\* passes the lint once the command has ended, however installs interleave.
GatedPassesLint ==
    \A s \in Scope, n \in Name :
        (dir[s][n] # Nothing /\ placed[s][n][1] = "cli" /\ job[placed[s][n][2]].at # "lint")
            => Declared(dir[s][n])

\* What stands under a name is whole, wherever installs and removals were stopped, as long as
\* no two jobs of one place overlap (place, copy_dir); the exception is what a removal has
\* begun to take away, by a command, before a new version or after a failed lint.
InstalledIsWhole ==
    shared \/ \A s \in Scope, n \in Name :
        dir[s][n] # Nothing => dir[s][n].whole \/ placed[s][n][1] = "torn"

\* A skill whose name the project has taken is never the global one.
ProjectIsStronger ==
    \A one, other \in session :
        one.skill.name = other.skill.name => one.scope = other.scope
===============================================================================
