----------------------------- MODULE FakeShell -----------------------------
(***************************************************************************)
(* The file system a shell session pretends to have (app/fake_shell.py):   *)
(* a dictionary fs from directories to the names in them, the files that   *)
(* have a content, and the current directory.  cd and mkdir change it; ls, *)
(* cat and cd are three views of it, each with path arithmetic of its own. *)
(*                                                                         *)
(* A path is the sequence of its parts: "/etc/passwd" is <<"etc",          *)
(* "passwd">>, "/" is <<>>.  The history and the environment, which other  *)
(* commands print and nothing else reads, are left out.                    *)
(***************************************************************************)
EXTENDS Integers, SequencesExt

CONSTANTS
    Users,     \* names to log in with: [name, path], path being the parts of name
    Words,     \* parts of the paths the client types
    MaxWords,  \* bound on their length
    MaxMade    \* bound on the directories made

ASSUME ConstantsAssumption ==
    /\ \A u \in Users : u.path \in Seq(STRING) /\ u.path # <<>>
    /\ MaxWords \in Nat /\ MaxMade \in Nat

VARIABLES
    user,   \* username
    cwd,
    fs,     \* the directories, each with the set of its names
    made    \* history: how many mkdir has made

vars == <<user, cwd, fs, made>>

Home(u) == <<"home">> \o u.path

InitialTree(u) ==
    [p \in {<<>>, <<"etc">>, <<"home">>, Home(u), Home(u) \o <<".ssh">>, <<"var">>, <<"proc">>} |->
        CASE p = <<>>        -> {"bin", "boot", "dev", "etc", "home", "lib", "proc", "root",
                                 "run", "sbin", "tmp", "usr", "var"}
          [] p = <<"etc">>   -> {"passwd", "shadow", "hostname", "os-release", "apt",
                                 "network", "ssh"}
          [] p = <<"home">>  -> {u.name}
          [] p = Home(u)     -> {"README.txt", ".bash_history", ".bashrc", ".profile", ".ssh"}
          [] p = Home(u) \o <<".ssh">> -> {"authorized_keys"}
          [] p = <<"var">>   -> {"log", "mail", "run", "www"}
          [] p = <<"proc">>  -> {"1", "cpuinfo", "meminfo", "version"}]

(* The files with a content; sshd_config is in no directory there is.      *)
Files ==
    {<<"etc", "os-release">>, <<"etc", "hostname">>, <<"etc", "passwd">>,
     <<"proc", "cpuinfo">>, <<"proc", "meminfo">>, <<"etc", "ssh", "sshd_config">>}
    \cup {Home(user) \o <<f>> : f \in {"README.txt", ".bashrc", ".bash_history"}}

TypeOK ==
    /\ user \in Users
    /\ cwd \in DOMAIN fs
    /\ made \in 0..MaxMade

Init ==
    /\ user \in Users
    /\ cwd = Home(user)
    /\ fs = InitialTree(user)
    /\ made = 0
----------------------------------------------------------------------------
(* A path as the client types it.                                          *)
Typed == [rooted : BOOLEAN, parts : BoundedSeq(Words, MaxWords)]

(* _resolve_path on one more part; the slip is to keep the parent of "..". *)
StepForgetsParent(done, part) ==
    CASE part \in {".", "..", ""} -> done
      [] OTHER                    -> Append(done, part)

Step(done, part) ==
    CASE part \in {".", ""}             -> done
      [] part = ".." /\ done = <<>>     -> done
      [] part = ".." /\ done # <<>>     -> Front(done)
      [] OTHER                          -> Append(done, part)

Normal(parts) ==
    LET done[n \in 0..Len(parts)] == IF n = 0 THEN <<>> ELSE Step(done[n - 1], parts[n])
    IN  done[Len(parts)]

Resolve(from, path) ==
    IF path = [rooted |-> FALSE, parts |-> <<"~">>] THEN Home(user)
    ELSE Normal(IF path.rooted THEN path.parts ELSE from \o path.parts)

(* os.path.dirname and basename, of a path with no part as of "/".         *)
DirName(path) == IF path = <<>> THEN <<>> ELSE Front(path)
BaseName(path) == IF path = <<>> THEN "" ELSE Last(path)

(* fs once mkdir has been given full, in a directory there is; the slip is *)
(* to leave it out of its parent.                                          *)
WithDirectoryUnlisted(full) ==
    [p \in DOMAIN fs \cup {full} |-> IF p \in DOMAIN fs THEN fs[p] ELSE {}]

WithDirectory(full) ==
    [p \in DOMAIN fs \cup {full} |->
        (IF p \in DOMAIN fs THEN fs[p] ELSE {})
        \cup IF p = DirName(full) THEN {BaseName(full)} ELSE {}]

(* "mkdir /" puts a nameless entry into the root.                          *)
Mkdir(path) ==
    LET full == Resolve(cwd, path)
    IN  /\ made < MaxMade
        /\ DirName(full) \in DOMAIN fs
        /\ fs' = WithDirectory(full)
        /\ made' = made + 1
        /\ UNCHANGED <<user, cwd>>

Cd(path) ==
    /\ Resolve(cwd, path) \in DOMAIN fs
    /\ cwd' = Resolve(cwd, path)
    /\ UNCHANGED <<user, fs, made>>

(* ls -la of directory d: "." and ".." come with the names of d, and each  *)
(* is shown as a directory if the path made of it is one.  The slip is to  *)
(* leave the root out of the paths above a directory.                      *)
Listed(d) == {".", ".."} \cup fs[d]

EntryParts(entry) == IF entry = user.name THEN user.path ELSE <<entry>>

EntryPathNoRoot(d, entry) ==
    CASE entry \in {".", ""}             -> d
      [] entry = ".." /\ Len(d) > 1      -> Front(d)
      [] entry = ".." /\ Len(d) <= 1     -> <<"">>
      [] OTHER                           -> d \o EntryParts(entry)

EntryPath(d, entry) ==
    CASE entry \in {".", ""} -> d
      [] entry = ".."        -> DirName(d)
      [] OTHER               -> d \o EntryParts(entry)

ShownAsDirectory(d, entry) == EntryPath(d, entry) \in DOMAIN fs

(* What cat makes of it, from d.                                           *)
Cat(d, entry) ==
    LET target == Resolve(d, [rooted |-> FALSE, parts |-> EntryParts(entry)])
    IN  IF target \in Files THEN "content"
        ELSE IF target \in DOMAIN fs THEN "directory" ELSE "nothing"

Next == \E path \in Typed : Mkdir(path) \/ Cd(path)

Spec == Init /\ [][Next]_vars
----------------------------------------------------------------------------
(* Names the file system takes for one part.                               *)
Plain(u) == u.path = <<u.name>> /\ u.name \notin {"", ".", "..", "~"}

(* However directories are made, from wherever and under whatever path,    *)
(* each but the root is in a directory and listed there                    *)
(* (fake_shell.py:114-124).                                                *)
TreeClosed ==
    Plain(user) =>
        \A p \in DOMAIN fs \ {<<>>} : Front(p) \in DOMAIN fs /\ Last(p) \in fs[Front(p)]

(* A part of a path counts if it is a name and the parts after it never    *)
(* have more ".." than names: this is what _resolve_path computes, for     *)
(* paths through the root and through directories that do not exist        *)
(* (fake_shell.py:183-192).                                                *)
Up(parts, i, j) == Cardinality({k \in i..j : parts[k] = ".."})
Names(parts, i, j) == Cardinality({k \in i..j : parts[k] \notin {"", ".", ".."}})

Counts(parts, i) ==
    /\ parts[i] \notin {"", ".", ".."}
    /\ \A j \in (i + 1)..Len(parts) : Up(parts, i + 1, j) <= Names(parts, i + 1, j)

Kept(parts) ==
    LET kept == {i \in DOMAIN parts : Counts(parts, i)}
        At(n) == CHOOSE i \in kept : Cardinality({k \in kept : k <= i}) = n
    IN  [n \in 1..Cardinality(kept) |-> parts[At(n)]]

ResolvesLexically ==
    \A path \in Typed :
        path.parts # <<"~">> =>
            Resolve(cwd, path) = Kept(IF path.rooted THEN path.parts ELSE cwd \o path.parts)

(* For a user name that is one part of a path: no directory is known under *)
(* a path that means another, and the three views agree on every entry     *)
(* that ls -la lists, "." and ".." included.  The path ls makes of it is   *)
(* the one cd would resolve ("~", which cd takes for the home directory,   *)
(* apart), a directory for both or for neither, and cat calls nothing else *)
(* a directory (fake_shell.py:117, 150-163, 210-227).                      *)
ViewsAgree ==
    Plain(user) =>
        /\ \A p \in DOMAIN fs \cup {cwd} : Normal(p) = p
        /\ \A d \in DOMAIN fs : \A entry \in Listed(d) :
              LET path == [rooted |-> FALSE, parts |-> EntryParts(entry)]
              IN  /\ entry # "~" => EntryPath(d, entry) = Resolve(d, path)
                  /\ ShownAsDirectory(d, entry) <=> Resolve(d, path) \in DOMAIN fs
                  /\ Cat(d, entry) = "directory" => ShownAsDirectory(d, entry)
=============================================================================
