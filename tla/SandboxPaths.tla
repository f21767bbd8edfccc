---------------------------- MODULE SandboxPaths -----------------------------
(***************************************************************************)
(* How bubble run turns --root-dir, --workdir and --binary into what the   *)
(* sandbox is given (bubblehub/cli/run.py, run_sandbox of native.py).      *)
(*                                                                         *)
(* A path is the sequence of its names after resolution: absolute, no      *)
(* symbolic links, <<>> is "/".  A request names the paths, and a host     *)
(* says what its file system holds: its directories, its files, the        *)
(* checkout the running code comes from, and the source trees; and which   *)
(* Python BUBBLEHUB_PYTHON names and which one runs bubble.                *)
(***************************************************************************)
EXTENDS Integers, Sequences, SequencesExt

CONSTANTS
  ProtectedRoots,   \* the system paths of _validate_writable_root but "/"
  SystemPrefixes,   \* _SANDBOX_SYSTEM_PREFIXES: also visible in a sandbox
  NoPath,           \* an option that is not given
  Cwd,              \* the directory bubble run is started in
  Staging,          \* the temporary directory a run may make
  PyNames,          \* the names of files that end in ".py"
  Agent             \* the id of the agent

IsRelativeTo(path, parent) == IsPrefix(parent, path)
Relative(path, parent) == SubSeq(path, Len(parent) + 1, Len(path))
Refused(why) == [refused |-> why]

-----------------------------------------------------------------------------
(* The root directory.                                                     *)

IsAllowedSourceWorkspace(root, source) == IsRelativeTo(root, Append(source, "examples"))

\* _bubblehub_source_tree_for: the innermost tree around the root.
SourceTreeFor(host, root) ==
  LET around == {t \in host.trees : IsRelativeTo(root, t)}
  IN  IF around = {} THEN NoPath ELSE CHOOSE t \in around : \A u \in around : Len(u) <= Len(t)

ValidateWritableRoot(host, root) ==
  /\ root # <<>>
  /\ \A p \in ProtectedRoots : ~IsRelativeTo(root, p)
  /\ host.checkout # NoPath =>
       /\ ~IsRelativeTo(host.checkout, root)
       /\ IsRelativeTo(root, host.checkout) => IsAllowedSourceWorkspace(root, host.checkout)
  /\ LET tree == SourceTreeFor(host, root)
     IN  tree # NoPath => IsAllowedSourceWorkspace(root, tree)

\* _resolve_sandbox_paths: the host's working directory, its name in the
\* sandbox, and the root.
ResolveSandboxPaths(host, root, workdir) ==
  LET dir == IF workdir = NoPath THEN root ELSE workdir
  IN  CASE root = NoPath ->
             [workdir |-> IF workdir = NoPath THEN Cwd ELSE workdir,
              inside |-> <<"workspace">>, root |-> NoPath]
        [] root # NoPath /\ (root \notin host.dirs \/ ~ValidateWritableRoot(host, root)) -> Refused("root")
        [] root # NoPath /\ root \in host.dirs /\ ValidateWritableRoot(host, root)
             /\ ~IsRelativeTo(dir, root) -> Refused("workdir")
        [] OTHER -> [workdir |-> dir, inside |-> <<"workspace">> \o Relative(dir, root), root |-> root]

-----------------------------------------------------------------------------
(* The binary.                                                             *)

\* _resolve_binary.  A name with a slash is looked up from the directory of the
\* caller, then from the working directory; a bare one in node_modules/.bin,
\* then on the PATH.
BinaryCandidates(host, binary, workdir) ==
  CASE binary.kind = "absolute" -> <<binary.path>>
    [] binary.kind = "relative" -> <<Cwd \o binary.path, workdir \o binary.path>>
    [] binary.kind = "bare"     -> <<workdir \o <<"node_modules", ".bin">> \o binary.path>>
                                     \o [i \in DOMAIN host.path |-> host.path[i] \o binary.path]

ResolveBinary(host, binary, workdir) ==
  LET candidates == BinaryCandidates(host, binary, workdir)
      found == {i \in DOMAIN candidates : candidates[i] \in host.files}
  IN  IF found = {} THEN NoPath ELSE candidates[Min(found)]

IsSandboxSystemBinary(path) == \E p \in SystemPrefixes : IsRelativeTo(path, p)

\* A bug: the path of the host is handed in.
SandboxWorkspacePath_Host(path, root) == path

\* The root as the agent sees it.
SandboxWorkspacePath(path, root) == <<"home", Agent, "workspace">> \o Relative(path, root)

\* _prepare_sandbox_binary: without a root the binary is copied to a directory
\* that becomes the root.
PrepareSandboxBinary(binary, paths) ==
  CASE IsSandboxSystemBinary(binary) -> [paths |-> paths, binary |-> binary, staged |-> NoPath]
    [] ~IsSandboxSystemBinary(binary) /\ paths.root # NoPath ->
         IF IsRelativeTo(binary, paths.root)
         THEN [paths |-> paths, binary |-> SandboxWorkspacePath(binary, paths.root), staged |-> NoPath]
         ELSE Refused("binary")
    [] OTHER ->
         LET copy == Append(Staging, Last(binary))
         IN  [paths  |-> [workdir |-> Staging, inside |-> <<"workspace">>, root |-> Staging],
              binary |-> SandboxWorkspacePath(copy, Staging), staged |-> copy]

BubblehubPython(host) == IF host.python \in host.files THEN host.python ELSE host.executable

\* What is executed, and its first argument if that is a script.
ArgvForBinary(host, binary) ==
  IF binary # <<>> /\ Last(binary) \in PyNames THEN <<BubblehubPython(host), binary>> ELSE <<binary>>

\* _resolve_rootfs_dir: whether an image is the root of the sandbox.
ResolveRootfsDir(env) ==
  CASE env.disabled -> "none"
    [] ~env.disabled /\ env.image = "missing" -> IF env.configured THEN "refused" ELSE "none"
    [] ~env.disabled /\ env.image = "file" -> "refused"
    [] OTHER -> "image"

\* What run_agent hands to the helper; with an image the sandbox gets a
\* workspace of its own if it has none, and an overlay.
Launch(host, env, request) ==
  LET paths == ResolveSandboxPaths(host, request.root, request.workdir)
      rootfs == ResolveRootfsDir(env)
      binary == ResolveBinary(host, request.binary, paths.workdir)
      ready == PrepareSandboxBinary(binary, paths)
      own == rootfs = "image" /\ ready.paths.root = NoPath
  IN  IF "refused" \in DOMAIN paths THEN paths
      ELSE IF rootfs = "refused" THEN Refused("rootfs")
      ELSE IF binary = NoPath THEN Refused("binary")
      ELSE IF "refused" \in DOMAIN ready THEN ready
      ELSE [workdir |-> IF own THEN <<"workspace">> ELSE ready.paths.inside,
            root    |-> IF own THEN Staging ELSE ready.paths.root,
            rootfs  |-> rootfs,
            overlay |-> rootfs = "image",
            argv    |-> ArgvForBinary(host, ready.binary),
            host_binary |-> binary, staged |-> ready.staged]

-----------------------------------------------------------------------------
(* What the helper shows of the host in a sandbox with root r:             *)
(* /home/<agent>/workspace is r, and the system prefixes are there.        *)

HostFile(path, root) ==
  LET home == <<"home", Agent, "workspace">>
  IN  IF root # NoPath /\ IsRelativeTo(path, home) THEN root \o Relative(path, home) ELSE path

\* The source tree a root is judged by: only what is above the root is looked at.
IsInnermostTree(host, root, t) ==
  IsRelativeTo(root, t) /\ \A u \in host.trees : IsRelativeTo(root, u) => Len(u) <= Len(t)

\* A root the user names lets the agent write nothing below a system path, and of
\* the checkout the running code comes from, and of the source tree that the root
\* lies in, nothing but the examples.  Source trees below the root are open to it,
\* unless they are that checkout: run.py does not look for them.
RootIsSafe(host, launch) ==
  launch.root \notin {NoPath, Staging} =>
    \A f \in host.dirs \cup host.files : IsRelativeTo(f, launch.root) =>
      /\ \A p \in ProtectedRoots \cup {<<>>} : f # p /\ (p # <<>> => ~IsRelativeTo(f, p))
      /\ (host.checkout # NoPath /\ IsRelativeTo(f, host.checkout)) =>
           IsAllowedSourceWorkspace(f, host.checkout)
      /\ \A t \in host.trees :
           IsInnermostTree(host, launch.root, t) => IsAllowedSourceWorkspace(f, t)

\* The last path the helper is given is, in the sandbox, the binary the user named
\* or the copy made of it, and can be seen there.  It is what is executed, unless
\* the file the user named is a script: then that is a Python, which is the same
\* inside if it is below a system prefix.  The directory the agent starts in is the
\* one named, if the sandbox has a root from the user.
SeesWhatWasNamed(host, request, launch) ==
  LET named == Last(launch.argv)
  IN  /\ HostFile(named, launch.root)
           = IF launch.staged # NoPath THEN launch.staged ELSE launch.host_binary
      /\ \/ IsSandboxSystemBinary(named)
         \/ launch.root # NoPath /\ IsRelativeTo(named, <<"home", Agent, "workspace">>)
      /\ Len(launch.argv) = IF Last(launch.host_binary) \in PyNames THEN 2 ELSE 1
      /\ (Len(launch.argv) = 2 /\ IsSandboxSystemBinary(BubblehubPython(host))) =>
           HostFile(launch.argv[1], launch.root) = BubblehubPython(host)
      /\ request.root # NoPath =>
           launch.root \o Tail(launch.workdir)
             = IF request.workdir = NoPath THEN request.root ELSE request.workdir
=============================================================================
