---------------------------- MODULE MCSandboxRun -----------------------------
(***************************************************************************)
(* Small instances of SandboxRun.                                          *)
(***************************************************************************)
EXTENDS SandboxRun

\* Every combination the command line can ask for, under pid 1 and a subreaper; a
\* build without libseccomp differs only when seccomp is asked for.
AllConfigs ==
  {c \in [isolate : BOOLEAN, inference : BOOLEAN, http : BOOLEAN,
          broker : BOOLEAN, seccomp : BOOLEAN,
          libseccomp : BOOLEAN, initAdopts : BOOLEAN] :
     /\ c.inference \/ c.http => c.isolate
     /\ c.broker => c.http
     /\ ~c.libseccomp => c.seccomp
     /\ ~c.initAdopts => c.inference \/ c.http}
=============================================================================
