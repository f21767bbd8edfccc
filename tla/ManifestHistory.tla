--------------------------- MODULE ManifestHistory ---------------------------
(***************************************************************************)
(* AccessManifest with what a reader needs to know about the past of a     *)
(* manifest: which operations work on a copy that has been replaced since, *)
(* and where two threads of a process met in one temporary file.  The      *)
(* history restricts nothing: it only says how far the promises of         *)
(* access_policy.c reach when nothing locks the manifest.                  *)
(***************************************************************************)
EXTENDS AccessManifest

VARIABLES
  stale,    \* the threads whose copy is older than the manifest
  shared,   \* the inodes emptied by a thread while another one of its process
            \* was writing, and not written since
  raced     \* a stale copy has replaced the manifest, or threads met

hvars == <<mvars, stale, shared, raced>>

Writing(t) == thread[t].pc \in {"write", "rename"}

\* The other threads of the process that are between open and rename.
Company(t) == {u \in Threads \ {t} : ProcessOf[u] = ProcessOf[t] /\ Writing(u)}

\* The steps of write_manifest, as they show in the state.
Opens(t) == thread[t].pc = "open" /\ thread'[t].pc = "write"
Writes(t) == thread[t].pc = "write" /\ thread'[t].pc = "rename"
Replaced == path' \notin {path, NoInode}

Record ==
  /\ stale' = {t \in Threads : /\ thread'[t].pc # "idle"
                               /\ t \in stale \/ (Replaced /\ ~Idle(t))}
  /\ shared' = {i \in Inodes :
       IF \E t \in Threads : Opens(t) /\ thread'[t].fd = i
       THEN \E t \in Threads : Opens(t) /\ thread'[t].fd = i /\ Company(t) # {}
       ELSE i \in shared /\ \A t \in Threads : Writes(t) => thread[t].fd # i}
  /\ raced' = \/ raced
              \/ \E t \in Threads : Opens(t) /\ Company(t) # {}
              \/ Replaced /\ \E t \in stale : thread'[t] # thread[t]

HInit == Init /\ stale = {} /\ shared = {} /\ raced = FALSE

HNext == Next /\ Record

HSpec == HInit /\ [][HNext]_hvars

-----------------------------------------------------------------------------
(* Properties.                                                             *)

\* The manifest is seen half written only where two threads of one process were
\* in write_manifest at once, which the threaded control API allows: they share
\* <manifest>.tmp.<pid>, and one renames what the other has just emptied.  No
\* death of a process, no failing write and no other process tears it.
NeverTorn == path # NoInode /\ file[path] = Truncated => path \in shared

\* Every decision reported as saved is in the manifest until it is replaced or the
\* manifest removed, and what the dashboard decided for a request is what its next
\* evaluation finds, however many threads and processes write and die, unless an
\* operation replaced a manifest that had changed since it was loaded, or shared
\* its temporary file.
DecisionsApply == ~raced => SavedDecisionApplies /\ DashboardDecisionApplies
=============================================================================
