------------------------------- MODULE Export --------------------------------
(***************************************************************************)
(* RepositoryBuilds.WriteToDirectory (src/cache/repository_builds.go      *)
(* lines 402-459): export the logs of every job below a row.  The row is  *)
(* looked up in treeIndex, its subtree is walked with all = true, the     *)
(* jobs are fetched from the cache, one temp file is created per job (a  *)
(* creation may fail), the finished jobs' logs are written at once, and   *)
(* a Streamer is returned for the active ones.                            *)
(*                                                                         *)
(* Cache.FetchJobs, WriteLogs and StreamLogs are not in the source tree;  *)
(* they are modelled from spec.md section 4.5: FetchJobs returns the      *)
(* cached job of every key; WriteLogs writes and closes the files of the  *)
(* finished jobs, or fails; StreamLogs later owns the active jobs' files. *)
(***************************************************************************)
EXTENDS FiniteSets

CONSTANTS
    Nodes,       \* keys of treeIndex
    Children,    \* Children[n]: the child rows of n
    Jobs,        \* the rows of type "J"
    NoRow        \* a key with no row in treeIndex

VARIABLES
    trav,        \* the traversable flag of every row (the UI's expansion)
    state,       \* the cached state of every job: "active" or "finished"
    pc,          \* "idle", "files" (creating files), "logs", "done"
    todo,        \* jobs still without a file
    open,        \* jobs whose file is open
    paths,       \* jobs whose path the call has collected
    result,      \* "none", "ok" or "error"
    stream,      \* whether the returned Streamer is non-nil
    root         \* the key asked for

vars == <<trav, state, pc, todo, open, paths, result, stream, root>>

\* utils.DepthFirstTraversal(node, all), as a set of rows.
RECURSIVE Below(_, _)
Below(n, all) ==
    {n} \cup IF all \/ trav[n] THEN UNION {Below(c, all) : c \in Children[n]}
                               ELSE {}

Active == {j \in Jobs : state[j] = "active"}

Init ==
    /\ trav \in [Nodes -> BOOLEAN]
    /\ state \in [Jobs -> {"active", "finished"}]
    /\ pc = "idle"
    /\ todo = {} /\ open = {} /\ paths = {}
    /\ result = "none" /\ stream = FALSE
    /\ root = NoRow

\* Lines 402-425: the key is looked up, the job keys of its subtree
\* collected and fetched (FetchJobs).
Start(k) ==
    /\ pc = "idle"
    /\ root' = k
    /\ IF k \in Nodes
         THEN /\ todo' = Below(k, TRUE) \cap Jobs
              /\ pc' = "files"
              /\ UNCHANGED result
         ELSE /\ result' = "error" /\ pc' = "done"
              /\ UNCHANGED todo
    /\ UNCHANGED <<trav, state, open, paths, stream>>

\* Lines 431-445, one iteration: ioutil.TempFile, which may fail; the
\* error return leaves every file created so far open.
CreateFile(j) ==
    /\ pc = "files" /\ j \in todo
    /\ \/ /\ todo' = todo \ {j}
          /\ open' = open \cup {j}
          /\ paths' = paths \cup {j}
          /\ UNCHANGED <<pc, result>>
       \/ /\ result' = "error" /\ pc' = "done"
          /\ UNCHANGED <<todo, open, paths>>
    /\ UNCHANGED <<trav, state, stream, root>>

LoopDone ==
    /\ pc = "files" /\ todo = {}
    /\ pc' = "logs"
    /\ UNCHANGED <<trav, state, todo, open, paths, result, stream, root>>

\* Lines 447-458: WriteLogs(finishedJobs) writes and closes the finished
\* jobs' files, or fails; the Streamer is set iff some job is active.
WriteLogs ==
    LET finished == paths \ Active IN
    /\ pc = "logs"
    /\ pc' = "done"
    /\ open' = open \ finished
    /\ \/ /\ result' = "ok"
          /\ stream' = (paths \cap Active # {})
       \/ /\ result' = "error"
          /\ UNCHANGED stream
    /\ UNCHANGED <<trav, state, todo, paths, root>>

\* The call has returned.
Returned ==
    /\ pc = "done"
    /\ UNCHANGED vars

Next ==
    \/ \E k \in Nodes \cup {NoRow} : Start(k)
    \/ \E j \in Jobs : CreateFile(j)
    \/ LoopDone \/ WriteLogs \/ Returned

Spec == Init /\ [][Next]_vars

-----------------------------------------------------------------------------
\* A failed export leaves no file of its own open.
NoFileLeftOpenOnError ==
    result = "error" => open = {}

=============================================================================
