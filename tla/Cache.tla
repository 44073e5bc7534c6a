------------------------------- MODULE Cache --------------------------------
(***************************************************************************)
(* The build store of Cache (src/unnamed/part_000 lines 162-370) for one  *)
(* build key: Save, SaveJob, Builds, fetchBuild/fetchJob and WriteLog,     *)
(* run concurrently by refreshes, log writers and the UI.                  *)
(*                                                                         *)
(* Go maps are reference values: c.builds holds a *Build whose Jobs map   *)
(* and Stage maps are shared by every copy of the Build.  The model keeps  *)
(* these maps in a heap: the map that the n-th Save stored for location   *)
(* loc (0 for build.Jobs, a stage ID for stage.Jobs) is heap[<<n, loc>>], *)
(* a partial function from job IDs to job values.  A job value is its     *)
(* state and whether its Log is Valid.  The CI service's own view of each  *)
(* job is `remote'; a Save stores the provider's snapshot of it.           *)
(***************************************************************************)
EXTENDS Naturals, FiniteSets, TLC

CONSTANTS
    JobIds,      \* job IDs of the build
    StageIds,    \* stage IDs of the build (never 0)
    JobLoc,      \* the location of each job: 0 or its stage
    Writers,     \* goroutines that may call WriteLog concurrently
    MaxSaves     \* bound on the number of Saves of the build

Locs == {0} \cup StageIds

ASSUME /\ 0 \notin StageIds
       /\ JobLoc \in [JobIds -> Locs]
       /\ MaxSaves \in Nat \ {0}

VARIABLES
    remote,      \* the state of each job at the CI service
    heap,        \* the job maps allocated by the Saves
    cached,      \* c.builds[key]: NoBuild or [save |-> n, stages |-> S]
    saves,       \* number of Saves so far
    lastSaved,   \* history: the job states of the latest Save
    wpc,         \* control point of each WriteLog call
    warg,        \* its (stageID, jobID) arguments
    wjob,        \* its local copy `job'
    snap,        \* history: the Build values the last Builds() returned
    snapView     \* history: their jobs when Builds() returned them

vars == <<remote, heap, cached, saves, lastSaved, wpc, warg, wjob, snap,
          snapView>>

JobStates == {"running", "passed"}
JobVals == [state : JobStates, log : BOOLEAN]
NoBuild == [save |-> 0, stages |-> {}]
NoJob == [state |-> "running", log |-> FALSE]

\* The maps reachable from a Build value, by location.
MapsOf(b) == [loc \in {0} \cup b.stages |-> heap[<<b.save, loc>>]]

PartialJobMaps == UNION {[S -> JobVals] : S \in SUBSET JobIds}

TypeOK ==
    /\ remote \in [JobIds -> JobStates]
    /\ DOMAIN heap \subseteq (1..MaxSaves) \X Locs
    /\ \A m \in DOMAIN heap : heap[m] \in PartialJobMaps
    /\ cached \in {NoBuild} \cup [save : 1..MaxSaves, stages : SUBSET StageIds]
    /\ saves \in 0..MaxSaves
    /\ lastSaved \in UNION {[S -> JobStates] : S \in SUBSET JobIds}
    /\ wpc \in [Writers -> {"idle", "job", "log", "save"}]
    /\ warg \in [Writers -> Locs \X JobIds]
    /\ wjob \in [Writers -> JobVals]
    /\ snap \in {NoBuild} \cup [save : 1..MaxSaves, stages : SUBSET StageIds]
    \* no map of the cached build is nil: SaveJob may write into any of them
    /\ cached # NoBuild =>
         {cached.save} \X ({0} \cup cached.stages) \subseteq DOMAIN heap

Init ==
    /\ remote \in [JobIds -> JobStates]
    /\ heap = [m \in {} |-> {}]
    /\ cached = NoBuild
    /\ saves = 0
    /\ lastSaved = [j \in {} |-> "running"]
    /\ wpc = [w \in Writers |-> "idle"]
    /\ warg = [w \in Writers |-> <<0, CHOOSE j \in JobIds : TRUE>>]
    /\ wjob = [w \in Writers |-> NoJob]
    /\ snap = NoBuild
    /\ snapView = <<>>

\* A job finishes at the CI service.
RemoteFinish(j) ==
    /\ remote[j] = "running"
    /\ remote' = [remote EXCEPT ![j] = "passed"]
    /\ UNCHANGED <<heap, cached, saves, lastSaved, wpc, warg, wjob, snap,
                   snapView>>

(***************************************************************************)
(* Save (lines 186-213): a refresh stores the provider's snapshot of the  *)
(* build, with the stages S and the jobs J it lists, each job in the      *)
(* state the service reports and with no log.  The new Build replaces the  *)
(* old one wholesale: fresh maps, nil maps normalised to empty ones.       *)
(***************************************************************************)
\* A plausible fault: nil maps are not normalised, so a location without
\* jobs has no map.
SaveNoNormalise(S, J) ==
    LET n == saves + 1 IN
    /\ saves < MaxSaves
    /\ \A j \in J : JobLoc[j] \in {0} \cup S
    /\ heap' = heap @@ [m \in {n} \X {JobLoc[j] : j \in J} |->
                          [j \in {i \in J : JobLoc[i] = m[2]} |->
                              [state |-> remote[j], log |-> FALSE]]]
    /\ cached' = [save |-> n, stages |-> S]
    /\ saves' = n
    /\ lastSaved' = [j \in J |-> remote[j]]
    /\ UNCHANGED <<remote, wpc, warg, wjob, snap, snapView>>

Save(S, J) ==
    LET n == saves + 1 IN
    /\ saves < MaxSaves
    /\ \A j \in J : JobLoc[j] \in {0} \cup S
    /\ heap' = heap @@ [m \in {n} \X ({0} \cup S) |->
                          [j \in {i \in J : JobLoc[i] = m[2]} |->
                              [state |-> remote[j], log |-> FALSE]]]
    /\ cached' = [save |-> n, stages |-> S]
    /\ saves' = n
    /\ lastSaved' = [j \in J |-> remote[j]]
    /\ UNCHANGED <<remote, wpc, warg, wjob, snap, snapView>>

\* Builds (lines 238-247): the copies it returns share the cached maps.
Builds ==
    /\ cached # NoBuild
    /\ snap' = cached
    /\ snapView' = MapsOf(cached)
    /\ UNCHANGED <<remote, heap, cached, saves, lastSaved, wpc, warg, wjob>>

(***************************************************************************)
(* WriteLog (lines 335-370), one step per acquisition of c.mutex or call  *)
(* to the provider.  Every error return goes back to "idle".              *)
(***************************************************************************)
\* fetchBuild (lines 309-322) under the lock; no build is an error.
WriteLogStart(w, loc, j) ==
    /\ wpc[w] = "idle"
    /\ wpc' = [wpc EXCEPT ![w] = IF cached # NoBuild THEN "job" ELSE "idle"]
    /\ warg' = [warg EXCEPT ![w] = <<loc, j>>]
    /\ UNCHANGED <<remote, heap, cached, saves, lastSaved, wjob, snap,
                   snapView>>

\* fetchJob (lines 324-331) locks again and copies the job out of the
\* current Build with Build.Get (lines 120-137).  A job whose log is
\* already valid is written without calling the provider.
FetchJob(w) ==
    LET loc == warg[w][1]
        j == warg[w][2]
        found == /\ loc \in {0} \cup cached.stages
                 /\ j \in DOMAIN MapsOf(cached)[loc]
    IN
    /\ wpc[w] = "job"
    /\ IF found
         THEN LET job == MapsOf(cached)[loc][j] IN
              /\ wjob' = [wjob EXCEPT ![w] = job]
              /\ wpc' = [wpc EXCEPT ![w] = IF job.log THEN "idle" ELSE "log"]
         ELSE /\ wpc' = [wpc EXCEPT ![w] = "idle"]
              /\ UNCHANGED wjob
    /\ UNCHANGED <<remote, heap, cached, saves, lastSaved, warg, snap,
                   snapView>>

\* provider.Log outside the lock: an error, or the log and whether it is
\* complete, which it is once the job has finished at the service.  Only
\* a complete log is saved back.
CallLog(w) ==
    LET complete == remote[warg[w][2]] = "passed" IN
    /\ wpc[w] = "log"
    /\ \E ok \in BOOLEAN :
          IF ok
            THEN /\ wjob' = [wjob EXCEPT ![w].log = TRUE]
                 /\ wpc' = [wpc EXCEPT ![w] = IF complete THEN "save"
                                                          ELSE "idle"]
            ELSE /\ wpc' = [wpc EXCEPT ![w] = "idle"]
                 /\ UNCHANGED wjob
    /\ UNCHANGED <<remote, heap, cached, saves, lastSaved, warg, snap,
                   snapView>>

\* SaveJob (lines 215-236) under the lock: the local copy, taken before
\* the provider call, is stored into the map of the Build cached NOW.
SaveJob(w) ==
    LET loc == warg[w][1]
        j == warg[w][2]
        m == <<cached.save, loc>>
    IN
    /\ wpc[w] = "save"
    /\ IF loc \in {0} \cup cached.stages
         THEN heap' = [heap EXCEPT ![m] = [i \in DOMAIN @ \cup {j} |->
                                            IF i = j THEN wjob[w] ELSE @[i]]]
         ELSE UNCHANGED heap
    /\ wpc' = [wpc EXCEPT ![w] = "idle"]
    /\ UNCHANGED <<remote, cached, saves, lastSaved, warg, wjob, snap,
                   snapView>>

Next ==
    \/ \E j \in JobIds : RemoteFinish(j)
    \/ \E S \in SUBSET StageIds, J \in SUBSET JobIds : Save(S, J)
    \/ Builds
    \/ \E w \in Writers :
          \/ \E loc \in Locs, j \in JobIds : WriteLogStart(w, loc, j)
          \/ FetchJob(w) \/ CallLog(w) \/ SaveJob(w)

Spec == Init /\ [][Next]_vars

-----------------------------------------------------------------------------
\* The jobs cached for the build, with their states.
CachedJobs ==
    IF cached = NoBuild THEN [j \in {} |-> "running"]
    ELSE LET maps == MapsOf(cached)
             ids == UNION {DOMAIN maps[loc] : loc \in DOMAIN maps}
         IN [j \in ids |-> maps[JobLoc[j]][j].state]

\* Last write wins (spec 4.1): the jobs of the cached build, and their
\* states, are those of the latest Save; caching a log never brings back
\* a job state, or a job, that a later Save replaced.
JobsAreLatestSave ==
    CachedJobs = lastSaved

\* Builds() returns a point-in-time snapshot (spec 4.1): what a caller got
\* does not change afterwards, whatever SaveJob does to the cache.
SnapshotIsStable ==
    snap # NoBuild => MapsOf(snap) = snapView

=============================================================================
