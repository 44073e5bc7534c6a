------------------------------- MODULE MCExport ------------------------------
EXTENDS Export, TLC

\* A build with a job outside any stage and a stage of two jobs.
MCNodes == {"build", "job1", "stage", "job2", "job3"}
MCChildren == ("build" :> {"job1", "stage"}) @@ ("stage" :> {"job2", "job3"})
              @@ [n \in {"job1", "job2", "job3"} |-> {}]
MCJobs == {"job1", "job2", "job3"}
=============================================================================
