------------------------------ MODULE Status -------------------------------
(***************************************************************************)
(* Build, stage and job states and AggregateStatuses (src/unnamed/part_000 *)
(* lines 24-72): the status of a parent rolled up from an ordered slice of *)
(* children, each with a state and an allowed-failure flag.  The module    *)
(* enumerates every slice of up to MaxChildren children and checks the     *)
(* code's fold against a reference definition of what it is meant to be.  *)
(***************************************************************************)
EXTENDS Naturals, Sequences, SequencesExt

CONSTANT MaxChildren   \* longest slice of children enumerated

ASSUME MaxChildren \in Nat \ {0}

VARIABLE ss            \* the argument of AggregateStatuses

\* type State string and its constants (Unknown is "").
States == {"unknown", "pending", "running", "passed", "failed", "canceled",
           "manual", "skipped"}

IsActive(s) == s \in {"pending", "running"}

statePrecedence ==
    [unknown |-> 80, running |-> 70, pending |-> 60, canceled |-> 50,
     failed |-> 40, passed |-> 30, skipped |-> 20, manual |-> 10]

\* A Statuser: Build and Stage never allow failure, a Job may.
Statusers == [status : States, allow : BOOLEAN]

\* A child whose failure is excused does not take part in the comparison.
Counts(s) == ~s.allow \/ s.status \notin {"canceled", "failed"}

(***************************************************************************)
(* The loop body of AggregateStatuses, and the fold itself: the running    *)
(* state starts from the FIRST child's status, whether or not it counts.  *)
(***************************************************************************)
\* A plausible fault in the loop guard: the || of the guard written &&.
StepExcuseAny(state, s) ==
    IF (~s.allow /\ s.status \notin {"canceled", "failed"})
       /\ statePrecedence[s.status] > statePrecedence[state]
    THEN s.status ELSE state

Step(state, s) ==
    IF Counts(s) /\ statePrecedence[s.status] > statePrecedence[state]
    THEN s.status ELSE state

\* A plausible fault: starting the fold from Unknown, the zero State.
AggregateFromUnknown(seq) ==
    IF seq = <<>> THEN "unknown" ELSE FoldLeft(Step, "unknown", seq)

AggregateStatuses(seq) ==
    IF seq = <<>> THEN "unknown" ELSE FoldLeft(Step, seq[1].status, seq)

(***************************************************************************)
(* Reference: the highest-precedence status among the children that       *)
(* count; Unknown for no children.                                         *)
(***************************************************************************)
CountedStatuses(seq) == {seq[i].status : i \in {j \in DOMAIN seq : Counts(seq[j])}}

HighestOf(S) == CHOOSE s \in S : \A t \in S : statePrecedence[s] >= statePrecedence[t]

Init == ss \in BoundedSeq(Statusers, MaxChildren)

\* The argument does not change: each initial state is one input.
Next == UNCHANGED ss

Spec == Init /\ [][Next]_ss

-----------------------------------------------------------------------------
\* No child that counts outranks the aggregate: a single real failure or
\* an in-flight job always shows in the parent's status.
AggregateDominates ==
    \A s \in CountedStatuses(ss) :
        statePrecedence[AggregateStatuses(ss)] >= statePrecedence[s]

\* When the first child counts, AggregateStatuses is exactly the highest
\* status among the children that count.
AggregateMatchesWhenFirstCounts ==
    ss # <<>> /\ Counts(ss[1]) =>
        AggregateStatuses(ss) = HighestOf(CountedStatuses(ss))

\* Spec section 8: an allowed-to-fail Canceled or Failed child never drags
\* its parent down; with at least one child that counts, the aggregate is
\* the highest status among those children, whatever their order.
ExcusedFailureNeverDominates ==
    CountedStatuses(ss) # {} =>
        AggregateStatuses(ss) = HighestOf(CountedStatuses(ss))

=============================================================================
