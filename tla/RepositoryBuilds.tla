-------------------------- MODULE RepositoryBuilds --------------------------
(***************************************************************************)
(* The tree projection of src/cache/repository_builds.go, driven by the    *)
(* single UI goroutine while refreshes keep saving builds into the cache:  *)
(* FetchRows, SetTraversable, the lazy prefixAndIndex, Select,             *)
(* SelectFirst, SelectLast and NextMatch.                                  *)
(*                                                                         *)
(* A row is identified by its buildRowKey <<build, stage, job>>, with 0    *)
(* for "no stage" / "no job"; the account ID is folded into the build.     *)
(* Every cached build has the fixed shape Shape[b]: its stage rows <<s,0>> *)
(* and job rows <<s,j>> (s = 0 for a job outside any stage).  What varies *)
(* is which builds are cached and their UpdatedAt.  Display strings are    *)
(* abstracted to whether a row contains the searched text (Matching).     *)
(* Indices are Go's: 0-based, and a key missing from dfsIndex reads as 0.  *)
(*                                                                         *)
(* The generic traversal helpers of package utils (DepthFirstTraversal,    *)
(* Bounded, Modulo, MaxInt, MinInt) are not in this source tree; they are  *)
(* modelled from their use here and from spec.md.                          *)
(***************************************************************************)
EXTENDS Integers, Sequences, SequencesExt, FiniteSets

CONSTANTS
    BuildIds,    \* builds that refreshes may save
    Shape,       \* Shape[b]: the <<stage, job>> pairs of build b's rows
    MaxTime,     \* UpdatedAt values range over 1..MaxTime
    Height,      \* rows of the UI's window: every query asks for this many
    Matching     \* rows whose displayed values contain the searched text

VARIABLES
    cache,       \* UpdatedAt of each build in the cache, 0 if not cached
    rows,        \* s.rows: the build IDs of the top-level rows, in order
    trav,        \* traversable flag of every node of s.treeIndex
    dfs,         \* s.dfsTraversal: keys of the flattened view
    upToDate,    \* s.dfsUpToDate
    win,         \* the UI: the rows it displays (last query's result)
    cur,         \* the UI: its active row
    panicked     \* a runtime panic has ended the program

vars == <<cache, rows, trav, dfs, upToDate, win, cur, panicked>>

NoKey == <<0, 0, 0>>
BuildKey(b) == <<b, 0, 0>>
KeysOf(b) == {BuildKey(b)} \cup {<<b, p[1], p[2]>> : p \in Shape[b]}
AllKeys == UNION {KeysOf(b) : b \in BuildIds}

ASSUME \A b \in BuildIds :
         \A p \in Shape[b] : p[2] # 0 \/ p[1] # 0

(***************************************************************************)
(* The tree: buildRowFromBuild lists the jobs outside stages by ascending  *)
(* ID, then the stages by ascending ID; buildRowFromStage lists its jobs   *)
(* by ascending ID.                                                        *)
(***************************************************************************)
ById(S, i) == SetToSortSeq(S, LAMBDA x, y : x[i] < y[i])

ChildrenOf(k) ==
    LET b == k[1] IN
    IF k[2] = 0 /\ k[3] = 0
      THEN ById({<<b, 0, p[2]>> : p \in {q \in Shape[b] : q[1] = 0}}, 3)
           \o ById({<<b, p[1], 0>> : p \in {q \in Shape[b] : q[2] = 0}}, 2)
      ELSE IF k[3] = 0
        THEN ById({<<b, k[2], p[2]>> : p \in {q \in Shape[b] :
                                                q[1] = k[2] /\ q[2] # 0}}, 3)
        ELSE <<>>

\* The children of every possible row, computed once.
ChildTable == [k \in AllKeys |-> ChildrenOf(k)]
Children(k) == ChildTable[k]

\* utils.DepthFirstTraversal(node, all): the node, then the subtrees of its
\* children when `all' or the node is traversable.
RECURSIVE Subtree(_, _, _)
Subtree(k, t, all) ==
    LET ch == Children(k) IN
    <<k>> \o IF all \/ t[k]
               THEN FlattenSeq([i \in DOMAIN ch |-> Subtree(ch[i], t, all)])
               ELSE <<>>

Forest(r, t, all) ==
    FlattenSeq([i \in DOMAIN r |-> Subtree(BuildKey(r[i]), t, all)])

TreeKeys(r) == UNION {KeysOf(r[i]) : i \in DOMAIN r}

\* dfsIndex: the 0-based position of a key, and Go's zero value if absent.
Pos(v, k) == IF \E i \in DOMAIN v : v[i] = k
               THEN (CHOOSE i \in DOMAIN v : v[i] = k) - 1
               ELSE 0

\* utils.Bounded and utils.Modulo.
Bounded(a, lo, hi) == IF a < lo THEN lo ELSE IF a > hi THEN hi ELSE a
Modulo(a, b) == a % b

(***************************************************************************)
(* Select (lines 346-400) on the flattened view v: the key, else its stage *)
(* row, else its build row; a window of nbrBefore+nbrAfter+1 rows clamped  *)
(* to the view and shifted rather than shrunk; the anchor's index in it.   *)
(***************************************************************************)
Candidates(k) == <<k, <<k[1], k[2], 0>>, <<k[1], 0, 0>>>>

\* A plausible fault: no second clamp of lower, so the window shrinks at
\* the end of the view instead of shifting up.
SelectInNoShift(v, k, nb, na) ==
    LET c == SelectInSeq(Candidates(k), LAMBDA x : x \in Range(v))
        ki == Pos(v, Candidates(k)[c])
        lower == Bounded(ki - nb, 0, Len(v))
        upper == Bounded(lower + nb + na + 1, 0, Len(v))
    IN CASE Len(v) = 0 -> [ok |-> TRUE, rows |-> <<>>, idx |-> 0]
         [] c = 0 -> [ok |-> FALSE, rows |-> <<>>, idx |-> 0]
         [] OTHER -> [ok |-> TRUE, rows |-> SubSeq(v, lower + 1, upper),
                      idx |-> IF lower <= ki /\ ki < upper THEN ki - lower
                                                           ELSE 0]

SelectIn(v, k, nb, na) ==
    LET c == SelectInSeq(Candidates(k), LAMBDA x : x \in Range(v))
        ki == Pos(v, Candidates(k)[c])
        lower1 == Bounded(ki - nb, 0, Len(v))
        upper == Bounded(lower1 + nb + na + 1, 0, Len(v))
        lower == Bounded(upper - (nb + na + 1), 0, Len(v))
    IN CASE Len(v) = 0 -> [ok |-> TRUE, rows |-> <<>>, idx |-> 0]
         [] c = 0 -> [ok |-> FALSE, rows |-> <<>>, idx |-> 0]
         [] OTHER -> [ok |-> TRUE, rows |-> SubSeq(v, lower + 1, upper),
                      idx |-> IF lower <= ki /\ ki < upper THEN ki - lower
                                                           ELSE 0]

\* The view a query works on: prefixAndIndex (lines 253-270) first runs if
\* the view is stale.  Prefixes are display only and not modelled.
FreshView == IF upToDate THEN dfs ELSE Forest(rows, trav, FALSE)

Refresh ==
    /\ dfs' = FreshView
    /\ upToDate' = TRUE

\* The UI shows the rows a successful query returned, the active one at
\* the returned index; after an error it keeps what it had.
Show(res) ==
    IF res.ok
      THEN /\ win' = res.rows
           /\ cur' = IF res.rows = <<>> THEN NoKey ELSE res.rows[res.idx + 1]
      ELSE UNCHANGED <<win, cur>>

TypeOK ==
    /\ cache \in [BuildIds -> 0..MaxTime]
    /\ rows \in Seq(BuildIds) /\ IsInjective(rows)
    /\ DOMAIN trav = TreeKeys(rows) /\ \A k \in DOMAIN trav : trav[k] \in BOOLEAN
    /\ dfs \in Seq(AllKeys)
    /\ upToDate \in BOOLEAN
    /\ win \in Seq(AllKeys)
    /\ cur \in AllKeys \cup {NoKey}
    /\ panicked \in BOOLEAN

Init ==
    /\ cache = [b \in BuildIds |-> 0]
    /\ rows = <<>>
    /\ trav = [k \in {} |-> FALSE]
    /\ dfs = <<>>
    /\ upToDate = FALSE
    /\ win = <<>>
    /\ cur = NoKey
    /\ panicked = FALSE

(***************************************************************************)
(* Another goroutine's Cache.Save of build b, updated at time t.           *)
(***************************************************************************)
CacheSave(b, t) ==
    /\ cache' = [cache EXCEPT ![b] = t]
    /\ UNCHANGED <<rows, trav, dfs, upToDate, win, cur, panicked>>

(***************************************************************************)
(* FetchRows (lines 214-251): remember every traversable node of the old   *)
(* trees, rebuild one tree per cached build, sort by descending UpdatedAt  *)
(* (sort.Slice is not stable: equal times come in any order), restore the  *)
(* remembered flags by key and invalidate the view.                        *)
(***************************************************************************)
SortedRows ==
    {r \in SetToSeqs({b \in BuildIds : cache[b] > 0}) :
        \A i \in 1..Len(r) - 1 : cache[r[i]] >= cache[r[i + 1]]}

\* A plausible fault: the new rows are appended to s.rows.
FetchRowsAppend ==
    LET kept == {k \in DOMAIN trav : trav[k]} IN
    /\ \E r \in SortedRows :
          /\ rows' = rows \o r
          /\ trav' = [k \in TreeKeys(rows \o r) |-> k \in kept]
    /\ upToDate' = FALSE
    /\ UNCHANGED <<cache, dfs, win, cur, panicked>>

FetchRows ==
    LET kept == {k \in DOMAIN trav : trav[k]} IN
    /\ \E r \in SortedRows :
          /\ rows' = r
          /\ trav' = [k \in TreeKeys(r) |-> k \in kept]
    /\ upToDate' = FALSE
    /\ UNCHANGED <<cache, dfs, win, cur, panicked>>

(***************************************************************************)
(* SetTraversable (lines 107-125): a key of the tree gets the flag, and    *)
(* with `recursive' so does every node below it; the view is invalidated.  *)
(* An unknown key is a no-op.                                              *)
(***************************************************************************)
\* A plausible fault: the view is not marked stale.
SetTraversableKeepView(k, v, recursive) ==
    LET below == IF recursive THEN Range(Subtree(k, trav, TRUE)) ELSE {k} IN
    /\ k \in DOMAIN trav
    /\ trav' = [x \in DOMAIN trav |-> IF x \in below THEN v ELSE trav[x]]
    /\ UNCHANGED <<cache, rows, dfs, upToDate, win, cur, panicked>>

SetTraversable(k, v, recursive) ==
    LET below == IF recursive THEN Range(Subtree(k, trav, TRUE)) ELSE {k} IN
    /\ k \in DOMAIN trav
    /\ trav' = [x \in DOMAIN trav |-> IF x \in below THEN v ELSE trav[x]]
    /\ upToDate' = FALSE
    /\ UNCHANGED <<cache, rows, dfs, win, cur, panicked>>

(***************************************************************************)
(* Select, SelectFirst (lines 322-332) and SelectLast (lines 334-344).     *)
(***************************************************************************)
Select(k, nb, na) ==
    /\ Refresh
    /\ Show(SelectIn(FreshView, k, nb, na))
    /\ UNCHANGED <<cache, rows, trav, panicked>>

\* On an empty view both return no rows and no error.
NoRows == [ok |-> TRUE, rows |-> <<>>, idx |-> 0]

SelectFirst(limit) ==
    LET v == FreshView IN
    /\ Refresh
    /\ Show(IF v = <<>> THEN NoRows ELSE SelectIn(v, v[1], 0, limit - 1))
    /\ UNCHANGED <<cache, rows, trav, panicked>>

SelectLast(limit) ==
    LET v == FreshView IN
    /\ Refresh
    /\ Show(IF v = <<>> THEN NoRows ELSE SelectIn(v, v[Len(v)], limit - 1, 0))
    /\ UNCHANGED <<cache, rows, trav, panicked>>

(***************************************************************************)
(* NextMatch (lines 272-320) for the UI's window: top and bottom are its   *)
(* first and last rows, active its active row.  The scan runs on the       *)
(* flattened view AS IT IS, without prefixAndIndex; the Select it ends     *)
(* with refreshes the view.  `ascending' picks the direction; `typed' is   *)
(* whether the three keys pass the type assertions of lines 273-284.      *)
(***************************************************************************)
\* The indices the scan visits, from just after active round to just
\* before it.
ScanOrder(a, ascending) ==
    [n \in 1..Len(dfs) - 1 |->
        IF ascending THEN Modulo(a + n, Len(dfs)) ELSE Modulo(a - n, Len(dfs))]

\* The new window around the match at i (lines 304-312).
MatchWindow(i, a, t, bt) ==
    LET nbrRows == bt - t + 1 IN
    IF i > a
      THEN LET mx == Max({bt, i}) IN <<Max({t, mx - nbrRows + 1}), mx>>
      ELSE LET mn == Min({t, i}) IN <<mn, Min({bt, mn + nbrRows - 1})>>

NextMatch(ascending, typed) ==
    LET top == IF win = <<>> THEN NoKey ELSE win[1]
        bottom == IF win = <<>> THEN NoKey ELSE win[Len(win)]
        a == Pos(dfs, cur)
        order == ScanOrder(a, ascending)
        n == SelectInSeq(order, LAMBDA i : dfs[i + 1] \in Matching)
        i == order[n]
        w == MatchWindow(i, a, Pos(dfs, top), Pos(dfs, bottom))
    IN
    /\ \/ /\ ~typed                  \* a key is not a buildRowKey: error
          /\ UNCHANGED <<dfs, upToDate, win, cur, panicked>>
       \/ /\ typed /\ dfs = <<>>      \* utils.Modulo(_, 0) divides by zero
          /\ panicked' = TRUE
          /\ UNCHANGED <<dfs, upToDate, win, cur>>
       \/ /\ typed /\ dfs # <<>> /\ n = 0   \* ErrNoMatchFound
          /\ UNCHANGED <<dfs, upToDate, win, cur, panicked>>
       \/ /\ typed /\ n # 0
          /\ Refresh
          /\ Show(SelectIn(FreshView, dfs[i + 1], i - w[1], w[2] - i))
          /\ UNCHANGED panicked
    /\ UNCHANGED <<cache, rows, trav>>

\* The UI starts from SelectFirst or SelectLast and afterwards passes the
\* keys of the rows it displays; every query fills its window of Height
\* rows, with nbrBefore + nbrAfter + 1 = Height.  With nothing displayed
\* it passes NextMatch the zero buildRowKey, or a value of another type.
\* After a panic the program has stopped: no step follows.
Next ==
    /\ ~panicked
    /\ \/ \E b \in BuildIds, t \in 1..MaxTime : CacheSave(b, t)
       \/ FetchRows
       \/ \E k \in Range(win), v, r \in BOOLEAN : SetTraversable(k, v, r)
       \/ \E k \in Range(win), nb \in 0..Height - 1 :
             Select(k, nb, Height - 1 - nb)
       \/ SelectFirst(Height) \/ SelectLast(Height)
       \/ \E asc \in BOOLEAN, typed \in IF win = <<>> THEN BOOLEAN ELSE {TRUE} :
             NextMatch(asc, typed)

Spec == Init /\ [][Next]_vars

-----------------------------------------------------------------------------
(***************************************************************************)
(* Properties                                                              *)
(***************************************************************************)
\* The memoised view is never used while out of date: whenever
\* dfsUpToDate holds, dfsTraversal is exactly the rows the tree shows
\* under the current flags.
ViewIsCurrent ==
    upToDate => dfs = Forest(rows, trav, FALSE)

\* A window query returns the full number of rows asked for, or the whole
\* view when it is shorter: a window clamped at an end of the view shifts
\* instead of shrinking.  Select and its kin ask for Height rows, NextMatch
\* for as many as the UI shows.
FullWindow(want) == Len(win') = Min({want, Len(dfs')})

WindowIsFull ==
    [][win' # win => FullWindow(Height) \/ FullWindow(Len(win))]_vars

\* The first row after (or before) the active one, circularly, that
\* matches; NoKey if none but the active row matches.
NextMatching(v, a, ascending) ==
    LET order == [n \in 1..Len(v) - 1 |->
                    IF ascending THEN (a + n) % Len(v) ELSE (a - n) % Len(v)]
        n == SelectInSeq(order, LAMBDA i : v[i + 1] \in Matching)
    IN IF n = 0 THEN NoKey ELSE v[order[n] + 1]

\* Search: NextMatch moves the active row to the next matching row, after
\* or before it circularly, of the view the UI now shows, and with no
\* other match nothing moves.  The spec (4.2) has every query refresh a
\* stale view first, so this holds after a collapse, an expansion or a
\* FetchRows too.  (A search that panics is the subject of NoPanic.)
SearchFindsShownMatch ==
    [][\A asc \in BOOLEAN :
         NextMatch(asc, TRUE) /\ ~panicked' =>
           LET v == Forest(rows, trav, FALSE)
               target == NextMatching(v, Pos(v, cur), asc)
           IN IF target = NoKey THEN UNCHANGED <<win, cur>>
                                ELSE cur' = target]_vars

\* NextMatch never crashes the program: the spec (4.4, and section 8) has a
\* search that finds nothing end with the no-match condition, while
\* utils.Modulo(_, len(s.dfsTraversal)) at lines 289 and 293 runs before
\* the loop, also on an empty flattened view.
NoPanic ==
    ~panicked

=============================================================================
