----------------------------- MODULE RefreshSpec -----------------------------
(***************************************************************************)
(* What Cache.UpdateFromProviders (src/unnamed/part_000 lines 249-307)    *)
(* promises its caller, with the goroutines abstracted away: while the    *)
(* call runs, builds of the providers are saved into the cache one at a   *)
(* time; then the call returns, once, with an error, and saves no more.   *)
(* ErrRepositoryNotFound means that no provider knew the repository, so  *)
(* nothing was saved.  The call always returns.                           *)
(***************************************************************************)
CONSTANTS Providers, BuildIds

VARIABLES cache, done, result

avars == <<cache, done, result>>

Keys == Providers \X BuildIds
Results == {"nil", "notfound", "provider", "save", "canceled"}

Init ==
    /\ cache = {}
    /\ done = FALSE
    /\ result = "nil"

\* A consumer's c.Save of build k.
Save(k) ==
    /\ ~done
    /\ cache' = cache \cup {k}
    /\ UNCHANGED <<done, result>>

\* UpdateFromProviders returns e.
Finish(e) ==
    /\ ~done
    /\ e = "notfound" => cache = {}
    /\ done' = TRUE
    /\ result' = e
    /\ UNCHANGED cache

Next == (\E k \in Keys : Save(k)) \/ (\E e \in Results : Finish(e))

Spec == Init /\ [][Next]_avars /\ WF_avars(\E e \in Results : Finish(e))

=============================================================================
