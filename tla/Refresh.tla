------------------------------ MODULE Refresh ------------------------------
(***************************************************************************)
(* Cache.UpdateFromProviders (src/unnamed/part_000, lines 249-307): the    *)
(* multi-provider refresh.  For every provider p the code runs two         *)
(* goroutines: a producer that calls p.Builds and streams builds on the    *)
(* unbuffered channel buildc, then sends its terminal error on the shared  *)
(* unbuffered channel errc; and a consumer that ranges over buildc, calls  *)
(* Cache.Save for every build and starts a notifier goroutine per saved    *)
(* build.  A supervisor closes errc once the WaitGroup is empty, and the   *)
(* caller drains errc, counting ErrRepositoryNotFound and cancelling the   *)
(* sub-context on the first other error.                                   *)
(*                                                                         *)
(* Data abstraction: a build is its cache key and whether Save accepts it  *)
(* (build.Repository # nil).  The cache is the set of keys saved.  An      *)
(* error is one of the kinds below; the provider's network work is a      *)
(* nondeterministic choice of what it streams and what it returns.         *)
(***************************************************************************)
EXTENDS Naturals, FiniteSets

CONSTANTS
    Providers,   \* the registered providers (c.providers), model values
    BuildIds,    \* build identifiers a provider may stream, per provider
    Limit        \* the `limit' argument: most builds one provider streams

ASSUME Providers # {} /\ BuildIds # {} /\ Limit \in Nat \ {0}

VARIABLES
    cache,       \* keys of the builds Save has stored (c.builds)
    prod,        \* producer goroutine of each provider: control point
    out,         \* the build a producer is blocked sending on buildc
    sent,        \* builds each producer has handed over on buildc
    perr,        \* the error each producer returned from p.Builds
    cons,        \* consumer goroutine of each provider: control point
    held,        \* the build a consumer received and is saving
    main,        \* the caller of UpdateFromProviders: control point
    notFound,    \* the caller's count of ErrRepositoryNotFound
    result,      \* the caller's err
    ctxDone,     \* subCtx is cancelled
    parentDone,  \* the caller's ctx was cancelled by the caller
    notifiers,   \* notifier goroutines still blocked in their select
    streamed     \* history: every build handed over on some buildc

vars == <<cache, prod, out, sent, perr, cons, held, main, notFound, result,
          ctxDone, parentDone, notifiers, streamed>>

\* Build keys are (account, build id); the account is the provider's own.
Keys == Providers \X BuildIds
Builds == [key : Keys, valid : BOOLEAN]
NoBuild == [key |-> <<>>, valid |-> FALSE]

\* Errors: nil, ErrRepositoryNotFound, another provider error, a Save
\* error, and the context error a provider returns once subCtx is done.
Errors == {"nil", "notfound", "provider", "save", "canceled"}
Fatal(e) == e \notin {"nil", "notfound"}

NbProviders == Cardinality(Providers)
NotifierBound == NbProviders * Limit

TypeOK ==
    /\ cache \subseteq Keys
    /\ prod \in [Providers -> {"fetching", "sending", "reporting", "done"}]
    /\ out \in [Providers -> Builds \cup {NoBuild}]
    /\ sent \in [Providers -> 0..Limit]
    /\ perr \in [Providers -> Errors]
    /\ cons \in [Providers -> {"receiving", "saving", "reporting", "done",
                               "failed"}]
    /\ held \in [Providers -> Builds \cup {NoBuild}]
    /\ main \in {"draining", "returned"}
    /\ notFound \in 0..NbProviders
    /\ result \in Errors
    /\ ctxDone \in BOOLEAN /\ parentDone \in BOOLEAN
    /\ notifiers \in 0..NotifierBound
    /\ streamed \subseteq Builds

Init ==
    /\ cache = {}
    /\ prod = [p \in Providers |-> "fetching"]
    /\ out = [p \in Providers |-> NoBuild]
    /\ sent = [p \in Providers |-> 0]
    /\ perr = [p \in Providers |-> "nil"]
    /\ cons = [p \in Providers |-> "receiving"]
    /\ held = [p \in Providers |-> NoBuild]
    /\ main = "draining"
    /\ notFound = 0
    /\ result = "nil"
    /\ ctxDone = FALSE /\ parentDone = FALSE
    /\ notifiers = 0
    /\ streamed = {}

(***************************************************************************)
(* Faults a change of the drain loop could introduce: counting one         *)
(* ErrRepositoryNotFound as all of them, keeping the last error instead    *)
(* of the first, not cancelling subCtx on a fatal error.                   *)
(***************************************************************************)
ReceiveAnyNotFound(e) ==
    CASE e = "nil" -> UNCHANGED <<notFound, result, ctxDone>>
      [] e = "notfound" ->
           /\ notFound' = notFound + 1
           /\ result' = "notfound"
           /\ UNCHANGED ctxDone
      [] OTHER ->
           /\ ctxDone' = TRUE
           /\ result' = IF result = "nil" THEN e ELSE result
           /\ UNCHANGED notFound

ReceiveLastError(e) ==
    CASE e = "nil" -> UNCHANGED <<notFound, result, ctxDone>>
      [] e = "notfound" ->
           /\ notFound' = notFound + 1
           /\ result' = IF notFound + 1 = NbProviders THEN "notfound"
                                                      ELSE result
           /\ UNCHANGED ctxDone
      [] OTHER ->
           /\ ctxDone' = TRUE
           /\ result' = e
           /\ UNCHANGED notFound

ReceiveNoCancel(e) ==
    CASE e = "nil" -> UNCHANGED <<notFound, result, ctxDone>>
      [] e = "notfound" ->
           /\ notFound' = notFound + 1
           /\ result' = IF notFound + 1 = NbProviders THEN "notfound"
                                                      ELSE result
           /\ UNCHANGED ctxDone
      [] OTHER ->
           /\ result' = IF result = "nil" THEN e ELSE result
           /\ UNCHANGED <<notFound, ctxDone>>

(***************************************************************************)
(* The body of `for e := range errc' (lines 290-304) applied to e.         *)
(***************************************************************************)
Receive(e) ==
    CASE e = "nil" -> UNCHANGED <<notFound, result, ctxDone>>
      [] e = "notfound" ->
           /\ notFound' = notFound + 1
           /\ result' = IF notFound + 1 = NbProviders THEN "notfound"
                                                      ELSE result
           /\ UNCHANGED ctxDone
      [] OTHER ->
           /\ ctxDone' = TRUE
           /\ result' = IF result = "nil" THEN e ELSE result
           /\ UNCHANGED notFound

(***************************************************************************)
(* Producer: p.Builds(subCtx, ...) streams up to Limit builds of its own   *)
(* account, each send being a select on buildc and subCtx.Done().          *)
(***************************************************************************)
\* A plausible fault: a provider that ignores `limit'.
ProducerFetchNoLimit(p, b) ==
    /\ prod[p] = "fetching"
    /\ b.key[1] = p
    /\ prod' = [prod EXCEPT ![p] = "sending"]
    /\ out' = [out EXCEPT ![p] = b]
    /\ UNCHANGED <<cache, sent, perr, cons, held, main, notFound, result,
                   ctxDone, parentDone, notifiers, streamed>>

ProducerFetch(p, b) ==
    /\ prod[p] = "fetching"
    /\ sent[p] < Limit
    /\ b.key[1] = p
    /\ prod' = [prod EXCEPT ![p] = "sending"]
    /\ out' = [out EXCEPT ![p] = b]
    /\ UNCHANGED <<cache, sent, perr, cons, held, main, notFound, result,
                   ctxDone, parentDone, notifiers, streamed>>

\* p.Builds returns.  ErrRepositoryNotFound is returned for a repository
\* the provider does not know, hence before it streamed anything; the
\* context error only once subCtx is cancelled.
ProducerReturn(p, e) ==
    /\ prod[p] = "fetching"
    /\ \/ e \in {"nil", "provider"}
       \/ e = "notfound" /\ sent[p] = 0
       \/ e = "canceled" /\ ctxDone
    /\ prod' = [prod EXCEPT ![p] = "reporting"]
    /\ perr' = [perr EXCEPT ![p] = e]
    /\ UNCHANGED <<cache, out, sent, cons, held, main, notFound, result,
                   ctxDone, parentDone, notifiers, streamed>>

\* The unbuffered send on buildc meets the consumer's receive.
Handover(p) ==
    /\ prod[p] = "sending"
    /\ cons[p] = "receiving"
    /\ prod' = [prod EXCEPT ![p] = "fetching"]
    /\ out' = [out EXCEPT ![p] = NoBuild]
    /\ sent' = [sent EXCEPT ![p] = @ + 1]
    /\ cons' = [cons EXCEPT ![p] = "saving"]
    /\ held' = [held EXCEPT ![p] = out[p]]
    /\ streamed' = streamed \cup {out[p]}
    /\ UNCHANGED <<cache, perr, main, notFound, result, ctxDone, parentDone,
                   notifiers>>

\* The select of a blocked send takes subCtx.Done(): p.Builds returns
\* the context error.
ProducerAbort(p) ==
    /\ prod[p] = "sending"
    /\ ctxDone
    /\ prod' = [prod EXCEPT ![p] = "reporting"]
    /\ out' = [out EXCEPT ![p] = NoBuild]
    /\ perr' = [perr EXCEPT ![p] = "canceled"]
    /\ UNCHANGED <<cache, sent, cons, held, main, notFound, result, ctxDone,
                   parentDone, notifiers, streamed>>

\* `errc <- p.Builds(...)' meets the caller's receive; the deferred
\* close(buildc) and wg.Done() follow.
ProducerReport(p) ==
    /\ prod[p] = "reporting"
    /\ main = "draining"
    /\ Receive(perr[p])
    /\ prod' = [prod EXCEPT ![p] = "done"]
    /\ UNCHANGED <<cache, out, sent, perr, cons, held, main, parentDone,
                   notifiers, streamed>>

(***************************************************************************)
(* Consumer: `for build := range buildc' with c.Save and a notifier.       *)
(***************************************************************************)
\* c.Save (lines 186-213) under c.mutex: a build without a Repository is
\* refused; otherwise it replaces the entry of its key and a notifier
\* goroutine is started.  A refused build sends the error on errc.
ConsumerSave(p) ==
    /\ cons[p] = "saving"
    /\ IF held[p].valid
         THEN /\ cache' = cache \cup {held[p].key}
              /\ notifiers' = notifiers + 1
              /\ cons' = [cons EXCEPT ![p] = "receiving"]
         ELSE /\ cons' = [cons EXCEPT ![p] = "reporting"]
              /\ UNCHANGED <<cache, notifiers>>
    /\ held' = [held EXCEPT ![p] = NoBuild]
    /\ UNCHANGED <<prod, out, sent, perr, main, notFound, result, ctxDone,
                   parentDone, streamed>>

\* `errc <- err; return' after a failed Save: buildc is not drained.
ConsumerReport(p) ==
    /\ cons[p] = "reporting"
    /\ main = "draining"
    /\ Receive("save")
    /\ cons' = [cons EXCEPT ![p] = "failed"]
    /\ UNCHANGED <<cache, prod, out, sent, perr, held, main, parentDone,
                   notifiers, streamed>>

\* The range loop ends when the producer has closed buildc.
ConsumerExit(p) ==
    /\ cons[p] = "receiving"
    /\ prod[p] = "done"
    /\ cons' = [cons EXCEPT ![p] = "done"]
    /\ UNCHANGED <<cache, prod, out, sent, perr, held, main, notFound, result,
                   ctxDone, parentDone, notifiers, streamed>>

(***************************************************************************)
(* Notifier: select { case updates <- time.Now(): case <-subCtx.Done(): }  *)
(***************************************************************************)
\* The UI takes the update; it is under no obligation to ever do so.
NotifierDeliver ==
    /\ notifiers > 0
    /\ notifiers' = notifiers - 1
    /\ UNCHANGED <<cache, prod, out, sent, perr, cons, held, main, notFound,
                   result, ctxDone, parentDone, streamed>>

NotifierDrop ==
    /\ notifiers > 0
    /\ ctxDone
    /\ notifiers' = notifiers - 1
    /\ UNCHANGED <<cache, prod, out, sent, perr, cons, held, main, notFound,
                   result, ctxDone, parentDone, streamed>>

(***************************************************************************)
(* The supervisor's wg.Wait(); close(errc) ends the caller's range loop;   *)
(* UpdateFromProviders returns err and its deferred cancel() runs.         *)
(***************************************************************************)
\* Faults: a WaitGroup that only counts the producers; no deferred cancel.
ReturnBeforeConsumers ==
    /\ main = "draining"
    /\ \A p \in Providers : prod[p] = "done"
    /\ main' = "returned"
    /\ ctxDone' = TRUE
    /\ UNCHANGED <<cache, prod, out, sent, perr, cons, held, notFound, result,
                   parentDone, notifiers, streamed>>

ReturnNoCancel ==
    /\ main = "draining"
    /\ \A p \in Providers : prod[p] = "done" /\ cons[p] \in {"done", "failed"}
    /\ main' = "returned"
    /\ UNCHANGED <<cache, prod, out, sent, perr, cons, held, notFound, result,
                   ctxDone, parentDone, notifiers, streamed>>

Return ==
    /\ main = "draining"
    /\ \A p \in Providers : prod[p] = "done" /\ cons[p] \in {"done", "failed"}
    /\ main' = "returned"
    /\ ctxDone' = TRUE
    /\ UNCHANGED <<cache, prod, out, sent, perr, cons, held, notFound, result,
                   parentDone, notifiers, streamed>>

\* The caller cancels the ctx it passed in.
ParentCancel ==
    /\ ~parentDone
    /\ parentDone' = TRUE
    /\ ctxDone' = TRUE
    /\ UNCHANGED <<cache, prod, out, sent, perr, cons, held, main, notFound,
                   result, notifiers, streamed>>

\* Every goroutine has ended: the only remaining behaviour is stuttering.
Finished ==
    /\ main = "returned"
    /\ notifiers = 0
    /\ UNCHANGED vars

Next ==
    \/ \E p \in Providers :
          \/ \E b \in Builds : ProducerFetch(p, b)
          \/ \E e \in Errors : ProducerReturn(p, e)
          \/ Handover(p) \/ ProducerAbort(p) \/ ProducerReport(p)
          \/ ConsumerSave(p) \/ ConsumerReport(p) \/ ConsumerExit(p)
    \/ NotifierDeliver \/ NotifierDrop
    \/ Return \/ ParentCancel
    \/ Finished

(***************************************************************************)
(* Fairness: the Go scheduler eventually runs every runnable goroutine,    *)
(* and a provider's network calls end (bounded by Limit and the HTTP      *)
(* client's timeout).  The UI reading `updates' and the caller cancelling  *)
(* its context are not obliged to happen.                                  *)
(***************************************************************************)
Fairness ==
    /\ \A p \in Providers :
          /\ WF_vars(\E e \in Errors : ProducerReturn(p, e))
          /\ WF_vars(Handover(p)) /\ WF_vars(ProducerAbort(p))
          /\ WF_vars(ProducerReport(p))
          /\ WF_vars(ConsumerSave(p)) /\ WF_vars(ConsumerReport(p))
          /\ WF_vars(ConsumerExit(p))
    /\ WF_vars(NotifierDrop)
    /\ WF_vars(Return)

Spec == Init /\ [][Next]_vars /\ Fairness

-----------------------------------------------------------------------------
(***************************************************************************)
(* Properties                                                              *)
(***************************************************************************)
Returned == main = "returned"
SaveFailed(p) == cons[p] = "failed"

\* The result of UpdateFromProviders reflects what every provider did: it
\* is ErrRepositoryNotFound exactly when every provider reported it, nil
\* exactly when no provider and no Save failed and some provider knew the
\* repository, and otherwise one of the errors that was reported.
ResultReflectsProviders ==
    Returned =>
      /\ result = "notfound" <=> \A p \in Providers : perr[p] = "notfound"
      /\ result = "nil" <=>
            /\ \A p \in Providers : ~Fatal(perr[p]) /\ ~SaveFailed(p)
            /\ \E p \in Providers : perr[p] = "nil"
      /\ Fatal(result) =>
            \E p \in Providers : perr[p] = result
                                 \/ (result = "save" /\ SaveFailed(p))

\* The error returned is the root cause, never the context error that
\* the fail-fast cancel() provokes in the other providers: the result is
\* context.Canceled only when the caller itself cancelled.
RootCauseReported ==
    Returned /\ result = "canceled" => parentDone

\* A refresh that returns nil has stored every build a provider streamed.
NilMeansComplete ==
    Returned /\ result = "nil" => {b.key : b \in streamed} \subseteq cache

\* UpdateFromProviders returns, whatever the providers and Save do: no
\* producer stays blocked on a buildc that its failed consumer left.
EventuallyReturns == <>Returned

\* Every notifier goroutine ends, even if the UI never reads `updates'.
NoNotifierLeak == <>[](notifiers = 0)

(***************************************************************************)
(* Refinement: the goroutines implement the atomic specification of       *)
(* RefreshSpec.  The call is done once `main' returned, and its result is *)
(* visible only then: before, the drain loop's `err' is internal.          *)
(***************************************************************************)
Abstract == INSTANCE RefreshSpec
    WITH done <- Returned,
         result <- IF Returned THEN result ELSE "nil"

\* UpdateFromProviders implements RefreshSpec: saves only while running,
\* one return, not-found only with nothing saved, and it always returns.
RefinesSpec == Abstract!Spec

=============================================================================
