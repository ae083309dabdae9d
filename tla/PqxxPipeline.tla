----------------------------- MODULE PqxxPipeline -----------------------------
(***************************************************************************)
(* libpqxx: pipeline, which sends queries in batches and hands out their   *)
(* results.  While it is attached nothing else can use its transaction.    *)
(* Iterators into m_queries are query ids, and its end is End.  A lost     *)
(* connection is left out here.                                            *)
(***************************************************************************)
EXTENDS Integers, Sequences, FiniteSets

CONSTANT MaxQueries     \* bound: queries of a pipeline

VARIABLE pipe

ASSUME PipelineAssumption == MaxQueries \in Nat \ {0}

End == MaxQueries + 1
qid_limit == MaxQueries + 2

\* What a query makes the server do: succeed, fail when it is executed, or not parse.
Queries == {"good", "bad", "syntax"}

\* A result: of which query it is (0 of the dummy), whether it is one of success, and the
\* query that it names as its own.
PipeResult(of, ok) == [of |-> of, ok |-> ok, names |-> 0]
NoResult == PipeResult(0, FALSE)

NoPipe ==
    [alive |-> FALSE, registered |-> FALSE,
     block |-> FALSE,       \* whether it is in a transaction, and not in a nontransaction
     queries |-> [q \in {} |-> "good"], res |-> [q \in {} |-> NoResult],
     first |-> End, second |-> End, retain |-> 0, waiting |-> 0, q_id |-> 0, dummy |-> FALSE,
     error |-> qid_limit, thrown |-> "none",
     \* libpq and the server: the results to come, a command not yet ended, a transaction
     \* that has failed, how often each query took effect.
     wire |-> <<>>, busy |-> FALSE, failed |-> FALSE, effects |-> [q \in 1 .. MaxQueries |-> 0],
     told |-> {}]

PipeInit == pipe = NoPipe

(***************************************************************************)
(* The server (external).                                                  *)
(***************************************************************************)
\* The results of queries q that are sent as one text, dummy first if there are several.
BatchResults(p, ids) ==
    LET several == Len(ids) > 1
        bad == {k \in DOMAIN ids : p.queries[ids[k]] = "bad"}
        stop == IF bad = {} THEN Len(ids) ELSE CHOOSE k \in bad : \A j \in bad : k <= j
        dummy == IF several THEN <<PipeResult(0, TRUE)>> ELSE <<>>
    IN  IF p.failed \/ \E k \in DOMAIN ids : p.queries[ids[k]] = "syntax"
        THEN <<PipeResult(IF several THEN 0 ELSE ids[1], FALSE)>>
        ELSE dummy \o [k \in 1 .. stop |-> PipeResult(ids[k], k \notin bad)]

\* A text of several queries outside a transaction is a transaction of its own.
SendQuery(p, ids) ==
    LET results == BatchResults(p, ids)
        fails == \E k \in DOMAIN results : ~results[k].ok
        done == {results[k].of : k \in {k \in DOMAIN results : results[k].ok}}
    IN  [p EXCEPT !.wire = results, !.busy = TRUE, !.failed = @ \/ (fails /\ p.block),
                  !.effects = [q \in DOMAIN @ |-> IF q \in done /\ (p.block \/ ~fails) THEN @[q] + 1 ELSE @[q]]]

(***************************************************************************)
(* Helpers.                                                                *)
(***************************************************************************)
\* The query after q, and the first, in m_queries.
After(p, q) ==
    LET later == {r \in DOMAIN p.queries : r > q}
    IN  IF later = {} THEN End ELSE CHOOSE r \in later : \A s \in later : r <= s
Oldest(p) == After(p, 0)
Between(p, a, b) == Cardinality({q \in DOMAIN p.queries : a <= q /\ q < b})

HavePending(p) == p.second # p.first
SetErrorAt(p, q) == [p EXCEPT !.error = IF q < @ THEN q ELSE @]
Throw(p, what) == [p EXCEPT !.thrown = what]
Ended(p) == p.thrown # "none"
InternalError(p) == Throw(SetErrorAt(p, 0), "internal_error")
Erased(p, qs) ==
    [p EXCEPT !.queries = [r \in DOMAIN @ \ qs |-> @[r]], !.res = [r \in DOMAIN @ \ qs |-> @[r]]]

(***************************************************************************)
(* Receiving.  A result is the state of the pipeline and whether there was *)
(* a result.                                                               *)
(***************************************************************************)
Got(p, ok) == [p |-> p, ok |-> ok]

\* The result goes to the oldest pending query, and names the oldest in the pipeline.
\* Mutant: it goes to the query that is the oldest in the pipeline.
MutantTakeResult(p, r) ==
    [p EXCEPT !.res[Oldest(p)] = [r EXCEPT !.names = Oldest(p)], !.first = After(p, @)]
TakeResult(p, r) ==
    [p EXCEPT !.res[p.first] = [r EXCEPT !.names = Oldest(p)], !.first = After(p, @)]
\* obtain_result.
ObtainResult(p, expect_none) ==
    LET taken == [p EXCEPT !.wire = Tail(@)]
        none == [p EXCEPT !.busy = FALSE]
    IN  CASE p.wire = <<>> ->
                Got(IF HavePending(p) /\ ~expect_none
                    THEN [SetErrorAt(none, p.first) EXCEPT !.second = p.first] ELSE none, FALSE)
          [] p.wire # <<>> /\ ~HavePending(p) ->
                Got(Throw(SetErrorAt(taken, Oldest(p)), "logic_error"), FALSE)
          [] p.wire # <<>> /\ HavePending(p) /\ p.res[p.first].ok -> Got(InternalError(taken), FALSE)
          [] OTHER -> Got(TakeResult(taken, Head(p.wire)), TRUE)

\* The queries of a failed batch are executed one at a time, up to the one that fails.
ReplayOne(p, stop) ==
    LET q == p.first
        r == [PipeResult(q, TRUE) EXCEPT !.names = q]
        next == After(p, q)
        sent == [p EXCEPT !.waiting = @ - 1]
    IN  IF p.queries[q] = "good" /\ ~p.failed
        THEN Got([sent EXCEPT !.res[q] = r, !.first = next, !.effects[q] = @ + 1], next # stop)
        ELSE Got(SetErrorAt([sent EXCEPT !.first = next, !.second = next, !.failed = @ \/ p.block],
                            IF next = End THEN q + 1 ELSE next), FALSE)
Replay(p, stop) ==
    LET round[n \in Nat] ==
            IF n = 0 THEN Got(p, TRUE)
            ELSE IF round[n - 1].ok THEN ReplayOne(round[n - 1].p, stop) ELSE round[n - 1]
    IN  round[MaxQueries].p

\* obtain_dummy: if the dummy failed, so did the whole batch.
ObtainDummy(p) ==
    LET r == Head(p.wire)
        seen == [p EXCEPT !.dummy = FALSE, !.wire = Tail(@)]
        marked == [seen EXCEPT !.res = [q \in DOMAIN @ |->
                      IF p.first <= q /\ q < p.second THEN r ELSE @[q]]]
        drained == ObtainResult(marked, TRUE).p
        again == [drained EXCEPT !.waiting = @ + Between(p, p.first, p.second),
                                 !.second = p.first, !.registered = FALSE]
    IN  CASE p.wire = <<>> -> InternalError([p EXCEPT !.dummy = FALSE, !.busy = FALSE])
          [] p.wire # <<>> /\ r.ok -> seen
          [] OTHER -> IF Ended(drained) THEN drained ELSE Replay(again, p.second)

\* At most n results are taken, until there is none or the query at stop is the next.
TakeOne(p, stop) ==
    LET g == ObtainResult(p, FALSE)
    IN  Got(g.p, g.ok /\ g.p.first # stop)
Obtained(p, stop, n) ==
    LET round[k \in Nat] ==
            IF k = 0 THEN Got(p, TRUE)
            ELSE IF round[k - 1].ok THEN TakeOne(round[k - 1].p, stop) ELSE round[k - 1]
    IN  round[n].p

\* get_further_available_results: available says how many results have arrived.
GetFurther(p, available) == Obtained(p, 0, available)

WithDummy(p) == IF p.dummy THEN ObtainDummy(p) ELSE p
ReceiveIfAvailable(p, available) ==
    IF available = 0 THEN p
    ELSE LET d == WithDummy(p)
         IN  IF ~Ended(d) /\ HavePending(d) THEN GetFurther(d, available) ELSE d

\* receive: up to stop, and what has arrived after it.
ReceiveTo(p, stop) == Obtained(p, stop, Len(p.wire) + 1)
ReceiveBeyond(p, stop, available) ==
    IF ~Ended(p) /\ p.first = stop THEN GetFurther(p, available) ELSE p
Receive(p, stop, available) ==
    LET d == WithDummy(p)
    IN  IF Ended(d) THEN d ELSE ReceiveBeyond(ReceiveTo(d, stop), stop, available)

(***************************************************************************)
(* Issuing.                                                                *)
(***************************************************************************)
InSequence(p, from) ==
    LET at[k \in Nat] == IF k <= 1 THEN from ELSE After(p, at[k - 1])
    IN  [k \in 1 .. Between(p, from, End) |-> at[k]]
\* Mutant: from the oldest query in the pipeline on.
MutantNotIssued(p) == InSequence(p, Oldest(p))
\* From the oldest query that is not in the issued range on.
NotIssued(p) == InSequence(p, p.second)
\* The n queries from the end of the issued range on have been sent.
Issued(p, n) ==
    [p EXCEPT !.dummy = n > 1, !.first = p.second, !.second = End, !.waiting = @ - n]
\* issue: everything not issued yet, after the end of the last command was seen.
Issue(p) ==
    LET seen == ObtainResult(p, FALSE).p
        ids == NotIssued(seen)
    IN  CASE Ended(seen) \/ seen.error < qid_limit -> seen
          [] ~Ended(seen) /\ seen.error = qid_limit /\ seen.busy -> Throw(seen, "failure")
          [] OTHER -> Issued(SendQuery(seen, ids), Len(ids))
IssueUnlessPending(p) == IF Ended(p) \/ HavePending(p) THEN p ELSE Issue(p)

(***************************************************************************)
(* The client's calls.  The answers that have arrived are chosen freely.   *)
(***************************************************************************)
Arrived == 0 .. MaxQueries + 1
Calls == pipe.alive
Attached(p) == [p EXCEPT !.registered = TRUE, !.thrown = "none"]
Calling == [pipe EXCEPT !.thrown = "none"]

Start(block) ==
    /\ ~pipe.alive /\ pipe.q_id = 0
    /\ pipe' = [NoPipe EXCEPT !.alive = TRUE, !.registered = TRUE, !.block = block]

\* insert.
Added(p, sql) ==
    LET q == p.q_id + 1
        atEnd == p.second = End
    IN  [Attached(p) EXCEPT
            !.q_id = q, !.waiting = @ + 1,
            !.queries = [r \in DOMAIN @ \cup {q} |-> IF r = q THEN sql ELSE @[r]],
            !.res = [r \in DOMAIN @ \cup {q} |-> IF r = q THEN NoResult ELSE @[r]],
            !.second = IF atEnd THEN q ELSE @,
            !.first = IF atEnd /\ @ = End THEN q ELSE @]
Insert(sql, available) ==
    /\ Calls /\ pipe.q_id < MaxQueries
    /\ LET p == Added(pipe, sql)
       IN  pipe' = IF p.waiting <= p.retain THEN p
                   ELSE IssueUnlessPending(IF HavePending(p) THEN ReceiveIfAvailable(p, available) ELSE p)

\* resume, and retain, which calls it.
ResumeIssued(p, available) == IF Ended(p) THEN p ELSE ReceiveIfAvailable(p, available)
ResumeReceived(p, available) ==
    IF Ended(p) \/ HavePending(p) \/ p.waiting = 0 THEN p ELSE ResumeIssued(Issue(p), available)
Resumed(p, available) ==
    ResumeReceived(IF HavePending(p) THEN ReceiveIfAvailable(p, available) ELSE p, available)
Resume(available) == Calls /\ pipe' = Resumed(Calling, available)
Retain(n, available) ==
    /\ Calls
    /\ LET p == [Calling EXCEPT !.retain = n]
       IN  pipe' = IF p.waiting >= n THEN Resumed(p, available) ELSE p

\* complete, which ends with detach unless something was thrown.
Detached(p) == IF Ended(p) THEN p ELSE [p EXCEPT !.registered = FALSE]
ReceivePending(p, available) == IF HavePending(p) THEN Receive(p, p.second, available) ELSE p
CompleteIssued(p, available) == IF Ended(p) THEN p ELSE Receive(p, End, available)
CompleteReceived(p, available) ==
    IF Ended(p) \/ p.waiting = 0 \/ p.error # qid_limit THEN p ELSE CompleteIssued(Issue(p), available)
Complete(available) ==
    Calls /\ pipe' = Detached(CompleteReceived(ReceivePending(Calling, available), available))

\* flush forgets the queries, but not the error.
Emptied(p) ==
    IF Ended(p) THEN p
    ELSE [p EXCEPT !.queries = NoPipe.queries, !.res = NoPipe.res, !.first = End, !.second = End,
                   !.waiting = 0, !.dummy = FALSE]
Flush(available) ==
    /\ Calls
    /\ pipe' = Detached(IF DOMAIN pipe.queries = {} THEN Calling
                        ELSE Emptied(ReceivePending(Calling, available)))

\* cancel: pending queries are forgotten; here the server has executed them already.
Pending(p) == {q \in DOMAIN p.queries : p.first <= q /\ q < p.second}
Cancelled(p) == [Erased(p, Pending(p)) EXCEPT !.first = p.second]
Cancel == Calls /\ pipe' = Cancelled(Calling)
DestroyPipe == Calls /\ pipe' = [Cancelled(Calling) EXCEPT !.alive = FALSE, !.registered = FALSE]

\* retrieve: issues and receives the query first if need be.
IssueWanted(p, toIssue) ==
    IF toIssue /\ ~Ended(p) /\ p.error = qid_limit THEN Issue(p) ELSE p
ReceiveWanted(p, q, available) ==
    CASE Ended(p) \/ ~HavePending(p) -> p
      [] ~Ended(p) /\ HavePending(p) /\ q >= p.first -> Receive(p, After(p, q), available)
      [] OTHER -> ReceiveIfAvailable(p, available)
Wanted(p, q, available) ==
    LET toIssue == p.second # End /\ q >= p.second
    IN  ReceiveWanted(IssueWanted(IF toIssue THEN ReceivePending(p, available) ELSE p, toIssue),
                      q, available)
\* What retrieve returns is the result if it is one of success, else it throws.
Returned(p, q) ==
    LET r == p.res[q]
        gone == Erased(p, {q})
    IN  CASE Ended(p) -> p
          [] ~Ended(p) /\ r.ok -> [gone EXCEPT !.told = @ \cup {<<q, r>>}]
          [] OTHER -> Throw(gone, "sql_error")
TooLate(p, q) == q >= p.error
\* What waits is issued before the result is returned.
IssueIfIdle(p) ==
    IF p.waiting # 0 /\ ~HavePending(p) /\ p.error = qid_limit THEN Issue(p) ELSE p
RetrieveWanted(p, q) ==
    CASE Ended(p) -> p
      [] ~Ended(p) /\ TooLate(p, q) -> Throw(p, "runtime_error")
      [] OTHER -> Returned(IssueIfIdle(p), q)
Retrieve(q, available) ==
    /\ Calls /\ q \in DOMAIN pipe.queries
    /\ pipe' = IF TooLate(Calling, q) THEN Throw(Calling, "runtime_error")
               ELSE RetrieveWanted(Wanted(Calling, q, available), q)

PipeNext ==
    \/ \E block \in BOOLEAN : Start(block)
    \/ Cancel \/ DestroyPipe
    \/ \E available \in Arrived :
          \/ \E sql \in Queries : Insert(sql, available)
          \/ \E q \in 1 .. MaxQueries : Retrieve(q, available)
          \/ \E n \in {0, 2} : Retain(n, available)
          \/ Resume(available) \/ Complete(available) \/ Flush(available)

PipeSpec == PipeInit /\ [][PipeNext]_pipe

(***************************************************************************)
(* Properties.                                                             *)
(***************************************************************************)
\* retrieve() returns the result of the query that it was asked for, however queries,
\* batches, errors and early results fall together (pipeline.cxx:232, obtain_result;
\* pipeline.cxx:359, retrieve).
ResultsOfTheirQueries == \A t \in pipe.told : t[1] = t[2].of

\* A query takes effect at most once, although a failed batch is executed again: "none of
\* the queries in the batch were actually executed" (pipeline.cxx:313, obtain_dummy).
EffectsOnce == \A q \in DOMAIN pipe.effects : pipe.effects[q] <= 1

=============================================================================
