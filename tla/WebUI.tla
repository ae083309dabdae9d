--------------------------------- MODULE WebUI ---------------------------------
(***************************************************************************)
(* www/index.html: the page's script.  Tabs and forms start asynchronous   *)
(* functions; each one awaits its requests in turn and paints what comes   *)
(* back.  Any number of them can be under way at once, and answers arrive  *)
(* in any order.                                                           *)
(*                                                                         *)
(* The server side is what src/webserver.cpp answers: lists are always     *)
(* sent with 200 and are empty when the database fails; POST /api/devices  *)
(* is always refused; POST /api/service-history says whether the record    *)
(* was inserted.  Only the history ever changes, so the content of a view  *)
(* is the number of history records its answer has, or 0.                  *)
(***************************************************************************)
EXTENDS Naturals, Sequences

CONSTANTS
    MaxClicks,      \* bound: what a user does who waits for the page
    MaxHasty,       \* bound: what a user does who does not
    MaxFaults       \* bound: requests that the network or the database fails

ASSUME WebUIAssumption ==
    MaxClicks \in Nat /\ MaxHasty \in 0 .. MaxClicks /\ MaxFaults \in Nat

Tabs == {"dashboard", "devices", "services", "history", "new-service"}

\* The parts of the page that a load function paints, in the order of its requests.
Views ==
    [dashboard |-> <<"db-status", "device-count", "history-count">>,
     devices |-> <<"devices-table">>,
     services |-> <<"services-table">>,
     history |-> <<"history-table">>,
     options |-> <<"service-device", "service-type">>]
Loaders == DOMAIN Views
Painted == UNION {{Views[f][k] : k \in DOMAIN Views[f]} : f \in Loaders}

HistoryViews == {"history-table", "history-count"}

\* Those that return when there is no answer, and report how much they loaded.
Tables == {"devices", "services", "history"}

VARIABLES
    patient,        \* whether the user waits until the page has loaded
    currentTab,
    deviceForm,     \* whether the form for a device is shown
    records,        \* history records in the database
    loads,          \* load functions under way: function, step, answer of the server
    posts,          \* submissions under way
    painted,        \* what each view shows, and whether its last load got a real answer
    status,         \* whether the status line shows a message
    timers,         \* pending timeouts of messages
    reported,       \* records whose insertion the page has reported
    clicks, faults

vars == <<patient, currentTab, deviceForm, records, loads, posts, painted, status, timers, reported,
          clicks, faults>>

Waiting == [state |-> "waiting", version |-> 0]
Lost == [state |-> "lost", version |-> 0]
Answer(version) == [state |-> "answered", version |-> version]

\* An asynchronous function that has just sent its first request.
Started(f, id) == [id |-> id, f |-> f, step |-> 1, answer |-> Waiting]

\* An id that no function under way has.
FreshId ==
    LET used == {l.id : l \in loads \cup posts}
    IN  CHOOSE i \in 1 .. MaxClicks + 3 : i \notin used /\ \A j \in 1 .. i - 1 : j \in used

Init ==
    /\ patient \in BOOLEAN
    /\ currentTab = "dashboard" /\ deviceForm = FALSE
    /\ records = 0
    \* DOMContentLoaded
    /\ loads = {Started("dashboard", 1), Started("options", 2)}
    /\ posts = {}
    /\ painted = [v \in Painted |-> [version |-> 0, ok |-> FALSE]]
    /\ status = FALSE /\ timers = 0
    /\ reported = 0
    /\ clicks = 0 /\ faults = 0

\* n calls of showStatus in a row: the last message is shown, and for each one a
\* timeout is set that will clear the line.
ShowStatus(n) == status' = TRUE /\ timers' = timers + n
KeepStatus == UNCHANGED <<status, timers>>

(***************************************************************************)
(* The user.                                                               *)
(***************************************************************************)
Clicks == IF patient THEN MaxClicks ELSE MaxHasty

Click ==
    /\ clicks < Clicks
    /\ patient => loads = {} /\ posts = {}
    /\ clicks' = clicks + 1
    /\ UNCHANGED <<patient, records, painted, reported, faults>>
    /\ KeepStatus

LoaderOf(tab) == IF tab = "new-service" THEN "options" ELSE tab

\* A tab, or the button of a tab that loads its table again.
ShowTab(tab) ==
    /\ Click
    /\ currentTab' = tab
    /\ loads' = loads \cup {Started(LoaderOf(tab), FreshId)}
    /\ UNCHANGED <<deviceForm, posts>>

ShowDeviceForm ==
    /\ currentTab = "devices" /\ ~deviceForm
    /\ deviceForm' = TRUE
    /\ UNCHANGED <<patient, currentTab, records, loads, posts, painted, status, timers, reported,
                   clicks, faults>>

HideDeviceForm ==
    /\ currentTab = "devices" /\ deviceForm
    /\ deviceForm' = FALSE
    /\ UNCHANGED <<patient, currentTab, records, loads, posts, painted, status, timers, reported,
                   clicks, faults>>

\* The submit handlers up to their await.
SubmitDevice ==
    /\ currentTab = "devices" /\ deviceForm
    /\ Click
    /\ posts' = posts \cup {Started("devices", FreshId)}
    /\ UNCHANGED <<currentTab, deviceForm, loads>>

SubmitService ==
    /\ currentTab = "new-service"
    /\ Click
    /\ posts' = posts \cup {Started("service-history", FreshId)}
    /\ UNCHANGED <<currentTab, deviceForm, loads>>

(***************************************************************************)
(* The network and the server.                                             *)
(***************************************************************************)
Answered(l, answer) == [l EXCEPT !.answer = answer]

\* What a request of l reads; the other lists never change.
Version(l) == IF Views[l.f][l.step] \in HistoryViews THEN records ELSE 0

\* A list is read, or is empty because the database failed.
AnswerLoad(l) ==
    /\ l.answer = Waiting
    /\ \/ loads' = (loads \ {l}) \cup {Answered(l, Answer(Version(l)))} /\ UNCHANGED faults
       \/ /\ faults < MaxFaults /\ faults' = faults + 1
          /\ \E a \in {Lost, [state |-> "db failed", version |-> 0]} :
                loads' = (loads \ {l}) \cup {Answered(l, a)}
    /\ UNCHANGED <<patient, currentTab, deviceForm, records, posts, painted, status, timers,
                   reported, clicks>>

\* A record is inserted, or refused; the answer may get lost in either case.
AnswerPost(p) ==
    /\ p.answer = Waiting
    /\ \E inserted \in {FALSE, p.f = "service-history"}, arrives \in BOOLEAN :
          /\ records' = IF inserted THEN records + 1 ELSE records
          /\ posts' = (posts \ {p}) \cup
                {Answered(p, IF ~arrives THEN Lost
                             ELSE IF inserted THEN Answer(records + 1)
                             ELSE [state |-> "refused", version |-> 0])}
          /\ IF arrives /\ (inserted \/ p.f = "devices") THEN UNCHANGED faults
             ELSE faults < MaxFaults /\ faults' = faults + 1
    /\ UNCHANGED <<patient, currentTab, deviceForm, loads, painted, status, timers, reported,
                   clicks>>

(***************************************************************************)
(* The script continues after an await.                                    *)
(***************************************************************************)
\* What is left of a load function after its current request.
Rest(l) ==
    IF l.step = Len(Views[l.f]) THEN {}
    ELSE {[l EXCEPT !.step = @ + 1, !.answer = Waiting]}

\* Mutant: a request that fails is sent again.
MutantLoadRetries(l) ==
    /\ l.answer = Lost
    /\ ShowStatus(1)
    /\ faults' = 0
    /\ loads' = (loads \ {l}) \cup {[l EXCEPT !.answer = Waiting]}
    /\ UNCHANGED <<patient, currentTab, deviceForm, records, posts, painted, reported, clicks>>

\* fetchData has shown an error and returned null.  A table's function returns; the
\* others go on to their next request.
LoadFails(l) ==
    /\ l.answer = Lost
    /\ ShowStatus(1)
    /\ painted' = [painted EXCEPT ![Views[l.f][l.step]].ok = FALSE]
    /\ loads' = (loads \ {l}) \cup Rest(l)
    /\ UNCHANGED <<patient, currentTab, deviceForm, records, posts, reported, clicks, faults>>

\* The answer is painted over whatever was shown; an empty list is an answer too.
LoadPaints(l) ==
    /\ l.answer.state \in {"answered", "db failed"}
    /\ painted' = [painted EXCEPT ![Views[l.f][l.step]] =
          [version |-> l.answer.version, ok |-> l.answer.state = "answered"]]
    /\ IF l.f \in Tables THEN ShowStatus(1) ELSE KeepStatus
    /\ loads' = (loads \ {l}) \cup Rest(l)
    /\ UNCHANGED <<patient, currentTab, deviceForm, records, posts, reported, clicks, faults>>

\* Mutant: the history is not loaded again.
MutantPostNoReload(p) ==
    /\ p.answer.state = "answered"
    /\ ShowStatus(1)
    /\ reported' = reported + 1
    /\ posts' = posts \ {p}
    /\ UNCHANGED <<patient, currentTab, deviceForm, records, painted, clicks, faults, loads>>

\* Mutant: any answer counts as success.
MutantPostAnyAnswer(p) ==
    /\ p.answer.state \in {"answered", "refused"}
    /\ ShowStatus(1)
    /\ reported' = reported + 1
    /\ posts' = posts \ {p}
    /\ loads' = loads \cup {Started("history", FreshId)}
    /\ UNCHANGED <<patient, currentTab, deviceForm, records, painted, clicks, faults>>

PostSucceeds(p) ==
    /\ p.answer.state = "answered"
    /\ ShowStatus(1)
    /\ reported' = reported + 1
    /\ posts' = posts \ {p}
    /\ loads' = loads \cup {Started("history", FreshId)}
    /\ UNCHANGED <<patient, currentTab, deviceForm, records, painted, clicks, faults>>

\* The result is null, with the error of fetchData already shown, or not a success.
PostFails(p) ==
    /\ p.answer.state \in {"lost", "refused"}
    /\ ShowStatus(IF p.answer = Lost THEN 2 ELSE 1)
    /\ posts' = posts \ {p}
    /\ UNCHANGED <<patient, currentTab, deviceForm, records, loads, painted, reported, clicks, faults>>

\* The timeout of any message clears the line, whatever is shown there now.
Timeout ==
    /\ timers > 0
    /\ timers' = timers - 1
    /\ status' = FALSE
    /\ UNCHANGED <<patient, currentTab, deviceForm, records, loads, posts, painted, reported,
                   clicks, faults>>

Script(l) == AnswerLoad(l) \/ LoadFails(l) \/ LoadPaints(l)
Submission(p) == AnswerPost(p) \/ PostSucceeds(p) \/ PostFails(p)

Next ==
    \/ \E tab \in Tabs : ShowTab(tab)
    \/ ShowDeviceForm \/ HideDeviceForm \/ SubmitDevice \/ SubmitService
    \/ \E l \in loads : Script(l)
    \/ \E p \in posts : Submission(p)
    \/ Timeout

\* The browser reports an answer or an error for every request and runs the callbacks
\* and timeouts that are due.  The user need not do anything.
Progress == (\E l \in loads : Script(l)) \/ (\E p \in posts : Submission(p))
Fairness == WF_vars(Progress) /\ WF_vars(Timeout)

Spec == Init /\ [][Next]_vars /\ Fairness

(***************************************************************************)
(* Properties.                                                             *)
(***************************************************************************)

\* The page reports a success only for a record that is in the database: not for a
\* refused one (200 with success = false, 403) nor for a lost answer.
ReportsTrue == reported <= records

Quiet == loads = {} /\ posts = {}

\* When the page is at rest, the history shows every record whose insertion it has
\* reported, unless its last load failed (www/index.html:581, "Обновить историю").
HistoryFresh ==
    Quiet /\ painted["history-table"].ok
        => painted["history-table"].version >= reported

\* It does so for a user who lets one load end before the next click, whatever the
\* network and the database lose.
HistoryFreshIfPatient == patient => HistoryFresh

\* Every load and submission ends, and the status line ends up empty, when the user
\* stops clicking.
ComesToRest == <>[](Quiet /\ ~status)

=============================================================================
