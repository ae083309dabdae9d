------------------------------ MODULE WebUIProofs ------------------------------
(***************************************************************************)
(* Proofs about module WebUI, for a user who clicks any number of times    *)
(* and a network and a database that fail any number of times: the page    *)
(* reports only records that exist; a user who waits sees in the history   *)
(* every record that was reported; and the functions under way are told    *)
(* apart by their ids, so the model never takes two for one.               *)
(***************************************************************************)
EXTENDS WebUI, FiniteSetTheorems, FunctionTheorems, WellFoundedInduction, TLAPS

Ids == 1 .. MaxClicks + 3
Answers == [state : {"waiting", "lost", "answered", "db failed", "refused"}, version : Nat]
Load == {l \in [id : Ids, f : Loaders, step : Nat, answer : Answers] : l.step \in DOMAIN Views[l.f]}
Post == [id : Ids, f : {"devices", "service-history"}, step : {1}, answer : Answers]

(***************************************************************************)
(* The inductive invariant.                                                *)
(***************************************************************************)
Types ==
    /\ patient \in BOOLEAN
    /\ records \in Nat /\ reported \in Nat /\ clicks \in 0 .. MaxClicks
    /\ loads \subseteq Load /\ IsFiniteSet(loads)
    /\ posts \subseteq Post /\ IsFiniteSet(posts)
    /\ painted \in [Painted -> [version : Nat, ok : BOOLEAN]]

\* Only a click, or opening the page, adds to the functions under way: a success
\* exchanges its submission for a load.
Room == Cardinality(loads) + Cardinality(posts) <= clicks + 2

\* No two functions under way have the same id.
Apart ==
    /\ \A a, b \in loads : a.id = b.id => a = b
    /\ \A a, b \in posts : a.id = b.id => a = b
    /\ \A l \in loads, p \in posts : l.id # p.id

\* The submissions that the server has confirmed and the page has yet to report: there
\* is a record for each, besides those that were reported.
Confirmed == {p \in posts : p.answer.state = "answered"}
Backed == reported + Cardinality(Confirmed) <= records

\* For a user who waits, a submission is alone under way; the history is as new as what
\* was reported, or a load of it is on its way, and what that load has read is.
Table == painted["history-table"]
Fresh ==
    patient =>
      /\ loads = {} \/ posts = {}
      /\ \A a, b \in posts : a = b
      /\ \A l \in loads : l.f = "history" /\ l.answer.state = "answered" => l.answer.version >= reported
      /\ (\A l \in loads : l.f # "history") => (Table.ok => Table.version >= reported)

Inv == Types /\ Room /\ Apart /\ Backed /\ Fresh

(***************************************************************************)
(* The page's parts, ids and sets of functions.                            *)
(***************************************************************************)

\* The requests of the load functions: only loadHistory paints the history, with its one
\* request.
LEMMA ViewFacts ==
  ASSUME NEW f \in Loaders, NEW k \in DOMAIN Views[f]
  PROVE  /\ Views[f][k] \in Painted /\ k \in Nat
         /\ Views[f][k] = "history-table" <=> f = "history"
         /\ k # Len(Views[f]) => k + 1 \in DOMAIN Views[f]
         /\ f = "history" => k = Len(Views[f])
<1>1. Views[f][k] \in Painted
  BY DEF Painted
<1>2. f \in {"dashboard", "devices", "services", "history", "options"}
  BY DEF Loaders, Views
<1>3. CASE f = "dashboard"
  <2>1. Views[f] = <<"db-status", "device-count", "history-count">>
    BY <1>3 DEF Views
  <2>2. k \in 1 .. 3 /\ Len(Views[f]) = 3 /\ DOMAIN Views[f] = 1 .. 3
    BY <2>1
  <2> QED BY <1>1, <1>3, <2>1, <2>2
<1>4. CASE f = "options"
  <2>1. Views[f] = <<"service-device", "service-type">>
    BY <1>4 DEF Views
  <2>2. k \in 1 .. 2 /\ Len(Views[f]) = 2 /\ DOMAIN Views[f] = 1 .. 2
    BY <2>1
  <2> QED BY <1>1, <1>4, <2>1, <2>2
<1>5. CASE f \in Tables
  <2>1. /\ f = "devices" => Views[f] = <<"devices-table">>
        /\ f = "services" => Views[f] = <<"services-table">>
        /\ f = "history" => Views[f] = <<"history-table">>
    BY DEF Views
  <2>2. k \in 1 .. 1 /\ Len(Views[f]) = 1
    BY <1>5, <2>1 DEF Tables
  <2> QED BY <1>1, <1>5, <2>1, <2>2 DEF Tables
<1> QED BY <1>2, <1>3, <1>4, <1>5 DEF Tables

\* The tables have load functions, and the history is one of the views.
LEMMA Tabular == Tables \subseteq Loaders /\ "history-table" \in Painted
<1>1. Tables \subseteq Loaders
  BY DEF Tables, Loaders, Views
<1>2. 1 \in DOMAIN Views["history"] /\ Views["history"][1] = "history-table"
  BY DEF Views
<1> QED BY <1>1, <1>2 DEF Painted, Tables

\* Some id is free, and the first one is chosen.
LEMMA FreshIds ==
  ASSUME Inv
  PROVE  /\ FreshId \in Ids
         /\ \A l \in loads \cup posts : l.id # FreshId
<1> DEFINE W == loads \cup posts
           used == {l.id : l \in W}
<1>1. MaxClicks \in Nat /\ clicks \in Nat /\ clicks <= MaxClicks
  BY WebUIAssumption DEF Inv, Types
<1>2. IsFiniteSet(W) /\ Cardinality(W) <= MaxClicks + 2
  <2>1. IsFiniteSet(loads) /\ IsFiniteSet(posts) /\ IsFiniteSet(loads \cap posts)
    <3>1. IsFiniteSet(loads) /\ IsFiniteSet(posts)
      BY DEF Inv, Types
    <3> QED BY <3>1, FS_Intersection
  <2>2. IsFiniteSet(W)
        /\ Cardinality(W) = Cardinality(loads) + Cardinality(posts) - Cardinality(loads \cap posts)
    BY <2>1, FS_Union
  <2>3. Cardinality(loads) \in Nat /\ Cardinality(posts) \in Nat /\ Cardinality(loads \cap posts) \in Nat
    BY <2>1, FS_CardinalityType
  <2>4. Cardinality(loads) + Cardinality(posts) <= clicks + 2
    BY DEF Inv, Room
  <2> HIDE DEF W
  <2> QED BY <1>1, <2>2, <2>3, <2>4
<1>3. IsFiniteSet(used) /\ Cardinality(used) <= Cardinality(W)
  <2> DEFINE g == [l \in W |-> l.id]
  <2>1. g \in Surjection(W, used)
    BY Fun_IsSurj
  <2> HIDE DEF g, used, W
  <2> QED BY <1>2, <2>1, FS_Surjection
<1>4. \E i \in Ids : i \notin used
  <2> SUFFICES ASSUME Ids \subseteq used PROVE FALSE
    OBVIOUS
  <2>1. Cardinality(Ids) <= Cardinality(used)
    <3> HIDE DEF used
    <3> QED BY <1>3, FS_Subset
  <2>2. Cardinality(Ids) = MaxClicks + 3
    BY <1>1, FS_Interval DEF Ids
  <2>3. Cardinality(used) \in Nat /\ Cardinality(W) \in Nat
    <3> HIDE DEF used, W
    <3> QED BY <1>2, <1>3, FS_CardinalityType
  <2> HIDE DEF used, W
  <2> QED BY <1>1, <1>2, <1>3, <2>1, <2>2, <2>3
<1>5. \E i \in Ids : i \notin used /\ \A j \in 1 .. i - 1 : j \in used
  <2> DEFINE T == {i \in Ids : i \notin used}
  <2>1. T \subseteq Nat /\ T # {}
    <3> HIDE DEF used
    <3> QED BY <1>1, <1>4 DEF Ids
  <2>2. PICK i \in T : \A j \in T : ~ (<<j, i>> \in OpToRel(<, Nat))
    <3> HIDE DEF T
    <3> QED BY <2>1, NatLessThanWellFounded, WFMin
  <2>3. ASSUME NEW j \in 1 .. i - 1, j \notin used PROVE FALSE
    <3>1. i \in 1 .. MaxClicks + 3
      BY DEF Ids
    <3>2. j \in Ids /\ j \in Nat /\ i \in Nat /\ j < i
      BY <1>1, <3>1 DEF Ids
    <3>3. j \in T
      BY <2>3, <3>2
    <3>4. <<j, i>> \in OpToRel(<, Nat)
      BY <3>2 DEF OpToRel
    <3> QED BY <2>2, <3>3, <3>4
  <2> QED BY <2>3
<1>6. FreshId = CHOOSE i \in Ids : i \notin used /\ \A j \in 1 .. i - 1 : j \in used
  BY DEF FreshId, Ids
<1>7. FreshId \in Ids /\ FreshId \notin used
  <2> HIDE DEF used
  <2> QED BY <1>5, <1>6
<1> QED BY <1>7

\* A function that has just been started is new, and waits.
LEMMA StartedFacts ==
  ASSUME Inv, NEW f
  PROVE  /\ f \in Loaders => Started(f, FreshId) \in Load
         /\ f \in {"devices", "service-history"} => Started(f, FreshId) \in Post
         /\ Started(f, FreshId).f = f /\ Started(f, FreshId).answer.state = "waiting"
         /\ Started(f, FreshId).id = FreshId
         /\ \A l \in loads \cup posts : l.id # Started(f, FreshId).id
<1> DEFINE i == FreshId
<1>1. i \in Ids /\ \A l \in loads \cup posts : l.id # i
  BY FreshIds
<1>2. Waiting \in Answers /\ Waiting.state = "waiting"
  BY DEF Waiting, Answers
<1>3. f \in Loaders => 1 \in DOMAIN Views[f]
  BY DEF Loaders, Views
<1> HIDE DEF i
<1>4. /\ f \in Loaders => Started(f, i) \in Load
      /\ f \in {"devices", "service-history"} => Started(f, i) \in Post
      /\ Started(f, i).f = f /\ Started(f, i).answer.state = "waiting" /\ Started(f, i).id = i
  BY <1>1, <1>2, <1>3 DEF Started, Load, Post
<1> QED BY <1>1, <1>4 DEF i

\* Sets of functions under way that gain, lose or exchange a member.
LEMMA Counted ==
  ASSUME NEW S, IsFiniteSet(S), NEW x
  PROVE  /\ Cardinality(S) \in Nat
         /\ IsFiniteSet(S \cup {x}) /\ Cardinality(S \cup {x}) \in Nat
         /\ Cardinality(S \cup {x}) <= Cardinality(S) + 1
         /\ \A l \in S : /\ IsFiniteSet(S \ {l}) /\ Cardinality(S \ {l}) \in Nat
                         /\ Cardinality(S \ {l}) = Cardinality(S) - 1
                         /\ IsFiniteSet((S \ {l}) \cup {x})
                         /\ Cardinality((S \ {l}) \cup {x}) \in Nat
                         /\ Cardinality((S \ {l}) \cup {x}) <= Cardinality(S)
<1>1. Cardinality(S) \in Nat
  BY FS_CardinalityType
<1>2. IsFiniteSet(S \cup {x}) /\ Cardinality(S \cup {x}) \in Nat
      /\ Cardinality(S \cup {x}) <= Cardinality(S) + 1
  <2>1. IsFiniteSet(S \cup {x})
        /\ Cardinality(S \cup {x}) = IF x \in S THEN Cardinality(S) ELSE Cardinality(S) + 1
    BY FS_AddElement
  <2> QED BY <1>1, <2>1
<1>3. ASSUME NEW l \in S
      PROVE  /\ IsFiniteSet(S \ {l}) /\ Cardinality(S \ {l}) \in Nat
             /\ Cardinality(S \ {l}) = Cardinality(S) - 1
             /\ IsFiniteSet((S \ {l}) \cup {x})
             /\ Cardinality((S \ {l}) \cup {x}) \in Nat
             /\ Cardinality((S \ {l}) \cup {x}) <= Cardinality(S)
  <2> DEFINE U == S \ {l}
  <2>1. IsFiniteSet(U) /\ Cardinality(U) = Cardinality(S) - 1
    BY FS_RemoveElement
  <2> HIDE DEF U
  <2>2. Cardinality(U) \in Nat
    BY <2>1, FS_CardinalityType
  <2>3. IsFiniteSet(U \cup {x})
        /\ Cardinality(U \cup {x}) = IF x \in U THEN Cardinality(U) ELSE Cardinality(U) + 1
    BY <2>1, FS_AddElement
  <2>4. Cardinality(U \cup {x}) \in Nat /\ Cardinality(U \cup {x}) <= Cardinality(S)
    BY <1>1, <2>1, <2>2, <2>3
  <2> QED BY <2>1, <2>2, <2>3, <2>4 DEF U
<1> QED BY <1>1, <1>2, <1>3

(***************************************************************************)
(* The invariant is inductive: one lemma for each action or two.           *)
(***************************************************************************)

\* DOMContentLoaded has started two functions, and nothing has been reported.
LEMMA InitInv == Init => Inv
<1> SUFFICES ASSUME Init PROVE Inv
  OBVIOUS
<1>1. MaxClicks \in Nat /\ 1 \in Ids /\ 2 \in Ids
  BY WebUIAssumption DEF Ids
<1> DEFINE d == Started("dashboard", 1)
           o == Started("options", 2)
<1>2. Waiting \in Answers /\ Waiting.state = "waiting"
  BY DEF Waiting, Answers
<1>3. {"dashboard", "options"} \subseteq Loaders
      /\ 1 \in DOMAIN Views["dashboard"] /\ 1 \in DOMAIN Views["options"]
  BY DEF Loaders, Views
<1>4. /\ d \in Load /\ d.f = "dashboard" /\ d.id = 1
      /\ o \in Load /\ o.f = "options" /\ o.id = 2
  BY <1>1, <1>2, <1>3 DEF Started, Load
<1> HIDE DEF d, o
<1>5. loads = {d, o} /\ posts = {} /\ clicks = 0 /\ records = 0 /\ reported = 0
  BY DEF Init, d, o
<1>6. painted \in [Painted -> [version : Nat, ok : BOOLEAN]] /\ painted["history-table"].ok = FALSE
  BY Tabular DEF Init
<1>7. /\ IsFiniteSet(loads) /\ Cardinality(loads) = 2 /\ IsFiniteSet(posts) /\ Cardinality(posts) = 0
  <2>1. IsFiniteSet({}) /\ Cardinality({}) = 0
    BY FS_EmptySet
  <2>2. IsFiniteSet({d}) /\ Cardinality({d}) = 1
    BY FS_Singleton
  <2>3. o \notin {d} /\ {d, o} = {d} \cup {o}
    BY <1>4
  <2>4. IsFiniteSet({d} \cup {o}) /\ Cardinality({d} \cup {o}) = 1 + 1
    BY <2>2, <2>3, FS_AddElement
  <2> QED BY <1>5, <2>1, <2>3, <2>4
<1>8. Types
  <2>1. patient \in BOOLEAN
    BY DEF Init
  <2>2. clicks \in 0 .. MaxClicks /\ records \in Nat /\ reported \in Nat
    BY <1>1, <1>5
  <2>3. loads \subseteq Load /\ posts \subseteq Post
    BY <1>4, <1>5
  <2> QED BY <1>6, <1>7, <2>1, <2>2, <2>3, Zenon DEF Types
<1>9. Room /\ Apart
  BY <1>4, <1>5, <1>7 DEF Room, Apart
<1>10. Backed
  <2>1. Confirmed = {}
    BY <1>5 DEF Confirmed
  <2>2. Cardinality(Confirmed) = 0
    BY <2>1, FS_EmptySet
  <2> QED BY <1>5, <2>2 DEF Backed
<1>11. Fresh
  BY <1>4, <1>5, <1>6 DEF Fresh, Table
<1> QED BY <1>8, <1>9, <1>10, <1>11 DEF Inv

\* What a click leaves alone and counts.
LEMMA ClickFacts ==
  ASSUME Inv, Click
  PROVE  /\ patient' = patient /\ records' = records /\ painted' = painted /\ reported' = reported
         /\ clicks' = clicks + 1 /\ clicks' \in 0 .. MaxClicks
         /\ patient => loads = {} /\ posts = {}
<1>1. clicks < Clicks /\ clicks \in Nat /\ MaxClicks \in Nat /\ Clicks \in Nat /\ Clicks <= MaxClicks
  BY WebUIAssumption DEF Inv, Types, Click, Clicks
<1> QED BY <1>1 DEF Click

\* A load function is started by a click.
LEMMA ShowTabStep ==
  ASSUME Inv, NEW tab \in Tabs, ShowTab(tab)
  PROVE  Inv'
<1> DEFINE x == Started(LoaderOf(tab), FreshId)
<1>1. LoaderOf(tab) \in Loaders
  BY DEF LoaderOf, Tabs, Loaders, Views
<1>2. Click /\ loads' = loads \cup {x} /\ posts' = posts
  BY DEF ShowTab
<1>3. x \in Load /\ x.answer.state = "waiting" /\ \A l \in loads \cup posts : l.id # x.id
  BY <1>1, StartedFacts
<1> HIDE DEF x
<1>4. /\ patient' = patient /\ records' = records /\ painted' = painted /\ reported' = reported
      /\ clicks' = clicks + 1 /\ clicks' \in 0 .. MaxClicks
      /\ patient => loads = {} /\ posts = {}
  BY <1>2, ClickFacts
<1>5. Types /\ Room /\ Apart /\ Backed /\ Fresh
  BY DEF Inv
<1>6. IsFiniteSet(loads \cup {x}) /\ Cardinality(loads \cup {x}) \in Nat
      /\ Cardinality(loads \cup {x}) <= Cardinality(loads) + 1
      /\ Cardinality(loads) \in Nat /\ Cardinality(posts) \in Nat
  BY <1>5, Counted, FS_CardinalityType DEF Types
<1>7. Types'
  BY <1>2, <1>3, <1>4, <1>5, <1>6 DEF Types
<1>8. Room'
  <2>1. clicks \in Nat
    BY <1>5 DEF Types
  <2> QED BY <1>2, <1>4, <1>5, <1>6, <2>1 DEF Room
<1>9. Apart'
  BY <1>2, <1>3, <1>5 DEF Apart
<1>10. Backed'
  BY <1>2, <1>4, <1>5 DEF Backed, Confirmed
<1>11. Fresh'
  BY <1>2, <1>3, <1>4, <1>5 DEF Fresh, Table
<1> QED BY <1>7, <1>8, <1>9, <1>10, <1>11 DEF Inv

\* A form is submitted.
LEMMA SubmitStep ==
  ASSUME Inv, NEW f \in {"devices", "service-history"}, Click,
         posts' = posts \cup {Started(f, FreshId)}, loads' = loads
  PROVE  Inv'
<1> DEFINE x == Started(f, FreshId)
<1>2. posts' = posts \cup {x}
  OBVIOUS
<1>3. x \in Post /\ x.answer.state = "waiting" /\ \A l \in loads \cup posts : l.id # x.id
  BY StartedFacts
<1> HIDE DEF x
<1>4. /\ patient' = patient /\ records' = records /\ painted' = painted /\ reported' = reported
      /\ clicks' = clicks + 1 /\ clicks' \in 0 .. MaxClicks
      /\ patient => loads = {} /\ posts = {}
  BY ClickFacts
<1>5. Types /\ Room /\ Apart /\ Backed /\ Fresh
  BY DEF Inv
<1>6. IsFiniteSet(posts \cup {x}) /\ Cardinality(posts \cup {x}) \in Nat
      /\ Cardinality(posts \cup {x}) <= Cardinality(posts) + 1
      /\ Cardinality(loads) \in Nat /\ Cardinality(posts) \in Nat
  BY <1>5, Counted, FS_CardinalityType DEF Types
<1>7. Types'
  BY <1>2, <1>3, <1>4, <1>5, <1>6 DEF Types
<1>8. Room'
  <2>1. clicks \in Nat
    BY <1>5 DEF Types
  <2>2. Cardinality(loads) + Cardinality(posts \cup {x}) <= (clicks + 1) + 2
    BY <1>5, <1>6, <2>1 DEF Room
  <2> QED BY <1>2, <1>4, <2>2 DEF Room
<1>9. Apart'
  BY <1>2, <1>3, <1>5 DEF Apart
<1>10. Backed'
  <2>1. Confirmed' = Confirmed
    BY <1>2, <1>3 DEF Confirmed
  <2> QED BY <1>4, <1>5, <2>1 DEF Backed
<1>11. Fresh'
  BY <1>2, <1>3, <1>4, <1>5 DEF Fresh, Table
<1> QED BY <1>7, <1>8, <1>9, <1>10, <1>11 DEF Inv

\* A load function is replaced by at most one of the same id and kind: its requests
\* stay told apart, and there is room for them.
LEMMA LoadMoves ==
  ASSUME Inv, NEW l \in loads, NEW R \in SUBSET Load, \A a, b \in R : a = b,
         \A a \in R : a.id = l.id,
         loads' = (loads \ {l}) \cup R,
         posts' = posts, patient' = patient, records' = records, reported' = reported, clicks' = clicks,
         painted' \in [Painted -> [version : Nat, ok : BOOLEAN]]
  PROVE  Types' /\ Room' /\ Apart' /\ Backed'
<1>1. Types /\ Room /\ Apart /\ Backed
  BY DEF Inv
<1>2. IsFiniteSet(loads') /\ Cardinality(loads') \in Nat /\ Cardinality(loads') <= Cardinality(loads)
      /\ Cardinality(loads) \in Nat /\ Cardinality(posts) \in Nat
  <2>1. IsFiniteSet(loads) /\ IsFiniteSet(posts)
    BY <1>1 DEF Types
  <2>2. Cardinality(loads) \in Nat /\ Cardinality(posts) \in Nat
    BY <2>1, FS_CardinalityType
  <2>3. CASE R = {}
    <3>1. loads' = loads \ {l}
      BY <2>3
    <3>2. IsFiniteSet(loads \ {l}) /\ Cardinality(loads \ {l}) \in Nat
          /\ Cardinality(loads \ {l}) = Cardinality(loads) - 1
      BY <2>1, Counted
    <3>3. Cardinality(loads \ {l}) <= Cardinality(loads)
      BY <2>2, <3>2
    <3> QED BY <2>2, <3>1, <3>2, <3>3, Zenon
  <2>4. CASE R # {}
    <3>1. PICK x \in R : TRUE
      BY <2>4
    <3>2. loads' = (loads \ {l}) \cup {x}
      BY <3>1
    <3>3. /\ IsFiniteSet((loads \ {l}) \cup {x})
          /\ Cardinality((loads \ {l}) \cup {x}) \in Nat
          /\ Cardinality((loads \ {l}) \cup {x}) <= Cardinality(loads)
      BY <2>1, Counted
    <3> QED BY <2>2, <3>2, <3>3
  <2> QED BY <2>3, <2>4
<1>3. Types'
  BY <1>1, <1>2 DEF Types
<1>4. Room'
  <2>1. clicks \in Nat
    BY <1>1 DEF Types
  <2> QED BY <1>1, <1>2, <2>1 DEF Room
<1>5. Apart'
  <2>1. \A a, b \in loads' : a.id = b.id => a = b
    BY <1>1 DEF Apart
  <2>2. \A a \in loads', p \in posts' : a.id # p.id
    BY <1>1 DEF Apart
  <2> QED BY <1>1, <2>1, <2>2 DEF Apart
<1>6. Backed'
  BY <1>1 DEF Backed, Confirmed
<1> QED BY <1>3, <1>4, <1>5, <1>6

\* Answers of the server and of the network.
LEMMA AnswerFacts ==
  /\ Lost \in Answers /\ Lost.state = "lost"
  /\ [state |-> "db failed", version |-> 0] \in Answers
  /\ [state |-> "refused", version |-> 0] \in Answers
  /\ \A n \in Nat : Answer(n) \in Answers /\ Answer(n).state = "answered" /\ Answer(n).version = n
BY DEF Lost, Answers, Answer

\* What reading the history gives a patient user covers what has been reported.
LEMMA AnswerLoadStep ==
  ASSUME Inv, NEW l \in loads, AnswerLoad(l)
  PROVE  Inv'
<1>1. Types /\ Fresh /\ Backed
  BY DEF Inv
<1>2. /\ posts' = posts /\ patient' = patient /\ records' = records /\ reported' = reported
      /\ clicks' = clicks /\ painted' = painted
  BY DEF AnswerLoad
<1>3. PICK a \in Answers :
         /\ a.state = "answered" => a = Answer(Version(l))
         /\ loads' = (loads \ {l}) \cup {Answered(l, a)}
  <2>1. Version(l) \in Nat
    BY <1>1 DEF Types, Version
  <2>2. CASE loads' = (loads \ {l}) \cup {Answered(l, Answer(Version(l)))}
    BY <2>1, <2>2, AnswerFacts
  <2>3. CASE \E a \in {Lost, [state |-> "db failed", version |-> 0]} :
                loads' = (loads \ {l}) \cup {Answered(l, a)}
    <3>1. PICK a \in {Lost, [state |-> "db failed", version |-> 0]} :
                loads' = (loads \ {l}) \cup {Answered(l, a)}
      BY <2>3
    <3>2. a \in Answers /\ a.state # "answered"
      <4>1. CASE a = Lost
        BY <4>1, AnswerFacts
      <4>2. CASE a = [state |-> "db failed", version |-> 0]
        BY <4>2, AnswerFacts
      <4> QED BY <3>1, <4>1, <4>2
    <3> QED BY <3>1, <3>2
  <2> QED BY <2>2, <2>3 DEF AnswerLoad
<1> DEFINE x == Answered(l, a)
<1>4. l \in Load
  BY <1>1 DEF Types
<1>5. x \in Load /\ x.id = l.id /\ x.f = l.f /\ x.answer = a
  BY <1>4 DEF Load, Answered
<1> HIDE DEF x
<1>6. Types' /\ Room' /\ Apart' /\ Backed'
  <2> DEFINE R == {x}
  <2>1. R \in SUBSET Load /\ (\A b, c \in R : b = c) /\ (\A b \in R : b.id = l.id)
        /\ loads' = (loads \ {l}) \cup R
    BY <1>3, <1>5 DEF x
  <2>2. painted' \in [Painted -> [version : Nat, ok : BOOLEAN]]
    BY <1>1, <1>2 DEF Types
  <2> HIDE DEF R
  <2> QED BY <1>2, <2>1, <2>2, LoadMoves
<1>7. l.f = "history" /\ a.state = "answered" => a.version >= reported
  <2> SUFFICES ASSUME l.f = "history", a.state = "answered" PROVE a.version >= reported
    OBVIOUS
  <2>1. Views[l.f][l.step] = "history-table"
    BY <1>4, ViewFacts DEF Load
  <2>2. Version(l) = records
    BY <2>1 DEF Version, HistoryViews
  <2>3. a.version = records
    BY <1>1, <1>3, <2>2, AnswerFacts DEF Types
  <2>4. reported \in Nat /\ records \in Nat /\ IsFiniteSet(posts)
    BY <1>1 DEF Types
  <2>5. Cardinality(Confirmed) \in Nat
    <3>1. Confirmed \subseteq posts
      BY DEF Confirmed
    <3> QED BY <2>4, <3>1, FS_Subset, FS_CardinalityType
  <2> QED BY <1>1, <2>3, <2>4, <2>5 DEF Backed
<1>8. Fresh'
  <2> SUFFICES ASSUME patient'
               PROVE  /\ loads' = {} \/ posts' = {}
                      /\ \A b, c \in posts' : b = c
                      /\ \A b \in loads' : b.f = "history" /\ b.answer.state = "answered"
                                              => b.answer.version >= reported'
                      /\ (\A b \in loads' : b.f # "history") => (Table'.ok => Table'.version >= reported')
    BY DEF Fresh
  <2>1. posts = {} /\ Table' = Table
    BY <1>1, <1>2 DEF Fresh, Table
  <2>2. loads' = (loads \ {l}) \cup {x}
    BY <1>3 DEF x
  <2>3. \A b \in loads' : b.f = "history" /\ b.answer.state = "answered" => b.answer.version >= reported'
    BY <1>1, <1>2, <1>5, <1>7, <2>2 DEF Fresh
  <2>4. (\A b \in loads' : b.f # "history") => (\A b \in loads : b.f # "history")
    BY <1>5, <2>2
  <2>5. (\A b \in loads' : b.f # "history") => (Table'.ok => Table'.version >= reported')
    BY <1>1, <1>2, <2>1, <2>4 DEF Fresh
  <2> QED BY <1>2, <2>1, <2>3, <2>5
<1> QED BY <1>6, <1>8 DEF Inv

\* What is left of a load function.
LEMMA RestFacts ==
  ASSUME NEW l \in Load
  PROVE  /\ Rest(l) \in SUBSET Load /\ (\A a, b \in Rest(l) : a = b)
         /\ \A a \in Rest(l) : a.id = l.id /\ a.f = l.f /\ a.f # "history"
<1>1. CASE l.step = Len(Views[l.f])
  BY <1>1 DEF Rest
<1>2. CASE l.step # Len(Views[l.f])
  <2> DEFINE x == [l EXCEPT !.step = @ + 1, !.answer = Waiting]
  <2>1. /\ l.f \in Loaders /\ l.step \in DOMAIN Views[l.f] /\ l.step \in Nat
        /\ l.step + 1 \in DOMAIN Views[l.f] /\ l.f # "history"
    BY <1>2, ViewFacts DEF Load
  <2>2. Waiting \in Answers
    BY DEF Waiting, Answers
  <2>5. l \in [id : Ids, f : Loaders, step : Nat, answer : Answers]
    BY DEF Load
  <2>6. x \in [id : Ids, f : Loaders, step : Nat, answer : Answers]
        /\ x.id = l.id /\ x.f = l.f /\ x.step = l.step + 1
    <3> DEFINE y == [l EXCEPT !.step = l.step + 1]
    <3>1. y \in [id : Ids, f : Loaders, step : Nat, answer : Answers]
          /\ y.id = l.id /\ y.f = l.f /\ y.step = l.step + 1
      BY <2>1, <2>5
    <3>2. x = [y EXCEPT !.answer = Waiting]
      BY <2>5
    <3> HIDE DEF x, y
    <3> QED BY <2>2, <3>1, <3>2
  <2>3. x \in Load /\ x.id = l.id /\ x.f = l.f
    <3> HIDE DEF x
    <3> QED BY <2>1, <2>6 DEF Load
  <2>4. Rest(l) = {x}
    BY <1>2 DEF Rest
  <2> HIDE DEF x
  <2> QED BY <2>1, <2>3, <2>4
<1> QED BY <1>1, <1>2

\* The script paints or gives up; the history is then as fresh as the answer was.
LEMMA ScriptStep ==
  ASSUME Inv, NEW l \in loads, LoadFails(l) \/ LoadPaints(l)
  PROVE  Inv'
<1>1. Types /\ Fresh
  BY DEF Inv
<1> DEFINE v == Views[l.f][l.step]
<1>2. /\ loads' = (loads \ {l}) \cup Rest(l)
      /\ posts' = posts /\ patient' = patient /\ records' = records /\ reported' = reported
      /\ clicks' = clicks
  BY DEF LoadFails, LoadPaints
<1>3. l \in Load /\ l.f \in Loaders /\ l.step \in DOMAIN Views[l.f] /\ l.answer \in Answers
  BY <1>1 DEF Types, Load
<1>4. v \in Painted /\ (v = "history-table" <=> l.f = "history")
  BY <1>3, ViewFacts
<1> HIDE DEF v
<1>5. PICK c \in [version : Nat, ok : BOOLEAN] :
         /\ painted' = [painted EXCEPT ![v] = c]
         /\ c.ok => l.answer.state = "answered" /\ c.version = l.answer.version
  <2>1. CASE LoadFails(l)
    <3>1. painted' = [painted EXCEPT ![v] = [painted[v] EXCEPT !.ok = FALSE]]
      BY <2>1 DEF LoadFails, v
    <3> DEFINE c == [painted[v] EXCEPT !.ok = FALSE]
    <3>2. c \in [version : Nat, ok : BOOLEAN] /\ c.ok = FALSE
      BY <1>1, <1>4 DEF Types
    <3> HIDE DEF c
    <3>3. painted' = [painted EXCEPT ![v] = c]
      BY <3>1 DEF c
    <3> QED BY <3>2, <3>3
  <2>2. CASE LoadPaints(l)
    <3> DEFINE c == [version |-> l.answer.version, ok |-> l.answer.state = "answered"]
    <3>1. painted' = [painted EXCEPT ![v] = c]
      BY <2>2 DEF LoadPaints, v
    <3>2. c \in [version : Nat, ok : BOOLEAN] /\ c.version = l.answer.version
          /\ (c.ok => l.answer.state = "answered")
      BY <1>3 DEF Answers
    <3> HIDE DEF c
    <3> QED BY <3>1, <3>2
  <2> QED BY <2>1, <2>2
<1>6. /\ painted' \in [Painted -> [version : Nat, ok : BOOLEAN]]
      /\ Table' = IF l.f = "history" THEN c ELSE Table
  BY <1>1, <1>4, <1>5, Tabular DEF Types, Table
<1>7. /\ Rest(l) \in SUBSET Load /\ (\A a, b \in Rest(l) : a = b)
      /\ \A a \in Rest(l) : a.id = l.id /\ a.f = l.f /\ a.f # "history"
  BY <1>3, RestFacts
<1>8. Types' /\ Room' /\ Apart' /\ Backed'
  <2> DEFINE R == Rest(l)
  <2>1. R \in SUBSET Load /\ (\A b, d \in R : b = d) /\ (\A b \in R : b.id = l.id)
        /\ loads' = (loads \ {l}) \cup R
    BY <1>2, <1>7
  <2> HIDE DEF R
  <2> QED BY <1>2, <1>6, <2>1, LoadMoves
<1>9. Fresh'
  <2> SUFFICES ASSUME patient'
               PROVE  /\ loads' = {} \/ posts' = {}
                      /\ \A a, b \in posts' : a = b
                      /\ \A a \in loads' : a.f = "history" /\ a.answer.state = "answered"
                                              => a.answer.version >= reported'
                      /\ (\A a \in loads' : a.f # "history") => (Table'.ok => Table'.version >= reported')
    BY DEF Fresh
  <2>1. posts = {}
    BY <1>1, <1>2 DEF Fresh
  <2>2. \A a \in loads' : a.f = "history" /\ a.answer.state = "answered" => a.answer.version >= reported'
    BY <1>1, <1>2, <1>7 DEF Fresh
  <2>3. CASE l.f = "history"
    <3>1. Table' = c
      BY <1>6, <2>3
    <3>2. c.ok => c.version >= reported
      BY <1>1, <1>2, <1>5, <2>3 DEF Fresh
    <3> QED BY <1>2, <2>1, <2>2, <3>1, <3>2
  <2>4. CASE l.f # "history"
    <3>1. Table' = Table
      BY <1>6, <2>4
    <3>2. (\A a \in loads' : a.f # "history") => (\A a \in loads : a.f # "history")
      BY <1>2, <2>4
    <3>3. (\A a \in loads : a.f # "history") => (Table.ok => Table.version >= reported)
      BY <1>1, <1>2 DEF Fresh
    <3> QED BY <1>2, <2>1, <2>2, <3>1, <3>2, <3>3
  <2> QED BY <2>3, <2>4
<1> QED BY <1>8, <1>9 DEF Inv

\* The submissions that the server has confirmed and the page has not reported.
LEMMA ConfirmedFinite ==
  ASSUME IsFiniteSet(posts)
  PROVE  IsFiniteSet(Confirmed) /\ Cardinality(Confirmed) \in Nat
<1>1. Confirmed \subseteq posts
  BY DEF Confirmed
<1>2. IsFiniteSet(Confirmed)
  BY <1>1, FS_Subset
<1> QED BY <1>2, FS_CardinalityType

\* The server confirms only what it has inserted, even if the answer is lost.
LEMMA AnswerPostStep ==
  ASSUME Inv, NEW p \in posts, AnswerPost(p)
  PROVE  Inv'
<1>1. Types /\ Room /\ Apart /\ Backed /\ Fresh
  BY DEF Inv
<1>2. /\ loads' = loads /\ patient' = patient /\ reported' = reported
      /\ clicks' = clicks /\ painted' = painted /\ p.answer = Waiting
  BY DEF AnswerPost
<1>3. PICK a \in Answers :
         /\ posts' = (posts \ {p}) \cup {Answered(p, a)}
         /\ records' \in {records, records + 1}
         /\ a.state = "answered" => records' = records + 1
  <2>1. PICK inserted \in {FALSE, p.f = "service-history"}, arrives \in BOOLEAN :
          /\ records' = IF inserted THEN records + 1 ELSE records
          /\ posts' = (posts \ {p}) \cup
                {Answered(p, IF ~arrives THEN Lost
                             ELSE IF inserted THEN Answer(records + 1)
                             ELSE [state |-> "refused", version |-> 0])}
    BY DEF AnswerPost
  <2>2. records + 1 \in Nat
    BY <1>1 DEF Types
  <2>3. CASE ~arrives
    BY <2>1, <2>3, AnswerFacts
  <2>4. CASE arrives /\ inserted
    BY <2>1, <2>2, <2>4, AnswerFacts
  <2>5. CASE arrives /\ ~inserted
    <3> DEFINE r == [state |-> "refused", version |-> 0]
    <3>1. r \in Answers /\ r.state # "answered"
      BY AnswerFacts
    <3>2. posts' = (posts \ {p}) \cup {Answered(p, r)} /\ records' = records
      BY <2>1, <2>5
    <3> HIDE DEF r
    <3> QED BY <3>1, <3>2
  <2> QED BY <2>3, <2>4, <2>5
<1> DEFINE x == Answered(p, a)
<1>4. p \in Post /\ IsFiniteSet(posts) /\ IsFiniteSet(loads) /\ reported \in Nat /\ records \in Nat
      /\ clicks \in Nat
  BY <1>1 DEF Types
<1>5. x \in Post /\ x.id = p.id /\ x.answer = a
  BY <1>4 DEF Post, Answered
<1> HIDE DEF x
<1>6. posts' = (posts \ {p}) \cup {x}
  BY <1>3 DEF x
<1>7. /\ IsFiniteSet((posts \ {p}) \cup {x}) /\ Cardinality((posts \ {p}) \cup {x}) \in Nat
      /\ Cardinality((posts \ {p}) \cup {x}) <= Cardinality(posts)
      /\ Cardinality(posts) \in Nat /\ Cardinality(loads) \in Nat
  BY <1>4, Counted, FS_CardinalityType
<1>8. Types'
  <2>1. posts' \subseteq Post
    BY <1>1, <1>5, <1>6 DEF Types
  <2>2. IsFiniteSet(posts')
    BY <1>6, <1>7, Zenon
  <2>3. records' \in Nat
    BY <1>3, <1>4
  <2> QED BY <1>1, <1>2, <2>1, <2>2, <2>3 DEF Types
<1>9. Room'
  <2>1. Cardinality(loads) + Cardinality((posts \ {p}) \cup {x}) <= clicks + 2
    BY <1>1, <1>4, <1>7 DEF Room
  <2> QED BY <1>2, <1>6, <2>1 DEF Room
<1>10. Apart'
  BY <1>1, <1>2, <1>5, <1>6 DEF Apart
<1>11. Backed'
  <2>1. IsFiniteSet(Confirmed) /\ Cardinality(Confirmed) \in Nat
    BY <1>4, ConfirmedFinite
  <2>2. CASE a.state = "answered"
    <3>1. Confirmed' \subseteq Confirmed \cup {x}
      BY <1>6 DEF Confirmed
    <3>2. IsFiniteSet(Confirmed \cup {x}) /\ Cardinality(Confirmed \cup {x}) \in Nat
          /\ Cardinality(Confirmed \cup {x}) <= Cardinality(Confirmed) + 1
      BY <2>1, Counted
    <3>3. IsFiniteSet(Confirmed') /\ Cardinality(Confirmed') <= Cardinality(Confirmed \cup {x})
      BY <3>1, <3>2, FS_Subset
    <3>4. Cardinality(Confirmed') \in Nat
      BY <3>3, FS_CardinalityType
    <3>5. reported + Cardinality(Confirmed') <= records + 1
      BY <1>1, <1>4, <2>1, <3>2, <3>3, <3>4 DEF Backed
    <3> QED BY <1>2, <1>3, <2>2, <3>5 DEF Backed
  <2>3. CASE a.state # "answered"
    <3>1. Confirmed' \subseteq Confirmed
      BY <1>5, <1>6, <2>3 DEF Confirmed
    <3>2. IsFiniteSet(Confirmed') /\ Cardinality(Confirmed') <= Cardinality(Confirmed)
      BY <2>1, <3>1, FS_Subset
    <3>3. Cardinality(Confirmed') \in Nat
      BY <3>2, FS_CardinalityType
    <3>4. reported + Cardinality(Confirmed') <= records
      BY <1>1, <1>4, <2>1, <3>2, <3>3 DEF Backed
    <3>5. records <= records' /\ records' \in Nat
      BY <1>3, <1>4
    <3>6. reported + Cardinality(Confirmed') <= records'
      BY <1>4, <3>3, <3>4, <3>5
    <3> QED BY <1>2, <3>6 DEF Backed
  <2> QED BY <2>2, <2>3
<1>12. Fresh'
  <2>1. patient => posts = {p} /\ loads = {}
    BY <1>1 DEF Fresh
  <2>2. patient => posts' = {x}
    BY <1>6, <2>1
  <2> QED BY <1>1, <1>2, <2>1, <2>2 DEF Fresh, Table
<1> QED BY <1>8, <1>9, <1>10, <1>11, <1>12 DEF Inv

\* A confirmed record becomes a reported one, and the history is loaded again.
LEMMA PostSucceedsStep ==
  ASSUME Inv, NEW p \in posts, PostSucceeds(p)
  PROVE  Inv'
<1> DEFINE x == Started("history", FreshId)
<1>1. Types /\ Room /\ Apart /\ Backed /\ Fresh
  BY DEF Inv
<1>2. /\ patient' = patient /\ records' = records /\ reported' = reported + 1
      /\ clicks' = clicks /\ painted' = painted /\ p.answer.state = "answered"
      /\ posts' = posts \ {p} /\ loads' = loads \cup {x}
  BY DEF PostSucceeds
<1>3. x \in Load /\ x.answer.state = "waiting" /\ x.f = "history"
      /\ \A l \in loads \cup posts : l.id # x.id
  BY StartedFacts, Tabular DEF Tables
<1> HIDE DEF x
<1>4. IsFiniteSet(posts) /\ IsFiniteSet(loads) /\ reported \in Nat /\ records \in Nat /\ clicks \in Nat
  BY <1>1 DEF Types
<1>5. /\ IsFiniteSet(posts \ {p}) /\ Cardinality(posts \ {p}) \in Nat
      /\ Cardinality(posts \ {p}) = Cardinality(posts) - 1
      /\ IsFiniteSet(loads \cup {x}) /\ Cardinality(loads \cup {x}) \in Nat
      /\ Cardinality(loads \cup {x}) <= Cardinality(loads) + 1
      /\ Cardinality(posts) \in Nat /\ Cardinality(loads) \in Nat
  BY <1>4, Counted
<1>6. Types'
  <2>1. loads' \subseteq Load /\ posts' \subseteq Post
    BY <1>1, <1>2, <1>3 DEF Types
  <2>2. IsFiniteSet(loads') /\ IsFiniteSet(posts')
    BY <1>2, <1>5, Zenon
  <2>3. reported' \in Nat /\ records' \in Nat
    BY <1>2, <1>4
  <2> QED BY <1>1, <1>2, <2>1, <2>2, <2>3 DEF Types
<1>7. Room'
  <2>1. Cardinality(loads \cup {x}) + Cardinality(posts \ {p}) <= clicks + 2
    BY <1>1, <1>4, <1>5 DEF Room
  <2> QED BY <1>2, <2>1 DEF Room
<1>8. Apart'
  BY <1>1, <1>2, <1>3 DEF Apart
<1>9. Backed'
  <2>1. IsFiniteSet(Confirmed) /\ Cardinality(Confirmed) \in Nat /\ p \in Confirmed
    BY <1>2, <1>4, ConfirmedFinite DEF Confirmed
  <2>2. Confirmed' = Confirmed \ {p}
    BY <1>2 DEF Confirmed
  <2>3. Cardinality(Confirmed \ {p}) = Cardinality(Confirmed) - 1
    BY <2>1, FS_RemoveElement
  <2>4. (reported + 1) + Cardinality(Confirmed \ {p}) <= records
    BY <1>1, <1>4, <2>1, <2>3 DEF Backed
  <2> QED BY <1>2, <2>2, <2>4 DEF Backed
<1>10. Fresh'
  <2>1. patient => posts = {p} /\ loads = {}
    BY <1>1 DEF Fresh
  <2>2. patient => posts' = {} /\ loads' = {x}
    BY <1>2, <2>1
  <2> QED BY <1>2, <1>3, <2>2 DEF Fresh
<1> QED BY <1>6, <1>7, <1>8, <1>9, <1>10 DEF Inv

\* A submission that failed reports nothing.
LEMMA PostFailsStep ==
  ASSUME Inv, NEW p \in posts, PostFails(p)
  PROVE  Inv'
<1>1. Types /\ Room /\ Apart /\ Backed /\ Fresh
  BY DEF Inv
<1>2. /\ patient' = patient /\ records' = records /\ reported' = reported
      /\ clicks' = clicks /\ painted' = painted /\ posts' = posts \ {p} /\ loads' = loads
      /\ p.answer.state # "answered"
  BY DEF PostFails
<1>3. IsFiniteSet(posts) /\ IsFiniteSet(loads) /\ clicks \in Nat
  BY <1>1 DEF Types
<1>4. /\ IsFiniteSet(posts \ {p}) /\ Cardinality(posts \ {p}) \in Nat
      /\ Cardinality(posts \ {p}) = Cardinality(posts) - 1
      /\ Cardinality(posts) \in Nat /\ Cardinality(loads) \in Nat
  BY <1>3, Counted
<1>5. Types'
  BY <1>1, <1>2, <1>4 DEF Types
<1>6. Room'
  <2>1. Cardinality(loads) + Cardinality(posts \ {p}) <= clicks + 2
    BY <1>1, <1>3, <1>4 DEF Room
  <2> QED BY <1>2, <2>1 DEF Room
<1>7. Apart'
  BY <1>1, <1>2 DEF Apart
<1>8. Backed'
  <2>1. Confirmed' = Confirmed
    BY <1>2 DEF Confirmed
  <2> QED BY <1>1, <1>2, <2>1 DEF Backed
<1>9. Fresh'
  BY <1>1, <1>2 DEF Fresh, Table
<1> QED BY <1>5, <1>6, <1>7, <1>8, <1>9 DEF Inv

\* Every step of the page, the network and the server keeps the invariant.
LEMMA NextInv == Inv /\ [Next]_vars => Inv'
<1> SUFFICES ASSUME Inv, [Next]_vars PROVE Inv'
  OBVIOUS
<1>1. ASSUME NEW tab \in Tabs, ShowTab(tab) PROVE Inv'
  BY <1>1, ShowTabStep
<1>2. CASE SubmitDevice \/ SubmitService
  <2>1. PICK f \in {"devices", "service-history"} :
           Click /\ posts' = posts \cup {Started(f, FreshId)} /\ loads' = loads
    BY <1>2 DEF SubmitDevice, SubmitService
  <2> QED BY <2>1, SubmitStep
<1>3. ASSUME NEW l \in loads, Script(l) PROVE Inv'
  BY <1>3, AnswerLoadStep, ScriptStep DEF Script
<1>4. ASSUME NEW p \in posts, Submission(p) PROVE Inv'
  BY <1>4, AnswerPostStep, PostSucceedsStep, PostFailsStep DEF Submission
<1>5. CASE ShowDeviceForm \/ HideDeviceForm \/ Timeout \/ UNCHANGED vars
  <2>1. UNCHANGED <<patient, records, loads, posts, painted, reported, clicks>>
    BY <1>5 DEF ShowDeviceForm, HideDeviceForm, Timeout, vars
  <2> QED BY <2>1 DEF Inv, Types, Room, Apart, Backed, Confirmed, Fresh, Table
<1> QED BY <1>1, <1>2, <1>3, <1>4, <1>5 DEF Next

\* The inductive invariant holds in every reachable state.
THEOREM InvHolds == Spec => []Inv
BY InitInv, NextInv, PTL DEF Spec

\* For any number of clicks, functions under way, lost answers and failed insertions:
\* the page never reports more records than the database has, so it reports no record
\* that was refused or whose answer got lost.
THEOREM OnlyTrueReports == Spec => []ReportsTrue
<1>1. Inv => ReportsTrue
  <2> SUFFICES ASSUME Inv PROVE reported <= records
    BY DEF ReportsTrue
  <2>1. reported \in Nat /\ records \in Nat /\ IsFiniteSet(posts)
    BY DEF Inv, Types
  <2>2. Cardinality(Confirmed) \in Nat
    BY <2>1, ConfirmedFinite
  <2> QED BY <2>1, <2>2 DEF Inv, Backed
<1> QED BY <1>1, InvHolds, PTL

\* For any number of clicks and faults: when the page of a user who waits is at rest,
\* the history shows every record that was reported, unless its last load failed.
THEOREM PatientSeesReports == Spec => []HistoryFreshIfPatient
<1>1. Inv => HistoryFreshIfPatient
  BY DEF Inv, Fresh, Table, HistoryFreshIfPatient, HistoryFresh, Quiet
<1> QED BY <1>1, InvHolds, PTL

\* For any number of clicks: no two functions under way share an id, and there are at
\* most two more than there were clicks, so an id is always free (the CHOOSE of FreshId
\* has a value) and the model runs every function that the page has started.
THEOREM UnderWayApart == Spec => [](Apart /\ Room)
<1>1. Inv => Apart /\ Room
  BY DEF Inv
<1> QED BY <1>1, InvHolds, PTL

=============================================================================
